SPECIFICATION Spec
CONSTANTS
  q1 = q1
  q2 = q2
  t1 = t1
  k1 = k1
  b1 = b1
  b2 = b2
  f1 = f1
  f2 = f2
  Requests <- TwoRequests
  Tenants <- MCTenants
  Commands <- MCCommands
  Contents <- TwoContents
  Faults = {"malformed"}
  Forms <- TwoForms
  Routes <- Recovery
  Placed <- PlacedHere
SYMMETRY RetrySymmetry
INVARIANTS
  OneEffect
  CreatedOnce
PROPERTIES
  PromiseKept
