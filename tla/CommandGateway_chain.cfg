SPECIFICATION FairSpec
CONSTANTS
  q1 = q1
  q2 = q2
  t1 = t1
  k1 = k1
  b1 = b1
  b2 = b2
  f1 = f1
  f2 = f2
  Requests <- OneRequest
  Tenants <- MCTenants
  Commands <- MCCommands
  Contents <- OneContent
  Faults = {"empty", "malformed", "offContract"}
  Forms <- OneForm
  Routes <- ThreeRoutes
  Placed <- PlacedHere
INVARIANTS
  TypeOK
  RefusalIsFinal
  RetryAdvice
  OneAnswer
PROPERTIES
  EveryRequestAnswered
