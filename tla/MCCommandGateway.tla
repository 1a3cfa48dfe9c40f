-------------------------- MODULE MCCommandGateway --------------------------
(* Values of CommandGateway's constants for TLC.                           *)
EXTENDS CommandGateway, TLC

CONSTANTS q1, q2, t1, k1, b1, b2, f1, f2

TwoRequests == {q1, q2}
OneRequest  == {q1}
MCTenants   == {t1}
MCCommands  == {k1}
TwoContents == {b1, b2}
OneContent  == {b1}
TwoForms    == {f1, f2}
OneForm     == {f1}
Recovery    == {"BeginRecovery"}
PlacedHere  == {"control", "mcp"}
ThreeRoutes == {"BeginTransfer", "RegisterSource", "CreateToolCall"}

RetrySymmetry ==
    Permutations(TwoRequests) \cup Permutations(TwoContents) \cup Permutations(TwoForms)
=============================================================================
