--------------------------- MODULE MCTrustReload ---------------------------
(* Values of the constants of TrustReload for TLC: a rotation from root r1 *)
(* over a transition bundle to root r2 with a new key pair that is not     *)
(* valid yet and may expire later, in force or not.                        *)
EXTENDS TrustReload, TLC

CONSTANTS p1, p2, r1, r2, poller, k1

MCPairs    == {p1, p2}
MCBegan    == p1 :> "valid" @@ p2 :> "early"
MCRoots    == {r1, r2}
Old        == [cert |-> p1, key |-> p1, ca |-> {r1}]
Transition == [cert |-> p1, key |-> p1, ca |-> {r1, r2}]
New        == [cert |-> p2, key |-> p2, ca |-> {r2}]
MCVersions == {Old, Transition, New}
OneCaller  == {poller}
OneConn    == {k1}
=============================================================================
