--------------------------- MODULE MCEventStreams ---------------------------
(* Values of the constants of EventStreams for TLC.                        *)
EXTENDS EventStreams, TLC

CONSTANTS s1, s2

\* One request slot: the whole protocol of one stream.
OneStream == {s1}
\* Two concurrent requests of the same principal.
TwoStreams == {s1, s2}
MCSubjects == {"ann", "bob"}
OneSubjectOf == [s \in OneStream |-> "ann"]
SameSubjectOf == [s \in TwoStreams |-> "ann"]

\* The two slots of the same principal are interchangeable.
SlotSymmetry == Permutations(TwoStreams)
=============================================================================
