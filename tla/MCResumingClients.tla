-------------------------- MODULE MCResumingClients --------------------------
(* Values of the constants of ResumingClients for TLC.                     *)
EXTENDS ResumingClients

CONSTANTS s1

\* One request slot and its client: the whole protocol of one stream, over
\* as many connections as the client opens.
OneStream == {s1}
MCSubjects == {"ann", "bob"}
OneSubjectOf == [s \in OneStream |-> "ann"]
=============================================================================
