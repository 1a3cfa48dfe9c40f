--------------------------- MODULE ResumingClients ---------------------------
(***************************************************************************)
(* The event streams with the clients that read them: each slot's client   *)
(* asks, reads frames of the connection at its own pace, loses the         *)
(* connection, and asks again from the last event id it read. sse.go:222   *)
(* says what this is for: "the client resumes from its last event id after *)
(* the retry interval and loses nothing (API-04)". The clients are outside *)
(* src/; a step of EventStreams is never restricted by them.               *)
(***************************************************************************)
EXTENDS EventStreams

VARIABLES base,     \* the event after which what the client holds begins
          known,    \* the events it holds, in the order it read them
          read,     \* frames it read from the present connection
          honored   \* Control could honor the cursor when the client asked

readerVars  == <<base, known, read, honored>>
clientsVars == <<vars, readerVars>>

\* The last event id the client has seen.
LastEventID(s) == base[s] + Len(known[s])

ClientsInit ==
    /\ Init
    /\ base = [s \in Streams |-> 0]
    /\ known = [s \in Streams |-> <<>>]
    /\ read = [s \in Streams |-> 0]
    /\ honored = [s \in Streams |-> TRUE]

\* A request: refused for its cursor, resuming from the last event id, or
\* naming another cursor, with which the client starts over.
Asks(s) ==
    /\ Request(s)
    /\ \/ /\ resp'[s] = "invalid"
          /\ UNCHANGED <<base, known, honored>>
       \/ /\ resp'[s] # "invalid"
          /\ after'[s] = LastEventID(s)
          /\ honored' = [honored EXCEPT ![s] = ~CannotHonor(after'[s])]
          /\ UNCHANGED <<base, known>>
       \/ /\ resp'[s] # "invalid"
          /\ after'[s] # LastEventID(s)
          /\ base' = [base EXCEPT ![s] = after'[s]]
          /\ known' = [known EXCEPT ![s] = <<>>]
          /\ honored' = [honored EXCEPT ![s] = ~CannotHonor(after'[s])]
    /\ UNCHANGED read

\* The client reads the next event on the connection, which may still be
\* under way when the handler is past it or the client is about to leave.
ReadsEvent(s) ==
    /\ read[s] < Len(wire[s])
    /\ known' = [known EXCEPT ![s] = Append(@, wire[s][read[s] + 1])]
    /\ read' = [read EXCEPT ![s] = @ + 1]
    /\ UNCHANGED <<vars, base, honored>>

\* The client reads the reset frame: it reads the operation afresh and
\* continues from the event that reading covers.
ReadsReset(s) ==
    /\ final[s] = "reset"
    /\ read[s] = Len(wire[s])
    /\ \E n \in Floor..committed : base' = [base EXCEPT ![s] = n]
    /\ known' = [known EXCEPT ![s] = <<>>]
    /\ read' = [read EXCEPT ![s] = @ + 1]
    /\ UNCHANGED <<vars, honored>>

\* The connection is gone, with what the client had not read of it.
Disconnects(s) ==
    /\ Finish(s)
    /\ read' = [read EXCEPT ![s] = 0]
    /\ UNCHANGED <<base, known, honored>>

ClientsNext ==
    \/ \E s \in Streams : \/ Asks(s) \/ ReadsEvent(s) \/ ReadsReset(s) \/ Disconnects(s)
                          \/ Handler(s) /\ UNCHANGED readerVars
                          \/ Heartbeat(s) /\ UNCHANGED readerVars
                          \/ Producer(s) /\ UNCHANGED readerVars
                          \/ ClientLeaves(s) /\ UNCHANGED readerVars
    \/ (Commit \/ Terminate \/ Stop) /\ UNCHANGED readerVars

ClientsSpec == ClientsInit /\ [][ClientsNext]_clientsVars

\* The fairness of EventStreams; nothing is assumed of the clients.
FairClientsSpec == ClientsSpec /\ Fairness
----------------------------------------------------------------------------
Feed == INSTANCE ResumableFeed
          WITH Readers <- Streams, Cursors <- 0..(MaxEvents + 1), log <- committed

\* Over any number of connections, broken writes, drains, slow consumers and
\* resets, a client's reading implements the abstract feed: it learns the next
\* event and no other, keeps what it holds when it resumes, and is sent back
\* only when its cursor could not be honored (sse.go:222, client.go:276).
FeedKept == Feed!Spec
=============================================================================
