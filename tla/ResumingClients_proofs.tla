------------------------ MODULE ResumingClients_proofs ------------------------
(* Proof that the clients of the event streams implement ResumableFeed, for *)
(* any number of clients and connections, any buffer and any log.           *)
EXTENDS ResumingClients, EventStreams_proofs

\* The clients restrict no step of the streams: every result about
\* EventStreams holds with them.
LEMMA StepProjects == [ClientsNext]_clientsVars => [Next]_vars
<1> SUFFICES ASSUME ClientsNext PROVE [Next]_vars
  BY DEF clientsVars
<1>1. ASSUME NEW s \in Streams, Asks(s) \/ Disconnects(s) PROVE Next
  BY <1>1 DEF Asks, Disconnects, Next
<1>2. ASSUME NEW s \in Streams, ReadsEvent(s) \/ ReadsReset(s) PROVE UNCHANGED vars
  BY <1>2 DEF ReadsEvent, ReadsReset
<1>3. ASSUME NEW s \in Streams, Handler(s) \/ Heartbeat(s) \/ Producer(s) \/ ClientLeaves(s)
      PROVE Next
  BY <1>3 DEF Next
<1>4. Commit \/ Terminate \/ Stop => Next
  BY DEF Next
<1> QED
  BY <1>1, <1>2, <1>3, <1>4 DEF ClientsNext

\* With their clients the streams still behave as EventStreams says, so its
\* theorems hold of them too.
THEOREM StreamsAreUnchanged == ClientsSpec => Spec
<1>1. ClientsInit => Init
  BY DEF ClientsInit
<1> QED
  BY <1>1, StepProjects, PTL DEF ClientsSpec, Spec
-----------------------------------------------------------------------------
(* What is on its way is committed and follows an honored cursor.          *)

ServedInv(s) ==
    /\ ppc[s] \in {"header", "recv", "emit"} \/ admitted[s] =>
         Floor <= after[s] /\ cur[s] <= committed
    /\ \A i \in 1..Len(wire[s]) : wire[s][i] <= committed
    /\ \A i \in 1..Len(frames[s]) : frames[s][i] <= committed
    /\ hand[s] <= committed

LEMMA ServedStep ==
  ASSUME TypeInv, NEW s \in Streams, JoinInv(s), FlowInv(s), OutcomeInv(s), ServedInv(s),
         StreamStep(s)
  PROVE  ServedInv(s)'
<1>1. ASSUME wire'[s] = wire[s], frames'[s] = frames[s], hand'[s] \in {0, hand[s]},
             cur'[s] = cur[s], after'[s] = after[s], committed' = committed,
             admitted'[s] => admitted[s] \/ ppc[s] = "header",
             ppc'[s] \in {"header", "recv", "emit"} =>
               ppc[s] \in {"header", "recv", "emit"} \/ (Floor <= after[s] /\ cur[s] <= committed)
      PROVE  ServedInv(s)'
  <2>1. 0 <= committed
    BY DEF TypeInv, TypeOK
  <2> QED
    BY <1>1, <2>1 DEF ServedInv
<1> USE DEF TypeInv, TypeOK, At, Goto, limiterVars, controlVars, responseVars, handlerVars,
        producerVars, clientVars
<1>2. CASE Request(s) \/ Acquire(s)
  <2>1. /\ ~admitted[s] /\ UNCHANGED <<wire, frames, hand, committed, admitted>>
        /\ ppc'[s] \notin {"header", "recv", "emit"}
    BY <1>2 DEF Request, Acquire, JoinInv, Early, FlowInv
  <2> HIDE DEF TypeInv, TypeOK
  <2> QED
    BY <2>1 DEF ServedInv
<1>3. CASE Heartbeat(s) \/ ClientLeaves(s)
  BY <1>1, <1>3 DEF Heartbeat, ClientLeaves
<1>4. CASE Finish(s)
  <2>1. /\ wire'[s] = <<>> /\ frames'[s] = <<>> /\ hand'[s] = hand[s]
        /\ ~admitted'[s] /\ ppc'[s] = "none" /\ committed' = committed
    BY <1>4 DEF Finish
  <2> HIDE DEF TypeInv, TypeOK
  <2> QED
    BY <2>1 DEF ServedInv
<1>5. CASE Authorized(s) \/ AuthorizeFails(s) \/ AcquireRefused(s)
  BY <1>1, <1>5 DEF Authorized, AuthorizeFails, AcquireRefused
<1>6. CASE AdmissionAdmitted(s) \/ AdmissionEnded(s) \/ AdmissionDraining(s) \/ ClientWentAway(s)
  BY <1>1, <1>6 DEF AdmissionAdmitted, AdmissionEnded, AdmissionDraining, ClientWentAway
<1>7. CASE WriteSucceeds(s)
  <2>1. /\ hand'[s] = 0 /\ 0 <= committed
        /\ UNCHANGED <<frames, committed, admitted, ppc, cur, after>>
    BY <1>7 DEF WriteSucceeds
  <2>2. wire'[s] = wire[s] \/ wire'[s] = Append(wire[s], hand[s])
    BY <1>7 DEF WriteSucceeds
  <2>3. wire[s] \in Seq(1..MaxEvents)
    OBVIOUS
  <2> HIDE DEF TypeInv, TypeOK
  <2>4. \A i \in 1..Len(wire'[s]) : wire'[s][i] <= committed
    <3>1. CASE wire'[s] = wire[s]
      BY <3>1 DEF ServedInv
    <3>2. CASE wire'[s] = Append(wire[s], hand[s])
      <4>1. \A i \in 1..(Len(wire[s]) + 1) : wire'[s][i] = IF i = Len(wire[s]) + 1 THEN hand[s] ELSE wire[s][i]
        BY <2>3, <3>2
      <4>2. Len(wire'[s]) = Len(wire[s]) + 1 /\ Len(wire[s]) \in Nat
        BY <2>3, <3>2
      <4> QED
        BY <4>1, <4>2 DEF ServedInv
    <3> QED
      BY <2>2, <3>1, <3>2
  <2> QED
    BY <2>1, <2>4 DEF ServedInv
<1>8. CASE WriteFails(s)
  BY <1>1, <1>8 DEF WriteFails
<1>9. CASE TakeFrame(s)
  <2>1. /\ hand'[s] = Head(frames[s]) /\ frames'[s] = Tail(frames[s]) /\ frames[s] # <<>>
        /\ UNCHANGED <<wire, committed, admitted, ppc, cur, after>>
    BY <1>9 DEF TakeFrame
  <2>2. frames[s] \in Seq(1..MaxEvents)
    OBVIOUS
  <2> HIDE DEF TypeInv, TypeOK
  <2>3. /\ Head(frames[s]) = frames[s][1] /\ 1 \in 1..Len(frames[s])
        /\ \A i \in 1..Len(frames'[s]) : /\ frames'[s][i] = frames[s][i + 1]
                                         /\ i + 1 \in 1..Len(frames[s])
    BY <2>1, <2>2
  <2> QED
    BY <2>1, <2>3 DEF ServedInv
<1>10. CASE StreamEnded(s) \/ Drained(s) \/ LoopDraining(s)
  BY <1>1, <1>10 DEF StreamEnded, Drained, LoopDraining
<1>11. CASE Cancel(s) \/ Join(s) \/ Release(s)
  BY <1>1, <1>11 DEF Cancel, Join, Release
<1>12. CASE ListResets(s) \/ CallFails(s) \/ EndsWithoutHeader(s) \/ RecvEOF(s)
           \/ EmitCancelled(s) \/ EmitGraceExpires(s)
  BY <1>1, <1>12 DEF ListResets, CallFails, EndsWithoutHeader, RecvEOF, EmitCancelled,
                     EmitGraceExpires, Yields
<1>13. CASE ListHonors(s)
  <2>1. Floor <= after[s] /\ cur[s] <= committed
    BY <1>13, ConstantsAssumption DEF ListHonors, CannotHonor, OutcomeInv
  <2>2. UNCHANGED <<wire, frames, hand, cur, after, committed, admitted>>
    BY <1>13 DEF ListHonors, Moves
  <2> QED
    BY <1>1, <2>1, <2>2
<1>14. CASE HeaderAdmits(s)
  BY <1>1, <1>14 DEF HeaderAdmits, Moves
<1>15. CASE RecvEvent(s)
  <2>1. /\ cur'[s] = cur[s] + 1 /\ cur[s] < committed /\ ppc[s] = "recv"
        /\ UNCHANGED <<wire, frames, hand, after, committed, admitted>>
    BY <1>15 DEF RecvEvent, Moves
  <2>2. cur[s] \in Nat /\ committed \in Nat
    OBVIOUS
  <2> HIDE DEF TypeInv, TypeOK
  <2> QED
    BY <2>1, <2>2 DEF ServedInv
<1>16. CASE EmitSends(s)
  <2>1. /\ frames'[s] = Append(frames[s], cur[s]) /\ ppc[s] = "emit"
        /\ UNCHANGED <<wire, hand, cur, after, committed, admitted>>
    BY <1>16 DEF EmitSends, Moves
  <2>2. frames[s] \in Seq(1..MaxEvents)
    OBVIOUS
  <2> HIDE DEF TypeInv, TypeOK
  <2>3. Len(frames'[s]) = Len(frames[s]) + 1 /\ Len(frames[s]) \in Nat
    BY <2>1, <2>2
  <2>4. \A i \in 1..(Len(frames[s]) + 1) :
          frames'[s][i] = IF i = Len(frames[s]) + 1 THEN cur[s] ELSE frames[s][i]
    BY <2>1, <2>2
  <2> QED
    BY <2>1, <2>3, <2>4 DEF ServedInv
<1> QED
  BY <1>2, <1>3, <1>4, <1>5, <1>6, <1>7, <1>8, <1>9, <1>10, <1>11, <1>12, <1>13, <1>14, <1>15,
     <1>16 DEF StreamStep, Handler, Producer

LEMMA NextServed ==
  ASSUME TypeInv, StreamInv, ClosingInv, [Next]_vars, \A s \in Streams : ServedInv(s)
  PROVE  \A s \in Streams : ServedInv(s)'
<1> TAKE t \in Streams
<1>1. JoinInv(t) /\ FlowInv(t) /\ OutcomeInv(t) /\ ServedInv(t)
  BY DEF StreamInv, ClosingInv
<1>2. ASSUME NEW s \in Streams, StreamStep(s) PROVE ServedInv(t)'
  <2>1. CASE s = t
    BY <1>1, <1>2, <2>1, ServedStep
  <2>2. CASE s # t
    BY <1>1, <1>2, <2>2, Locality DEF Unmoved, ServedInv
  <2> QED
    BY <2>1, <2>2
<1>3. CASE Commit
  <2>1. committed \in Nat /\ committed' = committed + 1 /\ MaxEvents \in Nat
    BY <1>3, ConstantsAssumption DEF Commit, TypeInv, TypeOK
  <2>2. UNCHANGED <<wire, frames, hand, cur, after, admitted, ppc>>
    BY <1>3 DEF Commit, handlerVars, responseVars, producerVars
  <2>3. /\ wire[t] \in Seq(Nat) /\ frames[t] \in Seq(Nat) /\ hand[t] \in Nat /\ cur[t] \in Nat
    BY ConstantsAssumption DEF TypeInv, TypeOK
  <2>4. \A n \in Nat : n <= committed => n <= committed'
    BY <2>1
  <2>5. \A i \in 1..Len(wire[t]) : wire[t][i] <= committed'
    <3> TAKE i \in 1..Len(wire[t])
    <3>1. wire[t][i] \in Nat /\ wire[t][i] <= committed
      BY <1>1, <2>3 DEF ServedInv
    <3> QED
      BY <2>4, <3>1
  <2>6. \A i \in 1..Len(frames[t]) : frames[t][i] <= committed'
    <3> TAKE i \in 1..Len(frames[t])
    <3>1. frames[t][i] \in Nat /\ frames[t][i] <= committed
      BY <1>1, <2>3 DEF ServedInv
    <3> QED
      BY <2>4, <3>1
  <2> QED
    BY <1>1, <2>2, <2>3, <2>4, <2>5, <2>6 DEF ServedInv
<1>4. CASE Terminate \/ Stop \/ UNCHANGED vars
  BY <1>1, <1>4 DEF Terminate, Stop, vars, ServedInv, controlVars, handlerVars, responseVars,
                    producerVars
<1> QED
  BY <1>2, <1>3, <1>4 DEF Next, StreamStep
-----------------------------------------------------------------------------
(* The client and its connection.                                          *)

ReaderTypeOK ==
    /\ base \in [Streams -> 0..(MaxEvents + 1)]
    /\ known \in [Streams -> Seq(1..MaxEvents)]
    /\ read \in [Streams -> Nat]
    /\ honored \in [Streams -> BOOLEAN]

\* The request of the slot was not refused for its cursor.
Asked(s) == hpc[s] # "idle" /\ resp[s] # "invalid"

\* Until it reads a reset frame the client is as far as the frames it read
\* of this connection, and a reset only answers a cursor that could not be
\* honored when it was asked for.
ReaderInv(s) ==
    /\ read[s] <= Len(wire[s]) + (IF final[s] = "reset" THEN 1 ELSE 0)
    /\ Asked(s) /\ read[s] <= Len(wire[s]) => LastEventID(s) = after[s] + read[s]
    /\ Asked(s) /\ honored[s] => ~CannotHonor(after[s])
    /\ Outcome(s) = "reset" => ~honored[s]
    /\ resp[s] = "invalid" => hpc[s] = "returned" /\ wire[s] = <<>>

\* Nothing the client can see of the slot changed.
SameView(s) ==
    /\ wire'[s] = wire[s] /\ final'[s] = final[s] /\ after'[s] = after[s]
    /\ Asked(s)' => Asked(s)
    /\ resp'[s] = "invalid" => resp[s] = "invalid" /\ hpc'[s] = hpc[s]
    /\ Outcome(s)' = "reset" => Outcome(s) = "reset"
    /\ committed' = committed

SameReader(s) ==
    /\ base'[s] = base[s] /\ known'[s] = known[s] /\ read'[s] = read[s]
    /\ honored'[s] = honored[s]

LEMMA ReaderKept ==
  ASSUME NEW s \in Streams, ReaderInv(s), SameView(s), SameReader(s)
  PROVE  ReaderInv(s)'
<1>1. LastEventID(s)' = LastEventID(s) /\ (CannotHonor(after[s]))' = CannotHonor(after[s])
  BY DEF SameView, SameReader, LastEventID, CannotHonor
<1> QED
  BY <1>1 DEF ReaderInv, SameView, SameReader

\* A step of the handler other than a write changes nothing a client sees.
LEMMA HandlerUnseen ==
  ASSUME TypeInv, NEW s \in Streams, FlowInv(s), ReaderInv(s),
         (Handler(s) /\ ~WriteSucceeds(s)) \/ Heartbeat(s) \/ ClientLeaves(s)
  PROVE  SameView(s)
<1> USE DEF TypeInv, TypeOK, At, Goto, limiterVars, controlVars, responseVars, handlerVars,
        producerVars, clientVars, SameView, Asked, Outcome, ReaderInv
<1>1. CASE Authorized(s)
  BY <1>1 DEF Authorized
<1>2. CASE AuthorizeFails(s) \/ AcquireRefused(s)
  BY <1>2 DEF AuthorizeFails, AcquireRefused
<1>3. CASE Acquire(s)
  BY <1>3 DEF Acquire
<1>4. CASE AdmissionAdmitted(s)
  BY <1>4 DEF AdmissionAdmitted
<1>5. CASE AdmissionEnded(s)
  <2>1. Outcome(s)' = done[s]
    BY <1>5 DEF AdmissionEnded
  <2>2. Outcome(s) = done[s]
    BY <1>5 DEF AdmissionEnded, FlowInv
  <2>3. /\ wire'[s] = wire[s] /\ final'[s] = final[s] /\ after'[s] = after[s]
        /\ hpc'[s] # "idle" /\ hpc[s] # "idle" /\ hpc[s] # "returned" /\ committed' = committed
        /\ resp'[s] \in {"ok", "error", resp[s]}
    BY <1>5 DEF AdmissionEnded
  <2> HIDE DEF TypeInv, TypeOK, Outcome
  <2> QED
    BY <2>1, <2>2, <2>3
<1>6. CASE AdmissionDraining(s)
  BY <1>6 DEF AdmissionDraining
<1>7. CASE ClientWentAway(s)
  BY <1>7 DEF ClientWentAway
<1>8. CASE WriteFails(s)
  BY <1>8 DEF WriteFails, AfterWrite, WritePC
<1>9. CASE TakeFrame(s)
  BY <1>9 DEF TakeFrame
<1>10. CASE StreamEnded(s)
  <2>1. Outcome(s)' = done[s]
    BY <1>10 DEF StreamEnded
  <2>2. Outcome(s) = done[s]
    BY <1>10 DEF StreamEnded, FlowInv
  <2>3. /\ wire'[s] = wire[s] /\ final'[s] = final[s] /\ after'[s] = after[s]
        /\ hpc'[s] # "idle" /\ hpc[s] # "idle" /\ hpc[s] # "returned" /\ committed' = committed
        /\ resp'[s] \in {"ok", "error", resp[s]}
    BY <1>10 DEF StreamEnded
  <2> HIDE DEF TypeInv, TypeOK, Outcome
  <2> QED
    BY <2>1, <2>2, <2>3
<1>11. CASE Drained(s)
  BY <1>11 DEF Drained
<1>12. CASE LoopDraining(s) \/ Heartbeat(s)
  BY <1>12 DEF LoopDraining, Heartbeat
<1>13. CASE Cancel(s)
  BY <1>13 DEF Cancel
<1>14. CASE Join(s)
  BY <1>14 DEF Join
<1>15. CASE Release(s)
  BY <1>15 DEF Release
<1>16. CASE ClientLeaves(s)
  BY <1>16 DEF ClientLeaves
<1> QED
  BY <1>1, <1>2, <1>3, <1>4, <1>5, <1>6, <1>7, <1>8, <1>9, <1>10, <1>11, <1>12, <1>13, <1>14,
     <1>15, <1>16 DEF Handler

\* A write puts a frame before the client.
LEMMA WriteReader ==
  ASSUME TypeInv, ReaderTypeOK, NEW s \in Streams, FlowInv(s), ReaderInv(s), SameReader(s),
         WriteSucceeds(s)
  PROVE  ReaderInv(s)'
<1> USE DEF TypeInv, TypeOK, At, Goto, limiterVars, controlVars, responseVars, handlerVars,
        producerVars, clientVars
<1>1. /\ hpc[s] \in WritePC /\ after'[s] = after[s] /\ resp'[s] = resp[s]
      /\ Outcome(s)' = Outcome(s) /\ committed' = committed
  BY DEF WriteSucceeds, Outcome
<1>2. final[s] = "none" /\ hpc[s] # "idle" /\ hpc[s] # "returned"
  BY <1>1 DEF WritePC, FlowInv
<1>3. Len(wire[s]) <= Len(wire'[s]) /\ Len(wire[s]) \in Nat /\ Len(wire'[s]) \in Nat
  <2>1. wire'[s] = wire[s] \/ wire'[s] = Append(wire[s], hand[s])
    BY DEF WriteSucceeds
  <2>2. wire[s] \in Seq(1..MaxEvents)
    OBVIOUS
  <2> QED
    BY <2>1, <2>2
<1>4. read[s] \in Nat /\ read[s] <= Len(wire[s])
  BY <1>2, <1>3 DEF ReaderTypeOK, ReaderInv
<1>5. LastEventID(s)' = LastEventID(s) /\ (CannotHonor(after[s]))' = CannotHonor(after[s])
  BY <1>1 DEF SameReader, LastEventID, CannotHonor
<1>6. resp[s] # "invalid"
  BY <1>2 DEF ReaderInv
<1> HIDE DEF TypeInv, TypeOK
<1>7. read'[s] = read[s] /\ honored'[s] = honored[s]
  BY DEF SameReader
<1>8. LastEventID(s) = after[s] + read[s] /\ (honored[s] => ~CannotHonor(after[s]))
  BY <1>2, <1>4, <1>6 DEF ReaderInv, Asked
<1>9. read'[s] <= Len(wire'[s])
  BY <1>3, <1>4, <1>7
<1>10. Outcome(s)' = "reset" => ~honored'[s]
  BY <1>1, <1>7 DEF ReaderInv
<1>11. LastEventID(s)' = after'[s] + read'[s] /\ (honored'[s] => ~(CannotHonor(after[s]))')
  BY <1>1, <1>5, <1>7, <1>8
<1>12. resp'[s] # "invalid"
  BY <1>1, <1>6
<1>13. read'[s] <= Len(wire'[s]) + (IF final'[s] = "reset" THEN 1 ELSE 0)
  <2>1. read'[s] <= Len(wire'[s]) + 0 /\ read'[s] <= Len(wire'[s]) + 1
    BY <1>3, <1>4, <1>7, <1>9
  <2> QED
    BY <2>1, Zenon
<1> HIDE DEF LastEventID, CannotHonor, Outcome
<1> QED
  BY <1>10, <1>11, <1>12, <1>13 DEF ReaderInv

\* A reset answers a cursor that could not be honored.
LEMMA ProducerReader ==
  ASSUME TypeInv, NEW s \in Streams, JoinInv(s), ReaderInv(s), SameReader(s), Producer(s)
  PROVE  ReaderInv(s)'
<1> USE DEF TypeInv, TypeOK, limiterVars, controlVars, responseVars, handlerVars, producerVars,
        clientVars
<1>1. UNCHANGED <<hpc, resp, wire, final, after, committed, ended, res>>
  BY DEF Producer, ListResets, ListHonors, CallFails, EndsWithoutHeader, HeaderAdmits, RecvEvent,
         RecvEOF, EmitSends, EmitCancelled, EmitGraceExpires, Yields, Moves
<1>2. Live(s)
  BY DEF Producer, ListResets, ListHonors, CallFails, EndsWithoutHeader, HeaderAdmits, RecvEvent,
         RecvEOF, EmitSends, EmitCancelled, EmitGraceExpires, Live
<1>3. done'[s] = "reset" => done[s] = "reset" \/ CannotHonor(after[s])
  BY DEF Producer, ListResets, ListHonors, CallFails, EndsWithoutHeader, HeaderAdmits, RecvEvent,
         RecvEOF, EmitSends, EmitCancelled, EmitGraceExpires, Yields, Moves
<1> HIDE DEF TypeInv, TypeOK
<1>4. Asked(s) /\ ~ended[s]
  BY <1>2 DEF JoinInv, ReaderInv, Asked, Early, Closed, Live
<1>5. Outcome(s)' = "reset" => Outcome(s) = "reset" \/ ~honored[s]
  BY <1>1, <1>3, <1>4 DEF Outcome, ReaderInv
<1>6. LastEventID(s)' = LastEventID(s) /\ (CannotHonor(after[s]))' = CannotHonor(after[s])
  BY <1>1 DEF SameReader, LastEventID, CannotHonor
<1> QED
  BY <1>1, <1>5, <1>6 DEF ReaderInv, Asked, SameReader

\* What the client holds is an unbroken run of the log that Control can still
\* continue.
HeldInv(s) ==
    /\ \A i \in 1..Len(known[s]) : known[s][i] = base[s] + i
    /\ known[s] # <<>> => ~CannotHonor(LastEventID(s))

ClientsInv ==
    /\ TypeInv /\ StreamInv /\ ClosingInv /\ ReaderTypeOK
    /\ \A s \in Streams : ServedInv(s) /\ ReaderInv(s) /\ HeldInv(s)

LEMMA PlusOne == ASSUME NEW m \in Nat, NEW n \in Nat PROVE (m + n) + 1 = m + (n + 1)
OBVIOUS

\* The next event on a connection is the next one of the log for its client.
LEMMA NextOnWire ==
  ASSUME ClientsInv, NEW s \in Streams, read[s] < Len(wire[s])
  PROVE  /\ wire[s][read[s] + 1] = LastEventID(s) + 1
         /\ Floor <= LastEventID(s) /\ LastEventID(s) < committed
         /\ LastEventID(s) \in Nat /\ wire[s][read[s] + 1] \in 1..MaxEvents
<1>1. /\ wire[s] \in Seq(1..MaxEvents) /\ read[s] \in Nat /\ after[s] \in Nat
      /\ committed \in Nat /\ Floor \in Nat /\ MaxEvents \in Nat
  BY ConstantsAssumption DEF ClientsInv, TypeInv, TypeOK, ReaderTypeOK
<1>2. Len(wire[s]) \in Nat /\ wire[s] # <<>>
  BY <1>1
<1>3. /\ JoinInv(s) /\ DeliveryInv(s) /\ FlowInv(s) /\ ServedInv(s) /\ ReaderInv(s)
  BY DEF ClientsInv, StreamInv, ClosingInv
<1>4. Asked(s)
  BY <1>2, <1>3 DEF ReaderInv, DeliveryInv, Early, Asked
<1>5. LastEventID(s) = after[s] + read[s]
  BY <1>1, <1>2, <1>3, <1>4 DEF ReaderInv
<1>6. read[s] + 1 \in 1..Len(wire[s])
  BY <1>1, <1>2
<1>7. wire[s][read[s] + 1] = after[s] + (read[s] + 1) /\ wire[s][read[s] + 1] <= committed
  BY <1>3, <1>6 DEF DeliveryInv, ServedInv
<1>8. Floor <= after[s]
  BY <1>2, <1>3 DEF FlowInv, ServedInv
<1>9. wire[s][read[s] + 1] \in 1..MaxEvents
  BY <1>1, <1>6
<1> QED
  BY <1>1, <1>5, <1>7, <1>8, <1>9

\* The client reads an event.
LEMMA ReadsEventStep ==
  ASSUME ClientsInv, NEW s \in Streams, ReadsEvent(s)
  PROVE  ReaderTypeOK' /\ ReaderInv(s)' /\ HeldInv(s)'
<1>1. /\ read[s] < Len(wire[s]) /\ UNCHANGED vars /\ base' = base /\ honored' = honored
      /\ known' = [known EXCEPT ![s] = Append(known[s], wire[s][read[s] + 1])]
      /\ read' = [read EXCEPT ![s] = read[s] + 1]
  BY DEF ReadsEvent
<1>2. /\ known[s] \in Seq(1..MaxEvents) /\ base[s] \in Nat /\ read[s] \in Nat
      /\ wire[s] \in Seq(1..MaxEvents) /\ committed \in Nat /\ Floor \in Nat
      /\ known \in [Streams -> Seq(1..MaxEvents)] /\ read \in [Streams -> Nat]
  BY ConstantsAssumption DEF ClientsInv, TypeInv, TypeOK, ReaderTypeOK
<1>3. /\ known'[s] = Append(known[s], wire[s][read[s] + 1]) /\ read'[s] = read[s] + 1
      /\ base'[s] = base[s] /\ honored'[s] = honored[s]
  BY <1>1, <1>2
<1>4. /\ wire[s][read[s] + 1] = LastEventID(s) + 1 /\ wire[s][read[s] + 1] \in 1..MaxEvents
      /\ Floor <= LastEventID(s) /\ LastEventID(s) < committed /\ LastEventID(s) \in Nat
  BY <1>1, NextOnWire
<1>5. ReaderTypeOK'
  <2>1. Append(known[s], wire[s][read[s] + 1]) \in Seq(1..MaxEvents)
    BY <1>2, <1>4
  <2>2. known' \in [Streams -> Seq(1..MaxEvents)]
    BY <1>1, <1>2, <2>1
  <2>3. read' \in [Streams -> Nat]
    BY <1>1, <1>2
  <2> QED
    BY <1>1, <2>2, <2>3 DEF ReaderTypeOK, ClientsInv
<1>6. /\ Len(known'[s]) = Len(known[s]) + 1 /\ Len(known[s]) \in Nat
      /\ \A i \in 1..(Len(known[s]) + 1) :
           known'[s][i] = IF i = Len(known[s]) + 1 THEN LastEventID(s) + 1 ELSE known[s][i]
  BY <1>2, <1>3, <1>4
<1>7. LastEventID(s)' = LastEventID(s) + 1 /\ LastEventID(s) = base[s] + Len(known[s])
  <2>1. LastEventID(s)' = base'[s] + Len(known'[s]) /\ LastEventID(s) = base[s] + Len(known[s])
    BY DEF LastEventID
  <2>2. base[s] + (Len(known[s]) + 1) = (base[s] + Len(known[s])) + 1
    BY <1>2, <1>6, PlusOne
  <2> QED
    BY <1>3, <1>6, <2>1, <2>2
<1>8. UNCHANGED <<hpc, resp, wire, final, after, committed, ended, res, done>>
  BY <1>1 DEF vars, handlerVars, responseVars, controlVars
<1>9. ReaderInv(s) /\ HeldInv(s)
  BY DEF ClientsInv
<1>10. ReaderInv(s)'
  <2>1. Asked(s) => LastEventID(s) = after[s] + read[s]
    BY <1>1, <1>2, <1>9 DEF ReaderInv
  <2>2. Asked(s)' => LastEventID(s)' = after'[s] + read'[s]
    <3>1. Asked(s)' = Asked(s)
      BY <1>8 DEF Asked
    <3>2. after[s] \in Nat
      BY ConstantsAssumption DEF ClientsInv, TypeInv, TypeOK
    <3>3. (after[s] + read[s]) + 1 = after[s] + (read[s] + 1) /\ after'[s] = after[s]
      BY <1>2, <1>8, <3>2, PlusOne
    <3> HIDE DEF Asked, LastEventID
    <3> QED
      BY <1>3, <1>7, <2>1, <3>1, <3>3
  <2>3. read'[s] <= Len(wire'[s]) + 0 /\ read'[s] <= Len(wire'[s]) + 1
    <3>1. Len(wire[s]) \in Nat
      BY <1>2
    <3> QED
      BY <1>1, <1>2, <1>3, <1>8, <3>1
  <2>4. read'[s] <= Len(wire'[s]) + (IF final'[s] = "reset" THEN 1 ELSE 0)
    BY <2>3, Zenon
  <2>5. Asked(s)' /\ honored'[s] => ~(CannotHonor(after[s]))'
    BY <1>3, <1>8, <1>9 DEF ReaderInv, Asked, CannotHonor
  <2>6. Outcome(s)' = "reset" => ~honored'[s]
    BY <1>3, <1>8, <1>9 DEF ReaderInv, Outcome
  <2>7. resp'[s] = "invalid" => hpc'[s] = "returned" /\ wire'[s] = <<>>
    BY <1>8, <1>9 DEF ReaderInv
  <2> HIDE DEF Asked, LastEventID, CannotHonor, Outcome
  <2> QED
    BY <2>2, <2>4, <2>5, <2>6, <2>7 DEF ReaderInv
<1>11. HeldInv(s)'
  <2>1. ASSUME NEW i \in 1..Len(known'[s]) PROVE known'[s][i] = base'[s] + i
    <3>1. CASE i = Len(known[s]) + 1
      <4>1. (base[s] + Len(known[s])) + 1 = base[s] + (Len(known[s]) + 1)
        BY <1>2, <1>6, PlusOne
      <4>2. known'[s][i] = LastEventID(s) + 1
        BY <1>6, <3>1
      <4> QED
        BY <1>3, <1>7, <3>1, <4>1, <4>2
    <3>2. CASE i # Len(known[s]) + 1
      <4>1. i \in 1..Len(known[s]) /\ known'[s][i] = known[s][i]
        BY <1>6, <3>2
      <4> QED
        BY <1>3, <1>9, <4>1 DEF HeldInv
    <3> QED
      BY <3>1, <3>2
  <2>2. ~(CannotHonor(LastEventID(s)))'
    BY <1>2, <1>4, <1>7, <1>8 DEF CannotHonor
  <2> QED
    BY <2>1, <2>2 DEF HeldInv
<1> QED
  BY <1>5, <1>10, <1>11

\* The client reads the reset frame.
LEMMA ReadsResetStep ==
  ASSUME ClientsInv, NEW s \in Streams, ReadsReset(s)
  PROVE  ReaderTypeOK' /\ ReaderInv(s)' /\ HeldInv(s)'
<1>1. PICK n \in Floor..committed : base' = [base EXCEPT ![s] = n]
  BY DEF ReadsReset
<1>2. /\ final[s] = "reset" /\ read[s] = Len(wire[s]) /\ UNCHANGED vars /\ honored' = honored
      /\ known' = [known EXCEPT ![s] = <<>>] /\ read' = [read EXCEPT ![s] = read[s] + 1]
  BY DEF ReadsReset
<1>3. ReaderTypeOK /\ committed \in 0..MaxEvents /\ Floor \in Nat /\ MaxEvents \in Nat
  BY ConstantsAssumption DEF ClientsInv, TypeInv, TypeOK
<1>4. n \in 0..(MaxEvents + 1) /\ <<>> \in Seq(1..MaxEvents) /\ read[s] \in Nat
  BY <1>1, <1>3 DEF ReaderTypeOK
<1>5. ReaderTypeOK'
  BY <1>1, <1>2, <1>3, <1>4 DEF ReaderTypeOK
<1>6. known'[s] = <<>> /\ read'[s] = read[s] + 1 /\ honored'[s] = honored[s]
  BY <1>2, <1>3 DEF ReaderTypeOK
<1>7. UNCHANGED <<hpc, resp, wire, final, after, committed, ended, res, done>>
  BY <1>2 DEF vars, handlerVars, responseVars, controlVars
<1>8. ReaderInv(s)
  BY DEF ClientsInv
<1>9. ReaderInv(s)'
  <2>1. Len(wire'[s]) = read[s] /\ read'[s] = Len(wire'[s]) + 1 /\ final'[s] = "reset"
    BY <1>2, <1>6, <1>7
  <2>2. read'[s] <= Len(wire'[s]) + (IF final'[s] = "reset" THEN 1 ELSE 0)
    BY <1>4, <2>1
  <2>3. ~(read'[s] <= Len(wire'[s]))
    BY <1>4, <2>1
  <2>4. Asked(s)' /\ honored'[s] => ~(CannotHonor(after[s]))'
    BY <1>6, <1>7, <1>8 DEF ReaderInv, Asked, CannotHonor
  <2>5. Outcome(s)' = "reset" => ~honored'[s]
    BY <1>6, <1>7, <1>8 DEF ReaderInv, Outcome
  <2>6. resp'[s] = "invalid" => hpc'[s] = "returned" /\ wire'[s] = <<>>
    BY <1>7, <1>8 DEF ReaderInv
  <2> QED
    BY <2>2, <2>3, <2>4, <2>5, <2>6 DEF ReaderInv
<1>10. HeldInv(s)'
  BY <1>6 DEF HeldInv
<1> QED
  BY <1>5, <1>9, <1>10

\* A request, as its client sees it.
LEMMA RequestSeen ==
  ASSUME TypeInv, NEW s \in Streams, Request(s)
  PROVE  /\ hpc[s] = "idle" /\ after'[s] \in 0..(MaxEvents + 1)
         /\ UNCHANGED <<wire, final, committed, ended, res, done>>
         /\ \/ hpc'[s] = "returned" /\ resp'[s] = "invalid"
            \/ hpc'[s] = "authorize" /\ resp'[s] = resp[s]
<1>1. TypeInv'
  BY NextTypeInv DEF Next
<1>2. after'[s] \in 0..(MaxEvents + 1)
  BY <1>1 DEF TypeInv, TypeOK
<1>3. hpc[s] = "idle" /\ UNCHANGED <<wire, final, committed, ended, res, done>>
  BY DEF Request, At, controlVars
<1>4. \/ hpc' = [hpc EXCEPT ![s] = "returned"] /\ resp' = [resp EXCEPT ![s] = "invalid"]
      \/ hpc' = [hpc EXCEPT ![s] = "authorize"] /\ resp' = resp
  BY DEF Request, Goto
<1>5. \/ hpc'[s] = "returned" /\ resp'[s] = "invalid"
      \/ hpc'[s] = "authorize" /\ resp'[s] = resp[s]
  BY <1>4 DEF TypeInv, TypeOK
<1> QED
  BY <1>2, <1>3, <1>5

\* At a slot without a request nothing is left of the connection before.
LEMMA IdleSlot ==
  ASSUME ClientsInv, NEW s \in Streams, hpc[s] = "idle"
  PROVE  /\ wire[s] = <<>> /\ final[s] = "none" /\ read[s] = 0 /\ resp[s] # "invalid"
         /\ Outcome(s) # "reset"
<1>1. JoinInv(s) /\ FlowInv(s) /\ ReaderInv(s) /\ read[s] \in Nat
  BY DEF ClientsInv, StreamInv, ClosingInv, ReaderTypeOK
<1>2. wire[s] = <<>> /\ final[s] = "none"
  BY <1>1 DEF FlowInv, Early
<1>3. Len(wire[s]) = 0
  BY <1>2
<1>4. read[s] = 0
  BY <1>1, <1>2, <1>3 DEF ReaderInv
<1>5. ~ended[s] /\ done[s] = "none"
  BY <1>1 DEF JoinInv, Early
<1> QED
  BY <1>1, <1>2, <1>4, <1>5 DEF ReaderInv, Outcome

\* The client asks: it stands where the cursor of its request says.
LEMMA AsksStep ==
  ASSUME ClientsInv, NEW s \in Streams, Asks(s)
  PROVE  ReaderTypeOK' /\ ReaderInv(s)' /\ HeldInv(s)'
<1>1. ReaderTypeOK /\ TypeInv /\ HeldInv(s) /\ ReaderInv(s)
  BY DEF ClientsInv
<1>2. /\ hpc[s] = "idle" /\ after'[s] \in 0..(MaxEvents + 1)
      /\ UNCHANGED <<wire, final, committed, ended, res, done>>
      /\ \/ hpc'[s] = "returned" /\ resp'[s] = "invalid"
         \/ hpc'[s] = "authorize" /\ resp'[s] = resp[s]
  BY <1>1, RequestSeen DEF Asks
<1>3. /\ wire[s] = <<>> /\ final[s] = "none" /\ read[s] = 0 /\ resp[s] # "invalid"
      /\ Outcome(s) # "reset"
  BY <1>2, IdleSlot
<1>4. Outcome(s)' # "reset" /\ Len(wire'[s]) = 0 /\ read'[s] = 0 /\ read' = read
  BY <1>2, <1>3 DEF Outcome, Asks
<1>5. /\ base \in [Streams -> 0..(MaxEvents + 1)] /\ known \in [Streams -> Seq(1..MaxEvents)]
      /\ honored \in [Streams -> BOOLEAN]
  BY <1>1 DEF ReaderTypeOK
<1>6. after'[s] + 0 = after'[s] /\ MaxEvents \in Nat
  BY <1>2, ConstantsAssumption
<1>7. ASSUME resp'[s] # "invalid", LastEventID(s)' = after'[s],
             honored'[s] = ~CannotHonor(after'[s])
      PROVE  ReaderInv(s)'
  <2>1. (CannotHonor(after[s]))' = CannotHonor(after'[s])
    BY <1>2 DEF CannotHonor
  <2>2. read'[s] <= Len(wire'[s]) + (IF final'[s] = "reset" THEN 1 ELSE 0)
    BY <1>2, <1>3, <1>4
  <2>3. LastEventID(s)' = after'[s] + read'[s]
    BY <1>4, <1>6, <1>7
  <2> QED
    BY <1>4, <1>7, <2>1, <2>2, <2>3 DEF ReaderInv
<1>8. CASE resp'[s] = "invalid" /\ UNCHANGED <<base, known, honored>>
  <2>1. hpc'[s] = "returned" /\ wire'[s] = <<>>
    BY <1>2, <1>3, <1>8
  <2>2. read'[s] <= Len(wire'[s]) + (IF final'[s] = "reset" THEN 1 ELSE 0)
    BY <1>2, <1>3, <1>4
  <2>3. ReaderInv(s)'
    BY <1>4, <1>8, <2>1, <2>2 DEF ReaderInv, Asked
  <2>4. HeldInv(s)'
    BY <1>1, <1>2, <1>8 DEF HeldInv, LastEventID, CannotHonor
  <2> QED
    BY <1>1, <1>4, <1>8, <2>3, <2>4 DEF ReaderTypeOK
<1>9. CASE /\ resp'[s] # "invalid" /\ after'[s] = LastEventID(s) /\ UNCHANGED <<base, known>>
           /\ honored' = [honored EXCEPT ![s] = ~CannotHonor(after'[s])]
  <2>1. ReaderTypeOK' /\ honored'[s] = ~CannotHonor(after'[s])
    BY <1>1, <1>4, <1>5, <1>9 DEF ReaderTypeOK
  <2>2. LastEventID(s)' = after'[s]
    BY <1>9 DEF LastEventID
  <2>3. HeldInv(s)'
    BY <1>1, <1>2, <1>9 DEF HeldInv, LastEventID, CannotHonor
  <2> QED
    BY <1>7, <1>9, <2>1, <2>2, <2>3
<1>10. CASE /\ resp'[s] # "invalid" /\ base' = [base EXCEPT ![s] = after'[s]]
            /\ known' = [known EXCEPT ![s] = <<>>]
            /\ honored' = [honored EXCEPT ![s] = ~CannotHonor(after'[s])]
  <2>1. honored' \in [Streams -> BOOLEAN] /\ honored'[s] = ~CannotHonor(after'[s])
    BY <1>5, <1>10
  <2>2. base' \in [Streams -> 0..(MaxEvents + 1)] /\ base'[s] = after'[s]
    BY <1>2, <1>5, <1>10
  <2>3. known' \in [Streams -> Seq(1..MaxEvents)] /\ known'[s] = <<>>
    <3>1. <<>> \in Seq(1..MaxEvents)
      OBVIOUS
    <3> QED
      BY <1>5, <1>10, <3>1
  <2>4. LastEventID(s)' = after'[s]
    BY <1>6, <2>2, <2>3 DEF LastEventID
  <2>5. HeldInv(s)'
    BY <2>3 DEF HeldInv
  <2> QED
    BY <1>1, <1>4, <1>7, <1>10, <2>1, <2>2, <2>3, <2>4, <2>5 DEF ReaderTypeOK
<1> QED
  BY <1>8, <1>9, <1>10 DEF Asks

\* The connection is gone.
LEMMA DisconnectsStep ==
  ASSUME ClientsInv, NEW s \in Streams, Disconnects(s)
  PROVE  ReaderTypeOK' /\ ReaderInv(s)' /\ HeldInv(s)'
<1>1. ReaderTypeOK /\ TypeInv /\ HeldInv(s) /\ JoinInv(s)
  BY DEF ClientsInv, StreamInv
<1>2. /\ hpc[s] = "returned" /\ hpc' = [hpc EXCEPT ![s] = "idle"]
      /\ wire' = [wire EXCEPT ![s] = <<>>] /\ ended' = [ended EXCEPT ![s] = FALSE]
      /\ resp' = [resp EXCEPT ![s] = "none"] /\ UNCHANGED <<done, committed>>
      /\ read' = [read EXCEPT ![s] = 0] /\ UNCHANGED <<base, known, honored>>
      /\ final' = [final EXCEPT ![s] = "none"]
  BY DEF Disconnects, Finish, At, Goto, controlVars
<1>3. /\ hpc'[s] = "idle" /\ wire'[s] = <<>> /\ ~ended'[s] /\ resp'[s] = "none" /\ read'[s] = 0
      /\ final'[s] = "none"
  BY <1>1, <1>2 DEF TypeInv, TypeOK, ReaderTypeOK
<1>4. done'[s] = "none"
  BY <1>1, <1>2 DEF JoinInv, Closed
<1>5. ReaderInv(s)'
  BY <1>3, <1>4 DEF ReaderInv, Asked, Outcome
<1>6. HeldInv(s)'
  BY <1>1, <1>2 DEF HeldInv, LastEventID, CannotHonor
<1> QED
  BY <1>1, <1>2, <1>5, <1>6 DEF ReaderTypeOK

LEMMA HeldKept ==
  ASSUME ClientsInv, NEW s \in Streams, SameReader(s), committed' \in Nat, committed <= committed'
  PROVE  HeldInv(s)'
<1>1. /\ HeldInv(s) /\ known[s] \in Seq(1..MaxEvents) /\ base[s] \in Nat /\ committed \in Nat
      /\ Floor \in Nat
  BY ConstantsAssumption DEF ClientsInv, ReaderTypeOK, TypeInv, TypeOK
<1>2. LastEventID(s)' = LastEventID(s) /\ LastEventID(s) \in Nat
  BY <1>1 DEF LastEventID, SameReader
<1>3. ~CannotHonor(LastEventID(s)) => ~(CannotHonor(LastEventID(s)))'
  BY <1>1, <1>2 DEF CannotHonor
<1> QED
  BY <1>1, <1>3 DEF HeldInv, SameReader

\* A step of one client leaves another, and its stream, alone.
LEMMA ReaderLocality ==
  ASSUME ClientsInv, NEW s \in Streams, NEW t \in Streams, t # s,
         Asks(s) \/ ReadsEvent(s) \/ ReadsReset(s) \/ Disconnects(s)
  PROVE  SameReader(t)
BY DEF ClientsInv, ReaderTypeOK, SameReader, Asks, ReadsEvent, ReadsReset, Disconnects

LEMMA OthersKept ==
  ASSUME ClientsInv, NEW s \in Streams, NEW t \in Streams, t # s, SameReader(t),
         StreamStep(s) \/ UNCHANGED vars
  PROVE  ReaderInv(t)' /\ HeldInv(t)'
<1>1. CASE StreamStep(s)
  <2>1. Unmoved(t) /\ committed' = committed
    BY <1>1, Locality DEF ClientsInv
  <2>2. SameView(t)
    BY <2>1 DEF Unmoved, SameView, Asked, Outcome
  <2>3. ReaderInv(t)'
    BY <2>2, ReaderKept DEF ClientsInv
  <2>4. committed' \in Nat /\ committed <= committed'
    BY <2>1, ConstantsAssumption DEF ClientsInv, TypeInv, TypeOK
  <2> QED
    BY <2>3, <2>4, HeldKept
<1>2. CASE UNCHANGED vars
  <2>1. SameView(t)
    BY <1>2 DEF vars, controlVars, handlerVars, responseVars, SameView, Asked, Outcome
  <2>2. ReaderInv(t)'
    BY <2>1, ReaderKept DEF ClientsInv
  <2>3. committed' \in Nat /\ committed <= committed'
    BY <1>2, ConstantsAssumption DEF vars, controlVars, ClientsInv, TypeInv, TypeOK
  <2> QED
    BY <2>2, <2>3, HeldKept
<1> QED
  BY <1>1, <1>2

LEMMA InitClientsInv == ClientsInit => ClientsInv
<1> SUFFICES ASSUME ClientsInit PROVE ClientsInv
  OBVIOUS
<1>1. Init /\ TypeInv /\ StreamInv /\ ClosingInv
  BY InitTypeInv, InitStreamInv, InitClosingInv DEF ClientsInit
<1>2. ReaderTypeOK
  <2>1. 0 \in 0..(MaxEvents + 1) /\ <<>> \in Seq(1..MaxEvents)
    BY ConstantsAssumption
  <2> QED
    BY <2>1 DEF ClientsInit, ReaderTypeOK
<1>3. ASSUME NEW s \in Streams PROVE ServedInv(s) /\ ReaderInv(s) /\ HeldInv(s)
  <2>1. /\ wire[s] = <<>> /\ frames[s] = <<>> /\ hand[s] = 0 /\ ppc[s] = "none" /\ ~admitted[s]
        /\ hpc[s] = "idle" /\ resp[s] = "none" /\ ~ended[s] /\ done[s] = "none" /\ final[s] = "none"
        /\ 0 <= committed /\ known[s] = <<>> /\ read[s] = 0
    BY <1>1, ConstantsAssumption DEF Init, ClientsInit
  <2>2. ServedInv(s)
    BY <2>1 DEF ServedInv
  <2>3. ReaderInv(s)
    BY <2>1 DEF ReaderInv, Asked, Outcome
  <2>4. HeldInv(s)
    BY <2>1 DEF HeldInv
  <2> QED
    BY <2>2, <2>3, <2>4
<1> QED
  BY <1>1, <1>2, <1>3 DEF ClientsInv

LEMMA NextClientsInv == ClientsInv /\ [ClientsNext]_clientsVars => ClientsInv'
<1> SUFFICES ASSUME ClientsInv, [ClientsNext]_clientsVars PROVE ClientsInv'
  OBVIOUS
<1>1. [Next]_vars /\ TypeInv /\ StreamInv /\ ClosingInv
  BY StepProjects DEF ClientsInv
<1>2. TypeInv' /\ StreamInv' /\ ClosingInv'
  BY <1>1, NextTypeInv, NextStreamInv, NextClosingInv
<1>3. \A s \in Streams : ServedInv(s)'
  BY <1>1, NextServed DEF ClientsInv
<1>4. ASSUME NEW s \in Streams, Asks(s) \/ ReadsEvent(s) \/ ReadsReset(s) \/ Disconnects(s)
      PROVE  ReaderTypeOK' /\ \A t \in Streams : ReaderInv(t)' /\ HeldInv(t)'
  <2>1. ReaderTypeOK' /\ ReaderInv(s)' /\ HeldInv(s)'
    BY <1>4, AsksStep, ReadsEventStep, ReadsResetStep, DisconnectsStep
  <2>2. StreamStep(s) \/ UNCHANGED vars
    BY <1>4 DEF Asks, ReadsEvent, ReadsReset, Disconnects, StreamStep
  <2>3. ASSUME NEW t \in Streams, t # s PROVE ReaderInv(t)' /\ HeldInv(t)'
    <3>1. SameReader(t)
      BY <1>4, <2>3, ReaderLocality
    <3> QED
      BY <2>2, <2>3, <3>1, OthersKept
  <2> QED
    BY <2>1, <2>3
<1>5. ASSUME UNCHANGED readerVars PROVE ReaderTypeOK' /\ \A t \in Streams : SameReader(t)
  BY <1>5 DEF readerVars, SameReader, ReaderTypeOK, ClientsInv
<1>6. ASSUME NEW s \in Streams, UNCHANGED readerVars,
             Handler(s) \/ Heartbeat(s) \/ Producer(s) \/ ClientLeaves(s)
      PROVE  \A t \in Streams : ReaderInv(t)' /\ HeldInv(t)'
  <2>1. StreamStep(s) /\ SameReader(s)
    BY <1>5, <1>6 DEF StreamStep
  <2>2. FlowInv(s) /\ JoinInv(s) /\ ReaderInv(s) /\ ReaderTypeOK
    BY DEF ClientsInv, ClosingInv, StreamInv
  <2>3. ReaderInv(s)'
    <3>1. CASE Producer(s)
      BY <1>1, <2>1, <2>2, <3>1, ProducerReader
    <3>2. CASE WriteSucceeds(s)
      BY <1>1, <2>1, <2>2, <3>2, WriteReader
    <3>3. CASE (Handler(s) /\ ~WriteSucceeds(s)) \/ Heartbeat(s) \/ ClientLeaves(s)
      BY <1>1, <2>1, <2>2, <3>3, HandlerUnseen, ReaderKept
    <3> QED
      BY <1>6, <3>1, <3>2, <3>3
  <2>4. committed' \in Nat /\ committed <= committed'
    <3>1. committed' = committed
      BY <1>6 DEF Handler, Heartbeat, Producer, ClientLeaves, Authorized, AuthorizeFails, Acquire,
         AcquireRefused, AdmissionAdmitted, AdmissionEnded, AdmissionDraining, ClientWentAway,
         WriteSucceeds, WriteFails, TakeFrame, StreamEnded, Drained, LoopDraining, Cancel, Join,
         Release, ListResets, ListHonors, CallFails, EndsWithoutHeader, HeaderAdmits, RecvEvent,
         RecvEOF, EmitSends, EmitCancelled, EmitGraceExpires, Yields, Moves, controlVars
    <3> QED
      BY <1>1, <3>1, ConstantsAssumption DEF TypeInv, TypeOK
  <2>5. HeldInv(s)'
    BY <2>1, <2>4, HeldKept
  <2>6. ASSUME NEW t \in Streams, t # s PROVE ReaderInv(t)' /\ HeldInv(t)'
    BY <1>5, <1>6, <2>1, <2>6, OthersKept
  <2> QED
    BY <2>3, <2>5, <2>6
<1>7. ASSUME Commit, UNCHANGED readerVars
      PROVE  \A t \in Streams : ReaderInv(t)' /\ HeldInv(t)'
  <2> TAKE t \in Streams
  <2>1. committed \in Nat /\ committed' = committed + 1 /\ after[t] \in Nat /\ Floor \in Nat
    BY <1>1, <1>7, ConstantsAssumption DEF Commit, TypeInv, TypeOK
  <2>2. UNCHANGED <<hpc, resp, wire, final, after, ended, res, done>>
    BY <1>7 DEF Commit, handlerVars, responseVars
  <2>3. SameReader(t) /\ ReaderInv(t)
    BY <1>5, <1>7 DEF ClientsInv
  <2>4. ~CannotHonor(after[t]) => ~(CannotHonor(after[t]))'
    BY <2>1, <2>2 DEF CannotHonor
  <2>5. LastEventID(t)' = LastEventID(t) /\ Asked(t)' = Asked(t) /\ Outcome(t)' = Outcome(t)
    BY <2>2, <2>3 DEF LastEventID, Asked, Outcome, SameReader
  <2>6. ReaderInv(t)'
    BY <2>2, <2>3, <2>4, <2>5 DEF ReaderInv, SameReader
  <2>7. committed' \in Nat /\ committed <= committed'
    BY <2>1
  <2> QED
    BY <2>3, <2>6, <2>7, HeldKept
<1>8. ASSUME Terminate \/ Stop \/ UNCHANGED vars, UNCHANGED readerVars
      PROVE  \A t \in Streams : ReaderInv(t)' /\ HeldInv(t)'
  <2> TAKE t \in Streams
  <2>1. UNCHANGED <<committed, hpc, resp, wire, final, after, ended, res, done>>
    BY <1>8 DEF Terminate, Stop, vars, handlerVars, responseVars, controlVars
  <2>2. SameView(t) /\ SameReader(t) /\ ReaderInv(t)
    BY <1>5, <1>8, <2>1 DEF SameView, Asked, Outcome, ClientsInv
  <2>3. committed' \in Nat /\ committed <= committed'
    BY <1>1, <2>1, ConstantsAssumption DEF TypeInv, TypeOK
  <2> QED
    BY <2>2, <2>3, ReaderKept, HeldKept
<1>9. ReaderTypeOK' /\ \A t \in Streams : ReaderInv(t)' /\ HeldInv(t)'
  BY <1>4, <1>5, <1>6, <1>7, <1>8 DEF ClientsNext, clientsVars
<1> QED
  BY <1>2, <1>3, <1>9 DEF ClientsInv

LEMMA ClientsInvariant == ClientsSpec => []ClientsInv
BY InitClientsInv, NextClientsInv, PTL DEF ClientsSpec
-----------------------------------------------------------------------------
(* What the clients can rely on.                                           *)

\* A client holds every event between the cursor it began with and its last
\* event id, each once and in order, and Control can continue from there.
ClientsLoseNothing ==
    \A s \in Streams :
      /\ \A i \in 1..Len(known[s]) : known[s][i] = base[s] + i
      /\ known[s] # <<>> => ~CannotHonor(LastEventID(s))

\* The client "resumes from its last event id after the retry interval and
\* loses nothing" (sse.go:222): its events are without a gap over all its
\* connections, and the id it resumes from is one that is not reset.
THEOREM NothingIsLost == ClientsSpec => []ClientsLoseNothing
<1>1. ClientsInv => ClientsLoseNothing
  BY DEF ClientsInv, HeldInv, ClientsLoseNothing
<1> QED
  BY <1>1, ClientsInvariant, PTL

LEMMA StartsAsFeed == ClientsInit => Feed!Init
<1> SUFFICES ASSUME ClientsInit PROVE Feed!Init
  OBVIOUS
<1>1. committed \in Nat
  BY ConstantsAssumption DEF ClientsInit, Init
<1> QED
  BY <1>1 DEF ClientsInit, Feed!Init

\* What an ask of the client is to the feed.
LEMMA AsksFeed ==
  ASSUME ClientsInv, NEW s \in Streams, Asks(s)
  PROVE  [Feed!Next]_(Feed!feedState)
<1>1. /\ committed' = committed /\ after'[s] \in 0..(MaxEvents + 1)
      /\ committed \in Nat /\ Floor \in Nat /\ MaxEvents \in Nat
  BY RequestSeen, ConstantsAssumption DEF ClientsInv, TypeInv, TypeOK, Asks
<1>2. ~CannotHonor(after'[s]) <=> Feed!CanHonor(after'[s])
  BY <1>1 DEF CannotHonor, Feed!CanHonor
<1>3. (~CannotHonor(after'[s])) = Feed!CanHonor(after'[s])
  BY <1>2 DEF CannotHonor, Feed!CanHonor
<1>4. CASE UNCHANGED <<base, known, honored>>
  BY <1>1, <1>4 DEF Feed!feedState
<1>5. CASE /\ after'[s] = LastEventID(s) /\ UNCHANGED <<base, known>>
           /\ honored' = [honored EXCEPT ![s] = ~CannotHonor(after'[s])]
  <2>1. Feed!Position(s) = LastEventID(s)
    BY DEF Feed!Position, LastEventID
  <2>2. honored' = [honored EXCEPT ![s] = Feed!CanHonor(Feed!Position(s))]
    BY <1>3, <1>5, <2>1
  <2>3. Feed!Resume(s)
    BY <1>1, <1>5, <2>2 DEF Feed!Resume
  <2> QED
    BY <2>3 DEF Feed!Next
<1>6. CASE /\ base' = [base EXCEPT ![s] = after'[s]] /\ known' = [known EXCEPT ![s] = <<>>]
           /\ honored' = [honored EXCEPT ![s] = ~CannotHonor(after'[s])]
  <2>1. honored' = [honored EXCEPT ![s] = Feed!CanHonor(after'[s])]
    BY <1>3, <1>6
  <2>2. \E n \in 0..(MaxEvents + 1) :
          /\ base' = [base EXCEPT ![s] = n] /\ known' = [known EXCEPT ![s] = <<>>]
          /\ honored' = [honored EXCEPT ![s] = Feed!CanHonor(n)] /\ UNCHANGED committed
    BY <1>1, <1>6, <2>1
  <2>3. \E n \in 0..(MaxEvents + 1) : Feed!Begin(s, n)
    BY <2>2 DEF Feed!Begin
  <2> QED
    BY <2>3 DEF Feed!Next
<1> QED
  BY <1>4, <1>5, <1>6 DEF Asks

LEMMA ReadsFeed ==
  ASSUME ClientsInv, NEW s \in Streams, ReadsEvent(s)
  PROVE  Feed!Next
<1>1. /\ read[s] < Len(wire[s]) /\ UNCHANGED <<committed, base, honored>>
      /\ known' = [known EXCEPT ![s] = Append(known[s], wire[s][read[s] + 1])]
  BY DEF ReadsEvent, vars, controlVars
<1>2. Feed!Position(s) = LastEventID(s)
  BY DEF Feed!Position, LastEventID
<1>3. /\ wire[s][read[s] + 1] = Feed!Position(s) + 1
      /\ Floor <= Feed!Position(s) /\ Feed!Position(s) < committed
  BY <1>1, <1>2, NextOnWire
<1>4. Feed!Learn(s)
  BY <1>1, <1>3 DEF Feed!Learn
<1> QED
  BY <1>4 DEF Feed!Next

\* Only a client whose cursor could not be honored reads a reset frame.
LEMMA ResetFeed ==
  ASSUME ClientsInv, NEW s \in Streams, ReadsReset(s)
  PROVE  Feed!Next
<1>1. final[s] = "reset" /\ FlowInv(s) /\ ReaderInv(s)
  BY DEF ReadsReset, ClientsInv, ClosingInv
<1>2. Outcome(s) = "reset"
  BY <1>1 DEF FlowInv, Outcome
<1>3. ~honored[s]
  BY <1>1, <1>2 DEF ReaderInv
<1>4. Feed!StartOver(s)
  BY <1>3 DEF ReadsReset, Feed!StartOver, vars, controlVars
<1> QED
  BY <1>4 DEF Feed!Next

\* Every step of the clients and their streams is a step of the feed.
LEMMA StepsFeed ==
  ASSUME ClientsInv, [ClientsNext]_clientsVars
  PROVE  [Feed!Next]_(Feed!feedState)
<1>1. ASSUME NEW s \in Streams, Disconnects(s) PROVE UNCHANGED Feed!feedState
  BY <1>1 DEF Disconnects, Finish, controlVars, Feed!feedState
<1>2. ASSUME NEW s \in Streams, Handler(s) \/ Heartbeat(s) \/ Producer(s) \/ ClientLeaves(s),
             UNCHANGED readerVars
      PROVE  UNCHANGED Feed!feedState
  <2>1. committed' = committed
    BY <1>2 DEF Handler, Heartbeat, Producer, ClientLeaves, Authorized, AuthorizeFails, Acquire,
       AcquireRefused, AdmissionAdmitted, AdmissionEnded, AdmissionDraining, ClientWentAway,
       WriteSucceeds, WriteFails, TakeFrame, StreamEnded, Drained, LoopDraining, Cancel, Join,
       Release, ListResets, ListHonors, CallFails, EndsWithoutHeader, HeaderAdmits, RecvEvent,
       RecvEOF, EmitSends, EmitCancelled, EmitGraceExpires, Yields, Moves, controlVars
  <2> QED
    BY <1>2, <2>1 DEF readerVars, Feed!feedState
<1>3. ASSUME Commit, UNCHANGED readerVars PROVE Feed!Next
  <2>1. Feed!Grow
    BY <1>3 DEF Commit, readerVars, Feed!Grow
  <2> QED
    BY <2>1 DEF Feed!Next
<1>4. ASSUME Terminate \/ Stop, UNCHANGED readerVars PROVE UNCHANGED Feed!feedState
  BY <1>4 DEF Terminate, Stop, controlVars, readerVars, Feed!feedState
<1>5. CASE UNCHANGED clientsVars
  BY <1>5 DEF clientsVars, vars, controlVars, readerVars, Feed!feedState
<1> QED
  BY <1>1, <1>2, <1>3, <1>4, <1>5, AsksFeed, ReadsFeed, ResetFeed DEF ClientsNext

\* The event streams, read by clients that come back, implement ResumableFeed:
\* no buffer, slow consumer, failed write, drain or early end makes a client
\* skip or repeat an event, and no honored cursor is reset (sse.go:222,
\* client.go:276).
THEOREM FeedIsKept == ClientsSpec => FeedKept
<1>1. ClientsInit => Feed!Init
  BY StartsAsFeed
<1>2. ClientsInv /\ [ClientsNext]_clientsVars => [Feed!Next]_(Feed!feedState)
  BY StepsFeed
<1> QED
  BY <1>1, <1>2, ClientsInvariant, PTL DEF ClientsSpec, FeedKept, Feed!Spec
=============================================================================
