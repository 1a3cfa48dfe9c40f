------------------------ MODULE EventStreams_proofs -------------------------
(* Proofs about EventStreams for every set of streams, buffer size, caps   *)
(* and log.                                                                *)
EXTENDS EventStreams, FiniteSetTheorems, TLAPS

\* What TypeOK needs to be inductive: a written event is a real one, and an
\* event being emitted is one Control committed.
HeldEvents ==
    \A s \in Streams : /\ hpc[s] = "writeEvent" => hand[s] # 0
                       /\ ppc[s] = "emit" => cur[s] \in 1..MaxEvents

TypeInv == TypeOK /\ HeldEvents

LEMMA InitTypeInv == Init => TypeInv
<1> SUFFICES ASSUME Init PROVE TypeInv
  OBVIOUS
<1> USE ConstantsAssumption DEF Init
<1>1. committed \in 0..MaxEvents /\ 0 \in 0..MaxEvents /\ 0 \in 0..(MaxEvents + 1)
  OBVIOUS
<1>2. <<>> \in Seq(1..MaxEvents)
  OBVIOUS
<1>3. wire \in [Streams -> Seq(1..MaxEvents)] /\ frames \in [Streams -> Seq(1..MaxEvents)]
  BY <1>2
<1>4. TypeOK
  <2>1. hpc \in [Streams -> HandlerPC] /\ ppc \in [Streams -> ProducerPC]
    BY DEF HandlerPC, ProducerPC
  <2>2. res \in [Streams -> Result] /\ done \in [Streams -> Result]
    BY DEF Result
  <2>3. /\ after \in [Streams -> 0..(MaxEvents + 1)] /\ hand \in [Streams -> 0..MaxEvents]
        /\ cur \in [Streams -> 0..(MaxEvents + 1)] /\ bySubject \in [Subjects -> Int]
    BY <1>1
  <2>4. /\ draining \in BOOLEAN /\ terminal \in BOOLEAN /\ ended \in [Streams -> BOOLEAN]
        /\ admitted \in [Streams -> BOOLEAN] /\ cancelled \in [Streams -> BOOLEAN]
        /\ gone \in [Streams -> BOOLEAN] /\ broken \in [Streams -> BOOLEAN]
    OBVIOUS
  <2>5. /\ resp \in [Streams -> {"none", "ok", "invalid", "error", "capacity", "unavailable"}]
        /\ final \in [Streams -> {"none", "end", "reset"}]
    OBVIOUS
  <2>6. total \in Int
    OBVIOUS
  <2> QED
    BY <1>1, <1>3, <2>1, <2>2, <2>3, <2>4, <2>5, <2>6 DEF TypeOK
<1>5. HeldEvents
  BY DEF HeldEvents
<1> QED
  BY <1>4, <1>5 DEF TypeInv

\* A step that leaves a write keeps the types.
LEMMA LeavesWriting ==
  ASSUME TypeInv, NEW s \in Streams, NEW pc \in HandlerPC \ {"writeEvent"},
         hpc' = [hpc EXCEPT ![s] = pc], hand' = [hand EXCEPT ![s] = 0],
         wire' \in [Streams -> Seq(1..MaxEvents)], final' \in [Streams -> {"none", "end", "reset"}],
         gone' \in [Streams -> BOOLEAN], broken' \in [Streams -> BOOLEAN],
         UNCHANGED <<draining, committed, terminal, total, bySubject, after, ended, res, resp,
                     ppc, cur, frames, admitted, done, cancelled>>
  PROVE  TypeInv'
<1>1. hpc' \in [Streams -> HandlerPC] /\ hand' \in [Streams -> 0..MaxEvents]
  BY ConstantsAssumption DEF TypeInv, TypeOK
<1>2. TypeOK'
  BY <1>1 DEF TypeInv, TypeOK
<1>3. HeldEvents'
  BY DEF TypeInv, TypeOK, HeldEvents
<1> QED
  BY <1>2, <1>3 DEF TypeInv

LEMMA NextTypeInv == TypeInv /\ [Next]_vars => TypeInv'
<1> SUFFICES ASSUME TypeInv, [Next]_vars PROVE TypeInv'
  OBVIOUS
<1> USE ConstantsAssumption DEF TypeInv, TypeOK, HeldEvents, HandlerPC, ProducerPC, Result,
        At, Goto, limiterVars, controlVars, responseVars, handlerVars, producerVars, clientVars
<1>1. ASSUME NEW s \in Streams, Request(s) PROVE TypeInv'
  <2>1. PICK query, header \in Cursor :
          LET cursor == bindCursor(query, header) IN
          \/ cursor = Malformed /\ Goto(s, "returned") /\ UNCHANGED after
             /\ resp' = [resp EXCEPT ![s] = "invalid"]
          \/ cursor # Malformed /\ Goto(s, "authorize") /\ UNCHANGED resp
             /\ after' = [after EXCEPT ![s] = Position(cursor)]
    BY <1>1 DEF Request
  <2>2. bindCursor(query, header) # Malformed =>
          Position(bindCursor(query, header)) \in 0..(MaxEvents + 1)
    <3>1. ASSUME NEW cursor \in Cursor, cursor # Malformed
          PROVE Position(cursor) \in 0..(MaxEvents + 1)
      BY <3>1 DEF Cursor, Position, Absent, Malformed
    <3>2. bindCursor(query, header) \in Cursor
      BY <2>1 DEF bindCursor
    <3> QED
      BY <3>1, <3>2
  <2>3. after \in [Streams -> 0..(MaxEvents + 1)]
    OBVIOUS
  <2>4. UNCHANGED <<draining, committed, terminal, total, bySubject, hand, ended, res, wire,
                    final, ppc, cur, frames, admitted, done, cancelled, gone, broken>>
    BY <1>1 DEF Request
  <2> HIDE DEF TypeInv, TypeOK, HeldEvents
  <2>5. after' = after \/ \E n \in 0..(MaxEvents + 1) : after' = [after EXCEPT ![s] = n]
    BY <2>1, <2>2
  <2>6. after' \in [Streams -> 0..(MaxEvents + 1)]
    BY <2>3, <2>5
  <2>7. hpc' = [hpc EXCEPT ![s] = "returned"] \/ hpc' = [hpc EXCEPT ![s] = "authorize"]
    BY <2>1
  <2>8. resp' = resp \/ resp' = [resp EXCEPT ![s] = "invalid"]
    BY <2>1
  <2>9. hpc' \in [Streams -> HandlerPC] /\ \A t \in Streams : hpc'[t] = "writeEvent" => hpc[t] = "writeEvent"
    <3>1. hpc \in [Streams -> HandlerPC]
      BY DEF TypeInv, TypeOK
    <3> QED
      BY <2>7, <3>1
  <2>10. resp' \in [Streams -> {"none", "ok", "invalid", "error", "capacity", "unavailable"}]
    BY <2>8 DEF TypeInv, TypeOK
  <2>11. TypeOK'
    BY <2>4, <2>6, <2>9, <2>10 DEF TypeInv, TypeOK
  <2>12. HeldEvents'
    BY <2>4, <2>9 DEF TypeInv, HeldEvents
  <2> QED
    BY <2>11, <2>12 DEF TypeInv
<1>2. ASSUME NEW s \in Streams, Authorized(s) PROVE TypeInv'
  BY <1>2 DEF Authorized
<1>3. ASSUME NEW s \in Streams, AuthorizeFails(s) PROVE TypeInv'
  BY <1>3 DEF AuthorizeFails
<1>4. ASSUME NEW s \in Streams, Acquire(s) PROVE TypeInv'
  BY <1>4 DEF Acquire
<1>5. ASSUME NEW s \in Streams, AcquireRefused(s) PROVE TypeInv'
  BY <1>5 DEF AcquireRefused
<1>6. ASSUME NEW s \in Streams, AdmissionAdmitted(s) PROVE TypeInv'
  BY <1>6 DEF AdmissionAdmitted
<1>7. ASSUME NEW s \in Streams, AdmissionEnded(s) PROVE TypeInv'
  BY <1>7 DEF AdmissionEnded
<1>8. ASSUME NEW s \in Streams, AdmissionDraining(s) PROVE TypeInv'
  BY <1>8 DEF AdmissionDraining
<1>9. ASSUME NEW s \in Streams, ClientWentAway(s) PROVE TypeInv'
  BY <1>9 DEF ClientWentAway
<1>10. ASSUME NEW s \in Streams, WriteSucceeds(s) PROVE TypeInv'
  <2>1. AfterWrite(s) \in HandlerPC \ {"writeEvent"}
    BY <1>10 DEF AfterWrite, WriteSucceeds, WritePC
  <2>2. wire' \in [Streams -> Seq(1..MaxEvents)]
    <3>1. At(s, "writeEvent") => Append(wire[s], hand[s]) \in Seq(1..MaxEvents)
      OBVIOUS
    <3> QED
      BY <1>10, <3>1 DEF WriteSucceeds
  <2>3. final' \in [Streams -> {"none", "end", "reset"}]
    BY <1>10 DEF WriteSucceeds, WritePC
  <2>4. /\ hpc' = [hpc EXCEPT ![s] = AfterWrite(s)] /\ hand' = [hand EXCEPT ![s] = 0]
        /\ UNCHANGED <<draining, committed, terminal, total, bySubject, after, ended, res, resp,
                       ppc, cur, frames, admitted, done, cancelled, gone, broken>>
    BY <1>10 DEF WriteSucceeds
  <2> QED
    BY <2>1, <2>2, <2>3, <2>4, LeavesWriting
<1>11. ASSUME NEW s \in Streams, WriteFails(s) PROVE TypeInv'
  <2>1. PICK pc \in {"cleanup", AfterWrite(s)} : hpc' = [hpc EXCEPT ![s] = pc]
    BY <1>11 DEF WriteFails
  <2>2. pc \in HandlerPC \ {"writeEvent"}
    BY <1>11, <2>1 DEF AfterWrite, WriteFails, WritePC
  <2>3. /\ hand' = [hand EXCEPT ![s] = 0]
        /\ gone' = [gone EXCEPT ![s] = TRUE] /\ broken' = [broken EXCEPT ![s] = TRUE]
        /\ UNCHANGED <<draining, committed, terminal, total, bySubject, after, ended, res, resp,
                       wire, final, ppc, cur, frames, admitted, done, cancelled>>
    BY <1>11 DEF WriteFails
  <2>4. gone' \in [Streams -> BOOLEAN] /\ broken' \in [Streams -> BOOLEAN]
    BY <2>3
  <2> QED
    BY <2>1, <2>2, <2>3, <2>4, LeavesWriting
<1>12. ASSUME NEW s \in Streams, TakeFrame(s) PROVE TypeInv'
  <2>1. /\ hand' = [hand EXCEPT ![s] = Head(frames[s])]
        /\ frames' = [frames EXCEPT ![s] = Tail(frames[s])] /\ frames[s] # <<>>
        /\ hpc' = [hpc EXCEPT ![s] = "writeEvent"]
        /\ UNCHANGED <<draining, committed, terminal, total, bySubject, after, ended, res, resp,
                       wire, final, ppc, cur, admitted, done, cancelled, gone, broken>>
    BY <1>12 DEF TakeFrame
  <2>2. frames[s] \in Seq(1..MaxEvents)
    OBVIOUS
  <2>3. Head(frames[s]) \in 1..MaxEvents /\ Tail(frames[s]) \in Seq(1..MaxEvents)
    BY <2>1, <2>2
  <2> HIDE DEF TypeInv, TypeOK, HeldEvents
  <2>4. frames' \in [Streams -> Seq(1..MaxEvents)]
    BY <2>1, <2>3 DEF TypeInv, TypeOK
  <2>5. hand' \in [Streams -> 0..MaxEvents]
    BY <2>1, <2>3 DEF TypeInv, TypeOK
  <2>6. hpc' \in [Streams -> HandlerPC]
    BY <2>1 DEF TypeInv, TypeOK
  <2>7. TypeOK'
    BY <2>1, <2>4, <2>5, <2>6 DEF TypeInv, TypeOK
  <2>8. HeldEvents'
    <3>1. \A t \in Streams \ {s} : hpc'[t] = hpc[t] /\ hand'[t] = hand[t]
      BY <2>1 DEF TypeInv, TypeOK
    <3>2. hand'[s] = Head(frames[s])
      BY <2>1 DEF TypeInv, TypeOK
    <3>3. hand'[s] # 0
      BY <2>3, <3>2
    <3> QED
      BY <2>1, <3>1, <3>3 DEF TypeInv, HeldEvents
  <2> QED
    BY <2>7, <2>8 DEF TypeInv
<1>13. ASSUME NEW s \in Streams, Heartbeat(s) PROVE TypeInv'
  BY <1>13 DEF Heartbeat
<1>14. ASSUME NEW s \in Streams, StreamEnded(s) PROVE TypeInv'
  BY <1>14 DEF StreamEnded
<1>15. ASSUME NEW s \in Streams, Drained(s) PROVE TypeInv'
  BY <1>15 DEF Drained
<1>16. ASSUME NEW s \in Streams, LoopDraining(s) PROVE TypeInv'
  BY <1>16 DEF LoopDraining
<1>17. ASSUME NEW s \in Streams, Cancel(s) PROVE TypeInv'
  BY <1>17 DEF Cancel
<1>18. ASSUME NEW s \in Streams, Join(s) PROVE TypeInv'
  BY <1>18 DEF Join
<1>19. ASSUME NEW s \in Streams, Release(s) PROVE TypeInv'
  BY <1>19 DEF Release
<1>20. ASSUME NEW s \in Streams, Finish(s) PROVE TypeInv'
  BY <1>20 DEF Finish
<1>21. ASSUME NEW s \in Streams, ListResets(s) PROVE TypeInv'
  BY <1>21 DEF ListResets, Yields
<1>22. ASSUME NEW s \in Streams, ListHonors(s) PROVE TypeInv'
  BY <1>22 DEF ListHonors, Moves
<1>23. ASSUME NEW s \in Streams, CallFails(s) PROVE TypeInv'
  BY <1>23 DEF CallFails, Yields
<1>24. ASSUME NEW s \in Streams, EndsWithoutHeader(s) PROVE TypeInv'
  BY <1>24 DEF EndsWithoutHeader, Yields
<1>25. ASSUME NEW s \in Streams, HeaderAdmits(s) PROVE TypeInv'
  BY <1>25 DEF HeaderAdmits, Moves
<1>26. ASSUME NEW s \in Streams, RecvEvent(s) PROVE TypeInv'
  <2>1. /\ ppc' = [ppc EXCEPT ![s] = "emit"] /\ cur' = [cur EXCEPT ![s] = cur[s] + 1]
        /\ cur[s] < committed
        /\ UNCHANGED <<draining, committed, terminal, total, bySubject, hpc, after, hand, ended,
                       res, resp, wire, final, frames, admitted, done, cancelled, gone, broken>>
    BY <1>26 DEF RecvEvent, Moves
  <2>2. cur[s] + 1 \in 1..MaxEvents /\ cur \in [Streams -> 0..(MaxEvents + 1)]
    BY <2>1
  <2> HIDE DEF TypeInv, TypeOK, HeldEvents
  <2>3. cur' \in [Streams -> 0..(MaxEvents + 1)] /\ cur'[s] \in 1..MaxEvents
    BY <2>1, <2>2
  <2>4. ppc' \in [Streams -> ProducerPC]
    BY <2>1 DEF TypeInv, TypeOK
  <2>5. TypeOK'
    BY <2>1, <2>3, <2>4 DEF TypeInv, TypeOK
  <2>6. \A t \in Streams \ {s} : ppc'[t] = ppc[t] /\ cur'[t] = cur[t]
    BY <2>1, <2>2 DEF TypeInv, TypeOK
  <2>7. HeldEvents'
    BY <2>1, <2>3, <2>6 DEF TypeInv, HeldEvents
  <2> QED
    BY <2>5, <2>7 DEF TypeInv
<1>27. ASSUME NEW s \in Streams, RecvEOF(s) PROVE TypeInv'
  BY <1>27 DEF RecvEOF, Yields
<1>28. ASSUME NEW s \in Streams, EmitSends(s) PROVE TypeInv'
  BY <1>28 DEF EmitSends, Moves
<1>29. ASSUME NEW s \in Streams, EmitCancelled(s) PROVE TypeInv'
  BY <1>29 DEF EmitCancelled, Yields
<1>30. ASSUME NEW s \in Streams, EmitGraceExpires(s) PROVE TypeInv'
  BY <1>30 DEF EmitGraceExpires, Yields
<1>31. ASSUME NEW s \in Streams, ClientLeaves(s) PROVE TypeInv'
  BY <1>31 DEF ClientLeaves
<1>32. CASE Commit
  BY <1>32 DEF Commit
<1>33. CASE Terminate
  BY <1>33 DEF Terminate
<1>34. CASE Stop
  BY <1>34 DEF Stop
<1>35. CASE UNCHANGED vars
  BY <1>35 DEF vars
<1> QED
  BY <1>1, <1>2, <1>3, <1>4, <1>5, <1>6, <1>7, <1>8, <1>9, <1>10, <1>11, <1>12, <1>13,
     <1>14, <1>15, <1>16, <1>17, <1>18, <1>19, <1>20, <1>21, <1>22, <1>23, <1>24, <1>25,
     <1>26, <1>27, <1>28, <1>29, <1>30, <1>31, <1>32, <1>33, <1>34, <1>35
  DEF Next, Handler, Producer

\* Type correctness of the event streams: in particular every frame in a
\* buffer and every event on a connection is one Control committed.
THEOREM TypeCorrect == Spec => []TypeOK
<1>1. Spec => []TypeInv
  BY InitTypeInv, NextTypeInv, PTL DEF Spec
<1> QED
  BY <1>1, PTL DEF TypeInv
-----------------------------------------------------------------------------
(* The inductive invariant of one stream.                                  *)

Early(s) == hpc[s] \in {"idle", "authorize", "limit"}

\* The events held between the producer and the connection.
Writing(s)  == IF hpc[s] = "writeEvent" THEN 1 ELSE 0
Emitting(s) == IF ppc[s] = "emit" THEN 1 ELSE 0

\* done carries a result only from a producer that ended, ended is set only
\* with that result, and the deferred calls are passed only after it.
JoinInv(s) ==
    /\ Early(s) => ppc[s] = "none"
    /\ done[s] # "none" => ppc[s] = "sent"
    /\ ended[s] => ppc[s] = "sent" /\ done[s] = "none"
    /\ Closed(s) => ~Live(s) /\ done[s] = "none"

\* Connection, handler, buffer and producer hold, one after the other, the
\* events that follow the cursor, as long as no write failed.
DeliveryInv(s) ==
    /\ Early(s) => wire[s] = <<>> /\ frames[s] = <<>>
    /\ \A i \in 1..Len(wire[s]) : wire[s][i] = after[s] + i
    /\ ~broken[s] =>
         /\ hpc[s] = "writeEvent" => hand[s] = after[s] + Len(wire[s]) + 1
         /\ \A i \in 1..Len(frames[s]) :
              frames[s][i] = after[s] + Len(wire[s]) + Writing(s) + i
         /\ Live(s) => cur[s] = after[s] + Len(wire[s]) + Writing(s)
                                 + Len(frames[s]) + Emitting(s)

StreamInv == \A s \in Streams : JoinInv(s) /\ DeliveryInv(s)

\* A step of stream s, and what it leaves alone at another stream t.
StreamStep(s) ==
    \/ Request(s) \/ Handler(s) \/ Heartbeat(s) \/ Finish(s) \/ Producer(s) \/ ClientLeaves(s)

Unmoved(t) ==
    /\ hpc'[t] = hpc[t] /\ after'[t] = after[t] /\ hand'[t] = hand[t]
    /\ ended'[t] = ended[t] /\ res'[t] = res[t] /\ resp'[t] = resp[t]
    /\ wire'[t] = wire[t] /\ final'[t] = final[t] /\ ppc'[t] = ppc[t]
    /\ cur'[t] = cur[t] /\ frames'[t] = frames[t] /\ admitted'[t] = admitted[t]
    /\ done'[t] = done[t] /\ cancelled'[t] = cancelled[t]
    /\ gone'[t] = gone[t] /\ broken'[t] = broken[t]

LEMMA Locality ==
  ASSUME TypeInv, NEW s \in Streams, NEW t \in Streams, t # s, StreamStep(s)
  PROVE  Unmoved(t) /\ UNCHANGED <<committed, terminal>>
<1> USE DEF Unmoved, TypeInv, TypeOK, Goto, limiterVars, controlVars, responseVars,
        handlerVars, producerVars, clientVars
<1>1. CASE Request(s) \/ Heartbeat(s) \/ Finish(s) \/ ClientLeaves(s)
  BY <1>1 DEF Request, Heartbeat, Finish, ClientLeaves
<1>2. CASE Authorized(s) \/ AuthorizeFails(s) \/ Acquire(s) \/ AcquireRefused(s)
  BY <1>2 DEF Authorized, AuthorizeFails, Acquire, AcquireRefused
<1>3. CASE AdmissionAdmitted(s) \/ AdmissionEnded(s) \/ AdmissionDraining(s) \/ ClientWentAway(s)
  BY <1>3 DEF AdmissionAdmitted, AdmissionEnded, AdmissionDraining, ClientWentAway
<1>4. CASE WriteSucceeds(s) \/ WriteFails(s)
  BY <1>4 DEF WriteSucceeds, WriteFails
<1>5. CASE TakeFrame(s) \/ StreamEnded(s) \/ Drained(s) \/ LoopDraining(s)
  BY <1>5 DEF TakeFrame, StreamEnded, Drained, LoopDraining
<1>6. CASE Cancel(s) \/ Join(s) \/ Release(s)
  BY <1>6 DEF Cancel, Join, Release
<1>7. CASE ListResets(s) \/ CallFails(s) \/ EndsWithoutHeader(s) \/ RecvEOF(s)
           \/ EmitCancelled(s) \/ EmitGraceExpires(s)
  BY <1>7 DEF ListResets, CallFails, EndsWithoutHeader, RecvEOF, EmitCancelled,
              EmitGraceExpires, Yields
<1>8. CASE ListHonors(s) \/ HeaderAdmits(s) \/ RecvEvent(s) \/ EmitSends(s)
  BY <1>8 DEF ListHonors, HeaderAdmits, RecvEvent, EmitSends, Moves
<1> QED
  BY <1>1, <1>2, <1>3, <1>4, <1>5, <1>6, <1>7, <1>8 DEF StreamStep, Handler, Producer

LEMMA JoinStep ==
  ASSUME TypeInv, NEW s \in Streams, JoinInv(s), StreamStep(s)
  PROVE  JoinInv(s)'
<1> USE DEF JoinInv, Early, Closed, Live, TypeInv, TypeOK, At, Goto, limiterVars, controlVars,
        responseVars, handlerVars, producerVars, clientVars
<1>1. CASE Request(s) \/ Heartbeat(s) \/ Finish(s) \/ ClientLeaves(s)
  BY <1>1 DEF Request, Heartbeat, Finish, ClientLeaves
<1>2. CASE Authorized(s) \/ AuthorizeFails(s) \/ Acquire(s) \/ AcquireRefused(s)
  BY <1>2 DEF Authorized, AuthorizeFails, Acquire, AcquireRefused
<1>3. CASE AdmissionAdmitted(s) \/ AdmissionEnded(s) \/ AdmissionDraining(s) \/ ClientWentAway(s)
  BY <1>3 DEF AdmissionAdmitted, AdmissionEnded, AdmissionDraining, ClientWentAway
<1>4. CASE WriteSucceeds(s) \/ WriteFails(s)
  BY <1>4 DEF WriteSucceeds, WriteFails, AfterWrite, WritePC
<1>5. CASE TakeFrame(s) \/ StreamEnded(s) \/ Drained(s) \/ LoopDraining(s)
  BY <1>5 DEF TakeFrame, StreamEnded, Drained, LoopDraining
<1>6. CASE Cancel(s) \/ Join(s) \/ Release(s)
  BY <1>6 DEF Cancel, Join, Release
<1>7. CASE ListResets(s) \/ CallFails(s) \/ EndsWithoutHeader(s) \/ RecvEOF(s)
           \/ EmitCancelled(s) \/ EmitGraceExpires(s)
  BY <1>7 DEF ListResets, CallFails, EndsWithoutHeader, RecvEOF, EmitCancelled,
              EmitGraceExpires, Yields
<1>8. CASE ListHonors(s) \/ HeaderAdmits(s) \/ RecvEvent(s) \/ EmitSends(s)
  BY <1>8 DEF ListHonors, HeaderAdmits, RecvEvent, EmitSends, Moves
<1> QED
  BY <1>1, <1>2, <1>3, <1>4, <1>5, <1>6, <1>7, <1>8 DEF StreamStep, Handler, Producer

LEMMA DeliveryStep ==
  ASSUME TypeInv, NEW s \in Streams, JoinInv(s), DeliveryInv(s), StreamStep(s)
  PROVE  DeliveryInv(s)'
<1> USE DEF JoinInv, DeliveryInv, Early, Closed, Live, Writing, Emitting, TypeInv, TypeOK, At,
        Goto, limiterVars, controlVars, responseVars, handlerVars, producerVars, clientVars
<1>1. CASE Request(s)
  BY <1>1 DEF Request
<1>2. CASE Heartbeat(s) \/ ClientLeaves(s)
  BY <1>2 DEF Heartbeat, ClientLeaves
<1>3. CASE Finish(s)
  BY <1>3 DEF Finish
<1>4. CASE Authorized(s) \/ AuthorizeFails(s) \/ AcquireRefused(s)
  BY <1>4 DEF Authorized, AuthorizeFails, AcquireRefused
<1>5. CASE Acquire(s)
  BY <1>5 DEF Acquire
<1>6. CASE AdmissionAdmitted(s) \/ AdmissionEnded(s) \/ AdmissionDraining(s) \/ ClientWentAway(s)
  <2>1. CASE AdmissionAdmitted(s)
    BY <2>1 DEF AdmissionAdmitted
  <2>2. CASE AdmissionEnded(s)
    BY <2>2 DEF AdmissionEnded
  <2>3. CASE AdmissionDraining(s)
    BY <2>3 DEF AdmissionDraining
  <2>4. CASE ClientWentAway(s)
    BY <2>4 DEF ClientWentAway
  <2> QED
    BY <1>6, <2>1, <2>2, <2>3, <2>4
<1>7. CASE WriteSucceeds(s)
  <2>1. AfterWrite(s) \notin {"idle", "authorize", "limit", "writeEvent"} /\ ~broken[s]
    BY <1>7 DEF AfterWrite, WriteSucceeds, WritePC
  <2>2. /\ hpc'[s] = AfterWrite(s) /\ hpc[s] \in WritePC /\ broken'[s] = broken[s]
        /\ after'[s] = after[s] /\ frames'[s] = frames[s] /\ cur'[s] = cur[s] /\ ppc'[s] = ppc[s]
    BY <1>7 DEF WriteSucceeds
  <2>3. CASE hpc[s] = "writeEvent"
    <3>1. wire'[s] = Append(wire[s], hand[s])
      BY <1>7, <2>3 DEF WriteSucceeds
    <3>2. Len(wire'[s]) = Len(wire[s]) + 1 /\ wire'[s][Len(wire[s]) + 1] = hand[s]
      BY <2>1, <2>3, <3>1
    <3>3. \A i \in 1..Len(wire[s]) : wire'[s][i] = wire[s][i]
      BY <2>1, <2>3, <3>1
    <3>4. Len(wire[s]) \in Nat /\ after[s] \in Nat /\ hand[s] = after[s] + Len(wire[s]) + 1
      BY <2>1, <2>3
    <3>5. ASSUME NEW i \in 1..Len(wire'[s]) PROVE wire'[s][i] = after[s] + i
      <4>1. CASE i = Len(wire[s]) + 1
        BY <3>2, <3>4, <4>1
      <4>2. CASE i # Len(wire[s]) + 1
        <5>1. i \in 1..Len(wire[s])
          BY <3>2, <3>4, <4>2
        <5> QED
          BY <3>3, <5>1
      <4> QED
        BY <4>1, <4>2
    <3>6. /\ \A i \in 1..Len(frames'[s]) : frames'[s][i] = after'[s] + Len(wire'[s]) + 0 + i
          /\ Live(s)' => cur'[s] = after'[s] + Len(wire'[s]) + 0 + Len(frames'[s]) + Emitting(s)'
      <4> DEFINE base == after[s] + Len(wire[s]) + 1
      <4>1. base \in Nat /\ after'[s] + Len(wire'[s]) + 0 = base
        BY <2>2, <3>2, <3>4
      <4>2. \A i \in 1..Len(frames[s]) : frames[s][i] = base + i
        BY <2>1, <2>3
      <4>3. Live(s) => cur[s] = base + Len(frames[s]) + Emitting(s)
        BY <2>1, <2>3
      <4> HIDE DEF base
      <4>4. \A i \in 1..Len(frames'[s]) : frames'[s][i] = after'[s] + Len(wire'[s]) + 0 + i
        BY <2>2, <4>1, <4>2
      <4>5. Live(s)' => cur'[s] = after'[s] + Len(wire'[s]) + 0 + Len(frames'[s]) + Emitting(s)'
        BY <2>2, <4>1, <4>3
      <4> QED
        BY <4>4, <4>5
    <3>7. ~Early(s)' /\ hpc'[s] # "writeEvent" /\ Writing(s)' = 0
      BY <2>1, <2>2
    <3> QED
      BY <2>2, <3>5, <3>6, <3>7
  <2>4. CASE hpc[s] # "writeEvent"
    <3>1. wire'[s] = wire[s]
      BY <1>7, <2>4 DEF WriteSucceeds
    <3> QED
      BY <2>1, <2>2, <2>4, <3>1 DEF WritePC
  <2> QED
    BY <2>3, <2>4
<1>8. CASE WriteFails(s)
  BY <1>8 DEF WriteFails, AfterWrite, WritePC
<1>9. CASE TakeFrame(s)
  <2>1. /\ hpc[s] \in {"loop", "drain"} /\ hpc'[s] = "writeEvent" /\ broken'[s] = broken[s]
        /\ after'[s] = after[s] /\ wire'[s] = wire[s] /\ cur'[s] = cur[s] /\ ppc'[s] = ppc[s]
        /\ hand'[s] = Head(frames[s]) /\ frames'[s] = Tail(frames[s]) /\ frames[s] # <<>>
    BY <1>9 DEF TakeFrame
  <2>2. /\ Head(frames[s]) = frames[s][1] /\ Len(frames[s]) \in Nat \ {0}
        /\ Len(frames'[s]) = Len(frames[s]) - 1
    BY <2>1
  <2>3. \A i \in 1..Len(frames'[s]) : frames'[s][i] = frames[s][i + 1]
    BY <2>1
  <2> QED
    BY <2>1, <2>2, <2>3
<1>10. CASE StreamEnded(s) \/ Drained(s) \/ LoopDraining(s)
  <2>1. CASE StreamEnded(s)
    BY <2>1 DEF StreamEnded
  <2>2. CASE Drained(s)
    BY <2>2 DEF Drained
  <2>3. CASE LoopDraining(s)
    BY <2>3 DEF LoopDraining
  <2> QED
    BY <1>10, <2>1, <2>2, <2>3
<1>11. CASE Cancel(s) \/ Join(s) \/ Release(s)
  BY <1>11 DEF Cancel, Join, Release
<1>12. CASE ListResets(s) \/ CallFails(s) \/ EndsWithoutHeader(s) \/ RecvEOF(s)
           \/ EmitCancelled(s) \/ EmitGraceExpires(s)
  <2>1. /\ ppc'[s] = "sent"
        /\ UNCHANGED <<hpc, after, hand, wire, frames, cur, broken>>
    BY <1>12 DEF ListResets, CallFails, EndsWithoutHeader, RecvEOF, EmitCancelled,
                 EmitGraceExpires, Yields
  <2> HIDE DEF TypeInv, TypeOK, JoinInv
  <2> QED
    BY <2>1
<1>13. CASE ListHonors(s) \/ HeaderAdmits(s) \/ RecvEvent(s)
  <2>1. CASE ListHonors(s)
    BY <2>1 DEF ListHonors, Moves
  <2>2. CASE HeaderAdmits(s)
    BY <2>2 DEF HeaderAdmits, Moves
  <2>3. CASE RecvEvent(s)
    BY <2>3 DEF RecvEvent, Moves
  <2> QED
    BY <1>13, <2>1, <2>2, <2>3
<1>14. CASE EmitSends(s)
  <2>1. /\ ppc[s] = "emit" /\ ppc'[s] = "recv" /\ broken'[s] = broken[s] /\ hpc'[s] = hpc[s]
        /\ hand'[s] = hand[s]
        /\ after'[s] = after[s] /\ wire'[s] = wire[s] /\ cur'[s] = cur[s]
        /\ frames'[s] = Append(frames[s], cur[s])
    BY <1>14 DEF EmitSends, Moves
  <2>2. /\ Len(frames'[s]) = Len(frames[s]) + 1 /\ frames'[s][Len(frames[s]) + 1] = cur[s]
        /\ \A i \in 1..Len(frames[s]) : frames'[s][i] = frames[s][i]
    BY <2>1
  <2>3. Len(frames[s]) \in Nat /\ Len(wire[s]) \in Nat /\ after[s] \in Nat
    OBVIOUS
  <2> DEFINE held == after[s] + Len(wire[s]) + Writing(s)
  <2>9. /\ held \in Nat
        /\ ~broken[s] => /\ cur[s] = held + Len(frames[s]) + 1
                         /\ \A i \in 1..Len(frames[s]) : frames[s][i] = held + i
    <3>1. held \in Nat
      BY <2>3
    <3>2. ~broken[s] => cur[s] = held + Len(frames[s]) + 1
      BY <2>1
    <3>3. ~broken[s] => \A i \in 1..Len(frames[s]) : frames[s][i] = held + i
      OBVIOUS
    <3> QED
      BY <3>1, <3>2, <3>3
  <2> HIDE DEF held, JoinInv, DeliveryInv, TypeInv, TypeOK
  <2>4. ASSUME ~broken[s], NEW i \in 1..Len(frames'[s])
        PROVE  frames'[s][i] = held + i
    <3>1. CASE i = Len(frames[s]) + 1
      BY <2>2, <2>3, <2>9, <2>4, <3>1
    <3>2. CASE i # Len(frames[s]) + 1
      <4>1. i \in 1..Len(frames[s])
        BY <2>2, <2>3, <3>2
      <4> QED
        BY <2>2, <2>4, <2>9, <4>1
    <3> QED
      BY <3>1, <3>2
  <2>5. ~broken[s] => cur[s] = held + Len(frames'[s]) + 0
    BY <2>2, <2>3, <2>9
  <2>6. ~Early(s)' /\ Emitting(s)' = 0 /\ after'[s] + Len(wire'[s]) + Writing(s)' = held
    BY <2>1 DEF held, JoinInv
  <2>7. /\ \A i \in 1..Len(wire'[s]) : wire'[s][i] = after'[s] + i
        /\ ~broken'[s] /\ hpc'[s] = "writeEvent" => hand'[s] = after'[s] + Len(wire'[s]) + 1
    BY <2>1 DEF DeliveryInv
  <2>8. ~broken'[s] => /\ \A i \in 1..Len(frames'[s]) :
                            frames'[s][i] = after'[s] + Len(wire'[s]) + Writing(s)' + i
                       /\ cur'[s] = after'[s] + Len(wire'[s]) + Writing(s)' + Len(frames'[s])
                                    + Emitting(s)'
    BY <2>1, <2>4, <2>5, <2>6
  <2> QED
    BY <2>6, <2>7, <2>8 DEF DeliveryInv
<1> QED
  BY <1>1, <1>2, <1>3, <1>4, <1>5, <1>6, <1>7, <1>8, <1>9, <1>10, <1>11, <1>12, <1>13, <1>14
  DEF StreamStep, Handler, Producer

LEMMA InitStreamInv == Init => StreamInv
  BY DEF Init, StreamInv, JoinInv, DeliveryInv, Early, Closed, Live

LEMMA NextStreamInv == TypeInv /\ StreamInv /\ [Next]_vars => StreamInv'
<1> SUFFICES ASSUME TypeInv, StreamInv, [Next]_vars,
                    NEW t \in Streams
             PROVE  JoinInv(t)' /\ DeliveryInv(t)'
  BY DEF StreamInv
<1>1. JoinInv(t) /\ DeliveryInv(t)
  BY DEF StreamInv
<1>2. ASSUME Unmoved(t) PROVE JoinInv(t)' /\ DeliveryInv(t)'
  BY <1>1, <1>2 DEF Unmoved, JoinInv, DeliveryInv, Early, Closed, Live, Writing, Emitting
<1>3. ASSUME NEW s \in Streams, StreamStep(s) PROVE JoinInv(t)' /\ DeliveryInv(t)'
  <2>1. CASE s = t
    BY <1>1, <1>3, <2>1, JoinStep, DeliveryStep
  <2>2. CASE s # t
    BY <1>2, <1>3, <2>2, Locality
  <2> QED
    BY <2>1, <2>2
<1>4. CASE Commit \/ Terminate \/ Stop \/ UNCHANGED vars
  <2>1. Unmoved(t)
    BY <1>4 DEF Commit, Terminate, Stop, vars, Unmoved, limiterVars, controlVars, responseVars,
                handlerVars, producerVars, clientVars
  <2> QED
    BY <1>2, <2>1
<1> QED
  BY <1>3, <1>4 DEF Next, StreamStep

LEMMA StreamInvariant == Spec => [](TypeInv /\ StreamInv)
<1>1. Init => TypeInv /\ StreamInv
  BY InitTypeInv, InitStreamInv
<1>2. (TypeInv /\ StreamInv) /\ [Next]_vars => (TypeInv /\ StreamInv)'
  BY NextTypeInv, NextStreamInv
<1> QED
  BY <1>1, <1>2, PTL DEF Spec

\* The client of every stream sees the events after its cursor, each once, in
\* order and without a gap, for every buffer size, log and number of streams.
THEOREM WireIsContiguous == Spec => []WireContiguous
<1>1. StreamInv => WireContiguous
  BY DEF StreamInv, DeliveryInv, WireContiguous
<1> QED
  BY <1>1, StreamInvariant, PTL

\* No producer goroutine runs once the handler passed its deferred join.
THEOREM ProducerIsJoined == Spec => []ProducerJoined
<1>1. TypeInv /\ StreamInv => ProducerJoined
  BY DEF StreamInv, JoinInv, ProducerJoined, Early, Closed, Live, HoldsSlot
<1> QED
  BY <1>1, StreamInvariant, PTL
-----------------------------------------------------------------------------
(* The caps.                                                               *)

\* The counters never pass the caps (a cap of 0 is no cap).
CapsInv ==
    /\ MaxStreams > 0 => total <= MaxStreams
    /\ MaxPerSubject > 0 => \A u \in Subjects : bySubject[u] <= MaxPerSubject

\* Only acquire and the deferred release change who holds a slot.
LEMMA HoldersUnchanged ==
  ASSUME TypeInv, NEW s \in Streams, StreamStep(s), ~Acquire(s), ~Release(s)
  PROVE  Holders' = Holders /\ UNCHANGED limiterVars
<1> USE DEF TypeInv, TypeOK, At, Goto, limiterVars, controlVars, responseVars, handlerVars,
        producerVars, clientVars
<1>1. \A t \in Streams : t # s => hpc'[t] = hpc[t]
  BY Locality DEF Unmoved
<1>2. (HoldsSlot(s)' <=> HoldsSlot(s)) /\ UNCHANGED limiterVars
  <2> USE DEF HoldsSlot
  <2>1. CASE Request(s) \/ Heartbeat(s) \/ Finish(s) \/ ClientLeaves(s)
    BY <2>1 DEF Request, Heartbeat, Finish, ClientLeaves
  <2>2. CASE Authorized(s) \/ AuthorizeFails(s) \/ AcquireRefused(s)
    BY <2>2 DEF Authorized, AuthorizeFails, AcquireRefused
  <2>3. CASE AdmissionAdmitted(s) \/ AdmissionEnded(s) \/ AdmissionDraining(s) \/ ClientWentAway(s)
    BY <2>3 DEF AdmissionAdmitted, AdmissionEnded, AdmissionDraining, ClientWentAway
  <2>4. CASE WriteSucceeds(s) \/ WriteFails(s)
    BY <2>4 DEF WriteSucceeds, WriteFails, AfterWrite, WritePC
  <2>5. CASE TakeFrame(s) \/ StreamEnded(s) \/ Drained(s) \/ LoopDraining(s)
    BY <2>5 DEF TakeFrame, StreamEnded, Drained, LoopDraining
  <2>6. CASE Cancel(s) \/ Join(s)
    BY <2>6 DEF Cancel, Join
  <2>7. CASE Producer(s)
    BY <2>7 DEF Producer, ListResets, CallFails, EndsWithoutHeader, RecvEOF, EmitCancelled,
                EmitGraceExpires, Yields, ListHonors, HeaderAdmits, RecvEvent, EmitSends, Moves
  <2> QED
    BY <2>1, <2>2, <2>3, <2>4, <2>5, <2>6, <2>7 DEF StreamStep, Handler
<1> QED
  BY <1>1, <1>2 DEF Holders, HoldsSlot

LEMMA HoldersFinite ==
  /\ IsFiniteSet(Holders)
  /\ \A u \in Subjects : IsFiniteSet(HoldersOf(u))
  BY ConstantsAssumption, FS_Subset DEF Holders, HoldersOf

LEMMA InitSlots == Init => SlotsAccounted /\ CapsInv
<1> SUFFICES ASSUME Init PROVE SlotsAccounted /\ CapsInv
  OBVIOUS
<1>1. Holders = {} /\ \A u \in Subjects : HoldersOf(u) = {}
  BY DEF Init, Holders, HoldersOf, HoldsSlot
<1>2. Cardinality({}) = 0
  BY FS_EmptySet
<1>3. total = 0 /\ \A u \in Subjects : bySubject[u] = 0
  BY DEF Init
<1>4. SlotsAccounted
  BY <1>1, <1>2, <1>3 DEF SlotsAccounted
<1>5. CapsInv
  BY <1>3, ConstantsAssumption DEF CapsInv
<1> QED
  BY <1>4, <1>5

LEMMA NextSlots ==
  TypeInv /\ SlotsAccounted /\ CapsInv /\ [Next]_vars => (SlotsAccounted /\ CapsInv)'
<1> SUFFICES ASSUME TypeInv, SlotsAccounted, CapsInv, [Next]_vars
             PROVE  (SlotsAccounted /\ CapsInv)'
  OBVIOUS
<1>1. ASSUME Holders' = Holders, UNCHANGED limiterVars PROVE (SlotsAccounted /\ CapsInv)'
  BY <1>1 DEF SlotsAccounted, CapsInv, HoldersOf, limiterVars
<1>2. ASSUME NEW s \in Streams, Acquire(s) PROVE (SlotsAccounted /\ CapsInv)'
  <2> USE <1>2 DEF TypeInv, TypeOK
  <2>1. SubjectOf[s] \in Subjects
    BY ConstantsAssumption
  <2>2. s \notin Holders /\ Holders' = Holders \cup {s}
    BY DEF Acquire, At, Goto, Holders, HoldsSlot
  <2>3. \A u \in Subjects :
          HoldersOf(u)' = IF u = SubjectOf[s] THEN HoldersOf(u) \cup {s} ELSE HoldersOf(u)
    BY <2>2 DEF HoldersOf
  <2>4. total' = Cardinality(Holders')
    BY <2>2, HoldersFinite, FS_AddElement DEF Acquire, SlotsAccounted
  <2>5. ASSUME NEW u \in Subjects PROVE bySubject'[u] = Cardinality(HoldersOf(u)')
    <3>1. bySubject[u] = Cardinality(HoldersOf(u)) /\ IsFiniteSet(HoldersOf(u))
      BY HoldersFinite DEF SlotsAccounted
    <3>2. s \notin HoldersOf(u)
      BY <2>2 DEF HoldersOf
    <3>3. Cardinality(HoldersOf(u) \cup {s}) = Cardinality(HoldersOf(u)) + 1
      BY <3>1, <3>2, FS_AddElement
    <3> QED
      BY <2>1, <2>3, <3>1, <3>3 DEF Acquire
  <2>6. CapsInv'
    BY <2>1, ConstantsAssumption DEF CapsInv, Acquire, AtCapacity
  <2> QED
    BY <2>4, <2>5, <2>6 DEF SlotsAccounted
<1>3. ASSUME NEW s \in Streams, Release(s) PROVE (SlotsAccounted /\ CapsInv)'
  <2> USE <1>3 DEF TypeInv, TypeOK
  <2>1. SubjectOf[s] \in Subjects
    BY ConstantsAssumption
  <2>2. s \in Holders /\ Holders' = Holders \ {s}
    BY DEF Release, At, Goto, Holders, HoldsSlot
  <2>3. \A u \in Subjects :
          HoldersOf(u)' = IF u = SubjectOf[s] THEN HoldersOf(u) \ {s} ELSE HoldersOf(u)
    BY <2>2 DEF HoldersOf
  <2>4. total' = Cardinality(Holders')
    BY <2>2, HoldersFinite, FS_RemoveElement DEF Release, SlotsAccounted
  <2>5. ASSUME NEW u \in Subjects PROVE bySubject'[u] = Cardinality(HoldersOf(u)')
    <3>1. bySubject[u] = Cardinality(HoldersOf(u)) /\ IsFiniteSet(HoldersOf(u))
      BY HoldersFinite DEF SlotsAccounted
    <3>2. u = SubjectOf[s] => s \in HoldersOf(u)
      BY <2>2 DEF HoldersOf
    <3>3. u = SubjectOf[s] => Cardinality(HoldersOf(u) \ {s}) = Cardinality(HoldersOf(u)) - 1
      BY <3>1, <3>2, FS_RemoveElement
    <3> QED
      BY <2>1, <2>3, <3>1, <3>3 DEF Release
  <2>6. CapsInv'
    BY <2>1, ConstantsAssumption DEF CapsInv, Release
  <2> QED
    BY <2>4, <2>5, <2>6 DEF SlotsAccounted
<1>4. ASSUME NEW s \in Streams, StreamStep(s) PROVE (SlotsAccounted /\ CapsInv)'
  BY <1>1, <1>2, <1>3, <1>4, HoldersUnchanged
<1>5. CASE Commit \/ Terminate \/ Stop \/ UNCHANGED vars
  <2>1. Holders' = Holders /\ UNCHANGED limiterVars
    BY <1>5 DEF Commit, Terminate, Stop, vars, handlerVars, Holders, HoldsSlot
  <2> QED
    BY <1>1, <2>1
<1> QED
  BY <1>4, <1>5 DEF Next, StreamStep

\* The limiter's counters are the streams between acquire and release: no
\* return path of the handler leaks a slot or frees one twice.
THEOREM SlotsAreAccounted == Spec => []SlotsAccounted
<1>1. Init => TypeInv /\ SlotsAccounted /\ CapsInv
  BY InitTypeInv, InitSlots
<1>2. (TypeInv /\ SlotsAccounted /\ CapsInv) /\ [Next]_vars
        => (TypeInv /\ SlotsAccounted /\ CapsInv)'
  BY NextTypeInv, NextSlots
<1> QED
  BY <1>1, <1>2, PTL DEF Spec

\* The streams open at Control never exceed the caps of the process and of
\* the principal: a live producer holds a slot, and the slots are counted.
THEOREM CapsBoundControlStreams == Spec => []ControlStreamsWithinCaps
<1>1. ASSUME TypeInv, StreamInv, SlotsAccounted, CapsInv PROVE ControlStreamsWithinCaps
  <2> USE <1>1
  <2>1. LiveStreams \subseteq Holders
    BY DEF LiveStreams, Holders, HoldsSlot, StreamInv, JoinInv, Early, Closed, Live
  <2>2. Cardinality(LiveStreams) <= total
    BY <2>1, HoldersFinite, FS_Subset DEF SlotsAccounted
  <2>3. ASSUME NEW u \in Subjects
        PROVE  Cardinality({s \in LiveStreams : SubjectOf[s] = u}) <= bySubject[u]
    <3>1. {s \in LiveStreams : SubjectOf[s] = u} \subseteq HoldersOf(u)
      BY <2>1 DEF HoldersOf
    <3> QED
      BY <3>1, HoldersFinite, FS_Subset DEF SlotsAccounted
  <2>4. Cardinality(LiveStreams) \in Nat
    BY <2>1, HoldersFinite, FS_Subset, FS_CardinalityType
  <2>5. MaxStreams > 0 => Cardinality(LiveStreams) <= MaxStreams
    BY <2>2, <2>4, ConstantsAssumption DEF CapsInv, TypeInv, TypeOK
  <2>6. ASSUME MaxPerSubject > 0, NEW u \in Subjects
        PROVE  Cardinality({s \in LiveStreams : SubjectOf[s] = u}) <= MaxPerSubject
    <3>1. Cardinality({s \in LiveStreams : SubjectOf[s] = u}) \in Nat
      <4>1. IsFiniteSet(LiveStreams)
        BY <2>1, HoldersFinite, FS_Subset
      <4>2. {s \in LiveStreams : SubjectOf[s] = u} \subseteq LiveStreams
        OBVIOUS
      <4>3. IsFiniteSet({s \in LiveStreams : SubjectOf[s] = u})
        BY <4>1, <4>2, FS_Subset
      <4> QED
        BY <4>3, FS_CardinalityType
    <3>2. bySubject[u] \in Int /\ bySubject[u] <= MaxPerSubject /\ MaxPerSubject \in Nat
      BY <2>6, ConstantsAssumption DEF CapsInv, TypeInv, TypeOK
    <3>3. Cardinality({s \in LiveStreams : SubjectOf[s] = u}) <= bySubject[u]
      BY <2>3
    <3> QED
      BY <3>1, <3>2, <3>3
  <2> QED
    BY <2>5, <2>6 DEF ControlStreamsWithinCaps
<1>2. Init => TypeInv /\ StreamInv /\ SlotsAccounted /\ CapsInv
  BY InitTypeInv, InitStreamInv, InitSlots
<1>3. (TypeInv /\ StreamInv /\ SlotsAccounted /\ CapsInv) /\ [Next]_vars
        => (TypeInv /\ StreamInv /\ SlotsAccounted /\ CapsInv)'
  BY NextTypeInv, NextStreamInv, NextSlots
<1> QED
  BY <1>1, <1>2, <1>3, PTL DEF Spec
-----------------------------------------------------------------------------
(* How a stream closes.                                                    *)

\* The producer's result, in the channel or received by the handler.
Outcome(s) == IF ended[s] THEN res[s] ELSE done[s]

\* Events on the connection or on their way to it.
Passed(s) == Len(wire[s]) + Writing(s) + Len(frames[s])

\* Where the control flow can be: which program points come before the first
\* frame, after the admission, and after the last frame.
FlowInv(s) ==
    /\ cancelled[s] => hpc[s] \in {"join", "release", "returned"}
    /\ final[s] # "none" => hpc[s] \in {"cleanup", "join", "release", "returned"}
    /\ Early(s) \/ hpc[s] \in {"admission", "writeRetry"} => wire[s] = <<>> /\ final[s] = "none"
    /\ ppc[s] \in {"recv", "emit"} => admitted[s]
    /\ admitted[s] => ppc[s] \in {"recv", "emit", "sent"}
    /\ hpc[s] \in {"loop", "writeEvent", "writeBeat", "drain", "writeEnd"} => admitted[s]
    /\ hpc[s] = "writeRetry" /\ ~ended[s] => admitted[s]
    /\ wire[s] # <<>> \/ final[s] = "end" => admitted[s]
    /\ hpc[s] \in {"admission", "loop", "writeBeat"} => ~ended[s]
    /\ hpc[s] = "drain" => ended[s]
    /\ ended[s] <=> res[s] # "none"
    /\ hpc[s] = "writeRetry" /\ ended[s] => res[s] \in {"nil", "reset"}
    /\ hpc[s] = "writeReset" \/ final[s] = "reset" => res[s] = "reset"

\* What a result says of the events the producer received.
OutcomeInv(s) ==
    /\ ppc[s] \in {"list", "header"} => cur[s] = after[s]
    /\ Outcome(s) = "reset" => ~admitted[s]
    /\ Outcome(s) = "nil" => terminal /\ cur[s] = committed
    /\ ~broken[s] /\ Outcome(s) = "slow" => cur[s] = after[s] + Passed(s) + 1 /\ Passed(s) > 0
    /\ ~broken[s] /\ ~gone[s] /\ hpc[s] # "join" /\ Outcome(s) \in {"nil", "err"}
         => cur[s] = after[s] + Passed(s)

\* What is left behind when a clean stream closes.
CloseInv(s) ==
    /\ CleanStream(s) /\ ended[s] /\ hpc[s] = "writeEnd" => frames[s] = <<>>
    /\ CleanStream(s) /\ hpc[s] \in {"cleanup", "join", "release", "returned"} =>
         /\ final[s] = "none" => /\ ended[s] /\ res[s] \in {"nil", "slow"}
                                 /\ res[s] = "slow" => wire[s] # <<>>
         /\ ended[s] /\ (wire[s] # <<>> \/ final[s] = "end") => frames[s] = <<>>

ClosingInv == \A s \in Streams : FlowInv(s) /\ OutcomeInv(s) /\ CloseInv(s)

LEMMA FlowStep ==
  ASSUME TypeInv, NEW s \in Streams, JoinInv(s), OutcomeInv(s), FlowInv(s), StreamStep(s)
  PROVE  FlowInv(s)'
<1> USE DEF JoinInv, FlowInv, Early, Closed, Live, TypeInv, TypeOK, At,
        Goto, limiterVars, controlVars, responseVars, handlerVars, producerVars, clientVars
<1>1. CASE Request(s)
  BY <1>1 DEF Request
<1>2. CASE Heartbeat(s) \/ ClientLeaves(s)
  BY <1>2 DEF Heartbeat, ClientLeaves
<1>3. CASE Finish(s)
  BY <1>3 DEF Finish
<1>4. CASE Authorized(s) \/ AuthorizeFails(s) \/ AcquireRefused(s)
  BY <1>4 DEF Authorized, AuthorizeFails, AcquireRefused
<1>5. CASE Acquire(s)
  BY <1>5 DEF Acquire
<1>6. CASE AdmissionAdmitted(s) \/ AdmissionEnded(s)
  <2>1. CASE AdmissionAdmitted(s)
    BY <2>1 DEF AdmissionAdmitted
  <2>2. CASE AdmissionEnded(s) /\ done[s] \in {"err", "slow"}
    BY <2>2 DEF AdmissionEnded
  <2>3. CASE AdmissionEnded(s) /\ done[s] \notin {"err", "slow"}
    <3>1. done[s] \in {"nil", "reset"}
      BY <2>3 DEF AdmissionEnded, Result
    <3> QED
      BY <2>3, <3>1 DEF AdmissionEnded
  <2> QED
    BY <1>6, <2>1, <2>2, <2>3
<1>7. CASE AdmissionDraining(s) \/ ClientWentAway(s)
  BY <1>7 DEF AdmissionDraining, ClientWentAway, CtxDone
<1>8. CASE WriteSucceeds(s)
  BY <1>8 DEF WriteSucceeds, AfterWrite, WritePC
<1>9. CASE WriteFails(s)
  BY <1>9 DEF WriteFails, AfterWrite, WritePC
<1>10. CASE TakeFrame(s)
  BY <1>10 DEF TakeFrame
<1>11. CASE StreamEnded(s) \/ LoopDraining(s)
  BY <1>11 DEF StreamEnded, LoopDraining
<1>12. CASE Drained(s)
  BY <1>12 DEF Drained
<1>13. CASE Cancel(s) \/ Join(s) \/ Release(s)
  BY <1>13 DEF Cancel, Join, Release
<1>14. CASE ListResets(s) \/ CallFails(s) \/ EndsWithoutHeader(s) \/ RecvEOF(s)
  BY <1>14 DEF ListResets, CallFails, EndsWithoutHeader, RecvEOF, Yields
<1>15. CASE EmitCancelled(s) \/ EmitGraceExpires(s)
  BY <1>15 DEF EmitCancelled, EmitGraceExpires, CtxDone, Yields
<1>16. CASE ListHonors(s) \/ HeaderAdmits(s) \/ RecvEvent(s)
  BY <1>16 DEF ListHonors, HeaderAdmits, RecvEvent, Moves
<1>17. CASE EmitSends(s)
  BY <1>17 DEF EmitSends, Moves
<1> QED
  BY <1>1, <1>2, <1>3, <1>4, <1>5, <1>6, <1>7, <1>8, <1>9, <1>10, <1>11, <1>12, <1>13,
     <1>14, <1>15, <1>16, <1>17 DEF StreamStep, Handler, Producer

\* A step that touches neither the result nor the events on their way.
LEMMA OutcomeKept ==
  ASSUME NEW s \in Streams, OutcomeInv(s), Outcome(s)' = Outcome(s), Passed(s)' = Passed(s),
         cur'[s] = cur[s], after'[s] = after[s], ppc'[s] = ppc[s], admitted'[s] = admitted[s],
         UNCHANGED <<terminal, committed>>, broken'[s] = broken[s],
         ~gone'[s] => ~gone[s], hpc'[s] # "join" => hpc[s] # "join"
  PROVE  OutcomeInv(s)'
BY DEF OutcomeInv

LEMMA OutcomeStep ==
  ASSUME TypeInv, NEW s \in Streams, JoinInv(s), DeliveryInv(s), FlowInv(s), OutcomeInv(s),
         StreamStep(s)
  PROVE  OutcomeInv(s)'
<1> USE DEF JoinInv, OutcomeInv, Outcome, Passed, Writing, Early, Closed, Live, TypeInv, TypeOK,
        At, Goto, limiterVars, controlVars, responseVars, handlerVars, producerVars, clientVars
<1>1. CASE Request(s)
  BY <1>1 DEF Request
<1>2. CASE Heartbeat(s) \/ ClientLeaves(s)
  <2>1. CASE Heartbeat(s)
    <3>1. Outcome(s)' = Outcome(s) /\ Passed(s)' = Passed(s)
      BY <2>1 DEF Heartbeat
    <3>2. /\ cur'[s] = cur[s] /\ after'[s] = after[s] /\ ppc'[s] = ppc[s]
          /\ admitted'[s] = admitted[s] /\ UNCHANGED <<terminal, committed>>
          /\ broken'[s] = broken[s] /\ (~gone'[s] => ~gone[s])
          /\ (hpc'[s] # "join" => hpc[s] # "join")
      BY <2>1 DEF Heartbeat
    <3> HIDE DEF Outcome, Passed, OutcomeInv, JoinInv, TypeInv, TypeOK
    <3> QED
      BY <3>1, <3>2, OutcomeKept
  <2>2. CASE ClientLeaves(s)
    <3>1. Outcome(s)' = Outcome(s) /\ Passed(s)' = Passed(s)
      BY <2>2 DEF ClientLeaves
    <3>2. /\ cur'[s] = cur[s] /\ after'[s] = after[s] /\ ppc'[s] = ppc[s]
          /\ admitted'[s] = admitted[s] /\ UNCHANGED <<terminal, committed>>
          /\ broken'[s] = broken[s] /\ (~gone'[s] => ~gone[s])
          /\ (hpc'[s] # "join" => hpc[s] # "join")
      BY <2>2 DEF ClientLeaves
    <3> HIDE DEF Outcome, Passed, OutcomeInv, JoinInv, TypeInv, TypeOK
    <3> QED
      BY <3>1, <3>2, OutcomeKept
  <2> QED
    BY <1>2, <2>1, <2>2
<1>3. CASE Finish(s)
  BY <1>3 DEF Finish
<1>4. CASE Authorized(s) \/ AuthorizeFails(s) \/ AcquireRefused(s)
  <2>1. CASE Authorized(s)
    <3>1. Outcome(s)' = Outcome(s) /\ Passed(s)' = Passed(s)
      BY <2>1 DEF Authorized
    <3>2. /\ cur'[s] = cur[s] /\ after'[s] = after[s] /\ ppc'[s] = ppc[s]
          /\ admitted'[s] = admitted[s] /\ UNCHANGED <<terminal, committed>>
          /\ broken'[s] = broken[s] /\ (~gone'[s] => ~gone[s])
          /\ (hpc'[s] # "join" => hpc[s] # "join")
      BY <2>1 DEF Authorized
    <3> HIDE DEF Outcome, Passed, OutcomeInv, JoinInv, TypeInv, TypeOK
    <3> QED
      BY <3>1, <3>2, OutcomeKept
  <2>2. CASE AuthorizeFails(s)
    <3>1. Outcome(s)' = Outcome(s) /\ Passed(s)' = Passed(s)
      BY <2>2 DEF AuthorizeFails
    <3>2. /\ cur'[s] = cur[s] /\ after'[s] = after[s] /\ ppc'[s] = ppc[s]
          /\ admitted'[s] = admitted[s] /\ UNCHANGED <<terminal, committed>>
          /\ broken'[s] = broken[s] /\ (~gone'[s] => ~gone[s])
          /\ (hpc'[s] # "join" => hpc[s] # "join")
      BY <2>2 DEF AuthorizeFails
    <3> HIDE DEF Outcome, Passed, OutcomeInv, JoinInv, TypeInv, TypeOK
    <3> QED
      BY <3>1, <3>2, OutcomeKept
  <2>3. CASE AcquireRefused(s)
    <3>1. Outcome(s)' = Outcome(s) /\ Passed(s)' = Passed(s)
      BY <2>3 DEF AcquireRefused
    <3>2. /\ cur'[s] = cur[s] /\ after'[s] = after[s] /\ ppc'[s] = ppc[s]
          /\ admitted'[s] = admitted[s] /\ UNCHANGED <<terminal, committed>>
          /\ broken'[s] = broken[s] /\ (~gone'[s] => ~gone[s])
          /\ (hpc'[s] # "join" => hpc[s] # "join")
      BY <2>3 DEF AcquireRefused
    <3> HIDE DEF Outcome, Passed, OutcomeInv, JoinInv, TypeInv, TypeOK
    <3> QED
      BY <3>1, <3>2, OutcomeKept
  <2> QED
    BY <1>4, <2>1, <2>2, <2>3
<1>5. CASE Acquire(s)
  BY <1>5 DEF Acquire
<1>6. CASE AdmissionAdmitted(s) \/ AdmissionEnded(s)
  <2>1. CASE AdmissionAdmitted(s)
    BY <2>1 DEF AdmissionAdmitted
  <2>2. CASE AdmissionEnded(s)
    <3>1. Outcome(s)' = Outcome(s)
      BY <2>2 DEF AdmissionEnded
    <3>2. /\ UNCHANGED <<wire, frames, cur, after, ppc, broken, gone, admitted, terminal, committed>>
          /\ Writing(s)' = Writing(s) /\ hpc[s] # "join"
      BY <2>2 DEF AdmissionEnded
    <3> HIDE DEF Outcome, Writing
    <3> QED
      BY <3>1, <3>2
  <2> QED
    BY <1>6, <2>1, <2>2
<1>7. CASE AdmissionDraining(s) \/ ClientWentAway(s)
  <2>1. CASE AdmissionDraining(s)
    <3>1. Outcome(s)' = Outcome(s) /\ Passed(s)' = Passed(s)
      BY <2>1 DEF AdmissionDraining
    <3>2. /\ cur'[s] = cur[s] /\ after'[s] = after[s] /\ ppc'[s] = ppc[s]
          /\ admitted'[s] = admitted[s] /\ UNCHANGED <<terminal, committed>>
          /\ broken'[s] = broken[s] /\ (~gone'[s] => ~gone[s])
          /\ (hpc'[s] # "join" => hpc[s] # "join")
      BY <2>1 DEF AdmissionDraining
    <3> HIDE DEF Outcome, Passed, OutcomeInv, JoinInv, TypeInv, TypeOK
    <3> QED
      BY <3>1, <3>2, OutcomeKept
  <2>2. CASE ClientWentAway(s)
    <3>1. Outcome(s)' = Outcome(s) /\ Passed(s)' = Passed(s)
      BY <2>2 DEF ClientWentAway
    <3>2. /\ cur'[s] = cur[s] /\ after'[s] = after[s] /\ ppc'[s] = ppc[s]
          /\ admitted'[s] = admitted[s] /\ UNCHANGED <<terminal, committed>>
          /\ broken'[s] = broken[s] /\ (~gone'[s] => ~gone[s])
          /\ (hpc'[s] # "join" => hpc[s] # "join")
      BY <2>2 DEF ClientWentAway
    <3> HIDE DEF Outcome, Passed, OutcomeInv, JoinInv, TypeInv, TypeOK
    <3> QED
      BY <3>1, <3>2, OutcomeKept
  <2> QED
    BY <1>7, <2>1, <2>2
<1>8. CASE WriteSucceeds(s)
  BY <1>8 DEF WriteSucceeds, AfterWrite, WritePC
<1>9. CASE WriteFails(s)
  BY <1>9 DEF WriteFails, AfterWrite, WritePC
<1>10. CASE TakeFrame(s)
  BY <1>10 DEF TakeFrame
<1>11. CASE StreamEnded(s) \/ LoopDraining(s)
  <2>1. CASE StreamEnded(s)
    <3>1. Outcome(s)' = Outcome(s) /\ Passed(s)' = Passed(s)
      BY <2>1 DEF StreamEnded
    <3>2. /\ cur'[s] = cur[s] /\ after'[s] = after[s] /\ ppc'[s] = ppc[s]
          /\ admitted'[s] = admitted[s] /\ UNCHANGED <<terminal, committed>>
          /\ broken'[s] = broken[s] /\ (~gone'[s] => ~gone[s])
          /\ (hpc'[s] # "join" => hpc[s] # "join")
      BY <2>1 DEF StreamEnded
    <3> HIDE DEF Outcome, Passed, OutcomeInv, JoinInv, TypeInv, TypeOK
    <3> QED
      BY <3>1, <3>2, OutcomeKept
  <2>2. CASE LoopDraining(s)
    <3>1. Outcome(s)' = Outcome(s) /\ Passed(s)' = Passed(s)
      BY <2>2 DEF LoopDraining
    <3>2. /\ cur'[s] = cur[s] /\ after'[s] = after[s] /\ ppc'[s] = ppc[s]
          /\ admitted'[s] = admitted[s] /\ UNCHANGED <<terminal, committed>>
          /\ broken'[s] = broken[s] /\ (~gone'[s] => ~gone[s])
          /\ (hpc'[s] # "join" => hpc[s] # "join")
      BY <2>2 DEF LoopDraining
    <3> HIDE DEF Outcome, Passed, OutcomeInv, JoinInv, TypeInv, TypeOK
    <3> QED
      BY <3>1, <3>2, OutcomeKept
  <2> QED
    BY <1>11, <2>1, <2>2
<1>12. CASE Drained(s)
  BY <1>12 DEF Drained
<1>13. CASE Cancel(s) \/ Join(s) \/ Release(s)
  <2>1. CASE Cancel(s)
    BY <2>1 DEF Cancel
  <2>2. CASE Join(s)
    <3>1. Outcome(s)' = "none"
      BY <2>2 DEF Join
    <3>2. UNCHANGED <<cur, after, ppc>>
      BY <2>2 DEF Join
    <3> QED
      BY <3>1, <3>2
  <2>3. CASE Release(s)
    BY <2>3 DEF Release
  <2> QED
    BY <1>13, <2>1, <2>2, <2>3
<1>14. CASE ListResets(s) \/ CallFails(s) \/ EndsWithoutHeader(s) \/ RecvEOF(s)
  <2>1. /\ Live(s) /\ ppc[s] # "emit" /\ ~ended[s] /\ ppc'[s] = "sent"
        /\ UNCHANGED <<hpc, ended, wire, frames, cur, after, broken, gone, admitted>>
        /\ UNCHANGED <<terminal, committed>>
    BY <1>14 DEF ListResets, CallFails, EndsWithoutHeader, RecvEOF, Yields
  <2>2. ~broken[s] => cur[s] = after[s] + Passed(s)
    BY <2>1 DEF DeliveryInv, Emitting
  <2>3. Outcome(s)' \in {"reset", "err", "nil"}
    BY <1>14, <2>1 DEF ListResets, CallFails, EndsWithoutHeader, RecvEOF, Yields
  <2>4. Outcome(s)' = "nil" => terminal /\ cur[s] = committed
    BY <1>14, <2>1 DEF ListResets, CallFails, EndsWithoutHeader, RecvEOF, Yields
  <2>5. Outcome(s)' = "reset" => ~admitted[s]
    BY <1>14, <2>1 DEF ListResets, CallFails, EndsWithoutHeader, RecvEOF, Yields, FlowInv
  <2>6. Passed(s)' = Passed(s)
    BY <2>1
  <2> HIDE DEF Outcome, Passed
  <2> QED
    BY <2>1, <2>2, <2>3, <2>4, <2>5, <2>6
<1>15. CASE EmitCancelled(s) \/ EmitGraceExpires(s)
  <2>1. /\ ppc[s] = "emit" /\ ~ended[s] /\ ppc'[s] = "sent"
        /\ UNCHANGED <<hpc, ended, wire, frames, cur, after, broken, gone, admitted>>
        /\ UNCHANGED <<terminal, committed>>
    BY <1>15 DEF EmitCancelled, EmitGraceExpires, Yields
  <2>2. ~broken[s] => cur[s] = after[s] + Passed(s) + 1
    BY <2>1 DEF DeliveryInv, Emitting
  <2>3. Passed(s)' = Passed(s)
    BY <2>1
  <2>4. CASE EmitCancelled(s)
    <3>1. Outcome(s)' = "err" /\ (gone[s] \/ hpc[s] = "join")
      BY <2>1, <2>4 DEF EmitCancelled, Yields, CtxDone, FlowInv
    <3> HIDE DEF Outcome, Passed
    <3> QED
      BY <2>1, <3>1
  <2>5. CASE EmitGraceExpires(s)
    <3>1. Outcome(s)' = "slow"
      BY <2>1, <2>5 DEF EmitGraceExpires, Yields
    <3>2. Len(frames[s]) > 0 /\ Passed(s) > 0
      BY <2>5, ConstantsAssumption DEF EmitGraceExpires
    <3> HIDE DEF Outcome, Passed
    <3> QED
      BY <2>1, <2>2, <2>3, <3>1, <3>2
  <2> QED
    BY <1>15, <2>4, <2>5
<1>16. CASE ListHonors(s) \/ HeaderAdmits(s) \/ RecvEvent(s)
  <2>1. CASE ListHonors(s)
    BY <2>1 DEF ListHonors, Moves
  <2>2. CASE HeaderAdmits(s)
    BY <2>2 DEF HeaderAdmits, Moves
  <2>3. CASE RecvEvent(s)
    BY <2>3 DEF RecvEvent, Moves
  <2> QED
    BY <1>16, <2>1, <2>2, <2>3
<1>17. CASE EmitSends(s)
  BY <1>17 DEF EmitSends, Moves
<1> QED
  BY <1>1, <1>2, <1>3, <1>4, <1>5, <1>6, <1>7, <1>8, <1>9, <1>10, <1>11, <1>12, <1>13,
     <1>14, <1>15, <1>16, <1>17 DEF StreamStep, Handler, Producer

LEMMA CloseStep ==
  ASSUME TypeInv, NEW s \in Streams, JoinInv(s), DeliveryInv(s), FlowInv(s), OutcomeInv(s),
         CloseInv(s), StreamStep(s)
  PROVE  CloseInv(s)'
<1> USE DEF JoinInv, FlowInv, CloseInv, CleanStream, Early, Closed, Live, TypeInv, TypeOK,
        At, Goto, limiterVars, controlVars, responseVars, handlerVars, producerVars, clientVars
<1>1. CASE Request(s)
  BY <1>1 DEF Request
<1>2. CASE Heartbeat(s) \/ ClientLeaves(s)
  BY <1>2 DEF Heartbeat, ClientLeaves
<1>3. CASE Finish(s)
  BY <1>3 DEF Finish
<1>4. CASE Authorized(s) \/ AuthorizeFails(s) \/ AcquireRefused(s)
  BY <1>4 DEF Authorized, AuthorizeFails, AcquireRefused
<1>5. CASE Acquire(s)
  BY <1>5 DEF Acquire
<1>6. CASE AdmissionAdmitted(s) \/ AdmissionEnded(s)
  BY <1>6 DEF AdmissionAdmitted, AdmissionEnded
<1>7. CASE AdmissionDraining(s) \/ ClientWentAway(s)
  BY <1>7 DEF AdmissionDraining, ClientWentAway, CtxDone
<1>8. CASE WriteSucceeds(s)
  <2>1. /\ hpc'[s] = AfterWrite(s) /\ hpc[s] \in WritePC
        /\ UNCHANGED <<ended, res, resp, frames, gone, broken>>
    BY <1>8 DEF WriteSucceeds
  <2>2. CASE hpc[s] \in {"writeEvent", "writeBeat"}
    BY <2>1, <2>2 DEF AfterWrite
  <2>3. CASE hpc[s] = "writeRetry"
    <3>1. wire'[s] = wire[s] /\ final'[s] = final[s]
      BY <1>8, <2>3 DEF WriteSucceeds
    <3> QED
      BY <2>1, <2>3, <3>1 DEF AfterWrite
  <2>4. CASE hpc[s] = "writeEnd"
    <3>1. wire'[s] = wire[s] /\ final'[s] = "end" /\ hpc'[s] = "cleanup"
      BY <1>8, <2>4 DEF WriteSucceeds, AfterWrite
    <3> QED
      BY <2>1, <2>4, <3>1
  <2>5. CASE hpc[s] = "writeReset"
    <3>1. wire'[s] = wire[s] /\ final'[s] = "reset" /\ hpc'[s] = "cleanup"
      BY <1>8, <2>5 DEF WriteSucceeds, AfterWrite
    <3>2. wire[s] = <<>>
      BY <2>5 DEF OutcomeInv, Outcome
    <3> QED
      BY <2>1, <2>5, <3>1, <3>2
  <2> QED
    BY <2>1, <2>2, <2>3, <2>4, <2>5 DEF WritePC
<1>9. CASE WriteFails(s)
  BY <1>9 DEF WriteFails, AfterWrite, WritePC
<1>10. CASE TakeFrame(s)
  BY <1>10 DEF TakeFrame
<1>11. CASE StreamEnded(s) \/ LoopDraining(s)
  BY <1>11 DEF StreamEnded, LoopDraining
<1>12. CASE Drained(s)
  <2>1. /\ hpc[s] = "drain" /\ frames[s] = <<>> /\ ended[s] /\ admitted[s]
        /\ UNCHANGED <<ended, res, resp, frames, wire, final, gone, broken>>
    BY <1>12 DEF Drained
  <2>2. res[s] \in {"nil", "slow", "err"}
    BY <2>1 DEF OutcomeInv, Outcome, Result
  <2>3. ~broken[s] /\ res[s] = "slow" => wire[s] # <<>>
    BY <2>1 DEF OutcomeInv, Outcome, Passed, Writing
  <2>4. ~gone[s] /\ res[s] = "err" => hpc'[s] = "writeEnd"
    BY <1>12 DEF Drained
  <2> QED
    BY <2>1, <2>2, <2>3, <2>4
<1>13. CASE Cancel(s) \/ Join(s) \/ Release(s)
  BY <1>13 DEF Cancel, Join, Release
<1>14. CASE ListResets(s) \/ CallFails(s) \/ EndsWithoutHeader(s) \/ RecvEOF(s)
  BY <1>14 DEF ListResets, CallFails, EndsWithoutHeader, RecvEOF, Yields
<1>15. CASE EmitCancelled(s) \/ EmitGraceExpires(s)
  BY <1>15 DEF EmitCancelled, EmitGraceExpires, CtxDone, Yields
<1>16. CASE ListHonors(s) \/ HeaderAdmits(s) \/ RecvEvent(s)
  BY <1>16 DEF ListHonors, HeaderAdmits, RecvEvent, Moves
<1>17. CASE EmitSends(s)
  BY <1>17 DEF EmitSends, Moves
<1> QED
  BY <1>1, <1>2, <1>3, <1>4, <1>5, <1>6, <1>7, <1>8, <1>9, <1>10, <1>11, <1>12, <1>13,
     <1>14, <1>15, <1>16, <1>17 DEF StreamStep, Handler, Producer

LEMMA InitClosingInv == Init => ClosingInv
<1> SUFFICES ASSUME Init, NEW s \in Streams PROVE FlowInv(s) /\ OutcomeInv(s) /\ CloseInv(s)
  BY DEF ClosingInv
<1>1. FlowInv(s)
  BY DEF Init, FlowInv, Early
<1>2. OutcomeInv(s)
  BY DEF Init, OutcomeInv, Outcome
<1>3. CloseInv(s)
  BY DEF Init, CloseInv, CleanStream
<1> QED
  BY <1>1, <1>2, <1>3

LEMMA NextClosingInv == TypeInv /\ StreamInv /\ ClosingInv /\ [Next]_vars => ClosingInv'
<1> SUFFICES ASSUME TypeInv, StreamInv, ClosingInv, [Next]_vars,
                    NEW t \in Streams
             PROVE  (FlowInv(t) /\ OutcomeInv(t) /\ CloseInv(t))'
  BY DEF ClosingInv
<1>1. JoinInv(t) /\ DeliveryInv(t) /\ FlowInv(t) /\ OutcomeInv(t) /\ CloseInv(t)
  BY DEF StreamInv, ClosingInv
<1>2. ASSUME Unmoved(t), terminal => committed' = committed /\ terminal'
      PROVE  (FlowInv(t) /\ OutcomeInv(t) /\ CloseInv(t))'
  <2>1. FlowInv(t)'
    BY <1>1, <1>2 DEF Unmoved, FlowInv, Early
  <2>2. OutcomeInv(t)'
    BY <1>1, <1>2 DEF Unmoved, OutcomeInv, Outcome, Passed, Writing
  <2>3. CloseInv(t)'
    BY <1>1, <1>2 DEF Unmoved, CloseInv, CleanStream
  <2> QED
    BY <2>1, <2>2, <2>3
<1>3. ASSUME NEW s \in Streams, StreamStep(s) PROVE (FlowInv(t) /\ OutcomeInv(t) /\ CloseInv(t))'
  <2>1. CASE s = t
    BY <1>1, <1>3, <2>1, FlowStep, OutcomeStep, CloseStep
  <2>2. CASE s # t
    BY <1>2, <1>3, <2>2, Locality
  <2> QED
    BY <2>1, <2>2
<1>4. CASE Commit \/ Terminate \/ Stop \/ UNCHANGED vars
  <2>1. Unmoved(t) /\ (terminal => committed' = committed /\ terminal')
    BY <1>4 DEF Commit, Terminate, Stop, vars, Unmoved, limiterVars, controlVars, responseVars,
                handlerVars, producerVars, clientVars
  <2> QED
    BY <1>2, <2>1
<1> QED
  BY <1>3, <1>4 DEF Next, StreamStep

LEMMA ClosingInvariant == Spec => [](TypeInv /\ StreamInv /\ ClosingInv)
<1>1. Init => TypeInv /\ StreamInv /\ ClosingInv
  BY InitTypeInv, InitStreamInv, InitClosingInv
<1>2. (TypeInv /\ StreamInv /\ ClosingInv) /\ [Next]_vars
        => (TypeInv /\ StreamInv /\ ClosingInv)'
  BY NextTypeInv, NextStreamInv, NextClosingInv
<1> QED
  BY <1>1, <1>2, PTL DEF Spec

\* A 200 that closes without an event or a closing frame is a terminal
\* operation, never a refusal, a drain or a slow consumer (D-7).
THEOREM EmptyCloseMeansTerminal == Spec => []EmptyCloseIsTerminal
<1>1. ClosingInv => EmptyCloseIsTerminal
  BY DEF ClosingInv, CloseInv, OutcomeInv, Outcome, EmptyCloseIsTerminal, Closed
<1> QED
  BY <1>1, ClosingInvariant, PTL

\* Once a frame of a stream the producer ended was delivered, every buffered
\* frame was, and after a result of nil every committed event.
THEOREM BufferedFramesAreDelivered == Spec => []BufferedFramesDelivered
<1>1. ASSUME TypeInv, StreamInv, ClosingInv PROVE BufferedFramesDelivered
  <2> SUFFICES ASSUME NEW s \in Streams, Closed(s), CleanStream(s), ended[s],
                      wire[s] # <<>> \/ final[s] = "end"
               PROVE  /\ frames[s] = <<>>
                      /\ Len(wire[s]) = cur[s] - after[s] - (IF res[s] = "slow" THEN 1 ELSE 0)
                      /\ res[s] = "nil" => cur[s] = committed
    BY DEF BufferedFramesDelivered
  <2>1. FlowInv(s) /\ OutcomeInv(s) /\ CloseInv(s)
    BY <1>1 DEF ClosingInv
  <2>2. frames[s] = <<>>
    BY <2>1 DEF CloseInv, Closed
  <2>3. res[s] \in {"nil", "slow", "err"} /\ Outcome(s) = res[s]
    BY <1>1, <2>1 DEF FlowInv, OutcomeInv, Outcome, TypeInv, TypeOK, Result
  <2>4. Passed(s) = Len(wire[s]) /\ Len(wire[s]) \in Nat
    BY <1>1, <2>2 DEF Passed, Writing, Closed, TypeInv, TypeOK
  <2>5. ~broken[s] /\ ~gone[s] /\ hpc[s] # "join" /\ cur[s] \in Nat /\ after[s] \in Nat
    BY <1>1 DEF CleanStream, Closed, TypeInv, TypeOK
  <2> QED
    BY <2>1, <2>2, <2>3, <2>4, <2>5 DEF OutcomeInv
<1> QED
  BY <1>1, ClosingInvariant, PTL

\* A reset frame stands alone, and a stream that needs one and whose client
\* stays gets it.
THEOREM ResetFrameStandsAlone == Spec => []ResetStandsAlone
<1>1. ASSUME TypeInv, ClosingInv PROVE ResetStandsAlone
  <2> SUFFICES ASSUME NEW s \in Streams
               PROVE  /\ final[s] = "reset" => wire[s] = <<>> /\ ~admitted[s]
                      /\ Closed(s) /\ CleanStream(s) /\ res[s] = "reset" => final[s] = "reset"
    BY DEF ResetStandsAlone
  <2>1. FlowInv(s) /\ OutcomeInv(s) /\ CloseInv(s)
    BY <1>1 DEF ClosingInv
  <2>2. res[s] = "reset" => ~admitted[s]
    BY <2>1 DEF FlowInv, OutcomeInv, Outcome
  <2>3. final[s] \in {"none", "end", "reset"}
    BY <1>1 DEF TypeInv, TypeOK
  <2> QED
    BY <2>1, <2>2, <2>3 DEF FlowInv, CloseInv, Closed
<1> QED
  BY <1>1, ClosingInvariant, PTL

\* Nothing is written after a closing frame or once the handler started its
\* deferred calls.
THEOREM QuietAfterClose == Spec => QuietAfterClosing
<1> DEFINE Shut(s) == final[s] # "none" \/ hpc[s] \in {"cleanup", "join", "release"}
           Quiet == \A s \in Streams : Shut(s) /\ hpc'[s] # "idle"
                                       => wire'[s] = wire[s] /\ final'[s] = final[s]
<1>1. TypeInv /\ ClosingInv /\ [Next]_vars => [Quiet]_vars
  <2> SUFFICES ASSUME TypeInv, ClosingInv, Next, NEW t \in Streams, Shut(t), hpc'[t] # "idle"
               PROVE  wire'[t] = wire[t] /\ final'[t] = final[t]
    OBVIOUS
  <2>1. hpc[t] \in {"cleanup", "join", "release", "returned"}
    BY DEF ClosingInv, FlowInv
  <2>2. ASSUME NEW s \in Streams, StreamStep(s) PROVE wire'[t] = wire[t] /\ final'[t] = final[t]
    <3>1. CASE s # t
      BY <2>2, <3>1, Locality DEF Unmoved
    <3>2. CASE s = t
      <4> USE <2>1, <3>2 DEF responseVars, At, Goto, TypeInv, TypeOK
      <4>1. CASE Cancel(s) \/ Join(s) \/ Release(s) \/ ClientLeaves(s) \/ Finish(s)
        BY <4>1 DEF Cancel, Join, Release, ClientLeaves, Finish
      <4>2. CASE Producer(s)
        BY <4>2 DEF Producer, ListResets, CallFails, EndsWithoutHeader, RecvEOF, EmitCancelled,
                    EmitGraceExpires, Yields, ListHonors, HeaderAdmits, RecvEvent, EmitSends, Moves
      <4>3. CASE Request(s) \/ Heartbeat(s) \/ (Handler(s) /\ ~Cancel(s) /\ ~Join(s) /\ ~Release(s))
        BY <4>3 DEF Request, Heartbeat, Handler, Authorized, AuthorizeFails, Acquire,
                    AcquireRefused, AdmissionAdmitted, AdmissionEnded, AdmissionDraining,
                    ClientWentAway, WriteSucceeds, WriteFails, WritePC, TakeFrame, StreamEnded,
                    Drained, LoopDraining
      <4> QED
        BY <2>2, <4>1, <4>2, <4>3 DEF StreamStep
    <3> QED
      BY <3>1, <3>2
  <2>3. CASE Commit \/ Terminate \/ Stop
    BY <2>3 DEF Commit, Terminate, Stop, responseVars
  <2> QED
    BY <2>2, <2>3 DEF Next, StreamStep
<1>2. Spec => []TypeInv /\ []ClosingInv /\ [][Next]_vars
  BY ClosingInvariant, PTL DEF Spec
<1> QED
  BY <1>1, <1>2, PTL DEF QuietAfterClosing
=============================================================================
