---------------------------- MODULE EventStreams ----------------------------
(***************************************************************************)
(* The SSE event streams of the API (API-04): one HTTP handler goroutine   *)
(* and one producer goroutine per request, joined by a bounded frame       *)
(* channel, the caps on open streams they share, and the drain of a        *)
(* stopping server.                                                        *)
(*   src/internal/transport/http/sse.go         handler, emit, limiter     *)
(*   src/internal/adapters/control/client.go    Client.StreamEvents        *)
(*   src/internal/transport/http/server.go      Server.Stop                *)
(* Control (the event log, its gRPC answers), the client and net/http are  *)
(* outside src/ and are modelled by what the code can observe of them.     *)
(* The streams of one operation share one log of committed events; an      *)
(* event is its durable sequence number.                                   *)
(***************************************************************************)
EXTENDS Integers, Sequences, FiniteSets

CONSTANTS Streams,       \* slots for concurrent requests of API-04
          Subjects,      \* tenant/actor pairs, the limiter's keys
          SubjectOf,     \* the principal of each slot's requests
          FrameBuffer,   \* sse.frame_buffer
          MaxStreams,    \* sse.max_streams; 0 is unbounded
          MaxPerSubject, \* sse.max_streams_per_principal; 0 is unbounded
          MaxEvents,     \* bound: events the operation may commit
          Floor          \* events up to Floor are no longer retained by Control

ASSUME ConstantsAssumption ==
    /\ IsFiniteSet(Streams)
    /\ SubjectOf \in [Streams -> Subjects]
    /\ FrameBuffer \in Nat \ {0}
    /\ MaxStreams \in Nat
    /\ MaxPerSubject \in Nat
    /\ MaxEvents \in Nat
    /\ Floor \in 0..MaxEvents

VARIABLES
    draining,   \* Server.draining is closed
    committed,  \* Control: number of events committed for the operation
    terminal,   \* Control: the operation is terminal, it commits no more
    total,      \* streamLimiter.total
    bySubject,  \* streamLimiter.bySubject (an absent key is 0)
    hpc,        \* where each handler is
    after,      \* the cursor the request named
    hand,       \* the event the handler is writing, 0 when none
    ended,      \* the handler's flag ended
    res,        \* what the handler received from done
    resp,       \* what the response is: "ok" is a 200 event stream
    wire,       \* events handed to the connection, in order
    final,      \* the closing frame handed to the connection
    ppc,        \* where each producer is
    cur,        \* the last event the producer received from Control
    frames,     \* the frame channel
    admitted,   \* the channel admitted is closed
    done,       \* the content of the channel done
    cancelled,  \* the handler called cancel()
    gone,       \* the request context ended: the client went away
    broken      \* the connection takes no more bytes

limiterVars  == <<total, bySubject>>
controlVars  == <<committed, terminal>>
responseVars == <<resp, wire, final>>
handlerVars  == <<hpc, after, hand, ended, res>>
producerVars == <<ppc, cur, admitted>>
clientVars   == <<gone, broken>>
vars == <<draining, controlVars, limiterVars, handlerVars, responseVars,
          producerVars, frames, done, cancelled, clientVars>>

HandlerPC  == {"idle", "authorize", "limit", "admission",
               "writeRetry", "loop", "writeEvent", "writeBeat", "drain",
               "writeEnd", "writeReset", "cleanup", "join", "release", "returned"}
WritePC    == {"writeRetry", "writeEvent", "writeBeat", "writeEnd", "writeReset"}
ProducerPC == {"none", "list", "header", "recv", "emit", "sent"}
Result     == {"none", "nil", "reset", "slow", "err"}

\* A request's cursor parameters: absent, refused by sequencePattern, or a
\* sequence number (one more than Control can have committed included).
Absent     == -1
Malformed  == -2
Cursor     == {Absent, Malformed} \cup 0..(MaxEvents + 1)

TypeOK ==
    /\ draining \in BOOLEAN
    /\ committed \in 0..MaxEvents
    /\ terminal \in BOOLEAN
    /\ total \in Int
    /\ bySubject \in [Subjects -> Int]
    /\ hpc \in [Streams -> HandlerPC]
    /\ after \in [Streams -> 0..(MaxEvents + 1)]
    /\ hand \in [Streams -> 0..MaxEvents]
    /\ ended \in [Streams -> BOOLEAN]
    /\ res \in [Streams -> Result]
    /\ resp \in [Streams -> {"none", "ok", "invalid", "error", "capacity", "unavailable"}]
    /\ wire \in [Streams -> Seq(1..MaxEvents)]
    /\ final \in [Streams -> {"none", "end", "reset"}]
    /\ ppc \in [Streams -> ProducerPC]
    /\ cur \in [Streams -> 0..(MaxEvents + 1)]
    /\ frames \in [Streams -> Seq(1..MaxEvents)]
    /\ admitted \in [Streams -> BOOLEAN]
    /\ done \in [Streams -> Result]
    /\ cancelled \in [Streams -> BOOLEAN]
    /\ gone \in [Streams -> BOOLEAN]
    /\ broken \in [Streams -> BOOLEAN]

Init ==
    /\ draining = FALSE
    /\ committed \in Floor..MaxEvents
    /\ terminal = FALSE
    /\ total = 0
    /\ bySubject = [u \in Subjects |-> 0]
    /\ hpc = [s \in Streams |-> "idle"]
    /\ after = [s \in Streams |-> 0]
    /\ hand = [s \in Streams |-> 0]
    /\ ended = [s \in Streams |-> FALSE]
    /\ res = [s \in Streams |-> "none"]
    /\ resp = [s \in Streams |-> "none"]
    /\ wire = [s \in Streams |-> <<>>]
    /\ final = [s \in Streams |-> "none"]
    /\ ppc = [s \in Streams |-> "none"]
    /\ cur = [s \in Streams |-> 0]
    /\ frames = [s \in Streams |-> <<>>]
    /\ admitted = [s \in Streams |-> FALSE]
    /\ done = [s \in Streams |-> "none"]
    /\ cancelled = [s \in Streams |-> FALSE]
    /\ gone = [s \in Streams |-> FALSE]
    /\ broken = [s \in Streams |-> FALSE]

At(s, pc)    == hpc[s] = pc
Goto(s, pc)  == hpc' = [hpc EXCEPT ![s] = pc]

\* ctx, the request context and the handler's cancel(), has ended.
CtxDone(s) == gone[s] \/ cancelled[s]
----------------------------------------------------------------------------
(* The request up to the stream: cursor, authorization, caps.              *)

\* `after` wins over Last-Event-ID; either one malformed refuses the request.
bindCursor(query, header) ==
    IF Malformed \in {query, header} THEN Malformed
    ELSE IF query # Absent THEN query ELSE header

\* Where Control starts for a cursor; no cursor starts at the first event.
Position(cursor) == IF cursor = Absent THEN 0 ELSE cursor

Request(s) ==
    /\ At(s, "idle")
    /\ \E query, header \in Cursor :
         LET cursor == bindCursor(query, header) IN
         \/ /\ cursor = Malformed
            /\ Goto(s, "returned")
            /\ resp' = [resp EXCEPT ![s] = "invalid"]
            /\ UNCHANGED after
         \/ /\ cursor # Malformed
            /\ Goto(s, "authorize")
            /\ after' = [after EXCEPT ![s] = Position(cursor)]
            /\ UNCHANGED resp
    /\ UNCHANGED <<draining, controlVars, limiterVars, hand, ended, res, wire, final,
                   producerVars, frames, done, cancelled, clientVars>>

\* Control answers GetOperation: the principal may read the operation.
Authorized(s) ==
    /\ At(s, "authorize")
    /\ Goto(s, "limit")
    /\ UNCHANGED <<draining, controlVars, limiterVars, after, hand, ended, res,
                   responseVars, producerVars, frames, done, cancelled, clientVars>>

\* ... or the call fails (refused, unavailable, 15s elapsed, client gone).
AuthorizeFails(s) ==
    /\ At(s, "authorize")
    /\ Goto(s, "returned")
    /\ resp' = [resp EXCEPT ![s] = "error"]
    /\ UNCHANGED <<draining, controlVars, limiterVars, after, hand, ended, res, wire,
                   final, producerVars, frames, done, cancelled, clientVars>>

AtCapacity_OffByOne(subject) ==   \* mutant: one stream too many
    \/ MaxStreams > 0 /\ total > MaxStreams
    \/ MaxPerSubject > 0 /\ bySubject[subject] > MaxPerSubject

AtCapacity(subject) ==
    \/ MaxStreams > 0 /\ total >= MaxStreams
    \/ MaxPerSubject > 0 /\ bySubject[subject] >= MaxPerSubject

\* limiter.acquire under its mutex; a granted stream starts its producer.
Acquire(s) ==
    /\ At(s, "limit")
    /\ ~AtCapacity(SubjectOf[s])
    /\ total' = total + 1
    /\ bySubject' = [bySubject EXCEPT ![SubjectOf[s]] = @ + 1]
    /\ Goto(s, "admission")
    /\ ppc' = [ppc EXCEPT ![s] = "list"]
    /\ cur' = [cur EXCEPT ![s] = after[s]]
    /\ UNCHANGED <<draining, controlVars, after, hand, ended, res, responseVars,
                   frames, admitted, done, cancelled, clientVars>>

AcquireRefused(s) ==
    /\ At(s, "limit")
    /\ AtCapacity(SubjectOf[s])
    /\ Goto(s, "returned")
    /\ resp' = [resp EXCEPT ![s] = "capacity"]
    /\ UNCHANGED <<draining, controlVars, limiterVars, after, hand, ended, res, wire,
                   final, producerVars, frames, done, cancelled, clientVars>>
----------------------------------------------------------------------------
(* The first select: the response begins once Control admitted the stream. *)

AdmissionAdmitted(s) ==
    /\ At(s, "admission")
    /\ admitted[s]
    /\ Goto(s, "writeRetry")
    /\ resp' = [resp EXCEPT ![s] = "ok"]
    /\ UNCHANGED <<draining, controlVars, limiterVars, after, hand, ended, res, wire,
                   final, producerVars, frames, done, cancelled, clientVars>>

AdmissionEnded_NoRefusal(s) ==   \* mutant: every early end begins a 200
    /\ At(s, "admission")
    /\ done[s] # "none"
    /\ ended' = [ended EXCEPT ![s] = TRUE]
    /\ res' = [res EXCEPT ![s] = done[s]]
    /\ done' = [done EXCEPT ![s] = "none"]
    /\ Goto(s, "writeRetry")
    /\ resp' = [resp EXCEPT ![s] = "ok"]
    /\ UNCHANGED <<draining, controlVars, limiterVars, after, hand, wire, final,
                   producerVars, frames, cancelled, clientVars>>

\* The producer's result was chosen: an error that is no reset is refused
\* with an envelope, anything else begins the response.
AdmissionEnded(s) ==
    /\ At(s, "admission")
    /\ done[s] # "none"
    /\ ended' = [ended EXCEPT ![s] = TRUE]
    /\ res' = [res EXCEPT ![s] = done[s]]
    /\ done' = [done EXCEPT ![s] = "none"]
    /\ LET refused == done[s] \in {"err", "slow"} IN
       /\ Goto(s, IF refused THEN "cleanup" ELSE "writeRetry")
       /\ resp' = [resp EXCEPT ![s] = IF refused THEN "error" ELSE "ok"]
    /\ UNCHANGED <<draining, controlVars, limiterVars, after, hand, wire, final,
                   producerVars, frames, cancelled, clientVars>>

AdmissionDraining_LeaksSlot(s) ==   \* mutant: the refusal skips the defers
    /\ At(s, "admission")
    /\ draining
    /\ Goto(s, "returned")
    /\ resp' = [resp EXCEPT ![s] = "unavailable"]
    /\ UNCHANGED <<draining, controlVars, limiterVars, after, hand, ended, res, wire,
                   final, producerVars, frames, done, cancelled, clientVars>>

AdmissionDraining(s) ==
    /\ At(s, "admission")
    /\ draining
    /\ Goto(s, "cleanup")
    /\ resp' = [resp EXCEPT ![s] = "unavailable"]
    /\ UNCHANGED <<draining, controlVars, limiterVars, after, hand, ended, res, wire,
                   final, producerVars, frames, done, cancelled, clientVars>>

\* case <-ctx.Done(), in the first select and in the main loop.
ClientWentAway(s) ==
    /\ hpc[s] \in {"admission", "loop"}
    /\ CtxDone(s)
    /\ Goto(s, "cleanup")
    /\ UNCHANGED <<draining, controlVars, limiterVars, after, hand, ended, res,
                   responseVars, producerVars, frames, done, cancelled, clientVars>>
----------------------------------------------------------------------------
(* Writing to the connection. A write is two steps: the handler enters it  *)
(* (hpc in WritePC) and it ends, at the latest at the write deadline.      *)

AfterWrite_EndContinues(s) ==   \* mutant: no return after the end frame
    IF At(s, "writeRetry") /\ ended[s]
      THEN IF res[s] = "reset" THEN "writeReset" ELSE "cleanup"
      ELSE IF ended[s] THEN "drain" ELSE "loop"

AfterWrite_NoReset(s) ==   \* mutant: an early end returns without its reset frame
    CASE At(s, "writeRetry") -> IF ended[s] THEN "cleanup" ELSE "loop"
      [] At(s, "writeBeat")  -> "loop"
      [] At(s, "writeEvent") -> IF ended[s] THEN "drain" ELSE "loop"
      [] OTHER               -> "cleanup"

\* Where the handler goes after a write that reported success.
AfterWrite(s) ==
    CASE At(s, "writeRetry") -> IF ~ended[s] THEN "loop"
                                ELSE IF res[s] = "reset" THEN "writeReset" ELSE "cleanup"
      [] At(s, "writeBeat")  -> "loop"
      [] At(s, "writeEvent") -> IF ended[s] THEN "drain" ELSE "loop"
      [] OTHER               -> "cleanup"

WriteSucceeds(s) ==
    /\ hpc[s] \in WritePC
    /\ ~broken[s]
    /\ wire' = [wire EXCEPT ![s] = IF At(s, "writeEvent") THEN Append(@, hand[s]) ELSE @]
    /\ final' = [final EXCEPT ![s] = IF At(s, "writeEnd") THEN "end"
                                     ELSE IF At(s, "writeReset") THEN "reset" ELSE @]
    /\ hand' = [hand EXCEPT ![s] = 0]
    /\ Goto(s, AfterWrite(s))
    /\ UNCHANGED <<draining, controlVars, limiterVars, after, ended, res, resp,
                   producerVars, frames, done, cancelled, clientVars>>

\* The deadline passes or the connection fails. net/http cancels the request
\* context. A frame larger than its buffer fails in Write and the handler
\* gives up; a smaller one fails in Flush, whose error is dropped, so the
\* handler carries on and nothing more reaches the connection.
WriteFails(s) ==
    /\ hpc[s] \in WritePC
    /\ broken' = [broken EXCEPT ![s] = TRUE]
    /\ gone' = [gone EXCEPT ![s] = TRUE]
    /\ hand' = [hand EXCEPT ![s] = 0]
    /\ \E pc \in {"cleanup", AfterWrite(s)} : Goto(s, pc)
    /\ UNCHANGED <<draining, controlVars, limiterVars, after, ended, res, responseVars,
                   producerVars, frames, done, cancelled>>
----------------------------------------------------------------------------
(* The main loop and the drain of the frames buffered at the stream's end. *)

TakeFrame(s) ==
    /\ hpc[s] \in {"loop", "drain"}
    /\ frames[s] # <<>>
    /\ hand' = [hand EXCEPT ![s] = Head(frames[s])]
    /\ frames' = [frames EXCEPT ![s] = Tail(@)]
    /\ Goto(s, "writeEvent")
    /\ UNCHANGED <<draining, controlVars, limiterVars, after, ended, res, responseVars,
                   producerVars, done, cancelled, clientVars>>

Heartbeat(s) ==
    /\ At(s, "loop")
    /\ Goto(s, "writeBeat")
    /\ UNCHANGED <<draining, controlVars, limiterVars, after, hand, ended, res,
                   responseVars, producerVars, frames, done, cancelled, clientVars>>

StreamEnded_NoDrain(s) ==   \* mutant: the buffered frames are dropped
    /\ At(s, "loop")
    /\ done[s] # "none"
    /\ ended' = [ended EXCEPT ![s] = TRUE]
    /\ res' = [res EXCEPT ![s] = done[s]]
    /\ done' = [done EXCEPT ![s] = "none"]
    /\ Goto(s, "cleanup")
    /\ UNCHANGED <<draining, controlVars, limiterVars, after, hand, responseVars,
                   producerVars, frames, cancelled, clientVars>>

StreamEnded(s) ==
    /\ At(s, "loop")
    /\ done[s] # "none"
    /\ ended' = [ended EXCEPT ![s] = TRUE]
    /\ res' = [res EXCEPT ![s] = done[s]]
    /\ done' = [done EXCEPT ![s] = "none"]
    /\ Goto(s, "drain")
    /\ UNCHANGED <<draining, controlVars, limiterVars, after, hand, responseVars,
                   producerVars, frames, cancelled, clientVars>>

\* The buffer is empty: a reset frame, an end frame when Control ended the
\* stream on its own, or nothing.
Drained(s) ==
    /\ At(s, "drain")
    /\ frames[s] = <<>>
    /\ Goto(s, CASE res[s] = "reset"             -> "writeReset"
                 [] res[s] = "err" /\ ~gone[s]   -> "writeEnd"
                 [] OTHER                        -> "cleanup")
    /\ UNCHANGED <<draining, controlVars, limiterVars, after, hand, ended, res,
                   responseVars, producerVars, frames, done, cancelled, clientVars>>

LoopDraining(s) ==
    /\ At(s, "loop")
    /\ draining
    /\ Goto(s, "writeEnd")
    /\ UNCHANGED <<draining, controlVars, limiterVars, after, hand, ended, res,
                   responseVars, producerVars, frames, done, cancelled, clientVars>>
----------------------------------------------------------------------------
(* The deferred calls: cancel the producer, join it, release the slot.     *)

Cancel_NoJoin(s) ==   \* mutant: the slot is released under a running producer
    /\ At(s, "cleanup")
    /\ cancelled' = [cancelled EXCEPT ![s] = TRUE]
    /\ Goto(s, "release")
    /\ UNCHANGED <<draining, controlVars, limiterVars, after, hand, ended, res,
                   responseVars, producerVars, frames, done, clientVars>>

Cancel_JoinOnly(s) ==   \* mutant: waits for a producer nobody cancelled
    /\ At(s, "cleanup")
    /\ Goto(s, IF ended[s] THEN "release" ELSE "join")
    /\ UNCHANGED <<draining, controlVars, limiterVars, after, hand, ended, res,
                   responseVars, producerVars, frames, done, cancelled, clientVars>>

Cancel(s) ==
    /\ At(s, "cleanup")
    /\ cancelled' = [cancelled EXCEPT ![s] = TRUE]
    /\ Goto(s, IF ended[s] THEN "release" ELSE "join")
    /\ UNCHANGED <<draining, controlVars, limiterVars, after, hand, ended, res,
                   responseVars, producerVars, frames, done, clientVars>>

Join(s) ==
    /\ At(s, "join")
    /\ done[s] # "none"
    /\ done' = [done EXCEPT ![s] = "none"]
    /\ Goto(s, "release")
    /\ UNCHANGED <<draining, controlVars, limiterVars, after, hand, ended, res,
                   responseVars, producerVars, frames, cancelled, clientVars>>

Release(s) ==
    /\ At(s, "release")
    /\ total' = total - 1
    /\ bySubject' = [bySubject EXCEPT ![SubjectOf[s]] = @ - 1]
    /\ Goto(s, "returned")
    /\ UNCHANGED <<draining, controlVars, after, hand, ended, res, responseVars,
                   producerVars, frames, done, cancelled, clientVars>>

\* The request is over; its variables are garbage and the slot takes another.
Finish(s) ==
    /\ At(s, "returned")
    /\ Goto(s, "idle")
    /\ after' = [after EXCEPT ![s] = 0]
    /\ ended' = [ended EXCEPT ![s] = FALSE]
    /\ res' = [res EXCEPT ![s] = "none"]
    /\ resp' = [resp EXCEPT ![s] = "none"]
    /\ wire' = [wire EXCEPT ![s] = <<>>]
    /\ final' = [final EXCEPT ![s] = "none"]
    /\ ppc' = [ppc EXCEPT ![s] = "none"]
    /\ cur' = [cur EXCEPT ![s] = 0]
    /\ frames' = [frames EXCEPT ![s] = <<>>]
    /\ admitted' = [admitted EXCEPT ![s] = FALSE]
    /\ cancelled' = [cancelled EXCEPT ![s] = FALSE]
    /\ gone' = [gone EXCEPT ![s] = FALSE]
    /\ broken' = [broken EXCEPT ![s] = FALSE]
    /\ UNCHANGED <<draining, controlVars, limiterVars, hand, done>>
----------------------------------------------------------------------------
(* The producer goroutine: Client.StreamEvents and its emit callback.      *)

\* The producer puts its result in the channel done (capacity 1) and ends.
Yields(s, result) ==
    /\ ppc' = [ppc EXCEPT ![s] = "sent"]
    /\ done' = [done EXCEPT ![s] = result]
    /\ UNCHANGED <<draining, controlVars, limiterVars, handlerVars, responseVars, cur,
                   frames, admitted, cancelled, clientVars>>

Moves(s, pc) ==
    /\ ppc' = [ppc EXCEPT ![s] = pc]
    /\ UNCHANGED <<draining, controlVars, limiterVars, handlerVars, responseVars,
                   done, cancelled, clientVars>>

\* Control cannot serve the cursor: it expired, or it is ahead of the log.
CannotHonor(cursor) == cursor < Floor \/ cursor > committed

ListResets(s) ==
    /\ ppc[s] = "list"
    /\ CannotHonor(after[s])
    /\ Yields(s, "reset")

ListHonors(s) ==
    /\ ppc[s] = "list"
    /\ ~CannotHonor(after[s])
    /\ Moves(s, "header")
    /\ UNCHANGED <<cur, frames, admitted>>

\* A call fails: Control refuses or drops the stream, or ctx ended.
CallFails(s) ==
    /\ ppc[s] \in {"list", "header", "recv"}
    /\ Yields(s, "err")

\* No response headers and an OK status: nothing to send, nothing to come.
EndsWithoutHeader(s) ==
    /\ ppc[s] = "header"
    /\ terminal /\ after[s] = committed
    /\ Yields(s, "nil")

HeaderAdmits(s) ==
    /\ ppc[s] = "header"
    /\ Moves(s, "recv")
    /\ admitted' = [admitted EXCEPT ![s] = TRUE]
    /\ UNCHANGED <<cur, frames>>

\* Control sends the next committed event after the last one it sent.
RecvEvent(s) ==
    /\ ppc[s] = "recv"
    /\ cur[s] < committed
    /\ cur' = [cur EXCEPT ![s] = @ + 1]
    /\ Moves(s, "emit")
    /\ UNCHANGED <<frames, admitted>>

RecvEOF(s) ==
    /\ ppc[s] = "recv"
    /\ terminal /\ cur[s] = committed
    /\ Yields(s, "nil")

EmitSends(s) ==
    /\ ppc[s] = "emit"
    /\ Len(frames[s]) < FrameBuffer
    /\ frames' = [frames EXCEPT ![s] = Append(@, cur[s])]
    /\ Moves(s, "recv")
    /\ UNCHANGED <<cur, admitted>>

EmitCancelled(s) ==
    /\ ppc[s] = "emit"
    /\ CtxDone(s)
    /\ Yields(s, "err")

EmitGraceExpires_Drops(s) ==   \* mutant: a full buffer drops the frame
    /\ ppc[s] = "emit"
    /\ Len(frames[s]) >= FrameBuffer
    /\ Moves(s, "recv")
    /\ UNCHANGED <<cur, frames, admitted>>

\* The grace timer only fires while the send is blocked on a full buffer.
EmitGraceExpires(s) ==
    /\ ppc[s] = "emit"
    /\ Len(frames[s]) >= FrameBuffer
    /\ Yields(s, "slow")
----------------------------------------------------------------------------
(* The environment: Control's log, the client, the operator's stop.        *)

Commit ==
    /\ ~terminal
    /\ committed < MaxEvents
    /\ committed' = committed + 1
    /\ UNCHANGED <<draining, terminal, limiterVars, handlerVars, responseVars,
                   producerVars, frames, done, cancelled, clientVars>>

Terminate ==
    /\ ~terminal
    /\ terminal' = TRUE
    /\ UNCHANGED <<draining, committed, limiterVars, handlerVars, responseVars,
                   producerVars, frames, done, cancelled, clientVars>>

ClientLeaves(s) ==
    /\ hpc[s] \notin {"idle", "returned"}
    /\ ~gone[s]
    /\ gone' = [gone EXCEPT ![s] = TRUE]
    /\ UNCHANGED <<draining, controlVars, limiterVars, handlerVars, responseVars,
                   producerVars, frames, done, cancelled, broken>>

\* Server.Stop closes draining once; http.Shutdown then waits for handlers.
Stop ==
    /\ ~draining
    /\ draining' = TRUE
    /\ UNCHANGED <<controlVars, limiterVars, handlerVars, responseVars, producerVars,
                   frames, done, cancelled, clientVars>>
----------------------------------------------------------------------------
Handler(s) ==
    \/ Authorized(s) \/ AuthorizeFails(s) \/ Acquire(s) \/ AcquireRefused(s)
    \/ AdmissionAdmitted(s) \/ AdmissionEnded(s) \/ AdmissionDraining(s)
    \/ ClientWentAway(s) \/ WriteSucceeds(s) \/ WriteFails(s)
    \/ TakeFrame(s) \/ StreamEnded(s) \/ Drained(s) \/ LoopDraining(s)
    \/ Cancel(s) \/ Join(s) \/ Release(s)

Producer(s) ==
    \/ ListResets(s) \/ ListHonors(s) \/ CallFails(s) \/ EndsWithoutHeader(s)
    \/ HeaderAdmits(s) \/ RecvEvent(s) \/ RecvEOF(s)
    \/ EmitSends(s) \/ EmitCancelled(s) \/ EmitGraceExpires(s)

Next ==
    \/ \E s \in Streams : \/ Request(s) \/ Handler(s) \/ Heartbeat(s) \/ Finish(s)
                          \/ Producer(s) \/ ClientLeaves(s)
    \/ Commit \/ Terminate \/ Stop

Spec == Init /\ [][Next]_vars

\* Fairness. Every handler step ends: unary calls after 15s, writes at their
\* deadline, joins once the producer ended. Go's select chooses uniformly
\* among ready cases, so one that is ready again and again is taken although
\* heartbeats are ready too (strong fairness). A gRPC call returns once its
\* context ended. Nothing is assumed of clients, commits, stops or failures.
ProducerAborts(s) == CtxDone(s) /\ (CallFails(s) \/ EmitCancelled(s))

\* Control answers calls and sends what it committed (external).
ControlAnswers(s) ==
    \/ ListResets(s) \/ ListHonors(s) \/ EndsWithoutHeader(s) \/ HeaderAdmits(s)
    \/ RecvEvent(s) \/ RecvEOF(s) \/ EmitSends(s) \/ EmitGraceExpires(s)

Fairness ==
    \A s \in Streams :
      /\ WF_vars(Handler(s))
      /\ SF_vars(LoopDraining(s))
      /\ SF_vars(ClientWentAway(s))
      /\ SF_vars(StreamEnded(s))
      /\ WF_vars(ProducerAborts(s))
      /\ WF_vars(ControlAnswers(s))
----------------------------------------------------------------------------
(* Properties                                                              *)

\* The producer goroutine of the stream runs: a stream is open at Control.
Live(s) == ppc[s] \notin {"none", "sent"}
LiveStreams == {s \in Streams : Live(s)}

\* The handler is between acquire and the deferred release.
HoldsSlot(s) == hpc[s] \notin {"idle", "authorize", "limit", "returned"}
Holders == {s \in Streams : HoldsSlot(s)}
HoldersOf(u) == {s \in Holders : SubjectOf[s] = u}

\* The handler ran its deferred join: the response is complete.
Closed(s) == hpc[s] \in {"release", "returned"}

\* A 200 stream whose client stayed and whose connection took every write.
CleanStream(s) == resp[s] = "ok" /\ ~gone[s] /\ ~broken[s]

\* The events a client sees are the ones after its cursor, each once, in
\* order and without a gap, whatever the interleaving of producer, handler,
\* slow consumer, drain and write failures (API-04: the client resumes from
\* its last event id and loses nothing).
WireContiguous ==
    \A s \in Streams : \A i \in 1..Len(wire[s]) : wire[s][i] = after[s] + i

\* The producer never outlives the response (sse.go:132): once the deferred
\* join is past, no goroutine of the stream runs.
ProducerJoined ==
    \A s \in Streams : Closed(s) \/ ~HoldsSlot(s) => ~Live(s)

\* The caps bound what is open at Control, not only what holds a slot: a
\* slot is released only after its producer ended (P1.4, API-03).
ControlStreamsWithinCaps ==
    /\ MaxStreams > 0 => Cardinality(LiveStreams) <= MaxStreams
    /\ MaxPerSubject > 0 =>
         \A u \in Subjects :
           Cardinality({s \in LiveStreams : SubjectOf[s] = u}) <= MaxPerSubject

\* The limiter's counters are the number of streams between acquire and
\* release: no return path of the handler leaks a slot or frees one twice.
SlotsAccounted ==
    /\ total = Cardinality(Holders)
    /\ \A u \in Subjects : bySubject[u] = Cardinality(HoldersOf(u))

\* A 200 that closes without an event or a closing frame is read by API-04
\* as a terminal operation (sse.go:136-139, D-7): the handler only closes so
\* when the operation is terminal, never for a refusal, a drain or a slow
\* consumer.
EmptyCloseIsTerminal ==
    \A s \in Streams :
      Closed(s) /\ CleanStream(s) /\ wire[s] = <<>> /\ final[s] = "none" => terminal

\* Frames encoded before the stream ended are still delivered (sse.go:204):
\* once the handler delivered an event or an end frame of a stream that the
\* producer ended, it delivered every event the producer had received (but
\* the one a slow consumer's producer gave up on), and after a result of nil
\* every committed event.
BufferedFramesDelivered ==
    \A s \in Streams :
      Closed(s) /\ CleanStream(s) /\ ended[s] /\ (wire[s] # <<>> \/ final[s] = "end") =>
        /\ frames[s] = <<>>
        /\ Len(wire[s]) = cur[s] - after[s] - (IF res[s] = "slow" THEN 1 ELSE 0)
        /\ res[s] = "nil" => cur[s] = committed

\* A cursor that cannot be honored yields one reset_required frame and closes
\* (sse.go:68): the frame stands alone and is never forgotten.
ResetStandsAlone ==
    \A s \in Streams :
      /\ final[s] = "reset" => wire[s] = <<>> /\ ~admitted[s]
      /\ Closed(s) /\ CleanStream(s) /\ res[s] = "reset" => final[s] = "reset"

\* Nothing is written after a closing frame, nor once the handler started
\* its deferred calls: the end frame is the last one of a stream.
QuietAfterClosing ==
    [][\A s \in Streams :
         (final[s] # "none" \/ hpc[s] \in {"cleanup", "join", "release"}) /\ hpc'[s] # "idle"
           => wire'[s] = wire[s] /\ final'[s] = final[s]]_vars

\* A stream comes to its end once the server drains (P1.7, so http.Shutdown
\* ends), once its client went away, and once its operation is terminal: the
\* handler returns, with its producer joined and its slot free.
StreamReturns ==
    \A s \in Streams :
      hpc[s] # "idle" /\ (draining \/ gone[s] \/ terminal) ~> hpc[s] = "returned"

\* What the comments at sse.go:181-182 and sse.go:204 say of a stream that
\* ended with no error: it had nothing to send, or all of it is delivered.
SilentEndDelivers ==
    \A s \in Streams :
      Closed(s) /\ CleanStream(s) /\ res[s] = "nil" => after[s] + Len(wire[s]) = committed
=============================================================================
