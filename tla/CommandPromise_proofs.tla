----------------------- MODULE CommandPromise_proofs -----------------------
(***************************************************************************)
(* CommandGateway implements IdempotentCommands, for any number of         *)
(* requests, tenants, commands, bodies and formats. Each step of the       *)
(* gateway is one step of the promise: most only change what is open, and  *)
(* what a client is told is true because of the gateway's invariant Inv.   *)
(***************************************************************************)
EXTENDS CommandGateway_proofs

\* The state of the promise, as Promise maps it.
Asked   == [r \in Requests |-> IF pc[r] = "idle" THEN {} ELSE {AskOf(req[r])}]
Told    == [r \in Requests |-> Verdict(answers[r])]
Open    == {AskOf(req[r]) : r \in Unresolved} \cup {AskOf(c.req) : c \in late}
Took    == {AskOf(c.req) : c \in ledger}
AllAsks == {AskOf(q) : q \in Request}

Verdicts == {"success", "conflict", "failed"}
Waiting  == {"authenticate", "strictBody", "validate", "handler", "call"}

\* A step that only closes what was open.
LEMMA AsGiveUp ==
    ASSUME Open' \subseteq Open, Asked' = Asked, Told' = Told, Took' = Took
    PROVE  Promise!Next
BY DEF Promise!Next, Promise!GiveUp, Asked, Told, Open, Took

\* A step that takes a new ask.
LEMMA AsAsk ==
    ASSUME NEW s \in Requests, NEW a \in AllAsks,
           Asked[s] = {}, Asked' = [Asked EXCEPT ![s] = {a}],
           Open' \subseteq Open \cup {a}, Told' = Told, Took' = Took
    PROVE  Promise!Next
BY DEF Promise!Next, Promise!Ask, Asked, Told, Open, Took, AllAsks

\* A step that tells a client the truth.
LEMMA AsTell ==
    ASSUME NEW s \in Requests, NEW v \in Verdicts, NEW a \in AllAsks,
           Told[s] = "nothing", Told' = [Told EXCEPT ![s] = v], Asked[s] = {a},
           v = "success" => \E b \in Took : b.name = a.name /\ b.content = a.content,
           v = "conflict" => \E b \in Took : b.name = a.name /\ b.content # a.content,
           Open' \subseteq Open, Asked' = Asked, Took' = Took
    PROVE  Promise!Next
BY DEF Promise!Next, Promise!Tell, Promise!True, Asked, Told, Open, Took, AllAsks, Verdicts

\* A step that ends a client's visit.
LEMMA AsLeave ==
    ASSUME NEW s \in Requests, Told[s] # "nothing", Told' = [Told EXCEPT ![s] = "nothing"],
           Asked' = [Asked EXCEPT ![s] = {}], Open' \subseteq Open, Took' = Took
    PROVE  Promise!Next
BY DEF Promise!Next, Promise!Leave, Asked, Told, Open, Took

\* A step by which an ask takes effect.
LEMMA AsTakeEffect ==
    ASSUME NEW a \in AllAsks, a \in Open, \A b \in Took : b.name # a.name,
           Took' = Took \cup {a}, Open' \subseteq Open, Asked' = Asked, Told' = Told
    PROVE  Promise!Next
BY DEF Promise!Next, Promise!TakeEffect, Asked, Told, Open, Took, AllAsks
----------------------------------------------------------------------------
\* What is open shrinks when no request starts to wait, and a call that
\* becomes late is one a request was waiting for.
LEMMA OpenShrinks ==
    ASSUME UNCHANGED req, Unresolved' \subseteq Unresolved,
           \A c \in late' : c \in late \/ \E r \in Unresolved : c.req = req[r]
    PROVE  Open' \subseteq Open
BY DEF Open

\* The requests that wait after a step of one of them.
LEMMA StillWaiting ==
    ASSUME TypeOK, NEW r \in Requests,
           \A s \in Requests \ {r} : pc'[s] = pc[s] /\ reply'[s] = reply[s],
           (pc'[r] \in Waiting /\ reply'[r] = NoReply) => r \in Unresolved
    PROVE  Unresolved' \subseteq Unresolved
BY DEF Unresolved, Waiting

\* A step of a request that is neither its arrival, its answer nor its end.
LEMMA Quiet ==
    ASSUME Inv, NEW r \in Requests, pc[r] # "idle", pc'[r] # "idle",
           \A s \in Requests \ {r} : pc'[s] = pc[s] /\ reply'[s] = reply[s],
           (pc'[r] \in Waiting /\ reply'[r] = NoReply) => r \in Unresolved,
           \A c \in late' : c \in late \/ \E s \in Unresolved : c.req = req[s],
           UNCHANGED <<req, answers, ledger>>
    PROVE  Promise!Next
<1>1. Open' \subseteq Open
  BY StillWaiting, OpenShrinks DEF Inv
<1>2. Asked' = Asked
  BY DEF Asked
<1>3. Told' = Told /\ Took' = Took
  BY DEF Told, Took
<1> QED
  BY <1>1, <1>2, <1>3, AsGiveUp

\* A request moves along the chain without touching its call.
LEMMA QuietMove ==
    ASSUME Inv, NEW r \in Requests, NEW where \in PC, pc[r] # "idle", Goto(r, where),
           where # "idle", where \in Waiting => pc[r] \in Waiting,
           UNCHANGED <<req, answers, reply, late, ledger>>
    PROVE  Promise!Next
<1>1. pc' = [pc EXCEPT ![r] = where] /\ pc'[r] = where
  BY DEF Goto, Inv, TypeOK
<1>2. (pc'[r] \in Waiting /\ reply'[r] = NoReply) => r \in Unresolved
  BY <1>1 DEF Unresolved, Waiting
<1> QED
  BY <1>1, <1>2, Quiet

\* A request is refused before its call.
LEMMA QuietFail ==
    ASSUME Inv, NEW r \in Requests, NEW e, pc[r] # "idle", fail(r, e),
           UNCHANGED <<req, answers, reply, late, ledger>>
    PROVE  Promise!Next
BY QuietMove DEF fail, Waiting, PC

\* A request is answered: what it is told is what Inv says of its answer.
LEMMA TellStep ==
    ASSUME Inv, Inv', NEW r \in Requests, pc[r] \in {"respond", "unwind"},
           pc'[r] \in {"unwind", "done"}, \A s \in Requests \ {r} : pc'[s] = pc[s],
           answers[r] = <<>>, answers'[r] # <<>>,
           \A s \in Requests \ {r} : answers'[s] = answers[s],
           UNCHANGED <<req, reply, late, ledger>>
    PROVE  Promise!Next
<1> DEFINE a == AskOf(req[r])
           v == Verdict(answers'[r])
<1>1. PICK ans \in Answer : answers'[r] = <<ans>> /\ AnswerFits(ans, reply[r], req[r].route)
  BY DEF Inv, Local
<1>2. req[r] \in Request /\ a \in AllAsks
  BY DEF Inv, TypeOK, AllAsks
<1>3. v = CASE ans.code = "OK" -> "success"
            [] ans.code = "IDEMPOTENCY_CONFLICT" -> "conflict"
            [] OTHER -> "failed"
  BY <1>1 DEF Verdict
<1>4. v \in Verdicts
  BY <1>3 DEF Verdicts
<1>5. ans.code = "OK" => reply[r].code = "OK"
  <2>1. ASSUME NEW e \in Error PROVE Envelope(e).code # "OK"
    BY DEF Envelope, Error, ErrorCode
  <2> QED
    BY <1>1, <2>1 DEF AnswerFits
<1>6. ans.code = "IDEMPOTENCY_CONFLICT" => reply[r].word = "IDEMPOTENCY_CONFLICT"
  <2> SUFFICES ASSUME ans.code = "IDEMPOTENCY_CONFLICT"
               PROVE  reply[r].word = "IDEMPOTENCY_CONFLICT"
    OBVIOUS
  <2>1. PICK e \in Error : ans = Envelope(e) /\ ErrorFits(e, reply[r])
    BY <1>1 DEF AnswerFits
  <2>2. e.code = "IDEMPOTENCY_CONFLICT"
    BY <2>1 DEF Envelope
  <2> QED
    BY <2>1, <2>2 DEF ErrorFits
<1>7. v = "success" => \E b \in Took : b.name = a.name /\ b.content = a.content
  <2> SUFFICES ASSUME v = "success"
               PROVE  \E b \in Took : b.name = a.name /\ b.content = a.content
    OBVIOUS
  <2>1. PICK c \in ledger : SameIntent(c.req, req[r]) /\ c.req.content = req[r].content
    BY <1>3, <1>5 DEF Inv, ReplyRecorded
  <2>2. AskOf(c.req) \in Took
    BY DEF Took
  <2>3. AskOf(c.req).name = a.name /\ AskOf(c.req).content = a.content
    BY <2>1 DEF AskOf, SameIntent
  <2> QED
    BY <2>2, <2>3
<1>8. v = "conflict" => \E b \in Took : b.name = a.name /\ b.content # a.content
  <2> SUFFICES ASSUME v = "conflict"
               PROVE  \E b \in Took : b.name = a.name /\ b.content # a.content
    OBVIOUS
  <2>1. PICK c \in ledger : SameIntent(c.req, req[r]) /\ c.req.content # req[r].content
    BY <1>3, <1>6 DEF Inv, ReplyRecorded
  <2>2. AskOf(c.req) \in Took
    BY DEF Took
  <2>3. AskOf(c.req).name = a.name /\ AskOf(c.req).content # a.content
    BY <2>1 DEF AskOf, SameIntent
  <2> QED
    BY <2>2, <2>3
<1>9. Told[r] = "nothing" /\ Told' = [Told EXCEPT ![r] = v]
  BY DEF Told, Verdict
<1>10. Asked[r] = {a} /\ Asked' = Asked
  BY DEF Asked
<1>11. Open' \subseteq Open
  BY StillWaiting, OpenShrinks DEF Inv, Waiting
<1>12. Took' = Took
  BY DEF Took
<1> HIDE DEF a, v
<1> QED
  BY <1>2, <1>4, <1>7, <1>8, <1>9, <1>10, <1>11, <1>12, AsTell

\* A call whose command is not recorded takes effect.
LEMMA EffectStep ==
    ASSUME Inv, NEW c, c.req \in Request, AskOf(c.req) \in Open,
           c.id = [tenant |-> c.req.token, cmd |-> c.req.cmd,
                   digest |-> CanonicalDigest(c.req.content, c.req.form)],
           Recorded(c) = {}, ledger' = ledger \cup {c}, Open' \subseteq Open,
           UNCHANGED <<pc, req, answers>>
    PROVE  Promise!Next
<1>1. \A d \in ledger : ~SameIntent(d.req, c.req)
  BY Record
<1>2. \A b \in Took : b.name # AskOf(c.req).name
  BY <1>1 DEF Took, AskOf, SameIntent
<1>3. Took' = Took \cup {AskOf(c.req)}
  BY DEF Took
<1>4. Asked' = Asked /\ Told' = Told
  BY DEF Asked, Told
<1>5. AskOf(c.req) \in AllAsks
  BY DEF AllAsks
<1> QED
  BY <1>2, <1>3, <1>4, <1>5, AsTakeEffect
----------------------------------------------------------------------------
\* A request arrives.
LEMMA ReceiveAsks ==
    ASSUME Inv, Inv', NEW r \in Requests, Receive(r)
    PROVE  Promise!Next
<1>1. PICK q \in Request : req' = [req EXCEPT ![r] = q]
  BY DEF Receive
<1>2. pc' = [pc EXCEPT ![r] = "authenticate"] /\ pc[r] = "idle"
  BY DEF Receive, At, Goto
<1>3. /\ req'[r] = q /\ pc'[r] = "authenticate"
      /\ \A s \in Requests \ {r} : req'[s] = req[s] /\ pc'[s] = pc[s]
  BY <1>1, <1>2 DEF Inv, TypeOK
<1>4. Asked[r] = {} /\ Asked' = [Asked EXCEPT ![r] = {AskOf(q)}]
  BY <1>2, <1>3 DEF Asked
<1>5. Open' \subseteq Open \cup {AskOf(q)}
  <2>1. \A s \in Unresolved' : s = r \/ (s \in Unresolved /\ req'[s] = req[s])
    BY <1>3 DEF Unresolved, Receive
  <2> QED
    BY <1>3, <2>1 DEF Open, Receive
<1>6. Told' = Told /\ Took' = Took
  BY DEF Receive, Told, Took
<1> QED
  BY <1>4, <1>5, <1>6, AsAsk DEF AllAsks

\* The wait for the owner ends: the call becomes late, or its answer is lost.
LEMMA CallEndsQuietly ==
    ASSUME Inv, NEW r \in Requests, CallEnds(r)
    PROVE  Promise!Next
<1>1. pc[r] = "call" /\ pc' = [pc EXCEPT ![r] = "unwind"]
  BY DEF CallEnds, At, fail, Goto
<1>2. pc'[r] = "unwind" /\ \A s \in Requests \ {r} : pc'[s] = pc[s] /\ reply'[s] = reply[s]
  BY <1>1 DEF CallEnds, Inv, TypeOK
<1>3. CallOf(r).req = req[r]
  BY DEF CallOf
<1>4. \A c \in late' : c \in late \/ \E s \in Unresolved : c.req = req[s]
  BY <1>1, <1>3 DEF CallEnds, Unresolved
<1> QED
  BY <1>1, <1>2, <1>4, Quiet DEF CallEnds, Waiting

\* The owner answers a call it did not execute.
LEMMA RepliesQuietly ==
    ASSUME Inv, NEW r \in Requests, pc[r] = "call", NEW p, reply' = [reply EXCEPT ![r] = p],
           reply[r] = NoReply, UNCHANGED <<pc, req, answers, late, ledger>>
    PROVE  Promise!Next
<1>1. \A s \in Requests \ {r} : pc'[s] = pc[s] /\ reply'[s] = reply[s]
  BY DEF Inv, TypeOK
<1>2. r \in Unresolved
  BY DEF Unresolved
<1> QED
  BY <1>1, <1>2, Quiet

\* The owner executes a call it was waited for.
LEMMA ExecutesAnswered ==
    ASSUME Inv, NEW r \in Requests, pc[r] = "call", NEW p, reply' = [reply EXCEPT ![r] = p],
           reply[r] = NoReply, Recorded(CallOf(r)) = {}, ledger' = ledger \cup {CallOf(r)},
           UNCHANGED <<pc, req, answers, late>>
    PROVE  Promise!Next
<1>1. r \in Unresolved /\ CallOf(r).req = req[r]
  BY DEF Unresolved, CallOf
<1>2. AskOf(CallOf(r).req) \in Open
  BY <1>1 DEF Open
<1>3. \A s \in Requests \ {r} : pc'[s] = pc[s] /\ reply'[s] = reply[s]
  BY DEF Inv, TypeOK
<1>4. Open' \subseteq Open
  BY <1>1, <1>3, StillWaiting, OpenShrinks DEF Inv
<1> QED
  BY <1>2, <1>4, CallOfNamed, EffectStep

\* The owners' answers.
LEMMA OwnerKeeps ==
    ASSUME Inv, NEW r \in Requests, Owner(r)
    PROVE  Promise!Next
<1>1. CASE OwnerAccepts(r)
  BY <1>1, RepliesQuietly, ExecutesAnswered DEF OwnerAccepts, Replies, At
<1>2. CASE OwnerRefuses(r)
  BY <1>2, RepliesQuietly DEF OwnerRefuses, Replies, At
<1>3. CASE OwnerFails(r)
  BY <1>3, RepliesQuietly, ExecutesAnswered DEF OwnerFails, Replies, At
<1> QED
  BY <1>1, <1>2, <1>3 DEF Owner

\* A call nobody waits for is executed, refused or lost.
LEMMA LateCallKeeps ==
    ASSUME Inv, LateCall
    PROVE  Promise!Next
<1>1. PICK c \in late : /\ late' = late \ {c}
                        /\ \/ UNCHANGED ledger
                           \/ Recorded(c) = {} /\ ledger' = ledger \cup {c}
  BY DEF LateCall
<1>2. UNCHANGED <<pc, req, answers, reply>>
  BY DEF LateCall
<1>3. Open' \subseteq Open
  <2>1. Unresolved' = Unresolved
    BY <1>2 DEF Unresolved
  <2> QED
    BY <1>1, <1>2, <2>1 DEF Open
<1>4. Asked' = Asked /\ Told' = Told
  BY <1>2 DEF Asked, Told
<1>5. CASE UNCHANGED ledger
  <2>1. Took' = Took
    BY <1>5 DEF Took
  <2> QED
    BY <1>3, <1>4, <2>1, AsGiveUp
<1>6. CASE Recorded(c) = {} /\ ledger' = ledger \cup {c}
  <2>1. c.req \in Request /\ AskOf(c.req) \in Open
    BY DEF Inv, TypeOK, Open
  <2>2. c.id = [tenant |-> c.req.token, cmd |-> c.req.cmd,
                digest |-> CanonicalDigest(c.req.content, c.req.form)]
    BY DEF Inv, CallsNamed
  <2> QED
    BY <1>2, <1>3, <1>6, <2>1, <2>2, EffectStep
<1> QED
  BY <1>1, <1>5, <1>6

\* A request is over.
LEMMA FinishLeaves ==
    ASSUME Inv, NEW r \in Requests, Finish(r)
    PROVE  Promise!Next
<1>1. /\ pc[r] = "done" /\ pc' = [pc EXCEPT ![r] = "idle"]
      /\ answers' = [answers EXCEPT ![r] = <<>>] /\ req' = [req EXCEPT ![r] = NoRequest]
      /\ reply' = [reply EXCEPT ![r] = NoReply]
  BY DEF Finish, At, Goto
<1>2. /\ pc'[r] = "idle" /\ answers'[r] = <<>>
      /\ \A s \in Requests \ {r} : /\ pc'[s] = pc[s] /\ answers'[s] = answers[s]
                                    /\ req'[s] = req[s] /\ reply'[s] = reply[s]
  BY <1>1 DEF Inv, TypeOK
<1>3. Told[r] # "nothing" /\ Told' = [Told EXCEPT ![r] = "nothing"]
  <2>1. answers[r] # <<>>
    BY <1>1 DEF Inv, Local
  <2> QED
    BY <1>2, <2>1 DEF Told, Verdict
<1>4. Asked' = [Asked EXCEPT ![r] = {}]
  BY <1>2 DEF Asked
<1>5. Open' \subseteq Open
  <2>1. \A s \in Unresolved' : s \in Unresolved /\ req'[s] = req[s]
    BY <1>2 DEF Unresolved
  <2> QED
    BY <2>1 DEF Open, Finish
<1>6. Took' = Took
  BY DEF Finish, Took
<1> QED
  BY <1>3, <1>4, <1>5, <1>6, AsLeave

\* The chain up to the call.
LEMMA ChainKeeps ==
    ASSUME Inv, NEW r \in Requests,
           \/ authenticate(r) \/ strictBody(r) \/ requestValidator(r) \/ Unavailable(r)
           \/ ArgumentsRefused(r) \/ CallOwner(r) \/ CallReturns(r) \/ Panics(r)
    PROVE  Promise!Next
<1>1. CASE authenticate(r)
  BY <1>1, QuietFail, QuietMove DEF authenticate, At, Waiting, PC
<1>2. CASE strictBody(r)
  BY <1>2, QuietFail, QuietMove DEF strictBody, At, Waiting, PC
<1>3. CASE requestValidator(r)
  BY <1>3, QuietFail, QuietMove DEF requestValidator, At, Waiting, PC
<1>4. CASE Unavailable(r)
  BY <1>4, QuietFail DEF Unavailable, At
<1>5. CASE ArgumentsRefused(r)
  BY <1>5, QuietFail DEF ArgumentsRefused, At
<1>6. CASE CallOwner(r)
  BY <1>6, QuietMove DEF CallOwner, At, Waiting, PC
<1>7. CASE CallReturns(r)
  BY <1>7, QuietFail, QuietMove DEF CallReturns, At, Waiting, PC
<1>8. CASE Panics(r)
  BY <1>8, QuietFail DEF Panics
<1> QED
  BY <1>1, <1>2, <1>3, <1>4, <1>5, <1>6, <1>7, <1>8

\* The response and the envelope.
LEMMA ResponseKeeps ==
    ASSUME Inv, Inv', NEW r \in Requests, Respond(r) \/ RespondFails(r) \/ errorEnvelope(r)
    PROVE  Promise!Next
<1>1. /\ pc[r] \in {"respond", "unwind"} /\ UNCHANGED <<req, reply, late, ledger>>
      /\ \E where \in {"unwind", "done"} : Goto(r, where)
  BY DEF Respond, RespondFails, errorEnvelope, At, fail
<1>2. pc'[r] \in {"unwind", "done"} /\ \A s \in Requests \ {r} : pc'[s] = pc[s]
  BY <1>1 DEF Goto, Inv, TypeOK
<1>3. \A s \in Requests \ {r} : answers'[s] = answers[s]
  BY DEF Respond, RespondFails, errorEnvelope, Inv, TypeOK
<1>4. CASE answers'[r] = answers[r]
  <2>1. answers' = answers
    BY <1>3, <1>4 DEF Inv, TypeOK
  <2> QED
    BY <1>1, <2>1, QuietMove DEF Waiting, PC
<1>5. CASE answers'[r] # answers[r]
  <2>1. answers[r] = <<>>
    BY <1>5 DEF Respond, RespondFails, errorEnvelope, At, Inv, TypeOK, Local, InChain
  <2> QED
    BY <1>1, <1>2, <1>3, <1>5, <2>1, TellStep
<1> QED
  BY <1>4, <1>5

\* Every step of the gateway is a step of the promise.
LEMMA StepsKeep ==
    ASSUME Inv, Inv', [Next]_vars
    PROVE  [Promise!Next]_Promise!vars
<1>1. CASE UNCHANGED vars
  <2>1. Unresolved' = Unresolved
    BY <1>1 DEF vars, Unresolved
  <2>2. Open' \subseteq Open /\ Asked' = Asked /\ Told' = Told /\ Took' = Took
    BY <1>1, <2>1 DEF vars, Open, Asked, Told, Took
  <2> QED
    BY <2>2, AsGiveUp
<1>2. CASE LateCall
  BY <1>2, LateCallKeeps
<1>3. ASSUME NEW r \in Requests, Receive(r) \/ Serve(r) \/ Owner(r) \/ Finish(r)
      PROVE  Promise!Next
  BY <1>3, ReceiveAsks, FinishLeaves, OwnerKeeps, ChainKeeps, ResponseKeeps, CallEndsQuietly DEF Serve
<1> QED
  BY <1>1, <1>2, <1>3 DEF Next

\* The gateway starts as the promise does.
LEMMA StartsAsPromised == Init => Promise!Init
BY DEF Init, Promise!Init, Verdict, Unresolved

\* The gateway implements IdempotentCommands: identity, CanonicalDigest, the
\* error mapping and the envelope together keep the promise to the clients.
THEOREM PromiseIsKept == Spec => PromiseKept
<1>1. Init => Promise!Init
  BY StartsAsPromised
<1>2. Inv /\ Inv' /\ [Next]_vars => [Promise!Next]_Promise!vars
  BY StepsKeep
<1> QED
  BY <1>1, <1>2, InvHolds, PTL DEF Spec, PromiseKept, Promise!Spec
=============================================================================
