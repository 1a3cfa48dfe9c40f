------------------------ MODULE CommandGateway_proofs ------------------------
(***************************************************************************)
(* Proofs about CommandGateway for any number of requests, tenants,        *)
(* commands, bodies, formats and placements. The inductive invariant ties  *)
(* what is recorded for a request (its error, its answers) to what its     *)
(* owner call gave it, and that to the owners' ledger.                     *)
(***************************************************************************)
EXTENDS CommandGateway, TLAPS

\* What the owners' replies can be.
ReplyFits(p) ==
    /\ p.code = "OK" => p.word \in {"new", "existing"}
    /\ p.word \in {"new", "existing"} => p.code = "OK"
    /\ p.code = "AlreadyExists" => p.word = "IDEMPOTENCY_CONFLICT"
    /\ p.effect => \/ p.code \in {"OK", "Unavailable", "Internal", "DeadlineExceeded", "Canceled"}
                   \/ p.word = "EFFECT_UNCERTAIN"

\* What an error says is true of the reply it was made from.
ErrorFits(e, p) ==
    /\ ~e.retryable /\ e.code # "EFFECT_UNCERTAIN" => ~p.effect
    /\ p.word = "EFFECT_UNCERTAIN" => e = apiError("EFFECT_UNCERTAIN", 409, FALSE)
    /\ e.code = "IDEMPOTENCY_CONFLICT" => p.word = "IDEMPOTENCY_CONFLICT"
    /\ e.retryable => e.status \in {429, 503}
    /\ e.status # 201

AnswerFits(a, p, route) ==
    \/ /\ a.code = "OK" /\ p.code = "OK"
       /\ ~a.retryable /\ a.retryAfter = 0
       /\ a.status = 201 /\ route \in recoveryHandlers => p.word = "new"
    \/ \E e \in Error : a = Envelope(e) /\ ErrorFits(e, p)

BeforeCall == {"authenticate", "strictBody", "validate", "handler"}
InChain    == BeforeCall \cup {"call", "respond"}

\* What each place of the chain says about the request's own values.
Local(r) ==
    /\ pc[r] \in {"idle"} \cup BeforeCall => reply[r] = NoReply
    /\ pc[r] \in {"idle"} \cup InChain => err[r] = NoError /\ answers[r] = <<>>
    /\ pc[r] = "validate" /\ req[r].content \in Contents =>
         digest[r] = CanonicalDigest(req[r].content, req[r].form)
    /\ pc[r] \in {"handler", "call", "respond"} =>
         /\ req[r].content \in Contents
         /\ digest[r] = CanonicalDigest(req[r].content, req[r].form)
    /\ pc[r] = "respond" => reply[r].code = "OK"
    /\ pc[r] = "unwind" => answers[r] # <<>> \/ err[r] # NoError
    /\ pc[r] = "done" => answers[r] # <<>>
    /\ reply[r] # NoReply => ReplyFits(reply[r])
    /\ err[r] # NoError => ErrorFits(err[r], reply[r])
    /\ answers[r] # <<>> => \E a \in Answer : answers[r] = <<a>> /\ AnswerFits(a, reply[r], req[r].route)

\* A call names its client's command and the digest of its client's body.
CallsNamed ==
    \A c \in late \cup ledger :
      c.id = [tenant |-> c.req.token, cmd |-> c.req.cmd,
              digest |-> CanonicalDigest(c.req.content, c.req.form)]

\* What a reply says of the ledger stays true.
ReplyRecorded ==
    \A r \in Requests :
      /\ reply[r].code = "OK" =>
           \E c \in ledger : SameIntent(c.req, req[r]) /\ c.req.content = req[r].content
      /\ reply[r].word = "IDEMPOTENCY_CONFLICT" =>
           \E c \in ledger : SameIntent(c.req, req[r]) /\ c.req.content # req[r].content

\* Of the requests of one command at most one was the first.
NewOnce ==
    \A r, s \in Requests :
      /\ r # s /\ reply[r].word = "new" /\ reply[s].word = "new"
      => ~SameIntent(req[r], req[s])

Inv == /\ TypeOK
       /\ \A r \in Requests : Local(r)
       /\ CallsNamed
       /\ OneEffect
       /\ ReplyRecorded
       /\ NewOnce
-----------------------------------------------------------------------------
(* The error tables.                                                       *)

\* Every public code has a status, and none is a 201.
LEMMA HttpStatusTable ==
    ASSUME NEW code \in ErrorCode
    PROVE  /\ code \in DOMAIN httpStatus
           /\ httpStatus[code] \in Nat
           /\ httpStatus[code] # 201
           /\ code = "EFFECT_UNCERTAIN" => httpStatus[code] = 409
           /\ code = "CAPACITY_EXHAUSTED" => httpStatus[code] = 429
           /\ code = "DEPENDENCY_UNAVAILABLE" => httpStatus[code] = 503
  BY DEF ErrorCode, httpStatus

\* What MapError decides for a status that is not OK.
LEMMA MapErrorTable ==
    ASSUME NEW p \in Reply, ReplyFits(p), p.code # "OK"
    PROVE  /\ MapError(p).code \in ErrorCode
           /\ MapError(p).retryable \in BOOLEAN
           /\ MapError(p).retryable => MapError(p).code \in {"CAPACITY_EXHAUSTED", "DEPENDENCY_UNAVAILABLE"}
           /\ ~MapError(p).retryable /\ MapError(p).code # "EFFECT_UNCERTAIN" => ~p.effect
           /\ p.word = "EFFECT_UNCERTAIN" => MapError(p) = ControlError("EFFECT_UNCERTAIN", FALSE)
           /\ MapError(p).code = "IDEMPOTENCY_CONFLICT" => p.word = "IDEMPOTENCY_CONFLICT"
  BY DEF MapError, ByCode, ControlError, Reply, ReplyFits, GrpcCode, Word, publicConflicts, ErrorCode

\* The error made from an owner's status says the truth about it.
LEMMA FromControlFits ==
    ASSUME NEW p \in Reply, ReplyFits(p), p.code # "OK"
    PROVE  fromControl(MapError(p)) \in Error /\ ErrorFits(fromControl(MapError(p)), p)
  <1> DEFINE m == MapError(p)
             e == fromControl(m)
  <1>1. m.code \in ErrorCode /\ m.retryable \in BOOLEAN
    BY MapErrorTable
  <1>2. e = apiError(m.code, httpStatus[m.code], m.retryable /\ m.code # "EFFECT_UNCERTAIN")
    BY <1>1, HttpStatusTable DEF fromControl
  <1>3. e.code = m.code /\ e.status = httpStatus[m.code]
        /\ e.retryable = (m.retryable /\ m.code # "EFFECT_UNCERTAIN")
    BY <1>2 DEF apiError
  <1>4. e \in Error
    BY <1>1, <1>2, HttpStatusTable DEF Error, apiError
  <1>5. p.word = "EFFECT_UNCERTAIN" => e = apiError("EFFECT_UNCERTAIN", 409, FALSE)
    <2>1. ASSUME p.word = "EFFECT_UNCERTAIN" PROVE e = apiError("EFFECT_UNCERTAIN", 409, FALSE)
      <3>1. m.code = "EFFECT_UNCERTAIN" /\ m.retryable = FALSE
        BY <2>1, MapErrorTable DEF ControlError
      <3>2. httpStatus[m.code] = 409
        BY <3>1, <1>1, HttpStatusTable
      <3> QED BY <1>2, <3>1, <3>2 DEF apiError
    <2> QED BY <2>1
  <1>6. p.effect => e.retryable \/ e.code = "EFFECT_UNCERTAIN"
    <2>1. p.effect => m.retryable \/ m.code = "EFFECT_UNCERTAIN"
      BY MapErrorTable
    <2> HIDE DEF m, e
    <2> QED BY <2>1, <1>1, <1>3
  <1>7. e.code = "IDEMPOTENCY_CONFLICT" => p.word = "IDEMPOTENCY_CONFLICT"
    BY <1>3, MapErrorTable
  <1>8. e.retryable => e.status \in {429, 503}
    <2>1. m.retryable => m.code \in {"CAPACITY_EXHAUSTED", "DEPENDENCY_UNAVAILABLE"}
      BY MapErrorTable
    <2>2. m.code \in {"CAPACITY_EXHAUSTED", "DEPENDENCY_UNAVAILABLE"} =>
            httpStatus[m.code] \in {429, 503}
      BY <1>1, HttpStatusTable
    <2> HIDE DEF m, e
    <2> QED BY <2>1, <2>2, <1>1, <1>3
  <1>9. e.status # 201
    BY <1>1, <1>3, HttpStatusTable
  <1> HIDE DEF m, e
  <1>10. ErrorFits(e, p)
    BY <1>5, <1>6, <1>7, <1>8, <1>9 DEF ErrorFits
  <1> QED BY <1>4, <1>10 DEF m, e

\* The errors the API makes itself, before a call.
LEMMA FinalErrorFits ==
    ASSUME NEW e, e.code # "IDEMPOTENCY_CONFLICT", e.status # 201, ~e.retryable
    PROVE  ErrorFits(e, NoReply)
  <1>1. NoReply.word # "EFFECT_UNCERTAIN"
    BY DEF NoReply
  <1>2. ~NoReply.effect
    BY DEF NoReply
  <1> QED BY <1>1, <1>2, Zenon DEF ErrorFits

\* A refused token and a refused body.
LEMMA RefusalsFit ==
    /\ apiError("UNAUTHENTICATED", 401, FALSE) \in Error
    /\ ErrorFits(apiError("UNAUTHENTICATED", 401, FALSE), NoReply)
    /\ invalidArgument \in Error
    /\ ErrorFits(invalidArgument, NoReply)
  <1> DEFINE u == apiError("UNAUTHENTICATED", 401, FALSE)
  <1>1. u \in Error /\ u.code # "IDEMPOTENCY_CONFLICT" /\ u.status # 201
    BY DEF apiError, Error, ErrorCode
  <1>2. ~u.retryable
    BY DEF apiError
  <1>3. /\ invalidArgument \in Error
        /\ invalidArgument.code # "IDEMPOTENCY_CONFLICT" /\ invalidArgument.status # 201
    BY DEF invalidArgument, apiError, Error, ErrorCode
  <1>4. ~invalidArgument.retryable
    BY DEF invalidArgument, apiError
  <1> HIDE DEF u
  <1>5. ErrorFits(u, NoReply) /\ ErrorFits(invalidArgument, NoReply)
    BY <1>1, <1>2, <1>3, <1>4, FinalErrorFits
  <1> QED BY <1>1, <1>3, <1>5 DEF u

\* A panic or a failed response, before a call or after its success.
LEMMA UnavailableFits ==
    /\ unavailable \in Error
    /\ ErrorFits(unavailable, NoReply)
    /\ \A p \in Reply : p.code = "OK" /\ ReplyFits(p) => ErrorFits(unavailable, p)
  <1>1. unavailable.code = "DEPENDENCY_UNAVAILABLE" /\ unavailable.status = 503
    BY DEF unavailable, apiError
  <1>2. unavailable.retryable
    BY DEF unavailable, apiError
  <1>3. unavailable \in Error
    BY DEF unavailable, apiError, Error, ErrorCode
  <1>4. ASSUME NEW p, p.word # "EFFECT_UNCERTAIN" PROVE ErrorFits(unavailable, p)
    <2>1. unavailable.status \in {429, 503} /\ unavailable.status # 201
          /\ unavailable.code # "IDEMPOTENCY_CONFLICT"
      BY <1>1
    <2> QED BY <1>2, <1>4, <2>1, Zenon DEF ErrorFits
  <1>5. NoReply.word # "EFFECT_UNCERTAIN"
    BY DEF NoReply
  <1>6. ASSUME NEW p \in Reply, p.code = "OK", ReplyFits(p) PROVE p.word # "EFFECT_UNCERTAIN"
    BY <1>6 DEF ReplyFits
  <1> QED BY <1>3, <1>4, <1>5, <1>6

\* The errors of an owner without placement and of a refused argument object.
LEMMA FromControlOwn ==
    ASSUME NEW code \in ErrorCode \ {"IDEMPOTENCY_CONFLICT"}
    PROVE  /\ fromControl(ControlError(code, FALSE)) \in Error
           /\ ErrorFits(fromControl(ControlError(code, FALSE)), NoReply)
  <1> DEFINE ce == ControlError(code, FALSE)
             e  == fromControl(ce)
  <1>1. ce.code = code
    BY DEF ControlError
  <1>2. ~ce.retryable
    BY DEF ControlError
  <1>3. code \in DOMAIN httpStatus /\ httpStatus[code] \in Nat \ {201}
    BY HttpStatusTable
  <1> HIDE DEF ce
  <1>4. e.code = code /\ e.status = httpStatus[code] /\ e \in Error
    BY <1>1, <1>3 DEF fromControl, apiError, Error
  <1>5. ~e.retryable
    BY <1>2 DEF fromControl, apiError
  <1>6. e.code # "IDEMPOTENCY_CONFLICT" /\ e.status # 201
    BY <1>3, <1>4
  <1> HIDE DEF e
  <1>7. ErrorFits(e, NoReply)
    BY <1>5, <1>6, FinalErrorFits
  <1> QED BY <1>4, <1>7 DEF e, ce

\* An envelope is an answer that says what its error says.
LEMMA EnvelopeFits ==
    ASSUME NEW e \in Error
    PROVE  Envelope(e) \in Answer
  <1>1. retryAfter(e) \in Nat
    BY DEF retryAfter
  <1> QED BY <1>1 DEF Envelope, Answer, Error
-----------------------------------------------------------------------------
(* Frames: what a step leaves alone.                                       *)

\* A slot whose values did not change keeps its facts.
LEMMA OtherSlot ==
    ASSUME NEW s \in Requests, Local(s),
           pc'[s] = pc[s], req'[s] = req[s], digest'[s] = digest[s],
           err'[s] = err[s], answers'[s] = answers[s], reply'[s] = reply[s]
    PROVE  Local(s)'
  BY DEF Local

\* Steps that leave requests, replies and the ledger alone keep theirs.
LEMMA SameCalls ==
    ASSUME Inv, UNCHANGED <<req, reply, ledger>>, late' \subseteq late
    PROVE  CallsNamed' /\ OneEffect' /\ ReplyRecorded' /\ NewOnce'
  BY DEF Inv, CallsNamed, OneEffect, ReplyRecorded, NewOnce

\* The chain gives up before or after a call whose result stays what it was.
LEMMA FailStep ==
    ASSUME Inv, NEW r \in Requests, NEW e \in Error,
           pc[r] \in InChain, ErrorFits(e, reply[r]), fail(r, e),
           digest' \in [Requests -> Digest \cup {NoDigest}],
           \A s \in Requests \ {r} : digest'[s] = digest[s],
           UNCHANGED <<req, answers, reply, late, ledger>>
    PROVE  Inv'
  <1>1. err[r] = NoError /\ answers[r] = <<>>
    BY DEF Inv, Local, InChain
  <1>2. /\ pc' = [pc EXCEPT ![r] = "unwind"] /\ err' = [err EXCEPT ![r] = e]
    BY <1>1 DEF fail, Goto
  <1>3. TypeOK'
    BY <1>2 DEF Inv, TypeOK, PC, InChain, BeforeCall
  <1>4. e # NoError
    BY DEF Error, NoError, ErrorCode
  <1>5. ASSUME NEW s \in Requests PROVE Local(s)'
    <2>1. CASE s = r
      <3>1. pc'[r] = "unwind" /\ err'[r] = e /\ answers'[r] = <<>> /\ reply'[r] = reply[r]
        BY <1>1, <1>2 DEF Inv, TypeOK
      <3>2. reply[r] # NoReply => ReplyFits(reply[r])
        BY DEF Inv, Local
      <3> QED BY <2>1, <3>1, <3>2, <1>4 DEF Local, InChain, BeforeCall
    <2>2. CASE s # r
      BY <2>2, <1>2, OtherSlot DEF Inv, TypeOK
    <2> QED BY <2>1, <2>2
  <1> QED BY <1>3, <1>5, SameCalls DEF Inv

\* The chain moves on.
LEMMA MoveOn ==
    ASSUME Inv, NEW r \in Requests, NEW where \in PC,
           Goto(r, where), Local(r)',
           digest' \in [Requests -> Digest \cup {NoDigest}],
           \A s \in Requests \ {r} : digest'[s] = digest[s],
           answers' \in [Requests -> Seq(Answer)],
           \A s \in Requests \ {r} : answers'[s] = answers[s],
           pc[r] # "idle",
           UNCHANGED <<req, err, reply, late, ledger>>
    PROVE  Inv'
  <1>1. TypeOK'
    BY DEF Inv, TypeOK, Goto
  <1>2. ASSUME NEW s \in Requests, s # r PROVE Local(s)'
    BY <1>2, OtherSlot DEF Inv, TypeOK, Goto
  <1> QED BY <1>1, <1>2, SameCalls DEF Inv
-----------------------------------------------------------------------------
(* The steps of the request's goroutine.                                   *)

\* A request arrives in an empty slot.
LEMMA ReceiveStep ==
    ASSUME Inv, NEW r \in Requests, Receive(r)
    PROVE  Inv'
  <1> PICK q \in Request : req' = [req EXCEPT ![r] = q]
    BY DEF Receive
  <1>1. /\ pc' = [pc EXCEPT ![r] = "authenticate"] /\ pc[r] = "idle"
        /\ UNCHANGED <<digest, err, answers, reply, late, ledger>>
    BY DEF Receive, Goto, At
  <1>2. reply[r] = NoReply /\ err[r] = NoError /\ answers[r] = <<>>
    BY <1>1 DEF Inv, Local, InChain
  <1>3. TypeOK'
    BY <1>1 DEF Inv, TypeOK, PC
  <1>4. ASSUME NEW s \in Requests PROVE Local(s)'
    <2>1. CASE s = r
      <3>1. pc'[r] = "authenticate" /\ reply'[r] = NoReply /\ err'[r] = NoError /\ answers'[r] = <<>>
        BY <1>1, <1>2 DEF Inv, TypeOK
      <3> QED BY <2>1, <3>1 DEF Local
    <2>2. CASE s # r
      BY <2>2, <1>1, OtherSlot DEF Inv, TypeOK
    <2> QED BY <2>1, <2>2
  <1>5. CallsNamed' /\ OneEffect'
    BY <1>1 DEF Inv, CallsNamed, OneEffect
  <1>6. \A s \in Requests : s # r => req'[s] = req[s]
    BY DEF Inv, TypeOK
  <1>7. NoReply.code # "OK" /\ NoReply.word # "IDEMPOTENCY_CONFLICT" /\ NoReply.word # "new"
    BY DEF NoReply
  <1>8. ReplyRecorded'
    BY <1>1, <1>2, <1>6, <1>7 DEF Inv, ReplyRecorded
  <1>9. NewOnce'
    BY <1>1, <1>2, <1>6, <1>7 DEF Inv, NewOnce
  <1> QED BY <1>3, <1>4, <1>5, <1>8, <1>9 DEF Inv

\* The token is accepted or refused.
LEMMA AuthenticateStep ==
    ASSUME Inv, NEW r \in Requests, authenticate(r)
    PROVE  Inv'
  <1>1. pc[r] = "authenticate" /\ reply[r] = NoReply /\ err[r] = NoError /\ answers[r] = <<>>
    BY DEF authenticate, At, Inv, Local, InChain, BeforeCall
  <1>2. digest' = digest /\ digest' \in [Requests -> Digest \cup {NoDigest}]
        /\ UNCHANGED <<req, answers, reply, late, ledger>>
    BY DEF authenticate, Inv, TypeOK
  <1>3. CASE fail(r, apiError("UNAUTHENTICATED", 401, FALSE))
    <2> DEFINE e == apiError("UNAUTHENTICATED", 401, FALSE)
    <2>1. e \in Error /\ ErrorFits(e, reply[r])
      BY <1>1, RefusalsFit
    <2> HIDE DEF e
    <2>2. fail(r, e)
      BY <1>3 DEF e
    <2> QED BY <1>1, <1>2, <2>1, <2>2, FailStep DEF InChain, BeforeCall
  <1>4. CASE Goto(r, "strictBody") /\ UNCHANGED err
    <2>1. pc'[r] = "strictBody"
      BY <1>4 DEF Goto, Inv, TypeOK
    <2>2. Local(r)'
      BY <1>1, <1>2, <1>4, <2>1 DEF Local
    <2>3. answers' \in [Requests -> Seq(Answer)] /\ "strictBody" \in PC
      BY <1>2 DEF Inv, TypeOK, PC
    <2> QED BY <1>1, <1>2, <1>4, <2>2, <2>3, MoveOn
  <1> QED BY <1>3, <1>4 DEF authenticate

\* The body is digested, left to the validator or refused.
LEMMA StrictBodyStep ==
    ASSUME Inv, NEW r \in Requests, strictBody(r)
    PROVE  Inv'
  <1>1. pc[r] = "strictBody" /\ reply[r] = NoReply /\ err[r] = NoError /\ answers[r] = <<>>
        /\ req[r] \in Request
    BY DEF strictBody, At, Inv, TypeOK, Local, InChain, BeforeCall
  <1>2. UNCHANGED <<req, answers, reply, late, ledger>>
    BY DEF strictBody
  <1>3. answers' \in [Requests -> Seq(Answer)] /\ "validate" \in PC
    BY <1>2 DEF Inv, TypeOK, PC
  <1>4. CASE fail(r, invalidArgument) /\ UNCHANGED digest
    <2>1. invalidArgument \in Error /\ ErrorFits(invalidArgument, reply[r])
      BY <1>1, RefusalsFit
    <2>2. digest' \in [Requests -> Digest \cup {NoDigest}]
      BY <1>4 DEF Inv, TypeOK
    <2> QED BY <1>1, <1>2, <1>4, <2>1, <2>2, FailStep DEF InChain, BeforeCall
  <1>5. CASE /\ req[r].content = "empty"
             /\ Goto(r, "validate")
             /\ UNCHANGED <<digest, err>>
    <2>1. pc'[r] = "validate" /\ req'[r].content \notin Contents
      BY <1>2, <1>5, GatewayAssumption DEF Goto, Inv, TypeOK
    <2>2. Local(r)'
      BY <1>1, <1>2, <1>5, <2>1 DEF Local
    <2>3. digest' \in [Requests -> Digest \cup {NoDigest}]
      BY <1>5 DEF Inv, TypeOK
    <2> QED BY <1>1, <1>2, <1>3, <1>5, <2>2, <2>3, MoveOn
  <1>6. CASE /\ digest' = [digest EXCEPT ![r] = CanonicalDigest(req[r].content, req[r].form)]
             /\ Goto(r, "validate")
             /\ UNCHANGED err
    <2>1. pc'[r] = "validate"
      BY <1>6 DEF Goto, Inv, TypeOK
    <2>2. CanonicalDigest(req[r].content, req[r].form) \in Digest
      BY <1>1 DEF CanonicalDigest, Digest, Request
    <2>3. digest'[r] = CanonicalDigest(req'[r].content, req'[r].form)
      BY <1>2, <1>6 DEF Inv, TypeOK
    <2>4. Local(r)'
      BY <1>1, <1>2, <1>6, <2>1, <2>3 DEF Local
    <2>5. digest' \in [Requests -> Digest \cup {NoDigest}]
          /\ \A s \in Requests \ {r} : digest'[s] = digest[s]
      BY <1>6, <2>2 DEF Inv, TypeOK
    <2> QED BY <1>1, <1>2, <1>3, <1>6, <2>4, <2>5, MoveOn
  <1> QED BY <1>4, <1>5, <1>6 DEF strictBody

\* The contract accepts or rejects the request.
LEMMA RequestValidatorStep ==
    ASSUME Inv, NEW r \in Requests, requestValidator(r)
    PROVE  Inv'
  <1>1. pc[r] = "validate" /\ reply[r] = NoReply /\ err[r] = NoError /\ answers[r] = <<>>
    BY DEF requestValidator, At, Inv, Local, InChain, BeforeCall
  <1>2. /\ digest' = digest /\ digest' \in [Requests -> Digest \cup {NoDigest}]
        /\ UNCHANGED <<req, answers, reply, late, ledger>>
        /\ answers' \in [Requests -> Seq(Answer)]
    BY DEF requestValidator, Inv, TypeOK
  <1>3. CASE fail(r, invalidArgument)
    <2>1. invalidArgument \in Error /\ ErrorFits(invalidArgument, reply[r])
      BY <1>1, RefusalsFit
    <2> QED BY <1>1, <1>2, <1>3, <2>1, FailStep DEF InChain, BeforeCall
  <1>4. CASE /\ req[r].content \in Contents
             /\ Goto(r, "handler")
             /\ UNCHANGED err
    <2>1. pc'[r] = "handler" /\ "handler" \in PC
      BY <1>4 DEF Goto, Inv, TypeOK, PC
    <2>2. digest[r] = CanonicalDigest(req[r].content, req[r].form)
      BY <1>1, <1>4 DEF Inv, Local
    <2>3. Local(r)'
      BY <1>1, <1>2, <1>4, <2>1, <2>2 DEF Local
    <2> QED BY <1>1, <1>2, <1>4, <2>1, <2>3, MoveOn
  <1> QED BY <1>3, <1>4 DEF requestValidator

\* The handler is refused locally or makes its call.
LEMMA HandlerStep ==
    ASSUME Inv, NEW r \in Requests, Unavailable(r) \/ ArgumentsRefused(r) \/ CallOwner(r)
    PROVE  Inv'
  <1>1. pc[r] = "handler" /\ reply[r] = NoReply /\ err[r] = NoError /\ answers[r] = <<>>
    BY DEF Unavailable, ArgumentsRefused, CallOwner, At, Inv, Local, InChain, BeforeCall
  <1>2. /\ digest' = digest /\ digest' \in [Requests -> Digest \cup {NoDigest}]
        /\ UNCHANGED <<req, answers, reply, late, ledger>>
        /\ answers' \in [Requests -> Seq(Answer)]
    BY DEF Unavailable, ArgumentsRefused, CallOwner, Inv, TypeOK
  <1>3. ASSUME NEW code \in ErrorCode \ {"IDEMPOTENCY_CONFLICT"},
               fail(r, fromControl(ControlError(code, FALSE)))
        PROVE  Inv'
    <2> DEFINE e == fromControl(ControlError(code, FALSE))
    <2>1. e \in Error /\ ErrorFits(e, reply[r])
      BY <1>1, FromControlOwn
    <2>2. fail(r, e)
      BY <1>3
    <2> HIDE DEF e
    <2> QED BY <1>1, <1>2, <2>1, <2>2, FailStep DEF InChain, BeforeCall
  <1>4. CASE Unavailable(r)
    BY <1>3, <1>4 DEF Unavailable, ErrorCode
  <1>5. CASE ArgumentsRefused(r)
    BY <1>3, <1>5 DEF ArgumentsRefused, ErrorCode
  <1>6. CASE CallOwner(r)
    <2>1. pc'[r] = "call" /\ "call" \in PC /\ Goto(r, "call") /\ UNCHANGED err
      BY <1>6 DEF CallOwner, Goto, Inv, TypeOK, PC
    <2>2. /\ req[r].content \in Contents
          /\ digest[r] = CanonicalDigest(req[r].content, req[r].form)
      BY <1>1 DEF Inv, Local
    <2>3. Local(r)'
      BY <1>1, <1>2, <2>1, <2>2 DEF Local, BeforeCall
    <2> QED BY <1>1, <1>2, <2>1, <2>3, MoveOn
  <1> QED BY <1>4, <1>5, <1>6

\* A request whose owner answered has a reply of the owners.
LEMMA ReplyIsOwners ==
    ASSUME Inv, NEW r \in Requests, reply[r] # NoReply
    PROVE  reply[r] \in Reply /\ ReplyFits(reply[r])
  BY DEF Inv, TypeOK, Local

\* The owner's answer is mapped.
LEMMA CallReturnsStep ==
    ASSUME Inv, NEW r \in Requests, CallReturns(r)
    PROVE  Inv'
  <1>1. /\ pc[r] = "call" /\ reply[r] # NoReply /\ err[r] = NoError /\ answers[r] = <<>>
    BY DEF CallReturns, At, Inv, Local, InChain
  <1>2. /\ digest' = digest /\ digest' \in [Requests -> Digest \cup {NoDigest}]
        /\ UNCHANGED <<req, answers, reply, late, ledger>>
        /\ answers' \in [Requests -> Seq(Answer)]
    BY DEF CallReturns, Inv, TypeOK
  <1>3. reply[r] \in Reply /\ ReplyFits(reply[r])
    BY <1>1, ReplyIsOwners
  <1>4. CASE reply[r].code = "OK" /\ Goto(r, "respond") /\ UNCHANGED err
    <2>1. pc'[r] = "respond" /\ "respond" \in PC
      BY <1>4 DEF Goto, Inv, TypeOK, PC
    <2>2. /\ req[r].content \in Contents
          /\ digest[r] = CanonicalDigest(req[r].content, req[r].form)
      BY <1>1 DEF Inv, Local
    <2>3. Local(r)'
      BY <1>1, <1>2, <1>3, <1>4, <2>1, <2>2 DEF Local, BeforeCall
    <2> QED BY <1>1, <1>2, <1>4, <2>1, <2>3, MoveOn
  <1>5. CASE reply[r].code # "OK" /\ fail(r, fromControl(MapError(reply[r])))
    <2> DEFINE e == fromControl(MapError(reply[r]))
    <2>1. e \in Error /\ ErrorFits(e, reply[r])
      BY <1>3, <1>5, FromControlFits
    <2>2. fail(r, e)
      BY <1>5
    <2> HIDE DEF e
    <2> QED BY <1>1, <1>2, <2>1, <2>2, FailStep DEF InChain
  <1> QED BY <1>4, <1>5 DEF CallReturns

\* A panic becomes an error.
LEMMA PanicsStep ==
    ASSUME Inv, NEW r \in Requests, Panics(r)
    PROVE  Inv'
  <1>1. /\ pc[r] \in InChain /\ fail(r, unavailable)
        /\ digest' = digest /\ digest' \in [Requests -> Digest \cup {NoDigest}]
        /\ UNCHANGED <<req, answers, reply, late, ledger>>
    BY DEF Panics, InChain, BeforeCall, Inv, TypeOK
  <1>2. reply[r] = NoReply \/ reply[r].code = "OK"
    BY DEF Panics, Inv, Local, BeforeCall
  <1>3. ErrorFits(unavailable, reply[r])
    BY <1>2, ReplyIsOwners, UnavailableFits
  <1> QED BY <1>1, <1>3, UnavailableFits, FailStep

\* Every command handler has a status for success.
LEMMA SuccessStatusTable ==
    ASSUME NEW route \in Routes, route \notin recoveryHandlers
    PROVE  StatusOf(route) \in Nat
  <1> DEFINE tables == control \cup knowledge \cup mcp
  <1>1. \A t \in tables : \A c \in DOMAIN t : t[c] \in Nat
    BY DEF control, knowledge, mcp, operationHandlers, preparationHandlers, transferHandlers,
           sourceHandlers, snapshotHandlers, memoryHandlers, serverHandlers, grantHandlers,
           toolHandlers
  <1>2. \E t \in tables : route \in DOMAIN t
    BY GatewayAssumption DEF CommandsOf
  <1> QED BY <1>1, <1>2 DEF StatusOf

\* A response is written, or fails before or after its first byte.
LEMMA RespondStep ==
    ASSUME Inv, NEW r \in Requests, Respond(r) \/ RespondFails(r)
    PROVE  Inv'
  <1> DEFINE a == Accepted(r)
  <1>1. /\ pc[r] = "respond" /\ err[r] = NoError /\ answers[r] = <<>> /\ reply[r].code = "OK"
        /\ UNCHANGED <<req, digest, reply, late, ledger>>
    BY DEF Respond, RespondFails, At, Inv, Local, InChain
  <1>2. reply[r] \in Reply /\ ReplyFits(reply[r])
    BY <1>1, ReplyIsOwners DEF NoReply
  <1>3. a \in Answer /\ AnswerFits(a, reply[r], req[r].route)
    <2>1. successStatus(r) \in Nat
      BY <1>1, SuccessStatusTable DEF Inv, TypeOK, Request, successStatus
    <2>2. successStatus(r) = 201 /\ req[r].route \in recoveryHandlers => reply[r].word = "new"
      BY <1>1, <1>2 DEF ReplyFits, successStatus
    <2>3. a \in Answer
      BY <2>1 DEF Accepted, Answer
    <2>4. a.code = "OK" /\ a.status = successStatus(r) /\ a.retryAfter = 0
      BY DEF Accepted
    <2>5. ~a.retryable
      BY DEF Accepted
    <2> HIDE DEF a
    <2> QED BY <1>1, <2>2, <2>3, <2>4, <2>5 DEF AnswerFits
  <1> HIDE DEF a
  <1>4. ErrorFits(unavailable, reply[r]) /\ unavailable \in Error /\ unavailable # NoError
    BY <1>1, <1>2, UnavailableFits DEF unavailable, apiError, NoError
  <1>5. pc' = [pc EXCEPT ![r] = "unwind"]
    BY DEF Respond, RespondFails, fail, Goto
  <1>6. \/ /\ answers' = [answers EXCEPT ![r] = <<a>>]
           /\ err' = err
        \/ /\ answers' = [answers EXCEPT ![r] = <<a>>]
           /\ err' = [err EXCEPT ![r] = unavailable]
        \/ /\ answers' = answers
           /\ err' = [err EXCEPT ![r] = unavailable]
    <2>1. Append(answers[r], a) = <<a>> /\ answers \in [Requests -> Seq(Answer)]
      BY <1>1, <1>3 DEF Inv, TypeOK
    <2>2. CASE Respond(r)
      BY <2>1, <2>2 DEF Respond, a
    <2>3. CASE RespondFails(r)
      <3>1. PICK began \in BOOLEAN :
              answers' = [answers EXCEPT ![r] = IF began THEN Append(@, Accepted(r)) ELSE @]
        BY <2>3 DEF RespondFails
      <3>2. err' = [err EXCEPT ![r] = unavailable]
        BY <2>3, <1>1 DEF RespondFails, fail
      <3>3. CASE began = TRUE
        BY <2>1, <3>1, <3>2, <3>3 DEF a
      <3>4. CASE began = FALSE
        BY <2>1, <3>1, <3>2, <3>4
      <3> QED BY <3>3, <3>4
    <2> QED BY <2>2, <2>3
  <1>7. TypeOK'
    <2>1. <<a>> \in Seq(Answer)
      BY <1>3
    <2> QED BY <1>1, <1>4, <1>5, <1>6, <2>1 DEF Inv, TypeOK, PC
  <1>8. ASSUME NEW s \in Requests PROVE Local(s)'
    <2>1. CASE s = r
      <3>1. /\ pc'[r] = "unwind" /\ reply'[r] = reply[r] /\ req'[r] = req[r]
            /\ answers'[r] = <<a>> \/ (answers'[r] = <<>> /\ err'[r] = unavailable)
            /\ err'[r] = NoError \/ err'[r] = unavailable
        BY <1>1, <1>5, <1>6 DEF Inv, TypeOK
      <3>2. answers'[r] # <<>> =>
              \E b \in Answer : answers'[r] = <<b>> /\ AnswerFits(b, reply'[r], req'[r].route)
        BY <3>1, <1>3
      <3>3. answers'[r] # <<>> \/ err'[r] # NoError
        <4>1. <<a>> # <<>>
          OBVIOUS
        <4>2. unavailable # NoError
          BY <1>4
        <4> QED BY <3>1, <4>1, <4>2, Zenon
      <3>4. /\ reply'[r] # NoReply => ReplyFits(reply'[r])
            /\ err'[r] # NoError => ErrorFits(err'[r], reply'[r])
        BY <3>1, <1>2, <1>4
      <3> QED BY <2>1, <3>1, <3>2, <3>3, <3>4 DEF Local, InChain, BeforeCall
    <2>2. CASE s # r
      BY <2>2, <1>1, <1>5, <1>6, OtherSlot DEF Inv, TypeOK
    <2> QED BY <2>1, <2>2
  <1> QED BY <1>1, <1>7, <1>8, SameCalls DEF Inv

\* The envelope is written only where nothing was.
LEMMA ErrorEnvelopeStep ==
    ASSUME Inv, NEW r \in Requests, errorEnvelope(r)
    PROVE  Inv'
  <1>1. /\ pc[r] = "unwind" /\ Goto(r, "done") /\ "done" \in PC
        /\ UNCHANGED <<req, digest, err, reply, late, ledger>>
        /\ answers' = [answers EXCEPT ![r] =
                         IF @ # <<>> \/ err[r] = NoError THEN @ ELSE Append(@, Envelope(err[r]))]
    BY DEF errorEnvelope, At, PC
  <1>2. pc'[r] = "done" /\ pc[r] # "idle"
    BY <1>1 DEF Goto, Inv, TypeOK
  <1>3. /\ answers' \in [Requests -> Seq(Answer)]
        /\ \A s \in Requests \ {r} : answers'[s] = answers[s]
        /\ \E a \in Answer : answers'[r] = <<a>> /\ AnswerFits(a, reply[r], req[r].route)
    <2>1. CASE answers[r] # <<>>
      BY <1>1, <2>1 DEF Inv, TypeOK, Local
    <2>2. CASE answers[r] = <<>>
      <3> DEFINE a == Envelope(err[r])
      <3>1. err[r] # NoError /\ err[r] \in Error /\ ErrorFits(err[r], reply[r])
        BY <1>1, <2>2 DEF Inv, TypeOK, Local
      <3>2. a \in Answer /\ AnswerFits(a, reply[r], req[r].route)
        BY <3>1, EnvelopeFits DEF AnswerFits
      <3> HIDE DEF a
      <3>3. answers' = [answers EXCEPT ![r] = <<a>>]
        BY <1>1, <2>2, <3>1, <3>2 DEF a, Inv, TypeOK
      <3>4. answers \in [Requests -> Seq(Answer)] /\ <<a>> \in Seq(Answer)
        BY <3>2 DEF Inv, TypeOK
      <3>5. /\ answers' \in [Requests -> Seq(Answer)]
            /\ \A s \in Requests \ {r} : answers'[s] = answers[s]
            /\ answers'[r] = <<a>>
        BY <3>3, <3>4
      <3> QED BY <3>2, <3>5
    <2> QED BY <2>1, <2>2
  <1>4. Local(r)'
    <2>1. /\ reply[r] # NoReply => ReplyFits(reply[r])
          /\ err[r] # NoError => ErrorFits(err[r], reply[r])
      BY DEF Inv, Local
    <2>2. answers'[r] # <<>>
      BY <1>3
    <2>3. reply'[r] = reply[r] /\ err'[r] = err[r] /\ req'[r] = req[r]
      BY <1>1
    <2> QED BY <1>2, <1>3, <2>1, <2>2, <2>3 DEF Local, InChain, BeforeCall
  <1>5. digest' \in [Requests -> Digest \cup {NoDigest}]
    BY <1>1 DEF Inv, TypeOK
  <1> QED BY <1>1, <1>2, <1>3, <1>4, <1>5, MoveOn

\* The slot is emptied.
LEMMA FinishStep ==
    ASSUME Inv, NEW r \in Requests, Finish(r)
    PROVE  Inv'
  <1>1. /\ pc' = [pc EXCEPT ![r] = "idle"] /\ req' = [req EXCEPT ![r] = NoRequest]
        /\ digest' = [digest EXCEPT ![r] = NoDigest] /\ err' = [err EXCEPT ![r] = NoError]
        /\ answers' = [answers EXCEPT ![r] = <<>>] /\ reply' = [reply EXCEPT ![r] = NoReply]
        /\ UNCHANGED <<late, ledger>>
    BY DEF Finish, Goto
  <1>2. TypeOK'
    <2>1. <<>> \in Seq(Answer)
      OBVIOUS
    <2> QED BY <1>1, <2>1 DEF Inv, TypeOK, PC
  <1>3. ASSUME NEW s \in Requests PROVE Local(s)'
    <2>1. CASE s = r
      <3>1. pc'[r] = "idle" /\ reply'[r] = NoReply /\ err'[r] = NoError /\ answers'[r] = <<>>
        BY <1>1 DEF Inv, TypeOK
      <3> QED BY <2>1, <3>1 DEF Local
    <2>2. CASE s # r
      BY <2>2, <1>1, OtherSlot DEF Inv, TypeOK
    <2> QED BY <2>1, <2>2
  <1>4. CallsNamed' /\ OneEffect'
    BY <1>1 DEF Inv, CallsNamed, OneEffect
  <1>5. /\ \A s \in Requests : s # r => req'[s] = req[s] /\ reply'[s] = reply[s]
        /\ reply'[r] = NoReply
    BY <1>1 DEF Inv, TypeOK
  <1>6. NoReply.code # "OK" /\ NoReply.word # "IDEMPOTENCY_CONFLICT" /\ NoReply.word # "new"
    BY DEF NoReply
  <1>7. ReplyRecorded'
    BY <1>1, <1>5, <1>6 DEF Inv, ReplyRecorded
  <1>8. NewOnce'
    BY <1>5, <1>6 DEF Inv, NewOnce
  <1> QED BY <1>2, <1>3, <1>4, <1>7, <1>8 DEF Inv
-----------------------------------------------------------------------------
(* The owners' steps and the end of a wait.                                *)

\* The call a waiting request has made names that request's command.
LEMMA CallOfNamed ==
    ASSUME Inv, NEW r \in Requests, pc[r] = "call"
    PROVE  /\ CallOf(r).req = req[r] /\ req[r] \in Request
           /\ CallOf(r).id = [tenant |-> req[r].token, cmd |-> req[r].cmd,
                              digest |-> CanonicalDigest(req[r].content, req[r].form)]
  <1>1. digest[r] = CanonicalDigest(req[r].content, req[r].form) /\ req[r] \in Request
    BY DEF Inv, TypeOK, Local
  <1> QED BY <1>1 DEF CallOf, identity

\* Two named calls are the owner's same command when their clients mean the
\* same one, and have the same digest when their bodies are the same.
LEMMA NamesAgree ==
    ASSUME NEW c, NEW d,
           c.id = [tenant |-> c.req.token, cmd |-> c.req.cmd,
                   digest |-> CanonicalDigest(c.req.content, c.req.form)],
           d.id = [tenant |-> d.req.token, cmd |-> d.req.cmd,
                   digest |-> CanonicalDigest(d.req.content, d.req.form)]
    PROVE  /\ SameCommand(c, d) <=> SameIntent(c.req, d.req)
           /\ c.id.digest = d.id.digest <=> c.req.content = d.req.content
  <1>1. /\ c.id.tenant = c.req.token /\ c.id.cmd = c.req.cmd
        /\ d.id.tenant = d.req.token /\ d.id.cmd = d.req.cmd
        /\ c.id.digest = CanonicalDigest(c.req.content, c.req.form)
        /\ d.id.digest = CanonicalDigest(d.req.content, d.req.form)
    OBVIOUS
  <1>2. CanonicalDigest(c.req.content, c.req.form) = CanonicalDigest(d.req.content, d.req.form)
          <=> c.req.content = d.req.content
    BY DEF CanonicalDigest
  <1> QED BY <1>1, <1>2 DEF SameCommand, SameIntent

\* A named call may be added to the ledger when none is recorded for it.
LEMMA Record ==
    ASSUME Inv, NEW c, Recorded(c) = {}, ledger' = ledger \cup {c},
           c.id = [tenant |-> c.req.token, cmd |-> c.req.cmd,
                   digest |-> CanonicalDigest(c.req.content, c.req.form)]
    PROVE  OneEffect' /\ \A d \in ledger : ~SameIntent(c.req, d.req) /\ ~SameIntent(d.req, c.req)
  <1>1. ASSUME NEW d \in ledger PROVE ~SameIntent(c.req, d.req)
    <2>1. ~SameCommand(c, d)
      BY DEF Recorded
    <2>2. d.id = [tenant |-> d.req.token, cmd |-> d.req.cmd,
                  digest |-> CanonicalDigest(d.req.content, d.req.form)]
      BY DEF Inv, CallsNamed
    <2> QED BY <2>1, <2>2, NamesAgree
  <1>2. \A d \in ledger : ~SameIntent(d.req, c.req)
    BY <1>1 DEF SameIntent
  <1>3. OneEffect'
    BY <1>1, <1>2 DEF OneEffect, Inv
  <1> QED BY <1>1, <1>2, <1>3

\* What the owner steps of a waiting request have in common.
LEMMA ReplyStep ==
    ASSUME Inv, NEW r \in Requests, pc[r] = "call", reply[r] = NoReply,
           NEW p \in Reply, ReplyFits(p), reply' = [reply EXCEPT ![r] = p],
           UNCHANGED <<pc, req, digest, err, answers, late>>,
           ledger' = ledger \/ (Recorded(CallOf(r)) = {} /\ ledger' = ledger \cup {CallOf(r)}),
           p.code = "OK" =>
             \E c \in ledger' : SameIntent(c.req, req[r]) /\ c.req.content = req[r].content,
           p.word = "IDEMPOTENCY_CONFLICT" =>
             \E c \in ledger' : SameIntent(c.req, req[r]) /\ c.req.content # req[r].content,
           p.word = "new" => Recorded(CallOf(r)) = {} /\ ledger' = ledger \cup {CallOf(r)}
    PROVE  Inv'
  <1> DEFINE c == CallOf(r)
  <1>1. /\ c.req = req[r] /\ req[r] \in Request
        /\ c.id = [tenant |-> c.req.token, cmd |-> c.req.cmd,
                   digest |-> CanonicalDigest(c.req.content, c.req.form)]
    BY CallOfNamed
  <1> HIDE DEF c
  <1>2. /\ ledger' = ledger \/ (Recorded(c) = {} /\ ledger' = ledger \cup {c})
        /\ p.word = "new" => Recorded(c) = {} /\ ledger' = ledger \cup {c}
    BY DEF c
  <1>3. /\ \A s \in Requests : s # r => reply'[s] = reply[s]
        /\ reply'[r] = p
    BY DEF Inv, TypeOK
  <1>4. TypeOK'
    BY <1>1, <1>2 DEF Inv, TypeOK
  <1>5. ASSUME NEW s \in Requests PROVE Local(s)'
    <2>1. CASE s = r
      <3>1. /\ req[r].content \in Contents /\ err[r] = NoError /\ answers[r] = <<>>
            /\ digest[r] = CanonicalDigest(req[r].content, req[r].form)
        BY DEF Inv, Local, InChain
      <3>2. pc'[r] = "call"
        OBVIOUS
      <3> QED BY <2>1, <3>1, <3>2, <1>3 DEF Local, InChain, BeforeCall
    <2>2. CASE s # r
      BY <2>2, <1>3, OtherSlot DEF Inv
    <2> QED BY <2>1, <2>2
  <1>6. CallsNamed'
    BY <1>1, <1>2 DEF Inv, CallsNamed
  <1>7. OneEffect'
    <2>1. CASE ledger' = ledger
      BY <2>1 DEF Inv, OneEffect
    <2>2. CASE Recorded(c) = {} /\ ledger' = ledger \cup {c}
      BY <2>2, <1>1, Record
    <2> QED BY <1>2, <2>1, <2>2
  <1>8. ReplyRecorded'
    <2>1. ledger \subseteq ledger'
      BY <1>2
    <2> QED BY <1>3, <2>1 DEF Inv, ReplyRecorded
  <1>9. NewOnce'
    <2>1. ASSUME p.word = "new", NEW s \in Requests, s # r, reply[s].word = "new"
          PROVE  ~SameIntent(req[r], req[s]) /\ ~SameIntent(req[s], req[r])
      <3>1. reply[s].code = "OK"
        BY <2>1, ReplyIsOwners DEF NoReply, ReplyFits
      <3>2. PICK d \in ledger : SameIntent(d.req, req[s])
        BY <3>1 DEF Inv, ReplyRecorded
      <3>3. ~SameIntent(d.req, req[r])
        BY <2>1, <1>1, <1>2, Record
      <3> QED BY <3>2, <3>3 DEF SameIntent
    <2> QED BY <1>3, <2>1 DEF Inv, NewOnce
  <1> QED BY <1>4, <1>5, <1>6, <1>7, <1>8, <1>9 DEF Inv

\* The owner executes, repeats or refuses a command by its digest.
LEMMA OwnerAcceptsStep ==
    ASSUME Inv, NEW r \in Requests, OwnerAccepts(r)
    PROVE  Inv'
  <1> DEFINE c == CallOf(r)
             P(code, word, effect) == [code |-> code, word |-> word, effect |-> effect]
  <1>1. /\ pc[r] = "call" /\ reply[r] = NoReply
        /\ UNCHANGED <<pc, req, digest, err, answers, late>>
    BY DEF OwnerAccepts, At
  <1>2. /\ c.req = req[r]
        /\ c.id = [tenant |-> c.req.token, cmd |-> c.req.cmd,
                   digest |-> CanonicalDigest(c.req.content, c.req.form)]
    BY <1>1, CallOfNamed
  <1> HIDE DEF c
  <1>3. ASSUME NEW d \in Recorded(c)
        PROVE  /\ d \in ledger /\ SameIntent(d.req, req[r])
               /\ d.id.digest = c.id.digest <=> d.req.content = req[r].content
    <2>1. d \in ledger /\ SameCommand(c, d)
      BY <1>3 DEF Recorded
    <2>2. d.id = [tenant |-> d.req.token, cmd |-> d.req.cmd,
                  digest |-> CanonicalDigest(d.req.content, d.req.form)]
      BY <2>1 DEF Inv, CallsNamed
    <2>3. SameIntent(c.req, d.req) /\ (c.id.digest = d.id.digest <=> c.req.content = d.req.content)
      BY <1>2, <2>1, <2>2, NamesAgree
    <2> QED BY <1>2, <2>1, <2>3 DEF SameIntent
  <1>4. CASE Recorded(c) = {} /\ ledger' = ledger \cup {c} /\ Replies(r, "OK", "new", TRUE)
    <2> DEFINE p == P("OK", "new", TRUE)
    <2>1. p \in Reply /\ ReplyFits(p) /\ p.word = "new"
      BY DEF Reply, GrpcCode, Word, ReplyFits
    <2>2. reply' = [reply EXCEPT ![r] = p]
      BY <1>4 DEF Replies
    <2>3. c \in ledger' /\ SameIntent(c.req, req[r]) /\ c.req.content = req[r].content
      BY <1>2, <1>4 DEF SameIntent
    <2> HIDE DEF p
    <2> QED BY <1>1, <1>4, <2>1, <2>2, <2>3, ReplyStep DEF c
  <1>5. CASE /\ \E d \in Recorded(c) : d.id.digest = c.id.digest
             /\ Replies(r, "OK", "existing", FALSE)
             /\ UNCHANGED ledger
    <2> DEFINE p == P("OK", "existing", FALSE)
    <2>1. p \in Reply /\ ReplyFits(p) /\ p.word = "existing"
      BY DEF Reply, GrpcCode, Word, ReplyFits
    <2>2. reply' = [reply EXCEPT ![r] = p]
      BY <1>5 DEF Replies
    <2>3. \E d \in ledger' : SameIntent(d.req, req[r]) /\ d.req.content = req[r].content
      BY <1>3, <1>5
    <2> HIDE DEF p
    <2> QED BY <1>1, <1>5, <2>1, <2>2, <2>3, ReplyStep
  <1>6. CASE /\ \E d \in Recorded(c) : d.id.digest # c.id.digest
             /\ Replies(r, "AlreadyExists", "IDEMPOTENCY_CONFLICT", FALSE)
             /\ UNCHANGED ledger
    <2> DEFINE p == P("AlreadyExists", "IDEMPOTENCY_CONFLICT", FALSE)
    <2>1. p \in Reply /\ ReplyFits(p) /\ p.word = "IDEMPOTENCY_CONFLICT" /\ p.code # "OK"
      BY DEF Reply, GrpcCode, Word, publicConflicts, ReplyFits
    <2>2. reply' = [reply EXCEPT ![r] = p]
      BY <1>6 DEF Replies
    <2>3. \E d \in ledger' : SameIntent(d.req, req[r]) /\ d.req.content # req[r].content
      BY <1>3, <1>6
    <2> HIDE DEF p
    <2> QED BY <1>1, <1>6, <2>1, <2>2, <2>3, ReplyStep
  <1> QED BY <1>4, <1>5, <1>6 DEF OwnerAccepts, c

\* The owner refuses, fails, or calls the effect uncertain.
LEMMA OwnerRefusesStep ==
    ASSUME Inv, NEW r \in Requests, OwnerRefuses(r) \/ OwnerFails(r)
    PROVE  Inv'
  <1>1. /\ pc[r] = "call" /\ reply[r] = NoReply
        /\ UNCHANGED <<pc, req, digest, err, answers, late>>
        /\ ledger' = ledger \/ (Recorded(CallOf(r)) = {} /\ ledger' = ledger \cup {CallOf(r)})
    BY DEF OwnerRefuses, OwnerFails, At
  <1>2. PICK p : /\ reply' = [reply EXCEPT ![r] = p]
                 /\ p \in Reply /\ ReplyFits(p)
                 /\ p.code # "OK" /\ p.word \notin {"new", "IDEMPOTENCY_CONFLICT"}
    <2>1. CASE OwnerRefuses(r)
      <3>1. PICK s \in Refusals : Replies(r, s[1], s[2], FALSE)
        BY <2>1 DEF OwnerRefuses
      <3> DEFINE p == [code |-> s[1], word |-> s[2], effect |-> FALSE]
      <3>2. p \in Reply /\ ReplyFits(p) /\ p.code # "OK" /\ p.word \notin {"new", "IDEMPOTENCY_CONFLICT"}
        BY DEF Refusals, Reply, GrpcCode, Word, publicConflicts, ReplyFits
      <3>3. reply' = [reply EXCEPT ![r] = p]
        BY <3>1 DEF Replies
      <3> HIDE DEF p
      <3> QED BY <3>2, <3>3
    <2>2. CASE OwnerFails(r)
      <3>1. PICK s \in Failures : Replies(r, s[1], s[2], TRUE)
        BY <2>2 DEF OwnerFails
      <3> DEFINE p == [code |-> s[1], word |-> s[2], effect |-> TRUE]
      <3>2. p \in Reply /\ ReplyFits(p) /\ p.code # "OK" /\ p.word \notin {"new", "IDEMPOTENCY_CONFLICT"}
        BY DEF Failures, Reply, GrpcCode, Word, publicConflicts, ReplyFits
      <3>3. reply' = [reply EXCEPT ![r] = p]
        BY <3>1 DEF Replies
      <3> HIDE DEF p
      <3> QED BY <3>2, <3>3
    <2> QED BY <2>1, <2>2
  <1> QED BY <1>1, <1>2, ReplyStep

\* A call nobody waits for is executed or lost.
LEMMA LateCallStep ==
    ASSUME Inv, LateCall
    PROVE  Inv'
  <1>1. UNCHANGED <<pc, req, digest, err, answers, reply>>
    BY DEF LateCall
  <1>2. PICK c \in late : /\ late' = late \ {c}
                          /\ \/ ledger' = ledger
                             \/ Recorded(c) = {} /\ ledger' = ledger \cup {c}
    BY DEF LateCall
  <1>3. TypeOK'
    BY <1>1, <1>2 DEF Inv, TypeOK
  <1>4. \A s \in Requests : Local(s)'
    BY <1>1, OtherSlot DEF Inv
  <1>5. CallsNamed'
    BY <1>2 DEF Inv, CallsNamed
  <1>6. OneEffect'
    <2>1. c.id = [tenant |-> c.req.token, cmd |-> c.req.cmd,
                  digest |-> CanonicalDigest(c.req.content, c.req.form)]
      BY DEF Inv, CallsNamed
    <2>2. CASE ledger' = ledger
      BY <2>2 DEF Inv, OneEffect
    <2>3. CASE Recorded(c) = {} /\ ledger' = ledger \cup {c}
      BY <2>1, <2>3, Record
    <2> QED BY <1>2, <2>2, <2>3
  <1>7. ReplyRecorded' /\ NewOnce'
    BY <1>1, <1>2 DEF Inv, ReplyRecorded, NewOnce
  <1> QED BY <1>3, <1>4, <1>5, <1>6, <1>7 DEF Inv

\* A wait ends: its error is retryable and its call becomes a late one.
LEMMA CallEndsStep ==
    ASSUME Inv, NEW r \in Requests, CallEnds(r)
    PROVE  Inv'
  <1>1. /\ pc[r] = "call" /\ err[r] = NoError /\ answers[r] = <<>>
        /\ UNCHANGED <<req, digest, answers, ledger>>
        /\ late' \subseteq late \cup {CallOf(r)}
    BY DEF CallEnds, At, Inv, Local, InChain
  <1>2. PICK code \in {"DeadlineExceeded", "Canceled", "Unavailable"} :
          LET status == [code |-> code, word |-> "other", effect |-> TRUE] IN
          /\ reply' = [reply EXCEPT ![r] = status]
          /\ fail(r, fromControl(MapError(status)))
    BY DEF CallEnds
  <1> DEFINE p == [code |-> code, word |-> "other", effect |-> TRUE]
             e == fromControl(MapError(p))
  <1>3. /\ p \in Reply /\ ReplyFits(p) /\ p # NoReply
        /\ p.code # "OK" /\ p.word \notin {"new", "IDEMPOTENCY_CONFLICT"}
    BY DEF Reply, GrpcCode, Word, ReplyFits, NoReply
  <1>4. reply' = [reply EXCEPT ![r] = p] /\ fail(r, e)
    BY <1>2
  <1> HIDE DEF p
  <1>5. e \in Error /\ ErrorFits(e, p)
    BY <1>3, FromControlFits
  <1> HIDE DEF e
  <1>6. pc' = [pc EXCEPT ![r] = "unwind"] /\ err' = [err EXCEPT ![r] = e] /\ e # NoError
    BY <1>1, <1>4, <1>5 DEF fail, Goto, Error, ErrorCode, NoError
  <1>7. /\ CallOf(r).req \in Request
        /\ CallOf(r).id = [tenant |-> CallOf(r).req.token, cmd |-> CallOf(r).req.cmd,
                           digest |-> CanonicalDigest(CallOf(r).req.content, CallOf(r).req.form)]
    BY <1>1, CallOfNamed
  <1>8. TypeOK'
    BY <1>1, <1>3, <1>4, <1>5, <1>6, <1>7 DEF Inv, TypeOK, PC
  <1>9. ASSUME NEW s \in Requests PROVE Local(s)'
    <2>1. CASE s = r
      <3>1. pc'[r] = "unwind" /\ err'[r] = e /\ answers'[r] = <<>> /\ reply'[r] = p
        BY <1>1, <1>4, <1>6 DEF Inv, TypeOK
      <3> QED BY <2>1, <3>1, <1>3, <1>5, <1>6 DEF Local, InChain, BeforeCall
    <2>2. CASE s # r
      BY <2>2, <1>1, <1>4, <1>6, OtherSlot DEF Inv, TypeOK
    <2> QED BY <2>1, <2>2
  <1>10. CallsNamed'
    BY <1>1, <1>7 DEF Inv, CallsNamed
  <1>11. OneEffect'
    BY <1>1 DEF Inv, OneEffect
  <1>12. (\A s \in Requests : s # r => reply'[s] = reply[s]) /\ reply'[r] = p
    BY <1>4 DEF Inv, TypeOK
  <1>13. ReplyRecorded'
    BY <1>1, <1>3, <1>12 DEF Inv, ReplyRecorded
  <1>14. NewOnce'
    BY <1>1, <1>3, <1>12 DEF Inv, NewOnce
  <1> QED BY <1>8, <1>9, <1>10, <1>11, <1>13, <1>14 DEF Inv
-----------------------------------------------------------------------------
(* The invariant.                                                          *)

\* The invariant holds at the start.
LEMMA InitInv == Init => Inv
  <1> SUFFICES ASSUME Init PROVE Inv
    OBVIOUS
  <1>1. TypeOK
    <2>1. <<>> \in Seq(Answer)
      OBVIOUS
    <2> QED BY <2>1 DEF Init, TypeOK, PC
  <1>2. \A r \in Requests : Local(r)
    BY DEF Init, Local, BeforeCall, InChain
  <1>3. CallsNamed /\ OneEffect
    BY DEF Init, CallsNamed, OneEffect
  <1>4. NoReply.code # "OK" /\ NoReply.word # "IDEMPOTENCY_CONFLICT" /\ NoReply.word # "new"
    BY DEF NoReply
  <1>5. ReplyRecorded /\ NewOnce
    BY <1>4 DEF Init, ReplyRecorded, NewOnce
  <1> QED BY <1>1, <1>2, <1>3, <1>5 DEF Inv

\* Every step keeps the invariant.
LEMMA NextInv == Inv /\ [Next]_vars => Inv'
  <1> SUFFICES ASSUME Inv, [Next]_vars PROVE Inv'
    OBVIOUS
  <1>1. ASSUME NEW r \in Requests, Serve(r) PROVE Inv'
    BY <1>1, AuthenticateStep, StrictBodyStep, RequestValidatorStep, HandlerStep, CallEndsStep,
       CallReturnsStep, RespondStep, PanicsStep, ErrorEnvelopeStep DEF Serve
  <1>2. ASSUME NEW r \in Requests, Receive(r) \/ Finish(r) PROVE Inv'
    BY <1>2, ReceiveStep, FinishStep
  <1>3. ASSUME NEW r \in Requests, Owner(r) PROVE Inv'
    BY <1>3, OwnerAcceptsStep, OwnerRefusesStep DEF Owner
  <1>4. CASE LateCall
    BY <1>4, LateCallStep
  <1>5. CASE UNCHANGED vars
    <2>1. \A s \in Requests : Local(s)'
      BY <1>5, OtherSlot DEF Inv, vars
    <2>2. TypeOK'
      BY <1>5 DEF Inv, TypeOK, vars
    <2> QED BY <1>5, <2>1, <2>2, SameCalls DEF Inv, vars
  <1> QED BY <1>1, <1>2, <1>3, <1>4, <1>5 DEF Next

\* The invariant holds throughout.
LEMMA InvHolds == Spec => []Inv
  BY InitInv, NextInv, PTL DEF Spec

\* An answer that was written says the truth about its request's reply.
LEMMA AnswersFit ==
    ASSUME Inv, NEW r \in Requests, NEW i \in 1..Len(answers[r])
    PROVE  /\ i = 1 /\ answers[r] # <<>> /\ answers[r][1] \in Answer
           /\ AnswerFits(answers[r][i], reply[r], req[r].route)
  <1>1. answers[r] \in Seq(Answer) /\ answers[r] # <<>>
    BY DEF Inv, TypeOK
  <1>2. PICK a \in Answer : answers[r] = <<a>> /\ AnswerFits(a, reply[r], req[r].route)
    BY <1>1 DEF Inv, Local
  <1> QED BY <1>2

\* The header of an envelope says what its retryable member says.
LEMMA PaceMatchesAdvice ==
    ASSUME NEW e \in Error, e.retryable => e.status \in {429, 503}
    PROVE  /\ Envelope(e).code = e.code /\ Envelope(e).status = e.status
           /\ Envelope(e).retryable <=> e.retryable
           /\ Envelope(e).retryable <=> Envelope(e).retryAfter > 0
           /\ ~e.retryable => Envelope(e).retryAfter = 0
  <1>1. e.retryable => retryAfter(e) > 0
    BY DEF retryAfter
  <1>2. ~e.retryable => retryAfter(e) = 0
    BY DEF retryAfter
  <1>3. e.retryable \in BOOLEAN
    BY DEF Error
  <1>4. /\ Envelope(e).code = e.code /\ Envelope(e).status = e.status
        /\ Envelope(e).retryable = e.retryable /\ Envelope(e).retryAfter = retryAfter(e)
    BY DEF Envelope
  <1>5. retryAfter(e) = 0 => ~(retryAfter(e) > 0)
    OBVIOUS
  <1> HIDE DEF retryAfter
  <1> QED BY <1>1, <1>2, <1>3, <1>4, <1>5
-----------------------------------------------------------------------------
(* The theorems.                                                           *)

\* Every value stays of its type: in particular whatever word an owner's
\* status carries, the answer's code is one of the public contract (MapError).
THEOREM TypeCorrect == Spec => []TypeOK
  BY InvHolds, PTL DEF Inv

\* A command takes effect at most once however often it is repeated, with any
\* number of requests in flight and calls executed after the API gave up on
\* them: the identity the handlers build names the command, not the attempt.
THEOREM CommandsTakeEffectOnce == Spec => []OneEffect
  BY InvHolds, PTL DEF Inv

\* A success answers a body the owner recorded under this command: the digest
\* in the identity keeps another body's record from being mistaken for it.
THEOREM SuccessIsTrue == Spec => []AcceptedIsRecorded
  <1>1. Inv => AcceptedIsRecorded
    <2> SUFFICES ASSUME Inv, NEW r \in Requests, NEW i \in 1..Len(answers[r]),
                        answers[r][i].code = "OK"
                 PROVE  \E c \in ledger : /\ SameIntent(c.req, req[r])
                                          /\ c.req.content = req[r].content
      BY DEF AcceptedIsRecorded
    <2>1. AnswerFits(answers[r][i], reply[r], req[r].route)
      BY AnswersFit
    <2>2. reply[r].code = "OK"
      <3>1. ASSUME NEW e \in Error PROVE Envelope(e).code # "OK"
        BY DEF Envelope, Error, ErrorCode
      <3> QED BY <2>1, <3>1 DEF AnswerFits
    <2> QED BY <2>2 DEF Inv, ReplyRecorded
  <1> QED BY <1>1, InvHolds, PTL

\* A client is told not to retry only when nothing happened and nothing is
\* under way, or when the effect is called uncertain: a wait that ended
\* without an answer never reads as a refusal (MapError, fromControl).
THEOREM RefusalsAreFinal == Spec => []RefusalIsFinal
  <1>1. Inv => RefusalIsFinal
    <2> SUFFICES ASSUME Inv, NEW r \in Requests, NEW i \in 1..Len(answers[r]),
                        answers[r][i].code \notin {"OK", "EFFECT_UNCERTAIN"},
                        ~answers[r][i].retryable
                 PROVE  ~reply[r].effect
      BY DEF RefusalIsFinal
    <2>1. PICK e \in Error : answers[r][i] = Envelope(e) /\ ErrorFits(e, reply[r])
      BY AnswersFit DEF AnswerFits
    <2>2. e.code # "EFFECT_UNCERTAIN" /\ ~e.retryable
      <3>1. e.retryable => e.status \in {429, 503}
        BY <2>1 DEF ErrorFits
      <3> QED BY <2>1, <3>1, PaceMatchesAdvice
    <2> QED BY <2>1, <2>2 DEF ErrorFits
  <1> QED BY <1>1, InvHolds, PTL

\* Advice to retry comes with a Retry-After and never answers an effect the
\* owner called uncertain, whichever gRPC code carried the word (MapError).
THEOREM RetryAdviceIsSound == Spec => []RetryAdvice
  <1>1. Inv => RetryAdvice
    <2> SUFFICES ASSUME Inv, NEW r \in Requests, NEW i \in 1..Len(answers[r])
                 PROVE  /\ answers[r][i].retryable <=> answers[r][i].retryAfter > 0
                        /\ reply[r].word = "EFFECT_UNCERTAIN" =>
                             answers[r][i] = [code |-> "EFFECT_UNCERTAIN", status |-> 409,
                                              retryable |-> FALSE, retryAfter |-> 0]
      BY DEF RetryAdvice
    <2> DEFINE a == answers[r][i]
    <2>1. CASE a.code = "OK" /\ reply[r].code = "OK" /\ ~a.retryable /\ a.retryAfter = 0
      <3>1. reply[r].word # "EFFECT_UNCERTAIN"
        BY <2>1, ReplyIsOwners DEF NoReply, ReplyFits
      <3>2. ~(a.retryAfter > 0)
        BY <2>1
      <3> QED BY <2>1, <3>1, <3>2
    <2>2. CASE \E e \in Error : a = Envelope(e) /\ ErrorFits(e, reply[r])
      <3>1. PICK e \in Error : a = Envelope(e) /\ ErrorFits(e, reply[r])
        BY <2>2
      <3>2. a.retryable <=> a.retryAfter > 0
        <4>1. e.retryable => e.status \in {429, 503}
          BY <3>1 DEF ErrorFits
        <4> QED BY <3>1, <4>1, PaceMatchesAdvice
      <3>3. ASSUME reply[r].word = "EFFECT_UNCERTAIN"
            PROVE  a = [code |-> "EFFECT_UNCERTAIN", status |-> 409,
                        retryable |-> FALSE, retryAfter |-> 0]
        <4>1. e = apiError("EFFECT_UNCERTAIN", 409, FALSE)
          BY <3>1, <3>3 DEF ErrorFits
        <4>2. e.code = "EFFECT_UNCERTAIN" /\ e.status = 409
          BY <4>1 DEF apiError
        <4>3. ~e.retryable /\ e.retryable \in BOOLEAN
          BY <4>1 DEF apiError
        <4>4. retryAfter(e) = 0
          BY <4>3 DEF retryAfter
        <4>5. e.retryable = FALSE
          BY <4>3
        <4>6. a = Envelope(e)
          BY <3>1
        <4> HIDE DEF a
        <4> QED BY <4>2, <4>4, <4>5, <4>6 DEF Envelope
      <3> QED BY <3>2, <3>3, Zenon
    <2> QED BY <2>1, <2>2, AnswersFit DEF AnswerFits
  <1> QED BY <1>1, InvHolds, PTL

\* A client told that its command id was used otherwise did use it otherwise:
\* the digest does not depend on how a body is formatted (CanonicalDigest).
THEOREM ConflictsAreReal == Spec => []ConflictIsReal
  <1>1. Inv => ConflictIsReal
    <2> SUFFICES ASSUME Inv, NEW r \in Requests, NEW i \in 1..Len(answers[r]),
                        answers[r][i].code = "IDEMPOTENCY_CONFLICT"
                 PROVE  \E c \in ledger : /\ SameIntent(c.req, req[r])
                                          /\ c.req.content # req[r].content
      BY DEF ConflictIsReal
    <2>1. PICK e \in Error : answers[r][i] = Envelope(e) /\ ErrorFits(e, reply[r])
      BY AnswersFit DEF AnswerFits
    <2>2. e.code = "IDEMPOTENCY_CONFLICT"
      BY <2>1 DEF Envelope
    <2>3. reply[r].word = "IDEMPOTENCY_CONFLICT"
      BY <2>1, <2>2 DEF ErrorFits
    <2> QED BY <2>3 DEF Inv, ReplyRecorded
  <1> QED BY <1>1, InvHolds, PTL

\* A request gets one response, whichever of its steps fails or panics, and
\* never an envelope after a body that was begun (errorEnvelope).
THEOREM ResponsesAreSingle == Spec => []OneAnswer
  <1>1. Inv => OneAnswer
    <2> SUFFICES ASSUME Inv, NEW r \in Requests
                 PROVE  Len(answers[r]) <= 1 /\ (pc[r] = "done" => Len(answers[r]) = 1)
      BY DEF OneAnswer
    <2>1. CASE answers[r] = <<>>
      <3>1. pc[r] # "done"
        BY <2>1 DEF Inv, Local
      <3> QED BY <2>1, <3>1
    <2>2. CASE answers[r] # <<>>
      <3>1. PICK a \in Answer : answers[r] = <<a>>
        BY <2>2 DEF Inv, Local
      <3> QED BY <3>1
    <2> QED BY <2>1, <2>2
  <1> QED BY <1>1, InvHolds, PTL

\* Of the answers to one recovery command at most one says 201.
THEOREM RecoveriesAreCreatedOnce == Spec => []CreatedOnce
  <1>1. Inv => CreatedOnce
    <2> SUFFICES ASSUME Inv, NEW r \in Requests, NEW s \in Requests, r # s,
                        answers[r] # <<>>, answers[s] # <<>>, SameIntent(req[r], req[s]),
                        req[r].route \in recoveryHandlers
                 PROVE  ~(answers[r][1].status = 201 /\ answers[s][1].status = 201)
      BY DEF CreatedOnce
    <2>1. ASSUME NEW q \in Requests, answers[q] # <<>>, answers[q][1].status = 201,
                 req[q].route \in recoveryHandlers
          PROVE  reply[q].word = "new"
      <3>1. PICK a \in Answer : answers[q] = <<a>> /\ AnswerFits(a, reply[q], req[q].route)
        BY <2>1 DEF Inv, Local
      <3>2. a.status = 201
        BY <2>1, <3>1
      <3>3. ASSUME NEW e \in Error, ErrorFits(e, reply[q]) PROVE Envelope(e).status # 201
        BY <3>3 DEF Envelope, ErrorFits
      <3> QED BY <2>1, <3>1, <3>2, <3>3 DEF AnswerFits
    <2> QED BY <2>1 DEF Inv, NewOnce, SameIntent
  <1> QED BY <1>1, InvHolds, PTL
=============================================================================
