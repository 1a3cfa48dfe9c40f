--------------------------- MODULE CommandGateway ---------------------------
(***************************************************************************)
(* A command on its way through the API: the middleware chain, the error   *)
(* envelope, the strict handlers, the gateway adapters and their error     *)
(* mapping, against owners that execute late, answer late or not at all,   *)
(* and clients that repeat what they were not told the end of.             *)
(*   src/internal/transport/http/server.go      chain, envelope            *)
(*   src/internal/transport/http/handlers.go    identity, handlers         *)
(*   src/internal/adapters/control/client.go    boundRPCWait               *)
(*   src/internal/application/principal.go      CanonicalDigest            *)
(* The owners (Control, Knowledge, MCP) are outside src/; they keep one    *)
(* record per route, tenant and command id and compare its request digest. *)
(* How their statuses become public errors is in ErrorMapping.             *)
(***************************************************************************)
EXTENDS ErrorMapping, Integers, Sequences, FiniteSets

CONSTANTS Requests,   \* slots for concurrent HTTP requests
          Tenants,    \* a token that verifies names its principal's tenant
          Commands,   \* command ids clients choose
          Contents,   \* bodies the contract accepts, up to formatting
          Faults,     \* bodies the contract does not accept
          Forms,      \* ways to format one body
          Routes,     \* the command routes in play
          Placed      \* owners that have an address

\* The command handlers and the status each answers a success with; every
\* one takes its identity, makes one owner call and returns its error or
\* its result. The two recovery handlers have two statuses each.
operationHandlers   == [CreateOperation |-> 202, SubmitCommand |-> 202]
preparationHandlers == [CreatePreparation |-> 202, SubmitAnswer |-> 202]
transferHandlers    == [BeginTransfer |-> 201, FinalizeTransfer |-> 200]
sourceHandlers      == [RegisterSource |-> 202, DeleteSource |-> 200, ReplaceSourceAccess |-> 200]
snapshotHandlers    == [BeginSourceUpload |-> 201, CreateSnapshot |-> 201]
memoryHandlers      == [ProposeMemory |-> 201, DecideMemory |-> 200]
serverHandlers      == [DiscoverServer |-> 201, ReviewDescriptor |-> 200]
grantHandlers       == [CreateGrant |-> 201]
toolHandlers        == [RevokeGrant |-> 202, CreateToolCall |-> 202]
recoveryHandlers    == {"BeginRecovery", "DisposeObligation"}

control   == {operationHandlers, preparationHandlers, transferHandlers}
knowledge == {sourceHandlers, snapshotHandlers, memoryHandlers}
mcp       == {serverHandlers, grantHandlers, toolHandlers}

CommandsOf(tables) == UNION {DOMAIN t : t \in tables}

StatusOf(route) ==
    LET t == CHOOSE t \in control \cup knowledge \cup mcp : route \in DOMAIN t IN t[route]

\* The gateway a handler calls.
owner(route) ==
    IF route \in CommandsOf(knowledge) THEN "knowledge"
    ELSE IF route \in CommandsOf(mcp) THEN "mcp" ELSE "control"

ASSUME GatewayAssumption ==
    /\ Routes \subseteq CommandsOf(control \cup knowledge \cup mcp) \cup recoveryHandlers
    /\ {"control"} \subseteq Placed /\ Placed \subseteq {"control", "knowledge", "mcp"}
    /\ Tenants \cap {"refused"} = {}
    /\ Faults \subseteq {"empty", "malformed", "offContract"}
    /\ Contents \cap {"empty", "malformed", "offContract", "none"} = {}

VARIABLES
    pc,       \* where the request is in the chain
    req,      \* what the client sent
    digest,   \* the context value ctxDigest
    err,      \* the first error recorded on the Gin context
    answers,  \* the responses written, in order
    reply,    \* what the owner call gave the handler
    late,     \* calls nobody waits for that may still reach their owner
    ledger    \* what took effect at the owners

vars == <<pc, req, digest, err, answers, reply, late, ledger>>

Body  == Contents \cup Faults
Token == Tenants \cup {"refused"}

Request == [route : Routes, token : Token, cmd : Commands, content : Body, form : Forms]

NoRequest == [route |-> "none"]

\* An owner's answer: its status, and (for the properties only) whether the
\* call may have had an effect.
Reply  == [code : GrpcCode, word : Word, effect : BOOLEAN]
NoReply == [code |-> "none", word |-> "none", effect |-> FALSE]

Answer  == [code : ErrorCode \cup {"OK"}, status : Nat, retryable : BOOLEAN, retryAfter : Nat]
Error   == [code : ErrorCode, status : Nat, retryable : BOOLEAN]
NoError == [code |-> "none", status |-> 0, retryable |-> FALSE]

PC == {"idle", "authenticate", "strictBody", "validate", "handler", "call",
       "respond", "unwind", "done"}

\* The digest of a body's bytes; "canonical" is the form json.Marshal gives.
Digest   == [content : Body, form : Forms \cup {"canonical"}]
NoDigest == [content |-> "none", form |-> "canonical"]

TypeOK ==
    /\ pc \in [Requests -> PC]
    /\ req \in [Requests -> Request \cup {NoRequest}]
    /\ \A r \in Requests : pc[r] # "idle" => req[r] \in Request
    /\ digest \in [Requests -> Digest \cup {NoDigest}]
    /\ err \in [Requests -> Error \cup {NoError}]
    /\ answers \in [Requests -> Seq(Answer)]
    /\ reply \in [Requests -> Reply \cup {NoReply}]
    /\ \A c \in late \cup ledger : c.req \in Request

Init ==
    /\ pc = [r \in Requests |-> "idle"]
    /\ req = [r \in Requests |-> NoRequest]
    /\ digest = [r \in Requests |-> NoDigest]
    /\ err = [r \in Requests |-> NoError]
    /\ answers = [r \in Requests |-> <<>>]
    /\ reply = [r \in Requests |-> NoReply]
    /\ late = {}
    /\ ledger = {}

At(r, where)   == pc[r] = where
Goto(r, where) == pc' = [pc EXCEPT ![r] = where]
----------------------------------------------------------------------------
(* Errors: recorded once on the context, rendered by the envelope.         *)

\* Records the error (the envelope renders the first) and ends the chain.
fail(r, e) ==
    /\ err' = [err EXCEPT ![r] = IF @ = NoError THEN e ELSE @]
    /\ Goto(r, "unwind")

\* Seconds of Retry-After, 0 when the header is not set.
retryAfter(e) ==
    IF e.retryable /\ e.status \in {429, 503}
      THEN IF e.code = "CAPACITY_EXHAUSTED" THEN 5 ELSE 2
      ELSE 0
----------------------------------------------------------------------------
(* The chain up to the handler.                                            *)

Receive(r) ==
    /\ At(r, "idle")
    /\ \E q \in Request : req' = [req EXCEPT ![r] = q]
    /\ Goto(r, "authenticate")
    /\ UNCHANGED <<digest, err, answers, reply, late, ledger>>

authenticate(r) ==
    /\ At(r, "authenticate")
    /\ \/ /\ req[r].token = "refused"
          /\ fail(r, apiError("UNAUTHENTICATED", 401, FALSE))
       \/ /\ req[r].token # "refused"
          /\ Goto(r, "strictBody")
          /\ UNCHANGED err
    /\ UNCHANGED <<req, digest, answers, reply, late, ledger>>

CanonicalDigest_RawBytes(content, form) ==   \* mutant: hashes the bytes as they came
    [content |-> content, form |-> form]

\* Decoding and marshalling again sorts members and drops whitespace, so a
\* repeated body has one digest however it is formatted. Number literals are
\* kept as they were written: 1 and 1.0 are different contents.
CanonicalDigest(content, form) == [content |-> content, form |-> "canonical"]

\* A body of length 0 is left to the validator and has no digest; any other
\* may also be over the bound, or end before it was read.
strictBody(r) ==
    /\ At(r, "strictBody")
    /\ \/ /\ req[r].content # "empty"
          /\ fail(r, invalidArgument)
          /\ UNCHANGED digest
       \/ /\ req[r].content = "empty"
          /\ Goto(r, "validate")
          /\ UNCHANGED <<digest, err>>
       \/ /\ req[r].content \notin {"malformed", "empty"}
          /\ digest' = [digest EXCEPT ![r] = CanonicalDigest(req[r].content, req[r].form)]
          /\ Goto(r, "validate")
          /\ UNCHANGED err
    /\ UNCHANGED <<req, answers, reply, late, ledger>>

\* What the contract rejects, the strict handler's own binding included.
requestValidator(r) ==
    /\ At(r, "validate")
    /\ \/ /\ req[r].content \notin Contents
          /\ fail(r, invalidArgument)
       \/ /\ req[r].content \in Contents
          /\ Goto(r, "handler")
          /\ UNCHANGED err
    /\ UNCHANGED <<req, digest, answers, reply, late, ledger>>
----------------------------------------------------------------------------
(* The handler and its owner call.                                         *)

identity_PerRequest(r) ==   \* mutant: the request's own id names the command
    [tenant |-> req[r].token, cmd |-> r, digest |-> digest[r]]

\* The command identity: the principal's tenant, the client's command id and
\* the canonical digest of the body. The actor goes along and identifies nothing.
identity(r) == [tenant |-> req[r].token, cmd |-> req[r].cmd, digest |-> digest[r]]

CallOf(r) == [req |-> req[r], id |-> identity(r)]

\* The gateway of an owner that has no placement.
Unavailable(r) ==
    /\ At(r, "handler")
    /\ owner(req[r].route) \notin Placed
    /\ fail(r, fromControl(ControlError("DEPENDENCY_UNAVAILABLE", FALSE)))
    /\ UNCHANGED <<req, digest, answers, reply, late, ledger>>

\* CreateToolCall refuses an argument object over its bound before the call.
ArgumentsRefused(r) ==
    /\ At(r, "handler")
    /\ req[r].route = "CreateToolCall" /\ owner(req[r].route) \in Placed
    /\ fail(r, fromControl(ControlError("INVALID_ARGUMENT", FALSE)))
    /\ UNCHANGED <<req, digest, answers, reply, late, ledger>>

CallOwner(r) ==
    /\ At(r, "handler")
    /\ owner(req[r].route) \in Placed
    /\ Goto(r, "call")
    /\ UNCHANGED <<req, digest, err, answers, reply, late, ledger>>

CallEnds_Unbounded(r) ==   \* mutant: no bound on the wait
    /\ At(r, "call")
    /\ reply[r] # NoReply
    /\ reply' = [reply EXCEPT ![r] = [code |-> "DeadlineExceeded", word |-> "other", effect |-> TRUE]]
    /\ fail(r, unavailable)
    /\ UNCHANGED <<req, digest, answers, late, ledger>>

\* The wait is over (15s or the gateway's timeout, the client gone, the
\* connection lost or closed). No business cancellation is sent: a call that
\* the owner has not executed may still be, an answer under way is lost.
CallEnds(r) ==
    /\ At(r, "call")
    /\ late' = IF reply[r] = NoReply THEN late \cup {CallOf(r)} ELSE late
    /\ \E code \in {"DeadlineExceeded", "Canceled", "Unavailable"} :
         LET status == [code |-> code, word |-> "other", effect |-> TRUE] IN
         /\ reply' = [reply EXCEPT ![r] = status]
         /\ fail(r, fromControl(MapError(status)))
    /\ UNCHANGED <<req, digest, answers, ledger>>

\* The owner's answer arrives: the handler maps it to a response or an error.
CallReturns(r) ==
    /\ At(r, "call")
    /\ reply[r] # NoReply
    /\ \/ /\ reply[r].code = "OK"
          /\ Goto(r, "respond")
          /\ UNCHANGED err
       \/ /\ reply[r].code # "OK"
          /\ fail(r, fromControl(MapError(reply[r])))
    /\ UNCHANGED <<req, digest, answers, reply, late, ledger>>
----------------------------------------------------------------------------
(* The response, the recovery of panics and the error envelope.            *)

successStatus_Always201(r) ==   \* mutant: the recovery handlers ignore existing
    IF req[r].route \in recoveryHandlers THEN 201
    ELSE StatusOf(req[r].route)

\* A recovery command the owner had already applied is 200, a new one 201.
successStatus(r) ==
    IF req[r].route \notin recoveryHandlers THEN StatusOf(req[r].route)
    ELSE IF reply[r].word = "existing" THEN 200 ELSE 201

Accepted(r) ==
    [code |-> "OK", status |-> successStatus(r), retryable |-> FALSE, retryAfter |-> 0]

Respond(r) ==
    /\ At(r, "respond")
    /\ answers' = [answers EXCEPT ![r] = Append(@, Accepted(r))]
    /\ Goto(r, "unwind")
    /\ UNCHANGED <<req, digest, err, reply, late, ledger>>

\* Encoding or writing the response fails, before or after its first byte.
RespondFails(r) ==
    /\ At(r, "respond")
    /\ \E began \in BOOLEAN :
         answers' = [answers EXCEPT ![r] = IF began THEN Append(@, Accepted(r)) ELSE @]
    /\ fail(r, unavailable)
    /\ UNCHANGED <<req, digest, reply, late, ledger>>

\* A panic of the API's own code, anywhere below the recovery, becomes an error
\* like any other. While the call is out it is gRPC's code that runs.
Panics(r) ==
    /\ pc[r] \in {"authenticate", "strictBody", "validate", "handler", "respond"}
    /\ fail(r, unavailable)
    /\ UNCHANGED <<req, digest, answers, reply, late, ledger>>

Envelope(e) ==
    [code |-> e.code, status |-> e.status, retryable |-> e.retryable,
     retryAfter |-> retryAfter(e)]

errorEnvelope_AfterBody(r) ==   \* mutant: the Written() test is missing
    /\ At(r, "unwind")
    /\ answers' = [answers EXCEPT ![r] =
                     IF err[r] = NoError THEN @ ELSE Append(@, Envelope(err[r]))]
    /\ Goto(r, "done")
    /\ UNCHANGED <<req, digest, err, reply, late, ledger>>

\* The first recorded error, unless a response was begun.
errorEnvelope(r) ==
    /\ At(r, "unwind")
    /\ answers' = [answers EXCEPT ![r] =
                     IF @ # <<>> \/ err[r] = NoError THEN @ ELSE Append(@, Envelope(err[r]))]
    /\ Goto(r, "done")
    /\ UNCHANGED <<req, digest, err, reply, late, ledger>>

\* The request is over and the slot takes another one, a retry for instance.
Finish(r) ==
    /\ At(r, "done")
    /\ Goto(r, "idle")
    /\ req' = [req EXCEPT ![r] = NoRequest]
    /\ digest' = [digest EXCEPT ![r] = NoDigest]
    /\ err' = [err EXCEPT ![r] = NoError]
    /\ answers' = [answers EXCEPT ![r] = <<>>]
    /\ reply' = [reply EXCEPT ![r] = NoReply]
    /\ UNCHANGED <<late, ledger>>
----------------------------------------------------------------------------
(* The owners. A command is known by its route, tenant and command id.     *)

SameCommand(c, d) ==
    c.req.route = d.req.route /\ c.id.tenant = d.id.tenant /\ c.id.cmd = d.id.cmd

Recorded(c) == {d \in ledger : SameCommand(c, d)}

Replies(r, code, word, effect) ==
    reply' = [reply EXCEPT ![r] = [code |-> code, word |-> word, effect |-> effect]]

\* The owner executes a call the API still waits for.
OwnerAccepts(r) ==
    /\ At(r, "call") /\ reply[r] = NoReply
    /\ LET c == CallOf(r) IN
       \/ /\ Recorded(c) = {}
          /\ ledger' = ledger \cup {c}
          /\ Replies(r, "OK", "new", TRUE)
       \/ /\ \E d \in Recorded(c) : d.id.digest = c.id.digest
          /\ Replies(r, "OK", "existing", FALSE)
          /\ UNCHANGED ledger
       \/ /\ \E d \in Recorded(c) : d.id.digest # c.id.digest
          /\ Replies(r, "AlreadyExists", "IDEMPOTENCY_CONFLICT", FALSE)
          /\ UNCHANGED ledger
    /\ UNCHANGED <<pc, req, digest, err, answers, late>>

\* The owner refuses before anything happened.
Refusals ==
    {<<"NotFound", "other">>, <<"InvalidArgument", "other">>, <<"PermissionDenied", "other">>,
     <<"Unauthenticated", "other">>, <<"Aborted", "STALE_EXECUTION">>,
     <<"FailedPrecondition", "REVISION_CONFLICT">>, <<"FailedPrecondition", "BUDGET_EXHAUSTED">>,
     <<"FailedPrecondition", "PROFILE_UNQUALIFIED">>, <<"FailedPrecondition", "other">>,
     <<"ResourceExhausted", "CAPACITY_EXHAUSTED">>}

OwnerRefuses(r) ==
    /\ At(r, "call") /\ reply[r] = NoReply
    /\ \E s \in Refusals : Replies(r, s[1], s[2], FALSE)
    /\ UNCHANGED <<pc, req, digest, err, answers, late, ledger>>

\* The owner fails, or says that the effect is uncertain: it may be recorded.
Failures ==
    {<<"Unavailable", "EFFECT_UNCERTAIN">>, <<"FailedPrecondition", "EFFECT_UNCERTAIN">>,
     <<"Unavailable", "other">>, <<"Internal", "other">>}

OwnerFails(r) ==
    /\ At(r, "call") /\ reply[r] = NoReply
    /\ \E s \in Failures : Replies(r, s[1], s[2], TRUE)
    /\ \/ UNCHANGED ledger
       \/ Recorded(CallOf(r)) = {} /\ ledger' = ledger \cup {CallOf(r)}
    /\ UNCHANGED <<pc, req, digest, err, answers, late>>

\* A call nobody waits for is executed, refused or lost.
LateCall ==
    /\ \E c \in late :
         /\ late' = late \ {c}
         /\ \/ UNCHANGED ledger
            \/ Recorded(c) = {} /\ ledger' = ledger \cup {c}
    /\ UNCHANGED <<pc, req, digest, err, answers, reply>>
----------------------------------------------------------------------------
\* The steps of the API's own goroutine for a request.
Serve(r) ==
    \/ authenticate(r) \/ strictBody(r) \/ requestValidator(r)
    \/ Unavailable(r) \/ ArgumentsRefused(r) \/ CallOwner(r)
    \/ CallEnds(r) \/ CallReturns(r)
    \/ Respond(r) \/ RespondFails(r) \/ Panics(r) \/ errorEnvelope(r)

Owner(r) == OwnerAccepts(r) \/ OwnerRefuses(r) \/ OwnerFails(r)

Next ==
    \/ \E r \in Requests : Receive(r) \/ Serve(r) \/ Owner(r) \/ Finish(r)
    \/ LateCall

Spec == Init /\ [][Next]_vars

\* The body is read until its end and nothing bounds that (ReadHeaderTimeout
\* is over by then): a client that stalls in the middle keeps the read waiting.
BodyUnderWay(r) == At(r, "strictBody") /\ req[r].content # "empty"

\* The goroutine of a request runs, but for the read of a body, and the wait
\* for an owner ends at its bound; nothing is assumed of owners or clients.
FairSpec == Spec /\ \A r \in Requests : WF_vars(~BodyUnderWay(r) /\ Serve(r))
----------------------------------------------------------------------------
(* Properties                                                              *)

\* What a client means by a command: its route, tenant and command id.
SameIntent(q, s) == q.route = s.route /\ q.token = s.token /\ q.cmd = s.cmd

\* A command takes effect at most once, however often its request is
\* repeated, reformatted, timed out at the API or executed after the API
\* gave up on it (boundRPCWait, identity).
OneEffect ==
    \A c, d \in ledger : SameIntent(c.req, d.req) => c = d

\* An answer of success is true: the owner recorded this very body under the
\* command, never another body that used the same command id.
AcceptedIsRecorded ==
    \A r \in Requests : \A i \in 1..Len(answers[r]) :
      answers[r][i].code = "OK" =>
        \E c \in ledger : SameIntent(c.req, req[r]) /\ c.req.content = req[r].content

\* A refusal that tells the client not to retry is final: but for an effect
\* reported as uncertain, the request has had no effect and no call of it is
\* under way (MapError, fromControl).
RefusalIsFinal ==
    \A r \in Requests : \A i \in 1..Len(answers[r]) :
      LET a == answers[r][i] IN
      a.code \notin {"OK", "EFFECT_UNCERTAIN"} /\ ~a.retryable => ~reply[r].effect

\* Advice to retry comes with a pace, and never answers an effect the owner
\* called uncertain (RB-A24), whichever gRPC code carried it.
RetryAdvice ==
    \A r \in Requests : \A i \in 1..Len(answers[r]) :
      LET a == answers[r][i] IN
      /\ a.retryable <=> a.retryAfter > 0
      /\ reply[r].word = "EFFECT_UNCERTAIN" =>
           a = [code |-> "EFFECT_UNCERTAIN", status |-> 409, retryable |-> FALSE, retryAfter |-> 0]

\* A client that repeats its body, formatted in any way, is never told that
\* the command id was used for something else (CanonicalDigest).
ConflictIsReal ==
    \A r \in Requests : \A i \in 1..Len(answers[r]) :
      answers[r][i].code = "IDEMPOTENCY_CONFLICT" =>
        \E c \in ledger : SameIntent(c.req, req[r]) /\ c.req.content # req[r].content

\* A request has one response: a body or an envelope, never an envelope
\* after a body that was begun, never neither.
OneAnswer ==
    \A r \in Requests : /\ Len(answers[r]) <= 1
                        /\ pc[r] = "done" => Len(answers[r]) = 1

\* Of the answers to one recovery command at most one says 201.
CreatedOnce ==
    \A r, s \in Requests :
      /\ r # s /\ answers[r] # <<>> /\ answers[s] # <<>> /\ SameIntent(req[r], req[s])
      /\ req[r].route \in recoveryHandlers
      => ~(answers[r][1].status = 201 /\ answers[s][1].status = 201)

\* Every request is answered, even when its owner never answers; the one
\* exception is a client that never finishes sending its body, for which the
\* server has no timeout.
EveryRequestAnswered ==
    \A r \in Requests :
      pc[r] = "authenticate" ~> \/ pc[r] = "done" /\ answers[r] # <<>>
                               \/ []BodyUnderWay(r)
----------------------------------------------------------------------------
(* The promise to the clients, IdempotentCommands, and how it is kept.     *)

AskOf(q) == [name |-> <<q.route, q.token, q.cmd>>, content |-> q.content]

Verdict(s) ==
    IF s = <<>> THEN "nothing"
    ELSE CASE s[Len(s)].code = "OK"                   -> "success"
           [] s[Len(s)].code = "IDEMPOTENCY_CONFLICT" -> "conflict"
           [] OTHER                                   -> "failed"

\* Requests whose call the owner has not answered yet.
Unresolved ==
    {r \in Requests : /\ pc[r] \in {"authenticate", "strictBody", "validate", "handler", "call"}
                      /\ reply[r] = NoReply}

Promise == INSTANCE IdempotentCommands WITH
    Slots  <- Requests,
    Asks   <- {AskOf(q) : q \in Request},
    asked  <- [r \in Requests |-> IF pc[r] = "idle" THEN {} ELSE {AskOf(req[r])}],
    told   <- [r \in Requests |-> Verdict(answers[r])],
    open   <- {AskOf(req[r]) : r \in Unresolved} \cup {AskOf(c.req) : c \in late},
    record <- {AskOf(c.req) : c \in ledger}

\* The gateway with its owners keeps the promise of IdempotentCommands: what
\* takes effect was asked, takes effect once with one content, and each
\* client is told once, truthfully at that moment, whatever is late or lost.
PromiseKept == Promise!Spec
=============================================================================
