------------------------ MODULE ArtifactRead_proofs ------------------------
(***************************************************************************)
(* Proofs about ArtifactRead, for any number of reads, operations, tokens  *)
(* and records. The invariant says what each read has established when it  *)
(* gets to a step; the environment moves only one way under it: the clock  *)
(* and the revocations grow, an activated release does not change.         *)
(***************************************************************************)
EXTENDS ArtifactRead, TLAPS

\* The functions of the readers, whatever their values.
Shape ==
    /\ entitled = [r \in Readers |-> entitled[r]]
    /\ principal = [r \in Readers |-> principal[r]]
    /\ body = [r \in Readers |-> body[r]]
    /\ answer = [r \in Readers |-> answer[r]]

Bytes(r) == req[r].kind \in {"artifact", "source"}

\* A read in flight has a request, and what the history says of its arrival
\* can only have become worse since.
Arrived(r) == pc[r] # "idle" =>
    /\ req[r] \in AllRequests
    /\ ~entitled[r].fresh => ~NotExpired(req[r].token)
    /\ ~entitled[r].granted => <<req[r].token.actor, req[r].op>> \in revoked

\* Before the answer neither the store nor a failed call has been heard.
Silent(r) == pc[r] # "done" => said[r] = NoStatus /\ body[r] = NoBody

\* Past the verifier.
Passed(r) == pc[r] \in {"validate", "authorize", "lookup", "capability", "fetch"} \/ Done(r, "OK") =>
    /\ principal[r] = Principal(req[r].token)
    /\ entitled[r].fresh
    /\ mode = "oidc" => req[r].token.project # Unset

\* Past the scoped read.
Allowed(r) == pc[r] \in {"lookup", "capability", "fetch"} \/ Done(r, "OK") =>
    /\ entitled[r].granted
    /\ req[r].token.tenant = Scope[req[r].op].tenant
    /\ mode = "oidc" => req[r].token.project = Scope[req[r].op].project

\* Past the record.
Referred(r) == pc[r] \in {"capability", "fetch"} \/ (Done(r, "OK") /\ Bytes(r)) =>
    /\ Bytes(r)
    /\ ref[r] \in Fetchable
    /\ req[r].kind = "artifact" => /\ ref[r].digest = req[r].digest
                                   /\ ref[r].size <= maxPreviewArtifact

\* Answered.
Compared(r) ==
    /\ Done(r, "OK") /\ Bytes(r) =>
         answer[r].data.sum = ref[r].digest /\ answer[r].data.len = ref[r].size
    /\ pc[r] = "done" =>
         (answer[r].code = "EFFECT_UNCERTAIN" <=>
            Differs(r) \/ said[r].word = "EFFECT_UNCERTAIN")

Locked(r) == Done(r, "OK") /\ req[r].kind = "release" /\ answer[r].data.lock # Unset =>
    /\ release[req[r].op].state = "activated"
    /\ release[req[r].op].manifest = answer[r].data.lock

RInv(r) ==
    /\ Arrived(r) /\ Silent(r) /\ Passed(r) /\ Allowed(r) /\ Referred(r)
    /\ Compared(r) /\ Locked(r)

\* The inductive invariant.
IInv == TypeOK /\ Shape /\ \A r \in Readers : RInv(r)

\* What every step leaves of the environment.
Onward ==
    /\ mode' = mode /\ now' >= now /\ revoked \subseteq revoked'
    /\ \A o \in Ops : release[o].state = "activated" => release'[o] = release[o]

\* What a step leaves of a read that is not its own.
Same(r) ==
    /\ pc'[r] = pc[r] /\ req'[r] = req[r] /\ entitled'[r] = entitled[r]
    /\ principal'[r] = principal[r] /\ ref'[r] = ref[r] /\ body'[r] = body[r]
    /\ said'[r] = said[r] /\ answer'[r] = answer[r]

\* Only the reader r moves.
Only(r) == Onward /\ \A s \in Readers \ {r} : Same(s)
----------------------------------------------------------------------------
\* A request names an operation and carries a token.
LEMMA RequestType ==
    ASSUME NEW q \in AllRequests
    PROVE  q.kind \in Kinds /\ q.op \in Ops /\ q.token \in Token
BY ReadAssumption DEF AllRequests

\* A token that has expired stays expired.
LEMMA ExpiredStays ==
    ASSUME TypeOK, TypeOK', Onward, NEW t \in Token, ~NotExpired(t)
    PROVE  ~NotExpired(t)'
<1>1. now \in Int /\ now' \in Int /\ Skew \in Int
  BY ReadAssumption DEF TypeOK
<1>2. t.exp # Unset => t.exp \in Int
  BY DEF Token
<1> QED
  BY <1>1, <1>2 DEF NotExpired, Onward

\* A read that did not move keeps its invariant while the environment goes on.
LEMMA Carries ==
    ASSUME TypeOK, TypeOK', Onward, NEW r \in Readers, RInv(r), Same(r)
    PROVE  RInv(r)'
<1>1. Arrived(r)'
  <2> SUFFICES ASSUME pc[r] # "idle" PROVE Arrived(r)'
    BY DEF Arrived, Same
  <2>1. req[r] \in AllRequests /\ req'[r] = req[r]
    BY DEF RInv, Arrived, Same
  <2>2. ~entitled[r].fresh => ~NotExpired(req[r].token)'
    BY <2>1, ExpiredStays, RequestType DEF RInv, Arrived
  <2> QED
    BY <2>1, <2>2 DEF RInv, Arrived, Same, Onward, NotExpired
<1>2. Silent(r)' /\ Passed(r)' /\ Allowed(r)' /\ Referred(r)' /\ Compared(r)'
  BY DEF RInv, Silent, Passed, Allowed, Referred, Compared, Differs, Done, Same, Onward,
         Principal, Bytes
<1>3. Locked(r)'
  <2> SUFFICES ASSUME Done(r, "OK"), req[r].kind = "release", answer[r].data.lock # Unset
               PROVE  release'[req[r].op] = release[req[r].op]
    BY DEF RInv, Locked, Done, Same
  <2>1. req[r].op \in Ops
    BY RequestType DEF RInv, Arrived, Done
  <2> QED
    BY <2>1 DEF RInv, Locked, Onward
<1> QED
  BY <1>1, <1>2, <1>3 DEF RInv

\* An environment that does not move goes on.
LEMMA StandsStill ==
    ASSUME TypeOK, UNCHANGED envVars
    PROVE  Onward
BY ReadAssumption DEF TypeOK, envVars, Onward

\* It is enough to look at the types and at the read that moved.
LEMMA Mover ==
    ASSUME IInv, NEW r \in Readers, TypeOK', Shape', Only(r), RInv(r)'
    PROVE  IInv'
BY Carries DEF IInv, Only

\* A refusal keeps the invariant, wherever the read was.
LEMMA RefusedKeeps ==
    ASSUME NEW r \in Readers, Arrived(r)', pc'[r] = "done",
           said'[r] = NoStatus, body'[r] = NoBody,
           answer'[r].code \notin {"OK", "EFFECT_UNCERTAIN"}
    PROVE  RInv(r)'
<1>1. said'[r].word # "EFFECT_UNCERTAIN" /\ body'[r].status # "ok"
  BY DEF NoStatus, NoBody
<1> QED
  BY <1>1 DEF RInv, Silent, Passed, Allowed, Referred, Compared, Differs, Locked, Done

\* Whatever only refuses keeps the invariant.
LEMMA RefusalKeeps ==
    ASSUME IInv, NEW r \in Readers, NEW a, a.code \notin {"OK", "EFFECT_UNCERTAIN"},
           pc[r] \notin {"idle", "done"}, Answers(r, a),
           UNCHANGED <<envVars, req, entitled, principal, ref, said, body>>
    PROVE  IInv'
<1>1. TypeOK'
  BY DEF IInv, TypeOK, envVars, Goto, PC, Answers
<1>2. Shape'
  BY DEF IInv, Shape, Answers
<1>3. Only(r)
  BY DEF IInv, TypeOK, Shape, Only, Onward, Same, envVars, Goto, Answers
<1>4. Arrived(r)'
  BY DEF IInv, RInv, Arrived, envVars, NotExpired
<1>5. pc'[r] = "done" /\ answer'[r] = a
  BY DEF IInv, TypeOK, Shape, Goto, Answers
<1>6. said'[r] = NoStatus /\ body'[r] = NoBody
  BY DEF IInv, RInv, Silent
<1> QED
  BY <1>1, <1>2, <1>3, <1>4, <1>5, <1>6, RefusedKeeps, Mover

\* The initial states.
LEMMA InitHolds == Init => IInv
<1> SUFFICES ASSUME Init PROVE IInv
  OBVIOUS
<1>1. TypeOK
  <2>1. now \in 0..MaxTime
    BY ReadAssumption DEF Init
  <2>2. release \in [Ops -> Release]
    BY DEF Init, Release
  <2>3. preview \in [Ops -> Seq(Reference)]
    BY ReadAssumption DEF Init
  <2> QED
    BY <2>1, <2>2, <2>3 DEF Init, TypeOK, PC
<1>2. Shape /\ \A r \in Readers : RInv(r)
  BY DEF Init, Shape, RInv, Arrived, Silent, Passed, Allowed, Referred, Compared, Locked, Done, NoAnswer
<1> QED
  BY <1>1, <1>2 DEF IInv
----------------------------------------------------------------------------
\* A request arrives.
LEMMA RequestKeeps ==
    ASSUME IInv, NEW r \in Readers, NEW q \in Requests[r], Request(r, q)
    PROVE  IInv'
<1>1. TypeOK'
  BY DEF IInv, TypeOK, Request, envVars, Goto, PC, AllRequests
<1>2. Shape'
  BY DEF IInv, Shape, Request
<1>3. Only(r)
  BY DEF IInv, TypeOK, Shape, Request, Only, Onward, Same, envVars, Goto
<1>4. RInv(r)'
  <2>1. pc'[r] = "authenticate" /\ req'[r] = q /\ q \in AllRequests
    BY DEF IInv, TypeOK, Request, Goto, AllRequests
  <2>2. entitled'[r] = [fresh |-> NotExpired(q.token),
                        granted |-> NotRevoked(q.token.actor, q.op)]
    BY DEF IInv, Shape, Request
  <2>3. NotExpired(q.token)' <=> NotExpired(q.token)
    BY DEF Request, envVars, NotExpired
  <2>4. entitled'[r].fresh <=> NotExpired(q.token)
    BY <2>2
  <2>5. entitled'[r].granted <=> NotRevoked(q.token.actor, q.op)
    BY <2>2
  <2>6. Arrived(r)'
    BY <2>1, <2>3, <2>4, <2>5 DEF Arrived, Request, envVars, NotRevoked
  <2>7. Silent(r)'
    BY DEF IInv, RInv, Silent, Request
  <2> QED
    BY <2>1, <2>6, <2>7 DEF RInv, Passed, Allowed, Referred, Compared, Locked, Done
<1> QED
  BY <1>1, <1>2, <1>3, <1>4, Mover

\* A token the verifier accepts was not expired.
LEMMA VerifiedIsFresh ==
    ASSUME TypeOK, NEW t, Verified(t, now)
    PROVE  NotExpired(t) /\ (mode = "oidc" => t.project # Unset)
BY DEF Verified, Fresh, ClaimsRead, NotExpired

\* The read is authenticated or refused.
LEMMA AuthenticateKeeps ==
    ASSUME IInv, NEW r \in Readers, Authenticate(r)
    PROVE  IInv'
<1>1. TypeOK'
  BY DEF IInv, TypeOK, Authenticate, envVars, Goto, PC, Answers
<1>2. Shape'
  BY DEF IInv, Shape, Authenticate, Answers
<1>3. Only(r)
  <2>1. Onward
    BY StandsStill DEF IInv, Authenticate
  <2>2. ASSUME NEW s \in Readers \ {r} PROVE Same(s)
    BY DEF IInv, TypeOK, Shape, Authenticate, Same, Goto, Answers
  <2> QED
    BY <2>1, <2>2 DEF Only
<1>4. RInv(r)'
  <2>1. req'[r] = req[r] /\ entitled'[r] = entitled[r]
    BY DEF Authenticate
  <2>2. Arrived(r)'
    BY <2>1 DEF IInv, RInv, Arrived, Authenticate, envVars, NotExpired
  <2>5. UNCHANGED <<said, body>> /\ said[r] = NoStatus /\ body[r] = NoBody
    BY DEF IInv, RInv, Silent, Authenticate
  <2>3. CASE Verified(req[r].token, now) /\ pc'[r] = "validate"
    <3>1. principal'[r] = Principal(req[r].token)
      BY <2>3 DEF IInv, TypeOK, Shape, Authenticate, Goto, Answers
    <3>2. Passed(r)'
      BY <2>1, <2>3, <3>1, VerifiedIsFresh
      DEF IInv, RInv, Arrived, Authenticate, envVars, Passed, Principal
    <3> QED
      BY <2>2, <2>3, <2>5, <3>2 DEF RInv, Silent, Allowed, Referred, Compared, Locked, Done
  <2>4. CASE pc'[r] = "done" /\ answer'[r] = Refusal("UNAUTHENTICATED", FALSE)
    BY <2>2, <2>4, <2>5, RefusedKeeps DEF Refusal
  <2> QED
    BY <2>3, <2>4 DEF IInv, TypeOK, Shape, Authenticate, Goto, Answers
<1> QED
  BY <1>1, <1>2, <1>3, <1>4, Mover

\* The request is read and accepted by the contract, or refused.
LEMMA ValidateKeeps ==
    ASSUME IInv, NEW r \in Readers, Validate(r)
    PROVE  IInv'
<1>1. pc[r] = "validate" /\ UNCHANGED <<envVars, req, entitled, principal, ref, said, body>>
  BY DEF Validate
<1>2. CASE Goto(r, "authorize") /\ UNCHANGED answer
  <2>1. TypeOK'
    BY <1>1, <1>2 DEF IInv, TypeOK, envVars, Goto, PC
  <2>2. Shape'
    BY <1>1, <1>2 DEF IInv, Shape
  <2>3. Onward
    BY <1>1, StandsStill DEF IInv
  <2>4. Only(r)
    BY <1>1, <1>2, <2>3 DEF IInv, TypeOK, Only, Same, Goto
  <2>5. pc'[r] = "authorize"
    BY <1>2 DEF IInv, TypeOK, Goto
  <2>6. Arrived(r)'
    BY <1>1 DEF IInv, RInv, Arrived, envVars, NotExpired
  <2>7. Passed(r)'
    BY <1>1, <2>5 DEF IInv, RInv, Passed, envVars, Principal
  <2>8. RInv(r)'
    BY <1>1, <2>5, <2>6, <2>7 DEF IInv, RInv, Silent, Allowed, Referred, Compared, Locked, Done
  <2> QED
    BY <2>1, <2>2, <2>4, <2>8, Mover
<1>3. CASE Answers(r, Refusal("INVALID_ARGUMENT", FALSE))
  <2>1. Refusal("INVALID_ARGUMENT", FALSE).code \notin {"OK", "EFFECT_UNCERTAIN"}
    BY DEF Refusal
  <2> QED
    BY <1>1, <1>3, <2>1, RefusalKeeps
<1> QED
  BY <1>2, <1>3 DEF Validate

\* The scoped read decides.
LEMMA AuthorizeKeeps ==
    ASSUME IInv, NEW r \in Readers, Authorize(r)
    PROVE  IInv'
<1>1. TypeOK'
  BY DEF IInv, TypeOK, Authorize, envVars, Goto, PC, Answers
<1>2. Shape'
  BY DEF IInv, Shape, Authorize, Answers
<1>3. Only(r)
  <2>1. Onward
    BY StandsStill DEF IInv, Authorize
  <2>2. ASSUME NEW s \in Readers \ {r} PROVE Same(s)
    BY DEF IInv, TypeOK, Shape, Authorize, Same, Goto, Answers
  <2> QED
    BY <2>1, <2>2 DEF Only
<1>4. RInv(r)'
  <2>1. Arrived(r)'
    BY DEF IInv, RInv, Arrived, Authorize, envVars, NotExpired
  <2>0. said'[r] = NoStatus /\ body'[r] = NoBody
    BY DEF IInv, RInv, Silent, Authorize
  <2>2. CASE MayRead(principal[r], req[r].op) /\ pc'[r] = "lookup"
    <3>1. /\ principal[r] = Principal(req[r].token) /\ entitled[r].fresh
          /\ mode = "oidc" => req[r].token.project # Unset
      BY DEF IInv, RInv, Passed, Authorize
    <3>2. /\ req[r].token.tenant = Scope[req[r].op].tenant
          /\ <<req[r].token.actor, req[r].op>> \notin revoked
          /\ mode = "oidc" => req[r].token.project = Scope[req[r].op].project
      BY <2>2, <3>1 DEF MayRead, NotRevoked, Principal
    <3>3. entitled[r].granted
      BY <3>2 DEF IInv, RInv, Arrived, Authorize
    <3>4. Passed(r)' /\ Allowed(r)'
      BY <2>2, <3>1, <3>2, <3>3 DEF Passed, Allowed, Authorize, envVars, Principal, Done
    <3> QED
      BY <2>0, <2>1, <2>2, <3>4 DEF RInv, Silent, Referred, Compared, Locked, Done
  <2>3. CASE pc'[r] = "done" /\ answer'[r] = Refusal("NOT_FOUND", FALSE)
    BY <2>0, <2>1, <2>3, RefusedKeeps DEF Refusal
  <2> QED
    BY <2>2, <2>3 DEF IInv, TypeOK, Shape, Authorize, Goto, Answers
<1> QED
  BY <1>1, <1>2, <1>3, <1>4, Mover

\* A view is answered from the record.
LEMMA ViewKeeps ==
    ASSUME IInv, NEW r \in Readers, View(r)
    PROVE  IInv'
<1>1. TypeOK'
  BY DEF IInv, TypeOK, View, envVars, Goto, PC, Answers
<1>2. Shape'
  BY DEF IInv, Shape, View, Answers
<1>3. Only(r)
  BY DEF IInv, TypeOK, Shape, View, Only, Onward, Same, envVars, Goto, Answers
<1>4. RInv(r)'
  <2>1. Arrived(r)'
    BY DEF IInv, RInv, Arrived, View, envVars, NotExpired
  <2>2. pc'[r] = "done" /\ req[r].kind \in {"preview", "release"} /\ answer'[r].code = "OK"
    BY DEF IInv, TypeOK, Shape, View, Goto, Answers, OK
  <2>3. ASSUME req[r].kind = "release" PROVE answer'[r].data = toRelease(release[req[r].op])
    <3>1. answer' = [answer EXCEPT ![r] = OK(toRelease(release[req[r].op]))]
      BY <2>3 DEF View, Answers
    <3> QED
      BY <3>1 DEF IInv, Shape, OK
  <2>4. Passed(r)' /\ Allowed(r)'
    BY DEF IInv, RInv, Passed, Allowed, View, envVars, Principal, Done
  <2>7. said'[r] = NoStatus /\ body'[r] = NoBody
    BY DEF IInv, RInv, Silent, View
  <2>8. said'[r].word # "EFFECT_UNCERTAIN" /\ body'[r].status # "ok"
    BY <2>7 DEF NoStatus, NoBody
  <2>5. Silent(r)' /\ Referred(r)' /\ Compared(r)'
    BY <2>2, <2>7, <2>8 DEF Silent, Referred, Compared, Differs, Done, Bytes, View
  <2>6. Locked(r)'
    BY <2>2, <2>3 DEF Locked, View, envVars, toRelease
  <2> QED
    BY <2>1, <2>4, <2>5, <2>6 DEF RInv
<1> QED
  BY <1>1, <1>2, <1>3, <1>4, Mover

\* A reference within a bound is what the read goes on with.
LEMMA ReferKeeps ==
    ASSUME IInv, NEW r \in Readers, NEW f \in Reference, NEW bound \in 0..maxSourceArchive,
           pc[r] = "lookup", Bytes(r), Refer(r, f, bound),
           req[r].kind = "artifact" => f.digest = req[r].digest /\ bound = maxPreviewArtifact,
           UNCHANGED <<envVars, req, entitled, principal, said, body>>
    PROVE  IInv'
<1>0. f.size \in Int /\ bound \in Int /\ bound <= maxSourceArchive /\ maxSourceArchive \in Int
  BY ReadAssumption DEF Reference
<1>1. TypeOK'
  <2>1. CASE 0 <= f.size /\ f.size <= bound /\ ref' = [ref EXCEPT ![r] = f] /\ Goto(r, "capability")
    <3>1. f \in Fetchable
      BY <1>0, <2>1 DEF Fetchable
    <3> QED
      BY <2>1, <3>1 DEF IInv, TypeOK, envVars, Goto, PC
  <2>2. CASE Goto(r, "done") /\ UNCHANGED ref
    BY <2>2 DEF IInv, TypeOK, envVars, Goto, PC
  <2> QED
    BY <2>1, <2>2 DEF Refer, Answers
<1>2. Shape'
  BY DEF IInv, Shape, Refer, Answers
<1>3. Only(r)
  <2>1. Onward
    BY StandsStill DEF IInv
  <2>2. ASSUME NEW s \in Readers \ {r} PROVE Same(s)
    BY DEF IInv, TypeOK, Shape, Refer, Same, Goto, Answers
  <2> QED
    BY <2>1, <2>2 DEF Only
<1>4. RInv(r)'
  <2>0. said'[r] = NoStatus /\ body'[r] = NoBody
    BY DEF IInv, RInv, Silent
  <2>1. Arrived(r)'
    BY DEF IInv, RInv, Arrived, envVars, NotExpired
  <2>2. CASE 0 <= f.size /\ f.size <= bound /\ ref' = [ref EXCEPT ![r] = f] /\ Goto(r, "capability")
    <3>1. ref'[r] = f /\ pc'[r] = "capability" /\ f \in Fetchable
      BY <1>0, <2>2 DEF IInv, TypeOK, Goto, Fetchable
    <3>2. Passed(r)' /\ Allowed(r)'
      BY <3>1 DEF IInv, RInv, Passed, Allowed, envVars, Principal, Done
    <3>3. Referred(r)'
      BY <2>2, <3>1 DEF Referred, Bytes, Done
    <3> QED
      BY <2>0, <2>1, <3>1, <3>2, <3>3 DEF RInv, Silent, Compared, Locked, Done
  <2>3. CASE pc'[r] = "done" /\ answer'[r] = Refusal("INVALID_ARGUMENT", FALSE)
    BY <2>0, <2>1, <2>3, RefusedKeeps DEF Refusal
  <2> QED
    BY <2>2, <2>3 DEF IInv, TypeOK, Shape, Refer, Goto, Answers
<1> QED
  BY <1>1, <1>2, <1>3, <1>4, Mover

\* The last match of a digest is a reference with that digest.
LEMMA LastMatches ==
    ASSUME NEW refs \in Seq(Reference), NEW d, NEW f \in Last(refs, d)
    PROVE  f \in Reference /\ f.digest = d
<1>2. \A i \in DOMAIN refs : refs[i] \in Reference
  OBVIOUS
<1> QED
  BY <1>2 DEF Last, Matching

\* An artifact of the preview is looked up.
LEMMA ReadPreviewArtifactKeeps ==
    ASSUME IInv, NEW r \in Readers, ReadPreviewArtifact(r)
    PROVE  IInv'
<1> DEFINE refs == preview[req[r].op]
<1>1. req[r] \in AllRequests
  BY DEF IInv, RInv, Arrived, ReadPreviewArtifact
<1>2. refs \in Seq(Reference)
  BY <1>1, RequestType DEF IInv, TypeOK
<1>3. CASE \E f \in Last(refs, req[r].digest) : Refer(r, f, maxPreviewArtifact)
  <2>1. PICK f \in Last(refs, req[r].digest) : Refer(r, f, maxPreviewArtifact)
    BY <1>3
  <2>2. f \in Reference /\ f.digest = req[r].digest
    BY <1>2, LastMatches
  <2>3. maxPreviewArtifact \in 0..maxSourceArchive
    BY ReadAssumption
  <2>4. pc[r] = "lookup" /\ Bytes(r) /\ UNCHANGED <<envVars, req, entitled, principal, said, body>>
    BY DEF ReadPreviewArtifact, Bytes
  <2> QED
    BY <2>1, <2>2, <2>3, <2>4, ReferKeeps
<1>4. CASE Answers(r, Refusal("NOT_FOUND", FALSE)) /\ UNCHANGED ref
  <2>1. pc[r] = "lookup" /\ UNCHANGED <<envVars, req, entitled, principal, ref, said, body>>
    BY <1>4 DEF ReadPreviewArtifact
  <2>2. Refusal("NOT_FOUND", FALSE).code \notin {"OK", "EFFECT_UNCERTAIN"}
    BY DEF Refusal
  <2> QED
    BY <1>4, <2>1, <2>2, RefusalKeeps
<1> QED
  BY <1>3, <1>4 DEF ReadPreviewArtifact

\* The source archive is looked up.
LEMMA ReadSourceKeeps ==
    ASSUME IInv, NEW r \in Readers, ReadSource(r)
    PROVE  IInv'
<1>1. req[r] \in AllRequests
  BY DEF IInv, RInv, Arrived, ReadSource
<1>2. source[req[r].op] \in Reference
  BY <1>1, RequestType, ReadAssumption DEF IInv, TypeOK
<1>3. maxSourceArchive \in 0..maxSourceArchive
  BY ReadAssumption
<1> QED
  BY <1>2, <1>3, ReferKeeps DEF ReadSource, Bytes

\* The capability is given.
LEMMA ReadArtifactKeeps ==
    ASSUME IInv, NEW r \in Readers, ReadArtifact(r)
    PROVE  IInv'
<1>1. TypeOK'
  BY DEF IInv, TypeOK, ReadArtifact, envVars, Goto, PC
<1>2. Shape'
  BY DEF IInv, Shape, ReadArtifact
<1>3. Only(r)
  BY DEF IInv, TypeOK, Shape, ReadArtifact, Only, Onward, Same, envVars, Goto
<1>4. RInv(r)'
  <2>1. pc[r] = "capability" /\ pc'[r] = "fetch"
    BY DEF IInv, TypeOK, ReadArtifact, Goto
  <2>2. Arrived(r)'
    BY DEF IInv, RInv, Arrived, ReadArtifact, envVars, NotExpired
  <2>3. Passed(r)' /\ Allowed(r)' /\ Referred(r)'
    BY <2>1 DEF IInv, RInv, Passed, Allowed, Referred, ReadArtifact, envVars, Principal, Bytes, Done
  <2>4. Silent(r)'
    BY <2>1 DEF IInv, RInv, Silent, ReadArtifact
  <2> QED
    BY <2>1, <2>2, <2>3, <2>4 DEF RInv, Compared, Locked, Done
<1> QED
  BY <1>1, <1>2, <1>3, <1>4, Mover

\* A status becomes EFFECT_UNCERTAIN exactly when its word says so.
LEMMA AlarmOfStatus ==
    ASSUME NEW status \in Statuses
    PROVE  /\ FromControl(status).code # "OK"
           /\ FromControl(status).code = "EFFECT_UNCERTAIN" <=> status.word = "EFFECT_UNCERTAIN"
<1>1. status.code \in GrpcCode \ {"OK"} /\ status.word \in Word
  BY ReadAssumption
<1>2. FromControl(status).code = MapError(status).code
  BY DEF FromControl, Refusal, fromControl, apiError
<1>3. CASE status.word = "EFFECT_UNCERTAIN"
  BY <1>2, <1>3 DEF MapError, ControlError
<1>4. CASE status.word # "EFFECT_UNCERTAIN"
  <2>1. MapError(status) = ByCode(status)
    BY <1>4 DEF MapError
  <2>2. ByCode(status).code \notin {"OK", "EFFECT_UNCERTAIN"}
    BY <1>1, <1>4 DEF ByCode, ControlError, publicConflicts, GrpcCode
  <2> QED
    BY <1>2, <1>4, <2>1, <2>2
<1> QED
  BY <1>3, <1>4

\* A call to Control fails.
LEMMA CallFailsKeeps ==
    ASSUME IInv, NEW r \in Readers, CallFails(r)
    PROVE  IInv'
<1>0. PICK status \in Statuses :
        said' = [said EXCEPT ![r] = status] /\ Answers(r, FromControl(status))
  BY DEF CallFails
<1>1. TypeOK'
  BY <1>0 DEF IInv, TypeOK, CallFails, envVars, Goto, PC, Answers
<1>2. Shape'
  BY <1>0 DEF IInv, Shape, CallFails, Answers
<1>3. Only(r)
  BY <1>0 DEF IInv, TypeOK, Shape, CallFails, Only, Onward, Same, envVars, Goto, Answers
<1>4. RInv(r)'
  <2>1. Arrived(r)'
    BY DEF IInv, RInv, Arrived, CallFails, envVars, NotExpired
  <2>2. pc'[r] = "done" /\ answer'[r] = FromControl(status) /\ said'[r] = status
    BY <1>0 DEF IInv, TypeOK, Shape, Goto, Answers
  <2>3. body'[r] = NoBody
    BY DEF IInv, RInv, Silent, CallFails
  <2>4. ~Differs(r)'
    BY <2>3 DEF Differs, NoBody
  <2> QED
    BY <2>1, <2>2, <2>4, AlarmOfStatus
    DEF RInv, Silent, Passed, Allowed, Referred, Compared, Locked, Done
<1> QED
  BY <1>1, <1>2, <1>3, <1>4, Mover

\* The store fails.
LEMMA FetchFailsKeeps ==
    ASSUME IInv, NEW r \in Readers, FetchFails(r)
    PROVE  IInv'
<1>1. Unavailable.code \notin {"OK", "EFFECT_UNCERTAIN"}
  BY DEF Unavailable, Refusal
<1> QED
  BY <1>1, RefusalKeeps DEF FetchFails

\* The bytes are compared.
LEMMA FetchKeeps ==
    ASSUME IInv, NEW r \in Readers, Fetch(r)
    PROVE  IInv'
<1>0. PICK b \in Delivered(ref[r]) :
        body' = [body EXCEPT ![r] = b] /\ Answers(r, Checked(req[r], ref[r], b))
  BY DEF Fetch
<1>1. TypeOK'
  BY DEF IInv, TypeOK, Fetch, envVars, Goto, PC, Answers
<1>2. Shape'
  BY <1>0 DEF IInv, Shape, Fetch, Answers
<1>3. Only(r)
  BY <1>0 DEF IInv, TypeOK, Shape, Fetch, Only, Onward, Same, envVars, Goto, Answers
<1>4. RInv(r)'
  <2>1. Arrived(r)'
    BY DEF IInv, RInv, Arrived, Fetch, envVars, NotExpired
  <2>2. pc'[r] = "done" /\ answer'[r] = Checked(req[r], ref[r], b) /\ body'[r] = b
    BY <1>0 DEF IInv, TypeOK, Shape, Goto, Answers
  <2>3. Passed(r)' /\ Allowed(r)' /\ Referred(r)'
    BY DEF IInv, RInv, Passed, Allowed, Referred, Fetch, envVars, Principal, Bytes, Done
  <2>4. Bytes(r) /\ UNCHANGED <<req, ref>>
    BY DEF IInv, RInv, Referred, Fetch
  <2>7. said'[r].word # "EFFECT_UNCERTAIN"
    BY DEF IInv, RInv, Silent, Fetch, NoStatus
  <2>5. Silent(r)' /\ Compared(r)'
    BY <2>2, <2>4, <2>7 DEF Silent, Compared, Differs, Done, Checked, Refusal, Unavailable, OK
  <2>6. Locked(r)'
    BY <2>4 DEF Locked, Bytes
  <2> QED
    BY <2>1, <2>3, <2>5, <2>6 DEF RInv
<1> QED
  BY <1>1, <1>2, <1>3, <1>4, Mover
----------------------------------------------------------------------------
\* A step of the environment moves no read.
LEMMA AllSame ==
    ASSUME IInv, TypeOK', Onward, UNCHANGED readVars
    PROVE  IInv'
<1>1. Shape'
  BY DEF IInv, Shape, readVars
<1>2. \A r \in Readers : Same(r)
  BY DEF Same, readVars
<1> QED
  BY <1>1, <1>2, Carries DEF IInv

\* The clock, the revocations, the builds and the releases.
LEMMA EnvironmentKeeps ==
    ASSUME IInv, Environment
    PROVE  IInv'
<1>1. CASE Tick
  <2>1. now \in Int /\ MaxTime \in Int /\ now >= 0
    BY ReadAssumption DEF IInv, TypeOK
  <2>2. now' \in 0..MaxTime /\ now' >= now
    BY <1>1, <2>1 DEF Tick
  <2>3. TypeOK' /\ Onward
    BY <1>1, <2>2 DEF IInv, TypeOK, Tick, readVars, Onward
  <2> QED
    BY <1>1, <2>3, AllSame DEF Tick
<1> SUFFICES ASSUME NEW o \in Ops, Rebuild(o) \/ Advance(o) \/ \E a \in Actors : Revoke(a, o)
             PROVE  IInv'
  BY <1>1, ReadAssumption DEF Environment
<1>2. now >= now
  BY ReadAssumption DEF IInv, TypeOK
<1>3. CASE Rebuild(o)
  <2>0. preview' \in [Ops -> Seq(Reference)]
    <3>1. PICK p \in Previews[o] : preview' = [preview EXCEPT ![o] = p]
      BY <1>3 DEF Rebuild
    <3>2. preview \in [Ops -> Seq(Reference)]
      BY DEF IInv, TypeOK
    <3>3. p \in Seq(Reference)
      BY ReadAssumption
    <3> QED
      BY <3>1, <3>2, <3>3
  <2>1. TypeOK'
    BY <1>3, <2>0 DEF IInv, TypeOK, Rebuild, readVars
  <2> QED
    BY <1>2, <1>3, <2>1, AllSame DEF Rebuild, Onward
<1>4. CASE Advance(o)
  <2>0. release \in [Ops -> Release]
    BY DEF IInv, TypeOK
  <2>1. release' \in [Ops -> Release]
    BY <1>4, <2>0 DEF Advance, Release
  <2>2. TypeOK'
    BY <1>4, <2>1 DEF IInv, TypeOK, Advance, readVars
  <2>3. \A p \in Ops : release[p].state = "activated" => release'[p] = release[p]
    BY <1>4 DEF IInv, TypeOK, Advance
  <2> QED
    BY <1>2, <1>4, <2>2, <2>3, AllSame DEF Advance, Onward
<1>5. CASE \E a \in Actors : Revoke(a, o)
  <2>1. TypeOK' /\ Onward
    BY <1>2, <1>5 DEF IInv, TypeOK, Revoke, readVars, Onward
  <2> QED
    BY <1>5, <2>1, AllSame DEF Revoke
<1> QED
  BY <1>3, <1>4, <1>5

\* Every step keeps the invariant.
LEMMA NextKeeps == IInv /\ [Next]_vars => IInv'
<1> SUFFICES ASSUME IInv, [Next]_vars PROVE IInv'
  OBVIOUS
<1>1. CASE UNCHANGED vars
  <2>1. TypeOK' /\ now >= now
    BY <1>1, ReadAssumption DEF IInv, TypeOK, vars, envVars, readVars
  <2> QED
    BY <1>1, <2>1, AllSame DEF vars, envVars, Onward
<1>2. CASE \E r \in Readers : \E q \in Requests[r] : Request(r, q)
  BY <1>2, RequestKeeps
<1>3. CASE \E r \in Readers : Step(r)
  BY <1>3, AuthenticateKeeps, ValidateKeeps, CallFailsKeeps, FetchFailsKeeps, AuthorizeKeeps, ViewKeeps,
     ReadPreviewArtifactKeeps, ReadSourceKeeps, ReadArtifactKeeps, FetchKeeps
  DEF Step, Bounded
<1>4. CASE Environment
  BY <1>4, EnvironmentKeeps
<1> QED
  BY <1>1, <1>2, <1>3, <1>4 DEF Next

\* The invariant holds in every behaviour of the reads.
THEOREM Invariant == Spec => []IInv
BY InitHolds, NextKeeps, PTL DEF Spec

\* Types: in particular only a reference with a size within the bound is
\* ever fetched (preview.go: ReadPreviewArtifact, ReadSource).
THEOREM TypeCorrect == Spec => []TypeOK
<1>1. IInv => TypeOK
  BY DEF IInv
<1> QED
  BY <1>1, Invariant, PTL

\* readVerified: served bytes have the recorded digest and size, and an
\* artifact the digest the client asked for.
THEOREM BytesAreAsRecorded == Spec => []ServedIsRecorded
<1>1. IInv => ServedIsRecorded
  BY DEF IInv, RInv, Referred, Compared, ServedIsRecorded, Bytes
<1> QED
  BY <1>1, Invariant, PTL

\* authorize with the verifier's project rule: nothing is served outside the
\* tenant, nor outside the project a token must name.
THEOREM ScopeIsKept == Spec => []ServedInScope
<1>1. IInv => ServedInScope
  BY DEF IInv, RInv, Allowed, ServedInScope
<1> QED
  BY <1>1, Invariant, PTL

\* Verify and authorize: a request that came too late is not served.
THEOREM LateIsRefused == Spec => []ServedWasEntitled
<1>1. IInv => ServedWasEntitled
  BY DEF IInv, RInv, Passed, Allowed, ServedWasEntitled
<1> QED
  BY <1>1, Invariant, PTL

\* readVerified and MapError: EFFECT_UNCERTAIN answers bytes that differ and what
\* Control called uncertain, all of it and nothing else.
THEOREM AlarmIsTrue == Spec => []AlarmIsHonest
<1>1. IInv => AlarmIsHonest
  BY DEF IInv, RInv, Compared, AlarmIsHonest
<1> QED
  BY <1>1, Invariant, PTL

\* toRelease: the locks served of an operation agree.
THEOREM LockIsOne == Spec => []LocksAgree
<1>1. IInv => LocksAgree
  BY DEF IInv, RInv, Locked, LocksAgree
<1> QED
  BY <1>1, Invariant, PTL
=============================================================================
