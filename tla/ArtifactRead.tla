---------------------------- MODULE ArtifactRead ----------------------------
(***************************************************************************)
(* A read of a preview, an artifact of it, a source archive or a release:  *)
(* the token is verified, Control is asked whether the caller may see the  *)
(* operation, the record is read, and bytes are fetched through a one-GET  *)
(* capability and compared with what Control recorded.                     *)
(*   src/internal/adapters/oidcauth/oidcauth.go        Verify              *)
(*   src/internal/adapters/fixtureauth/fixtureauth.go  Verify              *)
(*   src/internal/adapters/control/preview.go, release.go                  *)
(*   src/internal/transport/http/handlers.go           the read handlers   *)
(*   src/internal/transport/http/server.go             strictBody          *)
(* Control, the issuer and the artifact store are outside src/. Between    *)
(* the steps of a read tokens expire, rights are revoked, previews are     *)
(* built anew, releases move on, and the store fails or holds other bytes. *)
(***************************************************************************)
EXTENDS ErrorMapping, Integers, Sequences

CONSTANTS Readers,   \* slots for concurrent reads
          Ops,       \* operations
          Moving,    \* the operations Control still changes
          Scope,     \* the tenant and the project of each operation
          Requests,  \* what the client of a slot asks: kind, token, operation,
                     \* digest, and whether a body comes with it
          Statuses,  \* gRPC statuses a call to Control can end with
          Previews,  \* what a build of an operation's preview can record:
                     \* references, module first
          Sources,   \* what can be recorded of a source archive
          Manifests, \* browser manifests a release can publish
          Modes,     \* verifiers of the process
          Skew,      \* auth.oidc.clock_skew
          maxPreviewArtifact, maxSourceArchive,   \* bounds of what is served
          MaxTime,   \* bound of the clock
          Unset      \* a claim or a field that is absent

\* A reference of Control's record; a size that is no number is -1.
Reference == [digest : STRING, size : Int, class : {"js", "css", "tar"}]

\* kind: signed by the issuer for this audience, or refused by go-oidc;
\* listed: in the principals file. A claim that is no string or too long to be
\* accepted is Unset, like an absent one.
Token == [kind : {"signed", "refused"}, listed : BOOLEAN, exp : Int \cup {Unset},
          nbf : Int \cup {Unset}, tenant : STRING \cup {Unset}, actor : STRING \cup {Unset},
          project : STRING \cup {Unset}, roles : {"absent", "names", "invalid"}]

Kinds == {"preview", "artifact", "source", "release"}

ASSUME ReadAssumption ==
    /\ Moving \subseteq Ops
    /\ Scope \in [Ops -> [tenant : STRING, project : STRING]]
    /\ Requests \in [Readers -> SUBSET [kind : Kinds, token : Token, op : Ops, digest : STRING,
                                        body : BOOLEAN]]
    /\ Statuses \subseteq [code : GrpcCode \ {"OK"}, word : Word]
    /\ [code |-> "DeadlineExceeded", word |-> "other"] \in Statuses
    /\ Previews \in [Ops -> SUBSET Seq(Reference)]
    /\ Sources \subseteq Reference
    /\ Modes \subseteq {"oidc", "oidcTenantWide", "fixture"}
    /\ Skew \in Nat /\ MaxTime \in Nat
    /\ maxSourceArchive \in Nat /\ maxPreviewArtifact \in 0..maxSourceArchive
    /\ Unset \notin STRING /\ Unset \notin Int /\ Unset \notin Manifests

VARIABLES
    mode,      \* the verifier of this process
    now,       \* the clock
    revoked,   \* Control: actors that may no longer see an operation
    preview,   \* Control: the references of each operation's preview
    source,    \* Control: the source archive of each operation
    release,   \* Control: the release of each operation
    pc,        \* where the read is
    req,       \* the request: kind, token, operation, digest, body
    entitled,  \* history: token not expired, right not revoked when it arrived
    principal, \* whom the token was verified to be
    ref,       \* the reference the record named
    said,      \* history: the status of the call to Control that failed
    body,      \* history: what the store delivered
    answer     \* what the client was told

envVars  == <<mode, now, revoked, preview, source, release>>
readVars == <<pc, req, entitled, principal, ref, said, body, answer>>
vars     == <<envVars, readVars>>

NoRequest   == [kind |-> "none"]
NoPrincipal == [tenant |-> Unset, actor |-> Unset, project |-> Unset]
NoRef       == [digest |-> Unset, size |-> -1, class |-> "none"]
NoStatus    == [code |-> "OK", word |-> "other"]
NoBody      == [status |-> "none", sum |-> Unset, len |-> -1]
NoAnswer    == [code |-> "none", retryable |-> FALSE, data |-> Unset]

PC == {"idle", "authenticate", "validate", "authorize", "lookup", "capability", "fetch", "done"}

Release == [state : {"building", "published", "activated"}, manifest : Manifests \cup {Unset}]
----------------------------------------------------------------------------
(* Verification of the caller.                                             *)

Fresh(t, at) ==
    /\ t.exp # Unset /\ at < t.exp + Skew
    /\ t.nbf # Unset => t.nbf <= at + Skew

\* The principals file; Load refuses an entry without a tenant or an actor.
Listed(t) == t.listed /\ t.tenant # Unset /\ t.actor # Unset

ClaimsRead_ProjectOptional(t) ==   \* mutant: an absent project is accepted
    t.tenant # Unset /\ t.actor # Unset /\ t.roles # "invalid"

\* Every configured claim is there; roles are a bounded list of names, or absent.
ClaimsRead(t) ==
    /\ t.tenant # Unset /\ t.actor # Unset
    /\ mode = "oidc" => t.project # Unset
    /\ t.roles # "invalid"

Verified_NoExpiry(t, at) ==   \* mutant: only go-oidc's checks are left
    \/ mode = "fixture" /\ Listed(t)
    \/ mode \in {"oidc", "oidcTenantWide"} /\ t.kind = "signed" /\ ClaimsRead(t)

\* A listed token of the principals file, or a token of the issuer inside its
\* window with every configured claim.
Verified(t, at) ==
    \/ mode = "fixture" /\ Listed(t)
    \/ /\ mode \in {"oidc", "oidcTenantWide"} /\ t.kind = "signed"
       /\ Fresh(t, at) /\ ClaimsRead(t)

\* An empty project path reads no project.
Principal(t) ==
    [tenant |-> t.tenant, actor |-> t.actor,
     project |-> IF mode = "oidcTenantWide" THEN Unset ELSE t.project]

NotRevoked(actor, o) == <<actor, o>> \notin revoked

\* Control's rule of a scoped read: the tenant, and the project unless the
\* principal is tenant-wide, of an actor whose rights are not revoked.
MayRead(p, o) ==
    /\ p.tenant = Scope[o].tenant
    /\ p.project \in {Unset, Scope[o].project}
    /\ NotRevoked(p.actor, o)
----------------------------------------------------------------------------
Init ==
    /\ mode \in Modes
    /\ now = 0
    /\ revoked = {}
    /\ preview \in [Ops -> UNION {Previews[o] : o \in Ops}]
    /\ \A o \in Ops : preview[o] \in Previews[o]
    /\ source \in [Ops -> Sources]
    /\ release = [o \in Ops |-> [state |-> "building", manifest |-> Unset]]
    /\ pc = [r \in Readers |-> "idle"]
    /\ req = [r \in Readers |-> NoRequest]
    /\ entitled = [r \in Readers |-> [fresh |-> FALSE, granted |-> FALSE]]
    /\ principal = [r \in Readers |-> NoPrincipal]
    /\ ref = [r \in Readers |-> NoRef]
    /\ said = [r \in Readers |-> NoStatus]
    /\ body = [r \in Readers |-> NoBody]
    /\ answer = [r \in Readers |-> NoAnswer]

Goto(r, where) == pc' = [pc EXCEPT ![r] = where]

Refusal(code, retryable) == [code |-> code, retryable |-> retryable, data |-> Unset]
Unavailable == Refusal("DEPENDENCY_UNAVAILABLE", TRUE)
OK(data)    == [code |-> "OK", retryable |-> FALSE, data |-> data]

Answers(r, a) ==
    /\ Goto(r, "done")
    /\ answer' = [answer EXCEPT ![r] = a]

NotExpired(t) == mode # "fixture" => t.exp # Unset /\ now < t.exp + Skew

Request(r, q) ==
    /\ pc[r] = "idle"
    /\ req' = [req EXCEPT ![r] = q]
    /\ entitled' = [entitled EXCEPT ![r] =
         [fresh |-> NotExpired(q.token), granted |-> NotRevoked(q.token.actor, q.op)]]
    /\ Goto(r, "authenticate")
    /\ UNCHANGED <<envVars, principal, ref, said, body, answer>>

\* A token of the issuer is refused also when the keys cannot be fetched.
Authenticate(r) ==
    /\ pc[r] = "authenticate"
    /\ \/ /\ Verified(req[r].token, now)
          /\ principal' = [principal EXCEPT ![r] = Principal(req[r].token)]
          /\ Goto(r, "validate")
          /\ UNCHANGED answer
       \/ /\ ~Verified(req[r].token, now) \/ mode # "fixture"
          /\ Answers(r, Refusal("UNAUTHENTICATED", FALSE))
          /\ UNCHANGED principal
    /\ UNCHANGED <<envVars, req, entitled, ref, said, body>>

\* strictBody and the contract's validator: a body that came along is read,
\* and either may refuse the request.
Validate(r) ==
    /\ pc[r] = "validate"
    /\ \/ Goto(r, "authorize") /\ UNCHANGED answer
       \/ Answers(r, Refusal("INVALID_ARGUMENT", FALSE))
    /\ UNCHANGED <<envVars, req, entitled, principal, ref, said, body>>

\* GetOperation under the principal's scope; what it may not see is not found.
Authorize(r) ==
    /\ pc[r] = "authorize"
    /\ \/ MayRead(principal[r], req[r].op) /\ Goto(r, "lookup") /\ UNCHANGED answer
       \/ /\ ~MayRead(principal[r], req[r].op)
          /\ Answers(r, Refusal("NOT_FOUND", FALSE))
    /\ UNCHANGED <<envVars, req, entitled, principal, ref, said, body>>

mediaTypeOf(class) == IF class = "css" THEN "text/css" ELSE "text/javascript"

toPreview(refs) ==
    [i \in DOMAIN refs |-> [digest |-> refs[i].digest, size |-> refs[i].size,
                            media |-> mediaTypeOf(refs[i].class)]]

toRelease_AnyState(v) ==   \* mutant: a lock as soon as there is a manifest
    [state |-> v.state, lock |-> v.manifest]

\* Only an activated release names the lock a saved page pins.
toRelease(v) ==
    [state |-> v.state, lock |-> IF v.state = "activated" THEN v.manifest ELSE Unset]

\* The views: read and answered, by the tenant and the operation alone.
View(r) ==
    /\ pc[r] = "lookup"
    /\ \/ req[r].kind = "preview" /\ Answers(r, OK(toPreview(preview[req[r].op])))
       \/ req[r].kind = "release" /\ Answers(r, OK(toRelease(release[req[r].op])))
    /\ UNCHANGED <<envVars, req, entitled, principal, ref, said, body>>

\* The references of the preview with the digest that was asked for, and the
\* one that is read: the last.
Matching(refs, digest) == {i \in DOMAIN refs : refs[i].digest = digest}
Last(refs, digest) ==
    {refs[i] : i \in {i \in Matching(refs, digest) : \A j \in Matching(refs, digest) : j <= i}}

\* What may be fetched at all.
Fetchable == {f \in Reference : f.size \in 0..maxSourceArchive}

\* A reference whose size is a number within the bound is fetched.
Refer(r, f, bound) ==
    \/ /\ 0 <= f.size /\ f.size <= bound
       /\ ref' = [ref EXCEPT ![r] = f]
       /\ Goto(r, "capability")
       /\ UNCHANGED answer
    \/ /\ ~(0 <= f.size /\ f.size <= bound)
       /\ Answers(r, Refusal("INVALID_ARGUMENT", FALSE))
       /\ UNCHANGED ref

ReadPreviewArtifact(r) ==
    /\ pc[r] = "lookup" /\ req[r].kind = "artifact"
    /\ LET refs == preview[req[r].op] IN
       \/ \E f \in Last(refs, req[r].digest) : Refer(r, f, maxPreviewArtifact)
       \/ /\ Matching(refs, req[r].digest) = {}
          /\ Answers(r, Refusal("NOT_FOUND", FALSE))
          /\ UNCHANGED ref
    /\ UNCHANGED <<envVars, req, entitled, principal, said, body>>

ReadSource(r) ==
    /\ pc[r] = "lookup" /\ req[r].kind = "source"
    /\ Refer(r, source[req[r].op], maxSourceArchive)
    /\ UNCHANGED <<envVars, req, entitled, principal, said, body>>

\* ReadArtifact gives the one-GET capability of the exact object version.
ReadArtifact(r) ==
    /\ pc[r] = "capability"
    /\ Goto(r, "fetch")
    /\ UNCHANGED <<envVars, req, entitled, principal, ref, said, body, answer>>

FromControl(status) ==
    LET e == fromControl(MapError(status)) IN Refusal(e.code, e.retryable)

\* A call to Control fails or ends at its bound: its status as a public error.
CallFails(r) ==
    /\ pc[r] \in {"authorize", "lookup", "capability"}
    /\ \E status \in Statuses :
         /\ said' = [said EXCEPT ![r] = status]
         /\ Answers(r, FromControl(status))
    /\ UNCHANGED <<envVars, req, entitled, principal, ref, body>>

\* What a GET of a reference can bring, read up to one byte past its size: the
\* object, other bytes in its place, or the page of an error status.
Delivered(f) ==
    [status : {"ok", "error"}, sum : {Unset, f.digest}, len : Nat \cap ((f.size - 1)..(f.size + 1))]

Media(q, f) == IF q.kind = "source" THEN "application/x-tar" ELSE mediaTypeOf(f.class)

Checked_SizeOnly(q, f, b) ==   \* mutant: the digest is not compared
    IF b.status # "ok" THEN Unavailable
    ELSE IF b.len # f.size THEN Refusal("EFFECT_UNCERTAIN", FALSE)
    ELSE OK([sum |-> b.sum, len |-> b.len, media |-> Media(q, f)])

Checked_DigestFirst(q, f, b) ==   \* mutant: the status is looked at last
    IF b.len # f.size \/ b.sum # f.digest THEN Refusal("EFFECT_UNCERTAIN", FALSE)
    ELSE IF b.status # "ok" THEN Unavailable
    ELSE OK([sum |-> b.sum, len |-> b.len, media |-> Media(q, f)])

\* readVerified after the GET: the status, then size and digest.
Checked(q, f, b) ==
    IF b.status # "ok" THEN Unavailable
    ELSE IF b.len # f.size \/ b.sum # f.digest THEN Refusal("EFFECT_UNCERTAIN", FALSE)
    ELSE OK([sum |-> b.sum, len |-> b.len, media |-> Media(q, f)])

Fetch(r) ==
    /\ pc[r] = "fetch"
    /\ \E b \in Delivered(ref[r]) :
         /\ body' = [body EXCEPT ![r] = b]
         /\ Answers(r, Checked(req[r], ref[r], b))
    /\ UNCHANGED <<envVars, req, entitled, principal, ref, said>>

FetchFails_Waits(r) ==   \* mutant: the client of the store has no timeout
    /\ FALSE
    /\ UNCHANGED vars

\* The store is unreachable, cuts the body or does not answer within the
\* client's timeout; or the capability cannot be used.
FetchFails(r) ==
    /\ pc[r] = "fetch"
    /\ Answers(r, Unavailable)
    /\ UNCHANGED <<envVars, req, entitled, principal, ref, said, body>>
----------------------------------------------------------------------------
(* Control, the clock.                                                     *)

Tick ==
    /\ now < MaxTime
    /\ now' = now + 1
    /\ UNCHANGED <<mode, revoked, preview, source, release, readVars>>

Revoke(actor, o) ==
    /\ revoked' = revoked \cup {<<actor, o>>}
    /\ UNCHANGED <<mode, now, preview, source, release, readVars>>

\* A new build records other references.
Rebuild(o) ==
    /\ \E p \in Previews[o] : preview' = [preview EXCEPT ![o] = p]
    /\ \E f \in Sources : source' = [source EXCEPT ![o] = f]
    /\ UNCHANGED <<mode, now, revoked, release, readVars>>

\* A release publishes a manifest, publishes again after a failure, and is
\* activated with the one it has.
Advance(o) ==
    /\ release[o].state # "activated"
    /\ \/ \E m \in Manifests :
            release' = [release EXCEPT ![o] = [state |-> "published", manifest |-> m]]
       \/ /\ release[o].state = "published"
          /\ release' = [release EXCEPT ![o].state = "activated"]
    /\ UNCHANGED <<mode, now, revoked, preview, source, readVars>>
----------------------------------------------------------------------------
\* A body is read until its end, and nothing bounds that.
BodyUnderWay(r) == pc[r] = "validate" /\ req[r].body

\* What the process does whether or not anyone answers it.
Bounded(r) ==
    \/ Authenticate(r) \/ CallFails(r) \/ FetchFails(r)
    \/ ~BodyUnderWay(r) /\ Validate(r)

Step(r) ==
    \/ Bounded(r) \/ Validate(r) \/ Authorize(r) \/ View(r) \/ ReadPreviewArtifact(r) \/ ReadSource(r)
    \/ ReadArtifact(r) \/ Fetch(r)

AllRequests == UNION {Requests[r] : r \in Readers}
Actors      == {q.token.actor : q \in AllRequests}

Environment ==
    \/ Tick
    \/ \E o \in Moving : Rebuild(o) \/ Advance(o) \/ \E a \in Actors : Revoke(a, o)

Next ==
    \/ \E r \in Readers : Step(r) \/ \E q \in Requests[r] : Request(r, q)
    \/ Environment

Spec == Init /\ [][Next]_vars

\* Every wait of a read but that for a client's body has a bound; Control and
\* the store owe no answer.
FairSpec == Spec /\ \A r \in Readers : WF_vars(Bounded(r))
----------------------------------------------------------------------------
(* Properties                                                              *)

TypeOK ==
    /\ mode \in Modes
    /\ now \in 0..MaxTime
    /\ preview \in [Ops -> Seq(Reference)]
    /\ source \in [Ops -> Sources]
    /\ release \in [Ops -> Release]
    /\ pc \in [Readers -> PC]
    /\ req \in [Readers -> AllRequests \cup {NoRequest}]
    /\ ref \in [Readers -> Fetchable \cup {NoRef}]
    /\ said \in [Readers -> Statuses \cup {NoStatus}]

Done(r, code) == pc[r] = "done" /\ answer[r].code = code

\* Bytes are served only as recorded: they have the digest the client asked
\* for and the size Control recorded with it, within the bound, whatever the
\* store holds and however often the preview is rebuilt meanwhile.
ServedIsRecorded ==
    \A r \in Readers : Done(r, "OK") /\ req[r].kind \in {"artifact", "source"} =>
      /\ answer[r].data.sum = ref[r].digest /\ answer[r].data.len = ref[r].size
      /\ req[r].kind = "artifact" => /\ ref[r].digest = req[r].digest
                                     /\ ref[r].size <= maxPreviewArtifact

\* Nothing of an operation is served outside its tenant, nor outside its
\* project to a caller whose token must name one: the record reads name a
\* tenant only, so the verifier and the scoped read together must see to it.
ServedInScope ==
    \A r \in Readers : Done(r, "OK") =>
      /\ req[r].token.tenant = Scope[req[r].op].tenant
      /\ mode = "oidc" => req[r].token.project = Scope[req[r].op].project

\* A request that arrives after its token expired, or after the actor's right
\* to the operation was revoked, is not served.
ServedWasEntitled ==
    \A r \in Readers : Done(r, "OK") => entitled[r].fresh /\ entitled[r].granted

Differs(r) ==
    body[r].status = "ok" /\ (body[r].sum # ref[r].digest \/ body[r].len # ref[r].size)

\* EFFECT_UNCERTAIN is final, and the client is told to stop: it answers a read
\* exactly when the store delivered a whole answer with other bytes or Control
\* itself reported an uncertain effect, under whichever gRPC code. An outage of
\* either, an error page of the store included, is never reported so, and
\* bytes that differ are never reported as anything else.
AlarmIsHonest ==
    \A r \in Readers : pc[r] = "done" =>
      (answer[r].code = "EFFECT_UNCERTAIN" <=>
         Differs(r) \/ said[r].word = "EFFECT_UNCERTAIN")

\* All locks ever served of an operation are the same lock: a page that pins
\* one is not contradicted by a later read.
LocksAgree ==
    \A r, s \in Readers :
      /\ Done(r, "OK") /\ Done(s, "OK")
      /\ req[r].kind = "release" /\ req[s].kind = "release" /\ req[r].op = req[s].op
      /\ answer[r].data.lock # Unset /\ answer[s].data.lock # Unset
      => answer[r].data.lock = answer[s].data.lock

\* Every read is answered, also when Control or the store never answers; the
\* one exception is a client that never finishes sending a body it announced.
EveryReadAnswered ==
    \A r \in Readers : pc[r] = "authenticate" ~> pc[r] = "done" \/ []BodyUnderWay(r)
=============================================================================
