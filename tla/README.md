# Formal models of anvilkit-agent-api

TLA+ models of the API server, the TLC runs that check them on small
instances, and theorems that TLAPS proves for every value of their constants.
Every definition is translated from the Go source; `PROJECT.json` maps each to
the lines it stands for. What lies outside `src/` (Control, net/http, the
kubelet, clients) appears as actions that do whatever the code can observe.

## 1. The system

The API is a stateless HTTP front of one owner service, Control (and two
further gRPC owners, Knowledge and MCP). It keeps almost no state of its own:
what it has is per request or per process, and that is where its concurrency is.

| component | state | operations | hard behaviour | what makes it correct |
|---|---|---|---|---|
| Event streams, `transport/http/sse.go` | per request: producer goroutine, frame channel, `admitted`, `done`, `ended`; shared: stream counters, `draining` | API-04 handler, producer's emit, limiter acquire/release, drain | two goroutines and four-way selects; slow consumers; failing writes; a drain at any time | contiguous events, nothing lost silently, every goroutine joined, caps hold, everything ends |
| Control gateway, `adapters/control` | one gRPC connection | StreamEvents; unary calls bounded by 15s; error mapping | refusal or end at any step; late answers; retries of commands | a refusal is never a 200; an uncertain effect is never reported as retryable |
| Readiness, `bootstrap/readiness.go` | cached outcome and its time, a mutex, `stopping` | check (a probe), stop | a mutex held across a network call; one probe's context decides what all are told | no storm on Control, bounded wait, fresh answers, recovery |
| Workload identity, `transport/identity` | current material, failure count, tracked connections | Reload (poller and others), Start, Stop, handshakes, closes, method policy | files swapped between reads; reload against handshakes; concurrent reloads | only validated material in force; retired trust closed; convergence |
| HTTP server, `transport/http/server.go`, `validation.go`, `observe.go` | listener, `served` channel | middleware chain, strict bodies, one error envelope, Start, Stop | a panic, a timeout or an error after the response began | exactly one envelope, never after a body |
| Handlers, `transport/http/handlers.go` | none | API-01 to API-17 over the gateways | client retries of the same command, artifact windows | same command id, same effect |
| Artifact reads, `adapters/control/preview.go`, `release.go` | none | previews, artifacts and sources through a one-GET capability, releases | four calls in a row, the record, the right and the object may change between any two | bytes as recorded, in scope, alarms that are true, one lock per release |
| Knowledge and MCP gateways | one gRPC connection each | unary calls | as Control's unary calls | as Control's unary calls |
| Caller identity, `oidcauth`, `fixtureauth`, `application/principal.go` | verifier and its keys | Verify | tokens expire while used; key rotation in a library | claims map to one principal or none; an absent project is not a wider scope |
| Bootstrap, `bootstrap/module.go`, `identity.go` | Fx lifecycle, shared reloaders | constructors, OnStart, OnStop hooks in order | a constructor or a bind that fails, listener failure, a drain that outlasts its timeout, one deadline for all stop hooks | connections outlive their requests, what was started is stopped (Control's connection after a failed start excepted), a true exit code |
| Configuration, `config/config.go` | none | Load, validate | three layers, a guard only one of them may open, cross rules between timeouts | plaintext only where the file allows it; the bounds other parts rely on |
| Telemetry, `bootstrap/telemetry.go` | exporter, metrics listener | start and stop hooks | a flush or a scrape that does not end | the process still exits, not with 0 |
| Chart, CI | – | – | – | not modelled |

The parts meet in few places: the bootstrap starts the listener and, on stop,
calls `readiness.stop`, then `Server.Stop` (which closes `draining`, seen by
every stream, and waits for the handlers), then closes the Control connection.
Streams and probes call Control through the same client; the client's
credentials read the Reloader's current material at every handshake.

## 2. Modules

| module | models | composed of |
|---|---|---|
| `EventStreams` | the API-04 handler, its producer (`Client.StreamEvents` and the emit callback), the stream limiter, `Server.Stop` | handler and producer share `frames`, `admitted`, `done`, `cancelled`; all streams share the limiter, Control's log and `draining` |
| `EventStreams_proofs` | theorems about it | |
| `ResumingClients` | the clients of the streams: asking, reading, losing the connection, resuming | extends `EventStreams`; a client per slot |
| `ResumableFeed` | what API-04 promises a client, without connections | |
| `ResumingClients_proofs` | `ResumingClients` implements `ResumableFeed` | |
| `ErrorMapping` | `MapError` and `fromControl`: from a gRPC status to the public error, as operators | |
| `CommandGateway` | a command through the middleware chain, the error envelope, its handler, the Control, Knowledge and MCP adapters, against owners and retrying clients | extends `ErrorMapping`; request slots over one ledger of the owners |
| `CommandGateway_proofs` | theorems about it | |
| `IdempotentCommands` | what the gateway promises its clients, without the chain, the owners' replies or the wire | |
| `CommandPromise_proofs` | `CommandGateway` implements `IdempotentCommands` | |
| `ArtifactRead` | the reads of previews, artifacts, sources and releases behind both verifiers | extends `ErrorMapping`; read slots over Control's records, the clock and the store |
| `ArtifactRead_proofs` | theorems about it | |
| `Config` | defaults, file, environment and the rules of a snapshot, as operators | |
| `Lifecycle` | load, constructors, start and stop hooks, listener, drain, exit | extends `Config`; the reloaders, the connections and the requests that use them |
| `Lifecycle_proofs` | theorems about it | |
| `Readiness` | `readiness.check`/`stop`, `/readyz`, `Client.Health`, with time | |
| `Readiness_proofs` | theorems about it | |
| `TrustReload` | `Reloader`, `Load`/`Parse`/digests, the connection tracker and the server handshake | any number of callers of Reload and of connections over one material |
| `TrustReload_proofs` | theorems about it | |
| `MC*` | values of the constants for TLC | |

A definition named `X_Something` before a definition `X` is a mutant: `X` with
a plausible bug. Each property has one, which TLC refutes; nothing else uses
them.

### EventStreams

One slot of `Streams` is one request at a time. `hpc` is where its handler is:
`idle`, `authorize` (GetOperation), `limit`, `admission` (the first select),
`writeRetry`, `loop` (the main select), `writeEvent`/`writeBeat`/`writeEnd`/
`writeReset` (inside the `write` closure), `drain` (the inner loop after
`done`), then the deferred calls `cleanup` (cancel), `join`, `release`, and
`returned`. `ppc` is where the producer is: `list`, `header`, `recv`, `emit`,
`sent`. Every ready case of a select is an enabled action, so TLC tries every
choice Go could make.

Data is abstracted to what the properties distinguish: an event is its durable
sequence number, a frame is the event it carries, an error is one of `reset`,
`slow`, `err`. Control's log is a counter with a retention floor; it honors a
cursor within it, sends the next event after the last one it sent, and ends a
stream of a terminal operation after its last event. It may fail any call at
any time. A write is two steps, so anything can happen while it is under way;
it succeeds, or fails visibly (the handler gives up), or fails in `Flush`,
whose error is dropped (the handler carries on, nothing reaches the client). In
both failures net/http ends the request context.

### ResumingClients and ResumableFeed

`sse.go:222` says what the protocol is for: "the client resumes from its last
event id after the retry interval and loses nothing (API-04)". `ResumingClients`
adds the client of each slot: `base` and `known` are what it holds (the events
it read, and the cursor before the first), `read` the frames it consumed of the
present connection, `honored` whether Control could honor the cursor at the
moment it asked (a history variable). A client reads at its own pace, also what
is under way when the handler is long past it; what it has not read when the
slot is reused is lost with the connection. It asks again from its last event
id or from any other cursor; on a reset frame it continues from whatever a
fresh reading of the operation covers. The clients are outside `src/` and
restrict nothing: `StreamsAreUnchanged` proves `ClientsSpec => Spec`.

`ResumableFeed` knows neither connections nor handlers. A reader learns the
next event of the log and no other, keeps all it holds when it resumes, and is
sent back only if the position it asked for could not be honored. `FeedKept` is
that specification with `log` read off Control's counter; Handler, producer,
limiter, drain, failed writes and disconnects are stuttering steps of it, which
is the point: none of them can cost a client an event.

### CommandGateway

A slot of `Requests` is one HTTP request at a time; `Finish` empties it, so a
retry is another request with the same command id. `pc` follows the Gin chain:
`authenticate`, `strictBody`, `validate`, `handler`, `call` (inside the gRPC
call), `respond`, `unwind` (back up to `errorEnvelope`), `done`. `err` is the
first error recorded with `c.Error`, `answers` what was written to the client.
A body is a content and a format of it; its digest is of the content in the
canonical format (number literals are content: 1 and 1.0 have different
digests). A body that is not empty may be refused while it is read, and a client
that stalls keeps it there (`BodyUnderWay`). A panic is one of the API's own
code; while the call is out gRPC's runs. The routes are the twenty command handlers, in tables
of their success statuses grouped as in the source (`operationHandlers` to
`toolHandlers`) and by the gateway they call (`owner`). They differ in three
ways only: the two recovery handlers tell new (201) from existing (200), an
owner other than Control may have no placement, and CreateToolCall refuses
large arguments itself. The proofs are about any subset of the routes; the runs
take one of each kind (BeginRecovery; BeginTransfer, RegisterSource,
CreateToolCall), since routes share no state.

The owners are outside `src/`. They are assumed to do what the contract's
command identity is for: keep one record per route, tenant and command id,
answer a repeated digest with the first result, refuse another digest. They refuse,
fail or call an effect uncertain at will, and `late` holds the calls whose wait
ended before the owner executed them; each may still be executed at any later
time. The properties of effects are conditional on that assumption; what they
show of the API is that its identity, digest and error mapping make it usable.

`IdempotentCommands` is the promise: clients ask, an ask may take effect once
or be given up, a client is told once, and "success" and "conflict" are true
of the record when they are told. The refinement mapping at the end of
`CommandGateway` reads its four variables off the detailed state: `asked` from
the request in the slot, `told` from the answer written (`Verdict`: 2xx,
IDEMPOTENCY_CONFLICT, anything else), `record` from the ledger, `open` from
the requests that have not been answered by the owner and the calls left
behind (`Unresolved`). `PromiseKept` is the abstract specification under that
mapping, checked by `retries` and proved.

### ArtifactRead

A slot of `Readers` is one read: `authenticate`, `validate` (strictBody and the
contract, which may refuse; a GET may bring a body), `authorize` (the scoped
GetOperation), `lookup` (the record, by tenant and operation alone),
`capability` (ReadArtifact), `fetch` (the GET and the comparison), `done`.
Between any two of them the clock advances, Control revokes a right, records
another build or moves a release on. A token is what `Verify` looks at: whether
go-oidc accepts it, exp and nbf, the claims. `Verified` is the code's
conjunction of checks; `oidcTenantWide` is an issuer without a project path,
`fixture` the principals file. A GET brings the recorded object, other bytes,
one byte less or more, or an error page, or fails. Each of the three calls to
Control may instead end with a status of `Statuses`, any set of gRPC codes and
words, which goes through `MapError` and `fromControl` as a command's does:
EFFECT_UNCERTAIN among them, under whichever code. `entitled`, `said` and `body`
are history variables for the properties.

### Config and Lifecycle

`Config` has one operator per rule function of `config.go`. A snapshot is a
record of sections, a layer a function from section and key to a value;
durations are milliseconds and keep their bounds. `Lifecycle` follows `phase`:
`load`, `build` (the constructors in the order Fx needs them, `step`),
`start` (the hooks in the order they were appended, `started`), `running`,
`stopping`, `rollback`, `exited`. A connection records how it authenticates:
the index of a reloader, TLS alone, or plaintext. `left` is what remains of the
deadline of the stop hooks: the stop timeout, or, for the rollback of a failed
start, Fx's start timeout. A hook takes the time its own bound allows, at one of the two
ends of the range. A request is a slot with the connection it uses. Two
requests are enough for one to end while the other goes on.

### Readiness

`Probes` are request slots. Lock, cache test and a cached return are one
action, as they are one critical section without an await; the Health call is
several: it begins, Control gives its answer at some moment, the answer, the
timeout or the cancellation of the probe's own request ends it. Time is a set
of saturating clocks that advance together with `Tick`; `Tick` waits for steps
the process can take at once. `waited`, `spacing` and `evidence` are clocks
added for the properties; no guard reads them.

### TrustReload

A file set is abstracted to a key pair for the certificate, one for the key,
and a set of roots. `Reload` reads the three files one by one for the digest
and one by one again for `Load`; the mount may change between any two of these
six reads, and lack a file. `life` is the clock as far as `Parse` looks at it:
each leaf is early, valid or expired, and passes from one to the next at any
time (`Ages`), also while its set is mounted or in force. `at` is the time
`Reload` passes to `Load`. A handshake takes its configuration from the
material of the moment and is added to the tracker when it ends. `late` is a
history variable: the material had changed when the connection was added.

## 3. Runs

Twelve runs; all passing runs together fire every action. Deadlock is checked
in all of them but `reads`, whose slots are used once and may all be done. Type
invariants are proved (section 5) and checked by TLC where a run names them.

| run | shows |
|---|---|
| `stream` | one stream and its client, buffer 2, up to 5 events of which the first has expired, every pair of cursors, any number of connections: `FeedKept` (the refinement of `ResumableFeed`), `ProducerJoined`, `EmptyCloseIsTerminal`, `BufferedFramesDelivered`, `ResetStandsAlone`, `QuietAfterClosing`, and that a drain, a leaving client and a terminal operation each end the stream (`StreamReturns`) |
| `caps` | two streams of one principal, cap one: `SlotsAccounted`, `ControlStreamsWithinCaps` |
| `silentend` (violation) | a stream that ended with no error may have delivered nothing of what it had buffered |
| `retries` | two requests at a time, any number over time, of one recovery command with two bodies in two formats: `OneEffect`, `CreatedOnce`, and `PromiseKept`, the refinement of `IdempotentCommands` |
| `chain` | one request at a time over three routes, one of them not placed: `TypeOK` (the public codes, whatever word an owner uses), `RefusalIsFinal`, `RetryAdvice`, `OneAnswer`, `EveryRequestAnswered` |
| `readiness` | two probes, cache 5, Health timeout 2 (the code's 5s and 2s): `NoStorm`, `AnsweredInTime`, `ReadyIsFresh`, `Recovers` |
| `readinesscancel` (violation) | somebody else's disconnect is told to a probe as Control's health |
| `readinesswithdraw` (violation) | a 204 after the shutdown began |
| `rotation` | the poller over three file sets (old, transition, new), the new leaf early at first and expiring later, and one connection: `InForceIsValid`, `TrackerIsExact`, `RetiredClosed`, `TrustedStaysOpen`, `Converges` (a set that stays valid comes into force; any set comes into force or is signalled), `StopReturns` |
| `lifecycle` | 224 pairs of a file and an environment, two requests: `PlaintextOnlyInDevelopment`, `RotationCoversConnections`, `ConnectionsOutliveHandlers`, `ExitZeroIsClean`, `StartedIsStopped`, `DeadListenerExits`, `StopExits` |
| `reads` | two readers, six tokens, two operations of one tenant in two projects, three verifiers, four statuses of failed calls: `ServedIsRecorded`, `ServedInScope`, `ServedWasEntitled`, `AlarmIsHonest`, `LocksAgree`, `EveryReadAnswered` |
| `overtaken` (violation) | a handshake overtaken by a reload stays open under a retired root |

Why the bounds are enough. A buffer of 2 with 5 events lets the producer run
ahead, fill the buffer and block while one frame is being written, the most
that handler and producer can be apart in kind, with an event still to come
after the one it blocks on; the floor of 1 gives
cursors before the floor, at it, inside, at the end and ahead of the log. Two
streams suffice for the limiter, whose state is two counters, with two events
over a buffer of one so that a slow consumer's return is among the paths that
give a slot back; the theorems cover any number. Two probes suffice for one to wait behind the other's call
and meet its outcome. Two requests of one command, with calls left behind by
earlier ones, suffice for two executions of it to meet; two bodies and two
formats make every case of same and other digest; commands of other tenants
or ids share nothing, and the theorems cover them. Three file sets contain every mixture of certificate, key
and bundle that Parse tells apart (matching and mismatched pair, a root added,
kept and dropped), and the second leaf is early, valid and expired in turn,
mounted or in force. Of the bodies the contract does not accept `chain` has
every kind and `retries` one. Slots are reused, so sequences of requests are
covered. The two streams of `caps` are interchangeable, which its symmetry set
states; so are the requests, bodies and formats of `retries`. Neither checks
liveness. In `lifecycle` fourteen of the numeric rules meet their two
bounds and the values just outside, every mode meets both values of the guard,
and the files give reloaders that are shared, of a client's own and of the
collector; the environments set a guarded mode with and without an attempt to
set the guard. In `reads` the clock runs to 2, which is `exp` plus the skew of
the shortest token, so that each step of a read can meet it fresh and expired;
one operation changes and the other stands still; of the statuses two say
EFFECT_UNCERTAIN under different codes and two are outages; sizes are at the bound, one
past it and no number; r2 reads the release only, which is all that two
readers of one operation share.

### The violations

1. `sse.go:143`. When the producer is admitted, sends its frames and ends
   before the handler goroutine reaches its first select, both `admitted` and
   `done` are ready. Choosing `done` with a nil result ends a 200 without the
   buffered frames; the comment at line 204 says they are delivered. It needs
   an unlucky schedule and a terminal operation; a client that resumes from its
   cursor still finds the events (`FeedKept` holds on these behaviours too).
2. `readiness.go:42`. The Health call runs under the context of the probe that
   found the cache expired. If that client gives up, its cancellation is cached
   for 5s.
3. `readiness.go:34`. `stopping` is read before the mutex and not again.
4. `credentials.go:141`. A connection is tracked only when its handshake is
   over; a reload in between does not see it, and nothing closes it before the
   next change of the files. `RetiredClosed` states what does hold.

## 4. Fairness

Only what the code and the Go runtime guarantee.

- `EventStreams`, `ResumingClients`: a handler step ends (unary calls at 15s, writes at their
  deadline, the join when the producer ended). `select` chooses uniformly among
  ready cases, so the drain, the end of the context and the end of the stream
  are taken although heartbeats are ready again and again: strong fairness.
  A gRPC call returns when its context ended. The run also assumes that Control
  answers calls and sends what it committed, which `StreamReturns` needs for
  terminal operations.
  Nothing is assumed of clients, commits, heartbeats, stops or failures.
- `CommandGateway`: the goroutine of a request runs, and its wait for an owner
  ends, by the answer or by `boundRPCWait` and the gateways' timeouts. The read
  of a body is excepted: `io.ReadAll` (`server.go:295`) waits for the client, and
  the server sets `ReadHeaderTimeout` only (`server.go:181`). Nothing is assumed
  of owners or clients; `EveryRequestAnswered` says so: answered, or for ever
  in the read of a body.
- `Readiness`: a goroutine that can run does, the mutex hands over to a waiter,
  time passes, a Control that is not silent answers. One request per slot and
  tick excludes infinitely many probes in no time.
- `TrustReload`: the poller's ticker fires and its reload runs; `select` takes
  the cancellation. Nothing is assumed of the mount or the clock.
- `Lifecycle`: constructors and hooks run on, each wait ends at its bound, the
  goroutine that waits for `Served` runs. Nothing is assumed of requests,
  signals or failures.
- `ArtifactRead`: a read goes on by itself only where the code bounds it: the
  verification, calls to Control (15s) and the GET (60s) end, by a failure if
  nobody answers. The read of a body is excepted as above. Control and the
  store owe no answer.

## 5. Proofs

All theorems hold for every value of the constants under the assumptions the
modules name (`ConstantsAssumption`, `ReadinessAssumption`,
`TrustAssumption`, `GatewayAssumption`, `ReadAssumption`): types, a buffer of
at least one frame, a first file set that parses, a preview bound no larger
than the source bound. `Lifecycle` needs none: its theorems hold for any set of
files and environments, since what is built was accepted by the rules.

**EventStreams.** A step of one stream leaves every other stream alone (lemma
Locality), so the per-stream invariants are proved for one stream.
- `TypeOK` needs that the handler holds a frame exactly while it writes one.
- `WireContiguous` is not inductive: it says nothing about the frames under
  way. `DeliveryInv` says that the wire, the event in the handler's hand, the
  channel and the event the producer holds are, one after another, the
  consecutive numbers from the cursor to the producer's position.
- `ProducerJoined` needs `JoinInv`: who owes what to `done`. The result is in
  the channel exactly from the producer's end until somebody receives it, and
  `ended` says who did.
- `SlotsAccounted` is inductive with the types; `ControlStreamsWithinCaps`
  follows from it, from `ProducerJoined` (a live producer holds a slot) and
  from the caps on the counters.
- `EmptyCloseIsTerminal`, `BufferedFramesDelivered` and `ResetStandsAlone` need
  `ClosingInv`: what each place of the handler says about `res`, `ended`, the
  frames and the closing frame. `QuietAfterClosing` follows from it.

**ResumingClients.** `FeedIsKept` is a step simulation. A read must be the next
event of the log, retained and committed, and a reset must answer a cursor that
could not be honored; both speak of a client, a connection and Control's log at
once. `ClientsInv` ties them: `ReaderInv` says that until it reads a reset frame
the client stands `read` frames behind the cursor of its request, and that a
result of `reset`, in the channel or received, means `~honored` (the log only
grows, so a cursor that cannot be honored when it is verified could not when it
was asked for); `ServedInv` that everything between the producer and the
connection is committed and follows a cursor above the floor; `HeldInv` that
what the client holds is an unbroken run that Control can continue. With
`DeliveryInv` and `FlowInv` of the streams the next frame on a connection is
the client's next event (lemma NextOnWire). `NothingIsLost` states the same of
every reachable state.

**CommandGateway.** The properties speak of answers, the steps of errors and
replies, the owners of the ledger; `Inv` links them. `Local` says what each
place of the chain knows: a written answer or a recorded error says the truth
(`AnswerFits`, `ErrorFits`) about the reply it was made from. `CallsNamed` says
that every call that was made carries the identity of its client's command and
body, so that the owner's comparison of identities is a comparison of what
clients meant (lemma NamesAgree). `ReplyRecorded` and `NewOnce` say that what
a reply says of the ledger stays true as the ledger grows. The error tables
(`MapErrorTable`, `HttpStatusTable`) are proved once, for every status.
`SuccessIsTrue` and `ConflictsAreReal` say of each answer what `PromiseKept`
says of the moment it is given.

**CommandPromise.** `PromiseIsKept` is a step simulation on top of that
invariant. Most steps of the chain change none of the abstract variables or
only drop asks (lemmas `Quiet`, `QuietMove`, `QuietFail`); the envelope's and
the handler's writes are `Tell`, and the truth of what is told is the
invariant's `AnswerFits` with `NamesAgree`; an execution by the owner, in time
or late, is `TakeEffect`, which is where it matters that `open` covers the
calls nobody waits for.

**Lifecycle.** `IInv` beside the types: the hooks are appended in the order of
the constructors, with run's last (`HooksInv`), so its stop is the first;
`ServeInv` and `StopInv` say what each phase knows of listener, drain, `left`
and `failed`; `RunningInv`, `OpenInv` and `PlacedInv` tie watches and
connections to the hooks still started; `RotationInv` and `PlaintextInv` are
about each connection as it was opened. `ConnectionsOutliveHandlers` needs
`DrainInv`, that the stop deadline never cuts the drain short: run's hook stops
first and every accepted `shutdown_timeout` is below the deadline.
`PlaintextOnlyInDevelopment` needs `GuardInv`, that no layer over the file opens
the guard (lemma `EnvironmentCannotOpen`, from the table of variables).
`StartedIsStopped` follows from `OpenInv` with the phases: what is open belongs to
a hook still started, and Control's connection to run's, which a failed bind
never starts; so it says that this one connection may be left open.

**ArtifactRead.** `RInv` says for one reader what each place of the read knows:
past the verifier its principal is its token's and the token was unexpired when
it came (`Passed`), past the scoped read the right was not revoked when it came
(`Allowed`; `Arrived` says that both only get worse with time), past the record
its reference has the digest asked for and a size within its bound (`Referred`),
and an answer is what `Checked` makes of the store's (`Compared`).
`AlarmIsHonest` is an equivalence, so it needs `Silent`, that nothing was heard of
the store or of a failed call before the answer, and the lemma `AlarmOfStatus`,
that a status becomes EFFECT_UNCERTAIN exactly when its word says so, for every
code and word. `Locked`: a
lock ever answered is the manifest of a release that is activated, and so no
longer moves. A step of one reader
leaves the others alone (`StandsStill`).

**Readiness.** `Inv` beside the types: who is in the Health call holds the
mutex; between calls `checked` is no earlier than the last call's begin
(`NoStorm`); a waiting probe has waited no longer than the call it waits
behind, and between calls it has either just come or meets a fresh cache
(`AnsweredInTime`); a kept `ok` is at most one Health timeout older than the
cache (`ReadyIsFresh`).

**TrustReload.** `TrackerIsExact` is inductive. `InForceIsValid` needs `AgeInv`:
the clock goes one way, so a leaf that was valid when a reload read the time is
never early again and had not expired before the process began.
`RetiredClosed` says nothing while a reload runs; `RetireInv` says that then an
open connection outside the trust in force has a reload in its callbacks that
is going to close it, whichever of several concurrent reloads that is.
`TrustedStaysOpen` is proved for the poller as the only caller: with others a
callback may run after somebody else published, and close a connection whose
root is trusted again.

Only model-checked: the liveness properties (`StreamReturns`,
`EveryRequestAnswered`, `Recovers`, `Converges`, `StopReturns`,
`DeadListenerExits`, `StopExits`, `EveryReadAnswered`), since the prover handles
neither fairness nor ENABLED; and the violations, which are counterexamples.

## 6. Not modelled

- Contents of frames and documents, the copies between wire and public types,
  the retry jitter, logging, spans and metrics; TLS, gRPC, Gin, Fx, koanf and
  net/http beyond what the code observes of them.
- The wall-clock relation of write timeout, grace and heartbeat in one stream
  (`config.go:365` is a rule of `Config`, its consequence for a stream is not).
- Control trimming its log while a stream is open.
- Material that expires while it is in force is modelled, and the code does
  nothing about it: its digest is what it was (`reloader.go:117`), so it is neither
  parsed again nor counted as a failure. `Converges` claims no signal for it.
- `NewServerCredentials` and its connection tracker are modelled as the package
  offers them, but this process uses only client credentials and accepts no such
  connection; `Start` while a `Stop` still waits for the poller, which the code
  allows and this process never does, is not modelled.
- After a failed bind Fx rolls back the hooks before run's; run's `OnStop`, which
  closes Control (`module.go:142`), is not among them, and the connection ends with
  the process. A constructor that fails leaves what earlier ones opened likewise.
- Of the numeric bounds of the configuration only that of `shutdown_timeout`
  carries a property; the others decide which files are refused.
- gin also binds a query or header field under its Go name when it has no tag
  (`sse.go:38-57`); `bindCursor` knows the two tagged names. No property depends
  on which name a cursor came under.
- Of `reads`: headers, an empty roles path, the refetch of a key set by go-oidc;
  an issuer that cannot be reached answers 401 as a bad token does. Other
  queries (lists, pages) are one scoped call and a copy.
- `transport/identity/spiffe.go`, `authz.go` and HTTPTransport: pure functions
  and a transport that nothing in this process uses outside tests.
- Strict JSON is abstracted to a body that is well formed or not, with one
  digest per content; how a number is written is part of the content.
- The components marked `not_modelled` in `PROJECT.json`.

## 7. Plan

What is left, in order of weight:

1. `StreamBounds`: one stream with time, for the configuration's cross rules.
2. Operators checked against reference definitions: SPIFFE names and method
   policy, strict JSON.
