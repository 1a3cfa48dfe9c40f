----------------------------- MODULE Lifecycle ------------------------------
(***************************************************************************)
(* The life of the process: the configuration is loaded, Fx runs the       *)
(* constructors in the order run's parameters need them, then the start    *)
(* hooks in the order they were appended; a signal or a dead listener      *)
(* makes it run the stop hooks in reverse, within one stop deadline.       *)
(*   src/internal/bootstrap/module.go, identity.go, telemetry.go           *)
(*   src/internal/transport/http/server.go   Start, Served, Stop           *)
(*   src/internal/config/config.go           through the module Config     *)
(* Fx, net/http, gRPC and the OTLP exporter are outside src/.              *)
(***************************************************************************)
EXTENDS Config, Sequences, FiniteSets

CONSTANTS Inputs,     \* a configuration file and an environment
          Unreadable, \* a file that is missing or does not decode
          Handlers    \* slots for requests in flight

VARIABLES
    phase,     \* what Fx is doing
    given,     \* the file and the environment of this process
    cfg,       \* the accepted snapshot
    step,      \* constructors run
    hooks,     \* lifecycle hooks appended, in order
    started,   \* hooks started and not stopped yet
    verifier,  \* the identity protocol of callers
    reloaders, \* identities.started: the file set of each reloader
    running,   \* reloaders whose watch runs
    conn,      \* outbound connections: how they authenticate, whether open
    ready,     \* readiness is not withdrawn
    listener,  \* the public listener
    drain,     \* the HTTP drain
    metrics,   \* the metrics listener
    inflight,  \* the connection each request in flight uses
    signal,    \* the first shutdown signal
    code,      \* the exit code it carries
    left,      \* milliseconds left of the deadline of the stop hooks
    failed,    \* a stop hook reported an error
    exit       \* exit code, -1 while the process lives

buildVars == <<given, cfg, step, hooks, verifier, reloaders>>
linkVars  == <<running, conn>>
httpVars  == <<ready, listener, drain, metrics>>
sigVars   == <<signal, code>>
stopVars  == <<left, failed>>
vars == <<phase, buildVars, started, linkVars, httpVars, inflight, sigVars, stopVars, exit>>

Conns == Clients \cup {"collector"}

\* How a connection authenticates: not at all, by TLS alone, or with the
\* material of a reloader (its index).
Plaintext == 0
ServerTLS == -1
NoConn    == [auth |-> Plaintext, files |-> <<>>, state |-> "none"]

Phases == {"load", "build", "start", "running", "stopping", "rollback", "exited"}
HookNames == {"identities", "knowledge", "mcp", "tracer", "metrics", "run"}

TypeOK ==
    /\ phase \in Phases
    /\ phase \notin {"load", "exited"} => cfg \in Snapshot
    /\ step \in 0..9
    /\ hooks \in Seq(HookNames)
    /\ started \in 0..Len(hooks)
    /\ verifier \in {"none", "oidc", "fixture"}
    /\ reloaders \in Seq([FileKeys -> STRING])
    /\ running \subseteq DOMAIN reloaders
    /\ conn \in [Conns -> [auth : Int, files : [FileKeys -> STRING] \cup {<<>>},
                         state : {"none", "open", "closed"}]]
    /\ \A c \in Conns : conn[c].auth \in {Plaintext, ServerTLS} \cup DOMAIN reloaders
    /\ ready \in BOOLEAN
    /\ listener \in {"none", "serving", "failed", "closed"}
    /\ drain \in {"none", "waiting", "clean", "expired", "cut"}
    /\ metrics \in {"none", "serving", "failed", "closed"}
    /\ inflight \in [Handlers -> Conns \cup {"none"}]
    /\ signal \in {"none", "term", "fault"}
    /\ code \in {0, 1}
    /\ left \in Nat
    /\ failed \in BOOLEAN
    /\ exit \in {-1, 0, 1}

Init ==
    /\ phase = "load"
    /\ given \in Inputs
    /\ cfg = defaults
    /\ step = 0
    /\ hooks = <<>>
    /\ started = 0
    /\ verifier = "none"
    /\ reloaders = <<>>
    /\ running = {}
    /\ conn = [c \in Conns |-> NoConn]
    /\ ready = TRUE
    /\ listener = "none"
    /\ drain = "none"
    /\ metrics = "none"
    /\ inflight = [h \in Handlers |-> "none"]
    /\ signal = "none"
    /\ code = 0
    /\ left = 0
    /\ failed = FALSE
    /\ exit = -1
----------------------------------------------------------------------------
(* Loading and the constructors. A constructor that fails ends the process *)
(* before anything is started.                                             *)

Load ==
    /\ phase = "load"
    /\ given.file # Unreadable /\ Accepted(given.file, given.env)
    /\ cfg' = LoadFrom(given.file, given.env)
    /\ phase' = "build"
    /\ UNCHANGED <<given, step, hooks, verifier, reloaders, started, linkVars, httpVars,
                   inflight, sigVars, stopVars, exit>>

\* The constructor order of Fx: what run needs, parameters first.
Build == <<"verifier", "identities", "control", "knowledge", "mcp", "tracer", "metrics",
           "server", "run">>

Building(name) == phase = "build" /\ Build[step + 1] = name

\* Constructors without an error return, and those with nothing to do, succeed.
MayFail(name) ==
    /\ name \notin {"identities", "metrics", "run"}
    /\ name \in Owners => cfg[name].address # Unset
    /\ name = "tracer" => cfg.telemetry.otlp_endpoint # Unset

\* The candidate is rejected, or a constructor reports an error: files that
\* do not load, an issuer that is not discovered in time, a bad contract.
Refuse ==
    /\ \/ phase = "load"
          /\ \/ given.file = Unreadable
             \/ given.file # Unreadable /\ ~Accepted(given.file, given.env)
       \/ phase = "build" /\ MayFail(Build[step + 1])
    /\ phase' = "exited"
    /\ exit' = 1
    /\ UNCHANGED <<buildVars, started, linkVars, httpVars, inflight, sigVars, stopVars>>

Built(name) ==
    /\ Building(name)
    /\ step' = step + 1
    /\ UNCHANGED <<given, cfg, started, running, httpVars, inflight, sigVars, stopVars, exit>>

newVerifier ==
    /\ Built("verifier")
    /\ verifier' = IF cfg.auth.mode = "fixture" THEN "fixture" ELSE "oidc"
    /\ UNCHANGED <<phase, hooks, reloaders, conn>>

newIdentities ==
    /\ Built("identities")
    /\ hooks' = Append(hooks, "identities")
    /\ UNCHANGED <<phase, verifier, reloaders, conn>>

OwnFiles == [f \in FileKeys |-> cfg.identity[f]]

\* ids.own: the reloader of the process's own files, 0 when there is none yet.
own == IF \E i \in DOMAIN reloaders : reloaders[i] = OwnFiles
         THEN CHOOSE i \in DOMAIN reloaders : reloaders[i] = OwnFiles
         ELSE 0

reloader_AlwaysOwn(files) ==   \* mutant: a client's own files are ignored
    IF own # 0 THEN <<reloaders, own>>
    ELSE <<Append(reloaders, files), Len(reloaders) + 1>>

\* The reloaders after asking for one of files, and its index.
reloader(files) ==
    IF files = OwnFiles /\ own # 0 THEN <<reloaders, own>>
    ELSE <<Append(reloaders, files), Len(reloaders) + 1>>

Opens(c, auth, files) ==
    conn' = [conn EXCEPT ![c] = [auth |-> auth, files |-> files, state |-> "open"]]

Rotating(c, files) ==
    /\ reloaders' = reloader(files)[1]
    /\ Opens(c, reloader(files)[2], files)

\* The credential of a gRPC client; a failure is Refuse.
client(c) ==
    \/ /\ cfg[c].mode = "development" /\ cfg.development.enabled
       /\ Opens(c, Plaintext, <<>>)
       /\ UNCHANGED reloaders
    \/ cfg[c].mode = "mtls" /\ Rotating(c, Resolved(cfg, c))

newControl ==
    /\ Built("control")
    /\ client("control")
    /\ UNCHANGED <<phase, hooks, verifier>>

\* An owner without a placement stays unavailable.
newGateway(o) ==
    /\ Built(o)
    /\ \/ cfg[o].address # Unset /\ client(o) /\ hooks' = Append(hooks, o)
       \/ cfg[o].address = Unset /\ UNCHANGED <<hooks, conn, reloaders>>
    /\ UNCHANGED <<phase, verifier>>

\* The collector's credential: tls reads its bundle once, mtls rotates and
\* needs a server name.
collectorCredentials(t) ==
    \/ /\ t.mode = "development" /\ cfg.development.enabled
       /\ Opens("collector", Plaintext, <<>>)
       /\ UNCHANGED reloaders
    \/ /\ t.mode = "tls"
       /\ Opens("collector", ServerTLS, <<>>)
       /\ UNCHANGED reloaders
    \/ /\ t.mode = "mtls" /\ t.server_name # Unset
       /\ Rotating("collector", [f \in FileKeys |-> t[f]])

newTracer ==
    /\ Built("tracer")
    /\ \/ /\ cfg.telemetry.otlp_endpoint # Unset
          /\ collectorCredentials(cfg.otlp_tls)
          /\ hooks' = Append(hooks, "tracer")
       \/ cfg.telemetry.otlp_endpoint = Unset /\ UNCHANGED <<hooks, conn, reloaders>>
    /\ UNCHANGED <<phase, verifier>>

newMetrics ==
    /\ Built("metrics")
    /\ hooks' = IF cfg.telemetry.metrics_listen # Unset THEN Append(hooks, "metrics") ELSE hooks
    /\ UNCHANGED <<phase, verifier, reloaders, conn>>

NewServer ==
    /\ Built("server")
    /\ UNCHANGED <<phase, hooks, verifier, reloaders, conn>>

run ==
    /\ Built("run")
    /\ hooks' = Append(hooks, "run")
    /\ phase' = "start"
    /\ UNCHANGED <<verifier, reloaders, conn>>
----------------------------------------------------------------------------
(* The start hooks, in order. One that fails rolls back those started.     *)

Starting(name) == phase = "start" /\ started < Len(hooks) /\ hooks[started + 1] = name

OnStart(name) ==
    /\ Starting(name)
    /\ started' = started + 1
    /\ UNCHANGED <<phase, buildVars, conn, ready, drain, inflight, sigVars, stopVars, exit>>

StartIdentities ==
    /\ OnStart("identities")
    /\ running' = DOMAIN reloaders
    /\ UNCHANGED <<listener, metrics>>

\* A hook without OnStart counts as started.
StartNothing ==
    /\ \E name \in {"knowledge", "mcp", "tracer"} : OnStart(name)
    /\ UNCHANGED <<running, listener, metrics>>

StartMetrics ==
    /\ OnStart("metrics")
    /\ metrics' = "serving"
    /\ UNCHANGED <<running, listener>>

StartServer ==
    /\ OnStart("run")
    /\ listener' = "serving"
    /\ UNCHANGED <<running, metrics>>

\* Fx's default bound of a start, a failed one's rollback included.
StartTimeout == 15 * Second

\* An address that cannot be bound is a failed start. No start hook waits for
\* anything, so the rollback has all of the start's time.
BindFails ==
    /\ Starting("metrics") \/ Starting("run")
    /\ phase' = "rollback"
    /\ left' = StartTimeout
    /\ UNCHANGED <<buildVars, started, linkVars, httpVars, inflight, sigVars, failed, exit>>

Started ==
    /\ phase = "start" /\ started = Len(hooks)
    /\ phase' = "running"
    /\ UNCHANGED <<buildVars, started, linkVars, httpVars, inflight, sigVars, stopVars, exit>>
----------------------------------------------------------------------------
(* Serving.                                                                *)

\* A request on an accepted connection, on its way to an owner; the drain
\* takes no new connection but serves those it has.
RequestArrives(h, c) ==
    /\ inflight[h] = "none"
    /\ listener # "none" /\ drain \in {"none", "waiting"}
    /\ phase \in {"start", "running", "stopping"}
    /\ c \in Placed(cfg)
    /\ inflight' = [inflight EXCEPT ![h] = c]
    /\ UNCHANGED <<phase, buildVars, started, linkVars, httpVars, sigVars, stopVars, exit>>

RequestEnds(h) ==
    /\ inflight[h] # "none" /\ phase # "exited"
    /\ inflight' = [inflight EXCEPT ![h] = "none"]
    /\ UNCHANGED <<phase, buildVars, started, linkVars, httpVars, sigVars, stopVars, exit>>

\* Serve returns an error other than ErrServerClosed.
ListenerFails ==
    /\ listener = "serving" /\ phase # "exited"
    /\ listener' = "failed"
    /\ UNCHANGED <<phase, buildVars, started, linkVars, ready, drain, metrics, inflight,
                   sigVars, stopVars, exit>>

ListenerReported_NoShutdown ==   \* mutant: the error is only logged
    /\ listener = "failed" /\ signal = "none" /\ phase \in {"start", "running"}
    /\ UNCHANGED vars

ListenerReported_CodeZero ==   \* mutant: the shutdown carries no exit code
    /\ listener = "failed" /\ signal = "none" /\ phase \in {"start", "running"}
    /\ signal' = "fault"
    /\ code' = 0
    /\ UNCHANGED <<phase, buildVars, started, linkVars, httpVars, inflight, stopVars, exit>>

\* The goroutine of run receives the error and asks for a shutdown with exit
\* code 1; Fx keeps the first signal, also one sent before it waits for it.
ListenerReported ==
    /\ listener = "failed" /\ signal = "none" /\ phase \in {"start", "running"}
    /\ signal' = "fault"
    /\ code' = 1
    /\ UNCHANGED <<phase, buildVars, started, linkVars, httpVars, inflight, stopVars, exit>>

\* The metrics listener dies: logged, nothing else.
MetricsFails ==
    /\ metrics = "serving" /\ phase # "exited"
    /\ metrics' = "failed"
    /\ UNCHANGED <<phase, buildVars, started, linkVars, ready, listener, drain, inflight,
                   sigVars, stopVars, exit>>

Terminate ==
    /\ phase \in {"start", "running"} /\ signal = "none"
    /\ signal' = "term"
    /\ code' = 0
    /\ UNCHANGED <<phase, buildVars, started, linkVars, httpVars, inflight, stopVars, exit>>
----------------------------------------------------------------------------
(* Stopping and rolling back: hooks in reverse, one deadline for all.      *)

StopTimeout_Default == 15 * Second   \* mutant: Fx's own default

StopTimeout == MaxShutdownTimeout + 30 * Second

StopBegins ==
    /\ phase = "running" /\ signal # "none"
    /\ phase' = "stopping"
    /\ left' = StopTimeout
    /\ UNCHANGED <<buildVars, started, linkVars, httpVars, inflight, sigVars, failed, exit>>

Stopping(name) ==
    /\ phase \in {"stopping", "rollback"} /\ started > 0 /\ hooks[started] = name
    /\ left > 0

\* The least of two numbers of milliseconds.
Least(a, b) == IF a < b THEN a ELSE b

Closes(c) == conn' = [conn EXCEPT ![c].state = IF @ = "open" THEN "closed" ELSE @]

OnStop(name) ==
    /\ Stopping(name)
    /\ started' = started - 1
    /\ UNCHANGED <<phase, buildVars, ready, listener, inflight, sigVars, exit>>

\* OnStop of run: readiness is withdrawn, the streams are told to end and
\* the listener is closed; the drain waits for the requests in flight.
StopRun ==
    /\ Stopping("run") /\ drain = "none"
    /\ ready' = FALSE
    /\ drain' = "waiting"
    /\ listener' = IF listener = "serving" THEN "closed" ELSE listener
    /\ UNCHANGED <<phase, buildVars, started, linkVars, metrics, inflight, sigVars,
                   stopVars, exit>>

idle == \A h \in Handlers : inflight[h] = "none"

Drained_Unbounded ==   \* mutant: the drain has no bound
    /\ OnStop("run") /\ drain = "waiting" /\ idle
    /\ drain' = "clean"
    /\ Closes("control")
    /\ UNCHANGED <<running, metrics, stopVars>>

\* The drain ends, at its own bound or at the stop deadline at the latest,
\* and the Control connection is closed either way.
Drained ==
    /\ OnStop("run") /\ drain = "waiting"
    /\ LET bound == Least(cfg.http.shutdown_timeout, left) IN
       \/ /\ idle
          /\ drain' = "clean"
          /\ \E t \in {0, bound} : left' = left - t
          /\ UNCHANGED failed
       \/ /\ ~idle
          /\ drain' = IF left < cfg.http.shutdown_timeout THEN "cut" ELSE "expired"
          /\ left' = left - bound
          /\ failed' = TRUE
    /\ Closes("control")
    /\ UNCHANGED <<running, metrics>>

\* Shutdown of the metrics server waits for its scrapes, without a bound of
\* its own.
StopMetrics ==
    /\ OnStop("metrics")
    /\ metrics' = IF metrics = "serving" THEN "closed" ELSE metrics
    /\ \/ UNCHANGED stopVars
       \/ left' = 0 /\ failed' = TRUE
    /\ UNCHANGED <<linkVars, drain>>

FlushTimeout == 5 * Second

\* The provider flushes within its bound or gives up; the exporter is closed.
StopTracer ==
    /\ OnStop("tracer")
    /\ Closes("collector")
    /\ \/ UNCHANGED stopVars
       \/ left' = left - Least(FlushTimeout, left) /\ failed' = TRUE
    /\ UNCHANGED <<running, drain, metrics>>

StopGateway(o) ==
    /\ OnStop(o)
    /\ Closes(o)
    /\ UNCHANGED <<running, drain, metrics, stopVars>>

StopIdentities_None ==   \* mutant: the hook has no OnStop
    /\ OnStop("identities")
    /\ UNCHANGED <<linkVars, drain, metrics, stopVars>>

StopIdentities ==
    /\ OnStop("identities")
    /\ running' = {}
    /\ UNCHANGED <<conn, drain, metrics, stopVars>>

\* Fx: the deadline passed, the hooks that are left are not run.
StopOverdue == phase \in {"stopping", "rollback"} /\ left = 0 /\ started > 0

Exit ==
    /\ \/ phase \in {"stopping", "rollback"} /\ started = 0
       \/ StopOverdue
    /\ phase' = "exited"
    /\ exit' = IF phase = "rollback" \/ failed \/ StopOverdue THEN 1 ELSE code
    /\ UNCHANGED <<buildVars, started, linkVars, httpVars, inflight, sigVars, stopVars>>
----------------------------------------------------------------------------
Constructors ==
    \/ Load \/ Refuse \/ newVerifier \/ newIdentities \/ newControl
    \/ \E o \in Owners : newGateway(o)
    \/ newTracer \/ newMetrics \/ NewServer \/ run

StartHooks ==
    \/ StartIdentities \/ StartNothing \/ StartMetrics \/ StartServer \/ BindFails \/ Started

StopHooks ==
    \/ StopBegins \/ StopRun \/ Drained \/ StopMetrics \/ StopTracer
    \/ \E o \in Owners : StopGateway(o)
    \/ StopIdentities \/ Exit

\* What the process does by itself.
Process == Constructors \/ StartHooks \/ StopHooks \/ ListenerReported

Environment ==
    \/ \E h \in Handlers : RequestEnds(h) \/ \E c \in Clients : RequestArrives(h, c)
    \/ ListenerFails \/ MetricsFails \/ Terminate

\* Nothing follows the exit.
Exited == phase = "exited" /\ UNCHANGED vars

Next == Process \/ Environment \/ Exited

Spec == Init /\ [][Next]_vars

\* The process runs on, its waits are bounded; nothing is assumed of
\* requests, signals and failures.
FairSpec == Spec /\ WF_vars(StartHooks \/ Constructors) /\ WF_vars(StopHooks)
                 /\ WF_vars(ListenerReported)
----------------------------------------------------------------------------
(* Properties                                                              *)

\* Whether the configuration file opens the development guard.
FileOpensGuard ==
    /\ given.file # Unreadable
    /\ <<"development", "enabled">> \in DOMAIN given.file
    /\ given.file[<<"development", "enabled">>]

\* Unless the file itself opens the guard ("File-only"), nothing goes over
\* plaintext and no caller is verified from a principals file, whatever the
\* environment says: every connection, the issuer and the verifier of a
\* process that was built.
PlaintextOnlyInDevelopment ==
    ~FileOpensGuard =>
      /\ verifier # "fixture"
      /\ verifier = "oidc" => cfg.oidc.issuer = "https"
      /\ \A c \in Conns : conn[c].state # "none" => conn[c].auth # Plaintext

\* An open connection that presents a certificate presents the files its
\* section resolves to, and from the start on their reloader watches them
\* for as long as the connection is open.
RotationCoversConnections ==
    \A c \in Conns : conn[c].state = "open" /\ conn[c].auth \notin {Plaintext, ServerTLS} =>
      /\ conn[c].auth \in DOMAIN reloaders
      /\ reloaders[conn[c].auth] = conn[c].files
      /\ (phase = "start" /\ started > 0) \/ phase \in {"running", "stopping"} =>
           conn[c].auth \in running

\* A request in flight keeps its connection to the owner until it returns,
\* unless the drain has waited for it all of http.shutdown_timeout: neither the
\* order of the stop hooks nor the process's own stop deadline (P1.7) takes
\* the connection away earlier.
ConnectionsOutliveHandlers ==
    \A h \in Handlers : inflight[h] # "none" =>
      conn[inflight[h]].state = "open" \/ drain = "expired"

\* Exit code 0 tells the truth: the process was asked to stop, every request
\* was drained and every stop hook ran without an error.
ExitZeroIsClean ==
    exit = 0 => /\ signal = "term" /\ drain = "clean" /\ started = 0
                /\ running = {} /\ \A c \in Conns : conn[c].state # "open"

\* Unless the deadline of its stop hooks passed, a process that exits has
\* stopped what it had started, after a failed start too: its watches and its
\* listeners. Of the connections its constructors opened only Control's is ever
\* left open, and only when run never started: its OnStop is what closes it,
\* and a failed bind rolls back without it.
StartedIsStopped ==
    phase = "exited" /\ started = 0 =>
      /\ running = {} /\ metrics # "serving" /\ listener # "serving"
      /\ step = Len(Build) =>
           \A c \in Conns : conn[c].state = "open" => c = "control" /\ drain = "none"

\* A listener that stops on its own ends the process with a non-zero code,
\* unless it was asked to stop before.
DeadListenerExits == listener = "failed" ~> phase = "exited" /\ (exit = 1 \/ signal = "term")

\* A process that is asked to stop exits, whatever its requests do.
StopExits == signal # "none" ~> phase = "exited"
=============================================================================
