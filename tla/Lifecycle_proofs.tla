-------------------------- MODULE Lifecycle_proofs --------------------------
(***************************************************************************)
(* Proofs about the life of the process, for every file, environment and   *)
(* number of requests in flight. The inductive invariant says which hooks  *)
(* there are and in which order, which of them are started, and what each  *)
(* started hook holds open.                                                *)
(***************************************************************************)
EXTENDS Lifecycle, SequenceTheorems, TLAPS

\* Where in Build a hook is appended: the order of the hooks.
Rank == [identities |-> 2, knowledge |-> 4, mcp |-> 5, tracer |-> 6, metrics |-> 7, run |-> 9]

HooksInv ==
    /\ \A i \in DOMAIN hooks : Rank[hooks[i]] <= step
    /\ \A i, j \in DOMAIN hooks : i < j => Rank[hooks[i]] < Rank[hooks[j]]
    /\ step >= 2 => Len(hooks) >= 1 /\ hooks[1] = "identities"
    /\ step = 9 => hooks[Len(hooks)] = "run"

PhaseInv ==
    /\ phase \in {"load", "build"} => started = 0 /\ step < 9
    /\ phase = "load" => verifier = "none" /\ \A c \in Conns : conn[c].state = "none"
    /\ phase \in {"start", "running", "stopping", "rollback"} => step = 9
    /\ phase \in {"build", "start", "running", "stopping", "rollback"} => validate(cfg)
    /\ phase = "load" => step = 0
    /\ phase = "running" => started = Len(hooks)
    /\ phase = "rollback" => started < Len(hooks)
    /\ phase \in {"running", "stopping"} => listener # "none"
    /\ phase \in {"load", "build", "rollback"} => listener = "none"
    /\ phase = "start" => (started < Len(hooks) <=> listener = "none")
    /\ phase \notin {"stopping", "exited"} => drain = "none"
    /\ phase = "stopping" => signal # "none"
    /\ exit # -1 => phase = "exited"

\* While the server is up its hook is the last one started.
ServeInv ==
    /\ phase # "exited" /\ listener # "none" /\ drain \in {"none", "waiting"} =>
         started = Len(hooks) /\ step = 9
    /\ listener = "none" => \A h \in Handlers : inflight[h] = "none"
    /\ drain = "clean" => \A h \in Handlers : inflight[h] = "none"
    /\ listener = "serving" => drain = "none"

StopInv ==
    /\ phase = "stopping" /\ drain \in {"none", "waiting"} => left = StopTimeout
    /\ drain \in {"expired", "cut"} => failed
    /\ signal = "fault" => code = 1

RunningInv ==
    /\ started = 0 => running = {}
    /\ started > 0 /\ phase # "exited" => running = DOMAIN reloaders

HookOf == [knowledge |-> "knowledge", mcp |-> "mcp", collector |-> "tracer"]

\* What is open belongs to a hook, and while stopping to one still started.
OpenInv ==
    phase # "exited" =>
      /\ \A c \in Owners \cup {"collector"} : conn[c].state = "open" =>
           \E i \in DOMAIN hooks : /\ hooks[i] = HookOf[c]
                                   /\ phase \in {"stopping", "rollback"} => i <= started
      /\ phase = "stopping" /\ conn["control"].state = "open" => drain \in {"none", "waiting"}
      /\ metrics = "serving" => \E i \in DOMAIN hooks : hooks[i] = "metrics" /\ i <= started

\* Until the drain ends every placed connection is open.
PlacedInv ==
    phase \in {"build", "start", "running"} \/ (phase = "stopping" /\ drain \in {"none", "waiting"}) =>
      /\ step >= 3 => conn["control"].state = "open"
      /\ step >= 4 /\ cfg["knowledge"].address # Unset => conn["knowledge"].state = "open"
      /\ step >= 5 /\ cfg["mcp"].address # Unset => conn["mcp"].state = "open"

RotationInv ==
    \A c \in Conns : conn[c].state = "open" /\ conn[c].auth \notin {Plaintext, ServerTLS} =>
      reloaders[conn[c].auth] = conn[c].files

\* Nothing is plaintext behind a closed guard.
PlaintextInv ==
    ~cfg.development.enabled =>
      /\ verifier # "fixture"
      /\ verifier = "oidc" => cfg.oidc.issuer = "https"
      /\ \A c \in Conns : conn[c].state # "none" => conn[c].auth # Plaintext

\* The guard is open only when the file opens it.
GuardInv == cfg.development.enabled => FileOpensGuard

\* A request keeps its connection until the drain gives up, and the stop
\* deadline never cuts the drain short.
ConnectionsInv ==
    \A h \in Handlers : inflight[h] # "none" =>
      conn[inflight[h]].state = "open" \/ drain \in {"expired", "cut"}
DrainInv == drain # "cut"

IInv ==
    /\ TypeOK /\ HooksInv /\ PhaseInv /\ ServeInv /\ StopInv /\ RunningInv /\ OpenInv
    /\ PlacedInv /\ RotationInv
    /\ PlaintextInv /\ ConnectionsInv /\ DrainInv
    /\ ExitZeroIsClean /\ StartedIsStopped

----------------------------------------------------------------------------
(* The configuration.                                                      *)

\* What the process relies on of a snapshot the loader accepted.
LEMMA AcceptedFacts ==
    ASSUME cfg \in Snapshot, validate(cfg)
    PROVE  /\ cfg.http.shutdown_timeout \in Int
           /\ 0 < cfg.http.shutdown_timeout
           /\ cfg.http.shutdown_timeout < StopTimeout
           /\ ~cfg.development.enabled => cfg.auth.mode = "oidc"
           /\ cfg.auth.mode = "oidc" /\ ~cfg.development.enabled => cfg.oidc.issuer = "https"
<1>1. cfg.http.shutdown_timeout \in Int
  BY DEF Snapshot, HTTP
<1>2. Within(cfg.http.shutdown_timeout, Second, MaxShutdownTimeout)
  <2>1. validateHTTP(cfg.http)
    BY DEF validate
  <2> QED
    BY <2>1 DEF validateHTTP
<1>3. 0 < cfg.http.shutdown_timeout /\ cfg.http.shutdown_timeout < StopTimeout
  BY <1>1, <1>2 DEF Within, StopTimeout, MaxShutdownTimeout, Minute, Second
<1>4. validateAuth(cfg)
  BY DEF validate
<1>5. ~cfg.development.enabled => cfg.auth.mode = "oidc"
  BY <1>4 DEF validateAuth
<1>6. cfg.auth.mode = "oidc" /\ ~cfg.development.enabled => cfg.oidc.issuer = "https"
  BY <1>4 DEF validateAuth, validateOIDC
<1> QED
  BY <1>1, <1>3, <1>5, <1>6

\* No variable of the environment can open the development guard.
LEMMA EnvironmentCannotOpen ==
    ASSUME NEW file, NEW env, LoadFrom(file, env).development.enabled
    PROVE  <<"development", "enabled">> \in DOMAIN file /\ file[<<"development", "enabled">>]
<1> DEFINE c == Overlay(defaults, file)
           k == <<"development", "enabled">>
<1>1. \A n \in DOMAIN envOverrides : envOverrides[n] # k
  BY DEF envOverrides
<1>2. DOMAIN defaults = DOMAIN c /\ "development" \in DOMAIN defaults
  BY DEF defaults, Overlay
<1>3. c["development"] = [x \in DOMAIN defaults["development"] |->
         IF <<"development", x>> \in DOMAIN file THEN file[<<"development", x>>]
         ELSE defaults["development"][x]]
  BY <1>2 DEF Overlay
<1>4. DOMAIN defaults["development"] = {"enabled"} /\ ~defaults["development"]["enabled"]
  BY DEF defaults
<1>5. c["development"]["enabled"] = IF k \in DOMAIN file THEN file[k] ELSE defaults["development"]["enabled"]
  BY <1>3, <1>4
<1>6. "enabled" \in DOMAIN c["development"]
  BY <1>3, <1>4
<1> HIDE DEF c
<1>7. applyEnv(c, env)["development"]["enabled"] = c["development"]["enabled"]
  BY <1>1, <1>2, <1>6 DEF applyEnv
<1> QED
  BY <1>4, <1>5, <1>7 DEF LoadFrom, c

\* Asking for a reloader gives one of those files and keeps the others.
LEMMA ReloaderFacts ==
    ASSUME NEW files \in [FileKeys -> STRING], reloaders \in Seq([FileKeys -> STRING])
    PROVE  /\ reloader(files)[1] \in Seq([FileKeys -> STRING])
           /\ reloader(files)[2] \in DOMAIN reloader(files)[1]
           /\ reloader(files)[2] \in Nat \ {0}
           /\ reloader(files)[1][reloader(files)[2]] = files
           /\ \A i \in DOMAIN reloaders : /\ i \in DOMAIN reloader(files)[1]
                                          /\ reloader(files)[1][i] = reloaders[i]
<1>1. CASE files = OwnFiles /\ own # 0
  <2>1. own \in DOMAIN reloaders /\ reloaders[own] = OwnFiles
    BY <1>1 DEF own
  <2> QED
    BY <1>1, <2>1 DEF reloader
<1>2. CASE ~(files = OwnFiles /\ own # 0)
  BY <1>2 DEF reloader
<1> QED
  BY <1>1, <1>2

----------------------------------------------------------------------------
(* The steps.                                                              *)

\* The place of a constructor in the order.
LEMMA BuildFacts ==
    ASSUME NEW name, step \in 0..8, Building(name)
    PROVE  /\ name = "verifier" => step = 0
           /\ name = "identities" => step = 1
           /\ name = "control" => step = 2
           /\ name = "knowledge" => step = 3
           /\ name = "mcp" => step = 4
           /\ name = "tracer" => step = 5
           /\ name = "metrics" => step = 6
           /\ name = "server" => step = 7
           /\ name = "run" => step = 8
<1>1. step \in {0, 1, 2, 3, 4, 5, 6, 7, 8}
  OBVIOUS
<1> QED
  BY <1>1 DEF Building, Build

\* There are nine constructors.
LEMMA BuildLength == Len(Build) = 9
BY DEF Build

\* What appending a hook leaves of the others.
LEMMA HookAppended ==
    ASSUME NEW name \in HookNames, hooks \in Seq(HookNames), hooks' = Append(hooks, name)
    PROVE  /\ hooks' \in Seq(HookNames)
           /\ Len(hooks') = Len(hooks) + 1
           /\ DOMAIN hooks = 1..Len(hooks)
           /\ DOMAIN hooks' = 1..(Len(hooks) + 1)
           /\ \A i \in DOMAIN hooks : hooks'[i] = hooks[i]
           /\ hooks'[Len(hooks) + 1] = name
OBVIOUS

\* A constructor whose hook is the next of the order keeps the order.
LEMMA HooksOrdered ==
    ASSUME NEW name \in HookNames, hooks \in Seq(HookNames), step \in 0..8, HooksInv,
           hooks' = Append(hooks, name), step' = step + 1, Rank[name] = step + 1,
           name = "identities" => Len(hooks) = 0
    PROVE  HooksInv'
<1>1. \A i \in DOMAIN hooks' : hooks'[i] \in HookNames
  BY HookAppended
<1>2. \A n \in HookNames : Rank[n] \in Nat
  BY DEF Rank, HookNames
<1>3. ASSUME NEW i \in DOMAIN hooks'
      PROVE  /\ i \in DOMAIN hooks => Rank[hooks'[i]] <= step
             /\ i \notin DOMAIN hooks => i = Len(hooks) + 1 /\ Rank[hooks'[i]] = step'
  BY HookAppended, <1>3 DEF HooksInv
<1>4. \A i \in DOMAIN hooks' : Rank[hooks'[i]] <= step'
  BY <1>1, <1>2, <1>3
<1>5. \A i, j \in DOMAIN hooks' : i < j => Rank[hooks'[i]] < Rank[hooks'[j]]
  BY <1>1, <1>2, <1>3, HookAppended DEF HooksInv
<1>6. step' >= 2 => Len(hooks') >= 1 /\ hooks'[1] = "identities"
  BY HookAppended DEF HooksInv, Rank, HookNames
<1>7. step' = 9 => hooks'[Len(hooks')] = "run"
  BY HookAppended DEF Rank, HookNames
<1> QED
  BY <1>4, <1>5, <1>6, <1>7 DEF HooksInv

\* The hook of run is the last one.
LEMMA RunIsLast ==
    ASSUME TypeOK, HooksInv, NEW i \in DOMAIN hooks, hooks[i] = "run"
    PROVE  i = Len(hooks)
<1>1. Rank[hooks[i]] = 9 /\ hooks[Len(hooks)] \in HookNames /\ Len(hooks) \in DOMAIN hooks
  BY DEF TypeOK, Rank
<1>2. \A n \in HookNames : Rank[n] \in Nat
  BY DEF Rank, HookNames
<1>3. ~(i < Len(hooks))
  BY <1>1, <1>2 DEF TypeOK, HooksInv
<1> QED
  BY <1>3 DEF TypeOK

\* A hook that is being stopped before the one of run: the drain is over.
LEMMA BelowRun ==
    ASSUME IInv, NEW name, Stopping(name), name # "run"
    PROVE  /\ started \in DOMAIN hooks
           /\ started < Len(hooks)
           /\ phase = "stopping" => drain \notin {"none", "waiting"}
<1>1. started \in DOMAIN hooks /\ step = 9 /\ hooks[started] # "run"
  BY DEF IInv, TypeOK, PhaseInv, Stopping
<1>2. started # Len(hooks)
  BY <1>1 DEF IInv, HooksInv
<1> QED
  BY <1>1, <1>2 DEF IInv, TypeOK, PhaseInv, ServeInv

\* The hook of run is stopped first, by a process that is asked to stop.
LEMMA AtRun ==
    ASSUME IInv, Stopping("run")
    PROVE  phase = "stopping" /\ started = Len(hooks) /\ started \in DOMAIN hooks
<1>1. started \in DOMAIN hooks /\ hooks[started] = "run"
  BY DEF IInv, TypeOK, Stopping
<1>2. started = Len(hooks)
  BY <1>1, RunIsLast DEF IInv
<1> QED
  BY <1>1, <1>2 DEF IInv, PhaseInv, Stopping

\* Closing a connection changes its state and nothing else.
LEMMA ClosesFacts ==
    ASSUME TypeOK, NEW c \in Conns, Closes(c)
    PROVE  /\ conn' \in [Conns -> [auth : Int, files : [FileKeys -> STRING] \cup {<<>>},
                                   state : {"none", "open", "closed"}]]
           /\ \A d \in Conns : /\ conn'[d].auth = conn[d].auth
                               /\ conn'[d].files = conn[d].files
                               /\ conn'[d].state = "open" => conn[d].state = "open" /\ d # c
                               /\ conn'[d].state = "none" <=> conn[d].state = "none"
<1>1. conn \in [Conns -> [auth : Int, files : [FileKeys -> STRING] \cup {<<>>},
                          state : {"none", "open", "closed"}]]
  BY DEF TypeOK
<1> HIDE DEF Conns
<1> QED
  BY <1>1 DEF Closes

\* A constructor keeps what is open with its hook.
LEMMA OpenKept ==
    ASSUME IInv, NEW name \in HookNames, phase = "build", phase' \in {"build", "start"},
           hooks' = Append(hooks, name), metrics' = metrics, started' = started,
           \A c \in Owners \cup {"collector"} :
             conn'[c].state = "open" => conn[c].state = "open" \/ name = HookOf[c]
    PROVE  OpenInv'
<1>1. metrics # "serving"
  BY DEF IInv, OpenInv, PhaseInv, TypeOK
<1>2. ASSUME NEW c \in Owners \cup {"collector"}, conn'[c].state = "open"
      PROVE  \E i \in DOMAIN hooks' : hooks'[i] = HookOf[c]
  <2>1. CASE conn[c].state = "open"
    <3>1. PICK i \in DOMAIN hooks : hooks[i] = HookOf[c]
      BY <1>2, <2>1 DEF IInv, OpenInv
    <3> QED
      BY <3>1, HookAppended DEF IInv, TypeOK
  <2>2. CASE name = HookOf[c]
    BY <2>2, HookAppended DEF IInv, TypeOK
  <2> QED
    BY <1>2, <2>1, <2>2
<1> QED
  BY <1>1, <1>2 DEF OpenInv

ConnType == [auth : Int, files : [FileKeys -> STRING] \cup {<<>>}, state : {"none", "open", "closed"}]

\* A constructor opened c, with material its reloader keeps or behind the guard.
Opened(c) ==
    /\ reloaders' \in Seq([FileKeys -> STRING])
    /\ conn' \in [Conns -> ConnType]
    /\ \A d \in Conns : conn'[d].auth \in {Plaintext, ServerTLS} \cup DOMAIN reloaders'
    /\ \A d \in Conns \ {c} : conn'[d].state = conn[d].state /\ conn'[d].auth = conn[d].auth
    /\ conn'[c].state = "open"
    /\ conn'[c].auth = Plaintext => cfg.development.enabled
    /\ RotationInv'

\* A connection without a certificate of its own.
LEMMA PlainOpened ==
    ASSUME IInv, NEW c \in Conns, NEW auth \in {Plaintext, ServerTLS}, Opens(c, auth, <<>>),
           auth = Plaintext => cfg.development.enabled, UNCHANGED reloaders
    PROVE  Opened(c)
<1>1. conn \in [Conns -> ConnType] /\ auth \in Int
  BY DEF IInv, TypeOK, ConnType, Plaintext, ServerTLS
<1>2. conn' \in [Conns -> ConnType] /\ conn'[c].state = "open" /\ conn'[c].auth = auth
  BY <1>1 DEF Opens, ConnType
<1>3. \A d \in Conns \ {c} : conn'[d] = conn[d]
  BY <1>1 DEF Opens
<1>4. \A d \in Conns : conn[d].auth \in {Plaintext, ServerTLS} \cup DOMAIN reloaders
  BY DEF IInv, TypeOK
<1>5. reloaders' = reloaders /\ reloaders \in Seq([FileKeys -> STRING]) /\ RotationInv
  BY DEF IInv, TypeOK
<1> HIDE DEF Conns
<1>6. \A d \in Conns : conn'[d].auth \in {Plaintext, ServerTLS} \cup DOMAIN reloaders'
  <2> TAKE d \in Conns
  <2> QED
    BY <1>2, <1>3, <1>4, <1>5
<1>7. RotationInv'
  BY <1>2, <1>3, <1>5 DEF RotationInv
<1>8. \A d \in Conns \ {c} : conn'[d].state = conn[d].state /\ conn'[d].auth = conn[d].auth
  BY <1>3
<1> QED
  BY <1>2, <1>5, <1>6, <1>7, <1>8 DEF Opened

\* A connection that presents the files of a reloader.
LEMMA RotatingOpened ==
    ASSUME IInv, NEW c \in Conns, NEW files \in [FileKeys -> STRING], Rotating(c, files)
    PROVE  Opened(c)
<1> DEFINE r == reloader(files)
<1>1. /\ reloaders' \in Seq([FileKeys -> STRING])
      /\ r[2] \in DOMAIN reloaders' /\ r[2] \in Nat \ {0}
      /\ reloaders'[r[2]] = files
      /\ \A i \in DOMAIN reloaders : i \in DOMAIN reloaders' /\ reloaders'[i] = reloaders[i]
  BY ReloaderFacts DEF IInv, TypeOK, Rotating
<1>2. Opens(c, r[2], files)
  BY DEF Rotating
<1> HIDE DEF r
<1>3. conn \in [Conns -> ConnType]
  BY DEF IInv, TypeOK, ConnType
<1>4. /\ conn' \in [Conns -> ConnType] /\ conn'[c].state = "open"
      /\ conn'[c].auth = r[2] /\ conn'[c].files = files
  BY <1>1, <1>2, <1>3 DEF Opens, ConnType
<1>5. \A d \in Conns \ {c} : conn'[d] = conn[d]
  BY <1>2, <1>3 DEF Opens
<1>6. \A d \in Conns : conn'[d].auth \in {Plaintext, ServerTLS} \cup DOMAIN reloaders'
  BY <1>1, <1>4, <1>5 DEF IInv, TypeOK
<1>7. RotationInv'
  <2> SUFFICES ASSUME NEW d \in Conns, conn'[d].auth \notin {Plaintext, ServerTLS},
                      conn'[d].state = "open"
               PROVE  reloaders'[conn'[d].auth] = conn'[d].files
    BY DEF RotationInv
  <2>1. CASE d = c
    BY <1>1, <1>4, <2>1
  <2>2. CASE d # c
    <3>1. conn'[d] = conn[d]
      BY <1>5, <2>2
    <3>2. conn[d].auth \in DOMAIN reloaders /\ reloaders[conn[d].auth] = conn[d].files
      BY <3>1 DEF IInv, TypeOK, RotationInv
    <3> QED
      BY <1>1, <3>1, <3>2
  <2> QED
    BY <2>1, <2>2
<1> QED
  BY <1>1, <1>4, <1>5, <1>6, <1>7 DEF Opened, Plaintext

\* The files of a client of a decoded snapshot.
LEMMA ResolvedType ==
    ASSUME cfg \in Snapshot, NEW c \in Clients
    PROVE  Resolved(cfg, c) \in [FileKeys -> STRING]
<1>1. \A f \in FileKeys : cfg[c][f] \in STRING /\ cfg.identity[f] \in STRING
  BY DEF Snapshot, Clients, FileKeys, Control, Owner, Identity
<1> QED
  BY <1>1 DEF Resolved

\* The credential of a client opens its connection.
LEMMA ClientOpened ==
    ASSUME IInv, phase = "build", NEW c \in Clients, client(c)
    PROVE  Opened(c)
<1>1. c \in Conns
  BY DEF Conns
<1>2. CASE cfg[c].mode = "development" /\ cfg.development.enabled /\ Opens(c, Plaintext, <<>>)
            /\ UNCHANGED reloaders
  BY <1>1, <1>2, PlainOpened
<1>3. CASE Rotating(c, Resolved(cfg, c))
  BY <1>1, <1>3, ResolvedType, RotatingOpened DEF IInv, TypeOK
<1> QED
  BY <1>2, <1>3 DEF client

\* The collector's credential opens its connection.
LEMMA CollectorOpened ==
    ASSUME IInv, phase = "build", collectorCredentials(cfg.otlp_tls)
    PROVE  Opened("collector")
<1> DEFINE t == cfg.otlp_tls
           files == [f \in FileKeys |-> t[f]]
<1>1. "collector" \in Conns
  BY DEF Conns
<1>2. CASE cfg.development.enabled /\ Opens("collector", Plaintext, <<>>) /\ UNCHANGED reloaders
  BY <1>1, <1>2, PlainOpened
<1>3. CASE Opens("collector", ServerTLS, <<>>) /\ UNCHANGED reloaders
  BY <1>1, <1>3, PlainOpened DEF ServerTLS, Plaintext
<1>4. CASE Rotating("collector", files)
  <2>1. files \in [FileKeys -> STRING]
    BY DEF IInv, TypeOK, Snapshot, ClientTLS, FileKeys
  <2> HIDE DEF files
  <2> QED
    BY <1>1, <1>4, <2>1, RotatingOpened
<1> QED
  BY <1>2, <1>3, <1>4 DEF collectorCredentials

\* The state of a starting process.
LEMMA InitIInv == Init => IInv
<1> SUFFICES ASSUME Init PROVE IInv
  OBVIOUS
<1>1. TypeOK
  <2>1. phase \in Phases /\ step \in 0..9 /\ started \in 0..Len(hooks) /\ hooks \in Seq(HookNames)
    BY DEF Init, Phases
  <2>2. reloaders \in Seq([FileKeys -> STRING]) /\ running \subseteq DOMAIN reloaders
    BY DEF Init
  <2>3. conn \in [Conns -> [auth : Int, files : [FileKeys -> STRING] \cup {<<>>},
                            state : {"none", "open", "closed"}]]
    BY DEF Init, NoConn, Plaintext
  <2>4. \A c \in Conns : conn[c].auth \in {Plaintext, ServerTLS} \cup DOMAIN reloaders
    BY DEF Init, NoConn
  <2> QED
    BY <2>1, <2>2, <2>3, <2>4 DEF Init, TypeOK
<1>2. HooksInv /\ PhaseInv /\ ServeInv /\ StopInv /\ RunningInv /\ OpenInv /\ PlacedInv
  BY DEF Init, HooksInv, PhaseInv, ServeInv, StopInv, RunningInv, OpenInv, PlacedInv,
         NoConn, Conns, Clients, Owners
<1>3. RotationInv /\ PlaintextInv
  BY DEF Init, RotationInv, PlaintextInv, NoConn
<1>4. ConnectionsInv /\ DrainInv /\ ExitZeroIsClean /\ StartedIsStopped
  BY DEF Init, ConnectionsInv, DrainInv, ExitZeroIsClean, StartedIsStopped, Build
<1> QED
  BY <1>1, <1>2, <1>3, <1>4 DEF IInv


\* A loaded snapshot has the types of its keys and meets every rule.
LEMMA LoadStep == ASSUME IInv, Load PROVE IInv'
<1> USE DEF Load, Accepted, buildVars, linkVars, httpVars, sigVars, stopVars
<1>1. TypeOK'
  BY BuildLength DEF IInv, TypeOK, Phases, HookNames, Conns
<1>2. HooksInv'
  BY BuildLength DEF IInv, TypeOK, HookNames, HooksInv, PhaseInv, Rank
<1>3. PhaseInv'
  BY BuildLength DEF IInv, TypeOK, PhaseInv, ServeInv
<1>4. ServeInv' /\ ConnectionsInv'
  BY BuildLength DEF IInv, TypeOK, HooksInv, PhaseInv, ServeInv, ConnectionsInv
<1>5. StopInv' /\ DrainInv'
  BY BuildLength DEF IInv, TypeOK, PhaseInv, StopInv, ServeInv, DrainInv
<1>6. RunningInv'
  BY BuildLength DEF IInv, TypeOK, HooksInv, PhaseInv, RunningInv
<1>7. OpenInv'
  BY BuildLength DEF IInv, TypeOK, HooksInv, PhaseInv, ServeInv, OpenInv, HookOf, Owners, Conns, Clients
<1>8. PlacedInv'
  BY BuildLength DEF IInv, TypeOK, HooksInv, PhaseInv, ServeInv, PlacedInv, Conns, Clients, Owners
<1>9. RotationInv' /\ PlaintextInv'
  BY BuildLength DEF IInv, TypeOK, PhaseInv, RotationInv, PlaintextInv, Conns
<1>10. ExitZeroIsClean' /\ StartedIsStopped'
  BY BuildLength DEF IInv, TypeOK, HooksInv, PhaseInv, ServeInv, StopInv, RunningInv, OpenInv, ExitZeroIsClean, StartedIsStopped, Conns, Clients, Owners
<1> QED
  BY <1>1, <1>2, <1>3, <1>4, <1>5, <1>6, <1>7, <1>8, <1>9, <1>10 DEF IInv

\* A refused start leaves nothing started.
LEMMA RefuseStep == ASSUME IInv, Refuse PROVE IInv'
<1> USE DEF Refuse, buildVars, linkVars, httpVars, sigVars, stopVars
<1>1. TypeOK'
  BY BuildLength DEF IInv, TypeOK, Phases, HookNames, Conns
<1>2. HooksInv'
  BY BuildLength DEF IInv, TypeOK, HookNames, HooksInv, PhaseInv, Rank
<1>3. PhaseInv'
  BY BuildLength DEF IInv, TypeOK, PhaseInv, ServeInv
<1>4. ServeInv' /\ ConnectionsInv'
  BY BuildLength DEF IInv, TypeOK, HooksInv, PhaseInv, ServeInv, ConnectionsInv
<1>5. StopInv' /\ DrainInv'
  BY BuildLength DEF IInv, TypeOK, PhaseInv, StopInv, ServeInv, DrainInv
<1>6. RunningInv'
  BY BuildLength DEF IInv, TypeOK, HooksInv, PhaseInv, RunningInv
<1>7. OpenInv'
  BY BuildLength DEF IInv, TypeOK, HooksInv, PhaseInv, ServeInv, OpenInv, HookOf, Owners, Conns, Clients
<1>8. PlacedInv'
  BY BuildLength DEF IInv, TypeOK, HooksInv, PhaseInv, ServeInv, PlacedInv, Conns, Clients, Owners
<1>9. RotationInv' /\ PlaintextInv'
  BY BuildLength DEF IInv, TypeOK, PhaseInv, RotationInv, PlaintextInv, Conns
<1>10. ExitZeroIsClean' /\ StartedIsStopped'
  BY BuildLength DEF IInv, TypeOK, HooksInv, PhaseInv, ServeInv, StopInv, RunningInv, OpenInv, ExitZeroIsClean, StartedIsStopped, Conns, Clients, Owners
<1> QED
  BY <1>1, <1>2, <1>3, <1>4, <1>5, <1>6, <1>7, <1>8, <1>9, <1>10 DEF IInv

\* The verifier is the one the accepted mode names.
LEMMA newVerifierStep == ASSUME IInv, newVerifier PROVE IInv'
<1> USE DEF newVerifier, Built, buildVars, linkVars, httpVars, sigVars, stopVars
<1>0. step = 0 /\ phase = "build"
  BY BuildFacts DEF IInv, TypeOK, PhaseInv, Built, Building
<1>1. TypeOK'
  BY <1>0, BuildLength DEF IInv, TypeOK, Phases, HookNames, Conns
<1>2. HooksInv'
  BY <1>0, BuildLength DEF IInv, TypeOK, HookNames, HooksInv, PhaseInv, Rank
<1>3. PhaseInv'
  BY <1>0, BuildLength DEF IInv, TypeOK, PhaseInv, ServeInv
<1>4. ServeInv' /\ ConnectionsInv'
  BY <1>0, BuildLength DEF IInv, TypeOK, HooksInv, PhaseInv, ServeInv, ConnectionsInv
<1>5. StopInv' /\ DrainInv'
  BY <1>0, BuildLength DEF IInv, TypeOK, PhaseInv, StopInv, ServeInv, DrainInv
<1>6. RunningInv'
  BY <1>0, BuildLength DEF IInv, TypeOK, HooksInv, PhaseInv, RunningInv
<1>7. OpenInv'
  BY <1>0, BuildLength DEF IInv, TypeOK, HooksInv, PhaseInv, ServeInv, OpenInv, HookOf, Owners, Conns, Clients
<1>8. PlacedInv'
  BY <1>0, BuildLength DEF IInv, TypeOK, HooksInv, PhaseInv, ServeInv, PlacedInv, Conns, Clients, Owners
<1>9. RotationInv' /\ PlaintextInv'
  <2>1. cfg \in Snapshot /\ validate(cfg)
    BY <1>0 DEF IInv, TypeOK, PhaseInv
  <2>2. /\ ~cfg.development.enabled => cfg.auth.mode = "oidc"
        /\ cfg.auth.mode = "oidc" /\ ~cfg.development.enabled => cfg.oidc.issuer = "https"
    BY <2>1, AcceptedFacts
  <2> QED
    BY <2>2 DEF IInv, RotationInv, PlaintextInv
<1>10. ExitZeroIsClean' /\ StartedIsStopped'
  BY <1>0, BuildLength DEF IInv, TypeOK, HooksInv, PhaseInv, ServeInv, StopInv, RunningInv, OpenInv, ExitZeroIsClean, StartedIsStopped, Conns, Clients, Owners
<1> QED
  BY <1>1, <1>2, <1>3, <1>4, <1>5, <1>6, <1>7, <1>8, <1>9, <1>10 DEF IInv

\* The hook of the identities is the first one.
LEMMA newIdentitiesStep == ASSUME IInv, newIdentities PROVE IInv'
<1> USE DEF newIdentities, Built, buildVars, linkVars, httpVars, sigVars, stopVars
<1>0. step = 1 /\ phase = "build"
  BY BuildFacts DEF IInv, TypeOK, PhaseInv, Built, Building
<1> "identities" \in HookNames
  BY DEF HookNames
<1>1. TypeOK'
  BY <1>0, BuildLength DEF IInv, TypeOK, Phases, HookNames, Conns
<1>2. HooksInv'
  <2>1. Len(hooks) = 0
    <3> SUFFICES ASSUME Len(hooks) # 0 PROVE FALSE
      OBVIOUS
    <3>1. 1 \in DOMAIN hooks /\ hooks[1] \in HookNames
      BY DEF IInv, TypeOK
    <3> QED
      BY <1>0, <3>1 DEF IInv, HooksInv, Rank, HookNames
  <2> QED
    BY <1>0, <2>1, HooksOrdered DEF IInv, TypeOK, HookNames, Rank
<1>3. PhaseInv'
  BY <1>0, BuildLength DEF IInv, TypeOK, PhaseInv, ServeInv
<1>4. ServeInv' /\ ConnectionsInv'
  BY <1>0, BuildLength DEF IInv, TypeOK, HooksInv, PhaseInv, ServeInv, ConnectionsInv
<1>5. StopInv' /\ DrainInv'
  BY <1>0, BuildLength DEF IInv, TypeOK, PhaseInv, StopInv, ServeInv, DrainInv
<1>6. RunningInv'
  BY <1>0, BuildLength DEF IInv, TypeOK, HooksInv, PhaseInv, RunningInv
<1>7. OpenInv'
  BY <1>0, OpenKept DEF IInv, HookNames
<1>8. PlacedInv'
  BY <1>0, BuildLength DEF IInv, TypeOK, HooksInv, PhaseInv, ServeInv, PlacedInv, Conns, Clients, Owners
<1>9. RotationInv' /\ PlaintextInv'
  BY <1>0, BuildLength DEF IInv, TypeOK, PhaseInv, RotationInv, PlaintextInv, Conns
<1>10. ExitZeroIsClean' /\ StartedIsStopped'
  BY <1>0, BuildLength DEF IInv, TypeOK, HooksInv, PhaseInv, ServeInv, StopInv, RunningInv, OpenInv, ExitZeroIsClean, StartedIsStopped, Conns, Clients, Owners
<1> QED
  BY <1>1, <1>2, <1>3, <1>4, <1>5, <1>6, <1>7, <1>8, <1>9, <1>10 DEF IInv

\* The Control connection is opened, without a hook.
LEMMA newControlStep == ASSUME IInv, newControl PROVE IInv'
<1> USE DEF newControl, Built, buildVars, linkVars, httpVars, sigVars, stopVars
<1>0. step = 2 /\ phase = "build" /\ started = 0 /\ listener = "none" /\ running = {}
  BY BuildFacts DEF IInv, TypeOK, PhaseInv, RunningInv, Building
<1>c. Opened("control")
  BY <1>0, ClientOpened DEF Clients
<1>1. TypeOK'
  BY <1>0, <1>c DEF IInv, TypeOK, Opened, ConnType
<1>2. HooksInv'
  BY <1>0, <1>c, BuildLength DEF IInv, TypeOK, HookNames, HooksInv, PhaseInv, Rank
<1>3. PhaseInv'
  BY <1>0, <1>c, BuildLength DEF IInv, TypeOK, PhaseInv, ServeInv
<1>4. ServeInv' /\ ConnectionsInv'
  BY <1>0 DEF IInv, ServeInv, ConnectionsInv
<1>5. StopInv' /\ DrainInv'
  BY <1>0, <1>c, BuildLength DEF IInv, TypeOK, PhaseInv, StopInv, ServeInv, DrainInv
<1>6. RunningInv'
  BY <1>0, <1>c, BuildLength DEF IInv, TypeOK, HooksInv, PhaseInv, RunningInv
<1>7. OpenInv'
  <2>1. \A c \in Owners \cup {"collector"} : conn'[c].state = "open" => conn[c].state = "open"
    BY <1>c DEF Opened, Conns, Clients, Owners
  <2> QED
    BY <1>0, <2>1 DEF IInv, OpenInv
<1>8. PlacedInv'
  BY <1>0, <1>c DEF IInv, PlacedInv, Opened
<1>9. RotationInv' /\ PlaintextInv'
  BY <1>0, <1>c DEF IInv, PlaintextInv, Opened
<1>10. ExitZeroIsClean' /\ StartedIsStopped'
  BY <1>0, BuildLength DEF IInv, PhaseInv, ExitZeroIsClean, StartedIsStopped
<1> QED
  BY <1>1, <1>2, <1>3, <1>4, <1>5, <1>6, <1>7, <1>8, <1>9, <1>10 DEF IInv

\* A placed owner is dialled and gets a hook, another is left out.
LEMMA newGatewayStep == ASSUME NEW o \in Owners, IInv, newGateway(o) PROVE IInv'
<1> USE DEF newGateway, Built, buildVars, linkVars, httpVars, sigVars, stopVars
<1>0. /\ (o = "knowledge" /\ step = 3) \/ (o = "mcp" /\ step = 4)
      /\ phase = "build" /\ started = 0 /\ listener = "none" /\ running = {}
  <2>1. phase = "build" /\ started = 0 /\ listener = "none" /\ running = {} /\ step \in 0..8
    BY DEF IInv, TypeOK, PhaseInv, RunningInv, Building
  <2>2. o = "knowledge" \/ o = "mcp"
    BY DEF Owners
  <2>3. Building(o)
    OBVIOUS
  <2>4. o = "knowledge" => step = 3
    BY <2>1, <2>3, BuildFacts
  <2>5. o = "mcp" => step = 4
    BY <2>1, <2>3, BuildFacts
  <2> QED
    BY <2>1, <2>2, <2>4, <2>5
<1>c. \/ cfg[o].address # Unset /\ hooks' = Append(hooks, o) /\ Opened(o)
      \/ cfg[o].address = Unset /\ UNCHANGED <<hooks, conn, reloaders>>
  BY <1>0, ClientOpened DEF Clients, Owners
<1>1. TypeOK'
  <2>1. CASE hooks' = Append(hooks, o) /\ Opened(o)
    <3>1. o \in HookNames
      BY DEF HookNames, Owners
    <3>2. hooks' \in Seq(HookNames) /\ 0 \in 0..Len(hooks')
      BY <2>1, <3>1, HookAppended DEF IInv, TypeOK
    <3> QED
      BY <1>0, <2>1, <3>2 DEF IInv, TypeOK, Opened, ConnType
  <2>2. CASE UNCHANGED <<hooks, conn, reloaders>>
    BY <1>0, <2>2 DEF IInv, TypeOK
  <2> QED
    BY <1>c, <2>1, <2>2
<1>2. HooksInv'
  <2>1. CASE hooks' = Append(hooks, o)
    BY <1>0, <2>1, HooksOrdered DEF IInv, TypeOK, HookNames, Rank
  <2>2. CASE UNCHANGED hooks
    BY <1>0, <2>2 DEF IInv, TypeOK, HooksInv, HookNames, Rank
  <2> QED
    BY <1>c, <2>1, <2>2
<1>3. PhaseInv'
  BY <1>0 DEF IInv, PhaseInv
<1>4. ServeInv' /\ ConnectionsInv'
  BY <1>0 DEF IInv, ServeInv, ConnectionsInv
<1>5. StopInv' /\ DrainInv'
  BY <1>0, <1>c, BuildLength DEF IInv, TypeOK, PhaseInv, StopInv, ServeInv, DrainInv
<1>6. RunningInv'
  BY <1>0, <1>c, BuildLength DEF IInv, TypeOK, HooksInv, PhaseInv, RunningInv
<1>7. OpenInv'
  <2>1. CASE hooks' = Append(hooks, o) /\ Opened(o)
    <3>1. \A d \in Owners \cup {"collector"} : conn'[d].state = "open" => conn[d].state = "open" \/ HookOf[d] = o
      BY <1>0, <2>1 DEF Opened, Conns, Clients, Owners, HookOf
    <3> QED
      BY <1>0, <2>1, <3>1, OpenKept DEF HookNames
  <2>2. CASE UNCHANGED <<hooks, conn, reloaders>>
    BY <1>0, <2>2 DEF IInv, OpenInv
  <2> QED
    BY <1>c, <2>1, <2>2
<1>8. PlacedInv'
  BY <1>0, <1>c DEF IInv, PlacedInv, Opened, Conns, Clients, Owners
<1>9. RotationInv' /\ PlaintextInv'
  <2>1. CASE Opened(o)
    BY <1>0, <2>1 DEF IInv, PlaintextInv, Opened
  <2>2. CASE UNCHANGED <<hooks, conn, reloaders>>
    BY <2>2 DEF IInv, PlaintextInv, RotationInv
  <2> QED
    BY <1>c, <2>1, <2>2
<1>10. ExitZeroIsClean' /\ StartedIsStopped'
  BY <1>0, BuildLength DEF IInv, PhaseInv, ExitZeroIsClean, StartedIsStopped
<1> QED
  BY <1>1, <1>2, <1>3, <1>4, <1>5, <1>6, <1>7, <1>8, <1>9, <1>10 DEF IInv

\* A placed collector is dialled and gets a hook.
LEMMA newTracerStep == ASSUME IInv, newTracer PROVE IInv'
<1> USE DEF newTracer, Built, buildVars, linkVars, httpVars, sigVars, stopVars
<1>0. step = 5 /\ phase = "build" /\ started = 0 /\ listener = "none" /\ running = {}
  BY BuildFacts DEF IInv, TypeOK, PhaseInv, RunningInv, Building
<1>c. \/ hooks' = Append(hooks, "tracer") /\ Opened("collector")
      \/ UNCHANGED <<hooks, conn, reloaders>>
  BY <1>0, CollectorOpened
<1>1. TypeOK'
  <2>1. CASE hooks' = Append(hooks, "tracer") /\ Opened("collector")
    <3>1. "tracer" \in HookNames
      BY DEF HookNames, Owners
    <3>2. hooks' \in Seq(HookNames) /\ 0 \in 0..Len(hooks')
      BY <2>1, <3>1, HookAppended DEF IInv, TypeOK
    <3> QED
      BY <1>0, <2>1, <3>2 DEF IInv, TypeOK, Opened, ConnType
  <2>2. CASE UNCHANGED <<hooks, conn, reloaders>>
    BY <1>0, <2>2 DEF IInv, TypeOK
  <2> QED
    BY <1>c, <2>1, <2>2
<1>2. HooksInv'
  <2>1. CASE hooks' = Append(hooks, "tracer")
    BY <1>0, <2>1, HooksOrdered DEF IInv, TypeOK, HookNames, Rank
  <2>2. CASE UNCHANGED hooks
    BY <1>0, <2>2 DEF IInv, TypeOK, HooksInv, HookNames, Rank
  <2> QED
    BY <1>c, <2>1, <2>2
<1>3. PhaseInv'
  BY <1>0 DEF IInv, PhaseInv
<1>4. ServeInv' /\ ConnectionsInv'
  BY <1>0 DEF IInv, ServeInv, ConnectionsInv
<1>5. StopInv' /\ DrainInv'
  BY <1>0, <1>c, BuildLength DEF IInv, TypeOK, PhaseInv, StopInv, ServeInv, DrainInv
<1>6. RunningInv'
  BY <1>0, <1>c, BuildLength DEF IInv, TypeOK, HooksInv, PhaseInv, RunningInv
<1>7. OpenInv'
  <2>1. CASE hooks' = Append(hooks, "tracer") /\ Opened("collector")
    <3>1. \A d \in Owners \cup {"collector"} : conn'[d].state = "open" => conn[d].state = "open" \/ HookOf[d] = "tracer"
      BY <1>0, <2>1 DEF Opened, Conns, Clients, Owners, HookOf
    <3> QED
      BY <1>0, <2>1, <3>1, OpenKept DEF HookNames
  <2>2. CASE UNCHANGED <<hooks, conn, reloaders>>
    BY <1>0, <2>2 DEF IInv, OpenInv
  <2> QED
    BY <1>c, <2>1, <2>2
<1>8. PlacedInv'
  BY <1>0, <1>c DEF IInv, PlacedInv, Opened, Conns, Clients, Owners
<1>9. RotationInv' /\ PlaintextInv'
  <2>1. CASE Opened("collector")
    BY <1>0, <2>1 DEF IInv, PlaintextInv, Opened
  <2>2. CASE UNCHANGED <<hooks, conn, reloaders>>
    BY <2>2 DEF IInv, PlaintextInv, RotationInv
  <2> QED
    BY <1>c, <2>1, <2>2
<1>10. ExitZeroIsClean' /\ StartedIsStopped'
  BY <1>0, BuildLength DEF IInv, PhaseInv, ExitZeroIsClean, StartedIsStopped
<1> QED
  BY <1>1, <1>2, <1>3, <1>4, <1>5, <1>6, <1>7, <1>8, <1>9, <1>10 DEF IInv

\* A metrics listener that is placed gets a hook.
LEMMA newMetricsStep == ASSUME IInv, newMetrics PROVE IInv'
<1> USE DEF newMetrics, Built, buildVars, linkVars, httpVars, sigVars, stopVars
<1>0. step = 6 /\ phase = "build"
  BY BuildFacts DEF IInv, TypeOK, PhaseInv, Built, Building
<1>1. TypeOK'
  BY <1>0, BuildLength DEF IInv, TypeOK, Phases, HookNames, Conns
<1>2. HooksInv'
  <2>1. CASE cfg.telemetry.metrics_listen = Unset
    BY <1>0, <2>1 DEF IInv, TypeOK, HookNames, HooksInv, Rank
  <2>2. CASE cfg.telemetry.metrics_listen # Unset
    BY <1>0, <2>2, HooksOrdered DEF IInv, TypeOK, HookNames, Rank
  <2> QED
    BY <2>1, <2>2
<1>3. PhaseInv'
  BY <1>0, BuildLength DEF IInv, TypeOK, PhaseInv, ServeInv
<1>4. ServeInv' /\ ConnectionsInv'
  BY <1>0, BuildLength DEF IInv, TypeOK, HooksInv, PhaseInv, ServeInv, ConnectionsInv
<1>5. StopInv' /\ DrainInv'
  BY <1>0, BuildLength DEF IInv, TypeOK, PhaseInv, StopInv, ServeInv, DrainInv
<1>6. RunningInv'
  BY <1>0, BuildLength DEF IInv, TypeOK, HooksInv, PhaseInv, RunningInv
<1>7. OpenInv'
  <2>1. CASE cfg.telemetry.metrics_listen = Unset
    BY <1>0, <2>1 DEF IInv, OpenInv
  <2>2. CASE cfg.telemetry.metrics_listen # Unset
    BY <1>0, <2>2, OpenKept DEF IInv, HookNames
  <2> QED
    BY <2>1, <2>2
<1>8. PlacedInv'
  BY <1>0, BuildLength DEF IInv, TypeOK, HooksInv, PhaseInv, ServeInv, PlacedInv, Conns, Clients, Owners
<1>9. RotationInv' /\ PlaintextInv'
  BY <1>0, BuildLength DEF IInv, TypeOK, PhaseInv, RotationInv, PlaintextInv, Conns
<1>10. ExitZeroIsClean' /\ StartedIsStopped'
  BY <1>0, BuildLength DEF IInv, TypeOK, HooksInv, PhaseInv, ServeInv, StopInv, RunningInv, OpenInv, ExitZeroIsClean, StartedIsStopped, Conns, Clients, Owners
<1> QED
  BY <1>1, <1>2, <1>3, <1>4, <1>5, <1>6, <1>7, <1>8, <1>9, <1>10 DEF IInv

\* The server is built, nothing is started.
LEMMA NewServerStep == ASSUME IInv, NewServer PROVE IInv'
<1> USE DEF NewServer, Built, buildVars, linkVars, httpVars, sigVars, stopVars
<1>0. step = 7 /\ phase = "build"
  BY BuildFacts DEF IInv, TypeOK, PhaseInv, Built, Building
<1>1. TypeOK'
  BY <1>0, BuildLength DEF IInv, TypeOK, Phases, HookNames, Conns
<1>2. HooksInv'
  BY <1>0, BuildLength DEF IInv, TypeOK, HookNames, HooksInv, PhaseInv, Rank
<1>3. PhaseInv'
  BY <1>0, BuildLength DEF IInv, TypeOK, PhaseInv, ServeInv
<1>4. ServeInv' /\ ConnectionsInv'
  BY <1>0, BuildLength DEF IInv, TypeOK, HooksInv, PhaseInv, ServeInv, ConnectionsInv
<1>5. StopInv' /\ DrainInv'
  BY <1>0, BuildLength DEF IInv, TypeOK, PhaseInv, StopInv, ServeInv, DrainInv
<1>6. RunningInv'
  BY <1>0, BuildLength DEF IInv, TypeOK, HooksInv, PhaseInv, RunningInv
<1>7. OpenInv'
  BY <1>0, BuildLength DEF IInv, TypeOK, HooksInv, PhaseInv, ServeInv, OpenInv, HookOf, Owners, Conns, Clients
<1>8. PlacedInv'
  BY <1>0, BuildLength DEF IInv, TypeOK, HooksInv, PhaseInv, ServeInv, PlacedInv, Conns, Clients, Owners
<1>9. RotationInv' /\ PlaintextInv'
  BY <1>0, BuildLength DEF IInv, TypeOK, PhaseInv, RotationInv, PlaintextInv, Conns
<1>10. ExitZeroIsClean' /\ StartedIsStopped'
  BY <1>0, BuildLength DEF IInv, TypeOK, HooksInv, PhaseInv, ServeInv, StopInv, RunningInv, OpenInv, ExitZeroIsClean, StartedIsStopped, Conns, Clients, Owners
<1> QED
  BY <1>1, <1>2, <1>3, <1>4, <1>5, <1>6, <1>7, <1>8, <1>9, <1>10 DEF IInv

\* The hook of run is the last one.
LEMMA runStep == ASSUME IInv, run PROVE IInv'
<1> USE DEF run, Built, buildVars, linkVars, httpVars, sigVars, stopVars
<1>0. step = 8 /\ phase = "build"
  BY BuildFacts DEF IInv, TypeOK, PhaseInv, Built, Building
<1>1. TypeOK'
  BY <1>0, BuildLength DEF IInv, TypeOK, Phases, HookNames, Conns
<1>2. HooksInv'
  <2>1. /\ "run" \in HookNames /\ hooks \in Seq(HookNames) /\ step \in 0..8 /\ HooksInv
        /\ Rank["run"] = step + 1
    BY <1>0 DEF IInv, TypeOK, HookNames, Rank
  <2>2. hooks' = Append(hooks, "run") /\ step' = step + 1
    OBVIOUS
  <2> HIDE DEF run, Built
  <2> QED
    BY <2>1, <2>2, HooksOrdered
<1>3. PhaseInv'
  BY <1>0, BuildLength DEF IInv, TypeOK, PhaseInv, ServeInv
<1>4. ServeInv' /\ ConnectionsInv'
  BY <1>0, BuildLength DEF IInv, TypeOK, HooksInv, PhaseInv, ServeInv, ConnectionsInv
<1>5. StopInv' /\ DrainInv'
  BY <1>0, BuildLength DEF IInv, TypeOK, PhaseInv, StopInv, ServeInv, DrainInv
<1>6. RunningInv'
  BY <1>0, BuildLength DEF IInv, TypeOK, HooksInv, PhaseInv, RunningInv
<1>7. OpenInv'
  BY <1>0, OpenKept DEF IInv, HookNames
<1>8. PlacedInv'
  BY <1>0, BuildLength DEF IInv, TypeOK, HooksInv, PhaseInv, ServeInv, PlacedInv, Conns, Clients, Owners
<1>9. RotationInv' /\ PlaintextInv'
  BY <1>0, BuildLength DEF IInv, TypeOK, PhaseInv, RotationInv, PlaintextInv, Conns
<1>10. ExitZeroIsClean' /\ StartedIsStopped'
  BY <1>0, BuildLength DEF IInv, TypeOK, HooksInv, PhaseInv, ServeInv, StopInv, RunningInv, OpenInv, ExitZeroIsClean, StartedIsStopped, Conns, Clients, Owners
<1> QED
  BY <1>1, <1>2, <1>3, <1>4, <1>5, <1>6, <1>7, <1>8, <1>9, <1>10 DEF IInv

\* Starting the identities starts every reloader.
LEMMA StartIdentitiesStep == ASSUME IInv, StartIdentities PROVE IInv'
<1> USE DEF StartIdentities, OnStart, Starting, buildVars, linkVars, httpVars, sigVars, stopVars
<1>0. started + 1 < Len(hooks) /\ phase = "start" /\ step = 9
  BY DEF IInv, TypeOK, PhaseInv, HooksInv
<1>1. TypeOK'
  BY <1>0, BuildLength DEF IInv, TypeOK, Phases, HookNames, Conns
<1>2. HooksInv'
  BY <1>0, BuildLength DEF IInv, TypeOK, HookNames, HooksInv, PhaseInv, Rank
<1>3. PhaseInv'
  BY <1>0, BuildLength DEF IInv, TypeOK, PhaseInv, ServeInv
<1>4. ServeInv' /\ ConnectionsInv'
  BY <1>0, BuildLength DEF IInv, TypeOK, HooksInv, PhaseInv, ServeInv, ConnectionsInv
<1>5. StopInv' /\ DrainInv'
  BY <1>0, BuildLength DEF IInv, TypeOK, PhaseInv, StopInv, ServeInv, DrainInv
<1>6. RunningInv'
  BY <1>0, BuildLength DEF IInv, TypeOK, HooksInv, PhaseInv, RunningInv
<1>7. OpenInv'
  BY <1>0, BuildLength DEF IInv, TypeOK, HooksInv, PhaseInv, ServeInv, OpenInv, HookOf, Owners, Conns, Clients
<1>8. PlacedInv'
  BY <1>0, BuildLength DEF IInv, TypeOK, HooksInv, PhaseInv, ServeInv, PlacedInv, Conns, Clients, Owners
<1>9. RotationInv' /\ PlaintextInv'
  BY <1>0, BuildLength DEF IInv, TypeOK, PhaseInv, RotationInv, PlaintextInv, Conns
<1>10. ExitZeroIsClean' /\ StartedIsStopped'
  BY <1>0, BuildLength DEF IInv, TypeOK, HooksInv, PhaseInv, ServeInv, StopInv, RunningInv, OpenInv, ExitZeroIsClean, StartedIsStopped, Conns, Clients, Owners
<1> QED
  BY <1>1, <1>2, <1>3, <1>4, <1>5, <1>6, <1>7, <1>8, <1>9, <1>10 DEF IInv

\* A hook without OnStart is counted.
LEMMA StartNothingStep == ASSUME IInv, StartNothing PROVE IInv'
<1> USE DEF StartNothing, OnStart, Starting, buildVars, linkVars, httpVars, sigVars, stopVars
<1>0. started + 1 < Len(hooks) /\ phase = "start" /\ step = 9
  BY DEF IInv, TypeOK, PhaseInv, HooksInv
<1>1. TypeOK'
  BY <1>0, BuildLength DEF IInv, TypeOK, Phases, HookNames, Conns
<1>2. HooksInv'
  BY <1>0, BuildLength DEF IInv, TypeOK, HookNames, HooksInv, PhaseInv, Rank
<1>3. PhaseInv'
  BY <1>0, BuildLength DEF IInv, TypeOK, PhaseInv, ServeInv
<1>4. ServeInv' /\ ConnectionsInv'
  BY <1>0, BuildLength DEF IInv, TypeOK, HooksInv, PhaseInv, ServeInv, ConnectionsInv
<1>5. StopInv' /\ DrainInv'
  BY <1>0, BuildLength DEF IInv, TypeOK, PhaseInv, StopInv, ServeInv, DrainInv
<1>6. RunningInv'
  BY <1>0, BuildLength DEF IInv, TypeOK, HooksInv, PhaseInv, RunningInv
<1>7. OpenInv'
  BY <1>0, BuildLength DEF IInv, TypeOK, HooksInv, PhaseInv, ServeInv, OpenInv, HookOf, Owners, Conns, Clients
<1>8. PlacedInv'
  BY <1>0, BuildLength DEF IInv, TypeOK, HooksInv, PhaseInv, ServeInv, PlacedInv, Conns, Clients, Owners
<1>9. RotationInv' /\ PlaintextInv'
  BY <1>0, BuildLength DEF IInv, TypeOK, PhaseInv, RotationInv, PlaintextInv, Conns
<1>10. ExitZeroIsClean' /\ StartedIsStopped'
  BY <1>0, BuildLength DEF IInv, TypeOK, HooksInv, PhaseInv, ServeInv, StopInv, RunningInv, OpenInv, ExitZeroIsClean, StartedIsStopped, Conns, Clients, Owners
<1> QED
  BY <1>1, <1>2, <1>3, <1>4, <1>5, <1>6, <1>7, <1>8, <1>9, <1>10 DEF IInv

\* The metrics listener belongs to a started hook.
LEMMA StartMetricsStep == ASSUME IInv, StartMetrics PROVE IInv'
<1> USE DEF StartMetrics, OnStart, Starting, buildVars, linkVars, httpVars, sigVars, stopVars
<1>0. started + 1 < Len(hooks) /\ phase = "start" /\ step = 9
  BY DEF IInv, TypeOK, PhaseInv, HooksInv
<1>1. TypeOK'
  BY <1>0, BuildLength DEF IInv, TypeOK, Phases, HookNames, Conns
<1>2. HooksInv'
  BY <1>0, BuildLength DEF IInv, TypeOK, HookNames, HooksInv, PhaseInv, Rank
<1>3. PhaseInv'
  BY <1>0, BuildLength DEF IInv, TypeOK, PhaseInv, ServeInv
<1>4. ServeInv' /\ ConnectionsInv'
  BY <1>0, BuildLength DEF IInv, TypeOK, HooksInv, PhaseInv, ServeInv, ConnectionsInv
<1>5. StopInv' /\ DrainInv'
  BY <1>0, BuildLength DEF IInv, TypeOK, PhaseInv, StopInv, ServeInv, DrainInv
<1>6. RunningInv'
  BY <1>0, BuildLength DEF IInv, TypeOK, HooksInv, PhaseInv, RunningInv
<1>7. OpenInv'
  BY <1>0, BuildLength DEF IInv, TypeOK, HooksInv, PhaseInv, ServeInv, OpenInv, HookOf, Owners, Conns, Clients
<1>8. PlacedInv'
  BY <1>0, BuildLength DEF IInv, TypeOK, HooksInv, PhaseInv, ServeInv, PlacedInv, Conns, Clients, Owners
<1>9. RotationInv' /\ PlaintextInv'
  BY <1>0, BuildLength DEF IInv, TypeOK, PhaseInv, RotationInv, PlaintextInv, Conns
<1>10. ExitZeroIsClean' /\ StartedIsStopped'
  BY <1>0, BuildLength DEF IInv, TypeOK, HooksInv, PhaseInv, ServeInv, StopInv, RunningInv, OpenInv, ExitZeroIsClean, StartedIsStopped, Conns, Clients, Owners
<1> QED
  BY <1>1, <1>2, <1>3, <1>4, <1>5, <1>6, <1>7, <1>8, <1>9, <1>10 DEF IInv

\* The server starts when every other hook is started.
LEMMA StartServerStep == ASSUME IInv, StartServer PROVE IInv'
<1> USE DEF StartServer, OnStart, Starting, buildVars, linkVars, httpVars, sigVars, stopVars
<1>0. started + 1 = Len(hooks) /\ phase = "start" /\ step = 9
  BY RunIsLast DEF IInv, TypeOK, PhaseInv
<1>1. TypeOK'
  BY <1>0, BuildLength DEF IInv, TypeOK, Phases, HookNames, Conns
<1>2. HooksInv'
  BY <1>0, BuildLength DEF IInv, TypeOK, HookNames, HooksInv, PhaseInv, Rank
<1>3. PhaseInv'
  BY <1>0, BuildLength DEF IInv, TypeOK, PhaseInv, ServeInv
<1>4. ServeInv' /\ ConnectionsInv'
  BY <1>0, BuildLength DEF IInv, TypeOK, HooksInv, PhaseInv, ServeInv, ConnectionsInv
<1>5. StopInv' /\ DrainInv'
  BY <1>0, BuildLength DEF IInv, TypeOK, PhaseInv, StopInv, ServeInv, DrainInv
<1>6. RunningInv'
  BY <1>0, BuildLength DEF IInv, TypeOK, HooksInv, PhaseInv, RunningInv
<1>7. OpenInv'
  BY <1>0, BuildLength DEF IInv, TypeOK, HooksInv, PhaseInv, ServeInv, OpenInv, HookOf, Owners, Conns, Clients
<1>8. PlacedInv'
  BY <1>0, BuildLength DEF IInv, TypeOK, HooksInv, PhaseInv, ServeInv, PlacedInv, Conns, Clients, Owners
<1>9. RotationInv' /\ PlaintextInv'
  BY <1>0, BuildLength DEF IInv, TypeOK, PhaseInv, RotationInv, PlaintextInv, Conns
<1>10. ExitZeroIsClean' /\ StartedIsStopped'
  BY <1>0, BuildLength DEF IInv, TypeOK, HooksInv, PhaseInv, ServeInv, StopInv, RunningInv, OpenInv, ExitZeroIsClean, StartedIsStopped, Conns, Clients, Owners
<1> QED
  BY <1>1, <1>2, <1>3, <1>4, <1>5, <1>6, <1>7, <1>8, <1>9, <1>10 DEF IInv

\* What is open belongs to hooks before the one that failed.
LEMMA BindFailsStep == ASSUME IInv, BindFails PROVE IInv'
<1> USE DEF BindFails, Starting, buildVars, linkVars, httpVars, sigVars, stopVars
<1>1. TypeOK'
  <2>1. left' \in Nat
    BY DEF StartTimeout, Second
  <2> QED
    BY <2>1 DEF IInv, TypeOK, Phases
<1>2. HooksInv'
  BY BuildLength DEF IInv, TypeOK, HookNames, HooksInv, PhaseInv, Rank
<1>3. PhaseInv'
  BY BuildLength DEF IInv, TypeOK, PhaseInv, ServeInv
<1>4. ServeInv' /\ ConnectionsInv'
  BY BuildLength DEF IInv, TypeOK, HooksInv, PhaseInv, ServeInv, ConnectionsInv
<1>5. StopInv' /\ DrainInv'
  BY BuildLength DEF IInv, TypeOK, PhaseInv, StopInv, ServeInv, DrainInv
<1>6. RunningInv'
  BY BuildLength DEF IInv, TypeOK, HooksInv, PhaseInv, RunningInv
<1>7. OpenInv'
  <2>1. started + 1 \in DOMAIN hooks /\ hooks[started + 1] \in {"metrics", "run"}
    BY DEF IInv, TypeOK
  <2>2. ASSUME NEW c \in Owners \cup {"collector"}, NEW i \in DOMAIN hooks, hooks[i] = HookOf[c]
        PROVE  i <= started
    <3>1. Rank[hooks[i]] < 7 /\ Rank[hooks[i]] \in Nat
      BY <2>2 DEF HookOf, Rank, Owners
    <3>2. Rank[hooks[started + 1]] >= 7 /\ Rank[hooks[started + 1]] \in Nat
      BY <2>1 DEF Rank
    <3>3. i # started + 1 /\ ~(started + 1 < i)
      BY <2>1, <3>1, <3>2 DEF IInv, HooksInv
    <3> QED
      BY <3>3 DEF IInv, TypeOK
  <2> QED
    BY <2>2 DEF IInv, OpenInv
<1>8. PlacedInv'
  BY BuildLength DEF IInv, TypeOK, HooksInv, PhaseInv, ServeInv, PlacedInv, Conns, Clients, Owners
<1>9. RotationInv' /\ PlaintextInv'
  BY BuildLength DEF IInv, TypeOK, PhaseInv, RotationInv, PlaintextInv, Conns
<1>10. ExitZeroIsClean' /\ StartedIsStopped'
  BY BuildLength DEF IInv, TypeOK, HooksInv, PhaseInv, ServeInv, StopInv, RunningInv, OpenInv, ExitZeroIsClean, StartedIsStopped, Conns, Clients, Owners
<1> QED
  BY <1>1, <1>2, <1>3, <1>4, <1>5, <1>6, <1>7, <1>8, <1>9, <1>10 DEF IInv

\* With every hook started the server is up.
LEMMA StartedStep == ASSUME IInv, Started PROVE IInv'
<1> USE DEF Started, buildVars, linkVars, httpVars, sigVars, stopVars
<1>1. TypeOK'
  BY BuildLength DEF IInv, TypeOK, Phases, HookNames, Conns
<1>2. HooksInv'
  BY BuildLength DEF IInv, TypeOK, HookNames, HooksInv, PhaseInv, Rank
<1>3. PhaseInv'
  BY BuildLength DEF IInv, TypeOK, PhaseInv, ServeInv
<1>4. ServeInv' /\ ConnectionsInv'
  BY BuildLength DEF IInv, TypeOK, HooksInv, PhaseInv, ServeInv, ConnectionsInv
<1>5. StopInv' /\ DrainInv'
  BY BuildLength DEF IInv, TypeOK, PhaseInv, StopInv, ServeInv, DrainInv
<1>6. RunningInv'
  BY BuildLength DEF IInv, TypeOK, HooksInv, PhaseInv, RunningInv
<1>7. OpenInv'
  BY BuildLength DEF IInv, TypeOK, HooksInv, PhaseInv, ServeInv, OpenInv, HookOf, Owners, Conns, Clients
<1>8. PlacedInv'
  BY BuildLength DEF IInv, TypeOK, HooksInv, PhaseInv, ServeInv, PlacedInv, Conns, Clients, Owners
<1>9. RotationInv' /\ PlaintextInv'
  BY BuildLength DEF IInv, TypeOK, PhaseInv, RotationInv, PlaintextInv, Conns
<1>10. ExitZeroIsClean' /\ StartedIsStopped'
  BY BuildLength DEF IInv, TypeOK, HooksInv, PhaseInv, ServeInv, StopInv, RunningInv, OpenInv, ExitZeroIsClean, StartedIsStopped, Conns, Clients, Owners
<1> QED
  BY <1>1, <1>2, <1>3, <1>4, <1>5, <1>6, <1>7, <1>8, <1>9, <1>10 DEF IInv

\* A request finds the connection of its owner open.
LEMMA RequestArrivesStep == ASSUME NEW h \in Handlers, NEW c \in Clients, IInv, RequestArrives(h, c) PROVE IInv'
<1> USE DEF RequestArrives, Placed, Clients, Owners, buildVars, linkVars, httpVars, sigVars, stopVars
<1>1. TypeOK'
  BY BuildLength DEF IInv, TypeOK, Phases, HookNames, Conns
<1>2. HooksInv'
  BY BuildLength DEF IInv, TypeOK, HookNames, HooksInv, PhaseInv, Rank
<1>3. PhaseInv'
  BY BuildLength DEF IInv, TypeOK, PhaseInv, ServeInv
<1>4. ServeInv' /\ ConnectionsInv'
  <2>1. conn[c].state = "open"
    BY DEF IInv, PhaseInv, ServeInv, PlacedInv, TypeOK
  <2> QED
    BY <2>1 DEF IInv, TypeOK, ServeInv, PhaseInv, ConnectionsInv
<1>5. StopInv' /\ DrainInv'
  BY BuildLength DEF IInv, TypeOK, PhaseInv, StopInv, ServeInv, DrainInv
<1>6. RunningInv'
  BY BuildLength DEF IInv, TypeOK, HooksInv, PhaseInv, RunningInv
<1>7. OpenInv'
  BY BuildLength DEF IInv, TypeOK, HooksInv, PhaseInv, ServeInv, OpenInv, HookOf, Owners, Conns, Clients
<1>8. PlacedInv'
  BY BuildLength DEF IInv, TypeOK, HooksInv, PhaseInv, ServeInv, PlacedInv, Conns, Clients, Owners
<1>9. RotationInv' /\ PlaintextInv'
  BY BuildLength DEF IInv, TypeOK, PhaseInv, RotationInv, PlaintextInv, Conns
<1>10. ExitZeroIsClean' /\ StartedIsStopped'
  BY BuildLength DEF IInv, TypeOK, HooksInv, PhaseInv, ServeInv, StopInv, RunningInv, OpenInv, ExitZeroIsClean, StartedIsStopped, Conns, Clients, Owners
<1> QED
  BY <1>1, <1>2, <1>3, <1>4, <1>5, <1>6, <1>7, <1>8, <1>9, <1>10 DEF IInv

\* A request that ends holds nothing.
LEMMA RequestEndsStep == ASSUME NEW h \in Handlers, IInv, RequestEnds(h) PROVE IInv'
<1> USE DEF RequestEnds, buildVars, linkVars, httpVars, sigVars, stopVars
<1>1. TypeOK'
  BY BuildLength DEF IInv, TypeOK, Phases, HookNames, Conns
<1>2. HooksInv'
  BY BuildLength DEF IInv, TypeOK, HookNames, HooksInv, PhaseInv, Rank
<1>3. PhaseInv'
  BY BuildLength DEF IInv, TypeOK, PhaseInv, ServeInv
<1>4. ServeInv' /\ ConnectionsInv'
  BY BuildLength DEF IInv, TypeOK, HooksInv, PhaseInv, ServeInv, ConnectionsInv
<1>5. StopInv' /\ DrainInv'
  BY BuildLength DEF IInv, TypeOK, PhaseInv, StopInv, ServeInv, DrainInv
<1>6. RunningInv'
  BY BuildLength DEF IInv, TypeOK, HooksInv, PhaseInv, RunningInv
<1>7. OpenInv'
  BY BuildLength DEF IInv, TypeOK, HooksInv, PhaseInv, ServeInv, OpenInv, HookOf, Owners, Conns, Clients
<1>8. PlacedInv'
  BY BuildLength DEF IInv, TypeOK, HooksInv, PhaseInv, ServeInv, PlacedInv, Conns, Clients, Owners
<1>9. RotationInv' /\ PlaintextInv'
  BY BuildLength DEF IInv, TypeOK, PhaseInv, RotationInv, PlaintextInv, Conns
<1>10. ExitZeroIsClean' /\ StartedIsStopped'
  BY BuildLength DEF IInv, TypeOK, HooksInv, PhaseInv, ServeInv, StopInv, RunningInv, OpenInv, ExitZeroIsClean, StartedIsStopped, Conns, Clients, Owners
<1> QED
  BY <1>1, <1>2, <1>3, <1>4, <1>5, <1>6, <1>7, <1>8, <1>9, <1>10 DEF IInv

\* A dead listener leaves the requests it accepted.
LEMMA ListenerFailsStep == ASSUME IInv, ListenerFails PROVE IInv'
<1> USE DEF ListenerFails, buildVars, linkVars, httpVars, sigVars, stopVars
<1>1. TypeOK'
  BY BuildLength DEF IInv, TypeOK, Phases, HookNames, Conns
<1>2. HooksInv'
  BY BuildLength DEF IInv, TypeOK, HookNames, HooksInv, PhaseInv, Rank
<1>3. PhaseInv'
  BY BuildLength DEF IInv, TypeOK, PhaseInv, ServeInv
<1>4. ServeInv' /\ ConnectionsInv'
  BY BuildLength DEF IInv, TypeOK, HooksInv, PhaseInv, ServeInv, ConnectionsInv
<1>5. StopInv' /\ DrainInv'
  BY BuildLength DEF IInv, TypeOK, PhaseInv, StopInv, ServeInv, DrainInv
<1>6. RunningInv'
  BY BuildLength DEF IInv, TypeOK, HooksInv, PhaseInv, RunningInv
<1>7. OpenInv'
  BY BuildLength DEF IInv, TypeOK, HooksInv, PhaseInv, ServeInv, OpenInv, HookOf, Owners, Conns, Clients
<1>8. PlacedInv'
  BY BuildLength DEF IInv, TypeOK, HooksInv, PhaseInv, ServeInv, PlacedInv, Conns, Clients, Owners
<1>9. RotationInv' /\ PlaintextInv'
  BY BuildLength DEF IInv, TypeOK, PhaseInv, RotationInv, PlaintextInv, Conns
<1>10. ExitZeroIsClean' /\ StartedIsStopped'
  BY BuildLength DEF IInv, TypeOK, HooksInv, PhaseInv, ServeInv, StopInv, RunningInv, OpenInv, ExitZeroIsClean, StartedIsStopped, Conns, Clients, Owners
<1> QED
  BY <1>1, <1>2, <1>3, <1>4, <1>5, <1>6, <1>7, <1>8, <1>9, <1>10 DEF IInv

\* A reported listener asks for exit code 1.
LEMMA ListenerReportedStep == ASSUME IInv, ListenerReported PROVE IInv'
<1> USE DEF ListenerReported, buildVars, linkVars, httpVars, sigVars, stopVars
<1>1. TypeOK'
  BY BuildLength DEF IInv, TypeOK, Phases, HookNames, Conns
<1>2. HooksInv'
  BY BuildLength DEF IInv, TypeOK, HookNames, HooksInv, PhaseInv, Rank
<1>3. PhaseInv'
  BY BuildLength DEF IInv, TypeOK, PhaseInv, ServeInv
<1>4. ServeInv' /\ ConnectionsInv'
  BY BuildLength DEF IInv, TypeOK, HooksInv, PhaseInv, ServeInv, ConnectionsInv
<1>5. StopInv' /\ DrainInv'
  BY BuildLength DEF IInv, TypeOK, PhaseInv, StopInv, ServeInv, DrainInv
<1>6. RunningInv'
  BY BuildLength DEF IInv, TypeOK, HooksInv, PhaseInv, RunningInv
<1>7. OpenInv'
  BY BuildLength DEF IInv, TypeOK, HooksInv, PhaseInv, ServeInv, OpenInv, HookOf, Owners, Conns, Clients
<1>8. PlacedInv'
  BY BuildLength DEF IInv, TypeOK, HooksInv, PhaseInv, ServeInv, PlacedInv, Conns, Clients, Owners
<1>9. RotationInv' /\ PlaintextInv'
  BY BuildLength DEF IInv, TypeOK, PhaseInv, RotationInv, PlaintextInv, Conns
<1>10. ExitZeroIsClean' /\ StartedIsStopped'
  BY BuildLength DEF IInv, TypeOK, HooksInv, PhaseInv, ServeInv, StopInv, RunningInv, OpenInv, ExitZeroIsClean, StartedIsStopped, Conns, Clients, Owners
<1> QED
  BY <1>1, <1>2, <1>3, <1>4, <1>5, <1>6, <1>7, <1>8, <1>9, <1>10 DEF IInv

\* A dead metrics listener changes nothing else.
LEMMA MetricsFailsStep == ASSUME IInv, MetricsFails PROVE IInv'
<1> USE DEF MetricsFails, buildVars, linkVars, httpVars, sigVars, stopVars
<1>1. TypeOK'
  BY BuildLength DEF IInv, TypeOK, Phases, HookNames, Conns
<1>2. HooksInv'
  BY BuildLength DEF IInv, TypeOK, HookNames, HooksInv, PhaseInv, Rank
<1>3. PhaseInv'
  BY BuildLength DEF IInv, TypeOK, PhaseInv, ServeInv
<1>4. ServeInv' /\ ConnectionsInv'
  BY BuildLength DEF IInv, TypeOK, HooksInv, PhaseInv, ServeInv, ConnectionsInv
<1>5. StopInv' /\ DrainInv'
  BY BuildLength DEF IInv, TypeOK, PhaseInv, StopInv, ServeInv, DrainInv
<1>6. RunningInv'
  BY BuildLength DEF IInv, TypeOK, HooksInv, PhaseInv, RunningInv
<1>7. OpenInv'
  BY BuildLength DEF IInv, TypeOK, HooksInv, PhaseInv, ServeInv, OpenInv, HookOf, Owners, Conns, Clients
<1>8. PlacedInv'
  BY BuildLength DEF IInv, TypeOK, HooksInv, PhaseInv, ServeInv, PlacedInv, Conns, Clients, Owners
<1>9. RotationInv' /\ PlaintextInv'
  BY BuildLength DEF IInv, TypeOK, PhaseInv, RotationInv, PlaintextInv, Conns
<1>10. ExitZeroIsClean' /\ StartedIsStopped'
  BY BuildLength DEF IInv, TypeOK, HooksInv, PhaseInv, ServeInv, StopInv, RunningInv, OpenInv, ExitZeroIsClean, StartedIsStopped, Conns, Clients, Owners
<1> QED
  BY <1>1, <1>2, <1>3, <1>4, <1>5, <1>6, <1>7, <1>8, <1>9, <1>10 DEF IInv

\* A signal asks for exit code 0.
LEMMA TerminateStep == ASSUME IInv, Terminate PROVE IInv'
<1> USE DEF Terminate, buildVars, linkVars, httpVars, sigVars, stopVars
<1>1. TypeOK'
  BY BuildLength DEF IInv, TypeOK, Phases, HookNames, Conns
<1>2. HooksInv'
  BY BuildLength DEF IInv, TypeOK, HookNames, HooksInv, PhaseInv, Rank
<1>3. PhaseInv'
  BY BuildLength DEF IInv, TypeOK, PhaseInv, ServeInv
<1>4. ServeInv' /\ ConnectionsInv'
  BY BuildLength DEF IInv, TypeOK, HooksInv, PhaseInv, ServeInv, ConnectionsInv
<1>5. StopInv' /\ DrainInv'
  BY BuildLength DEF IInv, TypeOK, PhaseInv, StopInv, ServeInv, DrainInv
<1>6. RunningInv'
  BY BuildLength DEF IInv, TypeOK, HooksInv, PhaseInv, RunningInv
<1>7. OpenInv'
  BY BuildLength DEF IInv, TypeOK, HooksInv, PhaseInv, ServeInv, OpenInv, HookOf, Owners, Conns, Clients
<1>8. PlacedInv'
  BY BuildLength DEF IInv, TypeOK, HooksInv, PhaseInv, ServeInv, PlacedInv, Conns, Clients, Owners
<1>9. RotationInv' /\ PlaintextInv'
  BY BuildLength DEF IInv, TypeOK, PhaseInv, RotationInv, PlaintextInv, Conns
<1>10. ExitZeroIsClean' /\ StartedIsStopped'
  BY BuildLength DEF IInv, TypeOK, HooksInv, PhaseInv, ServeInv, StopInv, RunningInv, OpenInv, ExitZeroIsClean, StartedIsStopped, Conns, Clients, Owners
<1> QED
  BY <1>1, <1>2, <1>3, <1>4, <1>5, <1>6, <1>7, <1>8, <1>9, <1>10 DEF IInv

\* The stop begins with all of its deadline.
LEMMA StopBeginsStep == ASSUME IInv, StopBegins PROVE IInv'
<1> USE DEF StopBegins, buildVars, linkVars, httpVars, sigVars, stopVars
<1>1. TypeOK'
  BY DEF IInv, TypeOK, Phases, StopTimeout, MaxShutdownTimeout, Minute, Second
<1>2. HooksInv'
  BY BuildLength DEF IInv, TypeOK, HookNames, HooksInv, PhaseInv, Rank
<1>3. PhaseInv'
  BY BuildLength DEF IInv, TypeOK, PhaseInv, ServeInv
<1>4. ServeInv' /\ ConnectionsInv'
  BY BuildLength DEF IInv, TypeOK, HooksInv, PhaseInv, ServeInv, ConnectionsInv
<1>5. StopInv' /\ DrainInv'
  BY BuildLength DEF IInv, TypeOK, PhaseInv, StopInv, ServeInv, DrainInv
<1>6. RunningInv'
  BY BuildLength DEF IInv, TypeOK, HooksInv, PhaseInv, RunningInv
<1>7. OpenInv'
  BY BuildLength DEF IInv, TypeOK, HooksInv, PhaseInv, ServeInv, OpenInv, HookOf, Owners, Conns, Clients
<1>8. PlacedInv'
  BY BuildLength DEF IInv, TypeOK, HooksInv, PhaseInv, ServeInv, PlacedInv, Conns, Clients, Owners
<1>9. RotationInv' /\ PlaintextInv'
  BY BuildLength DEF IInv, TypeOK, PhaseInv, RotationInv, PlaintextInv, Conns
<1>10. ExitZeroIsClean' /\ StartedIsStopped'
  BY BuildLength DEF IInv, TypeOK, HooksInv, PhaseInv, ServeInv, StopInv, RunningInv, OpenInv, ExitZeroIsClean, StartedIsStopped, Conns, Clients, Owners
<1> QED
  BY <1>1, <1>2, <1>3, <1>4, <1>5, <1>6, <1>7, <1>8, <1>9, <1>10 DEF IInv

\* The drain begins before anything else is stopped.
LEMMA StopRunStep == ASSUME IInv, StopRun PROVE IInv'
<1> USE DEF StopRun, Stopping, buildVars, linkVars, httpVars, sigVars, stopVars
<1>0. phase = "stopping" /\ started = Len(hooks) /\ started \in DOMAIN hooks
  BY AtRun DEF StopRun
<1>1. TypeOK'
  BY <1>0, BuildLength DEF IInv, TypeOK, Phases, HookNames, Conns
<1>2. HooksInv'
  BY <1>0, BuildLength DEF IInv, TypeOK, HookNames, HooksInv, PhaseInv, Rank
<1>3. PhaseInv'
  BY <1>0, BuildLength DEF IInv, TypeOK, PhaseInv, ServeInv
<1>4. ServeInv' /\ ConnectionsInv'
  BY <1>0, BuildLength DEF IInv, TypeOK, HooksInv, PhaseInv, ServeInv, ConnectionsInv
<1>5. StopInv' /\ DrainInv'
  BY <1>0, BuildLength DEF IInv, TypeOK, PhaseInv, StopInv, ServeInv, DrainInv
<1>6. RunningInv'
  BY <1>0, BuildLength DEF IInv, TypeOK, HooksInv, PhaseInv, RunningInv
<1>7. OpenInv'
  BY <1>0, BuildLength DEF IInv, TypeOK, HooksInv, PhaseInv, ServeInv, OpenInv, HookOf, Owners, Conns, Clients
<1>8. PlacedInv'
  BY <1>0, BuildLength DEF IInv, TypeOK, HooksInv, PhaseInv, ServeInv, PlacedInv, Conns, Clients, Owners
<1>9. RotationInv' /\ PlaintextInv'
  BY <1>0, BuildLength DEF IInv, TypeOK, PhaseInv, RotationInv, PlaintextInv, Conns
<1>10. ExitZeroIsClean' /\ StartedIsStopped'
  BY <1>0, BuildLength DEF IInv, TypeOK, HooksInv, PhaseInv, ServeInv, StopInv, RunningInv, OpenInv, ExitZeroIsClean, StartedIsStopped, Conns, Clients, Owners
<1> QED
  BY <1>1, <1>2, <1>3, <1>4, <1>5, <1>6, <1>7, <1>8, <1>9, <1>10 DEF IInv

\* The drain ends within its own bound, below the deadline.
LEMMA DrainedStep == ASSUME IInv, Drained PROVE IInv'
<1> USE DEF Drained, OnStop, Stopping, Least, idle, buildVars, linkVars, httpVars, sigVars, stopVars
<1>0. phase = "stopping" /\ started = Len(hooks) /\ started \in DOMAIN hooks
  BY AtRun DEF Drained, OnStop
<1>c. /\ conn' \in [Conns -> [auth : Int, files : [FileKeys -> STRING] \cup {<<>>},
                             state : {"none", "open", "closed"}]]
      /\ \A d \in Conns : /\ conn'[d].auth = conn[d].auth
                          /\ conn'[d].files = conn[d].files
                          /\ conn'[d].state = "open" => conn[d].state = "open" /\ d # "control"
                          /\ conn'[d].state = "none" <=> conn[d].state = "none"
  BY ClosesFacts DEF IInv, Drained, Conns, Clients, Owners
<1>l. /\ left = StopTimeout /\ cfg.http.shutdown_timeout \in Int
      /\ 0 < cfg.http.shutdown_timeout /\ cfg.http.shutdown_timeout < StopTimeout
      /\ StopTimeout \in Nat
  BY <1>0, AcceptedFacts DEF IInv, TypeOK, PhaseInv, StopInv, StopTimeout, MaxShutdownTimeout, Minute, Second
<1>1. TypeOK'
  <2>0. failed' \in BOOLEAN
    BY Zenon DEF IInv, TypeOK
  <2>1. left' \in Nat
    BY <1>0, <1>l DEF IInv, TypeOK
  <2>2. started' \in 0..Len(hooks)
    BY <1>0 DEF IInv, TypeOK
  <2> QED
    BY <1>c, <2>0, <2>1, <2>2 DEF IInv, TypeOK
<1>2. HooksInv'
  BY <1>0, <1>c, BuildLength DEF IInv, TypeOK, HookNames, HooksInv, PhaseInv, Rank
<1>3. PhaseInv'
  BY <1>0, <1>c, BuildLength DEF IInv, TypeOK, PhaseInv, ServeInv
<1>4. ServeInv' /\ ConnectionsInv'
  BY <1>0, <1>c, BuildLength DEF IInv, TypeOK, HooksInv, PhaseInv, ServeInv, ConnectionsInv
<1>5. StopInv' /\ DrainInv'
  <2>1. drain' \in {"clean", "expired"} /\ (drain' = "expired" => failed')
    BY <1>0, <1>l
  <2> QED
    BY <2>1 DEF IInv, StopInv, DrainInv
<1>6. RunningInv'
  BY <1>0, <1>c, BuildLength DEF IInv, TypeOK, HooksInv, PhaseInv, RunningInv
<1>7. OpenInv'
  BY <1>0, <1>c, BuildLength DEF IInv, TypeOK, HooksInv, PhaseInv, ServeInv, OpenInv, HookOf, Owners, Conns, Clients
<1>8. PlacedInv'
  BY <1>0, <1>c, BuildLength DEF IInv, TypeOK, HooksInv, PhaseInv, ServeInv, PlacedInv, Conns, Clients, Owners
<1>9. RotationInv' /\ PlaintextInv'
  BY <1>0, <1>c, BuildLength DEF IInv, TypeOK, PhaseInv, RotationInv, PlaintextInv, Conns
<1>10. ExitZeroIsClean' /\ StartedIsStopped'
  BY <1>0, <1>c, BuildLength DEF IInv, TypeOK, HooksInv, PhaseInv, ServeInv, StopInv, RunningInv, OpenInv, ExitZeroIsClean, StartedIsStopped, Conns, Clients, Owners
<1> QED
  BY <1>1, <1>2, <1>3, <1>4, <1>5, <1>6, <1>7, <1>8, <1>9, <1>10 DEF IInv

\* The metrics listener is stopped after the drain.
LEMMA StopMetricsStep == ASSUME IInv, StopMetrics PROVE IInv'
<1> USE DEF StopMetrics, OnStop, Stopping, buildVars, linkVars, httpVars, sigVars, stopVars
<1>0. /\ started \in DOMAIN hooks /\ started < Len(hooks)
      /\ phase = "stopping" => drain \notin {"none", "waiting"}
  BY BelowRun DEF StopMetrics, OnStop, Owners
<1>1. TypeOK'
  <2>0. failed' \in BOOLEAN
    BY Zenon DEF IInv, TypeOK
  <2>1. left' \in Nat
    BY <1>0 DEF IInv, TypeOK
  <2>2. started' \in 0..Len(hooks)
    BY <1>0 DEF IInv, TypeOK
  <2> QED
    BY <2>0, <2>1, <2>2 DEF IInv, TypeOK
<1>2. HooksInv'
  BY <1>0, BuildLength DEF IInv, TypeOK, HookNames, HooksInv, PhaseInv, Rank
<1>3. PhaseInv'
  BY <1>0, BuildLength DEF IInv, TypeOK, PhaseInv, ServeInv
<1>4. ServeInv' /\ ConnectionsInv'
  BY <1>0, BuildLength DEF IInv, TypeOK, HooksInv, PhaseInv, ServeInv, ConnectionsInv
<1>5. StopInv' /\ DrainInv'
  BY <1>0, BuildLength DEF IInv, TypeOK, PhaseInv, StopInv, ServeInv, DrainInv
<1>6. RunningInv'
  BY <1>0, BuildLength DEF IInv, TypeOK, HooksInv, PhaseInv, RunningInv
<1>7. OpenInv'
  BY <1>0, BuildLength DEF IInv, TypeOK, HooksInv, PhaseInv, ServeInv, OpenInv, HookOf, Owners, Conns, Clients
<1>8. PlacedInv'
  BY <1>0, BuildLength DEF IInv, TypeOK, HooksInv, PhaseInv, ServeInv, PlacedInv, Conns, Clients, Owners
<1>9. RotationInv' /\ PlaintextInv'
  BY <1>0, BuildLength DEF IInv, TypeOK, PhaseInv, RotationInv, PlaintextInv, Conns
<1>10. ExitZeroIsClean' /\ StartedIsStopped'
  BY <1>0, BuildLength DEF IInv, TypeOK, HooksInv, PhaseInv, ServeInv, StopInv, RunningInv, OpenInv, ExitZeroIsClean, StartedIsStopped, Conns, Clients, Owners
<1> QED
  BY <1>1, <1>2, <1>3, <1>4, <1>5, <1>6, <1>7, <1>8, <1>9, <1>10 DEF IInv

\* The collector is closed after the drain.
LEMMA StopTracerStep == ASSUME IInv, StopTracer PROVE IInv'
<1> USE DEF StopTracer, OnStop, Stopping, Closes, Least, FlushTimeout, Second, buildVars, linkVars, httpVars, sigVars, stopVars
<1>0. /\ started \in DOMAIN hooks /\ started < Len(hooks)
      /\ phase = "stopping" => drain \notin {"none", "waiting"}
  BY BelowRun DEF StopTracer, OnStop, Owners
<1>c. /\ conn' \in [Conns -> [auth : Int, files : [FileKeys -> STRING] \cup {<<>>},
                             state : {"none", "open", "closed"}]]
      /\ \A d \in Conns : /\ conn'[d].auth = conn[d].auth
                          /\ conn'[d].files = conn[d].files
                          /\ conn'[d].state = "open" => conn[d].state = "open" /\ d # "collector"
                          /\ conn'[d].state = "none" <=> conn[d].state = "none"
  BY ClosesFacts DEF IInv, StopTracer, Conns, Clients, Owners
<1>1. TypeOK'
  <2>0. failed' \in BOOLEAN
    BY Zenon DEF IInv, TypeOK
  <2>1. left' \in Nat
    BY <1>0 DEF IInv, TypeOK, Second
  <2>2. started' \in 0..Len(hooks)
    BY <1>0 DEF IInv, TypeOK
  <2> QED
    BY <1>c, <2>0, <2>1, <2>2 DEF IInv, TypeOK
<1>2. HooksInv'
  BY <1>0, <1>c, BuildLength DEF IInv, TypeOK, HookNames, HooksInv, PhaseInv, Rank
<1>3. PhaseInv'
  BY <1>0, <1>c, BuildLength DEF IInv, TypeOK, PhaseInv, ServeInv
<1>4. ServeInv' /\ ConnectionsInv'
  BY <1>0, <1>c, BuildLength DEF IInv, TypeOK, HooksInv, PhaseInv, ServeInv, ConnectionsInv
<1>5. StopInv' /\ DrainInv'
  BY <1>0, <1>c, BuildLength DEF IInv, TypeOK, PhaseInv, StopInv, ServeInv, DrainInv
<1>6. RunningInv'
  BY <1>0, <1>c, BuildLength DEF IInv, TypeOK, HooksInv, PhaseInv, RunningInv
<1>7. OpenInv'
  BY <1>0, <1>c, BuildLength DEF IInv, TypeOK, HooksInv, PhaseInv, ServeInv, OpenInv, HookOf, Owners, Conns, Clients
<1>8. PlacedInv'
  BY <1>0, <1>c, BuildLength DEF IInv, TypeOK, HooksInv, PhaseInv, ServeInv, PlacedInv, Conns, Clients, Owners
<1>9. RotationInv' /\ PlaintextInv'
  BY <1>0, <1>c, BuildLength DEF IInv, TypeOK, PhaseInv, RotationInv, PlaintextInv, Conns
<1>10. ExitZeroIsClean' /\ StartedIsStopped'
  BY <1>0, <1>c, BuildLength DEF IInv, TypeOK, HooksInv, PhaseInv, ServeInv, StopInv, RunningInv, OpenInv, ExitZeroIsClean, StartedIsStopped, Conns, Clients, Owners
<1> QED
  BY <1>1, <1>2, <1>3, <1>4, <1>5, <1>6, <1>7, <1>8, <1>9, <1>10 DEF IInv

\* An owner is closed after the drain.
LEMMA StopGatewayStep == ASSUME NEW o \in Owners, IInv, StopGateway(o) PROVE IInv'
<1> USE DEF StopGateway, OnStop, Stopping, Closes, Owners, buildVars, linkVars, httpVars, sigVars, stopVars
<1>0. /\ started \in DOMAIN hooks /\ started < Len(hooks)
      /\ phase = "stopping" => drain \notin {"none", "waiting"}
  BY BelowRun DEF StopGateway, OnStop, Owners
<1>c. /\ conn' \in [Conns -> [auth : Int, files : [FileKeys -> STRING] \cup {<<>>},
                             state : {"none", "open", "closed"}]]
      /\ \A d \in Conns : /\ conn'[d].auth = conn[d].auth
                          /\ conn'[d].files = conn[d].files
                          /\ conn'[d].state = "open" => conn[d].state = "open" /\ d # o
                          /\ conn'[d].state = "none" <=> conn[d].state = "none"
  <2>1. TypeOK /\ o \in Conns
    BY DEF IInv, Conns, Clients
  <2>2. Closes(o)
    OBVIOUS
  <2> HIDE DEF Closes, Conns
  <2> QED
    BY <2>1, <2>2, ClosesFacts
<1>1. TypeOK'
  BY <1>0, <1>c, BuildLength DEF IInv, TypeOK, Phases, HookNames, Conns
<1>2. HooksInv'
  BY <1>0, <1>c, BuildLength DEF IInv, TypeOK, HookNames, HooksInv, PhaseInv, Rank
<1>3. PhaseInv'
  BY <1>0, <1>c, BuildLength DEF IInv, TypeOK, PhaseInv, ServeInv
<1>4. ServeInv' /\ ConnectionsInv'
  BY <1>0, <1>c, BuildLength DEF IInv, TypeOK, HooksInv, PhaseInv, ServeInv, ConnectionsInv
<1>5. StopInv' /\ DrainInv'
  BY <1>0, <1>c, BuildLength DEF IInv, TypeOK, PhaseInv, StopInv, ServeInv, DrainInv
<1>6. RunningInv'
  BY <1>0, <1>c, BuildLength DEF IInv, TypeOK, HooksInv, PhaseInv, RunningInv
<1>7. OpenInv'
  <2>1. ASSUME phase' # "exited", NEW d \in Owners \cup {"collector"}, conn'[d].state = "open"
        PROVE  \E i \in DOMAIN hooks : hooks[i] = HookOf[d] /\ i <= started - 1
    <3>1. conn[d].state = "open" /\ d # o
      BY <1>c, <2>1 DEF Conns, Clients
    <3>2. PICK i \in DOMAIN hooks : hooks[i] = HookOf[d] /\ i <= started
      BY <3>1, <2>1 DEF IInv, OpenInv
    <3>3. HookOf[d] # o
      BY <3>1 DEF HookOf
    <3> QED
      BY <3>2, <3>3 DEF IInv, TypeOK
  <2>2. metrics = "serving" => \E i \in DOMAIN hooks : hooks[i] = "metrics" /\ i <= started - 1
    BY <1>0 DEF IInv, TypeOK, OpenInv
  <2>3. "control" \in Conns /\ "control" # o
    BY DEF Conns, Clients
  <2> QED
    BY <1>0, <1>c, <2>1, <2>2, <2>3 DEF IInv, OpenInv
<1>8. PlacedInv'
  BY <1>0, <1>c, BuildLength DEF IInv, TypeOK, HooksInv, PhaseInv, ServeInv, PlacedInv, Conns, Clients, Owners
<1>9. RotationInv' /\ PlaintextInv'
  BY <1>0, <1>c, BuildLength DEF IInv, TypeOK, PhaseInv, RotationInv, PlaintextInv, Conns
<1>10. ExitZeroIsClean' /\ StartedIsStopped'
  <2>1. phase' # "exited" /\ phase' = phase /\ exit' = exit
    OBVIOUS
  <2>2. exit' # 0
    BY <2>1 DEF IInv, PhaseInv, StopInv
  <2> QED
    BY <2>1, <2>2 DEF ExitZeroIsClean, StartedIsStopped
<1> QED
  BY <1>1, <1>2, <1>3, <1>4, <1>5, <1>6, <1>7, <1>8, <1>9, <1>10 DEF IInv

\* The reloaders are stopped last.
LEMMA StopIdentitiesStep == ASSUME IInv, StopIdentities PROVE IInv'
<1> USE DEF StopIdentities, OnStop, Stopping, buildVars, linkVars, httpVars, sigVars, stopVars
<1>0. /\ started \in DOMAIN hooks /\ started < Len(hooks)
      /\ phase = "stopping" => drain \notin {"none", "waiting"}
  BY BelowRun DEF StopIdentities, OnStop, Owners
<1>1. TypeOK'
  BY <1>0, BuildLength DEF IInv, TypeOK, Phases, HookNames, Conns
<1>2. HooksInv'
  BY <1>0, BuildLength DEF IInv, TypeOK, HookNames, HooksInv, PhaseInv, Rank
<1>3. PhaseInv'
  BY <1>0, BuildLength DEF IInv, TypeOK, PhaseInv, ServeInv
<1>4. ServeInv' /\ ConnectionsInv'
  BY <1>0, BuildLength DEF IInv, TypeOK, HooksInv, PhaseInv, ServeInv, ConnectionsInv
<1>5. StopInv' /\ DrainInv'
  BY <1>0, BuildLength DEF IInv, TypeOK, PhaseInv, StopInv, ServeInv, DrainInv
<1>6. RunningInv'
  <2>1. started = 1
    <3>1. 1 \in DOMAIN hooks /\ hooks[1] = "identities" /\ hooks[started] = "identities"
      BY <1>0 DEF IInv, TypeOK, HooksInv, PhaseInv
    <3>2. ~(1 < started)
      BY <1>0, <3>1 DEF IInv, HooksInv, Rank
    <3> QED
      BY <1>0, <3>2 DEF IInv, TypeOK
  <2> QED
    BY <2>1 DEF IInv, RunningInv
<1>7. OpenInv'
  <2>1. ASSUME NEW i \in DOMAIN hooks, hooks[i] # "identities", i <= started
        PROVE  i <= started'
    <3>1. i # started /\ started' = started - 1
      BY <2>1
    <3> QED
      BY <2>1, <3>1 DEF IInv, TypeOK
  <2>2. \A c \in Owners \cup {"collector"} : HookOf[c] # "identities"
    BY DEF HookOf, Owners
  <2>3. UNCHANGED <<phase, hooks, conn, drain, metrics>>
    OBVIOUS
  <2> QED
    BY <2>1, <2>2, <2>3 DEF IInv, OpenInv
<1>8. PlacedInv'
  BY <1>0, BuildLength DEF IInv, TypeOK, HooksInv, PhaseInv, ServeInv, PlacedInv, Conns, Clients, Owners
<1>9. RotationInv' /\ PlaintextInv'
  BY <1>0, BuildLength DEF IInv, TypeOK, PhaseInv, RotationInv, PlaintextInv, Conns
<1>10. ExitZeroIsClean' /\ StartedIsStopped'
  BY <1>0, BuildLength DEF IInv, TypeOK, HooksInv, PhaseInv, ServeInv, StopInv, RunningInv, OpenInv, ExitZeroIsClean, StartedIsStopped, Conns, Clients, Owners
<1> QED
  BY <1>1, <1>2, <1>3, <1>4, <1>5, <1>6, <1>7, <1>8, <1>9, <1>10 DEF IInv

\* The exit code is the one the stop earned.
LEMMA ExitStep == ASSUME IInv, Exit PROVE IInv'
<1> USE DEF Exit, StopOverdue, buildVars, linkVars, httpVars, sigVars, stopVars
<1>1. TypeOK'
  BY BuildLength DEF IInv, TypeOK, Phases, HookNames, Conns
<1>2. HooksInv'
  BY BuildLength DEF IInv, TypeOK, HookNames, HooksInv, PhaseInv, Rank
<1>3. PhaseInv'
  BY BuildLength DEF IInv, TypeOK, PhaseInv, ServeInv
<1>4. ServeInv' /\ ConnectionsInv'
  BY BuildLength DEF IInv, TypeOK, HooksInv, PhaseInv, ServeInv, ConnectionsInv
<1>5. StopInv' /\ DrainInv'
  BY BuildLength DEF IInv, TypeOK, PhaseInv, StopInv, ServeInv, DrainInv
<1>6. RunningInv'
  BY BuildLength DEF IInv, TypeOK, HooksInv, PhaseInv, RunningInv
<1>7. OpenInv'
  BY BuildLength DEF IInv, TypeOK, HooksInv, PhaseInv, ServeInv, OpenInv, HookOf, Owners, Conns, Clients
<1>8. PlacedInv'
  BY BuildLength DEF IInv, TypeOK, HooksInv, PhaseInv, ServeInv, PlacedInv, Conns, Clients, Owners
<1>9. RotationInv' /\ PlaintextInv'
  BY BuildLength DEF IInv, TypeOK, PhaseInv, RotationInv, PlaintextInv, Conns
<1>10. ExitZeroIsClean' /\ StartedIsStopped'
  BY BuildLength DEF IInv, TypeOK, HooksInv, PhaseInv, ServeInv, StopInv, RunningInv, OpenInv, ExitZeroIsClean, StartedIsStopped, Conns, Clients, Owners
<1> QED
  BY <1>1, <1>2, <1>3, <1>4, <1>5, <1>6, <1>7, <1>8, <1>9, <1>10 DEF IInv

\* A step that changes nothing keeps the invariant.
LEMMA StutterStep == ASSUME IInv, UNCHANGED vars PROVE IInv'
<1> USE DEF vars, buildVars, linkVars, httpVars, sigVars, stopVars
<1>1. TypeOK' /\ HooksInv' /\ PhaseInv' /\ ServeInv' /\ StopInv' /\ RunningInv'
  BY DEF IInv, TypeOK, HooksInv, PhaseInv, ServeInv, StopInv, RunningInv
<1>2. OpenInv' /\ PlacedInv' /\ RotationInv' /\ PlaintextInv'
  BY DEF IInv, OpenInv, PlacedInv, RotationInv, PlaintextInv
<1>3. ConnectionsInv' /\ DrainInv' /\ ExitZeroIsClean' /\ StartedIsStopped'
  BY DEF IInv, ConnectionsInv, DrainInv, ExitZeroIsClean, StartedIsStopped
<1> QED
  BY <1>1, <1>2, <1>3 DEF IInv

\* Every step keeps the invariant.
LEMMA NextStep == IInv /\ [Next]_vars => IInv'
<1> SUFFICES ASSUME IInv, [Next]_vars PROVE IInv'
  OBVIOUS
<1>1. CASE Constructors
  BY <1>1, LoadStep, RefuseStep, newVerifierStep, newIdentitiesStep, newControlStep,
     newGatewayStep, newTracerStep, newMetricsStep, NewServerStep, runStep DEF Constructors
<1>2. CASE StartHooks
  BY <1>2, StartIdentitiesStep, StartNothingStep, StartMetricsStep, StartServerStep,
     BindFailsStep, StartedStep DEF StartHooks
<1>3. CASE StopHooks
  BY <1>3, StopBeginsStep, StopRunStep, DrainedStep, StopMetricsStep, StopTracerStep,
     StopGatewayStep, StopIdentitiesStep, ExitStep DEF StopHooks
<1>4. CASE ListenerReported
  BY <1>4, ListenerReportedStep
<1>5. CASE Environment
  BY <1>5, RequestArrivesStep, RequestEndsStep, ListenerFailsStep, MetricsFailsStep,
     TerminateStep DEF Environment
<1>6. CASE Exited \/ UNCHANGED vars
  BY <1>6, StutterStep DEF Exited
<1> QED
  BY <1>1, <1>2, <1>3, <1>4, <1>5, <1>6 DEF Next, Process

\* The inductive invariant holds of every reachable state.
THEOREM Invariant == Spec => []IInv
BY InitIInv, NextStep, PTL DEF Spec
----------------------------------------------------------------------------
(* The results.                                                            *)

\* The variables have their types.
THEOREM TypeCorrect == Spec => []TypeOK
<1>1. IInv => TypeOK
  BY DEF IInv
<1> QED
  BY <1>1, Invariant, PTL

\* The guard opens only by the file, for every environment: the snapshot is
\* the baseline or what LoadFrom made of this process's own inputs.
LEMMA GuardIsFileOnly == Spec => []GuardInv
<1> DEFINE Source == \/ cfg = defaults
                     \/ given.file # Unreadable /\ cfg = LoadFrom(given.file, given.env)
<1>1. Init => Source
  BY DEF Init
<1>2. Source /\ [Next]_vars => Source'
  <2> SUFFICES ASSUME Source, [Next]_vars PROVE Source'
    OBVIOUS
  <2> USE DEF buildVars
  <2>1. CASE Load
    BY <2>1 DEF Load
  <2>2. CASE Constructors /\ ~Load
    BY <2>2 DEF Constructors, Refuse, newVerifier, newIdentities, newControl, newGateway,
                newTracer, newMetrics, NewServer, run, Built
  <2>3. CASE StartHooks
    BY <2>3 DEF StartHooks, StartIdentities, StartNothing, StartMetrics, StartServer, OnStart,
                BindFails, Started
  <2>4. CASE StopHooks
    BY <2>4 DEF StopHooks, StopBegins, StopRun, Drained, StopMetrics, StopTracer, StopGateway,
                StopIdentities, OnStop, Exit
  <2>5. CASE ListenerReported \/ Environment
    BY <2>5 DEF ListenerReported, Environment, RequestArrives, RequestEnds, ListenerFails,
                MetricsFails, Terminate
  <2>6. CASE Exited \/ UNCHANGED vars
    BY <2>6 DEF Exited, vars
  <2> QED
    BY <2>1, <2>2, <2>3, <2>4, <2>5, <2>6 DEF Next, Process
<1>3. Source => GuardInv
  <2>1. ~defaults.development.enabled
    BY DEF defaults
  <2> QED
    BY <2>1, EnvironmentCannotOpen DEF GuardInv, FileOpensGuard
<1> QED
  BY <1>1, <1>2, <1>3, PTL DEF Spec

\* Nothing is plaintext and no caller is verified from a principals file
\* unless the file opens the guard, for every file and environment.
THEOREM PlaintextNeedsTheGuard == Spec => []PlaintextOnlyInDevelopment
<1>1. IInv /\ GuardInv => PlaintextOnlyInDevelopment
  BY DEF IInv, PlaintextInv, GuardInv, PlaintextOnlyInDevelopment
<1> QED
  BY <1>1, Invariant, GuardIsFileOnly, PTL

\* Every certificate a connection presents is the one its section names and
\* is watched while the connection is open, however the sections share files.
THEOREM RotationCovers == Spec => []RotationCoversConnections
<1>1. ASSUME IInv, NEW c \in Conns, conn[c].state = "open", phase = "stopping"
      PROVE  started > 0
  <2>1. started \in Nat /\ Len(hooks) > 0
    BY <1>1 DEF IInv, TypeOK, PhaseInv, HooksInv
  <2>2. CASE c = "control"
    BY <1>1, <2>1, <2>2 DEF IInv, OpenInv, ServeInv, PhaseInv
  <2>3. CASE c # "control"
    <3>1. c \in Owners \cup {"collector"}
      BY <2>3 DEF Conns, Clients, Owners
    <3>2. \E i \in DOMAIN hooks : i <= started
      BY <1>1, <3>1 DEF IInv, OpenInv
    <3> QED
      BY <2>1, <3>2 DEF IInv, TypeOK
  <2> QED
    BY <2>2, <2>3
<1>2. IInv /\ phase = "running" => started > 0
  BY DEF IInv, TypeOK, PhaseInv, HooksInv
<1>3. IInv => RotationCoversConnections
  BY <1>1, <1>2 DEF IInv, TypeOK, RunningInv, RotationInv, RotationCoversConnections
<1> QED
  BY <1>3, Invariant, PTL

\* No handler loses its connection to an owner before the drain has waited
\* for it as long as the configuration says, for every number of requests,
\* every placement and every accepted shutdown timeout.
THEOREM HandlersKeepTheirConnections == Spec => []ConnectionsOutliveHandlers
<1>1. IInv => ConnectionsOutliveHandlers
  BY DEF IInv, ConnectionsInv, DrainInv, ConnectionsOutliveHandlers
<1> QED
  BY <1>1, Invariant, PTL

\* Exit code 0 means a requested stop in which everything was drained,
\* closed and stopped.
THEOREM ExitZeroTellsTheTruth == Spec => []ExitZeroIsClean
<1>1. IInv => ExitZeroIsClean
  BY DEF IInv
<1> QED
  BY <1>1, Invariant, PTL

\* What was started is stopped, after a failed start too, and of the
\* connections at most Control's is left open, when run never started.
THEOREM NothingLeftStarted == Spec => []StartedIsStopped
<1>1. IInv => StartedIsStopped
  BY DEF IInv
<1> QED
  BY <1>1, Invariant, PTL

=============================================================================
