----------------------------- MODULE Readiness -----------------------------
(***************************************************************************)
(* The readiness probe /readyz (P1.4, API-10): Control's health behind a   *)
(* mutex and a time-limited cache, withdrawn when the shutdown begins.     *)
(*   src/internal/bootstrap/readiness.go        readiness.check, stop      *)
(*   src/internal/adapters/control/client.go    Client.Health              *)
(*   src/internal/transport/http/server.go      the /readyz route          *)
(* Time is counted in ticks by saturating clocks that all advance with     *)
(* Tick, so the model runs forever in finitely many states. Steps of the   *)
(* process take no time: Tick waits for them.                              *)
(***************************************************************************)
EXTENDS Integers

CONSTANTS Probes,        \* slots for concurrent /readyz requests
          NoProbe,       \* nobody holds the mutex
          CacheFor,      \* readiness.cacheFor in ticks (5s)
          HealthTimeout  \* the timeout of one Health call in ticks (2s)

ASSUME ReadinessAssumption ==
    /\ NoProbe \notin Probes
    /\ CacheFor \in Nat \ {0}
    /\ HealthTimeout \in Nat \ {0}

VARIABLES
    control,   \* Control: serving, notServing (or refusing calls), or silent
    stopping,  \* readiness.stopping
    holder,    \* who holds readiness.mu across a Health call
    last,      \* readiness.last; "ok" is a nil error
    age,       \* time since readiness.checked, saturating at CacheFor
    elapsed,   \* time the Health call of the holder has taken
    reply,     \* Control's answer to that call, on its way
    pc,        \* where each probe is
    gone,      \* the probe's request context ended
    answer,    \* what check returned; "ok" is 204, anything else 503
    waited,    \* clock: how long each probe has been in check
    spacing,   \* clock: time since the last Health call began
    evidence   \* clock: time since the call Control answered with last began

controlVars == <<control, stopping>>
cacheVars   == <<last, age, evidence>>
callVars    == <<holder, elapsed, reply, spacing>>
probeVars   == <<pc, gone, answer, waited>>
vars == <<controlVars, cacheVars, callVars, probeVars>>

\* readiness.last: nil, or which of its failures Health returned.
Outcome  == {"ok", "unhealthy", "timeout", "cancelled"}
Freshest == CacheFor + HealthTimeout

TypeOK ==
    /\ control \in {"serving", "notServing", "silent"}
    /\ stopping \in BOOLEAN
    /\ holder \in Probes \cup {NoProbe}
    /\ last \in Outcome
    /\ age \in 0..CacheFor
    /\ elapsed \in 0..HealthTimeout
    /\ reply \in {"none", "ok", "unhealthy"}
    /\ pc \in [Probes -> {"idle", "lock", "health", "answered"}]
    /\ gone \in [Probes -> BOOLEAN]
    /\ answer \in [Probes -> Outcome \cup {"none", "stopping"}]
    /\ waited \in [Probes -> 0..(HealthTimeout + 1)]
    /\ spacing \in 0..CacheFor
    /\ evidence \in 0..Freshest

\* newReadiness: checked is the zero time, so the cache starts out expired.
Init ==
    /\ control = "serving"
    /\ stopping = FALSE
    /\ holder = NoProbe
    /\ last = "ok"
    /\ age = CacheFor
    /\ elapsed = 0
    /\ reply = "none"
    /\ pc = [p \in Probes |-> "idle"]
    /\ gone = [p \in Probes |-> FALSE]
    /\ answer = [p \in Probes |-> "none"]
    /\ waited = [p \in Probes |-> 0]
    /\ spacing = CacheFor
    /\ evidence = Freshest

Upto(n, bound) == IF n > bound THEN bound ELSE n
----------------------------------------------------------------------------
(* readiness.check, up to the Health call.                                 *)

\* The request arrives and check loads stopping, before it takes the mutex.
Probe(p) ==
    /\ pc[p] = "idle"
    /\ pc' = [pc EXCEPT ![p] = IF stopping THEN "answered" ELSE "lock"]
    /\ answer' = [answer EXCEPT ![p] = IF stopping THEN "stopping" ELSE "none"]
    /\ UNCHANGED <<controlVars, cacheVars, callVars, gone, waited>>

Expired_Early == age + 1 >= CacheFor   \* mutant: the cache is kept one tick short
Expired == ~(age < CacheFor)

Answers(p, outcome) ==
    /\ pc' = [pc EXCEPT ![p] = "answered"]
    /\ answer' = [answer EXCEPT ![p] = outcome]

Cached_Sliding(p) ==   \* mutant: a hit renews the cache
    /\ pc[p] = "lock"
    /\ holder = NoProbe
    /\ ~Expired
    /\ Answers(p, last)
    /\ age' = 0
    /\ UNCHANGED <<controlVars, last, evidence, callVars, gone, waited>>

\* Lock, a fresh cache, return last, unlock.
Cached(p) ==
    /\ pc[p] = "lock"
    /\ holder = NoProbe
    /\ ~Expired
    /\ Answers(p, last)
    /\ UNCHANGED <<controlVars, cacheVars, callVars, gone, waited>>

\* Lock, a stale cache: Health is called with the mutex held.
CallHealth(p) ==
    /\ pc[p] = "lock"
    /\ holder = NoProbe
    /\ Expired
    /\ holder' = p
    /\ elapsed' = 0
    /\ reply' = "none"
    /\ spacing' = 0
    /\ pc' = [pc EXCEPT ![p] = "health"]
    /\ UNCHANGED <<controlVars, cacheVars, gone, answer, waited>>
----------------------------------------------------------------------------
(* The Health call returns: last and checked are written, mu is unlocked.  *)

Returned_OnlySuccess(p, outcome) ==   \* mutant: a failure is not cached
    /\ last' = outcome
    /\ age' = IF outcome = "ok" THEN 0 ELSE age
    /\ evidence' = IF outcome \in {"ok", "unhealthy"} THEN elapsed ELSE Freshest
    /\ holder' = NoProbe
    /\ elapsed' = 0
    /\ reply' = "none"
    /\ Answers(p, outcome)
    /\ UNCHANGED <<controlVars, spacing, gone, waited>>

Returned(p, outcome) ==
    /\ last' = outcome
    /\ age' = 0
    /\ evidence' = IF outcome \in {"ok", "unhealthy"} THEN elapsed ELSE Freshest
    /\ holder' = NoProbe
    /\ elapsed' = 0
    /\ reply' = "none"
    /\ Answers(p, outcome)
    /\ UNCHANGED <<controlVars, spacing, gone, waited>>

HealthAnswered(p) ==
    /\ pc[p] = "health"
    /\ reply # "none"
    /\ Returned(p, reply)

HealthTimesOut_Keeps(p) ==   \* mutant: a timeout leaves the last outcome in force
    /\ pc[p] = "health"
    /\ elapsed = HealthTimeout
    /\ age' = 0
    /\ holder' = NoProbe
    /\ elapsed' = 0
    /\ reply' = "none"
    /\ Answers(p, last)
    /\ UNCHANGED <<controlVars, last, evidence, spacing, gone, waited>>

HealthTimesOut(p) ==
    /\ pc[p] = "health"
    /\ elapsed = HealthTimeout
    /\ Returned(p, "timeout")

\* The call's context derives from the probe's request.
HealthCancelled(p) ==
    /\ pc[p] = "health"
    /\ gone[p]
    /\ Returned(p, "cancelled")
----------------------------------------------------------------------------
(* The environment: Control, the probing client, the shutdown, time.       *)

\* Control's health service answers the call with its state of the moment.
ControlAnswers ==
    /\ holder # NoProbe
    /\ reply = "none"
    /\ control # "silent"
    /\ reply' = IF control = "serving" THEN "ok" ELSE "unhealthy"
    /\ UNCHANGED <<controlVars, cacheVars, holder, elapsed, spacing, probeVars>>

ControlChanges ==
    /\ control' \in {"serving", "notServing", "silent"} \ {control}
    /\ UNCHANGED <<stopping, cacheVars, callVars, probeVars>>

\* The client gives up on its request (a kubelet's timeoutSeconds).
ProbeLeaves(p) ==
    /\ pc[p] \in {"lock", "health"}
    /\ ~gone[p]
    /\ gone' = [gone EXCEPT ![p] = TRUE]
    /\ UNCHANGED <<controlVars, cacheVars, callVars, pc, answer, waited>>

\* The shutdown begins: readiness.stop, ahead of Server.Stop.
Stop ==
    /\ ~stopping
    /\ stopping' = TRUE
    /\ UNCHANGED <<control, cacheVars, callVars, probeVars>>

\* The process has a step to take at once: a probe can lock, a call returns,
\* or Control, which is not silent, answers just before the call's deadline.
Urgent ==
    \/ holder = NoProbe /\ \E p \in Probes : pc[p] = "lock"
    \/ holder # NoProbe /\ (elapsed = HealthTimeout \/ gone[holder])
    \/ /\ holder # NoProbe /\ elapsed + 1 = HealthTimeout
       /\ reply # "none" \/ control # "silent"

\* Time passes. An answered request is over and its slot takes another: at
\* most one request per slot and tick.
Tick ==
    /\ ~Urgent
    /\ age' = Upto(age + 1, CacheFor)
    /\ spacing' = Upto(spacing + 1, CacheFor)
    /\ evidence' = Upto(evidence + 1, Freshest)
    /\ elapsed' = IF holder = NoProbe THEN 0 ELSE elapsed + 1
    /\ LET over(p) == pc[p] \in {"idle", "answered"} IN
       /\ pc' = [p \in Probes |-> IF over(p) THEN "idle" ELSE pc[p]]
       /\ gone' = [p \in Probes |-> gone[p] /\ ~over(p)]
       /\ answer' = [p \in Probes |-> "none"]
       /\ waited' = [p \in Probes |->
                       IF over(p) THEN 0 ELSE Upto(waited[p] + 1, HealthTimeout + 1)]
    /\ UNCHANGED <<controlVars, last, holder, reply>>
----------------------------------------------------------------------------
Check(p) ==
    \/ Cached(p) \/ CallHealth(p)
    \/ HealthAnswered(p) \/ HealthTimesOut(p) \/ HealthCancelled(p)

Next ==
    \/ \E p \in Probes : Probe(p) \/ Check(p) \/ ProbeLeaves(p)
    \/ ControlAnswers \/ ControlChanges \/ Stop \/ Tick

Spec == Init /\ [][Next]_vars

\* Fairness. Go runs a goroutine that can run, sync.Mutex hands over to a
\* waiter (its starvation mode), time passes however often Control changes,
\* and a Control that is not silent answers. Nothing is assumed of clients,
\* of Control's changes or of the shutdown.
Fairness ==
    /\ SF_vars(Tick) /\ SF_vars(ControlAnswers)
    /\ \A p \in Probes : SF_vars(Check(p))

FairSpec == Spec /\ Fairness
----------------------------------------------------------------------------
(* Properties                                                              *)

\* "Cached for cacheFor so probes never storm Control" (readiness.go:13-14):
\* however many probes run at once, Health calls begin at least cacheFor
\* apart and never two at a time.
NoStorm ==
    [][\A p \in Probes : pc[p] # "health" /\ pc'[p] = "health"
         => spacing = CacheFor /\ \A q \in Probes : pc[q] # "health"]_vars

\* A probe waits for the mutex behind somebody else's Health call and may
\* then have to call Health itself; still every probe is answered within one
\* Health timeout, because every outcome of the call it waited for is cached.
AnsweredInTime ==
    \A p \in Probes : waited[p] <= HealthTimeout

\* A 204 is Control's own answer, and never older than the cache time plus
\* one Health timeout: no failure, race or timeout refreshes an old answer.
ReadyIsFresh ==
    [][\A p \in Probes : answer[p] # "ok" /\ answer'[p] = "ok"
         => evidence' < CacheFor + HealthTimeout]_vars

\* Once Control serves for good, clients stay and the process does not stop,
\* the probes of the future are all answered 204: no failure sticks in the
\* cache, whatever the rate of the probes.
Recovers ==
    <>[](control = "serving" /\ ~stopping /\ \A p \in Probes : ~gone[p])
      => <>[](\A p \in Probes : answer[p] \in {"none", "ok"})

\* What readiness.go:13 says is cached is "Control's health": a probe whose
\* client stayed is not refused because some other client went away.
OthersLeavingIsNotHealth ==
    \A p \in Probes : answer[p] = "cancelled" => gone[p]

\* "Withdrawn the moment the shutdown begins" (readiness.go:14-15): no probe
\* is answered 204 once stop was called.
WithdrawnAtOnce ==
    [][\A p \in Probes : stopping /\ answer[p] = "none" => answer'[p] # "ok"]_vars
=============================================================================
