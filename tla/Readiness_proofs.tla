------------------------- MODULE Readiness_proofs -------------------------
(***************************************************************************)
(* Proofs about Readiness, for any number of probes and any cache time and *)
(* Health timeout. The inductive invariant has four parts beside TypeOK:   *)
(* who is in the Health call holds the mutex; between calls the cache is   *)
(* no older than the last call's begin; nobody has waited longer than the  *)
(* call it waits behind, and who waits between two calls has a fresh cache *)
(* or has just come; a kept "ok" is at most one Health timeout older than  *)
(* the cache.                                                              *)
(***************************************************************************)
EXTENDS Readiness, TLAPS

\* Exactly the holder of the mutex is in the Health call.
MutexInv == \A p \in Probes : pc[p] = "health" <=> holder = p

\* Between two calls, checked is no earlier than the last call's begin.
SpacingInv == holder = NoProbe => age <= spacing

\* What bounds each probe's wait.
WaitInv ==
    \A p \in Probes :
      /\ pc[p] \in {"lock", "health"} /\ holder # NoProbe => waited[p] <= elapsed
      /\ pc[p] = "lock" /\ holder = NoProbe => waited[p] = 0 \/ age = 0
      /\ pc[p] = "idle" => waited[p] = 0
      /\ waited[p] <= HealthTimeout

\* A kept "ok" was given by a call that ended when the cache was written.
EvidenceInv == last = "ok" => evidence <= age + HealthTimeout

Inv == TypeOK /\ MutexInv /\ SpacingInv /\ WaitInv /\ EvidenceInv

\* The initial state satisfies the invariant: no call has been made.
LEMMA InitInv == Init => Inv
  <1> SUFFICES ASSUME Init PROVE Inv
    OBVIOUS
  <1> USE ReadinessAssumption DEF Init
  <1>1. TypeOK
    <2>1. gone \in [Probes -> BOOLEAN] /\ stopping \in BOOLEAN
      BY Zenon
    <2>2. /\ age \in 0..CacheFor /\ elapsed \in 0..HealthTimeout
          /\ spacing \in 0..CacheFor /\ evidence \in 0..Freshest
      BY DEF Freshest
    <2>3. 0 \in 0..(HealthTimeout + 1)
      OBVIOUS
    <2>4. /\ pc \in [Probes -> {"idle", "lock", "health", "answered"}]
          /\ answer \in [Probes -> Outcome \cup {"none", "stopping"}]
          /\ waited \in [Probes -> 0..(HealthTimeout + 1)]
      BY <2>3, Zenon
    <2> QED BY <2>1, <2>2, <2>4 DEF TypeOK, Outcome
  <1>2. MutexInv /\ SpacingInv /\ EvidenceInv
    BY DEF MutexInv, SpacingInv, EvidenceInv, Freshest
  <1>3. \A p \in Probes : pc[p] = "idle" /\ waited[p] = 0
    BY Zenon
  <1> HIDE DEF Init
  <1>4. WaitInv
    <2> SUFFICES ASSUME NEW p \in Probes
                 PROVE  /\ pc[p] \notin {"lock", "health"}
                        /\ waited[p] = 0
                        /\ 0 <= HealthTimeout
      BY DEF WaitInv
    <2> QED BY <1>3
  <1> QED BY <1>1, <1>2, <1>4 DEF Inv

\* A call's return keeps the invariant, whatever its outcome.
LEMMA ReturnedInv ==
    ASSUME Inv, NEW p \in Probes, NEW o \in Outcome, pc[p] = "health", Returned(p, o)
    PROVE  Inv'
  <1> USE ReadinessAssumption
  <1> holder = p /\ holder # NoProbe
    BY DEF Inv, MutexInv
  <1>1. TypeOK'
    BY DEF Inv, TypeOK, Returned, Answers, Freshest, controlVars, Outcome
  <1>2. MutexInv'
    BY DEF Inv, TypeOK, MutexInv, Returned, Answers
  <1>3. SpacingInv'
    BY DEF Inv, TypeOK, SpacingInv, Returned
  <1>4. WaitInv'
    BY DEF Inv, TypeOK, WaitInv, Returned, Answers
  <1>5. EvidenceInv'
    BY DEF Inv, TypeOK, EvidenceInv, Returned
  <1> QED BY <1>1, <1>2, <1>3, <1>4, <1>5 DEF Inv

\* The passage of time keeps the invariant: it waits for urgent steps.
LEMMA TickInv == Inv /\ Tick => Inv'
  <1> SUFFICES ASSUME Inv, Tick PROVE Inv'
    OBVIOUS
  <1> USE ReadinessAssumption
  <1>0. holder # NoProbe => holder \in Probes /\ elapsed < HealthTimeout
    BY DEF Inv, TypeOK, Tick, Urgent
  <1>1. TypeOK'
    BY <1>0 DEF Inv, TypeOK, Tick, Upto, Freshest, controlVars
  <1>2. MutexInv'
    BY DEF Inv, TypeOK, MutexInv, Tick
  <1>3. SpacingInv'
    BY DEF Inv, TypeOK, SpacingInv, Tick, Upto
  <1>4. WaitInv'
    <2> SUFFICES ASSUME NEW p \in Probes
                 PROVE  /\ (pc[p] \in {"lock", "health"} /\ holder # NoProbe => waited[p] <= elapsed)'
                        /\ (pc[p] = "lock" /\ holder = NoProbe => waited[p] = 0 \/ age = 0)'
                        /\ (pc[p] = "idle" => waited[p] = 0)'
                        /\ (waited[p] <= HealthTimeout)'
      BY DEF WaitInv
    <2>1. CASE pc[p] \in {"idle", "answered"}
      BY <2>1, <1>1 DEF Inv, TypeOK, Tick
    <2>2. CASE pc[p] \in {"lock", "health"}
      <3>1. holder # NoProbe
        BY <2>2 DEF Inv, TypeOK, MutexInv, Tick, Urgent
      <3>2. waited[p] <= elapsed
        BY <2>2, <3>1 DEF Inv, WaitInv
      <3> QED BY <2>2, <3>1, <3>2, <1>0 DEF Inv, TypeOK, Tick, Upto
    <2> QED BY <2>1, <2>2 DEF Inv, TypeOK
  <1>5. EvidenceInv'
    BY DEF Inv, TypeOK, EvidenceInv, Tick, Upto, Freshest
  <1> QED BY <1>1, <1>2, <1>3, <1>4, <1>5 DEF Inv

\* Every step keeps the invariant.
LEMMA NextInv == Inv /\ [Next]_vars => Inv'
  <1> SUFFICES ASSUME Inv, [Next]_vars PROVE Inv'
    OBVIOUS
  <1> USE ReadinessAssumption
  <1> USE DEF controlVars, cacheVars, callVars, probeVars
  <1>1. ASSUME NEW p \in Probes, Probe(p) PROVE Inv'
    BY <1>1 DEF Inv, TypeOK, MutexInv, SpacingInv, WaitInv, EvidenceInv, Probe, Outcome
  <1>2. ASSUME NEW p \in Probes, Cached(p) PROVE Inv'
    BY <1>2 DEF Inv, TypeOK, MutexInv, SpacingInv, WaitInv, EvidenceInv, Cached, Answers, Outcome
  <1>3. ASSUME NEW p \in Probes, CallHealth(p) PROVE Inv'
    <2>1. age = CacheFor
      BY <1>3 DEF Inv, TypeOK, CallHealth, Expired
    <2>2. TypeOK' /\ MutexInv' /\ SpacingInv' /\ EvidenceInv'
      BY <1>3 DEF Inv, TypeOK, MutexInv, SpacingInv, EvidenceInv, CallHealth
    <2>3. WaitInv'
      BY <1>3, <2>1 DEF Inv, TypeOK, WaitInv, MutexInv, CallHealth
    <2> QED BY <2>2, <2>3 DEF Inv
  <1>4. ASSUME NEW p \in Probes, HealthAnswered(p) PROVE Inv'
    BY <1>4, ReturnedInv DEF HealthAnswered, Inv, TypeOK, Outcome
  <1>5. ASSUME NEW p \in Probes, HealthTimesOut(p) PROVE Inv'
    BY <1>5, ReturnedInv DEF HealthTimesOut, Outcome
  <1>6. ASSUME NEW p \in Probes, HealthCancelled(p) PROVE Inv'
    BY <1>6, ReturnedInv DEF HealthCancelled, Outcome
  <1>7. ASSUME NEW p \in Probes, ProbeLeaves(p) PROVE Inv'
    BY <1>7 DEF Inv, TypeOK, MutexInv, SpacingInv, WaitInv, EvidenceInv, ProbeLeaves
  <1>8. CASE ControlAnswers
    BY <1>8 DEF Inv, TypeOK, MutexInv, SpacingInv, WaitInv, EvidenceInv, ControlAnswers
  <1>9. CASE ControlChanges
    BY <1>9 DEF Inv, TypeOK, MutexInv, SpacingInv, WaitInv, EvidenceInv, ControlChanges
  <1>10. CASE Stop
    BY <1>10 DEF Inv, TypeOK, MutexInv, SpacingInv, WaitInv, EvidenceInv, Stop
  <1>11. CASE Tick
    BY <1>11, TickInv
  <1>12. CASE UNCHANGED vars
    BY <1>12 DEF Inv, TypeOK, MutexInv, SpacingInv, WaitInv, EvidenceInv, vars
  <1> QED
    BY <1>1, <1>2, <1>3, <1>4, <1>5, <1>6, <1>7, <1>8, <1>9, <1>10, <1>11, <1>12
    DEF Next, Check

\* The invariant holds of every reachable state.
THEOREM Invariance == Spec => []Inv
  <1>1. Init => Inv
    BY InitInv
  <1>2. Inv /\ [Next]_vars => Inv'
    BY NextInv
  <1> QED BY <1>1, <1>2, PTL DEF Spec

\* Type correctness of the readiness cache and its clocks.
THEOREM TypeCorrect == Spec => []TypeOK
  <1>1. Inv => TypeOK
    BY DEF Inv
  <1> QED BY <1>1, Invariance, PTL

\* Every probe is answered within one Health timeout (readiness.check),
\* however many probes wait for the mutex.
THEOREM ProbesAnsweredInTime == Spec => []AnsweredInTime
  <1>1. Inv => AnsweredInTime
    BY DEF Inv, WaitInv, AnsweredInTime
  <1> QED BY <1>1, Invariance, PTL

\* Probes never storm Control: Health calls begin cacheFor apart and never
\* overlap.
THEOREM ProbesNeverStorm == Spec => NoStorm
  <1> DEFINE Apart ==
        \A p \in Probes : pc[p] # "health" /\ pc'[p] = "health"
          => spacing = CacheFor /\ \A q \in Probes : pc[q] # "health"
  <1>1. Inv /\ [Next]_vars => [Apart]_vars
    <2> SUFFICES ASSUME Inv, Next, NEW p \in Probes, pc[p] # "health", pc'[p] = "health"
                 PROVE  spacing = CacheFor /\ \A q \in Probes : pc[q] # "health"
      OBVIOUS
    <2> USE ReadinessAssumption DEF probeVars
    <2>1. CallHealth(p)
      <3>1. ASSUME NEW q \in Probes, Probe(q) \/ Cached(q) \/ HealthAnswered(q)
                     \/ HealthTimesOut(q) \/ HealthCancelled(q) \/ ProbeLeaves(q)
            PROVE  FALSE
        BY <3>1 DEF Inv, TypeOK, Probe, Cached, HealthAnswered, HealthTimesOut,
                    HealthCancelled, Returned, Answers, ProbeLeaves
      <3>2. ASSUME NEW q \in Probes, CallHealth(q) PROVE q = p
        BY <3>2 DEF Inv, TypeOK, CallHealth
      <3>3. ~(ControlAnswers \/ ControlChanges \/ Stop \/ Tick)
        BY DEF Inv, TypeOK, ControlAnswers, ControlChanges, Stop, Tick
      <3> QED BY <3>1, <3>2, <3>3 DEF Next, Check
    <2>2. holder = NoProbe /\ age = CacheFor
      BY <2>1 DEF CallHealth, Expired, Inv, TypeOK
    <2> QED BY <2>2 DEF Inv, TypeOK, MutexInv, SpacingInv
  <1> QED BY <1>1, Invariance, PTL DEF Spec, NoStorm

\* A 204 rests on an answer of Control that is younger than the cache time
\* plus one Health timeout.
THEOREM ReadyAnswersAreFresh == Spec => ReadyIsFresh
  <1> DEFINE Fresh ==
        \A p \in Probes : answer[p] # "ok" /\ answer'[p] = "ok"
          => evidence' < CacheFor + HealthTimeout
  <1>1. Inv /\ [Next]_vars => [Fresh]_vars
    <2> SUFFICES ASSUME Inv, Next, NEW p \in Probes, answer[p] # "ok", answer'[p] = "ok"
                 PROVE  evidence' < CacheFor + HealthTimeout
      OBVIOUS
    <2> USE ReadinessAssumption DEF probeVars, cacheVars, Freshest
    <2>1. ASSUME NEW q \in Probes, Cached(q)
          PROVE  evidence' < CacheFor + HealthTimeout
      <3>1. last = "ok"
        BY <2>1 DEF Inv, TypeOK, Cached, Answers
      <3> QED BY <3>1, <2>1 DEF Inv, TypeOK, EvidenceInv, Cached, Expired
    <2>2. ASSUME NEW q \in Probes, NEW o \in Outcome, Returned(q, o)
          PROVE  evidence' < CacheFor + HealthTimeout
      <3>1. o = "ok"
        BY <2>2 DEF Inv, TypeOK, Returned, Answers
      <3> QED BY <3>1, <2>2 DEF Inv, TypeOK, Returned
    <2>3. ASSUME NEW q \in Probes, HealthAnswered(q) \/ HealthTimesOut(q) \/ HealthCancelled(q)
          PROVE  \E o \in Outcome : Returned(q, o)
      BY <2>3 DEF Inv, TypeOK, HealthAnswered, HealthTimesOut, HealthCancelled, Outcome
    <2>4. ASSUME NEW q \in Probes, Probe(q) \/ CallHealth(q) \/ ProbeLeaves(q)
          PROVE  FALSE
      BY <2>4 DEF Inv, TypeOK, Probe, CallHealth, ProbeLeaves
    <2>5. ~(ControlAnswers \/ ControlChanges \/ Stop \/ Tick)
      BY DEF Inv, TypeOK, ControlAnswers, ControlChanges, Stop, Tick
    <2> QED BY <2>1, <2>2, <2>3, <2>4, <2>5 DEF Next, Check
  <1> QED BY <1>1, Invariance, PTL DEF Spec, ReadyIsFresh
=============================================================================
