---------------------------- MODULE TrustReload ----------------------------
(***************************************************************************)
(* The rotating workload identity: a Reloader that polls three files and   *)
(* publishes validated material, and server credentials that track the     *)
(* accepted connections by the root that verified them.                    *)
(*   src/internal/transport/identity/reloader.go     Reload, Start, Stop   *)
(*   src/internal/transport/identity/material.go     Load, Parse, digests  *)
(*   src/internal/transport/identity/credentials.go  tracker, handshake    *)
(* A file's bytes are abstracted to what Parse and the digest tell apart:  *)
(* the certificate and the key to the key pair they belong to, the bundle  *)
(* to its set of roots. Every file is read on its own, while the mounted   *)
(* Secret may be swapped and leaves may come to their NotBefore or         *)
(* NotAfter between any two reads. The tracker and the server handshake    *)
(* are part of the package; this process itself accepts no such            *)
(* connection.                                                             *)
(***************************************************************************)
EXTENDS Integers, Sequences, FiniteSets

CONSTANTS Pairs,      \* key pairs
          Began,      \* where each leaf is in its life when the process begins
          Lasting,    \* the pairs whose leaf does not expire while it runs
          Roots,      \* CA certificates
          NoRoot,     \* a connection without one
          Versions,   \* the file sets the mount may hold
          First,      \* the one New loaded
          Missing,    \* a mount with a file missing, as in the middle of a swap
          Callers,    \* who calls Reload
          Poller,     \* the goroutine of Start among them
          Conns       \* slots for server connections

FileSet == [cert : Pairs, key : Pairs, ca : SUBSET Roots]

\* Before NotBefore, between the two, after NotAfter.
Life == {"early", "valid", "expired"}

\* The leaves inside their validity, of what the clock says.
Valid(l) == {p \in Pairs : l[p] = "valid"}

\* Parse: the key matches the certificate, the leaf is among those valid at
\* the time given, and the bundle holds a CA.
Parse_AnyKey(m, valid) ==   \* mutant: the pair is not compared
    m.cert \in valid /\ m.ca # {}
Parse(m, valid) ==
    m.cert = m.key /\ m.cert \in valid /\ m.ca # {}

ASSUME TrustAssumption ==
    /\ Versions \subseteq FileSet
    /\ Began \in [Pairs -> Life]
    /\ First \in Versions /\ Parse(First, Valid(Began))
    /\ Missing \notin Versions
    /\ NoRoot \notin Roots
    /\ Poller \in Callers

VARIABLES
    disk,      \* what the mount holds
    life,      \* the clock: where each leaf is in its life
    current,   \* Reloader.current
    failing,   \* Reloader.failures > 0
    polling,   \* the poller goroutine: off, on, stopping (Stop waits for it)
    pc,        \* where each caller of Reload is
    cur,       \* Reload's local cur
    buf,       \* the files the caller has read so far
    at,        \* the leaves valid when r.now() was read for its Load
    conn,      \* each connection: none, handshake, open, cut (closed under its owner)
    seen,      \* the material of each handshake's tls.Config
    root,      \* the root that verified each connection
    tracked,   \* connTracker.conns
    late       \* history: the material had changed when the connection was added

reloadVars == <<current, failing, pc, cur, buf, at>>
connVars   == <<conn, seen, root, tracked, late>>
mountVars  == <<disk, life>>
vars == <<mountVars, polling, reloadVars, connVars>>

\* The order in which filesDigest and Load read the files.
Files == <<"cert", "key", "ca">>

\* What has been read so far, in the order of Files.
Read(b) ==
    /\ Len(b) <= 3
    /\ \A i \in 1..Len(b) : b[i] \in IF i = 3 THEN SUBSET Roots ELSE Pairs

TypeOK ==
    /\ disk \in Versions \cup {Missing}
    /\ life \in [Pairs -> Life]
    /\ current \in FileSet
    /\ failing \in BOOLEAN
    /\ polling \in {"off", "on", "stopping"}
    /\ pc \in [Callers -> {"idle", "digest", "load", "callbacks"}]
    /\ cur \in [Callers -> FileSet]
    /\ buf \in [Callers -> Seq(Pairs \cup SUBSET Roots)]
    /\ \A c \in Callers : Read(buf[c])
    /\ at \in [Callers -> SUBSET Pairs]
    /\ conn \in [Conns -> {"none", "handshake", "open", "cut"}]
    /\ seen \in [Conns -> FileSet]
    /\ root \in [Conns -> Roots \cup {NoRoot}]
    /\ tracked \in [Roots -> SUBSET Conns]
    /\ late \in [Conns -> BOOLEAN]

\* New loaded the files once; the poller is not started.
Init ==
    /\ disk = First
    /\ life = Began
    /\ current = First
    /\ failing = FALSE
    /\ polling = "off"
    /\ pc = [c \in Callers |-> "idle"]
    /\ cur = [c \in Callers |-> First]
    /\ buf = [c \in Callers |-> <<>>]
    /\ at = [c \in Callers |-> {}]
    /\ conn = [k \in Conns |-> "none"]
    /\ seen = [k \in Conns |-> First]
    /\ root = [k \in Conns |-> NoRoot]
    /\ tracked = [r \in Roots |-> {}]
    /\ late = [k \in Conns |-> FALSE]
----------------------------------------------------------------------------
(* Polling and Reload.                                                     *)

\* Not while Stop waits: the process calls each once (identity.go).
Start ==
    /\ polling = "off"
    /\ polling' = "on"
    /\ UNCHANGED <<mountVars, reloadVars, connVars>>

\* Stop cancels the poller and waits until it is between two reloads.
Stop ==
    /\ polling = "on"
    /\ polling' = "stopping"
    /\ UNCHANGED <<mountVars, reloadVars, connVars>>

Stopped ==
    /\ polling = "stopping"
    /\ pc[Poller] = "idle"
    /\ polling' = "off"
    /\ UNCHANGED <<mountVars, reloadVars, connVars>>

\* Reload begins: cur := r.current. The poller does so at a tick, until it
\* sees that it was cancelled; anybody else at any time.
Reload(c) ==
    /\ pc[c] = "idle"
    /\ c = Poller => polling # "off"
    /\ pc' = [pc EXCEPT ![c] = "digest"]
    /\ cur' = [cur EXCEPT ![c] = current]
    /\ buf' = [buf EXCEPT ![c] = <<>>]
    /\ UNCHANGED <<mountVars, current, failing, polling, at, connVars>>

\* Reload returns and its locals are garbage.
Ends(c) ==
    /\ pc' = [pc EXCEPT ![c] = "idle"]
    /\ cur' = [cur EXCEPT ![c] = First]
    /\ buf' = [buf EXCEPT ![c] = <<>>]
    /\ at' = [at EXCEPT ![c] = {}]

\* os.ReadFile of the next file, in filesDigest and then in Load.
ReadFile(c) ==
    /\ pc[c] \in {"digest", "load"}
    /\ Len(buf[c]) < 3
    /\ disk # Missing
    /\ buf' = [buf EXCEPT ![c] = Append(@, disk[Files[Len(@) + 1]])]
    /\ UNCHANGED <<mountVars, current, failing, polling, pc, cur, at, connVars>>

Rejects(c) ==
    /\ failing' = TRUE
    /\ Ends(c)
    /\ UNCHANGED <<mountVars, current, polling, connVars>>

\* A file is missing: the current material is kept.
ReadFails(c) ==
    /\ pc[c] \in {"digest", "load"}
    /\ Len(buf[c]) < 3
    /\ disk = Missing
    /\ Rejects(c)

Candidate(c) == [cert |-> buf[c][1], key |-> buf[c][2], ca |-> buf[c][3]]

SameDigest_LeafOnly(c) ==   \* mutant: the digest leaves out the bundle
    Candidate(c).cert = cur[c].cert /\ Candidate(c).key = cur[c].key
SameDigest(c) == Candidate(c) = cur[c]

\* The digest is compared with the one of cur: unchanged files end the
\* reload, changed ones are read again, to be judged by the time before the
\* first read. Material in force that expires in place is unchanged.
Compare(c) ==
    /\ pc[c] = "digest"
    /\ Len(buf[c]) = 3
    /\ IF SameDigest(c) THEN Ends(c)
       ELSE /\ pc' = [pc EXCEPT ![c] = "load"]
            /\ buf' = [buf EXCEPT ![c] = <<>>]
            /\ at' = [at EXCEPT ![c] = Valid(life)]
            /\ UNCHANGED cur
    /\ UNCHANGED <<mountVars, current, failing, polling, connVars>>

LoadRejects(c) ==
    /\ pc[c] = "load"
    /\ Len(buf[c]) = 3
    /\ ~Parse(Candidate(c), at[c])
    /\ Rejects(c)

\* r.failures.Store(0); r.current.Store(m).
Publish(c) ==
    /\ pc[c] = "load"
    /\ Len(buf[c]) = 3
    /\ Parse(Candidate(c), at[c])
    /\ failing' = FALSE
    /\ current' = Candidate(c)
    /\ pc' = [pc EXCEPT ![c] = "callbacks"]
    /\ at' = [at EXCEPT ![c] = {}]
    /\ UNCHANGED <<mountVars, polling, cur, buf, connVars>>

Retires(m, r) == r \notin m.ca

CloseRetired_Previous(c) ==   \* mutant: compares with the previous material
    /\ pc[c] = "callbacks"
    /\ conn' = [k \in Conns |-> IF \E r \in Roots : k \in tracked[r] /\ Retires(cur[c], r)
                                THEN "cut" ELSE conn[k]]
    /\ tracked' = [r \in Roots |-> IF Retires(cur[c], r) THEN {} ELSE tracked[r]]
    /\ Ends(c)
    /\ UNCHANGED <<mountVars, current, failing, polling, seen, root, late>>

CloseRetired_All(c) ==   \* mutant: closes every connection
    /\ pc[c] = "callbacks"
    /\ conn' = [k \in Conns |-> IF \E r \in Roots : k \in tracked[r] THEN "cut" ELSE conn[k]]
    /\ tracked' = [r \in Roots |-> {}]
    /\ Ends(c)
    /\ UNCHANGED <<mountVars, current, failing, polling, seen, root, late>>

CloseRetired_StopHoldsMutex(c) ==   \* mutant: Stop waits with r.mu, which Reload needs
    /\ pc[c] = "callbacks"
    /\ polling # "stopping"
    /\ conn' = [k \in Conns |-> IF \E r \in Roots : k \in tracked[r] /\ Retires(Candidate(c), r)
                                THEN "cut" ELSE conn[k]]
    /\ tracked' = [r \in Roots |-> IF Retires(Candidate(c), r) THEN {} ELSE tracked[r]]
    /\ Ends(c)
    /\ UNCHANGED <<mountVars, current, failing, polling, seen, root, late>>

\* The OnChange callback of the server credentials, under the tracker's
\* mutex: closes what a root outside the new material had verified.
CloseRetired(c) ==
    /\ pc[c] = "callbacks"
    /\ conn' = [k \in Conns |-> IF \E r \in Roots : k \in tracked[r] /\ Retires(Candidate(c), r)
                                THEN "cut" ELSE conn[k]]
    /\ tracked' = [r \in Roots |-> IF Retires(Candidate(c), r) THEN {} ELSE tracked[r]]
    /\ Ends(c)
    /\ UNCHANGED <<mountVars, current, failing, polling, seen, root, late>>
----------------------------------------------------------------------------
(* Server connections.                                                     *)

\* ServerHandshake takes its tls.Config from the material of the moment.
BeginHandshake(k) ==
    /\ conn[k] = "none"
    /\ conn' = [conn EXCEPT ![k] = "handshake"]
    /\ seen' = [seen EXCEPT ![k] = current]
    /\ UNCHANGED <<mountVars, polling, reloadVars, root, tracked, late>>

\* The peer's chain is verified against that config, then the connection is
\* added to the tracker.
Handshaken(k) ==
    /\ conn[k] = "handshake"
    /\ \E r \in seen[k].ca :
         /\ conn' = [conn EXCEPT ![k] = "open"]
         /\ root' = [root EXCEPT ![k] = r]
         /\ tracked' = [tracked EXCEPT ![r] = @ \cup {k}]
         /\ late' = [late EXCEPT ![k] = current # seen[k]]
    /\ seen' = [seen EXCEPT ![k] = First]
    /\ UNCHANGED <<mountVars, polling, reloadVars>>

HandshakeFails(k) ==
    /\ conn[k] = "handshake"
    /\ conn' = [conn EXCEPT ![k] = "none"]
    /\ seen' = [seen EXCEPT ![k] = First]
    /\ UNCHANGED <<mountVars, polling, reloadVars, root, tracked, late>>

CloseConn_NoRemove(k) ==   \* mutant: a closed connection stays in the tracker
    /\ conn[k] \in {"open", "cut"}
    /\ conn' = [conn EXCEPT ![k] = "none"]
    /\ root' = [root EXCEPT ![k] = NoRoot]
    /\ late' = [late EXCEPT ![k] = FALSE]
    /\ UNCHANGED <<mountVars, polling, reloadVars, seen, tracked>>

\* trackedConn.Close by the gRPC server, once for each connection: the
\* connection is removed from the tracker and closed.
CloseConn(k) ==
    /\ conn[k] \in {"open", "cut"}
    /\ conn' = [conn EXCEPT ![k] = "none"]
    /\ tracked' = [tracked EXCEPT ![root[k]] = @ \ {k}]
    /\ root' = [root EXCEPT ![k] = NoRoot]
    /\ late' = [late EXCEPT ![k] = FALSE]
    /\ UNCHANGED <<mountVars, polling, reloadVars, seen>>
----------------------------------------------------------------------------
\* The kubelet replaces the mounted Secret (external).
Swap ==
    /\ disk' \in (Versions \cup {Missing}) \ {disk}
    /\ UNCHANGED <<life, polling, reloadVars, connVars>>

\* Time passes the NotBefore or the NotAfter of a leaf (external).
Ages(p) ==
    /\ life[p] = "early" \/ (life[p] = "valid" /\ p \notin Lasting)
    /\ life' = [life EXCEPT ![p] = IF @ = "early" THEN "valid" ELSE "expired"]
    /\ UNCHANGED <<disk, polling, reloadVars, connVars>>

Step(c) ==
    \/ Reload(c) \/ ReadFile(c) \/ ReadFails(c) \/ Compare(c)
    \/ LoadRejects(c) \/ Publish(c) \/ CloseRetired(c)

Next ==
    \/ Start \/ Stop \/ Stopped \/ Swap
    \/ \E p \in Pairs : Ages(p)
    \/ \E c \in Callers : Step(c)
    \/ \E k \in Conns : BeginHandshake(k) \/ Handshaken(k) \/ HandshakeFails(k) \/ CloseConn(k)

Spec == Init /\ [][Next]_vars

\* Fairness. The poller's ticker fires and its reload runs; Go's select takes
\* the cancellation although the ticker may be ready again and again. Nothing
\* is assumed of the mount, the clock, the operators or the peers.
FairSpec == Spec /\ WF_vars(Step(Poller)) /\ SF_vars(Stopped)
----------------------------------------------------------------------------
(* Properties                                                              *)

Idle == \A c \in Callers : pc[c] = "idle"

\* "An invalid candidate leaves the current material in force"
\* (reloader.go:15-17): whatever is swapped or expires between two reads of
\* two concurrent reloads, what is in force has a matching key, a bundle, and
\* a leaf that has been valid while the process ran: neither one that is not
\* valid yet nor one that had expired before. It may expire in force.
InForceIsValid ==
    /\ current.cert = current.key
    /\ life[current.cert] # "early" /\ Began[current.cert] # "expired"
    /\ current.ca # {}

\* The tracker holds exactly the open connections, each under the root that
\* verified it (credentials.go:30-32): closing, retiring and handshaking in
\* any order neither lose a connection nor leak an entry.
TrackerIsExact ==
    \A k \in Conns, r \in Roots :
      k \in tracked[r] <=> conn[k] = "open" /\ root[k] = r

\* "Retiring a CA closes the connections it had verified" (credentials.go:
\* 103-104), for every connection that was accepted under the material in
\* force at that time, with any number of reloads at once.
RetiredClosed ==
    Idle => \A k \in Conns : conn[k] = "open" /\ ~late[k] => ~Retires(current, root[k])

\* ... and for every connection, those whose handshake a reload overtook
\* included.
RetiredAllClosed ==
    Idle => \A k \in Conns : conn[k] = "open" => ~Retires(current, root[k])

\* The poller "closes exactly those connections" (credentials.go:31-32): one
\* whose root is still trusted is never closed by a reload.
TrustedStaysOpen ==
    [][\A k \in Conns : conn[k] = "open" /\ conn'[k] = "cut" => Retires(current, root[k])]_vars

\* What stays mounted while the poller runs is settled, and nothing read half
\* way through a swap survives: a file set that stays valid, from its NotBefore
\* on if it was mounted early, comes into force and stays in force; any file
\* set comes into force or is signalled as a failure (reloader.go:25-26), and
\* so is a missing file. Material that was in force when it expired has come
\* into force: its digest is the same, and no tick rejects or signals it.
Converges ==
    /\ \A v \in Versions :
         /\ <>[](disk = v /\ polling = "on" /\ Parse(v, Valid(life))) => <>[](current = v)
         /\ <>[](disk = v /\ polling = "on") => <>[](current = v \/ failing)
    /\ <>[](disk = Missing /\ polling = "on") => <>[]failing

\* Stop returns: the poller it waits for ends its reload.
StopReturns == polling = "stopping" ~> polling = "off"
=============================================================================
