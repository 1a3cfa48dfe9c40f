------------------------- MODULE TrustReload_proofs -------------------------
(***************************************************************************)
(* Proofs about TrustReload, for any file sets, roots, number of callers   *)
(* of Reload and number of connections. RetiredClosed is not inductive: it *)
(* says nothing while a reload runs. RetireInv is its strengthening: an    *)
(* open connection outside the trust in force that was not overtaken has a *)
(* reload in its callbacks that is going to close it.                      *)
(***************************************************************************)
EXTENDS TrustReload, TLAPS

\* An open connection has a root.
OpenRooted == \A k \in Conns : conn[k] = "open" => root[k] \in Roots

\* A connection that is still to be closed has a reload about to close it.
RetireInv ==
    \A k \in Conns :
      conn[k] = "open" /\ ~late[k] /\ Retires(current, root[k])
        => \E c \in Callers : pc[c] = "callbacks" /\ Retires(Candidate(c), root[k])

\* Three files read make a file set.
LEMMA CandidateType ==
    ASSUME NEW c \in Callers, TypeOK, Len(buf[c]) = 3
    PROVE  Candidate(c) \in FileSet
  <1>1. buf[c][1] \in Pairs /\ buf[c][2] \in Pairs /\ buf[c][3] \in SUBSET Roots
    <2>1. \A i \in 1..3 : buf[c][i] \in IF i = 3 THEN SUBSET Roots ELSE Pairs
      BY DEF TypeOK, Read
    <2>2. 1 \in 1..3 /\ 2 \in 1..3 /\ 3 \in 1..3 /\ 1 # 3 /\ 2 # 3
      OBVIOUS
    <2> QED BY <2>1, <2>2
  <1> QED BY <1>1 DEF Candidate, FileSet

\* Reading one more file keeps the buffer well formed.
LEMMA ReadType ==
    ASSUME NEW c \in Callers, TypeOK, ReadFile(c)
    PROVE  buf' \in [Callers -> Seq(Pairs \cup SUBSET Roots)] /\ \A d \in Callers : Read(buf'[d])
  <1> DEFINE b == buf[c]
             x == disk[Files[Len(b) + 1]]
  <1>1. b \in Seq(Pairs \cup SUBSET Roots) /\ Len(b) \in 0..2 /\ Read(b)
    <2>1. b \in Seq(Pairs \cup SUBSET Roots) /\ Read(b) /\ Len(b) < 3
      BY DEF TypeOK, ReadFile
    <2>2. Len(b) \in 0..2
      <3> DEFINE C == Pairs \cup SUBSET Roots
      <3>1. b \in Seq(C) /\ Len(b) < 3
        BY <2>1
      <3> HIDE DEF b, C
      <3>2. Len(b) \in Nat
        BY <3>1
      <3>3. \A n \in Nat : n < 3 => n \in 0..2
        OBVIOUS
      <3> QED BY <3>1, <3>2, <3>3, Zenon
    <2> QED BY <2>1, <2>2, Zenon
  <1>2. disk \in FileSet
    BY TrustAssumption DEF TypeOK, ReadFile
  <1>3. x \in IF Len(b) + 1 = 3 THEN SUBSET Roots ELSE Pairs
    <2>1. disk["cert"] \in Pairs /\ disk["key"] \in Pairs /\ disk["ca"] \in SUBSET Roots
      BY <1>2 DEF FileSet
    <2>2. Files[1] = "cert" /\ Files[2] = "key" /\ Files[3] = "ca"
      BY DEF Files
    <2>3. CASE Len(b) = 0
      BY <2>1, <2>2, <2>3
    <2>4. CASE Len(b) = 1
      BY <2>1, <2>2, <2>4
    <2>5. CASE Len(b) = 2
      BY <2>1, <2>2, <2>5
    <2>6. Len(b) = 0 \/ Len(b) = 1 \/ Len(b) = 2
      BY <1>1
    <2> QED BY <2>3, <2>4, <2>5, <2>6
  <1>4. x \in Pairs \cup SUBSET Roots
    BY <1>3
  <1> HIDE DEF x, b
  <1>5. Append(b, x) \in Seq(Pairs \cup SUBSET Roots) /\ Len(Append(b, x)) = Len(b) + 1
    BY <1>1, <1>4
  <1>6. Read(Append(b, x))
    <2> SUFFICES ASSUME NEW i \in 1..Len(Append(b, x))
                 PROVE  Append(b, x)[i] \in IF i = 3 THEN SUBSET Roots ELSE Pairs
      BY <1>1, <1>5 DEF Read
    <2>1. CASE i = Len(b) + 1
      BY <2>1, <1>1, <1>3, <1>4
    <2>2. CASE i # Len(b) + 1
      <3>1. i \in 1..Len(b) /\ Append(b, x)[i] = b[i]
        BY <2>2, <1>1, <1>4, <1>5
      <3> QED BY <3>1, <1>1 DEF Read
    <2> QED BY <2>1, <2>2
  <1>7. buf' = [buf EXCEPT ![c] = Append(b, x)]
    BY DEF ReadFile, b, x
  <1> QED BY <1>5, <1>6, <1>7 DEF TypeOK

\* A reload that ends leaves well-formed locals.
LEMMA EndsType ==
    ASSUME NEW c \in Callers, TypeOK, Ends(c)
    PROVE  /\ pc' \in [Callers -> {"idle", "digest", "load", "callbacks"}]
           /\ cur' \in [Callers -> FileSet]
           /\ buf' \in [Callers -> Seq(Pairs \cup SUBSET Roots)]
           /\ \A d \in Callers : Read(buf'[d])
           /\ at' \in [Callers -> SUBSET Pairs]
  <1>1. First \in FileSet
    BY TrustAssumption
  <1>2. Read(<<>>) /\ <<>> \in Seq(Pairs \cup SUBSET Roots)
    BY DEF Read
  <1> QED BY <1>1, <1>2 DEF TypeOK, Ends

\* The initial state is well typed.
LEMMA InitType == Init => TypeOK
  <1> SUFFICES ASSUME Init PROVE TypeOK
    OBVIOUS
  <1> USE TrustAssumption
  <1>1. First \in FileSet /\ First \in Versions
    OBVIOUS
  <1>2. late \in [Conns -> BOOLEAN] /\ failing \in BOOLEAN
    BY Zenon DEF Init
  <1>3. Read(<<>>) /\ <<>> \in Seq(Pairs \cup SUBSET Roots)
    BY DEF Read
  <1>4. /\ buf \in [Callers -> Seq(Pairs \cup SUBSET Roots)]
        /\ \A c \in Callers : Read(buf[c])
    BY <1>3 DEF Init
  <1> QED BY <1>1, <1>2, <1>4 DEF Init, TypeOK

\* Every step keeps the types.
LEMMA NextType == TypeOK /\ [Next]_vars => TypeOK'
  <1> SUFFICES ASSUME TypeOK, [Next]_vars PROVE TypeOK'
    OBVIOUS
  <1> USE TrustAssumption DEF mountVars, reloadVars, connVars
  <1>1. CASE Start \/ Stop \/ Stopped \/ Swap
    BY <1>1 DEF TypeOK, Start, Stop, Stopped, Swap
  <1>11. ASSUME NEW p \in Pairs, Ages(p) PROVE TypeOK'
    BY <1>11 DEF TypeOK, Ages, Life
  <1>2. ASSUME NEW c \in Callers, Reload(c) PROVE TypeOK'
    <2>1. Read(<<>>) /\ <<>> \in Seq(Pairs \cup SUBSET Roots)
      BY DEF Read
    <2> QED BY <1>2, <2>1 DEF TypeOK, Reload
  <1>3. ASSUME NEW c \in Callers, ReadFile(c) PROVE TypeOK'
    BY <1>3, ReadType DEF TypeOK, ReadFile
  <1>4. ASSUME NEW c \in Callers, ReadFails(c) \/ LoadRejects(c) PROVE TypeOK'
    BY <1>4, EndsType DEF TypeOK, ReadFails, LoadRejects, Rejects
  <1>5. ASSUME NEW c \in Callers, Compare(c) PROVE TypeOK'
    <2>1. CASE SameDigest(c)
      BY <1>5, <2>1, EndsType DEF TypeOK, Compare
    <2>2. CASE ~SameDigest(c)
      <3>1. Read(<<>>) /\ <<>> \in Seq(Pairs \cup SUBSET Roots)
        BY DEF Read
      <3>2. Valid(life) \in SUBSET Pairs
        BY DEF Valid
      <3> QED BY <1>5, <2>2, <3>1, <3>2 DEF TypeOK, Compare
    <2> QED BY <2>1, <2>2
  <1>6. ASSUME NEW c \in Callers, Publish(c) PROVE TypeOK'
    <2>1. Candidate(c) \in FileSet
      BY <1>6, CandidateType DEF Publish
    <2> QED BY <1>6, <2>1 DEF TypeOK, Publish
  <1>7. ASSUME NEW c \in Callers, CloseRetired(c) PROVE TypeOK'
    <2>1. conn' \in [Conns -> {"none", "handshake", "open", "cut"}]
      BY <1>7 DEF TypeOK, CloseRetired
    <2>2. tracked' \in [Roots -> SUBSET Conns]
      BY <1>7 DEF TypeOK, CloseRetired
    <2> QED BY <1>7, <2>1, <2>2, EndsType DEF TypeOK, CloseRetired
  <1>8. ASSUME NEW k \in Conns, BeginHandshake(k) \/ HandshakeFails(k) \/ CloseConn(k)
        PROVE  TypeOK'
    <2>1. CASE BeginHandshake(k)
      BY <2>1 DEF TypeOK, BeginHandshake
    <2>2. CASE HandshakeFails(k)
      BY <2>2 DEF TypeOK, HandshakeFails
    <2>3. CASE CloseConn(k)
      <3>1. late' \in [Conns -> BOOLEAN]
        BY <2>3 DEF TypeOK, CloseConn
      <3>2. tracked' \in [Roots -> SUBSET Conns]
        BY <2>3 DEF TypeOK, CloseConn
      <3>3. root' \in [Conns -> Roots \cup {NoRoot}]
        BY <2>3 DEF TypeOK, CloseConn
      <3> QED BY <2>3, <3>1, <3>2, <3>3 DEF TypeOK, CloseConn
    <2> QED BY <1>8, <2>1, <2>2, <2>3
  <1>9. ASSUME NEW k \in Conns, Handshaken(k) PROVE TypeOK'
    <2>1. PICK r \in seen[k].ca :
            /\ conn' = [conn EXCEPT ![k] = "open"]
            /\ root' = [root EXCEPT ![k] = r]
            /\ tracked' = [tracked EXCEPT ![r] = @ \cup {k}]
            /\ late' = [late EXCEPT ![k] = current # seen[k]]
      BY <1>9 DEF Handshaken
    <2>2. r \in Roots
      BY DEF TypeOK, FileSet
    <2>3. late' \in [Conns -> BOOLEAN]
      BY <2>1 DEF TypeOK
    <2>4. tracked' \in [Roots -> SUBSET Conns]
      BY <2>1, <2>2 DEF TypeOK
    <2> QED BY <1>9, <2>1, <2>2, <2>3, <2>4 DEF TypeOK, Handshaken
  <1>10. CASE UNCHANGED vars
    BY <1>10 DEF TypeOK, vars
  <1> QED
    BY <1>1, <1>2, <1>3, <1>4, <1>5, <1>6, <1>7, <1>8, <1>9, <1>10, <1>11
    DEF Next, Step

\* Type correctness: the locals of every reload and the tracker are well formed.
THEOREM TypeCorrect == Spec => []TypeOK
  BY InitType, NextType, PTL DEF Spec

\* Leaves only grow older: one that had expired stays expired, and what a
\* Load takes for valid has been valid while the process ran.
AgeInv ==
    /\ \A p \in Pairs : Began[p] = "expired" => life[p] = "expired"
    /\ \A c \in Callers : \A p \in at[c] : life[p] # "early" /\ Began[p] # "expired"

\* A step that is no Compare takes no new time.
LEMMA TimeKept ==
    ASSUME TypeOK, NEW c \in Callers, Step(c), ~Compare(c), NEW d \in Callers
    PROVE  at'[d] \subseteq at[d]
  BY DEF TypeOK, Step, Reload, ReadFile, ReadFails, Rejects, Ends, LoadRejects, Publish, CloseRetired

\* The clock runs one way (r.now()).
LEMMA NextAge == TypeOK /\ AgeInv /\ [Next]_vars => AgeInv'
  <1> SUFFICES ASSUME TypeOK, AgeInv, [Next]_vars PROVE AgeInv'
    OBVIOUS
  <1>1. ASSUME life' = life, \A d \in Callers : at'[d] \subseteq at[d] PROVE AgeInv'
    BY <1>1 DEF AgeInv
  <1>2. ASSUME NEW p \in Pairs, Ages(p) PROVE AgeInv'
    <2>1. at' = at
      BY <1>2 DEF Ages, reloadVars
    <2>2. life[p] # "expired"
          /\ life' = [life EXCEPT ![p] = IF @ = "early" THEN "valid" ELSE "expired"]
      BY <1>2 DEF Ages
    <2>3. \A q \in Pairs : (life[q] = "expired" => life'[q] = "expired")
                           /\ (life[q] # "early" => life'[q] # "early")
      BY <2>2 DEF TypeOK
    <2> QED BY <2>1, <2>3 DEF AgeInv, TypeOK
  <1>3. ASSUME NEW c \in Callers, Compare(c) PROVE AgeInv'
    <2>1. life' = life
      BY <1>3 DEF Compare, mountVars
    <2>2. \A d \in Callers : at'[d] \subseteq at[d] \/ at'[d] = Valid(life)
      BY <1>3 DEF TypeOK, Compare, Ends
    <2>3. \A p \in Valid(life) : life[p] # "early" /\ Began[p] # "expired"
      BY DEF AgeInv, Valid
    <2> QED BY <2>1, <2>2, <2>3 DEF AgeInv
  <1>4. ASSUME NEW c \in Callers, Step(c), ~Compare(c) PROVE AgeInv'
    <2>1. life' = life
      BY <1>4 DEF Step, Reload, ReadFile, ReadFails, Rejects, LoadRejects, Publish, CloseRetired,
                  mountVars
    <2> QED BY <1>1, <1>4, <2>1, TimeKept
  <1>5. ASSUME NEW k \in Conns,
               BeginHandshake(k) \/ Handshaken(k) \/ HandshakeFails(k) \/ CloseConn(k)
        PROVE  AgeInv'
    <2>1. life' = life /\ at' = at
      BY <1>5 DEF BeginHandshake, Handshaken, HandshakeFails, CloseConn, mountVars, reloadVars
    <2> QED BY <1>1, <2>1
  <1>6. CASE Start \/ Stop \/ Stopped \/ Swap \/ UNCHANGED vars
    <2>1. life' = life /\ at' = at
      BY <1>6 DEF Start, Stop, Stopped, Swap, vars, mountVars, reloadVars
    <2> QED BY <1>1, <2>1
  <1> QED BY <1>2, <1>3, <1>4, <1>5, <1>6 DEF Next

\* What is in force was validated as a whole, whatever is swapped or expires
\* between two reads (Reloader.Reload, material.Parse).
THEOREM InForceIsAlwaysValid == Spec => []InForceIsValid
  <1>1. Init => InForceIsValid /\ AgeInv
    BY TrustAssumption DEF Init, InForceIsValid, AgeInv, Parse, Valid
  <1>2. TypeOK /\ AgeInv /\ InForceIsValid /\ [Next]_vars => InForceIsValid'
    <2> SUFFICES ASSUME TypeOK, AgeInv, InForceIsValid, [Next]_vars PROVE InForceIsValid'
      OBVIOUS
    <2>1. ASSUME NEW c \in Callers, Publish(c) PROVE InForceIsValid'
      <3>1. Candidate(c).cert \in at[c] /\ Candidate(c).cert = Candidate(c).key
            /\ Candidate(c).ca # {}
        BY <2>1 DEF Publish, Parse
      <3>2. current' = Candidate(c) /\ life' = life
        BY <2>1 DEF Publish, mountVars
      <3> QED BY <3>1, <3>2 DEF AgeInv, InForceIsValid
    <2>2. CASE current' = current /\ life' = life
      BY <2>2 DEF InForceIsValid
    <2>3. ASSUME NEW p \in Pairs, Ages(p) PROVE InForceIsValid'
      <3>1. current' = current
            /\ life' = [life EXCEPT ![p] = IF @ = "early" THEN "valid" ELSE "expired"]
        BY <2>3 DEF Ages, reloadVars
      <3> QED BY <3>1 DEF InForceIsValid, TypeOK, FileSet
    <2>4. ASSUME NEW c \in Callers, Step(c), ~Publish(c) PROVE current' = current /\ life' = life
      BY <2>4 DEF Step, Reload, ReadFile, ReadFails, Rejects, Compare, LoadRejects, CloseRetired,
                  mountVars
    <2>5. ASSUME NEW k \in Conns,
                 BeginHandshake(k) \/ Handshaken(k) \/ HandshakeFails(k) \/ CloseConn(k)
          PROVE  current' = current /\ life' = life
      BY <2>5 DEF BeginHandshake, Handshaken, HandshakeFails, CloseConn, mountVars, reloadVars
    <2>6. Start \/ Stop \/ Stopped \/ Swap \/ UNCHANGED vars => current' = current /\ life' = life
      BY DEF Start, Stop, Stopped, Swap, vars, mountVars, reloadVars
    <2> QED BY <2>1, <2>2, <2>3, <2>4, <2>5, <2>6 DEF Next
  <1> QED BY <1>1, <1>2, NextAge, TypeCorrect, PTL DEF Spec

----------------------------------------------------------------------------
\* The steps of nobody's reload and nobody's connection.
Outside == Start \/ Stop \/ Stopped \/ Swap \/ \E p \in Pairs : Ages(p)

\* They leave the reloads and the connections alone.
LEMMA OutsideLeaves == Outside \/ UNCHANGED vars => UNCHANGED <<reloadVars, connVars>>
  BY DEF Outside, Start, Stop, Stopped, Swap, Ages, vars

\* The tracker is exact in every step: handshake, close and retirement are
\* the only ones that touch it.
LEMMA NextTracker == TypeOK /\ TrackerIsExact /\ [Next]_vars => TrackerIsExact'
  <1> SUFFICES ASSUME TypeOK, TrackerIsExact, [Next]_vars,
                      NEW k \in Conns, NEW r \in Roots
               PROVE  (k \in tracked[r])' <=> (conn[k] = "open" /\ root[k] = r)'
    BY DEF TrackerIsExact
  <1>0. k \in tracked[r] <=> conn[k] = "open" /\ root[k] = r
    BY DEF TrackerIsExact
  <1>1. CASE UNCHANGED <<tracked, conn, root>>
    BY <1>0, <1>1
  <1>2. ASSUME NEW c \in Callers, CloseRetired(c)
        PROVE  (k \in tracked[r])' <=> (conn[k] = "open" /\ root[k] = r)'
    <2>1. tracked'[r] = IF Retires(Candidate(c), r) THEN {} ELSE tracked[r]
      BY <1>2 DEF CloseRetired
    <2>2. conn'[k] = IF \E q \in Roots : k \in tracked[q] /\ Retires(Candidate(c), q)
                     THEN "cut" ELSE conn[k]
      BY <1>2 DEF CloseRetired
    <2>3. root'[k] = root[k]
      BY <1>2 DEF CloseRetired
    <2>4. \A q \in Roots : k \in tracked[q] <=> conn[k] = "open" /\ root[k] = q
      BY DEF TrackerIsExact
    <2> QED BY <2>1, <2>2, <2>3, <2>4
  <1>3. ASSUME NEW h \in Conns, Handshaken(h)
        PROVE  (k \in tracked[r])' <=> (conn[k] = "open" /\ root[k] = r)'
    <2>1. PICK q \in seen[h].ca :
            /\ conn' = [conn EXCEPT ![h] = "open"]
            /\ root' = [root EXCEPT ![h] = q]
            /\ tracked' = [tracked EXCEPT ![q] = @ \cup {h}]
      BY <1>3 DEF Handshaken
    <2>2. conn[h] = "handshake"
      BY <1>3 DEF Handshaken
    <2> QED BY <1>0, <2>1, <2>2 DEF TypeOK
  <1>4. ASSUME NEW h \in Conns, CloseConn(h)
        PROVE  (k \in tracked[r])' <=> (conn[k] = "open" /\ root[k] = r)'
    BY <1>0, <1>4 DEF TypeOK, CloseConn
  <1>5. ASSUME NEW h \in Conns, BeginHandshake(h) \/ HandshakeFails(h)
        PROVE  (k \in tracked[r])' <=> (conn[k] = "open" /\ root[k] = r)'
    BY <1>0, <1>5 DEF TypeOK, BeginHandshake, HandshakeFails
  <1>6. ASSUME NEW c \in Callers, Step(c), ~CloseRetired(c)
        PROVE  UNCHANGED <<tracked, conn, root>>
    BY <1>6 DEF Step, Reload, ReadFile, ReadFails, Rejects, Compare, LoadRejects, Publish, connVars
  <1>7. Outside \/ UNCHANGED vars => UNCHANGED <<tracked, conn, root>>
    BY OutsideLeaves DEF connVars
  <1> QED BY <1>1, <1>2, <1>3, <1>4, <1>5, <1>6, <1>7 DEF Next, Outside

\* The tracker holds exactly the open connections under their roots
\* (connTracker.add, remove, closeRetired), for any interleaving.
THEOREM TrackerIsAlwaysExact == Spec => []TrackerIsExact
  <1>1. Init => TrackerIsExact
    BY DEF Init, TrackerIsExact
  <1> QED BY <1>1, NextTracker, TypeCorrect, PTL DEF Spec

\* A connection is opened with the root that verified it and keeps it.
LEMMA NextRooted == TypeOK /\ OpenRooted /\ [Next]_vars => OpenRooted'
  <1> SUFFICES ASSUME TypeOK, OpenRooted, [Next]_vars, NEW k \in Conns, conn'[k] = "open"
               PROVE  root'[k] \in Roots
    BY DEF OpenRooted
  <1>1. ASSUME conn[k] = "open", root'[k] = root[k] PROVE root'[k] \in Roots
    BY <1>1 DEF OpenRooted
  <1>2. ASSUME NEW c \in Callers, Step(c) PROVE conn[k] = "open" /\ root'[k] = root[k]
    BY <1>2 DEF Step, Reload, ReadFile, ReadFails, Rejects, Compare, LoadRejects, Publish,
                CloseRetired, connVars
  <1>3. ASSUME NEW h \in Conns, Handshaken(h) PROVE root'[k] \in Roots
    <2>1. CASE h = k
      BY <1>3, <2>1 DEF TypeOK, FileSet, Handshaken
    <2>2. CASE h # k
      BY <1>3, <2>2, <1>1 DEF TypeOK, Handshaken
    <2> QED BY <2>1, <2>2
  <1>4. ASSUME NEW h \in Conns, BeginHandshake(h) \/ HandshakeFails(h) \/ CloseConn(h)
        PROVE  conn[k] = "open" /\ root'[k] = root[k]
    BY <1>4 DEF TypeOK, BeginHandshake, HandshakeFails, CloseConn
  <1>5. Outside \/ UNCHANGED vars => conn[k] = "open" /\ root'[k] = root[k]
    BY OutsideLeaves DEF connVars
  <1> QED BY <1>1, <1>2, <1>3, <1>4, <1>5 DEF Next, Outside

\* A step leaves an open connection outside the trust in force with a reload
\* that is going to close it.
LEMMA NextRetire ==
    TypeOK /\ TrackerIsExact /\ OpenRooted /\ RetireInv /\ [Next]_vars => RetireInv'
  <1> SUFFICES ASSUME TypeOK, TrackerIsExact, OpenRooted, RetireInv, [Next]_vars,
                      NEW k \in Conns,
                      conn'[k] = "open", ~late'[k], Retires(current', root'[k])
               PROVE  \E c \in Callers :
                        pc'[c] = "callbacks" /\ (Retires(Candidate(c), root[k]))'
    BY DEF RetireInv, Retires
  <1> DEFINE Goal == \E c \in Callers :
                        pc'[c] = "callbacks" /\ (Retires(Candidate(c), root[k]))'
             Same == conn'[k] = conn[k] /\ late'[k] = late[k] /\ root'[k] = root[k]
  <1>1. ASSUME NEW c \in Callers, Publish(c) PROVE Goal
    <2>1. pc'[c] = "callbacks"
      BY <1>1 DEF TypeOK, Publish
    <2>2. current' = Candidate(c) /\ buf' = buf
      BY <1>1 DEF Publish
    <2>3. Retires(Candidate(c), root[k])'
      BY <2>2 DEF Retires, Candidate
    <2> QED BY <2>1, <2>3
  <1>2. ASSUME Same, current' = current,
               \A c \in Callers : pc[c] = "callbacks" => pc'[c] = "callbacks" /\ buf'[c] = buf[c]
        PROVE  Goal
    <2>1. PICK c \in Callers : pc[c] = "callbacks" /\ Retires(Candidate(c), root[k])
      BY <1>2 DEF RetireInv
    <2>2. pc'[c] = "callbacks" /\ buf'[c] = buf[c]
      BY <1>2, <2>1
    <2>3. Retires(Candidate(c), root[k])'
      BY <1>2, <2>1, <2>2 DEF Retires, Candidate
    <2> QED BY <2>2, <2>3
  <1>3. ASSUME NEW c \in Callers,
               Reload(c) \/ ReadFile(c) \/ ReadFails(c) \/ Compare(c) \/ LoadRejects(c)
        PROVE  Goal
    <2>1. Same /\ current' = current
      BY <1>3 DEF Reload, ReadFile, ReadFails, Rejects, Compare, LoadRejects, connVars
    <2>2. pc[c] # "callbacks"
      BY <1>3 DEF Reload, ReadFile, ReadFails, Compare, LoadRejects
    <2>3. \A d \in Callers : pc[d] = "callbacks" => pc'[d] = "callbacks" /\ buf'[d] = buf[d]
      BY <1>3, <2>2
      DEF TypeOK, Reload, ReadFile, ReadFails, Rejects, Compare, LoadRejects, Ends
    <2> QED BY <2>1, <2>3, <1>2
  <1>4. ASSUME NEW c \in Callers, CloseRetired(c) PROVE Goal
    <2>1. conn'[k] = IF \E q \in Roots : k \in tracked[q] /\ Retires(Candidate(c), q)
                     THEN "cut" ELSE conn[k]
      BY <1>4 DEF CloseRetired
    <2>2. conn[k] = "open" /\ \A q \in Roots : k \in tracked[q] => ~Retires(Candidate(c), q)
      BY <2>1
    <2>3. root'[k] = root[k] /\ late'[k] = late[k] /\ current' = current
      BY <1>4 DEF CloseRetired
    <2>4. PICK d \in Callers : pc[d] = "callbacks" /\ Retires(Candidate(d), root[k])
      BY <2>2, <2>3 DEF RetireInv
    <2>5. d # c
      <3>1. CASE root[k] \in Roots
        <4>1. k \in tracked[root[k]]
          BY <2>2, <3>1 DEF TrackerIsExact
        <4> QED BY <4>1, <3>1, <2>2, <2>4
      <3>2. CASE root[k] \notin Roots
        BY <2>2, <3>2 DEF OpenRooted
      <3> QED BY <3>1, <3>2
    <2>6. pc'[d] = "callbacks" /\ buf'[d] = buf[d]
      BY <1>4, <2>4, <2>5 DEF TypeOK, CloseRetired, Ends
    <2>7. Retires(Candidate(d), root[k])'
      BY <2>3, <2>4, <2>6 DEF Retires, Candidate
    <2> QED BY <2>6, <2>7
  <1>5. ASSUME NEW h \in Conns, Handshaken(h) PROVE Goal
    <2>1. pc' = pc /\ buf' = buf /\ current' = current
      BY <1>5 DEF Handshaken, reloadVars
    <2>2. CASE h = k
      <3>1. PICK r \in seen[k].ca : root' = [root EXCEPT ![k] = r]
                                    /\ late' = [late EXCEPT ![k] = current # seen[k]]
        BY <1>5, <2>2 DEF Handshaken
      <3>2. root'[k] = r /\ current = seen[k]
        BY <3>1 DEF TypeOK
      <3> QED BY <3>1, <3>2, <2>1 DEF Retires
    <2>3. CASE h # k
      <3>1. Same
        BY <1>5, <2>3 DEF TypeOK, Handshaken
      <3> QED BY <3>1, <2>1, <1>2
    <2> QED BY <2>2, <2>3
  <1>6. ASSUME NEW h \in Conns, BeginHandshake(h) \/ HandshakeFails(h) \/ CloseConn(h)
        PROVE  Goal
    <2>1. pc' = pc /\ buf' = buf /\ current' = current
      BY <1>6 DEF BeginHandshake, HandshakeFails, CloseConn, reloadVars
    <2>2. h # k
      BY <1>6 DEF TypeOK, BeginHandshake, HandshakeFails, CloseConn
    <2>3. Same
      BY <1>6, <2>2 DEF TypeOK, BeginHandshake, HandshakeFails, CloseConn
    <2> QED BY <2>1, <2>3, <1>2
  <1>7. CASE Outside \/ UNCHANGED vars
    <2>1. pc' = pc /\ buf' = buf /\ current' = current /\ Same
      BY <1>7, OutsideLeaves DEF reloadVars, connVars
    <2> QED BY <2>1, <1>2
  <1> QED BY <1>1, <1>3, <1>4, <1>5, <1>6, <1>7 DEF Next, Step, Outside

\* Retiring a CA closes every connection it had verified under the material
\* in force, for any number of concurrent reloads and connections.
THEOREM RetiredAreClosed == Spec => []RetiredClosed
  <1>1. Init => RetireInv /\ OpenRooted
    BY DEF Init, RetireInv, OpenRooted
  <1>2. Spec => []RetireInv
    BY <1>1, NextRetire, NextRooted, TypeCorrect, TrackerIsAlwaysExact, PTL DEF Spec
  <1>3. RetireInv => RetiredClosed
    <2> SUFFICES ASSUME RetireInv, Idle, NEW k \in Conns, conn[k] = "open", ~late[k]
                 PROVE  ~Retires(current, root[k])
      BY DEF RetiredClosed
    <2> QED BY DEF RetireInv, Idle
  <1> QED BY <1>2, <1>3, PTL
----------------------------------------------------------------------------
\* With the poller as the only caller, the material of its callbacks is the
\* one in force.
PublishedInv == pc[Poller] = "callbacks" => current = Candidate(Poller)

\* A poller alone never closes a connection whose root is still trusted
\* (connTracker.closeRetired). With other callers of Reload this fails: a
\* callback may run after somebody else published.
THEOREM TrustedAreLeftOpen ==
    ASSUME Callers = {Poller}
    PROVE  Spec => TrustedStaysOpen
  <1> DEFINE Kept == \A k \in Conns :
        conn[k] = "open" /\ conn'[k] = "cut" => Retires(current, root[k])
  <1>1. Init => PublishedInv
    BY TrustAssumption DEF Init, PublishedInv
  <1>2. TypeOK /\ PublishedInv /\ [Next]_vars => PublishedInv'
    <2> SUFFICES ASSUME TypeOK, PublishedInv, [Next]_vars, pc'[Poller] = "callbacks"
                 PROVE  current' = Candidate(Poller)'
      BY DEF PublishedInv
    <2> USE TrustAssumption
    <2>1. CASE Publish(Poller)
      BY <2>1 DEF Publish, Candidate
    <2>2. CASE UNCHANGED <<pc, buf, current>>
      BY <2>2 DEF PublishedInv, Candidate
    <2>3. ~(Reload(Poller) \/ ReadFails(Poller) \/ Compare(Poller)
              \/ LoadRejects(Poller) \/ CloseRetired(Poller))
      BY DEF TypeOK, Reload, ReadFails, Rejects, Compare, LoadRejects, CloseRetired, Ends
    <2>4. ~ReadFile(Poller)
      BY DEF TypeOK, ReadFile
    <2>5. ASSUME NEW k \in Conns,
                 BeginHandshake(k) \/ Handshaken(k) \/ HandshakeFails(k) \/ CloseConn(k)
          PROVE  UNCHANGED <<pc, buf, current>>
      BY <2>5 DEF BeginHandshake, Handshaken, HandshakeFails, CloseConn, reloadVars
    <2>6. Outside \/ UNCHANGED vars => UNCHANGED <<pc, buf, current>>
      BY OutsideLeaves DEF reloadVars
    <2> QED BY <2>1, <2>2, <2>3, <2>4, <2>5, <2>6 DEF Next, Step, Outside
  <1>3. TypeOK /\ TrackerIsExact /\ PublishedInv /\ [Next]_vars => [Kept]_vars
    <2> SUFFICES ASSUME TypeOK, TrackerIsExact, PublishedInv, Next, NEW k \in Conns,
                        conn[k] = "open", conn'[k] = "cut"
                 PROVE  Retires(current, root[k])
      OBVIOUS
    <2> USE TrustAssumption
    <2>1. ASSUME NEW h \in Conns,
                 BeginHandshake(h) \/ Handshaken(h) \/ HandshakeFails(h) \/ CloseConn(h)
          PROVE  FALSE
      BY <2>1 DEF TypeOK, BeginHandshake, Handshaken, HandshakeFails, CloseConn
    <2>2. ~Outside
      BY OutsideLeaves DEF connVars
    <2>3. ~(Reload(Poller) \/ ReadFile(Poller) \/ ReadFails(Poller) \/ Compare(Poller)
              \/ LoadRejects(Poller) \/ Publish(Poller))
      BY DEF Reload, ReadFile, ReadFails, Rejects, Compare, LoadRejects, Publish, connVars
    <2>4. CASE CloseRetired(Poller)
      <3>1. \E r \in Roots : k \in tracked[r] /\ Retires(Candidate(Poller), r)
        BY <2>4 DEF CloseRetired
      <3>2. current = Candidate(Poller)
        BY <2>4 DEF CloseRetired, PublishedInv
      <3> QED BY <3>1, <3>2 DEF TrackerIsExact
    <2> QED BY <2>1, <2>2, <2>3, <2>4 DEF Next, Step, Outside
  <1> QED BY <1>1, <1>2, <1>3, TypeCorrect, TrackerIsAlwaysExact, PTL DEF Spec, TrustedStaysOpen
=============================================================================
