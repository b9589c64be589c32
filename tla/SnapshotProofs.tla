--------------------------- MODULE SnapshotProofs ---------------------------
(***************************************************************************)
(* Proofs about Snapshots: its types, the exclusion of snapshots and weak  *)
(* queries, and, where the database file can be read, that snapshots and   *)
(* open databases hold just what was applied.                              *)
(***************************************************************************)
EXTENDS Snapshots, TLAPS

\* The file after i entries is a sequence of i numbers, and Apply extends it
\* to the one after i + 1.
LEMMA FileSteps ==
    ASSUME NEW i \in Nat
    PROVE  FileAt(i) \in Bytes /\ Len(FileAt(i)) = i /\ Append(FileAt(i), i + 1) = FileAt(i + 1)
<1>1. FileAt(i) \in Bytes /\ Len(FileAt(i)) = i
  BY DEF FileAt, Bytes
<1>2. FileAt(i + 1) \in Bytes /\ Len(FileAt(i + 1)) = i + 1
  BY DEF FileAt, Bytes
<1>3. Append(FileAt(i), i + 1) \in Bytes /\ Len(Append(FileAt(i), i + 1)) = i + 1
  BY <1>1 DEF Bytes
<1>4. \A j \in 1..(i + 1) : Append(FileAt(i), i + 1)[j] = FileAt(i + 1)[j]
  BY <1>1 DEF FileAt, Bytes
<1> QED
  BY <1>1, <1>2, <1>3, <1>4, SMTT(30) DEF Bytes

\* How snapshotToBytes reads what has the mark of a compressed snapshot.
LEMMA Unmarked ==
    ASSUME NEW e, e[1] = MaxUint64, NEW d, d = SubSeq(e, 2 + 1, 2 + e[2])
    PROVE  snapshotToBytes(e) = IF e[2] = 0 \/ Gunzip(d) = <<>> THEN Nil ELSE Gunzip(d)
  BY Zenon DEF snapshotToBytes

\* What Persist writes is a sequence of numbers, and snapshotToBytes reads
\* the database back from it; from an empty or a missing one, nothing.
LEMMA Decodes ==
    ASSUME NEW b \in MaybeBytes
    PROVE  /\ Encode(b) \in Bytes
           /\ snapshotToBytes(Encode(b)) = IF b = <<>> THEN Nil ELSE b
<1>1. CASE b = Nil
  <2> DEFINE e == <<MaxUint64, 0>>
  <2>1. b # <<>>
    <3>1. <<>> \in Seq(Nat)
      OBVIOUS
    <3> QED
      BY <1>1, <3>1, SnapshotAssumption, Zenon
  <2>2. Encode(b) = e
    BY <1>1, Zenon DEF Encode
  <2>3. e \in Seq(Nat) /\ e[1] = MaxUint64 /\ e[2] = 0
    BY SnapshotAssumption
  <2> HIDE DEF e
  <2>4. snapshotToBytes(e) = Nil
    BY <2>3, Unmarked, Zenon
  <2> QED
    BY <1>1, <2>1, <2>2, <2>3, <2>4, Zenon DEF Bytes
<1>2. CASE b \in Bytes
  <2> DEFINE g == Gzip(b)
             e == <<MaxUint64, Len(g)>> \o g
  <2>1. /\ g \in Seq(Nat) /\ Len(g) = Len(b) + 1 /\ Len(b) \in Nat
        /\ \A j \in 1..Len(b) : g[j + 1] = b[j]
    BY <1>2, SnapshotAssumption DEF Gzip, Bytes
  <2>2. Encode(b) = e
    BY <1>2, SnapshotAssumption, Zenon DEF Encode, Bytes
  <2> HIDE DEF g
  <2>3. /\ e \in Seq(Nat) /\ Len(e) = Len(g) + 2 /\ e[1] = MaxUint64 /\ e[2] = Len(g)
        /\ \A j \in 1..Len(g) : e[j + 2] = g[j]
    <3>1. Len(e) = Len(g) + 2 /\ e \in Seq(Nat)
      BY <2>1, SnapshotAssumption
    <3>2. e[1] = MaxUint64 /\ e[2] = Len(g)
      BY <2>1, SnapshotAssumption
    <3>3. ASSUME NEW j \in 1..Len(g) PROVE e[j + 2] = g[j]
      BY <2>1, SnapshotAssumption
    <3> QED
      BY <3>1, <3>2, <3>3, Zenon
  <2> HIDE DEF e
  <2>4. SubSeq(e, 2 + 1, 2 + Len(g)) = g /\ Len(g) # 0
    BY <2>1, <2>3, SMTT(30)
  <2>5. Gunzip(g) = b
    BY <1>2, <2>1 DEF Gunzip, Bytes
  <2>6. snapshotToBytes(e) = IF b = <<>> THEN Nil ELSE b
    BY <2>3, <2>4, <2>5, Unmarked, ZenonT(60)
  <2> QED
    BY <2>2, <2>3, <2>6, Zenon DEF Bytes
<1> QED
  BY <1>1, <1>2, Zenon DEF MaybeBytes

-----------------------------------------------------------------------------
(* Types and exclusion *)

\* What is in the store was written by Persist, so that Restore can read it.
Held == \A n \in Node : stored[n] # Nil => \E b \in MaybeBytes : stored[n].bytes = Encode(b)

\* Both names the engine's file can have.
LEMMA Paths == Temporary \in Path /\ "sqlite.db" \in Path /\ Temporary # "sqlite.db"
  BY Zenon DEF Path, Temporary

TypeInv == TypeOK /\ Held /\ SnapshotExclusion

\* A snapshot in the store is read back as a database, or as nothing.
LEMMA Reads ==
    ASSUME TypeOK, Held, NEW n \in Node, stored[n] # Nil
    PROVE  stored[n].index \in Nat /\ snapshotToBytes(stored[n].bytes) \in MaybeBytes
<1>1. stored[n].index \in Nat
  BY Zenon DEF TypeOK, Stored
<1>2. PICK b \in MaybeBytes : stored[n].bytes = Encode(b)
  BY Zenon DEF Held
<1> QED
  BY <1>1, <1>2, Decodes, Zenon DEF MaybeBytes

\* The invariant holds at first.
LEMMA TypeInit == Init => TypeInv
  BY SnapshotAssumption, Paths
     DEF Init, TypeInv, TypeOK, Held, SnapshotExclusion, Bytes, Log, FSMSnapshot, Stored

\* Every step of the FSM goroutine but Restore keeps it.
LEMMA TypeFsm ==
    ASSUME TypeInv, NEW n \in Node,
           Apply(n) \/ AskSnapshot(n) \/ LockTx(n) \/ Snapshot(n)
    PROVE  TypeInv'
<1>1. TypeOK /\ Held /\ SnapshotExclusion
  BY Zenon DEF TypeInv
<1>2. CASE Apply(n)
  <2>1. /\ applied[n] + 1 \in Nat /\ applied[n] + 1 <= log[n].last
        /\ Append(file[n], applied[n] + 1) \in Bytes
    BY <1>1, <1>2 DEF Apply, TypeOK, Bytes, Log
  <2>2. TypeOK'
    BY <1>1, <1>2, <2>1, Zenon DEF Apply, TypeOK, snapVars, txVars
  <2> QED
    BY <1>1, <1>2, <2>2, Zenon DEF Apply, TypeInv, Held, SnapshotExclusion, Reading, snapVars, txVars
<1>3. CASE AskSnapshot(n) \/ LockTx(n)
  <2>1. TypeOK' /\ Held'
    BY <1>1, <1>3, Zenon DEF AskSnapshot, LockTx, TypeOK, Held, raftVars, dbVars, snapVars, txVars
  <2>2. SnapshotExclusion'
    BY <1>1, <1>3 DEF AskSnapshot, LockTx, SnapshotExclusion, TypeOK, Reading, txVars
  <2> QED
    BY <2>1, <2>2, Zenon DEF TypeInv
<1>4. CASE Snapshot(n)
  <2>1. PICK data \in Serialize(n) :
            snap' = [snap EXCEPT ![n] = [index |-> applied[n], database |-> data]]
    BY <1>4, Zenon DEF Snapshot
  <2>2. data \in MaybeBytes
    BY <1>1 DEF Serialize, MaybeBytes, TypeOK
  <2>3. [index |-> applied[n], database |-> data] \in FSMSnapshot
    BY <1>1, <2>2, Zenon DEF TypeOK, FSMSnapshot
  <2>4. Held'
    BY <1>1, <1>4, Zenon DEF Snapshot, Held
  <2>5. SnapshotExclusion'
    BY <1>1, <1>4 DEF Snapshot, SnapshotExclusion, TypeOK, Reading, txVars
  <2>6. TypeOK'
    BY <1>1, <1>4, <2>1, <2>3, Zenon DEF Snapshot, TypeOK, raftVars, dbVars, txVars
  <2> QED
    BY <2>4, <2>5, <2>6, Zenon DEF TypeInv
<1> QED
  BY <1>2, <1>3, <1>4, Zenon

\* So does Restore, whether or not the new database can be created.
LEMMA TypeRestore ==
    ASSUME TypeInv, NEW n \in Node, Restore(n)
    PROVE  TypeInv'
<1>1. TypeOK /\ Held /\ SnapshotExclusion
  BY Zenon DEF TypeInv
<1> DEFINE s == stored[Leader]
           db == createDiskDatabase(snapshotToBytes(s.bytes), dbPath)
<1>2. s.index \in Nat /\ snapshotToBytes(s.bytes) \in MaybeBytes
  BY <1>1, Reads, SnapshotAssumption, Zenon DEF Restore
<1>3. db.ok \in BOOLEAN /\ db.file \in Bytes /\ db.path \in Path
  <2>1. PICK b \in MaybeBytes : b = snapshotToBytes(s.bytes)
    BY <1>2, Zenon
  <2>2. <<>> \in Bytes
    BY DEF Bytes
  <2>3. CASE b = Nil
    BY <2>1, <2>2, <2>3, Paths, Zenon DEF createDiskDatabase, dbPath
  <2>4. CASE b # Nil
    BY <2>1, <2>4, Paths, Zenon DEF createDiskDatabase, dbPath, MaybeBytes
  <2> QED
    BY <2>3, <2>4, Zenon
<1>4. /\ open' = [open EXCEPT ![n] = db.ok]
      /\ IF db.ok
           THEN /\ file' = [file EXCEPT ![n] = db.file] /\ path' = [path EXCEPT ![n] = db.path]
                /\ applied' = [applied EXCEPT ![n] = s.index]
                /\ log' = [log EXCEPT ![n] = [first |-> s.index + 1, last |-> s.index]]
           ELSE UNCHANGED <<file, path, applied, log>>
      /\ UNCHANGED <<fsm, snapVars, txVars>>
  BY Zenon DEF Restore
<1> HIDE DEF db, s
<1>5. TypeOK'
  <2>1. [first |-> s.index + 1, last |-> s.index] \in Log
    BY <1>2 DEF Log
  <2>2. CASE db.ok
    <3>1. log' \in [Node -> Log] /\ applied' \in [Node -> Nat]
      BY <1>1, <1>2, <1>4, <2>1, <2>2, Zenon DEF TypeOK
    <3>2. \A m \in Node : applied'[m] <= log'[m].last
      <4>1. s.index \in Nat /\ s.index <= s.index
        BY <1>2
      <4> TAKE m \in Node
      <4>2. CASE m = n
        <5>1. applied'[n] = s.index /\ log'[n] = [first |-> s.index + 1, last |-> s.index]
          BY <1>1, <1>4, <2>2, Zenon DEF TypeOK
        <5>2. log'[n].last = s.index
          BY ONLY <5>1
        <5> QED
          BY <4>1, <4>2, <5>1, <5>2, Zenon
      <4>3. CASE m # n
        BY <1>1, <1>4, <2>2, <4>3, Zenon DEF TypeOK
      <4> QED
        BY <4>2, <4>3, Zenon
    <3>3. file' \in [Node -> Bytes] /\ open' \in [Node -> BOOLEAN] /\ path' \in [Node -> Path]
      BY <1>1, <1>3, <1>4, <2>2, Zenon DEF TypeOK
    <3> QED
      BY <1>1, <1>4, <3>1, <3>2, <3>3, Zenon DEF TypeOK, snapVars, txVars
  <2>3. CASE ~db.ok
    BY <1>1, <1>3, <1>4, <2>3, Zenon DEF TypeOK, snapVars, txVars
  <2> QED
    BY <2>2, <2>3, Zenon
<1>6. Held' /\ SnapshotExclusion'
  BY <1>1, <1>4, Zenon DEF Held, SnapshotExclusion, Reading, snapVars, txVars
<1> QED
  BY <1>5, <1>6, Zenon DEF TypeInv

\* Dropping what a snapshot covers leaves a log with the same last entry.
LEMMA Kept ==
    ASSUME NEW l \in Log, NEW i \in Nat
    PROVE  FirstKept(l, i) \in Log /\ FirstKept(l, i).last = l.last
<1>1. l.first \in Nat /\ i - TrailingLogs >= l.first => i - TrailingLogs + 1 \in Nat
  BY SnapshotAssumption
<1> QED
  BY <1>1, Zenon DEF FirstKept, Log

\* So does Persist.
LEMMA TypePersist ==
    ASSUME TypeInv, NEW n \in Node, Persist(n)
    PROVE  TypeInv'
<1>1. TypeOK /\ Held /\ SnapshotExclusion
  BY Zenon DEF TypeInv
<1>2. snap[n].index \in Nat /\ snap[n].database \in MaybeBytes
  BY <1>1, Zenon DEF Persist, TypeOK, FSMSnapshot
<1>3. Encode(snap[n].database) \in Bytes
  BY <1>2, Decodes, Zenon
<1> DEFINE l == FirstKept(log[n], snap[n].index)
           s == [index |-> snap[n].index, bytes |-> Encode(snap[n].database)]
<1>4. l \in Log /\ l.last = log[n].last /\ s \in Stored /\ s.bytes = Encode(snap[n].database)
  BY <1>1, <1>2, <1>3, Kept, Zenon DEF TypeOK, Stored
<1>41. /\ snap' = [snap EXCEPT ![n] = Nil] /\ UNCHANGED <<applied, fsm, dbVars, txVars>>
       /\ \/ stored' = [stored EXCEPT ![n] = s] /\ log' = [log EXCEPT ![n] = l]
          \/ UNCHANGED <<stored, log>>
  BY Zenon DEF Persist
<1> HIDE DEF l, s
<1>5. Held'
  BY <1>1, <1>2, <1>4, <1>41 DEF Held, TypeOK
<1>6. TypeOK'
  <2>1. Nil \in FSMSnapshot
    BY Zenon DEF FSMSnapshot
  <2>2. CASE stored' = [stored EXCEPT ![n] = s] /\ log' = [log EXCEPT ![n] = l]
    BY <1>1, <1>4, <1>41, <2>1, <2>2, Zenon DEF TypeOK, dbVars, txVars
  <2>3. CASE UNCHANGED <<stored, log>>
    BY <1>1, <1>41, <2>1, <2>3, Zenon DEF TypeOK, dbVars, txVars
  <2> QED
    BY <1>41, <2>2, <2>3, Zenon
<1>7. SnapshotExclusion'
  BY <1>1, <1>41, Zenon DEF SnapshotExclusion, Reading, txVars
<1> QED
  BY <1>5, <1>6, <1>7, Zenon DEF TypeInv

\* So does every step.
LEMMA TypeStep == TypeInv /\ [Next]_vars => TypeInv'
<1> SUFFICES ASSUME TypeInv, [Next]_vars PROVE TypeInv'
  BY Zenon
<1>1. TypeOK /\ Held /\ SnapshotExclusion
  BY Zenon DEF TypeInv
<1>2. ASSUME CommitEntry \/ \E n \in Node : Replicate(n) PROVE TypeInv'
  <2>1. PICK n \in Node : log' = [log EXCEPT ![n] = [log[n] EXCEPT !.last = @ + 1]]
    BY <1>2, SnapshotAssumption, Zenon DEF CommitEntry, Replicate
  <2>2. [log[n] EXCEPT !.last = @ + 1] \in Log /\ [log[n] EXCEPT !.last = @ + 1].last = log[n].last + 1
    BY <1>1, SMTT(30) DEF TypeOK, Log
  <2>3. \A m \in Node : log[m].last \in Nat
    BY <1>1, Zenon DEF TypeOK, Log
  <2>4. TypeOK'
    <3>1. UNCHANGED <<applied, fsm, file, open, path, snap, stored, txpc, at>>
      BY <1>2, Zenon DEF CommitEntry, Replicate, dbVars, snapVars, txVars
    <3> QED
      BY <1>1, <2>1, <2>2, <2>3, <3>1 DEF TypeOK
  <2> QED
    BY <1>1, <1>2, <2>4
       DEF CommitEntry, Replicate, TypeInv, Held, SnapshotExclusion, Reading, snapVars, txVars
<1>3. ASSUME NEW q \in Tx, EndTx(q) \/ \E n \in Node : BeginTx(q, n) PROVE TypeInv'
  <2>1. TypeOK' /\ Held'
    <3>1. UNCHANGED <<log, applied, fsm, file, open, path, snap, stored>>
      BY <1>3, Zenon DEF EndTx, BeginTx, raftVars, dbVars, snapVars
    <3>2. txpc' \in [Tx -> {"idle", "reading", "done"}] /\ at' \in [Tx -> Node \cup {NoNode}]
      BY <1>1, <1>3, ZenonT(60) DEF EndTx, BeginTx, TypeOK
    <3> QED
      BY <1>1, <3>1, <3>2, Zenon DEF TypeOK, Held
  <2>2. SnapshotExclusion'
    BY <1>1, <1>3 DEF EndTx, BeginTx, SnapshotExclusion, TypeOK, Reading
  <2> QED
    BY <2>1, <2>2, Zenon DEF TypeInv
<1>4. CASE UNCHANGED vars
  BY <1>1, <1>4, Zenon DEF vars, TypeInv, TypeOK, Held, SnapshotExclusion, Reading
<1> QED
  BY <1>2, <1>3, <1>4, TypeFsm, TypeRestore, TypePersist, Zenon DEF Next, Fsm

\* The variables keep their types: what Persist wrote is always something
\* that Restore can read.
THEOREM SnapshotTypes == Spec => []TypeOK
<1>1. TypeInv => TypeOK
  BY Zenon DEF TypeInv
<1> QED
  BY <1>1, TypeInit, TypeStep, PTL DEF Spec

\* No weak query in a transaction overlaps with the reading of the file.
THEOREM SnapshotExcludes == Spec => []SnapshotExclusion
<1>1. TypeInv => SnapshotExclusion
  BY Zenon DEF TypeInv
<1> QED
  BY <1>1, TypeInit, TypeStep, PTL DEF Spec

-----------------------------------------------------------------------------
(* What snapshots and databases hold *)

\* Where the file can be read, Restore never succeeds: no stored snapshot is
\* empty, and dbPath names no file.  So a database that is closed stays
\* closed, and the others hold what was applied.
ExactAt(n) ==
    /\ path[n] = "sqlite.db"
    /\ fsm[n] # "idle" => applied[n] > 0
    /\ open[n] =>
          /\ file[n] = FileAt(applied[n])
          /\ snap[n] # Nil => snap[n].index > 0 /\ snap[n].database = FileAt(snap[n].index)
          /\ stored[n] # Nil => stored[n].index > 0 /\ stored[n].bytes = Encode(FileAt(stored[n].index))

ExactInv == TypeInv /\ open[Leader] /\ \A n \in Node : ExactAt(n)

\* A step that leaves all of a node's state alone keeps what it holds.
LEMMA SameNode ==
    ASSUME NEW n \in Node, ExactAt(n), path'[n] = path[n], fsm'[n] = fsm[n], applied'[n] = applied[n],
           open'[n] = open[n], file'[n] = file[n], snap'[n] = snap[n], stored'[n] = stored[n]
    PROVE  ExactAt(n)'
  BY Zenon DEF ExactAt

\* The invariant holds at first.
LEMMA ExactInit == Init => ExactInv
<1> SUFFICES ASSUME Init PROVE ExactInv
  BY Zenon
<1>1. FileAt(0) = <<>>
  BY DEF FileAt
<1> QED
  BY <1>1, TypeInit, SnapshotAssumption, Zenon DEF Init, ExactInv, ExactAt

\* A database with entries in it is read back from what Persist writes.
LEMMA ReadBack ==
    ASSUME NEW i \in Nat, i > 0
    PROVE  FileAt(i) # Nil /\ snapshotToBytes(Encode(FileAt(i))) = FileAt(i)
<1>1. FileAt(i) \in MaybeBytes /\ FileAt(i) # <<>> /\ FileAt(i) # Nil
  BY FileSteps, SnapshotAssumption DEF MaybeBytes, Bytes
<1> QED
  BY <1>1, Decodes, Zenon

\* The steps of node n keep it.
LEMMA ExactNode ==
    ASSUME ReadFails = FALSE, ExactInv, NEW n \in Node, Fsm(n) \/ Persist(n)
    PROVE  open'[Leader] /\ \A m \in Node : ExactAt(m)'
<1>1. TypeOK /\ Held /\ open[Leader] /\ Leader \in Node /\ \A m \in Node : ExactAt(m)
  BY SnapshotAssumption, Zenon DEF ExactInv, TypeInv
<1>2. applied[n] \in Nat
  BY <1>1, Zenon DEF TypeOK
<1>3. CASE Apply(n)
  <2>1. \A m \in Node \ {n} : ExactAt(m)'
    BY <1>1, <1>3, SameNode, Zenon DEF Apply, TypeOK, snapVars
  <2>2. ExactAt(n)'
    BY <1>1, <1>2, <1>3, FileSteps, Zenon DEF Apply, ExactAt, TypeOK, snapVars
  <2> QED
    BY <1>1, <1>3, <2>1, <2>2, Zenon DEF Apply
<1>4. CASE AskSnapshot(n) \/ LockTx(n)
  <2>1. \A m \in Node \ {n} : ExactAt(m)'
    BY <1>1, <1>4, SameNode, Zenon DEF AskSnapshot, LockTx, TypeOK, raftVars, dbVars, snapVars
  <2>2. applied[n] > 0
    BY <1>1, <1>2, <1>4 DEF AskSnapshot, SnapshotDue, LockTx, ExactAt, TypeOK, Stored
  <2>3. ExactAt(n)'
    BY <1>1, <1>4, <2>2 DEF AskSnapshot, LockTx, ExactAt, raftVars, dbVars, snapVars
  <2> QED
    BY <1>1, <1>4, <2>1, <2>3, Zenon DEF AskSnapshot, LockTx, dbVars
<1>5. CASE Snapshot(n)
  <2>1. \A m \in Node \ {n} : ExactAt(m)'
    BY <1>1, <1>5, SameNode, Zenon DEF Snapshot, TypeOK, raftVars, dbVars
  <2>2. Serialize(n) = {file[n]}
    BY <1>1, Paths, Zenon DEF Serialize, ExactAt
  <2>3. snap'[n] = [index |-> applied[n], database |-> file[n]]
    BY <1>1, <1>5, <2>2 DEF Snapshot, TypeOK
  <2>4. ExactAt(n)'
    BY <1>1, <1>5, <2>3 DEF Snapshot, ExactAt, TypeOK, raftVars, dbVars
  <2> QED
    BY <1>1, <1>5, <2>1, <2>4, Zenon DEF Snapshot, dbVars
<1>6. CASE Restore(n)
  <2>1. n # Leader /\ stored[Leader] # Nil
    BY <1>6, Zenon DEF Restore
  <2> DEFINE i == stored[Leader].index
             b == snapshotToBytes(stored[Leader].bytes)
  <2>2. i \in Nat /\ i > 0 /\ stored[Leader].bytes = Encode(FileAt(i))
    BY <1>1, <2>1, Zenon DEF ExactAt, TypeOK, Stored
  <2>3. b = FileAt(i) /\ b # Nil
    BY <2>2, ReadBack, Zenon
  <2>4. ~createDiskDatabase(b, dbPath).ok
    BY <2>3, Zenon DEF createDiskDatabase, dbPath
  <2>5. open'[n] = FALSE /\ UNCHANGED <<file, path, applied, fsm, snap, stored>>
    BY <1>1, <1>6, <2>4 DEF Restore, TypeOK, snapVars
  <2>6. \A m \in Node \ {n} : open'[m] = open[m]
    BY <1>1, <1>6, Zenon DEF Restore, TypeOK
  <2>7. ExactAt(n)' /\ \A m \in Node \ {n} : ExactAt(m)'
    BY <1>1, <2>5, <2>6, Zenon DEF ExactAt
  <2> QED
    BY <1>1, <2>1, <2>6, <2>7, Zenon
<1>7. CASE Persist(n)
  <2>1. \A m \in Node \ {n} : ExactAt(m)'
    BY <1>1, <1>7, SameNode DEF Persist, TypeOK, dbVars
  <2>2. ExactAt(n)'
    BY <1>1, <1>7 DEF Persist, ExactAt, TypeOK, dbVars
  <2> QED
    BY <1>1, <1>7, <2>1, <2>2, Zenon DEF Persist, dbVars
<1> QED
  BY <1>3, <1>4, <1>5, <1>6, <1>7, Zenon DEF Fsm

\* So does every step.
LEMMA ExactStep ==
    ASSUME ReadFails = FALSE
    PROVE  ExactInv /\ [Next]_vars => ExactInv'
<1> SUFFICES ASSUME ExactInv, [Next]_vars PROVE ExactInv'
  BY Zenon
<1>1. TypeInv'
  BY TypeStep, Zenon DEF ExactInv
<1>2. ASSUME UNCHANGED <<applied, fsm, dbVars, snapVars>> PROVE open'[Leader] /\ \A n \in Node : ExactAt(n)'
  BY <1>2, SameNode, Zenon DEF ExactInv, dbVars, snapVars
<1>3. CASE \E n \in Node : Fsm(n) \/ Persist(n)
  BY <1>1, <1>3, ExactNode, Zenon DEF ExactInv
<1>4. CASE CommitEntry \/ \E n \in Node : Replicate(n)
  BY <1>1, <1>2, <1>4, Zenon DEF ExactInv, CommitEntry, Replicate
<1>5. CASE \E q \in Tx : EndTx(q) \/ \E n \in Node : BeginTx(q, n)
  BY <1>1, <1>2, <1>5, Zenon DEF ExactInv, EndTx, BeginTx, raftVars
<1>6. CASE UNCHANGED vars
  BY <1>1, <1>2, <1>6, Zenon DEF ExactInv, vars, dbVars, snapVars
<1> QED
  BY <1>3, <1>4, <1>5, <1>6, Zenon DEF Next

\* Where Engine.Serialize does not fail, the snapshot that an open node has
\* stored restores to just the database of its index.
THEOREM SnapshotsAreExact ==
    ASSUME ReadFails = FALSE
    PROVE  Spec => []SnapshotExact
<1>1. ExactInv => SnapshotExact
  BY ReadBack DEF ExactInv, ExactAt, SnapshotExact, Restored, TypeInv, TypeOK, Stored
<1> QED
  BY <1>1, ExactInit, ExactStep, PTL DEF Spec

\* And a node whose database is open holds just what was applied.
THEOREM OpenNodesAreExact ==
    ASSUME ReadFails = FALSE
    PROVE  Spec => []OpenIsExact
<1>1. ExactInv => OpenIsExact
  BY Zenon DEF ExactInv, ExactAt, OpenIsExact
<1> QED
  BY <1>1, ExactInit, ExactStep, PTL DEF Spec

=============================================================================
