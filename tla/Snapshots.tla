----------------------------- MODULE Snapshots -----------------------------
(***************************************************************************)
(* Snapshot, Persist and Restore of consensus.Consensus, and the lock txmu *)
(* that keeps transactional weak queries away from a snapshot.             *)
(*                                                                         *)
(* hashicorp/raft is external: Apply, Snapshot and Restore run on one FSM  *)
(* goroutine per node, Persist on another; a persisted snapshot lets raft  *)
(* drop the log it covers but for some trailing entries, and a follower    *)
(* that needs dropped entries is sent the leader's snapshot instead.       *)
(* Leadership does not change here (see Consensus).                        *)
(***************************************************************************)
EXTENDS Integers, Sequences, FiniteSets

CONSTANTS
    Node, Leader,   \* the servers, and the one that leads
    Tx,             \* weak queries with Transaction set
    NoNode,         \* no node
    Nil,            \* Go's nil
    MaxUint64,      \* the size that marks a compressed snapshot
    GzHeader,       \* what gzip puts in front of the data
    TrailingLogs,   \* raft.Config.TrailingLogs
    ReadFails,      \* may os.ReadFile of the database fail?
    MaxIndex        \* bound: number of log entries

ASSUME SnapshotAssumption ==
    /\ Leader \in Node /\ NoNode \notin Node /\ Nil \notin Seq(Nat)
    /\ TrailingLogs \in Nat /\ MaxIndex \in Nat /\ GzHeader \in Nat
    /\ MaxUint64 \in Nat /\ MaxUint64 > MaxIndex + 1
    /\ ReadFails \in BOOLEAN

VARIABLES
    log,      \* raft: first and last index in each node's log
    applied,  \* raft: index up to which a node's FSM has been fed
    fsm,      \* what the FSM goroutine does
    file,     \* the database file: the entries whose effect it holds
    open,     \* the engine's connections are open
    path,     \* the engine's file: the one NewDB opened, or a temporary one
    snap,     \* the FSMSnapshot that waits for Persist
    stored,   \* the snapshot store: an index, and the bytes Persist wrote
    txpc, at  \* where a weak query is, and on which node

vars == <<log, applied, fsm, file, open, path, snap, stored, txpc, at>>

Bytes == Seq(Nat)
MaybeBytes == Bytes \cup {Nil}
\* A database without a name is a temporary one.
Temporary == ""
Path == {"sqlite.db", Temporary}
Log == [first : Nat, last : Nat]
FSMSnapshot == {Nil} \cup [index : Nat, database : MaybeBytes]
Stored == {Nil} \cup [index : Nat, bytes : Bytes]

\* The variables have their types, and a node applies what is in its log.
TypeOK ==
    /\ log \in [Node -> Log]
    /\ applied \in [Node -> Nat] /\ \A n \in Node : applied[n] <= log[n].last
    /\ fsm \in [Node -> {"idle", "lock", "read"}]
    /\ file \in [Node -> Bytes] /\ open \in [Node -> BOOLEAN]
    /\ path \in [Node -> Path]
    /\ snap \in [Node -> FSMSnapshot] /\ stored \in [Node -> Stored]
    /\ txpc \in [Tx -> {"idle", "reading", "done"}] /\ at \in [Tx -> Node \cup {NoNode}]

Init ==
    /\ log = [n \in Node |-> [first |-> 1, last |-> 0]]
    /\ applied = [n \in Node |-> 0] /\ fsm = [n \in Node |-> "idle"]
    /\ file = [n \in Node |-> <<>>] /\ open = [n \in Node |-> TRUE]
    /\ path = [n \in Node |-> "sqlite.db"]
    /\ snap = [n \in Node |-> Nil] /\ stored = [n \in Node |-> Nil]
    /\ txpc = [q \in Tx |-> "idle"] /\ at = [q \in Tx |-> NoNode]

raftVars == <<log, applied>>
dbVars == <<file, open, path>>
snapVars == <<snap, stored>>
txVars == <<txpc, at>>

-----------------------------------------------------------------------------
(* The log *)

\* The leader commits an entry.
CommitEntry ==
    /\ log[Leader].last < MaxIndex
    /\ log' = [log EXCEPT ![Leader].last = @ + 1]
    /\ UNCHANGED <<applied, fsm, dbVars, snapVars, txVars>>

\* A follower is sent the next entry, if the leader still has it.
Replicate(n) ==
    /\ n # Leader
    /\ log[Leader].first <= log[n].last + 1 /\ log[n].last < log[Leader].last
    /\ log' = [log EXCEPT ![n].last = @ + 1]
    /\ UNCHANGED <<applied, fsm, dbVars, snapVars, txVars>>

\* Mutant: the FSM runs ahead of the log by one.
ApplyMutant(n) ==
    /\ fsm[n] = "idle" /\ applied[n] <= log[n].last
    /\ applied' = [applied EXCEPT ![n] = @ + 1]
    /\ file' = IF open[n] THEN [file EXCEPT ![n] = Append(@, applied[n] + 1)] ELSE file
    /\ UNCHANGED <<log, fsm, open, path, snapVars, txVars>>

\* Apply.  The engine's error, when it is closed, is the entry's response;
\* the entry counts as applied.
Apply(n) ==
    /\ fsm[n] = "idle" /\ applied[n] < log[n].last
    /\ applied' = [applied EXCEPT ![n] = @ + 1]
    /\ file' = IF open[n] THEN [file EXCEPT ![n] = Append(@, applied[n] + 1)] ELSE file
    /\ UNCHANGED <<log, fsm, open, path, snapVars, txVars>>

-----------------------------------------------------------------------------
(* Weak queries in a transaction *)

\* txmu.RLock: granted unless Snapshot holds the lock or waits for it.
BeginTx(q, n) ==
    /\ txpc[q] = "idle" /\ fsm[n] = "idle"
    /\ at' = [at EXCEPT ![q] = n]
    /\ txpc' = [txpc EXCEPT ![q] = IF open[n] THEN "reading" ELSE "done"]
    /\ UNCHANGED <<raftVars, fsm, dbVars, snapVars>>

\* Mutant: txmu is not unlocked when the query returns.
EndTxMutant(q) == txpc[q] = "reading" /\ UNCHANGED vars

\* The query returns: txmu.RUnlock.
EndTx(q) ==
    /\ txpc[q] = "reading"
    /\ txpc' = [txpc EXCEPT ![q] = "done"]
    /\ UNCHANGED <<raftVars, fsm, dbVars, snapVars, at>>

Reading(n) == {q \in Tx : txpc[q] = "reading" /\ at[q] = n}

-----------------------------------------------------------------------------
(* Snapshots *)

\* raft asks for a snapshot once entries have been applied since the last.
SnapshotDue(n) ==
    /\ fsm[n] = "idle" /\ snap[n] = Nil
    /\ applied[n] > IF stored[n] = Nil THEN 0 ELSE stored[n].index

AskSnapshot(n) ==
    /\ SnapshotDue(n)
    /\ fsm' = [fsm EXCEPT ![n] = "lock"]
    /\ UNCHANGED <<raftVars, dbVars, snapVars, txVars>>

\* Mutant: txmu is not waited for.
LockTxMutant(n) ==
    /\ fsm[n] = "lock"
    /\ fsm' = [fsm EXCEPT ![n] = "read"]
    /\ UNCHANGED <<raftVars, dbVars, snapVars, txVars>>

\* txmu.Lock
LockTx(n) ==
    /\ fsm[n] = "lock" /\ Reading(n) = {}
    /\ fsm' = [fsm EXCEPT ![n] = "read"]
    /\ UNCHANGED <<raftVars, dbVars, snapVars, txVars>>

\* Engine.Serialize: the file as it is, without SQLite.  There is none for a
\* temporary database.
Serialize(n) ==
    (IF path[n] = Temporary THEN {Nil} ELSE {file[n]}) \cup (IF ReadFails THEN {Nil} ELSE {})

\* newSnapshot drops the error of Serialize; then txmu is unlocked.
Snapshot(n) ==
    /\ fsm[n] = "read"
    /\ \E data \in Serialize(n) :
          snap' = [snap EXCEPT ![n] = [index |-> applied[n], database |-> data]]
    /\ fsm' = [fsm EXCEPT ![n] = "idle"]
    /\ UNCHANGED <<raftVars, dbVars, stored, txVars>>

\* gzip: an empty file is compressed to something that is not empty.
Gzip(b) == <<GzHeader>> \o b
Gunzip(b) == SubSeq(b, 2, Len(b))

\* What Persist writes to the sink: a mark, the size, the compressed file.
Encode(database) ==
    IF database = Nil THEN <<MaxUint64, 0>>
    ELSE <<MaxUint64, Len(Gzip(database))>> \o Gzip(database)

\* snapshotToBytes.  The Buffer of a database without any bytes is nil.
snapshotToBytes(b) ==
    LET compressed == b[1] = MaxUint64
        size == IF compressed THEN b[2] ELSE b[1]
        offset == IF compressed THEN 2 ELSE 1
        data == SubSeq(b, offset + 1, offset + size)
    IN  IF size = 0 THEN Nil
        ELSE IF ~compressed THEN data
        ELSE IF Gunzip(data) = <<>> THEN Nil
        ELSE Gunzip(data)

FirstKept(l, index) ==
    IF index - TrailingLogs >= l.first THEN [l EXCEPT !.first = index - TrailingLogs + 1] ELSE l

\* Mutant: the database is serialized by Persist, not by Snapshot.
PersistMutant(n) ==
    /\ snap[n] # Nil
    /\ snap' = [snap EXCEPT ![n] = Nil]
    /\ stored' = [stored EXCEPT ![n] = [index |-> snap[n].index, bytes |-> Encode(file[n])]]
    /\ log' = [log EXCEPT ![n] = FirstKept(@, snap[n].index)]
    /\ UNCHANGED <<applied, fsm, dbVars, txVars>>

\* Persist succeeds and raft drops log entries, or the sink is cancelled.
Persist(n) ==
    /\ snap[n] # Nil
    /\ snap' = [snap EXCEPT ![n] = Nil]
    /\ \/ /\ stored' = [stored EXCEPT ![n] = [index |-> snap[n].index, bytes |-> Encode(snap[n].database)]]
          /\ log' = [log EXCEPT ![n] = FirstKept(@, snap[n].index)]
       \/ UNCHANGED <<stored, log>>
    /\ UNCHANGED <<applied, fsm, dbVars, txVars>>

\* Consensus.dbPath: declared and read, but assigned nowhere.
dbPath == Temporary

\* createDiskDatabase and engine.Open.  A file without a name cannot be
\* written; a database without a name is a new temporary one.
createDiskDatabase(b, p) ==
    IF b = Nil THEN [ok |-> TRUE, file |-> <<>>, path |-> p]
    ELSE [ok |-> p # Temporary, file |-> b, path |-> p]

\* Mutant: an error of createDiskDatabase is taken for success, and the
\* database in use is kept.
RestoreMutant(n) ==
    /\ n # Leader /\ fsm[n] = "idle"
    /\ stored[Leader] # Nil /\ log[n].last + 1 < log[Leader].first
    /\ applied' = [applied EXCEPT ![n] = stored[Leader].index]
    /\ log' = [log EXCEPT ![n] = [first |-> applied'[n] + 1, last |-> applied'[n]]]
    /\ UNCHANGED <<fsm, dbVars, snapVars, txVars>>

\* InstallSnapshot on follower n: Restore closes the database before it
\* tries to create the new one.  raft takes the snapshot for installed only
\* if Restore succeeds, and sends it again otherwise.
Restore(n) ==
    /\ n # Leader /\ fsm[n] = "idle"
    /\ stored[Leader] # Nil /\ log[n].last + 1 < log[Leader].first
    /\ LET s == stored[Leader]
           db == createDiskDatabase(snapshotToBytes(s.bytes), dbPath)
       IN  /\ open' = [open EXCEPT ![n] = db.ok]
           /\ IF db.ok
                THEN /\ file' = [file EXCEPT ![n] = db.file] /\ path' = [path EXCEPT ![n] = db.path]
                     /\ applied' = [applied EXCEPT ![n] = s.index]
                     /\ log' = [log EXCEPT ![n] = [first |-> s.index + 1, last |-> s.index]]
                ELSE UNCHANGED <<file, path, applied, log>>
    /\ UNCHANGED <<fsm, snapVars, txVars>>

-----------------------------------------------------------------------------
Fsm(n) == Apply(n) \/ AskSnapshot(n) \/ LockTx(n) \/ Snapshot(n) \/ Restore(n)

Next ==
    \/ CommitEntry
    \/ \E n \in Node : Replicate(n) \/ Fsm(n) \/ Persist(n)
    \/ \E q \in Tx : EndTx(q) \/ \E n \in Node : BeginTx(q, n)

Spec == Init /\ [][Next]_vars

\* The goroutines go on.  The FSM goroutine selects between entries and
\* snapshot requests at random, so it does not always choose the latter.
Fairness ==
    /\ \A n \in Node : /\ WF_vars(Replicate(n)) /\ SF_vars(Apply(n))
                       /\ WF_vars(LockTx(n)) /\ WF_vars(Snapshot(n)) /\ SF_vars(Restore(n))
    /\ \A q \in Tx : WF_vars(EndTx(q))

FairSpec == Spec /\ Fairness

-----------------------------------------------------------------------------
(* Properties *)

\* The file after the first i entries.
FileAt(i) == [j \in 1..i |-> j]

\* The bytes restored from a snapshot: nothing at all for an empty file.
Restored(b) == IF snapshotToBytes(b) = Nil THEN <<>> ELSE snapshotToBytes(b)

\* A snapshot that is stored restores to just the database of its index:
\* reading the file outside SQLite, as Serialize does, is safe there, and
\* what Persist writes is what snapshotToBytes reads.  "database []byte //
\* the serialized database".
SnapshotExact ==
    \A n \in Node : stored[n] # Nil /\ open[n] =>
        Restored(stored[n].bytes) = FileAt(stored[n].index)

\* "stop query transactions while this is running": no weak query in a
\* transaction overlaps with Snapshot's reading of the file.
SnapshotExclusion ==
    \A n \in Node : fsm[n] = "read" => Reading(n) = {}

\* A node with an open database holds all that was applied: a Restore that
\* fails takes the node out of service instead of leaving stale rows in use.
OpenIsExact ==
    \A n \in Node : open[n] => file[n] = FileAt(applied[n])

\* Snapshots and the queries they wait for hold up the FSM goroutine, but
\* not for ever: every entry in a node's log is applied.
FsmProceeds ==
    \A n \in Node, i \in 1..MaxIndex : i <= log[n].last ~> applied[n] >= i

\* Every node comes to hold, and to answer from, what the leader committed.
ReplicasConverge ==
    \A n \in Node, i \in 1..MaxIndex :
        i <= log[Leader].last ~> open[n] /\ applied[n] >= i
=============================================================================
