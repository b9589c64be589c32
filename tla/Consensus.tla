------------------------------ MODULE Consensus ------------------------------
(***************************************************************************)
(* consensus.Consensus: a replicated SQLite database.  Exec and strong     *)
(* Query go through the raft log, every node applies the committed log to  *)
(* its own database file, weak Query reads the local file.                 *)
(*                                                                         *)
(* hashicorp/raft is external.  It is modelled by what its API shows: one  *)
(* log per leader term, a committed prefix that every later leader's log   *)
(* contains, leaders that have been deposed and do not know it yet, and    *)
(* futures that fail when a leader steps down although their entry may     *)
(* still be committed by the next one.                                     *)
(***************************************************************************)
EXTENDS Database

CONSTANTS
    Node,           \* the raft servers
    NoNode,         \* no node
    BusyTimeouts,   \* may a weak query outlast SQLite's busy timeout?
    BusyDB(_, _),   \* the databases a request may leave when locked out
    BusyResult,     \* the answer of such a request
    MaxTerm,        \* bound: number of elections
    MaxDown         \* bound: number of nodes that crash or are closed

ASSUME NodeAssumption == NoNode \notin Node /\ IsFiniteSet(Node)
ASSUME BoundAssumption == MaxTerm \in Nat /\ MaxDown \in Nat /\ BusyTimeouts \in BOOLEAN
ASSUME BusyAssumption == \A d \in DB, o \in ExecOp : BusyDB(d, o) \subseteq DB

VARIABLES
    \* raft
    role,      \* raft.State() of each node; "Down" when its process is gone
    epoch,     \* the term in which a node was last elected
    tlog,      \* the log of the leader of each term
    tcommit,   \* how far the leader of each term knows its log committed
    applied,   \* the log index up to which a node's FSM has been fed
    \* Consensus, one per node
    db,        \* contents of the node's database file
    lastIdx,   \* Consensus.lastIdx
    \* calls of Exec and Query
    pc, at,    \* where a call is in the code, and on which node
    err, val,  \* what it returned
    \* history
    hist,      \* the committed log, with the database each entry should leave
    seen,      \* the calls acknowledged when a call began
    failed     \* nodes whose engine failed on an entry other nodes executed

raftVars == <<role, epoch, tlog, tcommit>>
nodeVars == <<applied, db, lastIdx, failed>>
callVars == <<pc, at, err, val, seen>>
vars == <<raftVars, nodeVars, callVars, hist>>

Roles == {"Leader", "Follower", "Shutdown", "Down"}
Errors == {"nil", "ErrNotLeader", "ErrEnqueueTimeout", "ErrLeadershipLost",
           "ErrRaftShutdown", "ErrDatabaseClosed", "crash"}

\* Errors that tell the client that the call has had no effect.
Refusals == {"ErrNotLeader", "ErrEnqueueTimeout", "ErrDatabaseClosed"}

\* A raft log entry.  Index and term together identify it.
Entry == [term : Nat, op : Command]

Term == Len(tlog)
Alive(n) == role[n] \in {"Leader", "Follower"}
HaveQuorum == 2 * Cardinality({n \in Node : Alive(n)}) > Cardinality(Node)
IsLeader(n) == role[n] = "Leader"
DBAt(i) == IF i = 0 THEN InitDB ELSE hist[i].db
MayFail == Cardinality({n \in Node : ~Alive(n)}) < MaxDown
Acked(o) == pc[o] = "done" /\ err[o] = "nil"

\* Weak queries in progress on n: each holds a SHARED lock on the file.
Readers(n) == {o \in WeakOp : pc[o] = "reading" /\ at[o] = n}

\* Calls on n whose future waits for raft.
Waiting(n) == {o \in LoggedOp : pc[o] = "waiting" /\ at[o] = n}

\* The committed prefix that node n knows of.
KnownCommit(n) == IF IsLeader(n) THEN tcommit[epoch[n]] ELSE Len(hist)

RaftTypes ==
    /\ role \in [Node -> Roles]
    /\ tlog \in Seq(Seq(Entry))
    /\ tcommit \in Seq(Nat) /\ Len(tcommit) = Term
    /\ epoch \in [Node -> 0..Term]
    /\ \A n \in Node : IsLeader(n) => epoch[n] \in 1..Term
    /\ hist \in Seq([term : Nat, op : Command, db : DB])

NodeTypes ==
    /\ applied \in [Node -> Nat] /\ lastIdx \in [Node -> Nat]
    /\ db \in [Node -> DB]
    /\ failed \in SUBSET Node

CallTypes ==
    /\ pc \in [Op -> {"idle", "checked", "waiting", "reading", "done"}]
    /\ at \in [Op -> Node \cup {NoNode}]
    /\ \A o \in Op : pc[o] # "idle" => at[o] \in Node
    /\ err \in [Op -> Errors]
    /\ val \in [Op -> Result \cup {Noop, BusyResult}]
    /\ seen \in [Op -> SUBSET LoggedOp]

\* The variables have their types: leaders lead an existing term, and calls
\* in progress are on a node.
TypeOK == RaftTypes /\ NodeTypes /\ CallTypes

Init ==
    /\ role = [n \in Node |-> "Follower"]
    /\ epoch = [n \in Node |-> 0]
    /\ tlog = <<>> /\ tcommit = <<>>
    /\ applied = [n \in Node |-> 0] /\ lastIdx = [n \in Node |-> 0]
    /\ db = [n \in Node |-> InitDB]
    /\ pc = [o \in Op |-> "idle"] /\ at = [o \in Op |-> NoNode]
    /\ err = [o \in Op |-> "nil"] /\ val = [o \in Op |-> Noop]
    /\ hist = <<>>
    /\ seen = [o \in Op |-> {}]
    /\ failed = {}

-----------------------------------------------------------------------------
(* Raft *)

\* n is elected.  Its log is part of an earlier leader's log and holds every
\* committed entry; it appends an entry of its own term.
Elect(n) ==
    /\ role[n] = "Follower" /\ HaveQuorum /\ Term < MaxTerm
    /\ \E log \in {<<>>} \cup {tlog[t] : t \in 1..Term} : \E k \in Len(hist)..Len(log) :
          /\ \A i \in 1..Len(hist) : log[i].term = hist[i].term /\ log[i].op = hist[i].op
          /\ tlog' = Append(tlog, Append(SubSeq(log, 1, k), [term |-> Term + 1, op |-> Noop]))
    /\ tcommit' = Append(tcommit, Len(hist))
    /\ role' = [role EXCEPT ![n] = "Leader"]
    /\ epoch' = [epoch EXCEPT ![n] = Term + 1]
    /\ UNCHANGED <<nodeVars, callVars, hist>>

\* A quorum holds the next entry of the newest leader's log.
Commit(n) ==
    /\ IsLeader(n) /\ epoch[n] = Term /\ HaveQuorum
    /\ Len(hist) < Len(tlog[Term])
    /\ LET e == tlog[Term][Len(hist) + 1] IN
          hist' = Append(hist, [term |-> e.term, op |-> e.op, db |-> After(DBAt(Len(hist)), e.op)])
    /\ tcommit' = [tcommit EXCEPT ![Term] = Len(hist) + 1]
    /\ UNCHANGED <<role, epoch, tlog, nodeVars, callVars>>

\* What Exec and strong Query make of the error of a raft future.  Only
\* raft's own ErrNotLeader, which tells that the entry was not appended,
\* becomes the ErrNotLeader that the HTTP service answers with a redirect.
FutureErrorMutant(e) == "ErrNotLeader"
FutureError(e) == IF e = "raft.ErrNotLeader" THEN "ErrNotLeader" ELSE e

\* The calls in S return error e.
Return(S, e) ==
    /\ pc' = [o \in Op |-> IF o \in S THEN "done" ELSE pc[o]]
    /\ err' = [o \in Op |-> IF o \in S THEN e ELSE err[o]]

\* n finds out that it leads no longer.  The futures of entries it has not
\* handed to its FSM fail; the committed entries up to k have been.
StepDown(n) ==
    /\ IsLeader(n)
    /\ role' = [role EXCEPT ![n] = "Follower"]
    /\ \E k \in applied[n]..tcommit[epoch[n]] :
          Return({o \in Waiting(n) : \A i \in 1..k : tlog[epoch[n]][i].op # o},
                 FutureError("ErrLeadershipLost"))
    /\ UNCHANGED <<epoch, tlog, tcommit, nodeVars, at, val, seen, hist>>

\* The process of n dies.  It cannot start again on its data directory:
\* setupRaft returns the error of os.Mkdir on a directory that exists.
Crash(n) ==
    /\ Alive(n) /\ MayFail
    /\ role' = [role EXCEPT ![n] = "Down"]
    /\ Return({o \in Op : at[o] = n /\ pc[o] # "done"}, "crash")
    /\ UNCHANGED <<epoch, tlog, tcommit, nodeVars, at, val, seen, hist>>

\* Close: raft is shut down, then the database is closed.
Close(n) ==
    /\ Alive(n) /\ MayFail
    /\ role' = [role EXCEPT ![n] = "Shutdown"]
    /\ Return(Waiting(n), FutureError("ErrRaftShutdown"))
    /\ UNCHANGED <<epoch, tlog, tcommit, nodeVars, at, val, seen, hist>>

-----------------------------------------------------------------------------
(* Calls *)

\* Call o arrives at node n.
Begin(o, n) ==
    /\ pc[o] = "idle" /\ role[n] # "Down"
    /\ at' = [at EXCEPT ![o] = n]
    /\ seen' = [seen EXCEPT ![o] = {a \in LoggedOp : Acked(a)}]
    /\ UNCHANGED <<raftVars, nodeVars, hist>>

\* Mutant: a node that takes itself for the leader answers from its own file.
CallLoggedMutant(o, n) ==
    /\ Begin(o, n)
    /\ Return({o}, IF IsLeader(n) THEN "nil" ELSE "ErrNotLeader")
    /\ val' = [val EXCEPT ![o] = Answer(db[n], o)]

\* Exec and strong Query first ask whether this node leads.
CallLogged(o, n) ==
    /\ Begin(o, n)
    /\ IF IsLeader(n)
         THEN pc' = [pc EXCEPT ![o] = "checked"] /\ UNCHANGED err
         ELSE Return({o}, "ErrNotLeader")
    /\ UNCHANGED val

\* Mutant: the answer is given without waiting for the future.
RaftApplyMutant(o) ==
    /\ pc[o] = "checked" /\ IsLeader(at[o])
    /\ Return({o}, "nil")
    /\ tlog' = [tlog EXCEPT ![epoch[at[o]]] = Append(@, [term |-> epoch[at[o]], op |-> o])]
    /\ UNCHANGED <<role, epoch, tcommit, nodeVars, at, val, seen, hist>>

\* Mutant: an action that reaches a node that no longer leads is forgotten.
RaftApplyForgets(o) ==
    /\ pc[o] = "checked" /\ IsLeader(at[o])
    /\ pc' = [pc EXCEPT ![o] = "waiting"]
    /\ tlog' = [tlog EXCEPT ![epoch[at[o]]] = Append(@, [term |-> epoch[at[o]], op |-> o])]
    /\ UNCHANGED <<role, epoch, tcommit, nodeVars, at, err, val, seen, hist>>

\* raft.Apply of the encoded action: it is appended to the leader's log, or
\* refused when the node no longer leads or is shut down.
RaftApply(o) ==
    /\ pc[o] = "checked"
    /\ LET n == at[o] IN
          \/ /\ IsLeader(n)
             /\ pc' = [pc EXCEPT ![o] = "waiting"]
             /\ tlog' = [tlog EXCEPT ![epoch[n]] = Append(@, [term |-> epoch[n], op |-> o])]
             /\ UNCHANGED err
          \/ /\ role[n] = "Follower"
             /\ Return({o}, FutureError("raft.ErrNotLeader")) /\ UNCHANGED tlog
          \/ /\ role[n] = "Shutdown"
             /\ Return({o}, FutureError("ErrRaftShutdown")) /\ UNCHANGED tlog
    /\ UNCHANGED <<role, epoch, tcommit, nodeVars, at, val, seen, hist>>

\* raft does not take the action from its channel for ten seconds.
EnqueueTimeout(o) ==
    /\ pc[o] = "checked"
    /\ Return({o}, FutureError("ErrEnqueueTimeout"))
    /\ UNCHANGED <<raftVars, nodeVars, at, val, seen, hist>>

\* Mutant: the read connection stays on the state before the last entry.
CallWeakMutant(o, n) ==
    /\ Begin(o, n) /\ role[n] # "Shutdown"
    /\ pc' = [pc EXCEPT ![o] = "reading"]
    /\ val' = [val EXCEPT ![o] = Answer(DBAt(IF applied[n] > 0 THEN applied[n] - 1 ELSE 0), o)]
    /\ UNCHANGED err

\* A weak Query reads the node's own file, whatever the node's role.
CallWeak(o, n) ==
    /\ Begin(o, n)
    /\ IF role[n] = "Shutdown"
         THEN Return({o}, "ErrDatabaseClosed") /\ UNCHANGED val
         ELSE /\ pc' = [pc EXCEPT ![o] = "reading"]
              /\ val' = [val EXCEPT ![o] = Answer(db[n], o)]
              /\ UNCHANGED err

\* The rows have been read: the lock is released and the call returns.
EndWeak(o) ==
    /\ pc[o] = "reading"
    /\ Return({o}, "nil")
    /\ UNCHANGED <<raftVars, nodeVars, at, val, seen, hist>>

-----------------------------------------------------------------------------
(* The FSM of a node *)

\* The FSM of n is fed the next committed entry.
Feed(n) ==
    /\ Alive(n)
    /\ applied[n] < KnownCommit(n)
    /\ applied' = [applied EXCEPT ![n] = @ + 1]
    /\ UNCHANGED <<raftVars, at, seen, hist>>

NextEntry(n) == hist[applied[n] + 1].op

\* The future of call o, if it waits on this node, is answered with v.
Deliver(n, o, v) ==
    IF o \in Waiting(n)
      THEN Return({o}, "nil") /\ val' = [val EXCEPT ![o] = v]
      ELSE UNCHANGED <<pc, err, val>>

\* Mutant: only the node that answers the call executes the request.
ApplyExecMutant(n) ==
    /\ Feed(n) /\ Readers(n) = {} /\ NextEntry(n) \in ExecOp
    /\ db' = IF NextEntry(n) \in Waiting(n)
                THEN [db EXCEPT ![n] = NextDB(@, NextEntry(n))] ELSE db
    /\ lastIdx' = [lastIdx EXCEPT ![n] = applied[n] + 1]
    /\ Deliver(n, NextEntry(n), Answer(db[n], NextEntry(n)))
    /\ UNCHANGED failed

\* Mutant: lastIdx is advanced only where the call is answered.
ApplyExecIndexMutant(n) ==
    /\ Feed(n) /\ Readers(n) = {} /\ NextEntry(n) \in ExecOp
    /\ db' = [db EXCEPT ![n] = NextDB(@, NextEntry(n))]
    /\ lastIdx' = IF NextEntry(n) \in Waiting(n)
                     THEN [lastIdx EXCEPT ![n] = applied[n] + 1] ELSE lastIdx
    /\ Deliver(n, NextEntry(n), Answer(db[n], NextEntry(n)))
    /\ UNCHANGED failed

\* Apply of an ACTION_EXECUTE: Engine.Exec, then lastIdx.
ApplyExec(n) ==
    /\ Feed(n)
    /\ Readers(n) = {}
    /\ NextEntry(n) \in ExecOp
    /\ db' = [db EXCEPT ![n] = NextDB(@, NextEntry(n))]
    /\ lastIdx' = [lastIdx EXCEPT ![n] = applied[n] + 1]
    /\ Deliver(n, NextEntry(n), Answer(db[n], NextEntry(n)))
    /\ UNCHANGED failed

\* The same when a weak query keeps the file locked until the busy timeout
\* expires: the error is the answer, and the entry counts as applied.
ApplyExecBusy(n) ==
    /\ Feed(n)
    /\ BusyTimeouts /\ Readers(n) # {}
    /\ NextEntry(n) \in ExecOp
    /\ \E d \in BusyDB(db[n], NextEntry(n)) : db' = [db EXCEPT ![n] = d]
    /\ lastIdx' = [lastIdx EXCEPT ![n] = applied[n] + 1]
    /\ Deliver(n, NextEntry(n), BusyResult)
    /\ failed' = failed \cup {n}

\* Mutant: an ACTION_QUERY is run by Engine.Exec.
ApplyQueryExecutes(n) ==
    /\ Feed(n) /\ NextEntry(n) \in StrongOp
    /\ db' = [db EXCEPT ![n] = NextDB(@, NextEntry(n))]
    /\ lastIdx' = [lastIdx EXCEPT ![n] = applied[n] + 1]
    /\ Deliver(n, NextEntry(n), Answer(db[n], NextEntry(n)))
    /\ UNCHANGED failed

\* Mutant: the query misses the entry applied just before it.
ApplyQueryStale(n) ==
    /\ Feed(n) /\ NextEntry(n) \in StrongOp
    /\ lastIdx' = [lastIdx EXCEPT ![n] = applied[n] + 1]
    /\ Deliver(n, NextEntry(n), Answer(DBAt(IF applied[n] > 0 THEN applied[n] - 1 ELSE 0), NextEntry(n)))
    /\ UNCHANGED <<db, failed>>

\* Mutant: only Exec advances lastIdx.
ApplyQueryIndexMutant(n) ==
    /\ Feed(n) /\ NextEntry(n) \in StrongOp
    /\ Deliver(n, NextEntry(n), Answer(db[n], NextEntry(n)))
    /\ UNCHANGED <<db, lastIdx, failed>>

\* Apply of an ACTION_QUERY: Engine.Query, on every node, then lastIdx.
ApplyQuery(n) ==
    /\ Feed(n)
    /\ NextEntry(n) \in StrongOp
    /\ lastIdx' = [lastIdx EXCEPT ![n] = applied[n] + 1]
    /\ Deliver(n, NextEntry(n), Answer(db[n], NextEntry(n)))
    /\ UNCHANGED <<db, failed>>

\* raft keeps its own entries from Apply, so lastIdx stays behind them.
SkipNoop(n) ==
    /\ Feed(n)
    /\ NextEntry(n) = Noop
    /\ UNCHANGED <<db, lastIdx, failed, pc, err, val>>

-----------------------------------------------------------------------------
Apply(n) == ApplyExec(n) \/ ApplyExecBusy(n) \/ ApplyQuery(n) \/ SkipNoop(n)

Raft(n) == Elect(n) \/ Commit(n) \/ StepDown(n) \/ Crash(n) \/ Close(n)

Next ==
    \/ \E n \in Node : Raft(n) \/ Apply(n)
    \/ \E o \in LoggedOp, n \in Node : CallLogged(o, n)
    \/ \E o \in WeakOp, n \in Node : CallWeak(o, n)
    \/ \E o \in LoggedOp : RaftApply(o) \/ EnqueueTimeout(o)
    \/ \E o \in WeakOp : EndWeak(o)

Spec == Init /\ [][Next]_vars

-----------------------------------------------------------------------------
(* Safety *)

\* An acknowledged Exec or strong Query is committed, and the log of the
\* newest leader holds it: an answer is never given ahead of raft.
AckedDurable ==
    \A o \in LoggedOp : Acked(o) =>
        \E i \in 1..Len(hist) : hist[i].op = o /\ tlog[Term][i].op = o

\* A call answered with ErrNotLeader, which the HTTP service repeats at the
\* leader, or with an enqueue timeout is in no leader's log: it has not been
\* executed and never will be, so that repeating it cannot execute it twice.
RefusedNeverLogged ==
    \A t \in 1..Term : \A i \in 1..Len(tlog[t]) :
        LET o == tlog[t][i].op IN
        o \in Op => ~(pc[o] = "done" /\ err[o] \in Refusals)

\* An acknowledged call comes after every call that had been acknowledged
\* when it began: no leader, deposed or new, answers it past those calls.
RealTimeOrder ==
    \A b \in LoggedOp : Acked(b) =>
        \A a \in seen[b] : \E j \in 1..Len(hist) : \E i \in 1..j - 1 :
            hist[i].op = a /\ hist[j].op = b

\* Nodes whose engines have not failed hold the database that the log up to
\* their applied index determines, so two of them at the same index agree.
ReplicaAgreement ==
    \A n \in Node \ failed : db[n] = DBAt(applied[n])

\* The answer to call o is the one at its place in the log.
AnswerFromLog(o) ==
    \A i \in 1..Len(hist) : hist[i].op = o => val[o] = Answer(DBAt(i - 1), o)

\* "query from the leader ensuring that entries are up-to-date": when every
\* Exec before it in the log had been acknowledged as done before the strong
\* Query began, the Query's answer shows what they did.
StrongReadUpToDate ==
    \A o \in StrongOp, j \in 1..Len(hist) :
        /\ Acked(o) /\ hist[j].op = o
        /\ \A i \in 1..j : hist[i].op \in ExecOp =>
               hist[i].op \in seen[o] /\ val[hist[i].op] # BusyResult
        => val[o] = Answer(DBAt(j - 1), o)

\* Exec and strong Query answer from the log on nodes whose engine has not
\* failed: whatever elections happen, an answer is not from a stale leader.
AnswersUnlessBusy ==
    \A o \in LoggedOp : Acked(o) /\ at[o] \notin failed => AnswerFromLog(o)

\* A weak Query reads a state the database has been in, not older than any
\* call its own node acknowledged before.
ReadsOwnWrites ==
    \A w \in WeakOp : pc[w] # "idle" /\ Acked(w) /\ at[w] \notin failed =>
        \E k \in 0..Len(hist) :
            /\ val[w] = Answer(DBAt(k), w)
            /\ \A a \in seen[w] : at[a] = at[w] => \E i \in 1..k : hist[i].op = a

\* lastIdx, which WaitForIndex polls, is the index of the last command that
\* the node executed; only entries raft keeps to itself lie above it.
IndexTracksCommands ==
    \A n \in Node :
        /\ lastIdx[n] <= applied[n]
        /\ \A i \in lastIdx[n] + 1..applied[n] : hist[i].op = Noop
        /\ lastIdx[n] > 0 => hist[lastIdx[n]].op # Noop

-----------------------------------------------------------------------------
(* Liveness *)

\* raft's leader lease and heartbeats make a leader without a quorum, or one
\* that has been succeeded, step down.
Deposed(n) == epoch[n] # Term \/ ~HaveQuorum

Fairness ==
    /\ \A n \in Node : /\ WF_vars(Commit(n))
                       /\ WF_vars(Apply(n))
                       /\ WF_vars(Deposed(n) /\ StepDown(n))
    /\ \A o \in LoggedOp : WF_vars(RaftApply(o))
    /\ \A o \in WeakOp : WF_vars(EndWeak(o))

FairSpec == Spec /\ Fairness

\* Every call of Exec and Query returns, although apply waits for its future
\* without a timeout.
CallsReturn ==
    \A o \in Op : pc[o] # "idle" ~> pc[o] = "done"

\* WaitForIndex of a committed command ends on every node that stays alive.
ReplicasCatchUp ==
    \A n \in Node, i \in 1..(MaxTerm + Cardinality(LoggedOp)) :
        i <= Len(hist) /\ hist[i].op # Noop ~> lastIdx[n] >= i \/ ~Alive(n)

-----------------------------------------------------------------------------
(* Refinement of Store *)

\* The client's view of a call.
View(o) ==
    IF pc[o] = "idle" THEN "idle"
    ELSE IF pc[o] # "done" THEN "pending"
    ELSE IF err[o] = "nil" THEN "acked"
    ELSE IF err[o] \in Refusals THEN "refused"
    ELSE "lost"

\* The abstract history, the calls as their clients see them, and the
\* answers that have been given.
Effects == [i \in 1..Len(hist) |-> [op |-> hist[i].op, db |-> hist[i].db]]
Views == [o \in Op |-> View(o)]
Answers == [o \in Op |-> IF Acked(o) THEN val[o] ELSE Noop]

Promise == INSTANCE Store WITH hist <- Effects, st <- Views, val <- Answers

\* Clients see one database on which calls take effect atomically, at one
\* instant between call and answer, if no weak query outlasts the timeout.
ImplementsStore == Promise!StoreSpec
=============================================================================
