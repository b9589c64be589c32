-------------------------- MODULE ConsensusProofs ---------------------------
(***************************************************************************)
(* The preservation of the parts of the invariant that are about calls and *)
(* replicas, the safety theorems of Consensus, and its refinement of       *)
(* Store: if no weak query outlasts the busy timeout, every step of the    *)
(* cluster is one of the abstract database, or none that a client can see. *)
(***************************************************************************)
EXTENDS ConsensusLog

-----------------------------------------------------------------------------
(* Calls and replicas *)

\* The entry that a node's FSM is fed is committed.
LEMMA FedIndex ==
    ASSUME TypeOK, KnownInv, NEW n \in Node, Apply(n)
    PROVE  /\ applied[n] \in Nat
           /\ applied[n] + 1 \in 1..Len(hist)
           /\ hist' = hist
           /\ applied' = [applied EXCEPT ![n] = applied[n] + 1]
<1>1. /\ applied[n] < KnownCommit(n) /\ hist' = hist
      /\ applied' = [applied EXCEPT ![n] = applied[n] + 1]
  BY Zenon DEF Apply, ApplyExec, ApplyExecBusy, ApplyQuery, SkipNoop, Feed
<1>2. /\ applied[n] \in Nat /\ Len(hist) \in Nat
      /\ tcommit \in Seq(Nat) /\ Len(tcommit) = Len(tlog)
      /\ IsLeader(n) => epoch[n] \in 1..Len(tlog)
  BY DEF TypeOK, RaftTypes, NodeTypes, Term
<1>3. IsLeader(n) => tcommit[epoch[n]] \in Nat
  BY <1>2, ElementOfSeq, ZenonT(30)
<1>4. KnownCommit(n) \in Nat /\ KnownCommit(n) <= Len(hist)
  BY <1>2, <1>3 DEF KnownCommit, KnownInv
<1> QED
  BY <1>1, <1>2, <1>4, SMTT(30)

\* A call is acknowledged when its committed entry is applied.
LEMMA AckStep ==
    ASSUME TypeOK, KnownInv, AckInv, [Next]_vars
    PROVE  AckInv'
  BY CallFrame, FedIndex, HistGrows DEF AckInv, Op, CallMoves, NextEntry

\* Acknowledgements stand.
LEMMA SeenStep ==
    ASSUME TypeOK, SeenInv, [Next]_vars
    PROVE  SeenInv'
  BY CallFrame DEF CallMoves, Acked, SeenInv, TypeOK, CallTypes, Op

\* A call that has not begun is not in the history, whose next entry is one
\* of the newest leader's log.
LEMMA HistOps ==
    ASSUME TypeOK, LoggedInv, CommitInv, [Next]_vars, NEW o \in Op, pc[o] = "idle",
           NEW j \in 1..Len(hist'), hist'[j].op = o
    PROVE  FALSE
<1>1. ASSUME NEW i \in 1..Len(hist), hist[i].op = o PROVE FALSE
  <2>1. /\ Len(tlog) \in 1..Len(tlog) /\ i \in 1..Len(tlog[Len(tlog)])
        /\ tlog[Len(tlog)][i].op = o
    BY <1>1, Zenon DEF CommitInv
  <2> QED
    BY <2>1, Zenon DEF LoggedInv
<1>2. CASE hist' = hist
  BY <1>1, <1>2, Zenon
<1>3. ASSUME NEW n \in Node, Commit(n) PROVE FALSE
  <2>1. /\ Len(tlog) \in 1..Len(tlog) /\ Len(hist') = Len(hist) + 1
        /\ \A i \in 1..Len(hist) : hist'[i] = hist[i]
        /\ Len(hist) + 1 <= Len(tlog[Len(tlog)])
        /\ hist'[Len(hist) + 1].op = tlog[Len(tlog)][Len(hist) + 1].op
    BY <1>3, CommitHist, Zenon DEF Term
  <2>5. CASE j \in 1..Len(hist)
    BY <1>1, <2>1, <2>5, Zenon
  <2>6. CASE j = Len(hist) + 1
    BY <2>1, <2>6, SMTT(30) DEF LoggedInv
  <2>8. j \in 1..Len(hist) \/ j = Len(hist) + 1
    BY <2>1
  <2> QED
    BY <2>5, <2>6, <2>8, Zenon
<1>4. ASSUME NEW n \in Node, Elect(n) PROVE hist' = hist
  BY <1>4, Zenon DEF Elect
<1>5. ASSUME NEW p \in LoggedOp, RaftApply(p) PROVE hist' = hist
  BY <1>5, Zenon DEF RaftApply
<1> QED
  BY <1>2, <1>3, <1>4, <1>5, LogFrame, Zenon

\* What a call has seen is in the history before the call is.
LEMMA OrderStep ==
    ASSUME TypeOK, LoggedInv, CommitInv, AckInv, SeenInv, OrderInv, [Next]_vars
    PROVE  OrderInv'
<1> SUFFICES ASSUME NEW b \in LoggedOp, NEW j \in 1..Len(hist'), hist'[j].op = b,
                    NEW a \in seen'[b]
             PROVE  \E i \in 1..j - 1 : hist'[i].op = a
  BY Zenon DEF OrderInv
<1>1. b \in Op
  BY Zenon DEF Op
<1>2. seen'[b] = seen[b]
  BY <1>1, CallFrame, HistOps, ZenonT(30) DEF CallMoves
<1>3. /\ Len(hist) \in Nat /\ Len(hist') \in Nat /\ Len(hist) <= Len(hist')
      /\ \A i \in 1..Len(hist) : hist'[i] = hist[i]
  BY HistGrows, Zenon
<1>4. CASE j \in 1..Len(hist)
  BY <1>2, <1>3, <1>4 DEF OrderInv
<1>5. CASE j \notin 1..Len(hist)
  BY <1>1, <1>2, <1>3, <1>5 DEF SeenInv, TypeOK, CallTypes, AckInv
<1> QED
  BY <1>4, <1>5, Zenon

\* Only the FSM changes a node's database, and only on its own node.
LEMMA NodeFrame ==
    ASSUME [Next]_vars
    PROVE  \/ UNCHANGED nodeVars
           \/ \E n \in Node : Apply(n)
<1>1. ASSUME NEW n \in Node, Raft(n) PROVE UNCHANGED nodeVars
  BY <1>1, ZenonT(30) DEF Raft, Elect, Commit, StepDown, Crash, Close, nodeVars
<1>2. ASSUME NEW o \in Op, NEW n \in Node, CallLogged(o, n) \/ CallWeak(o, n)
      PROVE  UNCHANGED nodeVars
  BY <1>2, ZenonT(30) DEF CallLogged, CallWeak, Begin, nodeVars
<1>3. ASSUME NEW o \in Op, RaftApply(o) \/ EnqueueTimeout(o) \/ EndWeak(o)
      PROVE  UNCHANGED nodeVars
  BY <1>3, ZenonT(30) DEF RaftApply, EnqueueTimeout, EndWeak, nodeVars
<1>4. CASE UNCHANGED vars
  BY <1>4, Zenon DEF vars, nodeVars
<1> QED
  BY <1>1, <1>2, <1>3, <1>4, Zenon DEF Next, Op

\* A node whose engine does not fail stays on the history.
LEMMA ReplicaStep ==
    ASSUME TypeOK, KnownInv, ChainInv, ReplicaAgreement, [Next]_vars
    PROVE  ReplicaAgreement'
<1> SUFFICES ASSUME NEW m \in Node, m \notin failed' PROVE db'[m] = DBAt(applied[m])'
  BY Zenon DEF ReplicaAgreement
<1>1. /\ applied \in [Node -> Nat] /\ db \in [Node -> DB] /\ Len(hist) \in Nat
  BY DEF TypeOK, NodeTypes, RaftTypes
<1>3. applied[m] \in 0..Len(hist)
  BY <1>1, SMTT(30) DEF KnownInv
<1>4. ASSUME m \notin failed, db'[m] = db[m], applied'[m] = applied[m] PROVE db'[m] = DBAt(applied[m])'
  BY <1>4, <1>3, HistGrows, Zenon DEF ReplicaAgreement
<1>5. CASE UNCHANGED nodeVars
  BY <1>4, <1>5, Zenon DEF nodeVars
<1>6. ASSUME NEW n \in Node, Apply(n) PROVE db'[m] = DBAt(applied[m])'
  <2>1. /\ applied[n] \in Nat /\ applied[n] + 1 \in 1..Len(hist) /\ hist' = hist
        /\ applied' = [applied EXCEPT ![n] = applied[n] + 1]
    BY <1>6, FedIndex, Zenon
  <2>2. CASE m # n
    BY <1>1, <2>1, <2>2, <1>6, <1>4, Zenon DEF Apply, ApplyExec, ApplyExecBusy, ApplyQuery, SkipNoop
  <2>3. CASE m = n
    <3>1. m \notin failed /\ db'[m] = After(db[m], NextEntry(m))
      BY <1>1, <1>6, <2>3, OpAssumption, Zenon
         DEF Apply, ApplyExec, ApplyExecBusy, ApplyQuery, SkipNoop, After, Op, LoggedOp
    <3>2. db[m] = DBAt(applied[m])
      BY <3>1, Zenon DEF ReplicaAgreement
    <3>3. hist[applied[m] + 1].db = After(DBAt(applied[m] + 1 - 1), NextEntry(m))
      BY <2>1, <2>3 DEF ChainInv, NextEntry
    <3>4. applied[m] + 1 - 1 = applied[m] /\ applied[m] + 1 # 0
      BY <2>1, <2>3
    <3>5. db'[m] = hist[applied[m] + 1].db
      BY <3>1, <3>2, <3>3, <3>4, ZenonT(30)
    <3>6. applied'[m] = applied[m] + 1
      BY <1>1, <2>1, <2>3, Zenon
    <3> QED
      BY <2>1, <3>4, <3>5, <3>6, Zenon DEF DBAt
  <2> QED
    BY <2>2, <2>3, Zenon
<1> QED
  BY <1>5, <1>6, NodeFrame, Zenon

\* An answer is computed on the database at the entry's place in the log.
LEMMA AnswerStep ==
    ASSUME TypeOK, KnownInv, AckInv, ReplicaAgreement, AnswersUnlessBusy,
           OnceInv', CommitInv', [Next]_vars
    PROVE  AnswersUnlessBusy'
<1> SUFFICES ASSUME NEW o \in LoggedOp, Acked(o)', at'[o] \notin failed',
                    NEW i \in 1..Len(hist'), hist'[i].op = o
             PROVE  val'[o] = Answer(DBAt(i - 1)', o)
  BY Zenon DEF AnswersUnlessBusy, AnswerFromLog
<1>1. /\ Len(hist) \in Nat /\ Len(hist') \in Nat /\ Len(hist) <= Len(hist')
      /\ \A k \in 1..Len(hist) : hist'[k] = hist[k]
      /\ \A k \in 0..Len(hist) : DBAt(k)' = DBAt(k)
  BY HistGrows, Zenon
<1>2. o \in Op
  BY Zenon DEF Op
<1>3. ASSUME NEW k \in 1..Len(hist), hist[k].op = o PROVE i = k
  <2>1. k \in 1..Len(hist') /\ hist'[k].op = o
    BY <1>1, <1>3, SMTT(30)
  <2>2. \A x, y \in 1..Len(hist') : hist'[x].op = o /\ hist'[y].op = o => x = y
    BY <1>2, ZenonT(60) DEF OnceInv, CommitInv
  <2> QED
    BY <2>1, <2>2, Zenon
<1>4. ASSUME i \in 1..Len(hist) PROVE DBAt(i - 1)' = DBAt(i - 1)
  BY <1>1, <1>4
<1>5. failed \subseteq failed'
  BY NodeFrame, ZenonT(30) DEF nodeVars, Apply, ApplyExec, ApplyExecBusy, ApplyQuery, SkipNoop
<1>6. CASE Acked(o)
  BY <1>6, <1>3, <1>2, CallFrame, <1>5, <1>4 DEF AckInv, CallMoves, Acked, AnswersUnlessBusy, AnswerFromLog
<1>7. CASE ~Acked(o)
  <2>1. PICK n \in Node : Apply(n) /\ NextEntry(n) = o /\ o \in Waiting(n)
    BY <1>2, <1>7, CallFrame, ZenonT(30) DEF CallMoves
  <2>2. /\ applied[n] \in Nat /\ applied[n] + 1 \in 1..Len(hist)
    BY <2>1, FedIndex, Zenon
  <2>3. i = applied[n] + 1
    BY <1>3, <2>1, <2>2, ZenonT(30) DEF NextEntry
  <2>4. at'[o] = n
    BY <2>1, ZenonT(30) DEF Waiting, Apply, ApplyExec, ApplyExecBusy, ApplyQuery, SkipNoop, Feed
  <2>5. Deliver(n, o, Answer(db[n], o)) /\ n \notin failed
    <3>1. o # Noop
      BY <1>2, OpAssumption, ZenonT(30)
    <3> QED
      BY <1>5, <2>1, <2>4, <3>1, ZenonT(30) DEF Apply, ApplyExec, ApplyExecBusy, ApplyQuery, SkipNoop
  <2>6. val'[o] = Answer(db[n], o)
    BY <1>2, <2>1, <2>5, ZenonT(30) DEF Deliver, TypeOK, CallTypes
  <2>7. db[n] = DBAt(applied[n])
    BY <2>5, ZenonT(30) DEF ReplicaAgreement
  <2> QED
    BY <1>4, <2>2, <2>6, <2>7, <2>3
<1> QED
  BY <1>6, <1>7, ZenonT(30)

-----------------------------------------------------------------------------
(* The index that WaitForIndex polls, and weak queries *)

\* lastIdx moves with the entry that Apply executes, and only raft's own
\* entries lie above it.
LEMMA IndexStep ==
    ASSUME TypeOK, KnownInv, IndexTracksCommands, [Next]_vars
    PROVE  IndexTracksCommands'
<1> SUFFICES ASSUME NEW m \in Node
             PROVE  /\ lastIdx'[m] <= applied'[m]
                    /\ \A i \in lastIdx'[m] + 1..applied'[m] : hist'[i].op = Noop
                    /\ lastIdx'[m] > 0 => hist'[lastIdx'[m]].op # Noop
  BY ZenonT(30) DEF IndexTracksCommands
<1>1. /\ applied \in [Node -> Nat] /\ lastIdx \in [Node -> Nat]
      /\ applied[m] \in Nat /\ lastIdx[m] \in Nat
  BY Zenon DEF TypeOK, NodeTypes
<1>2. /\ Len(hist) \in Nat /\ Len(hist) <= Len(hist')
      /\ \A i \in 1..Len(hist) : hist'[i] = hist[i]
  BY HistGrows, Zenon
<1>3. applied[m] <= Len(hist)
  BY Zenon DEF KnownInv
<1>4. /\ lastIdx[m] <= applied[m]
      /\ \A i \in lastIdx[m] + 1..applied[m] : hist[i].op = Noop
      /\ lastIdx[m] > 0 => hist[lastIdx[m]].op # Noop
  BY Zenon DEF IndexTracksCommands
<1>5. /\ \A i \in lastIdx[m] + 1..applied[m] : hist'[i].op = Noop
      /\ lastIdx[m] > 0 => hist'[lastIdx[m]].op # Noop
  <2>1. /\ \A i \in lastIdx[m] + 1..applied[m] : i \in 1..Len(hist)
        /\ lastIdx[m] > 0 => lastIdx[m] \in 1..Len(hist)
    BY <1>1, <1>2, <1>3, <1>4
  <2> QED
    BY <1>2, <1>4, <2>1, Zenon
<1>6. CASE lastIdx'[m] = lastIdx[m] /\ applied'[m] = applied[m]
  BY <1>4, <1>5, <1>6, Zenon
<1>7. ASSUME NEW n \in Node, Apply(n), m # n
      PROVE  lastIdx'[m] = lastIdx[m] /\ applied'[m] = applied[m]
  BY <1>1, <1>7, Zenon DEF Apply, ApplyExec, ApplyExecBusy, ApplyQuery, SkipNoop, Feed
<1>8. ASSUME Apply(m)
      PROVE  /\ lastIdx'[m] <= applied'[m]
             /\ \A i \in lastIdx'[m] + 1..applied'[m] : hist'[i].op = Noop
             /\ lastIdx'[m] > 0 => hist'[lastIdx'[m]].op # Noop
  <2>1. /\ applied[m] + 1 \in 1..Len(hist) /\ hist' = hist
        /\ applied'[m] = applied[m] + 1
    BY <1>1, <1>8, FedIndex, Zenon
  <2>2. CASE SkipNoop(m)
    BY <2>2, <1>1, <1>4, <2>1 DEF SkipNoop, NextEntry
  <2>3. CASE ~SkipNoop(m)
    <3>1. lastIdx'[m] = applied[m] + 1 /\ hist[applied[m] + 1].op \in Op
      BY <1>1, <1>8, <2>3, Zenon DEF Apply, ApplyExec, ApplyExecBusy, ApplyQuery, NextEntry, Op, LoggedOp
    <3>2. hist[applied[m] + 1].op # Noop
      BY <3>1, OpAssumption, ZenonT(30)
    <3> QED
      BY <1>1, <2>1, <3>1, <3>2, SMTT(30)
  <2> QED
    BY <2>2, <2>3, Zenon
<1> QED
  BY <1>6, <1>7, <1>8, NodeFrame, ZenonT(30) DEF nodeVars

\* A weak query's answer is computed as it begins and not changed again.
LEMMA WeakReturn ==
    ASSUME NEW w \in Op, NEW S, NEW e, Return(S, e), UNCHANGED val,
           w \in S /\ e = "nil" => pc[w] = "reading",
           pc'[w] = "reading" \/ Acked(w)'
    PROVE  (pc[w] = "reading" \/ Acked(w)) /\ val'[w] = val[w]
  BY Zenon DEF Return, Acked

\* A weak query that reads or has been answered did so before, or begins.
LEMMA WeakFrame ==
    ASSUME TypeOK, [Next]_vars, NEW w \in WeakOp, pc'[w] = "reading" \/ Acked(w)'
    PROVE  \/ (pc[w] = "reading" \/ Acked(w)) /\ val'[w] = val[w]
           \/ \E n \in Node : CallWeak(w, n) /\ role[n] # "Shutdown"
<1> DEFINE Stays == (pc[w] = "reading" \/ Acked(w)) /\ val'[w] = val[w]
<1>1. w \in Op /\ w \notin LoggedOp
  BY OpAssumption, ZenonT(30) DEF Op, LoggedOp
<1>2. ASSUME UNCHANGED <<pc, err, val>> PROVE Stays
  BY <1>2, Zenon DEF Acked
<1>3. ASSUME NEW n \in Node, Raft(n) PROVE Stays
  <2>1. CASE Elect(n) \/ Commit(n)
    BY <1>2, <2>1, ZenonT(30) DEF Elect, Commit, callVars
  <2>2. CASE StepDown(n)
    BY <2>2, <1>1, WeakReturn, Zenon DEF StepDown, FutureError
  <2>3. CASE Crash(n)
    BY <1>1, <2>3, WeakReturn, ZenonT(30) DEF Crash
  <2>4. CASE Close(n)
    BY <2>4, <1>1, WeakReturn, Zenon DEF Close, FutureError
  <2> QED
    BY <1>3, <2>1, <2>2, <2>3, <2>4, Zenon DEF Raft
<1>4. ASSUME NEW p \in LoggedOp, NEW n \in Node, CallLogged(p, n) PROVE Stays
  <2>1. p # w /\ val' = val
    BY <1>1, <1>4, ZenonT(30) DEF CallLogged
  <2>2. CASE Return({p}, "ErrNotLeader")
    BY <1>1, <2>1, <2>2, WeakReturn, ZenonT(30)
  <2>3. CASE pc' = [pc EXCEPT ![p] = "checked"] /\ err' = err
    BY <2>1, <2>3 DEF Acked
  <2> QED
    BY <1>4, <2>2, <2>3, ZenonT(30) DEF CallLogged
<1>5. ASSUME NEW p \in LoggedOp, RaftApply(p) PROVE Stays
  <2>1. p # w /\ val' = val
    BY <1>1, <1>5, ZenonT(30) DEF RaftApply
  <2>2. ASSUME NEW e, Return({p}, e) PROVE Stays
    BY <1>1, <2>1, <2>2, WeakReturn, ZenonT(30)
  <2>3. CASE pc' = [pc EXCEPT ![p] = "waiting"] /\ err' = err
    BY <2>1, <2>3 DEF Acked
  <2> QED
    BY <1>5, <2>2, <2>3, ZenonT(30) DEF RaftApply
<1>6. ASSUME NEW p \in LoggedOp, EnqueueTimeout(p) PROVE Stays
  BY <1>1, <1>6, WeakReturn, Zenon DEF EnqueueTimeout
<1>7. ASSUME NEW p \in WeakOp, EndWeak(p) PROVE Stays
  BY <1>1, <1>7, WeakReturn, ZenonT(30) DEF EndWeak
<1>8. ASSUME NEW n \in Node, Apply(n) PROVE Stays
  <2>1. CASE UNCHANGED <<pc, err, val>>
    BY <1>2, <2>1, Zenon
  <2>2. ASSUME NEW v, Deliver(n, NextEntry(n), v), NextEntry(n) \in Waiting(n) PROVE Stays
    <3> DEFINE o == NextEntry(n)
    <3>1. /\ Return({o}, "nil") /\ val' = [val EXCEPT ![o] = v] /\ o # w
      BY <1>1, <2>2, ZenonT(30) DEF Deliver, Waiting
    <3> HIDE DEF o
    <3> QED
      BY <1>1, <3>1 DEF Acked, Return
  <2>3. ASSUME NEW v, Deliver(n, NextEntry(n), v) PROVE Stays
    BY <2>1, <2>2, <2>3, ZenonT(30) DEF Deliver
  <2> QED
    BY <1>8, <2>1, <2>3, ZenonT(30) DEF Apply, ApplyExec, ApplyExecBusy, ApplyQuery, SkipNoop
<1>9. ASSUME NEW p \in WeakOp, NEW n \in Node, CallWeak(p, n)
      PROVE  Stays \/ (CallWeak(w, n) /\ role[n] # "Shutdown")
  BY <1>9, <1>1, WeakReturn, Zenon DEF CallWeak, TypeOK, CallTypes, Acked
<1>10. ASSUME UNCHANGED vars PROVE Stays
  BY <1>2, <1>10, Zenon DEF vars, callVars
<1> DEFINE Begins == \E n \in Node : CallWeak(w, n) /\ role[n] # "Shutdown"
<1>11. ASSUME NEW p \in WeakOp, NEW n \in Node, CallWeak(p, n) PROVE Stays \/ Begins
  BY <1>9, <1>11, ZenonT(30)
<1> HIDE DEF Stays, Begins
<1>12. Stays \/ Begins
  BY <1>3, <1>4, <1>5, <1>6, <1>7, <1>8, <1>10, <1>11, ZenonT(30) DEF Next
<1> QED
  BY <1>12, Zenon DEF Stays, Begins

\* A node has applied every logged call that it acknowledged.
OwnInv ==
    \A o \in LoggedOp : Acked(o) => \E i \in 1..applied[at[o]] : hist[i].op = o

\* What ReadsOwnWrites says of an answer holds from when the query reads.
Current(w) ==
    \E k \in 0..Len(hist) :
        /\ val[w] = Answer(DBAt(k), w)
        /\ \A a \in seen[w] : at[a] = at[w] => \E i \in 1..k : hist[i].op = a

ReadInv ==
    \A w \in WeakOp : (pc[w] = "reading" \/ Acked(w)) /\ at[w] \notin failed => Current(w)

\* The FSM acknowledges the entry that it has just been fed.
LEMMA OwnStep ==
    ASSUME TypeOK, KnownInv, OwnInv, [Next]_vars
    PROVE  OwnInv'
<1> SUFFICES ASSUME NEW o \in LoggedOp, Acked(o)'
             PROVE  \E i \in 1..applied'[at'[o]] : hist'[i].op = o
  BY Zenon DEF OwnInv
<1>1. o \in Op /\ applied \in [Node -> Nat] /\ Len(hist) \in Nat
  BY DEF Op, TypeOK, NodeTypes, RaftTypes
<1>3. ASSUME NEW m \in Node PROVE applied[m] <= applied'[m] /\ applied[m] <= Len(hist)
  <2>1. applied[m] \in Nat /\ applied[m] <= Len(hist)
    BY <1>1, Zenon DEF KnownInv
  <2>2. ASSUME NEW n \in Node, Apply(n) PROVE applied[m] <= applied'[m]
    <3>1. applied[n] \in Nat /\ applied' = [applied EXCEPT ![n] = applied[n] + 1]
      BY <2>2, FedIndex, Zenon
    <3> QED
      BY <2>1, <3>1
  <2> QED
    BY <2>1, <2>2, NodeFrame DEF nodeVars
<1>4. CASE Acked(o)
  <2>1. at[o] \in Node /\ at'[o] = at[o]
    BY <1>1, <1>4, CallFrame, ZenonT(30) DEF CallMoves, Acked, TypeOK, CallTypes
  <2>2. PICK i \in 1..applied[at[o]] : hist[i].op = o
    BY <1>4, Zenon DEF OwnInv
  <2>3. applied[at[o]] \in Nat /\ applied'[at[o]] \in Int
    BY <1>1, <2>1, TypeStep, SMTT(30) DEF TypeOK, NodeTypes
  <2>4. i \in 1..applied'[at[o]] /\ i \in 1..Len(hist)
    BY <1>1, <1>3, <2>1, <2>3, SMTT(30)
  <2> QED
    BY <2>1, <2>2, <2>4, HistGrows, Zenon
<1>5. CASE ~Acked(o)
  <2>1. PICK n \in Node : Apply(n) /\ NextEntry(n) = o /\ o \in Waiting(n)
    BY <1>1, <1>5, CallFrame, ZenonT(30) DEF CallMoves
  <2>2. /\ applied[n] \in Nat /\ applied[n] + 1 \in 1..Len(hist) /\ hist' = hist
        /\ applied' = [applied EXCEPT ![n] = applied[n] + 1]
    BY <2>1, FedIndex, Zenon
  <2>3. at'[o] = n
    BY <2>1, ZenonT(30) DEF Waiting, Apply, ApplyExec, ApplyExecBusy, ApplyQuery, SkipNoop, Feed
  <2> QED
    BY <2>1, <2>2, <2>3, <1>1 DEF NextEntry
<1> QED
  BY <1>4, <1>5, Zenon

\* A weak query reads the database of its node when it begins, and the
\* history only grows under an answer.
LEMMA ReadStep ==
    ASSUME TypeOK, KnownInv, SeenInv, OwnInv, ReplicaAgreement, ReadInv, [Next]_vars
    PROVE  ReadInv'
<1> SUFFICES ASSUME NEW w \in WeakOp, pc'[w] = "reading" \/ Acked(w)', at'[w] \notin failed'
             PROVE  Current(w)'
  BY Zenon DEF ReadInv
<1>1. /\ Len(hist) \in Nat /\ Len(hist') \in Nat /\ Len(hist) <= Len(hist')
      /\ \A i \in 1..Len(hist) : hist'[i] = hist[i]
      /\ \A i \in 0..Len(hist) : DBAt(i)' = DBAt(i)
  BY HistGrows, Zenon
<1>2. w \in Op /\ LoggedOp \subseteq Op /\ seen[w] \subseteq LoggedOp
  BY Zenon DEF Op, TypeOK, CallTypes
<1>3. failed \subseteq failed'
  BY NodeFrame, ZenonT(30) DEF nodeVars, Apply, ApplyExec, ApplyExecBusy, ApplyQuery, SkipNoop
<1>4. ASSUME NEW a \in Op, Acked(a) PROVE at'[a] = at[a]
  BY <1>4, CallFrame, ZenonT(30) DEF CallMoves, Acked
<1>5. CASE (pc[w] = "reading" \/ Acked(w)) /\ val'[w] = val[w]
  <2>1. at'[w] = at[w] /\ seen'[w] = seen[w]
    BY <1>2, <1>5, CallFrame, ZenonT(30) DEF CallMoves, Acked
  <2>2. PICK k \in 0..Len(hist) :
            /\ val[w] = Answer(DBAt(k), w)
            /\ \A a \in seen[w] : at[a] = at[w] => \E i \in 1..k : hist[i].op = a
    BY <1>3, <1>5, <2>1, ZenonT(30) DEF ReadInv, Current
  <2>3. k \in 0..Len(hist') /\ val'[w] = Answer(DBAt(k)', w)
    BY <1>1, <1>5, <2>2, SMTT(30)
  <2>4. ASSUME NEW a \in seen'[w], at'[a] = at'[w] PROVE \E i \in 1..k : hist'[i].op = a
    BY <1>2, <1>4, <2>1, <2>4, <2>2, <1>1 DEF SeenInv
  <2> QED
    BY <2>3, <2>4, Zenon DEF Current
<1>6. ASSUME NEW n \in Node, CallWeak(w, n), role[n] # "Shutdown" PROVE Current(w)'
  <2>1. /\ hist' = hist /\ failed' = failed /\ applied' = applied
        /\ at' = [at EXCEPT ![w] = n] /\ seen' = [seen EXCEPT ![w] = {a \in LoggedOp : Acked(a)}]
        /\ val' = [val EXCEPT ![w] = Answer(db[n], w)]
    BY <1>6, Zenon DEF CallWeak, Begin, nodeVars
  <2>2. /\ at'[w] = n /\ val'[w] = Answer(db[n], w)
        /\ seen'[w] = {a \in LoggedOp : Acked(a)}
    BY <1>2, <2>1, ZenonT(30) DEF TypeOK, CallTypes
  <2>3. db[n] = DBAt(applied[n])
    BY <2>1, <2>2, ZenonT(30) DEF ReplicaAgreement
  <2>4. applied[n] \in 0..Len(hist)
    BY DEF KnownInv, TypeOK, NodeTypes
  <2>5. ASSUME NEW a \in seen'[w], at'[a] = n PROVE \E i \in 1..applied[n] : hist[i].op = a
    BY <2>2, <1>2, <1>4, <2>5, Zenon DEF OwnInv
  <2>6. DBAt(applied[n])' = DBAt(applied[n])
    BY <2>1, Zenon DEF DBAt
  <2> HIDE DEF OwnInv
  <2> QED
    BY <2>1, <2>2, <2>3, <2>4, <2>5, <2>6, SMTT(30) DEF Current, DBAt
<1> QED
  BY <1>5, <1>6, WeakFrame, ZenonT(30)

-----------------------------------------------------------------------------
(* Safety theorems *)

\* Before the first election nothing is logged and no call has begun.
LEMMA InvInit == Init => IInv
<1> SUFFICES ASSUME Init PROVE IInv
  BY Zenon
<1>2. Len(tlog) = 0 /\ Len(hist) = 0
  BY Zenon DEF Init
<1>4. KnownInv
  BY <1>2 DEF KnownInv, Init
<1>5. \A o \in Op : ~Acked(o) /\ seen[o] = {}
  BY Zenon DEF Init, Acked
<1>6. AckInv /\ SeenInv /\ OrderInv /\ AnswersUnlessBusy
  BY <1>5, Zenon DEF AckInv, SeenInv, OrderInv, AnswersUnlessBusy, Op
<1>7. ReplicaAgreement
  BY Zenon DEF Init, ReplicaAgreement, DBAt
<1> QED
  BY <1>4, <1>6, <1>7, TypeInit, <1>2 DEF IInv, LoggedInv, OnceInv, CommitInv, ChainInv

\* The invariant is inductive.
LEMMA InvStep == IInv /\ [Next]_vars => IInv'
<1> SUFFICES ASSUME IInv, [Next]_vars PROVE IInv'
  BY Zenon
<1>1. /\ TypeOK /\ LoggedInv /\ OnceInv /\ CommitInv /\ KnownInv /\ ChainInv
      /\ AckInv /\ SeenInv /\ OrderInv
      /\ ReplicaAgreement /\ AnswersUnlessBusy
  BY Zenon DEF IInv
<1>2. TypeOK' /\ LoggedInv' /\ OnceInv' /\ CommitInv' /\ KnownInv' /\ ChainInv'
  BY <1>1, TypeStep, LoggedStep, OnceStep, CommitStep, KnownStep, ChainStep, Zenon
<1> QED
  BY <1>2, AckStep, SeenStep, OrderStep, ReplicaStep, AnswerStep, Zenon DEF IInv

\* The inductive invariant holds of Exec, Query and Apply in every state.
THEOREM Invariance == Spec => []IInv
  BY InvInit, InvStep, PTL DEF Spec

\* An answered Exec or strong Query is committed and in the newest leader's
\* log, whatever elections, crashes and shutdowns happen.
THEOREM Durability == Spec => []AckedDurable
<1>1. IInv => AckedDurable
  BY Zenon DEF IInv, AckInv, CommitInv, AckedDurable, Term
<1> QED
  BY <1>1, Invariance, PTL

\* A call answered with ErrNotLeader or an enqueue timeout is in no log, so
\* the redirected request cannot be the second execution of it.
THEOREM RefusalSafety == Spec => []RefusedNeverLogged
<1>1. IInv => RefusedNeverLogged
  BY Zenon DEF IInv, LoggedInv, RefusedNeverLogged, Term
<1> QED
  BY <1>1, Invariance, PTL

\* Answered calls are in the log after all calls answered before they began.
THEOREM Linearization == Spec => []RealTimeOrder
<1>1. IInv => RealTimeOrder
  BY DEF IInv, AckInv, OrderInv, RealTimeOrder
<1> QED
  BY <1>1, Invariance, PTL

\* Apply keeps the databases of nodes whose engine has not failed equal at
\* equal applied indexes.
THEOREM Agreement == Spec => []ReplicaAgreement
<1>1. IInv => ReplicaAgreement
  BY Zenon DEF IInv
<1> QED
  BY <1>1, Invariance, PTL

\* Exec and strong Query answer with the state at their place in the log on
\* nodes whose engine has not failed.
THEOREM AnswersFromLog == Spec => []AnswersUnlessBusy
<1>1. IInv => AnswersUnlessBusy
  BY Zenon DEF IInv
<1> QED
  BY <1>1, Invariance, PTL

\* lastIdx, which WaitForIndex polls, is the index of the last command that
\* the node's FSM executed.
THEOREM IndexIsExact == Spec => []IndexTracksCommands
<1>1. Init => IndexTracksCommands
  BY DEF Init, IndexTracksCommands
<1>2. IInv /\ IndexTracksCommands /\ [Next]_vars => IndexTracksCommands'
  BY IndexStep, Zenon DEF IInv
<1> QED
  BY <1>1, <1>2, Invariance, PTL DEF Spec

\* A weak Query answers with a state the database has been in, not older
\* than what its own node acknowledged before it began.
THEOREM WeakReadsAreCurrent == Spec => []ReadsOwnWrites
<1>1. Init => OwnInv /\ ReadInv
  BY Zenon DEF Init, OwnInv, ReadInv, Acked, Op
<1>2. IInv /\ (OwnInv /\ ReadInv) /\ [Next]_vars => (OwnInv /\ ReadInv)'
  BY OwnStep, ReadStep, Zenon DEF IInv
<1>3. ReadInv => ReadsOwnWrites
  BY Zenon DEF ReadInv, ReadsOwnWrites, Current
<1> QED
  BY <1>1, <1>2, <1>3, Invariance, PTL DEF Spec

-----------------------------------------------------------------------------
(* The refinement *)

\* A call that has not begun is on no node, so a crash does not end it.
IdleInv == \A o \in Op : pc[o] = "idle" => at[o] = NoNode

\* The invariant of a cluster in which no engine fails on its own.
CalmInv == IInv /\ OwnInv /\ ReadInv /\ IdleInv /\ failed = {}

-----------------------------------------------------------------------------
(* The abstract state *)

\* Store has the same calls, with the same effect.
LEMMA SameCalls ==
    /\ Promise!LoggedOp = LoggedOp /\ Promise!Op = Op
    /\ \A d, e : Promise!After(d, e) = After(d, e)
  BY Zenon DEF Promise!LoggedOp, Promise!Op, Promise!After, LoggedOp, Op, After

\* What Effects keeps of a log.
Projected(h) == [i \in 1..Len(h) |-> [op |-> h[i].op, db |-> h[i].db]]
Effect == [op : Command, db : DB]

\* It is a sequence of the same length with the same calls and databases.
LEMMA ProjectedSeq ==
    ASSUME NEW h \in Seq([term : Nat, op : Command, db : DB])
    PROVE  /\ Projected(h) \in Seq(Effect) /\ Len(Projected(h)) = Len(h)
           /\ \A i \in 1..Len(h) : Projected(h)[i] = [op |-> h[i].op, db |-> h[i].db]
<1> DEFINE Rec == [term : Nat, op : Command, db : DB]
<1>2. ASSUME NEW i \in 1..Len(h) PROVE [op |-> h[i].op, db |-> h[i].db] \in Effect
  <2>1. h \in Seq(Rec)
    BY Zenon
  <2> HIDE DEF Rec
  <2>2. h[i] \in Rec
    BY <2>1
  <2> QED
    BY <2>2, Zenon DEF Rec, Effect
<1>4. Projected(h) \in Seq(Effect)
  <2> DEFINE p == Projected(h)
             n == Len(h)
  <2>1. n \in Nat /\ p \in [1..n -> Effect]
    BY <1>2 DEF Projected
  <2> HIDE DEF p, n
  <2> QED
    BY <2>1 DEF p
<1> QED
  BY <1>4 DEF Projected

\* The abstract history has the entries of the committed log.
LEMMA EffectsOf ==
    ASSUME TypeOK
    PROVE  /\ Effects \in Seq(Effect) /\ Len(Effects) = Len(hist)
           /\ \A i \in 1..Len(hist) : Effects[i].op = hist[i].op /\ Effects[i].db = hist[i].db
<1>1. Effects = Projected(hist)
  BY Zenon DEF Effects, Projected
<1>2. hist \in Seq([term : Nat, op : Command, db : DB])
  BY Zenon DEF TypeOK, RaftTypes
<1>3. /\ Effects \in Seq(Effect) /\ Len(Effects) = Len(hist)
      /\ \A i \in 1..Len(hist) : Effects[i] = [op |-> hist[i].op, db |-> hist[i].db]
  BY <1>1, <1>2, ProjectedSeq, Zenon
<1>4. ASSUME NEW i \in 1..Len(hist) PROVE Effects[i].op = hist[i].op /\ Effects[i].db = hist[i].db
  <2>1. Effects[i] = [op |-> hist[i].op, db |-> hist[i].db]
    BY <1>3, Zenon
  <2> QED
    BY <2>1
<1> QED
  BY <1>3, <1>4, Zenon

\* The abstract databases are those of the committed log.
LEMMA SameDBs ==
    ASSUME TypeOK, NEW i \in 0..Len(hist)
    PROVE  Promise!DBAt(Effects, i) = DBAt(i)
  BY EffectsOf DEF Promise!DBAt, DBAt

\* A call has taken effect if it is committed.
LEMMA SameExecuted ==
    ASSUME TypeOK, NEW o
    PROVE  Promise!Executed(o) <=> \E i \in 1..Len(hist) : hist[i].op = o
  BY EffectsOf, Zenon DEF Promise!Executed

\* A call that is not in raft's hands, or was refused, has had no effect.
LEMMA NotExecuted ==
    ASSUME IInv, NEW o \in Op, pc[o] # "waiting", pc[o] = "done" => err[o] \in Refusals
    PROVE  ~Promise!Executed(o)
  BY SameExecuted, SMTT(30) DEF IInv, LoggedInv, CommitInv

\* The abstract state when the calls in M move and nothing else does.
Moves(M) ==
    /\ hist' = hist
    /\ \A o \in Op \ M : pc'[o] = pc[o] /\ err'[o] = err[o] /\ (Acked(o) => val'[o] = val[o])

\* What clients see of such a step.
LEMMA ViewsMove ==
    ASSUME NEW M, Moves(M)
    PROVE  /\ Effects' = Effects
           /\ Views' = [o \in Op |-> IF o \in M THEN View(o)' ELSE Views[o]]
           /\ Answers' = [o \in Op |-> IF o \in M THEN (IF Acked(o)' THEN val'[o] ELSE Noop) ELSE Answers[o]]
  BY Zenon DEF Moves, View, Acked, Effects, Views, Answers

\* The call of which nothing is seen, and the one that is.
LEMMA OneMoves ==
    ASSUME NEW o \in Op, Moves({o}), ~Acked(o)
    PROVE  /\ Effects' = Effects
           /\ Views' = [Views EXCEPT ![o] = View(o)']
           /\ Answers' = [Answers EXCEPT ![o] = IF Acked(o)' THEN val'[o] ELSE Noop]
           /\ ~Acked(o)' => Answers' = Answers
<1>1. /\ Effects' = Effects
      /\ Views' = [p \in Op |-> IF p \in {o} THEN View(p)' ELSE Views[p]]
      /\ Answers' = [p \in Op |-> IF p \in {o} THEN (IF Acked(p)' THEN val'[p] ELSE Noop) ELSE Answers[p]]
  BY ViewsMove, Zenon
<1>2. Views = [p \in Op |-> Views[p]] /\ Answers = [p \in Op |-> Answers[p]]
  BY Zenon DEF Views, Answers
<1>3. Answers[o] = Noop
  BY Zenon DEF Answers
<1>4. Views' = [Views EXCEPT ![o] = View(o)']
  BY <1>1, <1>2, Zenon
<1>5. Answers' = [Answers EXCEPT ![o] = IF Acked(o)' THEN val'[o] ELSE Noop]
  BY <1>1, <1>2, Zenon
<1>6. ASSUME ~Acked(o)' PROVE Answers' = Answers
  BY <1>3, <1>6, <1>1, <1>2, Zenon
<1> QED
  BY <1>1, <1>4, <1>5, <1>6, Zenon

\* A step after which clients see what they saw.
LEMMA Unseen ==
    ASSUME NEW M, Moves(M), \A o \in M : o \in Op => View(o)' = View(o) /\ ~Acked(o) /\ ~Acked(o)'
    PROVE  UNCHANGED <<Effects, Views, Answers>>
  BY ViewsMove DEF Views, Answers

-----------------------------------------------------------------------------
(* Steps of the abstract database *)

\* A call that begins and is not answered at once is invoked.
LEMMA Invokes ==
    ASSUME NEW o \in Op, Moves({o}), pc[o] = "idle", View(o)' = "pending"
    PROVE  Promise!StoreNext
  BY OneMoves, SameCalls, Zenon DEF Acked, View, Views, Promise!Invoke, Promise!StoreNext

\* A call answered with a refusal has had no effect.
LEMMA Refuses ==
    ASSUME IInv, NEW o \in Op, Moves({o}), pc[o] \in {"idle", "checked"}, View(o)' = "refused"
    PROVE  Promise!StoreNext
  BY OneMoves, NotExecuted, SameCalls, Zenon DEF Acked, View, Views, Promise!Refuse, Promise!StoreNext

\* The calls that a node's failure ends are lost.
LEMMA Loses ==
    ASSUME NEW M \in SUBSET Op, Moves(M),
           \A o \in M : View(o) = "pending" /\ View(o)' = "lost"
    PROVE  Promise!StoreNext
  BY ViewsMove, SameCalls DEF Acked, View, Answers, Views, Promise!Lose, Promise!StoreNext

\* An answer is the one of the database at the call's place in the history.
LEMMA Acknowledges ==
    ASSUME TypeOK, NEW o \in LoggedOp, Moves({o}), pc[o] = "waiting", Acked(o)',
           NEW i \in 1..Len(hist), hist[i].op = o, val'[o] = Answer(DBAt(i - 1), o)
    PROVE  Promise!StoreNext
<1>1. o \in Op /\ ~Acked(o) /\ View(o)' = "acked" /\ Views[o] = "pending"
  BY Zenon DEF Op, Acked, View, Views
<1>2. Effects' = Effects /\ Views' = [Views EXCEPT ![o] = "acked"] /\ Answers' = [Answers EXCEPT ![o] = val'[o]]
  BY <1>1, OneMoves, Zenon
<1>3. i \in 1..Len(Effects) /\ Effects[i].op = o
  BY EffectsOf, Zenon
<1>4. Promise!DBAt(Effects, i - 1) = DBAt(i - 1)
  BY SameDBs
<1>5. Answers' = [Answers EXCEPT ![o] = Answer(Promise!DBAt(Effects, i - 1), o)]
  BY <1>2, <1>4, Zenon
<1>6. Promise!Acknowledge(o)
  BY <1>1, <1>2, <1>3, <1>5, Zenon DEF Promise!Acknowledge
<1> QED
  BY <1>6, SameCalls, Zenon DEF Promise!StoreNext

\* A weak query is answered from a state the database has been in.
LEMMA Reads ==
    ASSUME TypeOK, NEW o \in WeakOp, Moves({o}), pc[o] = "reading", Acked(o)',
           val'[o] = val[o], Current(o)
    PROVE  Promise!StoreNext
<1>1. o \in Op /\ ~Acked(o) /\ View(o)' = "acked" /\ Views[o] = "pending"
  BY Zenon DEF Op, Acked, View, Views
<1>2. Effects' = Effects /\ Views' = [Views EXCEPT ![o] = "acked"] /\ Answers' = [Answers EXCEPT ![o] = val'[o]]
  BY <1>1, OneMoves, Zenon
<1>3. PICK k \in 0..Len(hist) : val[o] = Answer(DBAt(k), o)
  BY Zenon DEF Current
<1>4. k \in 0..Len(Effects) /\ Promise!DBAt(Effects, k) = DBAt(k)
  BY EffectsOf, SameDBs, Zenon
<1>5. Answers' = [Answers EXCEPT ![o] = Answer(Promise!DBAt(Effects, k), o)]
  BY <1>2, <1>3, <1>4, Zenon
<1>6. Promise!ReadWeakly(o)
  BY <1>1, <1>2, <1>4, <1>5, Zenon DEF Promise!ReadWeakly
<1> QED
  BY <1>6, SameCalls, Zenon DEF Promise!StoreNext

\* A commit is the instant at which a call takes effect.
LEMMA CommitRefines ==
    ASSUME IInv, NEW n \in Node, Commit(n)
    PROVE  Promise!StoreNext
<1> DEFINE Rec == [term : Nat, op : Command, db : DB]
           l == Len(hist) + 1
           e == hist'[l].op
<1>1. TypeOK /\ LoggedInv /\ OnceInv /\ CommitInv /\ AckInv
  BY Zenon DEF IInv
<1>2. /\ Term \in 1..Len(tlog) /\ hist \in Seq(Rec) /\ hist' \in Seq(Rec) /\ Len(hist) \in Nat
      /\ Len(hist') = l /\ \A i \in 1..Len(hist) : hist'[i] = hist[i]
      /\ l <= Len(tlog[Term]) /\ e = tlog[Term][l].op
      /\ hist'[l].db = After(DBAt(Len(hist)), e)
  <2>1. hist \in Seq(Rec) /\ Len(hist) \in Nat
    BY <1>1 DEF TypeOK, RaftTypes
  <2> QED
    BY <1>1, <2>1, CommitHist, Zenon
<1>3. Views' = Views /\ Answers' = Answers
  BY Zenon DEF Commit, callVars, Views, View, Answers, Acked
<1>4. e \in Command
  <2> HIDE DEF Rec
  <2>2. hist'[l] \in Rec
    BY <1>2
  <2> QED
    BY <2>2, Zenon DEF Rec
<1>5. Effects' = Append(Effects, Promise!Entry(Effects, e))
  <2> DEFINE x == [op |-> e, db |-> hist'[l].db]
  <2>1. /\ Effects = Projected(hist) /\ Effects' = Projected(hist')
    BY Zenon DEF Effects, Projected
  <2> HIDE DEF Rec, l
  <2>2. /\ Effects \in Seq(Effect) /\ Len(Effects) = Len(hist)
        /\ \A i \in 1..Len(hist) : Effects[i] = [op |-> hist[i].op, db |-> hist[i].db]
    BY <1>2, <2>1, ProjectedSeq, Zenon DEF Rec
  <2>3. /\ Effects' \in Seq(Effect) /\ Len(Effects') = Len(hist')
        /\ \A i \in 1..Len(hist') : Effects'[i] = [op |-> hist'[i].op, db |-> hist'[i].db]
    BY <1>2, <2>1, ProjectedSeq, ZenonT(40) DEF Rec
  <2>4. l \in 1..Len(hist') /\ Effects'[l] = x /\ x \in Effect
    <3>1. l \in 1..Len(hist')
      BY <1>2 DEF l
    <3>2. Effects'[l] = x
      BY <2>3, <3>1, Zenon
    <3>3. Effects'[l] \in Effect
      BY <2>3, <3>1
    <3> QED
      BY <3>1, <3>2, <3>3, Zenon
  <2> HIDE DEF x
  <2>5. /\ Append(Effects, x) \in Seq(Effect) /\ Len(Append(Effects, x)) = Len(Effects) + 1
        /\ \A i \in 1..Len(Effects) : Append(Effects, x)[i] = Effects[i]
        /\ Append(Effects, x)[Len(Effects) + 1] = x
    BY <2>2, <2>4, AppendFacts, SMTT(30)
  <2>6. Len(Effects') = Len(Append(Effects, x))
    BY <1>2, <2>2, <2>3, <2>5, Zenon DEF l
  <2>7. ASSUME NEW i \in 1..Len(Effects') PROVE Effects'[i] = Append(Effects, x)[i]
    <3>1. CASE i = l
      BY <2>2, <2>4, <3>1 DEF l
    <3>2. CASE i # l
      <4>1. i \in 1..Len(hist) /\ i \in 1..Len(hist')
        BY <1>2, <2>3, <3>2, SMTT(30) DEF l
      <4>2. Effects'[i] = Effects[i]
        BY <1>2, <2>2, <2>3, <4>1, ZenonT(40)
      <4> QED
        BY <2>2, <4>1, <4>2
    <3> QED
      BY <3>1, <3>2, ZenonT(40)
  <2>9. x = Promise!Entry(Effects, e)
    <3>1. Promise!DBAt(Effects, Len(Effects)) = DBAt(Len(hist))
      BY <1>1, <2>2, SameDBs
    <3>2. hist'[l].db = Promise!After(Promise!DBAt(Effects, Len(Effects)), e)
      BY <1>2, <3>1, SameCalls, Zenon
    <3> QED
      BY <3>2, Zenon DEF x, Promise!Entry
  <2> QED
    BY <2>9, <2>3, <2>6, <2>7
<1>6. CASE e = Noop
  BY <1>3, <1>5, <1>6, Zenon DEF Promise!Skip, Promise!StoreNext
<1>7. CASE e # Noop
  <2>1. e \in LoggedOp /\ e \in Op
    BY <1>4, <1>7, Zenon DEF Command, Op
  <2>2. ASSUME NEW i \in 1..Len(hist), hist[i].op = e PROVE FALSE
    <3>1. Term = Len(tlog) /\ i \in 1..Len(tlog[Term]) /\ tlog[Term][i].op = e
      BY <1>1, <2>2, Zenon DEF CommitInv, Term
    <3>2. l \in 1..Len(tlog[Term]) /\ i # l
      BY <1>2
    <3> HIDE DEF e, l
    <3> QED
      BY <1>1, <1>2, <2>1, <3>1, <3>2, Zenon DEF OnceInv
  <2>3. ~Promise!Executed(e)
    BY <1>1, <2>2, SameExecuted, Zenon
  <2>4. l \in 1..Len(tlog[Term])
    BY <1>2
  <2> HIDE DEF e, l
  <2>5. pc[e] = "waiting" \/ (pc[e] = "done" /\ err[e] \notin Refusals)
    BY <1>1, <1>2, <2>1, <2>4, Zenon DEF LoggedInv
  <2>7. Views[e] \in {"pending", "lost"}
    BY <2>1, <2>5, <1>1, <2>2, Zenon DEF Views, View, Acked, AckInv
  <2>8. Promise!TakeEffect(e)
    BY <1>3, <1>5, <2>3, <2>7, Zenon DEF Promise!TakeEffect
  <2> QED
    BY <2>1, <2>8, SameCalls, Zenon DEF Promise!StoreNext
<1> QED
  BY <1>6, <1>7, Zenon

-----------------------------------------------------------------------------
(* Every step of the cluster *)

Stutters == UNCHANGED <<Effects, Views, Answers>>

\* A Return is seen at the calls that return.
LEMMA ReturnSeen ==
    ASSUME NEW M, NEW e, Return(M, e), UNCHANGED <<val, hist>>
    PROVE  /\ Moves(M)
           /\ \A o \in Op : o \in M => pc'[o] = "done" /\ err'[o] = e
  BY Zenon DEF Return, Moves

\* Elections are not seen, and the calls of a failed node are lost.
LEMMA RaftRefines ==
    ASSUME IInv, IdleInv, NEW n \in Node, Raft(n)
    PROVE  Promise!StoreNext \/ Stutters
<1>1. CASE Elect(n)
  <2>1. Moves({})
    BY <1>1, Zenon DEF Elect, callVars, Moves
  <2> QED
    BY <2>1, Unseen, Zenon DEF Stutters
<1>2. CASE Commit(n)
  BY <1>2, CommitRefines, Zenon
<1>3. ASSUME NEW M \in SUBSET Op, NEW e, Return(M, e), UNCHANGED <<val, hist>>,
             e \notin Refusals \cup {"nil"}, \A o \in M : pc[o] \notin {"idle", "done"}
      PROVE  Promise!StoreNext
  BY <1>3, ReturnSeen, Loses DEF View
<1>4. Waiting(n) \subseteq Op /\ \A o \in Waiting(n) : pc[o] \notin {"idle", "done"}
  BY Zenon DEF Waiting, Op
<1>5. CASE StepDown(n)
  <2>1. PICK M \in SUBSET Waiting(n) : Return(M, "ErrLeadershipLost") /\ UNCHANGED <<val, hist>>
    <3>1. PICK k \in applied[n]..tcommit[epoch[n]] :
              Return({o \in Waiting(n) : \A i \in 1..k : tlog[epoch[n]][i].op # o},
                     FutureError("ErrLeadershipLost"))
      BY <1>5, Zenon DEF StepDown
    <3>2. FutureError("ErrLeadershipLost") = "ErrLeadershipLost"
      BY Zenon DEF FutureError
    <3> DEFINE W == {o \in Waiting(n) : \A i \in 1..k : tlog[epoch[n]][i].op # o}
    <3>3. W \in SUBSET Waiting(n) /\ Return(W, "ErrLeadershipLost")
      BY <3>1, <3>2, Zenon
    <3> HIDE DEF W
    <3>4. UNCHANGED <<val, hist>>
      BY <1>5, Zenon DEF StepDown
    <3> QED
      BY <3>3, <3>4, Zenon
  <2> QED
    BY <1>3, <1>4, <2>1, Zenon DEF Refusals
<1>6. CASE Crash(n)
  <2> DEFINE M == {o \in Op : at[o] = n /\ pc[o] # "done"}
  <2>1. Return(M, "crash") /\ UNCHANGED <<val, hist>> /\ M \in SUBSET Op
    BY <1>6, Zenon DEF Crash
  <2>2. \A o \in M : pc[o] \notin {"idle", "done"}
    BY NodeAssumption, Zenon DEF IdleInv
  <2> HIDE DEF M
  <2> QED
    BY <1>3, <2>1, <2>2, Zenon DEF Refusals
<1>7. CASE Close(n)
  BY <1>7, <1>3, <1>4, Zenon DEF Close, FutureError, Refusals
<1> QED
  BY <1>1, <1>2, <1>5, <1>6, <1>7, Zenon DEF Raft

\* A call that returns an error was refused, or lost.
LEMMA ErrorRefines ==
    ASSUME IInv, NEW o \in Op, NEW e, Return({o}, e), UNCHANGED <<val, hist>>,
           \/ pc[o] \in {"idle", "checked"} /\ e \in Refusals
           \/ pc[o] = "checked" /\ e = "ErrRaftShutdown"
    PROVE  Promise!StoreNext
  BY ReturnSeen, Refuses, Loses DEF View, Refusals

\* One call goes from one stage to another.
LEMMA StageMoves ==
    ASSUME TypeOK, NEW o \in Op, NEW stage, pc' = [pc EXCEPT ![o] = stage], UNCHANGED <<err, hist>>,
           \A p \in Op \ {o} : val'[p] = val[p]
    PROVE  Moves({o}) /\ pc'[o] = stage
  BY Zenon DEF TypeOK, CallTypes, Moves

\* The steps of a call up to its answer.
LEMMA CallRefines ==
    ASSUME IInv, ReadInv, failed = {},
           NEW o \in Op,
           \/ o \in LoggedOp /\ (\E n \in Node : CallLogged(o, n))
           \/ o \in LoggedOp /\ (RaftApply(o) \/ EnqueueTimeout(o))
           \/ o \in WeakOp /\ ((\E n \in Node : CallWeak(o, n)) \/ EndWeak(o))
    PROVE  Promise!StoreNext \/ Stutters
<1>1. TypeOK
  BY Zenon DEF IInv
<1>2. ASSUME NEW n \in Node, CallLogged(o, n) PROVE Promise!StoreNext
  <2>1. pc[o] = "idle" /\ UNCHANGED <<val, hist>>
    BY <1>2, Zenon DEF CallLogged, Begin
  <2>2. CASE IsLeader(n)
    <3>1. Moves({o}) /\ pc'[o] = "checked"
      BY <1>1, <1>2, <2>1, <2>2, StageMoves, ZenonT(30) DEF CallLogged
    <3> QED
      BY <2>1, <3>1, Invokes, Zenon DEF View
  <2>3. CASE ~IsLeader(n)
    BY <1>2, <2>3, <2>1, ErrorRefines, Zenon DEF CallLogged, Refusals
  <2> QED
    BY <2>2, <2>3, Zenon
<1>3. ASSUME RaftApply(o) PROVE Promise!StoreNext \/ Stutters
  <2>1. pc[o] = "checked" /\ UNCHANGED <<val, hist>>
    BY <1>3, Zenon DEF RaftApply
  <2>2. CASE pc' = [pc EXCEPT ![o] = "waiting"] /\ err' = err
    <3>1. Moves({o}) /\ pc'[o] = "waiting"
      BY <1>1, <2>1, <2>2, StageMoves, ZenonT(30)
    <3>2. View(o)' = View(o) /\ ~Acked(o) /\ ~Acked(o)'
      BY <2>1, <3>1, Zenon DEF View, Acked
    <3> QED
      BY <3>1, <3>2, Unseen, Zenon DEF Stutters
  <2>3. CASE Return({o}, "ErrNotLeader") \/ Return({o}, "ErrRaftShutdown")
    BY <2>1, <2>3, ErrorRefines, Zenon DEF Refusals
  <2>4. FutureError("raft.ErrNotLeader") = "ErrNotLeader" /\ FutureError("ErrRaftShutdown") = "ErrRaftShutdown"
    BY Zenon DEF FutureError
  <2> QED
    BY <1>3, <2>2, <2>3, <2>4, ZenonT(30) DEF RaftApply
<1>4. ASSUME EnqueueTimeout(o) PROVE Promise!StoreNext
  BY <1>4, ErrorRefines, Zenon DEF EnqueueTimeout, FutureError, Refusals
<1>5. ASSUME NEW n \in Node, CallWeak(o, n) PROVE Promise!StoreNext
  <2>1. pc[o] = "idle" /\ hist' = hist
    BY <1>5, Zenon DEF CallWeak, Begin
  <2>2. CASE role[n] = "Shutdown"
    BY <1>5, <2>2, <2>1, ErrorRefines, Zenon DEF CallWeak, Refusals
  <2>3. CASE role[n] # "Shutdown"
    <3>1. /\ pc' = [pc EXCEPT ![o] = "reading"] /\ err' = err
          /\ val' = [val EXCEPT ![o] = Answer(db[n], o)]
      BY <1>5, <2>3, Zenon DEF CallWeak
    <3>2. \A p \in Op \ {o} : val'[p] = val[p]
      BY <1>1, <3>1, Zenon DEF TypeOK, CallTypes
    <3>3. Moves({o}) /\ pc'[o] = "reading"
      BY <1>1, <2>1, <3>1, <3>2, StageMoves, ZenonT(30)
    <3> QED
      BY <2>1, <3>3, Invokes, Zenon DEF View
  <2> QED
    BY <2>2, <2>3, Zenon
<1>6. ASSUME o \in WeakOp, EndWeak(o) PROVE Promise!StoreNext
  BY <1>6, ReturnSeen, <1>1, Reads DEF EndWeak, Acked, ReadInv
<1> QED
  BY <1>2, <1>3, <1>4, <1>5, <1>6, ZenonT(30)

\* The FSM's answer acknowledges a call; what it does elsewhere is not seen.
LEMMA ApplyRefines ==
    ASSUME IInv, failed = {}, BusyTimeouts = FALSE, NEW n \in Node, Apply(n)
    PROVE  Promise!StoreNext \/ Stutters
<1>1. TypeOK /\ KnownInv /\ ReplicaAgreement
  BY Zenon DEF IInv
<1>2. /\ applied[n] \in Nat /\ applied[n] + 1 \in 1..Len(hist) /\ hist' = hist
  BY <1>1, FedIndex, Zenon
<1>3. ASSUME UNCHANGED <<pc, err, val>> PROVE Stutters
  <2>1. Moves({})
    BY <1>2, <1>3, Zenon DEF Moves
  <2> QED
    BY <2>1, Unseen, Zenon DEF Stutters
<1>4. ASSUME Deliver(n, NextEntry(n), Answer(db[n], NextEntry(n))), NextEntry(n) \in Waiting(n)
      PROVE  Promise!StoreNext
  <2> PICK o \in LoggedOp : o = NextEntry(n)
    BY <1>4, Zenon DEF Waiting
  <2>1. /\ pc[o] = "waiting" /\ Return({o}, "nil")
        /\ val' = [val EXCEPT ![o] = Answer(db[n], o)]
    BY <1>4, Zenon DEF Deliver, Waiting
  <2>2. hist[applied[n] + 1].op = o
    BY Zenon DEF NextEntry
  <2>3. o \in Op
    BY Zenon DEF Op
  <2>4. val'[o] = Answer(db[n], o) /\ \A p \in Op \ {o} : val'[p] = val[p]
    BY <1>1, <2>1, <2>3, Zenon DEF TypeOK, CallTypes
  <2>5. Moves({o}) /\ Acked(o)'
    BY <2>1, <1>2, <2>3 DEF Return, Moves, Acked
  <2>6. db[n] = DBAt(applied[n])
    BY <1>1, Zenon DEF ReplicaAgreement
  <2>7. PICK i \in 1..Len(hist) : i = applied[n] + 1
    BY <1>2, Zenon
  <2>8. i - 1 = applied[n]
    BY <1>2, <2>7
  <2>9. hist[i].op = o /\ val'[o] = Answer(DBAt(i - 1), o)
    BY <2>2, <2>4, <2>6, <2>7, <2>8, Zenon
  <2> QED
    BY <1>1, <2>1, <2>5, <2>9, Acknowledges, Zenon
<1>5. SkipNoop(n) \/ Deliver(n, NextEntry(n), Answer(db[n], NextEntry(n)))
  BY Zenon DEF Apply, ApplyExec, ApplyExecBusy, ApplyQuery
<1>6. CASE SkipNoop(n)
  BY <1>3, <1>6, Zenon DEF SkipNoop
<1>7. CASE Deliver(n, NextEntry(n), Answer(db[n], NextEntry(n)))
  BY <1>3, <1>4, <1>7, Zenon DEF Deliver
<1> QED
  BY <1>5, <1>6, <1>7, Zenon

\* A call is on a node from when it begins.
LEMMA IdleStep ==
    ASSUME TypeOK, IdleInv, [Next]_vars
    PROVE  IdleInv'
<1> SUFFICES ASSUME NEW o \in Op, pc'[o] = "idle" PROVE at'[o] = NoNode
  BY Zenon DEF IdleInv
<1>1. pc[o] = "idle" /\ at[o] = NoNode
  BY CallFrame, Zenon DEF CallMoves, IdleInv
<1>2. ASSUME NEW p \in Op, NEW n \in Node, Begin(p, n), p # o PROVE at'[o] = NoNode
  BY <1>1, <1>2, Zenon DEF Begin, TypeOK, CallTypes
<1>3. ASSUME NEW p \in LoggedOp, NEW n \in Node, CallLogged(p, n) PROVE at'[o] = NoNode
  BY <1>3, <1>2, Zenon DEF CallLogged, Op, Return, TypeOK, CallTypes
<1>4. ASSUME NEW p \in WeakOp, NEW n \in Node, CallWeak(p, n) PROVE at'[o] = NoNode
  BY <1>4, <1>2, Zenon DEF CallWeak, Op, Return, TypeOK, CallTypes
<1>5. ASSUME at' = at PROVE at'[o] = NoNode
  BY <1>1, <1>5, Zenon
<1>6. ASSUME NEW n \in Node, Raft(n) \/ Apply(n) PROVE at' = at
  BY <1>6, ZenonT(30)
     DEF Raft, Elect, Commit, StepDown, Crash, Close, callVars, Apply, ApplyExec, ApplyExecBusy, ApplyQuery, SkipNoop, Feed
<1>7. ASSUME NEW p, RaftApply(p) \/ EnqueueTimeout(p) \/ EndWeak(p) PROVE at' = at
  BY <1>7, ZenonT(30) DEF RaftApply, EnqueueTimeout, EndWeak
<1>8. UNCHANGED vars => at' = at
  BY Zenon DEF vars, callVars
<1> QED
  BY <1>3, <1>4, <1>5, <1>6, <1>7, <1>8, ZenonT(30) DEF Next

\* Without busy timeouts no engine fails on its own.
LEMMA CalmStep ==
    ASSUME BusyTimeouts = FALSE, CalmInv, [Next]_vars
    PROVE  CalmInv'
<1>1. IInv /\ OwnInv /\ ReadInv /\ IdleInv /\ failed = {}
  BY Zenon DEF CalmInv
<1>2. TypeOK /\ KnownInv /\ SeenInv /\ ReplicaAgreement
  BY <1>1, Zenon DEF IInv
<1>3. IInv' /\ OwnInv' /\ ReadInv' /\ IdleInv'
  BY <1>1, <1>2, InvStep, OwnStep, ReadStep, IdleStep, Zenon
<1>4. failed' = failed
  BY NodeFrame, ZenonT(30) DEF nodeVars, Apply, ApplyExec, ApplyExecBusy, ApplyQuery, SkipNoop
<1> QED
  BY <1>3, <1>4, Zenon DEF CalmInv

\* Every step is one of the abstract database, or not seen.
LEMMA StepRefines ==
    ASSUME BusyTimeouts = FALSE, CalmInv, [Next]_vars
    PROVE  [Promise!StoreNext]_(Promise!storeVars)
<1>1. IInv /\ ReadInv /\ IdleInv /\ failed = {}
  BY Zenon DEF CalmInv
<1>2. ASSUME NEW n \in Node, Raft(n) \/ Apply(n) PROVE Promise!StoreNext \/ Stutters
  BY <1>1, <1>2, RaftRefines, ApplyRefines, Zenon
<1>3. ASSUME NEW o \in LoggedOp, NEW n \in Node, CallLogged(o, n) PROVE Promise!StoreNext \/ Stutters
  BY <1>1, <1>3, CallRefines, Zenon DEF Op
<1>4. ASSUME NEW o \in WeakOp, NEW n \in Node, CallWeak(o, n) PROVE Promise!StoreNext \/ Stutters
  BY <1>1, <1>4, CallRefines, Zenon DEF Op
<1>5. ASSUME NEW o \in LoggedOp, RaftApply(o) \/ EnqueueTimeout(o) PROVE Promise!StoreNext \/ Stutters
  BY <1>1, <1>5, CallRefines, Zenon DEF Op
<1>6. ASSUME NEW o \in WeakOp, EndWeak(o) PROVE Promise!StoreNext \/ Stutters
  BY <1>1, <1>6, CallRefines, Zenon DEF Op
<1>7. ASSUME UNCHANGED vars PROVE Stutters
  BY <1>7, Zenon DEF vars, callVars, Stutters, Effects, Views, View, Answers, Acked
<1>8. Promise!StoreNext \/ Stutters
  BY <1>2, <1>3, <1>4, <1>5, <1>6, <1>7, ZenonT(30) DEF Next
<1> QED
  BY <1>8, Zenon DEF Stutters, Promise!storeVars

\* The cluster is one database on which Exec and strong Query take effect
\* atomically and a weak Query reads one state, perhaps an old one, whatever
\* elections and failures happen, if no weak query outlasts the busy timeout.
THEOREM ClusterIsOneDatabase ==
    ASSUME BusyTimeouts = FALSE
    PROVE  Spec => ImplementsStore
<1>1. Init => CalmInv
  <2>1. Init => OwnInv /\ ReadInv /\ IdleInv /\ failed = {}
    BY Zenon DEF Init, OwnInv, ReadInv, IdleInv, Acked, Op
  <2> QED
    BY <2>1, InvInit, Zenon DEF CalmInv
<1>2. CalmInv /\ [Next]_vars => CalmInv'
  BY CalmStep, Zenon
<1>3. Init => Promise!StoreInit
  <2> SUFFICES ASSUME Init PROVE Promise!StoreInit
    BY Zenon
  <2>1. hist = <<>> /\ \A o \in Op : pc[o] = "idle"
    BY Zenon DEF Init
  <2>3. Views = [o \in Op |-> "idle"] /\ Answers = [o \in Op |-> Noop]
    BY <2>1, Zenon DEF Views, View, Answers, Acked
  <2> QED
    BY <2>3, SameCalls, <2>1 DEF Promise!StoreInit, Effects
<1>4. CalmInv /\ [Next]_vars => [Promise!StoreNext]_(Promise!storeVars)
  BY StepRefines, Zenon
<1> QED
  BY <1>1, <1>2, <1>3, <1>4, PTL DEF Spec, ImplementsStore, Promise!StoreSpec
=============================================================================
