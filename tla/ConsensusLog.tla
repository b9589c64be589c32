---------------------------- MODULE ConsensusLog ----------------------------
(***************************************************************************)
(* How the actions of Consensus change its logs and its calls, for any     *)
(* nodes, calls and database and any number of elections: type             *)
(* correctness, the inductive invariant, and the preservation of its parts *)
(* that are about the leaders' logs and the committed history.             *)
(***************************************************************************)
EXTENDS Consensus, SequenceTheorems, TLAPS

-----------------------------------------------------------------------------
(* Sequences *)

\* Appending leaves the elements in place and adds one at the end.
LEMMA AppendFacts ==
    ASSUME NEW S, NEW s \in Seq(S), NEW e \in S
    PROVE  /\ Append(s, e) \in Seq(S)
           /\ Len(Append(s, e)) = Len(s) + 1
           /\ \A i \in 1..Len(s) : Append(s, e)[i] = s[i]
           /\ Append(s, e)[Len(s) + 1] = e
  OBVIOUS

\* Replacing the t-th sequence by itself with one more element.
LEMMA ExtendFacts ==
    ASSUME NEW S, NEW s \in Seq(Seq(S)), NEW t \in 1..Len(s), NEW e \in S
    PROVE  LET r == [s EXCEPT ![t] = Append(@, e)] IN
           /\ r \in Seq(Seq(S))
           /\ Len(r) = Len(s)
           /\ \A u \in 1..Len(s) : u # t => r[u] = s[u]
           /\ r[t] = Append(s[t], e)
  BY ElementOfSeq, AppendFacts, ExceptSeq

\* A prefix holds the same elements.
LEMMA PrefixFacts ==
    ASSUME NEW S, NEW s \in Seq(S), NEW k \in 0..Len(s)
    PROVE  /\ SubSeq(s, 1, k) \in Seq(S)
           /\ Len(SubSeq(s, 1, k)) = k
           /\ \A i \in 1..k : SubSeq(s, 1, k)[i] = s[i]
  BY ElementOfSeq

-----------------------------------------------------------------------------
(* What the steps do to the log *)

\* The log of a newly elected leader takes its entries from one earlier log
\* and contains all that is committed.
LEMMA ElectLog ==
    ASSUME TypeOK, NEW n \in Node, Elect(n)
    PROVE  /\ tlog' \in Seq(Seq(Entry))
           /\ Len(tlog') = Len(tlog) + 1
           /\ \A t \in 1..Len(tlog) : tlog'[t] = tlog[t]
           /\ LET new == tlog'[Len(tlog) + 1] IN
              /\ new \in Seq(Entry)
              /\ Len(hist) < Len(new)
              /\ \A i \in 1..Len(hist) : new[i].term = hist[i].term /\ new[i].op = hist[i].op
              /\ new[Len(new)].op = Noop
              /\ \/ Len(new) = 1
                 \/ \E t \in 1..Len(tlog) :
                       /\ Len(new) <= Len(tlog[t]) + 1
                       /\ \A i \in 1..Len(new) - 1 : new[i] = tlog[t][i]
<1> DEFINE nop == [term |-> Term + 1, op |-> Noop]
<1>1. /\ nop \in Entry
      /\ Len(hist) \in Nat
      /\ tlog \in Seq(Seq(Entry))
      /\ nop.op = Noop
  BY DEF TypeOK, RaftTypes, Entry, Command, Term
<1>2. PICK log \in {<<>>} \cup {tlog[t] : t \in 1..Term} :
        \E k \in Len(hist)..Len(log) :
           /\ \A i \in 1..Len(hist) : log[i].term = hist[i].term /\ log[i].op = hist[i].op
           /\ tlog' = Append(tlog, Append(SubSeq(log, 1, k), nop))
  BY ZenonT(30) DEF Elect
<1>3. log \in Seq(Entry)
  <2>1. CASE log = <<>>
    BY <2>1, EmptySeq, Zenon
  <2>2. CASE log \in {tlog[t] : t \in 1..Term}
    <3>1. PICK t \in 1..Len(tlog) : log = tlog[t]
      BY <2>2, Zenon DEF Term
    <3> QED
      BY <3>1, <1>1, ElementOfSeq, Zenon
  <2> QED
    BY <1>2, <2>1, <2>2, Zenon
<1>4. PICK k \in Len(hist)..Len(log) :
           /\ \A i \in 1..Len(hist) : log[i].term = hist[i].term /\ log[i].op = hist[i].op
           /\ tlog' = Append(tlog, Append(SubSeq(log, 1, k), nop))
  BY <1>2, ZenonT(30)
<1>5. k \in 0..Len(log) /\ Len(hist) <= k
  BY <1>1, <1>3, <1>4
<1> DEFINE new == Append(SubSeq(log, 1, k), nop)
<1>6. /\ SubSeq(log, 1, k) \in Seq(Entry)
      /\ Len(SubSeq(log, 1, k)) = k
      /\ \A i \in 1..k : SubSeq(log, 1, k)[i] = log[i]
  BY <1>3, <1>5, PrefixFacts, Zenon
<1>7. /\ new \in Seq(Entry)
      /\ Len(new) = k + 1
      /\ \A i \in 1..k : new[i] = log[i]
      /\ new[k + 1] = nop
  BY <1>1, <1>6, AppendFacts
<1>8. /\ tlog' \in Seq(Seq(Entry))
      /\ Len(tlog') = Len(tlog) + 1
      /\ \A t \in 1..Len(tlog) : tlog'[t] = tlog[t]
      /\ tlog'[Len(tlog) + 1] = new
  BY <1>1, <1>4, <1>7, AppendFacts, SMTT(30)
<1>9. \/ Len(new) = 1
      \/ \E t \in 1..Len(tlog) :
            /\ Len(new) <= Len(tlog[t]) + 1
            /\ \A i \in 1..Len(new) - 1 : new[i] = tlog[t][i]
  <2>1. CASE log = <<>>
    BY <2>1, <1>5, <1>7
  <2>2. CASE log \in {tlog[t] : t \in 1..Term}
    <3> HIDE DEF new
    <3>1. PICK t \in 1..Len(tlog) : log = tlog[t]
      BY <2>2, Zenon DEF Term
    <3>2. /\ Len(new) <= Len(tlog[t]) + 1
          /\ \A i \in 1..Len(new) - 1 : new[i] = tlog[t][i]
      BY <3>1, <1>3, <1>5, <1>7
    <3> QED
      BY <3>2, Zenon
  <2> QED
    BY <1>2, <2>1, <2>2, ZenonT(30)
<1>10. \A i \in 1..Len(hist) : new[i].term = hist[i].term /\ new[i].op = hist[i].op
  BY <1>1, <1>4, <1>5, <1>7, SMTT(30)
<1>11. Len(hist) < Len(new) /\ new[Len(new)].op = Noop
  BY <1>1, <1>5, <1>7
<1> HIDE DEF new, nop
<1> QED
  BY <1>7, <1>8, <1>9, <1>10, <1>11, Zenon

\* An action that raft accepts is appended to the log of this leader's term.
LEMMA ApplyLog ==
    ASSUME TypeOK, NEW o \in LoggedOp, RaftApply(o), IsLeader(at[o]), at[o] \in Node
    PROVE  /\ epoch[at[o]] \in 1..Len(tlog)
           /\ tlog' \in Seq(Seq(Entry))
           /\ Len(tlog') = Len(tlog)
           /\ \A t \in 1..Len(tlog) : t # epoch[at[o]] => tlog'[t] = tlog[t]
           /\ LET old == tlog[epoch[at[o]]]
                  new == tlog'[epoch[at[o]]]
              IN  /\ old \in Seq(Entry)
                  /\ new \in Seq(Entry)
                  /\ Len(new) = Len(old) + 1
                  /\ \A i \in 1..Len(old) : new[i] = old[i]
                  /\ new[Len(new)].op = o
           /\ pc' = [pc EXCEPT ![o] = "waiting"]
           /\ err' = err
<1> DEFINE t == epoch[at[o]]
           e == [term |-> t, op |-> o]
<1>1. t \in 1..Len(tlog) /\ tlog \in Seq(Seq(Entry))
  BY Zenon DEF TypeOK, RaftTypes, Term
<1>2. e \in Entry /\ e.op = o
  BY <1>1 DEF Entry, Command
<1>3. /\ tlog' = [tlog EXCEPT ![t] = Append(@, e)]
      /\ pc' = [pc EXCEPT ![o] = "waiting"]
      /\ err' = err
  BY Zenon DEF RaftApply, IsLeader
<1> HIDE DEF t, e
<1>4. /\ tlog' \in Seq(Seq(Entry))
      /\ Len(tlog') = Len(tlog)
      /\ \A u \in 1..Len(tlog) : u # t => tlog'[u] = tlog[u]
      /\ tlog'[t] = Append(tlog[t], e)
  BY <1>1, <1>2, <1>3
<1>5. tlog[t] \in Seq(Entry)
  BY <1>1, ElementOfSeq, Zenon
<1>6. /\ tlog'[t] \in Seq(Entry)
      /\ Len(tlog'[t]) = Len(tlog[t]) + 1
      /\ \A i \in 1..Len(tlog[t]) : tlog'[t][i] = tlog[t][i]
      /\ tlog'[t][Len(tlog[t]) + 1] = e
  BY <1>2, <1>4, <1>5
<1> QED
  BY <1>1, <1>2, <1>3, <1>4, <1>5, <1>6, Zenon DEF t

\* A committed entry is added to the history with the database it leaves.
LEMMA CommitHist ==
    ASSUME TypeOK, NEW n \in Node, Commit(n)
    PROVE  /\ Term \in 1..Len(tlog)
           /\ hist' \in Seq([term : Nat, op : Command, db : DB])
           /\ Len(hist') = Len(hist) + 1
           /\ \A i \in 1..Len(hist) : hist'[i] = hist[i]
           /\ Len(hist) + 1 <= Len(tlog[Term])
           /\ hist'[Len(hist) + 1].term = tlog[Term][Len(hist) + 1].term
           /\ hist'[Len(hist) + 1].op = tlog[Term][Len(hist) + 1].op
           /\ hist'[Len(hist) + 1].db = After(DBAt(Len(hist)), hist'[Len(hist) + 1].op)
           /\ tcommit' \in Seq(Nat) /\ Len(tcommit') = Len(tcommit)
           /\ \A t \in 1..Len(tlog) : tcommit'[t] = IF t = Term THEN Len(hist) + 1 ELSE tcommit[t]
<1> DEFINE e == tlog[Term][Len(hist) + 1]
           d == After(DBAt(Len(hist)), e.op)
           h == [term |-> e.term, op |-> e.op, db |-> d]
<1>1. /\ Term \in 1..Len(tlog) /\ tlog \in Seq(Seq(Entry))
      /\ hist \in Seq([term : Nat, op : Command, db : DB]) /\ Len(hist) \in Nat
      /\ tcommit \in Seq(Nat) /\ Len(tcommit) = Len(tlog)
  BY DEF TypeOK, RaftTypes, Term, Commit
<1>2. tlog[Term] \in Seq(Entry)
  BY <1>1, ElementOfSeq, Zenon
<1>3. /\ hist' = Append(hist, h)
      /\ Len(hist) < Len(tlog[Term])
      /\ tcommit' = [tcommit EXCEPT ![Term] = Len(hist) + 1]
  BY Zenon DEF Commit
<1>5. e \in Entry
  BY <1>2, <1>3
<1>6. DBAt(Len(hist)) \in DB
  <2>1. CASE Len(hist) = 0
    BY <2>1, EngineAssumption, Zenon DEF DBAt
  <2>2. CASE Len(hist) # 0
    <3>1. hist[Len(hist)] \in [term : Nat, op : Command, db : DB]
      BY <1>1, <2>2, ElementOfSeq, Len(hist) \in 1..Len(hist), Zenon
    <3> QED
      BY <3>1, <2>2, Zenon DEF DBAt
  <2> QED
    BY <2>1, <2>2, Zenon
<1>8. /\ h \in [term : Nat, op : Command, db : DB]
      /\ h.term = e.term /\ h.op = e.op /\ h.db = d
  BY <1>5, <1>6, EngineAssumption, Zenon DEF Entry, After
<1>9. /\ tcommit' \in Seq(Nat) /\ Len(tcommit') = Len(tcommit)
      /\ \A t \in 1..Len(tlog) : tcommit'[t] = IF t = Term THEN Len(hist) + 1 ELSE tcommit[t]
  <2>1. Term \in 1..Len(tcommit) /\ Len(hist) + 1 \in Nat
    BY <1>1
  <2> QED
    BY <1>1, <1>3, <2>1, ExceptSeq, SMTT(30)
<1> HIDE DEF h, d
<1>10. /\ hist' \in Seq([term : Nat, op : Command, db : DB])
       /\ Len(hist') = Len(hist) + 1
       /\ \A i \in 1..Len(hist) : hist'[i] = hist[i]
       /\ hist'[Len(hist) + 1] = h
  BY <1>1, <1>3, <1>8
<1>11. hist'[Len(hist) + 1].db = After(DBAt(Len(hist)), hist'[Len(hist) + 1].op)
  BY <1>8, <1>10, Zenon DEF d
<1>12. Len(hist) + 1 <= Len(tlog[Term])
  BY <1>1, <1>2, <1>3
<1> QED
  BY <1>1, <1>8, <1>9, <1>10, <1>11, <1>12, ZenonT(30)

-----------------------------------------------------------------------------
(* Type correctness *)

\* Every error of a raft future is one that the calls may return.
LEMMA FutureErrors ==
    /\ FutureError("raft.ErrNotLeader") = "ErrNotLeader"
    /\ FutureError("ErrEnqueueTimeout") = "ErrEnqueueTimeout"
    /\ FutureError("ErrLeadershipLost") = "ErrLeadershipLost"
    /\ FutureError("ErrRaftShutdown") = "ErrRaftShutdown"
  BY Zenon DEF FutureError

\* Calls that return keep the types.
LEMMA ReturnTypes ==
    ASSUME CallTypes, NEW S, NEW e \in Errors, Return(S, e), UNCHANGED <<at, val, seen>>,
           \A o \in S : at[o] \in Node
    PROVE  CallTypes'
  BY Zenon DEF CallTypes, Return

\* So do calls that are answered by the FSM.
LEMMA DeliverTypes ==
    ASSUME CallTypes, NEW n \in Node, NEW o, NEW v \in Result \cup {Noop, BusyResult},
           Deliver(n, o, v), UNCHANGED <<at, seen>>
    PROVE  CallTypes'
  BY DEF Deliver, Waiting, CallTypes, Return, Errors

\* A node that stops leading, or stops, keeps the types of raft's state.
LEMMA RoleTypes ==
    ASSUME RaftTypes, NEW n \in Node, NEW r \in Roles \ {"Leader"},
           role' = [role EXCEPT ![n] = r], UNCHANGED <<epoch, tlog, tcommit, hist>>
    PROVE  RaftTypes'
  BY Zenon DEF RaftTypes, Roles, IsLeader, Term

\* Every step of raft keeps the types.
LEMMA RaftTypeStep ==
    ASSUME TypeOK, NEW n \in Node, Raft(n)
    PROVE  TypeOK'
<1> USE DEF TypeOK
<1>1. CASE Elect(n)
  <2>1. /\ tlog' \in Seq(Seq(Entry)) /\ Len(tlog') = Len(tlog) + 1
    BY <1>1, ElectLog, Zenon
  <2>2. /\ Len(tlog) \in Nat
        /\ Len(hist) \in Nat
        /\ tcommit \in Seq(Nat) /\ Len(tcommit) = Len(tlog)
    BY DEF RaftTypes, Term
  <2>3. tcommit' = Append(tcommit, Len(hist))
    BY <1>1, Zenon DEF Elect
  <2>4. tcommit' \in Seq(Nat) /\ Len(tcommit') = Len(tlog')
    BY <2>1, <2>2, <2>3
  <2>5. epoch' \in [Node -> 0..Len(tlog')] /\ role' \in [Node -> Roles]
    <3>1. epoch \in [Node -> 0..Len(tlog)] /\ role \in [Node -> Roles]
      BY Zenon DEF RaftTypes, Term
    <3>2. 0..Len(tlog) \subseteq 0..Len(tlog') /\ Len(tlog') \in 0..Len(tlog')
      BY <2>1, <2>2
    <3>3. epoch' = [epoch EXCEPT ![n] = Len(tlog')]
      BY <1>1 DEF Elect, Term
    <3>4. role' \in [Node -> Roles]
      BY <1>1, <3>1, Zenon DEF Elect, Roles
    <3> QED
      BY <3>1, <3>2, <3>3, <3>4, Zenon
  <2>6. \A m \in Node : IsLeader(m)' => epoch'[m] \in 1..Len(tlog')
    BY <1>1, <2>1, <2>2, SMTT(30) DEF Elect, RaftTypes, Term, IsLeader
  <2>7. RaftTypes'
    BY <1>1, <2>1, <2>4, <2>5, <2>6, Zenon DEF Elect, RaftTypes, Term
  <2> QED
    BY <1>1, <2>7, Zenon DEF Elect, NodeTypes, CallTypes, nodeVars, callVars
<1>2. CASE Commit(n)
  <2>1. RaftTypes'
    BY <1>2, CommitHist, Zenon DEF Commit, RaftTypes, Term, IsLeader
  <2> QED
    BY <1>2, <2>1, Zenon DEF Commit, NodeTypes, CallTypes, nodeVars, callVars
<1>3. ASSUME NEW r \in Roles \ {"Leader"}, role' = [role EXCEPT ![n] = r],
             UNCHANGED <<epoch, tlog, tcommit, nodeVars, at, val, seen, hist>>,
             NEW S, NEW e \in Errors, Return(S, e), \A o \in S : at[o] \in Node
      PROVE  TypeOK'
  BY <1>3, RoleTypes, ReturnTypes, ZenonT(30) DEF NodeTypes, nodeVars
<1>4. CASE StepDown(n)
  <2>1. PICK k \in applied[n]..tcommit[epoch[n]] :
          Return({o \in Waiting(n) : \A i \in 1..k : tlog[epoch[n]][i].op # o}, "ErrLeadershipLost")
    BY <1>4, FutureErrors, ZenonT(30) DEF StepDown
  <2>2. "ErrLeadershipLost" \in Errors /\ "Follower" \in Roles \ {"Leader"}
    BY Zenon DEF Errors, Roles
  <2> DEFINE S == {o \in Waiting(n) : \A i \in 1..k : tlog[epoch[n]][i].op # o}
  <2>3. \A o \in S : at[o] \in Node
    BY Zenon DEF Waiting
  <2>4. Return(S, "ErrLeadershipLost")
    BY <2>1, Zenon
  <2>5. /\ role' = [role EXCEPT ![n] = "Follower"]
        /\ UNCHANGED <<epoch, tlog, tcommit, nodeVars, at, val, seen, hist>>
    BY <1>4, Zenon DEF StepDown
  <2> HIDE DEF S
  <2> QED
    BY <1>3, <2>2, <2>3, <2>4, <2>5, ZenonT(30)
<1>5. CASE Crash(n)
  <2>1. "crash" \in Errors /\ "Down" \in Roles \ {"Leader"}
    BY Zenon DEF Errors, Roles
  <2> DEFINE S == {o \in Op : at[o] = n /\ pc[o] # "done"}
  <2>2. \A o \in S : at[o] \in Node
    BY Zenon
  <2>3. /\ role' = [role EXCEPT ![n] = "Down"]
        /\ Return(S, "crash")
        /\ UNCHANGED <<epoch, tlog, tcommit, nodeVars, at, val, seen, hist>>
    BY <1>5, Zenon DEF Crash
  <2> HIDE DEF S
  <2> QED
    BY <1>3, <2>1, <2>2, <2>3, ZenonT(30)
<1>6. CASE Close(n)
  <2>1. "ErrRaftShutdown" \in Errors /\ "Shutdown" \in Roles \ {"Leader"}
    BY Zenon DEF Errors, Roles
  <2>2. \A o \in Waiting(n) : at[o] \in Node
    BY Zenon DEF Waiting
  <2> QED
    BY <1>3, <1>6, <2>1, <2>2, FutureErrors, ZenonT(30) DEF Close
<1> QED
  BY <1>1, <1>2, <1>4, <1>5, <1>6, Zenon DEF Raft

\* Every step of a call keeps the types.
LEMMA CallTypeStep ==
    ASSUME TypeOK, NEW o \in Op,
           \/ /\ o \in LoggedOp
              /\ RaftApply(o) \/ EnqueueTimeout(o) \/ \E n \in Node : CallLogged(o, n)
           \/ /\ o \in WeakOp
              /\ EndWeak(o) \/ \E n \in Node : CallWeak(o, n)
    PROVE  TypeOK'
<1> USE DEF TypeOK
<1>1. ASSUME UNCHANGED <<role, epoch, tlog, tcommit, hist>> PROVE RaftTypes'
  BY <1>1, Zenon DEF RaftTypes, Term, IsLeader
<1>2. ASSUME UNCHANGED nodeVars PROVE NodeTypes'
  BY <1>2, Zenon DEF NodeTypes, nodeVars
<1>3. ASSUME NEW e \in Errors, Return({o}, e), UNCHANGED <<at, val, seen>>, pc[o] # "idle"
      PROVE  CallTypes'
  BY <1>3, ReturnTypes DEF CallTypes
<1>4. ASSUME o \in LoggedOp, RaftApply(o) PROVE TypeOK'
  <2>1. at[o] \in Node
    BY <1>4, Zenon DEF RaftApply, CallTypes
  <2>2. CASE IsLeader(at[o])
    <3>1. RaftTypes'
      <4>1. tlog' \in Seq(Seq(Entry)) /\ Len(tlog') = Len(tlog)
        BY <1>4, <2>1, <2>2, ApplyLog, Zenon
      <4>2. UNCHANGED <<role, epoch, tcommit, hist>>
        BY <1>4, Zenon DEF RaftApply
      <4> QED
        BY <4>1, <4>2, Zenon DEF RaftTypes, Term, IsLeader
    <3>2. CallTypes'
      <4>1. pc' = [pc EXCEPT ![o] = "waiting"] /\ err' = err
        BY <1>4, <2>1, <2>2, ApplyLog, Zenon
      <4>2. UNCHANGED <<at, val, seen>>
        BY <1>4, Zenon DEF RaftApply
      <4> QED
        BY <2>1, <4>1, <4>2, Zenon DEF CallTypes
    <3> QED
      BY <1>2, <1>4, <3>1, <3>2, ZenonT(30) DEF RaftApply
  <2>3. CASE ~IsLeader(at[o])
    <3>1. PICK e \in {"ErrNotLeader", "ErrRaftShutdown"} : Return({o}, e) /\ tlog' = tlog
      BY <1>4, <2>3, FutureErrors, ZenonT(30) DEF RaftApply
    <3>2. e \in Errors
      BY Zenon DEF Errors
    <3> QED
      BY <1>1, <1>2, <1>3, <1>4, <3>1, <3>2, ZenonT(30) DEF RaftApply
  <2> QED
    BY <2>2, <2>3, Zenon
<1>5. ASSUME EnqueueTimeout(o) PROVE TypeOK'
  BY <1>5, FutureErrors, <1>1, <1>2, <1>3, Zenon DEF EnqueueTimeout, Errors, raftVars
<1>6. ASSUME EndWeak(o) PROVE TypeOK'
  BY <1>6, <1>1, <1>2, <1>3, Zenon DEF EndWeak, Errors, raftVars
<1>7. ASSUME NEW n \in Node, Begin(o, n)
      PROVE  /\ RaftTypes' /\ NodeTypes'
             /\ at' \in [Op -> Node \cup {NoNode}]
             /\ \A p \in Op : at'[p] = IF p = o THEN n ELSE at[p]
             /\ seen' \in [Op -> SUBSET LoggedOp]
  BY <1>1, <1>2, <1>7, Zenon DEF Begin, raftVars, CallTypes
<1>8. ASSUME NEW n \in Node, CallLogged(o, n) PROVE TypeOK'
  BY <1>8, <1>7 DEF CallLogged, CallTypes, Return, Errors
<1>9. ASSUME o \in WeakOp, NEW n \in Node, CallWeak(o, n) PROVE TypeOK'
  <2>1. Begin(o, n) /\ Answer(db[n], o) \in Result
    BY <1>9, EngineAssumption, Zenon DEF CallWeak, NodeTypes
  <2>2. CASE role[n] # "Shutdown"
    BY <1>9, <2>2, <1>7, <2>1 DEF CallWeak, CallTypes
  <2>3. CASE role[n] = "Shutdown"
    BY <1>9, <1>7, <2>1 DEF CallWeak, CallTypes, Return, Errors
  <2> QED
    BY <2>2, <2>3, Zenon
<1> QED
  BY <1>4, <1>5, <1>6, <1>8, <1>9, Zenon

\* Every step of the FSM keeps the types.
LEMMA ApplyTypeStep ==
    ASSUME TypeOK, NEW n \in Node, Apply(n)
    PROVE  TypeOK'
<1> USE DEF TypeOK
<1>1. Feed(n)
  BY Zenon DEF Apply, ApplyExec, ApplyExecBusy, ApplyQuery, SkipNoop
<1>2. RaftTypes'
  BY <1>1, Zenon DEF Feed, raftVars, RaftTypes, Term, IsLeader
<1>3. /\ applied' \in [Node -> Nat] /\ applied[n] + 1 \in Nat
      /\ db[n] \in DB
      /\ UNCHANGED <<at, seen>>
  BY <1>1 DEF Feed, NodeTypes
<1> DEFINE e == NextEntry(n)
<1>4. CASE ApplyExec(n)
  <2>2. NextDB(db[n], e) \in DB /\ Answer(db[n], e) \in Result
    BY <1>3, EngineAssumption, <1>4, Zenon DEF ApplyExec, Op, LoggedOp
  <2>3. /\ db' = [db EXCEPT ![n] = NextDB(db[n], e)]
        /\ lastIdx' = [lastIdx EXCEPT ![n] = applied[n] + 1]
        /\ Deliver(n, e, Answer(db[n], e))
        /\ failed' = failed
    BY <1>4, Zenon DEF ApplyExec
  <2> HIDE DEF e
  <2> QED
    BY <1>2, <1>3, <2>2, <2>3, DeliverTypes, Zenon DEF NodeTypes
<1>5. CASE ApplyExecBusy(n)
  <2>2. PICK d \in BusyDB(db[n], e) : db' = [db EXCEPT ![n] = d]
    BY <1>5, ZenonT(30) DEF ApplyExecBusy
  <2> HIDE DEF e
  <2> QED
    BY <1>2, <1>3, DeliverTypes, <1>5, BusyAssumption, Zenon DEF ApplyExecBusy, NodeTypes
<1>6. CASE ApplyQuery(n)
  <2> HIDE DEF e
  <2> QED
    BY <1>2, <1>3, DeliverTypes, EngineAssumption, <1>6, Zenon DEF ApplyQuery, Op, LoggedOp, NodeTypes
<1>7. CASE SkipNoop(n)
  BY <1>2, <1>3, <1>7, Zenon DEF SkipNoop, NodeTypes, CallTypes
<1> QED
  BY <1>4, <1>5, <1>6, <1>7, Zenon DEF Apply

\* Every step keeps the types.
LEMMA TypeStep == TypeOK /\ [Next]_vars => TypeOK'
<1> SUFFICES ASSUME TypeOK, [Next]_vars PROVE TypeOK'
  BY Zenon
<1>1. CASE UNCHANGED vars
  BY <1>1, Zenon DEF vars, raftVars, nodeVars, callVars, TypeOK, RaftTypes, NodeTypes, CallTypes, Term, IsLeader
<1>2. CASE Next
  BY <1>2, RaftTypeStep, ApplyTypeStep, CallTypeStep, Zenon DEF Next, Op
<1> QED
  BY <1>1, <1>2, Zenon

\* The variables have their types before the first election.
LEMMA TypeInit == Init => TypeOK
<1> SUFFICES ASSUME Init PROVE TypeOK
  BY Zenon
<1>2. NodeTypes
  BY EngineAssumption, Zenon DEF Init, NodeTypes
<1>3. CallTypes
  BY Zenon DEF Init, CallTypes, Errors
<1> QED
  BY <1>2, <1>3 DEF TypeOK, Init, RaftTypes, Roles, Term, IsLeader

\* Type correctness of the replicated database.
THEOREM TypeCorrect == Spec => []TypeOK
<1> QED
  BY TypeInit, TypeStep, PTL DEF Spec

-----------------------------------------------------------------------------
(* What a step may do *)

\* The log changes by an election, a commit or a call that raft accepts.
LEMMA LogFrame ==
    ASSUME TypeOK, [Next]_vars
    PROVE  \/ UNCHANGED <<tlog, hist>>
           \/ \E n \in Node : Elect(n)
           \/ \E n \in Node : Commit(n)
           \/ \E o \in LoggedOp : RaftApply(o) /\ at[o] \in Node /\ IsLeader(at[o])
<1>1. ASSUME NEW o \in LoggedOp, RaftApply(o), ~IsLeader(at[o]) PROVE UNCHANGED <<tlog, hist>>
  BY <1>1, Zenon DEF RaftApply
<1>2. ASSUME NEW o \in LoggedOp, RaftApply(o) PROVE at[o] \in Node
  BY <1>2, Zenon DEF RaftApply, TypeOK, CallTypes, Op
<1>3. ASSUME NEW n \in Node, StepDown(n) \/ Crash(n) \/ Close(n) PROVE UNCHANGED <<tlog, hist>>
  BY <1>3, Zenon DEF StepDown, Crash, Close
<1>4. ASSUME NEW n \in Node, Apply(n) PROVE UNCHANGED <<tlog, hist>>
  BY <1>4, Zenon DEF Apply, ApplyExec, ApplyExecBusy, ApplyQuery, SkipNoop, Feed, raftVars
<1>5. ASSUME NEW o \in Op, NEW n \in Node, CallLogged(o, n) \/ CallWeak(o, n)
      PROVE  UNCHANGED <<tlog, hist>>
  BY <1>5, Zenon DEF CallLogged, CallWeak, Begin, raftVars
<1>6. ASSUME NEW o \in Op, EnqueueTimeout(o) \/ EndWeak(o) PROVE UNCHANGED <<tlog, hist>>
  BY <1>6, Zenon DEF EnqueueTimeout, EndWeak, raftVars
<1>7. CASE UNCHANGED vars
  BY <1>7, Zenon DEF vars, raftVars
<1> QED
  BY <1>1, <1>2, <1>3, <1>4, <1>5, <1>6, <1>7, Zenon DEF Next, Raft, Op

\* What may happen to a call in a step: an answer stands, a future that
\* fails is not taken for a refusal, and a logged call is acknowledged only
\* by the FSM of its node as it applies the call's own entry.
CallMoves(o) ==
    /\ pc[o] = "done" => /\ pc'[o] = "done"
                         /\ err'[o] = err[o] /\ val'[o] = val[o] /\ at'[o] = at[o]
    /\ pc[o] # "idle" => pc'[o] # "idle" /\ at'[o] = at[o]
    /\ pc[o] = "waiting" => /\ pc'[o] \in {"waiting", "done"}
                            /\ pc'[o] = "done" => err'[o] \notin Refusals
    /\ o \in LoggedOp /\ Acked(o)' /\ ~Acked(o) =>
           \E n \in Node : Apply(n) /\ NextEntry(n) = o /\ o \in Waiting(n)
    /\ \/ seen'[o] = seen[o]
       \/ pc[o] = "idle" /\ seen'[o] = {a \in LoggedOp : Acked(a)}

\* Calls that return with error e, on the way described by CallMoves.
LEMMA ReturnMoves ==
    ASSUME TypeOK, NEW S, NEW e \in Errors, Return(S, e), UNCHANGED <<at, val, seen>>,
           NEW o \in Op,
           o \in S => \/ pc[o] = "waiting" /\ e \notin Refusals \cup {"nil"}
                      \/ pc[o] \in {"checked", "reading"} /\ (e = "nil" => o \notin LoggedOp)
    PROVE  CallMoves(o)
  BY Zenon DEF Return, CallMoves, Acked

\* Every step moves the calls as CallMoves says.
LEMMA CallFrame ==
    ASSUME TypeOK, [Next]_vars, NEW o \in Op
    PROVE  CallMoves(o)
<1>1. ASSUME UNCHANGED callVars PROVE CallMoves(o)
  BY <1>1, Zenon DEF callVars, CallMoves, Acked
<1>2. ASSUME NEW n \in Node, Raft(n) PROVE CallMoves(o)
  <2>1. CASE Elect(n) \/ Commit(n)
    BY <1>1, <2>1, Zenon DEF Elect, Commit
  <2>2. CASE StepDown(n)
    <3>1. PICK k \in applied[n]..tcommit[epoch[n]] :
            Return({p \in Waiting(n) : \A i \in 1..k : tlog[epoch[n]][i].op # p}, "ErrLeadershipLost")
      BY <2>2, FutureErrors, ZenonT(30) DEF StepDown
    <3> DEFINE S == {p \in Waiting(n) : \A i \in 1..k : tlog[epoch[n]][i].op # p}
    <3>3. UNCHANGED <<at, val, seen>>
      BY <2>2, Zenon DEF StepDown
    <3>4. "ErrLeadershipLost" \in Errors /\ "ErrLeadershipLost" \notin Refusals \cup {"nil"}
      BY Zenon DEF Errors, Refusals
    <3> HIDE DEF S
    <3> QED
      BY <3>3, <3>4, ReturnMoves, <3>1 DEF Waiting
  <2>3. CASE Crash(n)
    <3> DEFINE S == {p \in Op : at[p] = n /\ pc[p] # "done"}
    <3>1. Return(S, "crash") /\ UNCHANGED <<at, val, seen>>
      BY <2>3, Zenon DEF Crash
    <3>2. o \in S => pc[o] # "done" /\ at[o] = n
      BY Zenon
    <3>3. pc'[o] = (IF o \in S THEN "done" ELSE pc[o]) /\ err'[o] = (IF o \in S THEN "crash" ELSE err[o])
      BY <3>1, Zenon DEF Return
    <3>4. "crash" \notin Refusals \cup {"nil"}
      BY Zenon DEF Refusals
    <3> HIDE DEF S
    <3> QED
      BY <3>1, <3>2, <3>3, <3>4, Zenon DEF CallMoves, Acked
  <2>4. CASE Close(n)
    BY <2>4, FutureErrors, ReturnMoves DEF Close, Errors, Refusals, Waiting
  <2> QED
    BY <1>2, <2>1, <2>2, <2>3, <2>4, Zenon DEF Raft
<1>3. ASSUME NEW p \in LoggedOp, RaftApply(p) PROVE CallMoves(o)
  <2>1. p \in Op /\ at[p] \in Node /\ pc[p] = "checked" /\ UNCHANGED <<at, val, seen>>
    BY <1>3, Zenon DEF RaftApply, TypeOK, CallTypes, Op
  <2>2. CASE IsLeader(at[p])
    <3>1. pc' = [pc EXCEPT ![p] = "waiting"] /\ err' = err
      BY <1>3, <2>1, <2>2, ApplyLog, Zenon
    <3> QED
      BY <2>1, <3>1 DEF CallMoves, Acked
  <2>3. CASE ~IsLeader(at[p])
    <3>1. PICK e \in {"ErrNotLeader", "ErrRaftShutdown"} : Return({p}, e)
      BY <1>3, <2>3, FutureErrors, Zenon DEF RaftApply
    <3>2. e \in Errors /\ e # "nil"
      BY Zenon DEF Errors
    <3> QED
      BY <2>1, <3>1, <3>2, ReturnMoves, SMTT(30)
  <2> QED
    BY <2>2, <2>3, Zenon
<1>4. ASSUME NEW p \in LoggedOp, EnqueueTimeout(p) PROVE CallMoves(o)
  BY <1>4, FutureErrors, ReturnMoves DEF EnqueueTimeout, Errors
<1>5. ASSUME NEW p \in WeakOp, EndWeak(p) PROVE CallMoves(o)
  BY <1>5, OpAssumption, ReturnMoves DEF EndWeak, Errors
<1>6. ASSUME NEW p \in Op, NEW n \in Node, Begin(p, n),
             \/ pc' = [pc EXCEPT ![p] = "checked"] /\ err' = err
             \/ pc' = [pc EXCEPT ![p] = "reading"] /\ err' = err
             \/ \E e \in Errors \ {"nil"} : Return({p}, e),
             \A a \in Op : a # p => val'[a] = val[a]
      PROVE  CallMoves(o)
  BY <1>6 DEF Begin, CallMoves, Acked, TypeOK, CallTypes, Return
<1>7. ASSUME NEW p \in LoggedOp, NEW n \in Node, CallLogged(p, n) PROVE CallMoves(o)
  BY <1>6, <1>7, Zenon DEF Errors, Op, CallLogged
<1>8. ASSUME NEW p \in WeakOp, NEW n \in Node, CallWeak(p, n) PROVE CallMoves(o)
  <2>1. "ErrDatabaseClosed" \in Errors \ {"nil"} /\ p \in Op
    BY Zenon DEF Errors, Op
  <2>2. \A a \in Op : a # p => val'[a] = val[a]
    BY <1>8, Zenon DEF CallWeak, TypeOK, CallTypes
  <2> QED
    BY <1>6, <1>8, <2>1, <2>2, ZenonT(30) DEF CallWeak
<1>9. ASSUME NEW n \in Node, Apply(n) PROVE CallMoves(o)
  <2>1. UNCHANGED <<at, seen>>
    BY <1>9, Zenon DEF Apply, ApplyExec, ApplyExecBusy, ApplyQuery, SkipNoop, Feed
  <2>2. UNCHANGED <<pc, err, val>> \/ \E v : Deliver(n, NextEntry(n), v)
    BY <1>9, Zenon DEF Apply, ApplyExec, ApplyExecBusy, ApplyQuery, SkipNoop
  <2>3. CASE UNCHANGED <<pc, err, val>>
    BY <1>1, <2>1, <2>3, Zenon DEF callVars
  <2>4. ASSUME NEW v, Deliver(n, NextEntry(n), v), NextEntry(n) \in Waiting(n) PROVE CallMoves(o)
    <3>1. /\ Return({NextEntry(n)}, "nil")
          /\ val' = [val EXCEPT ![NextEntry(n)] = v]
          /\ pc[NextEntry(n)] = "waiting"
      BY <2>4, Zenon DEF Deliver, Waiting
    <3>2. CASE o = NextEntry(n)
      BY <1>9, <2>1, <2>4, <3>1, <3>2, Zenon DEF CallMoves, Return, Refusals
    <3>3. CASE o # NextEntry(n)
      BY <2>1, <3>1, <3>3 DEF CallMoves, Acked, Return
    <3> QED
      BY <3>2, <3>3, Zenon
  <2>5. ASSUME NEW v, Deliver(n, NextEntry(n), v), NextEntry(n) \notin Waiting(n) PROVE CallMoves(o)
    BY <1>1, <2>1, <2>5, Zenon DEF Deliver, callVars
  <2> QED
    BY <2>2, <2>3, <2>4, <2>5, Zenon
<1>10. CASE UNCHANGED vars
  BY <1>1, <1>10, Zenon DEF vars
<1> QED
  BY <1>2, <1>3, <1>4, <1>5, <1>7, <1>8, <1>9, <1>10, Zenon DEF Next

-----------------------------------------------------------------------------
(* The inductive invariant *)

\* A call that is in some leader's log waits for its future, or has been
\* answered otherwise than with a refusal.
LoggedInv ==
    \A t \in 1..Len(tlog) : \A i \in 1..Len(tlog[t]) : \A o \in Op :
        tlog[t][i].op = o => \/ pc[o] = "waiting"
                             \/ pc[o] = "done" /\ err[o] \notin Refusals

\* A call is in a log at most once.
OnceInv ==
    \A t \in 1..Len(tlog) : \A i, j \in 1..Len(tlog[t]) : \A o \in Op :
        tlog[t][i].op = o /\ tlog[t][j].op = o => i = j

\* The newest leader's log begins with the committed entries.
CommitInv ==
    \A i \in 1..Len(hist) :
        /\ Len(tlog) \in 1..Len(tlog)
        /\ i \in 1..Len(tlog[Len(tlog)])
        /\ tlog[Len(tlog)][i].op = hist[i].op

\* No node applies, and no leader takes for committed, more than there is.
KnownInv ==
    /\ \A t \in 1..Len(tlog) : tcommit[t] <= Len(hist)
    /\ \A n \in Node : applied[n] <= Len(hist)

\* The databases of the history follow from one another.
ChainInv ==
    \A i \in 1..Len(hist) : hist[i].db = After(DBAt(i - 1), hist[i].op)

\* An acknowledged logged call is committed.
AckInv ==
    \A o \in LoggedOp : Acked(o) => \E i \in 1..Len(hist) : hist[i].op = o

\* A call has seen only acknowledged calls, and they precede it.
SeenInv ==
    \A b \in Op : \A a \in seen[b] : Acked(a)

OrderInv ==
    \A b \in LoggedOp, j \in 1..Len(hist) : hist[j].op = b =>
        \A a \in seen[b] : \E i \in 1..j - 1 : hist[i].op = a

IInv ==
    /\ TypeOK /\ LoggedInv /\ OnceInv /\ CommitInv /\ KnownInv /\ ChainInv
    /\ AckInv /\ SeenInv /\ OrderInv
    /\ ReplicaAgreement /\ AnswersUnlessBusy

\* A call in the checked state is in no log; accepting it keeps LoggedInv.
LEMMA LoggedStep ==
    ASSUME TypeOK, LoggedInv, [Next]_vars
    PROVE  LoggedInv'
<1>1. ASSUME NEW o \in Op, \/ pc[o] = "waiting"
                           \/ pc[o] = "done" /\ err[o] \notin Refusals
      PROVE  \/ pc'[o] = "waiting"
             \/ pc'[o] = "done" /\ err'[o] \notin Refusals
  BY <1>1, CallFrame, Zenon DEF CallMoves
<1> SUFFICES ASSUME NEW t \in 1..Len(tlog'), NEW i \in 1..Len(tlog'[t]), NEW o \in Op,
                    tlog'[t][i].op = o
             PROVE  \/ pc'[o] = "waiting"
                    \/ pc'[o] = "done" /\ err'[o] \notin Refusals
  BY Zenon DEF LoggedInv
<1> DEFINE Goal == \/ pc'[o] = "waiting"
                   \/ pc'[o] = "done" /\ err'[o] \notin Refusals
<1>0. ASSUME NEW u \in 1..Len(tlog), NEW k \in 1..Len(tlog[u]), tlog[u][k].op = o PROVE Goal
  <2>1. \/ pc[o] = "waiting"
        \/ pc[o] = "done" /\ err[o] \notin Refusals
    BY <1>0, ZenonT(30) DEF LoggedInv
  <2> QED
    BY <1>1, <2>1, Zenon
<1> HIDE DEF Goal
<1>2. CASE UNCHANGED <<tlog, hist>>
  BY <1>0, <1>2, Zenon DEF Goal
<1>3. ASSUME NEW n \in Node, Elect(n) PROVE Goal
  <2>1. Len(tlog) \in Nat /\ tlog \in Seq(Seq(Entry))
    BY DEF TypeOK, RaftTypes
  <2>2. CASE t \in 1..Len(tlog)
    <3>1. tlog'[t] = tlog[t]
      BY <1>3, <2>2, ElectLog, Zenon
    <3> QED
      BY <1>0, <2>2, <3>1, Zenon
  <2>3. CASE t = Len(tlog) + 1
    <3>1. /\ tlog'[t] \in Seq(Entry)
          /\ tlog'[t][Len(tlog'[t])].op = Noop
          /\ \/ Len(tlog'[t]) = 1
             \/ \E u \in 1..Len(tlog) :
                   /\ Len(tlog'[t]) <= Len(tlog[u]) + 1
                   /\ \A k \in 1..Len(tlog'[t]) - 1 : tlog'[t][k] = tlog[u][k]
      BY <1>3, <2>3, ElectLog, Zenon
    <3>2. i # Len(tlog'[t])
      BY <3>1, OpAssumption, Zenon
    <3>3. Len(tlog'[t]) \in Nat
      BY <3>1
    <3>4. PICK u \in 1..Len(tlog) :
                   /\ Len(tlog'[t]) <= Len(tlog[u]) + 1
                   /\ \A k \in 1..Len(tlog'[t]) - 1 : tlog'[t][k] = tlog[u][k]
      <4> DEFINE l == Len(tlog'[t])
      <4>1. i \in 1..l /\ l \in Nat /\ i # l
        BY <3>2, <3>3, Zenon
      <4> HIDE DEF l
      <4>2. l # 1
        BY ONLY <4>1
      <4> QED
        BY <3>1, <4>2, Zenon DEF l
    <3>5. Len(tlog[u]) \in Nat
      OBVIOUS
    <3>6. i \in 1..Len(tlog[u]) /\ tlog[u][i].op = o
      <4>1. i \in 1..Len(tlog'[t]) - 1 /\ i \in 1..Len(tlog[u])
        BY ONLY <3>2, <3>3, <3>4, <3>5, i \in 1..Len(tlog'[t])
      <4> QED
        BY <3>4, <4>1, Zenon
    <3> QED
      BY <1>0, <3>6, Zenon
  <2> QED
    BY <1>3, <2>1, <2>2, <2>3, ElectLog, SMTT(30)
<1>4. ASSUME NEW n \in Node, Commit(n) PROVE Goal
  BY <1>4, <1>0, Zenon DEF Commit
<1>5. ASSUME NEW p \in LoggedOp, RaftApply(p), at[p] \in Node, IsLeader(at[p])
      PROVE  Goal
  <2> DEFINE u == epoch[at[p]]
  <2>1. /\ Len(tlog') = Len(tlog) /\ u \in 1..Len(tlog)
        /\ t # u => tlog'[t] = tlog[t]
        /\ tlog[u] \in Seq(Entry) /\ tlog'[u] \in Seq(Entry)
        /\ Len(tlog'[u]) = Len(tlog[u]) + 1
        /\ \A k \in 1..Len(tlog[u]) : tlog'[u][k] = tlog[u][k]
        /\ tlog'[u][Len(tlog'[u])].op = p
        /\ pc' = [pc EXCEPT ![p] = "waiting"]
    BY <1>5, ApplyLog, ZenonT(30)
  <2> HIDE DEF u
  <2>2. CASE t = u /\ i = Len(tlog'[u])
    BY <2>1, <2>2, Zenon DEF TypeOK, CallTypes, Goal
  <2>3. CASE t = u /\ i # Len(tlog'[u])
    BY <2>1, <2>3, <1>0, SMTT(30)
  <2>4. CASE t # u
    BY <1>0, <2>1, <2>4, Zenon
  <2> QED
    BY <2>2, <2>3, <2>4, Zenon
<1> QED
  BY <1>2, <1>3, <1>4, <1>5, LogFrame, ZenonT(30) DEF Goal

\* A call that raft accepts has not been logged before.
LEMMA OnceStep ==
    ASSUME TypeOK, LoggedInv, OnceInv, [Next]_vars
    PROVE  OnceInv'
<1> SUFFICES ASSUME NEW t \in 1..Len(tlog'), NEW i \in 1..Len(tlog'[t]), NEW j \in 1..Len(tlog'[t]),
                    NEW o \in Op, tlog'[t][i].op = o, tlog'[t][j].op = o
             PROVE  i = j
  BY Zenon DEF OnceInv
<1>1. CASE UNCHANGED <<tlog, hist>>
  BY <1>1, Zenon DEF OnceInv
<1>2. ASSUME NEW n \in Node, Elect(n) PROVE i = j
  <2>1. Len(tlog) \in Nat /\ tlog \in Seq(Seq(Entry))
    BY DEF TypeOK, RaftTypes
  <2>2. CASE t \in 1..Len(tlog)
    <3>1. tlog'[t] = tlog[t]
      BY <1>2, <2>2, ElectLog, Zenon
    <3> QED
      BY <2>2, <3>1, Zenon DEF OnceInv
  <2>3. CASE t = Len(tlog) + 1
    <3>1. /\ tlog'[t] \in Seq(Entry)
          /\ tlog'[t][Len(tlog'[t])].op = Noop
          /\ \/ Len(tlog'[t]) = 1
             \/ \E u \in 1..Len(tlog) :
                   /\ Len(tlog'[t]) <= Len(tlog[u]) + 1
                   /\ \A k \in 1..Len(tlog'[t]) - 1 : tlog'[t][k] = tlog[u][k]
      BY <1>2, <2>3, ElectLog, Zenon
    <3>2. i # Len(tlog'[t]) /\ j # Len(tlog'[t])
      BY <3>1, OpAssumption, Zenon
    <3>3. Len(tlog'[t]) \in Nat
      OBVIOUS
    <3>4. PICK u \in 1..Len(tlog) :
                   /\ Len(tlog'[t]) <= Len(tlog[u]) + 1
                   /\ \A k \in 1..Len(tlog'[t]) - 1 : tlog'[t][k] = tlog[u][k]
      <4> DEFINE l == Len(tlog'[t])
      <4>1. i \in 1..l /\ l \in Nat /\ i # l
        BY <3>2, <3>3, Zenon
      <4> HIDE DEF l
      <4>2. l # 1
        BY ONLY <4>1
      <4> QED
        BY <3>1, <4>2, Zenon DEF l
    <3>5. Len(tlog[u]) \in Nat
      OBVIOUS
    <3>6. \A k \in 1..Len(tlog'[t]) : k # Len(tlog'[t]) => k \in 1..Len(tlog'[t]) - 1
      BY <3>3
    <3>7. \A k \in 1..Len(tlog'[t]) - 1 : k \in 1..Len(tlog[u])
      BY <3>3, <3>4, <3>5, SMTT(30)
    <3>8. i \in 1..Len(tlog'[t]) - 1 /\ j \in 1..Len(tlog'[t]) - 1
      BY <3>2, <3>6, Zenon
    <3>9. tlog[u][i].op = o /\ tlog[u][j].op = o
      BY <3>4, <3>8, Zenon
    <3>10. i \in 1..Len(tlog[u]) /\ j \in 1..Len(tlog[u])
      BY <3>7, <3>8, Zenon
    <3>11. OnceInv /\ o \in Op
      BY Zenon
    <3> QED
      BY ONLY <3>4, <3>9, <3>10, <3>11, Zenon DEF OnceInv
  <2> QED
    BY <1>2, <2>1, <2>2, <2>3, ElectLog, SMTT(30)
<1>3. ASSUME NEW n \in Node, Commit(n) PROVE i = j
  BY <1>3, ZenonT(30) DEF Commit, OnceInv
<1>4. ASSUME NEW p \in LoggedOp, RaftApply(p), at[p] \in Node, IsLeader(at[p])
      PROVE  i = j
  <2> DEFINE u == epoch[at[p]]
  <2>1. /\ Len(tlog') = Len(tlog) /\ u \in 1..Len(tlog)
        /\ t # u => tlog'[t] = tlog[t]
        /\ tlog[u] \in Seq(Entry) /\ tlog'[u] \in Seq(Entry)
        /\ Len(tlog'[u]) = Len(tlog[u]) + 1
        /\ \A k \in 1..Len(tlog[u]) : tlog'[u][k] = tlog[u][k]
        /\ tlog'[u][Len(tlog'[u])].op = p
    BY <1>4, ApplyLog, ZenonT(30)
  <2>2. pc[p] = "checked" /\ p \in Op
    BY <1>4, ZenonT(30) DEF RaftApply, Op
  <2> HIDE DEF u
  <2>3. \A k \in 1..Len(tlog[u]) : tlog[u][k].op # p
    BY <2>1, <2>2, ZenonT(30) DEF LoggedInv
  <2>4. CASE t = u
    <3>1. \A k \in 1..Len(tlog'[u]) : k # Len(tlog'[u]) =>
              k \in 1..Len(tlog[u]) /\ tlog'[u][k] = tlog[u][k]
      <4>1. Len(tlog[u]) \in Nat
        BY <2>1
      <4>2. \A k \in 1..Len(tlog'[u]) : k # Len(tlog'[u]) => k \in 1..Len(tlog[u])
        BY ONLY <2>1, <4>1
      <4> QED
        BY <2>1, <4>2, Zenon
    <3>2. CASE o = p
      BY <2>3, <2>4, <3>1, <3>2, Zenon
    <3>3. CASE o # p
      <4>1. i # Len(tlog'[u]) /\ j # Len(tlog'[u])
        BY <2>1, <2>4, <3>3, Zenon
      <4>2. /\ i \in 1..Len(tlog[u]) /\ tlog[u][i].op = o
            /\ j \in 1..Len(tlog[u]) /\ tlog[u][j].op = o
        BY <2>4, <3>1, <4>1, Zenon
      <4>3. u \in 1..Len(tlog)
        BY <2>1, Zenon
      <4> QED
        BY <4>2, <4>3, Zenon DEF OnceInv
    <3> QED
      BY <3>2, <3>3, Zenon
  <2>5. CASE t # u
    <3>1. t \in 1..Len(tlog) /\ tlog'[t] = tlog[t]
      BY <2>1, <2>5, Zenon
    <3> QED
      BY <3>1, Zenon DEF OnceInv
  <2> QED
    BY <2>4, <2>5, Zenon
<1> QED
  BY <1>1, <1>2, <1>3, <1>4, LogFrame, Zenon

\* A leader's log keeps the committed entries: a new leader has them, and
\* logs grow at the end.
LEMMA CommitStep ==
    ASSUME TypeOK, CommitInv, [Next]_vars
    PROVE  CommitInv'
<1>1. Len(tlog) \in Nat /\ Len(hist) \in Nat /\ tlog \in Seq(Seq(Entry))
  BY DEF TypeOK, RaftTypes
<1>2. CASE UNCHANGED <<tlog, hist>>
  BY <1>2, Zenon DEF CommitInv
<1>3. ASSUME NEW n \in Node, Elect(n) PROVE CommitInv'
  <2>1. hist' = hist
    BY <1>3, Zenon DEF Elect
  <2> DEFINE new == tlog'[Len(tlog) + 1]
  <2>2. /\ Len(tlog') = Len(tlog) + 1
        /\ new \in Seq(Entry) /\ Len(hist) < Len(new)
        /\ \A i \in 1..Len(hist) : new[i].op = hist[i].op
    BY <1>3, ElectLog, Zenon
  <2>4. \A i \in 1..Len(hist) : i \in 1..Len(new)
    BY <2>2
  <2> QED
    BY <1>1, <2>1, <2>2, <2>4, SMTT(30) DEF CommitInv
<1>4. ASSUME NEW n \in Node, Commit(n) PROVE CommitInv'
  <2>1. tlog' = tlog
    BY <1>4, Zenon DEF Commit
  <2>2. /\ Len(tlog) \in 1..Len(tlog)
        /\ Len(hist') = Len(hist) + 1
        /\ \A i \in 1..Len(hist) : hist'[i] = hist[i]
        /\ Len(hist) + 1 <= Len(tlog[Len(tlog)])
        /\ hist'[Len(hist) + 1].op = tlog[Len(tlog)][Len(hist) + 1].op
    BY <1>4, CommitHist, Zenon DEF Term
  <2>4. Len(tlog[Len(tlog)]) \in Nat
    OBVIOUS
  <2>5. ASSUME NEW i \in 1..Len(hist) + 1
        PROVE  i \in 1..Len(tlog[Len(tlog)]) /\ tlog[Len(tlog)][i].op = hist'[i].op
    <3>1. CASE i = Len(hist) + 1
      BY <2>2, <3>1
    <3>2. CASE i # Len(hist) + 1
      <4>1. i \in 1..Len(hist)
        BY <1>1, <3>2
      <4> QED
        BY <2>2, <4>1, Zenon DEF CommitInv
    <3> QED
      BY <3>1, <3>2, Zenon
  <2> QED
    BY <2>1, <2>2, <2>5, Zenon DEF CommitInv
<1>5. ASSUME NEW o \in LoggedOp, RaftApply(o), at[o] \in Node, IsLeader(at[o]) PROVE CommitInv'
  <2> DEFINE u == epoch[at[o]]
             T == Len(tlog)
  <2>1. hist' = hist
    BY <1>5, Zenon DEF RaftApply
  <2>2. /\ Len(tlog') = Len(tlog) /\ u \in 1..Len(tlog)
        /\ T # u => (T \in 1..Len(tlog) => tlog'[T] = tlog[T])
        /\ tlog[u] \in Seq(Entry)
        /\ Len(tlog'[u]) = Len(tlog[u]) + 1
        /\ \A i \in 1..Len(tlog[u]) : tlog'[u][i] = tlog[u][i]
    BY <1>5, ApplyLog, ZenonT(30)
  <2>3. Len(tlog[u]) \in Nat
    OBVIOUS
  <2>4. \A i \in 1..Len(tlog[u]) : i \in 1..Len(tlog'[u])
    BY <2>2, <2>3
  <2> HIDE DEF u
  <2>5. CASE T = u
    BY <2>1, <2>2, <2>4, <2>5, Zenon DEF CommitInv
  <2>6. CASE T # u
    BY <2>1, <2>2, <2>6, Zenon DEF CommitInv
  <2> QED
    BY <2>5, <2>6, Zenon
<1> QED
  BY <1>2, <1>3, <1>4, <1>5, LogFrame, Zenon

\* What the history holds is not changed again.
LEMMA HistGrows ==
    ASSUME TypeOK, [Next]_vars
    PROVE  /\ Len(hist) \in Nat /\ Len(hist') \in Nat /\ Len(hist) <= Len(hist')
           /\ \A i \in 1..Len(hist) : hist'[i] = hist[i]
           /\ \A i \in 0..Len(hist) : DBAt(i)' = DBAt(i)
<1>2. /\ Len(hist') \in Nat /\ Len(hist) <= Len(hist')
      /\ \A i \in 1..Len(hist) : hist'[i] = hist[i]
  <2>2. ASSUME NEW n \in Node, Commit(n)
        PROVE  /\ Len(hist') = Len(hist) + 1
               /\ \A i \in 1..Len(hist) : hist'[i] = hist[i]
    BY <2>2, CommitHist, Zenon
  <2>3. ASSUME NEW n \in Node, Elect(n) PROVE hist' = hist
    BY <2>3, Zenon DEF Elect
  <2>4. ASSUME NEW o \in LoggedOp, RaftApply(o) PROVE hist' = hist
    BY <2>4, Zenon DEF RaftApply
  <2> QED
    BY <2>2, <2>3, <2>4, LogFrame
<1>3. \A i \in 0..Len(hist) : DBAt(i)' = DBAt(i)
  BY <1>2 DEF DBAt, TypeOK, RaftTypes
<1> QED
  BY <1>2, <1>3

\* A node is fed committed entries only.
LEMMA KnownStep ==
    ASSUME TypeOK, KnownInv, [Next]_vars
    PROVE  KnownInv'
<1>1. Len(hist) \in Nat /\ Len(hist') \in Nat /\ Len(hist) <= Len(hist')
  BY HistGrows, Zenon
<1>2. /\ applied \in [Node -> Nat] /\ tcommit \in Seq(Nat) /\ Len(tcommit) = Len(tlog)
      /\ Len(tlog) \in Nat
      /\ \A n \in Node : IsLeader(n) => epoch[n] \in 1..Len(tlog)
  BY DEF TypeOK, RaftTypes, NodeTypes, Term
<1>3. \A t \in 1..Len(tlog) : tcommit[t] \in Nat
  BY <1>2, ElementOfSeq, Zenon
<1>4. ASSUME NEW n \in Node, Elect(n) PROVE KnownInv'
  <2>1. /\ tcommit' = Append(tcommit, Len(hist)) /\ hist' = hist /\ applied' = applied
        /\ Len(tlog') = Len(tlog) + 1
    <3>1. Len(tlog') = Len(tlog) + 1
      BY <1>4, ElectLog, Zenon
    <3>2. tcommit' = Append(tcommit, Len(hist)) /\ hist' = hist /\ applied' = applied
      BY <1>4, Zenon DEF Elect, nodeVars
    <3> QED
      BY <3>1, <3>2, Zenon
  <2>2. /\ \A t \in 1..Len(tcommit) : tcommit'[t] = tcommit[t]
        /\ tcommit'[Len(tcommit) + 1] = Len(hist)
    BY <2>1
  <2> QED
    BY <1>1, <1>2, <1>3, <2>1, <2>2, SMTT(30) DEF KnownInv
<1>5. ASSUME NEW n \in Node, Commit(n) PROVE KnownInv'
  <2>1. /\ tlog' = tlog /\ applied' = applied
        /\ Len(hist') = Len(hist) + 1
        /\ \A t \in 1..Len(tlog) : tcommit'[t] = IF t = Term THEN Len(hist) + 1 ELSE tcommit[t]
    BY <1>5, CommitHist, ZenonT(30) DEF Commit, nodeVars
  <2>2. ASSUME NEW t \in 1..Len(tlog) PROVE tcommit'[t] <= Len(hist')
    BY <1>3, <2>1 DEF KnownInv
  <2>3. ASSUME NEW m \in Node PROVE applied'[m] <= Len(hist')
    BY <1>2, <2>1 DEF KnownInv
  <2> QED
    BY <2>1, <2>2, <2>3, Zenon DEF KnownInv
<1>6. ASSUME NEW n \in Node, Apply(n) PROVE KnownInv'
  <2>1. /\ applied[n] < KnownCommit(n)
        /\ applied' = [applied EXCEPT ![n] = applied[n] + 1]
        /\ UNCHANGED <<tlog, tcommit, hist>>
    BY <1>6, Zenon DEF Apply, ApplyExec, ApplyExecBusy, ApplyQuery, SkipNoop, Feed, raftVars
  <2>5. \A m \in Node : applied'[m] <= Len(hist)
    BY <2>1, <1>2, SMTT(30) DEF KnownInv, KnownCommit
  <2> QED
    BY <2>1, <2>5, Zenon DEF KnownInv
<1>7. ASSUME Len(tlog') = Len(tlog), UNCHANGED <<tcommit, applied>> PROVE KnownInv'
  BY <1>1, <1>2, <1>3, <1>7, SMTT(30) DEF KnownInv
<1>8. ASSUME NEW o \in LoggedOp, RaftApply(o) PROVE KnownInv'
  <2> QED
    BY <1>7, <1>8 DEF RaftApply, nodeVars
<1>9. ASSUME NEW n \in Node, StepDown(n) \/ Crash(n) \/ Close(n) PROVE KnownInv'
  BY <1>7, <1>9, ZenonT(30) DEF StepDown, Crash, Close, nodeVars
<1>10. ASSUME NEW o \in Op, \/ EnqueueTimeout(o) \/ EndWeak(o)
                            \/ \E n \in Node : CallLogged(o, n) \/ CallWeak(o, n)
       PROVE KnownInv'
  BY <1>7, <1>10, ZenonT(30) DEF EnqueueTimeout, EndWeak, CallLogged, CallWeak, Begin, raftVars, nodeVars
<1>11. CASE UNCHANGED vars
  BY <1>7, <1>11, Zenon DEF vars, raftVars, nodeVars
<1> QED
  BY <1>4, <1>5, <1>6, <1>8, <1>9, <1>10, <1>11, Zenon DEF Next, Raft, Op

\* The databases of new history entries follow from the old ones.
LEMMA ChainStep ==
    ASSUME TypeOK, ChainInv, [Next]_vars
    PROVE  ChainInv'
<1>1. /\ Len(hist) \in Nat
      /\ \A i \in 1..Len(hist) : hist'[i] = hist[i]
      /\ \A i \in 0..Len(hist) : DBAt(i)' = DBAt(i)
  BY HistGrows, Zenon
<1>2. ASSUME NEW i \in 1..Len(hist) PROVE hist'[i].db = After(DBAt(i - 1)', hist'[i].op)
  BY <1>1 DEF ChainInv
<1>3. CASE hist' = hist
  BY <1>2, <1>3, Zenon DEF ChainInv
<1>4. ASSUME NEW n \in Node, Commit(n) PROVE ChainInv'
  <2>1. /\ Len(hist') = Len(hist) + 1
        /\ hist'[Len(hist) + 1].db = After(DBAt(Len(hist)), hist'[Len(hist) + 1].op)
    BY <1>4, CommitHist, Zenon
  <2>3. ASSUME NEW i \in 1..Len(hist') PROVE hist'[i].db = After(DBAt(i - 1)', hist'[i].op)
    BY <1>2, <1>1, <2>1
  <2> QED
    BY <2>3, Zenon DEF ChainInv
<1>5. ASSUME NEW n \in Node, Elect(n) PROVE hist' = hist
  BY <1>5, Zenon DEF Elect
<1>6. ASSUME NEW o \in LoggedOp, RaftApply(o) PROVE hist' = hist
  BY <1>6, Zenon DEF RaftApply
<1> QED
  BY <1>3, <1>4, <1>5, <1>6, LogFrame, Zenon
=============================================================================
