---------------------------- MODULE ClusterCalls -----------------------------
(***************************************************************************)
(* The requests to /join and /leave: what a step can do to them and to the *)
(* logs, type correctness, and what an answered request has in the log.    *)
(***************************************************************************)
EXTENDS Cluster, FiniteSetTheorems, TLAPS

\* What a request may be at each point of its way.
RequestOK(r) ==
    /\ r.st = "idle" \/ r.at \in Proc
    /\ r.st = "remove" => r.todo >= 1
    /\ r.index > 0 => r.st = "done"
    /\ r.st = "leave" => r.kind = "leave"
    /\ r.st \in {"sent", "scan", "remove", "add"} => r.kind = "join"

CallInv ==
    \A c \in Call : RequestOK(call[c]) /\ (c \in Joiner /\ pc[c] = "off" => call[c].st = "idle")

\* Only a process that runs leads, in a term that it was elected in.
RoleInv == \A p \in Proc : role[p] = "Leader" => Running(p) /\ term[p] # 0

\* A leader that lets a request wait has its change at the end of its log.
WaitInv ==
    \A p \in Proc : waits[p] # Nobody =>
        /\ role[p] = "Leader" /\ commit[p] < Len(log[p])
        /\ call[waits[p]].st # "remove" => Grants(Conf(p), call[waits[p]])

\* A configuration has no name and no address twice.
Single(C) == \A s, u \in C : s.id = u.id \/ s.addr = u.addr => s = u
SingleInv == \A p \in Proc : \A i \in 1..Len(log[p]) : Single(log[p][i].conf)

BaseInv == TypeOK /\ CallInv /\ RoleInv /\ WaitInv /\ SingleInv

-----------------------------------------------------------------------------
(* What a step does to the requests *)

\* No leader waits for request c.
Free(c) == \A p \in Proc : waits[p] # c

\* Request c becomes r.
Turns(c, r) ==
    /\ call' = [call EXCEPT ![c] = r] /\ UNCHANGED waits /\ Free(c)
    /\ r \in Request /\ RequestOK(r) /\ r.st # "idle" /\ r.index = call[c].index
    /\ call[c].st = "idle" \/ (r.kind = call[c].kind /\ r.srv = call[c].srv)
    /\ Distinct => r.st # "remove" \/ call[c].st = "remove"

\* C is the configuration that request c asks raft for.
Wants(c, C) ==
    /\ C \in SUBSET Server /\ Single(C) /\ call[c].st \in {"remove", "add", "leave"}
    /\ C = IF call[c].st = "add" THEN Others(c) \cup {call[c].srv} ELSE Others(c)

\* Leader p appends it.
Grows(p, C) ==
    /\ role[p] = "Leader" /\ commit[p] = Len(log[p])
    /\ log' = [log EXCEPT ![p] = Append(@, [term |-> term[p], conf |-> C])]
    /\ UNCHANGED <<pc, role, term, commit>>

\* It does so for request c, and waits.
Appends(c, p, C) ==
    /\ call[c].at = p /\ Wants(c, C) /\ Grows(p, C)
    /\ waits' = [waits EXCEPT ![p] = c] /\ UNCHANGED call

\* What a handler's step does.
Handled(c) ==
    \/ (\E r : Turns(c, r)) /\ UNCHANGED <<pc, raftVars>>
    \/ \E p \in Proc : \E C : Appends(c, p, C)

\* The fields of a request.
LEMMA Fields ==
    ASSUME NEW r \in Request
    PROVE  /\ r.st \in {"idle", "sent", "scan", "remove", "add", "leave", "done"}
           /\ r.kind \in {"join", "leave"} /\ r.srv \in Server /\ r.at \in Proc \cup {Nobody}
           /\ r.todo \in 0..2 /\ r.index \in Nat
  BY Zenon DEF Request

\* What the invariant says of one request.
LEMMA OfRequest ==
    ASSUME BaseInv, NEW c \in Call
    PROVE  /\ call \in [Call -> Request] /\ call[c] \in Request /\ RequestOK(call[c])
           /\ call[c].srv \in Server /\ call[c].todo \in 0..2
  BY Fields DEF BaseInv, TypeOK, CallInv

\* A request that is served waits for no leader.
LEMMA NotWaiting ==
    ASSUME BaseInv, NEW c \in Call, waits[call[c].at] # c \/ call[c].st \in {"idle", "done"}
    PROVE  Free(c)
<1>1. c # Nobody
  BY ClusterAssumption, Zenon DEF Call
<1> QED
  BY <1>1, Zenon DEF BaseInv, TypeOK, Free

\* A request ends.
LEMMA Ends ==
    ASSUME call \in [Call -> Request], NEW c \in Call, RequestOK(call[c]), call[c].st # "idle",
           NEW status \in Status, Respond(c, status)
    PROVE  \E r \in Request : /\ call' = [call EXCEPT ![c] = r] /\ RequestOK(r) /\ r.st = "done"
                              /\ r.kind = call[c].kind /\ r.srv = call[c].srv /\ r.index = call[c].index
<1> DEFINE r == [call[c] EXCEPT !.st = "done", !.status = status]
<1>1. call' = [call EXCEPT ![c] = r]
  BY Zenon DEF Respond
<1>2. r \in Request
  BY Zenon DEF Request
<1>3. /\ r.st = "done" /\ r.index = call[c].index
      /\ r.kind = call[c].kind /\ r.srv = call[c].srv /\ r.at = call[c].at
  BY DEF Request
<1>4. RequestOK(r)
  BY <1>3, Zenon DEF RequestOK
<1> HIDE DEF r
<1> QED
  BY <1>1, <1>2, <1>3, <1>4, Zenon

\* A handler answers.
LEMMA Answers ==
    ASSUME BaseInv, NEW c \in Call, call[c].st # "idle", Free(c), NEW status,
           status \in {200, 301, 500, 503}, Respond(c, status), UNCHANGED <<pc, raftVars, waits>>
    PROVE  Handled(c)
  BY OfRequest, Ends DEF Status, Turns, Handled

\* The node does not lead.
LEMMA Refuses ==
    ASSUME BaseInv, NEW c \in Call, call[c].st # "idle", Free(c), NotLeader(c)
    PROVE  Handled(c)
  BY Answers DEF NotLeader

Passed(r, todo, st) == [r EXCEPT !.todo = todo, !.st = st]

\* A request goes on to another point of its handler.
LEMMA Passes ==
    ASSUME BaseInv, NEW c \in Call, call[c].st \in {"sent", "scan"}, Free(c),
           NEW st \in {"scan", "remove", "add"}, NEW todo \in 0..2, st = "remove" => todo >= 1 /\ ~Distinct,
           call' = [call EXCEPT ![c] = Passed(call[c], todo, st)], UNCHANGED <<pc, raftVars, waits>>
    PROVE  Handled(c)
<1>1. call[c] \in Request /\ RequestOK(call[c])
  BY OfRequest, Zenon
<1> DEFINE r == Passed(call[c], todo, st)
<1>2. /\ r \in Request /\ r.st = st /\ r.todo = todo /\ r.index = call[c].index
      /\ r.kind = call[c].kind /\ r.srv = call[c].srv /\ r.at = call[c].at
  BY <1>1, Zenon DEF Request, Passed
<1>4. Turns(c, r)
  BY <1>2, <1>1, Zenon DEF Turns, RequestOK
<1> QED
  BY <1>4, Zenon DEF Handled

\* The handler asks raft for a change.
LEMMA Changes ==
    ASSUME BaseInv, NEW c \in Call, call[c].st \in {"remove", "add", "leave"}, Free(c),
           NEW C, NEW valid, Change(c, C, valid), valid => Wants(c, C)
    PROVE  Handled(c)
<1>2. CASE valid
  <2>1. Appends(c, call[c].at, C)
    BY <1>2, Zenon DEF Change, Appends, Grows
  <2> QED
    BY <2>1, OfRequest, Zenon DEF Handled, RequestOK
<1>3. CASE ~valid
  BY <1>3, Answers DEF Change, raftVars
<1> QED
  BY <1>2, <1>3, Zenon

\* The configuration of a process is one of servers, each there once.
LEMMA ConfSingle ==
    ASSUME TypeOK, SingleInv, NEW p \in Proc
    PROVE  Conf(p) \in SUBSET Server /\ Single(Conf(p))
<1>1. log[p] \in Seq(Entry)
  BY Zenon DEF TypeOK
<1>2. CASE log[p] = <<>>
  BY <1>2, Zenon DEF Conf, Single
<1>3. CASE log[p] # <<>>
  <2>1. Len(log[p]) \in 1..Len(log[p])
    BY <1>1, <1>3
  <2>2. log[p][Len(log[p])] \in Entry
    BY <1>1, <2>1
  <2> QED
    BY <2>1, <2>2 DEF Conf, SingleInv, Entry
<1> QED
  BY <1>2, <1>3, Zenon

\* So is it without a server.
LEMMA OthersSingle ==
    ASSUME BaseInv, NEW c \in Call, call[c].at \in Proc
    PROVE  Others(c) \in SUBSET Server /\ Single(Others(c))
  BY ConfSingle, Zenon DEF BaseInv, Others, Single

\* At most two servers have the name or the address of another.
LEMMA AtMostTwo ==
    ASSUME NEW C \in SUBSET Server, Single(C), NEW r
    PROVE  LET same == {s \in C : s.id = r.id \/ s.addr = r.addr}
           IN  Cardinality(same) \in 0..2 /\ (same # {} => Cardinality(same) >= 1)
<1> DEFINE same == {s \in C : s.id = r.id \/ s.addr = r.addr}
<1>1. PICK a, b : same \subseteq {a, b}
  BY DEF Single
<1>2. IsFiniteSet({a, b}) /\ Cardinality({a, b}) <= 2
  <2>1. IsFiniteSet({a}) /\ Cardinality({a}) = 1
    BY FS_Singleton, Zenon
  <2>2. {a, b} = {a} \cup {b}
    BY Zenon
  <2>3. IsFiniteSet({a} \cup {b}) /\ Cardinality({a} \cup {b}) <= 2
    <3>1. /\ IsFiniteSet({a} \cup {b})
          /\ Cardinality({a} \cup {b}) = IF b \in {a} THEN Cardinality({a}) ELSE Cardinality({a}) + 1
      BY <2>1, FS_AddElement, Zenon
    <3>2. \A c : c = (IF b \in {a} THEN 1 ELSE 1 + 1) => c <= 2
      BY ONLY TRUE
    <3> QED
      BY <2>1, <3>1, <3>2, Zenon
  <2> QED
    BY <2>2, <2>3, Zenon
<1>3. IsFiniteSet(same) /\ Cardinality(same) <= Cardinality({a, b}) /\ Cardinality({a, b}) \in Nat
  BY <1>1, <1>2, FS_Subset, FS_CardinalityType, Zenon
<1> DEFINE c == Cardinality(same)
           d == Cardinality({a, b})
<1>4. c \in Nat /\ (same # {} => c # 0)
  BY <1>3, FS_CardinalityType, FS_EmptySet, Zenon
<1>5. c <= d /\ d \in Nat /\ d <= 2
  BY <1>2, <1>3, Zenon
<1> HIDE DEF c, d
<1>6. c \in 0..2 /\ (c # 0 => c >= 1)
  BY ONLY <1>4, <1>5
<1> QED
  BY <1>4, <1>6, Zenon DEF c

\* Under Distinct no server has the name or the address of another.
LEMMA DistinctServers ==
    ASSUME Distinct, NEW s \in Server, NEW u \in Server, s.id = u.id \/ s.addr = u.addr
    PROVE  s = u
  BY DEF Distinct, Server, Srv

\* JoinScans looks for the servers that are to be removed.
LEMMA Scans ==
    ASSUME BaseInv, NEW c \in Call, JoinScans(c)
    PROVE  Handled(c)
<1> DEFINE p == call[c].at
           srv == call[c].srv
           same == {s \in Conf(p) : s.id = srv.id \/ s.addr = srv.addr}
<1>1. call[c].st = "scan" /\ UNCHANGED <<pc, raftVars, waits>>
  BY Zenon DEF JoinScans, At
<1>2. Free(c) /\ p \in Proc /\ srv \in Server
  BY NotWaiting, OfRequest, Zenon DEF JoinScans, At, RequestOK
<1>3. CASE Respond(c, 200)
  BY <1>1, <1>2, <1>3, Answers
<1>4. CASE /\ srv \notin Conf(p)
           /\ call' = [call EXCEPT ![c].todo = Cardinality(same), ![c].st = IF same = {} THEN "add" ELSE "remove"]
  <2>1. Conf(p) \in SUBSET Server /\ Single(Conf(p))
    BY <1>2, ConfSingle, Zenon DEF BaseInv
  <2>2. Cardinality(same) \in 0..2 /\ (same # {} => Cardinality(same) >= 1)
    BY <2>1, AtMostTwo, Zenon
  <2>3. same # {} => ~Distinct
    BY <1>2, <1>4, <2>1, DistinctServers, Zenon
  <2>4. PICK todo \in 0..2, st \in {"scan", "remove", "add"} :
           todo = Cardinality(same) /\ st = (IF same = {} THEN "add" ELSE "remove")
    BY <2>2, Zenon
  <2>5. call' = [call EXCEPT ![c] = Passed(call[c], todo, st)]
    BY <1>4, <2>4, OfRequest, Zenon DEF Passed
  <2>6. st = "remove" => todo >= 1 /\ ~Distinct
    BY <2>2, <2>3, <2>4, Zenon
  <2> QED
    BY <1>1, <1>2, <2>5, <2>6, Passes, Zenon
<1> QED
  BY <1>3, <1>4, Zenon DEF JoinScans

\* A handler's step.
LEMMA HandlerShape ==
    ASSUME BaseInv, NEW c \in Call, Handler(c)
    PROVE  Handled(c) /\ call[c].st # "idle"
<1>1. ASSUME NEW st, At(c, st) PROVE call[c].st = st /\ Free(c) /\ (st # "idle" => call[c].at \in Proc)
  BY <1>1, NotWaiting, OfRequest, Zenon DEF At, RequestOK
<1>2. CASE JoinChecks(c)
  <2>1. call[c].st = "sent" /\ Free(c) /\ call[c].todo \in 0..2
    BY <1>1, <1>2, OfRequest, Zenon DEF JoinChecks
  <2>2. CASE NotLeader(c)
    BY <2>1, <2>2, Refuses, Zenon
  <2>3. CASE UNCHANGED <<pc, raftVars, waits>> /\ (Respond(c, 500) \/ call' = [call EXCEPT ![c].st = "scan"])
    <3>1. CASE Respond(c, 500)
      BY <2>1, <2>3, <3>1, Answers
    <3>2. CASE call' = [call EXCEPT ![c].st = "scan"]
      <4>1. call' = [call EXCEPT ![c] = Passed(call[c], call[c].todo, "scan")]
        BY <3>2, OfRequest, Zenon DEF Passed, Request
      <4> QED
        BY <2>1, <2>3, <4>1, Passes, Zenon
    <3> QED
      BY <2>3, <3>1, <3>2
  <2> QED
    BY <1>2, <2>2, <2>3 DEF JoinChecks
<1>3. CASE JoinScans(c)
  <2>1. call[c].st = "scan"
    BY <1>3, Zenon DEF JoinScans, At
  <2> QED
    BY <1>3, <2>1, Scans, Zenon
<1>4. CASE JoinRemoves(c)
  BY <1>1, <1>4, Changes, OthersSingle, Answers, SMTT(30) DEF JoinRemoves, Wants, Others
<1>5. CASE JoinAdds(c)
  <2>1. call[c].st = "add" /\ Free(c) /\ call[c].at \in Proc /\ call[c].srv \in Server
    BY <1>1, <1>5, OfRequest DEF JoinAdds
  <2>2. CASE NotLeader(c)
    BY <2>1, <2>2, Refuses, Zenon
  <2>3. CASE Change(c, Others(c) \cup {call[c].srv}, \A s \in Others(c) : s.addr # call[c].srv.addr)
    <3>2. (\A s \in Others(c) : s.addr # call[c].srv.addr) => Wants(c, Others(c) \cup {call[c].srv})
      BY <2>1, OthersSingle, Zenon DEF Wants, Single, Others
    <3> QED
      BY <2>1, <2>3, <3>2, Changes, Zenon
  <2> QED
    BY <1>5, <2>1, <2>2, <2>3, Zenon DEF JoinAdds
<1>6. CASE Leave(c)
  BY <1>1, <1>6, Refuses, Changes, OthersSingle DEF Leave, Wants
<1>7. CASE Unanswered(c)
  <2>1. Free(c)
    <3> SUFFICES ASSUME NEW q \in Proc, waits[q] = c PROVE FALSE
      BY Zenon DEF Free
    <3>2. call[c].at = q /\ role[q] = "Leader"
      BY ClusterAssumption, ZenonT(60) DEF BaseInv, WaitInv, TypeOK, Call
    <3> QED
      BY <1>7, <3>2 DEF Unanswered, BaseInv, RoleInv
  <2> QED
    BY <2>1, Answers, <1>7 DEF Unanswered
<1> QED
  BY <1>2, <1>3, <1>4, <1>5, <1>6, <1>7, Zenon DEF Handler

-----------------------------------------------------------------------------
(* Types *)

\* The part of the invariant that is about raft.
RaftBase ==
    /\ pc \in [Proc -> {"off", "boot", "join", "serving", "failed", "closed"}]
    /\ role \in [Proc -> {"Follower", "Leader", "Shutdown"}]
    /\ term \in [Proc -> 0..MaxTerm] /\ log \in [Proc -> Seq(Entry)] /\ commit \in [Proc -> Nat]
    /\ \A p \in Proc : role[p] = "Leader" => log[p] # <<>> /\ Running(p) /\ term[p] # 0
    /\ SingleInv

\* The part that is about the requests.
CallBase ==
    /\ call \in [Call -> Request] /\ waits \in [Proc -> Call \cup {Nobody}]
    /\ \A p \in Proc : waits[p] # Nobody =>
          call[waits[p]].at = p /\ call[waits[p]].st \in {"remove", "add", "leave"}
    /\ CallInv

\* How a step looks to raft and to the requests.
Shape ==
    \/ \E p \in Proc : \/ Elect(p) \/ Commit(p) \/ New(p) \/ StepDown(p)
                       \/ \E how \in {"failed", "closed"} : Gone(p, how)
                       \/ \E q \in Proc : Replicate(p, q)
                       \/ /\ pc[p] # "off" /\ Running(p) /\ pc' = [pc EXCEPT ![p] = "serving"]
                          /\ UNCHANGED <<raftVars, call, waits>>
    \/ \E c \in Call : \/ /\ \E r : Turns(c, r)
                          /\ c \in Joiner => call[c].st # "idle"
                          /\ UNCHANGED <<pc, raftVars>>
                       \/ \E p \in Proc : \E C : Appends(c, p, C)

\* An administrator's request is sent.
LEMMA SendTurns ==
    ASSUME BaseInv, NEW c \in Call, call[c].st = "idle", NEW p \in Proc, NEW t \in Proc, UNCHANGED waits,
           NEW kind, NEW st, Send(c, kind, st, p, t),
           (kind = "join" /\ st = "sent") \/ (kind = "leave" /\ st = "leave")
    PROVE  \E r : Turns(c, r)
<1>1. call \in [Call -> Request] /\ call[c] \in Request /\ RequestOK(call[c])
  BY OfRequest, Zenon
<1> DEFINE r == [call[c] EXCEPT !.kind = kind, !.st = st, !.srv = Srv(p), !.at = t]
<1>2. call' = [call EXCEPT ![c] = r]
  BY <1>1, Zenon DEF Send
<1>3. r \in Request
  <2>1. Srv(p) \in Server
    BY Zenon DEF Server
  <2> QED
    BY <1>1, <2>1, Zenon DEF Request
<1>4. r.index = call[c].index /\ r.kind = kind /\ r.st = st /\ r.at = t
  BY <1>1, Zenon DEF Request
<1> HIDE DEF r
<1>5. RequestOK(r)
  BY <1>1, <1>4, Zenon DEF RequestOK
<1>6. Free(c)
  BY NotWaiting, Zenon
<1> QED
  BY <1>2, <1>3, <1>4, <1>5, <1>6, Zenon DEF Turns

\* Every step has such a shape.
LEMMA Shapes ==
    ASSUME BaseInv, Next
    PROVE  Shape
<1>1. Joiner \subseteq Proc /\ Admin \subseteq Call /\ Admin \cap Joiner = {}
  BY ClusterAssumption, Zenon DEF Call
<1>2. CASE \E p \in Proc : Elect(p) \/ Commit(p) \/ StepDown(p) \/ New(p) \/ \E q \in Proc : Replicate(p, q)
  BY <1>2, Zenon DEF Shape
<1>3. ASSUME NEW p \in Proc, BootWaits(p) \/ Close(p) PROVE Shape
  BY <1>3, Zenon DEF Shape, BootWaits, Close, Running
<1>4. ASSUME NEW p \in Joiner, JoinReturns(p) PROVE Shape
  BY <1>1, <1>4 DEF Shape, JoinReturns, Running
<1>5. ASSUME NEW c \in Call, Handler(c) PROVE Shape
  BY <1>5, HandlerShape, Zenon DEF Shape, Handled
<1>6. ASSUME NEW c \in Admin, NEW p \in Proc, NEW t \in Proc, AdminJoin(c, p, t) \/ AdminLeave(c, p, t)
      PROVE  Shape
  BY <1>1, <1>6, SendTurns, Zenon DEF AdminJoin, AdminLeave, Shape
<1> QED
  BY <1>2, <1>3, <1>4, <1>5, <1>6, Zenon DEF Next

\* The two parts and WaitInv make the whole.
LEMMA BaseParts == BaseInv <=> RaftBase /\ CallBase /\ WaitInv
  BY Zenon DEF BaseInv, RaftBase, CallBase, TypeOK, RoleInv

\* A configuration is appended to a log.
LEMMA AppendSingle ==
    ASSUME log \in [Proc -> Seq(Entry)], SingleInv, NEW p \in Proc, NEW e \in Entry, Single(e.conf),
           log' = [log EXCEPT ![p] = Append(log[p], e)]
    PROVE  /\ log' \in [Proc -> Seq(Entry)] /\ SingleInv' /\ log'[p] # <<>>
           /\ \A q \in Proc : q # p => log'[q] = log[q]
<1>1. log[p] \in Seq(Entry) /\ log'[p] = Append(log[p], e) /\ \A q \in Proc : q # p => log'[q] = log[q]
  BY Zenon
<1>2. /\ log'[p] \in Seq(Entry) /\ log'[p] # <<>>
      /\ \A i \in 1..Len(log'[p]) : \/ i \in 1..Len(log[p]) /\ log'[p][i] = log[p][i]
                                    \/ log'[p][i] = e
  BY <1>1
<1>3. SingleInv'
  BY <1>1, <1>2, Zenon DEF SingleInv
<1> QED
  BY <1>1, <1>2, <1>3, Zenon

\* The invariant about raft after every step.
LEMMA RaftBaseStep ==
    ASSUME BaseInv, Shape
    PROVE  RaftBase'
<1>1. RaftBase /\ CallBase /\ TypeOK /\ SingleInv
  BY BaseParts, Zenon DEF RaftBase, BaseInv
<1>2. /\ pc \in [Proc -> {"off", "boot", "join", "serving", "failed", "closed"}]
      /\ role \in [Proc -> {"Follower", "Leader", "Shutdown"}]
      /\ term \in [Proc -> 0..MaxTerm] /\ log \in [Proc -> Seq(Entry)] /\ commit \in [Proc -> Nat]
      /\ \A p \in Proc : role[p] = "Leader" => log[p] # <<>> /\ Running(p) /\ term[p] # 0
  BY <1>1, Zenon DEF RaftBase
<1>3. UNCHANGED <<pc, raftVars>> => RaftBase'
  BY <1>1, Zenon DEF RaftBase, raftVars, SingleInv, Running
<1>4. \A p \in Proc : Len(log[p]) \in Nat
  BY <1>2
<1>5. ASSUME NEW p \in Proc, Elect(p) PROVE RaftBase'
  <2>1. PICK t \in term[p] + 1..MaxTerm :
           /\ log' = [log EXCEPT ![p] = Append(log[p], [term |-> t, conf |-> Conf(p)])]
           /\ \E S : p \in S /\ term' = [q \in Proc |-> IF q \in S THEN t ELSE term[q]]
    <3>1. PICK t \in term[p] + 1..MaxTerm : \E V :
             /\ \E s \in V : s.id = Id(p)
             /\ term' = [q \in Proc |-> IF \E s \in V : Reaches(p, s, q) THEN t ELSE term[q]]
             /\ log' = [log EXCEPT ![p] = Append(@, [term |-> t, conf |-> Conf(p)])]
      BY <1>5, Zenon DEF Elect
    <3>2. PICK V : /\ \E s \in V : s.id = Id(p)
                   /\ term' = [q \in Proc |-> IF \E s \in V : Reaches(p, s, q) THEN t ELSE term[q]]
      BY <3>1, Zenon
    <3>3. \E S : p \in S /\ term' = [q \in Proc |-> IF q \in S THEN t ELSE term[q]]
      <4> DEFINE S == {x \in Proc : \E s \in V : Reaches(p, s, x)}
      <4>1. p \in S
        BY <3>2, Zenon DEF Reaches
      <4>2. term' = [q \in Proc |-> IF q \in S THEN t ELSE term[q]]
        BY <3>2, Zenon
      <4> QED
        BY <4>1, <4>2, Zenon
    <3> QED
      BY <3>1, <3>3, Zenon
  <2>3. [term |-> t, conf |-> Conf(p)] \in Entry /\ Single(Conf(p))
    BY <1>1, ConfSingle, <1>2 DEF Entry
  <2>4. /\ log' \in [Proc -> Seq(Entry)] /\ SingleInv' /\ log'[p] # <<>>
        /\ \A q \in Proc : q # p => log'[q] = log[q]
    BY <1>1, <1>2, <2>1, <2>3, AppendSingle, Zenon
  <2>5. term' \in [Proc -> 0..MaxTerm] /\ \A q \in Proc : term'[q] = 0 => q # p /\ term[q] = 0
    BY <1>2, <2>1, SMTT(30)
  <2>6. UNCHANGED <<pc, commit>> /\ role' = [role EXCEPT ![p] = "Leader"] /\ Running(p)
    BY <1>5, Zenon DEF Elect
  <2> QED
    BY <1>2, <2>4, <2>5, <2>6, Zenon DEF RaftBase, Running
<1>6. ASSUME NEW p \in Proc, NEW q \in Proc, Replicate(p, q) PROVE RaftBase'
  <2>1. /\ log' = [log EXCEPT ![q] = log[p]] /\ term' = [term EXCEPT ![q] = term[p]] /\ pc' = pc
        /\ commit' = [commit EXCEPT ![q] = IF @ < commit[p] THEN commit[p] ELSE @]
        /\ role' = [role EXCEPT ![q] = "Follower"]
    BY <1>6, Zenon DEF Replicate
  <2>2. SingleInv'
    BY <1>1, <1>2, <2>1, SMTT(30) DEF SingleInv, Single
  <2> QED
    BY <1>2, <2>1, <2>2, Zenon DEF RaftBase, Running
<1>7. ASSUME NEW p \in Proc, Commit(p) PROVE RaftBase'
  <2>1. UNCHANGED <<pc, term, log>> /\ commit' = [commit EXCEPT ![p] = Len(log[p])]
    BY <1>7, Zenon DEF Commit
  <2>2. role' = role \/ role' = [role EXCEPT ![p] = "Shutdown"]
    BY <1>7, Zenon DEF Commit
  <2>3. SingleInv' <=> SingleInv
    BY <2>1 DEF SingleInv, Single
  <2> QED
    BY <1>1, <1>2, <1>4, <2>1, <2>2, <2>3, Zenon DEF RaftBase, Running
<1>8. ASSUME NEW p \in Proc, StepDown(p) \/ \E how \in {"failed", "closed"} : Gone(p, how) PROVE RaftBase'
  <2>1. /\ UNCHANGED <<term, log, commit>>
        /\ \E x \in {"Follower", "Shutdown"} : role' = [role EXCEPT ![p] = x]
        /\ pc' = pc \/ \E how \in {"failed", "closed"} : pc' = [pc EXCEPT ![p] = how]
    BY <1>8, Zenon DEF StepDown, Gone
  <2>2. SingleInv' <=> SingleInv
    BY <2>1 DEF SingleInv, Single
  <2> QED
    BY <1>1, <1>2, <2>1, <2>2, ZenonT(60) DEF RaftBase, Running
<1>9. ASSUME NEW p \in Proc, New(p) PROVE RaftBase'
  <2>1. /\ pc[p] = "off" /\ UNCHANGED <<role, commit>>
        /\ \E x \in {"failed", "boot", "join", "serving"} : pc' = [pc EXCEPT ![p] = x]
    BY <1>9, Zenon DEF New
  <2>2. CASE UNCHANGED <<log, term>>
    BY <2>2, <1>1, <2>1 DEF SingleInv, RaftBase, Running
  <2>3. CASE Bootstrap(p)
    <3>1. [term |-> 1, conf |-> {Srv(p)}] \in Entry
      BY ClusterAssumption DEF Entry, Server
    <3>2. PICK e \in Entry : e = [term |-> 1, conf |-> {Srv(p)}]
      BY <3>1, Zenon
    <3>3. log' = [log EXCEPT ![p] = <<e>>] /\ term' = [term EXCEPT ![p] = 1] /\ e.conf = {Srv(p)}
      BY <2>3, <3>2, Zenon DEF Bootstrap
    <3>4. log' \in [Proc -> Seq(Entry)] /\ SingleInv'
      BY <1>1, <1>2, <3>3, SMTT(30) DEF SingleInv, Single
    <3> QED
      BY <1>2, <2>1, <3>3, <3>4, ClusterAssumption, SMTT(30) DEF RaftBase, Running
  <2> QED
    BY <1>9, <2>2, <2>3, Zenon DEF New
<1>10. ASSUME NEW p \in Proc, pc' = [pc EXCEPT ![p] = "serving"], UNCHANGED raftVars PROVE RaftBase'
  BY <1>10, <1>1, Zenon DEF SingleInv, raftVars, RaftBase, Running
<1>11. ASSUME NEW c \in Call, NEW p \in Proc, NEW C, Appends(c, p, C) PROVE RaftBase'
  <2>1. Grows(p, C) /\ C \in SUBSET Server /\ Single(C)
    BY <1>11, Zenon DEF Appends, Wants
  <2>3. [term |-> term[p], conf |-> C] \in Entry
    BY <2>1, <1>2 DEF Entry, Grows
  <2>4. /\ log' \in [Proc -> Seq(Entry)] /\ SingleInv' /\ log'[p] # <<>>
        /\ \A q \in Proc : q # p => log'[q] = log[q]
    BY <1>1, <1>2, <2>1, <2>3, AppendSingle, Zenon DEF Grows
  <2> QED
    BY <1>2, <2>4, <2>1, Zenon DEF RaftBase, Running, Grows
<1> QED
  BY <1>3, <1>5, <1>6, <1>7, <1>8, <1>9, <1>10, <1>11, Zenon DEF Shape

-----------------------------------------------------------------------------
(* The requests *)

\* No request is forgotten or asked anew; one that gets an index has waited
\* for the leader that commits there.
Kept ==
    \A c \in Call :
        /\ call[c].st # "idle" => /\ call'[c].st # "idle"
                                  /\ call'[c].kind = call[c].kind /\ call'[c].srv = call[c].srv
        /\ call'[c].index # call[c].index =>
              \E p \in Proc : /\ Commit(p) /\ waits[p] = c /\ call[c].st # "remove" /\ call[c].index = 0
                              /\ call'[c].index = Len(log[p])
        /\ Distinct /\ call'[c].st = "remove" => call[c].st = "remove"

\* The request that q waits for is as it was.
Still(q) == waits'[q] # Nobody => waits'[q] = waits[q] /\ call'[waits[q]] = call[waits[q]]

\* One request, for which at most p waits, becomes r.
LEMMA OneCall ==
    ASSUME CallBase, NEW c \in Call, NEW r \in Request, RequestOK(r), r.st # "idle",
           call' = [call EXCEPT ![c] = r],
           \A d \in Joiner : pc'[d] = "off" => pc[d] = "off" /\ (d = c => call[c].st # "idle"),
           waits' \in [Proc -> Call \cup {Nobody}],
           \A q \in Proc : waits'[q] # Nobody => waits'[q] = waits[q] /\ waits[q] # c
    PROVE  CallBase' /\ \A q \in Proc : Still(q)
  BY DEF CallBase, CallInv, Still

\* No request changes.
LEMMA NoCallChanges ==
    ASSUME CallBase, UNCHANGED call, \A d \in Joiner : pc'[d] = "off" => pc[d] = "off",
           waits' \in [Proc -> Call \cup {Nobody}],
           \A q \in Proc : waits'[q] # Nobody => waits'[q] = waits[q]
    PROVE  CallBase' /\ Kept /\ \A q \in Proc : Still(q)
  BY DEF CallBase, CallInv, Kept, Still

\* A leader stops.
LEMMA FailCalls ==
    ASSUME CallBase, NEW p \in Proc, FailWaiting(p), \A d \in Joiner : pc'[d] = "off" => pc[d] = "off"
    PROVE  /\ CallBase' /\ Kept /\ waits'[p] = Nobody /\ \A q \in Proc : Still(q)
           /\ \A q \in Proc : waits'[q] # Nobody => q # p
<1>1. waits \in [Proc -> Call \cup {Nobody}] /\ call \in [Call -> Request] /\ CallInv
  BY Zenon DEF CallBase
<1>2. /\ waits' \in [Proc -> Call \cup {Nobody}] /\ waits'[p] = Nobody
      /\ \A q \in Proc : waits'[q] # Nobody => waits'[q] = waits[q] /\ q # p
  BY <1>1 DEF FailWaiting
<1>3. CASE waits[p] = Nobody
  BY <1>3, <1>2, NoCallChanges DEF FailWaiting
<1>4. CASE waits[p] # Nobody
  <2>1. PICK c \in Call : c = waits[p]
    BY <1>1, <1>4, Zenon
  <2>3. \A q \in Proc : waits'[q] # Nobody => waits'[q] = waits[q] /\ waits[q] # c
    BY <1>2, <2>1 DEF CallBase
  <2>4. call[c] \in Request /\ RequestOK(call[c]) /\ call[c].st \in {"remove", "add", "leave"}
    BY <1>4, <2>1 DEF CallBase, CallInv
  <2>5. PICK r \in Request : /\ call' = [call EXCEPT ![c] = r] /\ RequestOK(r) /\ r.st = "done"
                             /\ r.kind = call[c].kind /\ r.srv = call[c].srv /\ r.index = call[c].index
    BY <2>4, <1>1, Ends, <1>4, <2>1 DEF Status, FailWaiting
  <2>9. CallBase' /\ \A q \in Proc : Still(q)
    BY <1>2, <2>3, <2>4, <2>5, OneCall, Zenon
  <2> QED
    BY <1>2, <2>9, <2>5 DEF Kept
<1> QED
  BY <1>3, <1>4, Zenon

\* A handler or New goes on.
LEMMA TurnCalls ==
    ASSUME CallBase, NEW c \in Call, NEW r, Turns(c, r),
           \A d \in Joiner : pc'[d] = "off" => pc[d] = "off" /\ (d = c => call[c].st # "idle")
    PROVE  CallBase' /\ Kept /\ \A q \in Proc : Still(q)
<1>1. waits \in [Proc -> Call \cup {Nobody}] /\ call \in [Call -> Request]
  BY Zenon DEF CallBase
<1>2. CallBase' /\ \A q \in Proc : Still(q)
  BY <1>1, OneCall, Zenon DEF Turns, Free
<1> QED
  BY <1>2 DEF Turns, Kept

\* A leader commits.
LEMMA CommitCalls ==
    ASSUME RaftBase, CallBase, NEW p \in Proc, Commit(p)
    PROVE  /\ CallBase' /\ Kept /\ waits'[p] = Nobody /\ \A q \in Proc : Still(q)
           /\ \A q \in Proc : waits'[q] # Nobody => q # p
<1>1. /\ waits \in [Proc -> Call \cup {Nobody}] /\ call \in [Call -> Request] /\ CallInv
      /\ waits' = [waits EXCEPT ![p] = Nobody] /\ pc' = pc
  BY Zenon DEF CallBase, Commit
<1>2. /\ waits' \in [Proc -> Call \cup {Nobody}] /\ waits'[p] = Nobody
      /\ \A q \in Proc : waits'[q] # Nobody => waits'[q] = waits[q] /\ q # p
  BY <1>1, Zenon
<1>3. CASE waits[p] = Nobody
  BY <1>3, <1>1, NoCallChanges, Zenon DEF Commit
<1>4. CASE waits[p] # Nobody
  <2>1. PICK c \in Call : c = waits[p]
    BY <1>1, <1>4, Zenon
  <2>2. \A q \in Proc : waits'[q] # Nobody => waits'[q] = waits[q] /\ waits[q] # c
    BY <1>2, <2>1 DEF CallBase
  <2>3. /\ call[c] \in Request /\ RequestOK(call[c]) /\ call[c].st \in {"remove", "add", "leave"}
        /\ call[c].index \in Nat /\ call[c].index = 0
    BY <1>4, <2>1, Fields DEF CallBase, CallInv, RequestOK
  <2>4. PICK n \in Nat : n = Len(log[p])
    BY DEF RaftBase
  <2> DEFINE r == Advance(call[c], n)
  <2>5. call' = [call EXCEPT ![c] = r]
    BY <1>4, <2>1, <2>4, Zenon DEF Commit
  <2>6. r \in Request
    <3>1. 200 \in Status
      BY DEF Status
    <3>2. CASE call[c].st = "remove"
      <4>1. call[c].todo - 1 \in 0..2
        BY <2>3, <3>2, Fields DEF RequestOK
      <4> QED
        BY <2>3, <3>2, <4>1, Zenon DEF Request, Advance
    <3>3. CASE call[c].st # "remove"
      BY <2>3, <3>1, <3>3, ZenonT(60) DEF Request, Advance
    <3> QED
      BY <3>2, <3>3, Zenon
  <2>7. /\ r.kind = call[c].kind /\ r.srv = call[c].srv /\ r.at = call[c].at
        /\ call[c].st = "remove" => /\ r.index = call[c].index /\ r.todo = call[c].todo - 1
                                    /\ r.st = IF call[c].todo = 1 THEN "add" ELSE "remove"
        /\ call[c].st # "remove" => r.index = n /\ r.st = "done"
    BY DEF Advance
  <2> HIDE DEF r
  <2>8. RequestOK(r) /\ r.st # "idle"
    BY <2>3, <2>7, Fields DEF RequestOK
  <2>9. CallBase' /\ \A q \in Proc : Still(q)
    BY <1>1, <1>2, <2>2, <2>3, <2>5, <2>6, <2>8, OneCall, Zenon
  <2>10. Kept
    BY <1>1, <2>1, <2>3, <2>4, <2>5, <2>7, Zenon DEF Kept
  <2> QED
    BY <1>2, <2>9, <2>10, Zenon
<1> QED
  BY <1>3, <1>4, Zenon

\* A leader's request waits on as long as nothing happens to either.
LEMMA WaitKept ==
    ASSUME WaitInv, \A q \in Proc : Still(q),
           \A q \in Proc : waits[q] # Nobody /\ waits'[q] # Nobody =>
               role'[q] = role[q] /\ commit'[q] = commit[q] /\ log'[q] = log[q]
    PROVE  WaitInv'
  BY DEF WaitInv, Still, Conf

\* The invariants about requests after every step.
LEMMA CallStep ==
    ASSUME BaseInv, Shape
    PROVE  CallBase' /\ WaitInv' /\ Kept
<1>1. RaftBase /\ CallBase /\ WaitInv
  BY BaseParts, Zenon
<1>2. /\ pc \in [Proc -> {"off", "boot", "join", "serving", "failed", "closed"}]
      /\ role \in [Proc -> {"Follower", "Leader", "Shutdown"}]
      /\ log \in [Proc -> Seq(Entry)] /\ commit \in [Proc -> Nat]
      /\ waits \in [Proc -> Call \cup {Nobody}] /\ Joiner \subseteq Proc /\ Boot \notin Joiner
  BY <1>1, ClusterAssumption, Zenon DEF RaftBase, CallBase
<1>3. \A q \in Proc : waits[q] # Nobody => role[q] = "Leader" /\ Running(q) /\ commit[q] < Len(log[q])
  BY <1>1, Zenon DEF RaftBase, WaitInv
<1>4. ASSUME NEW p \in Proc, Elect(p) PROVE CallBase' /\ WaitInv' /\ Kept
  BY <1>4, <1>1, <1>2, NoCallChanges, <1>3, WaitKept DEF Elect
<1>5. ASSUME NEW p \in Proc, NEW q \in Proc, Replicate(p, q) PROVE CallBase' /\ WaitInv' /\ Kept
  BY <1>1, <1>5, FailCalls, WaitKept DEF Replicate
<1>6. ASSUME NEW p \in Proc, Commit(p) PROVE CallBase' /\ WaitInv' /\ Kept
  <2>2. \A q \in Proc : q # p => role'[q] = role[q] /\ commit'[q] = commit[q] /\ log'[q] = log[q]
    BY <1>6 DEF Commit
  <2> QED
    BY <1>1, <2>2, WaitKept, <1>6, CommitCalls, Zenon
<1>7. ASSUME NEW p \in Proc, StepDown(p) \/ \E how \in {"failed", "closed"} : Gone(p, how)
      PROVE  CallBase' /\ WaitInv' /\ Kept
  BY <1>7, <1>2, <1>1, FailCalls, WaitKept DEF StepDown, Gone
<1>8. ASSUME NEW p \in Proc, New(p) PROVE CallBase' /\ WaitInv' /\ Kept
  <2>1. /\ pc[p] = "off" /\ UNCHANGED <<role, commit, waits>>
        /\ \E x \in {"failed", "boot", "join", "serving"} : pc' = [pc EXCEPT ![p] = x]
        /\ \E x : log' = [log EXCEPT ![p] = x]
    BY <1>2, <1>8 DEF New, Bootstrap
  <2>2. waits[p] = Nobody /\ \A d \in Proc : pc'[d] = "off" => pc[d] = "off" /\ d # p
    BY <1>2, <1>3, <2>1, Zenon DEF Running
  <2>3. CallBase' /\ Kept /\ \A q \in Proc : Still(q)
    <3>1. CASE UNCHANGED call
      BY <1>1, <1>2, <2>1, <3>1, NoCallChanges, Zenon
    <3>2. ASSUME p \in Joiner, NEW t \in Proc, Send(p, "join", "sent", p, t)
          PROVE  CallBase' /\ Kept /\ \A q \in Proc : Still(q)
      <4>1. p \in Call /\ call[p].st = "idle"
        BY <1>1, <2>1, <3>2, Zenon DEF Call, CallBase, CallInv
      <4>2. PICK r : Turns(p, r)
        BY <2>1, <3>2, <4>1, SendTurns, Zenon
      <4> QED
        BY <1>1, <1>2, <2>2, <4>1, <4>2, TurnCalls
    <3> QED
      BY <1>8, <3>1, <3>2, Zenon DEF New
  <2> QED
    BY <1>1, <2>3, WaitKept, <2>1, <2>2
<1>9. ASSUME NEW p \in Proc, pc[p] # "off", pc' = [pc EXCEPT ![p] = "serving"], UNCHANGED <<raftVars, call, waits>>
      PROVE  CallBase' /\ WaitInv' /\ Kept
  BY <1>1, <1>2, <1>9, NoCallChanges, WaitKept, Zenon DEF raftVars
<1>10. ASSUME NEW c \in Call, NEW r, Turns(c, r), c \in Joiner => call[c].st # "idle", UNCHANGED <<pc, raftVars>>
       PROVE  CallBase' /\ WaitInv' /\ Kept
  BY <1>1, <1>10, TurnCalls, WaitKept, Zenon DEF raftVars
<1>11. ASSUME NEW c \in Call, NEW p \in Proc, NEW C, Appends(c, p, C) PROVE CallBase' /\ WaitInv' /\ Kept
  <2>1. /\ call[c].at = p /\ call[c].st \in {"remove", "add", "leave"}
        /\ waits' = [waits EXCEPT ![p] = c] /\ UNCHANGED <<pc, call>>
    BY <1>11, Zenon DEF Appends, Wants, Grows
  <2>2. /\ role[p] = "Leader" /\ commit[p] = Len(log[p]) /\ UNCHANGED <<role, commit>>
    BY <1>11, Zenon DEF Appends, Grows
  <2> PICK e : e.conf = C /\ log' = [log EXCEPT ![p] = Append(log[p], e)]
    BY <1>11, Zenon DEF Appends, Grows
  <2>7. ASSUME NEW q \in Proc, q # p PROVE Conf(q)' = Conf(q)
    BY <2>7 DEF Conf
  <2>8. waits'[p] = c /\ commit'[p] < Len(log'[p]) /\ Conf(p)' = C
    <3>1. log[p] \in Seq(Entry) /\ waits'[p] = c /\ log'[p] = Append(log[p], e) /\ commit'[p] = Len(log[p])
      BY <1>2, <2>1, <2>2, Zenon
    <3>2. /\ Len(log[p]) < Len(log'[p]) /\ log'[p] # <<>>
          /\ log'[p][Len(log'[p])] = e
      BY ONLY <3>1
    <3> QED
      BY <3>1, <3>2, Zenon DEF Conf
  <2>9. call[c].st # "remove" => Grants(C, call[c])
    BY <1>1, <1>11 DEF CallBase, CallInv, RequestOK, Appends, Wants, Grants, Others, Ids
  <2>10. WaitInv'
    BY <1>1, <2>1, <2>2, <2>7, <2>8, <2>9 DEF WaitInv
  <2> QED
    BY <2>10, <2>1, <1>1 DEF Kept, CallBase, CallInv
<1> QED
  BY <1>4, <1>5, <1>6, <1>7, <1>8, <1>9, <1>10, <1>11, Zenon DEF Shape

-----------------------------------------------------------------------------
(* Theorems *)

\* The invariant holds at first and is kept.
LEMMA BaseStep ==
    /\ Init => BaseInv
    /\ BaseInv /\ [Next]_vars => BaseInv'
<1>1. Init => BaseInv
  <2> SUFFICES ASSUME Init PROVE BaseInv
    BY Zenon
  <2>1. NoCall \in Request /\ NoCall.st = "idle" /\ NoCall.index = 0
    BY ClusterAssumption DEF Status, Server, NoCall, Request
  <2>3. CallInv
    BY <2>1 DEF Init, CallInv, RequestOK
  <2> QED
    BY <2>3, <2>1, ClusterAssumption DEF Init, BaseInv, RoleInv, WaitInv, SingleInv, TypeOK
<1>2. BaseInv /\ Next => BaseInv'
  <2>1. BaseInv /\ Next => RaftBase' /\ CallBase' /\ WaitInv'
    BY Shapes, RaftBaseStep, CallStep, Zenon
  <2> QED
    BY <2>1, BaseParts, PTL
<1>3. BaseInv /\ UNCHANGED vars => BaseInv'
  BY DEF BaseInv, vars, TypeOK, CallInv, RoleInv, Running, WaitInv, Conf, SingleInv
<1> QED
  BY <1>1, <1>2, <1>3, Zenon

\* Whatever names and addresses the processes have, the variables have their
\* types, a leader has a log, and waits only for a request that is there.
THEOREM ClusterTypes == Spec => []TypeOK
<1>1. BaseInv => TypeOK
  BY Zenon DEF BaseInv
<1> QED
  BY <1>1, BaseStep, PTL DEF Spec

-----------------------------------------------------------------------------
(* Answers *)

\* What is committed stays.
Stable ==
    \A r \in Proc : commit[r] <= commit'[r] /\ \A i \in 1..commit[r] : log'[r][i] = log[r][i]


\* Somebody has asked for the server of this name to leave.
Left(x) == \E d \in Call : call[d].st # "idle" /\ call[d].kind = "leave" /\ call[d].srv.id = x

\* A name that is gone from a configuration was asked to leave.
GoneInv ==
    \A q \in Proc : \A i, j \in 1..Len(log[q]) : i < j =>
        \A x \in Ids(log[q][i].conf) \ Ids(log[q][j].conf) : Left(x)

\* No Join finds a server that it must remove.
NoRemove == \A c \in Call : call[c].st # "remove"

\* An entry is appended that lacks only such names.
LEMMA GoneAppend ==
    ASSUME log \in [Proc -> Seq(Entry)], GoneInv, \A x : Left(x) => Left(x)', NEW p \in Proc,
           NEW e, log' = [log EXCEPT ![p] = Append(log[p], e)],
           \A x \in Ids(Conf(p)) \ Ids(e.conf) : Left(x)
    PROVE  GoneInv'
<1> SUFFICES ASSUME NEW q \in Proc, NEW i \in 1..Len(log'[q]), NEW j \in 1..Len(log'[q]), i < j,
                    NEW x \in Ids(log'[q][i].conf) \ Ids(log'[q][j].conf)
             PROVE  Left(x)
  BY ZenonT(60) DEF GoneInv, Ids
<1>2. Len(log[p]) \in Nat /\ Len(log'[p]) = Len(log[p]) + 1 /\ log'[p][Len(log[p]) + 1] = e
  OBVIOUS
<1>4. CASE q # p
  BY <1>4, Zenon DEF GoneInv
<1>5. CASE q = p /\ j # Len(log[p]) + 1
  <2>1. i \in 1..Len(log[p]) /\ j \in 1..Len(log[p])
    <3> DEFINE n == Len(log[p])
    <3>1. n \in Nat /\ i \in 1..n+1 /\ j \in 1..n+1 /\ i < j /\ j # n + 1
      BY <1>2, <1>5, Zenon
    <3> HIDE DEF n
    <3>2. i \in 1..n /\ j \in 1..n
      BY ONLY <3>1
    <3> QED
      BY <3>2, Zenon DEF n
  <2> QED
    BY <2>1 DEF GoneInv
<1>6. CASE q = p /\ j = Len(log[p]) + 1
  BY DEF Conf, GoneInv
<1> QED
  BY <1>4, <1>5, <1>6, Zenon

\* Only a Leave makes a name go.
LEMMA GoneStep ==
    ASSUME BaseInv, NoRemove, GoneInv, Kept, Shape
    PROVE  GoneInv'
<1>1. log \in [Proc -> Seq(Entry)]
  BY Zenon DEF BaseInv, TypeOK
<1>2. \A x : Left(x) => Left(x)'
  BY DEF Left, Kept
<1>3. CASE log' = log
  BY <1>2, <1>3, Zenon DEF GoneInv, Ids
<1>4. ASSUME NEW p \in Proc, Elect(p) PROVE GoneInv'
  <2>1. PICK e : log' = [log EXCEPT ![p] = Append(log[p], e)] /\ e.conf = Conf(p)
    <3>1. PICK t : log' = [log EXCEPT ![p] = Append(@, [term |-> t, conf |-> Conf(p)])]
      BY <1>4, Zenon DEF Elect
    <3>2. [term |-> t, conf |-> Conf(p)].conf = Conf(p)
      BY Zenon
    <3> QED
      BY <3>1, <3>2, Zenon
  <2> QED
    BY <1>1, <1>2, <2>1, GoneAppend, Zenon
<1>5. ASSUME NEW p \in Proc, NEW q \in Proc, Replicate(p, q) PROVE GoneInv'
  <2>1. \A x \in Proc : \E y \in Proc : log'[x] = log[y]
    BY <1>5 DEF Replicate
  <2> SUFFICES ASSUME NEW x \in Proc, NEW i \in 1..Len(log'[x]), NEW j \in 1..Len(log'[x]), i < j,
                      NEW y \in Ids(log'[x][i].conf) \ Ids(log'[x][j].conf)
               PROVE  Left(y)
    BY <1>2, Zenon DEF GoneInv, Ids
  <2> QED
    BY <2>1, Zenon DEF GoneInv
<1>6. ASSUME NEW p \in Proc, New(p), log' # log PROVE GoneInv'
  <2>1. PICK e : log' = [log EXCEPT ![p] = <<e>>]
    BY <1>6, Zenon DEF New, Bootstrap
  <2>2. \A x \in Proc : x # p => log'[x] = log[x]
    BY <1>1, <2>1, Zenon
  <2>4. \A i, j \in 1..Len(log'[p]) : ~(i < j)
    BY <1>1, <2>1
  <2> QED
    BY <1>2, <2>2, <2>4, Zenon DEF GoneInv, Ids
<1>7. ASSUME NEW c \in Call, NEW p \in Proc, NEW C, Appends(c, p, C) PROVE GoneInv'
  <2>1. call[c].at = p /\ Wants(c, C)
    BY <1>7, Zenon DEF Appends
  <2>2. PICK e : e.conf = C /\ log' = [log EXCEPT ![p] = Append(log[p], e)]
    BY <1>7, Zenon DEF Appends, Grows
  <2>3. RequestOK(call[c]) /\ call[c].st # "remove"
    BY OfRequest, Zenon DEF NoRemove
  <2>4. ASSUME NEW x \in Ids(Conf(p)) \ Ids(C) PROVE Left(x)
    <3>1. call[c].st = "leave" /\ x = call[c].srv.id
      BY <2>1, <2>3, Zenon DEF Wants, Ids, Others
    <3> QED
      BY <2>3, <3>1, Zenon DEF Left, RequestOK
  <2> QED
    BY <1>1, <1>2, <2>2, <2>4, GoneAppend, Zenon
<1>8. ASSUME NEW p \in Proc, Commit(p) \/ StepDown(p) \/ \E how \in {"failed", "closed"} : Gone(p, how)
      PROVE  GoneInv'
  BY <1>3, <1>8, Zenon DEF Commit, StepDown, Gone
<1> QED
  BY <1>3, <1>4, <1>5, <1>6, <1>7, <1>8, Zenon DEF Shape, raftVars

\* What was answered stays true.
LEMMA AnswerStep ==
    ASSUME BaseInv, BaseInv', AnswerIsCommitted, CommittedAgree', Stable, Kept
    PROVE  AnswerIsCommitted'
<1> SUFFICES ASSUME NEW c \in Call, call'[c].index > 0
             PROVE  /\ \E p \in Proc : commit'[p] >= call'[c].index
                    /\ \A p \in Proc : commit'[p] >= call'[c].index => Grants(log'[p][call'[c].index].conf, call'[c])
  BY Zenon DEF AnswerIsCommitted
<1>1. /\ call[c].index \in Nat /\ call'[c].index \in Nat /\ (call[c].index > 0 => call[c].st # "idle")
      /\ \A p \in Proc : commit[p] \in Nat /\ commit'[p] \in Nat
  BY Fields DEF BaseInv, TypeOK, CallInv, RequestOK
<1>2. PICK k : k = call'[c].index
  BY Zenon
<1>3. PICK r \in Proc : k \in 1..commit'[r] /\ call[c].st # "idle" /\ Grants(log'[r][k].conf, call[c])
  <2>1. CASE k = call[c].index
    BY <1>2, <2>1, <1>1 DEF AnswerIsCommitted, Stable
  <2>2. CASE k # call[c].index
    <3>1. PICK r \in Proc : Commit(r) /\ waits[r] = c /\ call[c].st # "remove" /\ k = Len(log[r])
      BY <1>2, <2>2, Zenon DEF Kept
    <3>2. c # Nobody /\ log[r] # <<>> /\ call[c].st # "idle"
      <4>1. c # Nobody /\ role[r] = "Leader"
        BY <3>1, ClusterAssumption, Zenon DEF Call, Commit
      <4> QED
        BY <3>1, <4>1, Zenon DEF BaseInv, TypeOK
    <3>4. log' = log /\ commit'[r] = k
      BY <3>1 DEF Commit, BaseInv, TypeOK
    <3> QED
      BY <3>2, <3>4, <3>1 DEF BaseInv, WaitInv, Conf
  <2> QED
    BY <2>1, <2>2, Zenon
<1>4. Grants(log'[r][k].conf, call'[c])
  BY <1>3, Zenon DEF Kept, Grants
<1>5. ASSUME NEW p \in Proc, commit'[p] >= k PROVE log'[p][k] = log'[r][k]
  BY <1>3, <1>5, Zenon DEF CommittedAgree
<1> QED
  BY <1>2, <1>3, <1>4, <1>5
=============================================================================
