---------------------------- MODULE ClusterProofs ----------------------------
(***************************************************************************)
(* Commits, elections, starts and closings keep raft's invariant, and with *)
(* it what was promised to requests; the safety theorems of Cluster for    *)
(* processes with names and addresses of their own.                        *)
(***************************************************************************)
EXTENDS ClusterRaft, ClusterCalls

-----------------------------------------------------------------------------
(* A log is committed *)

\* Leader p finds its log with a quorum, and takes it for committed.
Commits(p) ==
    /\ role[p] = "Leader" /\ commit' = [commit EXCEPT ![p] = Len(log[p])]
    /\ UNCHANGED <<log, term>> /\ (pc[Boot] # "off" => pc'[Boot] # "off")
    /\ commit[p] < Len(log[p])
    /\ \A q \in Proc : role'[q] = "Leader" => role[q] = "Leader"
    /\ \E Q \in Quorum(Conf(p)) : \A v \in Proc : Srv(v) \in Q => log[v] = log[p]

\* The invariants after that.
LEMMA CommitStep ==
    ASSUME RaftInv, RaftType', NEW p \in Proc, Commits(p)
    PROVE  RaftInv'
<1>1. RaftType /\ TermInv /\ MatchInv /\ LeadInv /\ ConfInv /\ PointInv /\ ElectInv /\ CommittedAgree
  BY Zenon DEF RaftInv
<1> DEFINE n == Len(log[p])
<1>2. /\ log[p] # <<>> /\ n \in Nat \ {0} /\ Conf(p) = log[p][n].conf
      /\ log' = log /\ term' = term /\ (pc[Boot] # "off" => pc'[Boot] # "off")
      /\ \A x \in Proc : /\ commit[x] \in Nat /\ Len(log[x]) \in Nat /\ commit[x] <= Len(log[x])
                         /\ commit'[x] = (IF x = p THEN n ELSE commit[x]) /\ commit'[x] >= commit[x]
                         /\ role'[x] = "Leader" => role[x] = "Leader"
  BY <1>1 DEF Commits, RaftType, TermInv, Conf
<1>3. /\ \A r \in Proc : \A k \in 1..commit[r] : Has(p, k, log[r][k])
      /\ Point(n, log[p][n])
  BY LeaderPoint, Zenon DEF Commits
<1>4. TermInv'
  BY <1>1, <1>2, SMTT(30) DEF TermInv
<1>5. MatchInv' /\ LeadInv' /\ ElectInv'
  BY <1>1, <1>2 DEF MatchInv, LeadInv, ElectInv, Has, Elected, Voted, LastTerm
<1>6. ConfInv'
  <2>1. \A q \in Proc : \A i \in 1..Len(log[q]) : Known(q, i) => Known(q, i)'
    BY <1>2 DEF Known
  <2> SUFFICES ASSUME NEW q \in Proc, NEW i \in 1..Len(log'[q]), NEW j \in 1..Len(log'[q]), i < j
               PROVE  /\ log'[q][i].conf # log'[q][j].conf => Known(q, i)'
                      /\ j = i + 1 => /\ Near(log'[q][i].conf, log'[q][j].conf)
                                      /\ log'[q][i].conf # log'[q][j].conf => log'[q][i].term = log'[q][j].term
    BY Zenon DEF ConfInv, Near
  <2>2. log'[q] = log[q] /\ i \in 1..Len(log[q]) /\ j \in 1..Len(log[q])
    BY <1>2, Zenon
  <2>3. /\ log[q][i].conf # log[q][j].conf => Known(q, i)'
        /\ j = i + 1 => /\ Near(log[q][i].conf, log[q][j].conf)
                        /\ log[q][i].conf # log[q][j].conf => log[q][i].term = log[q][j].term
    BY <1>1, <2>1, <2>2, Zenon DEF ConfInv
  <2> QED
    BY <2>2, <2>3, Zenon
<1>7. PointInv'
  <2> SUFFICES ASSUME NEW r \in Proc, NEW i \in 1..commit'[r]
               PROVE  \E c \in i..commit'[r] : log[r][c].conf = log[r][i].conf /\ Point(c, log[r][c])
    <3>1. \A c, e : Point(c, e)' <=> Point(c, e)
      BY <1>2 DEF Point, Has
    <3> SUFFICES ASSUME NEW r \in Proc, NEW i \in 1..commit'[r]
                 PROVE  \E c \in i..commit'[r] : log'[r][c].conf = log'[r][i].conf /\ Point(c, log[r][c])'
      BY Zenon DEF PointInv
    <3>2. PICK c \in i..commit'[r] : log[r][c].conf = log[r][i].conf /\ Point(c, log[r][c])
      BY Zenon
    <3>3. log'[r] = log[r]
      BY <1>2, Zenon
    <3> QED
      BY <3>1, <3>2, <3>3, Zenon
  <2>1. CASE r # p
    BY <1>1, <1>2, <2>1, Zenon DEF PointInv
  <2>2. CASE r = p /\ log[p][i].conf = log[p][n].conf
    BY <1>2, <1>3, <2>2
  <2>3. CASE r = p /\ log[p][i].conf # log[p][n].conf
    <3>1. i \in 1..Len(log[p]) /\ i < n
      BY <1>2, <2>3
    <3>2. PICK s \in Proc : i <= commit[s] /\ log[s][i] = log[p][i]
      BY <1>1, <2>3, <3>1 DEF ConfInv, Known
    <3>3. PICK c \in i..commit[s] : log[s][c].conf = log[s][i].conf /\ Point(c, log[s][c])
      <4>1. i \in 1..commit[s]
        BY <1>2, <3>1, <3>2
      <4> QED
        BY <1>1, <4>1, Zenon DEF PointInv
    <3>4. c \in 1..n /\ log[p][c] = log[s][c]
      BY <1>2, <1>3, <3>1, <3>3 DEF Has
    <3> QED
      BY <1>2, <2>3, <3>2, <3>3, <3>4, SMTT(30)
  <2> QED
    BY <2>1, <2>2, <2>3, Zenon
<1>8. CommittedAgree'
  <2> SUFFICES ASSUME NEW a \in Proc, NEW b \in Proc, NEW i \in 1..commit'[a], i <= commit'[b]
               PROVE  log[a][i] = log[b][i]
    BY <1>2 DEF CommittedAgree
  <2>1. CASE a # p /\ b # p
    BY <1>1, <1>2, <2>1 DEF CommittedAgree
  <2>2. CASE a # p /\ b = p
    BY <1>2, <1>3, <2>2, Zenon DEF Has
  <2>3. CASE a = p /\ b # p
    BY <1>2, <2>3, <1>3 DEF Has
  <2> QED
    BY <2>1, <2>2, <2>3, Zenon
<1> QED
  BY <1>4, <1>5, <1>6, <1>7, <1>8, Zenon DEF RaftInv

-----------------------------------------------------------------------------
(* A leader is elected, and changes the configuration *)

\* A server is reached at the process that it is.
LEMMA ReachesOne ==
    ASSUME Distinct, NEW p \in Proc, NEW q \in Proc, NEW s \in Server, Reaches(p, s, q)
    PROVE  s = Srv(q)
  BY DEF Server, Srv, Distinct, Reaches

\* Nobody has an entry of the term of an election that is won.
LEMMA FreshTerm ==
    ASSUME RaftInv, NEW p \in Proc, log[p] # <<>>, NEW t \in Nat, term[p] < t,
           NEW V \in Quorum(Conf(p)), \A v \in Proc : Srv(v) \in V => UpToDate(p, v) /\ term[v] < t,
           NEW q \in Proc, NEW j \in 1..Len(log[q])
    PROVE  log[q][j].term # t
<1> SUFFICES ASSUME log[q][j].term = t PROVE FALSE
  BY Zenon
<1>1. RaftType /\ TermInv /\ ElectInv
  BY Zenon DEF RaftInv
<1>2. \A r \in Proc : \A k \in 1..commit[r] : Has(p, k, log[r][k])
  BY WinnerExtends, Zenon
<1>3. PICK n \in 1..j : log[q][n].term = t /\ Elected(q, n)
  BY <1>1, Zenon DEF ElectInv
<1>4. /\ Len(log[p]) \in Nat \ {0} /\ Len(log[q]) \in Nat /\ n \in 1..Len(log[q]) /\ log[q] # <<>>
      /\ term[p] \in Nat /\ \A i \in 1..Len(log[p]) : log[p][i].term \in Nat \ {0} /\ log[p][i].term <= term[p]
  <2>2. term[p] \in Nat /\ log[q] # <<>>
    BY <1>1 DEF RaftType
  <2> QED
    <3>1. n \in 1..Len(log[q])
      BY ONLY n \in 1..j, j \in 1..Len(log[q])
    <3>2. Len(log[p]) \in Nat \ {0} /\ Len(log[q]) \in Nat
      BY <1>1, Entries, Zenon
    <3> QED
      BY <1>1, <2>2, <3>1, <3>2, Entries, Zenon DEF TermInv
<1>5. n > 1
  <2>2. log[p][1].term \in Nat \ {0} /\ log[p][1].term < t
    BY <1>4, SMTT(30)
  <2> QED
    BY <1>3, <2>2, <1>1 DEF TermInv, First
<1>6. \A i \in 1..Len(log[p]) : log[p][i].term < log[q][n].term
  BY <1>3, <1>4, SMTT(30)
<1>7. Near(Conf(p), log[q][n].conf)
  BY <1>2, <1>4, <1>6, Rival, Zenon
<1>8. PICK W \in Quorum(log[q][n].conf) : \A v \in Proc : Srv(v) \in W => Voted(v, n, log[q][n-1], log[q][n])
  BY <1>3, <1>5, Zenon DEF Elected
<1>9. Conf(p) \in SUBSET Server /\ log[q][n].conf \in SUBSET Server
  <2>1. Len(log[p]) \in 1..Len(log[p])
    OBVIOUS
  <2> QED
    BY <1>1, <1>4, <2>1, Entries, Zenon DEF Conf
<1>10. PICK v \in Proc : Srv(v) \in V /\ Srv(v) \in W
  BY <1>7, <1>9, QuorumsMeet DEF Quorum, Server
<1>11. term[v] >= t /\ term[v] < t /\ term[v] \in Nat
  BY <1>1, <1>3, <1>8, <1>10, Zenon DEF Voted, RaftType
<1> QED
  BY <1>11

\* The invariants after Elect.
LEMMA ElectStep ==
    ASSUME Distinct, RaftInv, RaftType', NEW p \in Proc, Elect(p)
    PROVE  RaftInv'
<1>1. RaftType /\ TermInv
  BY Zenon DEF RaftInv
<1>2. PICK t \in term[p] + 1..MaxTerm : \E V \in SUBSET Votes(p, t) :
          /\ \E s \in V : s.id = Id(p)
          /\ Majority(V, Conf(p))
          /\ term' = [q \in Proc |-> IF \E s \in V : Reaches(p, s, q) THEN t ELSE term[q]]
          /\ log' = [log EXCEPT ![p] = Append(@, [term |-> t, conf |-> Conf(p)])]
  BY Zenon DEF Elect
<1>3. PICK V \in SUBSET Votes(p, t) :
          /\ \E s \in V : s.id = Id(p)
          /\ Majority(V, Conf(p))
          /\ term' = [q \in Proc |-> IF \E s \in V : Reaches(p, s, q) THEN t ELSE term[q]]
          /\ log' = [log EXCEPT ![p] = Append(@, [term |-> t, conf |-> Conf(p)])]
  BY <1>2, Zenon
<1> DEFINE e == [term |-> t, conf |-> Conf(p)]
           n == Len(log[p])
<1>4. V \subseteq Conf(p) /\ V \in Quorum(Conf(p)) /\ log[p] # <<>>
  BY <1>3, Zenon DEF Votes, Quorum, Conf
<1>5. /\ n \in Nat \ {0} /\ Conf(p) = log[p][n].conf /\ Conf(p) \in SUBSET Server
      /\ t \in Nat /\ term[p] \in Nat /\ term[p] < t /\ e \in Entry
  <2>1. n \in Nat \ {0} /\ Conf(p) = log[p][n].conf /\ Conf(p) \in SUBSET Server
    BY <1>1, <1>4, Entries DEF Conf
  <2>2. term[p] \in Nat /\ MaxTerm \in Nat
    BY <1>1, ClusterAssumption, Zenon DEF RaftType
  <2> QED
    BY <2>1, <2>2 DEF Entry
<1>6. \A v \in Proc : (\E s \in V : Reaches(p, s, v)) <=> Srv(v) \in V
  <2> TAKE v \in Proc
  <2>1. ASSUME NEW s \in V, Reaches(p, s, v) PROVE Srv(v) \in V
    BY <1>4, <1>5, <2>1, ReachesOne, Zenon
  <2>2. ASSUME Srv(v) \in V PROVE \E s \in V : Reaches(p, s, v)
    <3>1. PICK x \in Proc : Reaches(p, Srv(v), x)
      BY <2>2, Zenon DEF Votes
    <3>2. Srv(v) = Srv(x)
      BY <1>4, <1>5, <2>2, <3>1, ReachesOne, Zenon
    <3> QED
      BY <2>2, <3>1, <3>2, Zenon DEF Srv, Distinct
  <2> QED
    BY <2>1, <2>2, Zenon
<1>7. \A v \in Proc : Srv(v) \in V => /\ UpToDate(p, v) /\ term[v] < t
                                      /\ v = p \/ role[v] = "Follower"
  <2> TAKE v \in Proc
  <2> HAVE Srv(v) \in V
  <2>1. PICK x \in Proc : /\ Reaches(p, Srv(v), x) /\ UpToDate(p, x)
                          /\ x = p \/ (term[x] < t /\ role[x] = "Follower")
    BY Zenon DEF Votes
  <2>2. Srv(v) = Srv(x)
    BY <1>4, <1>5, <2>1, ReachesOne, Zenon
  <2> QED
    BY <1>5, <2>1, <2>2, Zenon DEF Srv, Distinct
<1>8. Srv(p) \in V
  BY <1>3, <1>6, Zenon DEF Reaches
<1>9. \A q \in Proc : \A j \in 1..Len(log[q]) : log[q][j].term # t
  BY <1>4, <1>5, <1>7, FreshTerm, Zenon
<1>10. \A r \in Proc : \A k \in 1..commit[r] : Has(p, k, log[r][k])
  BY <1>4, <1>7, WinnerExtends, Zenon
<1>11. \A q \in Proc : term'[q] = (IF Srv(q) \in V THEN t ELSE term[q]) /\ term[q] \in Nat /\ term[q] <= term'[q]
  BY <1>1, <1>3, <1>5, <1>6, <1>7, SMTT(30) DEF RaftType
<1>12. \A q \in Proc \ {p} : role'[q] = "Leader" => role[q] = "Leader" /\ term'[q] = term[q] /\ term[q] # t
  <2> TAKE q \in Proc \ {p}
  <2> HAVE role'[q] = "Leader"
  <2>1. role[q] = "Leader"
    BY DEF Elect
  <2>3. term[q] # t
    BY <1>1, <1>9, <2>1 DEF TermInv
  <2> QED
    BY <2>1, <2>3, <1>7, <1>11, Zenon
<1>13. \E m : m = n + 1 /\ Elected(p, m)'
  <2>1. log'[p] = Append(log[p], e) /\ log[p] \in Seq(Entry) /\ \A q \in Proc : q # p => log'[q] = log[q]
    BY <1>3 DEF RaftType
  <2>2. /\ log'[p][n+1] = e /\ log'[p][n] = log[p][n] /\ Len(log'[p]) = n + 1
        /\ log'[p] # <<>>
    BY <1>5, <2>1, SMTT(30)
  <2>4. log[p][n].term \in Nat /\ log[p][n].term < t /\ LastTerm(p) = log[p][n].term
    BY <1>1, <1>4, <1>5, Entries DEF TermInv, LastTerm
  <2>5. PICK m, d, g : m = n + 1 /\ d = log[p][n] /\ g = e
    BY Zenon
  <2>6. ASSUME NEW v \in Proc, Srv(v) \in V PROVE Voted(v, m, d, g)'
    <3>1. term'[v] = t /\ g.term = t
      BY <1>11, <2>5, <2>6, Zenon
    <3>2. CASE v = p
      BY <3>1, <3>2, <2>2 DEF Voted, LastTerm
    <3>3. CASE v # p
      <4>1. log'[v] = log[v] /\ LastTerm(v)' = LastTerm(v) /\ Len(log[v]) \in Nat
        BY <2>1, <3>3, Entries DEF LastTerm
      <4>3. UpToDate(p, v)
        BY <1>7, <2>6, Zenon
      <4>4. LastTerm(v) < d.term \/ (LastTerm(v) = d.term /\ Len(log[v]) < m)
        BY <2>4, <2>5, <4>3 DEF UpToDate
      <4> QED
        BY <3>1, <4>1, <4>4 DEF Voted
    <3> QED
      BY <3>2, <3>3, Zenon
  <2>7. m > 1 /\ log'[p][m] = g /\ log'[p][m-1] = d /\ d.conf = g.conf /\ d.term < g.term
    BY <1>5, <2>2, <2>4, <2>5
  <2> QED
    <3>1. V \in Quorum(g.conf)
      BY <1>4, <2>5
    <3>2. \A v \in Proc : Srv(v) \in V => Voted(v, m, log[p][m-1], log[p][m])'
      BY <2>6, <2>7 DEF Voted
    <3> QED
      BY <2>5, <2>7, <3>1, <3>2, ZenonT(60) DEF Elected
<1>14. Adds(p, e)
  <2>1. UNCHANGED <<pc, commit>>
    BY Zenon DEF Elect
  <2> QED
    BY <1>3, <1>4, <1>5, <1>8, <1>9, <1>10, <1>11, <1>12, <1>13, <2>1, ZenonT(60) DEF Adds
<1> QED
  BY <1>5, <1>14, AddStep, Zenon

\* The invariants after a leader has appended a configuration next to its own.
LEMMA ChangeStep ==
    ASSUME RaftInv, RaftType', NEW p \in Proc, role[p] = "Leader", commit[p] = Len(log[p]),
           NEW C \in SUBSET Server, Near(Conf(p), C),
           log' = [log EXCEPT ![p] = Append(@, [term |-> term[p], conf |-> C])],
           UNCHANGED <<pc, role, term, commit>>
    PROVE  RaftInv'
<1>1. RaftType /\ TermInv /\ LeadInv
  BY Zenon DEF RaftInv
<1> DEFINE e == [term |-> term[p], conf |-> C]
           n == Len(log[p])
<1>2. /\ log[p] # <<>> /\ n \in 1..Len(log[p]) /\ log[p][n].term = term[p] /\ log[p][n] \in Entry
      /\ LastTerm(p) = term[p] /\ Conf(p) = log[p][n].conf /\ \A q \in Proc : term[q] \in Nat
  BY <1>1 DEF TermInv, LastTerm, Conf, RaftType
<1>4. \A r \in Proc : \A c \in 1..commit[r] :
          Point(c, log[r][c]) /\ log[r][c].term < term[p] => Has(p, c, log[r][c])
  <2> TAKE r \in Proc
  <2> TAKE c \in 1..commit[r]
  <2>1. log[r][c].term \in Nat
    <3>1. c \in 1..Len(log[r])
      BY <1>1 DEF RaftType, TermInv
    <3> QED
      BY <1>1, <3>1, Entries, Zenon
  <2> QED
    BY <1>2, <2>1, Zenon DEF Point
<1>5. \A q \in Proc : \A j \in 1..Len(log[q]) : log[q][j].term = term[p] => Has(p, j, log[q][j])
  BY <1>1, Zenon DEF LeadInv
<1>6. \A q \in Proc \ {p} : role'[q] = "Leader" => role[q] = "Leader" /\ term[q] # term[p]
  BY <1>1, Zenon DEF LeadInv
<1>7. Adds(p, e)
  <2>1. e.term = term[p] /\ e.conf = C /\ log' = [log EXCEPT ![p] = Append(log[p], e)]
    BY Zenon
  <2>2. \E i \in 1..Len(log[p]) : log[p][i].term = term[p]
    BY <1>2, Zenon
  <2>3. term'[p] = term[p] /\ term[p] <= term[p] /\ \A q \in Proc : term[q] <= term'[q] /\ term'[q] = term[q]
    BY <1>2
  <2> HIDE DEF e, n
  <2> QED
    BY <1>2, <1>4, <1>5, <1>6, <2>1, <2>2, <2>3, Zenon DEF Adds
<1> QED
  BY <1>7, AddStep, <1>2, Zenon DEF Entry

-----------------------------------------------------------------------------
(* Logs begin, and other steps leave them alone *)

\* The invariants after Boot has written the first entry.
LEMMA BootStep ==
    ASSUME RaftInv, RaftType', pc[Boot] = "off", pc'[Boot] # "off", Bootstrap(Boot), UNCHANGED <<role, commit>>
    PROVE  RaftInv'
<1>1. RaftType /\ TermInv
  BY Zenon DEF RaftInv
<1>2. Boot \in Proc
  BY ClusterAssumption, Zenon
<1>3. \A q \in Proc : log[q] = <<>> /\ commit[q] = 0 /\ role'[q] # "Leader" /\ term'[q] \in Nat
  BY <1>1 DEF RaftType, TermInv
<1>4. /\ log'[Boot] = <<First>> /\ term'[Boot] = 1
      /\ \A q \in Proc : commit'[q] = 0 /\ (q # Boot => log'[q] = <<>>)
  BY <1>1, <1>2, <1>3, Zenon DEF Bootstrap, RaftType, First
<1>5. /\ Len(log'[Boot]) = 1 /\ log'[Boot][1] = First /\ First.term = 1
      /\ \A q \in Proc : (q # Boot => Len(log'[q]) = 0) /\ \A i \in 1..Len(log'[q]) : q = Boot /\ i = 1
  <2>2. Len(log'[Boot]) = 1 /\ log'[Boot][1] = First
    BY <1>4
  <2>4. ASSUME NEW q \in Proc, NEW i \in 1..Len(log'[q]) PROVE q = Boot /\ i = 1
    <3>1. CASE q = Boot
      <4>1. Len(log'[q]) = 1
        BY <2>2, <3>1, Zenon
      <4> QED
        BY <3>1, <4>1
    <3>2. CASE q # Boot
      BY <3>2, <1>4
    <3> QED
      BY <3>1, <3>2, Zenon
  <2> QED
    BY <2>2, <2>4 DEF First
<1>6. TermInv'
  BY <1>3, <1>4, <1>5 DEF TermInv
<1>7. MatchInv' /\ LeadInv' /\ ConfInv' /\ PointInv' /\ CommittedAgree'
  BY <1>3, <1>5 DEF MatchInv, LeadInv, ConfInv, PointInv, CommittedAgree
<1>8. ElectInv'
  BY <1>5 DEF ElectInv, Elected
<1> QED
  BY <1>6, <1>7, <1>8, Zenon DEF RaftInv

\* The invariants after a step by which at most some leader gives up.
LEMMA QuietStep ==
    ASSUME RaftInv, RaftType', UNCHANGED <<term, log, commit>>, pc[Boot] # "off" => pc'[Boot] # "off",
           \A q \in Proc : role'[q] = "Leader" => role[q] = "Leader"
    PROVE  RaftInv'
<1>2. MatchInv' /\ LeadInv' /\ CommittedAgree'
  BY DEF RaftInv, MatchInv, LeadInv, Has, CommittedAgree
<1>3. ConfInv' /\ PointInv'
  <2>1. ConfInv /\ PointInv
    BY Zenon DEF RaftInv
  <2>2. /\ \A q, i : Known(q, i)' <=> Known(q, i)
        /\ \A i, e : Point(i, e)' <=> Point(i, e)
    BY Zenon DEF Known, Point, Has
  <2>3. ConfInv'
    BY <2>1, <2>2 DEF ConfInv, Near
  <2> QED
    BY <2>1, <2>2, <2>3, Zenon DEF PointInv
<1>4. ElectInv'
  <2>1. ElectInv /\ \A q, n : Elected(q, n)' <=> Elected(q, n)
    BY DEF RaftInv, Elected, Voted, LastTerm
  <2> QED
    BY <2>1, Zenon DEF ElectInv
<1> QED
  BY <1>2, <1>3, <1>4, Zenon DEF RaftInv, TermInv

-----------------------------------------------------------------------------
(* With distinct names and addresses *)

\* A change for a request adds or removes one server.
LEMMA AppendsNear ==
    ASSUME Distinct, BaseInv, NEW c \in Call, NEW p \in Proc, NEW C, Appends(c, p, C)
    PROVE  Near(Conf(p), C)
<1> DEFINE D == Conf(p)
<1>1. call[c].srv \in Server /\ D \in SUBSET Server
  BY OfRequest, ConfSingle, Zenon DEF BaseInv
<1>2. (C = Others(c) \/ C = Others(c) \cup {call[c].srv}) /\ Others(c) = {s \in D : s.id # call[c].srv.id}
  BY Zenon DEF Appends, Wants, Others
<1>3. \A s \in D : s.id = call[c].srv.id => s = call[c].srv
  BY <1>1, DistinctServers, Zenon
<1>4. CASE call[c].srv \in D
  BY <1>2, <1>3, <1>1 DEF Near
<1>5. CASE call[c].srv \notin D
  BY <1>2, <1>3, <1>1 DEF Near
<1> QED
  BY <1>4, <1>5, Zenon

\* The invariants of raft after every step, and what the step leaves.
LEMMA RaftStep ==
    ASSUME Distinct, BaseInv, BaseInv', RaftInv, Shape
    PROVE  RaftInv' /\ Stable
<1>1. RaftType' /\ RaftType
  BY DEF BaseInv, TypeOK, RaftType
<1>2. \A r \in Proc : commit[r] \in Nat /\ Len(log[r]) \in Nat /\ commit[r] <= Len(log[r])
  BY DEF RaftInv, TermInv, RaftType
<1>3. pc \in [Proc -> {"off", "boot", "join", "serving", "failed", "closed"}] /\ Boot \in Proc
  BY ClusterAssumption, Zenon DEF BaseInv, TypeOK
<1>4. ASSUME NEW p \in Proc, NEW e, log' = [log EXCEPT ![p] = Append(log[p], e)], commit' = commit PROVE Stable
  BY <1>2, <1>4 DEF Stable
<1>5. ASSUME NEW p \in Proc, Elect(p) PROVE RaftInv' /\ Stable
  <2>1. Stable
    BY <1>4, <1>5, Zenon DEF Elect
  <2> QED
    BY <1>1, <1>5, <2>1, ElectStep, Zenon
<1>6. ASSUME NEW p \in Proc, NEW q \in Proc, Replicate(p, q) PROVE RaftInv' /\ Stable
  <2>1. \A i \in 1..commit[q] : Has(p, i, log[q][i])
    BY <1>6, LeaderHas, Zenon DEF Replicate
  <2>2. Stable
    BY <1>1, <1>2, <1>6, <2>1, SMTT(30) DEF Stable, Replicate, Has, RaftType
  <2> QED
    BY <1>1, <1>6, <2>2, CopyStep, Zenon
<1>7. ASSUME NEW p \in Proc, Commit(p) PROVE RaftInv' /\ Stable
  <2>1. Stable
    BY <1>2, <1>7 DEF Stable, Commit
  <2>3. \A v \in Proc : Srv(v) \in Acks(p) => log[v] = log[p]
    <3> TAKE v \in Proc
    <3> HAVE Srv(v) \in Acks(p)
    <3>1. PICK x \in Proc : Reaches(p, Srv(v), x) /\ log[x] = log[p]
      BY Zenon DEF Acks
    <3> QED
      BY ReachesOne, ConfSingle, Zenon DEF Srv, Distinct, Acks, BaseInv
  <2>6. Commits(p)
    BY <1>7, <2>3 DEF Commits, Commit, Quorum, Acks
  <2> QED
    BY <1>1, <2>1, <2>6, CommitStep, Zenon
<1>8. ASSUME UNCHANGED <<term, log, commit>>, pc[Boot] # "off" => pc'[Boot] # "off",
             \A q \in Proc : role'[q] = "Leader" => role[q] = "Leader"
      PROVE  RaftInv' /\ Stable
  BY <1>2, <1>8, <1>1, QuietStep DEF Stable
<1>9. ASSUME NEW p \in Proc, StepDown(p) \/ \E how \in {"failed", "closed"} : Gone(p, how)
      PROVE  RaftInv' /\ Stable
  <2>1. /\ UNCHANGED <<term, log, commit>>
        /\ \E x \in {"Follower", "Shutdown"} : role' = [role EXCEPT ![p] = x]
        /\ pc' = pc \/ \E how \in {"failed", "closed"} : pc' = [pc EXCEPT ![p] = how]
    BY <1>9, Zenon DEF StepDown, Gone
  <2> QED
    BY <1>8, <2>1, <1>3
<1>10. ASSUME NEW p \in Proc, New(p) PROVE RaftInv' /\ Stable
  <2>1. /\ pc[p] = "off" /\ UNCHANGED <<role, commit>>
        /\ \E x \in {"failed", "boot", "join", "serving"} : pc' = [pc EXCEPT ![p] = x]
    BY <1>10, Zenon DEF New
  <2>2. CASE UNCHANGED <<log, term>>
    BY <1>8, <2>1, <2>2
  <2>3. CASE p = Boot /\ Bootstrap(p)
    <3>2. Stable
      BY <2>1, <1>2, <2>3 DEF Stable, RaftInv, TermInv
    <3> QED
      BY <3>2, <1>1, <1>3, <2>1, <2>3, BootStep, Zenon
  <2> QED
    BY <1>10, <2>2, <2>3, Zenon DEF New
<1>11. ASSUME NEW p \in Proc, pc' = [pc EXCEPT ![p] = "serving"], UNCHANGED raftVars PROVE RaftInv' /\ Stable
  BY <1>8, <1>11 DEF raftVars
<1>12. ASSUME UNCHANGED <<pc, raftVars>> PROVE RaftInv' /\ Stable
  BY <1>8, <1>12, Zenon DEF raftVars
<1>13. ASSUME NEW c \in Call, NEW p \in Proc, NEW C, Appends(c, p, C) PROVE RaftInv' /\ Stable
  <2>1. Grows(p, C) /\ C \in SUBSET Server /\ Near(Conf(p), C)
    BY <1>13, AppendsNear, Zenon DEF Appends, Wants
  <2>2. Stable
    BY <1>4, <2>1, Zenon DEF Grows
  <2>3. RaftInv'
    BY <1>1, <2>1, ChangeStep, Zenon DEF Grows
  <2> QED
    BY <2>2, <2>3, Zenon
<1> QED
  BY <1>5, <1>6, <1>7, <1>9, <1>10, <1>11, <1>12, <1>13, Zenon DEF Shape

\* The invariant that the theorems rest on.
ClusterInv == BaseInv /\ RaftInv /\ NoRemove /\ GoneInv /\ AnswerIsCommitted

\* It holds at first.
LEMMA ClusterInit == Init => ClusterInv
<1> SUFFICES ASSUME Init PROVE ClusterInv
  BY Zenon
<1>1. BaseInv
  BY BaseStep, Zenon
<1>2. \A p \in Proc : log[p] = <<>> /\ Len(log[p]) = 0 /\ commit[p] = 0 /\ role[p] = "Follower"
  BY Zenon DEF Init
<1>3. RaftInv
  <2>2. TermInv /\ MatchInv /\ LeadInv /\ ConfInv /\ PointInv /\ ElectInv /\ CommittedAgree
    <3>3. PointInv /\ ElectInv /\ CommittedAgree
      BY <1>2 DEF PointInv, ElectInv, CommittedAgree
    <3> QED
      BY <3>3, <1>2 DEF TermInv, MatchInv, LeadInv, ConfInv
  <2> QED
    BY <2>2, <1>1 DEF RaftInv, BaseInv, TypeOK, RaftType
<1> QED
  BY <1>1, <1>3 DEF ClusterInv, NoRemove, GoneInv, AnswerIsCommitted, Init, NoCall

\* Every step keeps it, and what is committed.
LEMMA ClusterStep ==
    ASSUME Distinct, ClusterInv, Next
    PROVE  ClusterInv' /\ Stable
<1>1. BaseInv /\ RaftInv /\ NoRemove /\ GoneInv /\ AnswerIsCommitted
  BY Zenon DEF ClusterInv
<1>2. Shape
  BY <1>1, Shapes, Zenon
<1>3. BaseInv' /\ Kept
  BY <1>1, <1>2, BaseStep, CallStep, Zenon
<1>4. RaftInv' /\ Stable
  BY <1>1, <1>2, <1>3, RaftStep, Zenon
<1>5. NoRemove' /\ GoneInv'
  BY <1>1, <1>3, <1>2, GoneStep, Zenon DEF NoRemove, Kept
<1> QED
  BY <1>3, <1>4, <1>5, AnswerStep, Zenon DEF ClusterInv, RaftInv

\* Nor does a step that changes nothing.
LEMMA ClusterStutter ==
    ASSUME ClusterInv, UNCHANGED vars
    PROVE  ClusterInv'
<1>1. BaseInv /\ RaftInv /\ NoRemove /\ GoneInv /\ AnswerIsCommitted
  BY Zenon DEF ClusterInv
<1>3. RaftInv'
  BY <1>1, QuietStep, Zenon DEF RaftInv, RaftType, vars
<1>4. NoRemove' /\ GoneInv' /\ AnswerIsCommitted'
  BY <1>1 DEF vars, NoRemove, GoneInv, Left, AnswerIsCommitted
<1> QED
  BY <1>3, <1>4, BaseStep, Zenon DEF ClusterInv

\* While no two processes share a name or an address, the invariant holds.
THEOREM ClusterInvariant == ASSUME Distinct PROVE Spec => []ClusterInv
<1>1. ClusterInv /\ [Next]_vars => ClusterInv'
  BY ClusterStep, ClusterStutter, Zenon
<1> QED
  BY <1>1, ClusterInit, PTL DEF Spec

\* The cluster never splits, however many processes, requests and terms there
\* are: Join, Leave, elections and Close in any order leave one committed
\* sequence of configurations.
THEOREM ClusterAgrees == ASSUME Distinct PROVE Spec => []CommittedAgree
<1>1. ClusterInv => CommittedAgree
  BY Zenon DEF ClusterInv, RaftInv
<1> QED
  BY <1>1, ClusterInvariant, PTL

\* A Join or Leave that was answered 200 after a change has its configuration
\* committed, and every later leader and node has it.
THEOREM AnswersStand == ASSUME Distinct PROVE Spec => []AnswerIsCommitted
<1>1. ClusterInv => AnswerIsCommitted
  BY Zenon DEF ClusterInv
<1> QED
  BY <1>1, ClusterInvariant, PTL

\* A server that has joined stays a member until a request about its name.
THEOREM MembersStay == ASSUME Distinct PROVE Spec => []StaysMember
<1>1. ASSUME ClusterInv PROVE StaysMember
  <2> SUFFICES ASSUME NEW c \in Call, call[c].index > 0, call[c].kind = "join",
                      ~(\E d \in Call \ {c} : call[d].st # "idle" /\ call[d].srv.id = call[c].srv.id),
                      NEW p \in Proc, NEW q \in Proc, commit[p] >= call[c].index, Holds(q, p, call[c].index),
                      NEW i \in call[c].index..Len(log[q])
               PROVE  call[c].srv.id \in Ids(log[q][i].conf)
    BY Zenon DEF StaysMember
  <2>1. Grants(log[p][call[c].index].conf, call[c])
    BY <1>1, Zenon DEF ClusterInv, AnswerIsCommitted
  <2>2. call[c].srv.id \in Ids(log[q][call[c].index].conf)
    BY <2>1, Zenon DEF Grants, Holds, Ids
  <2>3. call[c].index \in 1..Len(log[q]) /\ i \in 1..Len(log[q]) /\ Len(log[q]) \in Nat
    BY DEF Holds
  <2>4. ~Left(call[c].srv.id)
    BY Zenon DEF Left
  <2> QED
    BY <1>1, <2>2, <2>3, <2>4, SMTT(30) DEF ClusterInv, GoneInv
<1> QED
  BY <1>1, ClusterInvariant, PTL
=============================================================================
