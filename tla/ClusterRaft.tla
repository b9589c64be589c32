----------------------------- MODULE ClusterRaft -----------------------------
(***************************************************************************)
(* Why membership changes do not split the cluster: the invariant of the   *)
(* logs, the overlap of quorums that differ by one server, and what it     *)
(* means for elections, new entries and replication.                       *)
(***************************************************************************)
EXTENDS Cluster, FiniteSetTheorems, TLAPS

\* The first entry of every log is the one that Boot wrote.
First == [term |-> 1, conf |-> {Srv(Boot)}]

\* At most one server is added or removed.
Near(C, D) == C = D \/ \E s \in Server : C = D \cup {s} \/ D = C \cup {s}

Quorum(C) == {Q \in SUBSET C : Majority(Q, C)}

\* The log of q has entry e at index i; some process has committed that of q.
Has(q, i, e) == i \in 1..Len(log[q]) /\ log[q][i] = e
Known(q, i) == \E r \in Proc : i <= commit[r] /\ log[r][i] = log[q][i]

RaftType ==
    /\ role \in [Proc -> {"Follower", "Leader", "Shutdown"}] /\ term \in [Proc -> Nat]
    /\ log \in [Proc -> Seq(Entry)] /\ commit \in [Proc -> Nat]

\* Terms and indices grow together; the log begins with Boot's entry, and a
\* leader's ends with one of its own.
TermInv ==
    \A p \in Proc :
        /\ commit[p] <= Len(log[p])
        /\ \A i \in 1..Len(log[p]) : log[p][i].term <= term[p]
        /\ \A i, j \in 1..Len(log[p]) : i <= j => log[p][i].term <= log[p][j].term
        /\ log[p] # <<>> => pc[Boot] # "off" /\ log[p][1] = First
        /\ role[p] = "Leader" => log[p] # <<>> /\ log[p][Len(log[p])].term = term[p]

\* Logs with an entry of the same term agree up to the first of the two.
MatchInv ==
    \A p, q \in Proc : \A i \in 1..Len(log[p]), j \in 1..Len(log[q]) :
        log[p][i].term = log[q][j].term /\ i <= j => \A k \in 1..i : log[p][k] = log[q][k]

\* A leader is alone in its term, and has every entry of it.
LeadInv ==
    \A p, q \in Proc : role[p] = "Leader" =>
        /\ \A i \in 1..Len(log[q]) : log[q][i].term = term[p] => Has(p, i, log[q][i])
        /\ role[q] = "Leader" /\ term[q] = term[p] => p = q

\* A configuration that another one follows is committed; the two differ by
\* at most one server, and are of one term if they differ.
ConfInv ==
    \A q \in Proc : \A i, j \in 1..Len(log[q]) : i < j =>
        /\ log[q][i].conf # log[q][j].conf => Known(q, i)
        /\ j = i + 1 => /\ Near(log[q][i].conf, log[q][j].conf)
                        /\ log[q][i].conf # log[q][j].conf => log[q][i].term = log[q][j].term

\* A quorum of its own configuration has entry e, and so has everyone with
\* an entry of a later term.
Point(c, e) ==
    /\ \E Q \in Quorum(e.conf) : \A v \in Proc : Srv(v) \in Q => Has(v, c, e)
    /\ \A q \in Proc : \A j \in 1..Len(log[q]) : log[q][j].term > e.term => Has(q, c, e)

\* What is committed comes before such an entry with the same configuration.
PointInv ==
    \A r \in Proc : \A i \in 1..commit[r] : \E c \in i..commit[r] :
        log[r][c].conf = log[r][i].conf /\ Point(c, log[r][c])

\* v has voted in the term of entry e, after entry d or before any: what it
\* has in its log is older than the candidate's, or newer than the vote.
Voted(v, n, d, e) ==
    /\ term[v] >= e.term
    /\ \/ LastTerm(v) >= e.term
       \/ LastTerm(v) < d.term
       \/ LastTerm(v) = d.term /\ Len(log[v]) < n

\* Entry n of q is the first of a leader, who had it elected by a quorum.
Elected(q, n) ==
    n > 1 => /\ log[q][n-1].conf = log[q][n].conf /\ log[q][n-1].term < log[q][n].term
             /\ \E V \in Quorum(log[q][n].conf) :
                   \A v \in Proc : Srv(v) \in V => Voted(v, n, log[q][n-1], log[q][n])

ElectInv ==
    \A q \in Proc : \A i \in 1..Len(log[q]) : \E n \in 1..i :
        log[q][n].term = log[q][i].term /\ Elected(q, n)

RaftInv ==
    /\ RaftType /\ TermInv /\ MatchInv /\ LeadInv /\ ConfInv /\ PointInv /\ ElectInv
    /\ CommittedAgree

-----------------------------------------------------------------------------
(* Quorums and least elements *)

\* There are finitely many servers.
LEMMA FiniteServers == IsFiniteSet(Server)
<1> DEFINE f == [p \in Proc |-> Srv(p)]
<1>3. f \in Surjection(Proc, Server)
  BY Zenon DEF Surjection, Server
<1> QED
  BY <1>3, FS_Surjection, ClusterAssumption, Zenon

\* Majorities of configurations that differ by one server intersect.
LEMMA QuorumsMeet ==
    ASSUME NEW C \in SUBSET Server, NEW D \in SUBSET Server, Near(C, D),
           NEW Q \in Quorum(C), NEW V \in Quorum(D)
    PROVE  Q \cap V # {}
<1>1. /\ IsFiniteSet(C) /\ IsFiniteSet(D) /\ IsFiniteSet(Q) /\ IsFiniteSet(V)
      /\ IsFiniteSet(C \cup D)
  BY FiniteServers, FS_Subset, Zenon DEF Quorum
<1>2. /\ Cardinality(C) \in Nat /\ Cardinality(D) \in Nat /\ Cardinality(Q) \in Nat
      /\ Cardinality(V) \in Nat /\ Cardinality(C \cup D) \in Nat
  BY <1>1, FS_CardinalityType, Zenon
<1>3. 2 * Cardinality(C \cup D) <= Cardinality(C) + Cardinality(D) + 1
  <2>1. CASE C = D
    <3>1. Cardinality(C \cup D) = Cardinality(C)
      BY <2>1, Zenon
    <3> QED
      BY <1>2, <2>1, <3>1
  <2>2. ASSUME NEW s, C = D \cup {s}
        PROVE  2 * Cardinality(C \cup D) <= Cardinality(C) + Cardinality(D) + 1
    <3>1. Cardinality(C \cup D) = Cardinality(C)
      BY <2>2, Zenon
    <3>2. Cardinality(C) = Cardinality(D) \/ Cardinality(C) = Cardinality(D) + 1
      BY <1>1, <2>2, FS_AddElement, Zenon
    <3> QED
      BY ONLY <1>2, <3>1, <3>2
  <2>3. ASSUME NEW s, D = C \cup {s}
        PROVE  2 * Cardinality(C \cup D) <= Cardinality(C) + Cardinality(D) + 1
    <3>1. Cardinality(C \cup D) = Cardinality(D)
      BY <2>3, Zenon
    <3>2. Cardinality(D) = Cardinality(C) \/ Cardinality(D) = Cardinality(C) + 1
      BY <1>1, <2>3, FS_AddElement, Zenon
    <3> QED
      BY ONLY <1>2, <3>1, <3>2
  <2> QED
    BY <2>1, <2>2, <2>3, Zenon DEF Near
<1>5. Cardinality(Q) + Cardinality(V) > Cardinality(C \cup D)
  BY <1>2, <1>3 DEF Quorum, Majority
<1> QED
  BY <1>1, <1>5, FS_MajoritiesIntersect, Zenon DEF Quorum

\* A set of numbers has a least element.
LEMMA LeastNumber ==
    ASSUME NEW S, S \subseteq Nat, S # {}
    PROVE  \E m \in S : \A k \in S : m <= k
<1>1. \E x \in S : \A y \in S : ~(<<y, x>> \in OpToRel(<, Nat))
  BY NatLessThanWellFounded, WFMin, Zenon
<1>2. PICK x \in S : \A y \in S : ~(<<y, x>> \in OpToRel(<, Nat))
  BY <1>1, Zenon
<1>3. \A y \in S : ~(y < x)
  BY <1>2, Zenon DEF OpToRel
<1> QED
  BY <1>3

-----------------------------------------------------------------------------
(* What the invariants say of a log that is as good as a quorum's *)

\* Entries of logs have their types.
LEMMA Entries ==
    ASSUME RaftType
    PROVE  \A p \in Proc : /\ Len(log[p]) \in Nat /\ (log[p] = <<>> <=> Len(log[p]) = 0)
                           /\ \A i \in 1..Len(log[p]) : /\ log[p][i] \in Entry
                                                        /\ log[p][i].term \in Nat \ {0}
                                                        /\ log[p][i].conf \in SUBSET Server
<1> TAKE p \in Proc
<1>3. \A e \in Entry : e.term \in Nat \ {0} /\ e.conf \in SUBSET Server
  BY ClusterAssumption DEF Entry
<1> QED
  BY <1>3 DEF RaftType

\* Logs that agree before index m and not there have configurations that
\* differ by one server, if what the first has there is not committed.
LEMMA ForkNear ==
    ASSUME RaftType, MatchInv, ConfInv, NEW p \in Proc, NEW q \in Proc,
           NEW m \in 2..Len(log[q]), m - 1 <= Len(log[p]), log[p][m-1] = log[q][m-1],
           m <= Len(log[p]) => log[p][m] # log[q][m] /\ ~Known(p, m)
    PROVE  Near(Conf(p), log[q][m].conf)
<1>1. /\ Len(log[p]) \in Nat /\ Len(log[q]) \in Nat /\ m \in Nat
      /\ log[p] # <<>> /\ m - 1 \in 1..Len(log[p]) /\ m - 1 \in 1..Len(log[q]) /\ m \in 1..Len(log[q])
      /\ m - 1 < m /\ m = (m - 1) + 1 /\ m <= m /\ m \in 1..m
  BY Entries
<1>2. /\ Near(log[q][m-1].conf, log[q][m].conf)
      /\ log[q][m-1].conf # log[q][m].conf => log[q][m-1].term = log[q][m].term
  BY <1>1, Zenon DEF ConfInv
<1>3. CASE Len(log[p]) < m
  BY <1>3, <1>2 DEF Conf
<1>4. CASE m <= Len(log[p])
  <2>1. m \in 1..Len(log[p]) /\ m - 1 < m /\ m = (m - 1) + 1
    BY <1>1, <1>4
  <2>2. Conf(p) = log[p][m].conf
    <3>1. CASE m = Len(log[p])
      BY <3>1 DEF Conf
    <3>2. CASE m < Len(log[p])
      BY <3>2 DEF Conf, ConfInv
    <3> QED
      BY <1>4, <3>1, <3>2
  <2>3. /\ Near(log[p][m-1].conf, log[p][m].conf)
        /\ log[p][m-1].conf # log[p][m].conf => log[p][m-1].term = log[p][m].term
    BY <1>1, <2>1, Zenon DEF ConfInv
  <2>4. log[p][m].term # log[q][m].term
    BY <1>1, <1>4, <2>1, Zenon DEF MatchInv
  <2>5. log[p][m-1].conf = log[p][m].conf \/ log[q][m-1].conf = log[q][m].conf
    BY <1>2, <2>3, <2>4, Zenon
  <2> QED
    BY <1>2, <2>2, <2>3, <2>5, Zenon DEF Near
<1> QED
  BY <1>3, <1>4

\* Logs that agree on an entry agree before it.
LEMMA AgreeBefore ==
    ASSUME MatchInv, RaftType, NEW p \in Proc, NEW q \in Proc, NEW c \in 1..Len(log[p]), Has(q, c, log[p][c]),
           NEW i \in 1..c
    PROVE  i \in 1..Len(log[p]) /\ Has(q, i, log[p][i])
<1>1. c \in 1..Len(log[q]) /\ log[q][c] = log[p][c] /\ Len(log[p]) \in Nat /\ Len(log[q]) \in Nat
  BY Entries, Zenon DEF Has
<1>2. \A k \in 1..c : log[q][k] = log[p][k]
  BY <1>1, SMTT(30) DEF MatchInv
<1> QED
  BY <1>1, <1>2 DEF Has

\* What is committed is before a point.
LEMMA PointOf ==
    ASSUME RaftInv, NEW r \in Proc, NEW k \in 1..commit[r]
    PROVE  \E c \in 1..Len(log[r]) : /\ k <= c /\ c <= commit[r] /\ k \in 1..Len(log[r])
                                     /\ log[r][c].conf = log[r][k].conf /\ Point(c, log[r][c])
<1>1. commit[r] \in Nat /\ commit[r] <= Len(log[r]) /\ Len(log[r]) \in Nat
  BY Entries, Zenon DEF RaftInv, RaftType, TermInv
<1>2. PICK c \in k..commit[r] : log[r][c].conf = log[r][k].conf /\ Point(c, log[r][c])
  BY Zenon DEF RaftInv, PointInv
<1>3. k \in 1..Len(log[r]) /\ c \in 1..Len(log[r]) /\ k <= c /\ c <= commit[r]
  BY ONLY <1>1, k \in 1..commit[r], c \in k..commit[r]
<1> QED
  BY <1>2, <1>3, Zenon

\* Where two logs first differ.
LEMMA FirstDifference ==
    ASSUME RaftInv, NEW p \in Proc, NEW q \in Proc, log[p] # <<>>, NEW k \in 1..Len(log[q]),
           ~Has(p, k, log[q][k])
    PROVE  \E m \in 2..k : /\ m - 1 <= Len(log[p]) /\ log[p][m-1] = log[q][m-1]
                           /\ ~Has(p, m, log[q][m])
<1> DEFINE S == {i \in 1..k : ~Has(p, i, log[q][i])}
<1>2. PICK m \in S : \A i \in S : m <= i
  <2>1. S \subseteq Nat /\ k \in S
    OBVIOUS
  <2> HIDE DEF S
  <2> QED
    BY <2>1, LeastNumber, Zenon
<1>3. Has(p, 1, log[q][1])
  BY DEF RaftInv, TermInv, Has
<1>5. Has(p, m-1, log[q][m-1])
  BY <1>2, <1>3
<1> QED
  BY <1>5 DEF Has

\* A log that is as good as those of a quorum of its configuration has all
\* that is committed.
LEMMA WinnerExtends ==
    ASSUME RaftInv, NEW p \in Proc, log[p] # <<>>, NEW V \in Quorum(Conf(p)),
           \A v \in Proc : Srv(v) \in V => UpToDate(p, v),
           NEW r \in Proc, NEW k \in 1..commit[r]
    PROVE  Has(p, k, log[r][k])
<1> SUFFICES ASSUME ~Has(p, k, log[r][k]) PROVE FALSE
  BY Zenon
<1>1. RaftType /\ TermInv /\ MatchInv /\ ConfInv /\ CommittedAgree
  BY Zenon DEF RaftInv
<1>2. /\ Len(log[p]) \in Nat \ {0} /\ Len(log[r]) \in Nat /\ commit[r] \in Nat /\ commit[r] <= Len(log[r])
      /\ k \in 1..Len(log[r])
  BY <1>1 DEF RaftType, TermInv
<1>3. PICK m \in 2..k : /\ m - 1 <= Len(log[p]) /\ log[p][m-1] = log[r][m-1]
                        /\ ~Has(p, m, log[r][m])
  BY <1>2, FirstDifference, Zenon
<1>4. m \in 1..commit[r] /\ m \in 2..Len(log[r])
  BY <1>2, <1>3, SMTT(30)
<1>5. PICK c \in 1..Len(log[r]) : /\ m <= c /\ log[r][c].conf = log[r][m].conf /\ Point(c, log[r][c])
  BY <1>4, PointOf, Zenon
<1>6. ~Has(p, c, log[r][c])
  BY <1>1, <1>3, <1>5, AgreeBefore
<1>7. \A j \in 1..Len(log[p]) : log[p][j].term <= log[r][c].term
  <2> SUFFICES ASSUME NEW j \in 1..Len(log[p]) PROVE log[p][j].term <= log[r][c].term
    BY Zenon
  <2>1. log[p][j].term \in Nat /\ log[r][c].term \in Nat
    BY <1>1, Entries, Zenon
  <2>2. ~(log[p][j].term > log[r][c].term)
    BY <1>5, <1>6, Zenon DEF Point
  <2> QED
    BY ONLY <2>1, <2>2
<1>8. Near(Conf(p), log[r][c].conf)
  <2>1. m <= Len(log[p]) => log[p][m] # log[r][m] /\ ~Known(p, m)
    BY <1>1, <1>3, <1>4 DEF Known, CommittedAgree, Has, RaftType
  <2> QED
    BY <1>1, <1>3, <1>4, <1>5, <2>1, ForkNear, Zenon
<1>9. PICK v \in Proc : Has(v, c, log[r][c]) /\ UpToDate(p, v)
  <2>1. PICK Q \in Quorum(log[r][c].conf) : \A v \in Proc : Srv(v) \in Q => Has(v, c, log[r][c])
    BY <1>5, Zenon DEF Point
  <2>2. Conf(p) \in SUBSET Server /\ log[r][c].conf \in SUBSET Server
    <3>1. Len(log[p]) \in 1..Len(log[p])
      BY <1>2
    <3> QED
      BY <1>1, <3>1, Entries, Zenon DEF Conf
  <2>3. PICK s : s \in V \cap Q
    BY <1>8, <2>1, <2>2, QuorumsMeet, Zenon
  <2> QED
    BY <2>1, <2>3, <2>2 DEF Quorum, Server
<1> DEFINE n == Len(log[p])
           w == Len(log[v])
<1>10. /\ w \in Nat /\ c \in 1..w /\ log[v][c] = log[r][c] /\ log[v][c].term <= log[v][w].term
       /\ LastTerm(v) = log[v][w].term /\ LastTerm(p) = log[p][n].term /\ n \in 1..n /\ w \in 1..w
  <2>1. w \in Nat /\ log[v] # <<>> /\ c \in 1..w /\ log[v][c] = log[r][c] /\ w \in 1..w
    BY <1>9 DEF Has
  <2>2. log[v][c].term <= log[v][w].term
    BY <1>1, <2>1, SMTT(30) DEF TermInv
  <2> QED
    BY <2>1, <2>2 DEF LastTerm
<1>11. /\ log[p][n].term \in Nat /\ log[r][c].term \in Nat /\ log[v][w].term \in Nat
       /\ log[p][n].term <= log[r][c].term
  <2>1. log[p][n].term \in Nat /\ log[r][c].term \in Nat /\ log[v][w].term \in Nat
    BY <1>1, <1>10, Entries, Zenon
  <2> QED
    BY <1>7, <1>10, <2>1, Zenon
<1>12. log[p][n].term = log[r][c].term /\ n >= w /\ c <= n
  <2>1. \/ log[p][n].term > log[v][w].term
        \/ log[p][n].term = log[v][w].term /\ n >= w
    BY <1>9, <1>10, Zenon DEF UpToDate
  <2>2. n \in Nat
    OBVIOUS
  <2>3. log[r][c].term <= log[v][w].term /\ c \in 1..w /\ w \in Nat
    BY <1>10, Zenon
  <2>4. PICK x, y, z : x = log[p][n].term /\ y = log[r][c].term /\ z = log[v][w].term
    BY Zenon
  <2>5. /\ x \in Nat /\ y \in Nat /\ z \in Nat /\ x <= y /\ y <= z
        /\ x > z \/ (x = z /\ n >= w)
    BY <1>11, <2>1, <2>3, <2>4, Zenon
  <2> HIDE DEF n, w
  <2>6. x = y /\ n >= w /\ c <= n
    BY ONLY <2>2, <2>3, <2>5
  <2> QED
    BY <2>4, <2>6, Zenon
<1> QED
  BY <1>6, <1>12, <1>1, SMTT(30) DEF Has, MatchInv

\* So has a log with an entry of a term later than all in such a log, and the
\* configurations of the two differ by at most one server.
LEMMA Rival ==
    ASSUME RaftInv, NEW p \in Proc, log[p] # <<>>,
           \A r \in Proc : \A k \in 1..commit[r] : Has(p, k, log[r][k]),
           NEW q \in Proc, NEW n \in 1..Len(log[q]),
           \A i \in 1..Len(log[p]) : log[p][i].term < log[q][n].term
    PROVE  Near(Conf(p), log[q][n].conf)
<1>1. RaftType /\ MatchInv /\ ConfInv
  BY Zenon DEF RaftInv
<1>3. ASSUME NEW r \in Proc, NEW k \in 1..commit[r] PROVE Has(q, k, log[r][k])
  <2>1. PICK c \in 1..Len(log[r]) : k <= c /\ c <= commit[r] /\ Point(c, log[r][c])
    BY PointOf, Zenon
  <2>3. Has(q, c, log[r][c])
    BY <2>1, SMTT(30) DEF Point, Has
  <2>4. k \in 1..c
    BY ONLY k \in 1..commit[r], c \in 1..Len(log[r]), <2>1
  <2> QED
    BY <1>1, <2>3, <2>4, AgreeBefore, Zenon
<1>4. ~Has(p, n, log[q][n])
  BY <1>1, Entries DEF Has
<1>5. PICK m \in 2..n : /\ m - 1 <= Len(log[p]) /\ log[p][m-1] = log[q][m-1]
                        /\ ~Has(p, m, log[q][m])
  BY <1>4, FirstDifference, Zenon
<1>6. m \in 2..Len(log[q]) /\ m \in 1..Len(log[q]) /\ m \in Nat
  OBVIOUS
<1>9. log[q][m].conf = log[q][n].conf
  BY <1>1, <1>5, SMTT(30) DEF ConfInv, Known
<1> QED
  BY <1>1, <1>5, <1>6, <1>9, ForkNear, <1>3 DEF Known, Has

-----------------------------------------------------------------------------
(* What they say of a leader *)

\* The log of leader p has what is committed in that of q, and q's points.
LEMMA LeaderHas ==
    ASSUME RaftInv, NEW p \in Proc, role[p] = "Leader", NEW q \in Proc, term[q] <= term[p]
    PROVE  /\ \A c \in 1..Len(log[q]) : Point(c, log[q][c]) => Has(p, c, log[q][c])
           /\ \A i \in 1..commit[q] : Has(p, i, log[q][i])
<1>1. RaftType /\ TermInv /\ MatchInv /\ LeadInv
  BY Zenon DEF RaftInv
<1>2. /\ Len(log[p]) \in Nat /\ Len(log[p]) \in 1..Len(log[p])
      /\ log[p][Len(log[p])].term = term[p] /\ term[p] \in Nat /\ term[q] \in Nat
  BY <1>1 DEF TermInv, RaftType
<1>3. ASSUME NEW c \in 1..Len(log[q]), Point(c, log[q][c]) PROVE Has(p, c, log[q][c])
  <2>2. CASE log[q][c].term = term[p]
    BY <1>1, <2>2, Zenon DEF LeadInv
  <2>3. CASE log[q][c].term # term[p]
    <3>1. log[p][Len(log[p])].term > log[q][c].term
      BY <1>2, <2>3, <1>1, Entries, SMTT(30) DEF TermInv
    <3> QED
      BY <1>2, <1>3, <3>1, Zenon DEF Point
  <2> QED
    BY <2>2, <2>3, Zenon
<1>4. ASSUME NEW i \in 1..commit[q] PROVE Has(p, i, log[q][i])
  <2>1. PICK c \in 1..Len(log[q]) : i <= c /\ Point(c, log[q][c])
    BY PointOf, Zenon
  <2>2. i \in 1..c
    BY <2>1
  <2> QED
    BY <1>1, <1>3, <2>1, <2>2, AgreeBefore, Zenon
<1> QED
  BY <1>3, <1>4, Zenon

\* Its log has what was committed, and its last entry is a point.
LEMMA LeaderPoint ==
    ASSUME RaftInv, NEW p \in Proc, role[p] = "Leader",
           NEW Q \in Quorum(Conf(p)), \A v \in Proc : Srv(v) \in Q => log[v] = log[p]
    PROVE  /\ \A r \in Proc : \A k \in 1..commit[r] : Has(p, k, log[r][k])
           /\ Point(Len(log[p]), log[p][Len(log[p])])
<1>1. RaftType /\ TermInv /\ MatchInv /\ ElectInv
  BY Zenon DEF RaftInv
<1> DEFINE n == Len(log[p])
           t == term[p]
<1>2. /\ log[p] # <<>> /\ n \in Nat \ {0} /\ log[p][n].term = t /\ t \in Nat \ {0}
      /\ LastTerm(p) = t /\ Conf(p) = log[p][n].conf /\ Conf(p) \in SUBSET Server
  BY <1>1, Entries DEF TermInv, LastTerm, Conf
<1>4. \A r \in Proc : \A k \in 1..commit[r] : Has(p, k, log[r][k])
  BY <1>2, WinnerExtends DEF UpToDate, LastTerm
<1>5. \A i \in 1..n : log[p][i].term \in Nat /\ log[p][i].term <= t
  BY <1>1, Entries, Zenon DEF TermInv
<1>6. PICK e : e = log[p][n]
  BY Zenon
<1> DEFINE S == {u \in Nat : \E q \in Proc : \E j \in 1..Len(log[q]) :
                    u = log[q][j].term /\ u > t /\ ~Has(q, n, e)}
<1>7. S = {}
  <2> SUFFICES ASSUME S # {} PROVE FALSE
    BY Zenon
  <2>1. PICK u \in S : \A w \in S : u <= w
    <3>1. S \subseteq Nat
      BY Zenon
    <3> HIDE DEF S
    <3> QED
      BY <3>1, LeastNumber, Zenon
  <2>0. PICK q \in Proc : \E j \in 1..Len(log[q]) : u = log[q][j].term /\ u > t /\ ~Has(q, n, e)
    BY Zenon
  <2>2. PICK j \in 1..Len(log[q]) : u = log[q][j].term /\ u > t /\ ~Has(q, n, e)
    BY <2>0, Zenon
  <2>3. PICK m \in 1..j : log[q][m].term = u /\ Elected(q, m)
    BY <1>1, <2>2, Zenon DEF ElectInv
  <2>4. /\ m \in 1..Len(log[q]) /\ Len(log[q]) \in Nat /\ m \in Nat /\ u \in Nat
        /\ m > 1 => m - 1 \in 1..Len(log[q])
    BY SMTT(30)
  <2>41. m > 1 => log[q][m-1].term \in Nat
    BY <1>1, <2>4, Entries, Zenon
  <2>5. m > 1
    BY <1>1, <1>2, <2>3, SMTT(30) DEF TermInv, First
  <2>6. Near(Conf(p), log[q][m].conf)
    <3>1. \A i \in 1..Len(log[p]) : log[p][i].term < u
      <4>1. t \in Nat /\ u \in Nat /\ u > t
        BY <1>2, Zenon
      <4> HIDE DEF t, S
      <4> QED
        BY <4>1, <1>5, SMTT(30)
    <3> QED
      BY <1>2, <1>4, <2>3, <2>4, <3>1, Rival, Zenon
  <2>7. PICK V \in Quorum(log[q][m].conf) : \A v \in Proc : Srv(v) \in V => Voted(v, m, log[q][m-1], log[q][m])
    BY <2>3, <2>5, Zenon DEF Elected
  <2>8. log[q][m].conf \in SUBSET Server /\ log[q][m-1].term < u
    BY <1>1, <2>3, <2>4, <2>5, Entries, Zenon DEF Elected
  <2>9. PICK v \in Proc : Srv(v) \in Q /\ Srv(v) \in V
    <3>1. Q \cap V # {}
      BY <1>2, <2>6, <2>8, QuorumsMeet, Zenon
    <3> QED
      BY <3>1, <1>2, SMTT(30) DEF Server, Quorum
  <2>10. Voted(v, m, log[q][m-1], log[q][m]) /\ log[v] = log[p]
    BY <2>7, <2>9, Zenon
  <2>11. LastTerm(v) = t /\ Len(log[v]) = n
    BY <1>2, <2>10, Zenon DEF LastTerm
  <2>12. log[q][m-1].term \notin S
    <3> HIDE DEF S
    <3> QED
      BY <2>1, <2>4, <2>41, <2>5, <2>8
  <2>13. ~(log[q][m-1].term > t)
    BY <2>2, <2>4, <2>41, <2>5, <2>12, Zenon
  <2>14. log[q][m-1].term = t /\ n < m
    BY <1>2, <2>3, <2>10, <2>11, <2>13 DEF Voted
  <2>15. log[q][n] = log[p][n]
    <3>1. m - 1 \in 1..Len(log[q]) /\ n \in 1..Len(log[p]) /\ n <= m - 1
      <4>1. n \in Nat \ {0} /\ m \in Nat /\ n < m
        BY <1>2, <2>4, <2>14, Zenon
      <4> HIDE DEF n
      <4>2. n \in 1..n /\ n <= m - 1
        BY ONLY <4>1
      <4> QED
        BY <2>4, <2>5, <4>2, Zenon DEF n
    <3>2. log[p][n].term = log[q][m-1].term
      BY <1>2, <2>14, Zenon
    <3> QED
      BY <1>1, <3>1, <3>2, ZenonT(60) DEF MatchInv
  <2> QED
    BY <1>2, <1>6, <2>2, <2>4, <2>14, <2>15, SMTT(30) DEF Has
<1>10. Point(n, e)
  BY <1>2, <1>6, <1>1, <1>7, Entries, SMTT(30) DEF Point, Has
<1> QED
  BY <1>4, <1>6, <1>10, Zenon

-----------------------------------------------------------------------------
(* An entry is added to a log *)

\* A leader p, new or not, adds entry e: it is alone with what its term has
\* in logs, and has what was committed before.
Adds(p, e) ==
    /\ log' = [log EXCEPT ![p] = Append(log[p], e)] /\ UNCHANGED <<pc, commit>>
    /\ log[p] # <<>> /\ term[p] <= e.term /\ term'[p] = e.term
    /\ \A q \in Proc : term[q] <= term'[q]
    /\ \A q \in Proc \ {p} : role'[q] = "Leader" =>
          role[q] = "Leader" /\ term'[q] = term[q] /\ term[q] # e.term
    /\ \A q \in Proc : \A j \in 1..Len(log[q]) : log[q][j].term = e.term => Has(p, j, log[q][j])
    /\ e.conf # Conf(p) => Near(Conf(p), e.conf) /\ commit[p] = Len(log[p]) /\ LastTerm(p) = e.term
    /\ \A r \in Proc : \A c \in 1..commit[r] :
          Point(c, log[r][c]) /\ log[r][c].term < e.term => Has(p, c, log[r][c])
    /\ \/ \E i \in 1..Len(log[p]) : log[p][i].term = e.term
       \/ \E m : m = Len(log[p]) + 1 /\ Elected(p, m)'

\* The logs after that.
LEMMA AddedLogs ==
    ASSUME RaftType, NEW p \in Proc, NEW e \in Entry, Adds(p, e)
    PROVE  /\ Len(log[p]) \in Nat \ {0} /\ Len(log'[p]) = Len(log[p]) + 1
           /\ log'[p][Len(log[p]) + 1] = e
           /\ \A q \in Proc : /\ Len(log[q]) \in Nat
                              /\ q # p => log'[q] = log[q]
                              /\ \A i \in 1..Len(log[q]) : i \in 1..Len(log'[q]) /\ log'[q][i] = log[q][i]
                              /\ \A i \in 1..Len(log'[q]) : i \in 1..Len(log[q]) \/ (q = p /\ i = Len(log[p]) + 1)
  BY SMTT(30) DEF Adds, RaftType

\* Nothing is lost by it, and votes stay given.
LEMMA AddKeeps ==
    ASSUME RaftType, RaftType', TermInv, NEW p \in Proc, NEW e \in Entry, Adds(p, e)
    PROVE  /\ \A q \in Proc : \A i, f : Has(q, i, f) => Has(q, i, f)'
           /\ \A q \in Proc : \A i \in 1..Len(log[q]) : Known(q, i) => Known(q, i)'
           /\ \A v \in Proc : \A n, d : \A f \in Entry : Voted(v, n, d, f) => Voted(v, n, d, f)'
<1>2. ASSUME NEW q \in Proc, NEW i \in 1..Len(log[q]), Known(q, i) PROVE Known(q, i)'
  <2>1. PICK r \in Proc : i <= commit[r] /\ log[r][i] = log[q][i]
    BY <1>2, Zenon DEF Known
  <2>2. i \in 1..Len(log[r]) /\ commit' = commit
    <3>1. Len(log[r]) \in Nat /\ commit[r] \in Nat /\ commit[r] <= Len(log[r])
      BY Entries, Zenon DEF TermInv, RaftType
    <3>2. i \in 1..Len(log[r])
      BY ONLY <2>1, <3>1, i \in 1..Len(log[q])
    <3> QED
      BY <3>2, Zenon DEF Adds
  <2>3. log'[r][i] = log[r][i] /\ log'[q][i] = log[q][i]
    BY <2>2, AddedLogs, Zenon
  <2> QED
    BY <2>1, <2>2, <2>3, Zenon DEF Known
<1>3. ASSUME NEW v \in Proc, NEW n, NEW d, NEW f \in Entry, Voted(v, n, d, f) PROVE Voted(v, n, d, f)'
  <2>1. /\ f.term \in Nat /\ term[v] \in Nat /\ term'[v] \in Nat /\ term'[v] >= term[v]
        /\ e.term \in Nat /\ term[p] <= e.term /\ term'[p] = e.term
    BY DEF Entry, RaftType, Adds
  <2>2. CASE v = p
    <3>2. term[v] >= f.term
      BY <1>3, Zenon DEF Voted
    <3> QED
      BY <2>1, <2>2, <3>2, AddedLogs, SMTT(30) DEF Voted, LastTerm
  <2>3. CASE v # p
    BY <2>3, AddedLogs, <2>1, <1>3 DEF LastTerm, Voted
  <2> QED
    BY <2>2, <2>3, Zenon
<1> QED
  BY <1>2, <1>3, AddedLogs, Zenon DEF Has

\* The invariants after that.
LEMMA AddStep ==
    ASSUME RaftInv, RaftType', NEW p \in Proc, NEW e \in Entry, Adds(p, e)
    PROVE  RaftInv'
<1>1. RaftType /\ TermInv /\ MatchInv /\ LeadInv /\ ConfInv /\ PointInv /\ ElectInv /\ CommittedAgree
  BY Zenon DEF RaftInv
<1> DEFINE n == Len(log[p])
<1>2. /\ n \in Nat \ {0} /\ Len(log'[p]) = n + 1 /\ log'[p][n+1] = e
      /\ \A q \in Proc : /\ Len(log[q]) \in Nat
                         /\ q # p => log'[q] = log[q]
                         /\ \A i \in 1..Len(log[q]) : i \in 1..Len(log'[q]) /\ log'[q][i] = log[q][i]
                         /\ \A i \in 1..Len(log'[q]) : i \in 1..Len(log[q]) \/ (q = p /\ i = n + 1)
  BY <1>1, AddedLogs, Zenon
<1>3. /\ \A q \in Proc : \A i, f : Has(q, i, f) => Has(q, i, f)'
      /\ \A q \in Proc : \A i \in 1..Len(log[q]) : Known(q, i) => Known(q, i)'
      /\ \A v \in Proc : \A m, d : \A f \in Entry : Voted(v, m, d, f) => Voted(v, m, d, f)'
  BY <1>1, AddKeeps, Zenon
<1>4. /\ UNCHANGED <<pc, commit>> /\ term[p] <= e.term /\ term'[p] = e.term
      /\ \A q \in Proc : term[q] <= term'[q]
      /\ e.term \in Nat /\ \A q \in Proc : term[q] \in Nat /\ term'[q] \in Nat
  BY <1>1, Zenon DEF Adds, RaftType, Entry
<1>5. \A q \in Proc : \A i \in 1..Len(log[q]) : log[q][i] \in Entry /\ log[q][i].term \in Nat
  BY <1>1, Entries, Zenon
<1>6. \A q \in Proc \ {p} : role'[q] = "Leader" =>
          role[q] = "Leader" /\ term'[q] = term[q] /\ term[q] # e.term
  BY Zenon DEF Adds
<1>7. \A q \in Proc : \A j \in 1..Len(log[q]) : log[q][j].term = e.term => Has(p, j, log[q][j])
  BY Zenon DEF Adds
<1>8. \A q \in Proc : commit[q] \in Nat /\ commit[q] <= Len(log[q])
  BY <1>1, Zenon DEF RaftType, TermInv
<1> HIDE DEF n
<1>11. TermInv'
  <2> SUFFICES ASSUME NEW q \in Proc
               PROVE  /\ commit'[q] <= Len(log'[q])
                      /\ \A i \in 1..Len(log'[q]) : log'[q][i].term <= term'[q]
                      /\ \A i, j \in 1..Len(log'[q]) : i <= j => log'[q][i].term <= log'[q][j].term
                      /\ log'[q] # <<>> => pc'[Boot] # "off" /\ log'[q][1] = First
                      /\ role'[q] = "Leader" => log'[q] # <<>> /\ log'[q][Len(log'[q])].term = term'[q]
    BY Zenon DEF TermInv
  <2>1. /\ \A i \in 1..Len(log[q]) : log[q][i].term <= term[q]
        /\ \A i, j \in 1..Len(log[q]) : i <= j => log[q][i].term <= log[q][j].term
        /\ log[q] # <<>> => pc[Boot] # "off" /\ log[q][1] = First
        /\ role[q] = "Leader" => log[q] # <<>> /\ log[q][Len(log[q])].term = term[q]
    BY <1>1, Zenon DEF TermInv
  <2>2. CASE q # p
    <3>1. log'[q] = log[q]
      BY <1>2, <2>2, Zenon
    <3> QED
      BY <1>4, <1>6, <1>8, <2>1, <2>2, <3>1, <1>5, SMTT(30)
  <2>3. CASE q = p
    <3>1. \A i \in 1..n : log[p][i].term <= e.term
      BY <1>4, <1>5, <2>1, <2>3 DEF n
    <3>2. \A i \in 1..n+1 : log'[p][i].term <= e.term
      <4> TAKE i \in 1..n+1
      <4>1. CASE i = n + 1
        BY <1>2, <1>4, <4>1
      <4>2. CASE i # n + 1
        <5>1. i \in 1..Len(log[p]) /\ i \in 1..n
          BY <1>2, <4>2 DEF n
        <5> QED
          BY <1>2, <3>1, <5>1, Zenon
      <4> QED
        BY <4>1, <4>2, Zenon
    <3>3. \A i, j \in 1..n+1 : i <= j => log'[p][i].term <= log'[p][j].term
      <4> TAKE i, j \in 1..n+1
      <4> HAVE i <= j
      <4>1. CASE j = n + 1
        BY <1>2, <3>2, <4>1, Zenon
      <4>2. CASE j # n + 1
        <5>1. i \in 1..Len(log[p]) /\ j \in 1..Len(log[p])
          BY <1>2, <4>2 DEF n
        <5> QED
          BY <1>2, <2>1, <2>3, <5>1, Zenon
      <4> QED
        BY <4>1, <4>2, Zenon
    <3>4. Len(log'[p]) = n + 1 /\ log'[p][n+1] = e /\ log'[p] # <<>>
      BY <1>2
    <3>5. commit'[p] <= Len(log'[p])
      BY <1>2, <1>4, <1>8 DEF n
    <3>6. pc'[Boot] # "off" /\ log'[p][1] = First
      BY <1>2, <1>4, <2>1, <2>3 DEF n
    <3> QED
      BY <1>4, <2>3, <3>2, <3>3, <3>4, <3>5, <3>6, Zenon
  <2> QED
    BY <2>2, <2>3, Zenon
<1>12. MatchInv'
  <2> SUFFICES ASSUME NEW a \in Proc, NEW b \in Proc,
                      NEW i \in 1..Len(log'[a]), NEW j \in 1..Len(log'[b]),
                      log'[a][i].term = log'[b][j].term, i <= j, NEW k \in 1..i
               PROVE  log'[a][k] = log'[b][k]
    BY Zenon DEF MatchInv
  <2>1. CASE i \in 1..Len(log[a]) /\ j \in 1..Len(log[b])
    <3>1. log'[a][i] = log[a][i] /\ log'[b][j] = log[b][j]
      BY <1>2, <2>1, Zenon
    <3>3. k \in 1..Len(log[a]) /\ k \in 1..Len(log[b])
      BY <2>1
    <3>2. log[a][i].term = log[b][j].term
      BY <3>1, Zenon
    <3>4. log[a][k] = log[b][k]
      BY <1>1, <2>1, <3>2, Zenon DEF MatchInv
    <3> QED
      BY <1>2, <3>3, <3>4, Zenon
  <2>2. CASE a = p /\ i = n + 1
    <3>2. j \in 1..Len(log[b]) => log[b][j].term = e.term
      BY <1>2, <2>2, Zenon
    <3> QED
      BY <1>2, <2>2, <1>7, <3>2, SMTT(30) DEF Has, n
  <2>3. CASE b = p /\ j = n + 1 /\ i \in 1..Len(log[a])
    <3>1. Has(p, i, log[a][i])
      BY <1>2, <1>7, <2>3, Zenon
    <3>2. i \in 1..Len(log[p]) /\ log[p][i] = log[a][i]
      BY <3>1, Zenon DEF Has
    <3>3. i <= i /\ k \in 1..Len(log[a]) /\ k \in 1..Len(log[p])
      BY <1>2, <2>3, <3>2, SMTT(30)
    <3>4. log[a][k] = log[p][k]
      BY <1>1, <2>3, <3>2, <3>3, Zenon DEF MatchInv
    <3> QED
      BY <1>2, <2>3, <3>3, <3>4, Zenon
  <2> QED
    BY <1>2, <2>1, <2>2, <2>3
<1>13. LeadInv'
  <2> SUFFICES ASSUME NEW a \in Proc, NEW b \in Proc, role'[a] = "Leader"
               PROVE  /\ \A i \in 1..Len(log'[b]) : log'[b][i].term = term'[a] => Has(a, i, log[b][i])'
                      /\ role'[b] = "Leader" /\ term'[b] = term'[a] => a = b
    BY Zenon DEF LeadInv
  <2>2. ASSUME NEW i \in 1..Len(log'[b]), log'[b][i].term = term'[a]
        PROVE  Has(a, i, log[b][i])'
    <3>1. CASE b = p /\ i = n + 1
      BY <1>2, <1>6, <2>2, <3>1, Zenon DEF Has
    <3>2. CASE i \in 1..Len(log[b])
      <4>1. log'[b][i] = log[b][i]
        BY <1>2, <3>2, Zenon
      <4>2. Has(a, i, log[b][i])
        BY <1>1, <1>4, <1>6, <1>7, <2>2, <3>2, <4>1, ZenonT(60) DEF LeadInv
      <4> QED
        BY <1>3, <4>1, <4>2, Zenon
    <3> QED
      BY <1>2, <3>1, <3>2, Zenon
  <2> QED
    BY <2>2, <1>1, <1>4, <1>6 DEF LeadInv
<1>14. ConfInv'
  <2> SUFFICES ASSUME NEW q \in Proc, NEW i \in 1..Len(log'[q]), NEW j \in 1..Len(log'[q]), i < j
               PROVE  /\ log'[q][i].conf # log'[q][j].conf => Known(q, i)'
                      /\ j = i + 1 => /\ Near(log'[q][i].conf, log'[q][j].conf)
                                      /\ log'[q][i].conf # log'[q][j].conf => log'[q][i].term = log'[q][j].term
    BY Zenon DEF ConfInv
  <2>1. i \in 1..Len(log[q]) /\ log'[q][i] = log[q][i]
    BY <1>2, SMTT(30)
  <2>2. CASE j \in 1..Len(log[q])
    <3>2. Known(q, i) => Known(q, i)'
      BY <1>3, <2>1, Zenon
    <3>3. log'[q][j] = log[q][j]
      BY <1>2, <2>2, Zenon
    <3> QED
      BY <1>1, <2>1, <2>2, <3>2, <3>3, Zenon DEF ConfInv
  <2>3. CASE q = p /\ j = n + 1
    <3>1. /\ Conf(p) = log[p][n].conf /\ LastTerm(p) = log[p][n].term
          /\ log'[p][j] = e /\ i \in 1..n
      BY <1>2, <2>3 DEF n, Conf, LastTerm
    <3>2. CASE e.conf = Conf(p)
      <4>1. log[p][i].conf # e.conf => Known(p, i)
        <5> QED
          BY <1>1, <3>1, <3>2, SMTT(30) DEF ConfInv, n
      <4>2. j = i + 1 => i = n
        BY <1>2, <2>3
      <4> QED
        BY <1>3, <2>1, <2>3, <3>1, <3>2, <4>1, <4>2, Zenon DEF Near
    <3>3. CASE e.conf # Conf(p)
      <4>1. Near(Conf(p), e.conf) /\ commit[p] = n /\ LastTerm(p) = e.term
        BY <3>3, Zenon DEF Adds, n
      <4>2. Known(p, i)
        BY <3>1, <4>1 DEF Known
      <4>3. j = i + 1 => i = n
        BY <1>2, <2>3
      <4> QED
        BY <1>3, <2>1, <2>3, <3>1, <4>1, <4>2, <4>3, Zenon
    <3> QED
      BY <3>2, <3>3, Zenon
  <2> QED
    BY <1>2, <2>2, <2>3, Zenon
<1>15. PointInv'
  <2> SUFFICES ASSUME NEW r \in Proc, NEW i \in 1..commit[r]
               PROVE  \E c \in i..commit[r] : log'[r][c].conf = log'[r][i].conf /\ Point(c, log[r][c])'
    BY <1>4, Zenon DEF PointInv
  <2>1. PICK c \in i..commit[r] : log[r][c].conf = log[r][i].conf /\ Point(c, log[r][c])
    BY <1>1, Zenon DEF PointInv
  <2>2. i \in 1..Len(log[r]) /\ c \in 1..Len(log[r]) /\ c \in 1..commit[r]
    BY <1>8
  <2>3. log'[r][i] = log[r][i] /\ log'[r][c] = log[r][c]
    BY <1>2, <2>2, Zenon
  <2>4. PICK f : f = log[r][c]
    BY Zenon
  <2>5. Point(c, f)
    BY <2>1, <2>4, Zenon
  <2>6. f.term < e.term => Has(p, c, f)
    BY <2>4, <2>5 DEF Adds
  <2>7. \A q \in Proc : \A j \in 1..Len(log'[q]) : log'[q][j].term > f.term => Has(q, c, f)
    <3> TAKE q \in Proc
    <3> TAKE j \in 1..Len(log'[q])
    <3>1. CASE j \in 1..Len(log[q])
      BY <1>2, <2>5, <3>1, Zenon DEF Point
    <3>2. CASE q = p /\ j = n + 1
      BY <1>2, <2>6, <3>2, Zenon
    <3> QED
      BY <1>2, <3>1, <3>2, Zenon
  <2>8. Point(c, f)'
    BY <1>3, <2>5, <2>7, Zenon DEF Point
  <2> QED
    BY <2>1, <2>3, <2>4, <2>8, Zenon
<1>16. ElectInv'
  <2>1. ASSUME NEW q \in Proc, NEW i \in 1..Len(log[q])
        PROVE  \E m \in 1..i : log'[q][m].term = log'[q][i].term /\ Elected(q, m)'
    <3>1. PICK m \in 1..i : log[q][m].term = log[q][i].term /\ Elected(q, m)
      BY <1>1, Zenon DEF ElectInv
    <3>2. m \in 1..Len(log[q]) /\ (m > 1 => m - 1 \in 1..Len(log[q]))
      BY <1>2
    <3>3. PICK f, d : f = log[q][m] /\ d = log[q][m-1]
      BY Zenon
    <3>4. f \in Entry /\ log'[q][m] = f /\ (m > 1 => log'[q][m-1] = d)
      BY <1>2, <1>5, <3>2, <3>3, Zenon
    <3>5. Elected(q, m)'
      BY <1>3, <3>1, <3>3, <3>4, Zenon DEF Elected
    <3> QED
      BY <1>2, <3>1, <3>3, <3>4, <3>5, Zenon
  <2>2. \E m \in 1..n+1 : log'[p][m].term = e.term /\ Elected(p, m)'
    <3>1. CASE \E i \in 1..Len(log[p]) : log[p][i].term = e.term
      <4>1. PICK i \in 1..Len(log[p]) : log[p][i].term = e.term
        BY <3>1, Zenon
      <4>2. log'[p][i].term = e.term /\ i <= n
        BY <1>2, <4>1 DEF n
      <4> QED
        BY <1>2, <2>1, <4>2
    <3>2. CASE \E m : m = n + 1 /\ Elected(p, m)'
      BY <1>2, <3>2
    <3> QED
      BY <3>1, <3>2, Zenon DEF Adds, n
  <2> SUFFICES ASSUME NEW q \in Proc, NEW i \in 1..Len(log'[q])
               PROVE  \E m \in 1..i : log'[q][m].term = log'[q][i].term /\ Elected(q, m)'
    BY Zenon DEF ElectInv
  <2>3. CASE i \in 1..Len(log[q])
    BY <2>1, <2>3, Zenon
  <2>4. CASE q = p /\ i = n + 1
    BY <1>2, <2>2, <2>4, Zenon
  <2> QED
    BY <1>2, <2>3, <2>4, Zenon
<1>17. CommittedAgree'
  <2>1. \A q \in Proc : \A i \in 1..commit[q] : log'[q][i] = log[q][i]
    <3> TAKE q \in Proc
    <3> TAKE i \in 1..commit[q]
    <3> QED
      BY <1>2, <1>8
  <2> QED
    BY <1>1, <1>4, <2>1 DEF CommittedAgree
<1> QED
  BY <1>11, <1>12, <1>13, <1>14, <1>15, <1>16, <1>17, Zenon DEF RaftInv

-----------------------------------------------------------------------------
(* A log is copied *)

\* The invariants after Replicate.
LEMMA CopyStep ==
    ASSUME RaftInv, RaftType', NEW p \in Proc, NEW q \in Proc, Replicate(p, q)
    PROVE  RaftInv'
<1>1. RaftType /\ TermInv /\ MatchInv /\ LeadInv /\ ConfInv /\ PointInv /\ ElectInv /\ CommittedAgree
  BY Zenon DEF RaftInv
<1>2. \A x \in Proc : Len(log[x]) \in Nat /\ commit[x] \in Nat /\ commit[x] <= Len(log[x])
  BY <1>1 DEF RaftType, TermInv
<1>3. \A i \in 1..commit[q] : Has(p, i, log[q][i])
  BY LeaderHas, Zenon DEF Replicate
<1>4. PICK f \in [Proc -> Proc] : f[q] = p /\ \A x \in Proc : x # q => f[x] = x
  <2>1. [x \in Proc |-> IF x = q THEN p ELSE x] \in [Proc -> Proc]
    BY Zenon
  <2> QED
    BY <2>1, Zenon
<1>5. /\ \A x \in Proc : log'[x] = log[f[x]] /\ term'[x] = term[f[x]]
      /\ \A x \in Proc : role'[x] = "Leader" => role[x] = "Leader" /\ x # q
      /\ pc' = pc
  BY <1>4 DEF Replicate, RaftType
<1>6. \A x \in Proc : \A i \in 1..commit[x] : log'[x][i] = log[x][i]
  BY <1>3, <1>4, <1>5 DEF Has
<1>7. \A x \in Proc : commit'[x] \in Nat /\ commit'[x] >= commit[x]
  BY <1>2 DEF Replicate
<1>8. ASSUME NEW x \in Proc
      PROVE  \E r \in Proc : commit'[x] = commit[r] /\ \A i \in 1..commit[r] : log'[x][i] = log[r][i]
  BY <1>6, ZenonT(60) DEF Replicate, RaftType
<1>9. \A v \in Proc : \A r \in Proc : \A c \in 1..commit[r] :
         Point(c, log[r][c]) /\ Has(v, c, log[r][c]) => c \in 1..Len(log'[v]) /\ log'[v][c] = log[r][c]
  <2> SUFFICES ASSUME NEW v \in Proc, NEW r \in Proc, NEW c \in 1..commit[r],
                      Point(c, log[r][c]), Has(v, c, log[r][c])
               PROVE  c \in 1..Len(log'[v]) /\ log'[v][c] = log[r][c]
    OBVIOUS
  <2>1. CASE v = q
    <3>2. Has(p, c, log[q][c])
      BY LeaderHas, <2>1, Zenon DEF Replicate, Has
    <3> QED
      BY <1>4, <1>5, <2>1, <3>2, Zenon DEF Has
  <2>2. CASE v # q
    BY <1>4, <1>5, <2>2 DEF Has
  <2> QED
    BY <2>1, <2>2, Zenon
<1>11. TermInv'
  <2> SUFFICES ASSUME NEW x \in Proc
               PROVE  /\ commit'[x] <= Len(log'[x])
                      /\ \A i \in 1..Len(log'[x]) : log'[x][i].term <= term'[x]
                      /\ \A i, j \in 1..Len(log'[x]) : i <= j => log'[x][i].term <= log'[x][j].term
                      /\ log'[x] # <<>> => pc'[Boot] # "off" /\ log'[x][1] = First
                      /\ role'[x] = "Leader" => log'[x] # <<>> /\ log'[x][Len(log'[x])].term = term'[x]
    BY Zenon DEF TermInv
  <2>1. commit'[x] <= Len(log'[x])
    <3>1. CASE x = q
      <4>1. commit[q] <= Len(log[p])
        BY <1>2, <1>3 DEF Has
      <4> QED
        BY <1>2, <1>4, <1>5, <4>1 DEF Replicate
    <3>2. CASE x # q
      BY <1>2, <3>2 DEF Replicate
    <3> QED
      BY <3>1, <3>2, Zenon
  <2>2. PICK y \in Proc : y = f[x] /\ log'[x] = log[y] /\ term'[x] = term[y]
    BY <1>5, Zenon
  <2>3. role'[x] = "Leader" => role[y] = "Leader"
    BY <1>4, <1>5, <2>2, Zenon
  <2> QED
    BY <1>1, <1>5, <2>1, <2>2, <2>3, Zenon DEF TermInv
<1>12. MatchInv'
  <2> SUFFICES ASSUME NEW a \in Proc, NEW b \in Proc,
                      NEW i \in 1..Len(log'[a]), NEW j \in 1..Len(log'[b]),
                      log'[a][i].term = log'[b][j].term, i <= j, NEW k \in 1..i
               PROVE  log'[a][k] = log'[b][k]
    BY Zenon DEF MatchInv
  <2>1. PICK y, z \in Proc : log'[a] = log[y] /\ log'[b] = log[z]
    BY <1>5
  <2>2. /\ i \in 1..Len(log[y]) /\ j \in 1..Len(log[z])
        /\ log[y][i].term = log[z][j].term
    BY <2>1, Zenon
  <2>3. log[y][k] = log[z][k]
    BY <1>1, <2>2, Zenon DEF MatchInv
  <2> QED
    BY <2>1, <2>3, Zenon
<1>13. LeadInv'
  BY <1>1, <1>4, <1>5, SMTT(30) DEF LeadInv, Has
<1>14. ConfInv'
  <2>1. \A x \in Proc : \A i \in 1..Len(log'[x]) : Known(f[x], i) => Known(x, i)'
    <3> SUFFICES ASSUME NEW x \in Proc, NEW i \in 1..Len(log'[x]), NEW r \in Proc,
                        i <= commit[r], log[r][i] = log[f[x]][i]
                 PROVE  i <= commit'[r] /\ log'[r][i] = log'[x][i]
      BY DEF Known
    <3> QED
      BY <1>2, <1>5, <1>6, <1>7, SMTT(30)
  <2> SUFFICES ASSUME NEW x \in Proc, NEW i \in 1..Len(log'[x]), NEW j \in 1..Len(log'[x]), i < j
               PROVE  /\ log'[x][i].conf # log'[x][j].conf => Known(x, i)'
                      /\ j = i + 1 => /\ Near(log'[x][i].conf, log'[x][j].conf)
                                      /\ log'[x][i].conf # log'[x][j].conf => log'[x][i].term = log'[x][j].term
    BY Zenon DEF ConfInv, Near
  <2>2. PICK y \in Proc : y = f[x] /\ log'[x] = log[y]
    BY <1>5, Zenon
  <2>3. Known(y, i) => Known(x, i)'
    BY <2>1, <2>2, Zenon
  <2> QED
    BY <1>1, <2>2, <2>3 DEF ConfInv
<1>15. PointInv'
  <2> SUFFICES ASSUME NEW x \in Proc, NEW i \in 1..commit'[x]
               PROVE  \E c \in i..commit'[x] : log'[x][c].conf = log'[x][i].conf /\ Point(c, log[x][c])'
    BY Zenon DEF PointInv
  <2>1. PICK r \in Proc : commit'[x] = commit[r] /\ \A k \in 1..commit[r] : log'[x][k] = log[r][k]
    BY <1>8, Zenon
  <2>2. PICK c \in i..commit[r] : log[r][c].conf = log[r][i].conf /\ Point(c, log[r][c])
    BY <1>1, <2>1, Zenon DEF PointInv
  <2>4. PICK e : e = log[r][c]
    BY Zenon
  <2>5. Point(c, e)
    BY <2>2, <2>4, Zenon
  <2>6. \A v \in Proc : Has(v, c, e) => Has(v, c, e)'
    BY <1>9, <2>2, <2>4 DEF Has
  <2>7. \A y \in Proc : \A j \in 1..Len(log'[y]) : log'[y][j].term > e.term => Has(y, c, e)'
    <3> TAKE y \in Proc
    <3>1. PICK z \in Proc : log'[y] = log[z]
      BY <1>5, Zenon
    <3> QED
      BY <2>5, <3>1, Zenon DEF Point, Has
  <2>8. Point(c, e)'
    BY <2>5, <2>6, <2>7, Zenon DEF Point
  <2> QED
    BY <2>1, <2>2, <2>4, <2>8
<1>16. ElectInv'
  <2>1. ASSUME NEW v \in Proc, NEW m, NEW d, NEW e \in Entry, Voted(v, m, d, e) PROVE Voted(v, m, d, e)'
    <3>1. CASE v = q
      <4>1. e.term \in Nat /\ term[q] >= e.term /\ term[q] <= term[p] /\ term[p] \in Nat /\ term[q] \in Nat
        BY <1>1, <2>1, <3>1 DEF Replicate, Entry, RaftType, Voted
      <4>2. log'[q] # <<>> /\ log'[q][Len(log'[q])].term = term[p] /\ term'[q] = term[p]
        BY <1>1, <1>4, <1>5 DEF TermInv, Replicate
      <4> QED
        BY <3>1, <4>1, <4>2 DEF Voted, LastTerm
    <3>2. CASE v # q
      BY <1>4, <1>5, <3>2, <2>1 DEF Voted, LastTerm
    <3> QED
      BY <3>1, <3>2, Zenon
  <2> SUFFICES ASSUME NEW x \in Proc, NEW i \in 1..Len(log'[x])
               PROVE  \E m \in 1..i : log'[x][m].term = log'[x][i].term /\ Elected(x, m)'
    BY Zenon DEF ElectInv
  <2>2. PICK y \in Proc : y = f[x] /\ log'[x] = log[y]
    BY <1>5, Zenon
  <2>3. PICK m \in 1..i : log[y][m].term = log[y][i].term /\ Elected(y, m)
    BY <1>1, <2>2, Zenon DEF ElectInv
  <2>4. PICK e, d : e = log[y][m] /\ d = log[y][m-1]
    BY Zenon
  <2>5. e \in Entry /\ log'[x][m] = e /\ log'[x][m-1] = d
    BY <1>1, <2>2, <2>4, Entries
  <2>6. Elected(x, m)'
    BY <2>1, <2>3, <2>4, <2>5, Zenon DEF Elected
  <2> QED
    BY <2>2, <2>3, <2>6, Zenon
<1>17. CommittedAgree'
  BY <1>8, <1>1 DEF CommittedAgree
<1> QED
  BY <1>11, <1>12, <1>13, <1>14, <1>15, <1>16, <1>17, Zenon DEF RaftInv

=============================================================================
