---------------------------- MODULE EngineProofs ----------------------------
(***************************************************************************)
(* Theorems about Engine, for any requests: nothing is left open behind an *)
(* Exec, a query reads one state of the file, an Exec's answer tells what  *)
(* it did, and nobody sees a part of a transaction.                        *)
(***************************************************************************)
EXTENDS Engine, TLAPS

\* TypeOK says what each call's results are; this, that every call has some.
ResultsFun == results \in [Req -> Seq(ExecResult) \cup Seq(QueryResult)]

\* Only a transaction works apart from the file, and only it is committed.
WorkInv ==
    /\ NothingLeftOpen
    /\ running # NoReq /\ ~Tx(running) => work = file /\ pc[running] = "running"

\* A query that reads holds its lock and reads the file its statement began
\* with; outside a transaction the lock is given back with the last row.
LockInv ==
    \A q \in QueryReq :
        /\ pc[q] = "rows" => q \in shared /\ first[q] = file /\ k[q] \in 1..Len(Stmts(q))
        /\ q \in shared => pc[q] \in {"running", "rows"}
        /\ q \in shared /\ ~Tx(q) => pc[q] = "rows"

\* The results of a transaction all show one state of the file, which is
\* still there while the transaction holds its lock.
ReadInv ==
    \A q \in QueryReq : \A i \in 1..Len(results[q]) : results[q][i].ok =>
        /\ results[q][i].values = results[q][i].begin
        /\ Tx(q) /\ pc[q] # "done" => q \in shared /\ results[q][i].values = file
        /\ Tx(q) => \A j \in 1..Len(results[q]) : results[q][j].ok =>
                        results[q][i].values = results[q][j].values

ReadsIInv == TypeOK /\ ResultsFun /\ WorkInv /\ LockInv /\ ReadInv

-----------------------------------------------------------------------------
(* What a step can do *)

\* Everybody but r stays where they are.
Others(r) ==
    \A s \in Req \ {r} : /\ pc'[s] = pc[s] /\ k'[s] = k[s]
                         /\ results'[s] = results[s] /\ err'[s] = err[s]

\* A step of an Exec leaves the queries alone, and the file while it is read.
LEMMA ExecFrame ==
    ASSUME TypeOK, ResultsFun, NEW x \in ExecReq, BeginExec(x) \/ ExecStep(x)
    PROVE  /\ Others(x) /\ UNCHANGED <<shared, first, closed>>
           /\ shared # {} => file' = file
<1> USE DEF TypeOK, ResultsFun, Req, Others, Goto, NextStmt, Report, queryVars
<1>1. CASE BeginExec(x)
  BY <1>1, Zenon DEF BeginExec
<1>2. CASE SkipEmpty(x)
  BY <1>2, Zenon DEF SkipEmpty
<1>3. CASE ExecFails(x)
  BY <1>3, Zenon DEF ExecFails, ReturnExec
<1>4. CASE ExecWritesTx(x)
  BY <1>4, Zenon DEF ExecWritesTx
<1>5. CASE LockFile(x)
  BY <1>5, Zenon DEF LockFile
<1>6. CASE ExecWrites(x)
  BY <1>6, Zenon DEF ExecWrites, HasFile, GivesUp
<1>7. CASE EndExec(x)
  BY <1>7, Zenon DEF EndExec, ReturnExec
<1>8. CASE CommitTx(x)
  BY <1>8, Zenon DEF CommitTx, ReturnExec, HasFile, GivesUp
<1> QED
  BY <1>1, <1>2, <1>3, <1>4, <1>5, <1>6, <1>7, <1>8, Zenon DEF ExecStep

\* A step of a query leaves the Execs and the other queries alone.
LEMMA QueryFrame ==
    ASSUME TypeOK, ResultsFun, NEW q \in QueryReq, BeginQuery(q) \/ QueryStep(q)
    PROVE  /\ Others(q) /\ UNCHANGED <<file, work, pending, running, base, left, closed>>
           /\ \A p \in QueryReq \ {q} : (p \in shared' <=> p \in shared) /\ first'[p] = first[p]
<1> USE DEF TypeOK, ResultsFun, Req, Others, Goto, NextStmt, Report, queryVars, execVars
<1>1. CASE BeginQuery(q)
  BY <1>1, Zenon DEF BeginQuery
<1>2. CASE SkipEmpty(q)
  BY <1>2, Zenon DEF SkipEmpty
<1>3. CASE QueryRefused(q)
  BY <1>3, Zenon DEF QueryRefused
<1>4. CASE QueryStarts(q)
  BY <1>4, Zenon DEF QueryStarts
<1>5. CASE QueryLockedOut(q)
  BY <1>5, Zenon DEF QueryLockedOut
<1>6. CASE QueryRows(q)
  BY <1>6, Zenon DEF QueryRows, UnlockStmt, Unlock
<1>7. CASE QueryBadRow(q)
  BY <1>7, Zenon DEF QueryBadRow, Unlock
<1>8. CASE EndQuery(q)
  BY <1>8, Zenon DEF EndQuery, Unlock
<1> QED
  BY <1>1, <1>2, <1>3, <1>4, <1>5, <1>6, <1>7, <1>8, Zenon DEF QueryStep

-----------------------------------------------------------------------------
(* Types *)

\* A step of an Exec keeps the types.
LEMMA TypesOfExec ==
    ASSUME TypeOK, ResultsFun, NEW x \in ExecReq, BeginExec(x) \/ ExecStep(x)
    PROVE  TypeOK' /\ ResultsFun'
<1> USE RequestAssumption DEF TypeOK, ResultsFun, Req, Goto, NextStmt, queryVars
<1>1. <<x, k[x]>> \in Row /\ k[x] + 1 \in Nat \ {0}
  <2>1. k[x] \in Nat
    BY Zenon
  <2> QED
    BY ONLY <2>1, x \in ExecReq DEF Row
<1>2. Append(file, <<x, k[x]>>) \in Seq(Row) /\ Append(work, <<x, k[x]>>) \in Seq(Row)
  BY <1>1
<1>3. ASSUME NEW b \in BOOLEAN, Report(x, [stmt |-> k[x], ok |-> b])
      PROVE  /\ results' \in [Req -> Seq(ExecResult) \cup Seq(QueryResult)]
             /\ \A y \in ExecReq : results'[y] \in Seq(ExecResult)
             /\ \A q \in QueryReq : results'[q] \in Seq(QueryResult)
  <2>2. Append(results[x], [stmt |-> k[x], ok |-> b]) \in Seq(ExecResult)
    BY DEF ExecResult
  <2> QED
    BY <1>3, <2>2, Zenon DEF Report
<1>12. ASSUME pc[x] \in {"running", "commit"}, NEW f \in Seq(Row), NEW e \in {"nil", "busy"},
              ReturnExec(x, f, e)
       PROVE  /\ file' \in Seq(Row) /\ work' \in Seq(Row) /\ pending' \in BOOLEAN
              /\ running' \in ExecReq \cup {NoReq}
              /\ pc' \in [Req -> {"idle", "running", "commit", "rows", "done"}]
              /\ \A y \in ExecReq : pc'[y] \in {"running", "commit"} <=> y = running'
              /\ left' \in [ExecReq -> Seq(Row)]
              /\ err' \in [Req -> {"nil", "closed", "busy", "scan"}]
  <2>1. running = x
    BY <1>12, Zenon
  <2>2. running' = NoReq /\ pc' = [pc EXCEPT ![x] = "done"]
    BY <1>12, Zenon DEF ReturnExec
  <2>3. \A y \in ExecReq : pc'[y] \notin {"running", "commit"} /\ y # NoReq
    BY <2>1, <2>2, Zenon
  <2> QED
    BY <1>12, <2>2, <2>3, ZenonT(40) DEF ReturnExec
<1>4. CASE BeginExec(x)
  BY <1>4, ZenonT(40) DEF BeginExec
<1>5. CASE SkipEmpty(x)
  BY <1>1, <1>5, Zenon DEF SkipEmpty
<1>6. CASE ExecFails(x)
  <2>1. Report(x, [stmt |-> k[x], ok |-> FALSE]) /\ pc[x] = "running"
    BY <1>6, Zenon DEF ExecFails, AtStmt
  <2>2. CASE Tx(x)
    BY <1>3, <1>6, <1>12, <2>1, <2>2, Zenon DEF ExecFails
  <2>3. CASE ~Tx(x)
    <3>1. /\ UNCHANGED <<file, work, pending, running, pc, err, left, closed, base, shared, first>>
          /\ NextStmt(x)
      BY <1>6, <2>3, Zenon DEF ExecFails
    <3>3. k' \in [Req -> Nat \ {0}]
      BY <1>1, <3>1, Zenon
    <3>2. /\ results' \in [Req -> Seq(ExecResult) \cup Seq(QueryResult)]
          /\ \A y \in ExecReq : results'[y] \in Seq(ExecResult)
          /\ \A q \in QueryReq : results'[q] \in Seq(QueryResult)
      BY <1>3, <2>1, Zenon
    <3> QED
      BY <3>1, <3>2, <3>3, Zenon
  <2> QED
    BY <2>2, <2>3, Zenon
<1>7. CASE ExecWritesTx(x)
  BY <1>1, <1>2, <1>3, <1>7, Zenon DEF ExecWritesTx
<1>8. CASE LockFile(x)
  BY <1>8, Zenon DEF LockFile
<1>9. CASE ExecWrites(x)
  BY <1>1, <1>2, <1>3, <1>9, Zenon DEF ExecWrites
<1>10. CASE EndExec(x)
  BY <1>10, <1>12, Zenon DEF EndExec
<1>11. CASE CommitTx(x)
  BY <1>11, <1>12, Zenon DEF CommitTx
<1> QED
  BY <1>4, <1>5, <1>6, <1>7, <1>8, <1>9, <1>10, <1>11, Zenon DEF ExecStep

\* What a query gathers is a result.
LEMMA RowsReadType ==
    ASSUME TypeOK, NEW q \in QueryReq
    PROVE  RowsRead(q) \in QueryResult
<1> DEFINE ok == Stmts(q)[k[q]] = "read" \/ Len(file) < 2
           values == IF ok THEN file ELSE SubSeq(file, 1, 1)
<1>1. file \in Seq(Row) /\ first[q] \in Seq(Row) /\ k[q] \in Nat
  BY Zenon DEF TypeOK, Req
<1>2. values \in Seq(Row) /\ ok \in BOOLEAN
  BY <1>1
<1> HIDE DEF ok, values
<1> QED
  BY <1>1, <1>2 DEF QueryResult, RowsRead

\* A step of a Query keeps the types.
LEMMA TypesOfQuery ==
    ASSUME TypeOK, ResultsFun, NEW q \in QueryReq, BeginQuery(q) \/ QueryStep(q)
    PROVE  TypeOK' /\ ResultsFun'
<1> USE RequestAssumption DEF TypeOK, ResultsFun, Req, Goto, NextStmt, queryVars, execVars
<1>1. k[q] + 1 \in Nat \ {0} /\ k[q] \in Nat
  BY SMTT(30)
<1>2. NoRows(q) \in QueryResult
  BY <1>1 DEF NoRows, QueryResult
<1>3. RowsRead(q) \in QueryResult
  BY RowsReadType, Zenon
<1>4. ASSUME NEW r \in QueryResult, Report(q, r)
      PROVE  /\ results' \in [Req -> Seq(ExecResult) \cup Seq(QueryResult)]
             /\ \A y \in ExecReq : results'[y] \in Seq(ExecResult)
             /\ \A p \in QueryReq : results'[p] \in Seq(QueryResult)
  <2>1. Append(results[q], r) \in Seq(QueryResult)
    OBVIOUS
  <2> QED
    BY <1>4, <2>1, Zenon DEF Report
<1>5. CASE BeginQuery(q)
  BY <1>5, ZenonT(40) DEF BeginQuery
<1>6. CASE SkipEmpty(q)
  BY <1>1, <1>6, Zenon DEF SkipEmpty
<1>7. CASE QueryRefused(q)
  BY <1>1, <1>2, <1>4, <1>7, Zenon DEF QueryRefused
<1>8. CASE QueryStarts(q)
  BY <1>8, Zenon DEF QueryStarts
<1>9. CASE QueryLockedOut(q)
  BY <1>1, <1>2, <1>4, <1>9, Zenon DEF QueryLockedOut
<1>10. CASE QueryRows(q)
  BY <1>1, <1>3, <1>4, <1>10, Zenon DEF QueryRows, UnlockStmt, Unlock
<1>11. CASE QueryBadRow(q)
  <2>1. <<>> \in Seq(QueryResult)
    OBVIOUS
  <2> QED
    BY <1>11, <2>1, Zenon DEF QueryBadRow, Unlock
<1>12. CASE EndQuery(q)
  BY <1>12, Zenon DEF EndQuery, Unlock
<1> QED
  BY <1>5, <1>6, <1>7, <1>8, <1>9, <1>10, <1>11, <1>12, Zenon DEF QueryStep

-----------------------------------------------------------------------------
(* Work and locks *)

\* Uncommitted rows and write locks are those of the Exec that runs.
LEMMA WorkStep ==
    ASSUME TypeOK, ResultsFun, WorkInv, NEW x \in ExecReq, BeginExec(x) \/ ExecStep(x)
    PROVE  WorkInv'
<1> USE RequestAssumption DEF TypeOK, ResultsFun, Req, Goto, NextStmt, WorkInv, NothingLeftOpen
<1>1. CASE BeginExec(x)
  BY <1>1, SMTT(30) DEF BeginExec
<1>2. ASSUME ExecStep(x) PROVE pc[x] \in {"running", "commit"}
  BY <1>2, Zenon
     DEF ExecStep, SkipEmpty, ExecFails, ExecWritesTx, LockFile, WantsFile, ExecWrites, EndExec, CommitTx, AtStmt
<1>3. ASSUME ExecStep(x) PROVE x = running /\ x # NoReq
  BY <1>2, <1>3, Zenon
<1>4. CASE SkipEmpty(x)
  BY <1>4, Zenon DEF SkipEmpty
<1>5. CASE ExecFails(x)
  BY <1>5, Zenon DEF ExecFails, ReturnExec, ExecStep
<1>6. CASE ExecWritesTx(x)
  BY <1>3, <1>6, Zenon DEF ExecWritesTx, ExecStep
<1>7. CASE LockFile(x)
  BY <1>3, <1>7, Zenon DEF LockFile, ExecStep
<1>8. CASE ExecWrites(x)
  BY <1>8, Zenon DEF ExecWrites
<1>9. CASE EndExec(x)
  BY <1>9, Zenon DEF EndExec, ReturnExec
<1>10. CASE CommitTx(x)
  BY <1>10, Zenon DEF CommitTx, ReturnExec
<1> QED
  BY <1>1, <1>4, <1>5, <1>6, <1>7, <1>8, <1>9, <1>10, Zenon DEF ExecStep

\* An Exec does not write the file while a query holds its lock.
LEMMA LocksOfExec ==
    ASSUME TypeOK, ResultsFun, LockInv, NEW x \in ExecReq, BeginExec(x) \/ ExecStep(x)
    PROVE  LockInv'
  BY RequestAssumption, ExecFrame DEF Req, Others, LockInv

\* A Query takes its lock with the first row of a statement and gives it up
\* with the last one, or with its transaction.
LEMMA LocksOfQuery ==
    ASSUME TypeOK, ResultsFun, LockInv, NEW q \in QueryReq, BeginQuery(q) \/ QueryStep(q)
    PROVE  LockInv'
<1> DEFINE OK(p) == /\ pc[p] = "rows" => p \in shared /\ first[p] = file /\ k[p] \in 1..Len(Stmts(p))
                    /\ p \in shared => pc[p] \in {"running", "rows"}
                    /\ p \in shared /\ ~Tx(p) => pc[p] = "rows"
<1>1. \A p \in QueryReq \ {q} : OK(p)'
  BY QueryFrame, SMTT(30) DEF LockInv, Others, Req
<1>2. OK(q)'
  <2> USE DEF TypeOK, Req, Goto, NextStmt, queryVars, execVars
  <2>0. OK(q)
    BY Zenon DEF LockInv
  <2>1. CASE BeginQuery(q)
    BY <2>0, <2>1, Zenon DEF BeginQuery
  <2>2. CASE SkipEmpty(q)
    BY <2>0, <2>2, Zenon DEF SkipEmpty, AtStmt
  <2>3. CASE QueryRefused(q)
    BY <2>0, <2>3, Zenon DEF QueryRefused, AtStmt
  <2>4. CASE QueryStarts(q)
    BY <2>4 DEF QueryStarts, Reads, AtStmt
  <2>5. CASE QueryLockedOut(q)
    BY <2>0, <2>5, Zenon DEF QueryLockedOut
  <2>6. CASE QueryRows(q)
    BY <2>6, Zenon DEF QueryRows, UnlockStmt, Unlock
  <2>7. CASE QueryBadRow(q)
    BY <2>0, <2>7, Zenon DEF QueryBadRow, Unlock
  <2>8. CASE EndQuery(q)
    BY <2>0, <2>8, Zenon DEF EndQuery, Unlock
  <2> QED
    BY <2>1, <2>2, <2>3, <2>4, <2>5, <2>6, <2>7, <2>8, Zenon DEF QueryStep
<1> QED
  BY <1>1, <1>2, Zenon DEF LockInv

-----------------------------------------------------------------------------
(* What queries read *)

\* A query's results stay, are dropped, or get one more; an error carries no
\* state of the file, and a success the file, which the query has locked.
LEMMA ResultGrows ==
    ASSUME TypeOK, ResultsFun, LockInv, NEW q \in QueryReq, BeginQuery(q) \/ QueryStep(q)
    PROVE  \/ results'[q] = results[q]
           \/ results'[q] = <<>>
           \/ \E r \in QueryResult :
                 /\ results'[q] = Append(results[q], r)
                 /\ r.ok => /\ pc[q] = "rows" /\ r.begin = file /\ r.values = file
<1> USE DEF TypeOK, ResultsFun, Req, Report, execVars, queryVars
<1>1. CASE BeginQuery(q)
  BY <1>1, Zenon DEF BeginQuery
<1>2. CASE SkipEmpty(q)
  BY <1>2, Zenon DEF SkipEmpty
<1>3. CASE QueryRefused(q) \/ QueryLockedOut(q)
  <2>1. NoRows(q) \in QueryResult /\ ~NoRows(q).ok
    BY DEF NoRows, QueryResult
  <2>2. results'[q] = Append(results[q], NoRows(q))
    BY <1>3, Zenon DEF QueryRefused, QueryLockedOut
  <2> QED
    BY <2>1, <2>2, Zenon
<1>4. CASE QueryStarts(q)
  BY <1>4, Zenon DEF QueryStarts
<1>5. CASE QueryRows(q)
  <2>1. RowsRead(q) \in QueryResult
    BY RowsReadType, Zenon
  <2>2. results'[q] = Append(results[q], RowsRead(q)) /\ pc[q] = "rows"
    BY <1>5, Zenon DEF QueryRows
  <2>3. RowsRead(q).ok => RowsRead(q).values = file
    BY Zenon DEF RowsRead
  <2>4. RowsRead(q).begin = file
    BY <2>2, Zenon DEF RowsRead, LockInv
  <2> QED
    BY <2>1, <2>2, <2>3, <2>4, Zenon
<1>6. CASE QueryBadRow(q)
  BY <1>6, Zenon DEF QueryBadRow
<1>7. CASE EndQuery(q)
  BY <1>7, Zenon DEF EndQuery
<1> QED
  BY <1>1, <1>2, <1>3, <1>4, <1>5, <1>6, <1>7, Zenon DEF QueryStep

\* An Exec does not change what a transaction that reads has seen.
LEMMA ReadsOfExec ==
    ASSUME TypeOK, ResultsFun, ReadInv, NEW x \in ExecReq, BeginExec(x) \/ ExecStep(x)
    PROVE  ReadInv'
<1>1. \A q \in QueryReq : q \in Req \ {x}
  BY RequestAssumption, Zenon DEF Req
<1>2. /\ UNCHANGED <<shared, first>> /\ (shared # {} => file' = file)
      /\ \A q \in QueryReq : pc'[q] = pc[q] /\ results'[q] = results[q]
  BY <1>1, ExecFrame, Zenon DEF Others
<1> QED
  BY <1>2, SMTT(30) DEF ReadInv

\* A query that is in a transaction keeps its lock until it is done.
LEMMA KeepsLock ==
    ASSUME TypeOK, NEW q \in QueryReq, BeginQuery(q) \/ QueryStep(q),
           q \in shared, Tx(q), pc'[q] # "done"
    PROVE  q \in shared'
<1> USE DEF TypeOK, Req, Goto, queryVars
<1>1. CASE BeginQuery(q) \/ SkipEmpty(q) \/ QueryRefused(q) \/ QueryLockedOut(q)
  BY <1>1, Zenon DEF BeginQuery, SkipEmpty, QueryRefused, QueryLockedOut
<1>2. CASE QueryStarts(q) \/ QueryRows(q)
  BY <1>2, Zenon DEF QueryStarts, QueryRows, UnlockStmt
<1>3. CASE QueryBadRow(q) \/ EndQuery(q)
  BY <1>3, Zenon DEF QueryBadRow, EndQuery
<1> QED
  BY <1>1, <1>2, <1>3, Zenon DEF QueryStep

\* A result shows the file as the statement found it, and in a transaction as
\* its first statement found it.
LEMMA ReadsOfQuery ==
    ASSUME TypeOK, ResultsFun, LockInv, ReadInv, NEW q \in QueryReq, BeginQuery(q) \/ QueryStep(q)
    PROVE  ReadInv'
<1> DEFINE OK(p) ==
        \A i \in 1..Len(results[p]) : results[p][i].ok =>
            /\ results[p][i].values = results[p][i].begin
            /\ Tx(p) /\ pc[p] # "done" => p \in shared /\ results[p][i].values = file
            /\ Tx(p) => \A j \in 1..Len(results[p]) : results[p][j].ok =>
                            results[p][i].values = results[p][j].values
<1>1. \A p \in QueryReq : OK(p)
  BY Zenon DEF ReadInv
<1>2. file' = file
  BY QueryFrame, Zenon
<1>3. \A p \in QueryReq \ {q} : OK(p)'
  <2> SUFFICES ASSUME NEW p \in QueryReq \ {q} PROVE OK(p)'
    BY Zenon
  <2>1. pc'[p] = pc[p] /\ results'[p] = results[p] /\ (p \in shared' <=> p \in shared)
    BY QueryFrame, Zenon DEF Others, Req
  <2> QED
    BY <1>1, <1>2, <2>1
<1>4. pc[q] # "done"
  BY SMTT(30)
     DEF TypeOK, BeginQuery, QueryStep, SkipEmpty, QueryRefused, QueryStarts, QueryLockedOut, Reads, AtStmt, QueryRows, QueryBadRow, EndQuery
<1>6. OK(q)'
  <2>1. CASE results'[q] = results[q]
    BY <1>1, <1>4, KeepsLock, <1>2, <2>1
  <2>3. ASSUME NEW r \in QueryResult, results'[q] = Append(results[q], r),
               r.ok => pc[q] = "rows" /\ r.begin = file /\ r.values = file
        PROVE  OK(q)'
    <3> DEFINE n == Len(results[q])
    <3>2. /\ Len(results'[q]) = n + 1 /\ results'[q][n + 1] = r
          /\ \A i \in 1..n : results'[q][i] = results[q][i]
      BY <2>3 DEF TypeOK
    <3>4. \A i \in 1..n : results[q][i].ok /\ Tx(q) => results[q][i].values = file /\ q \in shared
      BY <1>1, <1>4, Zenon
    <3>5. Tx(q) /\ q \in shared /\ pc'[q] # "done" => q \in shared'
      BY KeepsLock, Zenon
    <3>6. SUFFICES ASSUME NEW i \in 1..n + 1, results'[q][i].ok
                   PROVE  /\ results'[q][i].values = results'[q][i].begin
                          /\ Tx(q) => q \in shared /\ results'[q][i].values = file
      BY <3>6, <1>2, <3>2, <3>5, Zenon
    <3>7. CASE i = n + 1
      BY <3>6, <3>7, <2>3 DEF LockInv
    <3>8. CASE i \in 1..n
      BY <1>1, <3>2, <3>4, <3>6, <3>8, Zenon
    <3> QED
      BY <3>7, <3>8
  <2> QED
    BY <2>1, <2>3, ResultGrows, SMTT(30)
<1> QED
  BY <1>3, <1>6 DEF ReadInv

-----------------------------------------------------------------------------
(* Theorems *)

\* Before the first request nothing is locked and nothing has been read.
LEMMA ReadsInit == Init => ReadsIInv
<1> SUFFICES ASSUME Init PROVE ReadsIInv
  BY Zenon
<1> USE RequestAssumption DEF Init
<1>1. TypeOK /\ ResultsFun
  <2>1. <<>> \in Seq(Row) /\ <<>> \in Seq(ExecResult) /\ <<>> \in Seq(QueryResult)
    OBVIOUS
  <2>2. \A x \in ExecReq : pc[x] \in {"running", "commit"} <=> x = running
    BY Zenon DEF Req
  <2>3. /\ pc \in [Req -> {"idle", "running", "commit", "rows", "done"}]
        /\ k \in [Req -> Nat \ {0}] /\ err \in [Req -> {"nil", "closed", "busy", "scan"}]
        /\ shared \subseteq QueryReq /\ running \in ExecReq \cup {NoReq}
    OBVIOUS
  <2>4. /\ ResultsFun /\ \A x \in ExecReq : results[x] \in Seq(ExecResult)
        /\ \A q \in QueryReq : results[q] \in Seq(QueryResult)
    BY <2>1, Zenon DEF ResultsFun, Req
  <2>5. /\ first \in [QueryReq -> Seq(Row)]
        /\ base \in [ExecReq -> Seq(Row)] /\ left \in [ExecReq -> Seq(Row)]
    BY <2>1, Zenon
  <2> QED
    BY <2>1, <2>2, <2>3, <2>4, <2>5, Zenon DEF TypeOK
<1> QED
  BY <1>1 DEF ReadsIInv, WorkInv, NothingLeftOpen, LockInv, Req, ReadInv

\* A step is one of an Exec, one of a Query, or touches neither.
LEMMA Steps ==
    ASSUME [Next]_vars, TypeOK
    PROVE  \/ \E x \in ExecReq : BeginExec(x) \/ ExecStep(x)
           \/ \E q \in QueryReq : BeginQuery(q) \/ QueryStep(q)
           \/ /\ UNCHANGED <<file, work, pending, shared, running, pc, k, results, err, first, base, left>>
              /\ closed' \in BOOLEAN
  BY Zenon DEF Next, Close, vars, TypeOK

\* The invariant is inductive.
LEMMA ReadsStep == ReadsIInv /\ [Next]_vars => ReadsIInv'
<1> SUFFICES ASSUME ReadsIInv, [Next]_vars PROVE ReadsIInv'
  BY Zenon
<1>1. TypeOK /\ ResultsFun /\ WorkInv /\ LockInv /\ ReadInv
  BY Zenon DEF ReadsIInv
<1>2. ASSUME NEW x \in ExecReq, BeginExec(x) \/ ExecStep(x) PROVE ReadsIInv'
  BY <1>1, <1>2, TypesOfExec, WorkStep, LocksOfExec, ReadsOfExec, Zenon DEF ReadsIInv
<1>3. ASSUME NEW q \in QueryReq, BeginQuery(q) \/ QueryStep(q) PROVE ReadsIInv'
  <2>1. WorkInv'
    <3>2. running # NoReq => running \in ExecReq
      BY <1>1, Zenon DEF TypeOK
    <3> QED
      BY <1>1, <3>2, <1>3, QueryFrame, RequestAssumption, Zenon DEF WorkInv, NothingLeftOpen, Others, Req
  <2> QED
    BY <1>1, <1>3, <2>1, TypesOfQuery, LocksOfQuery, ReadsOfQuery, Zenon DEF ReadsIInv
<1>4. ASSUME UNCHANGED <<file, work, pending, shared, running, pc, k, results, err, first, base, left>>,
             closed' \in BOOLEAN
      PROVE  ReadsIInv'
  <2>1. TypeOK' /\ ResultsFun'
    BY <1>1, <1>4, Zenon DEF TypeOK, ResultsFun, ExecResult, QueryResult, Row, Req
  <2>2. WorkInv' /\ LockInv'
    BY <1>1, <1>4, Zenon DEF WorkInv, NothingLeftOpen, LockInv
  <2>3. ReadInv'
    BY <1>1, <1>4 DEF ReadInv
  <2> QED
    BY <2>1, <2>2, <2>3, Zenon DEF ReadsIInv
<1> QED
  BY <1>1, <1>2, <1>3, <1>4, Steps, Zenon

\* The invariant of the locks and results of Exec and Query.
THEOREM ReadsInvariance == Spec => []ReadsIInv
  BY ReadsInit, ReadsStep, PTL DEF Spec

\* The locks, files and results of the engine keep their types.
THEOREM EngineTypes == Spec => []TypeOK
<1>1. ReadsIInv => TypeOK
  BY Zenon DEF ReadsIInv
<1> QED
  BY <1>1, ReadsInvariance, PTL

\* However Exec returns (an error in a transaction, a Commit that is locked
\* out, a closed engine), its connection goes back without uncommitted rows
\* and without a lock.
THEOREM ExecCleansUp == Spec => []NothingLeftOpen
<1>1. ReadsIInv => NothingLeftOpen
  BY Zenon DEF ReadsIInv, WorkInv
<1> QED
  BY <1>1, ReadsInvariance, PTL

\* The rows that Query gathers one by one are those of one state of the file,
\* and the same state for all statements of a transaction.
THEOREM QueriesReadSnapshots == Spec => []ReadsAreSnapshots
<1>1. ReadsIInv => ReadsAreSnapshots
  BY DEF ReadsIInv, ReadInv, ReadsAreSnapshots, Results
<1> QED
  BY <1>1, ReadsInvariance, PTL

-----------------------------------------------------------------------------
(* Transactions are seen whole, and answers tell what was done *)

\* The statements of x whose rows are in s, and those that write.
Seen(x, s) == {i \in 1..Len(Stmts(x)) : \E j \in 1..Len(s) : s[j] = <<x, i>>}
Writes(x) == {i \in 1..Len(Stmts(x)) : Stmts(x)[i] = "write"}
Whole(s) == \A x \in ExecReq : Tx(x) => Seen(x, s) \in {{}, Writes(x)}

\* The file holds transactions whole, and nothing of one that is not done;
\* the connection that runs one sees its statements so far.
WholeInv ==
    /\ Whole(file)
    /\ \A x \in ExecReq : Tx(x) /\ pc[x] # "done" => Seen(x, file) = {}
    /\ \A x \in ExecReq : pc[x] = "idle" => k[x] = 1
    /\ running # NoReq /\ Tx(running) =>
          /\ \A y \in ExecReq \ {running} : Seen(y, work) = Seen(y, file)
          /\ Seen(running, work) = {i \in Writes(running) : i < k[running]}
          /\ pc[running] = "commit" => k[running] > Len(Stmts(running))

\* What queries have read was whole.
SeenInv ==
    \A q \in QueryReq : \A i \in 1..Len(results[q]) :
        results[q][i].ok => Whole(results[q][i].values)

\* What the Exec in progress has reported is what its connection sees, and in
\* a transaction the file is as it was; nothing is reported before.
EffectInv ==
    /\ AnswerTellsEffect
    /\ \A x \in ExecReq : pc[x] # "done" => err[x] = "nil"
    /\ \A x \in ExecReq : pc[x] = "idle" => results[x] = <<>>
    /\ running # NoReq =>
          /\ Extends(work, base[running], running, Executed(running))
          /\ \A s \in Executed(running) : s < k[running]
          /\ Tx(running) => /\ file = base[running]
                            /\ \A i \in 1..Len(results[running]) : results[running][i].ok

IInv == ReadsIInv /\ WholeInv /\ SeenInv /\ EffectInv

-----------------------------------------------------------------------------
(* Transactions *)

\* Appending a row of y's makes one more statement of y seen, and no other's.
LEMMA SeenAppend ==
    ASSUME NEW s \in Seq(Row), NEW x \in ExecReq, NEW y \in ExecReq, NEW i \in Nat,
           i \in 1..Len(Stmts(x))
    PROVE  Seen(y, Append(s, <<x, i>>)) = Seen(y, s) \cup (IF y = x THEN {i} ELSE {})
<1> DEFINE t == Append(s, <<x, i>>)
<1>1. /\ Len(t) = Len(s) + 1 /\ t[Len(s) + 1] = <<x, i>> /\ Len(s) \in Nat
      /\ \A j \in 1..Len(s) : t[j] = s[j]
  BY DEF Row
<1> HIDE DEF t
<1>2. ASSUME NEW e PROVE (\E j \in 1..Len(t) : t[j] = e) <=> (\E j \in 1..Len(s) : s[j] = e) \/ e = <<x, i>>
  <2>1. \A j : j \in 1..Len(t) <=> j \in 1..Len(s) \/ j = Len(s) + 1
    BY <1>1
  <2> QED
    BY <1>1, <2>1, Zenon
<1>3. \A h : <<y, h>> = <<x, i>> <=> y = x /\ h = i
  BY Zenon
<1> QED
  BY <1>2, <1>3, Zenon DEF Seen, t

\* x is the Exec in progress when it takes a step.
LEMMA IsRunning ==
    ASSUME TypeOK, NEW x \in ExecReq, ExecStep(x)
    PROVE  x = running /\ x # NoReq /\ pc[x] \in {"running", "commit"}
<1>1. pc[x] \in {"running", "commit"}
  BY Zenon
     DEF ExecStep, SkipEmpty, ExecFails, ExecWritesTx, LockFile, WantsFile, ExecWrites, EndExec, CommitTx, AtStmt
<1> QED
  BY <1>1, RequestAssumption, Zenon DEF TypeOK

\* Queries change neither the file nor an Exec.
LEMMA WholeOfQuery ==
    ASSUME TypeOK, ResultsFun, WholeInv, NEW q \in QueryReq, BeginQuery(q) \/ QueryStep(q)
    PROVE  WholeInv'
<1>3. running # NoReq => running \in ExecReq
  BY Zenon DEF TypeOK
<1> QED
  BY <1>3, QueryFrame, RequestAssumption DEF WholeInv, Others, Req

\* An Exec that ends leaves a file that holds it whole, and begins as others
\* left it.
LEMMA WholeAtReturn ==
    ASSUME TypeOK, WholeInv, NEW x \in ExecReq, x = running,
           NEW f, NEW e, ReturnExec(x, f, e), \A y \in ExecReq \ {x} : k'[y] = k[y],
           Whole(f), \A y \in ExecReq \ {x} : Seen(y, f) = Seen(y, file)
    PROVE  WholeInv'
<1>1. running' = NoReq /\ file' = f /\ pc' = [pc EXCEPT ![x] = "done"]
  BY Zenon DEF ReturnExec, Goto
<1>2. \A y \in ExecReq : Tx(y) /\ pc'[y] # "done" => Seen(y, f) = {}
  BY <1>1, Zenon DEF TypeOK, Req, WholeInv
<1>3. \A y \in ExecReq : pc'[y] = "idle" => k'[y] = 1
  BY <1>1, Zenon DEF WholeInv, TypeOK, Req
<1> QED
  BY <1>1, <1>2, <1>3, Zenon DEF WholeInv

\* An Exec puts a transaction into the file whole, at Commit, or not at all.
LEMMA WholeOfExec ==
    ASSUME TypeOK, ResultsFun, WorkInv, WholeInv, NEW x \in ExecReq, BeginExec(x) \/ ExecStep(x)
    PROVE  WholeInv'
<1> USE RequestAssumption
<1>1. \A y \in ExecReq \ {x} : pc'[y] = pc[y] /\ k'[y] = k[y]
  BY ExecFrame, Zenon DEF Others, Req
<1>2. CASE BeginExec(x)
  <2>1. /\ pc[x] = "idle" /\ running = NoReq /\ UNCHANGED <<file, work, k>>
        /\ running' \in {NoReq, x} /\ pc'[x] \in {"running", "done"}
    BY <1>2 DEF BeginExec, Goto, TypeOK, Req
  <2> QED
    BY <2>1, <1>1 DEF WholeInv, WorkInv, NothingLeftOpen, Writes
<1> SUFFICES ASSUME ExecStep(x) PROVE WholeInv'
  BY <1>2, Zenon
<1>3. x = running /\ x # NoReq /\ pc[x] \in {"running", "commit"} /\ k[x] \in Nat \ {0}
  BY IsRunning, Zenon DEF TypeOK, Req
<1>4. Whole(file) /\ (Tx(x) => Seen(x, file) = {})
  BY <1>3, Zenon DEF WholeInv \* x goes on, and what it has seen follows its place.
<1>5. ASSUME UNCHANGED <<file, running>>, pc'[x] \in {"running", "commit"},
             Tx(x) => /\ \A y \in ExecReq \ {x} : Seen(y, work') = Seen(y, file)
                      /\ Seen(x, work') = {i \in Writes(x) : i < k'[x]}
                      /\ pc'[x] = "commit" => k'[x] > Len(Stmts(x))
      PROVE  WholeInv'
  BY <1>1, <1>5, <1>3, Zenon DEF WholeInv
<1>6. Tx(x) => /\ \A y \in ExecReq \ {x} : Seen(y, work) = Seen(y, file)
               /\ Seen(x, work) = {i \in Writes(x) : i < k[x]}
               /\ pc[x] = "commit" => k[x] > Len(Stmts(x))
  BY <1>3, Zenon DEF WholeInv \* A statement that does not write changes nothing but the place.
<1>7. ASSUME UNCHANGED <<file, work, running, pc>>, k'[x] = k[x] + 1, pc[x] = "running",
             Stmts(x)[k[x]] # "write"
      PROVE  WholeInv'
  BY <1>3, <1>7, <1>5, <1>6 DEF Writes
<1>8. CASE SkipEmpty(x)
  BY <1>7, <1>8, Zenon DEF SkipEmpty, AtStmt, NextStmt, TypeOK, Req
<1>9. CASE ExecFails(x)
  <2>1. CASE Tx(x)
    BY <1>9, <2>1, <1>3, <1>4, WholeAtReturn, Zenon DEF ExecFails
  <2>2. CASE ~Tx(x)
    <3>1. UNCHANGED <<file, work, running, pc>> /\ NextStmt(x) /\ AtStmt(x, "fail")
      BY <1>9, <2>2, Zenon DEF ExecFails
    <3> QED
      BY <1>7, <3>1, Zenon DEF AtStmt, NextStmt, TypeOK, Req
  <2> QED
    BY <2>1, <2>2, Zenon
<1>10. CASE ExecWritesTx(x)
  <2>1. /\ work' = Append(work, <<x, k[x]>>) /\ UNCHANGED <<file, running, pc>>
        /\ k'[x] = k[x] + 1 /\ Tx(x) /\ pc[x] = "running"
        /\ k[x] \in 1..Len(Stmts(x)) /\ Stmts(x)[k[x]] = "write"
    BY <1>3, <1>10 DEF ExecWritesTx, AtStmt, NextStmt, TypeOK, Req
  <2>2. \A y \in ExecReq : Seen(y, work') = Seen(y, work) \cup (IF y = x THEN {k[x]} ELSE {})
    <3>1. work \in Seq(Row) /\ k[x] \in Nat /\ k[x] \in 1..Len(Stmts(x))
      BY <1>3, <2>1, Zenon DEF TypeOK
    <3> SUFFICES ASSUME NEW y \in ExecReq
                 PROVE  Seen(y, Append(work, <<x, k[x]>>)) = Seen(y, work) \cup (IF y = x THEN {k[x]} ELSE {})
      BY <2>1, Zenon
    <3> QED
      BY ONLY <3>1, x \in ExecReq, y \in ExecReq, SeenAppend
  <2>3. {i \in Writes(x) : i < k[x] + 1} = {i \in Writes(x) : i < k[x]} \cup {k[x]}
    BY <1>3, <2>1, SMTT(30) DEF Writes
  <2> QED
    <3>1. \A y \in ExecReq \ {x} : Seen(y, work') = Seen(y, file)
      BY <1>6, <2>1, <2>2, Zenon
    <3>2. Seen(x, work') = {i \in Writes(x) : i < k'[x]}
      BY <1>6, <2>1, <2>2, <2>3, ZenonT(90)
    <3> QED
      BY <1>5, <2>1, <3>1, <3>2, Zenon
<1>11. CASE LockFile(x)
  <2>1. UNCHANGED <<file, work, running, pc, k>>
    BY <1>11, Zenon DEF LockFile
  <2> QED
    BY <1>3, <1>5, <1>6, <2>1, Zenon
<1>12. CASE ExecWrites(x)
  <2>1. ~Tx(x) /\ AtStmt(x, "write") /\ UNCHANGED <<running, pc>>
    BY <1>12, Zenon DEF ExecWrites
  <2>2. CASE file' = file
    BY <1>3, <1>5, <2>1, <2>2, Zenon DEF AtStmt
  <2>3. CASE file' = Append(file, <<x, k[x]>>)
    <3>1. k[x] \in 1..Len(Stmts(x)) /\ pc[x] = "running"
      BY <1>3, <2>1 DEF AtStmt
    <3>2. \A y \in ExecReq \ {x} : Seen(y, file') = Seen(y, file)
      <4>1. file \in Seq(Row) /\ k[x] \in Nat
        BY <1>3, Zenon DEF TypeOK
      <4> SUFFICES ASSUME NEW y \in ExecReq, y # x
                   PROVE  Seen(y, Append(file, <<x, k[x]>>)) = Seen(y, file)
        BY <2>3, Zenon
      <4>2. Seen(y, Append(file, <<x, k[x]>>)) = Seen(y, file) \cup (IF y = x THEN {k[x]} ELSE {})
        BY ONLY <3>1, <4>1, x \in ExecReq, y \in ExecReq, SeenAppend
      <4> QED
        BY <4>2, Zenon
    <3>3. \A y \in ExecReq : pc'[y] = "idle" => k'[y] = 1
      BY <1>1, <2>1, <3>1, Zenon DEF WholeInv
    <3> QED
      BY <1>3, <2>1, <3>2, <3>3, Zenon DEF WholeInv, Whole
  <2> QED
    BY <1>12, <2>2, <2>3, Zenon DEF ExecWrites
<1>13. CASE EndExec(x)
  <2>1. UNCHANGED k /\ pc[x] = "running" /\ k[x] > Len(Stmts(x))
    BY <1>13, Zenon DEF EndExec
  <2>2. CASE ReturnExec(x, file, "nil")
    BY <1>3, <1>4, <2>1, <2>2, WholeAtReturn, Zenon
  <2>3. CASE Goto(x, "commit") /\ UNCHANGED <<file, work, running>>
    BY <1>5, <1>6, <2>1, <2>3, Zenon DEF Goto, TypeOK, Req
  <2> QED
    BY <1>13, <2>2, <2>3, Zenon DEF EndExec
<1>14. CASE CommitTx(x)
  <2>1. UNCHANGED k /\ pc[x] = "commit" /\ Tx(x)
    BY <1>3, <1>14, Zenon DEF CommitTx, WorkInv
  <2>2. CASE ReturnExec(x, file, "busy")
    BY <1>3, <1>4, <2>1, <2>2, WholeAtReturn, Zenon
  <2>3. CASE ReturnExec(x, work, "nil")
    <3>1. \A y \in ExecReq \ {x} : Seen(y, work) = Seen(y, file)
      BY <1>6, <2>1, Zenon
    <3>2. {i \in Writes(x) : i < k[x]} = Writes(x)
      BY <1>3, <1>6, <2>1 DEF Writes
    <3>3. Whole(work)
      BY <1>4, <1>6, <2>1, <3>1, <3>2, Zenon DEF Whole
    <3> QED
      BY <1>3, <2>1, <2>3, <3>1, <3>3, WholeAtReturn, Zenon
  <2> QED
    BY <1>14, <2>2, <2>3, Zenon DEF CommitTx
<1> QED
  BY <1>8, <1>9, <1>10, <1>11, <1>12, <1>13, <1>14, Zenon DEF ExecStep

-----------------------------------------------------------------------------
(* What Exec answers *)

\* One more row of x, behind those it has.
LEMMA ExtendsAppend ==
    ASSUME NEW l \in Seq(Row), NEW b \in Seq(Row), NEW x \in ExecReq, NEW S \in SUBSET Nat,
           NEW i \in Nat, \A s \in S : s < i, Extends(l, b, x, S)
    PROVE  Extends(Append(l, <<x, i>>), b, x, S \cup {i})
<1> DEFINE m == Append(l, <<x, i>>)
           n == Len(l) + 1
<1>1. /\ Len(m) = n /\ m[n] = <<x, i>> /\ Len(l) \in Nat /\ Len(b) \in Nat
      /\ \A j \in 1..Len(l) : m[j] = l[j]
  BY DEF Row
<1>2. Len(b) <= Len(l) /\ \A j \in 1..Len(b) : l[j] = b[j]
  BY Zenon DEF Extends
<1>3. /\ \A j \in Len(b) + 1..Len(l) : \E s \in S : l[j] = <<x, s>>
      /\ \A s \in S : \E j \in Len(b) + 1..Len(l) : l[j] = <<x, s>>
      /\ \A j, h \in Len(b) + 1..Len(l) : j < h => l[j][2] < l[h][2]
  BY Zenon DEF Extends
<1> HIDE DEF m
<1>4. \A j : j \in Len(b) + 1..Len(m) <=> j \in Len(b) + 1..Len(l) \/ j = n
  BY <1>1, <1>2
<1>5. \A j \in Len(b) + 1..Len(l) : m[j] = l[j]
  BY <1>1, <1>2
<1>6. Len(b) <= Len(m) /\ \A j \in 1..Len(b) : m[j] = b[j]
  BY <1>1, <1>2
<1>7. \A j \in Len(b) + 1..Len(m) : \E s \in S \cup {i} : m[j] = <<x, s>>
  BY <1>1, <1>3, <1>4, <1>5, ZenonT(90)
<1>8. \A s \in S \cup {i} : \E j \in Len(b) + 1..Len(m) : m[j] = <<x, s>>
  BY <1>1, <1>3, <1>4, <1>5, Zenon
<1>9. \A j, h \in Len(b) + 1..Len(m) : j < h => m[j][2] < m[h][2]
  <2> SUFFICES ASSUME NEW j \in Len(b) + 1..Len(m), NEW h \in Len(b) + 1..Len(m), j < h
               PROVE  m[j][2] < m[h][2]
    BY Zenon
  <2>1. j \in Len(b) + 1..Len(l)
    BY <1>1
  <2>2. CASE h = n
    <3>1. PICK s \in S : l[j] = <<x, s>>
      BY <1>3, <2>1, Zenon
    <3>2. m[j][2] = s /\ m[h][2] = i
      BY <1>1, <1>5, <2>1, <2>2, <3>1
    <3> QED
      BY <3>2, Zenon
  <2>3. CASE h \in Len(b) + 1..Len(l)
    BY <1>3, <1>5, <2>1, <2>3, Zenon
  <2> QED
    BY <1>4, <2>2, <2>3, Zenon
<1> QED
  BY <1>6, <1>7, <1>8, <1>9, Zenon DEF Extends, m

\* A file that has not changed shows the effect of no statement.
LEMMA ExtendsNothing ==
    ASSUME NEW b \in Seq(Row), NEW x \in ExecReq
    PROVE  Extends(b, b, x, {})
  BY DEF Extends

\* How a report changes what is reported as executed.
LEMMA ExecutedGrows ==
    ASSUME TypeOK, ResultsFun, NEW x \in ExecReq, NEW b \in BOOLEAN,
           Report(x, [stmt |-> k[x], ok |-> b])
    PROVE  /\ Executed(x)' = Executed(x) \cup (IF b THEN {k[x]} ELSE {})
           /\ (\A i \in 1..Len(results'[x]) : results'[x][i].ok)
                 <=> b /\ \A i \in 1..Len(results[x]) : results[x][i].ok
<1> DEFINE n == Len(results[x])
           r == [stmt |-> k[x], ok |-> b]
<1>1. results[x] \in Seq(ExecResult) /\ n \in Nat /\ r \in ExecResult
  BY DEF TypeOK, Req, ExecResult
<1>3. /\ Len(results'[x]) = n + 1 /\ results'[x][n + 1] = r
      /\ \A i \in 1..n : results'[x][i] = results[x][i]
  BY <1>1 DEF Report, ResultsFun, Req
<1>4. \A i : i \in 1..n + 1 <=> i \in 1..n \/ i = n + 1
  BY <1>1
<1>5. r.stmt = k[x] /\ r.ok = b
  BY Zenon
<1> HIDE DEF r, n
<1>6. ASSUME NEW e
      PROVE  e \in Executed(x)' <=> e \in Executed(x) \/ (b /\ e = k[x])
  <2>1. e \in Executed(x)' <=> \E i \in 1..n + 1 : results'[x][i].ok /\ e = results'[x][i].stmt
    BY <1>3, Zenon DEF Executed
  <2>2. e \in Executed(x) <=> \E i \in 1..n : results[x][i].ok /\ e = results[x][i].stmt
    BY Zenon DEF Executed, n
  <2> QED
    BY <1>3, <1>4, <1>5, <2>1, <2>2, Zenon
<1>7. (\A i \in 1..Len(results'[x]) : results'[x][i].ok)
         <=> b /\ \A i \in 1..n : results[x][i].ok
  BY <1>3, <1>4, <1>5, Zenon
<1> QED
  BY <1>6, <1>7, Zenon DEF n

\* What x has reported is a matter of its own results and error.
LEMMA SameReport ==
    ASSUME NEW x, results'[x] = results[x], err'[x] = err[x]
    PROVE  Executed(x)' = Executed(x) /\ (Failed(x)' <=> Failed(x))
  BY Zenon DEF Executed, Failed

\* Queries change nothing that an Exec has reported or left.
LEMMA EffectOfQuery ==
    ASSUME TypeOK, ResultsFun, EffectInv, NEW q \in QueryReq, BeginQuery(q) \/ QueryStep(q)
    PROVE  EffectInv'
<1>1. \A x \in ExecReq : x \in Req \ {q}
  BY RequestAssumption, Zenon DEF Req
<1>2. /\ UNCHANGED <<file, work, running, base, left>>
      /\ \A x \in ExecReq : pc'[x] = pc[x] /\ k'[x] = k[x] /\ results'[x] = results[x] /\ err'[x] = err[x]
  BY <1>1, QueryFrame, Zenon DEF Others
<1>3. \A x \in ExecReq : Executed(x)' = Executed(x) /\ (Failed(x)' <=> Failed(x))
  BY <1>2, SameReport, Zenon
<1>4. running # NoReq => running \in ExecReq
  BY Zenon DEF TypeOK
<1>5. AnswerTellsEffect'
  BY <1>2, <1>3, SMTT(90) DEF EffectInv, AnswerTellsEffect
<1> QED
  BY <1>2, <1>3, <1>4, <1>5, SMTT(90) DEF EffectInv

\* Execs other than x stay as they are.
LEMMA EffectElsewhere ==
    ASSUME TypeOK, ResultsFun, EffectInv, NEW x \in ExecReq, BeginExec(x) \/ ExecStep(x),
           \A y \in ExecReq \ {x} : left'[y] = left[y] /\ base'[y] = base[y],
           pc'[x] = "done" => Extends(left'[x], base'[x], x, IF Tx(x) /\ Failed(x)' THEN {} ELSE Executed(x)'),
           pc'[x] # "done" => err'[x] = "nil",
           pc'[x] # "idle",
           running' \in {NoReq, x},
           running' # NoReq =>
              /\ Extends(work', base'[x], x, Executed(x)')
              /\ \A s \in Executed(x)' : s < k'[x]
              /\ Tx(x) => /\ file' = base'[x]
                          /\ \A i \in 1..Len(results'[x]) : results'[x][i].ok
    PROVE  EffectInv'
  BY ExecFrame, SameReport DEF Others, Req, AnswerTellsEffect, EffectInv

\* x returns: what it leaves must be what it reports.
LEMMA EffectAtReturn ==
    ASSUME TypeOK, ResultsFun, EffectInv, NEW x \in ExecReq, ExecStep(x), UNCHANGED base,
           NEW f, NEW e, ReturnExec(x, f, e),
           Extends(f, base[x], x, IF Tx(x) /\ Failed(x)' THEN {} ELSE Executed(x)')
    PROVE  EffectInv'
<1>1. /\ running' = NoReq /\ pc'[x] = "done" /\ left'[x] = f
      /\ \A y \in ExecReq \ {x} : left'[y] = left[y]
  BY Zenon DEF ReturnExec, Goto, TypeOK, Req
<1> QED
  BY <1>1, EffectElsewhere, Zenon

\* An Exec reports a statement as executed when its connection has seen it,
\* and what it leaves when it returns is what it has reported.
LEMMA EffectOfExec ==
    ASSUME TypeOK, ResultsFun, WorkInv, EffectInv, NEW x \in ExecReq, BeginExec(x) \/ ExecStep(x)
    PROVE  EffectInv'
<1> USE RequestAssumption
<1>1. CASE BeginExec(x)
  <2>1. /\ running = NoReq /\ pc[x] = "idle" /\ UNCHANGED <<file, work, results, k>>
        /\ base'[x] = file /\ left'[x] = file
        /\ \A y \in ExecReq \ {x} : left'[y] = left[y] /\ base'[y] = base[y]
        /\ running' \in {NoReq, x} /\ pc'[x] \in {"running", "done"}
        /\ pc'[x] = "running" => err'[x] = err[x]
    BY <1>1 DEF BeginExec, Goto, TypeOK, Req
  <2>2. results'[x] = <<>> /\ err[x] = "nil" /\ work = file
    BY <2>1, Zenon DEF EffectInv, WorkInv, NothingLeftOpen
  <2>3. Executed(x)' = {}
    BY <2>2 DEF Executed
  <2>4. Extends(file, file, x, {})
    BY ExtendsNothing, Zenon DEF TypeOK
  <2>5. \A s \in Executed(x)' : s < k'[x]
    BY <2>3, Zenon
  <2>7. Extends(left'[x], base'[x], x, IF Tx(x) /\ Failed(x)' THEN {} ELSE Executed(x)')
    BY <2>1, <2>3, <2>4, Zenon
  <2>8. Extends(work', base'[x], x, Executed(x)') /\ file' = base'[x]
    BY <2>1, <2>2, <2>3, <2>4, Zenon
  <2> QED
    BY <2>1, <2>5, <2>7, <2>8, EffectElsewhere, <2>2
<1> SUFFICES ASSUME ExecStep(x) PROVE EffectInv'
  BY <1>1, Zenon
<1>2. x = running /\ x # NoReq /\ pc[x] \in {"running", "commit"} /\ k[x] \in Nat
  BY IsRunning, Zenon DEF TypeOK, Req
<1>3. /\ Extends(work, base[x], x, Executed(x)) /\ err[x] = "nil"
      /\ \A s \in Executed(x) : s < k[x]
      /\ Tx(x) => file = base[x] /\ \A i \in 1..Len(results[x]) : results[x][i].ok
  BY <1>2, Zenon DEF EffectInv
<1>4. Executed(x) \in SUBSET Nat
  <2>1. \A i \in 1..Len(results[x]) : results[x][i] \in ExecResult
    BY DEF TypeOK
  <2> QED
    BY <2>1, Zenon DEF Executed, ExecResult
<1>5. ~Tx(x) => work = file
  BY <1>2, Zenon DEF WorkInv \* x goes on with the statements it has reported.
<1>6. ASSUME UNCHANGED <<running, err, base, left>>, pc'[x] \in {"running", "commit"},
             Extends(work', base[x], x, Executed(x)'),
             \A s \in Executed(x)' : s < k'[x],
             Tx(x) => file' = file /\ \A i \in 1..Len(results'[x]) : results'[x][i].ok
      PROVE  EffectInv'
  BY <1>2, <1>3, <1>6, EffectElsewhere, Zenon
<1>7. ASSUME UNCHANGED results PROVE Executed(x)' = Executed(x)
  BY <1>7, Zenon DEF Executed
<1>8. \A s \in Executed(x) : s < k[x] + 1
  BY <1>2, <1>3, <1>4, SMTT(90)
<1>9. base[x] \in Seq(Row) /\ Extends(base[x], base[x], x, {})
  BY ExtendsNothing, Zenon DEF TypeOK
<1>10. CASE SkipEmpty(x)
  BY <1>10, <1>2, <1>3, <1>6, <1>7, <1>8 DEF SkipEmpty, NextStmt, Req
<1>11. CASE ExecFails(x)
  <2>1. /\ Executed(x)' = Executed(x)
        /\ ~(\A i \in 1..Len(results'[x]) : results'[x][i].ok)
    BY <1>11, ExecutedGrows, Zenon DEF ExecFails
  <2>2. CASE Tx(x)
    BY <1>11, <2>2, <2>1, <1>3, <1>9, EffectAtReturn, Zenon DEF ExecFails, Failed
  <2>3. CASE ~Tx(x)
    <3>1. UNCHANGED <<file, work, running, pc, err, base, left>> /\ NextStmt(x)
      BY <1>11, <2>3, Zenon DEF ExecFails
    <3>2. k'[x] = k[x] + 1
      BY <3>1, Zenon DEF NextStmt, TypeOK, Req
    <3> QED
      BY <1>2, <1>3, <1>6, <1>8, <2>1, <2>3, <3>1, <3>2, Zenon
  <2> QED
    BY <2>2, <2>3 \* x writes a row., Zenon
<1>12. ASSUME Report(x, [stmt |-> k[x], ok |-> TRUE]), work' = Append(work, <<x, k[x]>>),
              UNCHANGED <<running, err, base, left, pc>>, k'[x] = k[x] + 1, Tx(x) => file' = file
       PROVE  EffectInv'
  <2>1. /\ Executed(x)' = Executed(x) \cup {k[x]}
        /\ (\A i \in 1..Len(results'[x]) : results'[x][i].ok)
              <=> \A i \in 1..Len(results[x]) : results[x][i].ok
    BY <1>12, ExecutedGrows, Zenon
  <2>2. work \in Seq(Row)
    BY Zenon DEF TypeOK
  <2>3. Extends(Append(work, <<x, k[x]>>), base[x], x, Executed(x) \cup {k[x]})
    BY <1>2, <1>3, <1>4, <1>9, <2>2, ExtendsAppend, ZenonT(90)
  <2>4. \A s \in Executed(x)' : s < k'[x]
    BY <1>2, <1>8, <1>12, <2>1, SMTT(90)
  <2> QED
    BY <1>2, <1>3, <1>6, <1>12, <2>1, <2>3, <2>4, Zenon
<1>13. CASE ExecWritesTx(x)
  BY <1>12, <1>13, Zenon DEF ExecWritesTx, NextStmt, TypeOK, Req
<1>14. CASE LockFile(x)
  BY <1>14, <1>2, <1>3, <1>6, <1>7, Zenon DEF LockFile
<1>15. CASE ExecWrites(x)
  <2>1. ~Tx(x) /\ UNCHANGED <<running, pc, err, base, left>> /\ k'[x] = k[x] + 1
    BY <1>15, Zenon DEF ExecWrites, NextStmt, TypeOK, Req
  <2>2. CASE file' = Append(file, <<x, k[x]>>) /\ work' = file' /\ Report(x, [stmt |-> k[x], ok |-> TRUE])
    BY <1>5, <1>12, <2>1, <2>2, Zenon
  <2>3. CASE UNCHANGED <<file, work>> /\ Report(x, [stmt |-> k[x], ok |-> FALSE])
    <3>1. Executed(x)' = Executed(x)
      BY <2>3, ExecutedGrows, ZenonT(90)
    <3> QED
      BY <1>2, <1>3, <1>6, <1>8, <2>1, <2>3, <3>1, Zenon
  <2> QED
    BY <1>15, <2>2, <2>3, Zenon DEF ExecWrites
<1>16. CASE EndExec(x)
  <2>1. UNCHANGED <<k, results, base>> /\ Executed(x)' = Executed(x)
    BY <1>7, <1>16, Zenon DEF EndExec
  <2>2. CASE Goto(x, "commit") /\ UNCHANGED <<file, work, pending, running, err, left>>
    BY <2>2, <1>3, <1>6, <2>1, Zenon DEF Goto, TypeOK, Req
  <2>3. CASE ReturnExec(x, file, "nil") /\ work = file
    <3>1. err'[x] = "nil"
      BY <2>3, Zenon DEF ReturnExec, TypeOK, Req
    <3>2. Tx(x) => \A i \in 1..Len(results'[x]) : results'[x][i].ok
      BY <1>3, <2>1, Zenon
    <3>3. Tx(x) => ~Failed(x)'
      BY <3>1, <3>2, Zenon DEF Failed
    <3> QED
      BY <1>3, <2>1, <2>3, <3>3, EffectAtReturn, Zenon
  <2> QED
    BY <1>5, <1>16, <2>2, <2>3, Zenon DEF EndExec
<1>17. CASE CommitTx(x)
  <2>1. UNCHANGED <<k, results, base>> /\ Executed(x)' = Executed(x) /\ Tx(x)
    BY <1>2, <1>7, <1>17, Zenon DEF CommitTx, WorkInv
  <2>2. CASE ReturnExec(x, work, "nil")
    <3>1. err'[x] = "nil"
      BY <2>2, Zenon DEF ReturnExec, TypeOK, Req
    <3>2. \A i \in 1..Len(results'[x]) : results'[x][i].ok
      BY <1>3, <2>1, Zenon
    <3>3. ~Failed(x)'
      BY <3>1, <3>2, Zenon DEF Failed
    <3> QED
      BY <1>3, <2>1, <2>2, <3>3, EffectAtReturn, Zenon
  <2>3. CASE ReturnExec(x, file, "busy")
    <3>2. Failed(x)'
      BY <2>3, Zenon DEF Failed, ReturnExec, TypeOK, Req
    <3> QED
      BY <1>3, <1>9, <2>1, <2>3, <3>2, EffectAtReturn, Zenon
  <2> QED
    BY <1>17, <2>2, <2>3, Zenon DEF CommitTx
<1> QED
  BY <1>10, <1>11, <1>13, <1>14, <1>15, <1>16, <1>17, Zenon DEF ExecStep

-----------------------------------------------------------------------------
(* Theorems *)

\* An Exec does not change what queries have read.
LEMMA SeenOfExec ==
    ASSUME TypeOK, ResultsFun, SeenInv, NEW x \in ExecReq, BeginExec(x) \/ ExecStep(x)
    PROVE  SeenInv'
  BY RequestAssumption, ExecFrame DEF Req, Others, SeenInv

\* A query reads the file, which holds whole transactions only.
LEMMA SeenOfQuery ==
    ASSUME TypeOK, ResultsFun, LockInv, SeenInv, WholeInv,
           NEW q \in QueryReq, BeginQuery(q) \/ QueryStep(q)
    PROVE  SeenInv'
<1> SUFFICES ASSUME NEW p \in QueryReq, NEW i \in 1..Len(results'[p]), results'[p][i].ok
             PROVE  Whole(results'[p][i].values)
  BY Zenon DEF SeenInv
<1>1. CASE results'[p] = results[p]
  BY <1>1, Zenon DEF SeenInv
<1>3. ASSUME p = q, NEW r \in QueryResult, results'[q] = Append(results[q], r), r.ok => r.values = file
      PROVE  Whole(results'[p][i].values)
  <2> QED
    BY <1>3 DEF SeenInv, WholeInv
<1> QED
  BY <1>1, <1>3, ResultGrows, QueryFrame DEF Others, Req

\* Before the first request the file is empty and nothing is reported.
LEMMA InvInit == Init => WholeInv /\ SeenInv /\ EffectInv
<1> SUFFICES ASSUME Init PROVE WholeInv /\ SeenInv /\ EffectInv
  BY Zenon
<1> USE RequestAssumption DEF Init
<1>3. EffectInv
  BY Zenon DEF EffectInv, AnswerTellsEffect, Req
<1> QED
  BY <1>3 DEF WholeInv, Whole, Seen, Req, SeenInv

\* The invariant is inductive.
LEMMA InvStep == IInv /\ [Next]_vars => IInv'
<1> SUFFICES ASSUME IInv, [Next]_vars PROVE IInv'
  BY Zenon
<1>1. /\ TypeOK /\ ResultsFun /\ WorkInv /\ LockInv
      /\ WholeInv /\ SeenInv /\ EffectInv
  BY Zenon DEF IInv, ReadsIInv
<1>3. ASSUME NEW x \in ExecReq, BeginExec(x) \/ ExecStep(x)
      PROVE  WholeInv' /\ SeenInv' /\ EffectInv'
  BY <1>1, <1>3, WholeOfExec, SeenOfExec, EffectOfExec, Zenon
<1>4. ASSUME NEW q \in QueryReq, BeginQuery(q) \/ QueryStep(q)
      PROVE  WholeInv' /\ SeenInv' /\ EffectInv'
  BY <1>1, <1>4, WholeOfQuery, SeenOfQuery, EffectOfQuery, Zenon
<1>5. ASSUME UNCHANGED <<file, work, pending, shared, running, pc, k, results, err, first, base, left>>
      PROVE  WholeInv' /\ SeenInv' /\ EffectInv'
  <2>1. WholeInv' /\ SeenInv'
    BY <1>1, <1>5, Zenon DEF WholeInv, SeenInv
  <2>2. \A x \in ExecReq : Executed(x)' = Executed(x) /\ (Failed(x)' <=> Failed(x))
    BY <1>5, SameReport, Zenon
  <2>3. AnswerTellsEffect'
    BY <1>1, <1>5, <2>2, Zenon DEF EffectInv, AnswerTellsEffect
  <2>4. EffectInv'
    BY <1>1, <1>5, <2>2, <2>3, Zenon DEF EffectInv, TypeOK
  <2> QED
    BY <2>1, <2>4, Zenon
<1> QED
  BY <1>1, <1>3, <1>4, <1>5, Steps, ReadsStep, Zenon DEF IInv

\* The invariant of Exec and Query from which the theorems below follow.
THEOREM EngineInvariance == Spec => []IInv
<1>1. Init => IInv
  BY InvInit, ReadsInit, Zenon DEF IInv
<1> QED
  BY <1>1, InvStep, PTL DEF Spec

\* The results and the error of Exec tell which rows it left in the file,
\* with and without a transaction, and when Commit is locked out.
THEOREM AnswersAreTrue == Spec => []AnswerTellsEffect
<1>1. IInv => AnswerTellsEffect
  BY Zenon DEF IInv, EffectInv
<1> QED
  BY <1>1, EngineInvariance, PTL

\* No Query sees some statements of an Exec's transaction without the others.
THEOREM TransactionsAreWhole == Spec => []NoPartialTransaction
<1>1. IInv => NoPartialTransaction
  <2> SUFFICES ASSUME IInv, NEW q \in QueryReq, NEW x \in ExecReq, Tx(x),
                      NEW r \in Results(q), r.ok
               PROVE  Seen(x, r.values) = {} \/ Seen(x, r.values) = Writes(x)
    BY ZenonT(60) DEF NoPartialTransaction, Seen, Writes
  <2>1. PICK i \in 1..Len(results[q]) : r = results[q][i]
    BY Zenon DEF Results
  <2> QED
    BY <2>1, Zenon DEF IInv, SeenInv, Whole
<1> QED
  BY <1>1, EngineInvariance, PTL
=============================================================================
