------------------------------- MODULE Engine -------------------------------
(***************************************************************************)
(* engine.Engine: one SQLite file in rollback-journal mode, a pool of      *)
(* write connections and a pool of read-only ones.  Exec runs on the FSM   *)
(* goroutine only, so there is one at a time; any number of Query calls    *)
(* overlap with it and with each other.                                    *)
(*                                                                         *)
(* SQLite is external.  A reader holds a SHARED lock while it steps through *)
(* rows, and in a transaction until the transaction ends.  A writer that   *)
(* is about to change the file takes PENDING, which keeps new readers out, *)
(* and waits for the SHARED locks to go; either side gives up with         *)
(* SQLITE_BUSY when the busy timeout expires.                              *)
(***************************************************************************)
EXTENDS Integers, Sequences, FiniteSets

CONSTANTS
    ExecReq, QueryReq,  \* calls of Exec and Query, each with its request
    Stmts(_),           \* the statements of a request, by what becomes of them
    Tx(_),              \* Request.Transaction
    NoReq,              \* no call
    BusyTimeouts        \* may the busy timeout expire?

\* Statements of an Exec insert a row, fail, or are empty.  Those of a Query
\* are refused before they run (they do not compile, or would write), read
\* all rows, fail after the first row, or read a row that cannot be converted.
ExecStmt == {"write", "fail", "empty"}
QueryStmt == {"refused", "read", "breaks", "badrow", "empty"}

ASSUME RequestAssumption ==
    /\ ExecReq \cap QueryReq = {} /\ NoReq \notin ExecReq \cup QueryReq
    /\ \A x \in ExecReq : Stmts(x) \in Seq(ExecStmt) /\ Tx(x) \in BOOLEAN
    /\ \A q \in QueryReq : Stmts(q) \in Seq(QueryStmt) /\ Tx(q) \in BOOLEAN
    /\ BusyTimeouts \in BOOLEAN

VARIABLES
    file,       \* the rows in the database file
    work,       \* the rows as the write connection sees them
    pending,    \* the write connection waits for, or holds, the whole file
    shared,     \* the queries whose connection holds a SHARED lock
    closed,     \* Engine.Close has been called
    running,    \* the Exec in progress
    pc, k,      \* where a call is, and its current statement
    results,    \* the results a call has gathered
    err,        \* the error it returned
    first,      \* the file when the current statement of a query began
    base, left  \* history: the file when an Exec began and when it returned

vars == <<file, work, pending, shared, closed, running, pc, k, results, err, first, base, left>>

Req == ExecReq \cup QueryReq
Row == ExecReq \X Nat
ExecResult == [stmt : Nat, ok : BOOLEAN]
QueryResult == [stmt : Nat, ok : BOOLEAN, begin : Seq(Row), values : Seq(Row)]

\* The variables have their types; the Exec in progress is one that runs.
TypeOK ==
    /\ file \in Seq(Row) /\ work \in Seq(Row) /\ pending \in BOOLEAN
    /\ shared \subseteq QueryReq /\ closed \in BOOLEAN
    /\ running \in ExecReq \cup {NoReq}
    /\ pc \in [Req -> {"idle", "running", "commit", "rows", "done"}]
    /\ \A x \in ExecReq : pc[x] \in {"running", "commit"} <=> x = running
    /\ k \in [Req -> Nat \ {0}]
    /\ \A x \in ExecReq : results[x] \in Seq(ExecResult)
    /\ \A q \in QueryReq : results[q] \in Seq(QueryResult)
    /\ err \in [Req -> {"nil", "closed", "busy", "scan"}]
    /\ first \in [QueryReq -> Seq(Row)]
    /\ base \in [ExecReq -> Seq(Row)] /\ left \in [ExecReq -> Seq(Row)]

Init ==
    /\ file = <<>> /\ work = <<>> /\ pending = FALSE
    /\ shared = {} /\ closed = FALSE /\ running = NoReq
    /\ pc = [r \in Req |-> "idle"] /\ k = [r \in Req |-> 1]
    /\ results = [r \in Req |-> <<>>] /\ err = [r \in Req |-> "nil"]
    /\ first = [q \in QueryReq |-> <<>>]
    /\ base = [x \in ExecReq |-> <<>>] /\ left = [x \in ExecReq |-> <<>>]

\* Engine.Close: connections in use are closed when their call ends.
Close ==
    /\ ~closed /\ closed' = TRUE
    /\ UNCHANGED <<file, work, pending, shared, running, pc, k, results, err, first, base, left>>

\* Call r is at statement s.
AtStmt(r, s) == pc[r] = "running" /\ k[r] <= Len(Stmts(r)) /\ Stmts(r)[k[r]] = s
NextStmt(r) == k' = [k EXCEPT ![r] = @ + 1]
Report(r, res) == results' = [results EXCEPT ![r] = Append(@, res)]
Goto(r, l) == pc' = [pc EXCEPT ![r] = l]

\* A statement without SQL is passed over.
SkipEmpty(r) ==
    /\ AtStmt(r, "empty") /\ NextStmt(r)
    /\ UNCHANGED <<file, work, pending, shared, closed, running, pc, results, err, first, base, left>>

-----------------------------------------------------------------------------
(* Exec *)

queryVars == <<shared, first>>

\* Mutant: an Exec on a closed engine does not give its place back.
BeginExecMutant(x) ==
    /\ pc[x] = "idle" /\ running = NoReq
    /\ base' = [base EXCEPT ![x] = file] /\ left' = [left EXCEPT ![x] = file]
    /\ running' = x
    /\ IF closed
         THEN Goto(x, "done") /\ err' = [err EXCEPT ![x] = "closed"]
         ELSE Goto(x, "running") /\ UNCHANGED err
    /\ UNCHANGED <<file, work, pending, closed, k, results, queryVars>>

\* A connection is taken from the pool, and a transaction begun if asked for.
BeginExec(x) ==
    /\ pc[x] = "idle" /\ running = NoReq
    /\ base' = [base EXCEPT ![x] = file] /\ left' = [left EXCEPT ![x] = file]
    /\ IF closed
         THEN Goto(x, "done") /\ err' = [err EXCEPT ![x] = "closed"] /\ UNCHANGED running
         ELSE Goto(x, "running") /\ running' = x /\ UNCHANGED err
    /\ UNCHANGED <<file, work, pending, closed, k, results, queryVars>>

\* Mutant: the transaction is not rolled back when the call returns.
ReturnExecMutant(x, f, e) ==
    /\ Goto(x, "done") /\ running' = NoReq
    /\ file' = f /\ work' = work /\ pending' = FALSE
    /\ left' = [left EXCEPT ![x] = f]
    /\ err' = [err EXCEPT ![x] = e]

\* The call returns with error e and leaves f in the file; the connection
\* goes back to the pool without a lock.
ReturnExec(x, f, e) ==
    /\ Goto(x, "done") /\ running' = NoReq
    /\ file' = f /\ work' = f /\ pending' = FALSE
    /\ left' = [left EXCEPT ![x] = f]
    /\ err' = [err EXCEPT ![x] = e]

\* Mutant: the transaction goes on behind a statement that failed.
ExecFailsMutant(x) ==
    /\ AtStmt(x, "fail")
    /\ Report(x, [stmt |-> k[x], ok |-> FALSE])
    /\ NextStmt(x)
    /\ UNCHANGED <<file, work, pending, closed, running, pc, err, base, left, queryVars>>

\* errorHandler: a transaction is rolled back and the loop left; otherwise
\* the next statement is tried.
ExecFails(x) ==
    /\ AtStmt(x, "fail")
    /\ Report(x, [stmt |-> k[x], ok |-> FALSE])
    /\ IF Tx(x) THEN ReturnExec(x, file, "nil") /\ UNCHANGED k
                ELSE NextStmt(x) /\ UNCHANGED <<file, work, pending, running, pc, err, left>>
    /\ UNCHANGED <<closed, base, queryVars>>

\* Mutant: the statements of a transaction run outside of it.
ExecWritesTxMutant(x) ==
    /\ AtStmt(x, "write") /\ Tx(x)
    /\ file' = Append(file, <<x, k[x]>>) /\ work' = file'
    /\ Report(x, [stmt |-> k[x], ok |-> TRUE]) /\ NextStmt(x)
    /\ UNCHANGED <<pending, closed, running, pc, err, base, left, queryVars>>

\* Inside a transaction a row goes to the connection's own pages.
ExecWritesTx(x) ==
    /\ AtStmt(x, "write") /\ Tx(x)
    /\ work' = Append(work, <<x, k[x]>>)
    /\ Report(x, [stmt |-> k[x], ok |-> TRUE]) /\ NextStmt(x)
    /\ UNCHANGED <<file, pending, closed, running, pc, err, base, left, queryVars>>

\* A statement of its own, or a Commit, needs the whole file.
WantsFile(x) ==
    \/ AtStmt(x, "write") /\ ~Tx(x)
    \/ pc[x] = "commit"

\* PENDING is taken: no new reader gets in.
LockFile(x) ==
    /\ WantsFile(x) /\ ~pending
    /\ pending' = TRUE
    /\ UNCHANGED <<file, work, closed, running, pc, k, results, err, base, left, queryVars>>

\* The last SHARED lock is gone, or the busy timeout expires before.
HasFile == pending /\ shared = {}
GivesUp == pending /\ shared # {} /\ BusyTimeouts

\* The row is written at once, or the statement fails with SQLITE_BUSY.
ExecWrites(x) ==
    /\ AtStmt(x, "write") /\ ~Tx(x) /\ pending
    /\ \/ /\ HasFile
          /\ file' = Append(file, <<x, k[x]>>) /\ work' = file'
          /\ Report(x, [stmt |-> k[x], ok |-> TRUE])
       \/ /\ GivesUp
          /\ Report(x, [stmt |-> k[x], ok |-> FALSE])
          /\ UNCHANGED <<file, work>>
    /\ pending' = FALSE /\ NextStmt(x)
    /\ UNCHANGED <<closed, running, pc, err, base, left, queryVars>>

\* The statements are done.
EndExec(x) ==
    /\ pc[x] = "running" /\ x \in ExecReq /\ k[x] > Len(Stmts(x))
    /\ IF Tx(x) /\ work # file
         THEN Goto(x, "commit") /\ UNCHANGED <<file, work, pending, running, err, left>>
         ELSE ReturnExec(x, file, "nil")
    /\ UNCHANGED <<closed, k, results, base, queryVars>>

\* Mutant: the error of Commit is not returned.
CommitTxMutant(x) ==
    /\ pc[x] = "commit" /\ pending
    /\ \/ HasFile /\ ReturnExec(x, work, "nil")
       \/ GivesUp /\ ReturnExec(x, file, "nil")
    /\ UNCHANGED <<closed, k, results, base, queryVars>>

\* Commit.  The driver rolls a transaction back that it cannot commit.
CommitTx(x) ==
    /\ pc[x] = "commit" /\ pending
    /\ \/ HasFile /\ ReturnExec(x, work, "nil")
       \/ GivesUp /\ ReturnExec(x, file, "busy")
    /\ UNCHANGED <<closed, k, results, base, queryVars>>

-----------------------------------------------------------------------------
(* Query *)

execVars == <<file, work, pending, running, base, left>>

\* A read-only connection is taken; BEGIN does not lock the file yet.
BeginQuery(q) ==
    /\ pc[q] = "idle"
    /\ IF closed THEN Goto(q, "done") /\ err' = [err EXCEPT ![q] = "closed"]
                 ELSE Goto(q, "running") /\ UNCHANGED err
    /\ UNCHANGED <<execVars, closed, k, results, queryVars>>

\* The error of a statement is reported and the next one is tried, in a
\* transaction too.
NoRows(q) == [stmt |-> k[q], ok |-> FALSE, begin |-> <<>>, values |-> <<>>]

\* The statement does not compile, is not read-only or has bad parameters.
QueryRefused(q) ==
    /\ AtStmt(q, "refused")
    /\ Report(q, NoRows(q)) /\ NextStmt(q)
    /\ UNCHANGED <<execVars, closed, pc, err, queryVars>>

Reads(q) == AtStmt(q, "read") \/ AtStmt(q, "breaks") \/ AtStmt(q, "badrow")

\* The first row is read under a SHARED lock.
QueryStarts(q) ==
    /\ Reads(q)
    /\ q \in shared \/ ~pending
    /\ shared' = shared \cup {q}
    /\ first' = [first EXCEPT ![q] = file]
    /\ Goto(q, "rows")
    /\ UNCHANGED <<execVars, closed, k, results, err>>

QueryLockedOut(q) ==
    /\ Reads(q)
    /\ q \notin shared /\ pending /\ BusyTimeouts
    /\ Report(q, NoRows(q)) /\ NextStmt(q)
    /\ UNCHANGED <<execVars, closed, pc, err, queryVars>>

\* The rows are exhausted, or reading them fails.
Unlock(q) == shared' = shared \ {q}
UnlockStmt(q) == IF Tx(q) THEN UNCHANGED shared ELSE Unlock(q)

\* The result of a statement holds the rows read before it failed, if it did;
\* one that breaks does so at the second row.
RowsRead(q) ==
    LET ok == Stmts(q)[k[q]] = "read" \/ Len(file) < 2 IN
    [stmt |-> k[q], ok |-> ok, begin |-> first[q],
     values |-> IF ok THEN file ELSE SubSeq(file, 1, 1)]

\* Mutant: the lock is given back between the statements of a transaction.
QueryRowsMutant(q) ==
    /\ pc[q] = "rows" /\ Stmts(q)[k[q]] \in {"read", "breaks"}
    /\ Report(q, RowsRead(q))
    /\ NextStmt(q) /\ Goto(q, "running") /\ Unlock(q)
    /\ UNCHANGED <<execVars, closed, err, first>>

\* All rows are read, or r.Err tells that reading stopped.
QueryRows(q) ==
    /\ pc[q] = "rows" /\ Stmts(q)[k[q]] \in {"read", "breaks"}
    /\ Report(q, RowsRead(q))
    /\ NextStmt(q) /\ Goto(q, "running") /\ UnlockStmt(q)
    /\ UNCHANGED <<execVars, closed, err, first>>

\* A row that cannot be converted ends the call without any results.
QueryBadRow(q) ==
    /\ pc[q] = "rows" /\ Stmts(q)[k[q]] = "badrow"
    /\ results' = [results EXCEPT ![q] = <<>>]
    /\ err' = [err EXCEPT ![q] = "scan"]
    /\ Goto(q, "done") /\ Unlock(q)
    /\ UNCHANGED <<execVars, closed, k, first>>

\* Mutant: the read transaction is neither committed nor rolled back.
EndQueryMutant(q) ==
    /\ pc[q] = "running" /\ q \in QueryReq /\ k[q] > Len(Stmts(q))
    /\ Goto(q, "done")
    /\ UNCHANGED <<execVars, closed, k, results, err, shared, first>>

\* The statements are done: Commit ends a transaction and its lock.
EndQuery(q) ==
    /\ pc[q] = "running" /\ q \in QueryReq /\ k[q] > Len(Stmts(q))
    /\ Goto(q, "done") /\ Unlock(q)
    /\ UNCHANGED <<execVars, closed, k, results, err, first>>

-----------------------------------------------------------------------------
ExecStep(x) ==
    \/ SkipEmpty(x) \/ ExecFails(x) \/ ExecWritesTx(x) \/ LockFile(x)
    \/ ExecWrites(x) \/ EndExec(x) \/ CommitTx(x)

QueryStep(q) ==
    \/ SkipEmpty(q) \/ QueryRefused(q) \/ QueryStarts(q) \/ QueryLockedOut(q)
    \/ QueryRows(q) \/ QueryBadRow(q) \/ EndQuery(q)

Next ==
    \/ Close
    \/ \E x \in ExecReq : BeginExec(x) \/ ExecStep(x)
    \/ \E q \in QueryReq : BeginQuery(q) \/ QueryStep(q)

Spec == Init /\ [][Next]_vars

\* Each goroutine goes on; when a call arrives is up to its client.  The busy
\* timeout may come to the help of a call that waits for a lock, or may not.
Fairness ==
    /\ \A x \in ExecReq : WF_vars(~GivesUp /\ ExecStep(x))
    /\ \A q \in QueryReq : WF_vars((pending => q \in shared) /\ QueryStep(q))

FairSpec == Spec /\ Fairness

-----------------------------------------------------------------------------
(* Properties *)

\* The statements of x reported as executed.
Executed(x) == {results[x][i].stmt : i \in {j \in 1..Len(results[x]) : results[x][j].ok}}

\* l is b followed by a row of x for each of the statements in S, in order.
Extends(l, b, x, S) ==
    LET new == Len(b) + 1..Len(l) IN
    /\ Len(b) <= Len(l) /\ \A i \in 1..Len(b) : l[i] = b[i]
    /\ \A i \in new : \E s \in S : l[i] = <<x, s>>
    /\ \A s \in S : \E i \in new : l[i] = <<x, s>>
    /\ \A i, j \in new : i < j => l[i][2] < l[j][2]

Failed(x) == err[x] # "nil" \/ \E i \in 1..Len(results[x]) : ~results[x][i].ok

\* What an Exec answers tells what it did: without a transaction the rows of
\* just the statements reported as executed are in the file; a transaction
\* leaves the rows of all its statements, or none if it reports any error,
\* although it then also reports the statements it has rolled back.
AnswerTellsEffect ==
    \A x \in ExecReq : pc[x] = "done" =>
        Extends(left[x], base[x], x, IF Tx(x) /\ Failed(x) THEN {} ELSE Executed(x))

\* Once an Exec is done the write connection holds no uncommitted rows and no
\* lock, whichever way the Exec ended: later calls do not run into its work.
NothingLeftOpen == running = NoReq => work = file /\ ~pending

Results(q) == {results[q][i] : i \in 1..Len(results[q])}

\* No query sees a part of an Exec's transaction.
NoPartialTransaction ==
    \A q \in QueryReq, x \in ExecReq : Tx(x) =>
        \A r \in {s \in Results(q) : s.ok} :
            LET seen == {i \in 1..Len(Stmts(x)) : \E j \in 1..Len(r.values) : r.values[j] = <<x, i>>}
            IN  seen = {} \/ seen = {i \in 1..Len(Stmts(x)) : Stmts(x)[i] = "write"}

\* A statement reads the file as it was when it began, however long its rows
\* take; the statements of a transaction all read the same file.
ReadsAreSnapshots ==
    \A q \in QueryReq : \A r, s \in {t \in Results(q) : t.ok} :
        r.values = r.begin /\ (Tx(q) => r.values = s.values)

\* "we don't want to return a json response where half of the items are
\* missing and half are there": a result with an error holds no rows.
NoHalfAnswers ==
    \A q \in QueryReq : \A r \in Results(q) : ~r.ok => r.values = <<>>

\* Every call ends, and not thanks to the busy timeout: a writer waits only
\* for queries that do not wait for it.
CallsEnd == \A r \in Req : pc[r] = "running" ~> pc[r] = "done"
=============================================================================
