----------------------------- MODULE MCConsensus -----------------------------
(***************************************************************************)
(* A cluster whose database is one table: Exec inserts its own row and is  *)
(* answered with the row's number, a query is answered with all the rows   *)
(* in order.  Every difference in what was executed, or in which order,    *)
(* therefore shows in the database and in the answers.                     *)
(***************************************************************************)
EXTENDS Consensus, TLC

\* Bound: the table holds one row more than there are calls to insert one.
MaxRows == Cardinality(ExecOp) + 1
Rows == UNION {[1..k -> ExecOp] : k \in 0..MaxRows}
NoRows == <<>>
Insert(d, o) == IF Len(d) < MaxRows THEN Append(d, o) ELSE d
Reply(d, o) == IF o \in ExecOp THEN <<Len(Insert(d, o))>> ELSE d
Replies == Rows \cup {<<k>> : k \in 1..MaxRows}
\* A locked-out request of one statement leaves the database as it was.
LockedOut(d, o) == {d}
Symmetry == Permutations(Node)
=============================================================================
