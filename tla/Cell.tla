-------------------------------- MODULE Cell --------------------------------
(***************************************************************************)
(* One cell of a table, written through /execute and read through /query.  *)
(* A client sends a JSON parameter, or writes a literal in the SQL text,   *)
(* reads the cell, and may write back what it read.                        *)
(***************************************************************************)
EXTENDS Values

CONSTANTS
    ColumnType, \* the declared types of the column
    Json,       \* the JSON values that clients send
    Literal     \* the values that SQL literals stand for

VARIABLES
    col,        \* the declared type of the column
    source,     \* what the cell was last written from
    sent,       \* the JSON value that was last sent
    param,      \* the parameter in the raft log, or in the rows of a result
    cell,       \* what SQLite holds
    out,        \* the JSON value that was last read
    pc

vars == <<col, source, sent, param, cell, out, pc>>

None == <<"none", 0>>

Init ==
    /\ col \in ColumnType
    /\ source = "nothing"
    /\ sent = None
    /\ param = None
    /\ cell = Null
    /\ out = None
    /\ pc = "empty"

\* POST /execute with [["INSERT ... VALUES(?)", j]]: 400, or into the log.
Send(j) ==
    /\ sent' = j
    /\ param' = constructParam(j)
    /\ pc' = IF param' = Error THEN "refused" ELSE "logged"
    /\ UNCHANGED <<col, cell>>

SendNew(j) ==
    /\ pc = "empty"
    /\ Send(j)
    /\ source' = "parameter"
    /\ UNCHANGED out

\* The client sends back the value it has read.
SendBack ==
    /\ pc = "replied"
    /\ Send(out)
    /\ source' = "reply"
    /\ UNCHANGED out

\* POST /execute with ["INSERT ... VALUES(literal)"].
ExecuteLiteral(v) ==
    /\ pc = "empty"
    /\ source' = "literal"
    /\ cell' = StoredAs(col, v)
    /\ pc' = "stored"
    /\ UNCHANGED <<col, sent, param, out>>

\* The log entry is applied.
Execute ==
    /\ pc = "logged"
    /\ cell' = StoredAs(col, convertParamsToSQL(param))
    /\ pc' = "stored"
    /\ UNCHANGED <<col, source, sent, param, out>>

\* The row is read into a result.
Query ==
    /\ pc = "stored"
    /\ param' = convertToProto(col, Column(col, cell))
    /\ pc' = IF param' = Panic THEN "panic" ELSE "queried"
    /\ UNCHANGED <<col, source, sent, cell, out>>

\* The result is encoded: 500 if it cannot be.
Reply ==
    /\ pc = "queried"
    /\ out' = convertValues(param)
    /\ pc' = IF out' = Error THEN "failed" ELSE "replied"
    /\ UNCHANGED <<col, source, sent, param, cell>>

Next ==
    \/ \E j \in Json : SendNew(j)
    \/ \E v \in Literal : ExecuteLiteral(v)
    \/ SendBack
    \/ Execute
    \/ Query
    \/ Reply

Spec == Init /\ [][Next]_vars

-----------------------------------------------------------------------------
(* Properties *)

\* The stages of a value, and the kinds of value that each of them holds.
TypeOK ==
    /\ col \in ColumnType
    /\ source \in {"nothing", "parameter", "literal", "reply"}
    /\ sent[1] \in {"none", "num", "str", "bool", "null", "list", "map"}
    /\ param[1] \in {"none", "D", "I", "B", "S", "Y", "null", "error", "panic"}
    /\ cell[1] \in {"integer", "real", "text", "blob", "null"}
    /\ out[1] \in {"none", "num", "str", "bool", "null", "error"}
    /\ pc \in {"empty", "refused", "logged", "stored", "queried", "replied", "panic", "failed"}

\* Whether a float64 holds the number exactly.
Exact(j) == j[1] = "num" => Abs(j[2]) <= 2^Mantissa

\* The columns whose type is made for a JSON value, or that take any value.
Fits(j) ==
    CASE j[1] = "num" -> col \in {"integer", "real", "blob", ""}
      [] j[1] = "str" -> \/ col \in {"text", "varchar(8)", "blob", ""}
                         \/ col = "timestamp" /\ j[2][1] = "date"
      [] j[1] = "bool" -> col = "boolean"
      [] OTHER -> FALSE

\* A parameter written to a column made for it is read back as it was sent:
\* the float64 that constructParam makes of every number, the affinity of the
\* column and the conversions of convertToProto and convertValues undo each
\* other for the numbers that a float64 holds.
RoundTrip ==
    pc = "replied" /\ source = "parameter" /\ Fits(sent) /\ Exact(sent) => out = sent

\* A client that writes back what it read changes nothing that a later read
\* would show, whatever the column's type, and whether the value came from a
\* parameter or a literal: times, booleans, numbers kept as text and bytes in
\* base64 settle after one conversion.  Not so for integers beyond 2^Mantissa,
\* which constructParam rounds, nor for bytes in a column of numbers or times,
\* whose base64 form is taken for a number or a time.
EchoStable ==
    pc = "replied" /\ source = "reply" /\ Exact(sent) =>
        \/ out = sent
        \/ sent[1] = "str" /\ sent[2][1] = "base64" /\ Affinity(col) \notin {"text", "blob"}

\* A cell that was written from a JSON parameter can be read: it never takes
\* convertToProto to the bytes in a column of strings for which it has no
\* parameter, and never holds a number that JSON has no form for.  A client
\* that sends back what it read meets nothing but the refusal of null.
ParametersStayReadable ==
    /\ source \in {"parameter", "reply"} => pc \notin {"panic", "failed"}
    /\ source = "reply" /\ pc = "refused" => sent = Null
=============================================================================
