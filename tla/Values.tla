------------------------------- MODULE Values -------------------------------
(***************************************************************************)
(* A value on its way from a client's JSON into a column and back: the     *)
(* parsing of /execute and /query, the parameters of the protobuf messages *)
(* that go through the raft log, SQLite's columns, and the JSON answer.    *)
(*                                                                         *)
(* A value is a pair of its kind and its contents.  Numbers are given in   *)
(* halves, so that the smallest fraction is 1.  A string is a pair too: a  *)
(* word, a date, the base64 form of some bytes, or the text of a number.   *)
(*                                                                         *)
(* encoding/json, SQLite and its driver are external.                      *)
(***************************************************************************)
EXTENDS Integers, Sequences

CONSTANTS
    Mantissa,   \* bits in the mantissa of a float64: 53
    MaxInt,     \* the largest int64, in halves
    Infinity    \* the float64 +Inf

Abs(x) == IF x < 0 THEN -x ELSE x
Whole(x) == x % 2 = 0

\* The float64 nearest to x, ties to even.
Double(x) ==
    LET e == CHOOSE k \in 0..Abs(x) : /\ Abs(x) < 2^(Mantissa + k)
                                      /\ k = 0 \/ Abs(x) >= 2^(Mantissa + k - 1)
        unit == 2^e
        q == Abs(x) \div unit
        twice == 2 * (Abs(x) % unit)
        up == twice > unit \/ (twice = unit /\ q % 2 = 1)
        y == (IF up THEN q + 1 ELSE q) * unit
    IN  IF x < 0 THEN -y ELSE y

ASSUME NumberAssumption ==
    /\ Mantissa \in Nat /\ MaxInt \in Nat /\ Infinity \in Nat
    /\ 2^Mantissa < MaxInt /\ MaxInt < Infinity
    /\ Double(Infinity) = Infinity

Null == <<"null", 0>>
Error == <<"error", 0>>
Panic == <<"panic", 0>>

-----------------------------------------------------------------------------
(* From JSON to a parameter *)

\* Mutant: a number becomes an integer parameter.
ConstructInteger(j) ==
    IF j[1] = "num" THEN <<"I", 2 * (j[2] \div 2)>> ELSE
    IF j[1] = "bool" THEN <<"B", j[2]>> ELSE
    IF j[1] = "str" THEN <<"S", j[2]>> ELSE Error

\* Mutant: a string becomes a parameter of bytes.
ConstructBytes(j) ==
    IF j[1] = "num" THEN <<"D", Double(j[2])>> ELSE
    IF j[1] = "bool" THEN <<"B", j[2]>> ELSE
    IF j[1] = "str" THEN <<"Y", j[2]>> ELSE Error

\* constructParam.  A JSON number is always a float64 in an interface{}, so
\* the cases of int64 and []byte are never met.
constructParam(j) ==
    IF j[1] = "num" THEN <<"D", Double(j[2])>> ELSE
    IF j[1] = "bool" THEN <<"B", j[2]>> ELSE
    IF j[1] = "str" THEN <<"S", j[2]>> ELSE Error

\* json.Unmarshal takes null for an empty string, or for a list of nothing.
Items(j) == IF j = Null THEN <<>> ELSE j[2]
IsList(j) == j[1] = "list" \/ j = Null
IsString(j) == j[1] = "str" \/ j = Null

\* The values of one parameter: those of an object, by name, or one alone.
ParamValues(j) == IF j[1] = "map" THEN j[2] ELSE {<<"", j>>}

\* A statement with its parameters: a list that begins with the SQL text.
StatementOK(s) ==
    /\ Items(s) # <<>> /\ Items(s)[1][1] = "str"
    /\ \A i \in 2..Len(Items(s)) : \A p \in ParamValues(Items(s)[i]) : constructParam(p[2]) # Error

\* parseStatements: a list of strings, or a list of statements with their
\* parameters.  One that cannot be read makes the whole request fail.
parseStatements(b) ==
    IF IsList(b) /\ \A i \in 1..Len(Items(b)) : IsString(Items(b)[i])
      THEN IF Items(b) = <<>> THEN Error
           ELSE <<"statements", [i \in 1..Len(Items(b)) |-> [sql |-> Items(b)[i], params |-> <<>>]]>>
    ELSE IF IsList(b) /\ \A i \in 1..Len(Items(b)) : IsList(Items(b)[i]) /\ StatementOK(Items(b)[i])
      THEN <<"statements", [i \in 1..Len(b[2]) |->
                [sql |-> b[2][i][2][1],
                 params |-> [k \in 1..Len(b[2][i][2]) - 1 |->
                     {<<p[1], constructParam(p[2])>> : p \in ParamValues(b[2][i][2][k + 1])}]]]>>
    ELSE Error

-----------------------------------------------------------------------------
(* From a parameter to a column and back *)

\* Mutant: no case for a bool.
ConvertNoBool(p) ==
    CASE p[1] = "I" -> <<"integer", p[2]>>
      [] p[1] = "D" -> <<"real", p[2]>>
      [] p[1] = "Y" -> <<"blob", p[2]>>
      [] p[1] = "S" -> <<"text", p[2]>>
      [] OTHER -> Error

\* convertParamsToSQL, and what the driver binds: a bool is 0 or 1.
convertParamsToSQL(p) ==
    CASE p[1] = "I" -> <<"integer", p[2]>>
      [] p[1] = "D" -> <<"real", p[2]>>
      [] p[1] = "B" -> <<"integer", IF p[2] THEN 2 ELSE 0>>
      [] p[1] = "Y" -> <<"blob", p[2]>>
      [] p[1] = "S" -> <<"text", p[2]>>
      [] OTHER -> Error

\* SQLite's affinity of a column with this declared type.
Affinity(col) ==
    CASE col = "integer" -> "integer"
      [] col = "real" -> "real"
      [] col \in {"text", "varchar(8)"} -> "text"
      [] col \in {"boolean", "timestamp"} -> "numeric"
      [] OTHER -> "blob"

\* A number in a column of numbers: an integer where that loses nothing.
StoreNumber(x, aff) ==
    IF aff # "real" /\ Whole(x) /\ Abs(x) <= MaxInt THEN <<"integer", x>> ELSE <<"real", Double(x)>>

IsNumber(v) == v[1] \in {"integer", "real"}
IsNumeral(v) == v[1] = "text" /\ v[2][1] \in {"integer", "real"}

\* What SQLite keeps of value v in a column of this type.
StoredAs(col, v) ==
    LET aff == Affinity(col) IN
    CASE aff = "text" /\ IsNumber(v) -> <<"text", v>>
      [] aff = "real" /\ IsNumber(v) -> StoreNumber(v[2], aff)
      [] aff \in {"integer", "numeric"} /\ v[1] = "real" -> StoreNumber(v[2], aff)
      [] aff \in {"integer", "numeric", "real"} /\ IsNumeral(v) -> StoreNumber(v[2][2], aff)
      [] OTHER -> v

\* What the driver makes of a stored value: columns of booleans and times
\* are told by their declared type; a text that is no time is the zero time.
Column(col, v) ==
    CASE v[1] = "integer" /\ col = "boolean" -> <<"bool", v[2] > 0>>
      [] v[1] = "integer" /\ col = "timestamp" -> <<"time", v[2]>>
      [] v[1] = "text" /\ col = "timestamp" -> <<"time", IF v[2][1] = "date" THEN v[2][2] ELSE 0>>
      [] v[1] = "integer" -> <<"int64", v[2]>>
      [] v[1] = "real" -> <<"float64", v[2]>>
      [] v[1] = "text" -> <<"string", v[2]>>
      [] v[1] = "blob" -> <<"bytes", v[2]>>
      [] OTHER -> Null

isStringType(col) == col \in {"text", "varchar(8)", ""}

\* convertToProto.  For bytes in a column of strings it writes through a
\* parameter that it has not made.
convertToProto(col, g) ==
    CASE g[1] = "int64" -> <<"I", g[2]>>
      [] g[1] = "float64" -> <<"D", g[2]>>
      [] g[1] = "bool" -> <<"B", g[2]>>
      [] g[1] = "string" -> <<"S", g[2]>>
      [] g[1] = "bytes" -> IF isStringType(col) THEN Panic ELSE <<"Y", g[2]>>
      [] g[1] = "time" -> <<"S", <<"date", g[2]>>>>
      [] OTHER -> Null

\* Mutant: bytes are written as the string that they hold.
ConvertPlainBytes(p) ==
    CASE p[1] = "I" -> <<"num", p[2]>>
      [] p[1] = "D" -> IF Abs(p[2]) = Infinity THEN Error ELSE <<"num", p[2]>>
      [] p[1] = "B" -> <<"bool", p[2]>>
      [] p[1] = "Y" -> <<"str", p[2]>>
      [] p[1] = "S" -> <<"str", p[2]>>
      [] OTHER -> Null

\* convertValues, and encoding/json: bytes become a base64 string, and an
\* infinite number makes the encoder fail.
convertValues(p) ==
    CASE p[1] = "I" -> <<"num", p[2]>>
      [] p[1] = "D" -> IF Abs(p[2]) = Infinity THEN Error ELSE <<"num", p[2]>>
      [] p[1] = "B" -> <<"bool", p[2]>>
      [] p[1] = "Y" -> <<"str", <<"base64", p[2][2]>>>>
      [] p[1] = "S" -> <<"str", p[2]>>
      [] OTHER -> Null
=============================================================================
