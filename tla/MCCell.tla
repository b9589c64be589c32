------------------------------- MODULE MCCell -------------------------------
(***************************************************************************)
(* A cell for TLC: a mantissa of 3 bits, all numbers up to +Inf, and one   *)
(* string of every sort.                                                   *)
(***************************************************************************)
EXTENDS Cell

Types == {"integer", "real", "text", "varchar(8)", "boolean", "timestamp", "blob", ""}

Finite == -40..40

Strings == {<<"word", 0>>, <<"date", 6>>, <<"base64", 1>>, <<"integer", 10>>, <<"real", 3>>}

JsonValues ==
    ({"num"} \X Finite) \union ({"str"} \X Strings) \union ({"bool"} \X BOOLEAN)
        \union {Null, <<"list", <<>>>>}

Literals ==
    ({"integer"} \X {x \in Finite : Whole(x) /\ Abs(x) <= MaxInt})
        \union ({"real"} \X ({Double(x) : x \in Finite} \union {Infinity, -Infinity}))
        \union ({"text", "blob"} \X Strings)
        \union {Null}
=============================================================================
