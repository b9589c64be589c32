------------------------------ MODULE MCEngine ------------------------------
(***************************************************************************)
(* Requests of up to three statements, with every way a statement can end. *)
(***************************************************************************)
EXTENDS Engine

Statements(r) ==
    CASE r = "tx"     -> <<"write", "empty", "write">>
      [] r = "txfail" -> <<"write", "fail", "write">>
      [] r = "plain"  -> <<"write", "fail", "write">>
      [] r = "qtx"    -> <<"read", "refused", "read">>
      [] r = "qplain" -> <<"read", "empty", "breaks">>
      [] r = "qmix"   -> <<"empty", "breaks", "badrow">>

Transactional(r) == r \in {"tx", "txfail", "qtx"}
=============================================================================
