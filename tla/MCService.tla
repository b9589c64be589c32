------------------------------ MODULE MCService ------------------------------
(***************************************************************************)
(* Services for TLC.  What the database holds makes no difference to the   *)
(* properties, which are about the order in which calls took effect.       *)
(***************************************************************************)
EXTENDS Service

ExecCalls == {"exec"} \X Req \X Hop
StrongCalls == {"strong"} \X Req \X Hop
WeakCalls == {"weak"} \X Req \X Hop
OneDB == {"db"}
SameDB(d, o) == d
SameAnswer(d, o) == d

Str == <<"str", <<"word", 0>>>>
Plain == <<"list", <<Str, Null>>>>
WithParams == <<"list", << <<"list", <<Str, <<"num", 1>>, <<"map", {<<"a", Str>>, <<"b", <<"bool", TRUE>>>>}>>>>>> >>>>
NullParam == <<"list", << <<"list", <<Str, Null>>>>, <<"list", <<Str>>>> >>>>

Msg(path, method, body) == [NoMessage EXCEPT !.path = path, !.method = method, !.body = body]

Posted == Msg("execute", "POST", WithParams)
Posts == {Posted, [Posted EXCEPT !.keep = TRUE]}

Queries ==
    {[Msg("query", "GET", NoBody) EXCEPT !.q = TRUE, !.strong = s] : s \in BOOLEAN}
        \cup {[Msg("query", "POST", Plain) EXCEPT !.strong = TRUE]}

Unserved ==
    {Msg("execute", "POST", NullParam), Msg("metric", "GET", NoBody), Msg("other", "GET", NoBody),
     Msg("query", "PUT", Plain), [Msg("query", "GET", NoBody) EXCEPT !.q = TRUE, !.form = "bad"],
     [Msg("query", "POST", Plain) EXCEPT !.form = "urlencoded"]}

Writer == CHOOSE r \in Req : TRUE
Messages == [r \in Req |-> IF r = Writer THEN Posts ELSE Queries \cup Unserved]
OnlyPosts == [r \in Req |-> {Posted}]
=============================================================================
