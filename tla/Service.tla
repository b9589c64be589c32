------------------------------ MODULE Service -------------------------------
(***************************************************************************)
(* service.Service in front of the store that Consensus implements: the    *)
(* handlers of /execute, /query and /metric, and the clients that follow   *)
(* their redirects.  A handler calls the store, and only when it has been  *)
(* told ErrNotLeader does it ask raft for the leader's address, which may  *)
(* have changed, or be unknown, or be its own.                             *)
(*                                                                         *)
(* A client repeats a redirected request at the address it was given.  Go  *)
(* and curl repeat a POST that got a 301 as a GET without a body; a client *)
(* that is told to keeps the method and the body.                          *)
(***************************************************************************)
EXTENDS Store, Values

CONSTANTS
    Node, NoNode,
    Req,            \* requests of clients
    MaxRedirects,   \* redirects that a client follows: 10 in Go's http.Client
    Message,        \* what the client of each request may send
    MaxDown         \* bound: nodes that fail

VARIABLES
    leads,      \* the nodes for which raft's State is Leader
    hint,       \* raft's Leader() at every node
    down,       \* the nodes that have failed
    msg,        \* what the client of a request sent
    pc, at,     \* the stage of the request, and the node where it is
    hop,        \* the redirects that the client has followed
    status,     \* the answer
    before,     \* the writes that had succeeded when the request was sent
    calm        \* whether leaders have been known and the same since then

raftVars == <<leads, hint, down>>
reqVars == <<msg, pc, at, hop, status, before, calm>>
vars == <<storeVars, raftVars, reqVars>>

Hop == 0..MaxRedirects

\* The calls of the store: the nth repetition of a request is a call.
ASSUME CallAssumption ==
    /\ MaxRedirects \in Nat \ {0} /\ MaxDown \in Nat
    /\ NoNode \notin Node
    /\ ExecOp = {"exec"} \X Req \X Hop
    /\ StrongOp = {"strong"} \X Req \X Hop
    /\ WeakOp = {"weak"} \X Req \X Hop

NoBody == <<"none", 0>>
NoMessage == [path |-> "none", method |-> "GET", body |-> NoBody, q |-> FALSE,
              strong |-> FALSE, form |-> "ok", keep |-> FALSE]

Init ==
    /\ StoreInit
    /\ leads = {}
    /\ hint = [n \in Node |-> NoNode]
    /\ down = {}
    /\ msg = [r \in Req |-> NoMessage]
    /\ pc = [r \in Req |-> "idle"]
    /\ at = [r \in Req |-> NoNode]
    /\ hop = [r \in Req |-> 0]
    /\ status = [r \in Req |-> "none"]
    /\ before = [r \in Req |-> {}]
    /\ calm = [r \in Req |-> FALSE]

-----------------------------------------------------------------------------
(* Reading a request *)

\* The message as it arrives, after a redirect too.
Arriving(r) ==
    IF hop[r] = 0 \/ msg[r].keep THEN msg[r]
    ELSE [msg[r] EXCEPT !.method = "GET", !.body = NoBody]

\* execHandler refuses what parseStatements cannot read, whatever the method.
execRefusal(m) == IF parseStatements(m.body) = Error THEN "400" ELSE "none"

\* checkBoolParam fails when ParseForm does.
FormFails(m) == m.form = "bad"

\* getReqQueries.  ParseForm, called before it, has eaten a posted form.
getReqQueries(m) ==
    IF m.method = "GET" THEN IF m.q THEN <<"q", 0>> ELSE Error
    ELSE IF m.form = "urlencoded" THEN Error ELSE parseStatements(m.body)

queryRefusal(m) ==
    IF m.method \notin {"GET", "POST"} THEN "405"
    ELSE IF FormFails(m) \/ getReqQueries(m) = Error THEN "400" ELSE "none"

\* ServeHTTP: the status with which a message is refused before the store is
\* called, "none" if it is not.
Refusal(m) ==
    CASE m.path = "execute" -> execRefusal(m)
      [] m.path = "query" -> queryRefusal(m)
      [] m.path = "metric" -> IF m.method # "GET" THEN "405" ELSE "none"
      [] OTHER -> "404"

\* Mutant: the consistency parameter is not read.
KindMutant(m) == IF m.path = "execute" THEN "exec" ELSE "weak"

\* determineConsistency, and the method of the store that is called.
Kind(m) ==
    IF m.path = "execute" THEN "exec"
    ELSE IF m.strong THEN "strong" ELSE "weak"

Call(r) == <<Kind(msg[r]), r, hop[r]>>

-----------------------------------------------------------------------------
(* Handlers *)

\* The request has its final answer.
Answered(r, code) ==
    /\ pc' = [pc EXCEPT ![r] = "done"]
    /\ status' = [status EXCEPT ![r] = code]
    /\ at' = [at EXCEPT ![r] = NoNode]
    /\ UNCHANGED <<msg, hop, before, calm>>

\* /metric only reads, and fails if the data directory cannot be read.
metricHandler(r) ==
    /\ msg[r].path = "metric"
    /\ \E code \in {"ok", "500"} : Answered(r, code)
    /\ UNCHANGED storeVars

\* execHandler and queryHandler call the store.
CallStore(r) ==
    /\ msg[r].path # "metric"
    /\ Invoke(Call(r))
    /\ pc' = [pc EXCEPT ![r] = "called"]
    /\ UNCHANGED <<msg, at, hop, status, before, calm>>

\* ServeHTTP.
Serve(r) ==
    /\ pc[r] = "arrived"
    /\ LET refusal == Refusal(Arriving(r)) IN
          \/ refusal # "none" /\ Answered(r, refusal) /\ UNCHANGED storeVars
          \/ refusal = "none" /\ (metricHandler(r) \/ CallStore(r))
    /\ UNCHANGED raftVars

\* writeResponse: rows that JSON has no form for give a 500.
ResponseCodes(o) == IF o \in ExecOp THEN {"ok"} ELSE {"ok", "500"}

\* The store has answered.
ReturnResults(r) ==
    /\ pc[r] = "called"
    /\ IF Call(r) \in WeakOp THEN ReadWeakly(Call(r)) ELSE Acknowledge(Call(r))
    /\ \E code \in ResponseCodes(Call(r)) : Answered(r, code)
    /\ UNCHANGED raftVars

\* Mutant: every error of a logged call is taken for ErrNotLeader.
ReturnNotLeaderMutant(r) ==
    /\ pc[r] = "called" /\ Call(r) \in LoggedOp
    /\ \/ at[r] \notin leads /\ Refuse(Call(r))
       \/ Lose({Call(r)})
    /\ pc' = [pc EXCEPT ![r] = "notleader"]
    /\ UNCHANGED <<msg, at, hop, status, before, calm, raftVars>>

\* Exec or a strong Query has returned ErrNotLeader.
ReturnNotLeader(r) ==
    /\ pc[r] = "called" /\ Call(r) \in LoggedOp
    /\ at[r] \notin leads /\ Refuse(Call(r))
    /\ pc' = [pc EXCEPT ![r] = "notleader"]
    /\ UNCHANGED <<msg, at, hop, status, before, calm, raftVars>>

\* Mutant: any error is a 503.
ReturnErrorMutant(r) ==
    /\ pc[r] = "called"
    /\ Refuse(Call(r)) \/ Lose({Call(r)})
    /\ Answered(r, "503")
    /\ UNCHANGED raftVars

\* Any other error of the store is told with a 200.
ReturnError(r) ==
    /\ pc[r] = "called"
    /\ Refuse(Call(r)) \/ Lose({Call(r)})
    /\ Answered(r, "error")
    /\ UNCHANGED raftVars

\* redirectAddr: a 301 to node n.
Location(r, n) ==
    /\ pc' = [pc EXCEPT ![r] = "redirected"]
    /\ at' = [at EXCEPT ![r] = n]
    /\ UNCHANGED <<msg, hop, status, before, calm>>

LeaderAddr(n) == hint[n]

\* Mutant: the address is not compared with "".
RedirectUnchecked(r) ==
    /\ pc[r] = "notleader"
    /\ Location(r, LeaderAddr(at[r]))
    /\ UNCHANGED <<storeVars, raftVars>>

\* Mutant: the handler waits for a leader.
RedirectWaits(r) ==
    /\ pc[r] = "notleader"
    /\ LeaderAddr(at[r]) # NoNode /\ Location(r, LeaderAddr(at[r]))
    /\ UNCHANGED <<storeVars, raftVars>>

\* Mutant: the request is redirected to the address of this node.
RedirectHere(r) ==
    /\ pc[r] = "notleader"
    /\ IF LeaderAddr(at[r]) = NoNode THEN Answered(r, "503") ELSE Location(r, at[r])
    /\ UNCHANGED <<storeVars, raftVars>>

\* ErrNotLeader: the handler asks for the leader's address, which raft and
\* the HTTP service share, and redirects the client there.
Redirect(r) ==
    /\ pc[r] = "notleader"
    /\ IF LeaderAddr(at[r]) = NoNode THEN Answered(r, "503") ELSE Location(r, LeaderAddr(at[r]))
    /\ UNCHANGED <<storeVars, raftVars>>

-----------------------------------------------------------------------------
(* Clients *)

\* Every live node knows the one leader.
Settled == \E l \in Node \ down : leads = {l} /\ \A n \in Node \ down : hint[n] = l

Send(r, n, m) ==
    /\ pc[r] = "idle" /\ n \notin down
    /\ msg' = [msg EXCEPT ![r] = m]
    /\ pc' = [pc EXCEPT ![r] = "arrived"]
    /\ at' = [at EXCEPT ![r] = n]
    /\ before' = [before EXCEPT ![r] =
           {w \in Req : pc[w] = "done" /\ status[w] = "ok" /\ msg[w].path = "execute"}]
    /\ calm' = [calm EXCEPT ![r] = Settled]
    /\ UNCHANGED <<hop, status, storeVars, raftVars>>

\* The client follows a redirect, unless it has followed too many.
Follow(r) ==
    /\ pc[r] = "redirected"
    /\ \/ hop[r] = MaxRedirects /\ Answered(r, "limit")
       \/ hop[r] < MaxRedirects /\ at[r] \in down /\ Answered(r, "none")
       \/ /\ hop[r] < MaxRedirects /\ at[r] \notin down
          /\ hop' = [hop EXCEPT ![r] = @ + 1]
          /\ pc' = [pc EXCEPT ![r] = "arrived"]
          /\ UNCHANGED <<msg, at, status, before, calm>>
    /\ UNCHANGED <<storeVars, raftVars>>

\* The client gives up, or its connection breaks; its call goes on.
Disconnect(r) ==
    /\ pc[r] \notin {"idle", "done"}
    /\ Answered(r, "none")
    /\ Lose({Call(x) : x \in {x \in {r} : pc[x] = "called"}})
    /\ UNCHANGED raftVars

-----------------------------------------------------------------------------
(* The store and raft, as far as handlers and clients see them *)

Settle ==
    \E o \in LoggedOp : TakeEffect(o) /\ UNCHANGED <<raftVars, reqVars>>

\* Leaders have changed, or what is known of them.
Unsettled == calm' = [r \in Req |-> FALSE]

\* A candidate, which has forgotten the last leader, wins an election.
Elect(n) ==
    /\ n \notin leads \cup down /\ hint[n] = NoNode
    /\ leads' = leads \cup {n}
    /\ hint' = [hint EXCEPT ![n] = n]
    /\ Unsettled /\ UNCHANGED <<down, msg, pc, at, hop, status, before, storeVars>>

\* raft sets its state before it clears the leader's address.
StepDown(n) ==
    /\ n \in leads
    /\ leads' = leads \ {n}
    /\ Unsettled /\ UNCHANGED <<hint, down, msg, pc, at, hop, status, before, storeVars>>

\* n hears of a leader, or has not heard of one for too long.
Learn(n, l) ==
    /\ n \notin leads \cup down /\ hint[n] # l
    /\ hint' = [hint EXCEPT ![n] = l]
    /\ Unsettled /\ UNCHANGED <<leads, down, msg, pc, at, hop, status, before, storeVars>>

\* A node dies, with its connections.
Crash(n) ==
    /\ n \notin down /\ Cardinality(down) < MaxDown
    /\ down' = down \cup {n}
    /\ leads' = leads \ {n}
    /\ hint' = [hint EXCEPT ![n] = NoNode]
    /\ LET R == {r \in Req : at[r] = n /\ pc[r] \in {"arrived", "called", "notleader"}} IN
          /\ pc' = [r \in Req |-> IF r \in R THEN "done" ELSE pc[r]]
          /\ at' = [r \in Req |-> IF r \in R THEN NoNode ELSE at[r]]
          /\ Lose({Call(r) : r \in {r \in R : pc[r] = "called"}})
    /\ Unsettled /\ UNCHANGED <<msg, hop, status, before>>

RaftStep ==
    \/ \E n \in Node : Elect(n) \/ StepDown(n) \/ Crash(n)
    \/ \E n \in Node, l \in leads \cup {NoNode} : Learn(n, l)

Handle(r) ==
    Serve(r) \/ ReturnResults(r) \/ ReturnNotLeader(r) \/ ReturnError(r) \/ Redirect(r)

Next ==
    \/ \E r \in Req, n \in Node : \E m \in Message[r] : Send(r, n, m)
    \/ \E r \in Req : Handle(r) \/ Follow(r) \/ Disconnect(r)
    \/ Settle
    \/ RaftStep

Spec == Init /\ [][Next]_vars

-----------------------------------------------------------------------------
(* Properties *)

Codes == {"none", "ok", "error", "400", "404", "405", "500", "503", "limit"}

\* A redirect always names a node, and no client goes past its limit.
TypeOK ==
    /\ leads \subseteq Node \ down /\ down \subseteq Node
    /\ hint \in [Node -> Node \cup {NoNode}]
    /\ msg \in [Req -> (UNION {Message[r] : r \in Req}) \cup {NoMessage}]
    /\ pc \in [Req -> {"idle", "arrived", "called", "notleader", "redirected", "done"}]
    /\ at \in [Req -> Node \cup {NoNode}]
    /\ \A r \in Req : pc[r] \notin {"idle", "done"} => at[r] \in Node
    /\ hop \in [Req -> Hop]
    /\ status \in [Req -> Codes]
    /\ before \in [Req -> SUBSET Req]
    /\ calm \in [Req -> BOOLEAN]
    /\ hist \in Seq([op : LoggedOp, db : DB])
    /\ st \in [Op -> {"idle", "pending", "acked", "refused", "lost"}]

Of(i) == hist[i].op[2]

\* A request is executed at most once, whatever redirects its client follows,
\* and although a call that lost its leader may be executed when the client
\* has long gone: the handlers of /execute and /query send a client on only
\* after a call of the store that never takes effect.
AtMostOnce ==
    \A i, j \in 1..Len(hist) : Of(i) = Of(j) => i = j

\* A client that gets one of these codes can send its request again.
Harmless == {"400", "404", "405", "503", "limit"}

\* What the status tells of the effect: after a 400, 404, 405, 503 or too
\* many redirects nothing of the request has been executed or ever will be,
\* and a write that is answered without an error has been executed.
StatusTellsEffect ==
    \A r \in Req : pc[r] = "done" =>
        /\ status[r] \in Harmless => \A i \in 1..Len(hist) : Of(i) # r
        /\ status[r] = "ok" /\ msg[r].path = "execute" => \E i \in 1..Len(hist) : Of(i) = r

\* A query with consistency=strong comes after every write that had been
\* answered when it was sent, at any node and through any redirects.
StrongSeesAcked ==
    \A r \in Req : pc[r] = "done" /\ status[r] = "ok" /\ msg[r].path = "query" /\ msg[r].strong =>
        \A w \in before[r] : \E j \in 1..Len(hist) : \E i \in 1..j - 1 :
            Of(i) = w /\ Of(j) = r

\* While all nodes know the one leader and it stays, one redirect is enough,
\* and no request is told that there is no leader.
OneRedirectIfCalm ==
    \A r \in Req : calm[r] => hop[r] <= 1 /\ status[r] \notin {"503", "limit"}

\* A well-formed POST to /execute is not a bad request, whichever node it is
\* sent to: a test posts statements to a follower and expects results.
WritesAnywhere ==
    \A r \in Req :
        /\ pc[r] = "done" /\ msg[r].path = "execute" /\ msg[r].method = "POST"
        /\ parseStatements(msg[r].body) # Error
        => status[r] # "400"

Fairness ==
    \A r \in Req : WF_vars(Handle(r) \/ Follow(r))

FairSpec == Spec /\ Fairness

\* Every request gets an answer: no handler waits for a leader, and redirects
\* between nodes that each take the other for the leader come to an end.  (A
\* request is sent once, so from some time on none is under way.)
RequestsAnswered ==
    <>[](\A r \in Req : pc[r] \in {"idle", "done"})
=============================================================================
