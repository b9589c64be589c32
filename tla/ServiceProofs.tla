--------------------------- MODULE ServiceProofs ----------------------------
(***************************************************************************)
(* The inductive invariant of Service, the proof that the handlers, the    *)
(* store and the clients keep it, and the safety theorems that follow.     *)
(***************************************************************************)
EXTENDS Service, TLAPS

\* What is known of a call from its request.  All calls but the one of the
\* last hop were refused or not made, and those of the hops to come are idle.
CallOK(o) ==
    /\ st[o] # "idle" => o[3] <= hop[o[2]] /\ o[1] = Kind(msg[o[2]])
    /\ o[3] < hop[o[2]] => st[o] \in {"idle", "refused"}
    /\ o[3] = hop[o[2]] /\ pc[o[2]] \in {"idle", "arrived"} => st[o] = "idle"
    /\ pc[o[2]] = "done" /\ status[o[2]] \in Harmless => st[o] \in {"idle", "refused"}
    /\ st[o] = "acked" /\ o \in LoggedOp => Executed(o)
    /\ Executed(o) => st[o] \in {"pending", "acked", "lost"}

CallsOK == \A o \in Op : CallOK(o)

\* The messages whose calls go through the log.
Logged(m) == m.path = "execute" \/ (m.path = "query" /\ m.strong)

\* What is known of the call of the last hop from the stage of its request.
StageOK(r) ==
    /\ pc[r] = "idle" => hop[r] = 0
    /\ pc[r] # "done" => status[r] = "none"
    /\ pc[r] = "called" => st[Call(r)] = "pending"
    /\ pc[r] \in {"notleader", "redirected"} => st[Call(r)] = "refused"
    /\ pc[r] = "done" /\ status[r] = "ok" /\ Logged(msg[r]) => st[Call(r)] = "acked"

StagesOK == \A r \in Req : StageOK(r)

\* No call is in the history twice.
HistoryOK == \A i, j \in 1..Len(hist) : hist[i].op = hist[j].op => i = j

\* Writes answered before request r come before it.
OrderFor(r) ==
    \A w \in before[r] : \E i \in 1..Len(hist) :
        Of(i) = w /\ \A j \in 1..Len(hist) : Of(j) = r => i < j

OrderOK == \A r \in Req : OrderFor(r)

\* Where a request is while leaders are known and stay.
CalmOK(r) ==
    /\ pc[r] \in {"arrived", "called", "notleader"} => at[r] \notin down
    /\ calm[r] =>
          /\ Settled
          /\ hop[r] <= 1 /\ status[r] \notin {"503", "limit"}
          /\ hop[r] = 1 /\ pc[r] # "done" => at[r] \in leads
          /\ pc[r] = "redirected" => hop[r] = 0 /\ at[r] \in leads
          /\ pc[r] = "notleader" => at[r] \notin leads

CalmsOK == \A r \in Req : CalmOK(r)

IInv == TypeOK /\ CallsOK /\ StagesOK /\ HistoryOK /\ OrderOK /\ CalmsOK

-----------------------------------------------------------------------------
(* Calls *)

Kinds == {"exec", "strong", "weak"}

\* A call is its kind, its request and its hop.
LEMMA CallParts ==
    /\ \A o \in Op : o[1] \in Kinds /\ o[2] \in Req /\ o[3] \in Hop
    /\ \A o, p \in Op : o[1] = p[1] /\ o[2] = p[2] /\ o[3] = p[3] => o = p
    /\ \A k \in Kinds, r \in Req, h \in Hop : <<k, r, h>> \in Op
    /\ \A k \in {"exec", "strong"}, r \in Req, h \in Hop : <<k, r, h>> \in LoggedOp
    /\ \A r \in Req, h \in Hop : <<"weak", r, h>> \in WeakOp /\ <<"weak", r, h>> \notin LoggedOp
  BY CallAssumption, OpAssumption DEF Op, LoggedOp, Kinds

\* The handlers know three kinds of call.
LEMMA KindType ==
    \A m : Kind(m) \in Kinds
  BY Zenon DEF Kind, Kinds

\* The call that a request makes at its hop.
LEMMA CallOf ==
    ASSUME NEW r \in Req, hop \in [Req -> Hop]
    PROVE  /\ Call(r) \in Op
           /\ Call(r)[1] = Kind(msg[r]) /\ Call(r)[2] = r /\ Call(r)[3] = hop[r]
  BY KindType, CallParts, Zenon DEF Call

\* An element of a sequence.
LEMMA EntryIn ==
    ASSUME NEW E, NEW h \in Seq(E), NEW i \in 1..Len(h)
    PROVE  h[i] \in E
  OBVIOUS

\* The history holds calls that go through the log.
LEMMA HistoryOp ==
    ASSUME TypeOK, NEW i \in 1..Len(hist)
    PROVE  hist[i].op \in LoggedOp /\ hist[i].op \in Op /\ Executed(hist[i].op)
<1>1. hist \in Seq([op : LoggedOp, db : DB])
  BY Zenon DEF TypeOK
<1>2. hist[i] \in [op : LoggedOp, db : DB]
  BY <1>1, EntryIn, Zenon
<1> QED
  BY <1>2, Zenon DEF Op, Executed

\* TakeEffect adds one entry at the end of the history.
LEMMA EffectOf ==
    ASSUME NEW o \in LoggedOp, TypeOK, TakeEffect(o)
    PROVE  /\ hist' \in Seq([op : LoggedOp, db : DB])
           /\ Len(hist) \in Nat /\ Len(hist') = Len(hist) + 1
           /\ \A i \in 1..Len(hist) : hist'[i] = hist[i]
           /\ hist'[Len(hist) + 1].op = o
<1>1. hist \in Seq([op : LoggedOp, db : DB])
  BY Zenon DEF TypeOK
<1>2. Len(hist) \in Nat
  BY <1>1
<1>3. DBAt(hist, Len(hist)) \in DB
  <2>1. CASE Len(hist) = 0
    BY <2>1, EngineAssumption, Zenon DEF DBAt
  <2>2. CASE Len(hist) # 0
    <3>1. Len(hist) \in 1..Len(hist)
      BY <2>2, <1>2
    <3>2. hist[Len(hist)] \in [op : LoggedOp, db : DB]
      BY <3>1, <1>1, EntryIn, Zenon
    <3> QED
      BY <2>2, <3>2, Zenon DEF DBAt
  <2> QED
    BY <2>1, <2>2, Zenon
<1> QED
  BY <1>1, <1>2, <1>3, EngineAssumption, OpAssumption DEF TakeEffect, Entry, After, LoggedOp

\* What is said of the history stays true while it does not change.
LEMMA SameHistory ==
    ASSUME hist' = hist
    PROVE  /\ HistoryOK' <=> HistoryOK
           /\ \A o : Executed(o)' <=> Executed(o)
           /\ before' = before => (OrderOK' <=> OrderOK) /\ \A r : OrderFor(r)' <=> OrderFor(r)
  BY DEF HistoryOK, Executed, OrderFor, Of, OrderOK

-----------------------------------------------------------------------------
(* Steps of one request *)

\* A step that concerns request r only.
Local(r) ==
    /\ UNCHANGED <<hist, leads, hint, down>>
    /\ \A x \in Req \ {r} :
          /\ msg'[x] = msg[x] /\ pc'[x] = pc[x] /\ at'[x] = at[x] /\ hop'[x] = hop[x]
          /\ status'[x] = status[x] /\ before'[x] = before[x] /\ calm'[x] = calm[x]
    /\ \A o \in Op : o[2] # r => st'[o] = st[o]

\* A step of r keeps the invariant if it keeps what the invariant says of r.
LEMMA LocalStep ==
    ASSUME IInv, NEW r \in Req, Local(r), TypeOK',
           \A o \in Op : o[2] = r => CallOK(o)',
           StageOK(r)', CalmOK(r)', OrderFor(r)'
    PROVE  IInv'
<1>2. StagesOK'
  <2>1. SUFFICES ASSUME NEW x \in Req, x # r PROVE StageOK(x)'
    BY Zenon DEF StagesOK
  <2> QED
    BY <2>1, CallOf DEF Local, StageOK, IInv, StagesOK, Call, TypeOK
<1>4. OrderOK'
  BY DEF IInv, OrderOK, OrderFor, Local, Of
<1>5. CalmsOK'
  BY DEF IInv, CalmsOK, CalmOK, Local, Settled
<1> QED
  BY <1>2, <1>4, <1>5, CallParts DEF IInv, CallsOK, Local, CallOK, Executed, HistoryOK

\* What the invariant says of request r and its calls.
LEMMA AtReq ==
    ASSUME IInv, NEW r \in Req
    PROVE  /\ TypeOK /\ StageOK(r) /\ CalmOK(r) /\ OrderFor(r)
           /\ \A o \in Op : CallOK(o)
           /\ Call(r) \in Op /\ Call(r)[1] = Kind(msg[r]) /\ Call(r)[2] = r /\ Call(r)[3] = hop[r]
  BY CallOf, Zenon DEF IInv, StagesOK, CalmsOK, CallsOK, OrderOK, OrderFor, TypeOK

\* All calls of r but the one of its hop are idle or refused.
LEMMA OtherCalls ==
    ASSUME IInv, NEW o \in Op, o # Call(o[2])
    PROVE  st[o] \in {"idle", "refused"} /\ ~Executed(o)
<1> DEFINE c == Call(o[2])
<1>1. /\ o[2] \in Req /\ o[3] \in Hop /\ hop[o[2]] \in Hop
      /\ c \in Op /\ c[1] = Kind(msg[o[2]]) /\ c[2] = o[2] /\ c[3] = hop[o[2]]
  BY CallParts, CallOf, Zenon DEF IInv, TypeOK
<1>4. CallOK(o)
  BY Zenon DEF IInv, CallsOK
<1> QED
  BY <1>4, <1>1, CallParts DEF CallOK, Hop

\* The codes that an answer has.
LEMMA AnswerTypes ==
    ASSUME TypeOK, NEW r \in Req, NEW code \in Codes, Answered(r, code), UNCHANGED raftVars,
           hist' = hist, st' \in [Op -> {"idle", "pending", "acked", "refused", "lost"}]
    PROVE  TypeOK'
  BY Zenon DEF TypeOK, Answered, raftVars

\* A final answer to r, after a step of the store that concerns its call only.
LEMMA AnswerStep ==
    ASSUME IInv, NEW r \in Req, NEW code \in Codes, Answered(r, code), UNCHANGED raftVars,
           hist' = hist, pc[r] # "idle", pc[r] # "done",
           st' \in [Op -> {"idle", "pending", "acked", "refused", "lost"}],
           \A o \in Op : o # Call(r) => st'[o] = st[o],
           code \in Harmless => st' = st /\ pc[r] # "called",
           code = "ok" /\ Logged(msg[r]) => st'[Call(r)] = "acked",
           st'[Call(r)] = "acked" /\ Call(r) \in LoggedOp => Executed(Call(r)),
           st'[Call(r)] # st[Call(r)] => pc[r] = "called",
           Executed(Call(r)) => st'[Call(r)] \in {"pending", "acked", "lost"},
           calm[r] => code \notin {"503", "limit"}
    PROVE  IInv'
<1>2. /\ pc'[r] = "done" /\ status'[r] = code
      /\ UNCHANGED <<msg, hop, before, calm, leads, hint, down>>
      /\ Settled' = Settled
  BY Zenon DEF Answered, raftVars, IInv, TypeOK, Settled
<1>3. Local(r)
  BY CallOf DEF Local, Answered, raftVars, IInv, TypeOK
<1>4. StageOK(r)'
  BY <1>2, Zenon DEF StageOK, Call
<1>5. CalmOK(r)'
  BY AtReq, <1>2, Zenon DEF CalmOK
<1>6. OrderFor(r)'
  BY <1>2, AtReq, SameHistory, Zenon
<1>7. ASSUME NEW o \in Op, o[2] = r PROVE CallOK(o)'
  <2>1. CallOK(o) /\ StageOK(r) /\ (Executed(o)' <=> Executed(o))
    BY AtReq, SameHistory, Zenon
  <2>2. CASE o = Call(r)
    <3>1. code \in Harmless => st[o] \in {"idle", "refused"}
      <4>2. Call(r)[3] = hop[r]
        BY AtReq, Zenon
      <4> QED
        BY <1>7, <2>1, <2>2, <4>2, Zenon DEF CallOK, StageOK, IInv, TypeOK
    <3>2. ~(o[3] < hop[r])
      BY <2>2, AtReq DEF TypeOK, Hop
    <3>3. st'[o] # "idle" => o[3] <= hop[r] /\ o[1] = Kind(msg[r])
      BY <2>2, AtReq DEF TypeOK, Hop
    <3> QED
      BY <1>2, <1>7, <2>1, <3>1, <3>2, <3>3, Zenon DEF CallOK
  <2>3. CASE o # Call(r)
    BY <1>7, <2>3, OtherCalls, <1>2, <2>1, Zenon DEF CallOK
  <2> QED
    BY <2>2, <2>3, Zenon
<1> QED
  BY <1>3, <1>4, <1>5, <1>6, <1>7, LocalStep, AnswerTypes, Zenon DEF IInv

-----------------------------------------------------------------------------
(* Handlers *)

\* The refusals of the handlers leave the store alone.
LEMMA RefusalCodes ==
    \A m : Refusal(m) \in {"none", "400", "404", "405"}
<1> TAKE m
<1>1. CASE m.path = "execute"
  BY <1>1, Zenon DEF Refusal, execRefusal
<1>2. CASE m.path = "query"
  BY <1>2, Zenon DEF Refusal, queryRefusal
<1>3. CASE m.path = "metric"
  BY <1>3, Zenon DEF Refusal
<1>4. CASE m.path # "execute" /\ m.path # "query" /\ m.path # "metric"
  BY <1>4, Zenon DEF Refusal
<1> QED
  BY <1>1, <1>2, <1>3, <1>4, Zenon

\* A step of the handler that moves r to another stage and leaves it where it
\* is.
LEMMA MoveStep ==
    ASSUME IInv, NEW r \in Req, NEW p \in {"called", "notleader"},
           pc' = [pc EXCEPT ![r] = p],
           UNCHANGED <<msg, at, hop, status, before, calm, raftVars, hist>>,
           st' = [st EXCEPT ![Call(r)] = IF p = "called" THEN "pending" ELSE "refused"],
           ~Executed(Call(r)),
           pc[r] \in {"arrived", "called"},
           p = "notleader" => at[r] \notin leads
    PROVE  IInv'
<1>1. TypeOK'
  BY Zenon DEF IInv, TypeOK, raftVars
<1>2. Local(r)
  BY CallOf DEF Local, raftVars, IInv, TypeOK
<1>3. StageOK(r)'
  BY AtReq DEF TypeOK, Call, StageOK
<1>4. CalmOK(r)'
  <2>2. pc'[r] = p /\ CalmOK(r)
    BY AtReq, Zenon DEF TypeOK
  <2> QED
    BY <2>2, Zenon DEF CalmOK, raftVars, Settled
<1>5. OrderFor(r)'
  BY AtReq, SameHistory, Zenon
<1>6. ASSUME NEW o \in Op, o[2] = r PROVE CallOK(o)'
  <2>1. CallOK(o) /\ (Executed(o)' <=> Executed(o)) /\ pc'[r] = p /\ UNCHANGED <<hop, msg, status>>
    BY AtReq, SameHistory, Zenon DEF TypeOK
  <2>2. CASE o = Call(r)
    <3>1. o[3] = hop[r] /\ o[1] = Kind(msg[r]) /\ st'[o] \in {"pending", "refused"}
      BY <2>2, AtReq, Zenon DEF TypeOK
    <3> QED
      BY <1>6, <2>1, <3>1 DEF CallOK, IInv, TypeOK, Hop
  <2>3. CASE o # Call(r)
    BY <1>6, <2>3, <2>1 DEF CallOK
  <2> QED
    BY <2>2, <2>3, Zenon
<1> QED
  BY <1>1, <1>2, <1>3, <1>4, <1>5, <1>6, LocalStep, Zenon

\* A handler refuses a message, serves /metric, or calls the store.
LEMMA ServeStep ==
    ASSUME IInv, NEW r \in Req, Serve(r)
    PROVE  IInv'
<1> DEFINE m == Arriving(r)
<1>1. pc[r] = "arrived" /\ UNCHANGED raftVars
  BY Zenon DEF Serve
<1>2. /\ Call(r) \in Op /\ st[Call(r)] = "idle" /\ ~Executed(Call(r))
      /\ st \in [Op -> {"idle", "pending", "acked", "refused", "lost"}]
  BY <1>1, AtReq, Zenon DEF CallOK, TypeOK
<1>4. CASE Refusal(m) # "none" /\ Answered(r, Refusal(m)) /\ UNCHANGED storeVars
  BY <1>4, RefusalCodes, <1>1, <1>2, AnswerStep, Zenon DEF Codes, storeVars
<1>5. CASE metricHandler(r)
  BY <1>5, <1>1, <1>2, AnswerStep, Zenon DEF metricHandler, Logged, Codes, Harmless, storeVars
<1>6. CASE CallStore(r)
  BY <1>1, <1>2, <1>6, MoveStep, Zenon DEF CallStore, Invoke
<1> QED
  BY <1>4, <1>5, <1>6, Zenon DEF Serve

\* The store answers with results.
LEMMA ReturnResultsStep ==
    ASSUME IInv, NEW r \in Req, ReturnResults(r)
    PROVE  IInv'
<1> DEFINE c == Call(r)
<1>1. pc[r] = "called" /\ UNCHANGED raftVars /\ c \in Op
  BY AtReq, Zenon DEF ReturnResults
<1>2. /\ st' = [st EXCEPT ![c] = "acked"] /\ hist' = hist
      /\ c \in LoggedOp => Executed(c)
  BY <1>1, OpAssumption, Zenon DEF ReturnResults, ReadWeakly, Acknowledge, Executed
<1>3. PICK code \in {"ok", "500"} : Answered(r, code)
  BY Zenon DEF ReturnResults, ResponseCodes
<1>4. code \in Codes /\ code \notin Harmless /\ code \notin {"503", "limit"}
  BY Zenon DEF Codes, Harmless
<1> HIDE DEF c
<1>6. /\ st' \in [Op -> {"idle", "pending", "acked", "refused", "lost"}]
      /\ st'[c] = "acked" /\ \A o \in Op : o # c => st'[o] = st[o]
  BY <1>1, <1>2, Zenon DEF IInv, TypeOK
<1> QED
  BY <1>1, <1>2, <1>3, <1>4, <1>6, AnswerStep, Zenon DEF c

\* The store refuses the call: not the leader.
LEMMA ReturnNotLeaderStep ==
    ASSUME IInv, NEW r \in Req, ReturnNotLeader(r)
    PROVE  IInv'
  BY MoveStep, Zenon DEF ReturnNotLeader, Refuse

\* The store fails, and has executed the call or not.
LEMMA ReturnErrorStep ==
    ASSUME IInv, NEW r \in Req, ReturnError(r)
    PROVE  IInv'
<1> DEFINE c == Call(r)
<1>1. pc[r] = "called" /\ UNCHANGED raftVars /\ c \in Op /\ hist' = hist /\ Answered(r, "error")
  BY AtReq, Zenon DEF ReturnError, Refuse, Lose
<1>3. /\ st' \in [Op -> {"idle", "pending", "acked", "refused", "lost"}]
      /\ st'[c] \in {"refused", "lost"} /\ \A o \in Op : o # c => st'[o] = st[o]
      /\ Executed(c) => st'[c] = "lost"
  BY <1>1 DEF ReturnError, Refuse, Lose, IInv, TypeOK
<1>4. "error" \in Codes /\ "error" \notin Harmless
  BY Zenon DEF Codes, Harmless
<1> HIDE DEF c
<1> QED
  BY <1>1, <1>3, <1>4, AnswerStep, Zenon DEF c

\* The handler asks for the leader's address and redirects, or answers 503.
LEMMA RedirectStep ==
    ASSUME IInv, NEW r \in Req, Redirect(r)
    PROVE  IInv'
<1>1. pc[r] = "notleader" /\ UNCHANGED raftVars /\ hist' = hist /\ st' = st
  BY Zenon DEF Redirect, storeVars
<1>2. /\ Call(r) \in Op /\ st[Call(r)] = "refused" /\ ~Executed(Call(r))
      /\ st \in [Op -> {"idle", "pending", "acked", "refused", "lost"}]
  BY <1>1, AtReq, Zenon DEF CallOK, StageOK, TypeOK
<1>4. calm[r] => hint[at[r]] \in leads /\ at[r] \notin leads
  BY <1>1, AtReq, ZenonT(60) DEF CalmOK, Settled, TypeOK
<1>5. CASE hint[at[r]] = NoNode /\ Answered(r, "503")
  <2>1. ~calm[r]
    BY <1>4, <1>5, CallAssumption, Zenon DEF IInv, TypeOK
  <2>2. "503" \in Codes
    BY Zenon DEF Codes
  <2> QED
    BY <1>1, <1>2, <1>5, <2>1, <2>2, AnswerStep, Zenon
<1>6. CASE hint[at[r]] # NoNode /\ Location(r, hint[at[r]])
  <2>2. TypeOK'
    BY <1>1, <1>6, Zenon DEF IInv, TypeOK, Location, raftVars
  <2>3. Local(r)
    BY <1>1, <1>6 DEF Local, Location, raftVars
  <2>4. StageOK(r)'
    <3>1. pc'[r] = "redirected" /\ UNCHANGED <<msg, hop, status>> /\ Call(r)' = Call(r)
      BY <1>6, Zenon DEF Location, IInv, TypeOK, Call
    <3> QED
      BY <1>1, <3>1, AtReq DEF StageOK
  <2>5. CalmOK(r)'
    <3>2. pc'[r] = "redirected" /\ at'[r] = hint[at[r]] /\ CalmOK(r)
      BY <1>6, AtReq DEF Location, TypeOK
    <3>3. calm[r] => hop[r] = 0
      BY <1>1, <3>2 DEF CalmOK, IInv, TypeOK, Hop
    <3> QED
      BY <1>4, <3>2, <3>3, <1>1, <1>6 DEF CalmOK, raftVars, Settled, Location
  <2>6. OrderFor(r)'
    BY <1>1, <1>6, AtReq, SameHistory, Zenon DEF Location
  <2>7. ASSUME NEW o \in Op, o[2] = r PROVE CallOK(o)'
    <3>2. pc'[r] = "redirected" /\ UNCHANGED <<msg, hop, status>>
      BY <1>6, Zenon DEF Location, IInv, TypeOK
    <3> QED
      BY <1>1, <2>7, <3>2, AtReq, SameHistory, Zenon DEF CallOK
  <2> QED
    BY <2>2, <2>3, <2>4, <2>5, <2>6, <2>7, LocalStep, Zenon
<1> QED
  BY <1>5, <1>6, Zenon DEF Redirect, LeaderAddr

-----------------------------------------------------------------------------
(* Clients *)

\* A client sends a request.
LEMMA SendStep ==
    ASSUME IInv, NEW r \in Req, NEW n \in Node, NEW m \in Message[r], Send(r, n, m)
    PROVE  IInv'
<1>1. /\ pc[r] = "idle" /\ n \notin down
      /\ UNCHANGED <<hop, status, hist, st, leads, hint, down>>
      /\ hop[r] = 0 /\ status[r] = "none"
  BY AtReq, Zenon DEF Send, storeVars, raftVars, StageOK
<1>2. TypeOK'
  BY <1>1 DEF Settled, IInv, TypeOK, Send
<1>3. /\ pc'[r] = "arrived" /\ at'[r] = n /\ calm'[r] = Settled /\ Settled' = Settled
  BY <1>1, Zenon DEF Send, IInv, TypeOK, Settled
<1>4. Local(r)
  BY <1>1 DEF Local, Send
<1>5. StageOK(r)'
  BY <1>1, <1>3, Zenon DEF StageOK
<1>6. CalmOK(r)'
  BY <1>1, <1>3 DEF CalmOK
<1>7. ASSUME NEW o \in Op, o[2] = r PROVE CallOK(o)' /\ ~Executed(o)
  BY CallParts, <1>1, <1>7 DEF IInv, CallsOK, Hop, CallOK, Executed
<1>8. OrderFor(r)'
  <2>1. SUFFICES ASSUME NEW w \in before'[r]
                 PROVE  \E i \in 1..Len(hist) :
                            Of(i) = w /\ \A j \in 1..Len(hist) : Of(j) = r => i < j
    BY <1>1 DEF OrderFor, Of
  <2>2. w \in Req /\ pc[w] = "done" /\ status[w] = "ok" /\ msg[w].path = "execute"
    BY Zenon DEF Send, IInv, TypeOK
  <2>3. st[Call(w)] = "acked" /\ Call(w) \in Op /\ Call(w)[2] = w
    BY <2>2, AtReq, Zenon DEF StageOK, Logged
  <2>4. Call(w) \in LoggedOp
    BY <2>2, CallParts, Zenon DEF Call, Kind, IInv, TypeOK
  <2>6. ASSUME NEW j \in 1..Len(hist) PROVE Of(j) # r
    BY <1>7, HistoryOp, Zenon DEF IInv, Of
  <2> QED
    BY <2>3, <2>6, <2>4, Zenon DEF Executed, Of, IInv, CallsOK, CallOK
<1> QED
  BY <1>2, <1>4, <1>5, <1>6, <1>7, <1>8, LocalStep, Zenon

\* A client follows a redirect, or does not.
LEMMA FollowStep ==
    ASSUME IInv, NEW r \in Req, Follow(r)
    PROVE  IInv'
<1>1. pc[r] = "redirected" /\ UNCHANGED raftVars /\ hist' = hist /\ st' = st
  BY Zenon DEF Follow, storeVars
<1>2. /\ Call(r) \in Op /\ st[Call(r)] = "refused" /\ ~Executed(Call(r))
      /\ st \in [Op -> {"idle", "pending", "acked", "refused", "lost"}]
  BY <1>1, AtReq, Zenon DEF CallOK, StageOK, TypeOK
<1>3. CASE hop[r] = MaxRedirects /\ Answered(r, "limit")
  <2>2. "limit" \in Codes
    BY Zenon DEF Codes
  <2> QED
    BY <1>1, <1>2, <1>3, <2>2, AnswerStep, AtReq, CallAssumption, Zenon DEF CalmOK
<1>4. CASE Answered(r, "none")
  <2>1. "none" \in Codes /\ "none" \notin Harmless
    BY Zenon DEF Codes, Harmless
  <2> QED
    BY <1>1, <1>2, <1>4, <2>1, AnswerStep, Zenon
<1>5. CASE /\ hop[r] < MaxRedirects /\ at[r] \notin down
           /\ hop' = [hop EXCEPT ![r] = @ + 1]
           /\ pc' = [pc EXCEPT ![r] = "arrived"]
           /\ UNCHANGED <<msg, at, status, before, calm>>
  <2>1. hop[r] \in Nat /\ hop[r] + 1 \in Hop /\ hop'[r] = hop[r] + 1 /\ pc'[r] = "arrived"
    BY <1>5, CallAssumption DEF IInv, TypeOK, Hop
  <2>2. TypeOK'
    BY <1>1, <1>5, <2>1, Zenon DEF IInv, TypeOK, raftVars
  <2>3. Local(r)
    BY <1>1, <1>5 DEF Local, raftVars
  <2>4. StageOK(r)'
    BY <1>1, <1>5, <2>1, AtReq, Zenon DEF StageOK
  <2>5. CalmOK(r)'
    BY <1>1, <1>5, AtReq, <2>1 DEF raftVars, Settled, CalmOK
  <2>6. OrderFor(r)'
    BY <1>1, <1>5, AtReq, SameHistory, Zenon
  <2>7. ASSUME NEW o \in Op, o[2] = r PROVE CallOK(o)'
    <3>1. CallOK(o) /\ o[3] \in Nat /\ st[o] \in {"idle", "refused"} /\ ~Executed(o)
      BY <1>2, <2>7, OtherCalls, CallParts DEF IInv, CallsOK, Hop
    <3>2. st[o] # "idle" => o[3] <= hop[r] /\ o[1] = Kind(msg[r])
      BY <2>7, <3>1, Zenon DEF CallOK
    <3>3. ~Executed(o)' /\ st'[o] = st[o] /\ msg' = msg
      BY <1>1, <1>5, <3>1, Zenon DEF Executed
    <3> QED
      BY <2>7, <3>1, <3>3, <2>1 DEF CallOK
  <2> QED
    BY <2>2, <2>3, <2>4, <2>5, <2>6, <2>7, LocalStep, Zenon
<1> QED
  BY <1>3, <1>4, <1>5, Zenon DEF Follow

\* A client gives up.
LEMMA DisconnectStep ==
    ASSUME IInv, NEW r \in Req, Disconnect(r)
    PROVE  IInv'
<1> DEFINE c == Call(r)
<1>1. /\ pc[r] # "idle" /\ pc[r] # "done" /\ Answered(r, "none")
      /\ hist' = hist /\ UNCHANGED raftVars
      /\ c \in Op /\ st \in [Op -> {"idle", "pending", "acked", "refused", "lost"}]
      /\ CallOK(c) /\ StageOK(r)
  BY AtReq, Zenon DEF Disconnect, Lose, TypeOK
<1>2. st' = [o \in Op |-> IF o = c /\ pc[r] = "called" THEN "lost" ELSE st[o]]
  BY Zenon DEF Disconnect, Lose
<1>3. "none" \in Codes /\ "none" \notin Harmless
  BY Zenon DEF Codes, Harmless
<1> HIDE DEF c
<1>4. /\ st' \in [Op -> {"idle", "pending", "acked", "refused", "lost"}]
      /\ \A o \in Op : o # c => st'[o] = st[o]
      /\ st'[c] = IF pc[r] = "called" THEN "lost" ELSE st[c]
  BY <1>1, <1>2, Zenon
<1> QED
  BY <1>1, <1>3, <1>4, AnswerStep, Zenon DEF c, CallOK

-----------------------------------------------------------------------------
(* The store and raft *)

\* A call takes effect.
LEMMA SettleStep ==
    ASSUME IInv, NEW o \in LoggedOp, TakeEffect(o), UNCHANGED <<raftVars, reqVars>>
    PROVE  IInv'
<1>1. /\ hist' \in Seq([op : LoggedOp, db : DB])
      /\ Len(hist) \in Nat /\ Len(hist') = Len(hist) + 1
      /\ \A i \in 1..Len(hist) : hist'[i] = hist[i]
      /\ hist'[Len(hist) + 1].op = o
  BY EffectOf, Zenon DEF IInv
<1>2. /\ st' = st /\ st[o] \in {"pending", "lost"} /\ ~Executed(o) /\ o \in Op
      /\ UNCHANGED <<leads, hint, down, msg, pc, at, hop, status, before, calm>>
  BY Zenon DEF TakeEffect, Op, raftVars, reqVars
<1>3. TypeOK'
  BY <1>1, <1>2, Zenon DEF IInv, TypeOK
<1>4. \A p \in Op : Executed(p)' <=> Executed(p) \/ p = o
  BY <1>1 DEF Executed
<1>7. HistoryOK'
  BY <1>1, <1>2 DEF HistoryOK, IInv, Executed
<1>8. OrderOK'
  <2>1. SUFFICES ASSUME NEW r \in Req, NEW w \in before[r]
                 PROVE  \E i \in 1..Len(hist') : Of(i)' = w
                            /\ \A j \in 1..Len(hist') : Of(j)' = r => i < j
    BY <1>2, Zenon DEF OrderOK, OrderFor
  <2>2. PICK i \in 1..Len(hist) : Of(i) = w /\ \A j \in 1..Len(hist) : Of(j) = r => i < j
    BY Zenon DEF IInv, OrderOK, OrderFor
  <2>4. ASSUME NEW j \in 1..Len(hist'), Of(j)' = r PROVE i < j
    BY <1>1, <2>2, <2>4 DEF Of
  <2> QED
    BY <2>4, <1>1, <2>2 DEF Of
<1>9. CalmsOK'
  BY <1>2, Zenon DEF IInv, CalmsOK, CalmOK, Settled
<1> QED
  BY <1>3, <1>7, <1>8, <1>9, <1>2, <1>4, Zenon DEF IInv, CallsOK, CallOK, StagesOK, StageOK, Call

\* A change of the leaders, or of what a node knows of them, ends all calm.
LEMMA UnsettledStep ==
    ASSUME IInv, Unsettled, UNCHANGED <<down, msg, pc, at, hop, status, before, storeVars>>,
           leads' \subseteq Node \ down, hint' \in [Node -> Node \cup {NoNode}]
    PROVE  IInv'
<1>1. /\ \A r \in Req : calm'[r] = FALSE
      /\ calm' \in [Req -> BOOLEAN]
      /\ UNCHANGED <<hist, st>>
  BY Zenon DEF Unsettled, storeVars
<1>3. CallsOK' /\ HistoryOK' /\ OrderOK'
  BY <1>1, SameHistory, Zenon DEF IInv, CallsOK, CallOK
<1>5. CalmsOK'
  BY <1>1, Zenon DEF IInv, CalmsOK, CalmOK
<1> QED
  BY <1>3, <1>5, <1>1, Zenon DEF IInv, TypeOK, StagesOK, StageOK, Call

\* A node dies.  The calls of its handlers are lost.
LEMMA CrashStep ==
    ASSUME IInv, NEW n \in Node, Crash(n)
    PROVE  IInv'
<1> DEFINE R == {r \in Req : at[r] = n /\ pc[r] \in {"arrived", "called", "notleader"}}
           C == {Call(r) : r \in {r \in R : pc[r] = "called"}}
<1>1. /\ pc' = [r \in Req |-> IF r \in R THEN "done" ELSE pc[r]]
      /\ at' = [r \in Req |-> IF r \in R THEN NoNode ELSE at[r]]
      /\ st' = [o \in Op |-> IF o \in C THEN "lost" ELSE st[o]]
      /\ down' = down \cup {n} /\ leads' = leads \ {n} /\ hint' = [hint EXCEPT ![n] = NoNode]
      /\ calm' = [r \in Req |-> FALSE]
      /\ UNCHANGED <<hist, msg, hop, status, before>>
  BY Zenon DEF Crash, Lose, Unsettled
<1>2. \A o \in C : o \in Op /\ o[2] \in R /\ pc[o[2]] = "called" /\ o = Call(o[2]) /\ st[o] = "pending"
  BY AtReq DEF StageOK
<1> HIDE DEF C
<1>4. \A r \in Req : Call(r)' = Call(r) /\ Call(r) \in Op /\ Call(r)[2] = r
  BY <1>1, AtReq, Zenon DEF Call
<1>5. TypeOK'
  BY <1>1, Zenon DEF IInv, TypeOK
<1>6. CallsOK'
  <2>1. SUFFICES ASSUME NEW o \in Op PROVE CallOK(o)'
    BY Zenon DEF CallsOK
  <2>2. CallOK(o) /\ o[2] \in Req /\ StageOK(o[2]) /\ (Executed(o)' <=> Executed(o))
    BY <1>1, CallParts, Zenon DEF IInv, CallsOK, StagesOK, Executed
  <2>3. CASE o \in C
    BY <1>1, <1>2, <2>2, <2>3, Zenon DEF StageOK, CallOK, Harmless
  <2>4. CASE o \notin C
    BY <1>1, <2>2, <2>4, Zenon DEF StageOK, CallOK, Harmless
  <2> QED
    BY <2>3, <2>4, Zenon
<1>7. StagesOK'
  BY <1>1, <1>2, <1>4 DEF StagesOK, IInv, StageOK
<1> QED
  BY <1>5, <1>6, <1>7, <1>1, SameHistory, Zenon DEF IInv, CalmsOK, CalmOK

\* Elections, step-downs and what nodes learn of them.
LEMMA RaftStepKeeps ==
    ASSUME IInv, RaftStep
    PROVE  IInv'
<1>1. TypeOK
  BY Zenon DEF IInv
<1>2. ASSUME NEW n \in Node, Elect(n) PROVE IInv'
  BY <1>1, <1>2, UnsettledStep, Zenon DEF Elect, TypeOK
<1>3. ASSUME NEW n \in Node, StepDown(n) PROVE IInv'
  BY <1>1, <1>3, UnsettledStep, Zenon DEF StepDown, TypeOK
<1>4. ASSUME NEW n \in Node, NEW l \in leads \cup {NoNode}, Learn(n, l) PROVE IInv'
  BY <1>1, <1>4, UnsettledStep, Zenon DEF Learn, TypeOK
<1> QED
  BY <1>2, <1>3, <1>4, CrashStep, Zenon DEF RaftStep

-----------------------------------------------------------------------------
(* The invariant *)

\* No request has been sent, and no call made.
LEMMA InitHolds ==
    ASSUME Init
    PROVE  IInv
<1>1. /\ hist = <<>> /\ Len(hist) = 0 /\ hist \in Seq([op : LoggedOp, db : DB])
      /\ st = [o \in Op |-> "idle"]
  BY DEF Init, StoreInit
<1>2. TypeOK
  BY CallAssumption, <1>1 DEF Hop, Init, Codes, TypeOK
<1>3. CallsOK
  BY <1>1 DEF CallsOK, Executed, CallOK
<1>6. OrderOK
  BY Zenon DEF Init, OrderOK, OrderFor
<1>7. CalmsOK
  BY Zenon DEF Init, CalmsOK, CalmOK
<1> QED
  BY <1>2, <1>3, <1>6, <1>7, <1>1 DEF IInv, Init, StagesOK, StageOK, HistoryOK

\* Every step keeps the invariant.
LEMMA NextKeeps ==
    ASSUME IInv, [Next]_vars
    PROVE  IInv'
<1>1. ASSUME NEW r \in Req, NEW n \in Node, NEW m \in Message[r], Send(r, n, m) PROVE IInv'
  BY <1>1, SendStep, Zenon
<1>2. ASSUME NEW r \in Req, Handle(r) PROVE IInv'
  BY <1>2, ServeStep, ReturnResultsStep, ReturnNotLeaderStep, ReturnErrorStep, RedirectStep, Zenon DEF Handle
<1>3. ASSUME NEW r \in Req, Follow(r) PROVE IInv'
  BY <1>3, FollowStep, Zenon
<1>4. ASSUME NEW r \in Req, Disconnect(r) PROVE IInv'
  BY <1>4, DisconnectStep, Zenon
<1>5. CASE Settle
  BY <1>5, SettleStep, Zenon DEF Settle
<1>6. CASE RaftStep
  BY <1>6, RaftStepKeeps, Zenon
<1>7. CASE UNCHANGED vars
  <2>1. UNCHANGED <<hist, st, leads, hint, down, msg, pc, at, hop, status, before, calm>>
    BY <1>7, Zenon DEF vars, storeVars, raftVars, reqVars
  <2>3. CallsOK'
    BY <2>1, SameHistory, Zenon DEF IInv, CallsOK, CallOK
  <2>4. CalmsOK'
    BY <2>1, Zenon DEF IInv, CalmsOK, CalmOK, Settled
  <2> QED
    BY <2>1, <2>3, <2>4, SameHistory, Zenon DEF IInv, TypeOK, StagesOK, StageOK, Call
<1> QED
  BY <1>1, <1>2, <1>3, <1>4, <1>5, <1>6, <1>7, Zenon DEF Next

\* The invariant holds in all states that the services can reach.
LEMMA AlwaysIInv ==
    Spec => []IInv
<1>1. Init => IInv
  BY InitHolds, Zenon
<1>2. IInv /\ [Next]_vars => IInv'
  BY NextKeeps, Zenon
<1> QED
  BY <1>1, <1>2, PTL DEF Spec

\* The call that a history entry of request r is: the one of its last hop.
LEMMA EntryOfReq ==
    ASSUME IInv, NEW i \in 1..Len(hist)
    PROVE  /\ Of(i) \in Req /\ hist[i].op = Call(Of(i))
           /\ st[hist[i].op] \notin {"idle", "refused"}
  BY HistoryOp, CallParts, OtherCalls, Zenon DEF IInv, Of, CallsOK, CallOK

\* A call answered without an error that goes through the log is executed.
LEMMA AckedLogged ==
    ASSUME IInv, NEW r \in Req, pc[r] = "done", status[r] = "ok", Logged(msg[r])
    PROVE  Executed(Call(r)) /\ Call(r)[2] = r
<1>4. Call(r) \in LoggedOp
  BY CallParts, Zenon DEF Call, IInv, TypeOK, Logged, Kind
<1> QED
  BY <1>4, AtReq, Zenon DEF CallOK, StageOK

-----------------------------------------------------------------------------
(* Theorems *)

\* A redirect of Service always names a node, for any number of nodes.
THEOREM ServiceTypes ==
    Spec => []TypeOK
  BY AlwaysIInv, PTL DEF IInv

\* However often /execute and /query redirect a client, its request takes
\* effect at most once.
THEOREM RequestsAtMostOnce ==
    Spec => []AtMostOnce
<1>1. ASSUME IInv PROVE AtMostOnce
  BY <1>1, EntryOfReq DEF AtMostOnce, IInv, HistoryOK
<1> QED
  BY <1>1, AlwaysIInv, PTL

\* The status that execHandler and queryHandler answer with tells whether the
\* request was executed.
THEOREM StatusIsTrue ==
    Spec => []StatusTellsEffect
<1>1. ASSUME IInv PROVE StatusTellsEffect
  BY <1>1, AtReq, EntryOfReq, AckedLogged, SMTT(30) DEF StatusTellsEffect, CallOK, Executed, Logged
<1> QED
  BY <1>1, AlwaysIInv, PTL

\* A strong query comes after all writes that were answered before it.
THEOREM StrongIsUpToDate ==
    Spec => []StrongSeesAcked
<1>1. ASSUME IInv PROVE StrongSeesAcked
  <2>1. SUFFICES ASSUME NEW r \in Req, pc[r] = "done", status[r] = "ok", msg[r].path = "query",
                        msg[r].strong, NEW w \in before[r]
                 PROVE  \E j \in 1..Len(hist) : \E i \in 1..j - 1 : Of(i) = w /\ Of(j) = r
    BY Zenon DEF StrongSeesAcked
  <2>2. PICK j \in 1..Len(hist) : Of(j) = r
    BY <1>1, <2>1, AckedLogged, Zenon DEF Executed, Of, Logged
  <2>3. PICK i \in 1..Len(hist) : Of(i) = w /\ (Of(j) = r => i < j)
    BY <1>1, <2>2, Zenon DEF IInv, OrderOK, OrderFor
  <2> QED
    BY <2>2, <2>3
<1> QED
  BY <1>1, AlwaysIInv, PTL

\* One redirect takes a request to a leader that all nodes know and that
\* stays.
THEOREM CalmRedirects ==
    Spec => []OneRedirectIfCalm
<1>1. ASSUME IInv PROVE OneRedirectIfCalm
  BY <1>1, Zenon DEF IInv, CalmsOK, CalmOK, OneRedirectIfCalm
<1> QED
  BY <1>1, AlwaysIInv, PTL
=============================================================================
