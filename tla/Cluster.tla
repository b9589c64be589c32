------------------------------ MODULE Cluster ------------------------------
(***************************************************************************)
(* Membership: how coordinator.New starts a node and makes it join, what   *)
(* Consensus.Join and Consensus.Leave do behind the HTTP service, and the  *)
(* raft configurations that come of it.                                    *)
(*                                                                         *)
(* A process lives once: setupRaft refuses a data directory that has been  *)
(* used, so a node that comes back is another process, perhaps with the    *)
(* name or the address of the first.                                       *)
(*                                                                         *)
(* hashicorp/raft is external.  Its log is kept as configurations only (a  *)
(* new leader's first entry repeats the one before); a server is reached   *)
(* at its address, and answers if its multiplexer serves.                  *)
(***************************************************************************)
EXTENDS Integers, FiniteSets, Sequences

CONSTANTS
    Proc,           \* processes that may run
    Id(_), Addr(_), \* Config.NodeName and Config.RaftAddr of a process
    Boot,           \* the process with Config.Bootstrap
    Joiner,         \* those with Config.LeaderStartAddr: they join in New
    Admin,          \* requests to /join and /leave by an administrator
    Nobody,         \* no process, no call
    LeaseLapses,    \* may a leader whose quorum answers still step down?
    MaxTerm,        \* bound: raft terms
    MaxClosed       \* bound: processes that are closed

ASSUME ClusterAssumption ==
    /\ Boot \in Proc /\ Joiner \subseteq Proc \ {Boot}
    /\ Admin \cap Proc = {} /\ Nobody \notin Proc \cup Admin
    /\ IsFiniteSet(Proc)
    /\ LeaseLapses \in BOOLEAN /\ MaxTerm \in Nat \ {0} /\ MaxClosed \in Nat

\* Requests to /join and /leave: the one New sends, and the administrator's.
Call == Joiner \cup Admin

VARIABLES
    pc,      \* where coordinator.New is, and what became of the process
    role,    \* raft.State()
    term,    \* raft's current term
    log,     \* raft's log
    commit,  \* raft's commit index
    call,    \* the requests
    waits    \* the request whose change ends a leader's log

vars == <<pc, role, term, log, commit, call, waits>>

Srv(p) == [id |-> Id(p), addr |-> Addr(p)]
Server == {Srv(p) : p \in Proc}

\* No two processes have the same name, and none the same address.
Distinct == \A p, q \in Proc : Id(p) = Id(q) \/ Addr(p) = Addr(q) => p = q

NoCall == [st |-> "idle", kind |-> "join", srv |-> Srv(Boot), at |-> Nobody,
           todo |-> 0, status |-> 0, index |-> 0]

\* An entry of the log: a configuration, and the term of its leader.
Entry == [term : 1..MaxTerm, conf : SUBSET Server]

Status == {0, 200, 301, 500, 503}
Request == [st : {"idle", "sent", "scan", "remove", "add", "leave", "done"},
            kind : {"join", "leave"}, srv : Server, at : Proc \cup {Nobody},
            todo : 0..2, status : Status, index : Nat]

\* The variables have their types: a leader has a log, and it answers
\* no request but one that waits there.
TypeOK ==
    /\ pc \in [Proc -> {"off", "boot", "join", "serving", "failed", "closed"}]
    /\ role \in [Proc -> {"Follower", "Leader", "Shutdown"}]
    /\ term \in [Proc -> 0..MaxTerm] /\ log \in [Proc -> Seq(Entry)] /\ commit \in [Proc -> Nat]
    /\ \A p \in Proc : role[p] = "Leader" => log[p] # <<>>
    /\ call \in [Call -> Request] /\ waits \in [Proc -> Call \cup {Nobody}]
    /\ \A p \in Proc : waits[p] # Nobody =>
          call[waits[p]].at = p /\ call[waits[p]].st \in {"remove", "add", "leave"}

Init ==
    /\ pc = [p \in Proc |-> "off"]
    /\ role = [p \in Proc |-> "Follower"]
    /\ term = [p \in Proc |-> 0]
    /\ log = [p \in Proc |-> <<>>] /\ commit = [p \in Proc |-> 0]
    /\ call = [c \in Call |-> NoCall]
    /\ waits = [p \in Proc |-> Nobody]

raftVars == <<role, term, log, commit>>

Running(p) == pc[p] \in {"boot", "join", "serving"}
Serving(p) == pc[p] = "serving" /\ role[p] # "Shutdown"
Conf(p) == IF log[p] = <<>> THEN {} ELSE log[p][Len(log[p])].conf
Majority(S, C) == 2 * Cardinality(S) > Cardinality(C)

\* The process that p gets an answer from when it turns to server s.
Reaches(p, s, q) ==
    IF s.id = Id(p) THEN q = p ELSE q # p /\ Serving(q) /\ Addr(q) = s.addr

\* Request c ends with this status.
Respond(c, status) ==
    call' = [call EXCEPT ![c].st = "done", ![c].status = status]

\* Mutant: the future of the change is left without an answer.
FailWaitingMutant(p) ==
    /\ UNCHANGED waits
    /\ IF waits[p] = Nobody THEN UNCHANGED call ELSE Respond(waits[p], 500)

\* p leads no longer: the request that waits there fails.
FailWaiting(p) ==
    /\ waits' = [waits EXCEPT ![p] = Nobody]
    /\ IF waits[p] = Nobody THEN UNCHANGED call ELSE Respond(waits[p], 500)

-----------------------------------------------------------------------------
(* Raft *)

LastTerm(p) == IF log[p] = <<>> THEN 0 ELSE log[p][Len(log[p])].term

\* q finds the log of p as good as its own.
UpToDate(p, q) ==
    \/ LastTerm(p) > LastTerm(q)
    \/ LastTerm(p) = LastTerm(q) /\ Len(log[p]) >= Len(log[q])

\* The servers that vote for p in term t.
Votes(p, t) ==
    {s \in Conf(p) : \E q \in Proc : /\ Reaches(p, s, q)
                                     /\ q = p \/ (term[q] < t /\ role[q] = "Follower")
                                     /\ UpToDate(p, q)}

\* A candidate votes for itself first.
Elect(p) ==
    /\ Running(p) /\ role[p] = "Follower"
    /\ \E t \in term[p] + 1..MaxTerm : \E V \in SUBSET Votes(p, t) :
          /\ \E s \in V : s.id = Id(p)
          /\ Majority(V, Conf(p))
          /\ term' = [q \in Proc |-> IF \E s \in V : Reaches(p, s, q) THEN t ELSE term[q]]
          /\ log' = [log EXCEPT ![p] = Append(@, [term |-> t, conf |-> Conf(p)])]
    /\ role' = [role EXCEPT ![p] = "Leader"]
    /\ UNCHANGED <<pc, commit, call, waits>>

\* The log of leader p reaches q.
Replicate(p, q) ==
    /\ Running(p) /\ role[p] = "Leader" /\ q # p
    /\ \E s \in Conf(p) : Reaches(p, s, q)
    /\ term[q] <= term[p]
    /\ term[q] # term[p] \/ log[q] # log[p] \/ commit[q] < commit[p]
    /\ log' = [log EXCEPT ![q] = log[p]]
    /\ commit' = [commit EXCEPT ![q] = IF @ < commit[p] THEN commit[p] ELSE @]
    /\ term' = [term EXCEPT ![q] = term[p]]
    /\ role' = [role EXCEPT ![q] = "Follower"]
    /\ FailWaiting(q)
    /\ UNCHANGED pc

Acks(p) == {s \in Conf(p) : \E q \in Proc : Reaches(p, s, q) /\ log[q] = log[p]}

\* The servers that answer p.  A leader without a majority of them gives up.
Answering(p) == {s \in Conf(p) : \E q \in Proc : Reaches(p, s, q) /\ term[q] <= term[p]}

StepDown(p) ==
    /\ Running(p) /\ role[p] = "Leader"
    /\ LeaseLapses \/ ~Majority(Answering(p), Conf(p))
    /\ role' = [role EXCEPT ![p] = "Follower"]
    /\ FailWaiting(p)
    /\ UNCHANGED <<pc, term, log, commit>>

\* The next step of a request whose configuration change is committed.
Advance(r, i) ==
    IF r.st = "remove" THEN [r EXCEPT !.todo = @ - 1, !.st = IF r.todo = 1 THEN "add" ELSE "remove"]
    ELSE [r EXCEPT !.st = "done", !.status = 200, !.index = i]

\* A majority of its configuration holds the log of p.  The change that p
\* waited for is done; a leader that is removed shuts its raft down.
Commit(p) ==
    /\ Running(p) /\ role[p] = "Leader" /\ commit[p] < Len(log[p])
    /\ Majority(Acks(p), Conf(p))
    /\ commit' = [commit EXCEPT ![p] = Len(log[p])]
    /\ waits' = [waits EXCEPT ![p] = Nobody]
    /\ call' = IF waits[p] = Nobody THEN call
               ELSE [call EXCEPT ![waits[p]] = Advance(@, Len(log[p]))]
    /\ role' = IF \E s \in Conf(p) : s.id = Id(p) THEN role ELSE [role EXCEPT ![p] = "Shutdown"]
    /\ UNCHANGED <<pc, term, log>>

\* raft.AddVoter and raft.RemoveServer for request c: accepted when the last
\* change is committed; C is the configuration that follows.
Change(c, C, valid) ==
    LET p == call[c].at IN
    /\ role[p] = "Leader" /\ commit[p] = Len(log[p])
    /\ IF valid
         THEN /\ log' = [log EXCEPT ![p] = Append(@, [term |-> term[p], conf |-> C])]
              /\ waits' = [waits EXCEPT ![p] = c]
              /\ UNCHANGED call
         ELSE Respond(c, 500) /\ UNCHANGED <<log, waits>>
    /\ UNCHANGED <<pc, role, term, commit>>

-----------------------------------------------------------------------------
(* Consensus.Join and Consensus.Leave behind the HTTP service *)

\* Request c is at this point of its handler and not waiting for raft.
At(c, st) == call[c].st = st /\ Running(call[c].at) /\ waits[call[c].at] # c

\* ErrNotLeader is answered with a redirect if the node knows a leader.  The
\* clients follow it with a GET, which the leader's /join refuses.
NotLeader(c) ==
    /\ role[call[c].at] # "Leader"
    /\ \E status \in {301, 503} : Respond(c, status)
    /\ UNCHANGED <<pc, raftVars, waits>>

\* Mutant: a node that does not lead keeps the request until it does.
JoinChecksMutant(c) ==
    /\ At(c, "sent") /\ pc[call[c].at] = "serving" /\ role[call[c].at] = "Leader"
    /\ call' = [call EXCEPT ![c].st = "scan"]
    /\ UNCHANGED <<pc, raftVars, waits>>

\* The node serves the request and looks whether it leads.
JoinChecks(c) ==
    /\ At(c, "sent") /\ pc[call[c].at] = "serving"
    /\ \/ NotLeader(c)
       \/ /\ role[call[c].at] = "Leader"
          /\ IF call[c].srv.id = Id(call[c].at) THEN Respond(c, 500)
                                                ELSE call' = [call EXCEPT ![c].st = "scan"]
          /\ UNCHANGED <<pc, raftVars, waits>>

\* GetConfiguration gives the latest configuration, committed or not.  Each
\* server with the name or the address of the new one costs a removal.
JoinScans(c) ==
    /\ At(c, "scan")
    /\ LET C == Conf(call[c].at)
           same == {s \in C : s.id = call[c].srv.id \/ s.addr = call[c].srv.addr}
       IN  IF call[c].srv \in C THEN Respond(c, 200)
           ELSE call' = [call EXCEPT ![c].todo = Cardinality(same),
                                     ![c].st = IF same = {} THEN "add" ELSE "remove"]
    /\ UNCHANGED <<pc, raftVars, waits>>

\* Mutant: the server at the same address is removed under its own name.
JoinRemovesMutant(c) ==
    /\ At(c, "remove")
    /\ LET C == {s \in Conf(call[c].at) : s.id # call[c].srv.id /\ s.addr # call[c].srv.addr} IN
       Change(c, C, C # {})

\* RemoveServer, always of the new server's name.  Any error ends the Join.
JoinRemoves(c) ==
    /\ At(c, "remove")
    /\ LET C == {s \in Conf(call[c].at) : s.id # call[c].srv.id} IN
       \/ Change(c, C, C # {})
       \/ /\ role[call[c].at] # "Leader"
          /\ Respond(c, 500) /\ UNCHANGED <<pc, raftVars, waits>>

Others(c) == {s \in Conf(call[c].at) : s.id # call[c].srv.id}

\* Mutant: the future of AddVoter is not waited for.
JoinAddsMutant(c) ==
    LET p == call[c].at IN
    /\ At(c, "add") /\ role[p] = "Leader" /\ commit[p] = Len(log[p])
    /\ log' = [log EXCEPT ![p] = Append(@, [term |-> term[p], conf |-> Others(c) \cup {call[c].srv}])]
    /\ call' = [call EXCEPT ![c].st = "done", ![c].status = 200, ![c].index = Len(log[p]) + 1]
    /\ UNCHANGED <<pc, role, term, commit, waits>>

\* AddVoter.  raft refuses a configuration with the same address twice.
JoinAdds(c) ==
    /\ At(c, "add")
    /\ \/ Change(c, Others(c) \cup {call[c].srv}, \A s \in Others(c) : s.addr # call[c].srv.addr)
       \/ NotLeader(c)

\* Leave.  raft refuses to remove the last server.
Leave(c) ==
    /\ At(c, "leave")
    /\ Change(c, Others(c), Others(c) # {}) \/ NotLeader(c)

\* The node is gone before it answers, or was not there.
Unanswered(c) ==
    /\ call[c].st \notin {"idle", "done"} /\ ~Running(call[c].at)
    /\ Respond(c, 500)
    /\ UNCHANGED <<pc, raftVars, waits>>

\* An administrator makes a node that serves join, or a server leave.
Send(c, kind, st, p, t) ==
    call' = [call EXCEPT ![c].kind = kind, ![c].st = st, ![c].srv = Srv(p), ![c].at = t]

AdminJoin(c, p, t) ==
    /\ call[c].st = "idle" /\ pc[p] = "serving" /\ pc[t] = "serving"
    /\ Send(c, "join", "sent", p, t)
    /\ UNCHANGED <<pc, raftVars, waits>>

AdminLeave(c, p, t) ==
    /\ call[c].st = "idle" /\ pc[p] # "off" /\ pc[t] = "serving"
    /\ Send(c, "leave", "leave", p, t)
    /\ UNCHANGED <<pc, raftVars, waits>>

-----------------------------------------------------------------------------
(* coordinator.Coordinator *)

Bootstrap(p) ==
    /\ log' = [log EXCEPT ![p] = <<[term |-> 1, conf |-> {Srv(p)}]>>]
    /\ term' = [term EXCEPT ![p] = 1]

AddrInUse(p) == \E q \in Proc : Running(q) /\ Addr(q) = Addr(p)

\* Mutant: every node bootstraps.
NewMutant(p) ==
    /\ pc[p] = "off" /\ ~AddrInUse(p)
    /\ pc' = [pc EXCEPT ![p] = "boot"] /\ Bootstrap(p)
    /\ UNCHANGED <<role, commit, call, waits>>

\* New: the listener, raft, the HTTP server.  Then the node waits for itself
\* to lead, or for the answer of a node that it asks to join; a node with
\* neither to do serves at once.
New(p) ==
    /\ pc[p] = "off"
    /\ IF AddrInUse(p)
         THEN pc' = [pc EXCEPT ![p] = "failed"] /\ UNCHANGED <<log, term, call>>
         ELSE \/ /\ p = Boot
                 /\ pc' = [pc EXCEPT ![p] = "boot"] /\ Bootstrap(p) /\ UNCHANGED call
              \/ /\ p \in Joiner
                 /\ pc' = [pc EXCEPT ![p] = "join"]
                 /\ \E t \in Proc : pc[t] # "off" /\ Send(p, "join", "sent", p, t)
                 /\ UNCHANGED <<log, term>>
              \/ /\ p \notin Joiner \cup {Boot}
                 /\ pc' = [pc EXCEPT ![p] = "serving"] /\ UNCHANGED <<log, term, call>>
    /\ UNCHANGED <<role, commit, waits>>

\* p is gone, with its raft: New has failed and the program ends, or Close.
Gone(p, how) ==
    /\ pc' = [pc EXCEPT ![p] = how]
    /\ role' = [role EXCEPT ![p] = "Shutdown"]
    /\ FailWaiting(p)
    /\ UNCHANGED <<term, log, commit>>

\* WaitForLeader sees a leader, or its three seconds pass.
BootWaits(p) ==
    /\ pc[p] = "boot"
    /\ \/ /\ role[p] = "Leader"
          /\ pc' = [pc EXCEPT ![p] = "serving"] /\ UNCHANGED <<raftVars, call, waits>>
       \/ Gone(p, "failed")

\* joinToLeader has its answer; only then does the multiplexer serve.
JoinReturns(p) ==
    /\ pc[p] = "join" /\ call[p].st = "done"
    /\ IF call[p].status = 200
         THEN pc' = [pc EXCEPT ![p] = "serving"] /\ UNCHANGED <<raftVars, call, waits>>
         ELSE Gone(p, "failed")

\* Close shuts raft down, and with it the listener; the node stays in the
\* configuration.  A crash looks the same from outside.
Close(p) ==
    /\ pc[p] = "serving" /\ Cardinality({q \in Proc : pc[q] = "closed"}) < MaxClosed
    /\ Gone(p, "closed")

-----------------------------------------------------------------------------
Handler(c) == JoinChecks(c) \/ JoinScans(c) \/ JoinRemoves(c) \/ JoinAdds(c) \/ Leave(c) \/ Unanswered(c)

Next ==
    \/ \E p \in Proc : \/ Elect(p) \/ Commit(p) \/ StepDown(p)
                       \/ New(p) \/ BootWaits(p) \/ Close(p)
                       \/ \E q \in Proc : Replicate(p, q)
    \/ \E p \in Joiner : JoinReturns(p)
    \/ \E c \in Call : Handler(c)
    \/ \E c \in Admin, p, t \in Proc : AdminJoin(c, p, t) \/ AdminLeave(c, p, t)

Spec == Init /\ [][Next]_vars

\* raft's goroutines, the handlers and New go on.
Fairness ==
    /\ WF_vars(BootWaits(Boot))
    /\ \A p \in Proc : /\ WF_vars(Commit(p))
                       /\ WF_vars(~Majority(Answering(p), Conf(p)) /\ StepDown(p))
                       /\ \A q \in Proc \ {p} : WF_vars(Replicate(p, q))
    /\ \A p \in Joiner : WF_vars(JoinReturns(p))
    /\ \A c \in Call : WF_vars(Handler(c))

FairSpec == Spec /\ Fairness

-----------------------------------------------------------------------------
(* Properties *)

Ids(C) == {s.id : s \in C}

\* The log of q has the entry that p has at index i.
Holds(q, p, i) == i \in 1..Len(log[q]) /\ log[q][i] = log[p][i]

\* The configuration is as the request asked for.
Grants(C, r) == IF r.kind = "join" THEN r.srv \in C ELSE r.srv.id \notin Ids(C)

\* A Join or Leave that changed the configuration and answered 200 has its
\* configuration committed: every node that has got that far has it, and so
\* does every leader elected since, whoever steps down or is closed.
AnswerIsCommitted ==
    \A c \in Call : call[c].index > 0 =>
        /\ \E p \in Proc : commit[p] >= call[c].index
        /\ \A p \in Proc : commit[p] >= call[c].index => Grants(log[p][call[c].index].conf, call[c])

\* The cluster never splits: what two nodes take for committed agrees, while
\* nodes start, join, leave, lead and close in any order.
CommittedAgree ==
    \A p, q \in Proc : \A i \in 1..commit[p] : i <= commit[q] => log[p][i] = log[q][i]

\* A server that has joined is a member of every configuration that follows
\* the one it joined in, committed or not, unless some other request was
\* about its name: Join of a new server does not push another one out, even
\* one at the same address.
StaysMember ==
    \A c \in Call : call[c].index > 0 /\ call[c].kind = "join" =>
        \/ \E d \in Call \ {c} : call[d].st # "idle" /\ call[d].srv.id = call[c].srv.id
        \/ \A p, q \in Proc : commit[p] >= call[c].index /\ Holds(q, p, call[c].index) =>
              \A i \in call[c].index..Len(log[q]) : call[c].srv.id \in Ids(log[q][i].conf)

\* A New that asks to join returns, and so every request to /join and /leave
\* is answered, although neither joinToLeader's HTTP client nor the futures of
\* AddVoter and RemoveServer have a timeout.
RequestsReturn ==
    /\ \A p \in Joiner : pc[p] = "join" ~> pc[p] \in {"serving", "failed"}
    /\ \A c \in Admin : call[c].st # "idle" ~> call[c].st = "done"

\* "service, err := coordinator.New(conf); require.NoError(t, err)": New
\* succeeds for a node whose request is before a leader that stays up.
NewSucceeds == \A p \in Joiner : pc[p] = "join" /\ call[p].st = "scan" ~> pc[p] = "serving"
=============================================================================
