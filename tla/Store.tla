-------------------------------- MODULE Store --------------------------------
(***************************************************************************)
(* What distsql promises its clients: one database on which every logged   *)
(* call takes effect atomically at one instant between its invocation and  *)
(* its answer.  A call that was refused never takes effect, a call that    *)
(* lost its leader may still take effect later, and a weak query reads     *)
(* some earlier state of the database.                                     *)
(***************************************************************************)
EXTENDS Database

VARIABLES
    hist,   \* the calls that took effect, each with the database it left
    st,     \* the client's view of each call
    val     \* the answer of each acknowledged call

storeVars == <<hist, st, val>>

\* The database after the first i entries of a history.
DBAt(h, i) == IF i = 0 THEN InitDB ELSE h[i].db

\* The entry of command e on top of history h.
Entry(h, e) == [op |-> e, db |-> After(DBAt(h, Len(h)), e)]

Executed(o) == \E i \in 1..Len(hist) : hist[i].op = o

StoreInit ==
    /\ hist = <<>>
    /\ st = [o \in Op |-> "idle"]
    /\ val = [o \in Op |-> Noop]

Invoke(o) ==
    /\ st[o] = "idle"
    /\ st' = [st EXCEPT ![o] = "pending"]
    /\ UNCHANGED <<hist, val>>

\* The call takes effect, in the open or after its client lost track of it.
TakeEffect(o) ==
    /\ st[o] \in {"pending", "lost"}
    /\ ~Executed(o)
    /\ hist' = Append(hist, Entry(hist, o))
    /\ UNCHANGED <<st, val>>

\* An entry without any effect, such as the one a new leader writes.
Skip ==
    /\ hist' = Append(hist, Entry(hist, Noop))
    /\ UNCHANGED <<st, val>>

\* The answer of a logged call is the one of the database it took effect on.
Acknowledge(o) ==
    /\ st[o] = "pending"
    /\ \E i \in 1..Len(hist) : /\ hist[i].op = o
                               /\ val' = [val EXCEPT ![o] = Answer(DBAt(hist, i - 1), o)]
    /\ st' = [st EXCEPT ![o] = "acked"]
    /\ UNCHANGED hist

\* A weak query is answered from some state the database has been in.
ReadWeakly(o) ==
    /\ st[o] = "pending"
    /\ \E i \in 0..Len(hist) : val' = [val EXCEPT ![o] = Answer(DBAt(hist, i), o)]
    /\ st' = [st EXCEPT ![o] = "acked"]
    /\ UNCHANGED hist

\* A refused call has not taken effect, and never will.
Refuse(o) ==
    /\ st[o] \in {"idle", "pending"}
    /\ ~Executed(o)
    /\ st' = [st EXCEPT ![o] = "refused"]
    /\ UNCHANGED <<hist, val>>

\* A node that fails leaves all its calls without a definite answer.
Lose(S) ==
    /\ \A o \in S : st[o] = "pending"
    /\ st' = [o \in Op |-> IF o \in S THEN "lost" ELSE st[o]]
    /\ UNCHANGED <<hist, val>>

StoreNext ==
    \/ Skip
    \/ \E o \in LoggedOp : TakeEffect(o) \/ Acknowledge(o)
    \/ \E o \in WeakOp : ReadWeakly(o)
    \/ \E o \in Op : Invoke(o) \/ Refuse(o)
    \/ \E S \in SUBSET Op : Lose(S)

StoreSpec == StoreInit /\ [][StoreNext]_storeVars
=============================================================================
