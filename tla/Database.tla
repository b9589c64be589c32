------------------------------ MODULE Database ------------------------------
(***************************************************************************)
(* What the consensus layer relies on of engine.Engine: a SQLite database  *)
(* is a state, and a client call (a pb.Request with its statements) takes  *)
(* a state to the next one and yields an answer.  Calls stand for their    *)
(* own requests, so a call is a member of one of three sets.               *)
(***************************************************************************)
EXTENDS Integers, Sequences, FiniteSets

CONSTANTS
    ExecOp,        \* calls of Consensus.Exec
    StrongOp,      \* calls of Consensus.Query with StrongConsistency
    WeakOp,        \* calls of Consensus.Query without StrongConsistency
    Noop,          \* a raft log entry that never reaches Consensus.Apply
    DB, InitDB,    \* contents of the database file, and of a new one
    Result,        \* answers of a call
    NextDB(_, _),  \* the contents after Engine.Exec of a request
    Answer(_, _)   \* the answer of Engine.Exec or Engine.Query

LoggedOp == ExecOp \cup StrongOp
Op == LoggedOp \cup WeakOp
Command == LoggedOp \cup {Noop}

ASSUME OpAssumption ==
    /\ ExecOp \cap StrongOp = {}
    /\ LoggedOp \cap WeakOp = {}
    /\ Noop \notin Op

ASSUME EngineAssumption ==
    /\ InitDB \in DB
    /\ \A d \in DB, o \in ExecOp : NextDB(d, o) \in DB
    /\ \A d \in DB, o \in Op : Answer(d, o) \in Result

\* The database after a log entry: only an ACTION_EXECUTE entry changes it.
After(d, e) == IF e \in ExecOp THEN NextDB(d, e) ELSE d
=============================================================================
