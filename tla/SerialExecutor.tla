--------------------------- MODULE SerialExecutor ---------------------------
(***************************************************************************)
(* What the scheduler promises (agent-runtime/scheduler.ts, header): jobs   *)
(* are admitted, may be replaced by a newer job of the same key while they  *)
(* wait, never run together with a job of the same key, and never more than *)
(* Cap of them run at once.  Nothing is said here about queues, chains,     *)
(* polling, gates or timers: Scheduler is shown to implement this module.   *)
(***************************************************************************)
EXTENDS Integers, FiniteSets

CONSTANTS
    Jobs,   \* everything that can ask for a worker
    Keys,   \* serialisation keys (project and merge request)
    KeyOf,  \* the key of each job
    Cap     \* how many jobs may hold a slot at once

VARIABLES
    pending,  \* admitted and waiting
    active    \* holding their key and a slot

execVars == <<pending, active>>

ExecInit ==
    /\ pending = {}
    /\ active = {}

Admit(j) ==
    /\ pending' = pending \cup {j}
    /\ UNCHANGED active

\* A waiting job gives up its place to a job of the same key.
Replace(old, new) ==
    /\ old \in pending
    /\ KeyOf[old] = KeyOf[new]
    /\ pending' = (pending \ {old}) \cup {new}
    /\ UNCHANGED active

Start(j) ==
    /\ j \in pending
    /\ \A other \in active : KeyOf[other] # KeyOf[j]
    /\ Cardinality(active) < Cap
    /\ pending' = pending \ {j}
    /\ active' = active \cup {j}

Finish(j) ==
    /\ j \in active
    /\ active' = active \ {j}
    /\ UNCHANGED pending

ExecNext ==
    \/ \E j \in Jobs : Admit(j) \/ Start(j) \/ Finish(j)
    \/ \E old, new \in Jobs : Replace(old, new)

ExecSpec == ExecInit /\ [][ExecNext]_execVars

=============================================================================
