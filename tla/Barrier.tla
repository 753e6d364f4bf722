------------------------------ MODULE Barrier ------------------------------
(***************************************************************************)
(* ggml_barrier, the spinning barrier of ggml's thread pool, one action    *)
(* per atomic access, together with all that it asks of its callers: only  *)
(* the active threads call it, and their number changes only when no       *)
(* active thread is inside.  A thread may still be leaving a barrier while *)
(* the others have gone through many more.                                 *)
(***************************************************************************)
EXTENDS Naturals, FiniteSets

CONSTANT
    MaxThreads          \* threads of the pool, the main thread 0 included

ASSUME BarrierAssumption == MaxThreads \in Nat \ {0}

VARIABLES
    n_threads,          \* active threads: the low bits of n_graph
    n_barrier,          \* threads that have arrived
    n_barrier_passed,   \* barriers that are complete
    at,                 \* at[t]: where thread t is in ggml_barrier
    n_passed            \* n_passed[t]: n_barrier_passed as t read it, 0 outside

barrierVars == <<n_threads, n_barrier, n_barrier_passed, at, n_passed>>

Threads == 0 .. MaxThreads - 1
Active == 0 .. n_threads - 1

\* The place of a thread outside, before its arrival, spinning, and, for the
\* last to arrive, before each of its two writes.
Places == {"out", "arrive", "spin", "reset", "release"}

BarrierInit ==
    /\ n_threads = 0
    /\ n_barrier = 0
    /\ n_barrier_passed = 0
    /\ at = [t \in Threads |-> "out"]
    /\ n_passed = [t \in Threads |-> 0]

\* A single thread does not wait for itself.
Enter(t) ==
    /\ t \in Active
    /\ at[t] = "out"
    /\ n_threads # 1
    /\ at' = [at EXCEPT ![t] = "arrive"]
    /\ n_passed' = [n_passed EXCEPT ![t] = n_barrier_passed]
    /\ UNCHANGED <<n_threads, n_barrier, n_barrier_passed>>

\* Mutant: the last thread but one takes itself for the last.
Arrive_OffByOne(t) ==
    /\ at[t] = "arrive"
    /\ n_barrier' = n_barrier + 1
    /\ at' = [at EXCEPT ![t] = IF n_barrier + 1 >= n_threads - 1 THEN "reset" ELSE "spin"]
    /\ UNCHANGED <<n_threads, n_barrier_passed, n_passed>>

Arrive(t) ==
    /\ at[t] = "arrive"
    /\ n_barrier' = n_barrier + 1
    /\ at' = [at EXCEPT ![t] = IF n_barrier = n_threads - 1 THEN "reset" ELSE "spin"]
    /\ UNCHANGED <<n_threads, n_barrier_passed, n_passed>>

Reset(t) ==
    /\ at[t] = "reset"
    /\ n_barrier' = 0
    /\ at' = [at EXCEPT ![t] = "release"]
    /\ UNCHANGED <<n_threads, n_barrier_passed, n_passed>>

Release(t) ==
    /\ at[t] = "release"
    /\ n_barrier_passed' = n_barrier_passed + 1
    /\ at' = [at EXCEPT ![t] = "out"]
    /\ n_passed' = [n_passed EXCEPT ![t] = 0]
    /\ UNCHANGED <<n_threads, n_barrier>>

Leave(t) ==
    /\ at[t] = "spin"
    /\ n_barrier_passed # n_passed[t]
    /\ at' = [at EXCEPT ![t] = "out"]
    /\ n_passed' = [n_passed EXCEPT ![t] = 0]
    /\ UNCHANGED <<n_threads, n_barrier, n_barrier_passed>>

\* A new graph may use another number of threads.  The caller's part of the
\* contract: no active thread is on its way through a barrier.
SetThreads(n) ==
    /\ n \in 1 .. MaxThreads
    /\ \A t \in Active : at[t] = "out" \/ n_passed[t] # n_barrier_passed
    /\ n_threads' = n
    /\ UNCHANGED <<n_barrier, n_barrier_passed, at, n_passed>>

InBarrier(t) == Arrive(t) \/ Reset(t) \/ Release(t) \/ Leave(t)

BarrierNext ==
    \/ \E t \in Threads : Enter(t) \/ InBarrier(t)
    \/ \E n \in 1 .. MaxThreads : SetThreads(n)

BarrierSpec == BarrierInit /\ [][BarrierNext]_barrierVars
-----------------------------------------------------------------------------
\* The threads that wait for the barrier that is under way.
Waiting == {t \in Threads : at[t] = "spin" /\ n_passed[t] = n_barrier_passed}

\* Nobody is let through before everybody is there: when the last thread is
\* about to reset the count or to release the others, all other active
\* threads wait, and they wait for this barrier and not for an earlier one.
NobodyPassesEarly ==
    \A t \in Threads : at[t] \in {"reset", "release"} => Waiting = Active \ {t}
=============================================================================
