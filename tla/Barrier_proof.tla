--------------------------- MODULE Barrier_proof ---------------------------
(***************************************************************************)
(* Proofs about ggml_barrier, for any number of threads and any sequence   *)
(* of graphs: its last thread releases the others only when all of them    *)
(* wait, although some may still be leaving an earlier barrier.            *)
(***************************************************************************)
EXTENDS Barrier, Integers, FiniteSetTheorems, TLAPS

BTypeOK ==
    /\ n_threads \in 0 .. MaxThreads
    /\ n_barrier \in Nat
    /\ n_barrier_passed \in Nat
    /\ at \in [Threads -> Places]
    /\ n_passed \in [Threads -> Nat]

\* Who is on the way through has read the present number, and is active.
InsideInv ==
    /\ \A t \in Threads : at[t] \in {"arrive", "reset", "release"} =>
          t \in Active /\ n_passed[t] = n_barrier_passed
    /\ \A t \in Threads : at[t] = "spin" => n_passed[t] <= n_barrier_passed
    /\ Waiting \subseteq Active

\* The count is that of the waiting threads until the last has arrived.
CountInv ==
    /\ \A t \in Threads : at[t] \in {"reset", "release"} => Waiting = Active \ {t}
    /\ \A t \in Threads : at[t] = "release" => n_barrier = 0
    /\ (\A t \in Threads : at[t] \notin {"reset", "release"}) =>
          n_barrier = Cardinality(Waiting)

BInv == BTypeOK /\ InsideInv /\ CountInv
-----------------------------------------------------------------------------
\* The active threads can be counted, and so can those that wait among them.
LEMMA CountActive ==
    ASSUME BTypeOK, NEW S, S \subseteq Active
    PROVE  /\ IsFiniteSet(Active) /\ Cardinality(Active) = n_threads
           /\ IsFiniteSet(S) /\ Cardinality(S) \in Nat
           /\ Cardinality(S) = n_threads => S = Active
  <1>1. n_threads \in Int /\ n_threads - 1 \in Int /\ 0 \in Int
    BY BarrierAssumption DEF BTypeOK
  <1>2. IsFiniteSet(Active) /\ Cardinality(Active) = n_threads
    BY <1>1, FS_Interval DEF Active, BTypeOK
  <1> QED
    BY <1>2, FS_Subset, FS_CardinalityType

LEMMA InitBInv == BarrierInit => BInv
  <1> SUFFICES ASSUME BarrierInit PROVE BInv
    OBVIOUS
  <1>1. BTypeOK
    BY BarrierAssumption DEF BarrierInit, BTypeOK, Places, Threads
  <1>2. Waiting = {}
    BY DEF BarrierInit, Waiting
  <1>3. InsideInv
    BY <1>2 DEF BarrierInit, InsideInv
  <1>4. CountInv
    BY <1>2, FS_EmptySet DEF BarrierInit, CountInv
  <1> QED
    BY <1>1, <1>3, <1>4 DEF BInv

\* While a thread resets the count or releases the others, each active thread
\* but that one waits: nobody can enter or arrive.
LEMMA ClosingIsAlone ==
    ASSUME BInv, NEW t \in Threads, NEW u \in Threads,
           at[t] \in {"reset", "release"}, u \in Active, u # t
    PROVE  at[u] = "spin"
  BY DEF BInv, CountInv, Waiting

LEMMA EnterKeepsBInv ==
    ASSUME BInv, NEW t \in Threads, Enter(t)
    PROVE  BInv'
  <1>1. BTypeOK'
    BY DEF Enter, BInv, BTypeOK, Places
  <1>2. Active' = Active /\ Waiting' = Waiting
    BY DEF Enter, Active, Waiting, BInv, BTypeOK
  <1>3. InsideInv'
    BY <1>2 DEF Enter, BInv, BTypeOK, InsideInv
  <1>4. CountInv'
    BY <1>2 DEF Enter, BInv, BTypeOK, CountInv
  <1> QED
    BY <1>1, <1>3, <1>4 DEF BInv

\* The one who completes the count finds all other active threads waiting.
LEMMA ArriveKeepsBInv ==
    ASSUME BInv, NEW t \in Threads, Arrive(t)
    PROVE  BInv'
  <1> USE DEF BInv
  <1>1. BTypeOK'
    BY DEF Arrive, BTypeOK, Places
  <1>2. /\ t \in Active /\ n_passed[t] = n_barrier_passed
        /\ \A u \in Threads : at[u] \notin {"reset", "release"}
    BY ClosingIsAlone DEF Arrive, InsideInv, BTypeOK
  <1>3. /\ n_barrier = Cardinality(Waiting) /\ t \notin Waiting
        /\ Waiting \subseteq Active \ {t}
    BY <1>2 DEF CountInv, InsideInv, Waiting, Arrive
  <1>4. Active' = Active
    BY DEF Arrive, Active
  <1>5. CASE n_barrier = n_threads - 1
    <2>1. Waiting = Active \ {t}
      <3>1. /\ IsFiniteSet(Active) /\ Cardinality(Active) = n_threads
        BY CountActive
      <3>2. IsFiniteSet(Active \ {t}) /\ Cardinality(Active \ {t}) = n_threads - 1
        BY <3>1, <1>2, FS_RemoveElement
      <3> QED
        BY <3>2, <1>3, <1>5, FS_Subset
    <2>2. Waiting' = Waiting
      BY <1>5 DEF Arrive, Waiting, BTypeOK
    <2>3. InsideInv'
      BY <1>2, <1>4, <1>5, <2>2 DEF Arrive, InsideInv, BTypeOK
    <2>4. CountInv'
      BY <1>2, <1>4, <1>5, <2>1, <2>2 DEF Arrive, CountInv, BTypeOK
    <2> QED
      BY <1>1, <2>3, <2>4
  <1>6. CASE n_barrier # n_threads - 1
    <2>1. Waiting' = Waiting \cup {t}
      BY <1>2, <1>6 DEF Arrive, Waiting, BTypeOK
    <2>2. InsideInv'
      BY <1>2, <1>4, <1>6, <2>1 DEF Arrive, InsideInv, BTypeOK
    <2>3. Cardinality(Waiting \cup {t}) = n_barrier + 1
      BY <1>3, CountActive, FS_AddElement DEF InsideInv
    <2>4. CountInv'
      BY <1>2, <1>6, <2>1, <2>3 DEF Arrive, CountInv, BTypeOK
    <2> QED
      BY <1>1, <2>2, <2>4
  <1> QED
    BY <1>5, <1>6

LEMMA ResetKeepsBInv ==
    ASSUME BInv, NEW t \in Threads, Reset(t)
    PROVE  BInv'
  <1> USE DEF BInv
  <1>1. BTypeOK'
    BY DEF Reset, BTypeOK, Places
  <1>2. Active' = Active /\ Waiting' = Waiting
    BY DEF Reset, Active, Waiting, BTypeOK
  <1>3. InsideInv'
    BY <1>2 DEF Reset, BTypeOK, InsideInv
  <1>4. \A u \in Threads : u # t => at[u] \notin {"reset", "release"}
    BY ClosingIsAlone DEF Reset, InsideInv
  <1>5. CountInv'
    BY <1>2, <1>4 DEF Reset, BTypeOK, CountInv
  <1> QED
    BY <1>1, <1>3, <1>5

\* All who wait are released at once: nobody waits for the next barrier yet.
LEMMA ReleaseKeepsBInv ==
    ASSUME BInv, NEW t \in Threads, Release(t)
    PROVE  BInv'
  <1> USE DEF BInv
  <1>1. BTypeOK'
    BY DEF Release, BTypeOK, Places
  <1>2. \A u \in Threads : u # t => at[u] \in {"spin", "out"}
    BY ClosingIsAlone DEF Release, InsideInv, BTypeOK, Places
  <1>3. Waiting' = {}
    BY DEF Release, Waiting, InsideInv, BTypeOK
  <1>4. InsideInv'
    BY <1>2, <1>3 DEF Release, InsideInv, BTypeOK
  <1>5. CountInv'
    BY <1>2, <1>3, FS_EmptySet DEF Release, CountInv, BTypeOK
  <1> QED
    BY <1>1, <1>4, <1>5

LEMMA LeaveKeepsBInv ==
    ASSUME BInv, NEW t \in Threads, Leave(t)
    PROVE  BInv'
  <1> USE DEF BInv
  <1>1. BTypeOK'
    BY DEF Leave, BTypeOK, Places
  <1>2. Active' = Active /\ Waiting' = Waiting
    BY DEF Leave, Active, Waiting, BTypeOK
  <1>3. InsideInv'
    BY <1>2 DEF Leave, BTypeOK, InsideInv
  <1>4. CountInv'
    BY <1>2 DEF Leave, BTypeOK, CountInv
  <1> QED
    BY <1>1, <1>3, <1>4

\* A new number of threads is set only while nobody waits.
LEMMA SetThreadsKeepsBInv ==
    ASSUME BInv, NEW n \in 1 .. MaxThreads, SetThreads(n)
    PROVE  BInv'
  <1> USE DEF BInv
  <1>1. BTypeOK'
    BY DEF SetThreads, BTypeOK
  <1>2. Waiting = {} /\ Waiting' = {}
    BY DEF SetThreads, Waiting, InsideInv
  <1>3. \A u \in Threads : at[u] \in {"out", "spin"}
    BY DEF SetThreads, InsideInv, BTypeOK, Places
  <1>4. InsideInv'
    BY <1>2, <1>3 DEF SetThreads, InsideInv
  <1>5. CountInv'
    BY <1>2, <1>3 DEF SetThreads, CountInv
  <1> QED
    BY <1>1, <1>4, <1>5

LEMMA StepKeepsBInv == BInv /\ [BarrierNext]_barrierVars => BInv'
  <1> SUFFICES ASSUME BInv, [BarrierNext]_barrierVars PROVE BInv'
    OBVIOUS
  <1>1. ASSUME NEW t \in Threads, Enter(t) PROVE BInv'
    BY <1>1, EnterKeepsBInv
  <1>2. ASSUME NEW t \in Threads, InBarrier(t) PROVE BInv'
    BY <1>2, ArriveKeepsBInv, ResetKeepsBInv, ReleaseKeepsBInv, LeaveKeepsBInv
       DEF InBarrier
  <1>3. ASSUME NEW n \in 1 .. MaxThreads, SetThreads(n) PROVE BInv'
    BY <1>3, SetThreadsKeepsBInv
  <1>4. CASE UNCHANGED barrierVars
    BY <1>4 DEF barrierVars, BInv, BTypeOK, InsideInv, CountInv, Waiting, Active
  <1> QED
    BY <1>1, <1>2, <1>3, <1>4 DEF BarrierNext

\* For any number of threads: the last thread of a barrier resets the count and
\* releases the others only when each active thread waits for this barrier.
THEOREM NobodyPasses == BarrierSpec => []NobodyPassesEarly
  <1>1. BInv => NobodyPassesEarly
    BY DEF BInv, CountInv, NobodyPassesEarly
  <1> QED
    BY <1>1, InitBInv, StepKeepsBInv, PTL DEF BarrierSpec
=============================================================================
