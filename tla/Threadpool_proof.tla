-------------------------- MODULE Threadpool_proof --------------------------
(***************************************************************************)
(* Proofs about ggml's thread pool, for any number of threads and any      *)
(* graphs: it keeps its part of the barrier's contract, each piece of work *)
(* is done once and after what it needs, and a graph that returns has no   *)
(* node half done and no thread at work in it.                             *)
(*                                                                         *)
(* The barriers cut the computation of a graph into segments, and all      *)
(* active threads are in one segment or have arrived at the barrier that   *)
(* ends it.  A segment "walk" goes from node first over empty nodes to     *)
(* node, and does the shares of that node; if it is a product, only its    *)
(* conversion, and a segment "product" does its chunks.  A segment "end"   *)
(* finds nothing more to do.                                               *)
(***************************************************************************)
EXTENDS Threadpool, Barrier_proof

\* The places of a worker between two graphs, and of the main thread.
Between == {"top", "pause", "resumed", "stop", "exit", "poll", "poll_graph", "lock", "work"}
Outside == {"idle", "kickoff", "signal", "computed", "join", "freed"}

PTypeOK ==
    /\ cgraph \in Seq([op : Ops, chunks : Nat])
    /\ n_graph \in Nat /\ current_chunk \in Nat /\ abort \in Int
    /\ pending \in [Workers -> BOOLEAN] /\ last_graph \in [Workers -> Nat]
    /\ pc \in [Threads -> InGraph \cup Between \cup Outside \cup {"callback"}]
    /\ node_n \in [Threads -> Nat] /\ my_chunk \in [Threads -> Nat]
    /\ \A p \in DOMAIN done : p[1] \in Nat

\* Where each thread may be, and what a worker knows of the graph.
PlaceInv ==
    /\ pc[Main] \in InGraph \cup Outside \cup {"callback"}
    /\ \A t \in Threads : pc[t] \notin InGraph \cup {"callback"} => node_n[t] = 0
    /\ \A w \in Workers :
          /\ pc[w] \in InGraph \cup Between
          /\ last_graph[w] <= n_graph
          /\ pc[w] \in InGraph => w \in Active /\ last_graph[w] = n_graph
          /\ pending[w] => pc[w] = "work" /\ w \in Active /\ last_graph[w] = n_graph

\* A thread that is to compute the graph but has not begun, and one that has.
NotStarted(t) ==
    IF t = Main THEN pc[Main] = "signal"
    ELSE pc[t] \notin InGraph /\ (last_graph[t] # n_graph \/ pending[t])

HasFinished(t) ==
    IF t = Main THEN pc[Main] = "computed"
    ELSE pc[t] \notin InGraph /\ last_graph[t] = n_graph /\ ~pending[t]

\* A thread that is at the barrier that is under way.
Arrived(t) == at[t] # "out" /\ n_passed[t] = n_barrier_passed

DoneOnce == \A p \in DOMAIN done : done[p] = 1

\* No node is half done, and without an abort none is left.
Whole ==
    /\ \A p \in DOMAIN done : Complete(p[1])
    /\ abort = -1 => \A n \in ComputedNodes : Complete(n)

\* No graph is under way.
Over ==
    /\ \A t \in Active \ {Main} : HasFinished(t)
    /\ pc[Main] \in Outside \ {"signal"}
    /\ \A t \in Active : ~Arrived(t)
    /\ pc[Main] = "computed" => Main \in Active /\ Whole
    /\ pc[Main] # "computed" => done = EmptyBag
    /\ pc[Main] = "kickoff" => abort = -1

Segments == [kind : {"walk", "product", "end"}, first : Nat, node : Nat]

Op(n) == cgraph[n + 1].op

\* The node at which the computation of node n ends, and what a thread does of n.
Last(n) == IF Op(n) = "fused" THEN n + 1 ELSE n
Share(n, t) == Piece(n, IF Op(n) = "mul_mat" THEN "convert" ELSE "share", t)

SegmentOK(s) ==
    CASE s.kind = "walk" ->
            /\ s.node \in s.first .. Len(cgraph) - 1
            /\ Op(s.node) # "empty"
            /\ \A n \in s.first .. s.node - 1 : Op(n) = "empty"
            /\ abort = -1 \/ (abort = Last(s.node) + 1 /\ Op(s.node) # "mul_mat")
      [] s.kind = "product" ->
            /\ s.node < Len(cgraph) /\ Op(s.node) = "mul_mat"
            /\ abort \in {-1, s.node + 1}
      [] OTHER ->
            \/ abort = s.first
            \/ \A n \in s.first .. Len(cgraph) - 1 : Op(n) = "empty"

\* A thread that is still on its way to the node, and one that is through with it.
Walking(s, t) ==
    \/ NotStarted(t) /\ s.first = 0
    \/ pc[t] = "node" /\ node_n[t] >= s.first

Before(s, t) ==
    \/ Walking(s, t) /\ node_n[t] <= s.node
    \/ pc[t] = "compute" /\ node_n[t] = s.node

Ended(t) == Arrived(t) /\ HasFinished(t)

Gone(s, t) ==
    LET next == Last(s.node) + 1
    IN  IF next < Len(cgraph)
        THEN Arrived(t) /\ pc[t] = "node" /\ node_n[t] = next
        ELSE \/ ~Arrived(t) /\ pc[t] \in {"node", "last_barrier"} /\ node_n[t] = next
             \/ Ended(t)

Through(s, t) ==
    \/ ~Arrived(t) /\ pc[t] \in {"callback", "sync"} /\ node_n[t] = Last(s.node)
    \/ Gone(s, t)

\* Where the threads of a segment are.
InSegment(s, t) ==
    CASE s.kind = "walk" /\ Op(s.node) # "mul_mat" ->
            \/ ~Arrived(t) /\ Before(s, t)
            \/ Through(s, t)
      [] s.kind = "walk" /\ Op(s.node) = "mul_mat" ->
            \/ ~Arrived(t) /\ Before(s, t)
            \/ ~Arrived(t) /\ pc[t] = "counter" /\ node_n[t] = s.node
            \/ /\ Arrived(t) /\ pc[t] = "chunk" /\ node_n[t] = s.node /\ my_chunk[t] = t
               /\ t = Main => current_chunk = n_threads
      [] s.kind = "product" ->
            \/ ~Arrived(t) /\ pc[t] \in {"chunk", "steal"} /\ node_n[t] = s.node
            \/ Through(s, t) /\ current_chunk >= NChunks(cgraph[s.node + 1])
      [] OTHER ->
            \/ ~Arrived(t) /\ Walking(s, t) /\ (abort = s.first => node_n[t] = s.first)
            \/ ~Arrived(t) /\ pc[t] = "last_barrier"
            \/ Ended(t)

\* What is done of the node of a segment.
ChunkInv(s) ==
    LET N == NChunks(cgraph[s.node + 1])
        Holders == {t \in Active : pc[t] = "chunk"}
    IN  /\ current_chunk >= n_threads
        /\ \A t \in Holders : my_chunk[t] < current_chunk
        /\ \A t, u \in Holders : my_chunk[t] = my_chunk[u] => t = u
        /\ \A i \in 0 .. N - 1 :
              Piece(s.node, "chunk", i) \notin DOMAIN done
                 <=> i >= current_chunk \/ \E t \in Holders : my_chunk[t] = i

SegmentDone(s) ==
    CASE s.kind = "walk" ->
            /\ \A n \in ComputedNodes : n < s.node => Complete(n)
            /\ \A p \in DOMAIN done :
                  \/ p[1] < s.node /\ Complete(p[1])
                  \/ \E t \in Active : p = Share(s.node, t)
            /\ \A t \in Active : Before(s, t) <=> Share(s.node, t) \notin DOMAIN done
      [] s.kind = "product" ->
            /\ \A n \in ComputedNodes : n < s.node => Complete(n)
            /\ \A p \in DOMAIN done :
                  \/ p[1] < s.node /\ Complete(p[1])
                  \/ p \in Pieces(s.node)
            /\ \A t \in Active : Share(s.node, t) \in DOMAIN done
            /\ ChunkInv(s)
      [] OTHER ->
            Whole

UnderWay(s) ==
    /\ SegmentOK(s)
    /\ Main \in Active
    /\ \A t \in Active : InSegment(s, t)
    /\ SegmentDone(s)

PInv ==
    /\ PTypeOK
    /\ PlaceInv
    /\ DoneOnce
    /\ Over \/ \E s \in Segments : UnderWay(s)
-----------------------------------------------------------------------------
(* Threads, the graph and the bag of what is done.                         *)

LEMMA ThreadFacts ==
    /\ MaxThreads \in Nat \ {0} /\ Main = 0 /\ Main \in Threads /\ Threads \subseteq Nat
    /\ Threads = Workers \cup {Main} /\ Main \notin Workers
BY BarrierAssumption DEF Main, Threads, Workers

LEMMA ActiveFacts ==
    ASSUME BInv
    PROVE  /\ n_threads \in Nat /\ n_threads <= MaxThreads
           /\ Active \subseteq Threads
           /\ n_threads > 0 <=> Main \in Active
           /\ n_threads = 1 => Active = {Main}
BY ThreadFacts DEF BInv, BTypeOK, Active, Threads

LEMMA NodeFacts ==
    ASSUME PTypeOK
    PROVE  /\ Len(cgraph) \in Nat
           /\ \A n \in 0 .. Len(cgraph) - 1 :
                 /\ Op(n) \in Ops
                 /\ cgraph[n + 1].chunks \in Nat
                 /\ Last(n) \in {n, n + 1}
                 /\ Op(n) = "mul_mat" => Last(n) = n
<1>1. Len(cgraph) \in Nat BY DEF PTypeOK
<1>2. ASSUME NEW n \in 0 .. Len(cgraph) - 1
      PROVE  cgraph[n + 1] \in [op : Ops, chunks : Nat]
  <2>1. n + 1 \in 1 .. Len(cgraph) BY <1>1
  <2>2. \A S : \A q \in Seq(S) : \A i \in 1 .. Len(q) : q[i] \in S OBVIOUS
  <2>3. cgraph \in Seq([op : Ops, chunks : Nat]) BY DEF PTypeOK
  <2>. QED BY <2>1, <2>2, <2>3, Zenon
<1>. QED BY <1>1, <1>2 DEF Op, Last

LEMMA LeastNumber ==
    ASSUME NEW S, S \subseteq Nat, S # {}
    PROVE  \E m \in S : \A k \in S : m <= k
<1>. DEFINE T == {0 .. k - 1 : k \in S}
<1>1. T \subseteq FiniteSubsetsOf(Nat) /\ T # {}
  <2>1. \A k \in S : IsFiniteSet(0 .. k - 1) /\ 0 .. k - 1 \subseteq Nat BY FS_Interval
  <2>. QED BY <2>1, Zenon DEF FiniteSubsetsOf
<1>. HIDE DEF T
<1>2. PICK x \in T : \A y \in T : ~ (<<y, x>> \in StrictSubsetOrdering(Nat))
  <2>1. IsWellFoundedOn(StrictSubsetOrdering(Nat), FiniteSubsetsOf(Nat))
    BY FS_StrictSubsetOrderingWellFounded, Zenon
  <2>. QED BY <1>1, <2>1, WFMin, Zenon
<1>3. PICK m \in S : x = 0 .. m - 1 BY <1>2 DEF T
<1>4. ASSUME NEW k \in S, k < m PROVE FALSE
  <2>1. 0 .. k - 1 \in T BY DEF T
  <2>2. k \in x /\ k \notin 0 .. k - 1 BY <1>3, <1>4
  <2>3. 0 .. k - 1 \subseteq x /\ 0 .. k - 1 # x /\ x \subseteq Nat BY <1>3, <1>4, <2>2
  <2>4. <<0 .. k - 1, x>> \in StrictSubsetOrdering(Nat) BY <2>3 DEF StrictSubsetOrdering
  <2>. QED BY <1>2, <2>1, <2>4
<1>. QED BY <1>4

LEMMA DoFacts ==
    ASSUME DoneOnce, NEW p, p \notin DOMAIN done, Do(p)
    PROVE  DOMAIN done' = DOMAIN done \cup {p} /\ DoneOnce'
BY DEF DoneOnce, Do, (+), SetToBag

LEMMA EmptyFacts == DOMAIN EmptyBag = {}
BY DEF EmptyBag, SetToBag

LEMMA CompleteGrows ==
    ASSUME UNCHANGED <<cgraph, n_threads>>, DOMAIN done \subseteq DOMAIN done',
           NEW n, Complete(n)
    PROVE  Complete(n)'
BY DEF Complete, Pieces, NChunks, Active

-----------------------------------------------------------------------------
(* What a step of the barrier does to who has arrived.                     *)

LEMMA Enters ==
    ASSUME BInv, NEW t \in Threads, Enter(t)
    PROVE  /\ Arrived(t)' /\ n_threads' = n_threads
           /\ \A u \in Threads : u # t => (Arrived(u)' <=> Arrived(u))
BY DEF Enter, Arrived, BInv, BTypeOK

LEMMA MovesInside ==
    ASSUME BInv, NEW t \in Threads, Arrive(t) \/ Reset(t) \/ Leave(t)
    PROVE  /\ n_threads' = n_threads
           /\ \A u \in Threads : Arrived(u)' <=> Arrived(u)
<1>1. CASE Arrive(t) BY <1>1 DEF Arrive, Arrived, BInv, BTypeOK
<1>2. CASE Reset(t) BY <1>2 DEF Reset, Arrived, BInv, BTypeOK
<1>3. CASE Leave(t) BY <1>3 DEF Leave, Arrived, BInv, BTypeOK
<1>. QED BY <1>1, <1>2, <1>3

LEMMA Releases ==
    ASSUME BInv, NEW t \in Threads, Release(t)
    PROVE  /\ n_threads' = n_threads
           /\ \A u \in Active : Arrived(u)
           /\ \A u \in Threads : ~Arrived(u)'
<1>1. Waiting = Active \ {t} /\ n_passed[t] = n_barrier_passed
  BY DEF Release, BInv, CountInv, InsideInv
<1>2. \A u \in Active : Arrived(u) BY <1>1 DEF Release, Waiting, Arrived
<1>3. ASSUME NEW u \in Threads PROVE ~Arrived(u)'
  <2>1. at[u] # "out" => n_passed[u] <= n_barrier_passed
    BY DEF BInv, BTypeOK, InsideInv, Places
  <2>. QED BY <2>1 DEF Release, Arrived, BInv, BTypeOK
<1>. QED BY <1>2, <1>3 DEF Release

LEMMA OutsideBarrier ==
    ASSUME NEW t, NEW p, At(t, p)
    PROVE  pc[t] = p /\ ~Arrived(t)
BY DEF At, Arrived
-----------------------------------------------------------------------------
(* A thread that rests stays where it is in a segment.                     *)

Rests(u) ==
    /\ pc'[u] = pc[u] /\ node_n'[u] = node_n[u] /\ my_chunk'[u] = my_chunk[u]
    /\ Arrived(u)' <=> Arrived(u)
    /\ u # Main => pending'[u] = pending[u] /\ last_graph'[u] = last_graph[u]

LEMMA ChunkCount ==
    ASSUME BInv, PTypeOK, NEW n \in 0 .. Len(cgraph) - 1
    PROVE  NChunks(cgraph[n + 1]) \in Nat /\ NChunks(cgraph[n + 1]) >= n_threads
<1>1. cgraph[n + 1].chunks \in Nat BY NodeFacts
<1>2. n_threads \in Nat BY ActiveFacts
<1>. QED BY <1>1, <1>2 DEF NChunks

LEMMA RestsInSegment ==
    ASSUME BInv, PTypeOK, NEW s \in Segments, SegmentOK(s), NEW u \in Threads, Rests(u),
           UNCHANGED <<cgraph, n_graph, n_threads>>,
           s.kind = "end" => UNCHANGED abort,
           s.kind = "walk" /\ u = Main => UNCHANGED current_chunk,
           s.kind = "product" => current_chunk' \in Nat /\ current_chunk' >= current_chunk
    PROVE  /\ Before(s, u)' <=> Before(s, u)
           /\ InSegment(s, u) => InSegment(s, u)'
<1>1. /\ NotStarted(u)' <=> NotStarted(u)
      /\ HasFinished(u)' <=> HasFinished(u)
  BY DEF NotStarted, HasFinished, Rests
<1>2. Last(s.node)' = Last(s.node) /\ Op(s.node)' = Op(s.node) BY DEF Last, Op
<1>3. /\ Walking(s, u)' <=> Walking(s, u)
      /\ Before(s, u)' <=> Before(s, u)
  BY <1>1 DEF Walking, Before, Rests
<1>4. Ended(u)' <=> Ended(u) BY <1>1 DEF Ended, Rests
<1>5. Gone(s, u)' <=> Gone(s, u) BY <1>2, <1>4 DEF Gone, Rests
<1>6. Through(s, u)' <=> Through(s, u) BY <1>2, <1>5 DEF Through, Rests
<1>7. ASSUME InSegment(s, u) PROVE InSegment(s, u)'
  <2>1. CASE s.kind = "walk" /\ Op(s.node) # "mul_mat"
    BY <1>2, <1>3, <1>6, <1>7, <2>1 DEF InSegment, Rests
  <2>2. CASE s.kind = "walk" /\ Op(s.node) = "mul_mat"
    BY <1>2, <1>3, <1>7, <2>2 DEF InSegment, Rests
  <2>3. CASE s.kind = "product"
    <3>1. NChunks(cgraph[s.node + 1])' = NChunks(cgraph[s.node + 1]) BY DEF NChunks
    <3>2. current_chunk \in Nat BY DEF PTypeOK
    <3>3. NChunks(cgraph[s.node + 1]) \in Nat
      BY <2>3, ChunkCount, NodeFacts DEF SegmentOK, Segments
    <3>. QED BY <1>2, <1>6, <1>7, <2>3, <3>1, <3>2, <3>3 DEF InSegment, Rests
  <2>4. CASE s.kind = "end"
    BY <1>3, <1>4, <1>7, <2>4 DEF InSegment, Rests
  <2>. QED BY <2>1, <2>2, <2>3, <2>4 DEF Segments
<1>. QED BY <1>3, <1>7

LEMMA DoneRests ==
    ASSUME UNCHANGED <<cgraph, n_threads, done>>, NEW s \in Segments, SegmentDone(s),
           s.kind = "end" => UNCHANGED abort,
           s.kind = "walk" => \A u \in Active : Before(s, u)' <=> Before(s, u),
           s.kind = "product" =>
              /\ UNCHANGED current_chunk
              /\ \A u \in Active : /\ pc'[u] = "chunk" <=> pc[u] = "chunk"
                                   /\ my_chunk'[u] = my_chunk[u]
    PROVE  SegmentDone(s)'
<1>1. /\ Active' = Active /\ ComputedNodes' = ComputedNodes
      /\ \A n : NChunks(cgraph[n + 1])' = NChunks(cgraph[n + 1])
      /\ \A n : Pieces(n)' = Pieces(n)
      /\ \A t : Share(s.node, t)' = Share(s.node, t)
  BY DEF Active, ComputedNodes, NChunks, Pieces, Share, Op
<1>2. \A n : Complete(n)' <=> Complete(n) BY <1>1 DEF Complete
<1>3. CASE s.kind = "walk" BY <1>1, <1>2, <1>3 DEF SegmentDone
<1>4. CASE s.kind = "product"
  <2>1. ChunkInv(s) BY <1>4 DEF SegmentDone
  <2>2. {t \in Active : pc[t] = "chunk"}' = {t \in Active : pc[t] = "chunk"} BY <1>1, <1>4
  <2>3. ChunkInv(s)' BY <1>1, <1>4, <2>1, <2>2 DEF ChunkInv
  <2>. QED BY <1>1, <1>2, <1>4, <2>3 DEF SegmentDone
<1>5. CASE s.kind = "end" BY <1>1, <1>2, <1>5 DEF SegmentDone, Whole
<1>. QED BY <1>3, <1>4, <1>5 DEF Segments

\* One thread moves within a segment.
LEMMA OneMoves ==
    ASSUME BInv, PTypeOK, NEW s \in Segments, UnderWay(s), NEW t \in Active,
           UNCHANGED <<cgraph, n_graph, n_threads>>,
           \A u \in Active \ {t} : Rests(u),
           s.kind = "end" => UNCHANGED abort,
           s.kind = "walk" => t = Main \/ UNCHANGED current_chunk,
           s.kind = "product" => current_chunk' \in Nat /\ current_chunk' >= current_chunk,
           SegmentOK(s)', InSegment(s, t)', SegmentDone(s)'
    PROVE  UnderWay(s)'
<1>1. Active' = Active /\ Active \subseteq Threads BY ActiveFacts DEF Active
<1>2. ASSUME NEW u \in Active, u # t PROVE InSegment(s, u)'
  BY <1>1, <1>2, RestsInSegment DEF UnderWay
<1>. QED BY <1>1, <1>2 DEF UnderWay
-----------------------------------------------------------------------------
(* How a segment begins, and what is complete when one ends.               *)

Ready(f) ==
    /\ PTypeOK /\ PlaceInv /\ Main \in Active /\ Active \subseteq Threads
    /\ abort \in {-1, f}
    /\ \A t \in Active : ~Arrived(t)
    /\ \A t \in Active : (NotStarted(t) /\ f = 0) \/ (pc[t] = "node" /\ node_n[t] = f)
    /\ \A n \in ComputedNodes : n < f => Complete(n)
    /\ \A p \in DOMAIN done : p[1] < f /\ Complete(p[1])

LEMMA SegmentBegins ==
    \A f \in Nat : Ready(f) => \E s \in Segments : UnderWay(s)
<1>. SUFFICES ASSUME NEW f \in Nat, Ready(f) PROVE \E s \in Segments : UnderWay(s)
  OBVIOUS
<1>. DEFINE S == {n \in f .. Len(cgraph) - 1 : Op(n) # "empty"}
<1>1. /\ Len(cgraph) \in Nat /\ abort \in Int
      /\ \A n \in 0 .. Len(cgraph) - 1 : Last(n) \in {n, n + 1}
  BY NodeFacts DEF Ready, PTypeOK
<1>2. ASSUME NEW t \in Active
      PROVE  /\ NotStarted(t) => pc[t] \notin InGraph \cup {"callback"} /\ node_n[t] = 0
             /\ ~Arrived(t) /\ node_n[t] = f
             /\ (NotStarted(t) /\ f = 0) \/ pc[t] = "node"
  <2>1. NotStarted(t) => pc[t] \notin InGraph \cup {"callback"}
    <3>1. t = Main \/ t \in Workers BY ThreadFacts DEF Ready
    <3>. QED BY <3>1, ThreadFacts DEF Ready, NotStarted, PlaceInv, InGraph, Between
  <2>2. t \in Threads BY DEF Ready
  <2>. QED BY <2>1, <2>2 DEF Ready, PlaceInv
<1>3. CASE abort = f \/ S = {}
  <2>. DEFINE s == [kind |-> "end", first |-> f, node |-> 0]
  <2>1. s \in Segments /\ s.kind = "end" /\ s.first = f BY DEF Segments
  <2>. HIDE DEF s
  <2>2. SegmentOK(s) BY <1>3, <2>1 DEF SegmentOK
  <2>3. ASSUME NEW t \in Active PROVE InSegment(s, t)
    BY <1>2, <2>1 DEF InSegment, Walking
  <2>4. Whole
    <3>1. ASSUME abort = -1, NEW n \in ComputedNodes PROVE Complete(n)
      <4>1. S = {} BY <1>3, <3>1
      <4>2. n \in 0 .. Len(cgraph) - 1 /\ Op(n) # "empty" BY DEF ComputedNodes, Op
      <4>3. n < f BY <1>1, <4>1, <4>2
      <4>. QED BY <4>3 DEF Ready
    <3>. QED BY <3>1 DEF Whole, Ready
  <2>5. SegmentDone(s) BY <2>1, <2>4 DEF SegmentDone
  <2>. QED BY <2>1, <2>2, <2>3, <2>5 DEF UnderWay, Ready
<1>4. CASE abort # f /\ S # {}
  <2>1. S \subseteq Nat BY <1>1
  <2>2. PICK m \in S : \A k \in S : m <= k BY <1>4, <2>1, LeastNumber
  <2>. DEFINE s == [kind |-> "walk", first |-> f, node |-> m]
  <2>3. s \in Segments /\ s.kind = "walk" /\ s.first = f /\ s.node = m BY <2>1 DEF Segments
  <2>. HIDE DEF s
  <2>4. m \in f .. Len(cgraph) - 1 /\ m \in Nat /\ Op(m) # "empty" /\ abort = -1
    BY <1>1, <1>4 DEF Ready
  <2>5. \A n \in f .. m - 1 : Op(n) = "empty" BY <1>1, <2>2, <2>4
  <2>6. SegmentOK(s) BY <2>3, <2>4, <2>5 DEF SegmentOK
  <2>7. \A t \in Active : Before(s, t) BY <1>2, <2>3, <2>4 DEF Before, Walking
  <2>8. ASSUME NEW t \in Active PROVE InSegment(s, t)
    BY <1>2, <2>3, <2>7 DEF InSegment
  <2>9. SegmentDone(s)
    <3>1. \A n \in ComputedNodes : n < m => Complete(n)
      <4>. SUFFICES ASSUME NEW n \in ComputedNodes, n < m PROVE n < f
        BY DEF Ready
      <4>1. n \in 0 .. Len(cgraph) - 1 /\ Op(n) # "empty" BY DEF ComputedNodes, Op
      <4>. QED BY <1>1, <2>4, <2>5, <4>1
    <3>2. \A p \in DOMAIN done : p[1] < m /\ Complete(p[1])
      <4>. SUFFICES ASSUME NEW p \in DOMAIN done PROVE p[1] < m
        BY DEF Ready
      <4>1. p[1] < f /\ p[1] \in Nat BY DEF Ready, PTypeOK
      <4>. QED BY <4>1, <2>4
    <3>3. ASSUME NEW t \in Active PROVE Share(m, t) \notin DOMAIN done
      <4>1. Share(m, t)[1] = m BY DEF Share, Piece
      <4>. QED BY <3>2, <2>4, <4>1
    <3>. QED BY <2>3, <2>7, <3>1, <3>2, <3>3 DEF SegmentDone
  <2>. QED BY <2>3, <2>6, <2>8, <2>9 DEF UnderWay, Ready
<1>. QED BY <1>3, <1>4

\* A product is converted by all: its chunks may begin.
Converted(n) ==
    /\ PTypeOK /\ Main \in Active /\ n_threads \in Nat
    /\ n < Len(cgraph) /\ Op(n) = "mul_mat" /\ abort = -1
    /\ current_chunk = n_threads
    /\ \A t \in Active : ~Arrived(t)
    /\ \A t \in Active : pc[t] = "chunk" /\ node_n[t] = n /\ my_chunk[t] = t
    /\ \A k \in ComputedNodes : k < n => Complete(k)
    /\ \A p \in DOMAIN done :
          (p[1] < n /\ Complete(p[1])) \/ \E t \in Active : p = Share(n, t)
    /\ \A t \in Active : Share(n, t) \in DOMAIN done

LEMMA ProductBegins ==
    \A n \in Nat : Converted(n) => \E s \in Segments : UnderWay(s)
<1>. SUFFICES ASSUME NEW n \in Nat, Converted(n) PROVE \E s \in Segments : UnderWay(s)
  OBVIOUS
<1>. DEFINE s == [kind |-> "product", first |-> 0, node |-> n]
<1>1. s \in Segments /\ s.kind = "product" /\ s.node = n BY DEF Segments
<1>. HIDE DEF s
<1>2. SegmentOK(s) BY <1>1 DEF SegmentOK, Converted
<1>3. \A t \in Active : InSegment(s, t) BY <1>1 DEF InSegment, Converted
<1>4. \A t \in Active : Share(n, t) = Piece(n, "convert", t) BY DEF Share, Converted
<1>5. \A t \in Active : Share(n, t) \in Pieces(n)
  BY <1>4 DEF Pieces, Converted, Op
<1>6. ASSUME NEW i \in Nat
      PROVE  Piece(n, "chunk", i) \notin DOMAIN done
  <2>1. \A t : Piece(n, "chunk", i) # Piece(n, "convert", t) BY DEF Piece
  <2>2. ~(Piece(n, "chunk", i)[1] < n) BY DEF Piece
  <2>. QED BY <1>4, <2>1, <2>2 DEF Converted
<1>7. ChunkInv(s)
  <2>. DEFINE N == NChunks(cgraph[n + 1])
              H == {t \in Active : pc[t] = "chunk"}
  <2>1. H = Active /\ current_chunk = n_threads BY DEF Converted
  <2>2. \A t \in H : my_chunk[t] = t /\ t < n_threads /\ t \in Nat
    BY <2>1 DEF Converted, Active
  <2>3. ASSUME NEW i \in 0 .. N - 1
        PROVE  i >= current_chunk \/ \E t \in H : my_chunk[t] = i
    <3>1. i < n_threads => i \in Active BY <2>1 DEF Active, Converted
    <3>. QED BY <2>1, <3>1 DEF Converted
  <2>. QED BY <1>1, <1>6, <2>1, <2>2, <2>3 DEF ChunkInv, Converted
<1>8. SegmentDone(s) BY <1>1, <1>5, <1>7 DEF SegmentDone, Converted
<1>. QED BY <1>1, <1>2, <1>3, <1>8 DEF UnderWay, Converted

\* When all are through with the node of a segment, it is complete.
LEMMA SegmentCompletes ==
    ASSUME BInv, PTypeOK, PlaceInv, NEW s \in Segments, UnderWay(s), s.kind # "end",
           \A t \in Active : Through(s, t)
    PROVE  LET next == Last(s.node) + 1
           IN  /\ next \in Nat /\ abort \in {-1, next}
               /\ \A n \in ComputedNodes : n < next => Complete(n)
               /\ \A p \in DOMAIN done : p[1] < next /\ Complete(p[1])
               /\ next < Len(cgraph) \/ Whole
<1>. DEFINE k == s.node
            next == Last(k) + 1
<1>1. /\ k \in 0 .. Len(cgraph) - 1 /\ Len(cgraph) \in Nat /\ Last(k) \in {k, k + 1}
      /\ Op(k) # "empty"
  BY NodeFacts DEF UnderWay, SegmentOK, Segments
<1>2. abort \in {-1, next} BY <1>1, NodeFacts DEF UnderWay, SegmentOK, Segments
<1>3. \A t \in Active : /\ pc[t] \notin {"compute", "counter", "chunk", "steal"}
                        /\ ~Before(s, t)
  <2>. SUFFICES ASSUME NEW t \in Active
                PROVE  pc[t] \notin {"compute", "counter", "chunk", "steal"} /\ ~Before(s, t)
    OBVIOUS
  <2>1. Through(s, t) /\ t \in Threads BY ActiveFacts
  <2>2. node_n[t] \in Nat BY <2>1 DEF PTypeOK
  <2>3. CASE pc[t] \in {"callback", "sync"}
    <3>1. t \in Workers => pc[t] # "callback"
      BY ThreadFacts DEF PlaceInv, InGraph, Between
    <3>2. ~NotStarted(t) BY <2>1, <2>3, <3>1, ThreadFacts DEF NotStarted, InGraph
    <3>. QED BY <2>3, <3>2 DEF Before, Walking
  <2>4. CASE pc[t] \in {"node", "last_barrier"} /\ node_n[t] = next
    <3>1. ~NotStarted(t) BY <2>4 DEF NotStarted, InGraph
    <3>. QED BY <2>4, <3>1, <1>1 DEF Before, Walking
  <2>5. CASE HasFinished(t)
    <3>1. ~NotStarted(t) BY <2>5 DEF NotStarted, HasFinished
    <3>2. pc[t] \notin InGraph BY <2>5 DEF HasFinished, InGraph
    <3>. QED BY <3>1, <3>2 DEF Before, Walking, InGraph
  <2>6. pc[t] \in {"callback", "sync"} \/ (pc[t] \in {"node", "last_barrier"} /\ node_n[t] = next)
           \/ HasFinished(t)
    BY <2>1 DEF Through, Gone, Ended
  <2>. QED BY <2>3, <2>4, <2>5, <2>6
<1>7. \A n \in ComputedNodes : next < Len(cgraph) \/ n < next
  BY <1>1 DEF ComputedNodes
<1>6. /\ next \in Nat
      /\ \A n \in ComputedNodes : n < next => n < k \/ n = k
      /\ \A n : n \in Nat /\ (n < k \/ n = k) => n < next
      /\ \A p \in DOMAIN done : p[1] \in Nat
  <2>1. ASSUME NEW n \in ComputedNodes, n < next PROVE n < k \/ n = k
    <3>1. n \in 0 .. Len(cgraph) - 1 /\ (n > 0 => Op(n - 1) # "fused")
      BY <1>1 DEF ComputedNodes, Op
    <3>2. Op(k) = "fused" => n # k + 1 BY <1>1, <3>1
    <3>. QED BY <1>1, <2>1, <3>1, <3>2 DEF Last
  <2>2. \A p \in DOMAIN done : p[1] \in Nat BY DEF PTypeOK
  <2>. QED BY <1>1, <2>1, <2>2
<1>4. CASE s.kind = "walk"
  <2>1. Op(k) # "mul_mat"
    <3>1. InSegment(s, Main) /\ Through(s, Main) BY DEF UnderWay
    <3>. QED BY <1>3, <1>4, <3>1 DEF InSegment, UnderWay
  <2>2. Pieces(k) = {Share(k, t) : t \in Active} BY <2>1 DEF Pieces, Share, Op
  <2>3. Complete(k) BY <1>3, <1>4, <2>2 DEF Complete, UnderWay, SegmentDone
  <2>4. \A p \in DOMAIN done : (p[1] < k \/ p[1] = k) /\ Complete(p[1])
    BY <1>4, <2>3 DEF UnderWay, SegmentDone, Share, Piece
  <2>5. \A n \in ComputedNodes : n < k => Complete(n) BY <1>4 DEF UnderWay, SegmentDone
  <2>6. \A n \in ComputedNodes : n < next => Complete(n) BY <1>6, <2>3, <2>5
  <2>. QED BY <1>2, <1>6, <1>7, <2>4, <2>6 DEF Whole
<1>5. CASE s.kind = "product"
  <2>. DEFINE N == NChunks(cgraph[k + 1])
  <2>1. Op(k) = "mul_mat" /\ ChunkInv(s) BY <1>5 DEF UnderWay, SegmentOK, SegmentDone
  <2>2. N \in Nat /\ current_chunk \in Nat BY <1>1, ChunkCount DEF PTypeOK
  <2>3. current_chunk >= N
    BY <1>3, <1>5 DEF UnderWay, InSegment
  <2>. HIDE DEF N
  <2>4. \A i \in 0 .. N - 1 : Piece(k, "chunk", i) \in DOMAIN done
    BY <1>3, <2>1, <2>2, <2>3 DEF ChunkInv, N
  <2>5. \A t \in Active : Piece(k, "convert", t) \in DOMAIN done
    BY <1>5, <2>1 DEF UnderWay, SegmentDone, Share
  <2>6. Complete(k) BY <2>1, <2>4, <2>5 DEF Complete, Pieces, Op, N
  <2>7. \A p \in Pieces(k) : p[1] = k BY <2>1 DEF Pieces, Piece, Op
  <2>8. \A p \in DOMAIN done : (p[1] < k \/ p[1] = k) /\ Complete(p[1])
    BY <1>5, <2>6, <2>7 DEF UnderWay, SegmentDone
  <2>9. \A n \in ComputedNodes : n < k => Complete(n) BY <1>5 DEF UnderWay, SegmentDone
  <2>10. \A n \in ComputedNodes : n < next => Complete(n) BY <1>6, <2>6, <2>9
  <2>. QED BY <1>2, <1>6, <1>7, <2>8, <2>10 DEF Whole
<1>. QED BY <1>4, <1>5 DEF Segments
-----------------------------------------------------------------------------
(* While a graph is under way the main thread computes it too.             *)

LEMMA MainIsBusy ==
    ASSUME NEW s \in Segments, UnderWay(s)
    PROVE  pc[Main] \in InGraph \cup {"callback", "signal"} \/ Ended(Main)
<1>1. InSegment(s, Main) BY DEF UnderWay
<1>2. Walking(s, Main) => pc[Main] \in {"node", "signal"} BY DEF Walking, NotStarted
<1>3. Before(s, Main) => pc[Main] \in {"node", "signal", "compute"} BY <1>2 DEF Before
<1>4. Through(s, Main) => pc[Main] \in {"node", "last_barrier", "callback", "sync"} \/ Ended(Main)
  BY DEF Through, Gone
<1>. QED BY <1>1, <1>2, <1>3, <1>4 DEF InSegment, InGraph

\* A thread at a place of the computation is in a segment, and has not arrived.
LEMMA InSomeSegment ==
    ASSUME BInv, PInv, NEW t \in Threads, NEW p \in InGraph \cup {"callback", "signal"},
           At(t, p), p \in {"callback", "signal"} => t = Main
    PROVE  /\ t \in Active
           /\ ~Arrived(t)
           /\ \E s \in Segments : UnderWay(s) /\ InSegment(s, t)
<1>1. pc[t] = p /\ ~Arrived(t) BY OutsideBarrier
<1>2. t \in Workers => t \in Active /\ p \in InGraph
  BY <1>1, ThreadFacts DEF PInv, PlaceInv
<1>3. ~Over
  <2>1. CASE t = Main BY <1>1, <2>1 DEF Over, Outside, InGraph
  <2>2. CASE t \in Workers
    <3>1. t \in Active \ {Main} BY <1>2, <2>2, ThreadFacts
    <3>. QED BY <1>1, <1>2, <2>2, <3>1 DEF Over, HasFinished
  <2>. QED BY <2>1, <2>2, ThreadFacts
<1>4. PICK s \in Segments : UnderWay(s) BY <1>3 DEF PInv
<1>5. t \in Active BY <1>2, <1>4, ThreadFacts DEF UnderWay
<1>. QED BY <1>1, <1>4, <1>5 DEF UnderWay

\* The main thread between graphs.
LEMMA MainIsOutside ==
    ASSUME PInv, At(Main, "idle") \/ At(Main, "kickoff") \/ At(Main, "computed")
                 \/ At(Main, "join") \/ At(Main, "freed")
    PROVE  Over
<1>1. pc[Main] \notin InGraph \cup {"callback", "signal"} /\ ~Arrived(Main)
  BY OutsideBarrier DEF At, InGraph, Arrived
<1>2. ~\E s \in Segments : UnderWay(s) BY <1>1, MainIsBusy DEF Ended
<1>. QED BY <1>2 DEF PInv

LEMMA NobodyComputes ==
    ASSUME BInv, PInv, Over
    PROVE  \A w \in Workers : pc[w] \notin InGraph /\ ~pending[w]
<1>1. \A w \in Workers : w \in Active => w \in Active \ {Main} BY ThreadFacts
<1>. QED BY <1>1 DEF Over, HasFinished, PInv, PlaceInv, Main, Workers
-----------------------------------------------------------------------------
(* Types and places.                                                       *)

LEMMA DoDomain ==
    ASSUME NEW p, Do(p)
    PROVE  DOMAIN done' = DOMAIN done \cup {p}
BY DEF Do, (+), SetToBag

LEMMA WorkerKeepsType ==
    ASSUME BInv, PTypeOK, NEW w \in Workers, WorkerStep(w) \/ SpuriousWakeup(w)
    PROVE  PTypeOK'
<1>. USE DEF At, Goto, poolVars, localVars, InGraph, Between, Outside
<1>1. w \in Threads BY ThreadFacts
<1>2. /\ UNCHANGED <<cgraph, n_graph, current_chunk, abort, node_n, my_chunk, done>>
      /\ pc' \in [Threads -> InGraph \cup Between \cup Outside \cup {"callback"}]
  <2>1. CASE CheckPause(w) BY <1>1, <2>1 DEF CheckPause, WorkerGoes, PTypeOK
  <2>2. CASE CheckStop(w) BY <1>1, <2>2 DEF CheckStop, WorkerGoes, PTypeOK
  <2>3. CASE PauseWait(w) BY <1>1, <2>3 DEF PauseWait, WorkerGoes, PTypeOK
  <2>4. CASE PauseWoken(w) BY <1>1, <2>4 DEF PauseWoken, WorkerGoes, PTypeOK
  <2>5. CASE PollFlags(w) BY <1>1, <2>5 DEF PollFlags, WorkerGoes, PTypeOK
  <2>6. CASE PollGraph(w) BY <1>1, <2>6 DEF PollGraph, PTypeOK
  <2>7. CASE WaitForWork(w) BY <1>1, <2>7 DEF WaitForWork, PTypeOK
  <2>8. CASE StartWork(w) BY <1>1, <2>8 DEF StartWork, PTypeOK
  <2>9. CASE SpuriousWakeup(w) BY <1>1, <2>9 DEF SpuriousWakeup, PTypeOK
  <2>. QED BY <2>1, <2>2, <2>3, <2>4, <2>5, <2>6, <2>7, <2>8, <2>9 DEF WorkerStep
<1>3. pending' \in [Workers -> BOOLEAN] /\ last_graph' \in [Workers -> Nat]
  <2>1. TakeGraph(w) => pending' \in [Workers -> BOOLEAN] /\ last_graph' \in [Workers -> Nat]
    BY DEF TakeGraph, PTypeOK
  <2>. QED BY <2>1 DEF WorkerStep, CheckPause, CheckStop, PauseWait, PauseWoken, PollFlags,
         PollGraph, WaitForWork, StartWork, SpuriousWakeup, WorkerGoes, PTypeOK
<1>. QED BY <1>2, <1>3 DEF PTypeOK

LEMMA ComputeKeepsType ==
    ASSUME BInv, PTypeOK, NEW t \in Threads, ComputeStep(t)
    PROVE  PTypeOK'
<1>. USE DEF At, Goto, poolVars, syncVars, localVars, InGraph, Between, Outside
<1>1. UNCHANGED <<cgraph, n_graph, pending, last_graph>>
  BY DEF ComputeStep, NextNode, ComputeShare, Convert, SetCounter, ComputeChunk, StealChunk,
         Synchronize, LastBarrier, BarrierStep, Computes
<1>2. abort' = abort
  BY DEF ComputeStep, NextNode, ComputeShare, Convert, SetCounter, ComputeChunk, StealChunk,
         Synchronize, LastBarrier, BarrierStep
<1>3. /\ pc' \in [Threads -> InGraph \cup Between \cup Outside \cup {"callback"}]
      /\ node_n' \in [Threads -> Nat] /\ my_chunk' \in [Threads -> Nat]
      /\ current_chunk' \in Nat
  <2>1. n_threads \in Nat /\ t \in Nat BY ActiveFacts, ThreadFacts
  <2>2. CASE NextNode(t)
    <3>1. /\ node_n' = [node_n EXCEPT ![t] = @ + 1] \/ node_n' = node_n
          /\ pc' = pc \/ (\E q \in {"compute", "last_barrier"} : Goto(t, q))
          /\ my_chunk' = my_chunk /\ current_chunk' = current_chunk
      BY <2>2, Zenon DEF NextNode
    <3>2. pc' \in [Threads -> InGraph \cup Between \cup Outside \cup {"callback"}]
      BY <3>1 DEF PTypeOK
    <3>3. node_n' \in [Threads -> Nat]
      <4>1. node_n \in [Threads -> Nat] BY DEF PTypeOK
      <4>2. [node_n EXCEPT ![t] = @ + 1] \in [Threads -> Nat] BY <4>1
      <4>. QED BY <3>1, <4>1, <4>2, Zenon
    <3>. QED BY <3>1, <3>2, <3>3 DEF PTypeOK
  <2>3. CASE ComputeShare(t) BY <2>3 DEF ComputeShare, AfterNode, PTypeOK
  <2>4. CASE Convert(t) BY <2>4 DEF Convert, PTypeOK
  <2>5. CASE SetCounter(t) BY <2>1, <2>5 DEF SetCounter, CallBarrier, PTypeOK
  <2>6. CASE ComputeChunk(t) BY <2>6 DEF ComputeChunk, AfterNode, PTypeOK
  <2>7. CASE StealChunk(t) BY <2>7 DEF StealChunk, PTypeOK
  <2>8. CASE Synchronize(t)
    <3>1. /\ node_n' = [node_n EXCEPT ![t] = @ + 1] /\ Goto(t, "node")
          /\ my_chunk' = my_chunk /\ current_chunk' = current_chunk
      BY <2>8, Zenon DEF Synchronize, CallBarrier
    <3>. QED BY <3>1 DEF PTypeOK
  <2>9. CASE LastBarrier(t) BY <2>9 DEF LastBarrier, CallBarrier, PTypeOK
  <2>10. CASE BarrierStep(t) BY <2>10 DEF BarrierStep, PTypeOK
  <2>. QED BY <2>2, <2>3, <2>4, <2>5, <2>6, <2>7, <2>8, <2>9, <2>10 DEF ComputeStep
<1>4. \A p \in DOMAIN done' : p[1] \in Nat
  <2>1. \A kind, i : Piece(node_n[t], kind, i)[1] = node_n[t] BY DEF Piece
  <2>2. \A kind, i : Do(Piece(node_n[t], kind, i)) =>
              DOMAIN done' = DOMAIN done \cup {Piece(node_n[t], kind, i)}
    BY DoDomain
  <2>3. done' = done \/ \E kind, i : Do(Piece(node_n[t], kind, i))
    BY DEF ComputeStep, NextNode, ComputeShare, Convert, SetCounter, ComputeChunk, StealChunk,
           Synchronize, LastBarrier, BarrierStep
  <2>4. node_n[t] \in Nat /\ \A p \in DOMAIN done : p[1] \in Nat BY DEF PTypeOK
  <2>. QED BY <2>1, <2>2, <2>3, <2>4, Zenon
<1>. QED BY <1>1, <1>2, <1>3, <1>4 DEF PTypeOK

LEMMA StepKeepsType ==
    ASSUME BInv, PTypeOK, [Next]_vars
    PROVE  PTypeOK'
<1>. USE DEF At, Goto, poolVars, syncVars, localVars, InGraph, Between, Outside
<1>1. CASE MainStep
  <2>1. Main \in Threads BY ThreadFacts
  <2>2. CASE GraphCompute
    <3>1. cgraph' \in Seq([op : Ops, chunks : Nat])
      BY <2>2, ThreadpoolAssumption, Zenon DEF GraphCompute
    <3>. QED BY <2>1, <2>2, <3>1 DEF GraphCompute, PTypeOK
  <2>3. CASE Kickoff BY <2>1, <2>3 DEF Kickoff, PTypeOK
  <2>4. CASE Signal BY <2>1, <2>4 DEF Signal, PTypeOK
  <2>5. CASE Return BY <2>1, <2>5, EmptyFacts DEF Return, PTypeOK
  <2>6. CASE PauseOrResume BY <2>1, <2>6 DEF PauseOrResume, PTypeOK
  <2>7. CASE Free BY <2>1, <2>7 DEF Free, PTypeOK
  <2>8. CASE Join BY <2>1, <2>8 DEF Join, PTypeOK
  <2>. QED BY <1>1, <2>2, <2>3, <2>4, <2>5, <2>6, <2>7, <2>8 DEF MainStep
<1>2. CASE AbortCallback BY <1>2, ThreadFacts DEF AbortCallback, Computes, PTypeOK
<1>3. CASE \E w \in Workers : WorkerStep(w) \/ SpuriousWakeup(w)
  BY <1>3, WorkerKeepsType
<1>4. CASE \E t \in Threads : ComputeStep(t) BY <1>4, ComputeKeepsType
<1>5. CASE UNCHANGED vars BY <1>5 DEF vars, PTypeOK
<1>. QED BY <1>1, <1>2, <1>3, <1>4, <1>5 DEF Next, Finished

\* What one step of a worker between graphs does to it and to the others.
LEMMA WorkerSteps ==
    ASSUME BInv, PTypeOK, PlaceInv, NEW w \in Workers, WorkerStep(w) \/ SpuriousWakeup(w)
    PROVE  /\ UNCHANGED <<barrierVars, poolVars, mutex, node_n, my_chunk, done>>
           /\ \A u \in Threads \ {w} : pc'[u] = pc[u]
           /\ \A u \in Workers \ {w} : pending'[u] = pending[u] /\ last_graph'[u] = last_graph[u]
           /\ \/ /\ pc'[w] = pc[w] \/ (pc[w] \in Between /\ pc'[w] \in Between \ {"work"})
                 /\ pending'[w] = pending[w] /\ last_graph'[w] = last_graph[w]
                 /\ pc[w] = "work" => pc'[w] = "work"
              \/ /\ pc[w] = "lock" /\ pc'[w] = "work" /\ UNCHANGED <<pending, last_graph>>
              \/ /\ pc[w] \in {"poll_graph", "lock"} /\ last_graph[w] # n_graph
                 /\ last_graph'[w] = n_graph /\ (pending'[w] <=> w \in Active)
                 /\ pc'[w] \in {"work", "lock"} /\ (pending'[w] => pc'[w] = "work")
              \/ /\ pc[w] = "work" /\ pending'[w] = FALSE /\ last_graph'[w] = last_graph[w]
                 /\ pc'[w] = IF pending[w] THEN "node" ELSE "top"
<1>. USE DEF At, Goto, localVars
<1>1. w \in Threads BY ThreadFacts
<1>2. pc \in [Threads -> InGraph \cup Between \cup Outside \cup {"callback"}]
      /\ pending \in [Workers -> BOOLEAN] /\ last_graph \in [Workers -> Nat]
  BY DEF PTypeOK
<1>3. TakeGraph(w) => /\ last_graph'[w] = n_graph /\ (pending'[w] <=> w \in Active)
                      /\ \A u \in Workers \ {w} : /\ pending'[u] = pending[u]
                                                  /\ last_graph'[u] = last_graph[u]
  <2>1. w < n_threads <=> w \in Active BY <1>1, ThreadFacts, ActiveFacts DEF Active
  <2>. QED BY <1>2, <2>1, Zenon DEF TakeGraph
<1>4. CASE CheckPause(w) BY <1>1, <1>2, <1>4 DEF CheckPause, WorkerGoes, Between
<1>5. CASE CheckStop(w) BY <1>1, <1>2, <1>5 DEF CheckStop, WorkerGoes, Between
<1>6. CASE PauseWait(w) BY <1>1, <1>2, <1>6 DEF PauseWait, WorkerGoes, Between
<1>7. CASE PauseWoken(w) BY <1>1, <1>2, <1>7 DEF PauseWoken, WorkerGoes, Between
<1>8. CASE PollFlags(w) BY <1>1, <1>2, <1>8 DEF PollFlags, WorkerGoes, Between
<1>9. CASE PollGraph(w)
  <2>1. CASE n_graph # last_graph[w]
    <3>1. TakeGraph(w) /\ Goto(w, IF w \in Active THEN "work" ELSE "lock")
      <4>1. w \in Nat /\ n_threads \in Nat BY <1>1, ThreadFacts, ActiveFacts
      <4>. QED BY <1>9, <2>1, <4>1 DEF PollGraph, Active
    <3>. QED BY <1>1, <1>2, <1>3, <1>9, <2>1, <3>1 DEF PollGraph
  <2>2. CASE n_graph = last_graph[w]
    BY <1>1, <1>2, <1>9, <2>2 DEF PollGraph, Between
  <2>. QED BY <2>1, <2>2
<1>10. CASE WaitForWork(w)
  <2>1. CASE Flagged(w) BY <1>1, <1>2, <1>10, <2>1 DEF WaitForWork
  <2>2. CASE ~Flagged(w) /\ n_graph # last_graph[w]
    BY <1>1, <1>2, <1>3, <1>10, <2>2 DEF WaitForWork
  <2>3. CASE ~Flagged(w) /\ n_graph = last_graph[w]
    <3>1. UNCHANGED <<barrierVars, poolVars, mutex, pc, pending, last_graph, node_n, my_chunk, done>>
      BY <1>10, <2>3 DEF WaitForWork
    <3>. QED BY <3>1
  <2>. QED BY <2>1, <2>2, <2>3
<1>11. CASE StartWork(w) BY <1>1, <1>2, <1>11 DEF StartWork
<1>12. CASE SpuriousWakeup(w)
  <2>1. UNCHANGED <<barrierVars, poolVars, mutex, pc, pending, last_graph, node_n, my_chunk, done>>
    BY <1>12 DEF SpuriousWakeup
  <2>. QED BY <2>1
<1>. QED BY <1>4, <1>5, <1>6, <1>7, <1>8, <1>9, <1>10, <1>11, <1>12 DEF WorkerStep

LEMMA WorkerKeepsPlace ==
    ASSUME BInv, PTypeOK, PlaceInv, NEW w \in Workers, WorkerStep(w) \/ SpuriousWakeup(w)
    PROVE  PlaceInv'
<1>1. UNCHANGED <<n_graph, node_n, n_threads>> /\ Active' = Active
  BY WorkerSteps DEF barrierVars, poolVars, Active
<1>2. n_graph \in Nat /\ last_graph[w] \in Nat /\ Main # w /\ w \in Threads
  BY ThreadFacts DEF PTypeOK
<1>3. ASSUME NEW u \in Threads, u # w
      PROVE  /\ pc'[u] = pc[u]
             /\ u \in Workers => pending'[u] = pending[u] /\ last_graph'[u] = last_graph[u]
  BY <1>3, WorkerSteps
<1>4. /\ pc'[w] \in InGraph \cup Between
      /\ last_graph'[w] <= n_graph
      /\ pc'[w] \in InGraph => w \in Active /\ last_graph'[w] = n_graph
      /\ pending'[w] => pc'[w] = "work" /\ w \in Active /\ last_graph'[w] = n_graph
      /\ pc'[w] \notin InGraph \cup {"callback"} => node_n[w] = 0
  <2>1. pc[w] \in InGraph \cup Between /\ last_graph[w] <= n_graph
        /\ (pc[w] \in InGraph => w \in Active /\ last_graph[w] = n_graph)
        /\ (pending[w] => pc[w] = "work" /\ w \in Active /\ last_graph[w] = n_graph)
        /\ (pc[w] \notin InGraph \cup {"callback"} => node_n[w] = 0)
    BY <1>2 DEF PlaceInv
  <2>2. CASE /\ pc'[w] = pc[w] \/ (pc[w] \in Between /\ pc'[w] \in Between \ {"work"})
             /\ pending'[w] = pending[w] /\ last_graph'[w] = last_graph[w]
             /\ pc[w] = "work" => pc'[w] = "work"
    BY <2>1, <2>2, Zenon DEF InGraph, Between
  <2>3. CASE pc[w] = "lock" /\ pc'[w] = "work" /\ UNCHANGED <<pending, last_graph>>
    BY <2>1, <2>3 DEF InGraph, Between
  <2>4. CASE /\ pc[w] \in {"poll_graph", "lock"} /\ last_graph'[w] = n_graph
             /\ (pending'[w] <=> w \in Active)
             /\ pc'[w] \in {"work", "lock"} /\ (pending'[w] => pc'[w] = "work")
    BY <1>2, <2>1, <2>4 DEF InGraph, Between
  <2>5. CASE /\ pc[w] = "work" /\ pending'[w] = FALSE /\ last_graph'[w] = last_graph[w]
             /\ pc'[w] = IF pending[w] THEN "node" ELSE "top"
    BY <2>1, <2>5 DEF InGraph, Between
  <2>. QED BY <2>2, <2>3, <2>4, <2>5, WorkerSteps, Zenon
<1>. QED BY <1>1, <1>2, <1>3, <1>4, ThreadFacts DEF PlaceInv

\* A computing thread moves no other thread.
LEMMA ComputeMovesOne ==
    ASSUME BInv, PTypeOK, NEW t \in Threads, ComputeStep(t)
    PROVE  /\ UNCHANGED <<cgraph, n_graph, n_threads, pending, last_graph, abort>>
           /\ Active' = Active
           /\ \A u \in Threads \ {t} : /\ pc'[u] = pc[u] /\ node_n'[u] = node_n[u]
                                       /\ my_chunk'[u] = my_chunk[u]
<1>. USE DEF Goto, poolVars, syncVars, localVars
<1>1. UNCHANGED <<cgraph, n_graph, pending, last_graph, abort>>
  BY DEF ComputeStep, NextNode, ComputeShare, Convert, SetCounter, ComputeChunk, StealChunk,
         Synchronize, LastBarrier, BarrierStep, Computes
<1>2. UNCHANGED n_threads
  BY DEF ComputeStep, NextNode, ComputeShare, Convert, SetCounter, ComputeChunk, StealChunk,
         Synchronize, LastBarrier, BarrierStep, CallBarrier, barrierVars, Enter, InBarrier,
         Arrive, Reset, Release, Leave
<1>3. /\ pc' = pc \/ \E q : pc' = [pc EXCEPT ![t] = q]
      /\ node_n' = node_n \/ \E n : node_n' = [node_n EXCEPT ![t] = n]
      /\ my_chunk' = my_chunk \/ \E n : my_chunk' = [my_chunk EXCEPT ![t] = n]
  <2>1. CASE NextNode(t) BY <2>1 DEF NextNode
  <2>2. CASE ComputeShare(t) BY <2>2 DEF ComputeShare
  <2>3. CASE Convert(t) BY <2>3 DEF Convert
  <2>4. CASE SetCounter(t) BY <2>4 DEF SetCounter, CallBarrier
  <2>5. CASE ComputeChunk(t) BY <2>5 DEF ComputeChunk
  <2>6. CASE StealChunk(t) BY <2>6 DEF StealChunk
  <2>7. CASE Synchronize(t) BY <2>7 DEF Synchronize, CallBarrier
  <2>8. CASE LastBarrier(t) BY <2>8 DEF LastBarrier, CallBarrier
  <2>9. CASE BarrierStep(t) BY <2>9 DEF BarrierStep
  <2>. QED BY <2>1, <2>2, <2>3, <2>4, <2>5, <2>6, <2>7, <2>8, <2>9 DEF ComputeStep
<1>4. /\ \A u \in Threads \ {t} : pc'[u] = pc[u]
      /\ \A u \in Threads \ {t} : node_n'[u] = node_n[u]
      /\ \A u \in Threads \ {t} : my_chunk'[u] = my_chunk[u]
  BY <1>3, Zenon DEF PTypeOK
<1>. QED BY <1>1, <1>2, <1>4 DEF Active

\* Where a computing thread goes on.
LEMMA ComputePlaces ==
    ASSUME PTypeOK, NEW t \in Threads, ComputeStep(t)
    PROVE  \/ pc'[t] = pc[t] /\ node_n'[t] = node_n[t]
           \/ pc[t] \in InGraph /\ pc'[t] \in InGraph
           \/ pc[t] \in InGraph /\ pc'[t] = "callback" /\ t = Main
           \/ /\ pc[t] \in InGraph /\ pc'[t] = IF t = Main THEN "computed" ELSE "top"
              /\ node_n'[t] = 0
<1>. USE DEF At, Goto
<1>1. pc \in [Threads -> InGraph \cup Between \cup Outside \cup {"callback"}]
      /\ node_n \in [Threads -> Nat]
  BY DEF PTypeOK
<1>2. CASE NextNode(t) BY <1>1, <1>2 DEF NextNode, InGraph
<1>3. CASE ComputeShare(t) BY <1>1, <1>3 DEF ComputeShare, AfterNode, InGraph
<1>4. CASE Convert(t) BY <1>1, <1>4 DEF Convert, InGraph
<1>5. CASE SetCounter(t) BY <1>1, <1>5 DEF SetCounter, CallBarrier, InGraph
<1>6. CASE ComputeChunk(t) BY <1>1, <1>6 DEF ComputeChunk, AfterNode, InGraph
<1>7. CASE StealChunk(t) BY <1>1, <1>7 DEF StealChunk, InGraph
<1>8. CASE Synchronize(t) BY <1>1, <1>8 DEF Synchronize, CallBarrier, InGraph
<1>9. CASE LastBarrier(t) BY <1>1, <1>9 DEF LastBarrier, CallBarrier, InGraph
<1>10. CASE BarrierStep(t) BY <1>1, <1>10 DEF BarrierStep, localVars
<1>. QED BY <1>2, <1>3, <1>4, <1>5, <1>6, <1>7, <1>8, <1>9, <1>10 DEF ComputeStep

LEMMA ComputeKeepsPlace ==
    ASSUME BInv, PTypeOK, PlaceInv, NEW t \in Threads, ComputeStep(t)
    PROVE  PlaceInv'
<1>1. /\ UNCHANGED <<n_graph, pending, last_graph>> /\ Active' = Active
      /\ \A u \in Threads \ {t} : pc'[u] = pc[u] /\ node_n'[u] = node_n[u]
  BY ComputeMovesOne
<1>2. /\ t = Main \/ t \in Workers
      /\ t = Main => pc[t] \in InGraph \cup Outside \cup {"callback"}
      /\ t \in Workers => pc[t] \in InGraph \cup Between
      /\ pc[t] \notin InGraph \cup {"callback"} => node_n[t] = 0
  BY ThreadFacts DEF PlaceInv
<1>3. \/ pc'[t] = pc[t] /\ node_n'[t] = node_n[t]
      \/ pc[t] \in InGraph /\ pc'[t] \in InGraph
      \/ pc[t] \in InGraph /\ pc'[t] = "callback" /\ t = Main
      \/ /\ pc[t] \in InGraph /\ pc'[t] = IF t = Main THEN "computed" ELSE "top"
         /\ node_n'[t] = 0
  BY ComputePlaces
<1>4. /\ t = Main => pc'[t] \in InGraph \cup Outside \cup {"callback"}
      /\ t \in Workers => /\ pc'[t] \in InGraph \cup Between
                          /\ pc'[t] = pc[t] \/ (pc[t] \in InGraph /\ pc'[t] # "work")
      /\ pc'[t] \notin InGraph \cup {"callback"} => node_n'[t] = 0
  BY <1>2, <1>3, ThreadFacts DEF InGraph, Between, Outside
<1>5. /\ pc'[Main] \in InGraph \cup Outside \cup {"callback"}
      /\ \A u \in Threads : pc'[u] \notin InGraph \cup {"callback"} => node_n'[u] = 0
  BY <1>1, <1>4, ThreadFacts DEF PlaceInv
<1>6. ASSUME NEW w \in Workers
      PROVE  /\ pc'[w] \in InGraph \cup Between
             /\ last_graph'[w] <= n_graph'
             /\ pc'[w] \in InGraph => w \in Active' /\ last_graph'[w] = n_graph'
             /\ pending'[w] => pc'[w] = "work" /\ w \in Active' /\ last_graph'[w] = n_graph'
  <2>1. w # t => pc'[w] = pc[w] BY <1>1, ThreadFacts
  <2>2. pc[w] \in InGraph => pc[w] # "work" BY DEF InGraph
  <2>. QED BY <1>1, <1>4, <2>1, <2>2 DEF PlaceInv
<1>. QED BY <1>5, <1>6 DEF PlaceInv

LEMMA StepKeepsPlace ==
    ASSUME BInv, PInv, [Next]_vars
    PROVE  PlaceInv'
<1>. USE DEF At, Goto, poolVars, syncVars, localVars
<1>1. PTypeOK /\ PlaceInv /\ Main \in Threads /\ Main \notin Workers BY ThreadFacts DEF PInv
<1>2. ASSUME UNCHANGED <<n_graph, n_threads, pending, last_graph, node_n>>,
             NEW p \in Outside \ {"signal"}, NEW q \in Outside, At(Main, p), Goto(Main, q)
      PROVE  PlaceInv'
  <2>1. pc'[Main] = q /\ \A u \in Threads \ {Main} : pc'[u] = pc[u]
    BY <1>1, <1>2 DEF PTypeOK
  <2>2. Active' = Active BY <1>2 DEF Active
  <2>3. node_n[Main] = 0 BY <1>1, <1>2 DEF PlaceInv, Outside, InGraph
  <2>. QED BY <1>1, <1>2, <2>1, <2>2, <2>3, ThreadFacts DEF PlaceInv, Workers
<1>3. CASE MainStep
  <2>1. CASE GraphCompute BY <1>2, <2>1 DEF GraphCompute, Outside, barrierVars
  <2>2. CASE Kickoff
    <3>1. Over BY <2>2, MainIsOutside, <1>1 DEF Kickoff
    <3>2. \A w \in Workers : pc[w] \notin InGraph /\ ~pending[w] BY <3>1, NobodyComputes
    <3>3. /\ n_graph' = n_graph + 1 /\ n_graph \in Nat
          /\ UNCHANGED <<pending, last_graph, node_n>>
          /\ pc[Main] = "kickoff" /\ pc'[Main] = "signal"
          /\ \A u \in Threads \ {Main} : pc'[u] = pc[u]
          /\ last_graph \in [Workers -> Nat]
      BY <1>1, <2>2 DEF Kickoff, PTypeOK
    <3>4. node_n[Main] = 0 BY <1>1, <3>3 DEF PlaceInv, InGraph
    <3>5. \A w \in Workers : last_graph'[w] <= n_graph' BY <1>1, <3>3 DEF PlaceInv
    <3>6. \A w \in Workers : pc'[w] = pc[w] BY <3>3, ThreadFacts
    <3>. QED BY <1>1, <3>2, <3>3, <3>4, <3>5, <3>6, ThreadFacts DEF PlaceInv, Outside
  <2>3. CASE Signal
    <3>1. pc'[Main] = "node" /\ \A u \in Threads \ {Main} : pc'[u] = pc[u]
      BY <1>1, <2>3 DEF Signal, PTypeOK
    <3>2. UNCHANGED <<n_graph, pending, last_graph, node_n>> /\ Active' = Active
      BY <2>3 DEF Signal, barrierVars, Active
    <3>. QED BY <1>1, <3>1, <3>2, ThreadFacts DEF PlaceInv, InGraph
  <2>4. CASE Return BY <1>2, <2>4 DEF Return, Outside, barrierVars
  <2>5. CASE PauseOrResume BY <1>1, <2>5 DEF PauseOrResume, PlaceInv, barrierVars, Active
  <2>6. CASE Free BY <1>2, <2>6 DEF Free, Outside, barrierVars
  <2>7. CASE Join BY <1>2, <2>7 DEF Join, Outside, barrierVars
  <2>. QED BY <1>3, <2>1, <2>2, <2>3, <2>4, <2>5, <2>6, <2>7 DEF MainStep
<1>4. CASE AbortCallback
  <2>1. pc'[Main] = "sync" /\ \A u \in Threads \ {Main} : pc'[u] = pc[u]
    BY <1>1, <1>4 DEF AbortCallback, PTypeOK
  <2>2. UNCHANGED <<n_graph, pending, last_graph, node_n>> /\ Active' = Active
    BY <1>4 DEF AbortCallback, Computes, barrierVars, Active
  <2>. QED BY <1>1, <2>1, <2>2, ThreadFacts DEF PlaceInv, InGraph
<1>5. CASE \E w \in Workers : WorkerStep(w) \/ SpuriousWakeup(w)
  BY <1>1, <1>5, WorkerKeepsPlace
<1>6. CASE \E t \in Threads : ComputeStep(t) BY <1>1, <1>6, ComputeKeepsPlace
<1>7. CASE UNCHANGED vars BY <1>1, <1>7 DEF vars, barrierVars, PlaceInv, Active
<1>. QED BY <1>3, <1>4, <1>5, <1>6, <1>7 DEF Next, Finished
-----------------------------------------------------------------------------
(* How one segment follows another, and how the last one ends the graph.   *)

WorkInv ==
    /\ DoneOnce
    /\ Over \/ \E s \in Segments : UnderWay(s)

LEMMA DataSame ==
    ASSUME UNCHANGED <<cgraph, n_threads, done>>
    PROVE  /\ Active' = Active /\ ComputedNodes' = ComputedNodes
           /\ \A n : Op(n)' = Op(n)
           /\ \A n : Pieces(n)' = Pieces(n)
           /\ \A n : Complete(n)' <=> Complete(n)
           /\ \A n, t : Share(n, t)' = Share(n, t)
           /\ DoneOnce => DoneOnce'
<1>1. /\ Active' = Active /\ ComputedNodes' = ComputedNodes
      /\ \A n : NChunks(cgraph[n + 1])' = NChunks(cgraph[n + 1])
      /\ \A n : Op(n)' = Op(n)
      /\ DoneOnce => DoneOnce'
  BY DEF Active, ComputedNodes, NChunks, Op, DoneOnce
<1>2. \A n : Pieces(n)' = Pieces(n) BY <1>1 DEF Pieces
<1>3. \A n, t : Share(n, t)' = Share(n, t) BY <1>1 DEF Share
<1>4. \A n : Complete(n)' <=> Complete(n) BY <1>2 DEF Complete
<1>. QED BY <1>1, <1>2, <1>3, <1>4

LEMMA SegmentBeginsNext ==
    /\ (\A f \in Nat : Ready(f) => \E s \in Segments : UnderWay(s))'
    /\ (\A n \in Nat : Converted(n) => \E s \in Segments : UnderWay(s))'
<1>1. (\A f \in Nat : Ready(f) => \E s \in Segments : UnderWay(s))' BY SegmentBegins, PTL
<1>2. (\A n \in Nat : Converted(n) => \E s \in Segments : UnderWay(s))' BY ProductBegins, PTL
<1>. QED BY <1>1, <1>2

\* All threads go on to a next node.
LEMMA NextSegment ==
    ASSUME BInv, PInv, PTypeOK', PlaceInv', NEW s \in Segments, UnderWay(s), s.kind # "end",
           UNCHANGED <<cgraph, n_threads, abort, done>>,
           \A t \in Active : Through(s, t),
           \A t \in Active : ~Arrived(t)' /\ pc'[t] = "node" /\ node_n'[t] = Last(s.node) + 1
    PROVE  WorkInv'
<1>1. PICK f \in Nat : f = Last(s.node) + 1
  BY SegmentCompletes DEF PInv
<1>2. /\ abort \in {-1, f}
      /\ \A n \in ComputedNodes : n < f => Complete(n)
      /\ \A p \in DOMAIN done : p[1] < f /\ Complete(p[1])
  BY <1>1, SegmentCompletes DEF PInv
<1>3. Main \in Active /\ Active \subseteq Threads BY ActiveFacts DEF UnderWay
<1>4. Active' = Active /\ ComputedNodes' = ComputedNodes
      /\ (\A n : Complete(n)' <=> Complete(n)) /\ DoneOnce'
  BY DataSame DEF PInv
<1>5. Ready(f)'
  <2>1. (/\ \A n \in ComputedNodes : n < f => Complete(n)
         /\ \A p \in DOMAIN done : p[1] < f /\ Complete(p[1]))'
    BY <1>2, <1>4
  <2>2. Threads' = Threads BY DEF Threads
  <2>. QED BY <1>1, <1>2, <1>3, <1>4, <2>1, <2>2 DEF Ready
<1>. QED BY <1>4, <1>5, SegmentBeginsNext DEF WorkInv

\* All threads have converted their share of a product.
LEMMA NextProduct ==
    ASSUME BInv, PInv, PTypeOK', NEW s \in Segments, UnderWay(s),
           s.kind = "walk", Op(s.node) = "mul_mat",
           UNCHANGED <<cgraph, n_threads, abort, done>>,
           \A t \in Active : ~Before(s, t),
           current_chunk' = n_threads,
           \A t \in Active : /\ ~Arrived(t)' /\ pc'[t] = "chunk" /\ node_n'[t] = s.node
                             /\ my_chunk'[t] = t
    PROVE  WorkInv'
<1>1. PICK n \in Nat : n = s.node BY DEF Segments
<1>2. n < Len(cgraph) /\ abort = -1 /\ Len(cgraph) \in Nat
  BY <1>1, NodeFacts DEF UnderWay, SegmentOK, PInv
<1>3. Main \in Active /\ n_threads \in Nat BY ActiveFacts DEF UnderWay
<1>4. Active' = Active /\ ComputedNodes' = ComputedNodes
      /\ (\A k : Complete(k)' <=> Complete(k)) /\ (\A t : Share(n, t)' = Share(n, t))
      /\ Op(n)' = Op(n) /\ DoneOnce'
  BY DataSame DEF PInv
<1>5. /\ \A k \in ComputedNodes : k < n => Complete(k)
      /\ \A p \in DOMAIN done :
            (p[1] < n /\ Complete(p[1])) \/ \E t \in Active : p = Share(n, t)
      /\ \A t \in Active : Share(n, t) \in DOMAIN done
  BY <1>1 DEF UnderWay, SegmentDone
<1>6. (/\ \A k \in ComputedNodes : k < n => Complete(k)
       /\ \A p \in DOMAIN done :
             (p[1] < n /\ Complete(p[1])) \/ \E t \in Active : p = Share(n, t)
       /\ \A t \in Active : Share(n, t) \in DOMAIN done)'
  BY <1>4, <1>5
<1>7. Converted(n)' BY <1>1, <1>2, <1>3, <1>4, <1>6 DEF Converted
<1>. QED BY <1>4, <1>7, SegmentBeginsNext DEF WorkInv

\* All threads have found the end of the graph.
AllFinished ==
    /\ Main \in Active
    /\ \A t \in Active : HasFinished(t) /\ ~Arrived(t)
    /\ Whole

LEMMA OverBegins == AllFinished => Over
BY DEF AllFinished, Over, HasFinished, Outside

LEMMA GraphEnds ==
    ASSUME PInv, Main \in Active, UNCHANGED <<cgraph, n_threads, abort, done>>, Whole,
           \A t \in Active : HasFinished(t)' /\ ~Arrived(t)'
    PROVE  WorkInv'
<1>1. Active' = Active /\ (\A n : Complete(n)' <=> Complete(n)) /\ DoneOnce'
      /\ ComputedNodes' = ComputedNodes
  BY DataSame DEF PInv
<1>2. AllFinished' BY <1>1 DEF AllFinished, Whole
<1>3. (AllFinished => Over)' BY OverBegins, PTL
<1>. QED BY <1>1, <1>2, <1>3 DEF WorkInv
-----------------------------------------------------------------------------
(* The steps of the barrier.                                               *)

\* Nobody moves, and nothing is done.
LEMMA AllRest ==
    ASSUME BInv, PInv,
           UNCHANGED <<cgraph, n_graph, n_threads, current_chunk, abort, done>>,
           \A u \in Active : Rests(u)
    PROVE  /\ DoneOnce'
           /\ (\E s \in Segments : UnderWay(s)) => (\E s \in Segments : UnderWay(s))'
<1>1. DoneOnce' BY DataSame DEF PInv
<1>2. ASSUME NEW s \in Segments, UnderWay(s) PROVE UnderWay(s)'
  <2>1. Active \subseteq Threads BY ActiveFacts
  <2>2. current_chunk \in Nat BY DEF PInv, PTypeOK
  <2>3. SegmentOK(s) /\ Main \in Active /\ SegmentDone(s) BY <1>2 DEF UnderWay
  <2>4. \A u \in Active : /\ Before(s, u)' <=> Before(s, u)
                          /\ InSegment(s, u) => InSegment(s, u)'
    BY <2>1, <2>2, <2>3, RestsInSegment DEF PInv
  <2>5. SegmentDone(s)'
    <3>1. \A u \in Active : pc'[u] = pc[u] /\ my_chunk'[u] = my_chunk[u] BY <2>1 DEF Rests
    <3>. QED BY <2>3, <2>4, <3>1, DoneRests
  <2>6. SegmentOK(s)' BY <2>3 DEF SegmentOK, Op, Last
  <2>7. Active' = Active BY DEF Active
  <2>. QED BY <1>2, <2>4, <2>5, <2>6, <2>7 DEF UnderWay
<1>. QED BY <1>1, <1>2

\* Nor is a graph begun when none is under way.
LEMMA OverRests ==
    ASSUME BInv, PInv, Over,
           UNCHANGED <<cgraph, n_graph, n_threads, abort, done>>, pc'[Main] = pc[Main],
           \A u \in Active : /\ Arrived(u)' <=> Arrived(u)
                             /\ u # Main /\ HasFinished(u) => HasFinished(u)'
    PROVE  Over'
<1>1. Active' = Active /\ Active \subseteq Threads /\ (\A n : Complete(n)' <=> Complete(n))
      /\ ComputedNodes' = ComputedNodes
  BY DataSame, ActiveFacts
<1>. QED BY <1>1 DEF Over, Whole

\* The last thread lets the others go: the next segment begins, or the end is reached.
LEMMA ReleaseKeepsWork ==
    ASSUME BInv, PInv, PTypeOK', PlaceInv', NEW t \in Threads, Release(t),
           UNCHANGED <<poolVars, syncVars, localVars, done>>
    PROVE  WorkInv'
<1>1. /\ n_threads' = n_threads /\ Active \subseteq Threads
      /\ UNCHANGED <<cgraph, n_graph, current_chunk, abort, pending, last_graph, pc, node_n,
                     my_chunk, done>>
  BY Releases, ActiveFacts DEF poolVars, syncVars, localVars
<1>2. \A u \in Active : Arrived(u) /\ ~Arrived(u)' BY <1>1, Releases
<1>3. t \in Active BY DEF Release, BInv, InsideInv
<1>4. PICK s \in Segments : UnderWay(s) BY <1>2, <1>3 DEF PInv, Over
<1>5. Main \in Active /\ \A u \in Active : InSegment(s, u) BY <1>4 DEF UnderWay
<1>6. \A u \in Active : HasFinished(u)' <=> HasFinished(u) BY <1>1 DEF HasFinished
<1>7. CASE s.kind # "end" /\ ~(s.kind = "walk" /\ Op(s.node) = "mul_mat")
  <2>1. \A u \in Active : Through(s, u) /\ Gone(s, u)
    BY <1>2, <1>5, <1>7 DEF InSegment, Through, Segments
  <2>2. CASE Last(s.node) + 1 < Len(cgraph)
    <3>1. \A u \in Active : pc[u] = "node" /\ node_n[u] = Last(s.node) + 1
      BY <2>1, <2>2 DEF Gone
    <3>. QED BY <1>1, <1>2, <1>4, <1>7, <2>1, <3>1, NextSegment
  <2>3. CASE ~(Last(s.node) + 1 < Len(cgraph))
    <3>1. \A u \in Active : HasFinished(u) BY <1>2, <2>1, <2>3 DEF Gone, Ended
    <3>2. Whole
      BY <1>4, <1>7, <2>1, <2>3, SegmentCompletes DEF PInv
    <3>. QED BY <1>1, <1>2, <1>5, <1>6, <3>1, <3>2, GraphEnds
  <2>. QED BY <2>2, <2>3
<1>8. CASE s.kind = "walk" /\ Op(s.node) = "mul_mat"
  <2>1. \A u \in Active : /\ pc[u] = "chunk" /\ node_n[u] = s.node /\ my_chunk[u] = u
                          /\ u = Main => current_chunk = n_threads
    BY <1>2, <1>5, <1>8 DEF InSegment
  <2>2. \A u \in Active : ~Before(s, u)
    <3>1. \A u \in Active : ~NotStarted(u) BY <2>1 DEF NotStarted, InGraph
    <3>. QED BY <2>1, <3>1 DEF Before, Walking
  <2>. QED BY <1>1, <1>2, <1>4, <1>5, <1>8, <2>1, <2>2, NextProduct
<1>9. CASE s.kind = "end"
  <2>1. \A u \in Active : HasFinished(u) BY <1>2, <1>5, <1>9 DEF InSegment, Ended
  <2>2. Whole BY <1>4, <1>9 DEF UnderWay, SegmentDone
  <2>. QED BY <1>1, <1>2, <1>5, <1>6, <2>1, <2>2, GraphEnds
<1>. QED BY <1>7, <1>8, <1>9

LEMMA BarrierKeepsWork ==
    ASSUME BInv, PInv, PTypeOK', PlaceInv', NEW t \in Threads, BarrierStep(t)
    PROVE  WorkInv'
<1>1. UNCHANGED <<poolVars, syncVars, localVars, done>> BY DEF BarrierStep
<1>2. CASE Release(t) BY <1>1, <1>2, ReleaseKeepsWork
<1>3. CASE Arrive(t) \/ Reset(t) \/ Leave(t)
  <2>1. n_threads' = n_threads /\ \A u \in Threads : Arrived(u)' <=> Arrived(u)
    BY <1>3, MovesInside
  <2>2. UNCHANGED <<cgraph, n_graph, current_chunk, abort, pending, last_graph, pc, node_n,
                    my_chunk, done>>
    BY <1>1 DEF poolVars, syncVars, localVars
  <2>3. Active \subseteq Threads BY ActiveFacts
  <2>4. \A u \in Active : Rests(u) /\ (HasFinished(u)' <=> HasFinished(u))
    BY <2>1, <2>2, <2>3 DEF Rests, HasFinished
  <2>5. Over => Over' BY <2>1, <2>2, <2>3, <2>4, OverRests
  <2>. QED BY <2>1, <2>2, <2>4, <2>5, AllRest DEF PInv, WorkInv
<1>. QED BY <1>2, <1>3 DEF BarrierStep, InBarrier
-----------------------------------------------------------------------------
(* The steps of the workers between graphs.                                *)

LEMMA WorkerKnows ==
    ASSUME BInv, PInv, NEW w \in Workers, WorkerStep(w) \/ SpuriousWakeup(w), w \in Active
    PROVE  /\ \A u \in Threads \ {w} : Rests(u)
           /\ Arrived(w)' <=> Arrived(w)
           /\ pc[w] \in InGraph => Rests(w)
           /\ NotStarted(w) => NotStarted(w)' \/ (pc'[w] = "node" /\ node_n'[w] = 0)
           /\ HasFinished(w) => HasFinished(w)'
<1>. DEFINE Steps ==
           \/ /\ pc'[w] = pc[w] \/ (pc[w] \in Between /\ pc'[w] \in Between \ {"work"})
              /\ pending'[w] = pending[w] /\ last_graph'[w] = last_graph[w]
              /\ pc[w] = "work" => pc'[w] = "work"
           \/ /\ pc[w] = "lock" /\ pc'[w] = "work" /\ UNCHANGED <<pending, last_graph>>
           \/ /\ pc[w] \in {"poll_graph", "lock"} /\ last_graph[w] # n_graph
              /\ last_graph'[w] = n_graph /\ (pending'[w] <=> w \in Active)
              /\ pc'[w] \in {"work", "lock"} /\ (pending'[w] => pc'[w] = "work")
           \/ /\ pc[w] = "work" /\ pending'[w] = FALSE /\ last_graph'[w] = last_graph[w]
              /\ pc'[w] = IF pending[w] THEN "node" ELSE "top"
<1>1. /\ UNCHANGED <<n_barrier_passed, at, n_passed, n_graph, node_n, my_chunk>>
      /\ \A u \in Threads \ {w} : pc'[u] = pc[u]
      /\ \A u \in Workers \ {w} : pending'[u] = pending[u] /\ last_graph'[u] = last_graph[u]
  BY WorkerSteps DEF barrierVars, poolVars, PInv
<1>2. w # Main /\ w \in Threads /\ node_n[w] = node_n[w] BY ThreadFacts
<1>3. Steps BY WorkerSteps, Zenon DEF PInv
<1>4. \A u \in Threads \ {w} : Rests(u) BY <1>1, ThreadFacts DEF Rests, Arrived
<1>5. Arrived(w)' <=> Arrived(w) BY <1>1 DEF Arrived
<1>6. ASSUME pc[w] \in InGraph PROVE Rests(w)
  <2>1. pc[w] \notin Between /\ pc[w] # "work" /\ pc[w] # "lock" /\ pc[w] # "poll_graph"
    BY <1>6 DEF InGraph, Between
  <2>. QED BY <1>1, <1>3, <1>5, <2>1 DEF Rests
<1>7. ASSUME NotStarted(w)
      PROVE  NotStarted(w)' \/ (pc'[w] = "node" /\ node_n'[w] = 0)
  <2>1. pc[w] \notin InGraph /\ (last_graph[w] # n_graph \/ pending[w])
    BY <1>2, <1>7 DEF NotStarted
  <2>2. pc[w] # "callback" BY <1>2 DEF PInv, PlaceInv, InGraph, Between
  <2>3. node_n[w] = 0 BY <1>2, <2>1, <2>2 DEF PInv, PlaceInv
  <2>4. CASE pc[w] = "work" /\ pc'[w] = "node" BY <1>1, <2>3, <2>4
  <2>5. CASE ~(pc[w] = "work" /\ pc'[w] = "node")
    <3>1. pc'[w] \notin InGraph BY <1>3, <2>1, <2>5 DEF InGraph, Between
    <3>2. last_graph'[w] # n_graph \/ pending'[w] BY <1>3, <2>1, <2>5
    <3>. QED BY <1>1, <1>2, <3>1, <3>2 DEF NotStarted
  <2>. QED BY <2>4, <2>5
<1>8. ASSUME HasFinished(w) PROVE HasFinished(w)'
  <2>1. pc[w] \notin InGraph /\ last_graph[w] = n_graph /\ ~pending[w]
    BY <1>2, <1>8 DEF HasFinished
  <2>2. pc'[w] \notin InGraph BY <1>3, <2>1 DEF InGraph, Between
  <2>3. last_graph'[w] = n_graph /\ ~pending'[w] BY <1>3, <2>1
  <2>. QED BY <1>1, <1>2, <2>2, <2>3 DEF HasFinished
<1>. QED BY <1>4, <1>5, <1>6, <1>7, <1>8

\* A worker that has not begun is on its way, and one that has finished is through.
LEMMA WorkerInSegment ==
    ASSUME BInv, PInv, NEW w \in Workers, WorkerStep(w) \/ SpuriousWakeup(w), w \in Active,
           NEW s \in Segments, UnderWay(s)
    PROVE  /\ InSegment(s, w)' /\ (Before(s, w)' <=> Before(s, w))
           /\ pc'[w] = "chunk" <=> pc[w] = "chunk"
           /\ my_chunk'[w] = my_chunk[w]
<1>1. UNCHANGED <<cgraph, n_graph, n_threads, current_chunk, abort, node_n, my_chunk>>
  BY WorkerSteps DEF barrierVars, poolVars, PInv
<1>2. w # Main /\ w \in Threads /\ InSegment(s, w) /\ SegmentOK(s) /\ PTypeOK
  BY ThreadFacts DEF UnderWay, PInv
<1>3. Arrived(w)' <=> Arrived(w) BY WorkerKnows
<1>4. CASE pc[w] \in InGraph
  <2>1. Rests(w) BY <1>4, WorkerKnows
  <2>2. current_chunk \in Nat BY <1>2 DEF PTypeOK
  <2>. QED BY <1>1, <1>2, <2>1, <2>2, RestsInSegment DEF Rests
<1>5. CASE NotStarted(w)
  <2>1. pc[w] \notin InGraph \cup {"callback"} /\ ~HasFinished(w) /\ node_n[w] = 0
    BY <1>2, <1>5 DEF NotStarted, HasFinished, PInv, PlaceInv, InGraph, Between
  <2>2. ~Through(s, w) BY <2>1 DEF Through, Gone, Ended, InGraph
  <2>3. ~Arrived(w) /\ s.first = 0 /\ s.kind \in {"walk", "end"} /\ Walking(s, w)
        /\ (s.kind = "walk" => Before(s, w)) /\ (s.kind = "end" /\ abort = 0 => node_n[w] = 0)
    BY <1>2, <2>1, <2>2 DEF InSegment, Before, Walking, Ended, InGraph, Segments
  <2>4. Walking(s, w)'
    BY <1>5, <2>3, WorkerKnows DEF Walking
  <2>5. Before(s, w) /\ Before(s, w)'
    BY <1>1, <2>1, <2>3, <2>4 DEF Before, Segments
  <2>6. pc'[w] # "chunk" /\ pc[w] # "chunk"
    BY <1>2, <1>5, <2>1, WorkerKnows DEF NotStarted, InGraph
  <2>7. InSegment(s, w)'
    BY <1>1, <1>3, <2>1, <2>3, <2>4, <2>5 DEF InSegment, Op
  <2>. QED BY <1>1, <2>5, <2>6, <2>7
<1>6. CASE HasFinished(w)
  <2>1. HasFinished(w)' BY <1>6, WorkerKnows
  <2>2. pc[w] \notin InGraph \cup {"callback"} /\ pc'[w] \notin InGraph
    BY <1>2, <1>6, <2>1 DEF HasFinished, PInv, PlaceInv, InGraph, Between
  <2>3. ~NotStarted(w) /\ ~NotStarted(w)' BY <1>2, <1>6, <2>1 DEF NotStarted, HasFinished
  <2>4. ~Before(s, w) /\ ~Before(s, w)' BY <2>2, <2>3 DEF Before, Walking, InGraph
  <2>5. Arrived(w) /\ ~(Last(s.node) + 1 < Len(cgraph) /\ s.kind # "end")
        /\ (s.kind = "walk" => Op(s.node) # "mul_mat")
        /\ (s.kind = "product" => current_chunk >= NChunks(cgraph[s.node + 1]))
    BY <1>2, <2>2, <2>3, <2>4 DEF InSegment, Through, Gone, Ended, Walking, InGraph, Segments
  <2>6. Last(s.node)' = Last(s.node) /\ Op(s.node)' = Op(s.node)
        /\ NChunks(cgraph[s.node + 1])' = NChunks(cgraph[s.node + 1])
    BY <1>1 DEF Last, Op, NChunks
  <2>7. Ended(w)' BY <1>3, <2>1, <2>5 DEF Ended
  <2>8. s.kind # "end" => Through(s, w)' BY <1>1, <2>5, <2>6, <2>7 DEF Through, Gone
  <2>9. InSegment(s, w)' BY <1>1, <2>5, <2>6, <2>7, <2>8 DEF InSegment, Segments
  <2>. QED BY <1>1, <2>2, <2>4, <2>9 DEF InGraph
<1>. QED BY <1>2, <1>4, <1>5, <1>6 DEF NotStarted, HasFinished

LEMMA WorkerKeepsWork ==
    ASSUME BInv, PInv, NEW w \in Workers, WorkerStep(w) \/ SpuriousWakeup(w)
    PROVE  WorkInv'
<1>1. /\ UNCHANGED <<cgraph, n_graph, n_threads, n_barrier_passed, at, n_passed,
                     current_chunk, abort, node_n, my_chunk, done>>
      /\ \A u \in Threads \ {w} : pc'[u] = pc[u]
      /\ \A u \in Workers \ {w} : pending'[u] = pending[u] /\ last_graph'[u] = last_graph[u]
  BY WorkerSteps DEF barrierVars, poolVars, PInv
<1>2. w # Main /\ Main \in Threads /\ Active \subseteq Threads BY ThreadFacts, ActiveFacts
<1>3. \A u \in Active \ {w} : Rests(u)
  BY <1>1, <1>2, ThreadFacts DEF Rests, Arrived
<1>4. ASSUME Over PROVE Over'
  <2>1. \A u \in Active : Arrived(u)' <=> Arrived(u) BY <1>1 DEF Arrived
  <2>2. \A u \in Active \ {w} : u # Main /\ HasFinished(u) => HasFinished(u)'
    BY <1>1, <1>3 DEF HasFinished, Rests
  <2>3. w \in Active /\ HasFinished(w) => HasFinished(w)' BY WorkerKnows
  <2>. QED BY <1>1, <1>2, <1>4, <2>1, <2>2, <2>3, OverRests
<1>5. ASSUME w \notin Active, \E s \in Segments : UnderWay(s)
      PROVE  (\E s \in Segments : UnderWay(s))'
  BY <1>1, <1>3, <1>5, AllRest
<1>6. ASSUME w \in Active, NEW s \in Segments, UnderWay(s)
      PROVE  UnderWay(s)'
  <2>1. current_chunk \in Nat BY DEF PInv, PTypeOK
  <2>2. SegmentOK(s) /\ SegmentDone(s) BY <1>6 DEF UnderWay
  <2>3. SegmentOK(s)' BY <1>1, <2>2 DEF SegmentOK, Op, Last
  <2>4. \A u \in Active \ {w} : Before(s, u)' <=> Before(s, u)
    BY <1>1, <1>2, <1>3, <2>1, <2>2, RestsInSegment DEF PInv
  <2>5. \A u \in Active : /\ Before(s, u)' <=> Before(s, u)
                          /\ pc'[u] = "chunk" <=> pc[u] = "chunk"
                          /\ my_chunk'[u] = my_chunk[u]
    BY <1>3, <1>6, <2>4, WorkerInSegment DEF Rests
  <2>6. SegmentDone(s)' BY <1>1, <2>2, <2>5, DoneRests
  <2>. QED BY <1>1, <1>3, <1>6, <2>1, <2>3, <2>6, WorkerInSegment, OneMoves DEF PInv
<1>7. DoneOnce' BY <1>1, DataSame DEF PInv
<1>. QED BY <1>4, <1>5, <1>6, <1>7 DEF PInv, WorkInv
-----------------------------------------------------------------------------
(* The steps of the main thread between graphs.                            *)

\* One thread goes on within a segment, and does no piece of work.
LEMMA OneGoesOn ==
    ASSUME BInv, PInv, NEW s \in Segments, UnderWay(s), NEW t \in Active,
           UNCHANGED <<cgraph, n_graph, n_threads, done>>,
           \A u \in Active \ {t} : Rests(u),
           s.kind = "end" => UNCHANGED abort,
           s.kind = "walk" => t = Main \/ UNCHANGED current_chunk,
           s.kind = "product" => /\ UNCHANGED current_chunk
                                 /\ pc'[t] = "chunk" <=> pc[t] = "chunk"
                                 /\ my_chunk'[t] = my_chunk[t],
           s.kind = "walk" => (Before(s, t)' <=> Before(s, t)),
           SegmentOK(s)', InSegment(s, t)'
    PROVE  WorkInv'
<1>1. /\ current_chunk \in Nat /\ Active \subseteq Threads /\ Main \in Threads
      /\ SegmentOK(s) /\ SegmentDone(s)
  BY ActiveFacts, ThreadFacts DEF PInv, PTypeOK, UnderWay
<1>2. s.kind = "product" => current_chunk' \in Nat /\ current_chunk' >= current_chunk
  BY <1>1
<1>3. \A u \in Active \ {t} : Before(s, u)' <=> Before(s, u)
  <2>. SUFFICES ASSUME NEW u \in Active \ {t} PROVE Before(s, u)' <=> Before(s, u)
    OBVIOUS
  <2>1. NotStarted(u)' <=> NotStarted(u) BY DEF NotStarted, Rests
  <2>. QED BY <2>1 DEF Before, Walking, Rests
<1>4. s.kind = "walk" => \A u \in Active : Before(s, u)' <=> Before(s, u) BY <1>3
<1>5. SegmentDone(s)' BY <1>1, <1>4, DoneRests DEF Rests
<1>6. UnderWay(s)' BY <1>1, <1>2, <1>5, OneMoves DEF PInv
<1>7. DoneOnce' BY DataSame DEF PInv
<1>. QED BY <1>6, <1>7 DEF WorkInv

\* Between graphs the main thread only passes from place to place.
LEMMA MainStaysOutside ==
    ASSUME BInv, PInv, Over,
           UNCHANGED <<n_graph, n_threads, n_barrier_passed, at, n_passed, pending, last_graph>>,
           \A u \in Threads \ {Main} : pc'[u] = pc[u],
           pc'[Main] \in Outside \ {"signal", "computed"},
           pc'[Main] = "kickoff" => abort' = -1,
           done' = EmptyBag
    PROVE  WorkInv'
<1>1. Active' = Active /\ Active \subseteq Threads BY ActiveFacts DEF Active
<1>2. \A t \in Active : Arrived(t)' <=> Arrived(t) BY DEF Arrived
<1>3. \A t \in Active \ {Main} : HasFinished(t)' <=> HasFinished(t)
  BY <1>1 DEF HasFinished
<1>4. Over' BY <1>1, <1>2, <1>3, EmptyFacts DEF Over
<1>5. DoneOnce' BY EmptyFacts DEF DoneOnce
<1>. QED BY <1>4, <1>5 DEF WorkInv

LEMMA KickoffKeepsWork ==
    ASSUME BInv, PInv, PTypeOK', PlaceInv', Kickoff
    PROVE  WorkInv'
<1>1. Over BY MainIsOutside DEF Kickoff
<1>2. /\ n_graph' = n_graph + 1 /\ n_threads' \in 1 .. MaxThreads /\ Main \in Threads
      /\ UNCHANGED <<n_barrier_passed, at, n_passed, abort, done, pending, last_graph>>
      /\ pc[Main] = "kickoff"
  BY ThreadFacts DEF Kickoff, At
<1>3. pc'[Main] = "signal" /\ \A u \in Threads \ {Main} : pc'[u] = pc[u]
  BY <1>2 DEF Kickoff, Goto, PInv, PTypeOK
<1>4. Main \in Active' /\ Active' \subseteq Threads
  <2>1. Active' = 0 .. n_threads' - 1 BY DEF Active
  <2>2. MaxThreads \in Nat /\ Main = 0 BY ThreadFacts
  <2>3. PICK m \in 1 .. MaxThreads : Active' = 0 .. m - 1 BY <1>2, <2>1
  <2>. QED BY <2>2, <2>3 DEF Threads
<1>5. \A t \in Threads : ~Arrived(t)
  <2>. SUFFICES ASSUME NEW t \in Threads, Arrived(t) PROVE FALSE OBVIOUS
  <2>1. t \in Active BY DEF Arrived, BInv, BTypeOK, InsideInv, Waiting, Places
  <2>. QED BY <1>1, <2>1 DEF Over
<1>6. ASSUME NEW t \in Threads PROVE NotStarted(t)'
  <2>1. CASE t = Main BY <1>3, <2>1 DEF NotStarted
  <2>2. CASE t # Main
    <3>1. t \in Workers BY <2>2, ThreadFacts
    <3>2. pc[t] \notin InGraph BY <1>1, <3>1, NobodyComputes
    <3>3. last_graph[t] <= n_graph /\ last_graph[t] \in Nat /\ n_graph \in Nat
      BY <3>1 DEF PInv, PTypeOK, PlaceInv
    <3>4. last_graph'[t] # n_graph' BY <1>2, <3>3
    <3>. QED BY <1>3, <2>2, <3>2, <3>4 DEF NotStarted
  <2>. QED BY <2>1, <2>2
<1>7. abort = -1 /\ done = EmptyBag BY <1>1, <1>2 DEF Over
<1>8. DOMAIN done' = {} BY <1>2, <1>7, EmptyFacts
<1>9. Ready(0)'
  <2>1. \A t \in Active' : ~Arrived(t)' BY <1>2, <1>4, <1>5 DEF Arrived
  <2>2. \A n \in ComputedNodes' : ~(n < 0) BY DEF ComputedNodes
  <2>. QED BY <1>2, <1>4, <1>6, <1>7, <1>8, <2>1, <2>2 DEF Ready
<1>10. DoneOnce' BY <1>8 DEF DoneOnce
<1>. QED BY <1>9, <1>10, SegmentBeginsNext DEF WorkInv

\* The main thread begins: it has not before, like everybody it is on its way.
LEMMA SignalKeepsWork ==
    ASSUME BInv, PInv, Signal
    PROVE  WorkInv'
<1>1. Main \in Threads /\ Main \notin Workers /\ PTypeOK BY ThreadFacts DEF PInv
<1>2. /\ UNCHANGED <<cgraph, n_graph, n_threads, n_barrier_passed, at, n_passed, current_chunk,
                     abort, pending, last_graph, node_n, my_chunk, done>>
      /\ pc'[Main] = "node" /\ \A u \in Threads \ {Main} : pc'[u] = pc[u]
  BY <1>1 DEF Signal, Goto, barrierVars, PTypeOK
<1>3. pc[Main] = "signal" /\ At(Main, "signal") BY DEF Signal, At
<1>4. PICK s \in Segments : UnderWay(s) /\ InSegment(s, Main)
  BY <1>1, <1>3, InSomeSegment
<1>5. Main \in Active /\ Active \subseteq Threads /\ ~Arrived(Main)
  BY <1>1, <1>3, <1>4, ActiveFacts, OutsideBarrier DEF UnderWay
<1>6. node_n[Main] = 0 BY <1>1, <1>3 DEF PInv, PlaceInv, InGraph
<1>7. ~Through(s, Main) BY <1>3, <1>5 DEF Through, Gone, Ended
<1>8. s.first = 0 /\ s.kind \in {"walk", "end"} /\ (s.kind = "walk" => Before(s, Main))
      /\ (s.kind = "end" /\ abort = 0 => node_n[Main] = 0)
  BY <1>3, <1>4, <1>5, <1>7 DEF InSegment, Before, Walking, Ended, Segments
<1>9. Walking(s, Main) /\ Walking(s, Main)'
  BY <1>2, <1>3, <1>6, <1>8 DEF Walking, NotStarted
<1>10. Before(s, Main) /\ Before(s, Main)' BY <1>2, <1>6, <1>9 DEF Before, Segments
<1>11. Arrived(Main)' <=> Arrived(Main) BY <1>2 DEF Arrived
<1>12. InSegment(s, Main)'
  BY <1>2, <1>5, <1>6, <1>8, <1>9, <1>10, <1>11 DEF InSegment, Op
<1>13. \A u \in Active \ {Main} : Rests(u) BY <1>2, <1>5 DEF Rests, Arrived
<1>14. SegmentOK(s)' BY <1>2, <1>4 DEF UnderWay, SegmentOK, Op, Last
<1>. QED BY <1>2, <1>4, <1>5, <1>8, <1>10, <1>12, <1>13, <1>14, OneGoesOn

LEMMA MainKeepsWork ==
    ASSUME BInv, PInv, PTypeOK', PlaceInv', MainStep
    PROVE  WorkInv'
<1>. USE DEF At, Goto, poolVars, syncVars, localVars, barrierVars
<1>1. Main \in Threads /\ pc \in [Threads -> InGraph \cup Between \cup Outside \cup {"callback"}]
  BY ThreadFacts DEF PInv, PTypeOK
<1>2. CASE GraphCompute
  <2>1. Over /\ done = EmptyBag BY <1>2, MainIsOutside DEF GraphCompute, Over
  <2>. QED BY <1>1, <1>2, <2>1, MainStaysOutside DEF GraphCompute, Outside
<1>3. CASE Kickoff BY <1>3, KickoffKeepsWork
<1>4. CASE Signal BY <1>4, SignalKeepsWork
<1>5. CASE Return
  <2>1. Over BY <1>5, MainIsOutside DEF Return
  <2>. QED BY <1>1, <1>5, <2>1, MainStaysOutside DEF Return, Outside
<1>6. CASE PauseOrResume
  <2>1. Over /\ done = EmptyBag BY <1>6, MainIsOutside DEF PauseOrResume, Over
  <2>. QED BY <1>1, <1>6, <2>1, MainStaysOutside DEF PauseOrResume, Outside
<1>7. CASE Free
  <2>1. Over /\ done = EmptyBag BY <1>7, MainIsOutside DEF Free, Over
  <2>. QED BY <1>1, <1>7, <2>1, MainStaysOutside DEF Free, Outside
<1>8. CASE Join
  <2>1. Over /\ done = EmptyBag BY <1>8, MainIsOutside DEF Join, Over
  <2>. QED BY <1>1, <1>8, <2>1, MainStaysOutside DEF Join, Outside
<1>. QED BY <1>2, <1>3, <1>4, <1>5, <1>6, <1>7, <1>8 DEF MainStep

\* The callback sets the node that must not be computed to the one that follows.
LEMMA AbortKeepsWork ==
    ASSUME BInv, PInv, AbortCallback
    PROVE  WorkInv'
<1>1. Main \in Threads /\ Main \notin Workers /\ PTypeOK BY ThreadFacts DEF PInv
<1>2. /\ UNCHANGED <<cgraph, n_graph, n_threads, n_barrier_passed, at, n_passed, current_chunk,
                     pending, last_graph, node_n, my_chunk, done>>
      /\ pc'[Main] = "sync" /\ \A u \in Threads \ {Main} : pc'[u] = pc[u]
      /\ abort' = node_n[Main] + 1 \/ abort' = abort
  BY <1>1 DEF AbortCallback, Computes, syncVars, Goto, barrierVars, PTypeOK
<1>3. pc[Main] = "callback" /\ At(Main, "callback") BY DEF AbortCallback, At
<1>4. PICK s \in Segments : UnderWay(s) /\ InSegment(s, Main)
  BY <1>1, <1>3, InSomeSegment
<1>5. Main \in Active /\ Active \subseteq Threads /\ ~Arrived(Main)
  BY <1>1, <1>3, <1>4, ActiveFacts, OutsideBarrier DEF UnderWay
<1>6. ~NotStarted(Main) /\ ~NotStarted(Main)' BY <1>2, <1>3 DEF NotStarted
<1>7. ~Before(s, Main) /\ ~Before(s, Main)' BY <1>2, <1>3, <1>6 DEF Before, Walking
<1>8. /\ s.kind # "end" /\ Through(s, Main)
      /\ s.kind = "walk" => Op(s.node) # "mul_mat"
      /\ s.kind = "product" => current_chunk >= NChunks(cgraph[s.node + 1])
  <2>1. s.kind \in {"walk", "product", "end"} /\ ~Walking(s, Main) /\ ~Ended(Main)
    BY <1>3, <1>5, <1>6 DEF Walking, Ended, Segments
  <2>. QED BY <1>3, <1>4, <1>7, <2>1 DEF InSegment
<1>9. node_n[Main] = Last(s.node) BY <1>3, <1>5, <1>8 DEF Through, Gone, Ended
<1>10. Last(s.node)' = Last(s.node) /\ Op(s.node)' = Op(s.node)
       /\ NChunks(cgraph[s.node + 1])' = NChunks(cgraph[s.node + 1])
  BY <1>2 DEF Last, Op, NChunks
<1>11. Arrived(Main)' <=> Arrived(Main) BY <1>2 DEF Arrived
<1>12. Through(s, Main)' BY <1>2, <1>5, <1>9, <1>10, <1>11 DEF Through
<1>13. InSegment(s, Main)' BY <1>2, <1>8, <1>10, <1>12, Zenon DEF InSegment, Segments
<1>14. \A u \in Active \ {Main} : Rests(u) BY <1>2, <1>5 DEF Rests, Arrived
<1>15. SegmentOK(s)'
  <2>1. SegmentOK(s) BY <1>4 DEF UnderWay
  <2>2. CASE s.kind = "walk"
    BY <1>2, <1>8, <1>9, <1>10, <2>1, <2>2 DEF SegmentOK, Op
  <2>3. CASE s.kind = "product"
    <3>1. Op(s.node) = "mul_mat" /\ Last(s.node) = s.node BY <2>1, <2>3 DEF SegmentOK, Last
    <3>. QED BY <1>2, <1>9, <1>10, <2>1, <2>3, <3>1 DEF SegmentOK
  <2>. QED BY <1>8, <2>2, <2>3 DEF Segments
<1>. QED BY <1>2, <1>3, <1>4, <1>5, <1>7, <1>8, <1>13, <1>14, <1>15, OneGoesOn
-----------------------------------------------------------------------------
(* The steps of a thread that computes.                                    *)

LEMMA Computing ==
    ASSUME BInv, PInv, NEW t \in Threads, NEW p \in InGraph, At(t, p), ComputeStep(t),
           UNCHANGED barrierVars \/ Enter(t)
    PROVE  /\ t \in Active /\ Active \subseteq Threads /\ Active' = Active
           /\ pc[t] = p /\ ~Arrived(t) /\ ~NotStarted(t) /\ ~HasFinished(t)
           /\ node_n[t] \in Nat /\ my_chunk[t] \in Nat
           /\ UNCHANGED <<cgraph, n_graph, n_threads, abort, pending, last_graph>>
           /\ \A u \in Active \ {t} : Rests(u)
           /\ UNCHANGED barrierVars => ~Arrived(t)'
           /\ Enter(t) => Arrived(t)'
           /\ n_threads = 1 => t = Main /\ Active = {Main}
           /\ \E s \in Segments : UnderWay(s) /\ InSegment(s, t)
<1>1. /\ t \in Active /\ ~Arrived(t) /\ \E s \in Segments : UnderWay(s) /\ InSegment(s, t)
  <2>1. p # "callback" /\ p # "signal" /\ p \in InGraph \cup {"callback", "signal"}
    BY DEF InGraph
  <2>. QED BY <2>1, InSomeSegment
<1>2. PTypeOK /\ Active \subseteq Threads /\ (n_threads = 1 => Active = {Main})
  BY ActiveFacts DEF PInv
<1>3. pc[t] = p /\ ~NotStarted(t) /\ ~HasFinished(t)
  BY DEF At, NotStarted, HasFinished, InGraph
<1>4. /\ UNCHANGED <<cgraph, n_graph, n_threads, abort, pending, last_graph>>
      /\ Active' = Active
      /\ \A u \in Threads \ {t} : /\ pc'[u] = pc[u] /\ node_n'[u] = node_n[u]
                                  /\ my_chunk'[u] = my_chunk[u]
  BY <1>2, ComputeMovesOne
<1>5. \A u \in Threads : u # t => (Arrived(u)' <=> Arrived(u))
  <2>1. CASE Enter(t) BY <2>1, Enters
  <2>2. CASE UNCHANGED barrierVars BY <2>2 DEF barrierVars, Arrived
  <2>. QED BY <2>1, <2>2
<1>6. \A u \in Active \ {t} : Rests(u) BY <1>2, <1>4, <1>5 DEF Rests
<1>7. UNCHANGED barrierVars => ~Arrived(t)' BY <1>1 DEF barrierVars, Arrived
<1>8. Enter(t) => Arrived(t)' BY Enters
<1>9. node_n[t] \in Nat /\ my_chunk[t] \in Nat BY <1>2 DEF PTypeOK
<1>. QED BY <1>1, <1>2, <1>3, <1>4, <1>6, <1>7, <1>8, <1>9

LEMMA NextNodeKeepsWork ==
    ASSUME BInv, PInv, NEW t \in Threads, NextNode(t)
    PROVE  WorkInv'
<1>1. At(t, "node") /\ "node" \in InGraph /\ ComputeStep(t) /\ UNCHANGED barrierVars
  BY DEF NextNode, ComputeStep, InGraph
<1>2. /\ t \in Active /\ Active \subseteq Threads
      /\ pc[t] = "node" /\ ~Arrived(t) /\ ~Arrived(t)' /\ ~NotStarted(t) /\ ~HasFinished(t)
      /\ node_n[t] \in Nat
      /\ UNCHANGED <<cgraph, n_graph, n_threads, abort, current_chunk, my_chunk, done>>
      /\ \A u \in Active \ {t} : Rests(u)
  BY <1>1, Computing, Zenon DEF NextNode
<1>3. PICK s \in Segments : UnderWay(s) /\ InSegment(s, t) BY <1>1, Computing
<1>4. /\ SegmentOK(s) /\ Len(cgraph) \in Nat /\ abort \in Int
      /\ s.kind \in {"walk", "product", "end"} /\ s.first \in Nat /\ s.node \in Nat
      /\ Last(s.node) \in {s.node, s.node + 1}
  BY <1>3, NodeFacts DEF UnderWay, PInv, PTypeOK, Segments, Last
<1>5. Op(s.node)' = Op(s.node) /\ Last(s.node)' = Last(s.node) /\ SegmentOK(s)'
      /\ NChunks(cgraph[s.node + 1])' = NChunks(cgraph[s.node + 1])
  BY <1>2, <1>4 DEF SegmentOK, Op, Last, NChunks
<1>. DEFINE n == node_n[t]
<1>6. /\ n < Len(cgraph) /\ abort # n /\ Op(n) = "empty" => pc'[t] = "node" /\ node_n'[t] = n + 1
      /\ n < Len(cgraph) /\ abort # n /\ Op(n) # "empty" => pc'[t] = "compute" /\ node_n'[t] = n
      /\ ~(n < Len(cgraph) /\ abort # n) => pc'[t] = "last_barrier" /\ node_n'[t] = n
  BY <1>2 DEF NextNode, Goto, Node, Op, PInv, PTypeOK
<1>7. ~NotStarted(t)'
  BY <1>2, <1>6 DEF NotStarted, InGraph
<1>8. Before(s, t) <=> n >= s.first /\ n <= s.node BY <1>2 DEF Before, Walking
<1>. HIDE DEF n
<1>9. n \in Nat BY <1>2 DEF n
<1>10. CASE s.kind = "walk" /\ Before(s, t)
  <2>1. /\ n \in s.first .. s.node /\ s.node < Len(cgraph) /\ abort # n
        /\ Op(s.node) # "empty" /\ \A m \in s.first .. s.node - 1 : Op(m) = "empty"
    BY <1>4, <1>8, <1>9, <1>10 DEF SegmentOK
  <2>2. CASE Op(n) = "empty"
    <3>1. n # s.node /\ n + 1 <= s.node /\ n + 1 >= s.first
      BY <1>4, <1>9, <2>1, <2>2
    <3>2. Walking(s, t)' /\ Before(s, t)'
      BY <1>4, <1>6, <1>9, <2>1, <2>2, <3>1 DEF Before, Walking
    <3>3. InSegment(s, t)' BY <1>2, <1>5, <1>10, <3>2 DEF InSegment
    <3>. QED BY <1>2, <1>3, <1>5, <1>10, <3>2, <3>3, OneGoesOn
  <2>3. CASE Op(n) # "empty"
    <3>1. n = s.node BY <1>4, <1>9, <2>1, <2>3
    <3>2. Before(s, t)' BY <1>4, <1>6, <2>1, <2>3, <3>1 DEF Before
    <3>3. InSegment(s, t)' BY <1>2, <1>5, <1>10, <3>2 DEF InSegment
    <3>. QED BY <1>2, <1>3, <1>5, <1>10, <3>2, <3>3, OneGoesOn
  <2>. QED BY <2>2, <2>3
<1>11. CASE s.kind # "end" /\ ~(s.kind = "walk" /\ Before(s, t))
  <2>1. /\ Gone(s, t)
        /\ s.kind = "walk" => Op(s.node) # "mul_mat"
        /\ s.kind = "product" => current_chunk >= NChunks(cgraph[s.node + 1])
    BY <1>2, <1>3, <1>4, <1>11 DEF InSegment, Through
  <2>2. n = Last(s.node) + 1 /\ ~(Last(s.node) + 1 < Len(cgraph))
    BY <1>2, <2>1 DEF Gone, Ended, n
  <2>3. pc'[t] = "last_barrier" /\ node_n'[t] = n BY <1>6, <2>2
  <2>4. Through(s, t)' BY <1>2, <1>5, <2>2, <2>3 DEF Through, Gone
  <2>5. ~Before(s, t) /\ ~Before(s, t)'
    BY <1>4, <1>7, <1>8, <2>2, <2>3 DEF Before, Walking
  <2>6. InSegment(s, t)'
    BY <1>2, <1>4, <1>5, <1>11, <2>1, <2>4, Zenon DEF InSegment
  <2>7. pc'[t] # "chunk" BY <2>3
  <2>. QED BY <1>2, <1>3, <1>5, <2>5, <2>6, <2>7, <1>11, OneGoesOn
<1>12. CASE s.kind = "end"
  <2>1. n >= s.first /\ (abort = s.first => n = s.first)
    BY <1>2, <1>3, <1>12 DEF InSegment, Walking, Ended, n
  <2>2. CASE n < Len(cgraph) /\ abort # n
    <3>1. Op(n) = "empty" /\ abort # s.first
      BY <1>4, <1>9, <1>12, <2>1, <2>2 DEF SegmentOK
    <3>2. Walking(s, t)' BY <1>4, <1>6, <1>9, <2>1, <2>2, <3>1 DEF Walking
    <3>3. InSegment(s, t)' BY <1>2, <1>12, <3>1, <3>2 DEF InSegment
    <3>. QED BY <1>2, <1>3, <1>5, <1>12, <3>3, OneGoesOn
  <2>3. CASE ~(n < Len(cgraph) /\ abort # n)
    <3>1. pc'[t] = "last_barrier" BY <1>6, <2>3
    <3>2. InSegment(s, t)' BY <1>2, <1>12, <3>1 DEF InSegment
    <3>. QED BY <1>2, <1>3, <1>5, <1>12, <3>2, OneGoesOn
  <2>. QED BY <2>2, <2>3
<1>. QED BY <1>4, <1>10, <1>11, <1>12

\* A thread does its share of the node of a segment, or of its conversion.
LEMMA ShareIsDone ==
    ASSUME BInv, PInv, NEW s \in Segments, UnderWay(s), s.kind = "walk", NEW t \in Active,
           Before(s, t), Do(Share(s.node, t)),
           UNCHANGED <<cgraph, n_graph, n_threads, abort, current_chunk>>,
           \A u \in Active \ {t} : Rests(u), ~Before(s, t)', InSegment(s, t)'
    PROVE  WorkInv'
<1>1. /\ SegmentOK(s) /\ SegmentDone(s) /\ PTypeOK /\ DoneOnce /\ s.node \in Nat
      /\ Active \subseteq Threads
  BY ActiveFacts DEF UnderWay, PInv, Segments
<1>2. Share(s.node, t) \notin DOMAIN done BY <1>1 DEF SegmentDone
<1>3. DOMAIN done' = DOMAIN done \cup {Share(s.node, t)} /\ DoneOnce' BY <1>1, <1>2, DoFacts
<1>4. Active' = Active /\ ComputedNodes' = ComputedNodes
      /\ (\A u : Share(s.node, u)' = Share(s.node, u)) /\ SegmentOK(s)'
  BY <1>1 DEF Active, ComputedNodes, Share, Op, Last, SegmentOK
<1>5. \A n : Complete(n) => Complete(n)' BY <1>3, CompleteGrows
<1>6. \A u \in Active \ {t} : Before(s, u)' <=> Before(s, u)
  <2>. SUFFICES ASSUME NEW u \in Active \ {t} PROVE Before(s, u)' <=> Before(s, u)
    OBVIOUS
  <2>1. NotStarted(u)' <=> NotStarted(u) BY DEF NotStarted, Rests
  <2>. QED BY <2>1 DEF Before, Walking, Rests
<1>7. \A u \in Active \ {t} : Share(s.node, u) # Share(s.node, t) BY DEF Share, Piece
<1>8. SegmentDone(s)'
  <2>1. \A n \in ComputedNodes' : n < s.node => Complete(n)'
    BY <1>1, <1>4, <1>5 DEF SegmentDone
  <2>2. ASSUME NEW p \in DOMAIN done'
        PROVE  (p[1] < s.node /\ Complete(p[1])') \/ \E u \in Active : p = Share(s.node, u)
    BY <1>1, <1>3, <1>5 DEF SegmentDone
  <2>3. ASSUME NEW u \in Active
        PROVE  Before(s, u)' <=> Share(s.node, u) \notin DOMAIN done'
    <3>1. Before(s, u) <=> Share(s.node, u) \notin DOMAIN done BY <1>1 DEF SegmentDone
    <3>. QED BY <1>3, <1>6, <1>7, <3>1
  <2>. QED BY <1>4, <2>1, <2>2, <2>3 DEF SegmentDone
<1>9. UnderWay(s)' BY <1>1, <1>4, <1>8, OneMoves
<1>. QED BY <1>3, <1>9 DEF WorkInv

LEMMA ComputeShareKeepsWork ==
    ASSUME BInv, PInv, NEW t \in Threads, ComputeShare(t)
    PROVE  WorkInv'
<1>1. At(t, "compute") /\ "compute" \in InGraph /\ ComputeStep(t) /\ UNCHANGED barrierVars
  BY DEF ComputeShare, ComputeStep, InGraph
<1>2. /\ t \in Active /\ Active \subseteq Threads
      /\ pc[t] = "compute" /\ ~Arrived(t) /\ ~Arrived(t)' /\ ~NotStarted(t) /\ ~HasFinished(t)
      /\ UNCHANGED <<cgraph, n_graph, n_threads, abort, current_chunk>>
      /\ \A u \in Active \ {t} : Rests(u)
  BY <1>1, Computing, Zenon DEF ComputeShare
<1>3. PICK s \in Segments : UnderWay(s) /\ InSegment(s, t) BY <1>1, Computing
<1>4. ~Walking(s, t) /\ ~Through(s, t) /\ ~Ended(t)
  BY <1>2 DEF Walking, Through, Gone, Ended
<1>5. s.kind = "walk" /\ Before(s, t) /\ node_n[t] = s.node /\ s.node \in Nat
  BY <1>2, <1>3, <1>4 DEF InSegment, Before, Segments
<1>6. Op(s.node) \in {"plain", "fused"} /\ Do(Piece(s.node, "share", t))
  BY <1>5 DEF ComputeShare, Node, Op
<1>7. Do(Share(s.node, t))
  <2>1. Share(s.node, t) = Piece(s.node, "share", t) BY <1>6 DEF Share
  <2>. QED BY <1>6, <2>1
<1>8. node_n'[t] = Last(s.node)
  BY <1>5, <1>6 DEF ComputeShare, Node, Op, Last, PInv, PTypeOK
<1>9. pc'[t] \in {"callback", "sync"} /\ (t # Main => pc'[t] = "sync")
  BY DEF ComputeShare, AfterNode, Goto, PInv, PTypeOK
<1>10. Op(s.node)' = Op(s.node) /\ Last(s.node)' = Last(s.node)
  BY <1>2 DEF Op, Last
<1>11. Through(s, t)' BY <1>2, <1>8, <1>9, <1>10 DEF Through
<1>12. InSegment(s, t)'
  <2>1. Op(s.node) # "mul_mat" BY <1>6
  <2>. QED BY <1>5, <1>10, <1>11, <2>1 DEF InSegment
<1>13. ~Before(s, t)'
  <2>1. ~NotStarted(t)' BY <1>9 DEF NotStarted, InGraph
  <2>. QED BY <1>9, <2>1 DEF Before, Walking
<1>. QED BY <1>2, <1>3, <1>5, <1>7, <1>12, <1>13, ShareIsDone

LEMMA ConvertKeepsWork ==
    ASSUME BInv, PInv, NEW t \in Threads, Convert(t)
    PROVE  WorkInv'
<1>1. At(t, "compute") /\ "compute" \in InGraph /\ ComputeStep(t) /\ UNCHANGED barrierVars
  BY DEF Convert, ComputeStep, InGraph
<1>2. /\ t \in Active /\ Active \subseteq Threads
      /\ pc[t] = "compute" /\ ~Arrived(t) /\ ~Arrived(t)' /\ ~NotStarted(t) /\ ~HasFinished(t)
      /\ UNCHANGED <<cgraph, n_graph, n_threads, abort, current_chunk, node_n>>
      /\ \A u \in Active \ {t} : Rests(u)
  BY <1>1, Computing, Zenon DEF Convert
<1>3. PICK s \in Segments : UnderWay(s) /\ InSegment(s, t) BY <1>1, Computing
<1>4. ~Walking(s, t) /\ ~Through(s, t) /\ ~Ended(t)
  BY <1>2 DEF Walking, Through, Gone, Ended
<1>5. s.kind = "walk" /\ Before(s, t) /\ node_n[t] = s.node /\ s.node \in Nat
  BY <1>2, <1>3, <1>4 DEF InSegment, Before, Segments
<1>6. Op(s.node) = "mul_mat" /\ Do(Piece(s.node, "convert", t))
  BY <1>5 DEF Convert, Node, Op
<1>7. Do(Share(s.node, t))
  <2>1. Share(s.node, t) = Piece(s.node, "convert", t) BY <1>6 DEF Share
  <2>. QED BY <1>6, <2>1
<1>8. pc'[t] = "counter" BY DEF Convert, Goto, PInv, PTypeOK
<1>9. Op(s.node)' = "mul_mat" BY <1>2, <1>6 DEF Op
<1>10. InSegment(s, t)' BY <1>2, <1>5, <1>8, <1>9 DEF InSegment
<1>11. ~Before(s, t)'
  <2>1. ~NotStarted(t)' BY <1>8 DEF NotStarted, InGraph
  <2>. QED BY <1>8, <2>1 DEF Before, Walking
<1>. QED BY <1>2, <1>3, <1>5, <1>7, <1>10, <1>11, ShareIsDone

LEMMA SetCounterKeepsWork ==
    ASSUME BInv, PInv, PTypeOK', NEW t \in Threads, SetCounter(t)
    PROVE  WorkInv'
<1>1. At(t, "counter") /\ "counter" \in InGraph /\ ComputeStep(t)
      /\ (n_threads = 1 => UNCHANGED barrierVars) /\ (n_threads # 1 => Enter(t))
  BY DEF SetCounter, CallBarrier, ComputeStep, InGraph
<1>2. /\ t \in Active /\ Active \subseteq Threads
      /\ pc[t] = "counter" /\ ~Arrived(t) /\ ~NotStarted(t) /\ ~HasFinished(t)
      /\ UNCHANGED <<cgraph, n_graph, n_threads, abort, node_n, done>>
      /\ \A u \in Active \ {t} : Rests(u)
      /\ UNCHANGED barrierVars => ~Arrived(t)'
      /\ Enter(t) => Arrived(t)'
      /\ n_threads = 1 => t = Main /\ Active = {Main}
  BY <1>1, Computing, Zenon DEF SetCounter
<1>3. PICK s \in Segments : UnderWay(s) /\ InSegment(s, t) BY <1>1, Computing
<1>4. ~Before(s, t) /\ ~Walking(s, t) /\ ~Through(s, t) /\ ~Ended(t)
  BY <1>2 DEF Before, Walking, Through, Gone, Ended
<1>5. s.kind = "walk" /\ Op(s.node) = "mul_mat" /\ node_n[t] = s.node
  BY <1>2, <1>3, <1>4 DEF InSegment, Segments
<1>6. pc'[t] = "chunk" /\ my_chunk'[t] = t
      /\ current_chunk' = IF t = Main THEN n_threads ELSE current_chunk
  BY DEF SetCounter, CallBarrier, Goto, PInv, PTypeOK
<1>7. CASE n_threads = 1
  BY <1>1, <1>2, <1>3, <1>4, <1>5, <1>6, <1>7, NextProduct
<1>8. CASE n_threads # 1
  <2>1. Arrived(t)' BY <1>1, <1>2, <1>8
  <2>2. Op(s.node)' = "mul_mat" /\ SegmentOK(s)'
    BY <1>2, <1>3, <1>5 DEF UnderWay, SegmentOK, Op, Last
  <2>3. InSegment(s, t)' BY <1>2, <1>5, <1>6, <2>1, <2>2 DEF InSegment
  <2>4. ~Before(s, t)'
    <3>1. ~NotStarted(t)' BY <1>6 DEF NotStarted, InGraph
    <3>. QED BY <1>6, <3>1 DEF Before, Walking
  <2>. QED BY <1>2, <1>3, <1>4, <1>5, <1>6, <2>2, <2>3, <2>4, OneGoesOn
<1>. QED BY <1>7, <1>8

\* A thread that multiplies goes on, with what is done of its product as it should be.
LEMMA ChunkStep ==
    ASSUME BInv, PInv, NEW s \in Segments, UnderWay(s), s.kind = "product", NEW t \in Active,
           UNCHANGED <<cgraph, n_graph, n_threads, abort>>,
           current_chunk' \in Nat, current_chunk' >= current_chunk,
           \A u \in Active \ {t} : Rests(u),
           DOMAIN done \subseteq DOMAIN done', DoneOnce',
           \A p \in DOMAIN done' \ DOMAIN done : p \in Pieces(s.node),
           ChunkInv(s)', InSegment(s, t)'
    PROVE  WorkInv'
<1>1. /\ SegmentOK(s) /\ SegmentDone(s) /\ PTypeOK BY DEF UnderWay, PInv
<1>2. Active' = Active /\ ComputedNodes' = ComputedNodes /\ Pieces(s.node)' = Pieces(s.node)
      /\ (\A u : Share(s.node, u)' = Share(s.node, u)) /\ SegmentOK(s)'
  BY <1>1 DEF Active, ComputedNodes, Pieces, NChunks, Share, Op, Last, SegmentOK
<1>3. \A n : Complete(n) => Complete(n)' BY CompleteGrows
<1>4. \A n \in ComputedNodes : n < s.node => Complete(n)' BY <1>1, <1>3 DEF SegmentDone
<1>5. \A p \in DOMAIN done' : (p[1] < s.node /\ Complete(p[1])') \/ p \in Pieces(s.node)
  BY <1>1, <1>3 DEF SegmentDone
<1>6. \A u \in Active : Share(s.node, u) \in DOMAIN done' BY <1>1 DEF SegmentDone
<1>7. SegmentDone(s)' BY <1>2, <1>4, <1>5, <1>6 DEF SegmentDone
<1>8. UnderWay(s)' BY <1>1, <1>2, <1>7, OneMoves
<1>. QED BY <1>8 DEF WorkInv

LEMMA ComputeChunkKeepsWork ==
    ASSUME BInv, PInv, NEW t \in Threads, ComputeChunk(t)
    PROVE  WorkInv'
<1>1. At(t, "chunk") /\ "chunk" \in InGraph /\ ComputeStep(t) /\ UNCHANGED barrierVars
  BY DEF ComputeChunk, ComputeStep, InGraph
<1>2. /\ t \in Active /\ Active \subseteq Threads /\ Active' = Active
      /\ pc[t] = "chunk" /\ ~Arrived(t) /\ ~Arrived(t)' /\ ~NotStarted(t) /\ ~HasFinished(t)
      /\ my_chunk[t] \in Nat
      /\ UNCHANGED <<cgraph, n_graph, n_threads, abort, current_chunk, node_n>>
      /\ \A u \in Active \ {t} : Rests(u)
  BY <1>1, Computing, Zenon DEF ComputeChunk
<1>3. PICK s \in Segments : UnderWay(s) /\ InSegment(s, t) BY <1>1, Computing
<1>4. ~Before(s, t) /\ ~Walking(s, t) /\ ~Through(s, t) /\ ~Ended(t)
  BY <1>2 DEF Before, Walking, Through, Gone, Ended
<1>5. s.kind = "product" /\ node_n[t] = s.node
  BY <1>2, <1>3, <1>4 DEF InSegment, Segments
<1>. DEFINE k == s.node
            N == NChunks(cgraph[k + 1])
            i == my_chunk[t]
            H == {u \in Active : pc[u] = "chunk"}
<1>6. k \in 0 .. Len(cgraph) - 1 /\ Op(k) = "mul_mat" /\ Last(k) = k /\ ChunkInv(s) /\ DoneOnce
      /\ PTypeOK /\ k \in Nat
  BY <1>3, <1>5, NodeFacts DEF UnderWay, SegmentOK, SegmentDone, PInv, Segments, Last
<1>7. N \in Nat /\ N >= n_threads /\ n_threads \in Nat /\ current_chunk \in Nat
  BY <1>6, ChunkCount, ActiveFacts DEF PTypeOK
<1>8. Op(k)' = Op(k) /\ Last(k)' = k /\ NChunks(cgraph[k + 1])' = N
  BY <1>2, <1>6 DEF Op, Last, NChunks
<1>9. pc' = [pc EXCEPT ![t] = pc'[t]] /\ pc'[t] # "chunk"
      /\ (pc'[t] = "steal" \/ (pc'[t] \in {"callback", "sync"} /\ current_chunk >= N))
  <2>1. CASE i < N
    <3>1. Goto(t, IF n_threads >= N THEN AfterNode(t) ELSE "steal")
      BY <1>5, <2>1 DEF ComputeChunk, Node
    <3>2. current_chunk >= n_threads BY <1>6 DEF ChunkInv
    <3>. QED BY <1>6, <1>7, <3>1, <3>2 DEF Goto, AfterNode, PTypeOK
  <2>2. CASE ~(i < N)
    <3>1. Goto(t, AfterNode(t)) BY <1>5, <2>2 DEF ComputeChunk, Node
    <3>2. i < current_chunk BY <1>2, <1>6 DEF ChunkInv
    <3>. QED BY <1>2, <1>6, <1>7, <2>2, <3>1, <3>2 DEF Goto, AfterNode, PTypeOK
  <2>. QED BY <2>1, <2>2
<1>10. {u \in Active : pc[u] = "chunk"}' = H \ {t} /\ (\A u \in H \ {t} : my_chunk'[u] = my_chunk[u])
  <2>1. \A u \in Active \ {t} : pc'[u] = pc[u] /\ my_chunk'[u] = my_chunk[u]
    BY <1>2 DEF Rests
  <2>. QED BY <1>2, <1>9, <2>1
<1>11. InSegment(s, t)'
  <2>1. pc'[t] # "steal" => Through(s, t)' BY <1>2, <1>5, <1>8, <1>9 DEF Through
  <2>. QED BY <1>2, <1>5, <1>8, <1>9, <2>1 DEF InSegment
<1>12. t \in H /\ ~\E u \in H \ {t} : my_chunk[u] = i BY <1>2, <1>6 DEF ChunkInv
<1>13. CASE i < N
  <2>. DEFINE p == Piece(k, "chunk", i)
  <2>1. Do(p) BY <1>5, <1>13 DEF ComputeChunk, Node
  <2>2. p \notin DOMAIN done BY <1>2, <1>6, <1>7, <1>12, <1>13 DEF ChunkInv
  <2>3. DOMAIN done' = DOMAIN done \cup {p} /\ DoneOnce' BY <1>6, <2>1, <2>2, DoFacts
  <2>4. p \in Pieces(k) BY <1>2, <1>6, <1>7, <1>13 DEF Pieces, Op
  <2>5. \A j \in 0 .. N - 1 : Piece(k, "chunk", j) = p <=> j = i BY DEF Piece
  <2>. HIDE DEF p, i, N, k, H
  <2>6. ChunkInv(s)'
    <3>1. /\ current_chunk >= n_threads
          /\ \A u \in H : my_chunk[u] < current_chunk
          /\ \A u, v \in H : my_chunk[u] = my_chunk[v] => u = v
          /\ \A j \in 0 .. N - 1 : Piece(k, "chunk", j) \notin DOMAIN done
                <=> j >= current_chunk \/ \E u \in H : my_chunk[u] = j
      BY <1>6 DEF ChunkInv, H, N, k
    <3>2. i < current_chunk BY <1>12, <3>1 DEF i
    <3>3. ASSUME NEW j \in 0 .. N - 1
          PROVE  Piece(k, "chunk", j) \notin DOMAIN done'
                    <=> j >= current_chunk \/ \E u \in H \ {t} : my_chunk'[u] = j
      <4>1. CASE j = i
        <5>1. Piece(k, "chunk", j) \in DOMAIN done' BY <2>3, <2>5, <4>1
        <5>2. ~(j >= current_chunk) BY <1>2, <1>7, <3>2, <4>1 DEF i
        <5>3. ~\E u \in H \ {t} : my_chunk'[u] = j BY <1>10, <1>12, <4>1
        <5>. QED BY <5>1, <5>2, <5>3
      <4>2. CASE j # i
        <5>1. Piece(k, "chunk", j) \in DOMAIN done' <=> Piece(k, "chunk", j) \in DOMAIN done
          BY <2>3, <2>5, <4>2
        <5>2. (\E u \in H : my_chunk[u] = j) <=> (\E u \in H \ {t} : my_chunk'[u] = j)
          BY <1>10, <4>2 DEF i
        <5>. QED BY <3>1, <5>1, <5>2
      <4>. QED BY <4>1, <4>2
    <3>4. /\ \A u \in H \ {t} : my_chunk'[u] < current_chunk
          /\ \A u, v \in H \ {t} : my_chunk'[u] = my_chunk'[v] => u = v
      BY <1>10, <3>1
    <3>. QED BY <1>2, <1>8, <1>10, <3>1, <3>3, <3>4 DEF ChunkInv, k
  <2>. QED BY <1>2, <1>3, <1>5, <1>7, <1>11, <2>3, <2>4, <2>6, ChunkStep DEF k
<1>14. CASE ~(i < N)
  <2>1. done' = done BY <1>5, <1>14 DEF ComputeChunk, Node
  <2>. HIDE DEF i, N, k, H
  <2>2. ChunkInv(s)'
    <3>1. /\ current_chunk >= n_threads
          /\ \A u \in H : my_chunk[u] < current_chunk
          /\ \A u, v \in H : my_chunk[u] = my_chunk[v] => u = v
          /\ \A j \in 0 .. N - 1 : Piece(k, "chunk", j) \notin DOMAIN done
                <=> j >= current_chunk \/ \E u \in H : my_chunk[u] = j
      BY <1>6 DEF ChunkInv, H, N, k
    <3>2. \A j \in 0 .. N - 1 : j # i BY <1>7, <1>14
    <3>3. \A j \in 0 .. N - 1 :
             (\E u \in H : my_chunk[u] = j) <=> (\E u \in H \ {t} : my_chunk'[u] = j)
      BY <1>10, <3>2 DEF i
    <3>4. /\ \A u \in H \ {t} : my_chunk'[u] < current_chunk
          /\ \A u, v \in H \ {t} : my_chunk'[u] = my_chunk'[v] => u = v
      BY <1>10, <3>1
    <3>. QED BY <1>2, <1>8, <1>10, <2>1, <3>1, <3>3, <3>4 DEF ChunkInv, k
  <2>3. DoneOnce' BY <1>6, <2>1 DEF DoneOnce
  <2>. QED BY <1>2, <1>3, <1>5, <1>7, <1>11, <2>1, <2>2, <2>3, ChunkStep
<1>. QED BY <1>13, <1>14

LEMMA StealChunkKeepsWork ==
    ASSUME BInv, PInv, NEW t \in Threads, StealChunk(t)
    PROVE  WorkInv'
<1>1. At(t, "steal") /\ "steal" \in InGraph /\ ComputeStep(t) /\ UNCHANGED barrierVars
  BY DEF StealChunk, ComputeStep, InGraph
<1>2. /\ t \in Active /\ Active \subseteq Threads /\ Active' = Active
      /\ pc[t] = "steal" /\ ~Arrived(t) /\ ~Arrived(t)' /\ ~NotStarted(t) /\ ~HasFinished(t)
      /\ UNCHANGED <<cgraph, n_graph, n_threads, abort, node_n, done>>
      /\ \A u \in Active \ {t} : Rests(u)
  BY <1>1, Computing, Zenon DEF StealChunk
<1>3. PICK s \in Segments : UnderWay(s) /\ InSegment(s, t) BY <1>1, Computing
<1>4. ~Before(s, t) /\ ~Walking(s, t) /\ ~Through(s, t) /\ ~Ended(t)
  BY <1>2 DEF Before, Walking, Through, Gone, Ended
<1>5. s.kind = "product" /\ node_n[t] = s.node
  BY <1>2, <1>3, <1>4 DEF InSegment, Segments
<1>6. /\ pc'[t] = "chunk" /\ my_chunk'[t] = current_chunk /\ current_chunk' = current_chunk + 1
      /\ current_chunk \in Nat /\ n_threads \in Nat
  BY ActiveFacts DEF StealChunk, Goto, PInv, PTypeOK
<1>. DEFINE k == s.node
            N == NChunks(cgraph[k + 1])
            H == {u \in Active : pc[u] = "chunk"}
<1>7. ChunkInv(s) /\ DoneOnce BY <1>3, <1>5 DEF UnderWay, SegmentDone, PInv
<1>8. {u \in Active : pc[u] = "chunk"}' = H \cup {t} /\ (\A u \in H : my_chunk'[u] = my_chunk[u])
      /\ NChunks(cgraph[k + 1])' = N
  <2>1. \A u \in Active \ {t} : pc'[u] = pc[u] /\ my_chunk'[u] = my_chunk[u]
    BY <1>2 DEF Rests
  <2>. QED BY <1>2, <1>6, <2>1 DEF NChunks
<1>9. InSegment(s, t)' BY <1>2, <1>5, <1>6 DEF InSegment
<1>10. N \in Nat
  <2>1. k \in 0 .. Len(cgraph) - 1
    BY <1>3, <1>5, NodeFacts DEF UnderWay, SegmentOK, Segments, PInv
  <2>. QED BY <2>1, ChunkCount DEF PInv
<1>11. ChunkInv(s)'
  <2>. HIDE DEF N, k, H
  <2>1. /\ current_chunk >= n_threads
        /\ \A u \in H : my_chunk[u] < current_chunk
        /\ \A u, v \in H : my_chunk[u] = my_chunk[v] => u = v
        /\ \A j \in 0 .. N - 1 : Piece(k, "chunk", j) \notin DOMAIN done
              <=> j >= current_chunk \/ \E u \in H : my_chunk[u] = j
    BY <1>7 DEF ChunkInv, H, N, k
  <2>2. \A u \in H : my_chunk[u] \in Nat BY <1>2 DEF H, PInv, PTypeOK
  <2>3. \A u \in H \cup {t} : my_chunk'[u] < current_chunk'
    BY <1>6, <1>8, <2>1, <2>2
  <2>4. \A u, v \in H \cup {t} : my_chunk'[u] = my_chunk'[v] => u = v
    BY <1>6, <1>8, <2>1, <2>2
  <2>5. ASSUME NEW j \in 0 .. N - 1
        PROVE  Piece(k, "chunk", j) \notin DOMAIN done
                  <=> j >= current_chunk' \/ \E u \in H \cup {t} : my_chunk'[u] = j
    <3>1. (\E u \in H \cup {t} : my_chunk'[u] = j)
             <=> j = current_chunk \/ \E u \in H : my_chunk[u] = j
      BY <1>6, <1>8
    <3>2. j \in Nat BY <1>10
    <3>3. j >= current_chunk <=> j >= current_chunk' \/ j = current_chunk BY <1>6, <3>2
    <3>. QED BY <2>1, <3>1, <3>3
  <2>6. current_chunk' >= n_threads BY <1>6, <2>1
  <2>. QED BY <1>2, <1>8, <2>3, <2>4, <2>5, <2>6 DEF ChunkInv, k
<1>12. DoneOnce' BY <1>2, <1>7 DEF DoneOnce
<1>. QED BY <1>2, <1>3, <1>5, <1>6, <1>9, <1>11, <1>12, ChunkStep

LEMMA SynchronizeKeepsWork ==
    ASSUME BInv, PInv, PTypeOK', PlaceInv', NEW t \in Threads, Synchronize(t)
    PROVE  WorkInv'
<1>1. /\ At(t, "sync") /\ "sync" \in InGraph /\ ComputeStep(t)
      /\ node_n[t] + 1 < Len(cgraph) /\ n_threads # 1 => Enter(t)
      /\ ~(node_n[t] + 1 < Len(cgraph) /\ n_threads # 1) => UNCHANGED barrierVars
  BY DEF Synchronize, CallBarrier, ComputeStep, InGraph
<1>2. /\ t \in Active /\ Active \subseteq Threads
      /\ pc[t] = "sync" /\ ~Arrived(t) /\ ~NotStarted(t) /\ ~HasFinished(t)
      /\ UNCHANGED <<cgraph, n_graph, n_threads, abort, current_chunk, my_chunk, done>>
      /\ \A u \in Active \ {t} : Rests(u)
      /\ UNCHANGED barrierVars => ~Arrived(t)'
      /\ Enter(t) => Arrived(t)'
      /\ n_threads = 1 => t = Main /\ Active = {Main}
  BY <1>1, Computing, Zenon DEF Synchronize
<1>3. PICK s \in Segments : UnderWay(s) /\ InSegment(s, t) BY <1>1, Computing
<1>4. ~Before(s, t) /\ ~Walking(s, t) /\ ~Gone(s, t) /\ ~Ended(t)
  BY <1>2 DEF Before, Walking, Gone, Ended
<1>5. /\ s.kind # "end" /\ Through(s, t) /\ node_n[t] = Last(s.node)
      /\ s.kind = "walk" => Op(s.node) # "mul_mat"
      /\ s.kind = "product" => current_chunk >= NChunks(cgraph[s.node + 1])
  BY <1>2, <1>3, <1>4 DEF InSegment, Through, Segments
<1>6. pc'[t] = "node" /\ node_n'[t] = Last(s.node) + 1
  BY <1>5 DEF Synchronize, CallBarrier, Goto, PInv, PTypeOK
<1>7. Op(s.node)' = Op(s.node) /\ Last(s.node)' = Last(s.node) /\ SegmentOK(s)'
      /\ NChunks(cgraph[s.node + 1])' = NChunks(cgraph[s.node + 1])
  BY <1>2, <1>3 DEF UnderWay, SegmentOK, Op, Last, NChunks
<1>8. CASE Last(s.node) + 1 < Len(cgraph) /\ n_threads = 1
  <2>1. ~Arrived(t)' BY <1>1, <1>2, <1>8
  <2>. QED BY <1>2, <1>3, <1>5, <1>6, <1>8, <2>1, NextSegment
<1>9. CASE ~(Last(s.node) + 1 < Len(cgraph) /\ n_threads = 1)
  <2>1. Last(s.node) + 1 < Len(cgraph) => Arrived(t)' BY <1>1, <1>2, <1>5, <1>9
  <2>2. ~(Last(s.node) + 1 < Len(cgraph)) => ~Arrived(t)' BY <1>1, <1>2, <1>5
  <2>3. Through(s, t)' BY <1>2, <1>6, <1>7, <2>1, <2>2 DEF Through, Gone
  <2>4. InSegment(s, t)' BY <1>2, <1>5, <1>7, <2>3, Zenon DEF InSegment, Segments
  <2>5. ~Before(s, t)'
    <3>1. ~NotStarted(t)' BY <1>6 DEF NotStarted, InGraph
    <3>2. s.kind = "walk" => s.node \in Nat /\ Last(s.node) \in {s.node, s.node + 1}
      BY DEF Segments, Last
    <3>3. ~(Last(s.node) + 1 <= s.node) BY <3>2 DEF Last, Segments
    <3>. QED BY <1>6, <3>1, <3>3 DEF Before, Walking
  <2>. QED BY <1>2, <1>3, <1>4, <1>5, <1>6, <1>7, <2>4, <2>5, OneGoesOn
<1>. QED BY <1>8, <1>9

LEMMA LastBarrierKeepsWork ==
    ASSUME BInv, PInv, NEW t \in Threads, LastBarrier(t)
    PROVE  WorkInv'
<1>1. At(t, "last_barrier") /\ "last_barrier" \in InGraph /\ ComputeStep(t)
      /\ (n_threads = 1 => UNCHANGED barrierVars) /\ (n_threads # 1 => Enter(t))
  BY DEF LastBarrier, CallBarrier, ComputeStep, InGraph
<1>2. /\ t \in Active /\ Active \subseteq Threads
      /\ pc[t] = "last_barrier" /\ ~Arrived(t) /\ ~NotStarted(t) /\ ~HasFinished(t)
      /\ UNCHANGED <<cgraph, n_graph, n_threads, abort, pending, last_graph, current_chunk,
                     my_chunk, done>>
      /\ \A u \in Active \ {t} : Rests(u)
      /\ UNCHANGED barrierVars => ~Arrived(t)'
      /\ Enter(t) => Arrived(t)'
      /\ n_threads = 1 => t = Main /\ Active = {Main}
  BY <1>1, Computing, Zenon DEF LastBarrier
<1>3. PICK s \in Segments : UnderWay(s) /\ InSegment(s, t) BY <1>1, Computing
<1>4. ~Before(s, t) /\ ~Walking(s, t) /\ ~Ended(t)
  BY <1>2 DEF Before, Walking, Ended
<1>5. /\ s.kind # "end" => /\ Through(s, t) /\ ~(Last(s.node) + 1 < Len(cgraph))
      /\ s.kind = "walk" => Op(s.node) # "mul_mat"
      /\ s.kind = "product" => current_chunk >= NChunks(cgraph[s.node + 1])
  BY <1>2, <1>3, <1>4 DEF InSegment, Through, Gone, Segments
<1>6. pc'[t] = IF t = Main THEN "computed" ELSE "top"
  BY DEF LastBarrier, CallBarrier, Goto, PInv, PTypeOK
<1>7. HasFinished(t)' /\ ~NotStarted(t)'
  <2>1. t # Main => last_graph[t] = n_graph /\ ~pending[t]
    BY <1>2, ThreadFacts DEF PInv, PlaceInv, InGraph
  <2>. QED BY <1>2, <1>6, <2>1 DEF HasFinished, NotStarted, InGraph
<1>8. CASE n_threads = 1
  <2>1. Active = {t} /\ t = Main /\ ~Arrived(t)' BY <1>1, <1>2, <1>8
  <2>2. Whole
    <3>1. CASE s.kind = "end" BY <1>3, <3>1 DEF UnderWay, SegmentDone
    <3>2. CASE s.kind # "end"
      BY <1>3, <1>5, <2>1, <3>2, SegmentCompletes DEF PInv
    <3>. QED BY <3>1, <3>2
  <2>. QED BY <1>2, <1>7, <2>1, <2>2, GraphEnds
<1>9. CASE n_threads # 1
  <2>1. Arrived(t)' /\ Ended(t)' BY <1>1, <1>2, <1>7, <1>9 DEF Ended
  <2>2. Op(s.node)' = Op(s.node) /\ Last(s.node)' = Last(s.node) /\ SegmentOK(s)'
        /\ NChunks(cgraph[s.node + 1])' = NChunks(cgraph[s.node + 1])
    BY <1>2, <1>3 DEF UnderWay, SegmentOK, Op, Last, NChunks
  <2>3. s.kind # "end" => Through(s, t)' BY <1>2, <1>5, <2>1, <2>2 DEF Through, Gone
  <2>4. InSegment(s, t)' BY <1>2, <1>5, <2>1, <2>2, <2>3, Zenon DEF InSegment, Segments
  <2>5. ~Before(s, t)' /\ pc'[t] # "chunk" BY <1>6, <1>7 DEF Before, Walking
  <2>. QED BY <1>2, <1>3, <1>4, <2>2, <2>4, <2>5, OneGoesOn
<1>. QED BY <1>8, <1>9
-----------------------------------------------------------------------------
(* The theorems.                                                           *)

LEMMA InitInv == Init => BInv /\ PInv
<1>. SUFFICES ASSUME Init PROVE BInv /\ PInv OBVIOUS
<1>1. BInv BY InitBInv DEF Init
<1>2. Main \in Threads /\ Main \notin Workers /\ \A w \in Workers : w \in Threads /\ w # Main
  BY ThreadFacts
<1>3. n_threads = 0 /\ Active = {} BY DEF Init, BarrierInit, Active
<1>4. pc[Main] = "idle" /\ \A w \in Workers : pc[w] = "top" BY <1>2 DEF Init
<1>5. PTypeOK
  <2>1. <<>> \in Seq([op : Ops, chunks : Nat]) OBVIOUS
  <2>2. \A p \in DOMAIN done : p[1] \in Nat BY EmptyFacts DEF Init
  <2>. QED BY <1>2, <2>1, <2>2 DEF Init, PTypeOK, InGraph, Between, Outside
<1>6. PlaceInv BY <1>2, <1>4 DEF Init, PlaceInv, InGraph, Between, Outside
<1>7. DoneOnce /\ Over
  BY <1>3, <1>4, EmptyFacts DEF Init, DoneOnce, Over, Outside
<1>. QED BY <1>1, <1>5, <1>6, <1>7 DEF PInv

\* Every step of the pool is one that the barrier allows: only active threads
\* call it, and their number changes only when no active one is inside.
LEMMA StepKeepsContract ==
    ASSUME BInv, PInv, [Next]_vars
    PROVE  [BarrierNext]_barrierVars
<1>1. CASE MainStep
  <2>1. CASE Kickoff
    <3>1. Over BY <2>1, MainIsOutside DEF Kickoff
    <3>2. \A t \in Active : at[t] = "out" \/ n_passed[t] # n_barrier_passed
      BY <3>1 DEF Over, Arrived
    <3>3. PICK n \in 1 .. MaxThreads : n_threads' = n BY <2>1 DEF Kickoff
    <3>4. SetThreads(n) BY <2>1, <3>2, <3>3 DEF Kickoff, SetThreads
    <3>. QED BY <3>4 DEF BarrierNext
  <2>2. CASE ~Kickoff
    BY <1>1, <2>2 DEF MainStep, GraphCompute, Signal, Return, PauseOrResume, Free, Join
  <2>. QED BY <2>1, <2>2
<1>2. CASE AbortCallback BY <1>2 DEF AbortCallback
<1>3. CASE \E w \in Workers : WorkerStep(w) \/ SpuriousWakeup(w)
  BY <1>3, WorkerSteps DEF PInv
<1>4. CASE \E t \in Threads : ComputeStep(t)
  <2>. SUFFICES ASSUME NEW t \in Threads, ComputeStep(t), ~UNCHANGED barrierVars
                PROVE  BarrierNext
    BY <1>4
  <2>1. Enter(t) \/ InBarrier(t)
    BY DEF ComputeStep, NextNode, ComputeShare, Convert, SetCounter, ComputeChunk, StealChunk,
           Synchronize, LastBarrier, BarrierStep, CallBarrier
  <2>. QED BY <2>1 DEF BarrierNext
<1>5. CASE UNCHANGED vars BY <1>5 DEF vars
<1>. QED BY <1>1, <1>2, <1>3, <1>4, <1>5 DEF Next, Finished

LEMMA StepKeepsInv == BInv /\ PInv /\ [Next]_vars => (BInv /\ PInv)'
<1>. SUFFICES ASSUME BInv, PInv, [Next]_vars PROVE BInv' /\ PInv' OBVIOUS
<1>1. BInv' BY StepKeepsContract, StepKeepsBInv
<1>2. PTypeOK' BY StepKeepsType DEF PInv
<1>3. PlaceInv' BY StepKeepsPlace
<1>4. WorkInv'
  <2>1. CASE MainStep BY <1>2, <1>3, <2>1, MainKeepsWork
  <2>2. CASE AbortCallback BY <2>2, AbortKeepsWork
  <2>3. CASE \E w \in Workers : WorkerStep(w) \/ SpuriousWakeup(w) BY <2>3, WorkerKeepsWork
  <2>4. CASE \E t \in Threads : ComputeStep(t)
    BY <1>2, <1>3, <2>4, NextNodeKeepsWork, ComputeShareKeepsWork, ConvertKeepsWork,
       SetCounterKeepsWork, ComputeChunkKeepsWork, StealChunkKeepsWork, SynchronizeKeepsWork,
       LastBarrierKeepsWork, BarrierKeepsWork DEF ComputeStep
  <2>5. CASE UNCHANGED vars
    <3>1. /\ UNCHANGED <<cgraph, n_graph, n_threads, current_chunk, abort, done, pc>>
          /\ \A u \in Threads : Rests(u)
      BY <2>5 DEF vars, barrierVars, poolVars, syncVars, localVars, Rests, Arrived
    <3>2. \A u \in Active : Rests(u) /\ (HasFinished(u)' <=> HasFinished(u))
      BY <2>5, <3>1, ActiveFacts DEF vars, poolVars, syncVars, localVars, HasFinished
    <3>3. Over => Over' BY <3>1, <3>2, OverRests DEF Rests
    <3>. QED BY <3>1, <3>2, <3>3, AllRest DEF PInv, WorkInv
  <2>. QED BY <2>1, <2>2, <2>3, <2>4, <2>5 DEF Next, Finished
<1>. QED BY <1>1, <1>2, <1>3, <1>4 DEF PInv, WorkInv

LEMMA SpecKeepsInv == Spec => [](BInv /\ PInv)
BY InitInv, StepKeepsInv, PTL DEF Spec

LEMMA SourcesFromInv == BInv /\ PInv => SourcesReady
<1>. SUFFICES ASSUME BInv, PInv, NEW t \in Active, At(t, "compute") \/ At(t, "chunk")
              PROVE  /\ \A n \in ComputedNodes : n < node_n[t] => Complete(n)
                     /\ At(t, "chunk") =>
                           \A u \in Active : Piece(node_n[t], "convert", u) \in DOMAIN done
  BY DEF SourcesReady
<1>1. t \in Threads BY ActiveFacts
<1>2. PICK s \in Segments : UnderWay(s) /\ InSegment(s, t) /\ ~Arrived(t)
  BY <1>1, InSomeSegment DEF InGraph
<1>3. pc[t] \in {"compute", "chunk"} /\ (At(t, "chunk") <=> pc[t] = "chunk") BY DEF At
<1>4. ~NotStarted(t) /\ ~HasFinished(t) BY <1>3 DEF NotStarted, HasFinished, InGraph
<1>5. ~Walking(s, t) /\ ~Through(s, t) /\ ~Ended(t)
  BY <1>3, <1>4 DEF Walking, Through, Gone, Ended
<1>6. CASE pc[t] = "compute"
  <2>1. s.kind = "walk" /\ node_n[t] = s.node
    BY <1>2, <1>5, <1>6 DEF InSegment, Before, Segments
  <2>. QED BY <1>2, <1>3, <1>6, <2>1 DEF UnderWay, SegmentDone
<1>7. CASE pc[t] = "chunk"
  <2>1. s.kind = "product" /\ node_n[t] = s.node
    BY <1>2, <1>5, <1>7 DEF InSegment, Before, Segments
  <2>2. \A u \in Active : Share(s.node, u) = Piece(s.node, "convert", u)
    BY <1>2, <2>1 DEF UnderWay, SegmentOK, Share
  <2>. QED BY <1>2, <2>1, <2>2 DEF UnderWay, SegmentDone
<1>. QED BY <1>3, <1>6, <1>7

LEMMA OverFromInv == BInv /\ PInv => NothingHalfDone
<1>. SUFFICES ASSUME BInv, PInv, At(Main, "computed")
              PROVE  /\ \A p \in DOMAIN done : Complete(p[1])
                     /\ \A w \in Workers : pc[w] \notin InGraph /\ ~pending[w]
  BY DEF NothingHalfDone
<1>1. Over BY MainIsOutside
<1>. QED BY <1>1, NobodyComputes DEF Over, Whole, At

\* Whatever the number of threads, the graphs, the pauses and the aborts, the
\* pool calls ggml_barrier as the barrier asks: only the threads that compute
\* the graph call it, and a kickoff changes their number only when none of them
\* is on its way through, although some may still be leaving the last barrier.
THEOREM PoolKeepsBarrier == Spec => KeepsBarrier
<1>1. Init => BarrierInit BY DEF Init
<1>2. BInv /\ PInv /\ [Next]_vars => [BarrierNext]_barrierVars BY StepKeepsContract
<1>. QED BY <1>1, <1>2, SpecKeepsInv, PTL DEF Spec, KeepsBarrier, BarrierSpec

\* So in the pool nobody passes a barrier before all threads are there.
THEOREM PoolPassesTogether == Spec => []NobodyPassesEarly
<1>1. BInv => NobodyPassesEarly BY DEF BInv, CountInv, NobodyPassesEarly
<1>. QED BY <1>1, SpecKeepsInv, PTL

\* ggml_compute_forward_mul_mat: no chunk is computed twice although the threads
\* begin at their own number without asking the counter, and no share twice.
THEOREM PiecesOnce == Spec => []EachPieceOnce
<1>1. PInv => EachPieceOnce BY DEF PInv, DoneOnce, EachPieceOnce
<1>. QED BY <1>1, SpecKeepsInv, PTL

\* ggml_graph_compute_thread: a thread that computes a node finds all earlier
\* ones complete, and one that multiplies finds the whole conversion.
THEOREM SourcesAreReady == Spec => []SourcesReady
BY SourcesFromInv, SpecKeepsInv, PTL

\* ggml_graph_compute: when it returns, aborted or not, no node is half done and
\* no thread is, or will be, at work in the graph.
THEOREM GraphsEndWhole == Spec => []NothingHalfDone
BY OverFromInv, SpecKeepsInv, PTL

\* A thread that is at work in a graph is one of those the kickoff chose, so no
\* thread is held up at a barrier that would not count it.
THEOREM OnlyActiveCompute == Spec => [](\A t \in Threads : pc[t] \in InGraph => t \in Active)
<1>1. BInv /\ PInv => \A t \in Threads : pc[t] \in InGraph => t \in Active
  <2>. SUFFICES ASSUME BInv, PInv, NEW t \in Threads, pc[t] \in InGraph PROVE t \in Active
    OBVIOUS
  <2>1. CASE t \in Workers BY <2>1 DEF PInv, PlaceInv
  <2>2. CASE t = Main
    <3>1. ~Over BY <2>2 DEF Over, InGraph, Outside
    <3>. QED BY <2>2, <3>1 DEF PInv, UnderWay
  <2>. QED BY <2>1, <2>2, ThreadFacts
<1>. QED BY <1>1, SpecKeepsInv, PTL
-----------------------------------------------------------------------------
(* The pool does what ggml_graph_compute promises its caller.              *)

Running == pc[Main] \notin {"idle", "join", "freed"}

\* The nodes of the graph that are still to be computed.
ToDo == {n \in ComputedNodes : done = EmptyBag \/ ~Complete(n)}

GC == INSTANCE GraphCompute WITH
         Lengths <- Nat,
         running <- Running,
         left    <- IF Running THEN Cardinality(ToDo) ELSE 0,
         status  <- ec

\* A graph that is to be given up is given up with the status "aborted".
AbortIsTold == abort # -1 => ec = "aborted"

LEMMA ToDoIsFinite ==
    ASSUME PTypeOK
    PROVE  IsFiniteSet(ToDo) /\ Cardinality(ToDo) \in Nat
<1>1. Len(cgraph) \in Nat BY NodeFacts
<1>2. IsFiniteSet(0 .. Len(cgraph) - 1) BY <1>1, FS_Interval
<1>3. ToDo \subseteq 0 .. Len(cgraph) - 1 BY DEF ToDo, ComputedNodes
<1>. QED BY <1>2, <1>3, FS_Subset, FS_CardinalityType

\* A node is never complete before something is done of it.
LEMMA NothingIsFree ==
    ASSUME Main \in Active, NEW n, Complete(n)
    PROVE  done # EmptyBag
<1>1. \E p : p \in Pieces(n)
  <2>1. CASE cgraph[n + 1].op = "mul_mat"
    <3>1. Piece(n, "convert", Main) \in Pieces(n) BY <2>1 DEF Pieces
    <3>. QED BY <3>1
  <2>2. CASE cgraph[n + 1].op # "mul_mat"
    <3>1. Piece(n, "share", Main) \in Pieces(n) BY <2>2 DEF Pieces
    <3>. QED BY <3>1
  <2>. QED BY <2>1, <2>2
<1>. QED BY <1>1, EmptyFacts DEF Complete

\* A piece of work completes the node it belongs to, or none.
LEMMA PieceMapped ==
    ASSUME PTypeOK, Main \in Active, UNCHANGED <<cgraph, n_threads>>,
           NEW p, Do(p)
    PROVE  ToDo' = ToDo \/ \E k \in ToDo : ToDo' = ToDo \ {k}
<1>1. Main \in Active' /\ ComputedNodes' = ComputedNodes /\ (\A n : Pieces(n)' = Pieces(n))
  BY DEF Active, ComputedNodes, Pieces, NChunks
<1>2. ToDo = {n \in ComputedNodes : ~Complete(n)} BY NothingIsFree DEF ToDo
<1>3. ToDo' = {n \in ComputedNodes : ~Complete(n)'}
  <2>1. done' # EmptyBag BY DoDomain, EmptyFacts
  <2>. QED BY <1>1, <2>1 DEF ToDo
<1>4. DOMAIN done' = DOMAIN done \cup {p} BY DoDomain
<1>5. \A n, m : \A q : q \in Pieces(n) /\ q \in Pieces(m) => n = m
  BY DEF Pieces, Piece
<1>6. \A n : Complete(n) => Complete(n)' BY <1>1, <1>4 DEF Complete
<1>7. \A n, m : Complete(n)' /\ ~Complete(n) /\ Complete(m)' /\ ~Complete(m) => n = m
  BY <1>1, <1>4, <1>5 DEF Complete
<1>8. CASE \E k \in ToDo : Complete(k)'
  <2>1. PICK k \in ToDo : Complete(k)' BY <1>8
  <2>2. ToDo' = ToDo \ {k} BY <1>2, <1>3, <1>6, <1>7, <2>1
  <2>. QED BY <2>1, <2>2
<1>9. CASE ~\E k \in ToDo : Complete(k)'
  <2>1. ToDo' = ToDo BY <1>2, <1>3, <1>6, <1>9
  <2>. QED BY <2>1
<1>. QED BY <1>8, <1>9

LEMMA SameToDo ==
    ASSUME UNCHANGED <<cgraph, n_threads, done>>
    PROVE  ToDo' = ToDo
BY DataSame DEF ToDo

LEMMA StepKeepsAbortTold ==
    ASSUME AbortIsTold, PInv, [Next]_vars
    PROVE  AbortIsTold'
<1>1. UNCHANGED <<abort, ec>> \/ abort' = -1 \/ ec' = "aborted"
  <2>1. CASE MainStep
    BY <2>1 DEF MainStep, GraphCompute, Kickoff, Signal, Return, PauseOrResume, Free, Join, poolVars
  <2>2. CASE AbortCallback BY <2>2 DEF AbortCallback
  <2>3. ASSUME NEW w \in Workers, WorkerStep(w) \/ SpuriousWakeup(w)
        PROVE  UNCHANGED <<abort, ec>>
    BY <2>3 DEF WorkerStep, SpuriousWakeup, CheckPause, CheckStop, PauseWait, PauseWoken,
       PollFlags, PollGraph, WaitForWork, StartWork, WorkerGoes, poolVars
  <2>4. ASSUME NEW t \in Threads, ComputeStep(t) PROVE UNCHANGED <<abort, ec>>
    BY <2>4 DEF ComputeStep, NextNode, ComputeShare, Convert, SetCounter, ComputeChunk,
       StealChunk, Synchronize, LastBarrier, BarrierStep, poolVars
  <2>5. CASE UNCHANGED vars BY <2>5 DEF vars, poolVars
  <2>. QED BY <2>1, <2>2, <2>3, <2>4, <2>5 DEF Next, Finished
<1>. QED BY <1>1 DEF AbortIsTold

\* A call that returns with the status "success" has left nothing to be computed.
LEMMA ReturnsWhole ==
    ASSUME PInv, PTypeOK, AbortIsTold, At(Main, "computed")
    PROVE  ec = "aborted" \/ Cardinality(ToDo) = 0
<1>1. Main \in Active /\ Whole BY MainIsOutside DEF Over, At
<1>2. CASE abort # -1 BY <1>2 DEF AbortIsTold
<1>3. CASE abort = -1
  <2>1. ToDo = {} BY <1>1, <1>3, NothingIsFree DEF ToDo, Whole
  <2>. QED BY <2>1, FS_EmptySet
<1>. QED BY <1>2, <1>3

\* A step of a thread computes one node or, for the caller, nothing.
LEMMA ComputeStepMapped ==
    ASSUME BInv, PInv, NEW t \in Threads, ComputeStep(t)
    PROVE  [GC!Next]_(GC!gcVars)
<1>1. PTypeOK /\ UNCHANGED <<cgraph, n_threads, ec>>
  <2>1. PTypeOK BY DEF PInv
  <2>2. UNCHANGED <<cgraph, n_threads>> BY <2>1, ComputeMovesOne
  <2>3. UNCHANGED ec
    BY DEF ComputeStep, NextNode, ComputeShare, Convert, SetCounter, ComputeChunk,
       StealChunk, Synchronize, LastBarrier, BarrierStep, poolVars
  <2>. QED BY <2>1, <2>2, <2>3
<1>2. Running' <=> Running
  <2>1. CASE t # Main
    <3>1. pc'[Main] = pc[Main] BY <1>1, <2>1, ComputeMovesOne, ThreadFacts
    <3>. QED BY <3>1 DEF Running
  <2>2. CASE t = Main
    <3>1. pc'[t] = pc[t] \/ (pc[t] \in InGraph /\ pc'[t] \in InGraph \cup {"callback", "computed"})
      BY <1>1, <2>2, ComputePlaces
    <3>. QED BY <2>2, <3>1 DEF Running, InGraph
  <2>. QED BY <2>1, <2>2
<1>3. CASE UNCHANGED done BY <1>1, <1>2, <1>3, SameToDo DEF GC!gcVars
<1>4. CASE ~UNCHANGED done
  <2>1. (ComputeShare(t) \/ Convert(t) \/ ComputeChunk(t)) /\ \E p : Do(p)
    BY <1>4 DEF ComputeStep, NextNode, ComputeShare, Convert, SetCounter, ComputeChunk,
       StealChunk, Synchronize, LastBarrier, BarrierStep
  <2>2. PICK p \in {"compute", "chunk"} : At(t, p)
    BY <2>1 DEF ComputeShare, Convert, ComputeChunk
  <2>3. Main \in Active /\ Running
    <3>1. PICK s \in Segments : UnderWay(s) BY <2>2, InSomeSegment DEF InGraph
    <3>2. Main \in Active BY <3>1 DEF UnderWay
    <3>3. pc[Main] \in InGraph \cup {"callback", "signal"} \/ pc[Main] = "computed"
      BY <3>1, MainIsBusy DEF Ended, HasFinished
    <3>. QED BY <3>2, <3>3 DEF Running, InGraph
  <2>4. ToDo' = ToDo \/ \E k \in ToDo : ToDo' = ToDo \ {k}
    BY <1>1, <2>1, <2>3, PieceMapped
  <2>5. CASE ToDo' = ToDo BY <1>1, <1>2, <2>5 DEF GC!gcVars
  <2>6. ASSUME NEW k \in ToDo, ToDo' = ToDo \ {k}
        PROVE  GC!ComputeNode
    <3>1. IsFiniteSet(ToDo) /\ Cardinality(ToDo) \in Nat BY <1>1, ToDoIsFinite
    <3>2. Cardinality(ToDo') = Cardinality(ToDo) - 1 /\ Cardinality(ToDo) # 0
      BY <2>6, <3>1, FS_RemoveElement, FS_EmptySet
    <3>. QED BY <1>1, <1>2, <2>3, <3>1, <3>2 DEF GC!ComputeNode
  <2>. QED BY <2>4, <2>5, <2>6 DEF GC!Next
<1>. QED BY <1>3, <1>4

LEMMA MainStepMapped ==
    ASSUME BInv, PInv, PTypeOK', AbortIsTold, MainStep
    PROVE  [GC!Next]_(GC!gcVars)
<1>. USE DEF At, Goto
<1>1. PTypeOK /\ Main \in Threads
      /\ pc \in [Threads -> InGraph \cup Between \cup Outside \cup {"callback"}]
  BY ThreadFacts DEF PInv, PTypeOK
<1>2. CASE GraphCompute
  <2>1. ~Running /\ Running' /\ ec' = "success" BY <1>1, <1>2 DEF GraphCompute, Running
  <2>2. Cardinality(ToDo') \in Nat
    <3>1. (PTypeOK => IsFiniteSet(ToDo) /\ Cardinality(ToDo) \in Nat)' BY ToDoIsFinite, PTL
    <3>. QED BY <3>1
  <2>3. GC!Start BY <2>1, <2>2 DEF GC!Start
  <2>. QED BY <2>3 DEF GC!Next
<1>3. CASE Kickoff
  <2>1. Running /\ Running' /\ ec' = ec BY <1>1, <1>3 DEF Kickoff, Running
  <2>2. done = EmptyBag /\ done' = EmptyBag BY <1>3, MainIsOutside DEF Kickoff, Over
  <2>3. ComputedNodes' = ComputedNodes BY <1>3 DEF Kickoff, ComputedNodes
  <2>4. ToDo' = ToDo BY <2>2, <2>3 DEF ToDo
  <2>. QED BY <2>1, <2>4 DEF GC!gcVars
<1>4. CASE Signal
  <2>1. Running /\ Running' /\ ec' = ec BY <1>1, <1>4 DEF Signal, Running
  <2>2. ToDo' = ToDo BY <1>4, SameToDo DEF Signal, barrierVars
  <2>. QED BY <2>1, <2>2 DEF GC!gcVars
<1>5. CASE Return
  <2>1. Running /\ ~Running' /\ ec' = ec BY <1>1, <1>5 DEF Return, Running, poolVars
  <2>2. ec = "aborted" \/ Cardinality(ToDo) = 0 BY <1>1, <1>5, ReturnsWhole DEF Return
  <2>3. GC!Return BY <2>1, <2>2 DEF GC!Return
  <2>. QED BY <2>3 DEF GC!Next
<1>6. CASE PauseOrResume \/ Free \/ Join
  <2>1. ~Running /\ ~Running' /\ ec' = ec
    BY <1>1, <1>6 DEF PauseOrResume, Free, Join, Running, localVars, poolVars
  <2>. QED BY <2>1 DEF GC!gcVars, Running
<1>. QED BY <1>2, <1>3, <1>4, <1>5, <1>6 DEF MainStep

LEMMA StepMapped ==
    ASSUME BInv, PInv, PTypeOK', AbortIsTold, [Next]_vars
    PROVE  [GC!Next]_(GC!gcVars)
<1>1. CASE MainStep BY <1>1, MainStepMapped
<1>2. CASE AbortCallback
  <2>1. Running /\ Running' /\ UNCHANGED <<cgraph, n_threads, done>>
    BY <1>2, ThreadFacts
       DEF AbortCallback, At, Goto, Computes, barrierVars, Running, PInv, PTypeOK
  <2>2. ec' = "aborted" \/ ec' = ec BY <1>2 DEF AbortCallback
  <2>3. ToDo' = ToDo BY <2>1, SameToDo
  <2>. QED BY <2>1, <2>2, <2>3 DEF GC!Next, GC!Abort, GC!gcVars
<1>3. ASSUME NEW w \in Workers, WorkerStep(w) \/ SpuriousWakeup(w)
      PROVE  UNCHANGED GC!gcVars
  <2>1. UNCHANGED <<cgraph, n_threads, done, ec>> /\ pc'[Main] = pc[Main]
    BY <1>3, WorkerSteps, ThreadFacts DEF PInv, barrierVars, poolVars
  <2>2. ToDo' = ToDo BY <2>1, SameToDo
  <2>. QED BY <2>1, <2>2 DEF GC!gcVars, Running
<1>4. CASE \E t \in Threads : ComputeStep(t) BY <1>4, ComputeStepMapped
<1>5. CASE UNCHANGED vars
  <2>1. UNCHANGED <<cgraph, n_threads, done, ec, pc>>
    BY <1>5 DEF vars, barrierVars, poolVars, localVars
  <2>2. ToDo' = ToDo BY <2>1, SameToDo
  <2>. QED BY <2>1, <2>2 DEF GC!gcVars, Running
<1>. QED BY <1>1, <1>2, <1>3, <1>4, <1>5 DEF Next, Finished

\* The safety part of ComputesGraphs, for any number of threads and any graphs:
\* behind ggml_graph_compute the caller sees one node computed after the other,
\* a node complete at one instant, and an answer that is "aborted" whenever
\* something was left out.
THEOREM PoolComputesGraphs == Spec => GC!Init /\ [][GC!Next]_(GC!gcVars)
<1>1. Init => GC!Init /\ AbortIsTold
  <2>. SUFFICES ASSUME Init PROVE GC!Init /\ AbortIsTold OBVIOUS
  <2>1. pc[Main] = "idle" /\ ec = "success" /\ abort = -1 BY ThreadFacts DEF Init
  <2>. QED BY <2>1 DEF GC!Init, Running, AbortIsTold
<1>2. PInv => PTypeOK BY DEF PInv
<1>3. BInv /\ PInv /\ PTypeOK' /\ AbortIsTold /\ [Next]_vars => [GC!Next]_(GC!gcVars)
  BY StepMapped
<1>4. PInv /\ AbortIsTold /\ [Next]_vars => AbortIsTold' BY StepKeepsAbortTold
<1>. QED BY <1>1, <1>2, <1>3, <1>4, SpecKeepsInv, PTL DEF Spec
=============================================================================
