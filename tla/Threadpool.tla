----------------------------- MODULE Threadpool -----------------------------
(***************************************************************************)
(* ggml's thread pool as the app builds it (no OpenMP): the main thread    *)
(* kicks off one graph after the other, the workers poll or sleep until    *)
(* there is one, all of them compute it node by node with a barrier after  *)
(* each, share the chunks of a matrix product through a counter, and leave *)
(* together, early if the abort callback says so.  Between graphs the pool *)
(* may be paused, resumed or freed.                                        *)
(***************************************************************************)
EXTENDS Barrier, Integers, Sequences, Bags

CONSTANTS
    Graphs,             \* the graphs: sequences of nodes [op, chunks]
    MaxGraphs           \* bound on the graphs computed

Ops == {"empty", "plain", "fused", "mul_mat"}

ASSUME ThreadpoolAssumption ==
    /\ MaxGraphs \in Nat
    /\ Graphs \subseteq Seq([op : Ops, chunks : Nat])

VARIABLES
    cgraph,             \* the graph
    n_graph,            \* graphs kicked off: the high bits of n_graph
    current_chunk, stop, pause, abort, ec,  \* fields of the pool
    mutex,              \* the main thread holds the mutex between two of its steps
    waiting,            \* workers waiting on the condition variable
    pending, last_graph,                    \* fields of a worker's state
    pc, node_n, my_chunk,                   \* locals of a thread, 0 while unused
    done                \* bag of the pieces of work done for the graph under way

poolVars == <<cgraph, n_graph, current_chunk, stop, pause, abort, ec>>
syncVars == <<mutex, waiting, pending, last_graph>>
localVars == <<pc, node_n, my_chunk>>
vars == <<barrierVars, poolVars, syncVars, localVars, done>>

Main == 0
Workers == Threads \ {Main}

Init ==
    /\ BarrierInit
    /\ cgraph = <<>>
    /\ n_graph = 0
    /\ current_chunk = 0
    /\ stop = FALSE
    /\ pause \in BOOLEAN
    /\ abort = -1
    /\ ec = "success"
    /\ mutex = FALSE
    /\ waiting = {}
    /\ pending = [w \in Workers |-> FALSE]
    /\ last_graph = [w \in Workers |-> 0]
    /\ pc = [t \in Threads |-> IF t = Main THEN "idle" ELSE "top"]
    /\ node_n = [t \in Threads |-> 0]
    /\ my_chunk = [t \in Threads |-> 0]
    /\ done = EmptyBag

\* Thread t, outside of any barrier, is at place p; it goes on at place q.
At(t, p) == pc[t] = p /\ at[t] = "out"
Goto(t, q) == pc' = [pc EXCEPT ![t] = q]
-----------------------------------------------------------------------------
(* The main thread between graphs.                                         *)

\* ggml_graph_compute: the fields are reset before any worker looks at them.
GraphCompute ==
    /\ At(Main, "idle")
    /\ n_graph < MaxGraphs
    /\ cgraph' \in Graphs
    /\ current_chunk' = 0
    /\ abort' = -1
    /\ ec' = "success"
    /\ Goto(Main, "kickoff")
    /\ UNCHANGED <<barrierVars, n_graph, stop, pause, syncVars, node_n, my_chunk, done>>

\* ggml_graph_compute_kickoff: pollers see n_graph before the broadcast.
Kickoff ==
    /\ At(Main, "kickoff")
    /\ ~mutex
    /\ mutex' = TRUE
    /\ n_graph' = n_graph + 1
    /\ n_threads' \in 1 .. MaxThreads
    /\ Goto(Main, "signal")
    /\ UNCHANGED <<n_barrier, n_barrier_passed, at, n_passed, cgraph, current_chunk, stop,
                   pause, abort, ec, waiting, pending, last_graph, node_n, my_chunk, done>>

\* Mutant: the workers that sleep are not told.
Signal_NoBroadcast ==
    /\ At(Main, "signal")
    /\ pause' = FALSE
    /\ mutex' = FALSE
    /\ Goto(Main, "node")
    /\ UNCHANGED <<barrierVars, cgraph, n_graph, current_chunk, stop, abort, ec, waiting,
                   pending, last_graph, node_n, my_chunk, done>>

Signal ==
    /\ At(Main, "signal")
    /\ pause' = FALSE
    /\ waiting' = {}
    /\ mutex' = FALSE
    /\ Goto(Main, "node")
    /\ UNCHANGED <<barrierVars, cgraph, n_graph, current_chunk, stop, abort, ec, pending,
                   last_graph, node_n, my_chunk, done>>

\* ggml_graph_compute returns ec.
Return ==
    /\ At(Main, "computed")
    /\ Goto(Main, "idle")
    /\ done' = EmptyBag
    /\ UNCHANGED <<barrierVars, poolVars, syncVars, node_n, my_chunk>>

\* ggml_threadpool_pause and ggml_threadpool_resume.
PauseOrResume ==
    /\ At(Main, "idle")
    /\ ~mutex
    /\ pause' = ~pause
    /\ waiting' = {}
    /\ UNCHANGED <<barrierVars, cgraph, n_graph, current_chunk, stop, abort, ec, mutex,
                   pending, last_graph, localVars, done>>

\* Mutant: a paused pool is not resumed before it is freed.
Free_Paused ==
    /\ At(Main, "idle")
    /\ ~mutex
    /\ stop' = TRUE
    /\ waiting' = {}
    /\ Goto(Main, "join")
    /\ UNCHANGED <<barrierVars, cgraph, n_graph, current_chunk, pause, abort, ec, mutex,
                   pending, last_graph, node_n, my_chunk, done>>

\* ggml_threadpool_free, up to the joins.
Free ==
    /\ At(Main, "idle")
    /\ ~mutex
    /\ stop' = TRUE
    /\ pause' = FALSE
    /\ waiting' = {}
    /\ Goto(Main, "join")
    /\ UNCHANGED <<barrierVars, cgraph, n_graph, current_chunk, abort, ec, mutex, pending,
                   last_graph, node_n, my_chunk, done>>

Join ==
    /\ At(Main, "join")
    /\ \A w \in Workers : pc[w] = "exit"
    /\ Goto(Main, "freed")
    /\ UNCHANGED <<barrierVars, poolVars, syncVars, node_n, my_chunk, done>>
-----------------------------------------------------------------------------
(* A worker between graphs: ggml_graph_compute_secondary_thread.           *)

WorkerGoes(w, p, q) ==
    /\ At(w, p)
    /\ Goto(w, q)
    /\ UNCHANGED <<barrierVars, poolVars, mutex, pending, last_graph, node_n, my_chunk, done>>

CheckPause(w) ==
    WorkerGoes(w, "top", IF pause THEN "pause" ELSE "stop") /\ UNCHANGED waiting

CheckStop(w) ==
    WorkerGoes(w, "stop", IF stop THEN "exit" ELSE "poll") /\ UNCHANGED waiting

\* One wait on the condition variable, then the loop looks at pause again.
PauseWait(w) ==
    /\ ~mutex
    /\ \/ ~pause /\ WorkerGoes(w, "pause", "top") /\ UNCHANGED waiting
       \/ pause /\ WorkerGoes(w, "pause", "resumed") /\ waiting' = waiting \cup {w}

PauseWoken(w) ==
    /\ ~mutex
    /\ w \notin waiting
    /\ WorkerGoes(w, "resumed", "top")
    /\ UNCHANGED waiting

\* ggml_graph_compute_thread_ready reads the flags, then n_graph.
Flagged(w) == pending[w] \/ stop \/ pause

TakeGraph(w) ==
    /\ last_graph' = [last_graph EXCEPT ![w] = n_graph]
    /\ pending' = [pending EXCEPT ![w] = w < n_threads]

\* ggml_graph_compute_poll_for_work: a bounded number of rounds.
PollFlags(w) ==
    WorkerGoes(w, "poll", IF Flagged(w) THEN "lock" ELSE "poll_graph") /\ UNCHANGED waiting

PollGraph(w) ==
    /\ At(w, "poll_graph")
    /\ IF n_graph # last_graph[w]
       THEN /\ TakeGraph(w)
            /\ Goto(w, IF w < n_threads THEN "work" ELSE "lock")
       ELSE /\ \/ Goto(w, "poll")
               \/ Goto(w, "lock")
            /\ UNCHANGED <<pending, last_graph>>
    /\ UNCHANGED <<barrierVars, poolVars, mutex, waiting, node_n, my_chunk, done>>

\* ggml_graph_compute_check_for_work under the mutex, woken or not.
WaitForWork(w) ==
    /\ At(w, "lock")
    /\ ~mutex
    /\ w \notin waiting
    /\ \/ Flagged(w) /\ Goto(w, "work") /\ UNCHANGED <<waiting, pending, last_graph>>
       \/ ~Flagged(w) /\ n_graph # last_graph[w] /\ TakeGraph(w)
            /\ Goto(w, "work") /\ UNCHANGED waiting
       \/ ~Flagged(w) /\ n_graph = last_graph[w] /\ waiting' = waiting \cup {w}
            /\ UNCHANGED <<pc, pending, last_graph>>
    /\ UNCHANGED <<barrierVars, poolVars, mutex, node_n, my_chunk, done>>

\* A wait on a condition variable may end without a signal.
SpuriousWakeup(w) ==
    /\ w \in waiting
    /\ waiting' = waiting \ {w}
    /\ UNCHANGED <<barrierVars, poolVars, mutex, pending, last_graph, localVars, done>>

StartWork(w) ==
    /\ At(w, "work")
    /\ pending' = [pending EXCEPT ![w] = FALSE]
    /\ Goto(w, IF pending[w] THEN "node" ELSE "top")
    /\ UNCHANGED <<barrierVars, poolVars, mutex, waiting, last_graph, node_n, my_chunk, done>>
-----------------------------------------------------------------------------
(* Any thread: ggml_graph_compute_thread.                                  *)

Node(t) == cgraph[node_n[t] + 1]

Computes(t) == UNCHANGED <<cgraph, n_graph, stop, pause, syncVars>>

\* ggml_barrier, as a call that returns to place q.
CallBarrier(t, q) ==
    /\ Goto(t, q)
    /\ IF n_threads = 1 THEN UNCHANGED barrierVars ELSE Enter(t)

BarrierStep(t) ==
    /\ InBarrier(t)
    /\ UNCHANGED <<poolVars, syncVars, localVars, done>>

\* The head of the loop over the nodes, which skips the empty ones.
NextNode(t) ==
    /\ At(t, "node")
    /\ IF node_n[t] < Len(cgraph) /\ abort # node_n[t]
       THEN IF Node(t).op = "empty"
            THEN node_n' = [node_n EXCEPT ![t] = @ + 1] /\ UNCHANGED pc
            ELSE Goto(t, "compute") /\ UNCHANGED node_n
       ELSE Goto(t, "last_barrier") /\ UNCHANGED node_n
    /\ Computes(t)
    /\ UNCHANGED <<barrierVars, current_chunk, abort, ec, my_chunk, done>>

\* Where the loop goes on when a node is computed: only thread 0 asks.
AfterNode(t) == IF t = Main THEN "callback" ELSE "sync"

\* A piece of work: thread t's share of a node or of its conversion, or a chunk.
Piece(n, kind, i) == <<n, kind, i>>

Do(piece) == done' = done (+) SetToBag({piece})

\* A thread's share of a node; a fused one stands for the next node too.
ComputeShare(t) ==
    /\ At(t, "compute")
    /\ Node(t).op \in {"plain", "fused"}
    /\ Do(Piece(node_n[t], "share", t))
    /\ node_n' = [node_n EXCEPT ![t] = IF Node(t).op = "fused" THEN @ + 1 ELSE @]
    /\ Goto(t, AfterNode(t))
    /\ Computes(t)
    /\ UNCHANGED <<barrierVars, current_chunk, abort, ec, my_chunk>>

\* ggml_compute_forward_mul_mat: convert, let thread 0 set the counter, meet,
\* then start at chunk ith.
Convert(t) ==
    /\ At(t, "compute")
    /\ Node(t).op = "mul_mat"
    /\ Do(Piece(node_n[t], "convert", t))
    /\ Goto(t, "counter")
    /\ Computes(t)
    /\ UNCHANGED <<barrierVars, current_chunk, abort, ec, node_n, my_chunk>>

\* Mutant: the counter starts at a chunk that the last thread takes unasked.
SetCounter_OneTooLow(t) ==
    /\ At(t, "counter")
    /\ current_chunk' = IF t = Main THEN n_threads - 1 ELSE current_chunk
    /\ my_chunk' = [my_chunk EXCEPT ![t] = t]
    /\ CallBarrier(t, "chunk")
    /\ Computes(t)
    /\ UNCHANGED <<abort, ec, node_n, done>>

SetCounter(t) ==
    /\ At(t, "counter")
    /\ current_chunk' = IF t = Main THEN n_threads ELSE current_chunk
    /\ my_chunk' = [my_chunk EXCEPT ![t] = t]
    /\ CallBarrier(t, "chunk")
    /\ Computes(t)
    /\ UNCHANGED <<abort, ec, node_n, done>>

\* Too few chunks for the threads: cut the product into one per thread.
NChunks(n) == IF n.chunks < 4 * n_threads THEN n_threads ELSE n.chunks

ComputeChunk(t) ==
    /\ At(t, "chunk")
    /\ IF my_chunk[t] < NChunks(Node(t))
       THEN /\ Do(Piece(node_n[t], "chunk", my_chunk[t]))
            /\ Goto(t, IF n_threads >= NChunks(Node(t)) THEN AfterNode(t) ELSE "steal")
       ELSE /\ Goto(t, AfterNode(t))
            /\ UNCHANGED done
    /\ my_chunk' = [my_chunk EXCEPT ![t] = 0]
    /\ Computes(t)
    /\ UNCHANGED <<barrierVars, current_chunk, abort, ec, node_n>>

StealChunk(t) ==
    /\ At(t, "steal")
    /\ my_chunk' = [my_chunk EXCEPT ![t] = current_chunk]
    /\ current_chunk' = current_chunk + 1
    /\ Goto(t, "chunk")
    /\ Computes(t)
    /\ UNCHANGED <<barrierVars, abort, ec, node_n, done>>

\* Mutant: the abort takes effect at the node just computed.
AbortCallback_ThisNode ==
    /\ At(Main, "callback")
    /\ \/ abort' = node_n[Main] /\ ec' = "aborted"
       \/ UNCHANGED <<abort, ec>>
    /\ Goto(Main, "sync")
    /\ Computes(Main)
    /\ UNCHANGED <<barrierVars, current_chunk, node_n, my_chunk, done>>

AbortCallback ==
    /\ At(Main, "callback")
    /\ \/ abort' = node_n[Main] + 1 /\ ec' = "aborted"
       \/ UNCHANGED <<abort, ec>>
    /\ Goto(Main, "sync")
    /\ Computes(Main)
    /\ UNCHANGED <<barrierVars, current_chunk, node_n, my_chunk, done>>

\* Mutant: no barrier between two nodes.
Synchronize_NoBarrier(t) ==
    /\ At(t, "sync")
    /\ Goto(t, "node")
    /\ node_n' = [node_n EXCEPT ![t] = @ + 1]
    /\ Computes(t)
    /\ UNCHANGED <<barrierVars, current_chunk, abort, ec, my_chunk, done>>

\* No barrier after the last node: the one after the loop serves.
Synchronize(t) ==
    /\ At(t, "sync")
    /\ IF node_n[t] + 1 < Len(cgraph)
       THEN CallBarrier(t, "node")
       ELSE Goto(t, "node") /\ UNCHANGED barrierVars
    /\ node_n' = [node_n EXCEPT ![t] = @ + 1]
    /\ Computes(t)
    /\ UNCHANGED <<current_chunk, abort, ec, my_chunk, done>>

\* Mutant: the main thread returns without the others.
LastBarrier_MainLeaves(t) ==
    /\ At(t, "last_barrier")
    /\ IF t = Main THEN Goto(t, "computed") /\ UNCHANGED barrierVars
       ELSE CallBarrier(t, "top")
    /\ node_n' = [node_n EXCEPT ![t] = 0]
    /\ Computes(t)
    /\ UNCHANGED <<current_chunk, abort, ec, my_chunk, done>>

LastBarrier(t) ==
    /\ At(t, "last_barrier")
    /\ CallBarrier(t, IF t = Main THEN "computed" ELSE "top")
    /\ node_n' = [node_n EXCEPT ![t] = 0]
    /\ Computes(t)
    /\ UNCHANGED <<current_chunk, abort, ec, my_chunk, done>>
-----------------------------------------------------------------------------
Finished == At(Main, "freed") /\ UNCHANGED vars

MainStep ==
    GraphCompute \/ Kickoff \/ Signal \/ Return \/ PauseOrResume \/ Free \/ Join

WorkerStep(w) ==
    \/ CheckPause(w) \/ CheckStop(w) \/ PauseWait(w) \/ PauseWoken(w)
    \/ PollFlags(w) \/ PollGraph(w) \/ WaitForWork(w) \/ StartWork(w)

ComputeStep(t) ==
    \/ NextNode(t) \/ ComputeShare(t) \/ Convert(t) \/ SetCounter(t) \/ ComputeChunk(t)
    \/ StealChunk(t) \/ Synchronize(t) \/ LastBarrier(t) \/ BarrierStep(t)

Next ==
    \/ MainStep
    \/ AbortCallback
    \/ \E w \in Workers : WorkerStep(w) \/ SpuriousWakeup(w)
    \/ \E t \in Threads : ComputeStep(t)
    \/ Finished

\* Threads that can run do run.  Nobody has to compute, to pause or to free.
Fairness ==
    /\ WF_vars(Kickoff \/ Signal \/ Return \/ Join \/ AbortCallback)
    /\ \A w \in Workers : WF_vars(WorkerStep(w))
    /\ \A t \in Threads : WF_vars(ComputeStep(t))

Spec == Init /\ [][Next]_vars /\ Fairness
-----------------------------------------------------------------------------

\* The nodes that are computed by themselves, and what makes one complete.
ComputedNodes ==
    {n \in 0 .. Len(cgraph) - 1 :
        cgraph[n + 1].op # "empty" /\ (n > 0 => cgraph[n].op # "fused")}

Pieces(n) ==
    IF cgraph[n + 1].op = "mul_mat"
    THEN {Piece(n, "convert", t) : t \in Active}
            \cup {Piece(n, "chunk", i) : i \in 0 .. NChunks(cgraph[n + 1]) - 1}
    ELSE {Piece(n, "share", t) : t \in Active}

\* The places of ggml_graph_compute_thread.
InGraph == {"node", "compute", "counter", "chunk", "steal", "sync", "last_barrier"}

Complete(n) == Pieces(n) \subseteq DOMAIN done

\* No two threads compute the same share or chunk: the counter hands out each
\* chunk once, although threads start at their own number without asking it.
EachPieceOnce == \A p \in DOMAIN done : done[p] = 1

\* A thread that computes a node finds everything before it complete, and one
\* that multiplies finds the whole conversion: the barriers separate them.
SourcesReady ==
    \A t \in Active :
        /\ At(t, "compute") \/ At(t, "chunk") =>
              \A n \in ComputedNodes : n < node_n[t] => Complete(n)
        /\ At(t, "chunk") =>
              \A u \in Active : Piece(node_n[t], "convert", u) \in DOMAIN done

\* When ggml_graph_compute returns, no node is half done, aborted or not, and
\* no thread is at work, or will be, in the graph the caller may now change.
NothingHalfDone ==
    At(Main, "computed") =>
        /\ \A p \in DOMAIN done : Complete(p[1])
        /\ \A w \in Workers : pc[w] \notin InGraph /\ ~pending[w]

\* The pool keeps its part of the barrier's contract.
KeepsBarrier == BarrierSpec

\* The workers notice that the pool is to be freed, asleep, paused or polling.
PoolEnds == stop ~> At(Main, "freed")
=============================================================================
