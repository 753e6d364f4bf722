--------------------------- MODULE GraphAllocator ---------------------------
(***************************************************************************)
(* ggml_gallocr with one buffer, as the app's CPU backend uses it: it      *)
(* plays through a graph in advance, letting tensors share memory once     *)
(* their children and views are done, and keeps the plan for the graphs    *)
(* that follow as long as it takes them for the same.  Then the graph runs *)
(* and shows whether each tensor is there when it is read.                 *)
(*                                                                         *)
(* Tensors are numbered, the leafs first and then the nodes in the order   *)
(* in which they run.                                                      *)
(***************************************************************************)
EXTENDS DynAllocator

CONSTANTS
    Graphs,             \* [n_leafs, tensor: sequence of tensors]
    Scales,             \* sizes of the batches the graphs are built for
    MaxCalls,           \* bound on the graphs allocated
    Retopology          \* a later graph may be another one than the first

Ops == {"none", "inplace", "other", "view"}

TensorRecord ==
    [op : Ops, src : Seq(Tensors), view_src : Tensors \cup {0},
     flags : SUBSET {"input", "output"}, data : BOOLEAN, scaled : BOOLEAN]

\* A graph that ggml builds: sources and the tensors below views come first, a
\* node has sources, a leaf computes nothing, what is below a view is none, and
\* there are leafs and nodes.
WellFormed(g) ==
    /\ g.tensor \in Seq(TensorRecord) /\ DOMAIN g.tensor \subseteq Tensors
    /\ g.n_leafs \in 1 .. Len(g.tensor) - 1
    /\ \A t \in DOMAIN g.tensor :
          /\ g.tensor[t].op = "none" <=> t <= g.n_leafs
          /\ g.tensor[t].op = "view" => /\ g.tensor[t].view_src \in 1 .. t - 1
                                        /\ g.tensor[g.tensor[t].view_src].op # "view"
          /\ \A j \in DOMAIN g.tensor[t].src : g.tensor[t].src[j] \in 1 .. t - 1
          /\ t > g.n_leafs => g.tensor[t].src # <<>>

ASSUME GraphAllocatorAssumption ==
    /\ Scales \cup {1} \subseteq Sizes /\ MaxCalls \in Nat /\ Retopology \in BOOLEAN
    /\ \A g \in Graphs : WellFormed(g)

\* What the graphs of whisper.cpp have besides: inputs are set by the application,
\* they are never computed; and a graph is collected from its results back, so that
\* a leaf is there because a node reads it.
InputsAreLeafs ==
    \A g \in Graphs : \A t \in DOMAIN g.tensor :
        "input" \in g.tensor[t].flags => t <= g.n_leafs

LeafsAreRead ==
    \A g \in Graphs : \A t \in 1 .. g.n_leafs :
        \/ g.tensor[t].data
        \/ \E u \in g.n_leafs + 1 .. Len(g.tensor) : \E j \in DOMAIN g.tensor[u].src :
              g.tensor[u].src[j] = t

VARIABLES
    graph, scale,       \* the graph in hand and its batch size
    at,                 \* where the allocator is: [phase, node, src]
    n_children, n_views, addr,          \* hash_values
    planned,            \* graph and batch size node_allocs was made for
    buffer,             \* sizes of the buffer's chunks
    calls,              \* graphs allocated so far
    holds               \* tensors whose contents are in memory while the graph runs

counts == <<n_children, n_views>>
kept == <<planned, buffer, calls>>
vars == <<dynVars, graph, scale, at, counts, addr, kept, holds>>

Tensor(t) == graph.tensor[t]
Src(t) == Tensor(t).src
Leafs == 1 .. graph.n_leafs
Nodes == graph.n_leafs + 1 .. Len(graph.tensor)

\* Sizes grow with the batch or not at all; equal sizes stand for equal layouts.
SizeIn(g, n, t) == IF g.tensor[t].scaled THEN n ELSE 1
Size(t) == SizeIn(graph, scale, t)

\* A view of a view refers to the tensor below.
RootIn(g, t) == IF g.tensor[t].op = "view" THEN g.tensor[t].view_src ELSE t
Root(t) == RootIn(graph, t)
IsView(t) == Tensor(t).op = "view"
Consumers(t) == {u \in Nodes : \E j \in DOMAIN Src(u) : Src(u)[j] = t}

\* Who needs no memory of the plan: views, and tensors whose data is set.
NotPlaced(g, t) == g.tensor[t].op = "view" \/ g.tensor[t].data

At(phase) == at.phase = phase
Goto(phase, node, src) == at' = [phase |-> phase, node |-> node, src |-> src]

Idle == [phase |-> "idle", node |-> 0, src |-> 0]
NoGraph == [n_leafs |-> 0, tensor |-> <<>>]

Init ==
    /\ DynInit
    /\ graph = NoGraph /\ scale = 0
    /\ at = Idle
    /\ n_children = [t \in Tensors |-> 0]
    /\ n_views = [t \in Tensors |-> 0]
    /\ addr = [t \in Tensors |-> Nowhere]
    /\ planned = [graph |-> NoGraph, scale |-> 0]
    /\ buffer = <<>>
    /\ calls = 0
    /\ holds = {}
-----------------------------------------------------------------------------
(* Planning: ggml_gallocr_reserve.                                         *)

IsOwn(t) == owned[t] # Nowhere

\* Mutants: a parent is taken over while others still read it, or though only the
\* padded sizes agree.
Reusable_StillRead(t, j) ==
    LET p == Src(t)[j] IN
    /\ IsOwn(p)
    /\ "output" \notin Tensor(p).flags
    /\ Size(p) = Size(t)
    /\ n_views[p] = 0
Reusable_Padded(t, j) ==
    LET p == Src(t)[j] IN
    /\ IsOwn(p)
    /\ "output" \notin Tensor(p).flags
    /\ Aligned(Size(p)) = Aligned(Size(t))
    /\ n_children[p] = 1 /\ n_views[p] = 0

\* A parent whose buffer tensor t may take.  Views are never the allocator's
\* own, so that the code's branch for a view parent is not reached.
Reusable(t, j) ==
    LET p == Src(t)[j] IN
    /\ IsOwn(p)
    /\ "output" \notin Tensor(p).flags
    /\ Size(p) = Size(t)
    /\ n_children[p] = 1 /\ n_views[p] = 0

AllocateNode(t) ==
    LET reusable == {j \in DOMAIN Src(t) : Tensor(t).op = "inplace" /\ Reusable(t, j)} IN
    IF Tensor(t).data \/ IsOwn(t) \/ IsView(t)
    THEN UNCHANGED <<dynVars, addr>>
    ELSE /\ \/ \E j \in reusable :
                  /\ \A k \in reusable : j <= k
                  /\ HandOver(Src(t)[j], t, Size(t))
            \/ reusable = {} /\ Alloc(t, Size(t))
         /\ addr' = [addr EXCEPT ![t] = owned'[t]]

\* Mutant: the memory is freed, the tensor still counts as allocated.
FreeNode_StillOwned(t) ==
    IF "output" \in Tensor(t).flags THEN UNCHANGED dynVars
    ELSE FreeBytes(owned[t].chunk, owned[t].offset, owned[t].size) /\ UNCHANGED owned

\* Outputs are never freed.
FreeNode(t) ==
    IF "output" \in Tensor(t).flags THEN UNCHANGED dynVars ELSE FreeTensor(t)

\* ggml_gallocr_needs_realloc compares numbers and sizes, position by position.
TensorFits(g, n, t, old) ==
    NotPlaced(g, t) \/ /\ old # 0 /\ ~NotPlaced(planned.graph, old)
                       /\ SizeIn(g, n, t) <= SizeIn(planned.graph, planned.scale, old)

OldSrc(t, j) ==
    LET src == planned.graph.tensor[t].src IN IF j \in DOMAIN src THEN src[j] ELSE 0

NeedsRealloc(g, n) ==
    \/ Len(g.tensor) # Len(planned.graph.tensor)
    \/ g.n_leafs # planned.graph.n_leafs
    \/ \E t \in g.n_leafs + 1 .. Len(g.tensor) :
          \/ ~TensorFits(g, n, t, t)
          \/ \E j \in DOMAIN g.tensor[t].src :
                ~TensorFits(g, n, g.tensor[t].src[j], OldSrc(t, j))

\* The tensors that the application sets before it runs the graph: no two of
\* them may overlap.
Place(t) == [addr[t] EXCEPT !.size = Size(t)]
Overlap(t, u) == addr[t].chunk = addr[u].chunk /\ ~Apart(Place(t), Place(u))
Placed == {t \in DOMAIN graph.tensor : ~NotPlaced(graph, t)}

NextGraphs == IF Retopology \/ calls = 0 THEN Graphs ELSE {graph}

\* ggml_gallocr_alloc_graph, up to the new plan where one is needed.
AllocGraph(g, n) ==
    /\ graph' = g /\ scale' = n
    /\ calls' = calls + 1
    /\ IF NeedsRealloc(g, n)
       THEN /\ Reset
            /\ n_children' = [t \in Tensors |-> 0]
            /\ n_views' = [t \in Tensors |-> 0]
            /\ addr' = [t \in Tensors |-> Nowhere]
            /\ Goto("leafs", 1, 0)
       ELSE /\ Goto("set", 0, 0)
            /\ UNCHANGED <<dynVars, counts, addr>>
    /\ UNCHANGED <<planned, buffer, holds>>

AllocateLeaf ==
    /\ At("leafs")
    /\ AllocateNode(at.node)
    /\ IF at.node < graph.n_leafs THEN Goto("leafs", at.node + 1, 0)
       ELSE Goto("count", graph.n_leafs + 1, 0)
    /\ UNCHANGED <<graph, scale, counts, kept, holds>>

\* After source j of a node comes the next one, and then the next node.
Advance(phase, next) ==
    IF at.src < Len(Src(at.node)) THEN Goto(phase, at.node, at.src + 1)
    ELSE next

\* Count the views and children, and allocate explicit inputs.
Count ==
    LET t == IF at.src = 0 THEN at.node ELSE Src(at.node)[at.src] IN
    /\ At("count")
    /\ IF at.src = 0
       THEN /\ n_views' = IF IsView(t) THEN [n_views EXCEPT ![Root(t)] = @ + 1] ELSE n_views
            /\ UNCHANGED n_children
       ELSE /\ n_children' = [n_children EXCEPT ![t] = @ + 1]
            /\ UNCHANGED n_views
    /\ IF "input" \in Tensor(t).flags THEN AllocateNode(t) ELSE UNCHANGED <<dynVars, addr>>
    /\ Advance("count", IF at.node < Len(graph.tensor) THEN Goto("count", at.node + 1, 0)
                        ELSE Goto("parents", graph.n_leafs + 1, 1))
    /\ UNCHANGED <<graph, scale, kept, holds>>

AllocateParent ==
    /\ At("parents")
    /\ AllocateNode(Src(at.node)[at.src])
    /\ Advance("parents", Goto("node", at.node, 0))
    /\ UNCHANGED <<graph, scale, counts, kept, holds>>

AllocateThis ==
    /\ At("node")
    /\ AllocateNode(at.node)
    /\ Goto("update", at.node, 1)
    /\ UNCHANGED <<graph, scale, counts, kept, holds>>

\* Mutant: the views of a tensor are not counted down.
UpdateParent_ViewsKept ==
    LET p == Src(at.node)[at.src]
        left == n_children[p] - 1
        spent == left = 0 /\ n_views[p] = 0 IN
    /\ At("update")
    /\ n_children' = [n_children EXCEPT ![p] = left]
    /\ IF spent /\ ~IsView(p) /\ IsOwn(p) THEN FreeNode(p) ELSE UNCHANGED dynVars
    /\ Advance("update", IF at.node < Len(graph.tensor) THEN Goto("parents", at.node + 1, 1)
                         ELSE Goto("buffer", 0, 0))
    /\ UNCHANGED <<graph, scale, n_views, addr, kept, holds>>
UpdateParent ==
    LET p == Src(at.node)[at.src]
        left == n_children[p] - 1
        spent == left = 0 /\ n_views[p] = 0 IN
    /\ At("update")
    /\ n_children' = [n_children EXCEPT ![p] = left]
    /\ IF spent /\ IsView(p)
       THEN /\ n_views' = [n_views EXCEPT ![Root(p)] = @ - 1]
            /\ IF n_views[Root(p)] = 1 /\ n_children[Root(p)] = 0 /\ IsOwn(Root(p))
               THEN FreeNode(Root(p)) ELSE UNCHANGED dynVars
       ELSE /\ UNCHANGED n_views
            /\ IF spent /\ IsOwn(p) THEN FreeNode(p) ELSE UNCHANGED dynVars
    /\ Advance("update", IF at.node < Len(graph.tensor) THEN Goto("parents", at.node + 1, 1)
                         ELSE Goto("buffer", 0, 0))
    /\ UNCHANGED <<graph, scale, addr, kept, holds>>

\* Mutant: only the number of chunks makes a new buffer necessary.
ReserveBuffer_ChunksOnly ==
    /\ At("buffer")
    /\ planned' = [graph |-> graph, scale |-> scale]
    /\ buffer' = IF \E c \in DOMAIN chunks : c \notin DOMAIN buffer
                 THEN [c \in DOMAIN chunks |-> chunks[c].max_size]
                 ELSE buffer
    /\ Goto("set", 0, 0)
    /\ UNCHANGED <<dynVars, graph, scale, counts, addr, calls, holds>>

\* Keep the plan, and replace the buffer where a chunk has become too small.
ReserveBuffer ==
    /\ At("buffer")
    /\ planned' = [graph |-> graph, scale |-> scale]
    /\ buffer' = IF \E c \in DOMAIN chunks :
                       c \notin DOMAIN buffer \/ chunks[c].max_size > buffer[c]
                 THEN [c \in DOMAIN chunks |-> chunks[c].max_size]
                 ELSE buffer
    /\ Goto("set", 0, 0)
    /\ UNCHANGED <<dynVars, graph, scale, counts, addr, calls, holds>>
-----------------------------------------------------------------------------
(* The graph is used: its leafs are set, and its nodes run in order.       *)

SetLeafs ==
    /\ At("set")
    /\ holds' = {t \in Leafs \cap Placed :
                    \A u \in Leafs \cap Placed : u # t => ~Overlap(t, u)}
    /\ Goto("run", graph.n_leafs + 1, 0)
    /\ UNCHANGED <<dynVars, graph, scale, counts, addr, kept>>

RunNode ==
    /\ At("run")
    /\ holds' = IF at.node \in Placed
                THEN {t \in holds : ~Overlap(t, at.node)} \cup {at.node}
                ELSE holds
    /\ IF at.node < Len(graph.tensor) THEN Goto("run", at.node + 1, 0) ELSE at' = Idle
    /\ UNCHANGED <<dynVars, graph, scale, counts, addr, kept>>

\* The last graph is done.
Done == At("idle") /\ calls = MaxCalls /\ UNCHANGED vars

Next ==
    \/ /\ At("idle") /\ calls < MaxCalls
       /\ \E g \in NextGraphs, n \in Scales : AllocGraph(g, n)
    \/ AllocateLeaf \/ Count \/ AllocateParent \/ AllocateThis \/ UpdateParent
    \/ ReserveBuffer \/ SetLeafs \/ RunNode
    \/ Done

Spec == Init /\ [][Next]_vars
-----------------------------------------------------------------------------
\* A node that runs finds all it reads: nothing was written over a source since
\* it was computed or set, although memory is shared.  "Output tensors are never
\* freed and never overwritten" (ggml-alloc.h): they are there when the graph is
\* done.  Both hold when a plan made for a larger batch is used again.
ContentsIntact ==
    /\ At("run") => \A j \in DOMAIN Src(at.node) :
          LET s == Root(Src(at.node)[j]) IN s \in Placed => s \in holds
    /\ At("idle") => \A t \in Placed : "output" \in Tensor(t).flags => t \in holds

\* A node writes where it reads only in place, over a source of its own layout.
WritesInPlace ==
    At("run") /\ at.node \in Placed =>
        \A j \in DOMAIN Src(at.node) :
            LET s == Root(Src(at.node)[j]) IN
            s \in Placed /\ Overlap(s, at.node) =>
                Tensor(at.node).op = "inplace" /\ Place(s) = Place(at.node)

\* A buffer kept from an earlier plan is large enough for the graph that runs.
InsideBuffer ==
    At("run") => \A t \in Placed :
        addr[t].chunk \in DOMAIN buffer /\ End(Place(t)) <= buffer[addr[t].chunk]

\* The counters come out even: when the plan is made, memory is left only with
\* outputs and with what nobody reads, itself or through one of its views.
NothingLeaks ==
    At("buffer") => \A t \in Tensors : IsOwn(t) =>
        \/ "output" \in Tensor(t).flags
        \/ Consumers(t) = {}
        \/ \E v \in Nodes : IsView(v) /\ Root(v) = t /\ Consumers(v) = {}

\* The dynamic allocator is asked only for what it can do: nothing is freed
\* twice, and a region is passed on only by the tensor that has it.
KeepsAllocator == DynSpec
=============================================================================
