------------------------ MODULE GraphAllocator_proof ------------------------
(***************************************************************************)
(* Proofs about ggml_gallocr, for any graphs and sizes: whatever it plans, *)
(* it asks of the dynamic allocator only what that can do; the counters of *)
(* children and views give all memory back; and in a graph that runs with  *)
(* the plan, or with one kept from another batch, nothing is written over  *)
(* what is still read, and nothing beyond the buffer.                      *)
(***************************************************************************)
EXTENDS GraphAllocator, DynAllocator_proof

\* Where the allocator stands in the graph it plans.
InPlan ==
    /\ calls \in Nat
    /\ calls # 0 => graph \in Graphs /\ scale \in Scales
    /\ at.phase # "idle" => calls # 0
    /\ at.phase = "leafs" => at.node \in Leafs
    /\ at.phase \in {"count", "parents", "node", "update"} => at.node \in Nodes
    /\ at.phase \in {"parents", "update"} => at.src \in 1 .. Len(Src(at.node))
    /\ at.phase = "count" => at.src \in 0 .. Len(Src(at.node))

\* What the graphs look like.
LEMMA GraphFacts ==
    ASSUME graph \in Graphs, scale \in Scales
    PROVE  /\ Len(graph.tensor) \in Nat /\ DOMAIN graph.tensor = 1 .. Len(graph.tensor)
           /\ graph.n_leafs \in 1 .. Len(graph.tensor) - 1
           /\ 1 .. Len(graph.tensor) \subseteq Tensors
           /\ \A t \in Nodes : /\ Len(Src(t)) \in Nat \ {0}
                               /\ DOMAIN Src(t) = 1 .. Len(Src(t))
           /\ \A t \in DOMAIN graph.tensor :
                 /\ Root(t) \in Tensors /\ Size(t) \in Sizes
                 /\ \A j \in DOMAIN Src(t) : Src(t)[j] \in DOMAIN graph.tensor
<1>1. WellFormed(graph) /\ Scales \cup {1} \subseteq Sizes BY GraphAllocatorAssumption
<1>2. /\ graph.tensor \in Seq(TensorRecord) /\ DOMAIN graph.tensor \subseteq Tensors
      /\ graph.n_leafs \in 1 .. Len(graph.tensor) - 1
  BY <1>1 DEF WellFormed
<1>3. Len(graph.tensor) \in Nat /\ DOMAIN graph.tensor = 1 .. Len(graph.tensor)
  BY <1>2, LenProperties
<1>4. \A t \in DOMAIN graph.tensor : graph.tensor[t] \in TensorRecord
  BY <1>2, <1>3, ElementOfSeq
<1>5. \A t \in DOMAIN graph.tensor :
         Src(t) \in Seq(Tensors) /\ (t > graph.n_leafs => Src(t) # <<>>)
  BY <1>1, <1>4 DEF TensorRecord, Src, Tensor, WellFormed
<1>6. ASSUME NEW t \in Nodes
      PROVE  Len(Src(t)) \in Nat \ {0} /\ DOMAIN Src(t) = 1 .. Len(Src(t))
  <2>1. t \in DOMAIN graph.tensor /\ t > graph.n_leafs BY <1>2, <1>3 DEF Nodes
  <2>2. Src(t) \in Seq(Tensors) /\ Src(t) # <<>> BY <1>5, <2>1
  <2>. QED BY <2>2, LenProperties, EmptySeq
<1>7. ASSUME NEW t \in DOMAIN graph.tensor
      PROVE  /\ Root(t) \in Tensors /\ Size(t) \in Sizes
             /\ \A j \in DOMAIN Src(t) : Src(t)[j] \in DOMAIN graph.tensor
  <2>1. Size(t) \in Sizes BY <1>1 DEF Size, SizeIn
  <2>2. Root(t) \in Tensors
    BY <1>1, <1>2, <1>3 DEF Root, RootIn, WellFormed
  <2>3. \A j \in DOMAIN Src(t) : Src(t)[j] \in 1 .. t - 1
    BY <1>1 DEF WellFormed, Src, Tensor
  <2>. QED BY <1>3, <2>1, <2>2, <2>3
<1>. QED BY <1>2, <1>3, <1>6, <1>7

LEMMA AllocateNodeStep ==
    ASSUME graph \in Graphs, scale \in Scales, NEW t \in DOMAIN graph.tensor,
           AllocateNode(t)
    PROVE  [DynNext]_dynVars
<1>1. Size(t) \in Sizes /\ t \in Tensors
      /\ \A j \in DOMAIN Src(t) : Src(t)[j] \in Tensors
  BY GraphFacts
<1>2. CASE UNCHANGED dynVars BY <1>2
<1>3. CASE \E j \in DOMAIN Src(t) : HandOver(Src(t)[j], t, Size(t))
  BY <1>1, <1>3 DEF DynNext
<1>4. CASE Alloc(t, Size(t)) BY <1>1, <1>4 DEF DynNext
<1>. QED BY <1>2, <1>3, <1>4 DEF AllocateNode

LEMMA FreeNodeStep ==
    ASSUME NEW t \in Tensors, FreeNode(t)
    PROVE  [DynNext]_dynVars
BY DEF FreeNode, DynNext

\* What InPlan asks of a place in the second half of the plan, once its leafs have memory.
Planned(a) ==
    /\ a.phase \in {"count", "parents", "node", "update", "buffer"}
    /\ a.phase # "buffer" =>
          /\ a.node \in Nodes
          /\ a.src \in 0 .. Len(Src(a.node))
          /\ a.phase \in {"parents", "update"} => a.src # 0

LEMMA PlannedStep ==
    ASSUME InPlan, graph \in Graphs, scale \in Scales, UNCHANGED <<graph, scale, calls>>,
           at.phase # "idle", Planned(at')
    PROVE  InPlan'
BY DEF InPlan, Planned, Leafs, Nodes, Src, Tensor

LEMMA InPlanInvariant == Spec => []InPlan
<1>1. Init => InPlan BY DEF Init, InPlan, Idle
<1>2. InPlan /\ [Next]_vars => InPlan'
  <2>. SUFFICES ASSUME InPlan, [Next]_vars PROVE InPlan' OBVIOUS
  <2>0. at.phase # "idle" => graph \in Graphs /\ scale \in Scales BY DEF InPlan
  <2>1. ASSUME NEW g \in NextGraphs, NEW n \in Scales, AllocGraph(g, n) PROVE InPlan'
    <3>1. g \in Graphs BY <2>1 DEF NextGraphs, InPlan
    <3>2. graph' = g /\ scale' = n /\ calls' = calls + 1 /\ calls \in Nat
      BY <2>1 DEF AllocGraph, InPlan
    <3>3. at' \in {[phase |-> "leafs", node |-> 1, src |-> 0],
                   [phase |-> "set", node |-> 0, src |-> 0]}
      BY <2>1 DEF AllocGraph, Goto
    <3>4. 1 \in Leafs' BY <3>1, <3>2, GraphAllocatorAssumption DEF WellFormed, Leafs
    <3>. QED BY <3>1, <3>2, <3>3, <3>4 DEF InPlan
  <2>. DEFINE Same == UNCHANGED <<graph, scale, calls>>
  <2>2. CASE AllocateLeaf
    <3>1. at.phase = "leafs" /\ Same BY <2>2 DEF AllocateLeaf, At, kept
    <3>2. graph.n_leafs + 1 \in Nodes BY <2>0, <3>1, GraphFacts DEF Nodes
    <3>3. \/ at.node < graph.n_leafs /\ at' = [phase |-> "leafs", node |-> at.node + 1, src |-> 0]
          \/ at' = [phase |-> "count", node |-> graph.n_leafs + 1, src |-> 0]
      BY <2>2 DEF AllocateLeaf, Goto
    <3>4. CASE at.node < graph.n_leafs
               /\ at' = [phase |-> "leafs", node |-> at.node + 1, src |-> 0]
      <4>1. at'.node \in Leafs BY <2>0, <3>1, <3>4, GraphFacts DEF InPlan, Leafs
      <4>. QED BY <2>0, <3>1, <3>4, <4>1 DEF InPlan, Leafs
    <3>5. CASE at' = [phase |-> "count", node |-> graph.n_leafs + 1, src |-> 0]
      <4>1. \A t \in Nodes : Len(Src(t)) \in Nat BY <2>0, <3>1, GraphFacts
      <4>2. Planned(at') BY <3>2, <3>5, <4>1 DEF Planned
      <4>. QED BY <2>0, <3>1, <4>2, PlannedStep
    <3>. QED BY <3>3, <3>4, <3>5
  <2>3. CASE Count
    <3>1. at.phase = "count" /\ Same BY <2>3 DEF Count, At, kept
    <3>2. \/ at.src < Len(Src(at.node))
             /\ at' = [phase |-> "count", node |-> at.node, src |-> at.src + 1]
          \/ at.node < Len(graph.tensor)
             /\ at' = [phase |-> "count", node |-> at.node + 1, src |-> 0]
          \/ at' = [phase |-> "parents", node |-> graph.n_leafs + 1, src |-> 1]
      BY <2>3 DEF Count, Advance, Goto
    <3>3. /\ Len(graph.tensor) \in Nat /\ graph.n_leafs \in 1 .. Len(graph.tensor) - 1
          /\ at.node \in Nodes /\ at.src \in Nat
          /\ \A t \in Nodes : Len(Src(t)) \in Nat \ {0}
          /\ graph \in Graphs /\ scale \in Scales
      BY <2>0, <3>1, GraphFacts DEF InPlan
    <3>4. Planned(at')
      <4>1. CASE at.src < Len(Src(at.node))
                 /\ at' = [phase |-> "count", node |-> at.node, src |-> at.src + 1]
        <5>1. at.src + 1 \in 1 .. Len(Src(at.node)) BY <3>3, <4>1
        <5>. QED BY <3>3, <4>1, <5>1 DEF Planned
      <4>2. CASE at.node < Len(graph.tensor)
                 /\ at' = [phase |-> "count", node |-> at.node + 1, src |-> 0]
        <5>1. at.node + 1 \in Nodes BY <3>3, <4>2, SMTT(30) DEF Nodes
        <5>. QED BY <3>3, <4>2, <5>1 DEF Planned
      <4>3. CASE at' = [phase |-> "parents", node |-> graph.n_leafs + 1, src |-> 1]
        <5>1. graph.n_leafs + 1 \in Nodes BY <3>3 DEF Nodes
        <5>. QED BY <3>3, <4>3, <5>1 DEF Planned
      <4>. QED BY <3>2, <4>1, <4>2, <4>3
    <3>. QED BY <3>1, <3>3, <3>4, PlannedStep
  <2>4. CASE AllocateParent
    <3>1. at.phase = "parents" /\ Same BY <2>4 DEF AllocateParent, At, kept
    <3>2. \/ at.src < Len(Src(at.node))
             /\ at' = [phase |-> "parents", node |-> at.node, src |-> at.src + 1]
          \/ at' = [phase |-> "node", node |-> at.node, src |-> 0]
      BY <2>4 DEF AllocateParent, Advance, Goto
    <3>3. /\ Len(graph.tensor) \in Nat /\ graph.n_leafs \in 1 .. Len(graph.tensor) - 1
          /\ at.node \in Nodes /\ at.src \in Nat
          /\ \A t \in Nodes : Len(Src(t)) \in Nat \ {0}
          /\ graph \in Graphs /\ scale \in Scales
      BY <2>0, <3>1, GraphFacts DEF InPlan
    <3>4. Planned(at')
      <4>1. CASE at.src < Len(Src(at.node))
                 /\ at' = [phase |-> "parents", node |-> at.node, src |-> at.src + 1]
        <5>1. at.src + 1 \in 1 .. Len(Src(at.node)) BY <3>3, <4>1
        <5>. QED BY <3>3, <4>1, <5>1 DEF Planned
      <4>2. CASE at' = [phase |-> "node", node |-> at.node, src |-> 0]
        <5>1. Len(Src(at.node)) \in Nat BY <3>3
        <5>. QED BY <3>3, <4>2, <5>1 DEF Planned
      <4>. QED BY <3>2, <4>1, <4>2
    <3>. QED BY <3>1, <3>3, <3>4, PlannedStep
  <2>5. CASE AllocateThis
    <3>1. /\ at.phase = "node" /\ Same
          /\ at' = [phase |-> "update", node |-> at.node, src |-> 1]
      BY <2>5 DEF AllocateThis, At, Goto, kept
    <3>2. /\ at.node \in Nodes
          /\ \A t \in Nodes : Len(Src(t)) \in Nat \ {0}
          /\ graph \in Graphs /\ scale \in Scales
      BY <2>0, <3>1, GraphFacts DEF InPlan
    <3>3. Planned(at') BY <3>1, <3>2 DEF Planned
    <3>. QED BY <3>1, <3>2, <3>3, PlannedStep
  <2>6. CASE UpdateParent
    <3>1. at.phase = "update" /\ Same BY <2>6 DEF UpdateParent, At, kept
    <3>2. \/ at.src < Len(Src(at.node))
             /\ at' = [phase |-> "update", node |-> at.node, src |-> at.src + 1]
          \/ at.node < Len(graph.tensor)
             /\ at' = [phase |-> "parents", node |-> at.node + 1, src |-> 1]
          \/ at' = [phase |-> "buffer", node |-> 0, src |-> 0]
      BY <2>6 DEF UpdateParent, Advance, Goto
    <3>3. /\ Len(graph.tensor) \in Nat /\ graph.n_leafs \in 1 .. Len(graph.tensor) - 1
          /\ at.node \in Nodes /\ at.src \in Nat
          /\ \A t \in Nodes : Len(Src(t)) \in Nat \ {0}
          /\ graph \in Graphs /\ scale \in Scales
      BY <2>0, <3>1, GraphFacts DEF InPlan
    <3>4. Planned(at')
      <4>1. CASE at.src < Len(Src(at.node))
                 /\ at' = [phase |-> "update", node |-> at.node, src |-> at.src + 1]
        <5>1. at.src + 1 \in 1 .. Len(Src(at.node)) BY <3>3, <4>1
        <5>. QED BY <3>3, <4>1, <5>1 DEF Planned
      <4>2. CASE at.node < Len(graph.tensor)
                 /\ at' = [phase |-> "parents", node |-> at.node + 1, src |-> 1]
        <5>1. at.node + 1 \in Nodes BY <3>3, <4>2, SMTT(30) DEF Nodes
        <5>. QED BY <3>3, <4>2, <5>1 DEF Planned
      <4>3. CASE at' = [phase |-> "buffer", node |-> 0, src |-> 0]
        BY <4>3 DEF Planned
      <4>. QED BY <3>2, <4>1, <4>2, <4>3
    <3>. QED BY <3>1, <3>3, <3>4, PlannedStep
  <2>7. CASE ReserveBuffer
    BY <2>7 DEF ReserveBuffer, At, Goto, InPlan
  <2>8. CASE SetLeafs \/ RunNode
    <3>1. at.phase \in {"set", "run"} /\ Same BY <2>8 DEF SetLeafs, RunNode, At, kept
    <3>2. at'.phase \in {"run", "idle"} BY <2>8 DEF SetLeafs, RunNode, Goto, Idle
    <3>. QED BY <3>1, <3>2 DEF InPlan
  <2>9. CASE Done \/ UNCHANGED vars
    BY <2>9 DEF Done, vars, kept, InPlan, Leafs, Nodes, Src, Tensor
  <2>. QED BY <2>1, <2>2, <2>3, <2>4, <2>5, <2>6, <2>7, <2>8, <2>9 DEF Next
<1>. QED BY <1>1, <1>2, PTL DEF Spec

LEMMA KeepsAllocatorStep ==
    ASSUME InPlan, [Next]_vars
    PROVE  [DynNext]_dynVars
<1>0. at.phase # "idle" => graph \in Graphs /\ scale \in Scales BY DEF InPlan
<1>1. ASSUME NEW g \in NextGraphs, NEW n \in Scales, AllocGraph(g, n)
      PROVE  [DynNext]_dynVars
  BY <1>1 DEF AllocGraph, DynNext
<1>2. CASE AllocateLeaf
  <2>1. at.phase = "leafs" BY <1>2 DEF AllocateLeaf, At
  <2>2. at.node \in DOMAIN graph.tensor BY <1>0, <2>1, GraphFacts DEF InPlan, Leafs
  <2>. QED BY <1>0, <1>2, <2>1, <2>2, AllocateNodeStep DEF AllocateLeaf
<1>3. CASE Count
  <2>. DEFINE t == IF at.src = 0 THEN at.node ELSE Src(at.node)[at.src]
  <2>1. at.phase = "count" BY <1>3 DEF Count, At
  <2>2. at.node \in Nodes /\ at.node \in DOMAIN graph.tensor
    BY <1>0, <2>1, GraphFacts DEF InPlan, Nodes
  <2>3. t \in DOMAIN graph.tensor BY <1>0, <2>1, <2>2, GraphFacts DEF InPlan
  <2>4. AllocateNode(t) \/ UNCHANGED dynVars BY <1>3 DEF Count
  <2>. QED BY <1>0, <2>1, <2>3, <2>4, AllocateNodeStep
<1>4. CASE AllocateParent
  <2>1. at.phase = "parents" BY <1>4 DEF AllocateParent, At
  <2>2. at.node \in Nodes /\ at.node \in DOMAIN graph.tensor
    BY <1>0, <2>1, GraphFacts DEF InPlan, Nodes
  <2>3. Src(at.node)[at.src] \in DOMAIN graph.tensor
    BY <1>0, <2>1, <2>2, GraphFacts DEF InPlan
  <2>. QED BY <1>0, <1>4, <2>1, <2>3, AllocateNodeStep DEF AllocateParent
<1>5. CASE AllocateThis
  <2>1. at.phase = "node" BY <1>5 DEF AllocateThis, At
  <2>2. at.node \in DOMAIN graph.tensor BY <1>0, <2>1, GraphFacts DEF InPlan, Nodes
  <2>. QED BY <1>0, <1>5, <2>1, <2>2, AllocateNodeStep DEF AllocateThis
<1>6. CASE UpdateParent
  <2>. DEFINE p == Src(at.node)[at.src]
  <2>1. at.phase = "update" BY <1>6 DEF UpdateParent, At
  <2>2. at.node \in Nodes /\ at.node \in DOMAIN graph.tensor
    BY <1>0, <2>1, GraphFacts DEF InPlan, Nodes
  <2>3. p \in Tensors /\ Root(p) \in Tensors
    BY <1>0, <2>1, <2>2, GraphFacts DEF InPlan
  <2>4. FreeNode(p) \/ FreeNode(Root(p)) \/ UNCHANGED dynVars BY <1>6 DEF UpdateParent
  <2>. QED BY <2>3, <2>4, FreeNodeStep
<1>7. CASE ReserveBuffer \/ SetLeafs \/ RunNode \/ Done \/ UNCHANGED vars
  BY <1>7 DEF ReserveBuffer, SetLeafs, RunNode, Done, vars
<1>. QED BY <1>1, <1>2, <1>3, <1>4, <1>5, <1>6, <1>7 DEF Next

\* KeepsAllocator, for any graphs: the calls that planning makes are a behaviour
\* of the dynamic allocator.
THEOREM PlansKeepAllocator == Spec => KeepsAllocator
<1>1. Init => DynInit BY DEF Init
<1>2. InPlan /\ [Next]_vars => [DynNext]_dynVars BY KeepsAllocatorStep
<1>. QED BY <1>1, <1>2, InPlanInvariant, PTL DEF Spec, KeepsAllocator, DynSpec

\* NoOverlap, for any graphs: no two tensors that hold memory of the plan at the
\* same time share any of it.
THEOREM PlannedApart == Spec => []NoOverlap
BY PlansKeepAllocator, NobodyShares, PTL DEF KeepsAllocator
-----------------------------------------------------------------------------
(* The counters.  A read is a pair of a node and the position of one of its  *)
(* sources; a read or a view is open at place a of the plan while n_children *)
(* or n_views counts it.                                                     *)

Reads == UNION {{u} \X DOMAIN Src(u) : u \in Nodes}
What(r) == Src(r[1])[r[2]]

Before(r, a) == r[1] < a.node \/ (r[1] = a.node /\ r[2] < a.src)

OpenRead(r, a) ==
    \/ a.phase = "count" /\ Before(r, a)
    \/ a.phase \in {"parents", "node"} /\ r[1] >= a.node
    \/ a.phase = "update" /\ ~Before(r, a)

Children(t, a) == {r \in Reads : What(r) = t /\ OpenRead(r, a)}

Second == {"parents", "node", "update", "buffer"}
Planning == Second \cup {"leafs", "count"}

OpenView(v, a) ==
    \/ a.phase = "count" /\ (v < a.node \/ (v = a.node /\ a.src > 0))
    \/ a.phase \in Second /\ (Children(v, a) # {} \/ Consumers(v) = {})

Views(t, a) == {v \in Nodes : IsView(v) /\ Root(v) = t /\ OpenView(v, a)}

\* The tensors that have had their turn.
Reached(t, a) ==
    \/ a.phase = "leafs" /\ t < a.node
    \/ a.phase = "count" /\ t \in Leafs
    \/ a.phase \in {"parents", "node"} /\ t < a.node
    \/ a.phase = "update" /\ t <= a.node
    \/ a.phase \in {"buffer", "set", "run", "idle"}

LEMMA TensorFacts ==
    ASSUME graph \in Graphs
    PROVE  /\ Len(graph.tensor) \in Nat /\ graph.n_leafs \in Nat \ {0}
           /\ graph.n_leafs < Len(graph.tensor)
           /\ DOMAIN graph.tensor = 1 .. Len(graph.tensor) /\ DOMAIN graph.tensor \subseteq Tensors
           /\ Leafs = 1 .. graph.n_leafs
           /\ Nodes = graph.n_leafs + 1 .. Len(graph.tensor) /\ IsFiniteSet(Nodes)
           /\ \A t \in DOMAIN graph.tensor :
                 /\ t \in Nat
                 /\ t \in Leafs => Tensor(t).op = "none"
                 /\ \A j \in DOMAIN Src(t) : Src(t)[j] \in 1 .. t - 1
                 /\ IsView(t) => t \in Nodes /\ Root(t) \in 1 .. t - 1 /\ ~IsView(Root(t))
                 /\ ~IsView(t) => Root(t) = t
           /\ \A t \in Nodes : Len(Src(t)) \in Nat \ {0} /\ DOMAIN Src(t) = 1 .. Len(Src(t))
<1>1. WellFormed(graph) BY GraphAllocatorAssumption
<1>2. /\ graph.tensor \in Seq(TensorRecord) /\ DOMAIN graph.tensor \subseteq Tensors
      /\ graph.n_leafs \in 1 .. Len(graph.tensor) - 1
  BY <1>1 DEF WellFormed
<1>3. Len(graph.tensor) \in Nat /\ DOMAIN graph.tensor = 1 .. Len(graph.tensor)
  BY <1>2, LenProperties
<1>4. /\ graph.n_leafs \in Nat \ {0} /\ graph.n_leafs < Len(graph.tensor)
      /\ Leafs = 1 .. graph.n_leafs /\ Nodes = graph.n_leafs + 1 .. Len(graph.tensor)
  BY <1>2, <1>3 DEF Leafs, Nodes
<1>5. IsFiniteSet(Nodes) BY <1>3, <1>4, FS_Interval
<1>6. ASSUME NEW t \in DOMAIN graph.tensor
      PROVE  /\ t \in Nat
             /\ t \in Leafs => Tensor(t).op = "none"
             /\ \A j \in DOMAIN Src(t) : Src(t)[j] \in 1 .. t - 1
             /\ IsView(t) => t \in Nodes /\ Root(t) \in 1 .. t - 1 /\ ~IsView(Root(t))
             /\ ~IsView(t) => Root(t) = t
  <2>1. /\ Tensor(t).op = "none" <=> t <= graph.n_leafs
        /\ Tensor(t).op = "view" => /\ Tensor(t).view_src \in 1 .. t - 1
                                    /\ graph.tensor[Tensor(t).view_src].op # "view"
        /\ \A j \in DOMAIN Src(t) : Src(t)[j] \in 1 .. t - 1
    BY <1>1, <1>6 DEF WellFormed, Tensor, Src
  <2>2. IsView(t) => t \in Nodes BY <1>3, <1>4, <1>6, <2>1 DEF IsView
  <2>3. t \in Leafs => Tensor(t).op = "none" BY <1>4, <2>1
  <2>. QED BY <1>3, <1>6, <2>1, <2>2, <2>3 DEF IsView, Root, RootIn, Tensor
<1>7. \A t \in Nodes : Len(Src(t)) \in Nat \ {0} /\ DOMAIN Src(t) = 1 .. Len(Src(t))
  <2>. SUFFICES ASSUME NEW t \in Nodes
                PROVE  Len(Src(t)) \in Nat \ {0} /\ DOMAIN Src(t) = 1 .. Len(Src(t))
    OBVIOUS
  <2>1. t \in DOMAIN graph.tensor /\ t > graph.n_leafs BY <1>3, <1>4
  <2>2. graph.tensor[t] \in TensorRecord BY <1>2, <1>3, <2>1, ElementOfSeq
  <2>3. Src(t) \in Seq(Tensors) /\ Src(t) # <<>>
    BY <1>1, <2>1, <2>2 DEF WellFormed, TensorRecord, Src, Tensor
  <2>. QED BY <2>3, LenProperties, EmptySeq
<1>. QED BY <1>2, <1>3, <1>4, <1>5, <1>6, <1>7

LEMMA ReadFacts ==
    ASSUME graph \in Graphs
    PROVE  /\ IsFiniteSet(Reads)
           /\ \A r \in Reads :
                 /\ r = <<r[1], r[2]>> /\ r[1] \in Nodes /\ r[2] \in 1 .. Len(Src(r[1]))
                 /\ r[1] \in Nat /\ r[2] \in Nat
                 /\ What(r) \in 1 .. r[1] - 1
           /\ \A u \in Nodes : \A j \in DOMAIN Src(u) :
                 <<u, j>> \in Reads /\ What(<<u, j>>) = Src(u)[j]
<1>. DEFINE Of(u) == {u} \X DOMAIN Src(u)
            T == {Of(u) : u \in Nodes}
            f == [u \in Nodes |-> Of(u)]
<1>1. /\ IsFiniteSet(Nodes) /\ Nodes \subseteq DOMAIN graph.tensor
      /\ \A u \in Nodes : /\ Len(Src(u)) \in Nat /\ DOMAIN Src(u) = 1 .. Len(Src(u)) /\ u \in Nat
                          /\ \A j \in DOMAIN Src(u) : Src(u)[j] \in 1 .. u - 1
  BY TensorFacts
<1>2. IsFiniteSet(T)
  <2>1. f \in Surjection(Nodes, T) BY DEF Surjection
  <2>. QED BY <1>1, <2>1, FS_Surjection
<1>3. ASSUME NEW u \in Nodes PROVE IsFiniteSet(Of(u))
  <2>1. IsFiniteSet({u}) BY FS_Singleton
  <2>2. IsFiniteSet(DOMAIN Src(u)) BY <1>1, FS_Interval
  <2>. QED BY <2>1, <2>2, FS_Product
<1>4. IsFiniteSet(Reads)
  <2>1. \A S \in T : IsFiniteSet(S) BY <1>3
  <2>2. Reads = UNION T BY DEF Reads
  <2>. HIDE DEF T
  <2>. QED BY <1>2, <2>1, <2>2, FS_UNION
<1>5. ASSUME NEW r \in Reads
      PROVE  /\ r = <<r[1], r[2]>> /\ r[1] \in Nodes /\ r[2] \in 1 .. Len(Src(r[1]))
             /\ r[1] \in Nat /\ r[2] \in Nat
             /\ What(r) \in 1 .. r[1] - 1
  <2>1. PICK u \in Nodes : r \in {u} \X DOMAIN Src(u) BY DEF Reads
  <2>2. r = <<r[1], r[2]>> /\ r[1] = u /\ r[2] \in DOMAIN Src(u) BY <2>1
  <2>. QED BY <1>1, <2>2 DEF What
<1>6. ASSUME NEW u \in Nodes, NEW j \in DOMAIN Src(u)
      PROVE  <<u, j>> \in Reads /\ What(<<u, j>>) = Src(u)[j]
  BY DEF Reads, What
<1>. QED BY <1>4, <1>5, <1>6
-----------------------------------------------------------------------------
(* How a step of the plan moves the reads and the views that are counted.    *)

LEMMA PlaceFacts ==
    ASSUME graph \in Graphs, InPlan, at.phase \in {"count", "parents", "node", "update"}
    PROVE  /\ at.node \in Nodes /\ at.node \in Nat /\ at.node \in DOMAIN graph.tensor
           /\ at.node \in graph.n_leafs + 1 .. Len(graph.tensor)
           /\ at.phase \in {"parents", "update"} =>
                 at.src \in Nat /\ at.src \in DOMAIN Src(at.node) /\ at.src # 0
           /\ at.phase = "count" =>
                 at.src \in Nat /\ (at.src # 0 => at.src \in DOMAIN Src(at.node))
<1>1. at.node \in Nodes BY DEF InPlan
<1>2. /\ Nodes = graph.n_leafs + 1 .. Len(graph.tensor) /\ graph.n_leafs \in Nat
      /\ Len(graph.tensor) \in Nat /\ DOMAIN graph.tensor = 1 .. Len(graph.tensor)
      /\ Len(Src(at.node)) \in Nat /\ DOMAIN Src(at.node) = 1 .. Len(Src(at.node))
  BY <1>1, TensorFacts
<1>3. at.node \in Nat /\ at.node \in DOMAIN graph.tensor BY <1>1, <1>2
<1>4. at.phase \in {"parents", "update"} =>
         at.src \in Nat /\ at.src \in DOMAIN Src(at.node) /\ at.src # 0
  BY <1>2 DEF InPlan
<1>5. at.phase = "count" => at.src \in Nat /\ (at.src # 0 => at.src \in DOMAIN Src(at.node))
  BY <1>2 DEF InPlan
<1>. QED BY <1>1, <1>2, <1>3, <1>4, <1>5

\* Counting opens one read, or one view.
LEMMA CountOpens ==
    ASSUME graph \in Graphs, InPlan, Count
    PROVE  /\ \A r \in Reads :
                 OpenRead(r, at') <=> OpenRead(r, at) \/ r = <<at.node, at.src>>
           /\ \A v \in Nodes : OpenView(v, at') <=> OpenView(v, at) \/ v = at.node
<1>. DEFINE u == at.node
            j == at.src
<1>1. at.phase = "count" BY DEF Count, At
<1>2. u \in Nodes /\ j \in 0 .. Len(Src(u)) BY <1>1 DEF InPlan
<1>3. /\ graph.n_leafs \in Nat /\ Len(graph.tensor) \in Nat
      /\ Nodes = graph.n_leafs + 1 .. Len(graph.tensor)
      /\ \A w \in Nodes : Len(Src(w)) \in Nat \ {0} /\ w \in Nat
  BY TensorFacts
<1>4. /\ \A r \in Reads : /\ r = <<r[1], r[2]>> /\ r[1] \in Nodes
                          /\ r[2] \in 1 .. Len(Src(r[1])) /\ r[2] \in Nat
      /\ \A w \in Nodes : \A k \in DOMAIN Src(w) :
            <<w, k>> \in Reads /\ What(<<w, k>>) = Src(w)[k]
  BY ReadFacts
<1>5. \/ j < Len(Src(u)) /\ at' = [phase |-> "count", node |-> u, src |-> j + 1]
      \/ /\ ~(j < Len(Src(u))) /\ u < Len(graph.tensor)
         /\ at' = [phase |-> "count", node |-> u + 1, src |-> 0]
      \/ /\ ~(j < Len(Src(u))) /\ ~(u < Len(graph.tensor))
         /\ at' = [phase |-> "parents", node |-> graph.n_leafs + 1, src |-> 1]
  BY DEF Count, Advance, Goto
<1>6. j \in Nat /\ Len(Src(u)) \in Nat \ {0} /\ u \in Nat /\ j <= Len(Src(u)) BY <1>2, <1>3
<1>7. ASSUME NEW r \in Reads
      PROVE  OpenRead(r, at') <=> OpenRead(r, at) \/ r = <<u, j>>
  <2>1. /\ r = <<r[1], r[2]>> /\ r[1] \in Nat /\ r[2] \in Nat /\ r[2] >= 1
        /\ r[2] <= Len(Src(r[1])) /\ r[1] <= Len(graph.tensor) /\ r[1] >= graph.n_leafs + 1
    BY <1>3, <1>4
  <2>2. OpenRead(r, at) <=> r[1] < u \/ (r[1] = u /\ r[2] < j)
    BY <1>1 DEF OpenRead, Before
  <2>3. r = <<u, j>> <=> r[1] = u /\ r[2] = j BY <2>1
  <2>4. CASE j < Len(Src(u)) /\ at' = [phase |-> "count", node |-> u, src |-> j + 1]
    <3>1. OpenRead(r, at') <=> r[1] < u \/ (r[1] = u /\ r[2] < j + 1)
      BY <2>4 DEF OpenRead, Before
    <3>. QED BY <1>6, <2>1, <2>2, <2>3, <3>1
  <2>5. CASE /\ ~(j < Len(Src(u))) /\ u < Len(graph.tensor)
             /\ at' = [phase |-> "count", node |-> u + 1, src |-> 0]
    <3>1. OpenRead(r, at') <=> r[1] < u + 1 \/ (r[1] = u + 1 /\ r[2] < 0)
      BY <2>5 DEF OpenRead, Before
    <3>. QED BY <1>6, <2>1, <2>2, <2>3, <2>5, <3>1
  <2>6. CASE /\ ~(j < Len(Src(u))) /\ ~(u < Len(graph.tensor))
             /\ at' = [phase |-> "parents", node |-> graph.n_leafs + 1, src |-> 1]
    <3>1. OpenRead(r, at') <=> r[1] >= graph.n_leafs + 1
      BY <2>6 DEF OpenRead, Before
    <3>. QED BY <1>3, <1>6, <2>1, <2>2, <2>3, <2>6, <3>1
  <2>. QED BY <1>5, <2>4, <2>5, <2>6
<1>8. ASSUME NEW v \in Nodes PROVE OpenView(v, at') <=> OpenView(v, at) \/ v = u
  <2>1. v \in Nat /\ v <= Len(graph.tensor) BY <1>3
  <2>2. OpenView(v, at) <=> v < u \/ (v = u /\ j > 0) BY <1>1 DEF OpenView, Second
  <2>3. CASE j < Len(Src(u)) /\ at' = [phase |-> "count", node |-> u, src |-> j + 1]
    <3>1. OpenView(v, at') <=> v < u \/ (v = u /\ j + 1 > 0)
      BY <2>3 DEF OpenView, Second
    <3>. QED BY <1>6, <2>1, <2>2, <3>1
  <2>4. CASE /\ ~(j < Len(Src(u))) /\ u < Len(graph.tensor)
             /\ at' = [phase |-> "count", node |-> u + 1, src |-> 0]
    <3>1. OpenView(v, at') <=> v < u + 1 \/ (v = u + 1 /\ 0 > 0)
      BY <2>4 DEF OpenView, Second
    <3>. QED BY <1>6, <2>1, <2>2, <2>4, <3>1
  <2>5. CASE /\ ~(j < Len(Src(u))) /\ ~(u < Len(graph.tensor))
             /\ at' = [phase |-> "parents", node |-> graph.n_leafs + 1, src |-> 1]
    <3>1. OpenView(v, at')
      <4>1. CASE Consumers(v) = {} BY <2>5, <4>1 DEF OpenView, Second
      <4>2. CASE Consumers(v) # {}
        <5>1. PICK w \in Nodes : \E k \in DOMAIN Src(w) : Src(w)[k] = v
          BY <4>2 DEF Consumers
        <5>2. PICK k \in DOMAIN Src(w) : Src(w)[k] = v BY <5>1
        <5>3. <<w, k>> \in Reads /\ What(<<w, k>>) = v BY <1>4, <5>2
        <5>4. OpenRead(<<w, k>>, at') BY <1>3, <2>5 DEF OpenRead
        <5>5. Children(v, at') # {} BY <5>3, <5>4 DEF Children
        <5>. QED BY <2>5, <5>5 DEF OpenView, Second
      <4>. QED BY <4>1, <4>2
    <3>2. v < u \/ (v = u /\ j > 0) BY <1>3, <1>6, <2>1, <2>5
    <3>. QED BY <2>2, <3>1, <3>2
  <2>. QED BY <1>5, <2>3, <2>4, <2>5
<1>. QED BY <1>7, <1>8

\* Between the counts, nothing is opened or closed.
LEMMA WaitingOpens ==
    ASSUME graph \in Graphs, InPlan, AllocateParent \/ AllocateThis
    PROVE  \A r \in Reads : OpenRead(r, at') <=> OpenRead(r, at)
<1>1. at.phase \in {"parents", "node"} BY DEF AllocateParent, AllocateThis, At
<1>2. at' \in {[phase |-> "parents", node |-> at.node, src |-> at.src + 1],
               [phase |-> "node", node |-> at.node, src |-> 0],
               [phase |-> "update", node |-> at.node, src |-> 1]}
  BY DEF AllocateParent, AllocateThis, Advance, Goto
<1>3. SUFFICES ASSUME NEW r \in Reads PROVE OpenRead(r, at') <=> OpenRead(r, at)
  OBVIOUS
<1>4. r[1] \in Nat /\ r[2] \in 1 .. Len(Src(r[1])) /\ r[2] \in Nat BY ReadFacts
<1>5. at.node \in Nat BY <1>1, PlaceFacts
<1>6. OpenRead(r, at) <=> r[1] >= at.node BY <1>1 DEF OpenRead
<1>7. CASE at'.phase \in {"parents", "node"}
  BY <1>2, <1>6, <1>7 DEF OpenRead
<1>8. CASE at' = [phase |-> "update", node |-> at.node, src |-> 1]
  <2>1. OpenRead(r, at') <=> ~(r[1] < at.node \/ (r[1] = at.node /\ r[2] < 1))
    BY <1>8 DEF OpenRead, Before
  <2>2. r[2] >= 1 BY <1>4
  <2>. QED BY <1>4, <1>5, <1>6, <2>1, <2>2
<1>. QED BY <1>2, <1>7, <1>8

\* A source that the node is done with is closed.
LEMMA UpdateCloses ==
    ASSUME graph \in Graphs, InPlan, UpdateParent
    PROVE  \A r \in Reads : OpenRead(r, at') <=> OpenRead(r, at) /\ r # <<at.node, at.src>>
<1>. DEFINE u == at.node
            j == at.src
<1>1. at.phase = "update" BY DEF UpdateParent, At
<1>2. u \in Nodes /\ j \in 1 .. Len(Src(u)) BY <1>1 DEF InPlan
<1>3. /\ graph.n_leafs \in Nat /\ Len(graph.tensor) \in Nat
      /\ Nodes = graph.n_leafs + 1 .. Len(graph.tensor)
      /\ \A w \in Nodes : Len(Src(w)) \in Nat \ {0} /\ w \in Nat
  BY TensorFacts
<1>4. \/ j < Len(Src(u)) /\ at' = [phase |-> "update", node |-> u, src |-> j + 1]
      \/ /\ ~(j < Len(Src(u))) /\ u < Len(graph.tensor)
         /\ at' = [phase |-> "parents", node |-> u + 1, src |-> 1]
      \/ /\ ~(j < Len(Src(u))) /\ ~(u < Len(graph.tensor))
         /\ at' = [phase |-> "buffer", node |-> 0, src |-> 0]
  BY DEF UpdateParent, Advance, Goto
<1>5. j \in Nat /\ Len(Src(u)) \in Nat \ {0} /\ u \in Nat /\ j <= Len(Src(u)) BY <1>2, <1>3
<1>6. SUFFICES ASSUME NEW r \in Reads
               PROVE  OpenRead(r, at') <=> OpenRead(r, at) /\ r # <<u, j>>
  OBVIOUS
<1>7. /\ r = <<r[1], r[2]>> /\ r[1] \in Nodes
      /\ r[2] \in 1 .. Len(Src(r[1])) /\ r[1] \in Nat /\ r[2] \in Nat
  BY ReadFacts
<1>8. /\ r[2] >= 1 /\ r[2] <= Len(Src(r[1])) /\ r[1] <= Len(graph.tensor)
  BY <1>3, <1>7
<1>9. OpenRead(r, at) <=> ~(r[1] < u \/ (r[1] = u /\ r[2] < j))
  BY <1>1 DEF OpenRead, Before
<1>10. r = <<u, j>> <=> r[1] = u /\ r[2] = j BY <1>7
<1>11. CASE j < Len(Src(u)) /\ at' = [phase |-> "update", node |-> u, src |-> j + 1]
  <2>1. OpenRead(r, at') <=> ~(r[1] < u \/ (r[1] = u /\ r[2] < j + 1))
    BY <1>11 DEF OpenRead, Before
  <2>. QED BY <1>5, <1>7, <1>8, <1>9, <1>10, <2>1
<1>12. CASE /\ ~(j < Len(Src(u))) /\ u < Len(graph.tensor)
            /\ at' = [phase |-> "parents", node |-> u + 1, src |-> 1]
  <2>1. OpenRead(r, at') <=> r[1] >= u + 1 BY <1>12 DEF OpenRead
  <2>. QED BY <1>5, <1>7, <1>8, <1>9, <1>10, <1>12, <2>1
<1>13. CASE /\ ~(j < Len(Src(u))) /\ ~(u < Len(graph.tensor))
            /\ at' = [phase |-> "buffer", node |-> 0, src |-> 0]
  <2>1. ~OpenRead(r, at') BY <1>13 DEF OpenRead
  <2>. QED BY <1>3, <1>5, <1>7, <1>8, <1>9, <1>10, <1>13, <2>1
<1>. QED BY <1>4, <1>11, <1>12, <1>13

LEMMA CountedSets ==
    ASSUME graph \in Graphs
    PROVE  /\ \A t, a : IsFiniteSet(Children(t, a)) /\ IsFiniteSet(Views(t, a))
           /\ \A t, a : IsView(t) /\ t \in DOMAIN graph.tensor => Views(t, a) = {}
<1>1. IsFiniteSet(Reads) BY ReadFacts
<1>2. IsFiniteSet(Nodes) /\ Nodes \subseteq DOMAIN graph.tensor
      /\ \A t \in DOMAIN graph.tensor : IsView(t) => ~IsView(Root(t))
  BY TensorFacts
<1>3. ASSUME NEW t, NEW a PROVE IsFiniteSet(Children(t, a)) /\ IsFiniteSet(Views(t, a))
  <2>1. Children(t, a) \in SUBSET Reads BY DEF Children
  <2>2. Views(t, a) \in SUBSET Nodes BY DEF Views
  <2>. QED BY <1>1, <1>2, <2>1, <2>2, FS_Subset
<1>4. ASSUME NEW t, NEW a, IsView(t), t \in DOMAIN graph.tensor PROVE Views(t, a) = {}
  BY <1>2, <1>4 DEF Views
<1>. QED BY <1>3, <1>4

LEMMA CountSets ==
    ASSUME graph \in Graphs, InPlan, Count, NEW u, NEW j, u = at.node, j = at.src
    PROVE  /\ j = 0 => \A t : /\ Children(t, at') = Children(t, at)
                              /\ u \notin Views(t, at)
                              /\ Views(t, at') = IF IsView(u) /\ Root(u) = t
                                                 THEN Views(t, at) \cup {u} ELSE Views(t, at)
           /\ j # 0 => \A t : /\ Views(t, at') = Views(t, at)
                              /\ <<u, j>> \notin Children(t, at)
                              /\ Children(t, at') = IF Src(u)[j] = t
                                    THEN Children(t, at) \cup {<<u, j>>} ELSE Children(t, at)
<1>1. at.phase = "count" BY DEF Count, At
<1>2. /\ u \in Nodes /\ u \in Nat /\ j \in Nat /\ (j # 0 => j \in DOMAIN Src(u))
  BY <1>1, PlaceFacts
<1>3. \A r \in Reads : r[2] # 0 /\ r = <<r[1], r[2]>> BY ReadFacts
<1>4. j # 0 => <<u, j>> \in Reads /\ What(<<u, j>>) = Src(u)[j] BY <1>2, ReadFacts
<1>5. /\ \A r \in Reads : OpenRead(r, at') <=> OpenRead(r, at) \/ r = <<u, j>>
      /\ \A v \in Nodes : OpenView(v, at') <=> OpenView(v, at) \/ v = u
  BY CountOpens
<1>6. ASSUME j = 0, NEW t
      PROVE  /\ Children(t, at') = Children(t, at)
             /\ u \notin Views(t, at)
             /\ Views(t, at') = IF IsView(u) /\ Root(u) = t
                                THEN Views(t, at) \cup {u} ELSE Views(t, at)
  <2>1. <<u, j>> \notin Reads BY <1>3, <1>6
  <2>2. ~OpenView(u, at) BY <1>1, <1>2, <1>6 DEF OpenView, Second
  <2>3. Children(t, at') = Children(t, at) BY <1>5, <2>1 DEF Children
  <2>4. Views(t, at') = IF IsView(u) /\ Root(u) = t
                        THEN Views(t, at) \cup {u} ELSE Views(t, at)
    BY <1>2, <1>5 DEF Views
  <2>. QED BY <2>2, <2>3, <2>4 DEF Views
<1>7. ASSUME j # 0, NEW t
      PROVE  /\ Views(t, at') = Views(t, at)
             /\ <<u, j>> \notin Children(t, at)
             /\ Children(t, at') = IF Src(u)[j] = t
                   THEN Children(t, at) \cup {<<u, j>>} ELSE Children(t, at)
  <2>1. OpenView(u, at) BY <1>1, <1>2, <1>7 DEF OpenView
  <2>2. ~OpenRead(<<u, j>>, at) BY <1>1, <1>2 DEF OpenRead, Before
  <2>3. Views(t, at') = Views(t, at) BY <1>5, <2>1 DEF Views
  <2>4. Children(t, at') = IF Src(u)[j] = t
                           THEN Children(t, at) \cup {<<u, j>>} ELSE Children(t, at)
    BY <1>4, <1>5, <1>7 DEF Children
  <2>. QED BY <2>2, <2>3, <2>4 DEF Children
<1>. QED BY <1>6, <1>7

LEMMA WaitingSets ==
    ASSUME graph \in Graphs, InPlan, AllocateParent \/ AllocateThis
    PROVE  \A t : Children(t, at') = Children(t, at) /\ Views(t, at') = Views(t, at)
<1>1. \A t : Children(t, at') = Children(t, at) BY WaitingOpens DEF Children
<1>2. at.phase \in {"parents", "node"} /\ at'.phase \in {"parents", "node", "update"}
  BY DEF AllocateParent, AllocateThis, At, Advance, Goto
<1>3. \A v : OpenView(v, at') <=> OpenView(v, at) BY <1>1, <1>2 DEF OpenView, Second
<1>. QED BY <1>1, <1>3 DEF Views

LEMMA UpdateSets ==
    ASSUME graph \in Graphs, InPlan, UpdateParent, NEW p, NEW r,
           p = Src(at.node)[at.src], r = <<at.node, at.src>>
    PROVE  /\ p \in DOMAIN graph.tensor /\ r \in Children(p, at)
           /\ \A t : Children(t, at') = IF t = p THEN Children(t, at) \ {r} ELSE Children(t, at)
           /\ \A t : Views(t, at') = IF IsView(p) /\ Root(p) = t /\ Children(p, at') = {}
                                     THEN Views(t, at) \ {p} ELSE Views(t, at)
           /\ IsView(p) => p \in Views(Root(p), at)
<1>1. at.phase = "update" BY DEF UpdateParent, At
<1>2. /\ at.node \in Nodes /\ at.node \in Nat /\ at.src \in DOMAIN Src(at.node)
      /\ at.node \in DOMAIN graph.tensor
  BY <1>1, PlaceFacts
<1>3. r \in Reads /\ What(r) = p /\ p \in DOMAIN graph.tensor
  <2>1. p \in 1 .. at.node - 1 BY <1>2, TensorFacts
  <2>2. at.node <= Len(graph.tensor) /\ Len(graph.tensor) \in Nat
        /\ DOMAIN graph.tensor = 1 .. Len(graph.tensor)
    BY <1>2, TensorFacts
  <2>3. p \in DOMAIN graph.tensor BY <1>2, <2>1, <2>2
  <2>. QED BY <1>2, <2>3, ReadFacts
<1>4. /\ \A q \in Reads : OpenRead(q, at') <=> OpenRead(q, at) /\ q # r
  BY UpdateCloses
<1>5. OpenRead(r, at)
  <2>1. r[1] = at.node /\ r[2] = at.src OBVIOUS
  <2>2. at.src \in Nat BY <1>1, PlaceFacts
  <2>. QED BY <1>1, <1>2, <2>1, <2>2 DEF OpenRead, Before
<1>6. r \in Children(p, at) BY <1>3, <1>5 DEF Children
<1>7. \A t : Children(t, at') = IF t = p THEN Children(t, at) \ {r} ELSE Children(t, at)
  BY <1>3, <1>4 DEF Children
<1>8. at'.phase \in Second BY DEF UpdateParent, Advance, Goto, Second
<1>9. Consumers(p) # {} BY <1>2 DEF Consumers
<1>10. ASSUME NEW v
       PROVE  OpenView(v, at') <=> OpenView(v, at) /\ ~(v = p /\ Children(p, at') = {})
  <2>1. /\ OpenView(v, at') <=> (Children(v, at') # {} \/ Consumers(v) = {})
        /\ OpenView(v, at) <=> (Children(v, at) # {} \/ Consumers(v) = {})
    BY <1>1, <1>8 DEF OpenView, Second
  <2>2. CASE v = p BY <1>6, <1>9, <2>1, <2>2
  <2>3. CASE v # p BY <1>7, <2>1, <2>3
  <2>. QED BY <2>2, <2>3
<1>11. \A t : Views(t, at') = IF IsView(p) /\ Root(p) = t /\ Children(p, at') = {}
                              THEN Views(t, at) \ {p} ELSE Views(t, at)
  BY <1>10 DEF Views
<1>12. IsView(p) => p \in Views(Root(p), at)
  <2>1. ASSUME IsView(p) PROVE p \in Nodes BY <1>3, <2>1, TensorFacts
  <2>2. OpenView(p, at) BY <1>1, <1>6 DEF OpenView, Second
  <2>. QED BY <2>1, <2>2 DEF Views
<1>. QED BY <1>3, <1>6, <1>7, <1>11, <1>12

\* Before a plan counts, there is nothing to count.
LEMMA LeafSets ==
    ASSUME graph \in Graphs, NEW a,
           a.phase = "leafs" \/ (a.phase = "count" /\ a.node = graph.n_leafs + 1 /\ a.src = 0)
    PROVE  \A t : Children(t, a) = {} /\ Views(t, a) = {}
<1>1. /\ graph.n_leafs \in Nat /\ Nodes = graph.n_leafs + 1 .. Len(graph.tensor)
      /\ Len(graph.tensor) \in Nat
  BY TensorFacts
<1>2. ASSUME NEW r \in Reads PROVE ~OpenRead(r, a)
  <2>1. r[1] \in Nodes /\ r[2] \in 1 .. Len(Src(r[1])) /\ r[2] \in Nat BY ReadFacts
  <2>2. r[1] \in Nat /\ r[1] >= graph.n_leafs + 1 /\ r[2] >= 1 BY <1>1, <2>1
  <2>3. CASE a.phase = "leafs" BY <2>3 DEF OpenRead
  <2>4. CASE a.phase = "count" /\ a.node = graph.n_leafs + 1 /\ a.src = 0
    <3>1. ~Before(r, a) BY <1>1, <2>1, <2>2, <2>4 DEF Before
    <3>. QED BY <2>4, <3>1 DEF OpenRead
  <2>. QED BY <2>3, <2>4
<1>3. ASSUME NEW v \in Nodes PROVE ~OpenView(v, a)
  BY <1>1 DEF OpenView, Second
<1>. QED BY <1>2, <1>3 DEF Children, Views
-----------------------------------------------------------------------------
(* The counters count what they should.                                      *)

CountType == n_children \in [Tensors -> Int] /\ n_views \in [Tensors -> Int]

CountInv ==
    at.phase \in Planning => \A t \in Tensors :
        /\ n_children[t] = Cardinality(Children(t, at))
        /\ n_views[t] = Cardinality(Views(t, at))

\* What the next place counts, in the same graph.
CountNext == \A t \in Tensors :
    /\ n_children'[t] = Cardinality(Children(t, at'))
    /\ n_views'[t] = Cardinality(Views(t, at'))

LEMMA CountPrimed ==
    ASSUME graph' = graph, CountNext
    PROVE  CountInv'
<1>1. ASSUME NEW t
      PROVE  Children(t, at)' = Children(t, at') /\ Views(t, at)' = Views(t, at')
  BY DEF Children, Views, OpenRead, OpenView, Second, Before, Reads, What, Consumers, Src,
         Tensor, Nodes, IsView, Root, RootIn
<1>. QED BY <1>1 DEF CountNext, CountInv

LEMMA NoneCounted == Cardinality({}) = 0
BY FS_EmptySet

LEMMA CountStep ==
    ASSUME graph \in Graphs, InPlan, CountType, CountInv, Count
    PROVE  CountNext /\ CountType'
<1>. PICK u, j : u = at.node /\ j = at.src OBVIOUS
<1>1. at.phase = "count" BY DEF Count, At
<1>2. /\ u \in Nodes /\ u \in DOMAIN graph.tensor /\ (j # 0 => j \in DOMAIN Src(u))
  BY <1>1, PlaceFacts
<1>3. /\ j = 0 => \A t : /\ Children(t, at') = Children(t, at)
                         /\ u \notin Views(t, at)
                         /\ Views(t, at') = IF IsView(u) /\ Root(u) = t
                                            THEN Views(t, at) \cup {u} ELSE Views(t, at)
      /\ j # 0 => \A t : /\ Views(t, at') = Views(t, at)
                         /\ <<u, j>> \notin Children(t, at)
                         /\ Children(t, at') = IF Src(u)[j] = t
                               THEN Children(t, at) \cup {<<u, j>>} ELSE Children(t, at)
  BY CountSets
<1>4. \A t : IsFiniteSet(Children(t, at)) /\ IsFiniteSet(Views(t, at)) BY CountedSets
<1>5. \A t \in Tensors : /\ n_children[t] = Cardinality(Children(t, at))
                         /\ n_views[t] = Cardinality(Views(t, at))
  BY <1>1 DEF CountInv, Planning
<1>6. CASE j = 0
  <2>1. /\ n_children' = n_children
        /\ n_views' = IF IsView(u) THEN [n_views EXCEPT ![Root(u)] = @ + 1] ELSE n_views
    BY <1>6 DEF Count
  <2>2. CountType'
    <3>1. IsView(u) => Root(u) \in Tensors BY <1>2, TensorFacts
    <3>2. IsView(u) => n_views[Root(u)] + 1 \in Int BY <3>1 DEF CountType
    <3>. QED BY <2>1, <3>2 DEF CountType
  <2>3. ASSUME NEW t \in Tensors
        PROVE  /\ n_children'[t] = Cardinality(Children(t, at'))
               /\ n_views'[t] = Cardinality(Views(t, at'))
    <3>1. n_children'[t] = Cardinality(Children(t, at')) BY <1>3, <1>5, <1>6, <2>1
    <3>2. CASE IsView(u) /\ Root(u) = t
      <4>1. n_views'[t] = n_views[t] + 1 BY <2>1, <3>2 DEF CountType
      <4>2. Cardinality(Views(t, at) \cup {u}) = Cardinality(Views(t, at)) + 1
        BY <1>3, <1>4, <1>6, FS_AddElement
      <4>. QED BY <1>3, <1>5, <1>6, <3>1, <3>2, <4>1, <4>2
    <3>3. CASE ~(IsView(u) /\ Root(u) = t)
      <4>1. n_views'[t] = n_views[t] BY <2>1, <3>3 DEF CountType
      <4>. QED BY <1>3, <1>5, <1>6, <3>1, <3>3, <4>1
    <3>. QED BY <3>2, <3>3
  <2>. QED BY <2>2, <2>3 DEF CountNext
<1>7. CASE j # 0
  <2>. PICK p : p = Src(u)[j] OBVIOUS
  <2>1. n_children' = [n_children EXCEPT ![p] = @ + 1] /\ n_views' = n_views
    BY <1>7 DEF Count
  <2>2. CountType'
    <3>1. p \in Tensors BY <1>2, <1>7, TensorFacts
    <3>2. n_children[p] + 1 \in Int BY <3>1 DEF CountType
    <3>. QED BY <2>1, <3>2 DEF CountType
  <2>3. ASSUME NEW t \in Tensors
        PROVE  /\ n_children'[t] = Cardinality(Children(t, at'))
               /\ n_views'[t] = Cardinality(Views(t, at'))
    <3>1. n_views'[t] = Cardinality(Views(t, at')) BY <1>3, <1>5, <1>7, <2>1
    <3>2. CASE p = t
      <4>1. n_children'[t] = n_children[t] + 1 BY <2>1, <3>2 DEF CountType
      <4>2. Cardinality(Children(t, at) \cup {<<u, j>>}) = Cardinality(Children(t, at)) + 1
        BY <1>3, <1>4, <1>7, FS_AddElement
      <4>. QED BY <1>3, <1>5, <1>7, <3>1, <3>2, <4>1, <4>2
    <3>3. CASE p # t
      <4>1. n_children'[t] = n_children[t] BY <2>1, <3>3 DEF CountType
      <4>. QED BY <1>3, <1>5, <1>7, <3>1, <3>3, <4>1
    <3>. QED BY <3>2, <3>3
  <2>. QED BY <2>2, <2>3 DEF CountNext
<1>. QED BY <1>6, <1>7

LEMMA UpdateStep ==
    ASSUME graph \in Graphs, InPlan, CountType, CountInv, UpdateParent,
           NEW p, p = Src(at.node)[at.src]
    PROVE  /\ CountNext /\ CountType'
           /\ n_children'[p] = n_children[p] - 1
           /\ \A t \in Tensors : n_views'[t] =
                 IF IsView(p) /\ Root(p) = t /\ n_children'[p] = 0 THEN n_views[t] - 1
                 ELSE n_views[t]
<1>. PICK r : r = <<at.node, at.src>> OBVIOUS
<1>. DEFINE left == n_children[p] - 1
<1>1. at.phase = "update" BY DEF UpdateParent, At
<1>2. /\ p \in DOMAIN graph.tensor /\ r \in Children(p, at)
      /\ \A t : Children(t, at') = IF t = p THEN Children(t, at) \ {r} ELSE Children(t, at)
      /\ \A t : Views(t, at') = IF IsView(p) /\ Root(p) = t /\ Children(p, at') = {}
                                THEN Views(t, at) \ {p} ELSE Views(t, at)
      /\ IsView(p) => p \in Views(Root(p), at)
  BY UpdateSets
<1>3. \A t : IsFiniteSet(Children(t, at)) /\ IsFiniteSet(Views(t, at)) BY CountedSets
<1>4. \A t \in Tensors : /\ n_children[t] = Cardinality(Children(t, at))
                         /\ n_views[t] = Cardinality(Views(t, at))
  BY <1>1 DEF CountInv, Planning, Second
<1>5. p \in Tensors BY <1>2, TensorFacts
<1>6. n_children' = [n_children EXCEPT ![p] = left] BY DEF UpdateParent
<1>7. ASSUME NEW t \in Tensors PROVE n_children'[t] = Cardinality(Children(t, at'))
  <2>0. IsFiniteSet(Children(p, at)) /\ r \in Children(p, at) BY <1>2, <1>3
  <2>1. Cardinality(Children(p, at) \ {r}) = Cardinality(Children(p, at)) - 1
    BY <2>0, FS_RemoveElement
  <2>2. CASE t = p BY <1>2, <1>4, <1>6, <2>1, <2>2 DEF CountType
  <2>3. CASE t # p BY <1>2, <1>4, <1>6, <2>3 DEF CountType
  <2>. QED BY <2>2, <2>3
<1>8. n_children'[p] = left /\ (Children(p, at') = {} <=> left = 0)
  <2>1. n_children'[p] = left BY <1>5, <1>6 DEF CountType
  <2>2. IsFiniteSet(Children(p, at')) BY CountedSets
  <2>. QED BY <1>5, <1>7, <2>1, <2>2, FS_EmptySet
<1>9. IsView(p) => n_views[p] = 0
  BY <1>2, <1>4, <1>5, CountedSets, NoneCounted
<1>10. n_views' = IF left = 0 /\ IsView(p) THEN [n_views EXCEPT ![Root(p)] = @ - 1] ELSE n_views
  <2>1. \/ /\ left = 0 /\ n_views[p] = 0 /\ IsView(p)
           /\ n_views' = [n_views EXCEPT ![Root(p)] = @ - 1]
        \/ ~(left = 0 /\ n_views[p] = 0 /\ IsView(p)) /\ n_views' = n_views
    BY DEF UpdateParent
  <2>. QED BY <1>9, <2>1
<1>11. ASSUME NEW t \in Tensors
       PROVE  /\ n_views'[t] = Cardinality(Views(t, at'))
              /\ n_views'[t] = IF IsView(p) /\ Root(p) = t /\ left = 0 THEN n_views[t] - 1
                               ELSE n_views[t]
  <2>1. CASE IsView(p) /\ Root(p) = t /\ left = 0
    <3>1. Cardinality(Views(t, at) \ {p}) = Cardinality(Views(t, at)) - 1
      BY <1>2, <1>3, <2>1, FS_RemoveElement
    <3>2. n_views'[t] = n_views[t] - 1 BY <1>10, <2>1 DEF CountType
    <3>. QED BY <1>2, <1>4, <1>8, <2>1, <3>1, <3>2
  <2>2. CASE ~(IsView(p) /\ Root(p) = t /\ left = 0)
    <3>1. n_views'[t] = n_views[t] BY <1>10, <2>2 DEF CountType
    <3>. QED BY <1>2, <1>4, <1>8, <2>2, <3>1
  <2>. QED BY <2>1, <2>2
<1>12. CountType'
  <2>1. left \in Int BY <1>5 DEF CountType
  <2>2. IsView(p) => Root(p) \in Tensors BY <1>2, TensorFacts
  <2>3. IsView(p) => n_views[Root(p)] - 1 \in Int BY <2>2 DEF CountType
  <2>4. n_children' \in [Tensors -> Int] BY <1>6, <2>1 DEF CountType
  <2>5. n_views' \in [Tensors -> Int] BY <1>10, <2>3 DEF CountType
  <2>. QED BY <2>4, <2>5 DEF CountType
<1>. QED BY <1>7, <1>8, <1>11, <1>12 DEF CountNext

LEMMA CountInvariant == Spec => [](CountType /\ CountInv)
<1>1. Init => CountType /\ CountInv
  BY DEF Init, Idle, CountType, CountInv, Planning, Second
<1>2. InPlan /\ CountType /\ CountInv /\ [Next]_vars => CountType' /\ CountInv'
  <2>. SUFFICES ASSUME InPlan, CountType, CountInv, [Next]_vars
                PROVE  CountType' /\ CountInv'
    OBVIOUS
  <2>0. at.phase # "idle" => graph \in Graphs BY DEF InPlan
  <2>1. ASSUME NEW g \in NextGraphs, NEW n \in Scales, AllocGraph(g, n)
        PROVE  CountType' /\ CountInv'
    <3>1. graph' = g /\ g \in Graphs BY <2>1 DEF AllocGraph, NextGraphs, InPlan
    <3>2. CASE NeedsRealloc(g, n)
      <4>1. /\ n_children' = [t \in Tensors |-> 0] /\ n_views' = [t \in Tensors |-> 0]
            /\ at'.phase = "leafs"
        BY <2>1, <3>2 DEF AllocGraph, Goto
      <4>2. \A r \in Reads' : ~OpenRead(r, at)' BY <4>1 DEF OpenRead
      <4>3. \A v \in Nodes' : ~OpenView(v, at)' BY <4>1 DEF OpenView, Second
      <4>4. \A t \in Tensors : Children(t, at)' = {} /\ Views(t, at)' = {}
        BY <4>2, <4>3 DEF Children, Views
      <4>. QED BY <4>1, <4>4, NoneCounted DEF CountType, CountInv
    <3>3. CASE ~NeedsRealloc(g, n)
      BY <2>1, <3>3 DEF AllocGraph, Goto, counts, CountType, CountInv, Planning, Second
    <3>. QED BY <3>2, <3>3
  <2>2. CASE AllocateLeaf
    <3>1. /\ at.phase = "leafs" /\ graph' = graph /\ UNCHANGED counts
          /\ \/ at'.phase = "leafs"
             \/ at'.phase = "count" /\ at'.node = graph.n_leafs + 1 /\ at'.src = 0
      BY <2>2 DEF AllocateLeaf, At, Goto
    <3>2. \A t : /\ Children(t, at) = {} /\ Views(t, at) = {}
                 /\ Children(t, at') = {} /\ Views(t, at') = {}
      BY <2>0, <3>1, LeafSets
    <3>3. CountNext BY <3>1, <3>2 DEF CountNext, CountInv, Planning, counts
    <3>. QED BY <3>1, <3>3, CountPrimed DEF CountType, counts
  <2>3. CASE Count
    <3>1. at.phase = "count" /\ graph' = graph BY <2>3 DEF Count, At
    <3>. QED BY <2>0, <2>3, <3>1, CountStep, CountPrimed
  <2>4. CASE AllocateParent \/ AllocateThis
    <3>1. /\ at.phase \in Second /\ at.phase # "idle" /\ graph' = graph /\ UNCHANGED counts
      BY <2>4 DEF AllocateParent, AllocateThis, At, Second
    <3>2. \A t : Children(t, at') = Children(t, at) /\ Views(t, at') = Views(t, at)
      BY <2>0, <2>4, <3>1, WaitingSets
    <3>3. CountNext BY <3>1, <3>2 DEF CountNext, CountInv, Planning, counts
    <3>. QED BY <3>1, <3>3, CountPrimed DEF CountType, counts
  <2>5. CASE UpdateParent
    <3>1. at.phase = "update" /\ graph' = graph BY <2>5 DEF UpdateParent, At
    <3>2. PICK p : p = Src(at.node)[at.src] OBVIOUS
    <3>. QED BY <2>0, <2>5, <3>1, <3>2, UpdateStep, CountPrimed
  <2>6. CASE ReserveBuffer \/ SetLeafs \/ RunNode
    <3>1. at'.phase \in {"set", "run", "idle"} /\ UNCHANGED counts
      BY <2>6 DEF ReserveBuffer, SetLeafs, RunNode, Goto, Idle
    <3>. QED BY <3>1 DEF CountType, CountInv, Planning, Second, counts
  <2>7. CASE Done \/ UNCHANGED vars
    <3>1. UNCHANGED <<at, graph, counts>> BY <2>7 DEF Done, vars
    <3>2. at.phase \in Planning => CountNext BY <3>1 DEF CountNext, CountInv, counts
    <3>3. at.phase \notin Planning => CountInv' BY <3>1 DEF CountInv, Planning, Second
    <3>. QED BY <3>1, <3>2, <3>3, CountPrimed DEF CountType, counts
  <2>. QED BY <2>1, <2>2, <2>3, <2>4, <2>5, <2>6, <2>7 DEF Next
<1>. QED BY <1>1, <1>2, InPlanInvariant, PTL DEF Spec
-----------------------------------------------------------------------------
(* The plan.  While it is made, every tensor that had its turn has a place;  *)
(* what was given back is not needed any more, and tensors share a place     *)
(* only where the later one does not touch what the earlier one still holds. *)

\* Node u reads tensor s, itself or through a view.
ReadsRoot(u, s) == \E j \in DOMAIN Src(u) : Root(Src(u)[j]) = s

\* Somebody after u still needs s.
Needed(s, u) ==
    \/ "output" \in Tensor(s).flags
    \/ \E w \in Nodes : w > u /\ ReadsRoot(w, s)

Separate(a, b) == a.chunk # b.chunk \/ Apart(a, b)
SamePlace(a, b) == a.chunk = b.chunk /\ a.offset = b.offset

\* The parts of the plan at place a, with regions o of the allocator and
\* addresses ad, for batches of size n.
OwnedPlaced(o, ad) ==
    \A t \in Tensors : o[t] # Nowhere => t \in Placed /\ ad[t] = o[t]

PlacedInTurn(a, ad) ==
    /\ \A t \in Placed : Reached(t, a) => ad[t] # Nowhere
    /\ \A t \in Tensors : ad[t] # Nowhere => t \in Placed /\ Reached(t, a)

GoneUnneeded(a, o) ==
    \A t \in Placed : Reached(t, a) /\ o[t] = Nowhere =>
        /\ a.phase \in Second
        /\ "output" \notin Tensor(t).flags
        /\ Views(t, a) = {}
        /\ \A r \in Children(t, a) : a.phase = "update" /\ r[1] = a.node

OwnedWanted(a, o) ==
    a.phase \in Second => \A t \in Tensors : o[t] # Nowhere =>
        \/ "output" \in Tensor(t).flags \/ Consumers(t) = {}
        \/ Children(t, a) # {} \/ Views(t, a) # {}

SharedInTurn(s, u, ad, n) ==
    /\ u \in Leafs \/ Needed(s, u) => Separate(ad[s], ad[u])
    /\ ReadsRoot(u, s) =>
          \/ Separate(ad[s], ad[u])
          \/ /\ Tensor(u).op = "inplace" /\ SamePlace(ad[s], ad[u])
             /\ SizeIn(graph, n, s) = SizeIn(graph, n, u)

Shared(a, ad, n) ==
    \A s, u \in Placed :
        s < u /\ Reached(s, a) /\ Reached(u, a) => SharedInTurn(s, u, ad, n)

LargeEnough(a, ad, cs, n) ==
    \A t \in Placed : Reached(t, a) => SizeIn(graph, n, t) <= ad[t].size /\ Room(ad[t], cs)

PlanOK(a, o, ad, cs) ==
    /\ OwnedPlaced(o, ad) /\ PlacedInTurn(a, ad) /\ GoneUnneeded(a, o)
    /\ OwnedWanted(a, o) /\ Shared(a, ad, scale) /\ LargeEnough(a, ad, cs, scale)

PlanInv == at.phase \in Planning => PlanOK(at, owned, addr, chunks)

LEMMA PlanPrimed ==
    ASSUME UNCHANGED <<graph, scale>>, PlanOK(at', owned', addr', chunks')
    PROVE  PlanInv'
<1>1. ASSUME NEW t
      PROVE  /\ Children(t, at)' = Children(t, at') /\ Views(t, at)' = Views(t, at')
             /\ Reached(t, at)' = Reached(t, at') /\ Consumers(t)' = Consumers(t)
             /\ Tensor(t)' = Tensor(t) /\ Root(t)' = Root(t) /\ Src(t)' = Src(t)
  BY DEF Children, Views, OpenRead, OpenView, Second, Before, Reads, What, Consumers, Src,
         Tensor, Nodes, IsView, Root, RootIn, Reached, Leafs
<1>2. Placed' = Placed /\ Leafs' = Leafs /\ Nodes' = Nodes
  BY DEF Placed, Leafs, Nodes
<1>3. OwnedPlaced(owned, addr)' BY <1>2 DEF PlanOK, OwnedPlaced
<1>4. PlacedInTurn(at, addr)' BY <1>1, <1>2 DEF PlanOK, PlacedInTurn
<1>5. GoneUnneeded(at, owned)' BY <1>1, <1>2 DEF PlanOK, GoneUnneeded, Second
<1>6. OwnedWanted(at, owned)' BY <1>1, <1>2 DEF PlanOK, OwnedWanted, Second
<1>7. ASSUME NEW s, NEW u
      PROVE  SharedInTurn(s, u, addr, scale)' = SharedInTurn(s, u, addr', scale)
  BY <1>2 DEF SharedInTurn, Needed, ReadsRoot, Separate, SamePlace, Apart, End, Src, Tensor,
              Root, RootIn
<1>8. Shared(at, addr, scale)' BY <1>1, <1>2, <1>7 DEF PlanOK, Shared
<1>9. LargeEnough(at, addr, chunks, scale)'
  BY <1>1, <1>2 DEF PlanOK, LargeEnough, Room, End
<1>. QED BY <1>3, <1>4, <1>5, <1>6, <1>8, <1>9 DEF PlanInv, PlanOK

\* Who has had its turn: the tensor at hand, too, once it has been placed.
LEMMA ReachedSteps ==
    ASSUME graph \in Graphs, InPlan, NEW t \in DOMAIN graph.tensor
    PROVE  /\ AllocateLeaf \/ AllocateThis => (Reached(t, at') <=> Reached(t, at) \/ t = at.node)
           /\ Count \/ AllocateParent \/ UpdateParent => (Reached(t, at') <=> Reached(t, at))
<1>1. /\ Leafs = 1 .. graph.n_leafs /\ graph.n_leafs \in Nat /\ t \in 1 .. Len(graph.tensor)
      /\ Len(graph.tensor) \in Nat /\ Nodes = graph.n_leafs + 1 .. Len(graph.tensor)
  BY TensorFacts
<1>2. ASSUME AllocateLeaf PROVE Reached(t, at') <=> Reached(t, at) \/ t = at.node
  <2>1. at.phase = "leafs" BY <1>2 DEF AllocateLeaf, At
  <2>2. at.node \in Leafs BY <2>1 DEF InPlan
  <2>3. \/ /\ at.node < graph.n_leafs
           /\ at' = [phase |-> "leafs", node |-> at.node + 1, src |-> 0]
        \/ /\ ~(at.node < graph.n_leafs)
           /\ at' = [phase |-> "count", node |-> graph.n_leafs + 1, src |-> 0]
    BY <1>2 DEF AllocateLeaf, Goto
  <2>4. Reached(t, at) <=> t < at.node BY <2>1 DEF Reached
  <2>5. CASE /\ at.node < graph.n_leafs
             /\ at' = [phase |-> "leafs", node |-> at.node + 1, src |-> 0]
    <3>1. Reached(t, at') <=> t < at.node + 1 BY <2>5 DEF Reached
    <3>. QED BY <1>1, <2>2, <2>4, <3>1
  <2>6. CASE /\ ~(at.node < graph.n_leafs)
             /\ at' = [phase |-> "count", node |-> graph.n_leafs + 1, src |-> 0]
    <3>1. Reached(t, at') <=> t \in Leafs BY <2>6 DEF Reached
    <3>. QED BY <1>1, <2>2, <2>4, <2>6, <3>1
  <2>. QED BY <2>3, <2>5, <2>6
<1>3. ASSUME AllocateThis PROVE Reached(t, at') <=> Reached(t, at) \/ t = at.node
  <2>1. at.phase = "node" /\ at' = [phase |-> "update", node |-> at.node, src |-> 1]
    BY <1>3 DEF AllocateThis, At, Goto
  <2>2. at.node \in Nat BY <2>1, PlaceFacts
  <2>. QED BY <1>1, <2>1, <2>2 DEF Reached
<1>4. ASSUME Count PROVE Reached(t, at') <=> Reached(t, at)
  <2>1. at.phase = "count" BY <1>4 DEF Count, At
  <2>2. \/ at'.phase = "count"
        \/ at' = [phase |-> "parents", node |-> graph.n_leafs + 1, src |-> 1]
    BY <1>4 DEF Count, Advance, Goto
  <2>3. Reached(t, at) <=> t \in Leafs BY <2>1 DEF Reached
  <2>. QED BY <1>1, <2>2, <2>3 DEF Reached
<1>5. ASSUME AllocateParent PROVE Reached(t, at') <=> Reached(t, at)
  BY <1>5 DEF AllocateParent, At, Advance, Goto, Reached
<1>6. ASSUME UpdateParent PROVE Reached(t, at') <=> Reached(t, at)
  <2>1. at.phase = "update" BY <1>6 DEF UpdateParent, At
  <2>2. at.node \in Nodes BY <2>1, PlaceFacts
  <2>3. \/ at' = [phase |-> "update", node |-> at.node, src |-> at.src + 1]
        \/ at' = [phase |-> "parents", node |-> at.node + 1, src |-> 1]
        \/ /\ ~(at.node < Len(graph.tensor))
           /\ at' = [phase |-> "buffer", node |-> 0, src |-> 0]
    BY <1>6 DEF UpdateParent, Advance, Goto
  <2>4. Reached(t, at) <=> t <= at.node BY <2>1 DEF Reached
  <2>. QED BY <1>1, <2>2, <2>3, <2>4 DEF Reached
<1>. QED BY <1>2, <1>3, <1>4, <1>5, <1>6

\* What somebody still needs has its memory.
LEMMA StillOwned ==
    ASSUME graph \in Graphs, at.phase \in {"parents", "node"}, at.node \in Nat,
           GoneUnneeded(at, owned), NEW s \in Placed, Reached(s, at),
           "output" \in Tensor(s).flags \/ \E w \in Nodes : w >= at.node /\ ReadsRoot(w, s)
    PROVE  IsOwn(s)
<1>. SUFFICES ASSUME owned[s] = Nowhere PROVE FALSE BY DEF IsOwn
<1>1. "output" \notin Tensor(s).flags /\ Views(s, at) = {} /\ Children(s, at) = {}
  BY DEF GoneUnneeded
<1>2. PICK w \in Nodes : w >= at.node /\ ReadsRoot(w, s) BY <1>1
<1>3. PICK j \in DOMAIN Src(w) : Root(Src(w)[j]) = s BY <1>2 DEF ReadsRoot
<1>. DEFINE v == Src(w)[j]
<1>4. <<w, j>> \in Reads /\ What(<<w, j>>) = v BY ReadFacts
<1>5. OpenRead(<<w, j>>, at) BY <1>2 DEF OpenRead
<1>6. <<w, j>> \in Children(v, at) BY <1>4, <1>5 DEF Children
<1>7. v \in DOMAIN graph.tensor
  BY TensorFacts
<1>8. CASE IsView(v)
  <2>1. v \in Nodes BY <1>7, <1>8, TensorFacts
  <2>2. OpenView(v, at) BY <1>6 DEF OpenView, Second
  <2>. QED BY <1>1, <1>3, <1>8, <2>1, <2>2 DEF Views
<1>9. CASE ~IsView(v)
  <2>1. v = s BY <1>3, <1>7, <1>9, TensorFacts
  <2>. QED BY <1>1, <1>6, <2>1
<1>. QED BY <1>8, <1>9

\* The steps in which no memory changes hands.
LEMMA CountPlan ==
    ASSUME InputsAreLeafs, PlanInv, InPlan, graph \in Graphs, Count
    PROVE  PlanOK(at', owned', addr', chunks')
<1>1. at.phase = "count" BY DEF Count, At
<1>2. PlanOK(at, owned, addr, chunks) BY <1>1 DEF PlanInv, Planning
<1>. PICK t : t = (IF at.src = 0 THEN at.node ELSE Src(at.node)[at.src]) OBVIOUS
<1>3. t \in DOMAIN graph.tensor
  BY <1>1, PlaceFacts, TensorFacts
<1>4. UNCHANGED <<dynVars, addr>>
  <2>1. CASE "input" \notin Tensor(t).flags BY <2>1 DEF Count
  <2>2. CASE "input" \in Tensor(t).flags
    <3>1. t \in Leafs BY <1>3, <2>2, TensorFacts DEF InputsAreLeafs, Tensor, Leafs
    <3>2. Reached(t, at) BY <1>1, <3>1 DEF Reached
    <3>3. t \in Placed => IsOwn(t)
      BY <1>1, <1>2, <3>2 DEF PlanOK, GoneUnneeded, Second, IsOwn
    <3>4. AllocateNode(t) BY <2>2 DEF Count
    <3>5. t \in Placed \/ Tensor(t).data \/ IsView(t) BY <1>3 DEF Placed, NotPlaced, Tensor, IsView
    <3>. QED BY <3>3, <3>4, <3>5 DEF AllocateNode
  <2>. QED BY <2>1, <2>2
<1>5. owned' = owned /\ chunks' = chunks /\ addr' = addr BY <1>4 DEF dynVars
<1>6. \A x \in DOMAIN graph.tensor : Reached(x, at') <=> Reached(x, at) BY ReachedSteps
<1>7. Placed \subseteq DOMAIN graph.tensor BY DEF Placed
<1>8. OwnedPlaced(owned', addr') BY <1>2, <1>5 DEF PlanOK
<1>9. PlacedInTurn(at', addr') BY <1>2, <1>5, <1>6, <1>7 DEF PlanOK, PlacedInTurn
<1>10. GoneUnneeded(at', owned')
  BY <1>1, <1>2, <1>5, <1>6, <1>7 DEF PlanOK, GoneUnneeded, Second
<1>11. OwnedWanted(at', owned')
  <2>. SUFFICES ASSUME at'.phase \in Second, NEW x \in Tensors, owned[x] # Nowhere,
                       Consumers(x) # {}
                PROVE  Children(x, at') # {}
    BY <1>5 DEF OwnedWanted
  <2>1. at' = [phase |-> "parents", node |-> graph.n_leafs + 1, src |-> 1]
    BY DEF Count, Advance, Goto, Second
  <2>2. PICK u \in Nodes : \E j \in DOMAIN Src(u) : Src(u)[j] = x BY DEF Consumers
  <2>3. PICK j \in DOMAIN Src(u) : Src(u)[j] = x BY <2>2
  <2>4. <<u, j>> \in Reads /\ What(<<u, j>>) = x BY <2>3, ReadFacts
  <2>5. u >= graph.n_leafs + 1 BY TensorFacts
  <2>6. OpenRead(<<u, j>>, at') BY <2>1, <2>5 DEF OpenRead
  <2>. QED BY <2>4, <2>6 DEF Children
<1>12. Shared(at', addr', scale) BY <1>2, <1>5, <1>6, <1>7 DEF PlanOK, Shared
<1>13. LargeEnough(at', addr', chunks', scale)
  BY <1>2, <1>5, <1>6, <1>7 DEF PlanOK, LargeEnough
<1>. QED BY <1>8, <1>9, <1>10, <1>11, <1>12, <1>13 DEF PlanOK

LEMMA ParentPlan ==
    ASSUME PlanInv, InPlan, graph \in Graphs, AllocateParent
    PROVE  PlanOK(at', owned', addr', chunks')
<1>1. at.phase = "parents" BY DEF AllocateParent, At
<1>2. PlanOK(at, owned, addr, chunks) BY <1>1 DEF PlanInv, Planning, Second
<1>. PICK t : t = Src(at.node)[at.src] OBVIOUS
<1>3. /\ at.node \in Nodes /\ at.node \in Nat /\ at.node \in DOMAIN graph.tensor
      /\ at.src \in DOMAIN Src(at.node)
  BY <1>1, PlaceFacts
<1>4. t \in 1 .. at.node - 1 /\ t \in DOMAIN graph.tensor BY <1>3, TensorFacts
<1>5. t \in Placed => IsOwn(t)
  <2>. SUFFICES ASSUME t \in Placed PROVE IsOwn(t) OBVIOUS
  <2>1. ~IsView(t) BY DEF Placed, NotPlaced, IsView, Tensor
  <2>2. Root(t) = t BY <1>4, <2>1, TensorFacts
  <2>3. ReadsRoot(at.node, t) BY <1>3, <2>2 DEF ReadsRoot
  <2>4. Reached(t, at) BY <1>1, <1>3, <1>4 DEF Reached
  <2>5. \E w \in Nodes : w >= at.node /\ ReadsRoot(w, t) BY <1>3, <2>3
  <2>. QED BY <1>1, <1>2, <1>3, <2>4, <2>5, StillOwned DEF PlanOK
<1>6. t \in Placed \/ Tensor(t).data \/ IsView(t)
  BY <1>4 DEF Placed, NotPlaced, Tensor, IsView
<1>7. AllocateNode(t) BY DEF AllocateParent
<1>8. UNCHANGED <<dynVars, addr>> BY <1>5, <1>6, <1>7 DEF AllocateNode
<1>9. owned' = owned /\ chunks' = chunks /\ addr' = addr BY <1>8 DEF dynVars
<1>10. \A x \in DOMAIN graph.tensor : Reached(x, at') <=> Reached(x, at) BY ReachedSteps
<1>11. \A x : Children(x, at') = Children(x, at) /\ Views(x, at') = Views(x, at)
  BY WaitingSets
<1>12. Placed \subseteq DOMAIN graph.tensor BY DEF Placed
<1>13. at'.phase \in {"parents", "node"} BY DEF AllocateParent, Advance, Goto
<1>14. OwnedPlaced(owned', addr') BY <1>2, <1>9 DEF PlanOK
<1>15. PlacedInTurn(at', addr') BY <1>2, <1>9, <1>10, <1>12 DEF PlanOK, PlacedInTurn
<1>16. GoneUnneeded(at', owned')
  BY <1>1, <1>2, <1>9, <1>10, <1>11, <1>12, <1>13 DEF PlanOK, GoneUnneeded, Second
<1>17. OwnedWanted(at', owned') BY <1>1, <1>2, <1>9, <1>11 DEF PlanOK, OwnedWanted, Second
<1>18. Shared(at', addr', scale) BY <1>2, <1>9, <1>10, <1>12 DEF PlanOK, Shared
<1>19. LargeEnough(at', addr', chunks', scale)
  BY <1>2, <1>9, <1>10, <1>12 DEF PlanOK, LargeEnough
<1>. QED BY <1>14, <1>15, <1>16, <1>17, <1>18, <1>19 DEF PlanOK

\* What AllocateNode does for a tensor that has no place yet.
Given(t) ==
    /\ addr' = [addr EXCEPT ![t] = owned'[t]]
    /\ owned'[t] # Nowhere /\ owned'[t].size = Aligned(Size(t))
    /\ RoomInv' /\ KeepsRoom(chunks, chunks')

TakenOver(p, t) ==
    /\ \E j \in DOMAIN Src(t) : p = Src(t)[j]
    /\ Tensor(t).op = "inplace" /\ Size(p) = Size(t)
    /\ "output" \notin Tensor(p).flags
    /\ n_children[p] = 1 /\ n_views[p] = 0
    /\ p # t /\ owned[p] # Nowhere /\ owned'[p] = Nowhere
    /\ SamePlace(owned'[t], owned[p])

LEMMA AllocateOutcome ==
    ASSUME graph \in Graphs, scale \in Scales, DynInv, RoomInv,
           NEW t \in DOMAIN graph.tensor, ~IsOwn(t), AllocateNode(t)
    PROVE  \/ t \notin Placed /\ UNCHANGED <<dynVars, addr>>
           \/ t \in Placed /\ Given(t) /\ \A x \in Tensors : x # t => owned'[x] = owned[x]
           \/ /\ t \in Placed /\ Given(t)
              /\ \E p \in Tensors : /\ TakenOver(p, t)
                                    /\ \A x \in Tensors : x \notin {p, t} => owned'[x] = owned[x]
<1>1. /\ Size(t) \in Sizes /\ t \in Tensors
      /\ \A j \in DOMAIN Src(t) : Src(t)[j] \in Tensors
  BY GraphFacts
<1>2. t \in Placed <=> ~(Tensor(t).data \/ IsView(t))
  BY DEF Placed, NotPlaced, Tensor, IsView
<1>3. CASE t \notin Placed BY <1>2, <1>3 DEF AllocateNode
<1>4. CASE t \in Placed
  <2>1. /\ addr' = [addr EXCEPT ![t] = owned'[t]]
        /\ \/ \E j \in DOMAIN Src(t) : /\ Tensor(t).op = "inplace" /\ Reusable(t, j)
                                       /\ HandOver(Src(t)[j], t, Size(t))
           \/ Alloc(t, Size(t))
    BY <1>2, <1>4 DEF AllocateNode
  <2>2. CASE Alloc(t, Size(t))
    BY <1>1, <1>4, <2>1, <2>2, AllocRoom DEF Given
  <2>3. ASSUME NEW j \in DOMAIN Src(t), Tensor(t).op = "inplace", Reusable(t, j),
               HandOver(Src(t)[j], t, Size(t))
        PROVE  t \in Placed /\ Given(t)
               /\ \E p \in Tensors : /\ TakenOver(p, t)
                                     /\ \A x \in Tensors : x \notin {p, t} => owned'[x] = owned[x]
    <3>. PICK p : p = Src(t)[j] OBVIOUS
    <3>1. p \in Tensors /\ HandOver(p, t, Size(t)) BY <1>1, <2>3
    <3>2. /\ RoomInv' /\ KeepsRoom(chunks, chunks')
          /\ owned[p] # Nowhere /\ owned'[p] = Nowhere /\ p # t
          /\ owned'[t] # Nowhere /\ owned'[t].size = Aligned(Size(t))
          /\ owned'[t].chunk = owned[p].chunk /\ owned'[t].offset = owned[p].offset
          /\ \A u \in Tensors : u # t /\ u # p => owned'[u] = owned[u]
      BY <1>1, <3>1, HandOverRoom
    <3>3. /\ Size(p) = Size(t) /\ "output" \notin Tensor(p).flags
          /\ n_children[p] = 1 /\ n_views[p] = 0
      BY <2>3 DEF Reusable
    <3>4. Given(t) BY <2>1, <3>2 DEF Given
    <3>5. TakenOver(p, t) BY <2>3, <3>2, <3>3 DEF TakenOver, SamePlace
    <3>. QED BY <1>4, <3>1, <3>2, <3>4, <3>5
  <2>. QED BY <2>1, <2>2, <2>3
<1>. QED BY <1>3, <1>4

\* Whoever is taken over has no reader but the one that takes it.
LEMMA LastReader ==
    ASSUME graph \in Graphs, InPlan, CountInv, at.phase = "node",
           NEW p \in Tensors, TakenOver(p, at.node)
    PROVE  /\ ~Needed(p, at.node) /\ Views(p, at) = {}
           /\ \A r \in Children(p, at) : r[1] = at.node
<1>1. /\ at.node \in Nodes /\ at.node \in Nat /\ at.node \in DOMAIN graph.tensor
  BY PlaceFacts
<1>2. n_children[p] = Cardinality(Children(p, at)) /\ n_views[p] = Cardinality(Views(p, at))
  BY DEF CountInv, Planning, Second
<1>3. IsFiniteSet(Children(p, at)) /\ IsFiniteSet(Views(p, at)) BY CountedSets
<1>4. Views(p, at) = {}
  <2>1. Cardinality(Views(p, at)) = 0 BY <1>2 DEF TakenOver
  <2>. QED BY <1>3, <2>1, FS_EmptySet
<1>5. PICK r : Children(p, at) = {r}
  <2>1. Cardinality(Children(p, at)) = 1 BY <1>2 DEF TakenOver
  <2>. QED BY <1>3, <2>1, FS_Singleton, Zenon
<1>6. PICK j \in DOMAIN Src(at.node) : p = Src(at.node)[j] BY DEF TakenOver
<1>7. <<at.node, j>> \in Reads /\ What(<<at.node, j>>) = p BY <1>1, <1>6, ReadFacts
<1>8. OpenRead(<<at.node, j>>, at) BY <1>1 DEF OpenRead
<1>9. r = <<at.node, j>> BY <1>5, <1>7, <1>8 DEF Children
<1>10. \A q \in Children(p, at) : q[1] = at.node BY <1>5, <1>9
<1>11. ASSUME NEW w \in Nodes, w > at.node, ReadsRoot(w, p) PROVE FALSE
  <2>1. PICK k \in DOMAIN Src(w) : Root(Src(w)[k]) = p BY <1>11 DEF ReadsRoot
  <2>. DEFINE v == Src(w)[k]
  <2>2. <<w, k>> \in Reads /\ What(<<w, k>>) = v /\ v \in DOMAIN graph.tensor
    BY ReadFacts, TensorFacts
  <2>3. w \in Nat BY TensorFacts
  <2>4. OpenRead(<<w, k>>, at) BY <1>1, <1>11, <2>3 DEF OpenRead
  <2>5. <<w, k>> \in Children(v, at) BY <2>2, <2>4 DEF Children
  <2>6. CASE IsView(v)
    <3>1. v \in Nodes BY <2>2, <2>6, TensorFacts
    <3>2. OpenView(v, at) BY <2>5 DEF OpenView, Second
    <3>. QED BY <1>4, <2>1, <2>6, <3>1, <3>2 DEF Views
  <2>7. CASE ~IsView(v)
    <3>1. v = p BY <2>1, <2>2, <2>7, TensorFacts
    <3>2. w = at.node BY <1>5, <1>9, <2>5, <3>1
    <3>. QED BY <1>1, <1>11, <3>2
  <2>. QED BY <2>6, <2>7
<1>. QED BY <1>4, <1>10, <1>11 DEF Needed, TakenOver

\* What a tensor's turn is like, before it gets its memory.
LEMMA Turn ==
    ASSUME PlanInv, InPlan, graph \in Graphs, AllocateLeaf \/ AllocateThis,
           NEW t, t = at.node
    PROVE  /\ PlanOK(at, owned, addr, chunks)
           /\ t \in DOMAIN graph.tensor /\ t \in Tensors /\ t \in Nat
           /\ ~Reached(t, at) /\ ~IsOwn(t) /\ addr[t] = Nowhere /\ AllocateNode(t)
           /\ \A x \in DOMAIN graph.tensor : Reached(x, at') <=> Reached(x, at) \/ x = t
           /\ \A x \in DOMAIN graph.tensor : Reached(x, at) => x < t
           /\ \A s \in Placed : Reached(s, at) /\ (t \in Leafs \/ Needed(s, t) \/ ReadsRoot(t, s))
                 => IsOwn(s)
           /\ \/ t \in Leafs /\ at.phase = "leafs" /\ at'.phase \notin Second
              \/ /\ t \in Nodes /\ t \notin Leafs /\ at.phase = "node"
                 /\ at' = [phase |-> "update", node |-> t, src |-> 1]
<1>1. at.phase \in {"leafs", "node"} BY DEF AllocateLeaf, AllocateThis, At
<1>2. PlanOK(at, owned, addr, chunks) BY <1>1 DEF PlanInv, Planning, Second
<1>3. \/ t \in Leafs /\ at.phase = "leafs" /\ at'.phase \notin Second
      \/ /\ t \in Nodes /\ t \notin Leafs /\ at.phase = "node"
         /\ at' = [phase |-> "update", node |-> t, src |-> 1]
  <2>1. CASE AllocateLeaf
    <3>1. at.phase = "leafs" /\ at'.phase \notin Second
      BY <2>1 DEF AllocateLeaf, At, Goto, Second
    <3>. QED BY <3>1 DEF InPlan
  <2>2. CASE AllocateThis
    <3>1. at.phase = "node" /\ at' = [phase |-> "update", node |-> t, src |-> 1]
      BY <2>2 DEF AllocateThis, At, Goto
    <3>2. t \in Nodes BY <3>1 DEF InPlan
    <3>3. t \notin Leafs BY <3>2, TensorFacts
    <3>. QED BY <3>1, <3>2, <3>3
  <2>. QED BY <2>1, <2>2
<1>4. t \in DOMAIN graph.tensor /\ t \in Tensors /\ t \in Nat
  <2>1. t \in DOMAIN graph.tensor BY <1>3, TensorFacts
  <2>. QED BY <2>1, TensorFacts
<1>5. \A x \in DOMAIN graph.tensor : Reached(x, at) => x < t BY <1>1 DEF Reached
<1>6. ~Reached(t, at) BY <1>4, <1>5
<1>7. addr[t] = Nowhere BY <1>2, <1>4, <1>6 DEF PlanOK, PlacedInTurn
<1>8. ~IsOwn(t) BY <1>2, <1>4, <1>7 DEF PlanOK, OwnedPlaced, IsOwn
<1>9. AllocateNode(t) BY DEF AllocateLeaf, AllocateThis
<1>10. \A x \in DOMAIN graph.tensor : Reached(x, at') <=> Reached(x, at) \/ x = t
  BY ReachedSteps
<1>11. ASSUME NEW s \in Placed, Reached(s, at), t \in Leafs \/ Needed(s, t) \/ ReadsRoot(t, s)
       PROVE  IsOwn(s)
  <2>1. CASE at.phase = "leafs"
    BY <1>2, <1>11, <2>1 DEF PlanOK, GoneUnneeded, Second, IsOwn
  <2>2. CASE at.phase = "node" /\ t \notin Leafs /\ t \in Nodes
    <3>1. "output" \in Tensor(s).flags \/ \E w \in Nodes : w >= at.node /\ ReadsRoot(w, s)
      <4>1. CASE Needed(s, t)
        <5>1. \A w \in Nodes : w \in Nat BY TensorFacts
        <5>. QED BY <1>4, <4>1, <5>1 DEF Needed
      <4>2. CASE ReadsRoot(t, s) BY <1>4, <2>2, <4>2
      <4>. QED BY <1>11, <2>2, <4>1, <4>2
    <3>. QED BY <1>2, <1>4, <1>11, <2>2, <3>1, StillOwned DEF PlanOK
  <2>. QED BY <1>3, <2>1, <2>2
<1>. QED BY <1>2, <1>3, <1>4, <1>5, <1>6, <1>7, <1>8, <1>9, <1>10, <1>11

AddrType == addr \in [Tensors -> Region]

\* The tensor gets memory of its own, or the place of a source that it is the
\* last to read.
LEMMA TurnShared ==
    ASSUME graph \in Graphs, InPlan, CountInv, PlanInv, AddrType, DynInv', NoOverlap',
           AllocateLeaf \/ AllocateThis, NEW t, t = at.node, t \in Placed, Given(t),
           NEW p, p = 0 \/ (p \in Tensors /\ TakenOver(p, t) /\ at.phase = "node" /\ t \notin Leafs),
           \A x \in Tensors : x \notin {p, t} => owned'[x] = owned[x]
    PROVE  Shared(at', addr', scale)
<1>1. /\ PlanOK(at, owned, addr, chunks)
      /\ t \in DOMAIN graph.tensor /\ t \in Tensors /\ t \in Nat
      /\ \A x \in DOMAIN graph.tensor : Reached(x, at') <=> Reached(x, at) \/ x = t
      /\ \A x \in DOMAIN graph.tensor : Reached(x, at) => x < t
      /\ \A s \in Placed : Reached(s, at) /\ (t \in Leafs \/ Needed(s, t) \/ ReadsRoot(t, s))
            => IsOwn(s)
  BY Turn
<1>2. addr'[t] = owned'[t] /\ \A x \in Tensors : x # t => addr'[x] = addr[x]
  BY <1>1 DEF Given, AddrType
<1>3. /\ Placed \subseteq DOMAIN graph.tensor /\ Placed \subseteq Tensors
      /\ \A x \in DOMAIN graph.tensor : x \in Nat
  BY TensorFacts DEF Placed
<1>4. ASSUME NEW s \in Placed, s < t, Reached(s, at) PROVE SharedInTurn(s, t, addr', scale)
  <2>1. s \in Tensors /\ s # t /\ addr'[s] = addr[s] BY <1>1, <1>2, <1>3, <1>4
  <2>2. CASE ~(t \in Leafs \/ Needed(s, t) \/ ReadsRoot(t, s)) BY <2>2 DEF SharedInTurn
  <2>3. CASE t \in Leafs \/ Needed(s, t) \/ ReadsRoot(t, s)
    <3>1. IsOwn(s) BY <1>1, <1>4, <2>3
    <3>2. addr[s] = owned[s] BY <1>1, <2>1, <3>1 DEF PlanOK, OwnedPlaced, IsOwn
    <3>3. CASE s = p
      <4>1. TakenOver(s, t) /\ at.phase = "node" /\ t \notin Leafs
        BY <1>1, <2>1, <3>3, <1>3, TensorFacts
      <4>2. ~Needed(s, t) BY <2>1, <4>1, LastReader
      <4>3. /\ Tensor(t).op = "inplace" /\ SizeIn(graph, scale, s) = SizeIn(graph, scale, t)
            /\ SamePlace(addr'[s], addr'[t])
        BY <1>2, <2>1, <3>2, <4>1 DEF TakenOver, SamePlace, Size
      <4>. QED BY <4>1, <4>2, <4>3 DEF SharedInTurn
    <3>4. CASE s # p
      <4>1. owned'[s] = owned[s] /\ owned'[s] # Nowhere BY <2>1, <3>1, <3>4 DEF IsOwn
      <4>2. Separate(owned'[s], owned'[t])
        BY <1>1, <2>1, <4>1 DEF NoOverlap, Separate, Apart, End
      <4>3. Separate(addr'[s], addr'[t]) BY <1>2, <2>1, <3>2, <4>1, <4>2
      <4>. QED BY <4>3 DEF SharedInTurn
    <3>. QED BY <3>3, <3>4
  <2>. QED BY <2>2, <2>3
<1>5. ASSUME NEW s \in Placed, NEW u \in Placed, s < u, Reached(s, at'), Reached(u, at')
      PROVE  SharedInTurn(s, u, addr', scale)
  <2>1. /\ s \in DOMAIN graph.tensor /\ u \in DOMAIN graph.tensor
        /\ s \in Tensors /\ u \in Tensors /\ s \in Nat /\ u \in Nat
    BY <1>3
  <2>2. CASE u = t
    <3>1. s # t /\ Reached(s, at) BY <1>1, <1>5, <2>1, <2>2
    <3>. QED BY <1>4, <1>5, <2>2, <3>1
  <2>3. CASE u # t
    <3>1. Reached(u, at) /\ u < t BY <1>1, <1>5, <2>1, <2>3
    <3>2. s # t /\ Reached(s, at) BY <1>1, <1>5, <2>1, <3>1
    <3>3. SharedInTurn(s, u, addr, scale) BY <1>1, <1>5, <3>1, <3>2 DEF PlanOK, Shared
    <3>4. addr'[s] = addr[s] /\ addr'[u] = addr[u] BY <1>2, <2>1, <2>3, <3>2
    <3>. QED BY <3>3, <3>4 DEF SharedInTurn
  <2>. QED BY <2>2, <2>3
<1>. QED BY <1>5 DEF Shared

\* The parts that do not depend on where the memory came from.
LEMMA TurnPlaced ==
    ASSUME graph \in Graphs, scale \in Scales, InPlan, PlanInv, AddrType,
           AllocateLeaf \/ AllocateThis, NEW t, t = at.node, t \in Placed, Given(t),
           \A x \in Tensors : x # t /\ owned'[x] # Nowhere => owned'[x] = owned[x]
    PROVE  /\ OwnedPlaced(owned', addr') /\ PlacedInTurn(at', addr')
           /\ LargeEnough(at', addr', chunks', scale)
<1>1. /\ PlanOK(at, owned, addr, chunks)
      /\ t \in DOMAIN graph.tensor /\ t \in Tensors /\ ~IsOwn(t)
      /\ \A x \in DOMAIN graph.tensor : Reached(x, at') <=> Reached(x, at) \/ x = t
  BY Turn
<1>2. addr'[t] = owned'[t] /\ \A x \in Tensors : x # t => addr'[x] = addr[x]
  BY <1>1 DEF Given, AddrType
<1>3. Placed \subseteq DOMAIN graph.tensor /\ Placed \subseteq Tensors
  BY TensorFacts DEF Placed
<1>4. OwnedPlaced(owned', addr') BY <1>1, <1>2, <1>3 DEF PlanOK, OwnedPlaced
<1>5. PlacedInTurn(at', addr')
  BY <1>1, <1>2, <1>3 DEF PlanOK, PlacedInTurn, Given
<1>6. ASSUME NEW x \in Placed, Reached(x, at')
      PROVE  SizeIn(graph, scale, x) <= addr'[x].size /\ Room(addr'[x], chunks')
  <2>1. CASE x = t
    <3>1. Size(t) \in Nat \ {0} BY <1>1, GraphFacts, DynAllocatorAssumption
    <3>2. Size(t) <= owned'[t].size BY <3>1, AlignedSize DEF Given
    <3>3. Room(owned'[t], chunks') BY <1>1 DEF Given, RoomInv, Room, End
    <3>. QED BY <1>2, <2>1, <3>2, <3>3 DEF Size
  <2>2. CASE x # t
    <3>1. Reached(x, at) /\ x \in Tensors /\ addr'[x] = addr[x] BY <1>1, <1>2, <1>3, <1>6, <2>2
    <3>2. addr[x] \in Region BY <3>1 DEF AddrType
    <3>3. SizeIn(graph, scale, x) <= addr[x].size /\ Room(addr[x], chunks)
      BY <1>1, <3>1 DEF PlanOK, LargeEnough
    <3>4. Room(addr[x], chunks') BY <3>2, <3>3 DEF Given, KeepsRoom
    <3>. QED BY <3>1, <3>3, <3>4
  <2>. QED BY <2>1, <2>2
<1>. QED BY <1>4, <1>5, <1>6 DEF LargeEnough

LEMMA TurnPlan ==
    ASSUME graph \in Graphs, scale \in Scales, InPlan, CountInv, PlanInv, AddrType,
           DynInv, RoomInv, DynInv', AllocateLeaf \/ AllocateThis
    PROVE  PlanOK(at', owned', addr', chunks')
<1>. PICK t : t = at.node OBVIOUS
<1>1. /\ PlanOK(at, owned, addr, chunks)
      /\ t \in DOMAIN graph.tensor /\ t \in Tensors /\ t \in Nat
      /\ ~Reached(t, at) /\ ~IsOwn(t) /\ addr[t] = Nowhere /\ AllocateNode(t)
      /\ \A x \in DOMAIN graph.tensor : Reached(x, at') <=> Reached(x, at) \/ x = t
      /\ \/ t \in Leafs /\ at.phase = "leafs" /\ at'.phase \notin Second
         \/ /\ t \in Nodes /\ t \notin Leafs /\ at.phase = "node"
            /\ at' = [phase |-> "update", node |-> t, src |-> 1]
  BY Turn
<1>2. Placed \subseteq DOMAIN graph.tensor /\ Placed \subseteq Tensors
  BY TensorFacts DEF Placed
<1>3. at.phase = "node" =>
         \A x : Children(x, at') = Children(x, at) /\ Views(x, at') = Views(x, at)
  <2>1. ASSUME at.phase = "node" PROVE AllocateThis BY <2>1 DEF AllocateLeaf, At
  <2>. QED BY <2>1, WaitingSets
<1>4. NoOverlap' BY DEF DynInv
<1>5. ASSUME at.phase = "node", Consumers(t) # {} PROVE Children(t, at') # {}
  <2>1. PICK u \in Nodes : \E j \in DOMAIN Src(u) : Src(u)[j] = t BY <1>5 DEF Consumers
  <2>2. PICK j \in DOMAIN Src(u) : Src(u)[j] = t BY <2>1
  <2>3. <<u, j>> \in Reads /\ What(<<u, j>>) = t /\ t < u /\ u \in Nat
    <3>1. Src(u)[j] \in 1 .. u - 1 /\ u \in Nat BY <2>2, TensorFacts
    <3>. QED BY <2>2, <3>1, ReadFacts
  <2>4. OpenRead(<<u, j>>, at) BY <1>1, <1>5, <2>3 DEF OpenRead
  <2>5. Children(t, at) # {} BY <2>3, <2>4 DEF Children
  <2>. QED BY <1>3, <1>5, <2>5
<1>6. CASE t \notin Placed /\ UNCHANGED <<dynVars, addr>>
  <2>1. owned' = owned /\ chunks' = chunks /\ addr' = addr BY <1>6 DEF dynVars
  <2>2. \A x \in Placed : Reached(x, at') <=> Reached(x, at) BY <1>1, <1>2, <1>6
  <2>3. OwnedPlaced(owned', addr') BY <1>1, <2>1 DEF PlanOK
  <2>4. PlacedInTurn(at', addr') BY <1>1, <2>1, <2>2 DEF PlanOK, PlacedInTurn
  <2>5. GoneUnneeded(at', owned')
    BY <1>1, <1>3, <2>1, <2>2 DEF PlanOK, GoneUnneeded, Second
  <2>6. OwnedWanted(at', owned') BY <1>1, <1>3, <2>1 DEF PlanOK, OwnedWanted, Second
  <2>7. Shared(at', addr', scale) BY <1>1, <2>1, <2>2 DEF PlanOK, Shared
  <2>8. LargeEnough(at', addr', chunks', scale) BY <1>1, <2>1, <2>2 DEF PlanOK, LargeEnough
  <2>. QED BY <2>3, <2>4, <2>5, <2>6, <2>7, <2>8 DEF PlanOK
<1>7. CASE t \in Placed /\ Given(t) /\ \A x \in Tensors : x # t => owned'[x] = owned[x]
  <2>1. /\ OwnedPlaced(owned', addr') /\ PlacedInTurn(at', addr')
        /\ LargeEnough(at', addr', chunks', scale)
    BY <1>7, TurnPlaced
  <2>2. Shared(at', addr', scale) BY <1>4, <1>7, TurnShared
  <2>3. GoneUnneeded(at', owned')
    BY <1>1, <1>2, <1>3, <1>7 DEF PlanOK, GoneUnneeded, Second, Given
  <2>4. OwnedWanted(at', owned')
    BY <1>1, <1>3, <1>5, <1>7 DEF PlanOK, OwnedWanted, Second
  <2>. QED BY <2>1, <2>2, <2>3, <2>4 DEF PlanOK
<1>8. ASSUME t \in Placed, Given(t), NEW p \in Tensors, TakenOver(p, t),
             \A x \in Tensors : x \notin {p, t} => owned'[x] = owned[x]
      PROVE  PlanOK(at', owned', addr', chunks')
  <2>1. at.phase = "node" /\ t \notin Leafs
        /\ at' = [phase |-> "update", node |-> t, src |-> 1]
    <3>1. Tensor(t).op # "none" BY <1>8 DEF TakenOver
    <3>2. t \notin Leafs BY <1>1, <3>1, TensorFacts
    <3>. QED BY <1>1, <3>2
  <2>2. owned'[p] = Nowhere /\ "output" \notin Tensor(p).flags BY <1>8 DEF TakenOver
  <2>3. Views(p, at) = {} /\ \A r \in Children(p, at) : r[1] = t
    BY <1>8, <2>1, LastReader
  <2>4. /\ OwnedPlaced(owned', addr') /\ PlacedInTurn(at', addr')
        /\ LargeEnough(at', addr', chunks', scale)
    <3>1. \A x \in Tensors : x # t /\ owned'[x] # Nowhere => owned'[x] = owned[x]
      BY <1>8, <2>2
    <3>. QED BY <1>8, <3>1, TurnPlaced
  <2>5. Shared(at', addr', scale) BY <1>4, <1>8, <2>1, TurnShared
  <2>6. GoneUnneeded(at', owned')
    <3>. SUFFICES ASSUME NEW x \in Placed, Reached(x, at'), owned'[x] = Nowhere
                  PROVE  /\ at'.phase \in Second
                         /\ "output" \notin Tensor(x).flags
                         /\ Views(x, at') = {}
                         /\ \A r \in Children(x, at') : at'.phase = "update" /\ r[1] = at'.node
      BY DEF GoneUnneeded
    <3>1. at'.phase \in Second /\ at'.phase = "update" /\ at'.node = t
      BY <2>1 DEF Second
    <3>2. CASE x = p BY <1>3, <2>1, <2>2, <2>3, <3>1, <3>2
    <3>3. CASE x # p
      <4>1. x # t BY <1>8 DEF Given
      <4>2. owned[x] = Nowhere /\ Reached(x, at) BY <1>1, <1>2, <1>8, <3>3, <4>1
      <4>3. "output" \notin Tensor(x).flags /\ Views(x, at) = {} /\ Children(x, at) = {}
        BY <1>1, <2>1, <4>2 DEF PlanOK, GoneUnneeded
      <4>. QED BY <1>3, <2>1, <3>1, <4>3
    <3>. QED BY <3>2, <3>3
  <2>7. OwnedWanted(at', owned')
    <3>. SUFFICES ASSUME NEW x \in Tensors, owned'[x] # Nowhere
                  PROVE  \/ "output" \in Tensor(x).flags \/ Consumers(x) = {}
                         \/ Children(x, at') # {} \/ Views(x, at') # {}
      BY DEF OwnedWanted
    <3>1. CASE x = t BY <1>5, <2>1, <3>1
    <3>2. CASE x # t
      <4>1. owned[x] # Nowhere BY <1>8, <2>2, <3>2
      <4>2. \/ "output" \in Tensor(x).flags \/ Consumers(x) = {}
            \/ Children(x, at) # {} \/ Views(x, at) # {}
        BY <1>1, <2>1, <4>1 DEF PlanOK, OwnedWanted, Second
      <4>. QED BY <1>3, <2>1, <4>2
    <3>. QED BY <3>1, <3>2
  <2>. QED BY <2>4, <2>5, <2>6, <2>7 DEF PlanOK
<1>9. \/ t \notin Placed /\ UNCHANGED <<dynVars, addr>>
      \/ t \in Placed /\ Given(t) /\ \A x \in Tensors : x # t => owned'[x] = owned[x]
      \/ /\ t \in Placed /\ Given(t)
         /\ \E p \in Tensors : /\ TakenOver(p, t)
                               /\ \A x \in Tensors : x \notin {p, t} => owned'[x] = owned[x]
  BY <1>1, AllocateOutcome
<1>. QED BY <1>6, <1>7, <1>8, <1>9

\* A source that is not needed any more gives its memory back.
LEMMA UpdatePlan ==
    ASSUME graph \in Graphs, InPlan, CountType, CountInv, PlanInv, AddrType,
           DynInv, RoomInv, UpdateParent
    PROVE  PlanOK(at', owned', addr', chunks')
<1>. PICK p, r : p = Src(at.node)[at.src] /\ r = <<at.node, at.src>> OBVIOUS
<1>1. at.phase = "update" BY DEF UpdateParent, At
<1>2. PlanOK(at, owned, addr, chunks) BY <1>1 DEF PlanInv, Planning, Second
<1>3. /\ p \in DOMAIN graph.tensor /\ r \in Children(p, at)
      /\ \A t : Children(t, at') = IF t = p THEN Children(t, at) \ {r} ELSE Children(t, at)
      /\ \A t : Views(t, at') = IF IsView(p) /\ Root(p) = t /\ Children(p, at') = {}
                                THEN Views(t, at) \ {p} ELSE Views(t, at)
      /\ IsView(p) => p \in Views(Root(p), at)
  BY UpdateSets
<1>4. /\ \A t \in Tensors : /\ n_children'[t] = Cardinality(Children(t, at'))
                            /\ n_views'[t] = Cardinality(Views(t, at'))
      /\ n_children'[p] = n_children[p] - 1
      /\ \A t \in Tensors : n_views'[t] =
            IF IsView(p) /\ Root(p) = t /\ n_children'[p] = 0 THEN n_views[t] - 1
            ELSE n_views[t]
  BY UpdateStep DEF CountNext
<1>5. /\ p \in Tensors /\ (IsView(p) => Root(p) \in Tensors)
      /\ IsView(p) => ~IsView(Root(p)) /\ Root(p) # p
      /\ ~IsView(p) => Root(p) = p
  BY <1>3, TensorFacts
<1>6. /\ \A t \in Tensors : n_children[t] \in Int /\ n_views[t] \in Int BY DEF CountType
<1>7. \A t \in Tensors : /\ n_children'[t] = 0 <=> Children(t, at') = {}
                         /\ n_views'[t] = 0 <=> Views(t, at') = {}
  <2>1. \A t : IsFiniteSet(Children(t, at')) /\ IsFiniteSet(Views(t, at')) BY CountedSets
  <2>. QED BY <1>4, <2>1, FS_EmptySet
<1>8. \A t \in Tensors : /\ n_children[t] = 0 <=> Children(t, at) = {}
                         /\ n_views[t] = 0 <=> Views(t, at) = {}
  <2>1. \A t : IsFiniteSet(Children(t, at)) /\ IsFiniteSet(Views(t, at)) BY CountedSets
  <2>2. \A t \in Tensors : /\ n_children[t] = Cardinality(Children(t, at))
                           /\ n_views[t] = Cardinality(Views(t, at))
    BY <1>1 DEF CountInv, Planning, Second
  <2>. QED BY <2>1, <2>2, FS_EmptySet
\* Tensor x, if there is one, is freed.
<1>. DEFINE left == n_children[p] - 1
            Due(x) == \/ x = p /\ ~IsView(p) /\ left = 0 /\ n_views[p] = 0
                      \/ /\ IsView(p) /\ left = 0 /\ n_views[p] = 0 /\ x = Root(p)
                         /\ n_views[x] = 1 /\ n_children[x] = 0
<1>9. \/ \E x \in Tensors : Due(x) /\ IsOwn(x) /\ FreeNode(x)
      \/ (\A x \in Tensors : ~(Due(x) /\ IsOwn(x))) /\ UNCHANGED dynVars
  <2>1. CASE left = 0 /\ n_views[p] = 0 /\ IsView(p)
    <3>1. IF n_views[Root(p)] = 1 /\ n_children[Root(p)] = 0 /\ IsOwn(Root(p))
          THEN FreeNode(Root(p)) ELSE UNCHANGED dynVars
      BY <2>1 DEF UpdateParent
    <3>. QED BY <1>5, <2>1, <3>1
  <2>2. CASE ~(left = 0 /\ n_views[p] = 0 /\ IsView(p))
    <3>1. IF left = 0 /\ n_views[p] = 0 /\ IsOwn(p) THEN FreeNode(p) ELSE UNCHANGED dynVars
      BY <2>2 DEF UpdateParent
    <3>. QED BY <1>5, <2>2, <3>1
  <2>. QED BY <2>1, <2>2
<1>10. ASSUME NEW x \in Tensors, Due(x)
       PROVE  Children(x, at') = {} /\ Views(x, at') = {}
  <2>1. n_children'[p] = 0 BY <1>4, <1>10
  <2>2. CASE x = p /\ ~IsView(p) /\ n_views[p] = 0
    BY <1>4, <1>5, <1>7, <2>1, <2>2
  <2>3. CASE IsView(p) /\ x = Root(p) /\ n_views[x] = 1 /\ n_children[x] = 0
    <3>1. n_views'[x] = 0
      <4>1. n_views'[x] = n_views[x] - 1 BY <1>4, <2>1, <2>3
      <4>. QED BY <2>3, <4>1
    <3>2. Children(x, at') = Children(x, at) /\ Children(x, at) = {}
      BY <1>3, <1>5, <1>8, <2>3
    <3>. QED BY <1>7, <3>1, <3>2
  <2>. QED BY <1>10, <2>2, <2>3
\* What changes hands: only what is due, and no output.
<1>11. /\ KeepsRoom(chunks, chunks')
       /\ \A x \in Tensors : \/ owned'[x] = owned[x]
                             \/ /\ owned'[x] = Nowhere /\ Due(x)
                                /\ "output" \notin Tensor(x).flags
       /\ \A x \in Tensors : Due(x) /\ owned'[x] # Nowhere => "output" \in Tensor(x).flags
  <2>1. \A x, y : Due(x) /\ Due(y) => x = y BY <1>5
  <2>2. CASE UNCHANGED dynVars /\ \A x \in Tensors : Due(x) /\ IsOwn(x) =>
                                      "output" \in Tensor(x).flags
    BY <2>2 DEF dynVars, KeepsRoom, IsOwn
  <2>3. ASSUME NEW x \in Tensors, Due(x), FreeTensor(x), "output" \notin Tensor(x).flags
        PROVE  /\ KeepsRoom(chunks, chunks')
               /\ \A y \in Tensors : \/ owned'[y] = owned[y]
                                     \/ /\ owned'[y] = Nowhere /\ Due(y)
                                        /\ "output" \notin Tensor(y).flags
               /\ \A y \in Tensors : Due(y) /\ owned'[y] # Nowhere =>
                     "output" \in Tensor(y).flags
    <3>1. /\ KeepsRoom(chunks, chunks') /\ owned'[x] = Nowhere
          /\ \A y \in Tensors : y # x => owned'[y] = owned[y]
      BY <2>3, FreeRoom
    <3>. HIDE DEF Due
    <3>. QED BY <2>1, <2>3, <3>1
  <2>4. CASE \E x \in Tensors : Due(x) /\ IsOwn(x) /\ FreeNode(x)
    <3>1. PICK x \in Tensors : Due(x) /\ IsOwn(x) /\ FreeNode(x) BY <2>4
    <3>. HIDE DEF Due
    <3>2. CASE "output" \in Tensor(x).flags
      <4>1. UNCHANGED dynVars BY <3>1, <3>2 DEF FreeNode
      <4>. QED BY <2>1, <2>2, <3>1, <3>2, <4>1
    <3>3. CASE "output" \notin Tensor(x).flags
      <4>1. FreeTensor(x) BY <3>1, <3>3 DEF FreeNode
      <4>. QED BY <2>3, <3>1, <3>3, <4>1
    <3>. QED BY <3>2, <3>3
  <2>. HIDE DEF Due
  <2>. QED BY <1>9, <2>2, <2>4
<1>12. \A x \in DOMAIN graph.tensor : Reached(x, at') <=> Reached(x, at) BY ReachedSteps
<1>13. Placed \subseteq DOMAIN graph.tensor /\ Placed \subseteq Tensors
  BY TensorFacts DEF Placed
<1>14. addr' = addr BY DEF UpdateParent
<1>15. at'.phase \in Second BY DEF UpdateParent, Advance, Goto, Second
<1>16. OwnedPlaced(owned', addr') BY <1>2, <1>11, <1>14 DEF PlanOK, OwnedPlaced
<1>17. PlacedInTurn(at', addr') BY <1>2, <1>12, <1>13, <1>14 DEF PlanOK, PlacedInTurn
<1>18. Shared(at', addr', scale) BY <1>2, <1>12, <1>13, <1>14 DEF PlanOK, Shared
<1>19. LargeEnough(at', addr', chunks', scale)
  <2>. SUFFICES ASSUME NEW x \in Placed, Reached(x, at')
                PROVE  SizeIn(graph, scale, x) <= addr'[x].size /\ Room(addr'[x], chunks')
    BY DEF LargeEnough
  <2>1. addr[x] \in Region /\ Reached(x, at) BY <1>12, <1>13 DEF AddrType
  <2>2. SizeIn(graph, scale, x) <= addr[x].size /\ Room(addr[x], chunks)
    BY <1>2, <2>1 DEF PlanOK, LargeEnough
  <2>. QED BY <1>11, <1>14, <2>1, <2>2 DEF KeepsRoom
<1>20. GoneUnneeded(at', owned')
  <2>. SUFFICES ASSUME NEW x \in Placed, Reached(x, at'), owned'[x] = Nowhere
                PROVE  /\ "output" \notin Tensor(x).flags
                       /\ Views(x, at') = {}
                       /\ \A q \in Children(x, at') : at'.phase = "update" /\ q[1] = at'.node
    BY <1>15 DEF GoneUnneeded
  <2>1. CASE Due(x) /\ "output" \notin Tensor(x).flags BY <1>10, <1>13, <2>1
  <2>2. CASE owned'[x] = owned[x]
    <3>1. /\ "output" \notin Tensor(x).flags /\ Views(x, at) = {}
          /\ \A q \in Children(x, at) : q[1] = at.node
      BY <1>2, <1>12, <1>13, <2>2 DEF PlanOK, GoneUnneeded
    <3>2. Views(x, at') = {} /\ \A q \in Children(x, at') : q[1] = at.node
      BY <1>3, <3>1
    <3>3. at.node \in Nat BY <1>1, PlaceFacts
    <3>4. \A q \in Children(x, at') : OpenRead(q, at') BY DEF Children
    <3>5. \/ at'.phase = "update" /\ at'.node = at.node
          \/ at'.phase = "parents" /\ at'.node = at.node + 1
          \/ at'.phase = "buffer"
      BY DEF UpdateParent, Advance, Goto
    <3>6. ASSUME NEW q \in Children(x, at')
          PROVE  at'.phase = "update" /\ at'.node = at.node
      <4>1. CASE at'.phase = "parents" /\ at'.node = at.node + 1
        BY <3>2, <3>3, <3>4, <4>1 DEF OpenRead
      <4>2. CASE at'.phase = "buffer" BY <3>4, <4>2 DEF OpenRead
      <4>. QED BY <3>5, <4>1, <4>2
    <3>. QED BY <3>1, <3>2, <3>6
  <2>. HIDE DEF Due
  <2>. QED BY <1>11, <1>13, <2>1, <2>2
<1>21. OwnedWanted(at', owned')
  <2>. SUFFICES ASSUME NEW x \in Tensors, owned'[x] # Nowhere,
                       "output" \notin Tensor(x).flags, Consumers(x) # {},
                       Children(x, at') = {}, Views(x, at') = {}
                PROVE  FALSE
    BY DEF OwnedWanted
  <2>1. owned[x] # Nowhere BY <1>11
  <2>2. ~Due(x)
    <3>. HIDE DEF Due
    <3>. QED BY <1>11
  <2>3. Children(x, at) # {} \/ Views(x, at) # {}
    BY <1>1, <1>2, <2>1 DEF PlanOK, OwnedWanted, Second
  <2>4. ~IsView(x) BY <1>2, <2>1 DEF PlanOK, OwnedPlaced, Placed, NotPlaced, IsView, Tensor
  <2>5. CASE x = p
    <3>1. left = 0 BY <1>4, <1>7, <2>5
    <3>2. n_views[p] = 0 BY <1>4, <1>7, <2>4, <2>5
    <3>. QED BY <2>2, <2>4, <2>5, <3>1, <3>2
  <2>6. CASE x # p
    <3>1. Children(x, at) = {} /\ Views(x, at) # {} BY <1>3, <2>3, <2>6
    <3>2. IsView(p) /\ Root(p) = x /\ Children(p, at') = {} BY <1>3, <3>1
    <3>3. n_children'[p] = 0 BY <1>5, <1>7, <3>2
    <3>4. n_views[x] = 1
      <4>1. n_views'[x] = n_views[x] - 1 BY <1>4, <3>2, <3>3
      <4>2. n_views'[x] = 0 BY <1>7
      <4>3. n_views[x] \in Int BY <1>6
      <4>. QED BY <4>1, <4>2, <4>3
    <3>5. n_views[p] = 0 BY <1>3, <1>5, <1>8, <3>2, CountedSets
    <3>6. left = 0 /\ n_children[x] = 0 BY <1>4, <1>8, <3>1, <3>3
    <3>. QED BY <2>2, <3>2, <3>4, <3>5, <3>6
  <2>. QED BY <2>5, <2>6
<1>. QED BY <1>16, <1>17, <1>18, <1>19, <1>20, <1>21 DEF PlanOK

LEMMA AddrStep ==
    ASSUME AddrType, DynInv', [Next]_vars
    PROVE  AddrType'
<1>1. owned' \in [Tensors -> Region] BY DEF DynInv, DynTypeOK
<1>2. Nowhere \in Region BY DEF Nowhere, Region
<1>3. ASSUME NEW t, AllocateNode(t) PROVE AddrType'
  <2>1. addr' = addr \/ addr' = [addr EXCEPT ![t] = owned'[t]] BY <1>3 DEF AllocateNode
  <2>2. t \in Tensors => owned'[t] \in Region BY <1>1
  <2>. QED BY <2>1, <2>2 DEF AddrType
<1>4. ASSUME NEW g \in NextGraphs, NEW n \in Scales, AllocGraph(g, n) PROVE AddrType'
  BY <1>2, <1>4 DEF AllocGraph, AddrType
<1>5. CASE AllocateLeaf \/ AllocateParent \/ AllocateThis
  BY <1>3, <1>5 DEF AllocateLeaf, AllocateParent, AllocateThis
<1>6. CASE Count
  <2>1. (\E t : AllocateNode(t)) \/ addr' = addr BY <1>6 DEF Count
  <2>. QED BY <1>3, <2>1 DEF AddrType
<1>7. CASE UpdateParent \/ ReserveBuffer \/ SetLeafs \/ RunNode \/ Done \/ UNCHANGED vars
  BY <1>7 DEF UpdateParent, ReserveBuffer, SetLeafs, RunNode, Done, vars, AddrType
<1>. QED BY <1>4, <1>5, <1>6, <1>7 DEF Next

\* A plan starts with nothing.
LEMMA EmptyPlan ==
    ASSUME InPlan, NEW g \in NextGraphs, NEW n \in Scales, AllocGraph(g, n), NeedsRealloc(g, n)
    PROVE  PlanInv'
<1>1. graph' = g /\ g \in Graphs BY DEF AllocGraph, NextGraphs, InPlan
<1>2. /\ owned' = [t \in Tensors |-> Nowhere] /\ addr' = [t \in Tensors |-> Nowhere]
      /\ at' = [phase |-> "leafs", node |-> 1, src |-> 0]
  BY DEF AllocGraph, Reset, Goto
<1>3. Placed' \subseteq Tensors /\ \A t \in Placed' : t \in Nat /\ t >= 1
  <2>1. WellFormed(g) BY <1>1, GraphAllocatorAssumption
  <2>2. g.tensor \in Seq(TensorRecord) /\ DOMAIN g.tensor \subseteq Tensors
    BY <2>1 DEF WellFormed
  <2>3. DOMAIN g.tensor = 1 .. Len(g.tensor) /\ Len(g.tensor) \in Nat BY <2>2, LenProperties
  <2>4. Placed' \subseteq DOMAIN g.tensor BY <1>1 DEF Placed
  <2>. QED BY <2>2, <2>3, <2>4
<1>4. \A t \in Placed' : ~Reached(t, at)' BY <1>2, <1>3 DEF Reached
<1>5. OwnedPlaced(owned, addr)' BY <1>2 DEF OwnedPlaced
<1>6. PlacedInTurn(at, addr)' BY <1>2, <1>4 DEF PlacedInTurn
<1>7. GoneUnneeded(at, owned)' BY <1>4 DEF GoneUnneeded
<1>8. OwnedWanted(at, owned)' BY <1>2 DEF OwnedWanted
<1>9. Shared(at, addr, scale)' BY <1>4 DEF Shared
<1>10. LargeEnough(at, addr, chunks, scale)' BY <1>4 DEF LargeEnough
<1>. QED BY <1>5, <1>6, <1>7, <1>8, <1>9, <1>10 DEF PlanInv, PlanOK

LEMMA AllocatorSound == Spec => [](DynInv /\ RoomInv)
<1>1. DynInit => DynInv /\ RoomInv BY DynStart, RoomStart
<1>2. DynInv /\ RoomInv /\ [DynNext]_dynVars => DynInv' /\ RoomInv'
  BY DynInductive, RoomInductive
<1>3. DynSpec => [](DynInv /\ RoomInv) BY <1>1, <1>2, PTL DEF DynSpec
<1>. QED BY <1>3, PlansKeepAllocator, PTL DEF KeepsAllocator

LEMMA PlanInvariant ==
    ASSUME InputsAreLeafs
    PROVE  Spec => [](AddrType /\ PlanInv)
<1>1. Init => AddrType /\ PlanInv
  BY DEF Init, Idle, AddrType, PlanInv, Planning, Second, Nowhere, Region
<1>2. InPlan /\ CountType /\ CountInv /\ DynInv /\ RoomInv /\ DynInv'
      /\ AddrType /\ PlanInv /\ [Next]_vars => AddrType' /\ PlanInv'
  <2>. SUFFICES ASSUME InPlan, CountType, CountInv, DynInv, RoomInv, DynInv',
                       AddrType, PlanInv, [Next]_vars
                PROVE  PlanInv'
    BY AddrStep
  <2>0. at.phase # "idle" => graph \in Graphs /\ scale \in Scales BY DEF InPlan
  <2>1. ASSUME NEW g \in NextGraphs, NEW n \in Scales, AllocGraph(g, n) PROVE PlanInv'
    <3>1. CASE NeedsRealloc(g, n) BY <2>1, <3>1, EmptyPlan
    <3>2. CASE ~NeedsRealloc(g, n)
      BY <2>1, <3>2 DEF AllocGraph, Goto, PlanInv, Planning, Second
    <3>. QED BY <3>1, <3>2
  <2>2. CASE AllocateLeaf \/ AllocateThis
    <3>1. at.phase # "idle" /\ UNCHANGED <<graph, scale>>
      BY <2>2 DEF AllocateLeaf, AllocateThis, At
    <3>. QED BY <2>0, <2>2, <3>1, TurnPlan, PlanPrimed
  <2>3. CASE Count
    <3>1. at.phase # "idle" /\ UNCHANGED <<graph, scale>> BY <2>3 DEF Count, At
    <3>. QED BY <2>0, <2>3, <3>1, CountPlan, PlanPrimed
  <2>4. CASE AllocateParent
    <3>1. at.phase # "idle" /\ UNCHANGED <<graph, scale>> BY <2>4 DEF AllocateParent, At
    <3>. QED BY <2>0, <2>4, <3>1, ParentPlan, PlanPrimed
  <2>5. CASE UpdateParent
    <3>1. at.phase # "idle" /\ UNCHANGED <<graph, scale>> BY <2>5 DEF UpdateParent, At
    <3>. QED BY <2>0, <2>5, <3>1, UpdatePlan, PlanPrimed
  <2>6. CASE ReserveBuffer \/ SetLeafs \/ RunNode
    <3>1. at'.phase \in {"set", "run", "idle"}
      BY <2>6 DEF ReserveBuffer, SetLeafs, RunNode, Goto, Idle
    <3>. QED BY <3>1 DEF PlanInv, Planning, Second
  <2>7. CASE Done \/ UNCHANGED vars
    <3>1. UNCHANGED <<at, owned, chunks, addr, graph, scale>>
      BY <2>7 DEF Done, vars, dynVars
    <3>2. CASE at.phase \in Planning
      <4>1. PlanOK(at', owned', addr', chunks') BY <3>1, <3>2 DEF PlanInv
      <4>. QED BY <3>1, <4>1, PlanPrimed
    <3>3. CASE at.phase \notin Planning BY <3>1, <3>3 DEF PlanInv, Planning, Second
    <3>. QED BY <3>2, <3>3
  <2>. QED BY <2>1, <2>2, <2>3, <2>4, <2>5, <2>6, <2>7 DEF Next
<1>. QED BY <1>1, <1>2, InPlanInvariant, CountInvariant, AllocatorSound, PTL DEF Spec

\* NothingLeaks, for any graphs and sizes: when a plan is made, the counters have
\* given back all memory but that of outputs and of what nobody reads.
THEOREM PlanGivesBack ==
    ASSUME InputsAreLeafs
    PROVE  Spec => []NothingLeaks
<1>1. PlanInv => NothingLeaks
  <2>. SUFFICES ASSUME PlanInv, at.phase = "buffer", NEW t \in Tensors, IsOwn(t)
                PROVE  \/ "output" \in Tensor(t).flags
                       \/ Consumers(t) = {}
                       \/ \E v \in Nodes : IsView(v) /\ Root(v) = t /\ Consumers(v) = {}
    BY DEF NothingLeaks, At
  <2>1. \A x : Children(x, at) = {} BY DEF Children, OpenRead
  <2>2. \/ "output" \in Tensor(t).flags \/ Consumers(t) = {}
        \/ Children(t, at) # {} \/ Views(t, at) # {}
    BY DEF PlanInv, PlanOK, OwnedWanted, Planning, Second, IsOwn
  <2>3. CASE Views(t, at) # {} BY <2>1, <2>3 DEF Views, OpenView
  <2>. QED BY <2>1, <2>2, <2>3
<1>. QED BY <1>1, PlanInvariant, PTL
-----------------------------------------------------------------------------
(* The graph is used, with the plan made for it or with the one kept from an *)
(* earlier batch.                                                            *)

BufferInv ==
    /\ \A c \in DOMAIN buffer : buffer[c] \in Nat
    /\ calls = 0 => graph = NoGraph /\ planned.graph = NoGraph

\* Plan pl with addresses ad and buffer bf is good for the graph with a batch of n.
UseOK(n, pl, ad, bf) ==
    /\ pl.graph = graph /\ pl.scale \in Scales
    /\ \A s, u \in Placed : s < u => SharedInTurn(s, u, ad, pl.scale)
    /\ \A t \in Placed : /\ SizeIn(graph, n, t) <= SizeIn(graph, pl.scale, t)
                         /\ SizeIn(graph, pl.scale, t) <= ad[t].size
                         /\ ad[t].chunk \in DOMAIN bf /\ End(ad[t]) <= bf[ad[t].chunk]

Using == {"set", "run", "idle"}

UseInv == at.phase \in Using /\ calls # 0 => UseOK(scale, planned, addr, buffer)

LEMMA UsePrimed ==
    ASSUME graph' = graph, UseOK(scale', planned', addr', buffer')
    PROVE  UseInv'
<1>1. Placed' = Placed BY DEF Placed
<1>2. ASSUME NEW s, NEW u
      PROVE  SharedInTurn(s, u, addr, planned.scale)' =
                SharedInTurn(s, u, addr', planned'.scale)
  BY DEF SharedInTurn, Needed, ReadsRoot, Separate, SamePlace, Apart, End, Src, Tensor,
         Root, RootIn, Nodes, Leafs
<1>3. \A s, u \in Placed' : s < u => SharedInTurn(s, u, addr, planned.scale)'
  BY <1>1, <1>2 DEF UseOK
<1>4. \A t \in Placed' : /\ SizeIn(graph, scale, t)' <= SizeIn(graph, planned.scale, t)'
                         /\ SizeIn(graph, planned.scale, t)' <= addr'[t].size
                         /\ addr'[t].chunk \in DOMAIN buffer'
                         /\ End(addr[t])' <= buffer'[addr'[t].chunk]
  BY <1>1 DEF UseOK, SizeIn, End
<1>5. planned'.graph = graph' /\ planned'.scale \in Scales BY DEF UseOK
<1>. QED BY <1>3, <1>4, <1>5 DEF UseInv, UseOK

LEMMA BufferStep ==
    ASSUME BufferInv, DynInv, InPlan, [Next]_vars
    PROVE  BufferInv'
<1>1. ASSUME NEW g \in NextGraphs, NEW n \in Scales, AllocGraph(g, n) PROVE BufferInv'
  BY <1>1 DEF AllocGraph, BufferInv, InPlan
<1>2. CASE ReserveBuffer
  <2>1. calls' = calls /\ calls # 0 BY <1>2 DEF ReserveBuffer, At, InPlan
  <2>2. \A c \in DOMAIN chunks : chunks[c].max_size \in Nat
    <3>1. \A c \in DOMAIN chunks : chunks[c] \in Chunk
      BY LenProperties, ElementOfSeq DEF DynInv, DynTypeOK
    <3>. QED BY <3>1 DEF Chunk
  <2>3. buffer' = buffer \/ buffer' = [c \in DOMAIN chunks |-> chunks[c].max_size]
    BY <1>2 DEF ReserveBuffer
  <2>. QED BY <2>1, <2>2, <2>3 DEF BufferInv
<1>3. CASE AllocateLeaf \/ Count \/ AllocateParent \/ AllocateThis \/ UpdateParent
           \/ SetLeafs \/ RunNode \/ Done \/ UNCHANGED vars
  <2>1. UNCHANGED <<graph, kept>>
    BY <1>3 DEF AllocateLeaf, Count, AllocateParent, AllocateThis, UpdateParent, SetLeafs,
                RunNode, Done, vars
  <2>. QED BY <2>1 DEF BufferInv, kept
<1>. QED BY <1>1, <1>2, <1>3 DEF Next

\* A new plan fits its graph, and the buffer is made to fit the plan.
LEMMA ReservedUse ==
    ASSUME InPlan, DynInv, BufferInv, PlanInv, AddrType, ReserveBuffer
    PROVE  UseInv'
<1>1. /\ at.phase = "buffer" /\ UNCHANGED <<graph, scale, addr>>
      /\ planned' = [graph |-> graph, scale |-> scale]
  BY DEF ReserveBuffer, At
<1>2. PlanOK(at, owned, addr, chunks) BY <1>1 DEF PlanInv, Planning, Second
<1>3. graph \in Graphs /\ scale \in Scales BY <1>1 DEF InPlan
<1>4. \A t : Reached(t, at) BY <1>1 DEF Reached
<1>5. \A s, u \in Placed : s < u => SharedInTurn(s, u, addr', planned'.scale)
  BY <1>1, <1>2, <1>4 DEF PlanOK, Shared
<1>6. ASSUME NEW t \in Placed
      PROVE  /\ SizeIn(graph, scale', t) <= SizeIn(graph, planned'.scale, t)
             /\ SizeIn(graph, planned'.scale, t) <= addr'[t].size
             /\ addr'[t].chunk \in DOMAIN buffer' /\ End(addr'[t]) <= buffer'[addr'[t].chunk]
  <2>1. t \in DOMAIN graph.tensor /\ t \in Tensors BY <1>3, TensorFacts DEF Placed
  <2>2. Size(t) \in Nat BY <1>3, <2>1, GraphFacts, DynAllocatorAssumption
  <2>3. SizeIn(graph, scale, t) <= addr[t].size /\ Room(addr[t], chunks)
    BY <1>2, <1>4 DEF PlanOK, LargeEnough
  <2>. DEFINE c == addr[t].chunk
  <2>4. c \in DOMAIN chunks /\ End(addr[t]) <= chunks[c].max_size BY <2>3 DEF Room
  <2>5. chunks[c].max_size \in Nat
    <3>1. chunks[c] \in Chunk BY <2>4, LenProperties, ElementOfSeq DEF DynInv, DynTypeOK
    <3>. QED BY <3>1 DEF Chunk
  <2>6. End(addr[t]) \in Nat
    <3>1. addr[t] \in Region BY <2>1 DEF AddrType
    <3>. QED BY <3>1 DEF Region, End
  <2>7. \/ buffer' = [d \in DOMAIN chunks |-> chunks[d].max_size]
        \/ /\ buffer' = buffer
           /\ \A d \in DOMAIN chunks : d \in DOMAIN buffer /\ ~(chunks[d].max_size > buffer[d])
    BY DEF ReserveBuffer
  <2>8. c \in DOMAIN buffer' /\ End(addr[t]) <= buffer'[c]
    <3>1. CASE buffer' = [d \in DOMAIN chunks |-> chunks[d].max_size] BY <2>4, <3>1
    <3>2. CASE /\ buffer' = buffer
               /\ \A d \in DOMAIN chunks : d \in DOMAIN buffer /\ ~(chunks[d].max_size > buffer[d])
      <4>1. c \in DOMAIN buffer /\ ~(chunks[c].max_size > buffer[c]) /\ buffer[c] \in Nat
        BY <2>4, <3>2 DEF BufferInv
      <4>. QED BY <2>4, <2>5, <2>6, <3>2, <4>1
    <3>. QED BY <2>7, <3>1, <3>2
  <2>9. SizeIn(graph, scale', t) <= SizeIn(graph, planned'.scale, t) BY <1>1, <2>2 DEF Size
  <2>. QED BY <1>1, <2>3, <2>8, <2>9
<1>7. UseOK(scale', planned', addr', buffer') BY <1>1, <1>3, <1>5, <1>6 DEF UseOK
<1>. QED BY <1>1, <1>7, UsePrimed

\* A plan is kept only while it fits.
LEMMA KeptUse ==
    ASSUME ~Retopology, LeafsAreRead, InPlan, BufferInv, UseInv, at.phase = "idle",
           NEW g \in NextGraphs, NEW n \in Scales, AllocGraph(g, n), ~NeedsRealloc(g, n)
    PROVE  UseInv'
<1>1. calls # 0
  <2>. SUFFICES ASSUME calls = 0 PROVE FALSE OBVIOUS
  <2>1. planned.graph = NoGraph BY DEF BufferInv
  <2>2. Len(g.tensor) = Len(NoGraph.tensor) BY <2>1 DEF NeedsRealloc
  <2>3. g \in Graphs BY DEF NextGraphs
  <2>4. g.n_leafs \in 1 .. Len(g.tensor) - 1 BY <2>3, GraphAllocatorAssumption DEF WellFormed
  <2>. QED BY <2>2, <2>4 DEF NoGraph
<1>2. UseOK(scale, planned, addr, buffer) BY <1>1 DEF UseInv, Using
<1>3. /\ g = graph /\ graph \in Graphs /\ planned.graph = graph
      /\ graph' = graph /\ scale' = n /\ UNCHANGED <<planned, addr, buffer>>
  BY <1>1, <1>2 DEF NextGraphs, InPlan, UseOK, AllocGraph
<1>4. ASSUME NEW t \in Nodes \cup Leafs, t \in Placed
      PROVE  SizeIn(graph, n, t) <= SizeIn(graph, planned.scale, t)
  <2>1. ~NotPlaced(graph, t) BY <1>4 DEF Placed
  <2>2. CASE t \in Nodes
    BY <1>3, <2>1, <2>2 DEF NeedsRealloc, TensorFits, Nodes
  <2>3. CASE t \in Leafs
    <3>0. ~graph.tensor[t].data BY <2>1 DEF NotPlaced
    <3>1. PICK u \in Nodes : \E j \in DOMAIN graph.tensor[u].src : graph.tensor[u].src[j] = t
      BY <1>3, <2>3, <3>0 DEF LeafsAreRead, Leafs, Nodes
    <3>2. PICK j \in DOMAIN graph.tensor[u].src : graph.tensor[u].src[j] = t BY <3>1
    <3>3. OldSrc(u, j) = t BY <1>3, <3>2 DEF OldSrc
    <3>4. TensorFits(graph, n, t, t) BY <1>3, <3>2, <3>3 DEF NeedsRealloc, Nodes
    <3>. QED BY <1>3, <2>1, <3>4 DEF TensorFits
  <2>. QED BY <2>2, <2>3
<1>5. Placed \subseteq Nodes \cup Leafs BY <1>3, TensorFacts DEF Placed
<1>6. UseOK(scale', planned', addr', buffer') BY <1>2, <1>3, <1>4, <1>5 DEF UseOK
<1>. QED BY <1>3, <1>6, UsePrimed

LEMMA UseInvariant ==
    ASSUME ~Retopology, InputsAreLeafs, LeafsAreRead
    PROVE  Spec => [](BufferInv /\ UseInv)
<1>1. Init => BufferInv /\ UseInv BY DEF Init, BufferInv, UseInv
<1>2. InPlan /\ DynInv /\ AddrType /\ PlanInv /\ BufferInv /\ UseInv /\ [Next]_vars
      => BufferInv' /\ UseInv'
  <2>. SUFFICES ASSUME InPlan, DynInv, AddrType, PlanInv, BufferInv, UseInv, [Next]_vars
                PROVE  UseInv'
    BY BufferStep
  <2>1. ASSUME at.phase = "idle", NEW g \in NextGraphs, NEW n \in Scales, AllocGraph(g, n)
        PROVE  UseInv'
    <3>1. CASE NeedsRealloc(g, n) BY <2>1, <3>1 DEF AllocGraph, Goto, UseInv, Using
    <3>2. CASE ~NeedsRealloc(g, n) BY <2>1, <3>2, KeptUse
    <3>. QED BY <3>1, <3>2
  <2>2. CASE AllocateLeaf \/ Count \/ AllocateParent \/ AllocateThis \/ UpdateParent
    <3>1. at'.phase \notin Using
      BY <2>2 DEF AllocateLeaf, Count, AllocateParent, AllocateThis, UpdateParent, Advance,
                  Goto, Using
    <3>. QED BY <3>1 DEF UseInv
  <2>3. CASE ReserveBuffer BY <2>3, ReservedUse
  <2>4. CASE SetLeafs \/ RunNode
    <3>1. /\ at.phase \in Using /\ calls # 0
          /\ UNCHANGED <<graph, scale, planned, addr, buffer>>
      BY <2>4 DEF SetLeafs, RunNode, At, Using, kept, InPlan
    <3>2. UseOK(scale', planned', addr', buffer') BY <3>1 DEF UseInv
    <3>. QED BY <3>1, <3>2, UsePrimed
  <2>5. CASE Done \/ UNCHANGED vars
    <3>1. UNCHANGED <<at, calls, graph, scale, planned, addr, buffer>>
      BY <2>5 DEF Done, vars, kept
    <3>2. CASE at.phase \in Using /\ calls # 0
      <4>1. UseOK(scale', planned', addr', buffer') BY <3>1, <3>2 DEF UseInv
      <4>. QED BY <3>1, <4>1, UsePrimed
    <3>3. CASE ~(at.phase \in Using /\ calls # 0) BY <3>1, <3>3 DEF UseInv, Using
    <3>. QED BY <3>2, <3>3
  <2>6. (\E g \in NextGraphs, n \in Scales : AllocGraph(g, n) /\ at.phase = "idle")
        \/ AllocateLeaf \/ Count \/ AllocateParent \/ AllocateThis \/ UpdateParent
        \/ ReserveBuffer \/ SetLeafs \/ RunNode \/ Done \/ UNCHANGED vars
    BY DEF Next, At
  <2>. QED BY <2>1, <2>2, <2>3, <2>4, <2>5, <2>6
<1>. QED BY <1>1, <1>2, InPlanInvariant, AllocatorSound, PlanInvariant, PTL DEF Spec

\* While the graph runs, memory holds what is still needed.
HoldInv ==
    /\ at.phase = "run" =>
          /\ at.node \in Nodes
          /\ \A s \in Placed : s < at.node /\ Needed(s, at.node - 1) => s \in holds
    /\ at.phase = "idle" => \A s \in Placed : "output" \in Tensor(s).flags => s \in holds

\* A tensor takes no more of its place than the plan has for it.
LEMMA WithinPlace ==
    ASSUME graph \in Graphs, scale \in Scales, UseOK(scale, planned, addr, buffer), AddrType,
           NEW t \in Placed
    PROVE  /\ addr[t] \in Region /\ t \in Nat /\ t \in DOMAIN graph.tensor
           /\ addr[t].offset \in Nat /\ End(addr[t]) \in Nat /\ End(Place(t)) \in Nat
           /\ Place(t) = [chunk |-> addr[t].chunk, offset |-> addr[t].offset, size |-> Size(t)]
           /\ End(Place(t)) <= End(addr[t])
<1>1. t \in DOMAIN graph.tensor /\ t \in Tensors /\ t \in Nat BY TensorFacts DEF Placed
<1>2. addr[t] \in Region BY <1>1 DEF AddrType
<1>3. Size(t) \in Nat BY <1>1, GraphFacts, DynAllocatorAssumption
<1>4. SizeIn(graph, planned.scale, t) \in Nat
  BY DynAllocatorAssumption, GraphAllocatorAssumption DEF SizeIn, UseOK
<1>5. Size(t) <= addr[t].size
  <2>1. /\ Size(t) <= SizeIn(graph, planned.scale, t)
        /\ SizeIn(graph, planned.scale, t) <= addr[t].size
    BY DEF UseOK, Size
  <2>2. addr[t].size \in Nat BY <1>2 DEF Region
  <2>. QED BY <1>3, <1>4, <2>1, <2>2
<1>6. Place(t) = [chunk |-> addr[t].chunk, offset |-> addr[t].offset, size |-> Size(t)]
  BY <1>2 DEF Place, Region
<1>. QED BY <1>1, <1>2, <1>3, <1>5, <1>6 DEF End, Region

LEMMA SeparatePlaces ==
    ASSUME graph \in Graphs, scale \in Scales, UseOK(scale, planned, addr, buffer), AddrType,
           NEW s \in Placed, NEW u \in Placed, Separate(addr[s], addr[u])
    PROVE  ~Overlap(s, u) /\ ~Overlap(u, s)
<1>1. /\ addr[s].offset \in Nat /\ End(addr[s]) \in Nat /\ End(Place(s)) \in Nat
      /\ Place(s).offset = addr[s].offset /\ End(Place(s)) <= End(addr[s])
  BY WithinPlace
<1>2. /\ addr[u].offset \in Nat /\ End(addr[u]) \in Nat /\ End(Place(u)) \in Nat
      /\ Place(u).offset = addr[u].offset /\ End(Place(u)) <= End(addr[u])
  BY WithinPlace
<1>. QED BY <1>1, <1>2 DEF Overlap, Separate, Apart

LEMMA HoldStep ==
    ASSUME InPlan, UseInv, AddrType, HoldInv, [Next]_vars
    PROVE  HoldInv'
<1>0. at.phase # "idle" => graph \in Graphs /\ scale \in Scales /\ calls # 0 BY DEF InPlan
<1>1. ASSUME NEW g \in NextGraphs, NEW n \in Scales, AllocGraph(g, n) PROVE HoldInv'
  BY <1>1 DEF AllocGraph, Goto, HoldInv
<1>2. CASE AllocateLeaf \/ Count \/ AllocateParent \/ AllocateThis \/ UpdateParent
           \/ ReserveBuffer
  <2>1. at'.phase \notin {"run", "idle"}
    BY <1>2 DEF AllocateLeaf, Count, AllocateParent, AllocateThis, UpdateParent, Advance,
                ReserveBuffer, Goto
  <2>. QED BY <2>1 DEF HoldInv
\* Placed, Needed and the flags are those of the graph.
<1>3. ASSUME graph' = graph
      PROVE  /\ Placed' = Placed /\ Nodes' = Nodes
             /\ \A s : /\ Tensor(s)' = Tensor(s)
                       /\ Needed(s, at.node - 1)' <=> Needed(s, at'.node - 1)
  BY <1>3 DEF Placed, Needed, Nodes, ReadsRoot, Root, RootIn, Src, Tensor
<1>4. CASE SetLeafs
  <2>1. /\ at.phase = "set" /\ graph' = graph
        /\ at' = [phase |-> "run", node |-> graph.n_leafs + 1, src |-> 0]
        /\ holds' = {t \in Leafs \cap Placed :
                        \A u \in Leafs \cap Placed : u # t => ~Overlap(t, u)}
    BY <1>4 DEF SetLeafs, At, Goto
  <2>2. graph \in Graphs /\ scale \in Scales /\ UseOK(scale, planned, addr, buffer)
    BY <1>0, <2>1 DEF UseInv, Using
  <2>3. graph.n_leafs + 1 \in Nodes BY <2>2, TensorFacts
  <2>4. ASSUME NEW s \in Placed, s < graph.n_leafs + 1 PROVE s \in holds'
    <3>1. s \in Leafs /\ s \in Nat
      <4>1. s \in 1 .. Len(graph.tensor) BY <2>2, TensorFacts DEF Placed
      <4>. QED BY <2>2, <2>4, <4>1, TensorFacts
    <3>2. ASSUME NEW u \in Leafs \cap Placed, u # s PROVE ~Overlap(s, u)
      <4>1. u \in Nat BY <2>2, TensorFacts
      <4>2. s < u => Separate(addr[s], addr[u])
        BY <2>2, <3>2 DEF UseOK, SharedInTurn
      <4>3. u < s => Separate(addr[u], addr[s])
        BY <2>2, <3>1, <3>2 DEF UseOK, SharedInTurn
      <4>4. s < u \/ u < s BY <3>1, <3>2, <4>1
      <4>. QED BY <2>2, <4>2, <4>3, <4>4, SeparatePlaces
    <3>. QED BY <2>1, <3>1, <3>2
  <2>. QED BY <1>3, <2>1, <2>3, <2>4 DEF HoldInv
<1>5. CASE RunNode
  <2>. DEFINE u == at.node
  <2>1. /\ at.phase = "run" /\ graph' = graph
        /\ holds' = IF u \in Placed THEN {t \in holds : ~Overlap(t, u)} \cup {u} ELSE holds
        /\ \/ u < Len(graph.tensor) /\ at' = [phase |-> "run", node |-> u + 1, src |-> 0]
           \/ ~(u < Len(graph.tensor)) /\ at' = Idle
    BY <1>5 DEF RunNode, At, Goto
  <2>2. graph \in Graphs /\ scale \in Scales /\ UseOK(scale, planned, addr, buffer)
    BY <1>0, <2>1 DEF UseInv, Using
  <2>3. /\ u \in Nodes /\ u \in Nat /\ Len(graph.tensor) \in Nat /\ graph.n_leafs \in Nat
        /\ Nodes = graph.n_leafs + 1 .. Len(graph.tensor)
        /\ \A w \in Nodes : w \in Nat
        /\ \A s \in Placed : s \in Nat /\ s <= Len(graph.tensor)
    <3>1. u \in Nodes BY <2>1 DEF HoldInv
    <3>2. \A s \in Placed : s \in 1 .. Len(graph.tensor) BY <2>2, TensorFacts DEF Placed
    <3>. QED BY <2>2, <3>1, <3>2, TensorFacts
  <2>4. ASSUME NEW s \in Placed, s <= u, Needed(s, u) PROVE s \in holds'
    <3>1. CASE s = u BY <2>1, <2>4, <3>1
    <3>2. CASE s < u
      <4>1. Needed(s, u - 1) BY <2>3, <2>4 DEF Needed
      <4>2. s \in holds BY <2>1, <2>4, <3>2, <4>1 DEF HoldInv
      <4>3. CASE u \in Placed
        <5>1. Separate(addr[s], addr[u]) BY <2>2, <2>4, <3>2, <4>3 DEF UseOK, SharedInTurn
        <5>2. ~Overlap(s, u) BY <2>2, <4>3, <5>1, SeparatePlaces
        <5>. QED BY <2>1, <4>2, <4>3, <5>2
      <4>. QED BY <2>1, <4>2, <4>3
    <3>. QED BY <2>3, <2>4, <3>1, <3>2
  <2>5. CASE u < Len(graph.tensor) /\ at' = [phase |-> "run", node |-> u + 1, src |-> 0]
    <3>1. u + 1 \in Nodes BY <2>3, <2>5
    <3>2. at'.node = u + 1 /\ at'.node - 1 = u BY <2>3, <2>5
    <3>3. \A s \in Placed : s < at'.node /\ Needed(s, at'.node - 1) => s \in holds'
      BY <2>3, <2>4, <3>2
    <3>. QED BY <1>3, <2>1, <2>5, <3>1, <3>2, <3>3 DEF HoldInv
  <2>6. CASE ~(u < Len(graph.tensor)) /\ at' = Idle
    <3>1. \A s \in Placed : s <= u BY <2>3, <2>6
    <3>2. \A s \in Placed : "output" \in Tensor(s).flags => s \in holds'
      BY <2>4, <3>1 DEF Needed
    <3>. QED BY <1>3, <2>1, <2>6, <3>2 DEF HoldInv, Idle
  <2>. QED BY <2>1, <2>5, <2>6
<1>6. CASE Done \/ UNCHANGED vars
  <2>1. UNCHANGED <<at, graph, holds>> BY <1>6 DEF Done, vars
  <2>. QED BY <1>3, <2>1 DEF HoldInv
<1>. QED BY <1>1, <1>2, <1>4, <1>5, <1>6 DEF Next

LEMMA HoldInvariant ==
    ASSUME ~Retopology, InputsAreLeafs, LeafsAreRead
    PROVE  Spec => []HoldInv
<1>1. Init => HoldInv BY DEF Init, Idle, HoldInv, NoGraph, Placed
<1>. QED BY <1>1, HoldStep, InPlanInvariant, PlanInvariant, UseInvariant, PTL DEF Spec

\* ContentsIntact, for any graphs and sizes: as long as the graph keeps its shape,
\* a node finds all that it reads, and outputs are there in the end.
THEOREM NothingOverwritten ==
    ASSUME ~Retopology, InputsAreLeafs, LeafsAreRead
    PROVE  Spec => []ContentsIntact
<1>1. InPlan /\ HoldInv => ContentsIntact
  <2>. SUFFICES ASSUME InPlan, HoldInv PROVE ContentsIntact OBVIOUS
  <2>1. ASSUME at.phase = "run", NEW j \in DOMAIN Src(at.node),
               Root(Src(at.node)[j]) \in Placed
        PROVE  Root(Src(at.node)[j]) \in holds
    <3>1. graph \in Graphs /\ at.node \in Nodes BY <2>1 DEF InPlan, HoldInv
    <3>2. at.node \in Nat /\ Src(at.node)[j] \in 1 .. at.node - 1 BY <2>1, <3>1, TensorFacts
    <3>3. Root(Src(at.node)[j]) < at.node
      <4>1. Src(at.node)[j] \in DOMAIN graph.tensor BY <3>1, <3>2, TensorFacts
      <4>. QED BY <3>1, <3>2, <4>1, TensorFacts
    <3>4. Needed(Root(Src(at.node)[j]), at.node - 1)
      BY <2>1, <3>1, <3>2 DEF Needed, ReadsRoot
    <3>. QED BY <2>1, <3>3, <3>4 DEF HoldInv
  <2>. QED BY <2>1 DEF ContentsIntact, At, HoldInv
<1>. QED BY <1>1, InPlanInvariant, HoldInvariant, PTL

\* WritesInPlace, likewise: a node overwrites what it reads only when it is an
\* in-place operation on a source laid out like itself.
THEOREM OnlyInPlace ==
    ASSUME ~Retopology, InputsAreLeafs, LeafsAreRead
    PROVE  Spec => []WritesInPlace
<1>1. InPlan /\ AddrType /\ UseInv /\ HoldInv => WritesInPlace
  <2>. SUFFICES ASSUME InPlan, AddrType, UseInv, HoldInv, at.phase = "run", at.node \in Placed,
                       NEW j \in DOMAIN Src(at.node), NEW s, s = Root(Src(at.node)[j]),
                       s \in Placed, Overlap(s, at.node)
                PROVE  Tensor(at.node).op = "inplace" /\ Place(s) = Place(at.node)
    BY DEF WritesInPlace, At
  <2>1. /\ graph \in Graphs /\ scale \in Scales /\ UseOK(scale, planned, addr, buffer)
        /\ at.node \in Nodes
    BY DEF InPlan, UseInv, Using, HoldInv
  <2>2. s < at.node
    <3>1. at.node \in Nat /\ Src(at.node)[j] \in 1 .. at.node - 1 BY <2>1, TensorFacts
    <3>2. Src(at.node)[j] \in DOMAIN graph.tensor BY <2>1, TensorFacts
    <3>. QED BY <2>1, <3>1, <3>2, TensorFacts
  <2>3. ReadsRoot(at.node, s) BY DEF ReadsRoot
  <2>4. ~Separate(addr[s], addr[at.node]) BY <2>1, SeparatePlaces
  <2>5. /\ Tensor(at.node).op = "inplace" /\ SamePlace(addr[s], addr[at.node])
        /\ SizeIn(graph, planned.scale, s) = SizeIn(graph, planned.scale, at.node)
    BY <2>1, <2>2, <2>3, <2>4 DEF UseOK, SharedInTurn
  <2>6. Size(s) = Size(at.node)
    <3>1. /\ Size(s) <= SizeIn(graph, planned.scale, s)
          /\ Size(at.node) <= SizeIn(graph, planned.scale, at.node)
      BY <2>1 DEF UseOK, Size
    <3>2. scale \in Nat \ {0} /\ planned.scale \in Nat \ {0}
      BY <2>1, GraphAllocatorAssumption, DynAllocatorAssumption DEF UseOK
    <3>. QED BY <2>5, <3>1, <3>2 DEF Size, SizeIn
  <2>7. /\ Place(s) = [chunk |-> addr[s].chunk, offset |-> addr[s].offset, size |-> Size(s)]
        /\ Place(at.node) = [chunk |-> addr[at.node].chunk, offset |-> addr[at.node].offset,
                             size |-> Size(at.node)]
    BY <2>1, WithinPlace
  <2>. QED BY <2>5, <2>6, <2>7 DEF SamePlace
<1>. QED BY <1>1, InPlanInvariant, PlanInvariant, UseInvariant, HoldInvariant, PTL

\* InsideBuffer, likewise: a buffer that is kept has room for every tensor of the
\* graph that runs.
THEOREM FitsBuffer ==
    ASSUME ~Retopology, InputsAreLeafs, LeafsAreRead
    PROVE  Spec => []InsideBuffer
<1>1. InPlan /\ AddrType /\ BufferInv /\ UseInv => InsideBuffer
  <2>. SUFFICES ASSUME InPlan, AddrType, BufferInv, UseInv, at.phase = "run", NEW t \in Placed
                PROVE  addr[t].chunk \in DOMAIN buffer
                       /\ End(Place(t)) <= buffer[addr[t].chunk]
    BY DEF InsideBuffer, At
  <2>1. graph \in Graphs /\ scale \in Scales /\ UseOK(scale, planned, addr, buffer)
    BY DEF InPlan, UseInv, Using
  <2>2. addr[t].chunk \in DOMAIN buffer /\ End(addr[t]) <= buffer[addr[t].chunk]
    BY <2>1 DEF UseOK
  <2>3. End(Place(t)) <= End(addr[t]) /\ End(Place(t)) \in Nat /\ End(addr[t]) \in Nat
    BY <2>1, WithinPlace
  <2>4. buffer[addr[t].chunk] \in Nat BY <2>2 DEF BufferInv
  <2>. QED BY <2>2, <2>3, <2>4
<1>. QED BY <1>1, InPlanInvariant, PlanInvariant, UseInvariant, PTL
=============================================================================
