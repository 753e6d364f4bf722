---------------------------- MODULE MCThreadpool ----------------------------
(***************************************************************************)
(* Threadpool on a few small graphs, and the mapping under which it        *)
(* implements GraphCompute.                                                *)
(***************************************************************************)
EXTENDS Threadpool

NodeOf(op) == [op |-> op, chunks |-> 0]
Product(chunks) == [op |-> "mul_mat", chunks |-> chunks]

\* A fused pair and an empty node, and products cut coarsely and finely.
SmallGraphs ==
    {<<NodeOf("fused"), NodeOf("plain"), NodeOf("empty"), NodeOf("plain")>>,
     <<Product(1)>>,
     <<Product(4 * MaxThreads)>>}

Running == pc[Main] \notin {"idle", "join", "freed"}

G == INSTANCE GraphCompute WITH
        Lengths <- 0 .. 4,
        running <- Running,
        left    <- IF Running
                   THEN Cardinality({n \in ComputedNodes : done = EmptyBag \/ ~Complete(n)})
                   ELSE 0,
        status  <- ec

\* Whatever the threads do, the caller sees one node computed after the other
\* and an answer in the end.
ComputesGraphs == G!Spec
=============================================================================
