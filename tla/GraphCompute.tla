---------------------------- MODULE GraphCompute ----------------------------
(***************************************************************************)
(* What ggml_graph_compute promises its caller, with no thread in sight:   *)
(* the nodes of the graph are computed one by one, and the call returns    *)
(* when all of them are, or earlier with the status "aborted".             *)
(***************************************************************************)
EXTENDS Naturals

CONSTANT
    Lengths             \* how many nodes with something to compute a graph may have

VARIABLES
    running,            \* a call of ggml_graph_compute is under way
    left,               \* nodes of its graph not yet computed
    status              \* the status of that call, or of the last one

gcVars == <<running, left, status>>

Init == ~running /\ left = 0 /\ status = "success"

Start ==
    /\ ~running
    /\ running' = TRUE
    /\ left' \in Lengths
    /\ status' = "success"

ComputeNode ==
    /\ running
    /\ left > 0
    /\ left' = left - 1
    /\ UNCHANGED <<running, status>>

Abort ==
    /\ running
    /\ status' = "aborted"
    /\ UNCHANGED <<running, left>>

Return ==
    /\ running
    /\ left = 0 \/ status = "aborted"
    /\ running' = FALSE
    /\ left' = 0
    /\ UNCHANGED status

Next == Start \/ ComputeNode \/ Abort \/ Return

Spec ==
    /\ Init
    /\ [][Next]_gcVars
    /\ WF_gcVars(ComputeNode)
    /\ WF_gcVars(Return)
=============================================================================
