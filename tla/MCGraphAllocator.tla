-------------------------- MODULE MCGraphAllocator --------------------------
(***************************************************************************)
(* GraphAllocator on all small graphs of a few shapes.                     *)
(***************************************************************************)
EXTENDS GraphAllocator

\* The small graphs are such as the theorems are about.
ASSUME SmallGraphsAssumption == InputsAreLeafs /\ LeafsAreRead

NewTensor(op, src, view_src, flags, data, scaled) ==
    [op |-> op, src |-> src, view_src |-> view_src, flags |-> flags,
     data |-> data, scaled |-> scaled]

\* An input that grows with the batch, one that does not, and a weight.
Input(scaled) == NewTensor("none", <<>>, 0, {"input"}, FALSE, scaled)
Weight == NewTensor("none", <<>>, 0, {}, TRUE, FALSE)

\* What may be a node after m tensors, and what may be one after the tensors s.
Sources(m) == {<<i>> : i \in 1 .. m} \cup {<<i, k>> : i, k \in 1 .. m}

NodesAfter(m) ==
    [op : {"inplace", "other", "view"}, src : Sources(m), view_src : 0 .. m,
     flags : {{}}, data : {FALSE}, scaled : BOOLEAN]

Follows(s, t) ==
    LET first == s[t.src[1]] IN
    CASE t.op = "inplace" -> /\ t.view_src = 0 /\ t.scaled = first.scaled
                             /\ \A j \in DOMAIN t.src : s[t.src[j]].scaled => t.scaled
      [] t.op = "other"   -> t.view_src = 0 /\ (Len(t.src) = 2 => t.src[1] <= t.src[2])
      [] t.op = "view"    -> /\ Len(t.src) = 1 /\ t.scaled = first.scaled
                             /\ t.view_src = IF first.op = "view" THEN first.view_src
                                             ELSE t.src[1]

\* The sequences of S, all with m tensors, and one node more.
OneMore(S, m) ==
    {Append(x[1], x[2]) : x \in {y \in S \X NodesAfter(m) : Follows(y[1], y[2])}}

TwoMore(S, m) == OneMore(OneMore(S, m), m + 1)

\* Graphs are built from their results back: what they contain is read later,
\* is an output or comes last.
Used(s, t) ==
    \/ t = Len(s) \/ "output" \in s[t].flags \/ s[t].data
    \/ \E u \in DOMAIN s : \E j \in DOMAIN s[u].src : s[u].src[j] = t

\* At most one node, and no view, is flagged as an output.
Flag(s, t) == IF t = 0 THEN s ELSE [s EXCEPT ![t].flags = {"output"}]

GraphsFrom(n_leafs, m, S) ==
    {[n_leafs |-> n_leafs, tensor |-> Flag(x[1], x[2])] :
        x \in {y \in S \X ({0} \cup n_leafs + 1 .. m) :
                  /\ y[2] # 0 => y[1][y[2]].op # "view"
                  /\ \A t \in 1 .. m : Used(Flag(y[1], y[2]), t)}}

SmallGraphs ==
    GraphsFrom(1, 4, OneMore(TwoMore({<<Input(TRUE)>>}, 1), 3))
        \cup GraphsFrom(2, 4, TwoMore({<<Input(TRUE), Input(FALSE)>>,
                                       <<Input(FALSE), Weight>>}, 2))
=============================================================================
