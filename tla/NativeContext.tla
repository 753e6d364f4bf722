--------------------------- MODULE NativeContext ---------------------------
(***************************************************************************)
(* The contract of whisper.cpp's contexts, as their user must keep it: a   *)
(* context is created once and freed at most once, at most one thread is   *)
(* inside it at a time, nobody is inside when it is freed, and nobody      *)
(* enters it afterwards.                                                   *)
(***************************************************************************)
CONSTANTS Contexts, Threads, Nobody   \* Nobody is not a thread

VARIABLES memory, inside

nvars == <<memory, inside>>

Init == /\ memory = [x \in Contexts |-> "absent"]
        /\ inside = [x \in Contexts |-> Nobody]

Create(x) == /\ memory[x] = "absent"
             /\ memory' = [memory EXCEPT ![x] = "live"]
             /\ UNCHANGED inside

Enter(x, t) == /\ memory[x] = "live" /\ inside[x] = Nobody
               /\ inside' = [inside EXCEPT ![x] = t]
               /\ UNCHANGED memory

Leave(x) == /\ inside[x] # Nobody
            /\ inside' = [inside EXCEPT ![x] = Nobody]
            /\ UNCHANGED memory

Free(x) == /\ memory[x] = "live" /\ inside[x] = Nobody
           /\ memory' = [memory EXCEPT ![x] = "freed"]
           /\ UNCHANGED inside

Next == \E x \in Contexts : \/ Create(x) \/ Leave(x) \/ Free(x)
                            \/ \E t \in Threads : Enter(x, t)

Spec == Init /\ [][Next]_nvars
=============================================================================
