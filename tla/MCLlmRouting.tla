---------------------------- MODULE MCLlmRouting ----------------------------
(***************************************************************************)
(* LlmRouting with a server that sends a model, or an error page for the   *)
(* LLM, and the symmetry of its calls, sound as no property is a temporal  *)
(* one.  The packaged model takes two writes; sizes are the least that     *)
(* keep the order of the code's.                                           *)
(***************************************************************************)
EXTENDS LlmRouting, TLC

MinSizes == [m \in Models |-> IF m = "whisper" THEN 3 ELSE 1]
ServerBodies == [m \in Models |-> IF m = "whisper" THEN {4} ELSE {0, 3}]

Symmetry == Permutations(Calls) \cup Permutations(Inits)
=============================================================================
