-------------------------- MODULE MCWhisperEngine --------------------------
(***************************************************************************)
(* WhisperEngine with the symmetry of its calls and of its jobs, sound for *)
(* the runs that check invariants only.                                    *)
(***************************************************************************)
EXTENDS WhisperEngine, TLC

Symmetry == Permutations(Calls) \cup Permutations(Jobs)
=============================================================================
