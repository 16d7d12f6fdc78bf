-------------------------- MODULE MC_LlmGeneration --------------------------
(* LlmGeneration for TLC: two terminals, short sequences. *)
EXTENDS LlmGeneration, TLC

CONSTANTS t1, t2, m1, m2

Symmetry == Permutations(Models)
=============================================================================
