----------------------------- MODULE MC_LlmPool -----------------------------
(* LlmPool for TLC: the masks a run may ask for on a small machine. *)
EXTENDS LlmPool

CONSTANTS c1, c2

AllMasks == (SUBSET Cpus) \ {{}}
=============================================================================
