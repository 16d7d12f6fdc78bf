---------------------------- MODULE ModelMemory ----------------------------
(***************************************************************************)
(* What the LLM runtime promises about the RAM that holds the weights: it  *)
(* is released only while no compute thread reads it, and a thread starts  *)
(* reading only while it exists.  This is the sentence above               *)
(* g_model_lock in aipetllm_modelcheck.c ("never free weights that workers *)
(* are reading") as a state machine; LlmPool implements it.                *)
(***************************************************************************)
CONSTANT Readers          \* the compute threads

VARIABLES mem,            \* "none", "private" to one run, or "cached"
          readers         \* the compute threads reading it now

memVars == <<mem, readers>>

MemInit == mem = "none" /\ readers = {}

(* A run brings the model into a buffer of its own. *)
Load == mem = "none" /\ readers = {} /\ mem' = "private" /\ UNCHANGED readers

(* A run that succeeds leaves its buffer to the next runs. *)
Retain == mem = "private" /\ mem' = "cached" /\ UNCHANGED readers

(* A failed run drops its own buffer, an unload drops the cached one. *)
Discard == mem # "none" /\ readers = {} /\ mem' = "none" /\ UNCHANGED readers

StartRead(r) == mem # "none" /\ readers' = readers \cup {r} /\ UNCHANGED mem

EndRead(r) == readers' = readers \ {r} /\ UNCHANGED mem

MemNext == Load \/ Retain \/ Discard \/ \E r \in Readers : StartRead(r) \/ EndRead(r)

MemSpec == MemInit /\ [][MemNext]_memVars
=============================================================================
