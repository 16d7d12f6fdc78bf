------------------------------ MODULE PageScan ------------------------------
(***************************************************************************)
(* The search of a733_rt_alloc (chips/a733/a733_npu_runtime.c) for a run   *)
(* of n free pages: it extends a run page by page, starts a new one behind *)
(* a page in use, and ends with the run or at the end of the pool.  It     *)
(* works in one critical section, on pages that do not change meanwhile.   *)
(***************************************************************************)
EXTENDS FirstFit

VARIABLES used, n,       \* g_rt_pages and the pages wanted
          start, run,    \* the run that is extended
          pc

searchVars == <<used, n, start, run, pc>>

(* The size of a request is checked against the pool without its first page. *)
SearchInit ==
  /\ used \in SUBSET Pages /\ n \in 1 .. PoolPages - 1
  /\ start = 1 /\ run = 0 /\ pc = "scan"

Scanning == pc = "scan" /\ start + run < PoolPages

Extend ==
  /\ Scanning /\ start + run \notin used
  /\ run' = run + 1 /\ pc' = (IF run + 1 = n THEN "found" ELSE "scan")
  /\ UNCHANGED <<used, n, start>>

(* A mistake that would be easy to make here; the properties exclude it: the *)
(* new run starts two pages behind the used one.                             *)
SkipTooFar ==
  /\ Scanning /\ start + run \in used
  /\ start' = start + run + 2 /\ run' = 0
  /\ UNCHANGED <<used, n, pc>>

Skip ==
  /\ Scanning /\ start + run \in used
  /\ start' = start + run + 1 /\ run' = 0
  /\ UNCHANGED <<used, n, pc>>

GiveUp ==
  /\ pc = "scan" /\ start + run >= PoolPages
  /\ pc' = "none"
  /\ UNCHANGED <<used, n, start, run>>

Search == Extend \/ Skip \/ GiveUp

SearchSpec == SearchInit /\ [][Search]_searchVars
-----------------------------------------------------------------------------
(* The search finds the first fit, and fails only if there is none: -ENOMEM  *)
(* means that the pool has no such run, wherever the used pages are.         *)
FindsFirstFit ==
  /\ pc = "found" => Least(start, Fits(used, n))
  /\ pc = "none" => Fits(used, n) = {}
=============================================================================
