------------------------------ MODULE FirstFit ------------------------------
(***************************************************************************)
(* Where a buffer of n pages goes in the pool of the NPU: the first run of *)
(* n free pages after the self-test page.  NpuPool allocates there, and    *)
(* PageScan has the loop of a733_rt_alloc that looks for it.               *)
(***************************************************************************)
EXTENDS Integers

CONSTANT PoolPages     \* A733_RT_POOL_PAGES, 256

ASSUME PagesAssumption == PoolPages \in Nat

Pages == 0 .. PoolPages - 1

Least(x, S) == x \in S /\ \A y \in S : x <= y

(* A mistake that would be easy to make here; the properties exclude it: a   *)
(* gap that is one page too short.                                           *)
FitsOneShort(used, n) ==
  {p \in 1 .. PoolPages - n : \A q \in p .. p + n - 2 : q \notin used}

(* The starts of n free pages in a row, the self-test page left out.         *)
Fits(used, n) ==
  {p \in 1 .. PoolPages - n : \A q \in p .. p + n - 1 : q \notin used}
=============================================================================
