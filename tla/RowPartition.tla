---------------------------- MODULE RowPartition ----------------------------
(***************************************************************************)
(* How read_parallel_matvec (apps/system/aipetllm/aipetllm_modelcheck.c)   *)
(* divides the rows of a matrix among the workers of a CPU mask.  A first  *)
(* loop sums the weights of the CPUs, 3 for a big core and 1 for another;  *)
(* a second one gives every worker, in the order of the CPUs, the rows     *)
(* between two shares of the running sum, each rounded down.               *)
(*                                                                         *)
(* The loops run under the model lock, so nothing interleaves with them.   *)
(* LlmPool has the workers that compute the rows.                          *)
(***************************************************************************)
EXTENDS Integers

CONSTANTS CpuCount,     \* 8
          Big,          \* the first big core, 6
          MaxRows       \* bound on the rows of a matrix

ASSUME PartitionAssumption == CpuCount \in Nat /\ Big \in Nat /\ MaxRows \in Nat

VARIABLES
  rows, mask,     \* the matrix and the CPUs of the call
  cpu, loop,      \* where the loops are
  total,          \* total_weight
  cumulative,     \* the running sum of the second loop
  firstRow, end,     \* the rows of each worker
  share           \* the sum before each CPU in the first loop

rowVars == <<rows, mask, cpu, loop, total, cumulative, firstRow, end, share>>

Cpus == 0 .. CpuCount - 1

Weight(c) == IF c >= Big THEN 3 ELSE 1

RowsInit ==
  /\ rows \in 0 .. MaxRows
  /\ mask \in (SUBSET Cpus) \ {{}}
  /\ cpu = 0 /\ loop = 1 /\ total = 0 /\ cumulative = 0
  /\ firstRow = [c \in Cpus |-> 0] /\ end = [c \in Cpus |-> 0]
  /\ share = [c \in 0 .. CpuCount |-> 0]

Added(sum) == IF cpu \in mask THEN sum + Weight(cpu) ELSE sum

Sum ==
  /\ loop = 1 /\ cpu < CpuCount
  /\ cpu' = cpu + 1 /\ total' = Added(total)
  /\ share' = [share EXCEPT ![cpu + 1] = Added(total)]
  /\ UNCHANGED <<rows, mask, loop, cumulative, firstRow, end>>

Turn ==
  /\ loop = 1 /\ cpu = CpuCount
  /\ loop' = 2 /\ cpu' = 0
  /\ UNCHANGED <<rows, mask, total, cumulative, firstRow, end, share>>

(* A mistake that would be easy to make here; the properties exclude it: the *)
(* number of rows as a share of its own, rounded apart from the first row.   *)
DivideApart ==
  /\ loop = 2 /\ cpu < CpuCount
  /\ cpu' = cpu + 1 /\ cumulative' = Added(cumulative)
  /\ IF cpu \in mask
       THEN /\ firstRow' = [firstRow EXCEPT ![cpu] = (rows * cumulative) \div total]
            /\ end' = [end EXCEPT ![cpu] =
                 (rows * cumulative) \div total + (rows * Weight(cpu)) \div total]
       ELSE UNCHANGED <<firstRow, end>>
  /\ UNCHANGED <<rows, mask, loop, total, share>>

Divide ==
  /\ loop = 2 /\ cpu < CpuCount
  /\ cpu' = cpu + 1 /\ cumulative' = Added(cumulative)
  /\ IF cpu \in mask
       THEN /\ firstRow' = [firstRow EXCEPT ![cpu] = (rows * cumulative) \div total]
            /\ end' = [end EXCEPT ![cpu] = (rows * Added(cumulative)) \div total]
       ELSE UNCHANGED <<firstRow, end>>
  /\ UNCHANGED <<rows, mask, loop, total, share>>

RowsNext == Sum \/ Turn \/ Divide

RowsSpec == RowsInit /\ [][RowsNext]_rowVars
-----------------------------------------------------------------------------
Divided == loop = 2 /\ cpu = CpuCount

Rows(c) == firstRow[c] .. end[c] - 1

(* The workers' rows make up the matrix and no row belongs to two: nothing   *)
(* is left uncomputed by the rounding and no output is written twice, for    *)
(* any mask and any number of rows, also fewer rows than workers.            *)
EveryRowOnce ==
  Divided =>
    /\ \A r \in 0 .. rows - 1 : \E c \in mask : r \in Rows(c)
    /\ \A c \in mask : Rows(c) \subseteq 0 .. rows - 1
    /\ \A c, d \in mask : c # d => Rows(c) \cap Rows(d) = {}
=============================================================================
