---------------------------- MODULE MC_NpuRuntime ----------------------------
EXTENDS NpuRuntime, TLC

CONSTANTS t1, t2

(* The driver keeps the first page. *)
ReservedPages == {0}

OwnFiles == t1 :> 1 @@ t2 :> 2

Submitters == t1 :> {"pool", "submit"} @@ t2 :> {"pool", "submit", "reset"}

Runners == t1 :> {"run", "selftest"} @@ t2 :> {"run", "prepared", "cancel", "reset", "write reset"}

Writers == t1 :> {"run"} @@ t2 :> {"prepared"}

=============================================================================
