----------------------------- MODULE NpuRuntime -----------------------------
(***************************************************************************)
(* The commands of /dev/npu0 (chips/a733/a733_npu_runtime.c and the        *)
(* execution gate of a733_npu.c) on top of the pool: submit, selftest, the *)
(* prepared packages, cancel, reset and sync, called by threads of several *)
(* CPUs at once.                                                           *)
(*                                                                         *)
(* A thread uses the context of its open file; with an injective FileOf no *)
(* two threads share one.  g_rt_cancel, g_rt_inflight, next_task and       *)
(* last_task are plain variables of the driver, written without a lock, so *)
(* every access is a step.  The NPU itself is external: it may finish a    *)
(* command or hang, and with ResetMayFail a soft reset may not stop it.    *)
(***************************************************************************)
EXTENDS NpuPool

CONSTANTS Threads, Files,
          FileOf,          \* [Threads -> Files]
          Commands,        \* [Threads -> the commands a thread uses]
          MaxTasks,        \* bound on the task numbers
          ResetMayFail

ASSUME RuntimeAssumption ==
  /\ Nobody \notin Threads /\ FileOf \in [Threads -> Files]
  /\ Commands \in [Threads -> SUBSET {"pool", "submit", "selftest", "run",
                      "prepared", "cancel", "reset", "write reset"}]
  /\ MaxTasks \in Nat /\ ResetMayFail \in BOOLEAN

VARIABLES
  context,       \* filep->f_priv, Nobody while the file is not open
  pc, kind, cmd, task,         \* the call of each thread
  outcome,       \* the result of its last execution
  cancel,        \* g_rt_cancel
  busy,          \* g_submit_busy
  job,           \* whose command the NPU executes
  irq,           \* irq_count # irq_before
  nextTask, lastTask,
  lastStatus,
  runLock,       \* g_rt_run_lock
  package,       \* who filled the prepared pool
  completed      \* the NPU completed the last command of the thread

callVars == <<pc, kind, cmd, task, outcome>>
npuVars == <<cancel, busy, job, irq>>
taskVars == <<nextTask, lastTask, lastStatus>>
runVars == <<runLock, package>>
vars == <<poolVars, context, callVars, npuVars, taskVars, runVars, completed>>

Steps == {"idle", "clear", "protect", "number", "numbered", "gate", "launch",
          "start", "wait", "recover", "ungate", "unprotect", "record", "status", "lock",
          "load", "collect", "reset"}
Kinds == {"submit", "selftest", "run", "prepared"}
Outcomes == {"none", "ok", "fault", "busy", "timeout", "cancelled"}

(* Between the gate and its release. *)
Inside(t) == pc[t] \in {"launch", "start", "wait", "recover", "ungate"}

RuntimeTypeOK ==
  /\ PoolTypeOK
  /\ context \in [Files -> Contexts \cup {Nobody}]
  /\ pc \in [Threads -> Steps] /\ kind \in [Threads -> Kinds]
  /\ cmd \in [Threads -> Handles] /\ task \in [Threads -> Nat]
  /\ outcome \in [Threads -> Outcomes]
  /\ cancel \in BOOLEAN /\ busy \in BOOLEAN /\ irq \in BOOLEAN
  /\ job \in Threads \cup {Nobody}
  /\ nextTask \in Nat /\ lastTask \in Nat
  /\ lastStatus \in Outcomes
  /\ runLock \in Threads \cup {Nobody} /\ package \in Threads \cup {Nobody}
  /\ completed \in [Threads -> BOOLEAN]

Init ==
  /\ PoolInit
  /\ context = [f \in Files |-> Nobody]
  /\ pc = [t \in Threads |-> "idle"] /\ kind = [t \in Threads |-> "submit"]
  /\ cmd = [t \in Threads |-> NoHandle] /\ task = [t \in Threads |-> 0]
  /\ outcome = [t \in Threads |-> "none"]
  /\ cancel = FALSE /\ busy = FALSE /\ job = Nobody /\ irq = FALSE
  /\ nextTask = 0 /\ lastTask = 0 /\ lastStatus = "none"
  /\ runLock = Nobody /\ package = Nobody
  /\ completed = [t \in Threads |-> FALSE]
-----------------------------------------------------------------------------
Step(t, from, to) == pc[t] = from /\ pc' = [pc EXCEPT ![t] = to]

Has(t, command) == command \in Commands[t]

(* open, close, alloc and free. *)
PoolCall(t) ==
  LET f == FileOf[t] IN
  /\ pc[t] = "idle" /\ Has(t, "pool")
  /\ \/ /\ context[f] = Nobody
        /\ \E c \in Contexts : Open(c) /\ context' = [context EXCEPT ![f] = c]
     \/ /\ context[f] # Nobody /\ Close(context[f])
        /\ context' = [context EXCEPT
             ![f] = IF Executing(context[f]) = {} THEN Nobody ELSE @]
     \/ context[f] # Nobody /\ Alloc(context[f], 1) /\ UNCHANGED context
     \/ /\ context[f] # Nobody /\ \E h \in Handles : Free(context[f], h)
        /\ UNCHANGED context
  /\ UNCHANGED <<callVars, npuVars, taskVars, runVars, completed>>

(* The call finds its buffer, or needs none. *)
Start(t, k, first_step, h) ==
  /\ Has(t, k) /\ Step(t, "idle", first_step)
  /\ kind' = [kind EXCEPT ![t] = k] /\ cmd' = [cmd EXCEPT ![t] = h]
  /\ UNCHANGED <<poolVars, context, task, outcome, npuVars, taskVars, runVars, completed>>

(* The submits that have no number yet count for the bound, too.             *)
Unnumbered ==
  {u \in Threads : kind[u] = "submit" /\ pc[u] \in {"clear", "protect", "number", "numbered"}}

Submit(t) ==
  /\ nextTask + Cardinality(Unnumbered) < MaxTasks /\ context[FileOf[t]] # Nobody
  /\ \E h \in Handles, s \in Slots :
       Finds(context[FileOf[t]], h, s) /\ Start(t, "submit", "clear", h)

Selftest(t) == Start(t, "selftest", "clear", NoHandle)

(* RUN_A7PM takes the run lock; "prepared=" comes from write, without it.    *)
Run(t) == Start(t, "run", "lock", NoHandle)
Prepared(t) == Start(t, "prepared", "load", NoHandle)

Lock(t) ==
  /\ runLock = Nobody /\ runLock' = t /\ Step(t, "lock", "load")
  /\ UNCHANGED <<poolVars, context, kind, cmd, task, outcome, npuVars,
                 taskVars, package, completed>>

(* a733_rt_prepared fills the prepared pool, or fails. *)
Load(t) ==
  /\ \/ Step(t, "load", "clear") /\ outcome' = outcome
     \/ Step(t, "load", "collect") /\ outcome' = [outcome EXCEPT ![t] = "fault"]
  /\ package' = t
  /\ UNCHANGED <<poolVars, context, kind, cmd, task, npuVars, taskVars, runLock, completed>>
-----------------------------------------------------------------------------
(* Mistakes that would be easy to make here; the properties exclude them.    *)

(* The gate lets everyone through. *)
GateOpen(t) ==
  /\ Step(t, "gate", "launch") /\ busy' = TRUE
  /\ UNCHANGED <<poolVars, context, kind, cmd, task, outcome, cancel, job, irq,
                 taskVars, runVars, completed>>

(* The idle register is not read before the launch. *)
PrepareBlindly(t) ==
  /\ Step(t, "launch", "start")
  /\ UNCHANGED <<poolVars, context, kind, cmd, task, outcome, npuVars, taskVars,
                 runVars, completed>>

(* An interrupt of the command before is not acknowledged. *)
LaunchKeepsIrq(t) ==
  /\ Step(t, "start", "wait") /\ job' = t
  /\ completed' = [completed EXCEPT ![t] = FALSE]
  /\ UNCHANGED <<poolVars, context, kind, cmd, task, outcome, cancel, busy, irq,
                 taskVars, runVars>>

(* A package that fails leaves the run lock taken. *)
CollectKeepsLock(t) ==
  /\ Step(t, "collect", "idle")
  /\ runLock' = (IF runLock = t /\ outcome[t] # "fault" THEN Nobody ELSE runLock)
  /\ UNCHANGED <<poolVars, context, kind, cmd, task, outcome, npuVars, taskVars,
                 package, completed>>
-----------------------------------------------------------------------------
(* g_rt_cancel = false *)
Clear(t) ==
  /\ Step(t, "clear", IF kind[t] = "submit" THEN "protect" ELSE "gate")
  /\ cancel' = FALSE
  /\ UNCHANGED <<poolVars, context, kind, cmd, task, outcome, busy, job, irq,
                 taskVars, runVars, completed>>

SetInflight(t) ==
  /\ Step(t, "protect", "number") /\ Protect(cmd[t])
  /\ UNCHANGED <<context, kind, cmd, task, outcome, npuVars, taskVars, runVars, completed>>

(* ++next_task is a load and a store. *)
ReadNumber(t) ==
  /\ Step(t, "number", "numbered")
  /\ task' = [task EXCEPT ![t] = nextTask + 1]
  /\ UNCHANGED <<poolVars, context, kind, cmd, outcome, npuVars, taskVars, runVars, completed>>

WriteNumber(t) ==
  /\ Step(t, "numbered", "gate") /\ nextTask' = task[t]
  /\ UNCHANGED <<poolVars, context, kind, cmd, task, outcome, npuVars, lastTask,
                 lastStatus, runVars, completed>>

(* Where a call goes on when its execution is over. *)
After(t) ==
  IF kind[t] = "submit" THEN "unprotect"
  ELSE IF kind[t] = "selftest" THEN "idle" ELSE "collect"

Gate(t) ==
  /\ \/ ~busy /\ Step(t, "gate", "launch") /\ busy' = TRUE /\ UNCHANGED outcome
     \/ /\ busy /\ Step(t, "gate", After(t)) /\ UNCHANGED busy
        /\ outcome' = [outcome EXCEPT ![t] = "busy"]
  /\ UNCHANGED <<poolVars, context, kind, cmd, task, cancel, job, irq, taskVars,
                 runVars, completed>>

(* An NPU that is not idle is reset first, for a package in any case.        *)
Prepare(t) ==
  /\ \/ Step(t, "launch", "start") /\ job' = Nobody /\ UNCHANGED outcome
     \/ /\ ResetMayFail /\ (job # Nobody \/ kind[t] \in {"run", "prepared"})
        /\ Step(t, "launch", "ungate") /\ UNCHANGED job
        /\ outcome' = [outcome EXCEPT ![t] = "fault"]
  /\ UNCHANGED <<poolVars, context, kind, cmd, task, cancel, busy, irq, taskVars,
                 runVars, completed>>

(* An old interrupt is acknowledged and the command started, unless the MMU  *)
(* does not come up.                                                         *)
Launch(t) ==
  /\ \/ /\ Step(t, "start", "wait") /\ job' = t /\ irq' = FALSE
        /\ completed' = [completed EXCEPT ![t] = FALSE] /\ UNCHANGED outcome
     \/ /\ Step(t, "start", "recover") /\ UNCHANGED <<job, irq, completed>>
        /\ outcome' = [outcome EXCEPT ![t] = "fault"]
  /\ UNCHANGED <<poolVars, context, kind, cmd, task, cancel, busy, taskVars,
                 runVars>>

(* One look of the wait: the flag, then the interrupt, at last the limit.    *)
Poll(t) ==
  /\ Step(t, "wait", "recover")
  /\ \E o \in Outcomes :
       /\ \/ cancel /\ o = "cancelled"
          \/ ~cancel /\ irq /\ o \in {"ok", "fault"}
          \/ ~cancel /\ ~irq /\ o = "timeout"
       /\ outcome' = [outcome EXCEPT ![t] = o]
  /\ UNCHANGED <<poolVars, context, kind, cmd, task, npuVars, taskVars, runVars, completed>>

(* The soft reset after every command.                                       *)
Recover(t) ==
  /\ Step(t, "recover", "ungate")
  /\ \/ job' = Nobody /\ UNCHANGED outcome
     \/ /\ ResetMayFail /\ UNCHANGED job
        /\ outcome' = [outcome EXCEPT ![t] = IF @ = "ok" THEN "fault" ELSE @]
  /\ UNCHANGED <<poolVars, context, kind, cmd, task, cancel, busy, irq, taskVars,
                 runVars, completed>>

Ungate(t) ==
  /\ Step(t, "ungate", After(t)) /\ busy' = FALSE
  /\ UNCHANGED <<poolVars, context, kind, cmd, task, outcome, cancel, job, irq,
                 taskVars, runVars, completed>>

ClearInflight(t) ==
  /\ Step(t, "unprotect", "record") /\ Protect(NoHandle)
  /\ UNCHANGED <<context, kind, cmd, task, outcome, npuVars, taskVars, runVars, completed>>

RecordTask(t) ==
  /\ Step(t, "record", "status") /\ lastTask' = task[t]
  /\ UNCHANGED <<poolVars, context, kind, cmd, task, outcome, npuVars, nextTask,
                 lastStatus, runVars, completed>>

RecordStatus(t) ==
  /\ Step(t, "status", "idle") /\ lastStatus' = outcome[t]
  /\ UNCHANGED <<poolVars, context, kind, cmd, task, outcome, npuVars, nextTask,
                 lastTask, runVars, completed>>

(* The outputs are read from the prepared pool. *)
Collect(t) ==
  /\ Step(t, "collect", "idle")
  /\ runLock' = (IF kind[t] = "run" THEN Nobody ELSE runLock)
  /\ UNCHANGED <<poolVars, context, kind, cmd, task, outcome, npuVars, taskVars,
                 package, completed>>
-----------------------------------------------------------------------------
Cancel(t) ==
  /\ Has(t, "cancel") /\ pc[t] = "idle"
  /\ cancel' = TRUE
  /\ UNCHANGED <<poolVars, context, callVars, busy, job, irq, taskVars, runVars,
                 completed>>

(* RESET looks at g_rt_inflight and only then cancels and resets; "reset"    *)
(* comes from write and does neither.                                        *)
CheckReset(t) ==
  /\ Has(t, "reset") /\ inflight = NoHandle /\ Step(t, "idle", "reset")
  /\ UNCHANGED <<poolVars, context, kind, cmd, task, outcome, npuVars, taskVars,
                 runVars, completed>>

Reset(t) ==
  /\ Step(t, "reset", "idle")
  /\ cancel' = TRUE
  /\ job' = Nobody \/ (ResetMayFail /\ job' = job)
  /\ UNCHANGED <<poolVars, context, kind, cmd, task, outcome, busy, irq,
                 taskVars, runVars, completed>>

WriteReset(t) ==
  /\ Has(t, "write reset") /\ pc[t] = "idle" /\ job' = Nobody
  /\ UNCHANGED <<poolVars, context, callVars, cancel, busy, irq, taskVars,
                 runVars, completed>>

(* The NPU finishes its command and the handler counts the interrupt.        *)
Complete ==
  /\ job # Nobody /\ job' = Nobody /\ irq' = TRUE
  /\ completed' = [completed EXCEPT ![job] = TRUE]
  /\ UNCHANGED <<poolVars, context, callVars, cancel, busy, taskVars, runVars>>

Continue(t) ==
  \/ Lock(t) \/ Load(t) \/ Clear(t) \/ SetInflight(t)
  \/ ReadNumber(t) \/ WriteNumber(t)
  \/ Gate(t) \/ Prepare(t) \/ Launch(t) \/ Poll(t) \/ Recover(t) \/ Ungate(t)
  \/ ClearInflight(t) \/ RecordTask(t) \/ RecordStatus(t) \/ Collect(t) \/ Reset(t)

Next ==
  \/ Complete
  \/ \E t \in Threads :
       \/ PoolCall(t) \/ Submit(t) \/ Selftest(t) \/ Run(t) \/ Prepared(t)
       \/ Cancel(t) \/ CheckReset(t) \/ WriteReset(t) \/ Continue(t)

Spec == Init /\ [][Next]_vars

(* The driver's threads are scheduled and nxmutex_unlock hands the lock to a  *)
(* thread that waits; the NPU owes nothing.                                  *)
FairSpec ==
  Spec /\ \A t \in Threads : WF_vars(Continue(t)) /\ SF_vars(Lock(t))
-----------------------------------------------------------------------------
(* docs/a733/version-archive/A733_NPU_RESEARCH.md:193: the tasks of the one  *)
(* core are serialised.  At most one thread is past the gate, and the gate   *)
(* is shut exactly while one is: no failure leaves it shut.                  *)
OneJob ==
  /\ \A t, u \in Threads : Inside(t) /\ Inside(u) => t = u
  /\ busy <=> \E t \in Threads : Inside(t)

(* No command is started on an NPU that still works on one, not even after a *)
(* reset that failed.                                                        *)
LaunchOnIdle == [][job' \notin {Nobody, job} => job = Nobody]_vars

(* The NPU works on one command at a time, and the driver on one job: after  *)
(* every step both of the above.                                             *)
OneCommand == [][OneJob' /\ (job' \notin {Nobody, job} => job = Nobody)]_vars

(* The pages of a command stay with it for as long as its thread is past the *)
(* gate, although a submit of another context that the gate refused clears   *)
(* g_rt_inflight meanwhile.                                                  *)
ExecutedBufferLive ==
  \A t \in Threads : Inside(t) /\ kind[t] = "submit" =>
    \E s \in Slots : Finds(context[FileOf[t]], cmd[t], s)

(* A command is reported as done only if the NPU completed this very         *)
(* command; a late interrupt of one that timed out does not count.           *)
HonestOk ==
  \A t \in Threads : pc[t] \in {"recover", "ungate"} /\ outcome[t] = "ok" => completed[t]

(* What a command says it has done it has done, on pages of its own (both of *)
(* the above).                                                               *)
ResultsAreHonest == ExecutedBufferLive /\ HonestOk

(* Every call returns, also when the NPU hangs or a package is refused.      *)
CallsEnd == \A t \in Threads : pc[t] # "idle" ~> pc[t] = "idle"

(* include/nuttx/npu/a733_vip2.h:124: RUN_A7PM executes one package as a     *)
(* single operation; nobody else fills the pool before its outputs are read. *)
RunIsSingle ==
  \A t \in Threads : runLock = t /\ pc[t] \notin {"lock", "load"} => package = t
=============================================================================
