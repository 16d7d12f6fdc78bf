------------------------------ MODULE LlmPool ------------------------------
(***************************************************************************)
(* The persistent compute pool of the local LLM and the model lock that    *)
(* guards it (apps/system/aipetllm/aipetllm_modelcheck.c).                 *)
(*                                                                         *)
(* A task that runs a forward pass, or unloads the model, takes            *)
(* g_model_lock with trylock.  Under the lock it asks the pool service, a  *)
(* kernel task that owns all compute pthreads, for one of two commands:    *)
(* reconfigure (stop and join the threads, create one for each CPU of a    *)
(* mask) or run (let every thread compute its rows of one matrix).  One    *)
(* pair of semaphores carries request and reply, one pair for each slot    *)
(* wakes a thread and tells that it is done.                               *)
(*                                                                         *)
(* The slots are plain memory shared by the client, the service and the    *)
(* threads: nothing but the order of the semaphore operations protects it. *)
(* The numbers a matrix product computes are not modelled, the buffers it  *)
(* reads are: the model weights, and the quantized input of the client.    *)
(***************************************************************************)
EXTENDS Integers

CONSTANTS Clients,    \* tasks that call the LLM
          NCpu,       \* number of CPUs, 8 on the A733: also the slots
          Masks,      \* the CPU masks a run may ask for
          NoOne       \* no client

Cpus == 0 .. NCpu - 1
Slots == 0 .. NCpu - 1

ASSUME PoolAssumption ==
  /\ NCpu \in Nat \ {0}
  /\ Masks \subseteq (SUBSET Cpus) \ {{}}
  /\ NoOne \notin Clients

VARIABLES
  lock,       \* owner of g_model_lock
  mem,        \* the weights: "none", "private" to the running client, "cached"
  inputs,     \* clients whose input_q8 is allocated
  pc, op,     \* each client's position, and what it took the lock for
  started,    \* g_pool_pid # 0: the service task exists
  request, reply,                \* g_pool_request, g_pool_reply
  command, requested, mask,      \* g_pool_command, _requested_mask, _mask
  count, result,                 \* g_pool_count, g_pool_result
  svc, cursor,                   \* the service's position and loop index
  ready, done, stop,             \* of each slot
  cpu, work, status,             \* of each slot: its CPU, whose job, outcome
  thread                         \* of each slot: its compute pthread

clientVars == <<lock, mem, inputs, pc, op>>
poolVars == <<started, command, requested, mask, count, result>>
slotVars == <<ready, done, stop, cpu, work, status, thread>>
vars == <<clientVars, poolVars, request, reply, svc, cursor, slotVars>>

Active == {i \in Slots : i < count}
-----------------------------------------------------------------------------
TypeOK ==
  /\ lock \in Clients \cup {NoOne}
  /\ mem \in {"none", "private", "cached"}
  /\ inputs \subseteq Clients
  /\ pc \in [Clients -> {"idle", "held", "conf_wait", "configured",
                         "run_wait", "failed"}]
  /\ op \in [Clients -> {"run", "unload"}]
  /\ started \in BOOLEAN
  /\ request \in 0 .. 1 /\ reply \in 0 .. 1
  /\ command \in {"none", "configure", "run"}
  /\ requested \subseteq Cpus /\ mask \subseteq Cpus
  /\ count \in 0 .. NCpu
  /\ result \in {"ok", "io", "again"}
  /\ svc \in {"off", "wait", "stopping", "joining", "creating", "posting",
              "collecting"}
  /\ cursor \in 0 .. NCpu
  /\ ready \in [Slots -> 0 .. 1] /\ done \in [Slots -> 0 .. 1]
  /\ stop \in [Slots -> BOOLEAN]
  /\ cpu \in [Slots -> Cpus]
  /\ work \in [Slots -> Clients \cup {NoOne}]
  /\ status \in [Slots -> {"ok", "io"}]
  /\ thread \in [Slots -> {"none", "waiting", "computing", "exited"}]

Init ==
  /\ lock = NoOne /\ mem = "none" /\ inputs = {}
  /\ pc = [c \in Clients |-> "idle"] /\ op = [c \in Clients |-> "run"]
  /\ started = FALSE /\ request = 0 /\ reply = 0
  /\ command = "none" /\ requested = {} /\ mask = {}
  /\ count = 0 /\ result = "ok" /\ svc = "off" /\ cursor = 0
  /\ ready = [i \in Slots |-> 0] /\ done = [i \in Slots |-> 0]
  /\ stop = [i \in Slots |-> FALSE] /\ cpu = [i \in Slots |-> 0]
  /\ work = [i \in Slots |-> NoOne] /\ status = [i \in Slots |-> "ok"]
  /\ thread = [i \in Slots |-> "none"]
-----------------------------------------------------------------------------
(* Steps that several actions share.                                         *)

Goto(c, there) == pc' = [pc EXCEPT ![c] = there]

Release(c) ==
  /\ lock' = NoOne /\ Goto(c, "idle")
  /\ UNCHANGED <<inputs, op, poolVars, request, reply, svc, cursor, slotVars>>

Answer == reply' = reply + 1 /\ svc' = "wait"

-----------------------------------------------------------------------------
(* Mistakes that would be easy to make here; the properties exclude them.    *)

(* The reply is read but left in the semaphore. *)
ConfiguredKeepsReply(c) ==
  /\ pc[c] = "conf_wait" /\ reply > 0
  /\ Goto(c, IF result = "ok" THEN "configured" ELSE "failed")
  /\ UNCHANGED <<lock, mem, inputs, op, poolVars, request, reply, svc, cursor,
                 slotVars>>

(* A cancelled run leaves while the threads still compute for it. *)
AbandonEarly(c) ==
  /\ pc[c] \in {"held", "failed", "run_wait"} /\ op[c] = "run"
  /\ mem' = (IF mem = "private" THEN "none" ELSE mem) /\ Release(c)

(* pthread_create failed and the loop is left without the reply. *)
CreateWithoutAnswer ==
  /\ svc = "creating" /\ cursor < NCpu /\ cursor' = cursor + 1
  /\ \/ /\ cursor \notin requested
        /\ UNCHANGED <<count, result, svc, cpu, stop, thread>>
     \/ /\ cursor \in requested
        /\ cpu' = [cpu EXCEPT ![count] = cursor]
        /\ stop' = [stop EXCEPT ![count] = FALSE]
        /\ \/ thread' = [thread EXCEPT ![count] = "waiting"]
              /\ count' = count + 1 /\ UNCHANGED <<result, svc>>
           \/ result' = "again" /\ svc' = "wait" /\ UNCHANGED <<thread, count>>
  /\ UNCHANGED <<clientVars, started, command, requested, mask, request, reply,
                 ready, done, work, status>>

(* The status of a slot is taken without waiting for its done semaphore. *)
CollectEarly ==
  /\ svc = "collecting" /\ cursor < count
  /\ result' = IF status[cursor] # "ok" THEN status[cursor] ELSE result
  /\ work' = [work EXCEPT ![cursor] = NoOne]
  /\ cursor' = cursor + 1
  /\ UNCHANGED <<clientVars, started, command, requested, mask, count, request,
                 reply, svc, ready, done, stop, cpu, status, thread>>

(* The service waits for the slot but forgets its status. *)
CollectBlindly ==
  /\ svc = "collecting" /\ cursor < count /\ done[cursor] > 0
  /\ done' = [done EXCEPT ![cursor] = @ - 1]
  /\ work' = [work EXCEPT ![cursor] = NoOne]
  /\ cursor' = cursor + 1
  /\ UNCHANGED <<clientVars, poolVars, request, reply, svc, ready, stop, cpu,
                 status, thread>>
-----------------------------------------------------------------------------
(* The clients. *)

(* embedding_pipeline_run and aipetllm_cache_control take the lock with      *)
(* trylock: a task that finds it held reports busy and changes nothing.      *)
Acquire(c, what) ==
  /\ pc[c] = "idle" /\ lock = NoOne
  /\ lock' = c /\ op' = [op EXCEPT ![c] = what] /\ Goto(c, "held")
  /\ UNCHANGED <<mem, inputs, poolVars, request, reply, svc, cursor, slotVars>>

(* Without a cached model the run reads the file into a buffer of its own.  *)
LoadModel(c) ==
  /\ pc[c] = "held" /\ op[c] = "run" /\ mem = "none"
  /\ mem' = "private"
  /\ UNCHANGED <<lock, inputs, pc, op, poolVars, request, reply, svc, cursor,
                 slotVars>>

(* The three ways llm_pool_configure returns without asking the service.    *)
NothingToStop(m) == ~started /\ m = {}
CannotStart(m) == ~started /\ m # {}
AlreadyConfigured(m) ==
  /\ started /\ mask = m
  /\ IF m = {} THEN count = 0 ELSE count # 0

(* llm_pool_configure, called by c, up to its return or its wait for the    *)
(* reply.  Creating the semaphores or the service task may fail, and leaves *)
(* nothing behind.                                                          *)
Configure(c, m) ==
  \/ /\ NothingToStop(m) \/ AlreadyConfigured(m)
     /\ Goto(c, "configured")
     /\ UNCHANGED <<poolVars, request, svc>>
  \/ /\ CannotStart(m)
     /\ Goto(c, "failed")
     /\ UNCHANGED <<poolVars, request, svc>>
  \/ /\ ~NothingToStop(m) /\ ~AlreadyConfigured(m)
     /\ started' = TRUE
     /\ svc' = IF started THEN svc ELSE "wait"
     /\ requested' = m /\ command' = "configure" /\ request' = request + 1
     /\ Goto(c, "conf_wait")
     /\ UNCHANGED <<mask, count, result>>

(* read_parallel_matvec: quantize the input, then configure the pool. *)
StartMatvec(c, m) ==
  /\ pc[c] = "held" /\ op[c] = "run" /\ mem # "none"
  /\ Configure(c, m)
  /\ inputs' = IF pc'[c] = "failed" THEN inputs ELSE inputs \cup {c}
  /\ UNCHANGED <<lock, mem, op, reply, cursor, slotVars>>

(* aipetllm_cache_control(unload): configure the pool with no CPU. *)
StartUnload(c) ==
  /\ pc[c] = "held" /\ op[c] = "unload"
  /\ Configure(c, {})
  /\ UNCHANGED <<lock, mem, inputs, op, reply, cursor, slotVars>>

(* The reply to a configure command; a failed one ends the product. *)
Configured(c) ==
  /\ pc[c] = "conf_wait" /\ reply > 0
  /\ reply' = reply - 1
  /\ IF result = "ok" THEN Goto(c, "configured") /\ UNCHANGED inputs
     ELSE Goto(c, "failed") /\ inputs' = inputs \ {c}
  /\ UNCHANGED <<lock, mem, op, poolVars, request, svc, cursor, slotVars>>

(* Fill the slot of every thread with this matrix and ask for a run.  The    *)
(* status is set to failure before the thread proves otherwise.              *)
PostRun(c) ==
  /\ pc[c] = "configured" /\ op[c] = "run"
  /\ work' = [i \in Slots |-> IF i \in Active THEN c ELSE work[i]]
  /\ status' = [i \in Slots |-> IF i \in Active THEN "io" ELSE status[i]]
  /\ command' = "run" /\ request' = request + 1
  /\ Goto(c, "run_wait")
  /\ UNCHANGED <<lock, mem, inputs, op, started, requested, mask, count,
                 result, reply, svc, cursor, ready, done, stop, cpu, thread>>

(* The reply to a run command: the input is freed, a failure ends the run.   *)
RunDone(c) ==
  /\ pc[c] = "run_wait" /\ reply > 0
  /\ reply' = reply - 1
  /\ inputs' = inputs \ {c}
  /\ Goto(c, IF result = "ok" THEN "held" ELSE "failed")
  /\ UNCHANGED <<lock, mem, op, poolVars, request, svc, cursor, slotVars>>

(* The out: label of a run that succeeded, its buffer becomes the cache ...  *)
Retain(c) ==
  /\ pc[c] = "held" /\ op[c] = "run" /\ mem # "none"
  /\ mem' = "cached" /\ Release(c)

(* ... and of one that failed or was stopped: it frees the buffer it loaded. *)
Abandon(c) ==
  /\ pc[c] \in {"held", "failed"} /\ op[c] = "run"
  /\ mem' = (IF mem = "private" THEN "none" ELSE mem) /\ Release(c)

(* The rest of unload: free the cache, only if the pool could be stopped.    *)
Unload(c) ==
  /\ pc[c] \in {"configured", "failed"} /\ op[c] = "unload"
  /\ mem' = (IF pc[c] = "configured" THEN "none" ELSE mem) /\ Release(c)

Client(c) ==
  \/ \E what \in {"run", "unload"} : Acquire(c, what)
  \/ LoadModel(c)
  \/ \E m \in Masks : StartMatvec(c, m)
  \/ StartUnload(c) \/ Configured(c) \/ PostRun(c) \/ RunDone(c)
  \/ Retain(c) \/ Abandon(c) \/ Unload(c)
-----------------------------------------------------------------------------
(* llm_pool_service. *)

ServiceTake ==
  /\ svc = "wait" /\ request > 0
  /\ request' = request - 1 /\ result' = "ok" /\ cursor' = 0
  /\ svc' = IF command = "configure" THEN "stopping" ELSE "posting"
  /\ UNCHANGED <<clientVars, started, command, requested, mask, count, reply,
                 slotVars>>

ServiceStop ==
  /\ svc = "stopping"
  /\ IF cursor < count
     THEN /\ stop' = [stop EXCEPT ![cursor] = TRUE]
          /\ ready' = [ready EXCEPT ![cursor] = @ + 1]
          /\ cursor' = cursor + 1 /\ UNCHANGED svc
     ELSE svc' = "joining" /\ cursor' = 0 /\ UNCHANGED <<stop, ready>>
  /\ UNCHANGED <<clientVars, poolVars, request, reply, done, cpu, work, status,
                 thread>>

(* pthread_join: the service created these threads and nobody else joins     *)
(* them, so it only waits.                                                   *)
ServiceJoin ==
  /\ svc = "joining" /\ cursor < count
  /\ thread[cursor] = "exited"
  /\ thread' = [thread EXCEPT ![cursor] = "none"]
  /\ cursor' = cursor + 1
  /\ UNCHANGED <<clientVars, poolVars, request, reply, svc, ready, done, stop,
                 cpu, work, status>>

(* All threads are gone; the service moves itself to the requested CPUs.     *)
ServiceReset ==
  /\ svc = "joining" /\ cursor = count
  /\ count' = 0 /\ mask' = {} /\ cursor' = 0
  /\ \/ svc' = "creating" /\ UNCHANGED <<result, reply>>
     \/ result' = "io" /\ Answer                    \* sched_setaffinity failed
  /\ UNCHANGED <<clientVars, started, command, requested, request, slotVars>>

ServiceCreate ==
  /\ svc = "creating" /\ cursor < NCpu
  /\ cursor' = cursor + 1
  /\ \/ /\ cursor \notin requested
        /\ UNCHANGED <<count, result, svc, reply, stop, cpu, thread>>
     \/ /\ cursor \in requested
        /\ cpu' = [cpu EXCEPT ![count] = cursor]
        /\ stop' = [stop EXCEPT ![count] = FALSE]
        /\ \/ /\ thread' = [thread EXCEPT ![count] = "waiting"]
              /\ count' = count + 1
              /\ UNCHANGED <<result, svc, reply>>
           \/ /\ result' = "again" /\ Answer          \* pthread_create failed
              /\ UNCHANGED <<thread, count>>
  /\ UNCHANGED <<clientVars, started, command, requested, mask, request, ready,
                 done, work, status>>

ServiceCreated ==
  /\ svc = "creating" /\ cursor = NCpu
  /\ mask' = requested /\ Answer
  /\ UNCHANGED <<clientVars, started, command, requested, count, result,
                 request, cursor, slotVars>>

ServicePost ==
  /\ svc = "posting"
  /\ IF cursor < count
     THEN /\ ready' = [ready EXCEPT ![cursor] = @ + 1]
          /\ cursor' = cursor + 1 /\ UNCHANGED svc
     ELSE svc' = "collecting" /\ cursor' = 0 /\ UNCHANGED ready
  /\ UNCHANGED <<clientVars, poolVars, request, reply, done, stop, cpu, work,
                 status, thread>>

ServiceCollect ==
  /\ svc = "collecting" /\ cursor < count
  /\ done[cursor] > 0
  /\ done' = [done EXCEPT ![cursor] = @ - 1]
  /\ result' = IF status[cursor] # "ok" THEN status[cursor] ELSE result
  /\ work' = [work EXCEPT ![cursor] = NoOne]
  /\ cursor' = cursor + 1
  /\ UNCHANGED <<clientVars, started, command, requested, mask, count, request,
                 reply, svc, ready, stop, cpu, status, thread>>

ServiceCollected ==
  /\ svc = "collecting" /\ cursor = count
  /\ Answer
  /\ UNCHANGED <<clientVars, poolVars, request, cursor, slotVars>>

Service ==
  \/ ServiceTake \/ ServiceStop \/ ServiceJoin \/ ServiceReset
  \/ ServiceCreate \/ ServiceCreated \/ ServicePost \/ ServiceCollect
  \/ ServiceCollected
-----------------------------------------------------------------------------
(* pool_worker and matvec_worker, in the thread of slot i. *)

WorkerWake(i) ==
  /\ thread[i] = "waiting" /\ ready[i] > 0
  /\ ready' = [ready EXCEPT ![i] = @ - 1]
  /\ thread' = [thread EXCEPT ![i] = IF stop[i] THEN "exited" ELSE "computing"]
  /\ UNCHANGED <<clientVars, poolVars, request, reply, svc, cursor, done, stop,
                 cpu, work, status>>

(* The thread fails when it cannot be moved to its CPU. *)
WorkerFinish(i) ==
  /\ thread[i] = "computing"
  /\ \E s \in {"ok", "io"} : status' = [status EXCEPT ![i] = s]
  /\ done' = [done EXCEPT ![i] = @ + 1]
  /\ thread' = [thread EXCEPT ![i] = "waiting"]
  /\ UNCHANGED <<clientVars, poolVars, request, reply, svc, cursor, ready, stop,
                 cpu, work>>

Worker(i) == WorkerWake(i) \/ WorkerFinish(i)
-----------------------------------------------------------------------------
Next ==
  \/ \E c \in Clients : Client(c)
  \/ Service
  \/ \E i \in Slots : Worker(i)

Spec == Init /\ [][Next]_vars

(* The scheduler runs the service and the threads whenever they can run.     *)
Fairness ==
  /\ WF_vars(Service)
  /\ \A i \in Slots : WF_vars(Worker(i))
  /\ \A c \in Clients : WF_vars(Configured(c) \/ RunDone(c))

FairSpec == Spec /\ Fairness
-----------------------------------------------------------------------------
(* A thread that computes reads the weights and the input of the client      *)
(* whose job is in its slot: both are still allocated.                       *)
BuffersAlive ==
  \A i \in Slots : thread[i] = "computing" =>
    mem # "none" /\ work[i] \in inputs

(* The client fills the slots, and the service clears them, only while no    *)
(* thread that reads them is running.                                        *)
SlotsQuiet ==
  \A c \in Clients : pc[c] = "configured" =>
    \A i \in Slots : thread[i] # "computing" /\ ready[i] = 0 /\ done[i] = 0

(* A run command that the client sees succeed was computed by every thread   *)
(* of the pool, on each CPU of the mask and no other.                        *)
HonestReply ==
  \A c \in Clients :
    pc[c] = "run_wait" /\ reply > 0 /\ result = "ok" =>
      /\ count # 0
      /\ \A i \in Active : status[i] = "ok" /\ thread[i] = "waiting"
      /\ mask = {cpu[i] : i \in Active}

(* A job is computed from live buffers, by threads that all see its slots,   *)
(* and is reported as it went (all of the above).                            *)
JobsAreSound == BuffersAlive /\ SlotsQuiet /\ HonestReply

(* When unload frees the cached model no compute thread exists any more.     *)
FreeAfterJoin ==
  [][mem = "cached" /\ mem' = "none" => \A i \in Slots : thread[i] = "none"]_vars

(* Every wait for a reply of the service ends.                               *)
PoolAnswers ==
  \A c \in Clients :
    pc[c] \in {"conf_wait", "run_wait"} ~> pc[c] \notin {"conf_wait", "run_wait"}

Memory == INSTANCE ModelMemory WITH
            Readers <- Slots,
            readers <- {i \in Slots : thread[i] = "computing"}

(* The pool implements the promise about the model's memory.                 *)
MemoryProtocol == Memory!MemSpec
=============================================================================
