--------------------------- MODULE LlmPool_proofs ---------------------------
(***************************************************************************)
(* Proofs about the compute pool, for any number of clients and CPUs.      *)
(*                                                                         *)
(* The semaphores carry one token: a waiting client has posted a request,  *)
(* or the service works on it, or the reply is posted.  Where the token is *)
(* tells what every slot may be doing; that is the inductive invariant.    *)
(***************************************************************************)
EXTENDS LlmPool, TLAPS

Working == {"stopping", "joining", "creating", "posting", "collecting"}
Waits == {"conf_wait", "run_wait"}

(* The client at the lock is the only one away from idle. *)
OneClient ==
  \A c \in Clients : pc[c] # "idle" <=> lock = c

(* Where the token of a command is. *)
Handshake ==
  /\ svc = "off" <=> ~started
  /\ request = 1 => reply = 0 /\ svc = "wait"
  /\ reply = 1 => request = 0 /\ svc = "wait"
  /\ \A c \in Clients : pc[c] \in Waits <=>
       lock = c /\ (request = 1 \/ reply = 1 \/ svc \in Working)
  /\ request = 1 \/ reply = 1 \/ svc \in Working => lock \in Clients
  /\ \A c \in Clients : pc[c] = "conf_wait" => command = "configure"
  /\ \A c \in Clients : pc[c] = "run_wait" => command = "run" /\ op[c] = "run"
  /\ svc \in {"stopping", "joining", "creating"} => command = "configure"
  /\ svc \in {"posting", "collecting"} => command = "run"

(* What a run holds while it uses the pool. *)
Held ==
  \A c \in Clients :
    op[c] = "run" /\ pc[c] \in Waits \cup {"configured"} =>
      mem # "none" /\ c \in inputs /\ started

(* The four situations of a slot. *)
Absent(i) == thread[i] = "none" /\ ready[i] = 0 /\ done[i] = 0
Asleep(i) ==
  thread[i] = "waiting" /\ ready[i] = 0 /\ done[i] = 0 /\ stop[i] = FALSE
Told(i) ==
  /\ stop[i] = TRUE /\ done[i] = 0
  /\ \/ thread[i] = "waiting" /\ ready[i] = 1
     \/ thread[i] = "exited" /\ ready[i] = 0
Employed(i) ==
  /\ stop[i] = FALSE /\ work[i] = lock
  /\ \/ thread[i] = "waiting" /\ ready[i] = 1 /\ done[i] = 0
     \/ thread[i] = "computing" /\ ready[i] = 0 /\ done[i] = 0
     \/ thread[i] = "waiting" /\ ready[i] = 0 /\ done[i] = 1

(* The situation of every slot, from the position of the service. *)
SlotPhase ==
  \A i \in Slots :
    /\ i >= count => Absent(i)
    /\ i < count =>
         /\ svc \notin {"stopping", "joining", "posting", "collecting"} =>
              Asleep(i)
         /\ svc = "stopping" => IF i < cursor THEN Told(i) ELSE Asleep(i)
         /\ svc = "joining" => IF i < cursor THEN Absent(i) ELSE Told(i)
         /\ svc = "posting" => IF i < cursor THEN Employed(i) ELSE Asleep(i)
         /\ svc = "collecting" => IF i < cursor THEN Asleep(i) ELSE Employed(i)

(* The jobs a posted run command is about belong to the client of the lock. *)
JobOwner ==
  /\ request = 1 /\ command = "run" => \A i \in Active : work[i] = lock
  /\ svc = "posting" => \A i \in Active : work[i] = lock

Bounds ==
  /\ svc \in {"stopping", "joining", "posting", "collecting"} => cursor <= count
  /\ svc = "creating" => count <= cursor
  /\ svc = "off" => count = 0

(* A pool configured for an unload has no thread. *)
Emptied ==
  /\ \A c \in Clients : op[c] = "unload" =>
       /\ pc[c] = "conf_wait" => requested = {}
       /\ pc[c] = "configured" => count = 0
       /\ pc[c] # "run_wait"
  /\ svc = "creating" /\ requested = {} => count = 0
  /\ \A c \in Clients : pc[c] = "conf_wait" /\ reply = 1 /\ result = "ok"
       /\ requested = {} => count = 0

(* The pool of a run has one thread for each CPU of its mask. *)
MaskCpus == {cpu[i] : i \in Active}

Placement ==
  /\ svc \notin {"stopping", "joining", "creating"} /\ mask # {} =>
       mask = MaskCpus
  /\ svc = "creating" =>
       mask = {} /\ MaskCpus = {k \in requested : k < cursor}
  /\ \A c \in Clients : op[c] = "run" =>
       /\ pc[c] = "conf_wait" => requested # {}
       /\ pc[c] = "conf_wait" /\ reply = 1 /\ result = "ok" => mask # {}
       /\ pc[c] \in {"configured", "run_wait"} => mask # {}

(* What the service has collected when it still thinks that all went well. *)
Outcome ==
  /\ svc = "collecting" /\ result = "ok" =>
       \A i \in Slots : i < cursor => status[i] = "ok"
  /\ \A c \in Clients : pc[c] = "run_wait" /\ reply = 1 /\ result = "ok" =>
       \A i \in Active : status[i] = "ok"

IInv ==
  /\ TypeOK /\ OneClient /\ Handshake /\ Held /\ SlotPhase /\ JobOwner
  /\ Bounds /\ Emptied /\ Placement /\ Outcome

-----------------------------------------------------------------------------
(* One lemma for each action, one step for each conjunct. *)

(* Before the first command there is no token and no thread. *)
LEMMA InitIInv == Init => IInv
<1> SUFFICES ASSUME Init
             PROVE  IInv
  OBVIOUS
<1>1. TypeOK
  <2>1. 0 \in Cpus /\ 0 \in 0 .. 1 /\ 0 \in 0 .. NCpu
    BY PoolAssumption DEF Cpus
  <2>2. QED
    BY <2>1 DEF Init, TypeOK
<1>2. OneClient /\ Handshake /\ Held
  BY PoolAssumption DEF Init, OneClient, Handshake, Held, Waits, Working
<1>3. SlotPhase
  BY DEF Init, SlotPhase, Absent, Slots
<1>4. JobOwner /\ Bounds /\ Emptied
  BY DEF Init, JobOwner, Bounds, Emptied
<1>5. Placement /\ Outcome
  BY DEF Init, Placement, Outcome
<1>6. QED
  BY <1>1, <1>2, <1>3, <1>4, <1>5 DEF IInv


(* Taking the lock changes no slot. *)
LEMMA AcquireStep ==
  ASSUME IInv, NEW c \in Clients, NEW what \in {"run", "unload"}, Acquire(c, what)
  PROVE  IInv'
<1>1. TypeOK'
  BY PoolAssumption DEF IInv, Acquire, TypeOK, Goto, poolVars, slotVars,
     Slots, Cpus
<1>2. OneClient'
  BY PoolAssumption DEF IInv, Acquire, OneClient, Goto, poolVars, slotVars,
     TypeOK
<1>3. Handshake'
  BY PoolAssumption DEF IInv, Acquire, Handshake, Goto, poolVars, slotVars,
     Waits, Working
<1>4. Held'
  BY PoolAssumption DEF IInv, Acquire, Held, Goto, poolVars, slotVars, Waits
<1>5. SlotPhase'
  BY PoolAssumption DEF IInv, Acquire, SlotPhase, Goto, poolVars, slotVars,
     Absent, Asleep, Told, Employed, TypeOK, OneClient, Handshake, Waits,
     Working
<1>6. JobOwner'
  BY PoolAssumption DEF IInv, Acquire, JobOwner, Goto, poolVars, slotVars,
     Active, Slots, TypeOK, OneClient, Handshake, Waits, Working
<1>7. Bounds'
  BY PoolAssumption DEF IInv, Acquire, Bounds, Goto, poolVars, slotVars
<1>8. Emptied'
  BY PoolAssumption DEF IInv, Acquire, Emptied, Goto, poolVars, slotVars
<1>9. Placement'
  BY PoolAssumption DEF IInv, Acquire, Placement, Goto, poolVars, slotVars,
     MaskCpus, Active, Slots, Waits
<1>10. Outcome'
  BY PoolAssumption DEF IInv, Acquire, Outcome, Goto, poolVars, slotVars,
     Active, Slots, Waits
<1> QED
  BY <1>1, <1>2, <1>3, <1>4, <1>5, <1>6, <1>7, <1>8, <1>9, <1>10 DEF IInv

(* Loading the weights into a buffer of the run. *)
LEMMA LoadModelStep ==
  ASSUME IInv, NEW c \in Clients, LoadModel(c)
  PROVE  IInv'
<1>1. TypeOK'
  BY PoolAssumption DEF IInv, LoadModel, TypeOK, poolVars, slotVars, Slots,
     Cpus
<1>2. OneClient'
  BY PoolAssumption DEF IInv, LoadModel, OneClient, poolVars, slotVars
<1>3. Handshake'
  BY PoolAssumption DEF IInv, LoadModel, Handshake, poolVars, slotVars,
     Waits, Working
<1>4. Held'
  BY PoolAssumption DEF IInv, LoadModel, Held, poolVars, slotVars, Waits
<1>5. SlotPhase'
  BY PoolAssumption DEF IInv, LoadModel, SlotPhase, poolVars, slotVars,
     Absent, Asleep, Told, Employed
<1>6. JobOwner'
  BY PoolAssumption DEF IInv, LoadModel, JobOwner, poolVars, slotVars,
     Active, Slots
<1>7. Bounds'
  BY PoolAssumption DEF IInv, LoadModel, Bounds, poolVars, slotVars
<1>8. Emptied'
  BY PoolAssumption DEF IInv, LoadModel, Emptied, poolVars, slotVars
<1>9. Placement'
  BY PoolAssumption DEF IInv, LoadModel, Placement, poolVars, slotVars,
     MaskCpus, Active, Slots, Waits
<1>10. Outcome'
  BY PoolAssumption DEF IInv, LoadModel, Outcome, poolVars, slotVars, Active,
     Slots, Waits
<1> QED
  BY <1>1, <1>2, <1>3, <1>4, <1>5, <1>6, <1>7, <1>8, <1>9, <1>10 DEF IInv

(* Asking for the pool of a mask. *)
LEMMA StartMatvecStep ==
  ASSUME IInv, NEW c \in Clients, NEW m \in Masks, StartMatvec(c, m)
  PROVE  IInv'
<1>1. TypeOK'
  <2>1. request = 0 /\ lock = c
    BY DEF IInv, TypeOK, OneClient, Handshake, Waits, StartMatvec
  <2>2. CASE pc' = [pc EXCEPT ![c] = "conf_wait"] /\ request' = request + 1
          /\ command' = "configure" /\ requested' = m /\ started' = TRUE
          /\ svc' \in {svc, "wait"} /\ UNCHANGED <<mask, count, result>>
    BY <2>1, <2>2, PoolAssumption DEF IInv, TypeOK, StartMatvec, slotVars, Slots, Cpus
  <2>3. CASE pc' \in {[pc EXCEPT ![c] = "configured"], [pc EXCEPT ![c] = "failed"]}
          /\ UNCHANGED <<poolVars, request, svc>>
    BY <2>1, <2>3, PoolAssumption DEF IInv, TypeOK, StartMatvec, poolVars, slotVars, Slots, Cpus
  <2>4. QED
    BY <2>2, <2>3 DEF StartMatvec, Configure, Goto
<1>2. OneClient'
  BY PoolAssumption DEF IInv, StartMatvec, OneClient, Configure, slotVars,
     Goto, NothingToStop, AlreadyConfigured, CannotStart, poolVars, TypeOK
<1>3. Handshake'
  BY PoolAssumption DEF IInv, StartMatvec, Handshake, Configure, slotVars,
     Goto, NothingToStop, AlreadyConfigured, CannotStart, poolVars, Waits,
     Working, TypeOK, OneClient
<1>4. Held'
  <2>1. m # {} /\ lock = c
    BY PoolAssumption DEF IInv, TypeOK, OneClient, StartMatvec
  <2>2. pc'[c] \in {"configured", "conf_wait"} => started' /\ inputs' = inputs \cup {c}
    BY <2>1 DEF IInv, TypeOK, StartMatvec, Configure, Goto, NothingToStop,
                AlreadyConfigured, poolVars
  <2>3. \A d \in Clients : d # c => pc'[d] = "idle"
    BY <2>1 DEF IInv, TypeOK, OneClient, StartMatvec, Configure, Goto
  <2>4. pc'[c] # "run_wait"
    BY <2>1 DEF IInv, TypeOK, StartMatvec, Configure, Goto
  <2>5. QED
    BY <2>2, <2>3, <2>4 DEF Held, Waits, StartMatvec
<1>5. SlotPhase'
  BY PoolAssumption DEF IInv, StartMatvec, SlotPhase, Configure, slotVars,
     Goto, NothingToStop, AlreadyConfigured, CannotStart, poolVars, Absent,
     Asleep, Told, Employed, TypeOK, OneClient, Handshake, Waits, Working
<1>6. JobOwner'
  BY PoolAssumption DEF IInv, StartMatvec, JobOwner, Configure, slotVars,
     Goto, NothingToStop, AlreadyConfigured, CannotStart, poolVars, Active,
     Slots
<1>7. Bounds'
  BY PoolAssumption DEF IInv, StartMatvec, Bounds, Configure, slotVars, Goto,
     NothingToStop, AlreadyConfigured, CannotStart, poolVars
<1>8. Emptied'
  BY PoolAssumption DEF IInv, StartMatvec, Emptied, Configure, slotVars,
     Goto, NothingToStop, AlreadyConfigured, CannotStart, poolVars, TypeOK,
     OneClient, Handshake, Waits, Working
<1>9. Placement'
  <2>1. m # {} /\ lock = c /\ reply = 0 /\ svc \notin Working /\ cpu' = cpu
    BY PoolAssumption DEF IInv, TypeOK, OneClient, Handshake, StartMatvec, Waits,
                          slotVars
  <2>2. mask' = mask /\ count' = count /\ svc' \notin Working /\ reply' = 0
    BY <2>1 DEF StartMatvec, Configure, poolVars, Working
  <2>3. mask # {} => mask' = MaskCpus'
    BY <2>1, <2>2 DEF IInv, Placement, MaskCpus, Active, Working
  <2>4. /\ pc'[c] = "conf_wait" => requested' # {}
        /\ pc'[c] = "configured" => mask' # {}
        /\ pc'[c] # "run_wait"
    BY <2>1, <2>2 DEF IInv, TypeOK, StartMatvec, Configure, Goto, NothingToStop,
                      AlreadyConfigured, poolVars
  <2>5. \A d \in Clients : d # c => pc'[d] = "idle"
    BY <2>1 DEF IInv, TypeOK, OneClient, StartMatvec, Configure, Goto
  <2>6. QED
    BY <2>2, <2>3, <2>4, <2>5 DEF Placement, Working
<1>10. Outcome'
  BY PoolAssumption DEF IInv, StartMatvec, Outcome, Configure, slotVars,
     Goto, NothingToStop, AlreadyConfigured, CannotStart, poolVars, Active,
     Slots, Waits, TypeOK
<1> QED
  BY <1>1, <1>2, <1>3, <1>4, <1>5, <1>6, <1>7, <1>8, <1>9, <1>10 DEF IInv

(* Asking for an empty pool. *)
LEMMA StartUnloadStep ==
  ASSUME IInv, NEW c \in Clients, StartUnload(c)
  PROVE  IInv'
<1>1. TypeOK'
  <2>1. request = 0 /\ lock = c
    BY DEF IInv, TypeOK, OneClient, Handshake, Waits, StartUnload
  <2>2. CASE pc' = [pc EXCEPT ![c] = "conf_wait"] /\ request' = request + 1
          /\ command' = "configure" /\ requested' = {} /\ started' = TRUE
          /\ svc' \in {svc, "wait"} /\ UNCHANGED <<mask, count, result>>
    BY <2>1, <2>2, PoolAssumption DEF IInv, TypeOK, StartUnload, slotVars, Slots, Cpus
  <2>3. CASE pc' \in {[pc EXCEPT ![c] = "configured"], [pc EXCEPT ![c] = "failed"]}
          /\ UNCHANGED <<poolVars, request, svc>>
    BY <2>1, <2>3, PoolAssumption DEF IInv, TypeOK, StartUnload, poolVars, slotVars, Slots, Cpus
  <2>4. QED
    BY <2>2, <2>3 DEF StartUnload, Configure, Goto
<1>2. OneClient'
  BY PoolAssumption DEF IInv, StartUnload, OneClient, Configure, slotVars,
     Goto, NothingToStop, AlreadyConfigured, CannotStart, poolVars, TypeOK
<1>3. Handshake'
  BY PoolAssumption DEF IInv, StartUnload, Handshake, Configure, slotVars,
     Goto, NothingToStop, AlreadyConfigured, CannotStart, poolVars, Waits,
     Working, TypeOK, OneClient
<1>4. Held'
  BY PoolAssumption DEF IInv, StartUnload, Held, Configure, slotVars, Goto,
     NothingToStop, AlreadyConfigured, CannotStart, poolVars, Waits, TypeOK
<1>5. SlotPhase'
  BY PoolAssumption DEF IInv, StartUnload, SlotPhase, Configure, slotVars,
     Goto, NothingToStop, AlreadyConfigured, CannotStart, poolVars, Absent,
     Asleep, Told, Employed
<1>6. JobOwner'
  BY PoolAssumption DEF IInv, StartUnload, JobOwner, Configure, slotVars,
     Goto, NothingToStop, AlreadyConfigured, CannotStart, poolVars, Active,
     Slots
<1>7. Bounds'
  BY PoolAssumption DEF IInv, StartUnload, Bounds, Configure, slotVars, Goto,
     NothingToStop, AlreadyConfigured, CannotStart, poolVars
<1>8. Emptied'
  BY PoolAssumption DEF IInv, StartUnload, Emptied, Configure, slotVars,
     Goto, NothingToStop, AlreadyConfigured, CannotStart, poolVars, TypeOK,
     OneClient, Handshake, Waits, Working, Bounds, Slots
<1>9. Placement'
  BY PoolAssumption DEF IInv, StartUnload, Placement, Configure, slotVars,
     Goto, NothingToStop, AlreadyConfigured, CannotStart, poolVars, MaskCpus,
     Active, Slots, Waits, TypeOK, OneClient, Handshake, Working
<1>10. Outcome'
  BY PoolAssumption DEF IInv, StartUnload, Outcome, Configure, slotVars,
     Goto, NothingToStop, AlreadyConfigured, CannotStart, poolVars, Active,
     Slots, Waits, TypeOK
<1> QED
  BY <1>1, <1>2, <1>3, <1>4, <1>5, <1>6, <1>7, <1>8, <1>9, <1>10 DEF IInv

(* The reply to a configure command. *)
LEMMA ConfiguredStep ==
  ASSUME IInv, NEW c \in Clients, Configured(c)
  PROVE  IInv'
<1>1. TypeOK'
  <2>1. reply' \in 0 .. 1 /\ inputs' \subseteq Clients
    BY DEF IInv, TypeOK, Configured
  <2>2. pc' \in [Clients -> {"idle", "held", "conf_wait", "configured",
                               "run_wait", "failed"}]
    BY DEF IInv, TypeOK, Configured, Goto
  <2> QED
    BY <2>1, <2>2 DEF IInv, TypeOK, Configured, poolVars, slotVars
<1>2. OneClient'
  BY PoolAssumption DEF IInv, Configured, OneClient, Goto, poolVars,
     slotVars, TypeOK
<1>3. Handshake'
  BY PoolAssumption DEF IInv, Configured, Handshake, Goto, poolVars,
     slotVars, Waits, Working, TypeOK
<1>4. Held'
  BY PoolAssumption DEF IInv, Configured, Held, Goto, poolVars, slotVars,
     Waits, TypeOK
<1>5. SlotPhase'
  BY PoolAssumption DEF IInv, Configured, SlotPhase, Goto, poolVars,
     slotVars, Absent, Asleep, Told, Employed
<1>6. JobOwner'
  BY PoolAssumption DEF IInv, Configured, JobOwner, Goto, poolVars, slotVars,
     Active, Slots
<1>7. Bounds'
  BY PoolAssumption DEF IInv, Configured, Bounds, Goto, poolVars, slotVars
<1>8. Emptied'
  BY PoolAssumption DEF IInv, Configured, Emptied, Goto, poolVars, slotVars,
     TypeOK
<1>9. Placement'
  BY PoolAssumption DEF IInv, Configured, Placement, Goto, poolVars,
     slotVars, MaskCpus, Active, Slots, Waits, TypeOK
<1>10. Outcome'
  BY PoolAssumption DEF IInv, Configured, Outcome, Goto, poolVars, slotVars,
     Active, Slots, Waits, TypeOK
<1> QED
  BY <1>1, <1>2, <1>3, <1>4, <1>5, <1>6, <1>7, <1>8, <1>9, <1>10 DEF IInv

(* Filling the slots of a quiet pool. *)
LEMMA PostRunStep ==
  ASSUME IInv, NEW c \in Clients, PostRun(c)
  PROVE  IInv'
<1>1. TypeOK'
  <2>1. request = 0 /\ c \in Clients
    BY DEF IInv, OneClient, Handshake, TypeOK, Waits, PostRun
  <2>2. request' \in 0 .. 1 /\ command' \in {"none", "configure", "run"}
        /\ pc' \in [Clients -> {"idle", "held", "conf_wait", "configured",
                               "run_wait", "failed"}]
    BY <2>1 DEF IInv, TypeOK, PostRun, Goto
  <2>3. work' \in [Slots -> Clients \cup {NoOne}] /\ status' \in [Slots -> {"ok", "io"}]
    BY DEF IInv, TypeOK, PostRun
  <2> QED
    BY <2>2, <2>3 DEF IInv, TypeOK, PostRun
<1>2. OneClient'
  BY PoolAssumption DEF IInv, PostRun, OneClient, Goto, Active, Slots, Cpus
<1>3. Handshake'
  <2>1. lock = c /\ lock' = c /\ started /\ request = 0 /\ reply = 0
        /\ svc \notin Working
    BY DEF IInv, OneClient, Handshake, TypeOK, Waits, Held, PostRun
  <2>2. svc = "wait" /\ svc' = "wait" /\ request' = 1 /\ reply' = 0
    BY <2>1 DEF IInv, Handshake, TypeOK, Working, PostRun
  <2>3. \A d \in Clients : pc'[d] \in Waits <=> d = c
    BY <2>1 DEF IInv, TypeOK, OneClient, PostRun, Goto, Waits
  <2>4. pc'[c] = "run_wait"
    BY DEF IInv, TypeOK, PostRun, Goto
  <2>5. QED
    BY <2>1, <2>2, <2>3, <2>4 DEF Handshake, PostRun, Waits, Working
<1>4. Held'
  BY PoolAssumption DEF IInv, PostRun, Held, Goto, Active, Slots, Cpus, Waits
<1>5. SlotPhase'
  BY PoolAssumption DEF IInv, PostRun, SlotPhase, Goto, Active, Slots, Cpus,
     Absent, Asleep, Told, Employed, TypeOK, OneClient
<1>6. JobOwner'
  BY PoolAssumption DEF IInv, PostRun, JobOwner, Goto, Active, Slots, Cpus,
     TypeOK, OneClient
<1>7. Bounds'
  BY PoolAssumption DEF IInv, PostRun, Bounds, Goto, Active, Slots, Cpus
<1>8. Emptied'
  BY PoolAssumption DEF IInv, PostRun, Emptied, Goto, Active, Slots, Cpus
<1>9. Placement'
  BY PoolAssumption DEF IInv, PostRun, Placement, Goto, Active, Slots, Cpus,
     MaskCpus, Waits
<1>10. Outcome'
  BY PoolAssumption DEF IInv, PostRun, Outcome, Goto, Active, Slots, Cpus,
     Waits, TypeOK, OneClient, Handshake, Working
<1> QED
  BY <1>1, <1>2, <1>3, <1>4, <1>5, <1>6, <1>7, <1>8, <1>9, <1>10 DEF IInv

(* The reply to a run command. *)
LEMMA RunDoneStep ==
  ASSUME IInv, NEW c \in Clients, RunDone(c)
  PROVE  IInv'
<1>1. TypeOK'
  <2>1. reply' \in 0 .. 1 /\ inputs' \subseteq Clients
    BY DEF IInv, TypeOK, RunDone
  <2>2. pc' \in [Clients -> {"idle", "held", "conf_wait", "configured",
                               "run_wait", "failed"}]
    BY DEF IInv, TypeOK, RunDone, Goto
  <2> QED
    BY <2>1, <2>2 DEF IInv, TypeOK, RunDone, poolVars, slotVars
<1>2. OneClient'
  BY PoolAssumption DEF IInv, RunDone, OneClient, Goto, poolVars, slotVars
<1>3. Handshake'
  BY PoolAssumption DEF IInv, RunDone, Handshake, Goto, poolVars, slotVars,
     Waits, Working, TypeOK
<1>4. Held'
  BY PoolAssumption DEF IInv, RunDone, Held, Goto, poolVars, slotVars, Waits,
     TypeOK
<1>5. SlotPhase'
  BY PoolAssumption DEF IInv, RunDone, SlotPhase, Goto, poolVars, slotVars,
     Absent, Asleep, Told, Employed
<1>6. JobOwner'
  BY PoolAssumption DEF IInv, RunDone, JobOwner, Goto, poolVars, slotVars,
     Active, Slots
<1>7. Bounds'
  BY PoolAssumption DEF IInv, RunDone, Bounds, Goto, poolVars, slotVars
<1>8. Emptied'
  BY PoolAssumption DEF IInv, RunDone, Emptied, Goto, poolVars, slotVars,
     TypeOK
<1>9. Placement'
  BY PoolAssumption DEF IInv, RunDone, Placement, Goto, poolVars, slotVars,
     MaskCpus, Active, Slots, Waits, TypeOK
<1>10. Outcome'
  BY PoolAssumption DEF IInv, RunDone, Outcome, Goto, poolVars, slotVars,
     Active, Slots, Waits, TypeOK
<1> QED
  BY <1>1, <1>2, <1>3, <1>4, <1>5, <1>6, <1>7, <1>8, <1>9, <1>10 DEF IInv

(* Keeping the weights at the end of a run. *)
LEMMA RetainStep ==
  ASSUME IInv, NEW c \in Clients, Retain(c)
  PROVE  IInv'
<1>1. TypeOK'
  BY PoolAssumption DEF IInv, Retain, TypeOK, Release, Goto, poolVars,
     slotVars, Slots, Cpus
<1>2. OneClient'
  BY PoolAssumption DEF IInv, Retain, OneClient, Release, Goto, poolVars,
     slotVars, TypeOK
<1>3. Handshake'
  BY PoolAssumption DEF IInv, Retain, Handshake, Release, Goto, poolVars,
     slotVars, Waits, Working, TypeOK, OneClient
<1>4. Held'
  BY PoolAssumption DEF IInv, Retain, Held, Release, Goto, poolVars,
     slotVars, Waits
<1>5. SlotPhase'
  BY PoolAssumption DEF IInv, Retain, SlotPhase, Release, Goto, poolVars,
     slotVars, Absent, Asleep, Told, Employed, TypeOK, OneClient, Handshake,
     Waits, Working
<1>6. JobOwner'
  BY PoolAssumption DEF IInv, Retain, JobOwner, Release, Goto, poolVars,
     slotVars, Active, Slots, TypeOK, OneClient, Handshake, Waits, Working
<1>7. Bounds'
  BY PoolAssumption DEF IInv, Retain, Bounds, Release, Goto, poolVars,
     slotVars
<1>8. Emptied'
  BY PoolAssumption DEF IInv, Retain, Emptied, Release, Goto, poolVars,
     slotVars
<1>9. Placement'
  BY PoolAssumption DEF IInv, Retain, Placement, Release, Goto, poolVars,
     slotVars, MaskCpus, Active, Slots, Waits
<1>10. Outcome'
  BY PoolAssumption DEF IInv, Retain, Outcome, Release, Goto, poolVars,
     slotVars, Active, Slots, Waits
<1> QED
  BY <1>1, <1>2, <1>3, <1>4, <1>5, <1>6, <1>7, <1>8, <1>9, <1>10 DEF IInv

(* Dropping the weights of a failed run. *)
LEMMA AbandonStep ==
  ASSUME IInv, NEW c \in Clients, Abandon(c)
  PROVE  IInv'
<1>1. TypeOK'
  BY PoolAssumption DEF IInv, Abandon, TypeOK, Release, Goto, poolVars,
     slotVars, Slots, Cpus
<1>2. OneClient'
  BY PoolAssumption DEF IInv, Abandon, OneClient, Release, Goto, poolVars,
     slotVars, TypeOK
<1>3. Handshake'
  BY PoolAssumption DEF IInv, Abandon, Handshake, Release, Goto, poolVars,
     slotVars, Waits, Working, TypeOK, OneClient
<1>4. Held'
  BY PoolAssumption DEF IInv, Abandon, Held, Release, Goto, poolVars,
     slotVars, Waits, TypeOK, OneClient
<1>5. SlotPhase'
  BY PoolAssumption DEF IInv, Abandon, SlotPhase, Release, Goto, poolVars,
     slotVars, Absent, Asleep, Told, Employed, TypeOK, OneClient, Handshake,
     Waits, Working
<1>6. JobOwner'
  BY PoolAssumption DEF IInv, Abandon, JobOwner, Release, Goto, poolVars,
     slotVars, Active, Slots, TypeOK, OneClient, Handshake, Waits, Working
<1>7. Bounds'
  BY PoolAssumption DEF IInv, Abandon, Bounds, Release, Goto, poolVars,
     slotVars
<1>8. Emptied'
  BY PoolAssumption DEF IInv, Abandon, Emptied, Release, Goto, poolVars,
     slotVars
<1>9. Placement'
  BY PoolAssumption DEF IInv, Abandon, Placement, Release, Goto, poolVars,
     slotVars, MaskCpus, Active, Slots, Waits
<1>10. Outcome'
  BY PoolAssumption DEF IInv, Abandon, Outcome, Release, Goto, poolVars,
     slotVars, Active, Slots, Waits
<1> QED
  BY <1>1, <1>2, <1>3, <1>4, <1>5, <1>6, <1>7, <1>8, <1>9, <1>10 DEF IInv

(* Freeing the cached weights. *)
LEMMA UnloadStep ==
  ASSUME IInv, NEW c \in Clients, Unload(c)
  PROVE  IInv'
<1>1. TypeOK'
  BY PoolAssumption DEF IInv, Unload, TypeOK, Release, Goto, poolVars,
     slotVars, Slots, Cpus
<1>2. OneClient'
  BY PoolAssumption DEF IInv, Unload, OneClient, Release, Goto, poolVars,
     slotVars, TypeOK
<1>3. Handshake'
  BY PoolAssumption DEF IInv, Unload, Handshake, Release, Goto, poolVars,
     slotVars, Waits, Working, TypeOK, OneClient
<1>4. Held'
  BY PoolAssumption DEF IInv, Unload, Held, Release, Goto, poolVars,
     slotVars, Waits, TypeOK, OneClient
<1>5. SlotPhase'
  BY PoolAssumption DEF IInv, Unload, SlotPhase, Release, Goto, poolVars,
     slotVars, Absent, Asleep, Told, Employed, TypeOK, OneClient, Handshake,
     Waits, Working
<1>6. JobOwner'
  BY PoolAssumption DEF IInv, Unload, JobOwner, Release, Goto, poolVars,
     slotVars, Active, Slots, TypeOK, OneClient, Handshake, Waits, Working
<1>7. Bounds'
  BY PoolAssumption DEF IInv, Unload, Bounds, Release, Goto, poolVars,
     slotVars
<1>8. Emptied'
  BY PoolAssumption DEF IInv, Unload, Emptied, Release, Goto, poolVars,
     slotVars
<1>9. Placement'
  BY PoolAssumption DEF IInv, Unload, Placement, Release, Goto, poolVars,
     slotVars, MaskCpus, Active, Slots, Waits
<1>10. Outcome'
  BY PoolAssumption DEF IInv, Unload, Outcome, Release, Goto, poolVars,
     slotVars, Active, Slots, Waits
<1> QED
  BY <1>1, <1>2, <1>3, <1>4, <1>5, <1>6, <1>7, <1>8, <1>9, <1>10 DEF IInv

(* The token moves from the request to the service. *)
LEMMA ServiceTakeStep ==
  ASSUME IInv, ServiceTake
  PROVE  IInv'
<1>1. TypeOK'
  <2>1. request' \in 0 .. 1 /\ cursor' \in 0 .. NCpu
    BY PoolAssumption DEF IInv, TypeOK, ServiceTake
  <2>2. svc' \in {"stopping", "posting"} /\ result' = "ok"
    BY DEF ServiceTake
  <2> QED
    BY <2>1, <2>2 DEF IInv, TypeOK, ServiceTake, clientVars, slotVars
<1>2. OneClient'
  BY PoolAssumption DEF IInv, ServiceTake, OneClient, clientVars, slotVars
<1>3. Handshake'
  BY PoolAssumption DEF IInv, ServiceTake, Handshake, clientVars, slotVars,
     Waits, Working, TypeOK
<1>4. Held'
  BY PoolAssumption DEF IInv, ServiceTake, Held, clientVars, slotVars, Waits
<1>5. SlotPhase'
  BY PoolAssumption DEF IInv, ServiceTake, SlotPhase, clientVars, slotVars,
     Absent, Asleep, Told, Employed, TypeOK, OneClient, Handshake, Waits,
     Working, Bounds, Slots
<1>6. JobOwner'
  BY PoolAssumption DEF IInv, ServiceTake, JobOwner, clientVars, slotVars,
     Active, Slots, TypeOK, OneClient, Handshake, Waits, Working
<1>7. Bounds'
  BY PoolAssumption DEF IInv, ServiceTake, Bounds, clientVars, slotVars,
     TypeOK
<1>8. Emptied'
  BY PoolAssumption DEF IInv, ServiceTake, Emptied, clientVars, slotVars,
     TypeOK, OneClient, Handshake, Waits, Working
<1>9. Placement'
  BY PoolAssumption DEF IInv, ServiceTake, Placement, clientVars, slotVars,
     MaskCpus, Active, Slots, Waits, TypeOK, OneClient, Handshake, Working
<1>10. Outcome'
  BY PoolAssumption DEF IInv, ServiceTake, Outcome, clientVars, slotVars,
     Active, Slots, Waits, TypeOK, OneClient, Handshake, Working
<1> QED
  BY <1>1, <1>2, <1>3, <1>4, <1>5, <1>6, <1>7, <1>8, <1>9, <1>10 DEF IInv

(* A stopped slot goes from asleep to told. *)
LEMMA ServiceStopStep ==
  ASSUME IInv, ServiceStop
  PROVE  IInv'
<1>1. TypeOK'
  <2>1. CASE cursor < count
    <3>1. cursor \in Slots /\ cursor + 1 \in 0 .. NCpu
      BY <2>1, PoolAssumption DEF IInv, TypeOK, Slots
    <3>2. ready[cursor] = 0
      BY <2>1, <3>1 DEF IInv, TypeOK, SlotPhase, Asleep, Slots, ServiceStop
    <3>3. ready' = [ready EXCEPT ![cursor] = 1]
      BY <2>1, <3>2 DEF ServiceStop
    <3>4. ready' \in [Slots -> 0 .. 1]
      BY <3>1, <3>3 DEF IInv, TypeOK
    <3>5. stop' \in [Slots -> BOOLEAN]
      BY <2>1, <3>1 DEF IInv, TypeOK, ServiceStop
    <3>6. QED
      BY <2>1, <3>1, <3>4, <3>5 DEF IInv, TypeOK, ServiceStop, clientVars, poolVars
  <2>2. CASE ~(cursor < count)
    BY <2>2, PoolAssumption DEF IInv, TypeOK, ServiceStop, clientVars, poolVars
  <2>3. QED
    BY <2>1, <2>2
<1>2. OneClient'
  BY PoolAssumption DEF IInv, ServiceStop, OneClient, clientVars, poolVars
<1>3. Handshake'
  BY PoolAssumption DEF IInv, ServiceStop, Handshake, clientVars, poolVars,
     Waits, Working
<1>4. Held'
  BY PoolAssumption DEF IInv, ServiceStop, Held, clientVars, poolVars, Waits
<1>5. SlotPhase'
  BY PoolAssumption DEF IInv, ServiceStop, SlotPhase, clientVars, poolVars,
     Absent, Asleep, Told, Employed, TypeOK, OneClient, Handshake, Waits,
     Working, Bounds, Slots
<1>6. JobOwner'
  BY PoolAssumption DEF IInv, ServiceStop, JobOwner, clientVars, poolVars,
     Active, Slots
<1>7. Bounds'
  BY PoolAssumption DEF IInv, ServiceStop, Bounds, clientVars, poolVars,
     TypeOK
<1>8. Emptied'
  BY PoolAssumption DEF IInv, ServiceStop, Emptied, clientVars, poolVars
<1>9. Placement'
  BY PoolAssumption DEF IInv, ServiceStop, Placement, clientVars, poolVars,
     MaskCpus, Active, Slots, Waits
<1>10. Outcome'
  BY PoolAssumption DEF IInv, ServiceStop, Outcome, clientVars, poolVars,
     Active, Slots, Waits
<1> QED
  BY <1>1, <1>2, <1>3, <1>4, <1>5, <1>6, <1>7, <1>8, <1>9, <1>10 DEF IInv

(* A joined slot goes from told to absent. *)
LEMMA ServiceJoinStep ==
  ASSUME IInv, ServiceJoin
  PROVE  IInv'
<1>1. TypeOK'
  <2>1. cursor' \in 0 .. NCpu
    BY PoolAssumption DEF IInv, TypeOK, ServiceJoin
  <2>2. thread' \in [Slots -> {"none", "waiting", "computing", "exited"}]
    BY DEF IInv, TypeOK, ServiceJoin
  <2> QED
    BY <2>1, <2>2 DEF IInv, TypeOK, ServiceJoin, clientVars, poolVars
<1>2. OneClient'
  BY PoolAssumption DEF IInv, ServiceJoin, OneClient, clientVars, poolVars
<1>3. Handshake'
  BY PoolAssumption DEF IInv, ServiceJoin, Handshake, clientVars, poolVars,
     Waits, Working
<1>4. Held'
  BY PoolAssumption DEF IInv, ServiceJoin, Held, clientVars, poolVars, Waits
<1>5. SlotPhase'
  BY PoolAssumption DEF IInv, ServiceJoin, SlotPhase, clientVars, poolVars,
     Absent, Asleep, Told, Employed, TypeOK, OneClient, Handshake, Waits,
     Working, Bounds, Slots
<1>6. JobOwner'
  BY PoolAssumption DEF IInv, ServiceJoin, JobOwner, clientVars, poolVars,
     Active, Slots
<1>7. Bounds'
  BY PoolAssumption DEF IInv, ServiceJoin, Bounds, clientVars, poolVars,
     TypeOK
<1>8. Emptied'
  BY PoolAssumption DEF IInv, ServiceJoin, Emptied, clientVars, poolVars
<1>9. Placement'
  BY PoolAssumption DEF IInv, ServiceJoin, Placement, clientVars, poolVars,
     MaskCpus, Active, Slots, Waits
<1>10. Outcome'
  BY PoolAssumption DEF IInv, ServiceJoin, Outcome, clientVars, poolVars,
     Active, Slots, Waits
<1> QED
  BY <1>1, <1>2, <1>3, <1>4, <1>5, <1>6, <1>7, <1>8, <1>9, <1>10 DEF IInv

(* With every thread joined the pool is empty. *)
LEMMA ServiceResetStep ==
  ASSUME IInv, ServiceReset
  PROVE  IInv'
<1>1. TypeOK'
  <2>1. reply = 0
    BY DEF IInv, TypeOK, Handshake, Working, ServiceReset
  <2>2. /\ reply' \in 0 .. 1 /\ result' \in {"ok", "io", "again"}
        /\ svc' \in {"creating", "wait"}
    BY <2>1 DEF IInv, TypeOK, ServiceReset, Answer
  <2>3. count' \in 0 .. NCpu /\ cursor' \in 0 .. NCpu /\ mask' = {}
    BY PoolAssumption DEF ServiceReset
  <2> QED
    BY <2>2, <2>3 DEF IInv, TypeOK, ServiceReset, clientVars, slotVars
<1>2. OneClient'
  BY PoolAssumption DEF IInv, ServiceReset, OneClient, Answer, clientVars,
     slotVars
<1>3. Handshake'
  BY PoolAssumption DEF IInv, ServiceReset, Handshake, Answer, clientVars,
     slotVars, Waits, Working, TypeOK
<1>4. Held'
  BY PoolAssumption DEF IInv, ServiceReset, Held, Answer, clientVars,
     slotVars, Waits
<1>5. SlotPhase'
  BY PoolAssumption DEF IInv, ServiceReset, SlotPhase, Answer, clientVars,
     slotVars, Absent, Asleep, Told, Employed, TypeOK, OneClient, Handshake,
     Waits, Working, Bounds, Slots
<1>6. JobOwner'
  BY PoolAssumption DEF IInv, ServiceReset, JobOwner, Answer, clientVars,
     slotVars, Active, Slots
<1>7. Bounds'
  BY PoolAssumption DEF IInv, ServiceReset, Bounds, Answer, clientVars,
     slotVars
<1>8. Emptied'
  BY PoolAssumption DEF IInv, ServiceReset, Emptied, Answer, clientVars,
     slotVars
<1>9. Placement'
  <2>1. MaskCpus' = {} /\ {k \in requested : k < 0} = {}
    <3>1. Active' = {}
      BY PoolAssumption DEF ServiceReset, Active, Slots
    <3>2. MaskCpus' = {}
      BY <3>1 DEF MaskCpus
    <3>3. {k \in requested : k < 0} = {}
      <4>1. \A k \in requested : ~(k < 0)
        BY PoolAssumption DEF IInv, TypeOK, Cpus
      <4>2. QED
        BY <4>1, Zenon
    <3>4. QED
      BY <3>2, <3>3
  <2>2. \A c \in Clients : pc[c] \notin {"configured", "run_wait"}
    BY DEF IInv, TypeOK, OneClient, Handshake, Waits, Working, ServiceReset
  <2>3. reply = 0 /\ (svc' = "wait" => result' = "io")
    BY DEF IInv, TypeOK, Handshake, ServiceReset, Answer
  <2>4. QED
    BY <2>1, <2>2, <2>3 DEF IInv, Placement, ServiceReset, Answer, clientVars
<1>10. Outcome'
  BY PoolAssumption DEF IInv, ServiceReset, Outcome, Answer, clientVars,
     slotVars, Active, Slots, Waits
<1> QED
  BY <1>1, <1>2, <1>3, <1>4, <1>5, <1>6, <1>7, <1>8, <1>9, <1>10 DEF IInv

(* A created slot goes from absent to asleep. *)
LEMMA ServiceCreateStep ==
  ASSUME IInv, ServiceCreate
  PROVE  IInv'
<1>1. TypeOK'
  <2>1. count \in Slots /\ cursor \in Cpus /\ cursor + 1 \in 0 .. NCpu
    BY PoolAssumption DEF IInv, TypeOK, Bounds, ServiceCreate, Slots, Cpus
  <2>2. /\ cpu' \in [Slots -> Cpus] /\ stop' \in [Slots -> BOOLEAN]
        /\ thread' \in [Slots -> {"none", "waiting", "computing", "exited"}]
    BY <2>1 DEF IInv, TypeOK, ServiceCreate
  <2>3. count' \in 0 .. NCpu /\ result' \in {"ok", "io", "again"}
    BY <2>1, PoolAssumption DEF IInv, TypeOK, ServiceCreate, Slots
  <2>4. reply' \in 0 .. 1 /\ svc' \in {"creating", "wait"}
    BY DEF IInv, TypeOK, Handshake, ServiceCreate, Answer
  <2>5. QED
    BY <2>1, <2>2, <2>3, <2>4 DEF IInv, TypeOK, ServiceCreate, clientVars
<1>2. OneClient'
  BY PoolAssumption DEF IInv, ServiceCreate, OneClient, Answer, clientVars
<1>3. Handshake'
  BY PoolAssumption DEF IInv, ServiceCreate, Handshake, Answer, clientVars,
     Waits, Working, TypeOK
<1>4. Held'
  BY PoolAssumption DEF IInv, ServiceCreate, Held, Answer, clientVars, Waits
<1>5. SlotPhase'
  BY PoolAssumption DEF IInv, ServiceCreate, SlotPhase, Answer, clientVars,
     Absent, Asleep, Told, Employed, TypeOK, OneClient, Handshake, Waits,
     Working, Bounds, Slots
<1>6. JobOwner'
  BY PoolAssumption DEF IInv, ServiceCreate, JobOwner, Answer, clientVars,
     Active, Slots, TypeOK, OneClient, Handshake, Waits, Working
<1>7. Bounds'
  BY PoolAssumption DEF IInv, ServiceCreate, Bounds, Answer, clientVars,
     TypeOK
<1>8. Emptied'
  BY PoolAssumption DEF IInv, ServiceCreate, Emptied, Answer, clientVars,
     TypeOK, OneClient, Handshake, Waits, Working
<1>9. Placement'
  <2>1. count \in Slots /\ cursor \in Cpus
    BY PoolAssumption DEF IInv, TypeOK, Bounds, ServiceCreate, Slots, Cpus
  <2>2. mask' = {} /\ mask = {} /\ requested' = requested /\ svc' \in {"creating", "wait"}
    BY DEF IInv, Placement, ServiceCreate, Answer
  <2>3. svc' = "creating" => MaskCpus' = {k \in requested : k < cursor + 1}
    <3>1. CASE cursor \notin requested
      <4>1. MaskCpus' = MaskCpus
        BY <3>1 DEF ServiceCreate, MaskCpus, Active
      <4>2. {k \in requested : k < cursor + 1} = {k \in requested : k < cursor}
        <5>1. \A k \in requested : k < cursor + 1 <=> k < cursor
          BY <2>1, <3>1, PoolAssumption DEF IInv, TypeOK, Cpus
        <5>2. QED
          BY <5>1, Zenon
      <4>3. QED
        BY <4>1, <4>2 DEF IInv, Placement, ServiceCreate
    <3>2. CASE cursor \in requested /\ count' = count + 1
      <4>1. MaskCpus' = MaskCpus \cup {cursor}
        <5>1. Active' = Active \cup {count} /\ count \notin Active
          BY <2>1, <3>2, PoolAssumption DEF Active, Slots
        <5>2. cpu'[count] = cursor /\ \A i \in Active : cpu'[i] = cpu[i]
          BY <2>1, <3>2, <5>1 DEF IInv, TypeOK, ServiceCreate, Active
        <5>3. QED
          BY <5>1, <5>2 DEF MaskCpus
      <4>2. {k \in requested : k < cursor + 1}
              = {k \in requested : k < cursor} \cup {cursor}
        <5>1. \A k \in requested : k < cursor + 1 <=> k < cursor \/ k = cursor
          BY <2>1, <3>2, PoolAssumption DEF IInv, TypeOK, Cpus
        <5>2. QED
          BY <3>2, <5>1, Zenon
      <4>3. QED
        BY <4>1, <4>2 DEF IInv, Placement, ServiceCreate
    <3>3. CASE svc' = "wait"
      BY <3>3
    <3>4. QED
      BY <3>1, <3>2, <3>3 DEF ServiceCreate, Answer
  <2>4. \A c \in Clients : pc[c] \notin {"configured", "run_wait"}
    BY DEF IInv, TypeOK, OneClient, Handshake, Waits, Working, ServiceCreate
  <2>5. svc' = "wait" => result' = "again"
    BY DEF ServiceCreate
  <2>6. svc' = "creating" => reply' = 0
    BY DEF IInv, TypeOK, Handshake, ServiceCreate, Answer
  <2>7. QED
    BY <2>2, <2>3, <2>4, <2>5, <2>6 DEF IInv, Placement, ServiceCreate, clientVars
<1>10. Outcome'
  BY PoolAssumption DEF IInv, ServiceCreate, Outcome, Answer, clientVars,
     Active, Slots, Waits, TypeOK, OneClient, Handshake, Working
<1> QED
  BY <1>1, <1>2, <1>3, <1>4, <1>5, <1>6, <1>7, <1>8, <1>9, <1>10 DEF IInv

(* The reply: the threads cover the mask. *)
LEMMA ServiceCreatedStep ==
  ASSUME IInv, ServiceCreated
  PROVE  IInv'
<1>1. TypeOK'
  BY PoolAssumption DEF IInv, ServiceCreated, TypeOK, Answer, clientVars,
     slotVars, Slots, Cpus, OneClient, Handshake, Waits, Working
<1>2. OneClient'
  BY PoolAssumption DEF IInv, ServiceCreated, OneClient, Answer, clientVars,
     slotVars
<1>3. Handshake'
  BY PoolAssumption DEF IInv, ServiceCreated, Handshake, Answer, clientVars,
     slotVars, Waits, Working, TypeOK
<1>4. Held'
  BY PoolAssumption DEF IInv, ServiceCreated, Held, Answer, clientVars,
     slotVars, Waits
<1>5. SlotPhase'
  BY PoolAssumption DEF IInv, ServiceCreated, SlotPhase, Answer, clientVars,
     slotVars, Absent, Asleep, Told, Employed
<1>6. JobOwner'
  BY PoolAssumption DEF IInv, ServiceCreated, JobOwner, Answer, clientVars,
     slotVars, Active, Slots
<1>7. Bounds'
  BY PoolAssumption DEF IInv, ServiceCreated, Bounds, Answer, clientVars,
     slotVars
<1>8. Emptied'
  BY PoolAssumption DEF IInv, ServiceCreated, Emptied, Answer, clientVars,
     slotVars
<1>9. Placement'
  <2>1. MaskCpus' = requested
    <3>1. MaskCpus' = MaskCpus
      BY DEF ServiceCreated, MaskCpus, Active, slotVars
    <3>2. {k \in requested : k < cursor} = requested
      <4>1. \A k \in requested : k < cursor
        BY PoolAssumption DEF IInv, TypeOK, ServiceCreated, Cpus
      <4>2. QED
        BY <4>1, Zenon
    <3>3. QED
      BY <3>1, <3>2 DEF IInv, Placement, ServiceCreated
  <2>2. \A c \in Clients : pc[c] \notin {"configured", "run_wait"}
    BY DEF IInv, TypeOK, OneClient, Handshake, Waits, Working, ServiceCreated
  <2>3. QED
    BY <2>1, <2>2 DEF IInv, Placement, ServiceCreated, Answer, clientVars
<1>10. Outcome'
  BY PoolAssumption DEF IInv, ServiceCreated, Outcome, Answer, clientVars,
     slotVars, Active, Slots, Waits, TypeOK, OneClient, Handshake, Working
<1> QED
  BY <1>1, <1>2, <1>3, <1>4, <1>5, <1>6, <1>7, <1>8, <1>9, <1>10 DEF IInv

(* A posted slot goes from asleep to employed. *)
LEMMA ServicePostStep ==
  ASSUME IInv, ServicePost
  PROVE  IInv'
<1>1. TypeOK'
  <2>1. CASE cursor < count
    <3>1. cursor \in Slots /\ cursor + 1 \in 0 .. NCpu
      BY <2>1, PoolAssumption DEF IInv, TypeOK, Slots
    <3>2. ready[cursor] = 0
      BY <2>1, <3>1 DEF IInv, TypeOK, SlotPhase, Asleep, Slots, ServicePost
    <3>3. ready' = [ready EXCEPT ![cursor] = 1]
      BY <2>1, <3>2 DEF ServicePost
    <3>4. ready' \in [Slots -> 0 .. 1]
      BY <3>1, <3>3 DEF IInv, TypeOK
    <3>5. stop' \in [Slots -> BOOLEAN]
      BY <2>1, <3>1 DEF IInv, TypeOK, ServicePost
    <3>6. QED
      BY <2>1, <3>1, <3>4, <3>5 DEF IInv, TypeOK, ServicePost, clientVars, poolVars
  <2>2. CASE ~(cursor < count)
    BY <2>2, PoolAssumption DEF IInv, TypeOK, ServicePost, clientVars, poolVars
  <2>3. QED
    BY <2>1, <2>2
<1>2. OneClient'
  BY PoolAssumption DEF IInv, ServicePost, OneClient, clientVars, poolVars
<1>3. Handshake'
  BY PoolAssumption DEF IInv, ServicePost, Handshake, clientVars, poolVars,
     Waits, Working
<1>4. Held'
  BY PoolAssumption DEF IInv, ServicePost, Held, clientVars, poolVars, Waits
<1>5. SlotPhase'
  <2> SUFFICES ASSUME NEW i \in Slots
               PROVE  /\ i >= count => Absent(i)'
                      /\ i < count /\ svc' = "posting" =>
                           IF i < cursor' THEN Employed(i)' ELSE Asleep(i)'
                      /\ i < count /\ svc' = "collecting" =>
                           IF i < cursor' THEN Asleep(i)' ELSE Employed(i)'
    BY DEF SlotPhase, ServicePost, poolVars
  <2>1. CASE cursor < count /\ i = cursor
    <3>1. i < count /\ Asleep(i) /\ work[i] = lock
      BY <2>1 DEF IInv, TypeOK, SlotPhase, JobOwner, ServicePost, Active, Slots
    <3>2. ready' = [ready EXCEPT ![i] = 1] /\ cursor' = i + 1 /\ svc' = "posting"
      BY <2>1, <3>1 DEF ServicePost, Asleep
    <3>3. Employed(i)'
      BY <3>1, <3>2 DEF IInv, TypeOK, ServicePost, Asleep, Employed, clientVars
    <3>4. QED
      BY <3>1, <3>2, <3>3 DEF IInv, TypeOK, Slots
  <2>2. CASE cursor < count /\ i # cursor
    <3>1. /\ i < cursor + 1 <=> i < cursor
          /\ svc' = "posting" /\ cursor' = cursor + 1 /\ ready'[i] = ready[i]
      BY <2>2, PoolAssumption DEF IInv, TypeOK, ServicePost, Slots
    <3>2. /\ Absent(i) <=> Absent(i)'
          /\ Asleep(i) <=> Asleep(i)'
          /\ Employed(i) <=> Employed(i)'
      BY <3>1 DEF ServicePost, Absent, Asleep, Employed, clientVars
    <3>3. QED
      BY <2>2, <3>1, <3>2 DEF IInv, SlotPhase, ServicePost
  <2>3. CASE ~(cursor < count)
    BY <2>3 DEF IInv, TypeOK, SlotPhase, ServicePost, Absent, Asleep, Employed,
                Bounds, clientVars, poolVars, Slots
  <2>4. QED
    BY <2>1, <2>2, <2>3
<1>6. JobOwner'
  BY PoolAssumption DEF IInv, ServicePost, JobOwner, clientVars, poolVars,
     Active, Slots
<1>7. Bounds'
  BY PoolAssumption DEF IInv, ServicePost, Bounds, clientVars, poolVars,
     TypeOK
<1>8. Emptied'
  BY PoolAssumption DEF IInv, ServicePost, Emptied, clientVars, poolVars
<1>9. Placement'
  BY PoolAssumption DEF IInv, ServicePost, Placement, clientVars, poolVars,
     MaskCpus, Active, Slots, Waits
<1>10. Outcome'
  BY PoolAssumption DEF IInv, ServicePost, Outcome, clientVars, poolVars,
     Active, Slots, Waits
<1> QED
  BY <1>1, <1>2, <1>3, <1>4, <1>5, <1>6, <1>7, <1>8, <1>9, <1>10 DEF IInv

(* A collected slot goes from employed to asleep. *)
LEMMA ServiceCollectStep ==
  ASSUME IInv, ServiceCollect
  PROVE  IInv'
<1>1. TypeOK'
  <2>1. cursor \in Slots /\ cursor + 1 \in 0 .. NCpu
    BY PoolAssumption DEF IInv, TypeOK, Slots, ServiceCollect
  <2>2. done[cursor] - 1 = 0
    BY <2>1 DEF IInv, TypeOK, ServiceCollect
  <2>6. done' = [done EXCEPT ![cursor] = 0]
    BY <2>2 DEF ServiceCollect
  <2>3. done' \in [Slots -> 0 .. 1] /\ work' \in [Slots -> Clients \cup {NoOne}]
    BY <2>1, <2>6 DEF IInv, TypeOK, ServiceCollect
  <2>4. result' \in {"ok", "io", "again"}
    BY <2>1 DEF IInv, TypeOK, ServiceCollect
  <2>5. QED
    BY <2>1, <2>3, <2>4 DEF IInv, TypeOK, ServiceCollect, clientVars
<1>2. OneClient'
  BY PoolAssumption DEF IInv, ServiceCollect, OneClient, clientVars
<1>3. Handshake'
  BY PoolAssumption DEF IInv, ServiceCollect, Handshake, clientVars, Waits,
     Working
<1>4. Held'
  BY PoolAssumption DEF IInv, ServiceCollect, Held, clientVars, Waits
<1>5. SlotPhase'
  BY PoolAssumption DEF IInv, ServiceCollect, SlotPhase, clientVars, Absent,
     Asleep, Told, Employed, TypeOK, OneClient, Handshake, Waits, Working,
     Bounds, Slots
<1>6. JobOwner'
  BY PoolAssumption DEF IInv, ServiceCollect, JobOwner, clientVars, Active,
     Slots, TypeOK, OneClient, Handshake, Waits, Working
<1>7. Bounds'
  BY PoolAssumption DEF IInv, ServiceCollect, Bounds, clientVars, TypeOK
<1>8. Emptied'
  BY PoolAssumption DEF IInv, ServiceCollect, Emptied, clientVars
<1>9. Placement'
  BY PoolAssumption DEF IInv, ServiceCollect, Placement, clientVars,
     MaskCpus, Active, Slots, Waits
<1>10. Outcome'
  BY PoolAssumption DEF IInv, ServiceCollect, Outcome, clientVars, Active,
     Slots, Waits, TypeOK
<1> QED
  BY <1>1, <1>2, <1>3, <1>4, <1>5, <1>6, <1>7, <1>8, <1>9, <1>10 DEF IInv

(* The reply: every slot was collected. *)
LEMMA ServiceCollectedStep ==
  ASSUME IInv, ServiceCollected
  PROVE  IInv'
<1>1. TypeOK'
  <2>1. reply = 0
    BY DEF IInv, TypeOK, Handshake, Working, ServiceCollected
  <2>2. reply' \in 0 .. 1 /\ svc' = "wait"
    BY <2>1 DEF ServiceCollected, Answer
  <2> QED
    BY <2>2 DEF IInv, TypeOK, ServiceCollected, clientVars, poolVars, slotVars
<1>2. OneClient'
  BY PoolAssumption DEF IInv, ServiceCollected, OneClient, Answer,
     clientVars, poolVars, slotVars
<1>3. Handshake'
  BY PoolAssumption DEF IInv, ServiceCollected, Handshake, Answer,
     clientVars, poolVars, slotVars, Waits, Working, TypeOK
<1>4. Held'
  BY PoolAssumption DEF IInv, ServiceCollected, Held, Answer, clientVars,
     poolVars, slotVars, Waits
<1>5. SlotPhase'
  BY PoolAssumption DEF IInv, ServiceCollected, SlotPhase, Answer,
     clientVars, poolVars, slotVars, Absent, Asleep, Told, Employed
<1>6. JobOwner'
  BY PoolAssumption DEF IInv, ServiceCollected, JobOwner, Answer, clientVars,
     poolVars, slotVars, Active, Slots
<1>7. Bounds'
  BY PoolAssumption DEF IInv, ServiceCollected, Bounds, Answer, clientVars,
     poolVars, slotVars
<1>8. Emptied'
  BY PoolAssumption DEF IInv, ServiceCollected, Emptied, Answer, clientVars,
     poolVars, slotVars, TypeOK, OneClient, Handshake, Waits, Working
<1>9. Placement'
  BY PoolAssumption DEF IInv, ServiceCollected, Placement, Answer,
     clientVars, poolVars, slotVars, MaskCpus, Active, Slots, Waits, TypeOK,
     OneClient, Handshake, Working
<1>10. Outcome'
  BY PoolAssumption DEF IInv, ServiceCollected, Outcome, Answer, clientVars,
     poolVars, slotVars, Active, Slots, Waits
<1> QED
  BY <1>1, <1>2, <1>3, <1>4, <1>5, <1>6, <1>7, <1>8, <1>9, <1>10 DEF IInv

(* A thread that wakes stays told or employed. *)
LEMMA WorkerWakeStep ==
  ASSUME IInv, NEW w \in Slots, WorkerWake(w)
  PROVE  IInv'
<1>1. TypeOK'
  <2>1. ready[w] - 1 = 0
    BY DEF IInv, TypeOK, WorkerWake
  <2>2. ready' = [ready EXCEPT ![w] = 0]
    BY <2>1 DEF WorkerWake
  <2>3. /\ ready' \in [Slots -> 0 .. 1]
        /\ thread' \in [Slots -> {"none", "waiting", "computing", "exited"}]
    BY <2>2 DEF IInv, TypeOK, WorkerWake
  <2>4. QED
    BY <2>3 DEF IInv, TypeOK, WorkerWake, clientVars, poolVars
<1>2. OneClient'
  BY PoolAssumption DEF IInv, WorkerWake, OneClient, clientVars, poolVars
<1>3. Handshake'
  BY PoolAssumption DEF IInv, WorkerWake, Handshake, clientVars, poolVars,
     Waits, Working
<1>4. Held'
  BY PoolAssumption DEF IInv, WorkerWake, Held, clientVars, poolVars, Waits
<1>5. SlotPhase'
  BY PoolAssumption DEF IInv, WorkerWake, SlotPhase, clientVars, poolVars,
     Absent, Asleep, Told, Employed, TypeOK
<1>6. JobOwner'
  BY PoolAssumption DEF IInv, WorkerWake, JobOwner, clientVars, poolVars,
     Active, Slots
<1>7. Bounds'
  BY PoolAssumption DEF IInv, WorkerWake, Bounds, clientVars, poolVars
<1>8. Emptied'
  BY PoolAssumption DEF IInv, WorkerWake, Emptied, clientVars, poolVars
<1>9. Placement'
  BY PoolAssumption DEF IInv, WorkerWake, Placement, clientVars, poolVars,
     MaskCpus, Active, Slots, Waits
<1>10. Outcome'
  BY PoolAssumption DEF IInv, WorkerWake, Outcome, clientVars, poolVars,
     Active, Slots, Waits
<1> QED
  BY <1>1, <1>2, <1>3, <1>4, <1>5, <1>6, <1>7, <1>8, <1>9, <1>10 DEF IInv

(* A thread that has computed stays employed. *)
LEMMA WorkerFinishStep ==
  ASSUME IInv, NEW w \in Slots, WorkerFinish(w)
  PROVE  IInv'
<1>1. TypeOK'
  <2>1. done[w] = 0
    BY DEF IInv, TypeOK, SlotPhase, Absent, Asleep, Told, Employed, WorkerFinish, Slots
  <2>2. /\ done' \in [Slots -> 0 .. 1] /\ status' \in [Slots -> {"ok", "io"}]
        /\ thread' \in [Slots -> {"none", "waiting", "computing", "exited"}]
    BY <2>1 DEF IInv, TypeOK, WorkerFinish
  <2>3. QED
    BY <2>2 DEF IInv, TypeOK, WorkerFinish, clientVars, poolVars
<1>2. OneClient'
  BY PoolAssumption DEF IInv, WorkerFinish, OneClient, clientVars, poolVars
<1>3. Handshake'
  BY PoolAssumption DEF IInv, WorkerFinish, Handshake, clientVars, poolVars,
     Waits, Working
<1>4. Held'
  BY PoolAssumption DEF IInv, WorkerFinish, Held, clientVars, poolVars, Waits
<1>5. SlotPhase'
  BY PoolAssumption DEF IInv, WorkerFinish, SlotPhase, clientVars, poolVars,
     Absent, Asleep, Told, Employed, TypeOK
<1>6. JobOwner'
  BY PoolAssumption DEF IInv, WorkerFinish, JobOwner, clientVars, poolVars,
     Active, Slots
<1>7. Bounds'
  BY PoolAssumption DEF IInv, WorkerFinish, Bounds, clientVars, poolVars
<1>8. Emptied'
  BY PoolAssumption DEF IInv, WorkerFinish, Emptied, clientVars, poolVars
<1>9. Placement'
  BY PoolAssumption DEF IInv, WorkerFinish, Placement, clientVars, poolVars,
     MaskCpus, Active, Slots, Waits
<1>10. Outcome'
  <2>1. \A i \in Slots : i # w => status'[i] = status[i]
    BY DEF IInv, TypeOK, WorkerFinish
  <2>2. \A i \in Slots : Asleep(i) => i # w
    BY DEF Asleep, WorkerFinish
  <2>3. svc = "collecting" => \A i \in Slots : i < cursor => Asleep(i)
    <3>1. svc = "collecting" => \A i \in Slots : i < cursor => i < count
      BY PoolAssumption DEF IInv, TypeOK, Bounds, Slots
    <3> QED
      BY <3>1 DEF IInv, SlotPhase
  <2>4. \A c \in Clients : reply = 1 => \A i \in Active : Asleep(i)
    BY DEF IInv, Handshake, SlotPhase, Active
  <2> QED
    BY <2>1, <2>2, <2>3, <2>4
    DEF IInv, Outcome, WorkerFinish, clientVars, poolVars, Active
<1> QED
  BY <1>1, <1>2, <1>3, <1>4, <1>5, <1>6, <1>7, <1>8, <1>9, <1>10 DEF IInv

-----------------------------------------------------------------------------
(* Every step of the system, and a step that changes nothing, keeps the      *)
(* invariant.                                                                *)
LEMMA NextStep == IInv /\ [Next]_vars => IInv'
<1> SUFFICES ASSUME IInv, [Next]_vars
             PROVE  IInv'
  OBVIOUS
<1>1. CASE UNCHANGED vars
  BY <1>1 DEF IInv, TypeOK, OneClient, Handshake, Held, SlotPhase, Absent,
              Asleep, Told, Employed, JobOwner, Bounds, Emptied, Placement,
              MaskCpus, Outcome, Waits, Working, Active, vars, clientVars,
              poolVars, slotVars
<1>2. ASSUME NEW c \in Clients, Client(c)
      PROVE  IInv'
  <2>1. ASSUME NEW what \in {"run", "unload"}, Acquire(c, what)
        PROVE  IInv'
    BY <2>1, AcquireStep
  <2>2. ASSUME NEW m \in Masks, StartMatvec(c, m)
        PROVE  IInv'
    BY <2>2, StartMatvecStep
  <2>3. QED
    BY <1>2, <2>1, <2>2, LoadModelStep, StartUnloadStep, ConfiguredStep,
       PostRunStep, RunDoneStep, RetainStep, AbandonStep, UnloadStep DEF Client
<1>3. CASE Service
  BY <1>3, ServiceTakeStep, ServiceStopStep, ServiceJoinStep, ServiceResetStep,
     ServiceCreateStep, ServiceCreatedStep, ServicePostStep, ServiceCollectStep,
     ServiceCollectedStep DEF Service
<1>4. ASSUME NEW w \in Slots, Worker(w)
      PROVE  IInv'
  BY <1>4, WorkerWakeStep, WorkerFinishStep DEF Worker
<1>5. QED
  BY <1>1, <1>2, <1>3, <1>4 DEF Next

(* The invariant holds in every reachable state, whatever the number of      *)
(* clients and CPUs and whatever masks the runs ask for.                     *)
THEOREM Invariance == Spec => []IInv
<1>1. QED
  BY InitIInv, NextStep, PTL DEF Spec

(* Type correctness: in particular no semaphore is ever posted twice, and    *)
(* g_pool_count never exceeds the number of slots.                           *)
THEOREM TypeCorrect == Spec => []TypeOK
<1>1. IInv => TypeOK
  BY DEF IInv
<1>2. QED
  BY <1>1, Invariance, PTL
-----------------------------------------------------------------------------
(* While the client at the lock is not waiting for the service, every        *)
(* compute thread of the pool sleeps and no semaphore of a slot is posted.   *)
LEMMA Quiet ==
  ASSUME IInv, NEW c \in Clients, lock = c, pc[c] \notin Waits,
         NEW i \in Slots
  PROVE  /\ thread[i] \in {"none", "waiting"} /\ ready[i] = 0 /\ done[i] = 0
         /\ i < count => thread[i] = "waiting"
         /\ i >= count => thread[i] = "none"
<1>1. svc \notin Working
  BY DEF IInv, Handshake
<1>2. i >= count \/ i < count
  BY DEF IInv, TypeOK, Slots
<1>3. CASE i >= count
  BY <1>3 DEF IInv, TypeOK, SlotPhase, Absent, Slots
<1>4. CASE i < count
  BY <1>1, <1>4 DEF IInv, TypeOK, SlotPhase, Asleep, Working, Slots
<1>5. QED
  BY <1>2, <1>3, <1>4

(* A thread computes only for the client that waits for its run.             *)
LEMMA Computing ==
  ASSUME IInv, NEW i \in Slots, thread[i] = "computing"
  PROVE  lock \in Clients /\ work[i] = lock /\ mem # "none" /\ lock \in inputs
<1>1. Employed(i) /\ svc \in {"posting", "collecting"}
  BY DEF IInv, TypeOK, SlotPhase, Absent, Asleep, Told, Employed, Slots
<1>2. lock \in Clients /\ pc[lock] = "run_wait" /\ op[lock] = "run"
  BY <1>1 DEF IInv, TypeOK, Handshake, Working, Waits
<1>3. QED
  BY <1>1, <1>2 DEF IInv, Held, Employed, Waits

(* No compute thread reads weights or an input that somebody has freed.      *)
THEOREM BuffersStayAlive == Spec => []BuffersAlive
<1>1. IInv => BuffersAlive
  BY Computing DEF BuffersAlive
<1>2. QED
  BY <1>1, Invariance, PTL

(* The slots are rewritten only between two runs, with nothing in flight.    *)
THEOREM SlotsStayQuiet == Spec => []SlotsQuiet
<1>1. IInv => SlotsQuiet
  <2> SUFFICES ASSUME IInv, NEW c \in Clients, pc[c] = "configured",
                      NEW i \in Slots
               PROVE  thread[i] # "computing" /\ ready[i] = 0 /\ done[i] = 0
    BY DEF SlotsQuiet
  <2>1. lock = c /\ pc[c] \notin Waits
    BY DEF IInv, OneClient, Waits
  <2>2. QED
    BY <2>1, Quiet
<1>2. QED
  BY <1>1, Invariance, PTL

(* A run that reports success was computed by one thread on each CPU of the  *)
(* mask, and every one of them succeeded.                                    *)
THEOREM RepliesAreHonest == Spec => []HonestReply
<1>1. IInv => HonestReply
  <2> SUFFICES ASSUME IInv, NEW c \in Clients, pc[c] = "run_wait", reply > 0,
                      result = "ok"
               PROVE  /\ count # 0
                      /\ \A i \in Active : status[i] = "ok" /\ thread[i] = "waiting"
                      /\ mask = {cpu[i] : i \in Active}
    BY DEF HonestReply
  <2>1. reply = 1 /\ op[c] = "run" /\ svc = "wait"
    BY DEF IInv, TypeOK, Handshake
  <2>2. mask = MaskCpus /\ mask # {}
    BY <2>1 DEF IInv, Placement
  <2>3. \A i \in Active : status[i] = "ok"
    BY <2>1 DEF IInv, Outcome
  <2>4. \A i \in Active : thread[i] = "waiting"
    BY <2>1 DEF IInv, SlotPhase, Asleep, Active
  <2>5. count # 0
    BY <2>2 DEF MaskCpus, Active, Slots, IInv, TypeOK
  <2>6. QED
    BY <2>2, <2>3, <2>4, <2>5 DEF MaskCpus
<1>2. QED
  BY <1>1, Invariance, PTL
-----------------------------------------------------------------------------
Computers == {i \in Slots : thread[i] = "computing"}

(* A step of the pool is a step of the memory protocol, or leaves the        *)
(* weights and their readers alone.                                          *)
LEMMA MemoryStep == IInv /\ [Next]_vars => [Memory!MemNext]_<<mem, Computers>>
<1> SUFFICES ASSUME IInv, [Next]_vars
             PROVE  Memory!MemNext \/ UNCHANGED <<mem, Computers>>
  BY DEF Computers
<1>1. CASE UNCHANGED <<mem, thread>>
  BY <1>1 DEF Computers
<1>2. ASSUME NEW c \in Clients, lock = c, pc[c] \notin Waits
      PROVE  Computers = {}
  BY <1>2, Quiet DEF Computers
<1>3. ASSUME NEW c \in Clients, LoadModel(c)
      PROVE  Memory!Load
  <2>1. Computers = {}
    BY <1>2, <1>3 DEF IInv, OneClient, Waits, LoadModel
  <2>2. QED
    BY <1>3, <2>1 DEF LoadModel, Memory!Load, Computers, slotVars
<1>4. ASSUME NEW c \in Clients, Retain(c)
      PROVE  Memory!Retain \/ UNCHANGED <<mem, Computers>>
  BY <1>4 DEF IInv, TypeOK, Retain, Release, Memory!Retain, Computers, slotVars
<1>5. ASSUME NEW c \in Clients, Abandon(c) \/ Unload(c)
      PROVE  Memory!Discard \/ UNCHANGED <<mem, Computers>>
  <2>1. Computers = {}
    BY <1>2, <1>5 DEF IInv, OneClient, Waits, Abandon, Unload
  <2>2. thread' = thread /\ (mem' = mem \/ mem' = "none")
    BY <1>5 DEF Abandon, Unload, Release, slotVars
  <2>3. QED
    BY <2>1, <2>2 DEF IInv, TypeOK, Memory!Discard, Computers
<1>6. CASE ServiceJoin
  <2>1. \A i \in Slots : thread'[i] = "computing" <=> thread[i] = "computing"
    BY <1>6 DEF IInv, TypeOK, ServiceJoin
  <2>2. QED
    BY <1>6, <2>1 DEF Computers, ServiceJoin, clientVars
<1>7. CASE ServiceCreate
  <2>1. count \in Slots /\ Absent(count)
    BY <1>7, PoolAssumption DEF IInv, TypeOK, SlotPhase, Bounds, ServiceCreate, Slots
  <2>2. \A i \in Slots : thread'[i] = "computing" <=> thread[i] = "computing"
    BY <1>7, <2>1 DEF IInv, TypeOK, ServiceCreate, Absent
  <2>3. QED
    BY <1>7, <2>2 DEF Computers, ServiceCreate, clientVars
<1>8. ASSUME NEW w \in Slots, WorkerWake(w)
      PROVE  Memory!StartRead(w) \/ UNCHANGED <<mem, Computers>>
  <2>1. CASE stop[w] = TRUE
    <3>1. \A i \in Slots : thread'[i] = "computing" <=> thread[i] = "computing"
      BY <1>8, <2>1 DEF IInv, TypeOK, WorkerWake
    <3>2. QED
      BY <1>8, <3>1 DEF Computers, WorkerWake, clientVars
  <2>2. CASE stop[w] = FALSE
    <3>1. thread' = [thread EXCEPT ![w] = "computing"] /\ mem' = mem
      BY <1>8, <2>2 DEF WorkerWake, clientVars
    <3>2. mem # "none"
      <4>1. IInv'
        BY <1>8, WorkerWakeStep
      <4>2. thread'[w] = "computing"
        BY <3>1 DEF IInv, TypeOK
      <4>3. Employed(w) /\ svc \in {"posting", "collecting"}
        BY <1>8, <2>2 DEF IInv, TypeOK, SlotPhase, Absent, Asleep, Told, Employed,
                          Slots, WorkerWake
      <4>4. lock \in Clients /\ pc[lock] = "run_wait" /\ op[lock] = "run"
        BY <4>3 DEF IInv, TypeOK, Handshake, Working, Waits
      <4>5. QED
        BY <4>4 DEF IInv, Held, Waits
    <3>3. Computers' = Computers \cup {w}
      BY <3>1 DEF IInv, TypeOK, Computers
    <3>4. QED
      BY <3>1, <3>2, <3>3 DEF Memory!StartRead, Computers
  <2>3. QED
    BY <2>1, <2>2 DEF IInv, TypeOK
<1>9. ASSUME NEW w \in Slots, WorkerFinish(w)
      PROVE  Memory!EndRead(w)
  <2>1. Computers' = Computers \ {w}
    BY <1>9 DEF IInv, TypeOK, WorkerFinish, Computers
  <2>2. QED
    BY <1>9, <2>1 DEF WorkerFinish, Memory!EndRead, Computers, clientVars
<1>10. ASSUME NEW c \in Clients, Client(c)
       PROVE  \/ UNCHANGED <<mem, thread>> \/ LoadModel(c) \/ Retain(c)
              \/ Abandon(c) \/ Unload(c)
  BY <1>10 DEF Client, Acquire, StartMatvec, StartUnload, Configured, PostRun,
               RunDone, slotVars
<1>11. ASSUME Service
       PROVE  UNCHANGED <<mem, thread>> \/ ServiceJoin \/ ServiceCreate
  BY <1>11 DEF Service, ServiceTake, ServiceStop, ServiceReset, ServiceCreated,
               ServicePost, ServiceCollect, ServiceCollected, clientVars,
               slotVars
<1>12. QED
  BY <1>1, <1>3, <1>4, <1>5, <1>6, <1>7, <1>8, <1>9, <1>10, <1>11
     DEF Next, Worker, vars, clientVars, slotVars, Memory!MemNext

(* The pool implements the promise about the weights: they are released only *)
(* while no thread reads them, and read only while they exist.               *)
THEOREM PoolImplementsMemory == Spec => MemoryProtocol
<1>1. Init => Memory!MemInit
  BY DEF Init, Memory!MemInit
<1>2. IInv /\ [Next]_vars => [Memory!MemNext]_(Memory!memVars)
  BY MemoryStep DEF Computers, Memory!memVars
<1>3. QED
  BY <1>1, <1>2, Invariance, PTL DEF Spec, MemoryProtocol, Memory!MemSpec

(* Jobs are computed from live buffers, by threads that see their slots, and *)
(* are reported as they went.                                                *)
THEOREM JobsStaySound == Spec => []JobsAreSound
BY BuffersStayAlive, SlotsStayQuiet, RepliesAreHonest, PTL DEF JobsAreSound

(* An unload frees the cached weights only after the last thread was joined. *)
THEOREM FreedAfterJoin == Spec => FreeAfterJoin
<1>1. IInv /\ [Next]_vars =>
        [mem = "cached" /\ mem' = "none" => \A i \in Slots : thread[i] = "none"]_vars
  <2> SUFFICES ASSUME IInv, Next, mem = "cached", mem' = "none", NEW i \in Slots
               PROVE  thread[i] = "none"
    BY DEF vars, clientVars
  <2>1. PICK c \in Clients : Unload(c) /\ pc[c] = "configured"
    BY DEF Next, Client, Acquire, LoadModel, StartMatvec, StartUnload, Configured,
           PostRun, RunDone, Release, Retain, Abandon, Unload, Service,
           ServiceTake, ServiceStop, ServiceJoin, ServiceReset, ServiceCreate,
           ServiceCreated, ServicePost, ServiceCollect, ServiceCollected, Worker,
           WorkerWake, WorkerFinish, clientVars
  <2>2. lock = c /\ count = 0 /\ pc[c] \notin Waits
    BY <2>1 DEF IInv, OneClient, Emptied, Waits, Unload
  <2>3. QED
    BY <2>2, Quiet DEF IInv, TypeOK, Slots
<1>2. QED
  BY <1>1, Invariance, PTL DEF Spec, FreeAfterJoin
=============================================================================
