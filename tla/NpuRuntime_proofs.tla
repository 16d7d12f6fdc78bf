-------------------------- MODULE NpuRuntime_proofs --------------------------
(***************************************************************************)
(* Proofs about the NPU: the execution gate, for any number of threads,    *)
(* files and buffers, and the commands on their buffers, where no two      *)
(* threads share an open file.                                             *)
(***************************************************************************)
EXTENDS NpuRuntime, NpuPool_proofs, FiniteSetTheorems, TLAPS
-----------------------------------------------------------------------------
(* The gate, and an NPU that is idle for whoever is about to start it.       *)
Gated ==
  /\ pc \in [Threads -> Steps] /\ busy \in BOOLEAN
  /\ OneJob
  /\ \A t \in Threads : pc[t] = "start" => job = Nobody

(* What every step of the thread t does to the gate, one of these:           *)
Outside(t) ==       \* it stays out of the gate
  /\ ~Inside(t) /\ pc' \in [Threads -> Steps] /\ ~Inside(t)'
  /\ \A u \in Threads : u # t => pc'[u] = pc[u]
  /\ busy' = busy /\ job' \in {job, Nobody}

Entering(t) ==      \* it enters by the open gate
  /\ ~busy /\ busy' = TRUE /\ job' = job
  /\ pc' = [pc EXCEPT ![t] = "launch"]

Working(t) ==       \* it works behind it
  /\ Inside(t) /\ pc' \in [Threads -> Steps] /\ Inside(t)'
  /\ \A u \in Threads : u # t => pc'[u] = pc[u]
  /\ busy' = busy /\ (pc'[t] = "start" => job' = Nobody)
  /\ job' \in {job, Nobody, t}
  /\ job' = t /\ job # t => job = Nobody

Leaving(t) ==       \* it opens the gate
  /\ Inside(t) /\ pc' \in [Threads -> Steps] /\ ~Inside(t)'
  /\ \A u \in Threads : u # t => pc'[u] = pc[u]
  /\ busy' = FALSE /\ job' = job

Idling == UNCHANGED <<pc, busy>> /\ job' \in {job, Nobody}

(* No such step breaks the gate or starts a working NPU. *)
LEMMA GateStep ==
  ASSUME Gated, NEW t \in Threads,
         Outside(t) \/ Entering(t) \/ Working(t) \/ Leaving(t) \/ Idling
  PROVE  Gated' /\ (job' \notin {Nobody, job} => job = Nobody)
<1>1. CASE Outside(t)
  BY <1>1 DEF Gated, OneJob, Inside, Outside
<1>2. CASE Entering(t)
  BY <1>2 DEF Gated, OneJob, Inside, Entering, Steps
<1>3. CASE Working(t)
  BY <1>3 DEF Gated, OneJob, Inside, Working
<1>4. CASE Leaving(t)
  BY <1>4 DEF Gated, OneJob, Inside, Leaving
<1>5. CASE Idling
  BY <1>5 DEF Gated, OneJob, Inside, Idling
<1> QED
  BY <1>1, <1>2, <1>3, <1>4, <1>5

(* Every action is one of these steps. *)
LEMMA CallSteps ==
  ASSUME Gated, NEW t \in Threads,
         Submit(t) \/ Selftest(t) \/ Run(t) \/ Prepared(t)
  PROVE  Outside(t)
BY DEF Gated, Submit, Selftest, Run, Prepared, Start, Step, Outside, Inside, Steps, npuVars

LEMMA OutsideSteps ==
  ASSUME Gated, NEW t \in Threads,
         \/ Lock(t) \/ Load(t) \/ Clear(t) \/ SetInflight(t) \/ ReadNumber(t)
         \/ WriteNumber(t) \/ ClearInflight(t) \/ RecordTask(t)
         \/ RecordStatus(t) \/ Collect(t) \/ CheckReset(t) \/ Reset(t)
  PROVE  Outside(t)
<1>1. CASE Lock(t) \/ Load(t) \/ Clear(t)
  BY <1>1 DEF Gated, Lock, Load, Clear, Step, Outside, Inside, Steps, npuVars
<1>2. CASE SetInflight(t) \/ ReadNumber(t) \/ WriteNumber(t)
  BY <1>2 DEF Gated, SetInflight, ReadNumber, WriteNumber, Step, Outside, Inside, Steps, npuVars
<1>3. CASE ClearInflight(t) \/ RecordTask(t) \/ RecordStatus(t)
  BY <1>3 DEF Gated, ClearInflight, RecordTask, RecordStatus, Step, Outside, Inside, Steps, npuVars
<1>4. CASE Collect(t) \/ CheckReset(t) \/ Reset(t)
  BY <1>4 DEF Gated, Collect, CheckReset, Reset, Step, Outside, Inside, Steps, npuVars
<1> QED
  BY <1>1, <1>2, <1>3, <1>4

LEMMA GateTried ==
  ASSUME Gated, NEW t \in Threads, Gate(t)
  PROVE  Entering(t) \/ Outside(t)
BY DEF Gated, Gate, After, Step, Entering, Outside, Inside, Steps

LEMMA InsideSteps ==
  ASSUME Gated, NEW t \in Threads,
         Prepare(t) \/ Launch(t) \/ Poll(t) \/ Recover(t)
  PROVE  Working(t)
<1>1. CASE Prepare(t)
  BY <1>1, RuntimeAssumption DEF Gated, Prepare, Step, Working, Inside, Steps
<1>2. CASE Launch(t)
  BY <1>2 DEF Gated, Launch, Step, Working, Inside, Steps
<1>3. CASE Poll(t)
  BY <1>3 DEF Gated, Poll, Step, Working, Inside, Steps, npuVars
<1>4. CASE Recover(t)
  BY <1>4, RuntimeAssumption DEF Gated, Recover, Step, Working, Inside, Steps
<1> QED
  BY <1>1, <1>2, <1>3, <1>4

LEMMA UngateStep ==
  ASSUME Gated, NEW t \in Threads, Ungate(t)
  PROVE  Leaving(t)
BY DEF Gated, Ungate, After, Step, Leaving, Inside, Steps

LEMMA IdleSteps ==
  ASSUME Gated, NEW t \in Threads,
         Complete \/ PoolCall(t) \/ Cancel(t) \/ WriteReset(t) \/ UNCHANGED vars
  PROVE  Idling
BY DEF Complete, PoolCall, Cancel, WriteReset, vars, callVars, npuVars, Idling
-----------------------------------------------------------------------------
LEMMA InitGated == Init => Gated
<1> SUFFICES ASSUME Init PROVE Gated
  OBVIOUS
<1>1. busy = FALSE /\ pc \in [Threads -> Steps] /\ \A t \in Threads : pc[t] = "idle"
  BY DEF Init, Steps
<1> QED
  BY <1>1 DEF Gated, OneJob, Inside

LEMMA NextGated ==
  ASSUME Gated, [Next]_vars
  PROVE  Gated' /\ (job' \notin {Nobody, job} => job = Nobody)
<1>1. CASE Complete \/ UNCHANGED vars
  <2>1. Idling
    BY <1>1 DEF Complete, vars, callVars, npuVars, Idling
  <2> QED
    BY <2>1 DEF Idling, Gated, OneJob, Inside
<1>2. ASSUME NEW t \in Threads,
             \/ PoolCall(t) \/ Submit(t) \/ Selftest(t) \/ Run(t) \/ Prepared(t)
             \/ Cancel(t) \/ CheckReset(t) \/ WriteReset(t) \/ Continue(t)
      PROVE  Gated' /\ (job' \notin {Nobody, job} => job = Nobody)
  <2>1. CASE Submit(t) \/ Selftest(t) \/ Run(t) \/ Prepared(t)
    BY <2>1, GateStep, CallSteps
  <2>2. CASE CheckReset(t) \/ (Continue(t) /\ ~Gate(t) /\ ~Ungate(t)
                /\ ~Prepare(t) /\ ~Launch(t) /\ ~Poll(t) /\ ~Recover(t))
    BY <2>2, GateStep, OutsideSteps DEF Continue
  <2>3. CASE Gate(t)
    BY <2>3, GateStep, GateTried
  <2>4. CASE Prepare(t) \/ Launch(t) \/ Poll(t) \/ Recover(t)
    BY <2>4, GateStep, InsideSteps
  <2>5. CASE Ungate(t)
    BY <2>5, GateStep, UngateStep
  <2>6. CASE PoolCall(t) \/ Cancel(t) \/ WriteReset(t)
    BY <2>6, GateStep, IdleSteps
  <2> QED
    BY <1>2, <2>1, <2>2, <2>3, <2>4, <2>5, <2>6
<1> QED
  BY <1>1, <1>2 DEF Next

(* The gate admits one thread, and is shut exactly while one is inside:      *)
(* whatever fails, times out, is cancelled or reset, from any number of      *)
(* threads, it opens again and only then.                                    *)
THEOREM GateAdmitsOne == Spec => []OneJob
<1>1. Gated /\ [Next]_vars => Gated'
  BY NextGated
<1>2. Gated => OneJob
  BY DEF Gated
<1> QED
  BY InitGated, <1>1, <1>2, PTL DEF Spec

(* No command is started on an NPU that still works on another one, even     *)
(* when the reset after that one failed.                                     *)
THEOREM LaunchesOnIdleNpu == Spec => LaunchOnIdle
<1>1. Gated /\ [Next]_vars => Gated'
  BY NextGated
<1>2. Gated /\ [Next]_vars => [job' \notin {Nobody, job} => job = Nobody]_vars
  BY NextGated
<1> QED
  BY InitGated, <1>1, <1>2, PTL DEF Spec, LaunchOnIdle

(* The NPU works on one command at a time, and the driver on one job.        *)
THEOREM OneCommandAtATime == Spec => OneCommand
BY GateAdmitsOne, LaunchesOnIdleNpu, PTL DEF OneCommand, LaunchOnIdle
-----------------------------------------------------------------------------
(* The commands on their buffers.  No two threads share an open file, as no  *)
(* two files share a context: what only the thread of a file could release,  *)
(* it does not release in the middle of a call.                              *)
OwnFiles == \A t, u \in Threads : FileOf[t] = FileOf[u] => t = u

OwnContexts ==
  /\ context \in [Files -> Contexts \cup {Nobody}]
  /\ \A f, g \in Files : f # g /\ context[f] # Nobody => context[f] # context[g]
  /\ \A f \in Files : context[f] # Nobody => context[f] \in active

(* The thread is in the middle of a submit. *)
Submitting(t) == pc[t] \notin {"idle", "reset"} /\ kind[t] = "submit"

OwnBuffer(t) ==
  /\ context[FileOf[t]] # Nobody
  /\ \E s \in Slots : Finds(context[FileOf[t]], cmd[t], s)

OwnBuffers ==
  /\ kind \in [Threads -> Kinds] /\ cmd \in [Threads -> Handles]
  /\ \A t \in Threads : pc[t] = "protect" => kind[t] = "submit"
  /\ \A t \in Threads : Submitting(t) => OwnBuffer(t)

BufferInv == PoolInv /\ OwnContexts /\ pc \in [Threads -> Steps] /\ OwnBuffers

(* A step of the thread t that goes on with its call, or ends it, or does    *)
(* what needs no buffer, and leaves the pool alone.                          *)
GoesOn(t) ==
  /\ UNCHANGED <<active, bufferVars, context>>
  /\ kind' \in {kind, [kind EXCEPT ![t] = "selftest"], [kind EXCEPT ![t] = "run"],
                [kind EXCEPT ![t] = "prepared"]}
  /\ cmd' \in {cmd, [cmd EXCEPT ![t] = NoHandle]}
  /\ pc' \in [Threads -> Steps] /\ \A u \in Threads : u # t => pc'[u] = pc[u]
  /\ pc'[t] = "protect" => kind'[t] = "submit"
  /\ Submitting(t)' => Submitting(t) /\ UNCHANGED <<kind, cmd>>

LEMMA GoesOnKeeps ==
  ASSUME BufferInv, NEW t \in Threads, GoesOn(t)
  PROVE  OwnContexts' /\ pc' \in [Threads -> Steps] /\ OwnBuffers'
<1>1. \A c, h, s : Finds(c, h, s)' <=> Finds(c, h, s)
  BY DEF GoesOn, Finds, Handle, bufferVars
<1>2. OwnContexts'
  BY DEF BufferInv, OwnContexts, GoesOn
<1>3. kind' \in [Threads -> Kinds] /\ cmd' \in [Threads -> Handles]
  BY DEF BufferInv, OwnBuffers, GoesOn, Kinds, Handles
<1>4. ASSUME NEW u \in Threads PROVE pc'[u] = "protect" => kind'[u] = "submit"
  BY DEF BufferInv, OwnBuffers, GoesOn
<1>5. ASSUME NEW u \in Threads, Submitting(u)' PROVE OwnBuffer(u)'
  <2>1. Submitting(u) /\ cmd'[u] = cmd[u]
    <3>1. CASE u = t
      BY <3>1, <1>5 DEF GoesOn
    <3>2. CASE u # t
      BY <3>2, <1>5 DEF BufferInv, OwnBuffers, GoesOn, Submitting
    <3> QED
      BY <3>1, <3>2
  <2>2. OwnBuffer(u) /\ context' = context
    BY <2>1 DEF BufferInv, OwnBuffers, GoesOn
  <2> QED
    BY <1>1, <2>1, <2>2 DEF OwnBuffer
<1> QED
  BY <1>2, <1>3, <1>4, <1>5 DEF OwnBuffers, GoesOn

LEMMA CallsGoOn ==
  ASSUME BufferInv, NEW t \in Threads,
         \/ Selftest(t) \/ Run(t) \/ Prepared(t) \/ Cancel(t) \/ CheckReset(t)
         \/ WriteReset(t)
  PROVE  GoesOn(t) /\ UNCHANGED poolVars
<1>1. CASE Selftest(t)
  BY <1>1 DEF BufferInv, OwnBuffers, Selftest, Start, Step, GoesOn, Submitting, Steps, poolVars
<1>2. CASE Run(t)
  BY <1>2 DEF BufferInv, OwnBuffers, Run, Start, Step, GoesOn, Submitting, Steps, poolVars
<1>3. CASE Prepared(t)
  BY <1>3 DEF BufferInv, OwnBuffers, Prepared, Start, Step, GoesOn, Submitting, Steps, poolVars
<1>4. CASE Cancel(t) \/ WriteReset(t)
  BY <1>4 DEF BufferInv, OwnBuffers, Cancel, WriteReset, GoesOn, Submitting, poolVars, callVars
<1>5. CASE CheckReset(t)
  BY <1>5 DEF BufferInv, OwnBuffers, CheckReset, Step, GoesOn, Submitting, Steps, poolVars
<1> QED
  BY <1>1, <1>2, <1>3, <1>4, <1>5

LEMMA ContinueGoesOn ==
  ASSUME BufferInv, NEW t \in Threads, Continue(t)
  PROVE  GoesOn(t) /\ (UNCHANGED poolVars \/ SetInflight(t) \/ ClearInflight(t))
<1>1. CASE Lock(t) \/ Load(t) \/ Clear(t)
  BY <1>1 DEF BufferInv, OwnBuffers, Lock, Load, Clear, Step, GoesOn, Submitting, Steps, poolVars
<1>2. CASE SetInflight(t) \/ ClearInflight(t)
  BY <1>2 DEF BufferInv, OwnBuffers, SetInflight, ClearInflight, Protect, Step, GoesOn,
              Submitting, Steps
<1>3. CASE ReadNumber(t) \/ WriteNumber(t) \/ RecordTask(t) \/ RecordStatus(t)
  BY <1>3 DEF BufferInv, OwnBuffers, ReadNumber, WriteNumber, RecordTask, RecordStatus, Step,
              GoesOn, Submitting, Steps, poolVars
<1>4. CASE Gate(t)
  BY <1>4 DEF BufferInv, OwnBuffers, Gate, After, Step, GoesOn, Submitting, Steps, poolVars
<1>5. CASE Ungate(t)
  BY <1>5 DEF BufferInv, OwnBuffers, Ungate, After, Step, GoesOn, Submitting, Steps, poolVars
<1>6. CASE Prepare(t) \/ Launch(t) \/ Poll(t) \/ Recover(t)
  BY <1>6 DEF BufferInv, OwnBuffers, Prepare, Launch, Poll, Recover, Step, GoesOn, Submitting,
              Steps, poolVars
<1>7. CASE Collect(t) \/ Reset(t)
  BY <1>7 DEF BufferInv, OwnBuffers, Collect, Reset, Step, GoesOn, Submitting, Steps, poolVars
<1> QED
  BY <1>1, <1>2, <1>3, <1>4, <1>5, <1>6, <1>7 DEF Continue

(* A submit has found its buffer. *)
LEMMA SubmitKeeps ==
  ASSUME BufferInv, RuntimeAssumption, NEW t \in Threads, Submit(t)
  PROVE  OwnContexts' /\ pc' \in [Threads -> Steps] /\ OwnBuffers' /\ UNCHANGED poolVars
<1>1. PICK h \in Handles, s \in Slots :
        Finds(context[FileOf[t]], h, s) /\ Start(t, "submit", "clear", h)
  BY DEF Submit
<1>2. /\ UNCHANGED <<poolVars, context>> /\ context[FileOf[t]] # Nobody
      /\ pc' = [pc EXCEPT ![t] = "clear"]
      /\ kind' = [kind EXCEPT ![t] = "submit"] /\ cmd' = [cmd EXCEPT ![t] = h]
  BY <1>1 DEF Submit, Start, Step
<1>3. \A c, g, r : Finds(c, g, r)' <=> Finds(c, g, r)
  BY <1>2 DEF Finds, Handle, poolVars, bufferVars
<1>4. OwnContexts'
  BY <1>2 DEF BufferInv, OwnContexts, poolVars
<1>5. /\ pc' \in [Threads -> Steps] /\ kind' \in [Threads -> Kinds]
      /\ cmd' \in [Threads -> Handles]
  BY <1>2 DEF BufferInv, OwnBuffers, Steps, Kinds
<1>6. ASSUME NEW u \in Threads PROVE pc'[u] = "protect" => kind'[u] = "submit"
  BY <1>2 DEF BufferInv, OwnBuffers
<1>7. ASSUME NEW u \in Threads, Submitting(u)' PROVE OwnBuffer(u)'
  <2>1. CASE u = t
    <3>1. cmd'[u] = h /\ context' = context
      BY <2>1, <1>2 DEF BufferInv, OwnBuffers
    <3> QED
      BY <2>1, <3>1, <1>1, <1>2, <1>3 DEF OwnBuffer
  <2>2. CASE u # t
    <3>1. Submitting(u) /\ cmd'[u] = cmd[u] /\ context' = context
      BY <2>2, <1>2, <1>7 DEF BufferInv, OwnBuffers, Submitting
    <3>2. OwnBuffer(u)
      BY <3>1 DEF BufferInv, OwnBuffers
    <3> QED
      BY <3>1, <3>2, <1>3 DEF OwnBuffer
  <2> QED
    BY <2>1, <2>2
<1> QED
  BY <1>2, <1>4, <1>5, <1>6, <1>7 DEF OwnBuffers

(* A step of the pool on behalf of one context leaves the buffers of the     *)
(* others where they are.                                                    *)
LEMMA OthersStay ==
  ASSUME PoolInv, NEW c \in Contexts, NEW d \in Contexts, c # d, NEW g, NEW s \in Slots,
         Finds(d, g, s),
         Open(c) \/ Close(c) \/ Alloc(c, 1) \/ \E h \in Handles : Free(c, h)
  PROVE  Finds(d, g, s)'
<1>1. owner[s] = d /\ s \in Live
  BY FoundIsLive
<1>2. CASE Open(c)
  BY <1>2 DEF Open, bufferVars, Finds, Handle
<1>3. ASSUME NEW S, Release(S), s \notin S PROVE Finds(d, g, s)'
  BY <1>1, <1>3 DEF Release, Finds, Handle
<1>4. CASE Close(c)
  <2>1. s \notin Reached(c)
    BY <1>1 DEF Reached
  <2> QED
    BY <1>3, <1>4, <2>1 DEF Close
<1>5. CASE Alloc(c, 1)
  <2>1. PICK r \in Slots :
          /\ Least(r, Slots \ Live) /\ owner' = [owner EXCEPT ![r] = c]
          /\ generation' = [generation EXCEPT ![r] = generation[r] + 1]
    BY <1>5 DEF Alloc
  <2>2. r # s
    BY <1>1, <2>1 DEF Least
  <2> QED
    BY <2>1, <2>2 DEF PoolInv, Shape, Finds, Handle
<1>6. CASE \E h \in Handles : Free(c, h)
  <2>1. PICK h \in Handles, r \in Slots : Finds(c, h, r) /\ Release({r})
    BY <1>6 DEF Free
  <2>2. r # s
    BY <1>1, <2>1 DEF Finds
  <2> QED
    BY <1>3, <2>1, <2>2
<1> QED
  BY <1>2, <1>4, <1>5, <1>6

(* So a call of open, close, alloc or free keeps the buffers of all commands, *)
(* since its own thread has none.                                            *)
LEMMA BuffersStay ==
  ASSUME OwnFiles, RuntimeAssumption, BufferInv, NEW t \in Threads, NEW c \in Contexts,
         pc[t] = "idle", UNCHANGED callVars,
         \A g \in Files : g # FileOf[t] => context'[g] = context[g] /\ context[g] # c,
         Open(c) \/ Close(c) \/ Alloc(c, 1) \/ \E h \in Handles : Free(c, h)
  PROVE  OwnBuffers' /\ pc' \in [Threads -> Steps]
<1>1. UNCHANGED <<pc, kind, cmd>>
  BY DEF callVars
<1>2. ASSUME NEW u \in Threads, Submitting(u)' PROVE OwnBuffer(u)'
  <2>1. Submitting(u) /\ u # t
    BY <1>1, <1>2 DEF Submitting
  <2>2. FileOf[u] \in Files /\ FileOf[u] # FileOf[t]
    BY <2>1 DEF OwnFiles, RuntimeAssumption
  <2>3. PICK d \in Contexts : d = context[FileOf[u]]
    BY <2>1, <2>2 DEF BufferInv, OwnContexts, OwnBuffers, OwnBuffer
  <2>4. d # Nobody /\ d # c /\ context'[FileOf[u]] = d
    BY <2>1, <2>2, <2>3 DEF BufferInv, OwnBuffers, OwnBuffer
  <2>5. PICK h \in Handles, s \in Slots : h = cmd[u] /\ Finds(d, h, s)
    BY <2>1, <2>3 DEF BufferInv, OwnBuffers, OwnBuffer
  <2>6. Finds(d, h, s)'
    BY <2>4, <2>5, OthersStay DEF BufferInv
  <2>7. Finds(context[FileOf[u]], cmd[u], s)'
    BY <1>1, <2>4, <2>5, <2>6 DEF Finds, Handle
  <2> QED
    BY <2>4, <2>7 DEF OwnBuffer
<1> QED
  BY <1>1, <1>2 DEF BufferInv, OwnBuffers

LEMMA PageFits == ASSUME NEW p \in Fits(pages, 1) PROVE 1 \in 1 .. PoolPages
BY PagesAssumption DEF Fits

LEMMA PoolCallKeeps ==
  ASSUME OwnFiles, RuntimeAssumption, BufferInv, NEW t \in Threads, PoolCall(t)
  PROVE  OwnContexts' /\ pc' \in [Threads -> Steps] /\ OwnBuffers' /\ PoolNext
<1>. DEFINE f == FileOf[t]
<1>1. f \in Files /\ pc[t] = "idle" /\ UNCHANGED callVars
  BY DEF PoolCall, RuntimeAssumption
<1>2. context \in [Files -> Contexts \cup {Nobody}]
  BY DEF BufferInv, OwnContexts
<1>3. CASE context[f] = Nobody /\ \E c \in Contexts : Open(c) /\ context' = [context EXCEPT ![f] = c]
  <2>1. PICK c \in Contexts : Open(c) /\ context' = [context EXCEPT ![f] = c]
    BY <1>3
  <2>2. c \notin active /\ active' = active \cup {c} /\ c # Nobody
    BY <2>1, PoolAssumption DEF Open, Least, Contexts
  <2>3. \A g \in Files : g # f => context'[g] = context[g] /\ context[g] # c
    BY <2>1, <2>2 DEF BufferInv, OwnContexts
  <2>4. OwnContexts'
    BY <1>1, <1>2, <2>1, <2>2, <2>3 DEF BufferInv, OwnContexts
  <2> QED
    BY <1>1, <2>1, <2>3, <2>4, BuffersStay DEF PoolNext
<1>4. ASSUME context[f] # Nobody,
             \A g \in Files : g # f => context'[g] = context[g],
             LET c == context[f] IN Close(c) \/ Alloc(c, 1) \/ \E h \in Handles : Free(c, h)
      PROVE  OwnBuffers' /\ pc' \in [Threads -> Steps] /\ PoolNext
  <2>1. PICK c \in Contexts : c = context[f]
    BY <1>1, <1>2, <1>4
  <2>2. \A g \in Files : g # f => context'[g] = context[g] /\ context[g] # c
    BY <1>1, <1>4, <2>1 DEF BufferInv, OwnContexts
  <2>3. Alloc(c, 1) => 1 \in 1 .. PoolPages
    BY PageFits DEF Alloc, Least
  <2>4. Close(c) \/ Alloc(c, 1) \/ \E h \in Handles : Free(c, h)
    BY <1>4, <2>1
  <2>5. PoolNext
    BY <2>1, <2>3, <2>4 DEF PoolNext
  <2> QED
    BY <1>1, <2>1, <2>2, <2>4, <2>5, BuffersStay
<1>5. CASE /\ context[f] # Nobody /\ Close(context[f])
           /\ context' = [context EXCEPT ![f] = IF Executing(context[f]) = {} THEN Nobody ELSE @]
  <2>1. context' \in [Files -> Contexts \cup {Nobody}]
    BY <1>2, <1>5
  <2>2. \A g \in Files : g # f => context'[g] = context[g]
    BY <1>2, <1>5
  <2>3. context'[f] = Nobody \/ (context'[f] = context[f] /\ active' = active)
    BY <1>1, <1>2, <1>5 DEF Close
  <2>4. active' = active \/ active' = active \ {context[f]}
    BY <1>5 DEF Close
  <2>5. OwnContexts'
    BY <1>1, <1>2, <2>1, <2>2, <2>3, <2>4 DEF BufferInv, OwnContexts
  <2> QED
    BY <1>4, <1>5, <2>2, <2>5
<1>6. CASE /\ context[f] # Nobody /\ UNCHANGED context
           /\ Alloc(context[f], 1) \/ \E h \in Handles : Free(context[f], h)
  <2>1. active' = active
    BY <1>6 DEF Alloc, Free
  <2>2. OwnContexts'
    BY <1>6, <2>1 DEF BufferInv, OwnContexts
  <2> QED
    BY <1>4, <1>6, <2>2
<1> QED
  BY <1>3, <1>5, <1>6 DEF PoolCall
-----------------------------------------------------------------------------
LEMMA InitBuffers == Init => BufferInv
<1>. SUFFICES ASSUME Init PROVE BufferInv
  OBVIOUS
<1>1. PoolInv
  BY InitPool DEF Init
<1>2. OwnContexts
  BY DEF Init, OwnContexts
<1>3. pc \in [Threads -> Steps] /\ OwnBuffers
  BY DEF Init, Steps, OwnBuffers, Submitting, Kinds, Handles
<1> QED
  BY <1>1, <1>2, <1>3 DEF BufferInv

(* Every step of the commands is a step of the pool or leaves it alone: a    *)
(* command protects a live buffer only.                                      *)
LEMMA NextIsPoolStep ==
  ASSUME OwnFiles, BufferInv, [Next]_vars
  PROVE  [PoolNext]_poolVars /\ OwnContexts' /\ pc' \in [Threads -> Steps] /\ OwnBuffers'
<1>1. CASE Complete \/ UNCHANGED vars
  <2>1. UNCHANGED <<poolVars, context, pc, kind, cmd>>
    BY <1>1 DEF Complete, vars, callVars
  <2>2. \A c, h, s : Finds(c, h, s)' <=> Finds(c, h, s)
    BY <2>1 DEF Finds, Handle, poolVars, bufferVars
  <2>3. OwnContexts'
    BY <2>1 DEF BufferInv, OwnContexts, poolVars
  <2>4. OwnBuffers'
    BY <2>1, <2>2 DEF BufferInv, OwnBuffers, OwnBuffer, Submitting
  <2> QED
    BY <2>1, <2>3, <2>4 DEF BufferInv
<1>2. ASSUME NEW t \in Threads, PoolCall(t)
      PROVE  [PoolNext]_poolVars /\ OwnContexts' /\ pc' \in [Threads -> Steps] /\ OwnBuffers'
  BY <1>2, PoolCallKeeps, RuntimeAssumption
<1>3. ASSUME NEW t \in Threads, Submit(t)
      PROVE  [PoolNext]_poolVars /\ OwnContexts' /\ pc' \in [Threads -> Steps] /\ OwnBuffers'
  BY <1>3, SubmitKeeps, RuntimeAssumption
<1>4. ASSUME NEW t \in Threads,
             \/ Selftest(t) \/ Run(t) \/ Prepared(t) \/ Cancel(t) \/ CheckReset(t)
             \/ WriteReset(t)
      PROVE  [PoolNext]_poolVars /\ OwnContexts' /\ pc' \in [Threads -> Steps] /\ OwnBuffers'
  BY <1>4, CallsGoOn, GoesOnKeeps
<1>5. ASSUME NEW t \in Threads, Continue(t)
      PROVE  [PoolNext]_poolVars /\ OwnContexts' /\ pc' \in [Threads -> Steps] /\ OwnBuffers'
  <2>1. GoesOn(t) /\ (UNCHANGED poolVars \/ SetInflight(t) \/ ClearInflight(t))
    BY <1>5, ContinueGoesOn
  <2>2. ASSUME SetInflight(t) PROVE PoolNext
    <3>1. Submitting(t) /\ Protect(cmd[t])
      BY <2>2 DEF SetInflight, Step, BufferInv, OwnBuffers, Submitting
    <3>2. PICK s \in Slots : Finds(context[FileOf[t]], cmd[t], s) /\ context[FileOf[t]] # Nobody
      BY <3>1 DEF BufferInv, OwnBuffers, OwnBuffer
    <3>3. s \in Live /\ cmd[t] = Handle(s)
      BY <3>2 DEF Finds, Live
    <3> QED
      BY <3>1, <3>3 DEF PoolNext
  <2>3. ASSUME ClearInflight(t) PROVE PoolNext
    BY <2>3 DEF ClearInflight, PoolNext
  <2> QED
    BY <2>1, <2>2, <2>3, GoesOnKeeps
<1> QED
  BY <1>1, <1>2, <1>3, <1>4, <1>5 DEF Next

LEMMA NextKeepsBuffers ==
  ASSUME OwnFiles
  PROVE  BufferInv /\ [Next]_vars => BufferInv'
<1>1. PoolInv /\ [PoolNext]_poolVars => PoolInv'
  BY OpenStep, AllocStep, FreeStep, ClosePoolStep, ProtectStep, IdleStep DEF PoolNext
<1> QED
  BY <1>1, NextIsPoolStep DEF BufferInv

(* The driver with its threads and commands implements the pool: whatever    *)
(* they do to it, each of their steps is one of the pool's own.              *)
THEOREM CommandsUseThePool ==
  ASSUME OwnFiles
  PROVE  Spec => PoolSpec
<1>1. Init => PoolInit
  BY DEF Init
<1>2. BufferInv /\ [Next]_vars => BufferInv'
  BY NextKeepsBuffers
<1>3. BufferInv /\ [Next]_vars => [PoolNext]_poolVars
  BY NextIsPoolStep
<1> QED
  BY InitBuffers, <1>1, <1>2, <1>3, PTL DEF Spec, PoolSpec

(* So the pool stays intact under the commands, too. *)
THEOREM PoolSurvivesCommands ==
  ASSUME OwnFiles, MaxGeneration < HandleSpan
  PROVE  Spec => []PoolIntact /\ ProtectedStays
<1>1. Spec => PoolSpec
  BY CommandsUseThePool
<1>2. PoolSpec => []PoolIntact
  BY PoolStaysIntact
<1> QED
  BY <1>1, <1>2, ProtectedBuffersStay

(* The pages of a command stay with it for as long as it is executed.        *)
THEOREM CommandsKeepTheirPages ==
  ASSUME OwnFiles
  PROVE  Spec => []ExecutedBufferLive
<1>1. BufferInv /\ [Next]_vars => BufferInv'
  BY NextKeepsBuffers
<1>2. BufferInv => ExecutedBufferLive
  BY DEF BufferInv, OwnBuffers, OwnBuffer, Submitting, ExecutedBufferLive, Inside
<1> QED
  BY InitBuffers, <1>1, <1>2, PTL DEF Spec
-----------------------------------------------------------------------------
(* Who waits for the NPU has started the command that it works on, if it     *)
(* works at all, and an interrupt since then is that command's.              *)
Answered ==
  /\ outcome \in [Threads -> Outcomes] /\ completed \in [Threads -> BOOLEAN]
  /\ \A t \in Threads : pc[t] = "wait" => job \in {t, Nobody} /\ (irq => completed[t])
  /\ HonestOk

HonestInv == Gated /\ Answered

(* A step of t that starts nothing and reports nothing. *)
Quiet(t) ==
  /\ UNCHANGED <<irq, completed>> /\ job' \in {job, Nobody}
  /\ pc' \in [Threads -> Steps] /\ pc'[t] \notin {"wait", "recover", "ungate"}
  /\ \A u \in Threads : u # t => pc'[u] = pc[u] /\ outcome'[u] = outcome[u]
  /\ outcome' \in [Threads -> Outcomes]

LEMMA QuietKeeps ==
  ASSUME HonestInv, NEW t \in Threads, Quiet(t)
  PROVE  Answered'
BY DEF HonestInv, Answered, HonestOk, Quiet

LEMMA CallsAreQuiet ==
  ASSUME HonestInv, NEW t \in Threads, pc[t] \notin {"wait", "recover", "ungate"},
         \/ PoolCall(t) \/ Submit(t) \/ Selftest(t) \/ Run(t) \/ Prepared(t)
         \/ Cancel(t) \/ CheckReset(t) \/ WriteReset(t)
  PROVE  Quiet(t)
<1>1. CASE PoolCall(t) \/ Cancel(t) \/ WriteReset(t)
  BY <1>1 DEF HonestInv, Gated, Answered, PoolCall, Cancel, WriteReset, Quiet, callVars, npuVars
<1>2. CASE Submit(t) \/ Selftest(t) \/ Run(t) \/ Prepared(t)
  BY <1>2 DEF HonestInv, Gated, Answered, Submit, Selftest, Run, Prepared, Start, Step, Quiet,
              Steps, npuVars
<1>3. CASE CheckReset(t)
  BY <1>3 DEF HonestInv, Gated, Answered, CheckReset, Step, Quiet, Steps, npuVars
<1> QED
  BY <1>1, <1>2, <1>3

LEMMA MostAreQuiet ==
  ASSUME HonestInv, NEW t \in Threads,
         \/ Lock(t) \/ Load(t) \/ Clear(t) \/ SetInflight(t) \/ ReadNumber(t)
         \/ WriteNumber(t) \/ Gate(t) \/ Ungate(t) \/ ClearInflight(t) \/ RecordTask(t)
         \/ RecordStatus(t) \/ Collect(t) \/ Reset(t)
  PROVE  Quiet(t)
<1>1. CASE Lock(t) \/ Load(t) \/ Clear(t)
  BY <1>1 DEF HonestInv, Gated, Answered, Lock, Load, Clear, Step, Quiet, Steps, Outcomes, npuVars
<1>2. CASE SetInflight(t) \/ ReadNumber(t) \/ WriteNumber(t) \/ ClearInflight(t)
  BY <1>2 DEF HonestInv, Gated, Answered, SetInflight, ReadNumber, WriteNumber, ClearInflight,
              Step, Quiet, Steps, npuVars
<1>3. CASE RecordTask(t) \/ RecordStatus(t) \/ Collect(t) \/ Reset(t)
  BY <1>3 DEF HonestInv, Gated, Answered, RecordTask, RecordStatus, Collect, Reset, Step,
              Quiet, Steps, npuVars
<1>4. CASE Gate(t)
  BY <1>4 DEF HonestInv, Gated, Answered, Gate, After, Step, Quiet, Steps, Outcomes
<1>5. CASE Ungate(t)
  BY <1>5 DEF HonestInv, Gated, Answered, Ungate, After, Step, Quiet, Steps
<1> QED
  BY <1>1, <1>2, <1>3, <1>4, <1>5

(* The steps of an execution: nobody else is past the gate meanwhile.        *)
LEMMA ExecutionKeeps ==
  ASSUME HonestInv, NEW t \in Threads, Prepare(t) \/ Launch(t) \/ Poll(t) \/ Recover(t)
  PROVE  Answered'
<1>1. \A u \in Threads : u # t => pc[u] \notin {"wait", "recover", "ungate"}
  BY DEF HonestInv, Gated, OneJob, Inside, Prepare, Launch, Poll, Recover, Step
<1>2. pc \in [Threads -> Steps]
  BY DEF HonestInv, Gated
<1>3. /\ outcome' \in [Threads -> Outcomes] /\ completed' \in [Threads -> BOOLEAN]
      /\ \A u \in Threads : u # t => pc'[u] = pc[u]
  BY <1>2 DEF HonestInv, Answered, Prepare, Launch, Poll, Recover, Step, Outcomes
<1>4. /\ pc'[t] = "wait" => job' \in {t, Nobody} /\ (irq' => completed'[t])
      /\ pc'[t] \in {"recover", "ungate"} /\ outcome'[t] = "ok" => completed'[t]
  <2>1. CASE Prepare(t)
    BY <2>1, <1>2 DEF HonestInv, Answered, Prepare, Step
  <2>2. CASE Launch(t)
    BY <2>2, <1>2 DEF HonestInv, Answered, Launch, Step
  <2>3. CASE Poll(t)
    BY <2>3, <1>2 DEF HonestInv, Answered, Poll, Step, npuVars
  <2>4. CASE Recover(t)
    BY <2>4, <1>2 DEF HonestInv, Answered, HonestOk, Recover, Step
  <2> QED
    BY <2>1, <2>2, <2>3, <2>4
<1> QED
  BY <1>1, <1>3, <1>4 DEF Answered, HonestOk

LEMMA CompleteKeeps == ASSUME HonestInv, Complete PROVE Answered'
BY DEF HonestInv, Answered, HonestOk, Complete, callVars

LEMMA NextKeepsHonest == HonestInv /\ [Next]_vars => HonestInv'
<1>. SUFFICES ASSUME HonestInv, [Next]_vars PROVE HonestInv'
  OBVIOUS
<1>1. Gated'
  BY NextGated DEF HonestInv
<1>2. Answered'
  <2>1. CASE UNCHANGED vars
    BY <2>1 DEF HonestInv, Answered, HonestOk, vars, callVars, npuVars
  <2>2. ASSUME NEW t \in Threads,
               \/ PoolCall(t) \/ Submit(t) \/ Selftest(t) \/ Run(t) \/ Prepared(t)
               \/ Cancel(t) \/ CheckReset(t) \/ WriteReset(t)
        PROVE  Answered'
    <3>1. pc[t] = "idle"
      BY <2>2 DEF PoolCall, Submit, Selftest, Run, Prepared, Start, Cancel, CheckReset,
                  WriteReset, Step
    <3> QED
      BY <2>2, <3>1, CallsAreQuiet, QuietKeeps
  <2>3. ASSUME NEW t \in Threads, Continue(t) PROVE Answered'
    BY <2>3, MostAreQuiet, QuietKeeps, ExecutionKeeps DEF Continue
  <2> QED
    BY <2>1, <2>2, <2>3, CompleteKeeps DEF Next
<1> QED
  BY <1>1, <1>2 DEF HonestInv

(* What is reported as done the NPU has done for this very command, and its  *)
(* pages were its own meanwhile.                                             *)
THEOREM CommandsAreHonest ==
  ASSUME OwnFiles
  PROVE  Spec => []ResultsAreHonest
<1>1. Init => HonestInv
  <2>1. Init => Answered
    BY DEF Init, Answered, HonestOk, Outcomes
  <2> QED
    BY <2>1, InitGated DEF HonestInv
<1>2. HonestInv => HonestOk
  BY DEF HonestInv, Answered
<1>3. Spec => []HonestOk
  BY <1>1, <1>2, NextKeepsHonest, PTL DEF Spec
<1>4. Spec => []ExecutedBufferLive
  BY CommandsKeepTheirPages
<1> QED
  BY <1>3, <1>4, PTL DEF ResultsAreHonest
-----------------------------------------------------------------------------
(* The types of the commands.  Whoever shares an open file, the pool sees    *)
(* its own steps, but what is protected may have been freed meanwhile.       *)
CommandTypes ==
  /\ context \in [Files -> Contexts \cup {Nobody}]
  /\ pc \in [Threads -> Steps] /\ kind \in [Threads -> Kinds]
  /\ cmd \in [Threads -> Handles] /\ task \in [Threads -> Nat]
  /\ outcome \in [Threads -> Outcomes]
  /\ cancel \in BOOLEAN /\ busy \in BOOLEAN /\ irq \in BOOLEAN
  /\ job \in Threads \cup {Nobody}
  /\ nextTask \in Nat /\ lastTask \in Nat
  /\ lastStatus \in Outcomes
  /\ runLock \in Threads \cup {Nobody} /\ package \in Threads \cup {Nobody}
  /\ completed \in [Threads -> BOOLEAN]

RuntimeTypes == PoolTypes /\ CommandTypes

LEMMA InitRuntimeTypes == Init => RuntimeTypes
<1> SUFFICES ASSUME Init PROVE RuntimeTypes
  OBVIOUS
<1>1. PoolTypes
  BY InitPoolTypes DEF Init
<1>2. NoHandle \in Handles
  BY DEF Handles
<1>3. CommandTypes
  BY <1>2 DEF Init, CommandTypes, Steps, Kinds, Outcomes
<1> QED
  BY <1>1, <1>3 DEF RuntimeTypes

LEMMA PoolCallTyped ==
  ASSUME RuntimeTypes, NEW t \in Threads, PoolCall(t)
  PROVE  PoolNext /\ CommandTypes'
<1>1. FileOf[t] \in Files
  BY RuntimeAssumption
<1>2. context[FileOf[t]] \in Contexts \cup {Nobody}
  BY <1>1 DEF RuntimeTypes, CommandTypes
<1>3. context' \in [Files -> Contexts \cup {Nobody}]
  BY <1>1 DEF PoolCall, RuntimeTypes, CommandTypes
<1>4. UNCHANGED <<callVars, npuVars, taskVars, runVars, completed>>
  BY DEF PoolCall
<1>5. CommandTypes'
  BY <1>3, <1>4 DEF callVars, npuVars, taskVars, runVars, RuntimeTypes, CommandTypes
<1>6. \A c : Alloc(c, 1) => 1 \in 1 .. PoolPages
  BY PageFits DEF Alloc, Least
<1>7. PoolNext
  BY <1>2, <1>6 DEF PoolCall, PoolNext
<1> QED
  BY <1>5, <1>7

LEMMA StartTyped ==
  ASSUME RuntimeTypes, NEW t \in Threads,
         Submit(t) \/ Selftest(t) \/ Run(t) \/ Prepared(t)
  PROVE  UNCHANGED poolVars /\ CommandTypes'
<1>1. PICK k \in Kinds, s \in Steps, h \in Handles : Start(t, k, s, h)
  BY DEF Submit, Selftest, Run, Prepared, Kinds, Steps, Handles
<1> QED
  BY <1>1 DEF Start, Step, RuntimeTypes, CommandTypes, npuVars, taskVars, runVars

LEMMA SideTyped ==
  ASSUME RuntimeTypes, NEW t \in Threads, Cancel(t) \/ CheckReset(t) \/ WriteReset(t) \/ Reset(t)
  PROVE  UNCHANGED poolVars /\ CommandTypes'
<1> USE DEF RuntimeTypes, CommandTypes, Steps, callVars, npuVars, taskVars, runVars
<1>1. CASE Cancel(t)
  BY <1>1 DEF Cancel
<1>2. CASE CheckReset(t)
  BY <1>2 DEF CheckReset, Step
<1>3. CASE WriteReset(t)
  BY <1>3 DEF WriteReset
<1>4. CASE Reset(t)
  BY <1>4 DEF Reset, Step
<1> QED
  BY <1>1, <1>2, <1>3, <1>4

LEMMA CompleteTyped ==
  ASSUME RuntimeTypes, Complete
  PROVE  UNCHANGED poolVars /\ CommandTypes'
BY DEF Complete, RuntimeTypes, CommandTypes, callVars, taskVars, runVars

LEMMA ContinueTyped ==
  ASSUME RuntimeTypes, NEW t \in Threads, Continue(t)
  PROVE  CommandTypes' /\ (UNCHANGED poolVars \/ \E h \in Handles : Protect(h))
<1> USE DEF RuntimeTypes, CommandTypes, Steps, Step, npuVars, taskVars, runVars
<1>1. CASE Lock(t)
  BY <1>1 DEF Lock
<1>2. CASE Load(t)
  BY <1>2 DEF Load, Outcomes
<1>3. CASE Clear(t)
  BY <1>3 DEF Clear
<1>4. CASE SetInflight(t)
  BY <1>4 DEF SetInflight
<1>5. CASE ReadNumber(t)
  <2>1. nextTask + 1 \in Nat
    OBVIOUS
  <2> QED
    BY <1>5, <2>1 DEF ReadNumber
<1>6. CASE WriteNumber(t)
  BY <1>6 DEF WriteNumber
<1>7. CASE Gate(t)
  BY <1>7 DEF Gate, After, Outcomes
<1>8. CASE Prepare(t)
  BY <1>8 DEF Prepare, Outcomes
<1>9. CASE Launch(t)
  BY <1>9 DEF Launch, Outcomes
<1>10. CASE Poll(t)
  BY <1>10 DEF Poll
<1>11. CASE Recover(t)
  BY <1>11 DEF Recover, Outcomes
<1>12. CASE Ungate(t)
  BY <1>12 DEF Ungate, After
<1>13. CASE ClearInflight(t)
  BY <1>13 DEF ClearInflight, Handles
<1>14. CASE RecordTask(t)
  BY <1>14 DEF RecordTask
<1>15. CASE RecordStatus(t)
  BY <1>15 DEF RecordStatus
<1>16. CASE Collect(t)
  BY <1>16 DEF Collect
<1>17. CASE Reset(t)
  BY <1>17, SideTyped
<1> QED
  BY <1>1, <1>2, <1>3, <1>4, <1>5, <1>6, <1>7, <1>8, <1>9, <1>10, <1>11, <1>12, <1>13, <1>14,
     <1>15, <1>16, <1>17 DEF Continue

LEMMA RuntimeTypesKept == RuntimeTypes /\ [Next]_vars => RuntimeTypes'
<1> SUFFICES ASSUME RuntimeTypes, [Next]_vars PROVE RuntimeTypes'
  OBVIOUS
<1>1. CommandTypes' /\ ([PoolNext]_poolVars \/ \E h \in Handles : Protect(h))
  <2>1. CASE UNCHANGED vars
    BY <2>1 DEF vars, RuntimeTypes, CommandTypes, callVars, npuVars, taskVars, runVars
  <2> QED
    BY <2>1, PoolCallTyped, StartTyped, SideTyped, CompleteTyped, ContinueTyped DEF Next
<1>2. PoolTypes'
  BY <1>1, PoolTypesKept DEF RuntimeTypes
<1> QED
  BY <1>1, <1>2 DEF RuntimeTypes

(* The types hold for any threads and files, also where threads share one.   *)
THEOREM RuntimeIsTyped == Spec => []RuntimeTypeOK
<1>1. RuntimeTypes => RuntimeTypeOK
  BY PoolTypesGive DEF RuntimeTypes, CommandTypes, RuntimeTypeOK
<1> QED
  BY <1>1, InitRuntimeTypes, RuntimeTypesKept, PTL DEF Spec
=============================================================================
