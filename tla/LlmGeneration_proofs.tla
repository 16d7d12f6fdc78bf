------------------------- MODULE LlmGeneration_proofs -------------------------
(***************************************************************************)
(* Proofs about the generations of the local LLM, for any number of        *)
(* terminals that generate or say stop, any models, limits and sizes:      *)
(* what the session retains, which models become resident, and how soon a  *)
(* stop is heard.                                                          *)
(***************************************************************************)
EXTENDS LlmGeneration, SequenceTheorems, TLAPS

(* The parts of a command: before its first layer, and with the model lock.  *)
Before   == {"ready", "clear", "activate", "loading"}
Running  == Before \cup {"computing"}
HasModel == {"clear", "activate", "loading", "computing", "out", "unlock"}

(* The type invariant in parts, for the provers. *)
SessionTypes ==
  /\ chatLock \in Tasks \cup {NoOne} /\ modelLock \in Tasks \cup {NoOne}
  /\ history \in Seq(Token) /\ chatModel \in Models \cup {NoModel}
  /\ cache \in Models \cup {NoModel}

FlagTypes ==
  /\ active \in BOOLEAN /\ stop \in BOOLEAN /\ stray \in BOOLEAN
  /\ seen \in [Stoppers -> {"none", "run", "past run"}]
  /\ late \in Nat

RunTypes ==
  /\ pc \in [Tasks -> Running \cup HasModel \cup {"idle", "ended"}]
  /\ run \in [Tasks -> Locals]

(* A task that generates on the session owns it, and one that works with the *)
(* model owns that.                                                          *)
Owns(t) ==
  /\ pc[t] # "idle" /\ run[t].kind = "ask" => chatLock = t
  /\ pc[t] \in HasModel => modelLock = t

(* The input of an ask is the session as it still is, and its own prompt.    *)
Continues(t) ==
  pc[t] # "idle" =>
    /\ run[t].model \in Models /\ run[t].input # <<>>
    /\ run[t].kind = "ask" =>
         /\ run[t].input = history \o Prompt(t)
         /\ history # <<>> => chatModel = run[t].model

(* The tokens of the answer there are at a position. *)
Answered(r) ==
  IF r.limit = 0 \/ r.position < Len(r.input) THEN 0 ELSE r.position + 1 - Len(r.input)

(* The answer keeps its budget, and counts the positions after the prompt; a *)
(* result "ok" means that it ended, or used its budget up.                   *)
Progress(t) ==
  LET r == run[t] IN
  /\ Len(r.output) <= r.limit
  /\ pc[t] \in Before => r.output = <<>> /\ r.position = 0 /\ r.layer = 0
  /\ pc[t] \in Running => r.result = "error"
  /\ pc[t] = "computing" => r.position < Positions(r) /\ Len(r.output) = Answered(r)
  /\ r.result = "ok" => r.next = EndTurn \/ Len(r.output) = r.limit

(* A run that computes has the model cached or has read all of it. *)
ModelRead(t) ==
  pc[t] = "computing" \/ (pc[t] = "out" /\ run[t].result = "ok") =>
    cache # NoModel \/ run[t].loaded = Chunks

(* A token after the stop comes before the first layer of the next position, *)
(* where the stop is heard.                                                  *)
Hears(t) ==
  /\ pc[t] \in {"activate", "loading"} => late = 0
  /\ pc[t] = "computing" /\ late > 0 => run[t].layer = 0

(* The inductive invariant. *)
RunInv(t) == Owns(t) /\ Continues(t) /\ Progress(t) /\ ModelRead(t) /\ Hears(t)

GenerationInv ==
  /\ SessionTypes /\ FlagTypes /\ RunTypes
  /\ SessionWellFormed /\ StopIsPrompt /\ (late > 0 => stop)
  /\ \A t \in Tasks : RunInv(t)
-----------------------------------------------------------------------------
LEMMA InvGivesTypes == GenerationInv => TypeOK
BY DEF GenerationInv, SessionTypes, FlagTypes, RunTypes, RunInv, Progress, TypeOK, Running,
       Before, HasModel

LEMMA InitGenerationInv == Init => GenerationInv
<1>. SUFFICES ASSUME Init PROVE GenerationInv
  OBVIOUS
<1>1. NoLocals \in Locals
  BY GenerationAssumption DEF NoLocals, Fresh, Locals, Token
<1>2. SessionTypes /\ FlagTypes /\ RunTypes
  <2>1. SessionTypes
    BY DEF Init, SessionTypes
  <2>2. FlagTypes
    BY DEF Init, FlagTypes
  <2>3. RunTypes
    BY <1>1 DEF Init, RunTypes
  <2> QED
    BY <2>1, <2>2, <2>3
<1>3. ASSUME NEW t \in Tasks PROVE RunInv(t)
  <2>1. /\ pc[t] = "idle" /\ run[t] = NoLocals
        /\ NoLocals.output = <<>> /\ NoLocals.limit = 0 /\ NoLocals.result = "error"
    BY DEF Init, NoLocals, Fresh
  <2>2. Len(NoLocals.output) <= NoLocals.limit
    BY <2>1
  <2> QED
    BY <2>1, <2>2 DEF RunInv, Owns, Continues, Progress, ModelRead, Hears, Running, Before, HasModel
<1> QED
  BY <1>2, <1>3 DEF Init, GenerationInv, SessionWellFormed, StopIsPrompt

(* What one task does leaves the others as they are: the session is theirs   *)
(* while they own its lock, and so is the model.                             *)
LEMMA OthersKeep ==
  ASSUME NEW t \in Tasks, NEW u \in Tasks, u # t, RunInv(u),
         pc'[u] = pc[u], run'[u] = run[u],
         chatLock \in {t, NoOne} \/ UNCHANGED sessionVars,
         modelLock \in {t, NoOne} \/ UNCHANGED <<modelLock, cache, late>>
  PROVE  RunInv(u)'
<1>1. NoOne # u
  BY GenerationAssumption
<1>2. pc[u] # "idle" /\ run[u].kind = "ask" => UNCHANGED sessionVars
  BY <1>1 DEF RunInv, Owns
<1>3. pc[u] \in HasModel => UNCHANGED <<modelLock, cache, late>>
  BY <1>1 DEF RunInv, Owns
<1>4. Owns(u)' /\ Continues(u)'
  BY <1>2, <1>3 DEF RunInv, Owns, Continues, sessionVars, Prompt
<1>5. Progress(u)'
  BY DEF RunInv, Progress, Answered, Positions
<1>6. ModelRead(u)' /\ Hears(u)'
  BY <1>3 DEF RunInv, ModelRead, Hears, HasModel
<1> QED
  BY <1>4, <1>5, <1>6 DEF RunInv

(* The locals keep their types when one of them is set. *)
LEMMA LocalsKeep ==
  ASSUME NEW r \in Locals
  PROVE  /\ \A x \in {"ok", "error", "stopped"} : [r EXCEPT !.result = x] \in Locals
         /\ \A x \in 0 .. Chunks : [r EXCEPT !.loaded = x] \in Locals
         /\ \A x \in 0 .. Layers : [r EXCEPT !.layer = x] \in Locals
         /\ \A x \in Nat : [r EXCEPT !.layer = 0, !.position = x] \in Locals
         /\ \A x \in {Word, EndTurn} : [r EXCEPT !.next = x] \in Locals
         /\ [r EXCEPT !.output = Append(@, Word)] \in Locals
<1>1. /\ \A x \in {"ok", "error", "stopped"} : [r EXCEPT !.result = x] \in Locals
      /\ \A x \in 0 .. Chunks : [r EXCEPT !.loaded = x] \in Locals
      /\ \A x \in 0 .. Layers : [r EXCEPT !.layer = x] \in Locals
      /\ \A x \in {Word, EndTurn} : [r EXCEPT !.next = x] \in Locals
  BY DEF Locals
<1>2. ASSUME NEW x \in Nat PROVE [r EXCEPT !.layer = 0, !.position = x] \in Locals
  <2>1. 0 \in 0 .. Layers
    BY GenerationAssumption
  <2> QED
    BY <2>1 DEF Locals
<1>3. [r EXCEPT !.output = Append(@, Word)] \in Locals
  <2>1. Append(r.output, Word) \in Seq({Word})
    BY DEF Locals
  <2> QED
    BY <2>1 DEF Locals
<1> QED
  BY <1>1, <1>2, <1>3

(* A task's own step needs what it does itself. *)
LEMMA TaskKeeps ==
  ASSUME GenerationInv, NEW t \in Tasks,
         NEW there, NEW locals \in Locals,
         there \in Running \cup HasModel \cup {"idle", "ended"},
         pc' = [pc EXCEPT ![t] = there], run' = [run EXCEPT ![t] = locals],
         chatLock \in {t, NoOne} \/ UNCHANGED sessionVars,
         modelLock \in {t, NoOne} \/ UNCHANGED <<modelLock, cache, late>>,
         SessionTypes', FlagTypes', SessionWellFormed', StopIsPrompt', (late > 0 => stop)',
         RunInv(t)'
  PROVE  GenerationInv'
<1>1. RunTypes'
  BY DEF GenerationInv, RunTypes
<1>2. ASSUME NEW u \in Tasks, u # t PROVE RunInv(u)'
  <2>1. RunInv(u) /\ pc'[u] = pc[u] /\ run'[u] = run[u]
    BY <1>2 DEF GenerationInv, RunTypes
  <2> QED
    BY <1>2, <2>1, OthersKeep
<1> QED
  BY <1>1, <1>2 DEF GenerationInv
-----------------------------------------------------------------------------
(* The command, up to the model lock. *)
LEMMA PromptIsInput ==
  ASSUME NEW h \in Seq(Token), NEW t \in Tasks
  PROVE  h \o Prompt(t) \in Seq(Token) /\ h \o Prompt(t) # <<>>
<1>1. Prompt(t) \in Seq(Token) /\ Len(Prompt(t)) = 1
  BY DEF Prompt, Token
<1>2. Len(h \o Prompt(t)) = Len(h) + 1 /\ h \o Prompt(t) \in Seq(Token)
  BY <1>1, ConcatProperties
<1> QED
  BY <1>2, LenProperties

LEMMA FreshLocals ==
  ASSUME NEW k \in {"ask", "chat"}, NEW m \in Models \cup {NoModel}, NEW n \in Limits \cup {0},
         NEW tokens \in Seq(Token)
  PROVE  Fresh(k, m, n, tokens) \in Locals /\ n \in Nat
<1>1. n \in Nat /\ 0 \in 0 .. Chunks /\ 0 \in 0 .. Layers /\ <<>> \in Seq({Word})
  BY GenerationAssumption
<1>2. Fresh(k, m, n, tokens) \in Locals
  BY <1>1 DEF Fresh, Locals
<1> QED
  BY <1>1, <1>2

LEMMA StartKeeps ==
  ASSUME GenerationInv, NEW t \in Tasks, NEW k \in {"ask", "chat"}, NEW m \in Models,
         NEW n \in Limits, Start(t, k, m, n)
  PROVE  GenerationInv'
<1>. DEFINE tokens == (IF k = "ask" THEN history ELSE <<>>) \o Prompt(t)
            locals == Fresh(k, m, n, tokens)
<1>1. tokens \in Seq(Token) /\ tokens # <<>>
  BY PromptIsInput DEF GenerationInv, SessionTypes
<1>2. locals \in Locals /\ n \in Nat
  <2>. HIDE DEF tokens
  <2> QED
    BY <1>1, FreshLocals
<1>3. /\ locals.kind = k /\ locals.model = m /\ locals.limit = n /\ locals.input = tokens
      /\ locals.output = <<>> /\ locals.position = 0 /\ locals.layer = 0
      /\ locals.result = "error"
  BY DEF Fresh
<1>4. /\ pc[t] = "idle" /\ pc' = [pc EXCEPT ![t] = "ready"]
      /\ run' = [run EXCEPT ![t] = locals]
      /\ k = "ask" => chatLock = NoOne /\ (history # <<>> => chatModel = m)
      /\ chatLock' = (IF k = "ask" THEN t ELSE chatLock)
      /\ UNCHANGED <<history, chatModel, modelLock, cache, flagVars, seen, late>>
  BY <1>2 DEF Start, Goto, Step
<1>5. pc'[t] = "ready" /\ run'[t] = locals
  BY <1>4 DEF GenerationInv, RunTypes
<1>6. RunInv(t)'
  <2>1. Owns(t)' /\ ModelRead(t)' /\ Hears(t)'
    BY <1>3, <1>4, <1>5 DEF Owns, ModelRead, Hears, HasModel
  <2>2. Continues(t)'
    <3>. HIDE DEF locals
    <3> QED
      BY <1>1, <1>3, <1>4, <1>5 DEF Continues, Prompt
  <2>3. Progress(t)'
    <3>. HIDE DEF locals
    <3>1. Len(locals.output) <= locals.limit
      BY <1>2, <1>3
    <3> QED
      BY <1>3, <1>5, <3>1 DEF Progress, Running, Before
  <2> QED
    BY <2>1, <2>2, <2>3 DEF RunInv
<1>7. /\ SessionTypes' /\ FlagTypes' /\ SessionWellFormed' /\ StopIsPrompt'
      /\ (late > 0 => stop)'
  BY <1>4 DEF GenerationInv, SessionTypes, FlagTypes, SessionWellFormed, StopIsPrompt, flagVars
<1> QED
  <2>1. chatLock \in {t, NoOne} \/ UNCHANGED sessionVars
    BY <1>4 DEF sessionVars
  <2>2. "ready" \in Running \cup HasModel \cup {"idle", "ended"}
    BY DEF Running, Before
  <2>. HIDE DEF locals
  <2> QED
    BY <1>2, <1>4, <1>6, <1>7, <2>1, <2>2, TaskKeeps

(* A step that moves a task, and changes neither its locals nor the session  *)
(* nor what the flags say of the run.                                        *)
LEMMA MoveKeeps ==
  ASSUME GenerationInv, NEW t \in Tasks, NEW there \in Running \cup HasModel \cup {"ended"},
         pc' = [pc EXCEPT ![t] = there], pc[t] # "idle",
         UNCHANGED <<sessionVars, run>>,
         modelLock \in {t, NoOne} \/ UNCHANGED <<modelLock, cache, late>>,
         SessionTypes', FlagTypes', StopIsPrompt', (late > 0 => stop)',
         there \in HasModel => modelLock' = t,
         there \in Before => pc[t] \in Before,
         there = "computing" => pc[t] \in Before,
         ModelRead(t)', Hears(t)'
  PROVE  GenerationInv'
<1>1. /\ pc'[t] = there /\ run'[t] = run[t] /\ run' = [run EXCEPT ![t] = run[t]]
      /\ run[t] \in Locals
  BY DEF GenerationInv, RunTypes
<1>2. RunInv(t)
  BY DEF GenerationInv
<1>3. Owns(t)' /\ Continues(t)'
  BY <1>1, <1>2 DEF RunInv, Owns, Continues, sessionVars, Prompt
<1>4. Progress(t)'
  <2>1. CASE there # "computing"
    BY <1>1, <1>2, <2>1 DEF RunInv, Progress, Running, Before
  <2>2. CASE there = "computing"
    <3>1. /\ run[t].output = <<>> /\ run[t].position = 0 /\ run[t].result = "error"
          /\ Len(run[t].output) <= run[t].limit
      BY <1>2, <2>2 DEF RunInv, Progress, Running
    <3>2. Len(run[t].input) \in Nat \ {0} /\ run[t].limit \in Nat
      <4>1. run[t].input \in Seq(Token) /\ run[t].input # <<>>
        BY <1>1, <1>2 DEF RunInv, Continues, Locals
      <4> QED
        BY <1>1, <4>1, LenProperties, GenerationAssumption DEF Locals
    <3>3. 0 < Positions(run[t]) /\ Len(run[t].output) = Answered(run[t])
      BY <3>1, <3>2 DEF Positions, Answered
    <3> QED
      BY <1>1, <2>2, <3>1, <3>3 DEF Progress, Before, Running
  <2> QED
    BY <2>1, <2>2
<1> QED
  <2>1. SessionWellFormed'
    BY DEF GenerationInv, SessionWellFormed, sessionVars
  <2> QED
    BY <1>1, <1>3, <1>4, <2>1, TaskKeeps DEF RunInv
LEMMA BusyKeeps == ASSUME GenerationInv, NEW t \in Tasks, Busy(t) PROVE GenerationInv'
<1>1. /\ pc[t] = "ready" /\ pc' = [pc EXCEPT ![t] = "ended"] /\ pc'[t] = "ended"
      /\ UNCHANGED <<sessionVars, modelLock, cache, flagVars, run, seen, late>>
  BY DEF Busy, Goto, GenerationInv, RunTypes
<1>2. /\ SessionTypes' /\ FlagTypes' /\ StopIsPrompt' /\ (late > 0 => stop)'
      /\ ModelRead(t)' /\ Hears(t)'
  BY <1>1 DEF GenerationInv, SessionTypes, FlagTypes, StopIsPrompt, sessionVars, flagVars,
              ModelRead, Hears
<1> QED
  BY <1>1, <1>2, MoveKeeps DEF HasModel, Before

LEMMA EnterKeeps == ASSUME GenerationInv, NEW t \in Tasks, Enter(t) PROVE GenerationInv'
<1>1. /\ pc[t] = "ready" /\ pc' = [pc EXCEPT ![t] = "clear"] /\ pc'[t] = "clear"
      /\ modelLock = NoOne /\ modelLock' = t
      /\ UNCHANGED <<sessionVars, cache, flagVars, run, seen, late>>
  BY DEF Enter, Goto, GenerationInv, RunTypes
<1>2. /\ SessionTypes' /\ FlagTypes' /\ StopIsPrompt' /\ (late > 0 => stop)'
      /\ ModelRead(t)' /\ Hears(t)'
  BY <1>1 DEF GenerationInv, SessionTypes, FlagTypes, StopIsPrompt, sessionVars, flagVars,
              ModelRead, Hears
<1> QED
  BY <1>1, <1>2, MoveKeeps DEF HasModel, Before
-----------------------------------------------------------------------------
(* Under the model lock. *)
LEMMA HasTheModel ==
  ASSUME GenerationInv, NEW t \in Tasks, pc[t] \in HasModel
  PROVE  modelLock = t
BY DEF GenerationInv, RunInv, Owns

LEMMA ClearStopKeeps ==
  ASSUME GenerationInv, NEW t \in Tasks, ClearStop(t) PROVE GenerationInv'
<1>1. /\ pc[t] = "clear" /\ pc' = [pc EXCEPT ![t] = "activate"] /\ pc'[t] = "activate"
      /\ stop' = FALSE /\ stray' = FALSE /\ late' = 0
      /\ UNCHANGED <<sessionVars, modelLock, cache, active, run, seen>>
  BY DEF ClearStop, Goto, GenerationInv, RunTypes
<1>2. modelLock = t
  BY <1>1, HasTheModel DEF HasModel
<1>3. /\ SessionTypes' /\ FlagTypes' /\ StopIsPrompt' /\ (late > 0 => stop)'
      /\ ModelRead(t)' /\ Hears(t)'
  <2>1. SessionTypes' /\ ModelRead(t)' /\ Hears(t)'
    BY <1>1 DEF GenerationInv, SessionTypes, sessionVars, ModelRead, Hears
  <2>2. FlagTypes'
    BY <1>1 DEF GenerationInv, FlagTypes
  <2>3. late' <= 1 /\ ~(late' > 0)
    BY <1>1
  <2> QED
    BY <2>1, <2>2, <2>3 DEF StopIsPrompt
<1> QED
  BY <1>1, <1>2, <1>3, MoveKeeps DEF HasModel, Before

LEMMA ActivateKeeps ==
  ASSUME GenerationInv, NEW t \in Tasks, Activate(t) PROVE GenerationInv'
<1>1. PICK there \in {"loading", "computing", "out"} :
        /\ pc' = [pc EXCEPT ![t] = there] /\ pc[t] = "activate"
        /\ there = "computing" => cache = run[t].model
        /\ active' = TRUE
        /\ UNCHANGED <<sessionVars, modelLock, cache, stop, stray, run, seen, late>>
  BY DEF Activate, Goto
<1>2. /\ pc'[t] = there /\ modelLock = t /\ RunInv(t)
  BY <1>1, HasTheModel DEF HasModel, GenerationInv, RunTypes
<1>3. SessionTypes' /\ FlagTypes' /\ StopIsPrompt' /\ (late > 0 => stop)'
  BY <1>1 DEF GenerationInv, SessionTypes, FlagTypes, StopIsPrompt, sessionVars
<1>4. ModelRead(t)' /\ Hears(t)'
  <2>1. run[t].model # NoModel /\ run[t].result = "error" /\ late = 0
    BY <1>1, <1>2, GenerationAssumption DEF RunInv, Continues, Progress, Hears, Running, Before
  <2> QED
    BY <1>1, <1>2, <2>1 DEF ModelRead, Hears
<1> QED
  BY <1>1, <1>2, <1>3, <1>4, MoveKeeps DEF HasModel, Before, Running

(* A step of the loop: it keeps the arguments and the input.                 *)
LEMMA WorkKeeps ==
  ASSUME GenerationInv, NEW t \in Tasks, NEW there \in {"loading", "computing", "out"},
         NEW locals \in Locals, pc[t] \in {"loading", "computing"},
         pc' = [pc EXCEPT ![t] = there], run' = [run EXCEPT ![t] = locals],
         locals.kind = run[t].kind, locals.model = run[t].model, locals.input = run[t].input,
         UNCHANGED <<sessionVars, modelLock, cache, flagVars, seen>>,
         late' \in Nat, late' <= 1, late' > 0 => stop,
         Progress(t)', ModelRead(t)', Hears(t)'
  PROVE  GenerationInv'
<1>1. pc'[t] = there /\ run'[t] = locals /\ modelLock = t /\ RunInv(t)
  BY HasTheModel DEF HasModel, GenerationInv, RunTypes
<1>2. /\ SessionTypes' /\ FlagTypes' /\ StopIsPrompt' /\ (late > 0 => stop)'
      /\ SessionWellFormed'
  BY DEF GenerationInv, SessionTypes, FlagTypes, StopIsPrompt, SessionWellFormed, sessionVars,
         flagVars
<1>3. Owns(t)' /\ Continues(t)'
  BY <1>1 DEF RunInv, Owns, Continues, sessionVars, Prompt
<1> QED
  BY <1>1, <1>2, <1>3, TaskKeeps DEF HasModel, RunInv

(* The loop ends, with whatever result. *)
LEMMA LeaveKeeps ==
  ASSUME GenerationInv, NEW t \in Tasks, NEW r \in Locals, NEW x \in {"ok", "error", "stopped"},
         pc[t] \in {"loading", "computing"}, Leave(t, r, x),
         r.kind = run[t].kind, r.model = run[t].model, r.input = run[t].input,
         UNCHANGED <<sessionVars, modelLock, cache, flagVars, seen>>,
         late' \in Nat, late' <= 1, late' > 0 => stop,
         Len(r.output) <= r.limit,
         x = "ok" => /\ r.next = EndTurn \/ Len(r.output) = r.limit
                     /\ cache # NoModel \/ r.loaded = Chunks
  PROVE  GenerationInv'
<1>. DEFINE locals == [r EXCEPT !.result = x]
<1>1. /\ locals \in Locals /\ locals.kind = r.kind /\ locals.model = r.model
      /\ locals.input = r.input /\ locals.output = r.output /\ locals.limit = r.limit
      /\ locals.next = r.next /\ locals.loaded = r.loaded /\ locals.result = x
  <2>1. locals \in Locals
    BY LocalsKeep
  <2> QED
    BY <2>1 DEF Locals
<1>2. pc' = [pc EXCEPT ![t] = "out"] /\ run' = [run EXCEPT ![t] = locals]
  BY DEF Leave, Step, Goto
<1>. HIDE DEF locals
<1>3. pc'[t] = "out" /\ run'[t] = locals
  BY <1>2 DEF GenerationInv, RunTypes
<1>4. Progress(t)' /\ ModelRead(t)' /\ Hears(t)'
  BY <1>1, <1>3 DEF Progress, ModelRead, Hears, Running, Before
<1> QED
  BY <1>1, <1>2, <1>4, WorkKeeps
(* What holds of a task in its loop. *)
LEMMA InLoop ==
  ASSUME GenerationInv, NEW t \in Tasks, pc[t] \in {"loading", "computing"}
  PROVE  /\ run[t] \in Locals /\ run[t].limit \in Nat /\ run[t].result = "error"
         /\ Len(run[t].input) \in Nat \ {0} /\ Len(run[t].output) <= run[t].limit
         /\ late \in {0, 1} /\ (late > 0 => stop)
         /\ pc[t] = "loading" => late = 0
<1>1. /\ run[t] \in Locals /\ Len(run[t].output) <= run[t].limit /\ run[t].input # <<>>
      /\ run[t].result = "error"
  BY DEF GenerationInv, RunTypes, RunInv, Progress, Continues, Running, Before
<1>2. run[t].limit \in Nat /\ run[t].input \in Seq(Token)
  <2>1. run[t].limit \in Limits \cup {0} /\ run[t].input \in Seq(Token)
    BY <1>1 DEF Locals
  <2>2. \A n \in Limits \cup {0} : n \in Nat
    BY GenerationAssumption
  <2> QED
    BY <2>1, <2>2
<1>3. Len(run[t].input) \in Nat \ {0}
  BY <1>1, <1>2, LenProperties
<1>4. late \in {0, 1} /\ (late > 0 => stop)
  <2>1. late \in Nat /\ late <= 1
    BY DEF GenerationInv, FlagTypes, StopIsPrompt
  <2> QED
    BY <2>1 DEF GenerationInv
<1>5. pc[t] = "loading" => late = 0
  BY DEF GenerationInv, RunInv, Hears
<1> QED
  BY <1>1, <1>2, <1>3, <1>4, <1>5

LEMMA LoadKeeps == ASSUME GenerationInv, NEW t \in Tasks, Load(t) PROVE GenerationInv'
<1>1. /\ pc[t] = "loading"
      /\ UNCHANGED <<sessionVars, modelLock, cache, flagVars, seen, late>>
  BY DEF Load
<1>2. RunInv(t) /\ pc = [pc EXCEPT ![t] = pc[t]] /\ run = [run EXCEPT ![t] = run[t]]
  BY DEF GenerationInv, RunTypes
<1>3. late' \in Nat /\ late' <= 1 /\ (late' > 0 => stop) /\ late' = 0
  BY <1>1, InLoop
<1>4. CASE run[t].loaded = Chunks /\ Goto(t, "computing") /\ UNCHANGED run
  <2>1. pc' = [pc EXCEPT ![t] = "computing"] /\ pc'[t] = "computing" /\ run'[t] = run[t]
    BY <1>4 DEF Goto, GenerationInv, RunTypes
  <2>2. ModelRead(t)' /\ Hears(t)'
    BY <1>3, <1>4, <2>1 DEF ModelRead, Hears
  <2>3. /\ SessionTypes' /\ FlagTypes' /\ StopIsPrompt' /\ (late > 0 => stop)'
    BY <1>1, <1>3 DEF GenerationInv, SessionTypes, FlagTypes, StopIsPrompt, sessionVars, flagVars
  <2>4. modelLock' = t
    BY <1>1, HasTheModel DEF HasModel
  <2> QED
    BY <1>1, <1>4, <2>1, <2>2, <2>3, <2>4, MoveKeeps DEF Running, Before
<1>5. CASE Leave(t, run[t], "stopped")
  BY <1>1, <1>3, <1>5, InLoop, LeaveKeeps
<1>6. CASE run[t].loaded # Chunks /\ Step(t, [run[t] EXCEPT !.loaded = @ + 1]) /\ UNCHANGED pc
  <2>. DEFINE locals == [run[t] EXCEPT !.loaded = run[t].loaded + 1]
  <2>1. run[t] \in Locals /\ run[t].loaded + 1 \in 0 .. Chunks
    BY <1>1, <1>6, InLoop, GenerationAssumption DEF Locals
  <2>2. /\ locals \in Locals /\ locals.kind = run[t].kind /\ locals.model = run[t].model
        /\ locals.input = run[t].input /\ locals.output = run[t].output
        /\ locals.limit = run[t].limit /\ locals.position = run[t].position
        /\ locals.layer = run[t].layer /\ locals.result = run[t].result
    <3>1. locals \in Locals
      BY <2>1, LocalsKeep
    <3> QED
      BY <2>1, <3>1 DEF Locals
  <2>3. run' = [run EXCEPT ![t] = locals]
    BY <1>6 DEF Step
  <2>. HIDE DEF locals
  <2>4. pc'[t] = "loading" /\ run'[t] = locals
    BY <1>1, <1>6, <2>3 DEF GenerationInv, RunTypes
  <2>5. Progress(t)' /\ ModelRead(t)' /\ Hears(t)'
    BY <1>1, <1>2, <1>3, <2>2, <2>4, InLoop DEF RunInv, Progress, ModelRead, Hears, Running, Before
  <2> QED
    BY <1>1, <1>2, <1>3, <1>6, <2>2, <2>3, <2>5, WorkKeeps
<1> QED
  BY <1>4, <1>5, <1>6 DEF Load

LEMMA LayerKeeps == ASSUME GenerationInv, NEW t \in Tasks, Layer(t) PROVE GenerationInv'
<1>1. /\ pc[t] = "computing" /\ run[t].layer < Layers
      /\ UNCHANGED <<sessionVars, modelLock, cache, flagVars, seen, late>>
  BY DEF Layer
<1>2. RunInv(t) /\ pc = [pc EXCEPT ![t] = pc[t]]
  BY DEF GenerationInv, RunTypes
<1>3. late' \in Nat /\ late' <= 1 /\ (late' > 0 => stop)
  BY <1>1, InLoop
<1>4. CASE Leave(t, run[t], "stopped")
  BY <1>1, <1>3, <1>4, InLoop, LeaveKeeps
<1>5. CASE ~stop /\ Step(t, [run[t] EXCEPT !.layer = @ + 1]) /\ UNCHANGED pc
  <2>. DEFINE locals == [run[t] EXCEPT !.layer = run[t].layer + 1]
  <2>1. run[t] \in Locals /\ run[t].layer + 1 \in 0 .. Layers
    BY <1>1, InLoop, GenerationAssumption DEF Locals
  <2>2. /\ locals \in Locals /\ locals.kind = run[t].kind /\ locals.model = run[t].model
        /\ locals.input = run[t].input /\ locals.output = run[t].output
        /\ locals.limit = run[t].limit /\ locals.position = run[t].position
        /\ locals.loaded = run[t].loaded /\ locals.result = run[t].result
    <3>1. locals \in Locals
      BY <2>1, LocalsKeep
    <3> QED
      BY <2>1, <3>1 DEF Locals
  <2>3. run' = [run EXCEPT ![t] = locals]
    BY <1>5 DEF Step
  <2>. HIDE DEF locals
  <2>4. pc'[t] = "computing" /\ run'[t] = locals /\ late' = 0
    BY <1>1, <1>3, <1>5, <2>3 DEF GenerationInv, RunTypes
  <2>5. Progress(t)'
    BY <1>1, <1>2, <2>2, <2>4, InLoop DEF RunInv, Progress, Answered, Positions, Running, Before
  <2>6. ModelRead(t)' /\ Hears(t)'
    BY <1>1, <1>2, <2>2, <2>4 DEF RunInv, ModelRead, Hears
  <2> QED
    BY <1>1, <1>2, <1>3, <1>5, <2>2, <2>3, <2>5, <2>6, WorkKeeps
<1> QED
  BY <1>4, <1>5 DEF Layer

LEMMA FailKeeps == ASSUME GenerationInv, NEW t \in Tasks, Fail(t) PROVE GenerationInv'
<1>1. /\ pc[t] \in {"loading", "computing"} /\ Leave(t, run[t], "error")
      /\ UNCHANGED <<sessionVars, modelLock, cache, flagVars, seen, late>>
  BY DEF Fail
<1>2. late' \in Nat /\ late' <= 1 /\ (late' > 0 => stop)
  BY <1>1, InLoop
<1> QED
  BY <1>1, <1>2, InLoop, LeaveKeeps
(* The end of a position, after which the answer has the length r gives it.  *)
LEMMA NextKeeps ==
  ASSUME GenerationInv, NEW t \in Tasks, NEW r \in Locals, pc[t] = "computing",
         NextPosition(t, r),
         r.kind = run[t].kind, r.model = run[t].model, r.input = run[t].input,
         r.limit = run[t].limit, r.position = run[t].position, r.loaded = run[t].loaded,
         r.result = "error",
         Len(r.output) = IF r.limit = 0 \/ r.position + 1 < Len(r.input) THEN 0
                         ELSE r.position + 2 - Len(r.input),
         UNCHANGED <<sessionVars, modelLock, cache, flagVars, seen>>,
         late' \in Nat, late' <= 1, late' > 0 => stop
  PROVE  GenerationInv'
<1>. DEFINE after == [r EXCEPT !.layer = 0, !.position = @ + 1]
            L == Len(r.input)
<1>1. r.position \in Nat /\ r.limit \in Nat /\ L \in Nat \ {0}
  BY InLoop DEF Locals
<1>2. /\ after \in Locals /\ after.kind = r.kind /\ after.model = r.model
      /\ after.input = r.input /\ after.output = r.output /\ after.limit = r.limit
      /\ after.loaded = r.loaded /\ after.layer = 0 /\ after.position = r.position + 1
      /\ after.result = "error" /\ after.next = r.next
  <2>1. r.position + 1 \in Nat
    BY <1>1
  <2>2. after \in Locals
    BY <2>1, LocalsKeep
  <2> QED
    BY <2>2 DEF Locals
<1>3. NextPosition(t, r) <=>
        IF after.position = Positions(r) THEN Leave(t, after, "ok")
        ELSE Step(t, after) /\ UNCHANGED pc
  BY DEF NextPosition
<1>. HIDE DEF after
<1>4. /\ Positions(r) = L + (IF r.limit = 0 THEN 0 ELSE r.limit - 1)
      /\ Answered(after) = IF r.limit = 0 \/ r.position + 1 < L THEN 0
                           ELSE r.position + 2 - L
      /\ Positions(after) = Positions(r) /\ Positions(run[t]) = Positions(r)
  <2>1. Positions(r) = L + (IF r.limit = 0 THEN 0 ELSE r.limit - 1)
    BY DEF Positions
  <2>2. Answered(after) = IF r.limit = 0 \/ r.position + 1 < L THEN 0
                          ELSE r.position + 1 + 1 - L
    BY <1>2 DEF Answered
  <2>3. r.position + 1 + 1 - L = r.position + 2 - L
    BY <1>1
  <2>4. Positions(after) = Positions(r) /\ Positions(run[t]) = Positions(r)
    BY <1>2 DEF Positions
  <2> QED
    BY <2>1, <2>2, <2>3, <2>4
<1>5. /\ r.position < Positions(r) /\ RunInv(t)
      /\ cache # NoModel \/ r.loaded = Chunks
  BY <1>4 DEF GenerationInv, RunInv, Progress, ModelRead
<1>6. CASE after.position = Positions(r)
  <2>1. Len(after.output) = after.limit
    <3>1. r.position + 1 = L + (IF r.limit = 0 THEN 0 ELSE r.limit - 1)
      BY <1>2, <1>4, <1>6
    <3>2. CASE r.limit = 0
      BY <1>2, <3>2
    <3>3. CASE r.limit # 0
      <4>1. r.position + 1 = L + (r.limit - 1)
        BY <3>1, <3>3
      <4>2. ~(r.position + 1 < L) /\ r.position + 2 - L = r.limit
        <5>1. r.limit - 1 \in Nat
          BY <1>1, <3>3
        <5> HIDE DEF L
        <5> QED
          BY <1>1, <4>1, <5>1, SMTT(30)
      <4> QED
        BY <1>2, <3>3, <4>2
    <3> QED
      BY <3>2, <3>3
  <2> QED
    BY <1>1, <1>2, <1>3, <1>5, <1>6, <2>1, LeaveKeeps
<1>7. CASE after.position # Positions(r)
  <2>1. /\ pc = [pc EXCEPT ![t] = "computing"] /\ pc' = pc /\ pc'[t] = "computing"
        /\ run' = [run EXCEPT ![t] = after] /\ run'[t] = after
    BY <1>3, <1>7 DEF Step, GenerationInv, RunTypes
  <2>2. /\ after.position < Positions(after) /\ Len(after.output) = Answered(after)
        /\ Len(after.output) <= after.limit
    <3>1. /\ r.position + 1 < L + (IF r.limit = 0 THEN 0 ELSE r.limit - 1)
          /\ r.position + 1 < Positions(r)
      <4>1. r.position + 1 # Positions(r) /\ r.position < Positions(r)
        BY <1>2, <1>5, <1>7
      <4>2. Positions(r) \in Nat
        BY <1>1, <1>4
      <4>3. r.position + 1 < Positions(r)
        BY <1>1, <4>1, <4>2
      <4> QED
        BY <1>4, <4>3
    <3>2. Len(r.output) <= r.limit
      <4>1. CASE r.limit = 0
        BY <4>1
      <4>2. CASE r.limit # 0
        <5>1. r.position + 1 < L + (r.limit - 1)
          BY <3>1, <4>2
        <5>2. Len(r.output) = IF r.position + 1 < L THEN 0 ELSE r.position + 2 - L
          BY <4>2
        <5> HIDE DEF L
        <5> QED
          BY <1>1, <5>1, <5>2
      <4> QED
        BY <4>1, <4>2
    <3> QED
      BY <1>2, <1>4, <3>1, <3>2
  <2>3. Progress(t)'
    BY <1>2, <2>1, <2>2 DEF Progress, Before, Running
  <2>4. ModelRead(t)' /\ Hears(t)'
    BY <1>2, <1>5, <2>1 DEF ModelRead, Hears
  <2> QED
    BY <1>2, <2>1, <2>3, <2>4, WorkKeeps
<1> QED
  BY <1>6, <1>7

LEMMA PrefillKeeps == ASSUME GenerationInv, NEW t \in Tasks, Prefill(t) PROVE GenerationInv'
<1>1. /\ pc[t] = "computing" /\ ~Answering(run[t]) /\ NextPosition(t, run[t])
      /\ UNCHANGED <<sessionVars, modelLock, cache, flagVars, seen, late>>
  BY DEF Prefill
<1>2. late' \in Nat /\ late' <= 1 /\ (late' > 0 => stop)
  BY <1>1, InLoop
<1>3. Len(run[t].output) = IF run[t].limit = 0 \/ run[t].position + 1 < Len(run[t].input) THEN 0
                           ELSE run[t].position + 2 - Len(run[t].input)
  <2>1. Len(run[t].output) = Answered(run[t])
    BY <1>1 DEF GenerationInv, RunInv, Progress
  <2>2. run[t].position \in Nat /\ run[t].limit \in Nat /\ Len(run[t].input) \in Nat
    BY <1>1, InLoop DEF Locals
  <2> QED
    BY <1>1, <2>1, <2>2 DEF Answered, Answering
<1> QED
  BY <1>1, <1>2, <1>3, InLoop, NextKeeps

LEMMA PredictKeeps ==
  ASSUME GenerationInv, NEW t \in Tasks, NEW token \in {Word, EndTurn}, Predict(t, token)
  PROVE  GenerationInv'
<1>. DEFINE r == [run[t] EXCEPT !.next = token]
            longer == [r EXCEPT !.output = Append(@, Word)]
<1>1. /\ pc[t] = "computing" /\ run[t].layer = Layers /\ Answering(run[t])
      /\ UNCHANGED <<sessionVars, modelLock, cache, flagVars, seen>>
  BY DEF Predict
<1>2. /\ r \in Locals /\ r.kind = run[t].kind /\ r.model = run[t].model
      /\ r.input = run[t].input /\ r.output = run[t].output /\ r.limit = run[t].limit
      /\ r.loaded = run[t].loaded /\ r.position = run[t].position /\ r.next = token
      /\ r.result = run[t].result
  <2>1. r \in Locals
    BY <1>1, InLoop, LocalsKeep
  <2> QED
    BY <1>1, <2>1, InLoop DEF Locals
<1>3. /\ token = EndTurn => Leave(t, r, "ok") /\ UNCHANGED late
      /\ token # EndTurn => /\ NextPosition(t, longer)
                            /\ late' = (IF stop THEN late + 1 ELSE late)
  BY DEF Predict
<1>. HIDE DEF r
<1>4. late = 0 /\ (cache # NoModel \/ r.loaded = Chunks)
  <2>1. Layers # 0 /\ late \in Nat
    BY <1>1, InLoop, GenerationAssumption
  <2> QED
    BY <1>1, <1>2, <2>1 DEF GenerationInv, RunInv, Hears, ModelRead
<1>5. CASE token = EndTurn
  BY <1>1, <1>2, <1>3, <1>4, <1>5, InLoop, LeaveKeeps
<1>6. CASE token # EndTurn
  <2>1. /\ longer \in Locals /\ longer.kind = r.kind /\ longer.model = r.model
        /\ longer.input = r.input /\ longer.limit = r.limit /\ longer.loaded = r.loaded
        /\ longer.position = r.position /\ longer.result = r.result
        /\ Len(longer.output) = Len(r.output) + 1
    <3>1. longer \in Locals
      BY <1>2, LocalsKeep
    <3>2. longer.output = Append(r.output, Word) /\ r.output \in Seq({Word})
      BY <1>2 DEF Locals
    <3>3. Len(longer.output) = Len(r.output) + 1
      BY <3>2, AppendProperties
    <3> QED
      BY <1>2, <3>1, <3>3 DEF Locals
  <2>2. Len(longer.output) = IF r.limit = 0 \/ r.position + 1 < Len(r.input) THEN 0
                             ELSE r.position + 2 - Len(r.input)
    <3>1. Len(run[t].output) = Answered(run[t])
      BY <1>1 DEF GenerationInv, RunInv, Progress
    <3>2. run[t].position \in Nat /\ run[t].limit \in Nat /\ Len(run[t].input) \in Nat
      BY <1>1, InLoop DEF Locals
    <3> QED
      BY <1>1, <1>2, <2>1, <3>1, <3>2 DEF Answered, Answering
  <2>3. late' \in Nat /\ late' <= 1 /\ (late' > 0 => stop)
    BY <1>3, <1>4, <1>6
  <2>4. NextPosition(t, longer) /\ r.result = "error"
    BY <1>1, <1>2, <1>3, <1>6, InLoop
  <2>. HIDE DEF longer
  <2> QED
    BY <1>1, <1>2, <2>1, <2>2, <2>3, <2>4, NextKeeps
<1> QED
  BY <1>5, <1>6
-----------------------------------------------------------------------------
(* The end of a command. *)
LEMMA DeactivateKeeps ==
  ASSUME GenerationInv, NEW t \in Tasks, Deactivate(t) PROVE GenerationInv'
<1>1. /\ pc[t] = "out" /\ pc' = [pc EXCEPT ![t] = "unlock"] /\ pc'[t] = "unlock"
      /\ cache' \in {cache, run[t].model} /\ active' = FALSE
      /\ seen' = [s \in Stoppers |-> IF seen[s] = "run" THEN "past run" ELSE seen[s]]
      /\ UNCHANGED <<sessionVars, modelLock, stop, stray, run, late>>
  BY DEF Deactivate, Goto, GenerationInv, RunTypes
<1>2. modelLock = t /\ RunInv(t)
  BY <1>1, HasTheModel DEF HasModel, GenerationInv
<1>3. SessionTypes'
  BY <1>1, <1>2 DEF GenerationInv, SessionTypes, RunInv, Continues, sessionVars
<1>4. FlagTypes'
  BY <1>1 DEF GenerationInv, FlagTypes
<1>5. StopIsPrompt' /\ (late > 0 => stop)' /\ ModelRead(t)' /\ Hears(t)'
  BY <1>1 DEF GenerationInv, StopIsPrompt, ModelRead, Hears
<1> QED
  BY <1>1, <1>2, <1>3, <1>4, <1>5, MoveKeeps DEF HasModel, Before, Running

LEMMA UnlockKeeps == ASSUME GenerationInv, NEW t \in Tasks, Unlock(t) PROVE GenerationInv'
<1>1. /\ pc[t] = "unlock" /\ pc' = [pc EXCEPT ![t] = "ended"] /\ pc'[t] = "ended"
      /\ modelLock' = NoOne
      /\ UNCHANGED <<sessionVars, cache, flagVars, seen, late>>
  BY DEF Unlock, Goto, GenerationInv, RunTypes
<1>2. modelLock = t /\ RunInv(t) /\ run[t] \in Locals /\ run = [run EXCEPT ![t] = run[t]]
  BY <1>1, HasTheModel DEF HasModel, GenerationInv, RunTypes
<1>3. PICK locals \in {run[t], [run[t] EXCEPT !.result = "error"]} :
        run' = [run EXCEPT ![t] = locals]
  BY <1>2 DEF Unlock, Step
<1>4. /\ locals \in Locals /\ locals.kind = run[t].kind /\ locals.model = run[t].model
      /\ locals.input = run[t].input /\ locals.output = run[t].output
      /\ locals.limit = run[t].limit /\ locals.next = run[t].next
      /\ locals.result \in {run[t].result, "error"}
  <2>1. locals \in Locals
    BY <1>2, LocalsKeep
  <2> QED
    BY <1>2, <2>1 DEF Locals
<1>5. run'[t] = locals
  BY <1>3 DEF GenerationInv, RunTypes
<1>6. /\ SessionTypes' /\ FlagTypes' /\ SessionWellFormed' /\ StopIsPrompt'
      /\ (late > 0 => stop)'
  BY <1>1 DEF GenerationInv, SessionTypes, FlagTypes, SessionWellFormed, StopIsPrompt,
              sessionVars, flagVars
<1>7. RunInv(t)'
  <2>1. Owns(t)' /\ Continues(t)'
    BY <1>1, <1>2, <1>4, <1>5 DEF RunInv, Owns, Continues, HasModel, sessionVars, Prompt
  <2>2. Progress(t)' /\ ModelRead(t)' /\ Hears(t)'
    BY <1>1, <1>2, <1>4, <1>5 DEF RunInv, Progress, ModelRead, Hears, Running, Before
  <2> QED
    BY <2>1, <2>2 DEF RunInv
<1> QED
  BY <1>1, <1>2, <1>3, <1>4, <1>6, <1>7, TaskKeeps

(* A turn that is committed is a session for the next one. *)
LEMMA TurnIsSession ==
  ASSUME NEW r \in Locals, Commits(r)
  PROVE  /\ Turn(r) \in Seq(Token) /\ Turn(r) # <<>> /\ Len(Turn(r)) <= SequenceLimit
         /\ Turn(r)[Len(Turn(r))] = EndTurn
<1>1. r.input \in Seq(Token) /\ r.output \in Seq(Token) /\ <<EndTurn>> \in Seq(Token)
  <2>1. r.output \in Seq({Word}) /\ {Word} \subseteq Token
    BY DEF Locals, Token
  <2> QED
    BY <2>1, SeqMonotonic DEF Locals, Token
<1>. DEFINE s == r.input \o r.output
<1>2. s \in Seq(Token)
  BY <1>1, ConcatProperties
<1>. HIDE DEF s
<1>3. /\ s \o <<EndTurn>> \in Seq(Token) /\ Len(s \o <<EndTurn>>) = Len(s) + 1
      /\ (s \o <<EndTurn>>)[Len(s) + 1] = EndTurn
  BY <1>1, <1>2
<1>4. Turn(r) = s \o <<EndTurn>>
  BY DEF Turn, s
<1>5. Len(s) \in Nat
  BY <1>2
<1> QED
  BY <1>3, <1>4, <1>5 DEF Commits

LEMMA FinishKeeps == ASSUME GenerationInv, NEW t \in Tasks, Finish(t) PROVE GenerationInv'
<1>1. /\ pc[t] = "ended" /\ pc' = [pc EXCEPT ![t] = "idle"] /\ run' = [run EXCEPT ![t] = NoLocals]
      /\ chatLock' = (IF run[t].kind = "ask" THEN NoOne ELSE chatLock)
      /\ UNCHANGED <<modelLock, cache, flagVars, seen, late>>
  BY DEF Finish, Step, Goto
<1>2. RunInv(t) /\ run[t] \in Locals /\ pc'[t] = "idle" /\ run'[t] = NoLocals
  BY <1>1 DEF GenerationInv, RunTypes
<1>3. NoLocals \in Locals /\ NoLocals.result = "error" /\ Len(NoLocals.output) <= NoLocals.limit
  <2>1. <<>> \in Seq(Token)
    OBVIOUS
  <2>2. NoLocals \in Locals
    BY <2>1, FreshLocals DEF NoLocals
  <2>3. NoLocals.output = <<>> /\ NoLocals.limit = 0 /\ NoLocals.result = "error"
    BY DEF NoLocals, Fresh
  <2>4. Len(NoLocals.output) <= NoLocals.limit
    BY <2>3
  <2> QED
    BY <2>2, <2>3, <2>4
<1>4. RunInv(t)'
  BY <1>2, <1>3 DEF RunInv, Owns, Continues, Progress, ModelRead, Hears, HasModel, Running, Before
<1>5. FlagTypes' /\ StopIsPrompt' /\ (late > 0 => stop)'
  BY <1>1 DEF GenerationInv, FlagTypes, StopIsPrompt, flagVars
<1>6. CASE Commits(run[t])
  <2>1. history' = Turn(run[t]) /\ chatModel' = run[t].model /\ chatLock = t
    BY <1>1, <1>2, <1>6 DEF Finish, RunInv, Owns, Commits
  <2>2. run[t].model \in Models /\ run[t].model # NoModel
    BY <1>1, <1>2, GenerationAssumption DEF RunInv, Continues
  <2>3. SessionTypes' /\ SessionWellFormed'
    BY <1>1, <1>2, <1>6, <2>1, <2>2, TurnIsSession DEF GenerationInv, SessionTypes, SessionWellFormed
  <2> QED
    BY <1>1, <1>3, <1>4, <1>5, <2>1, <2>3, TaskKeeps
<1>7. CASE ~Commits(run[t])
  <2>1. UNCHANGED <<history, chatModel>>
    BY <1>7 DEF Finish
  <2>2. SessionTypes' /\ SessionWellFormed'
    BY <1>1, <2>1 DEF GenerationInv, SessionTypes, SessionWellFormed
  <2>3. chatLock \in {t, NoOne} \/ UNCHANGED sessionVars
    BY <1>1, <1>2, <2>1 DEF RunInv, Owns, sessionVars
  <2> QED
    BY <1>1, <1>3, <1>4, <1>5, <2>2, <2>3, TaskKeeps
<1> QED
  BY <1>6, <1>7
-----------------------------------------------------------------------------
(* The other commands. *)
LEMMA NewChatKeeps == ASSUME GenerationInv, NewChat PROVE GenerationInv'
<1>1. /\ chatLock = NoOne /\ history' = <<>> /\ chatModel' = NoModel
      /\ UNCHANGED <<chatLock, modelLock, cache, flagVars, pc, run, seen, late>>
  BY DEF NewChat
<1>2. SessionTypes' /\ SessionWellFormed'
  BY <1>1 DEF GenerationInv, SessionTypes, SessionWellFormed
<1>3. FlagTypes' /\ RunTypes' /\ StopIsPrompt' /\ (late > 0 => stop)'
  BY <1>1 DEF GenerationInv, FlagTypes, RunTypes, StopIsPrompt, flagVars
<1>4. ASSUME NEW t \in Tasks PROVE RunInv(t)'
  <2>1. RunInv(t) /\ ~(pc[t] # "idle" /\ run[t].kind = "ask")
    BY <1>1, GenerationAssumption DEF GenerationInv, RunInv, Owns
  <2> QED
    BY <1>1, <2>1 DEF RunInv, Owns, Continues, Progress, Answered, Positions, ModelRead, Hears
<1> QED
  BY <1>2, <1>3, <1>4 DEF GenerationInv

LEMMA UnloadKeeps == ASSUME GenerationInv, Unload PROVE GenerationInv'
<1>1. /\ modelLock = NoOne /\ cache' = NoModel
      /\ UNCHANGED <<sessionVars, modelLock, flagVars, pc, run, seen, late>>
  BY DEF Unload
<1>2. /\ SessionTypes' /\ FlagTypes' /\ RunTypes' /\ SessionWellFormed' /\ StopIsPrompt'
      /\ (late > 0 => stop)'
  BY <1>1 DEF GenerationInv, SessionTypes, FlagTypes, RunTypes, SessionWellFormed, StopIsPrompt,
              sessionVars, flagVars
<1>3. ASSUME NEW t \in Tasks PROVE RunInv(t)'
  <2>1. RunInv(t) /\ pc[t] \notin HasModel
    BY <1>1, GenerationAssumption DEF GenerationInv, RunInv, Owns
  <2> QED
    BY <1>1, <2>1 DEF RunInv, Owns, Continues, Progress, Answered, Positions, ModelRead, Hears,
                      sessionVars, HasModel, Prompt
<1> QED
  BY <1>2, <1>3 DEF GenerationInv

LEMMA StopKeeps ==
  ASSUME GenerationInv, NEW s \in Stoppers, StopTest(s) \/ StopSet(s) PROVE GenerationInv'
<1>1. /\ UNCHANGED <<sessionVars, modelLock, cache, active, pc, run, late>>
      /\ UNCHANGED stop \/ stop' = TRUE
  BY DEF StopTest, StopSet, flagVars
<1>2. FlagTypes'
  BY <1>1 DEF GenerationInv, FlagTypes, StopTest, StopSet, flagVars
<1>3. /\ SessionTypes' /\ RunTypes' /\ SessionWellFormed' /\ StopIsPrompt'
      /\ (late > 0 => stop)'
  BY <1>1 DEF GenerationInv, SessionTypes, RunTypes, SessionWellFormed, StopIsPrompt, sessionVars
<1>4. ASSUME NEW t \in Tasks PROVE RunInv(t)'
  <2>1. RunInv(t)
    BY DEF GenerationInv
  <2> QED
    BY <1>1, <2>1 DEF RunInv, Owns, Continues, Progress, Answered, Positions, ModelRead, Hears,
                      sessionVars, Prompt
<1> QED
  BY <1>2, <1>3, <1>4 DEF GenerationInv
-----------------------------------------------------------------------------
LEMMA NextKeepsInv == GenerationInv /\ [Next]_vars => GenerationInv'
<1>. SUFFICES ASSUME GenerationInv, [Next]_vars PROVE GenerationInv'
  OBVIOUS
<1>1. CASE UNCHANGED vars
  <2>1. ASSUME NEW t \in Tasks PROVE RunInv(t)'
    <3>1. RunInv(t)
      BY DEF GenerationInv
    <3> QED
      BY <1>1, <3>1 DEF RunInv, Owns, Continues, Progress, Answered, Positions, ModelRead, Hears,
                        vars, sessionVars, Prompt
  <2>2. SessionTypes' /\ FlagTypes' /\ RunTypes' /\ SessionWellFormed' /\ StopIsPrompt'
    BY <1>1 DEF GenerationInv, SessionTypes, FlagTypes, RunTypes, SessionWellFormed,
                StopIsPrompt, vars, sessionVars, flagVars
  <2>3. (late > 0 => stop)'
    BY <1>1 DEF GenerationInv, vars, flagVars
  <2> QED
    BY <2>1, <2>2, <2>3 DEF GenerationInv
<1>2. ASSUME NEW t \in Tasks, Run(t) PROVE GenerationInv'
  <2>1. CASE \E token \in {Word, EndTurn} : Predict(t, token)
    BY <2>1, PredictKeeps
  <2> QED
    BY <1>2, <2>1, BusyKeeps, EnterKeeps, ClearStopKeeps, ActivateKeeps, LoadKeeps, LayerKeeps,
       FailKeeps, PrefillKeeps, DeactivateKeeps, UnlockKeeps, FinishKeeps DEF Run
<1> QED
  BY <1>1, <1>2, StartKeeps, NewChatKeeps, UnloadKeeps, StopKeeps DEF Next

LEMMA GenerationInvariance == Spec => []GenerationInv
BY InitGenerationInv, NextKeepsInv, PTL DEF Spec

(* Whatever generations, stops and clears overlap: the retained session is   *)
(* always turns of one model that fit its array and end with the marker the  *)
(* next prompt continues at, an answer never outgrows its budget, and a run  *)
(* emits at most one token after a stop was stored.                          *)
THEOREM SessionStaysSound == Spec => []SessionIsSound
<1>1. GenerationInv => SessionIsSound
  BY InvGivesTypes DEF GenerationInv, SessionIsSound
<1> QED
  BY <1>1, GenerationInvariance, PTL

(* The one step that writes the session, its commit.                         *)
LEMMA OnlyFinishWrites ==
  ASSUME Next, history' # history, history' # <<>>
  PROVE  \E t \in Tasks : /\ Finish(t) /\ Commits(run[t]) /\ history' = Turn(run[t])
                          /\ chatModel' = run[t].model
<1>1. UNCHANGED history \/ NewChat \/ \E t \in Tasks : Finish(t)
  BY Zenon DEF Next, Run, Start, Busy, Enter, ClearStop, Activate, Load, Layer, Fail, Prefill, Predict,
         Deactivate, Unlock, Unload, StopTest, StopSet, sessionVars
<1> QED
  BY <1>1 DEF NewChat, Finish

(* A commit extends the session as it is then, by the prompt and the answer  *)
(* of the task that owns it, with the model that wrote it: no turn is lost   *)
(* to a concurrent ask, and a cleared session does not come back.            *)
THEOREM NoTurnIsLost == Spec => NoLostTurn
<1>1. ASSUME GenerationInv, Next, history' \notin {history, <<>>}
      PROVE  /\ \E t \in Tasks :
                  history' = history \o Prompt(t) \o run[t].output \o <<EndTurn>>
             /\ history # <<>> => chatModel' = chatModel
  <2>1. PICK t \in Tasks : /\ Finish(t) /\ Commits(run[t]) /\ history' = Turn(run[t])
                           /\ chatModel' = run[t].model
    BY <1>1, OnlyFinishWrites
  <2>2. /\ run[t].input = history \o Prompt(t)
        /\ history # <<>> => chatModel = run[t].model
    BY <1>1, <2>1 DEF Finish, Commits, GenerationInv, RunInv, Continues
  <2> QED
    BY <2>1, <2>2 DEF Turn
<1>2. GenerationInv /\ [Next]_vars =>
        [history' \notin {history, <<>>} =>
          /\ \E t \in Tasks :
               history' = history \o Prompt(t) \o run[t].output \o <<EndTurn>>
          /\ history # <<>> => chatModel' = chatModel]_vars
  BY <1>1
<1> QED
  BY <1>2, GenerationInvariance, PTL DEF Spec, NoLostTurn

(* Only a whole answer is retained, by the owner of the session, and only a  *)
(* model that was read to its end by a run that succeeded becomes resident:  *)
(* nothing of a run that was stopped or failed is kept.                      *)
THEOREM OnlyWholeIsKept == Spec => OnlyWhole
<1>1. ASSUME GenerationInv, Next, history' # history, history' # <<>>
      PROVE  \E t \in Tasks : /\ chatLock = t /\ history' = Turn(run[t])
                              /\ run[t].next = EndTurn \/ Len(run[t].output) = run[t].limit
  <2>1. PICK t \in Tasks : Finish(t) /\ Commits(run[t]) /\ history' = Turn(run[t])
    BY <1>1, OnlyFinishWrites
  <2>2. RunInv(t) /\ pc[t] = "ended" /\ run[t].kind = "ask" /\ run[t].result = "ok"
    BY <1>1, <2>1 DEF GenerationInv, Finish, Commits
  <2> QED
    BY <2>1, <2>2 DEF RunInv, Owns, Progress
<1>2. ASSUME GenerationInv, Next, cache' \notin {cache, NoModel}
      PROVE  \E t \in Tasks : /\ modelLock = t /\ cache' = run[t].model
                              /\ run[t].loaded = Chunks /\ run[t].result = "ok"
  <2>1. UNCHANGED cache \/ Unload \/ \E t \in Tasks : Deactivate(t)
    BY <1>2, Zenon DEF Next, Run, Start, Busy, Enter, ClearStop, Activate, Load, Layer, Fail, Prefill,
       Predict, Finish, Unlock, NewChat, StopTest, StopSet
  <2>2. PICK t \in Tasks : Deactivate(t)
    BY <1>2, <2>1 DEF Unload
  <2>3. /\ cache = NoModel /\ run[t].result = "ok" /\ cache' = run[t].model /\ pc[t] = "out"
    BY <1>2, <2>2 DEF Deactivate
  <2>4. RunInv(t) /\ modelLock = t
    BY <1>2, <2>3, HasTheModel DEF GenerationInv, HasModel
  <2> QED
    BY <2>3, <2>4 DEF RunInv, ModelRead
<1>3. GenerationInv /\ [Next]_vars =>
        [history' # history /\ history' # <<>> =>
          \E t \in Tasks : /\ chatLock = t /\ history' = Turn(run[t])
                           /\ run[t].next = EndTurn \/ Len(run[t].output) = run[t].limit]_vars
  BY <1>1
<1>4. GenerationInv /\ [Next]_vars =>
        [cache' \notin {cache, NoModel} =>
          \E t \in Tasks : /\ modelLock = t /\ cache' = run[t].model
                           /\ run[t].loaded = Chunks /\ run[t].result = "ok"]_vars
  BY <1>2
<1> QED
  BY <1>3, <1>4, GenerationInvariance, PTL DEF Spec, OnlyWhole, OnlyWholeAnswers, OnlyWholeModels
=============================================================================
