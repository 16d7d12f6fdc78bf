--------------------------- MODULE LlmGeneration ---------------------------
(***************************************************************************)
(* A text generation of the local LLM, from the command to the retained    *)
(* history, and the cooperative stop (apps/system/aipetllm).               *)
(*                                                                         *)
(* "ask" continues the one shared session and holds g_chat_lock from its   *)
(* tokenizer to its commit; "chat" has no history.  Both take g_model_lock *)
(* for the forward passes, load the model unless it is cached, and check   *)
(* the stop flag before each chunk of the load and each layer.  "stop"     *)
(* takes no lock: it reads the active flag, then stores the stop flag.     *)
(*                                                                         *)
(* A token is the name of the task for its whole prompt, Word for a token  *)
(* of an answer, EndTurn for im_end.  LlmPool models the compute threads.  *)
(***************************************************************************)
EXTENDS Naturals, Sequences

CONSTANTS Tasks,          \* terminals that generate
          Stoppers,       \* terminals that say stop
          Models,         \* model paths
          Limits,         \* the generate limits asked for
          SequenceLimit,  \* AIPETLLM_SEQUENCE_LIMIT, 64
          Chunks,         \* 256 KiB chunks of a model file
          Layers,         \* block_count
          NoOne, NoModel, Word, EndTurn

ASSUME GenerationAssumption ==
  /\ SequenceLimit \in Nat \ {0} /\ Chunks \in Nat \ {0} /\ Layers \in Nat \ {0}
  /\ Limits \subseteq 0 .. SequenceLimit
  /\ NoOne \notin Tasks /\ NoModel \notin Models
  /\ Word \notin Tasks /\ EndTurn \notin Tasks /\ Word # EndTurn

Token == Tasks \cup {Word, EndTurn}

VARIABLES
  chatLock, modelLock,        \* owners of g_chat_lock and g_model_lock
  history, chatModel,         \* g_chat_history, g_chat_model
  cache,                      \* g_model_path of the cached model
  active, stop,               \* g_generation_active, g_generation_stop
  pc,                         \* each task's position
  run,                        \* its sequence, arguments and loop variables
  seen,                       \* what each stop command found active
  stray,                      \* the stop flag was meant for an earlier run
  late                        \* tokens the active run emitted after a stop

sessionVars == <<chatLock, history, chatModel>>
flagVars == <<active, stop, stray>>
vars == <<sessionVars, modelLock, cache, flagVars, pc, run, seen, late>>
-----------------------------------------------------------------------------
(* The locals of a command: "next" is next_token.                            *)
Locals ==
  [kind : {"ask", "chat"}, model : Models \cup {NoModel}, limit : Limits \cup {0},
   input : Seq(Token), output : Seq({Word}), next : {Word, EndTurn},
   loaded : 0 .. Chunks,
   layer : 0 .. Layers, position : Nat, result : {"ok", "error", "stopped"}]

Fresh(k, m, n, tokens) ==
  [kind |-> k, model |-> m, limit |-> n, input |-> tokens, output |-> <<>>,
   next |-> Word, loaded |-> 0, layer |-> 0, position |-> 0, result |-> "error"]

NoLocals == Fresh("chat", NoModel, 0, <<>>)

(* The answer stays inside its budget, and so inside the output array.       *)
TypeOK ==
  /\ chatLock \in Tasks \cup {NoOne} /\ modelLock \in Tasks \cup {NoOne}
  /\ history \in Seq(Token) /\ chatModel \in Models \cup {NoModel}
  /\ cache \in Models \cup {NoModel}
  /\ active \in BOOLEAN /\ stop \in BOOLEAN /\ stray \in BOOLEAN
  /\ pc \in [Tasks -> {"idle", "ready", "clear", "activate", "loading",
                       "computing", "out", "unlock", "ended"}]
  /\ run \in [Tasks -> Locals]
  /\ \A t \in Tasks : Len(run[t].output) <= run[t].limit
  /\ seen \in [Stoppers -> {"none", "run", "past run"}]
  /\ late \in Nat

Init ==
  /\ chatLock = NoOne /\ modelLock = NoOne
  /\ history = <<>> /\ chatModel = NoModel /\ cache = NoModel
  /\ active = FALSE /\ stop = FALSE /\ stray = FALSE
  /\ pc = [t \in Tasks |-> "idle"]
  /\ run = [t \in Tasks |-> NoLocals]
  /\ seen = [s \in Stoppers |-> "none"] /\ late = 0
-----------------------------------------------------------------------------
(* Steps that several actions share.                                         *)

Goto(t, there) == pc' = [pc EXCEPT ![t] = there]

Step(t, locals) == run' = [run EXCEPT ![t] = locals]

Leave(t, locals, r) ==
  Step(t, [locals EXCEPT !.result = r]) /\ Goto(t, "out")

(* What a retained turn becomes. *)
Turn(r) == r.input \o r.output \o <<EndTurn>>

Prompt(t) == <<t>>
-----------------------------------------------------------------------------
(* Mistakes that would be easy to make here; the properties exclude them.    *)

(* The budget is counted from the end of the prompt, one position too far.   *)
PositionsOffByOne(r) == Len(r.input) + r.limit

(* A turn is retained whatever its size ...                                  *)
CommitsAnySize(r) == r.kind = "ask" /\ r.result = "ok" /\ r.output # <<>>

(* ... or whatever the outcome of its run.                                   *)
CommitsAnyResult(r) ==
  r.kind = "ask" /\ r.output # <<>> /\ Len(Turn(r)) <= SequenceLimit

(* ask takes its input from the session before it has the session.           *)
StartWithoutLock(t, k, m, n) ==
  LET tokens == (IF k = "ask" THEN history ELSE <<>>) \o Prompt(t) IN
  /\ pc[t] = "idle"
  /\ k = "ask" /\ history # <<>> =>
       chatModel = m /\ Len(history) < SequenceLimit
  /\ Len(tokens) <= SequenceLimit
  /\ chatLock' = (IF k = "ask" THEN t ELSE chatLock)
  /\ Step(t, Fresh(k, m, n, tokens))
  /\ Goto(t, "ready")
  /\ UNCHANGED <<history, chatModel, modelLock, cache, flagVars, seen, late>>

(* The flag is looked at while loading only. *)
LayerIgnoresStop(t) ==
  /\ pc[t] = "computing" /\ run[t].layer < Layers
  /\ Step(t, [run[t] EXCEPT !.layer = @ + 1])
  /\ UNCHANGED <<sessionVars, modelLock, cache, flagVars, pc, seen, late>>

(* The buffer is published whatever the outcome of the run. *)
DeactivatePublishes(t) ==
  /\ pc[t] = "out"
  /\ cache' = (IF cache = NoModel THEN run[t].model ELSE cache)
  /\ active' = FALSE /\ Goto(t, "unlock")
  /\ seen' = [s \in Stoppers |-> IF seen[s] = "run" THEN "past run" ELSE seen[s]]
  /\ UNCHANGED <<sessionVars, modelLock, stop, stray, run, late>>

-----------------------------------------------------------------------------
(* The capacity of the loop of qwen2_forward1, and the positions that yield  *)
(* a token.                                                                  *)
Positions(r) == Len(r.input) + (IF r.limit = 0 THEN 0 ELSE r.limit - 1)

Answering(r) == r.limit # 0 /\ r.position + 1 >= Len(r.input)
-----------------------------------------------------------------------------
(* The command, up to the model lock. *)

(* generate_ids_locked: the tokens of the prompt, after those of the history *)
(* when there is one.  A changed model or a full history refuses the turn    *)
(* and releases the lock again, which changes nothing.                       *)
Start(t, k, m, n) ==
  LET tokens == (IF k = "ask" THEN history ELSE <<>>) \o Prompt(t) IN
  /\ pc[t] = "idle"
  /\ k = "ask" => chatLock = NoOne
  /\ k = "ask" /\ history # <<>> =>
       chatModel = m /\ Len(history) < SequenceLimit
  /\ Len(tokens) <= SequenceLimit
  /\ chatLock' = (IF k = "ask" THEN t ELSE chatLock)
  /\ Step(t, Fresh(k, m, n, tokens))
  /\ Goto(t, "ready")
  /\ UNCHANGED <<history, chatModel, modelLock, cache, flagVars, seen, late>>

(* The prompt is ready, but another run or an unload has the model.          *)
Busy(t) ==
  /\ pc[t] = "ready" /\ modelLock # NoOne
  /\ Goto(t, "ended")
  /\ UNCHANGED <<sessionVars, modelLock, cache, flagVars, run, seen, late>>

Enter(t) ==
  /\ pc[t] = "ready" /\ modelLock = NoOne
  /\ modelLock' = t /\ Goto(t, "clear")
  /\ UNCHANGED <<sessionVars, cache, flagVars, run, seen, late>>
-----------------------------------------------------------------------------
(* embedding_pipeline_run, under the model lock. *)

ClearStop(t) ==
  /\ pc[t] = "clear"
  /\ stop' = FALSE /\ stray' = FALSE /\ late' = 0 /\ Goto(t, "activate")
  /\ UNCHANGED <<sessionVars, modelLock, cache, active, run, seen>>

(* The model is cached, or has to be read, or another one is cached.         *)
Activate(t) ==
  /\ pc[t] = "activate"
  /\ active' = TRUE
  /\ Goto(t, IF cache = NoModel THEN "loading"
             ELSE IF cache = run[t].model THEN "computing" ELSE "out")
  /\ UNCHANGED <<sessionVars, modelLock, cache, stop, stray, run, seen, late>>

(* The flag is looked at before each chunk of the file ...                   *)
Load(t) ==
  /\ pc[t] = "loading"
  /\ LET r == run[t] IN
     IF r.loaded = Chunks THEN Goto(t, "computing") /\ UNCHANGED run
     ELSE IF stop THEN Leave(t, r, "stopped")
     ELSE Step(t, [r EXCEPT !.loaded = @ + 1]) /\ UNCHANGED pc
  /\ UNCHANGED <<sessionVars, modelLock, cache, flagVars, seen, late>>

(* ... and before each layer of each position. *)
Layer(t) ==
  /\ pc[t] = "computing" /\ run[t].layer < Layers
  /\ IF stop THEN Leave(t, run[t], "stopped")
     ELSE Step(t, [run[t] EXCEPT !.layer = @ + 1]) /\ UNCHANGED pc
  /\ UNCHANGED <<sessionVars, modelLock, cache, flagVars, seen, late>>

(* Any of the reads, allocations, checks and matrix products may fail, and   *)
(* so may the callback that shows a token.                                   *)
Fail(t) ==
  /\ pc[t] \in {"loading", "computing"}
  /\ Leave(t, run[t], "error")
  /\ UNCHANGED <<sessionVars, modelLock, cache, flagVars, seen, late>>

(* The end of the loop for the position after which the locals are r. *)
NextPosition(t, r) ==
  LET next == [r EXCEPT !.layer = 0, !.position = @ + 1] IN
  IF next.position = Positions(r) THEN Leave(t, next, "ok")
  ELSE Step(t, next) /\ UNCHANGED pc

(* A position of the prompt yields no token. *)
Prefill(t) ==
  /\ pc[t] = "computing" /\ run[t].layer = Layers /\ ~Answering(run[t])
  /\ NextPosition(t, run[t])
  /\ UNCHANGED <<sessionVars, modelLock, cache, flagVars, seen, late>>

(* A later one appends and shows the token it predicts.  The marker that     *)
(* ends a turn is neither shown nor kept, and ends the loop.                 *)
Predict(t, token) ==
  LET r == [run[t] EXCEPT !.next = token] IN
  /\ pc[t] = "computing" /\ run[t].layer = Layers /\ Answering(run[t])
  /\ IF token = EndTurn THEN Leave(t, r, "ok") /\ UNCHANGED late
     ELSE /\ NextPosition(t, [r EXCEPT !.output = Append(@, token)])
          /\ late' = (IF stop THEN late + 1 ELSE late)
  /\ UNCHANGED <<sessionVars, modelLock, cache, flagVars, seen>>

(* The out: label.  A model that was read is kept if the run succeeded.      *)
Deactivate(t) ==
  /\ pc[t] = "out"
  /\ cache' = (IF cache = NoModel /\ run[t].result = "ok" THEN run[t].model
               ELSE cache)
  /\ active' = FALSE /\ Goto(t, "unlock")
  /\ seen' = [s \in Stoppers |-> IF seen[s] = "run" THEN "past run" ELSE seen[s]]
  /\ UNCHANGED <<sessionVars, modelLock, stop, stray, run, late>>

(* forward_fast then restores the CPU affinity of the task, which may fail.  *)
Unlock(t) ==
  /\ pc[t] = "unlock"
  /\ modelLock' = NoOne /\ Goto(t, "ended")
  /\ UNCHANGED run \/ Step(t, [run[t] EXCEPT !.result = "error"])
  /\ UNCHANGED <<sessionVars, cache, flagVars, seen, late>>

(* The end of the command: an ask that succeeded with an answer commits its  *)
(* turn if it fits, and gives the session back.                              *)
Commits(r) ==
  /\ r.kind = "ask" /\ r.result = "ok" /\ r.output # <<>>
  /\ Len(Turn(r)) <= SequenceLimit

Finish(t) ==
  /\ pc[t] = "ended"
  /\ IF Commits(run[t])
     THEN history' = Turn(run[t]) /\ chatModel' = run[t].model
     ELSE UNCHANGED <<history, chatModel>>
  /\ chatLock' = (IF run[t].kind = "ask" THEN NoOne ELSE chatLock)
  /\ Step(t, NoLocals) /\ Goto(t, "idle")
  /\ UNCHANGED <<modelLock, cache, flagVars, seen, late>>
-----------------------------------------------------------------------------
(* The other commands. *)

NewChat ==
  /\ chatLock = NoOne
  /\ history' = <<>> /\ chatModel' = NoModel
  /\ UNCHANGED <<chatLock, modelLock, cache, flagVars, pc, run, seen, late>>

(* LlmPool has the details of unload. *)
Unload ==
  /\ modelLock = NoOne
  /\ cache' = NoModel
  /\ UNCHANGED <<sessionVars, modelLock, flagVars, pc, run, seen, late>>

(* aipetllm_generation_control(stop): test, then set. *)
StopTest(s) ==
  /\ seen[s] = "none" /\ active
  /\ seen' = [seen EXCEPT ![s] = "run"]
  /\ UNCHANGED <<sessionVars, modelLock, cache, flagVars, pc, run, late>>

StopSet(s) ==
  /\ seen[s] # "none"
  /\ stop' = TRUE /\ stray' = (seen[s] = "past run")
  /\ seen' = [seen EXCEPT ![s] = "none"]
  /\ UNCHANGED <<sessionVars, modelLock, cache, active, pc, run, late>>
-----------------------------------------------------------------------------
Run(t) ==
  \/ Busy(t) \/ Enter(t) \/ ClearStop(t) \/ Activate(t) \/ Load(t) \/ Layer(t)
  \/ Fail(t) \/ Prefill(t) \/ (\E token \in {Word, EndTurn} : Predict(t, token))
  \/ Deactivate(t) \/ Unlock(t) \/ Finish(t)

Next ==
  \/ \E t \in Tasks, k \in {"ask", "chat"}, m \in Models, n \in Limits :
       Start(t, k, m, n)
  \/ \E t \in Tasks : Run(t)
  \/ NewChat \/ Unload
  \/ \E s \in Stoppers : StopTest(s) \/ StopSet(s)

Spec == Init /\ [][Next]_vars
-----------------------------------------------------------------------------
(* The session is empty, or it is complete turns of one model that fit the   *)
(* array and end with the marker that a continuation looks for.              *)
SessionWellFormed ==
  IF chatModel = NoModel THEN history = <<>>
  ELSE history # <<>> /\ Len(history) <= SequenceLimit
         /\ history[Len(history)] = EndTurn

(* A turn that was retained is never lost to a concurrent ask, and a session *)
(* that newchat cleared while an ask computes does not come back: whatever   *)
(* happened since the ask began, its commit extends the session as it still  *)
(* is, by its prompt and its answer, with the model that wrote the session.  *)
NoLostTurn ==
  [][history' \notin {history, <<>>} =>
       /\ \E t \in Tasks :
            history' = history \o Prompt(t) \o run[t].output \o <<EndTurn>>
       /\ history # <<>> => chatModel' = chatModel]_vars

(* Only an answer that ended by itself or used up its budget is retained,    *)
(* never the part of one that was stopped or failed.                         *)
OnlyWholeAnswers ==
  [][history' # history /\ history' # <<>> =>
       \E t \in Tasks : /\ chatLock = t /\ history' = Turn(run[t])
                        /\ run[t].next = EndTurn \/ Len(run[t].output) = run[t].limit]_vars

(* After a stop has been stored a run emits at most one more token.          *)
StopIsPrompt == late <= 1

(* The session has the shape its next prompt relies on, and a stop does not  *)
(* wait (all of the above that are about a single state).                    *)
SessionIsSound == TypeOK /\ SessionWellFormed /\ StopIsPrompt

(* A model becomes resident only after a run that read all of it and         *)
(* succeeded; one stopped while loading is not published.                    *)
OnlyWholeModels ==
  [][cache' \notin {cache, NoModel} =>
       \E t \in Tasks : /\ modelLock = t /\ cache' = run[t].model
                        /\ run[t].loaded = Chunks /\ run[t].result = "ok"]_vars

(* What is kept is whole: the answers of the session, and the model.         *)
OnlyWhole == OnlyWholeAnswers /\ OnlyWholeModels

(* docs/a733/LLM_V96_STREAM_HISTORY_STOP.md:12, "a stop is not queued": a    *)
(* stop acts on the run that it found active, never on a later one.          *)
StopNotQueued == ~(active /\ stop /\ stray)
=============================================================================
