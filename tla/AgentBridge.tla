---------------------------- MODULE AgentBridge ----------------------------
(***************************************************************************)
(* The bridge between the pet's terminal commands and the official agent   *)
(* (apps/system/aipet/agent_bridge.c): one request and one unread reply,   *)
(* kept in static storage under one lock and used by three kinds of actor. *)
(*                                                                         *)
(* A terminal that asks submits its text with a timeout and polls while    *)
(* -EAGAIN (pet_routes.cxx, cloud_reply); another may cancel.  The agent   *)
(* process claims the bridge, attaches it once its loop runs, detaches at  *)
(* shutdown and records its status.  The agent's dispatcher looks the tap  *)
(* of the bridge up in the bus, drops the lock of the bus and calls it,    *)
(* so that a call may arrive after the tap was unregistered.               *)
(*                                                                         *)
(* Texts are abstract: a reply is known by the request that it answers.    *)
(* Every action below is one critical section of the bridge's lock.        *)
(***************************************************************************)
EXTENDS Naturals

CONSTANTS Askers,     \* terminals that ask
          Agents,        \* attempts to start ai_agent
          MaxRequests,   \* bound on sequence
          MaxCancels,    \* bound on the cancel commands
          NoAgent

ASSUME BridgeAssumption ==
  MaxRequests \in Nat /\ MaxCancels \in Nat /\ NoAgent \notin Agents

VARIABLES
  lifecycle, owner,             \* the claim: 0 free, 1 claimed, 3 failed, 4 stopped
  attached, pending, ready, cancelled, result,
  sequence,                     \* number of the last chat_id
  chatId,                       \* the chat_id, 0 for the empty string
  response,                     \* the request whose answer it holds, 0 for none
  overdue,                      \* the deadline has passed
  at, asked, told,              \* terminals: position, own request, last outcome
  agent, watcher,               \* agents: position of the process, of its watcher
  bus,                          \* requests the agent has taken from its queue
  delivering,                   \* replies whose tap call is under way
  cancels                       \* cancel commands so far

claimVars == <<lifecycle, owner>>
requestVars == <<attached, pending, ready, cancelled, result, sequence, chatId,
                 response, overdue>>
terminalVars == <<at, asked, told>>
agentVars == <<agent, watcher>>
busVars == <<bus, delivering>>
bridgeVars == <<claimVars, requestVars, terminalVars, agentVars, busVars, cancels>>
-----------------------------------------------------------------------------
Requests == 1 .. MaxRequests

(* What the agent may say to a request: a text that fits, nothing, too much  *)
(* of it, or its error marker.                                               *)
Contents == {"text", "empty", "long", "error"}

Replies == [chat : Requests, content : Contents]

Results == {"OK", "EIO", "ENODATA", "EMSGSIZE", "ETIMEDOUT"}

Outcomes == [status : Results \cup {"none", "EBUSY", "ENODEV", "EAGAIN", "ECANCELED"},
             reply : 0 .. MaxRequests]

Refusal(status) == [status |-> status, reply |-> 0]

BridgeTypeOK ==
  /\ lifecycle \in {0, 1, 3, 4} /\ owner \in Agents \cup {NoAgent}
  /\ attached \in BOOLEAN /\ pending \in BOOLEAN /\ ready \in BOOLEAN
  /\ cancelled \in BOOLEAN /\ overdue \in BOOLEAN /\ result \in Results
  /\ sequence \in 0 .. MaxRequests /\ chatId \in {0, sequence}
  /\ response \in 0 .. sequence
  /\ at \in [Askers -> {"idle", "polling"}]
  /\ asked \in [Askers -> 0 .. sequence] /\ told \in [Askers -> Outcomes]
  /\ agent \in [Agents -> {"off", "running", "detaching", "down", "refused", "gone"}]
  /\ watcher \in [Agents -> {"off", "waiting", "looping", "done"}]
  /\ bus \subseteq 1 .. sequence /\ delivering \subseteq Replies
  /\ cancels \in 0 .. MaxCancels

BridgeInit ==
  /\ lifecycle = 0 /\ owner = NoAgent
  /\ attached = FALSE /\ pending = FALSE /\ ready = FALSE /\ cancelled = FALSE
  /\ result = "OK" /\ sequence = 0 /\ chatId = 0 /\ response = 0
  /\ overdue = FALSE
  /\ at = [t \in Askers |-> "idle"] /\ asked = [t \in Askers |-> 0]
  /\ told = [t \in Askers |-> Refusal("none")]
  /\ agent = [a \in Agents |-> "off"] /\ watcher = [a \in Agents |-> "off"]
  /\ bus = {} /\ delivering = {} /\ cancels = 0
-----------------------------------------------------------------------------
(* Steps that several actions share. *)

Tell(t, outcome) == told' = [told EXCEPT ![t] = outcome]

Return(t, outcome) ==
  /\ Tell(t, outcome) /\ at' = [at EXCEPT ![t] = "idle"]

Become(a, there) == agent' = [agent EXCEPT ![a] = there]

(* The new chat_id and deadline, and the push into the agent's queue, which  *)
(* fails when it is full or destroyed.                                       *)
Accept(t) ==
  /\ sequence' = sequence + 1 /\ chatId' = sequence'
  /\ cancelled' = FALSE /\ overdue' = FALSE
  /\ asked' = [asked EXCEPT ![t] = sequence']
  /\ \/ /\ \E a \in Agents : agent[a] \in {"running", "detaching"}
        /\ pending' = TRUE /\ bus' = bus \cup {sequence'}
        /\ at' = [at EXCEPT ![t] = "polling"] /\ UNCHANGED told
     \/ /\ Tell(t, Refusal("EAGAIN"))
        /\ UNCHANGED <<pending, bus, at>>
  /\ UNCHANGED <<claimVars, attached, ready, result, response, agentVars,
                 delivering, cancels>>
-----------------------------------------------------------------------------
(* Mistakes that would be easy to make here; the properties exclude them.    *)

(* Any answer will do. *)
WantedAnyChat(m) == attached /\ pending

(* Only a request under way refuses another. *)
SubmitOverReply(t) ==
  /\ at[t] = "idle" /\ sequence < MaxRequests
  /\ attached /\ ~pending
  /\ Accept(t)

(* The numbers start again after a detach ... *)
DetachRestarts(a) ==
  /\ agent[a] = "detaching" /\ Become(a, "down")
  /\ attached' = FALSE /\ pending' = FALSE /\ ready' = FALSE
  /\ cancelled' = TRUE /\ chatId' = 0 /\ response' = 0 /\ sequence' = 0
  /\ UNCHANGED <<claimVars, result, overdue, terminalVars, watcher, busVars, cancels>>

(* ... or it only unregisters the tap. *)
DetachOnly(a) ==
  /\ agent[a] = "detaching" /\ Become(a, "down")
  /\ attached' = FALSE
  /\ UNCHANGED <<claimVars, pending, ready, cancelled, result, sequence, chatId,
                 response, overdue, terminalVars, watcher, busVars, cancels>>

(* A cancel forgets the request, but says so to nobody. *)
SilentCancel ==
  /\ cancels < MaxCancels /\ cancels' = cancels + 1
  /\ pending' = FALSE /\ ready' = FALSE
  /\ chatId' = 0 /\ response' = 0
  /\ UNCHANGED <<claimVars, attached, cancelled, result, sequence, overdue,
                 terminalVars, agentVars, busVars>>
-----------------------------------------------------------------------------
(* Terminals: cloud_reply. *)

Refused(t) ==
  /\ at[t] = "idle" /\ sequence < MaxRequests
  /\ ~attached \/ pending \/ ready
  /\ Tell(t, Refusal(IF attached THEN "EBUSY" ELSE "ENODEV"))
  /\ UNCHANGED <<claimVars, requestVars, at, asked, agentVars, busVars, cancels>>

Submit(t) ==
  /\ at[t] = "idle" /\ sequence < MaxRequests
  /\ attached /\ ~pending /\ ~ready
  /\ Accept(t)

Expired == pending /\ overdue

(* aipet_agent_poll with no result to return. *)
PollWaits(t) ==
  /\ at[t] = "polling" /\ ~Expired /\ ~ready
  /\ IF cancelled THEN Return(t, Refusal("ECANCELED")) ELSE UNCHANGED <<at, told>>
  /\ UNCHANGED <<claimVars, requestVars, asked, agentVars, busVars, cancels>>

(* With one: the timeout that it notices, or the stored result.              *)
PollReturns(t) ==
  /\ at[t] = "polling" /\ (Expired \/ ready)
  /\ result' = (IF Expired THEN "ETIMEDOUT" ELSE result)
  /\ Return(t, [status |-> result', reply |-> IF result' = "OK" THEN response ELSE 0])
  /\ pending' = FALSE /\ ready' = FALSE /\ response' = 0
  /\ UNCHANGED <<claimVars, attached, cancelled, sequence, chatId, overdue, asked,
                 agentVars, busVars, cancels>>

(* The command "aipet cancel", of any terminal. *)
Cancel ==
  /\ cancels < MaxCancels /\ cancels' = cancels + 1
  /\ pending' = FALSE /\ ready' = FALSE /\ cancelled' = TRUE
  /\ chatId' = 0 /\ response' = 0
  /\ UNCHANGED <<claimVars, attached, result, sequence, overdue, terminalVars,
                 agentVars, busVars>>

(* The clock reaches the deadline of the last request. *)
Tick ==
  /\ sequence > 0 /\ ~overdue
  /\ overdue' = TRUE
  /\ UNCHANGED <<claimVars, attached, pending, ready, cancelled, result, sequence,
                 chatId, response, terminalVars, agentVars, busVars, cancels>>
-----------------------------------------------------------------------------
(* The agent process (patches/ai-agent-single-instance.patch). *)

Claimable == lifecycle = 0

Claim(a) ==
  /\ agent[a] = "off"
  /\ IF Claimable
     THEN /\ lifecycle' = 1 /\ owner' = a /\ Become(a, "running")
          /\ watcher' = [watcher EXCEPT ![a] = "waiting"]
     ELSE Become(a, "refused") /\ UNCHANGED <<claimVars, watcher>>
  /\ UNCHANGED <<requestVars, terminalVars, busVars, cancels>>

(* network_watch_task: the network is there, agent_loop_start succeeded ...  *)
StartLoop(a) ==
  /\ watcher[a] = "waiting" /\ agent[a] = "running"
  /\ watcher' = [watcher EXCEPT ![a] = "looping"]
  /\ UNCHANGED <<claimVars, requestVars, terminalVars, agent, busVars, cancels>>

(* ... and then it attaches the bridge.  That it is joined before the        *)
(* process detaches is not known: a late attach is possible.                 *)
Attach(a) ==
  /\ watcher[a] = "looping"
  /\ attached' = TRUE
  /\ watcher' = [watcher EXCEPT ![a] = "done"]
  /\ UNCHANGED <<claimVars, pending, ready, cancelled, result, sequence, chatId,
                 response, overdue, terminalVars, agent, busVars, cancels>>

Shutdown(a) ==
  /\ agent[a] = "running" /\ Become(a, "detaching")
  /\ UNCHANGED <<claimVars, requestVars, terminalVars, watcher, busVars, cancels>>

Detach(a) ==
  /\ agent[a] = "detaching" /\ Become(a, "down")
  /\ attached' = FALSE /\ pending' = FALSE /\ ready' = FALSE
  /\ cancelled' = TRUE /\ chatId' = 0 /\ response' = 0
  /\ UNCHANGED <<claimVars, result, sequence, overdue, terminalVars, watcher,
                 busVars, cancels>>

(* A process that fails at its start returns without a detach. *)
AgentFinish(a, status) ==
  /\ agent[a] = "down" \/ (agent[a] = "running" /\ status # 0)
  /\ Become(a, "gone")
  /\ lifecycle' = (IF status # 0 THEN 3 ELSE 4) /\ owner' = NoAgent
  /\ UNCHANGED <<requestVars, terminalVars, watcher, busVars, cancels>>
-----------------------------------------------------------------------------
(* The agent's dispatcher.  It may answer any request it ever took, late,    *)
(* more than once or never; it needs the tap when it looks it up only.       *)

Lookup(m) ==
  /\ attached /\ m.chat \in bus /\ delivering = {}
  /\ delivering' = {m}
  /\ UNCHANGED <<claimVars, requestVars, terminalVars, agentVars, bus, cancels>>

Wanted(m) == attached /\ pending /\ m.chat = chatId

Verdict(m) ==
  CASE overdue              -> "ETIMEDOUT"
    [] m.content = "empty"  -> "ENODATA"
    [] m.content = "long"   -> "EMSGSIZE"
    [] m.content = "error"  -> "EIO"
    [] OTHER                -> "OK"

Receive(m) ==
  /\ m \in delivering /\ delivering' = delivering \ {m}
  /\ IF Wanted(m)
     THEN /\ result' = Verdict(m)
          /\ response' = (IF Verdict(m) = "OK" THEN m.chat ELSE response)
          /\ pending' = FALSE /\ ready' = TRUE
     ELSE UNCHANGED <<result, response, pending, ready>>
  /\ UNCHANGED <<claimVars, attached, cancelled, sequence, chatId, overdue,
                 terminalVars, agentVars, bus, cancels>>
-----------------------------------------------------------------------------
Poll(t) == PollWaits(t) \/ PollReturns(t)

BridgeNext ==
  \/ \E t \in Askers : Refused(t) \/ Submit(t) \/ Poll(t)
  \/ Cancel \/ Tick
  \/ \E a \in Agents : \/ Claim(a) \/ StartLoop(a) \/ Attach(a) \/ Shutdown(a)
                       \/ Detach(a) \/ \E status \in {0, 1} : AgentFinish(a, status)
  \/ \E m \in Replies : Lookup(m) \/ Receive(m)

BridgeSpec == BridgeInit /\ [][BridgeNext]_bridgeVars

(* The poll loop sleeps and polls again, and time passes. *)
BridgeFairSpec ==
  BridgeSpec /\ WF_bridgeVars(Tick) /\ \A t \in Askers : WF_bridgeVars(Poll(t))
-----------------------------------------------------------------------------
(* One request and one unread reply: a request under way is only replaced    *)
(* after it was answered, cancelled or timed out, and a reply that nobody    *)
(* has read is not overwritten, by a request or by a second answer.          *)
NothingOverwritten ==
  [][/\ pending /\ pending' => chatId' = chatId
     /\ ready /\ ready' => UNCHANGED <<chatId, response, result>>
     /\ ready => ~pending']_requestVars

(* After the detach nothing of the agent is left to present, although a call *)
(* of the tap may still be under way.                                        *)
NothingLeftBehind == ~attached => ~pending /\ ~ready /\ response = 0

(* A terminal never presents the answer to an earlier request than its own,  *)
(* cancelled or timed out, its own or another terminal's.                    *)
NoOldReply ==
  \A t \in Askers :
    at[t] = "idle" /\ told[t].status = "OK" => told[t].reply >= asked[t]

(* No end of an agent and no late answer leaves anything for the next        *)
(* request to trip over (both of the above).                                 *)
BridgeClean == NothingLeftBehind /\ NoOldReply

(* Nor the answer to a later one: docs/a733/AIPET_ONLINE_AGENT.md:16 says    *)
(* that a unique chat_id isolates a request from the replies to others.      *)
OwnReply ==
  \A t \in Askers :
    at[t] = "idle" /\ told[t].status = "OK" => told[t].reply = asked[t]

(* The ask of the only terminal that uses the pet comes back whatever        *)
(* becomes of its request: answered, cancelled, detached or timed out.       *)
EveryAskEnds ==
  \A t \in Askers :
    at[t] = "polling" ~> (at[t] = "idle" \/ \E u \in Askers \ {t} : asked[u] # 0)
=============================================================================
