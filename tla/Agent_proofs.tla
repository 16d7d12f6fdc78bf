---------------------------- MODULE Agent_proofs ----------------------------
(***************************************************************************)
(* Proofs about the online agent: its bridge, its setup and start, and the *)
(* two of them as MC_Agent composes them.                                  *)
(***************************************************************************)
EXTENDS MC_Agent, FiniteSetTheorems, TLAPS
-----------------------------------------------------------------------------
(***************************************************************************)
(* Proofs about the bridge to the official agent, for any number of        *)
(* terminals, agents and requests: whatever late, repeated or missing      *)
(* answers, cancels and shutdowns there are.                               *)
(***************************************************************************)

(* The type invariant in parts, for the provers. *)
ClaimTypes ==
  /\ lifecycle \in {0, 1, 3, 4} /\ owner \in Agents \cup {NoAgent}
  /\ agent \in [Agents -> {"off", "running", "detaching", "down", "refused", "gone"}]
  /\ watcher \in [Agents -> {"off", "waiting", "looping", "done"}]

FlagTypes ==
  /\ attached \in BOOLEAN /\ pending \in BOOLEAN /\ ready \in BOOLEAN
  /\ cancelled \in BOOLEAN /\ overdue \in BOOLEAN

RequestTypes ==
  /\ result \in Results
  /\ sequence \in Nat /\ sequence <= MaxRequests /\ chatId \in {0, sequence}
  /\ response \in 0 .. sequence

TerminalTypes ==
  /\ at \in [Askers -> {"idle", "polling"}]
  /\ asked \in [Askers -> 0 .. sequence] /\ told \in [Askers -> Outcomes]

BusTypes ==
  /\ bus \subseteq 1 .. sequence /\ delivering \subseteq Replies
  /\ cancels \in 0 .. MaxCancels

(* A request under way carries the last number, there is never a request and *)
(* an unread reply together, and an unread reply answers the last request:   *)
(* no other can be submitted before it is read.                              *)
OneSlot ==
  /\ pending => chatId = sequence
  /\ ~(pending /\ ready)
  /\ ready /\ result = "OK" => response = sequence

(* The inductive invariant. *)
BridgeInv ==
  /\ ClaimTypes /\ FlagTypes /\ RequestTypes /\ TerminalTypes /\ BusTypes
  /\ OneSlot /\ BridgeClean

LEMMA InvGivesTypes == BridgeInv => BridgeTypeOK
<1>. SUFFICES ASSUME BridgeInv PROVE BridgeTypeOK
  OBVIOUS
<1>1. sequence \in 0 .. MaxRequests
  BY BridgeAssumption DEF BridgeInv, RequestTypes
<1> QED
  BY <1>1, Zenon DEF BridgeInv, ClaimTypes, FlagTypes, RequestTypes, TerminalTypes, BusTypes,
                     BridgeTypeOK
-----------------------------------------------------------------------------
LEMMA InitBridgeInv == BridgeInit => BridgeInv
<1>. SUFFICES ASSUME BridgeInit PROVE BridgeInv
  OBVIOUS
<1>1. Refusal("none") \in Outcomes /\ Refusal("none").status = "none"
  BY BridgeAssumption DEF Refusal, Outcomes
<1>2. ClaimTypes /\ FlagTypes
  BY DEF BridgeInit, ClaimTypes, FlagTypes
<1>5. RequestTypes /\ BusTypes
  BY BridgeAssumption DEF BridgeInit, RequestTypes, BusTypes, Results
<1>6. OneSlot /\ NothingLeftBehind
  BY DEF BridgeInit, OneSlot, NothingLeftBehind
<1>3. TerminalTypes
  BY <1>1 DEF BridgeInit, TerminalTypes
<1>4. NoOldReply
  BY <1>1 DEF BridgeInit, NoOldReply
<1> QED
  BY <1>2, <1>3, <1>4, <1>5, <1>6 DEF BridgeInv, BridgeClean

(* What a step that leaves the terminals alone keeps of them, as long as the *)
(* numbers do not go back.                                                   *)
LEMMA TerminalsKeep ==
  ASSUME BridgeInv, UNCHANGED terminalVars, sequence' = sequence
  PROVE  TerminalTypes' /\ NoOldReply'
BY DEF BridgeInv, TerminalTypes, BridgeClean, NoOldReply, terminalVars

LEMMA RequestsKeep ==
  ASSUME BridgeInv, UNCHANGED requestVars
  PROVE  /\ FlagTypes' /\ RequestTypes' /\ OneSlot' /\ NothingLeftBehind'
         /\ sequence' = sequence
BY DEF BridgeInv, FlagTypes, RequestTypes, OneSlot, BridgeClean, NothingLeftBehind, requestVars

LEMMA OthersKeep ==
  ASSUME BridgeInv
  PROVE  /\ UNCHANGED <<claimVars, agentVars>> => ClaimTypes'
         /\ UNCHANGED <<busVars, cancels, sequence>> => BusTypes'
BY DEF BridgeInv, ClaimTypes, BusTypes, claimVars, agentVars, busVars

(* An outcome that is no reply spoils no terminal's. *)
LEMMA RefusalIsClean ==
  ASSUME BridgeInv, NEW t \in Askers, NEW s \in {"none", "EBUSY", "ENODEV", "EAGAIN", "ECANCELED"},
         Tell(t, Refusal(s)), at' \in {at, [at EXCEPT ![t] = "idle"]}, sequence' \in Nat,
         asked' \in [Askers -> 0 .. sequence'],
         \A u \in Askers : u # t => asked'[u] = asked[u]
  PROVE  TerminalTypes' /\ NoOldReply'
<1>1. Refusal(s) \in Outcomes /\ Refusal(s).status # "OK"
  BY BridgeAssumption DEF Refusal, Outcomes
<1>2. TerminalTypes'
  BY <1>1 DEF Tell, BridgeInv, TerminalTypes
<1>3. ASSUME NEW u \in Askers, at'[u] = "idle", told'[u].status = "OK"
      PROVE  told'[u].reply >= asked'[u]
  <2>1. u # t
    BY <1>1, <1>3 DEF Tell, BridgeInv, TerminalTypes
  <2>2. at[u] = "idle" /\ told[u] = told'[u] /\ asked'[u] = asked[u]
    BY <1>3, <2>1 DEF Tell, BridgeInv, TerminalTypes
  <2> QED
    BY <1>3, <2>2 DEF BridgeInv, BridgeClean, NoOldReply
<1> QED
  BY <1>2, <1>3 DEF NoOldReply

(* The terminals' steps. *)
LEMMA RefusedKeeps == ASSUME BridgeInv, NEW t \in Askers, Refused(t) PROVE BridgeInv'
<1>1. PICK s \in {"EBUSY", "ENODEV"} : Tell(t, Refusal(s))
  BY DEF Refused
<1>2. UNCHANGED <<claimVars, requestVars, at, asked, agentVars, busVars, cancels>>
  BY DEF Refused
<1>3. /\ FlagTypes' /\ RequestTypes' /\ OneSlot' /\ NothingLeftBehind'
      /\ sequence' = sequence
  BY <1>2, RequestsKeep
<1>4. TerminalTypes' /\ NoOldReply'
  <2>1. asked' \in [Askers -> 0 .. sequence'] /\ sequence' \in Nat
    BY <1>2, <1>3 DEF BridgeInv, TerminalTypes, RequestTypes
  <2> QED
    BY <1>1, <1>2, <2>1, RefusalIsClean
<1> QED
  BY <1>2, <1>3, <1>4, OthersKeep DEF BridgeInv, BridgeClean

LEMMA SubmitKeeps == ASSUME BridgeInv, NEW t \in Askers, Submit(t) PROVE BridgeInv'
<1>1. /\ sequence \in Nat /\ sequence < MaxRequests /\ MaxRequests \in Nat
      /\ attached /\ ~pending /\ ~ready /\ at[t] = "idle" /\ Accept(t)
  BY BridgeAssumption DEF Submit, BridgeInv, RequestTypes
<1>2. /\ sequence' = sequence + 1 /\ chatId' = sequence' /\ cancelled' = FALSE
      /\ overdue' = FALSE /\ asked' = [asked EXCEPT ![t] = sequence']
      /\ UNCHANGED <<claimVars, attached, ready, result, response, agentVars, delivering, cancels>>
  BY <1>1 DEF Accept
<1>3. FlagTypes' /\ bus' \in {bus, bus \cup {sequence'}}
  BY <1>1 DEF Accept, BridgeInv, FlagTypes
<1>4. RequestTypes'
  BY <1>1, <1>2 DEF BridgeInv, RequestTypes
<1>7. OneSlot' /\ NothingLeftBehind'
  BY <1>1, <1>2 DEF OneSlot, NothingLeftBehind
<1>5. BusTypes'
  BY <1>1, <1>2, <1>3 DEF BridgeInv, BusTypes
<1>6. TerminalTypes' /\ NoOldReply'
  <2>1. asked' \in [Askers -> 0 .. sequence'] /\ sequence' \in Nat
    BY <1>1, <1>2 DEF BridgeInv, TerminalTypes
  <2>2. \A u \in Askers : u # t => asked'[u] = asked[u]
    BY <1>2 DEF BridgeInv, TerminalTypes
  <2>3. CASE at' = [at EXCEPT ![t] = "polling"] /\ told' = told
    <3>1. TerminalTypes'
      BY <2>1, <2>3 DEF BridgeInv, TerminalTypes
    <3>2. ASSUME NEW u \in Askers, at'[u] = "idle", told'[u].status = "OK"
          PROVE  told'[u].reply >= asked'[u]
      <4>1. u # t /\ at[u] = "idle"
        BY <2>3, <3>2 DEF BridgeInv, TerminalTypes
      <4> QED
        BY <2>2, <2>3, <3>2, <4>1 DEF BridgeInv, BridgeClean, NoOldReply
    <3> QED
      BY <3>1, <3>2 DEF NoOldReply
  <2>4. CASE Tell(t, Refusal("EAGAIN")) /\ at' = at
    BY <2>1, <2>2, <2>4, RefusalIsClean
  <2> QED
    BY <1>1, <2>3, <2>4 DEF Accept
<1> QED
  BY <1>2, <1>3, <1>4, <1>5, <1>6, <1>7, OthersKeep DEF BridgeInv, BridgeClean

LEMMA PollWaitsKeeps == ASSUME BridgeInv, NEW t \in Askers, PollWaits(t) PROVE BridgeInv'
<1>1. UNCHANGED <<claimVars, requestVars, asked, agentVars, busVars, cancels>>
  BY DEF PollWaits
<1>2. /\ FlagTypes' /\ RequestTypes' /\ OneSlot' /\ NothingLeftBehind'
      /\ sequence' = sequence
  BY <1>1, RequestsKeep
<1>3. TerminalTypes' /\ NoOldReply'
  <2>1. CASE UNCHANGED <<at, told>>
    BY <1>1, <1>2, <2>1, TerminalsKeep DEF terminalVars
  <2>2. CASE Return(t, Refusal("ECANCELED"))
    <3>1. asked' \in [Askers -> 0 .. sequence'] /\ sequence' \in Nat
      BY <1>1, <1>2 DEF BridgeInv, TerminalTypes, RequestTypes
    <3> QED
      BY <1>1, <2>2, <3>1, RefusalIsClean DEF Return
  <2> QED
    BY <2>1, <2>2 DEF PollWaits
<1> QED
  BY <1>1, <1>2, <1>3, OthersKeep DEF BridgeInv, BridgeClean

(* What a poll returns as an answer answers the last request there was.      *)
LEMMA PollReturnsKeeps == ASSUME BridgeInv, NEW t \in Askers, PollReturns(t) PROVE BridgeInv'
<1>. DEFINE reply == IF result' = "OK" THEN response ELSE 0
            outcome == [status |-> result', reply |-> reply]
<1>1. /\ pending' = FALSE /\ ready' = FALSE /\ response' = 0
      /\ UNCHANGED <<claimVars, attached, cancelled, sequence, chatId, overdue, asked,
                    agentVars, busVars, cancels>>
  BY DEF PollReturns
<1>2. result' \in Results /\ (result' = "OK" => response = sequence)
  BY DEF PollReturns, Expired, BridgeInv, RequestTypes, OneSlot, Results
<1>3. told' = [told EXCEPT ![t] = outcome] /\ at' = [at EXCEPT ![t] = "idle"]
  BY DEF PollReturns, Return, Tell
<1>4. RequestTypes'
  BY <1>1, <1>2 DEF BridgeInv, RequestTypes
<1>7. FlagTypes' /\ OneSlot' /\ NothingLeftBehind'
  BY <1>1 DEF BridgeInv, FlagTypes, OneSlot, NothingLeftBehind
<1>5. TerminalTypes'
  <2>1. reply \in 0 .. MaxRequests
    BY BridgeAssumption DEF BridgeInv, RequestTypes
  <2>. HIDE DEF reply
  <2>2. outcome \in Outcomes
    BY <1>2, <2>1 DEF Outcomes
  <2> QED
    BY <1>1, <1>3, <2>2 DEF BridgeInv, TerminalTypes
<1>6. NoOldReply'
  <2>1. ASSUME NEW u \in Askers, at'[u] = "idle", told'[u].status = "OK"
        PROVE  told'[u].reply >= asked[u]
    <3>1. CASE u = t
      <4>1. told'[u] = outcome
        BY <1>3, <3>1 DEF BridgeInv, TerminalTypes
      <4>2. result' = "OK"
        BY <2>1, <4>1
      <4>3. reply = sequence
        BY <1>2, <4>2
      <4>. HIDE DEF reply
      <4>4. told'[u].reply = sequence
        BY <4>1, <4>3
      <4> QED
        BY <4>4 DEF BridgeInv, TerminalTypes, RequestTypes
    <3>2. CASE u # t
      <4>1. told'[u] = told[u] /\ at[u] = "idle"
        BY <1>3, <2>1, <3>2 DEF BridgeInv, TerminalTypes
      <4> QED
        BY <2>1, <4>1 DEF BridgeInv, BridgeClean, NoOldReply
    <3> QED
      BY <3>1, <3>2
  <2> QED
    BY <1>1, <2>1 DEF NoOldReply
<1> QED
  BY <1>1, <1>4, <1>5, <1>6, <1>7, OthersKeep DEF BridgeInv, BridgeClean

LEMMA CancelKeeps == ASSUME BridgeInv, Cancel \/ Tick PROVE BridgeInv'
<1>1. UNCHANGED <<claimVars, terminalVars, agentVars, busVars, sequence>>
  BY DEF Cancel, Tick
<1>2. BusTypes'
  <2>1. cancels' \in 0 .. MaxCancels
    BY BridgeAssumption DEF Cancel, Tick, BridgeInv, BusTypes
  <2> QED
    BY <1>1, <2>1 DEF BridgeInv, BusTypes, busVars
<1>3. FlagTypes'
  BY DEF Cancel, Tick, BridgeInv, FlagTypes
<1>4. RequestTypes'
  BY DEF Cancel, Tick, BridgeInv, RequestTypes
<1>5. OneSlot' /\ NothingLeftBehind'
  BY DEF Cancel, Tick, BridgeInv, OneSlot, BridgeClean, NothingLeftBehind
<1> QED
  BY <1>1, <1>2, <1>3, <1>4, <1>5, OthersKeep, TerminalsKeep DEF BridgeInv, BridgeClean
-----------------------------------------------------------------------------
(* The agents' steps. *)
LEMMA AgentKeeps ==
  ASSUME BridgeInv, NEW a \in Agents,
         \/ Claim(a) \/ StartLoop(a) \/ Shutdown(a)
         \/ \E status \in {0, 1} : AgentFinish(a, status)
  PROVE  BridgeInv'
<1>1. UNCHANGED <<requestVars, terminalVars, busVars, cancels>>
  BY DEF Claim, StartLoop, Shutdown, AgentFinish
<1>2. ClaimTypes'
  BY DEF Claim, StartLoop, Shutdown, AgentFinish, Become, BridgeInv, ClaimTypes, claimVars
<1> QED
  BY <1>1, <1>2, OthersKeep, RequestsKeep, TerminalsKeep DEF BridgeInv, BridgeClean

(* A detach empties the bridge; an attach adds nothing to it. *)
LEMMA AttachKeeps == ASSUME BridgeInv, NEW a \in Agents, Attach(a) \/ Detach(a) PROVE BridgeInv'
<1>1. UNCHANGED <<claimVars, terminalVars, busVars, cancels, sequence>>
  BY DEF Attach, Detach
<1>2. ClaimTypes'
  BY DEF Attach, Detach, Become, BridgeInv, ClaimTypes, claimVars
<1>3. FlagTypes'
  BY DEF Attach, Detach, BridgeInv, FlagTypes
<1>4. RequestTypes'
  BY DEF Attach, Detach, BridgeInv, RequestTypes
<1>5. OneSlot' /\ NothingLeftBehind'
  BY DEF Attach, Detach, BridgeInv, OneSlot, BridgeClean, NothingLeftBehind
<1> QED
  BY <1>1, <1>2, <1>3, <1>4, <1>5, OthersKeep, TerminalsKeep DEF BridgeInv, BridgeClean

(* The dispatcher's steps: only the answer to the request under way counts.  *)
LEMMA DispatcherKeeps ==
  ASSUME BridgeInv, NEW m \in Replies, Lookup(m) \/ Receive(m) PROVE BridgeInv'
<1>1. UNCHANGED <<claimVars, terminalVars, agentVars, bus, cancels, sequence>>
  BY DEF Lookup, Receive, requestVars
<1>2. BusTypes'
  BY <1>1 DEF Lookup, Receive, BridgeInv, BusTypes
<1>3. FlagTypes' /\ RequestTypes' /\ OneSlot' /\ NothingLeftBehind'
  <2>1. CASE UNCHANGED requestVars
    BY <2>1, RequestsKeep
  <2>2. CASE Receive(m) /\ Wanted(m)
    <3>1. m.chat = sequence /\ attached /\ Verdict(m) \in Results
      <4>1. Verdict(m) \in Results
        BY Zenon DEF Verdict, Results
      <4> QED
        BY <2>2, <4>1 DEF Wanted, BridgeInv, OneSlot
    <3>2. /\ result' \in Results /\ (result' = "OK" => response' = sequence)
          /\ response' \in {response, sequence} /\ pending' = FALSE /\ ready' = TRUE
          /\ UNCHANGED <<attached, cancelled, sequence, chatId, overdue>>
      BY <2>2, <3>1 DEF Receive
    <3>3. RequestTypes'
      BY <3>2 DEF BridgeInv, RequestTypes
    <3>4. FlagTypes' /\ OneSlot' /\ NothingLeftBehind'
      BY <3>1, <3>2 DEF BridgeInv, FlagTypes, OneSlot, NothingLeftBehind
    <3> QED
      BY <3>3, <3>4
  <2> QED
    BY <2>1, <2>2 DEF Lookup, Receive, requestVars
<1> QED
  BY <1>1, <1>2, <1>3, OthersKeep, TerminalsKeep DEF BridgeInv, BridgeClean

LEMMA StutterKeeps == ASSUME BridgeInv, UNCHANGED bridgeVars PROVE BridgeInv'
BY OthersKeep, RequestsKeep, TerminalsKeep DEF bridgeVars, BridgeInv, BridgeClean

LEMMA BridgeInvKept == BridgeInv /\ [BridgeNext]_bridgeVars => BridgeInv'
BY StutterKeeps, RefusedKeeps, SubmitKeeps, PollWaitsKeeps, PollReturnsKeeps, CancelKeeps,
   AgentKeeps, AttachKeeps, DispatcherKeeps DEF BridgeNext, Poll

(* After a detach nothing of the agent is left, and no terminal is ever told *)
(* the answer to an earlier request than its own.                            *)
THEOREM BridgeStaysClean == BridgeSpec => []BridgeClean
<1>1. BridgeInv => BridgeClean
  BY DEF BridgeInv
<1> QED
  BY InitBridgeInv, BridgeInvKept, <1>1, PTL DEF BridgeSpec

(* All variables keep their types. *)
THEOREM BridgeTypesHold == BridgeSpec => []BridgeTypeOK
BY InitBridgeInv, BridgeInvKept, InvGivesTypes, PTL DEF BridgeSpec
-----------------------------------------------------------------------------
(* What a step may not do to the request and to the reply. *)
Kept ==
  /\ pending /\ pending' => chatId' = chatId
  /\ ready /\ ready' => UNCHANGED <<chatId, response, result>>
  /\ ready => ~pending'

LEMMA KeepsRequests == ASSUME BridgeInv, BridgeNext PROVE Kept
<1>1. ~(pending /\ ready)
  BY DEF BridgeInv, OneSlot
<1>2. ASSUME NEW t \in Askers, Refused(t) \/ Submit(t) \/ Poll(t) PROVE Kept
  BY <1>1, <1>2 DEF Kept, Refused, Submit, Poll, PollWaits, PollReturns, requestVars
<1>3. ASSUME Cancel \/ Tick PROVE Kept
  BY <1>1, <1>3 DEF Kept, Cancel, Tick
<1>4. ASSUME NEW a \in Agents, NEW status \in {0, 1},
             Claim(a) \/ StartLoop(a) \/ Attach(a) \/ Shutdown(a) \/ Detach(a)
               \/ AgentFinish(a, status)
      PROVE  Kept
  BY <1>1, <1>4 DEF Kept, Claim, StartLoop, Attach, Shutdown, Detach, AgentFinish, requestVars
<1>5. ASSUME NEW m \in Replies, Lookup(m) \/ Receive(m) PROVE Kept
  BY <1>1, <1>5 DEF Kept, Lookup, Receive, Wanted, requestVars
<1> QED
  BY <1>2, <1>3, <1>4, <1>5 DEF BridgeNext

(* No request and no unread reply is overwritten. *)
THEOREM RequestsAreKept == BridgeSpec => NothingOverwritten
<1>1. BridgeInv /\ [BridgeNext]_bridgeVars => [Kept]_requestVars
  BY KeepsRequests DEF bridgeVars
<1>2. NothingOverwritten <=> [][Kept]_requestVars
  BY DEF NothingOverwritten, Kept
<1> QED
  BY InitBridgeInv, BridgeInvKept, <1>1, <1>2, PTL DEF BridgeSpec
-----------------------------------------------------------------------------
(***************************************************************************)
(* What holds of the setup for any terminals and initializers and any      *)
(* number of setups, failing calls, power losses and kills.                *)
(*                                                                         *)
(* That config.json can be opened rests on the order of the steps: once a  *)
(* setup holds a seal, the key it was made with is synced and nothing ever *)
(* removes it, and the text that is renamed is synced and carries that     *)
(* seal.  Only the holder of setup_lock takes these steps, a killed one    *)
(* included, whose lock keeps the others out.                              *)
(***************************************************************************)

Outside == {"idle", "off", "move off"}

(* A setup under way has the lock.                                          *)
HolderHasLock == \A t \in Terminals : pc[t] \notin Outside => setupLock = t

(* A key that is being made is not yet synced; a setup with a seal has it   *)
(* from the key on the disk.                                                *)
KeyIsMade == \A t \in Terminals : pc[t] = "sync key" => key.state = "unsynced"

SealIsKnown ==
  \A t \in Terminals : pc[t] \in {"save", "sync", "rename", "move"}
    => key.state = "whole" /\ seal[t] = key.by

(* The temporary file carries the seal of the setup that renames it.        *)
TempIsSealed ==
  \A t \in Terminals : pc[t] \in {"rename", "move"}
    => temp.state = "whole" /\ temp.sealed = seal[t]

TempIsWritten ==
  \A t \in Terminals : pc[t] = "sync" => temp.sealed = seal[t]

Inv == /\ TypeOK /\ HolderHasLock /\ KeyIsMade /\ SealIsKnown
       /\ TempIsWritten /\ TempIsSealed /\ KeyOpensConfig

USE SetupAssumption DEF disk, locks, terminals, startup, counters
-----------------------------------------------------------------------------
LEMMA AbsentIsFile == 0 \in Attempts /\ Absent \in Files
  BY DEF Attempts, Files, Absent

LEMMA FaultIsTyped ==
  ASSUME CountersTyped, Fault \/ UNCHANGED faults
  PROVE  faults' \in 0 .. MaxFaults
  BY DEF CountersTyped, Fault

LEMMA InitIsTyped == Init => TypeOK
<1> SUFFICES ASSUME Init PROVE TypeOK
  OBVIOUS
<1>1. FilesTyped
  BY DEF Init, FilesTyped, Files, Absent, Whole, Attempts
<1>2. TerminalsTyped /\ CountersTyped
  BY DEF Init, TerminalsTyped, CountersTyped, Attempts, Positions
<1>3. boot \in [Starters -> BootPositions]
  BY DEF Init, Booted, BootPositions
<1>4. StartupTyped
  BY <1>3 DEF Init, StartupTyped
<1> QED
  BY <1>1, <1>2, <1>4 DEF TypeOK

(* One step per group of actions, one per part of the type.                  *)
LEMMA StepIsTyped == TypeOK /\ [Next]_vars => TypeOK'
<1> SUFFICES ASSUME TypeOK, [Next]_vars PROVE TypeOK'
  OBVIOUS
<1> USE DEF TypeOK
<1>1. ASSUME NEW t \in Terminals, SetupBegins(t)
      PROVE  TypeOK'
  <2>1. FilesTyped'
    BY <1>1 DEF FilesTyped, Files, Attempts, TerminalsTyped,
      SetupBegins, Goto
  <2>2. TerminalsTyped'
    <3>1. setups' \in Attempts
      BY <1>1 DEF SetupBegins, CountersTyped, Attempts
    <3>2. setupLock' \in Terminals \cup {Nobody} /\ keyLock' \in Terminals \cup {Nobody}
      BY <1>1 DEF SetupBegins, TerminalsTyped
    <3> QED
      BY <1>1, <3>1, <3>2 DEF SetupBegins, Goto, TerminalsTyped, Positions
  <2>3. StartupTyped'
    BY <1>1 DEF StartupTyped, BootPositions,
      SetupBegins, Goto
  <2>4. CountersTyped'
    BY <1>1 DEF CountersTyped, Attempts,
      SetupBegins, Goto
  <2> QED
    BY <2>1, <2>2, <2>3, <2>4
<1>2. ASSUME NEW t \in Terminals, SetupAsks(t)
      PROVE  TypeOK'
  <2>1. FilesTyped'
    BY <1>2 DEF FilesTyped, Files, Attempts, TerminalsTyped,
      SetupAsks, Leave, Goto
  <2>2. TerminalsTyped'
    BY <1>2 DEF TerminalsTyped, Positions, Attempts, FilesTyped, Files, CountersTyped,
      SetupAsks, Leave, Goto
  <2>3. StartupTyped'
    BY <1>2 DEF StartupTyped, BootPositions,
      SetupAsks, Leave, Goto
  <2>4. CountersTyped'
    BY <1>2 DEF CountersTyped, Attempts,
      SetupAsks, Leave, Goto
  <2> QED
    BY <2>1, <2>2, <2>3, <2>4
<1>3. ASSUME NEW t \in Terminals, SealsWithKey(t) \/ KeyCreated(t) \/ KeySynced(t)
      PROVE  TypeOK'
  <2>1. FilesTyped'
    <3>1. CASE SealsWithKey(t)
      BY <3>1 DEF SealsWithKey, FilesTyped
    <3>2. CASE KeyCreated(t)
      <4>1. Unsynced(attempt[t], 0) \in Files
        BY AbsentIsFile DEF Unsynced, Files, TerminalsTyped
      <4> QED
        BY <3>2, <4>1 DEF KeyCreated, FilesTyped
    <3>3. CASE KeySynced(t)
      BY <3>3 DEF KeySynced, FilesTyped, Files
    <3> QED
      BY <1>3, <3>1, <3>2, <3>3
  <2>2. TerminalsTyped'
    BY <1>3 DEF TerminalsTyped, Positions, Attempts, FilesTyped, Files, CountersTyped,
      SealsWithKey, KeyCreated, KeySynced, Goto, Unsynced
  <2>3. StartupTyped'
    BY <1>3 DEF StartupTyped, BootPositions,
      SealsWithKey, KeyCreated, KeySynced, Goto, Unsynced
  <2>4. CountersTyped'
    BY <1>3 DEF CountersTyped, Attempts,
      SealsWithKey, KeyCreated, KeySynced, Goto, Unsynced
  <2> QED
    BY <2>1, <2>2, <2>3, <2>4
<1>4. ASSUME NEW t \in Terminals, KeyFails(t) \/ SealFails(t)
      PROVE  TypeOK'
  <2>1. FilesTyped'
    BY <1>4, AbsentIsFile DEF FilesTyped, KeyFails, SealFails
  <2>2. TerminalsTyped'
    BY <1>4 DEF TerminalsTyped, Positions, Attempts, FilesTyped, Files, CountersTyped,
      KeyFails, SealFails, Leave, Goto, Fault, Absent
  <2>3. StartupTyped'
    BY <1>4 DEF StartupTyped, BootPositions,
      KeyFails, SealFails, Leave, Goto, Fault, Absent
  <2>4. CountersTyped'
    BY <1>4, FaultIsTyped DEF CountersTyped, KeyFails, SealFails
  <2> QED
    BY <2>1, <2>2, <2>3, <2>4
<1>5. ASSUME NEW t \in Terminals, SaveOpens(t) \/ SaveSyncs(t)
      PROVE  TypeOK'
  <2>1. FilesTyped'
    BY <1>5 DEF FilesTyped, Files, Attempts, TerminalsTyped,
      SaveOpens, SaveSyncs, Goto, Unsynced
  <2>2. TerminalsTyped'
    BY <1>5 DEF TerminalsTyped, Positions, Attempts, FilesTyped, Files, CountersTyped,
      SaveOpens, SaveSyncs, Goto, Unsynced
  <2>3. StartupTyped'
    BY <1>5 DEF StartupTyped, BootPositions,
      SaveOpens, SaveSyncs, Goto, Unsynced
  <2>4. CountersTyped'
    BY <1>5 DEF CountersTyped, Attempts,
      SaveOpens, SaveSyncs, Goto, Unsynced
  <2> QED
    BY <2>1, <2>2, <2>3, <2>4
<1>6. ASSUME NEW t \in Terminals, SaveRefused(t) \/ SaveFails(t)
      PROVE  TypeOK'
  <2>1. FilesTyped'
    BY <1>6 DEF FilesTyped, Files, Attempts, TerminalsTyped,
      SaveRefused, SaveFails, Leave, Goto, Fault, Absent
  <2>2. TerminalsTyped'
    BY <1>6 DEF TerminalsTyped, Positions, Attempts, FilesTyped, Files, CountersTyped,
      SaveRefused, SaveFails, Leave, Goto, Fault, Absent
  <2>3. StartupTyped'
    BY <1>6 DEF StartupTyped, BootPositions,
      SaveRefused, SaveFails, Leave, Goto, Fault, Absent
  <2>4. CountersTyped'
    BY <1>6 DEF CountersTyped, Attempts,
      SaveRefused, SaveFails, Leave, Goto, Fault, Absent
  <2> QED
    BY <2>1, <2>2, <2>3, <2>4
<1>7. ASSUME NEW t \in Terminals, RenameRemoves(t) \/ RenameMoves(t)
      PROVE  TypeOK'
  <2>1. FilesTyped'
    BY <1>7 DEF FilesTyped, Files, Attempts, TerminalsTyped,
      RenameRemoves, RenameMoves, Goto, Absent
  <2>2. TerminalsTyped'
    BY <1>7 DEF TerminalsTyped, Positions, Attempts, FilesTyped, Files, CountersTyped,
      RenameRemoves, RenameMoves, Goto, Absent
  <2>3. StartupTyped'
    BY <1>7 DEF StartupTyped, BootPositions,
      RenameRemoves, RenameMoves, Goto, Absent
  <2>4. CountersTyped'
    BY <1>7 DEF CountersTyped, Attempts,
      RenameRemoves, RenameMoves, Goto, Absent
  <2> QED
    BY <2>1, <2>2, <2>3, <2>4
<1>8. ASSUME NEW t \in Terminals, AutoRemoves(t) \/ AutoMoves(t) \/ ServiceOff(t)
      PROVE  TypeOK'
  <2>1. FilesTyped'
    BY <1>8 DEF FilesTyped, Files, Attempts, TerminalsTyped,
      AutoRemoves, AutoMoves, ServiceOff, Goto
  <2>2. TerminalsTyped'
    BY <1>8 DEF TerminalsTyped, Positions, Attempts, FilesTyped, Files, CountersTyped,
      AutoRemoves, AutoMoves, ServiceOff, Goto
  <2>3. StartupTyped'
    BY <1>8 DEF StartupTyped, BootPositions,
      AutoRemoves, AutoMoves, ServiceOff, Goto
  <2>4. CountersTyped'
    BY <1>8 DEF CountersTyped, Attempts,
      AutoRemoves, AutoMoves, ServiceOff, Goto
  <2> QED
    BY <2>1, <2>2, <2>3, <2>4
<1>9. ASSUME NEW t \in Terminals, AutoFails(t)
      PROVE  TypeOK'
  <2>1. FilesTyped'
    BY <1>9 DEF FilesTyped, Files, Attempts, TerminalsTyped,
      AutoFails, Leave, Goto, Fault
  <2>2. TerminalsTyped'
    BY <1>9 DEF TerminalsTyped, Positions, Attempts, FilesTyped, Files, CountersTyped,
      AutoFails, Leave, Goto, Fault
  <2>3. StartupTyped'
    BY <1>9 DEF StartupTyped, BootPositions,
      AutoFails, Leave, Goto, Fault
  <2>4. CountersTyped'
    BY <1>9, FaultIsTyped DEF CountersTyped, AutoFails
  <2> QED
    BY <2>1, <2>2, <2>3, <2>4
<1>10. ASSUME NEW t \in Terminals, SetupStarts(t)
      PROVE  TypeOK'
  <2>1. FilesTyped'
    BY <1>10 DEF FilesTyped, Files, Attempts, TerminalsTyped,
      SetupStarts, Leave, Goto, Fault
  <2>2. TerminalsTyped'
    BY <1>10 DEF TerminalsTyped, Positions, Attempts, FilesTyped, Files, CountersTyped,
      SetupStarts, Leave, Goto, Fault
  <2>3. StartupTyped'
    BY <1>10 DEF StartupTyped, BootPositions,
      SetupStarts, Leave, Goto, Fault
  <2>4. CountersTyped'
    BY <1>10 DEF CountersTyped, Attempts,
      SetupStarts, Leave, Goto, Fault
  <2> QED
    BY <2>1, <2>2, <2>3, <2>4
<1>11. ASSUME NEW t \in Terminals, Kill(t)
      PROVE  TypeOK'
  <2>1. FilesTyped'
    BY <1>11 DEF FilesTyped, Files, Attempts, TerminalsTyped,
      Kill, Goto
  <2>2. TerminalsTyped'
    BY <1>11 DEF TerminalsTyped, Positions, Attempts, FilesTyped, Files, CountersTyped,
      Kill, Goto
  <2>3. StartupTyped'
    BY <1>11 DEF StartupTyped, BootPositions,
      Kill, Goto
  <2>4. CountersTyped'
    <3>1. kills < MaxKills /\ kills' = kills + 1 /\ UNCHANGED <<setups, losses, faults>>
      BY <1>11 DEF Kill
    <3> QED
      BY <3>1 DEF CountersTyped, Attempts
  <2> QED
    BY <2>1, <2>2, <2>3, <2>4
<1>12. ASSUME NEW s \in Starters, BootStep(s)
      PROVE  TypeOK'
  <2>1. FilesTyped'
    BY <1>12 DEF FilesTyped, Files, Attempts, TerminalsTyped,
      BootStep, BootEnters, BootChecks, BootLooks, BootSpawns,
       BootLeaves, GotoBoot, Fault
  <2>2. TerminalsTyped'
    BY <1>12 DEF TerminalsTyped, Positions, Attempts, FilesTyped, Files, CountersTyped,
      BootStep, BootEnters, BootChecks, BootLooks, BootSpawns,
       BootLeaves, GotoBoot, Fault
  <2>3. StartupTyped'
    <3>1. boot' \in [Starters -> BootPositions]
      BY <1>12 DEF BootStep, BootEnters, BootChecks, BootLooks, BootSpawns, BootLeaves,
        GotoBoot, StartupTyped, BootPositions
    <3>2. bootRunning' \in BOOLEAN /\ online' \in BOOLEAN
      BY <1>12 DEF BootStep, BootEnters, BootChecks, BootLooks, BootSpawns, BootLeaves,
        StartupTyped
    <3>3. started' \in Nat /\ phase' \in {0, 1}
      BY <1>12 DEF BootStep, BootEnters, BootChecks, BootLooks, BootSpawns, BootLeaves,
        StartupTyped
    <3> QED
      BY <3>1, <3>2, <3>3 DEF StartupTyped
  <2>4. CountersTyped'
    BY <1>12 DEF CountersTyped, Attempts,
      BootStep, BootEnters, BootChecks, BootLooks, BootSpawns,
       BootLeaves, GotoBoot, Fault
  <2> QED
    BY <2>1, <2>2, <2>3, <2>4
<1>13. ASSUME AgentClaims \/ ReadyChanges
      PROVE  TypeOK'
  <2>1. FilesTyped'
    BY <1>13 DEF FilesTyped, Files, Attempts, TerminalsTyped,
      AgentClaims, ReadyChanges
  <2>2. TerminalsTyped'
    BY <1>13 DEF TerminalsTyped, Positions, Attempts, FilesTyped, Files, CountersTyped,
      AgentClaims, ReadyChanges
  <2>3. StartupTyped'
    <3>1. bootRunning' \in BOOLEAN /\ online' \in BOOLEAN
      BY <1>13 DEF AgentClaims, ReadyChanges, StartupTyped
    <3>2. boot' \in [Starters -> BootPositions]
      BY <1>13 DEF AgentClaims, ReadyChanges, StartupTyped
    <3>3. started' \in Nat /\ phase' \in {0, 1}
      BY <1>13 DEF AgentClaims, ReadyChanges, StartupTyped
    <3> QED
      BY <3>1, <3>2, <3>3 DEF StartupTyped
  <2>4. CountersTyped'
    BY <1>13 DEF CountersTyped, Attempts,
      AgentClaims, ReadyChanges
  <2> QED
    BY <2>1, <2>2, <2>3, <2>4
<1>14. ASSUME UNCHANGED vars
      PROVE  TypeOK'
  <2>1. FilesTyped'
    BY <1>14 DEF FilesTyped, Files, Attempts, TerminalsTyped,
      vars
  <2>2. TerminalsTyped'
    BY <1>14 DEF TerminalsTyped, Positions, Attempts, FilesTyped, Files, CountersTyped,
      vars
  <2>3. StartupTyped'
    BY <1>14 DEF StartupTyped, BootPositions,
      vars
  <2>4. CountersTyped'
    BY <1>14 DEF CountersTyped, Attempts,
      vars
  <2> QED
    BY <2>1, <2>2, <2>3, <2>4
<1>15. ASSUME PowerLoss PROVE TypeOK'
  <2>1. FilesTyped'
    BY <1>15 DEF PowerLoss, Survivors, FilesTyped, Files, Absent, Attempts
  <2>2. TerminalsTyped'
    BY <1>15, AbsentIsFile DEF PowerLoss, TerminalsTyped, Positions
  <2>3. boot' \in [Starters -> BootPositions]
    BY <1>15 DEF PowerLoss, Booted, BootPositions
  <2>4. StartupTyped'
    BY <1>15, <2>3 DEF PowerLoss, StartupTyped
  <2>5. CountersTyped'
    BY <1>15 DEF PowerLoss, CountersTyped
  <2> QED
    BY <2>1, <2>2, <2>4, <2>5
<1> QED
  BY <1>1, <1>2, <1>3, <1>4, <1>5, <1>6, <1>7, <1>8, <1>9, <1>10, <1>11, <1>12, <1>13, <1>14, <1>15
  DEF Next, SetupStep
-----------------------------------------------------------------------------
LEMMA InitIsSafe == Init => Inv
  BY InitIsTyped
  DEF Init, Inv, HolderHasLock, KeyIsMade, SealIsKnown, TempIsWritten, TempIsSealed,
      KeyOpensConfig, Configured, Outside, Absent, Whole

(* A setup's own step.                                                      *)
LEMMA SetupKeepsInv ==
  ASSUME Inv, TypeOK', NEW t \in Terminals,
         SetupBegins(t) \/ SetupStep(t) \/ ServiceOff(t) \/ Kill(t)
  PROVE  Inv'
<1> USE DEF Inv, HolderHasLock, KeyIsMade, SealIsKnown, TempIsWritten, TempIsSealed,
            KeyOpensConfig, Configured, Outside, Goto
<1>1. CASE SetupBegins(t)
  BY <1>1 DEF SetupBegins, TypeOK, TerminalsTyped
<1>2. CASE SetupAsks(t)
  BY <1>2 DEF SetupAsks, Leave, TypeOK, TerminalsTyped
<1>3. CASE SealsWithKey(t)
  BY <1>3 DEF SealsWithKey, TypeOK, TerminalsTyped
<1>4. CASE KeyCreated(t)
  BY <1>4 DEF KeyCreated, Unsynced, TypeOK, TerminalsTyped
<1>5. CASE KeySynced(t)
  BY <1>5 DEF KeySynced, TypeOK, FilesTyped, TerminalsTyped, Files
<1>6. CASE KeyFails(t)
  BY <1>6 DEF KeyFails, Leave, Absent, TypeOK, TerminalsTyped
<1>7. CASE SealFails(t)
  BY <1>7 DEF SealFails, Leave, TypeOK, TerminalsTyped
<1>8. CASE SaveOpens(t)
  BY <1>8 DEF SaveOpens, Unsynced, TypeOK, TerminalsTyped
<1>9. CASE SaveRefused(t)
  BY <1>9 DEF SaveRefused, Leave, TypeOK, TerminalsTyped
<1>10. CASE SaveSyncs(t)
  BY <1>10 DEF SaveSyncs, TypeOK, FilesTyped, TerminalsTyped, Files
<1>11. CASE RenameRemoves(t)
  BY <1>11 DEF RenameRemoves, Absent, TypeOK, TerminalsTyped
<1>12. CASE RenameMoves(t)
  BY <1>12 DEF RenameMoves, Absent, TypeOK, TerminalsTyped
<1>13. CASE SaveFails(t)
  BY <1>13 DEF SaveFails, Leave, Absent, TypeOK, TerminalsTyped
<1>14. CASE AutoRemoves(t) \/ AutoMoves(t) \/ ServiceOff(t)
  <2>1. CASE AutoRemoves(t)
    BY <2>1 DEF AutoRemoves, TypeOK, TerminalsTyped
  <2>2. CASE AutoMoves(t)
    BY <2>2 DEF AutoMoves, TypeOK, TerminalsTyped
  <2>3. CASE ServiceOff(t)
    BY <2>3 DEF ServiceOff, TypeOK, TerminalsTyped
  <2> QED
    BY <1>14, <2>1, <2>2, <2>3
<1>15. CASE AutoFails(t)
  BY <1>15 DEF AutoFails, Leave, TypeOK, TerminalsTyped
<1>16. CASE SetupStarts(t)
  BY <1>16 DEF SetupStarts, Leave, TypeOK, TerminalsTyped
<1>17. CASE Kill(t)
  BY <1>17 DEF Kill, TypeOK, TerminalsTyped
<1> QED
  BY <1>1, <1>2, <1>3, <1>4, <1>5, <1>6, <1>7, <1>8, <1>9, <1>10, <1>11, <1>12, <1>13,
     <1>14, <1>15, <1>16, <1>17 DEF SetupStep

(* A power loss: what was synced stays, and no setup is under way.          *)
LEMMA LossKeepsInv ==
  ASSUME Inv, TypeOK', PowerLoss
  PROVE  Inv'
<1>1. config.state # "none" => config' = config /\ Configured
  BY DEF Inv, KeyOpensConfig, Configured, PowerLoss, Survivors
<1>2. config.state = "none" => config' = config
  BY DEF PowerLoss, Survivors
<1>3. key.state = "whole" => key' = key
  BY DEF PowerLoss, Survivors
<1>4. KeyOpensConfig'
  BY <1>1, <1>2, <1>3 DEF KeyOpensConfig, Configured
<1>5. \A t \in Terminals : pc'[t] = "idle"
  BY DEF PowerLoss
<1> QED
  BY <1>4, <1>5 DEF Inv, HolderHasLock, KeyIsMade, SealIsKnown, TempIsWritten, TempIsSealed,
                    Outside

LEMMA StepIsSafe == Inv /\ [Next]_vars => Inv'
<1> SUFFICES ASSUME Inv, [Next]_vars PROVE Inv'
  OBVIOUS
<1>1. TypeOK'
  BY StepIsTyped DEF Inv
<1> USE DEF Inv, HolderHasLock, KeyIsMade, SealIsKnown, TempIsWritten, TempIsSealed,
            KeyOpensConfig, Configured
<1>2. CASE \E t \in Terminals : SetupBegins(t) \/ SetupStep(t) \/ ServiceOff(t) \/ Kill(t)
  BY <1>1, <1>2, SetupKeepsInv
<1>3. CASE \E s \in Starters : BootStep(s)
  BY <1>1, <1>3 DEF BootStep, BootEnters, BootChecks, BootLooks, BootSpawns, BootLeaves
<1>4. CASE AgentClaims \/ ReadyChanges
  BY <1>1, <1>4 DEF AgentClaims, ReadyChanges
<1>5. CASE PowerLoss
  BY <1>1, <1>5, LossKeepsInv
<1>6. CASE UNCHANGED vars
  BY <1>1, <1>6 DEF vars
<1> QED
  BY <1>2, <1>3, <1>4, <1>5, <1>6 DEF Next

(* TypeOK holds of every reachable state.                                   *)
THEOREM TypeCorrect == Spec => []TypeOK
  BY InitIsTyped, StepIsTyped, PTL DEF Spec

(* A config.json on the disk is complete and the key that opens it is there.*)
THEOREM ConfigCanBeOpened == Spec => []KeyOpensConfig
<1>1. Inv => KeyOpensConfig
  BY DEF Inv
<1> QED
  BY <1>1, InitIsSafe, StepIsSafe, PTL DEF Spec
-----------------------------------------------------------------------------
AtWork == {s \in Starters : boot[s] \in {"loop", "look", "spawn", "leave"}}

GateInv ==
  /\ TypeOK
  /\ IF bootRunning THEN \E s \in Starters : AtWork = {s} ELSE AtWork = {}

LEMMA InitIsGated == Init => GateInv
<1> SUFFICES ASSUME Init PROVE GateInv
  OBVIOUS
<1>1. AtWork = {}
  BY DEF AtWork, Init, Booted
<1> QED
  BY <1>1, InitIsTyped DEF GateInv, Init

LEMMA StepIsGated == GateInv /\ [Next]_vars => GateInv'
<1> SUFFICES ASSUME GateInv, [Next]_vars PROVE GateInv'
  OBVIOUS
<1>1. TypeOK'
  BY StepIsTyped DEF GateInv
<1>2. CASE UNCHANGED <<boot, bootRunning>>
  BY <1>1, <1>2 DEF GateInv, AtWork
<1>3. ASSUME NEW t \in Terminals, SetupStarts(t) PROVE GateInv'
  <2>1. AtWork' = AtWork /\ bootRunning' = bootRunning
    BY <1>3 DEF SetupStarts, GateInv, TypeOK, StartupTyped, AtWork
  <2> QED
    BY <1>1, <2>1 DEF GateInv
<1>4. ASSUME NEW s \in Starters, BootEnters(s) PROVE GateInv'
  <2>1. CASE bootRunning
    <3>1. AtWork' = AtWork
      BY <1>4, <2>1 DEF BootEnters, GotoBoot, GateInv, TypeOK, StartupTyped, AtWork
    <3> QED
      BY <1>1, <1>4, <2>1, <3>1 DEF BootEnters, GateInv
  <2>2. CASE ~bootRunning
    <3>1. AtWork' = {s}
      BY <1>4, <2>2 DEF BootEnters, GotoBoot, GateInv, TypeOK, StartupTyped, AtWork
    <3> QED
      BY <1>1, <1>4, <3>1 DEF BootEnters, GateInv
  <2> QED
    BY <2>1, <2>2
<1>5. ASSUME NEW s \in Starters, BootChecks(s) \/ BootLooks(s) \/ BootSpawns(s) PROVE GateInv'
  <2>1. AtWork' = AtWork /\ bootRunning' = bootRunning
    BY <1>5 DEF BootChecks, BootLooks, BootSpawns, GotoBoot, GateInv, TypeOK, StartupTyped, AtWork
  <2> QED
    BY <1>1, <2>1 DEF GateInv
<1>6. ASSUME NEW s \in Starters, BootLeaves(s) PROVE GateInv'
  <2>1. s \in AtWork
    BY <1>6 DEF BootLeaves, GotoBoot, AtWork
  <2>2. AtWork = {s}
    BY <2>1 DEF GateInv
  <2>3. AtWork' = {}
    BY <1>6, <2>2 DEF BootLeaves, GotoBoot, GateInv, TypeOK, StartupTyped, AtWork
  <2> QED
    BY <1>1, <1>6, <2>3 DEF BootLeaves, GateInv
<1>7. CASE PowerLoss
  <2>1. AtWork' = {} /\ bootRunning' = FALSE
    BY <1>7 DEF PowerLoss, Booted, AtWork
  <2> QED
    BY <1>1, <2>1 DEF GateInv
<1>8. ASSUME NEW t \in Terminals,
             \/ SetupBegins(t) \/ SetupAsks(t) \/ SealsWithKey(t) \/ KeyCreated(t)
             \/ KeySynced(t) \/ KeyFails(t) \/ SealFails(t) \/ SaveOpens(t)
             \/ SaveRefused(t) \/ SaveSyncs(t) \/ RenameRemoves(t) \/ RenameMoves(t)
             \/ SaveFails(t) \/ AutoRemoves(t) \/ AutoMoves(t) \/ AutoFails(t)
             \/ ServiceOff(t) \/ Kill(t)
      PROVE  UNCHANGED <<boot, bootRunning>>
  BY <1>8 DEF SetupBegins, SetupAsks, SealsWithKey, KeyCreated, KeySynced, KeyFails,
     SealFails, SaveOpens, SaveRefused, SaveSyncs, RenameRemoves, RenameMoves, SaveFails,
     AutoRemoves, AutoMoves, AutoFails, ServiceOff, Kill
<1>9. ASSUME AgentClaims \/ ReadyChanges \/ UNCHANGED vars PROVE UNCHANGED <<boot, bootRunning>>
  BY <1>9 DEF AgentClaims, ReadyChanges, vars
<1> QED
  BY <1>2, <1>3, <1>4, <1>5, <1>6, <1>7, <1>8, <1>9 DEF Next, SetupStep, BootStep

LEMMA GateIsCounted == GateInv => GateIsHeld
<1> SUFFICES ASSUME GateInv PROVE GateIsHeld
  OBVIOUS
<1>1. CASE bootRunning
  <2>1. PICK s \in Starters : AtWork = {s}
    BY <1>1 DEF GateInv
  <2> QED
    BY <1>1, <2>1, FS_Singleton DEF GateIsHeld, AtWork
<1>2. CASE ~bootRunning
  BY <1>2, FS_EmptySet DEF GateIsHeld, AtWork, GateInv
<1> QED
  BY <1>1, <1>2

(* boot_running is set exactly while one initializer is at work.            *)
THEOREM GateIsSingle == Spec => []GateIsHeld
BY GateIsCounted, InitIsGated, StepIsGated, PTL DEF Spec

(* Setups and initializers at once leave the device able to start its agent. *)
THEOREM SetupStaysSafe == Spec => []SetupIsSafe
BY ConfigCanBeOpened, GateIsSingle, PTL DEF SetupIsSafe
-----------------------------------------------------------------------------
(* Without a power loss and a kill between two steps, whatever a setup holds *)
(* or has half done belongs to a setup that is still at it.                  *)
Untouched == losses = 0 /\ kills = 0

NothingLeft ==
  /\ setupLock # Nobody => pc[setupLock] \notin Outside
  /\ keyLock # Nobody => pc[keyLock] = "sync key"
  /\ temp.state # "none" => \E t \in Terminals : pc[t] \in {"sync", "rename", "move"}
  /\ key.state \notin {"none", "whole"} => \E t \in Terminals : pc[t] = "sync key"

RepeatInv == Inv /\ (Untouched => NothingLeft)

LEMMA InitIsRepeatable == Init => RepeatInv
  BY InitIsSafe DEF Init, RepeatInv, NothingLeft, Absent

(* The setups' own steps: the lock and the files move with the position.     *)
LEMMA SetupKeepsRepeat ==
  ASSUME RepeatInv, Inv', Untouched', NEW t \in Terminals,
         SetupBegins(t) \/ SetupStep(t) \/ ServiceOff(t)
  PROVE  NothingLeft'
<1> USE DEF Outside, Goto
<1>1. /\ Untouched => NothingLeft
      /\ pc \in [Terminals -> Positions] /\ config \in Files /\ temp \in Files /\ key \in Files
      /\ setupLock \in Terminals \cup {Nobody} /\ keyLock \in Terminals \cup {Nobody}
      /\ \A s \in Terminals : pc[s] \notin Outside => setupLock = s
  BY DEF RepeatInv, Inv, TypeOK, TerminalsTyped, FilesTyped, HolderHasLock
<1>2. CASE SetupBegins(t)
  BY <1>1, <1>2 DEF SetupBegins, Untouched, NothingLeft
<1>3. CASE SetupAsks(t)
  BY <1>1, <1>3 DEF SetupAsks, Leave, Untouched, NothingLeft
<1>4. CASE SealsWithKey(t)
  BY <1>1, <1>4 DEF SealsWithKey, Untouched, NothingLeft
<1>5. CASE KeyCreated(t)
  BY <1>1, <1>5 DEF KeyCreated, Untouched, NothingLeft
<1>6. CASE KeySynced(t)
  <2>1. key'.state = "whole"
    BY <1>1, <1>6 DEF KeySynced, Files
  <2> QED
    BY <1>1, <1>6, <2>1 DEF KeySynced, Untouched, NothingLeft
<1>7. CASE KeyFails(t)
  BY <1>1, <1>7 DEF KeyFails, Leave, Absent, Untouched, NothingLeft
<1>8. CASE SealFails(t)
  BY <1>1, <1>8 DEF SealFails, Leave, Untouched, NothingLeft
<1>9. CASE SaveOpens(t)
  BY <1>1, <1>9 DEF SaveOpens, Untouched, NothingLeft
<1>10. CASE SaveRefused(t)
  BY <1>1, <1>10 DEF SaveRefused, Leave, Untouched, NothingLeft
<1>11. CASE SaveSyncs(t)
  BY <1>1, <1>11 DEF SaveSyncs, Untouched, NothingLeft
<1>12. CASE RenameRemoves(t)
  <2>1. /\ temp' = temp /\ key' = key /\ setupLock' = setupLock /\ keyLock' = keyLock
        /\ \A s \in Terminals : pc'[s] = IF s = t THEN "move" ELSE pc[s]
        /\ pc[t] = "rename" /\ Untouched
    BY <1>1, <1>12 DEF RenameRemoves, Untouched
  <2> QED
    BY <1>1, <2>1 DEF NothingLeft
<1>17. CASE RenameMoves(t)
  <2>1. /\ temp'.state = "none" /\ key' = key /\ setupLock' = setupLock /\ keyLock' = keyLock
        /\ \A s \in Terminals : pc'[s] = IF s = t THEN "on" ELSE pc[s]
        /\ pc[t] = "move" /\ Untouched
    BY <1>1, <1>17 DEF RenameMoves, Absent, Untouched
  <2> QED
    BY <1>1, <2>1 DEF NothingLeft
<1>13. CASE SaveFails(t)
  BY <1>1, <1>13 DEF SaveFails, Leave, Absent, Untouched, NothingLeft
<1>14. CASE AutoRemoves(t) \/ AutoMoves(t) \/ ServiceOff(t)
  BY <1>1, <1>14 DEF AutoRemoves, AutoMoves, ServiceOff, Untouched, NothingLeft
<1>15. CASE AutoFails(t)
  BY <1>1, <1>15 DEF AutoFails, Leave, Untouched, NothingLeft
<1>16. CASE SetupStarts(t)
  BY <1>1, <1>16 DEF SetupStarts, Leave, Untouched, NothingLeft
<1> QED
  BY <1>2, <1>3, <1>4, <1>5, <1>6, <1>7, <1>8, <1>9, <1>10, <1>11, <1>12, <1>13, <1>14,
     <1>15, <1>16, <1>17 DEF SetupStep

LEMMA StepIsRepeatable == RepeatInv /\ [Next]_vars => RepeatInv'
<1> SUFFICES ASSUME RepeatInv, [Next]_vars PROVE RepeatInv'
  OBVIOUS
<1>1. Inv'
  BY StepIsSafe DEF RepeatInv
<1>2. SUFFICES ASSUME Untouched' PROVE NothingLeft'
  BY <1>1 DEF RepeatInv
<1>3. losses \in Nat /\ kills \in Nat
  BY DEF RepeatInv, Inv, TypeOK, CountersTyped
<1>4. CASE \E t \in Terminals : SetupBegins(t) \/ SetupStep(t) \/ ServiceOff(t)
  BY <1>1, <1>2, <1>4, SetupKeepsRepeat
<1>5. CASE \E t \in Terminals : Kill(t)
  <2>1. kills' = kills + 1
    BY <1>5 DEF Kill
  <2>2. kills' = 0
    BY <1>2 DEF Untouched
  <2> QED
    BY <1>3, <2>1, <2>2
<1>6. CASE PowerLoss
  BY <1>2, <1>3, <1>6 DEF PowerLoss, Untouched
<1>7. CASE (\E s \in Starters : BootStep(s)) \/ AgentClaims \/ ReadyChanges
  BY <1>2, <1>7 DEF BootStep, BootEnters, BootChecks, BootLooks, BootSpawns, BootLeaves,
     AgentClaims, ReadyChanges, RepeatInv, Untouched, NothingLeft
<1>8. CASE UNCHANGED vars
  BY <1>2, <1>8 DEF vars, RepeatInv, Untouched, NothingLeft
<1> QED
  BY <1>4, <1>5, <1>6, <1>7, <1>8 DEF Next

LEMMA NothingIsLeft == RepeatInv => Repeatable
<1> SUFFICES ASSUME RepeatInv, Untouched,
                    \A t \in Terminals : pc[t] \in {"idle", "off", "move off"}
             PROVE  /\ setupLock = Nobody /\ keyLock = Nobody
                    /\ temp.state = "none" /\ key.state \in {"none", "whole"}
  BY DEF Repeatable, Untouched
<1>1. /\ setupLock \in Terminals \cup {Nobody} /\ keyLock \in Terminals \cup {Nobody}
      /\ NothingLeft
  BY DEF RepeatInv, Inv, TypeOK, TerminalsTyped
<1> QED
  BY <1>1 DEF NothingLeft, Outside

(* Whichever calls fail, a setup leaves nothing in the way of the next one.  *)
THEOREM SetupCanBeRepeated == Spec => []Repeatable
BY NothingIsLeft, InitIsRepeatable, StepIsRepeatable, PTL DEF Spec
-----------------------------------------------------------------------------
(* The two together: on its turn a part takes its own steps, and otherwise   *)
(* it stutters, so that what it keeps alone it keeps beside the other.       *)
LEMMA AgentStarts == AgentInit => BridgeInit /\ Init
  BY DEF AgentInit

LEMMA AgentTakesTurns ==
  [AgentNext]_<<turn, bridgeVars, vars>> => [BridgeNext]_bridgeVars /\ [Next]_vars
  BY DEF AgentNext

(* The types of both hold in every behaviour of the composed agent.          *)
THEOREM AgentIsTyped == AgentSpec => []Types
<1>1. BridgeInv /\ TypeOK => Types
  BY InvGivesTypes DEF Types
<1> QED
  BY <1>1, AgentStarts, AgentTakesTurns, InitBridgeInv, BridgeInvKept, InitIsTyped,
     StepIsTyped, PTL DEF AgentSpec

(* And so does what the bridge and the setup guarantee.                      *)
THEOREM AgentStaysSafe == AgentSpec => [](BridgeClean /\ SetupIsSafe /\ Repeatable)
<1>1. /\ BridgeInv => BridgeClean
      /\ Inv /\ GateInv => SetupIsSafe
  BY GateIsCounted DEF BridgeInv, Inv, SetupIsSafe
<1> QED
  BY <1>1, AgentStarts, AgentTakesTurns, InitBridgeInv, BridgeInvKept, InitIsSafe, StepIsSafe,
     InitIsGated, StepIsGated, NothingIsLeft, InitIsRepeatable, StepIsRepeatable,
     PTL DEF AgentSpec
=============================================================================
