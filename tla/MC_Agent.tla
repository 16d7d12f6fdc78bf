------------------------------ MODULE MC_Agent ------------------------------
(* The two sides of the online agent, for TLC: a behaviour is about the      *)
(* bridge of a running agent or about its setup and start, and the other     *)
(* stays where it begins.  They share aipet_agent_claim, which both model.   *)
EXTENDS AgentBridge, AgentSetup

VARIABLE turn       \* "bridge" or "setup"

AgentInit ==
  /\ turn \in {"bridge", "setup"} /\ BridgeInit /\ Init
  /\ turn = "setup" \/ (config = Absent /\ auto = "off")

AgentNext ==
  \/ turn = "bridge" /\ BridgeNext /\ UNCHANGED <<turn, vars>>
  \/ turn = "setup" /\ Next /\ UNCHANGED <<turn, bridgeVars>>

(* The fairness of both, on their turns. *)
AgentSpec ==
  /\ AgentInit /\ [][AgentNext]_<<turn, bridgeVars, vars>>
  /\ WF_bridgeVars(turn = "bridge" /\ Tick)
  /\ \A t \in Askers : WF_bridgeVars(turn = "bridge" /\ Poll(t))
  /\ \A t \in Terminals : WF_vars(turn = "setup" /\ SetupStep(t))
  /\ \A s \in Starters : WF_vars(turn = "setup" /\ BootStep(s))
  /\ WF_vars(turn = "setup" /\ AgentClaims)
-----------------------------------------------------------------------------
(* The types of both. *)
Types == BridgeTypeOK /\ TypeOK

(* An ask comes back, and a setup gets its agent started: EveryAskEnds and   *)
(* StartIsServed as one formula, since turn never changes.                   *)
Works(t) == IF turn = "bridge" THEN at[t] = "polling" ELSE \E s \in Terminals : pc[s] = "start"

Served(t) ==
  IF turn = "bridge" THEN at[t] = "idle" \/ \E u \in Askers \ {t} : asked[u] # 0
  ELSE phase # 0 \/ auto = "off" \/ ~Configured \/ faults + kills > 0

AgentServes == <>[](turn = "bridge" \/ online) => \A t \in Askers : Works(t) ~> Served(t)
=============================================================================
