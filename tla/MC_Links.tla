------------------------------ MODULE MC_Links ------------------------------
(* The two drivers of the A733 whose threads deliver to readers and writers  *)
(* of a device, for TLC: a behaviour is about the console or about the       *)
(* station side of Wi-Fi, and the other stays where it begins.               *)
EXTENDS Console, WifiStation

VARIABLE turn       \* "console" or "station"

LinksInit ==
  /\ turn \in {"console", "station"} /\ WifiInit /\ Init
  /\ turn = "console" \/ \A r \in Readers : length[r] = 1

LinksNext ==
  \/ turn = "console" /\ Next /\ UNCHANGED <<turn, wifiVars>>
  \/ turn = "station" /\ WifiNext /\ UNCHANGED <<turn, vars>>

(* The fairness of both, on their turns. *)
LinksSpec ==
  /\ LinksInit /\ [][LinksNext]_<<turn, wifiVars, vars>>
  /\ WF_vars(turn = "console" /\ OpenFirst)
  /\ WF_vars(turn = "console" /\ (LookAtTerminal \/ Signal \/ Store \/ Drop \/ Post))
  /\ \A r \in Readers : WF_vars(turn = "console" /\ Reader(r))
  /\ WF_wifiVars(turn = "station" /\ CtlStep) /\ WF_wifiVars(turn = "station" /\ RxStep)
-----------------------------------------------------------------------------
(* The types of both. *)
Types == TypeOK /\ WifiTypeOK

(* What arrived at the console is read, and a Wi-Fi command comes back. *)
LinksDeliver ==
  /\ turn = "console" => EverythingIsRead
  /\ turn = "station" => CommandsEnd
=============================================================================
