----------------------------- MODULE MC_Devices -----------------------------
(* The drivers and services that share nothing with one another, for TLC: a  *)
(* behaviour chooses one of them in its first state, and the others stay     *)
(* where they begin.  The states of the run are the sum of theirs, not the   *)
(* product.                                                                  *)
EXTENDS WifiTransfer, WifiBringUp, WifiScan, FtpSession, FtpServer, FtpPaths,
        FatNames, SdmmcWait, SdmmcMedia, Camera, NtpClient, NpuPool, PageScan, RowPartition

VARIABLE turn       \* which of them the behaviour is about

wifi   == <<transferVars, bringVars, scanVars>>
serves == <<ftpVars, serverVars, pathVars, fatVars, ntpVars>>
boards == <<sdvars, mediavars, cameravars>>
loops  == <<poolVars, searchVars, rowVars>>

(* Three names that go in a directory: two that begin alike and one short.   *)
BoardNames == {<<"model", "q8">>, <<"config">>, <<"model", "q4">>}
ShortName  == {<<"BOOT">>}
Stems      == [name \in BoardNames |-> <<"STEM">>]

(* Seven pages, of which the driver keeps the first and the fourth.          *)
ReservedPages == {0, 3}
-----------------------------------------------------------------------------
(* Where the loops stand while another part has its turn: at their ends.     *)
SearchIdle == used = {} /\ n = 1 /\ start = 1 /\ run = 1 /\ pc = "found"
RowsIdle ==
  /\ rows = 0 /\ mask = {0} /\ cpu = CpuCount /\ loop = 2
  /\ total = 1 /\ cumulative = 1
  /\ firstRow = [c \in Cpus |-> 0] /\ end = [c \in Cpus |-> 0]
  /\ share = [c \in 0 .. CpuCount |-> 0]

Init ==
  /\ turn \in {"transfer", "bring-up", "scan", "ftp", "server", "paths", "names",
               "sd", "card", "camera", "ntp", "pool", "search", "rows"}
  /\ TransferInit /\ BringInit /\ ScanInit
  /\ FtpInit /\ ServerInit /\ PathInit /\ FatInit /\ NtpInit
  /\ SdmmcInit /\ MediaInit /\ (turn = "card" \/ ~slot) /\ CameraInit
  /\ PoolInit
  /\ IF turn = "search" THEN SearchInit ELSE SearchIdle
  /\ IF turn = "rows" THEN RowsInit ELSE RowsIdle

Next ==
  \/ turn = "transfer" /\ TransferNext /\ UNCHANGED <<turn, bringVars, scanVars, serves, boards, loops>>
  \/ turn = "bring-up" /\ BringNext /\ UNCHANGED <<turn, transferVars, scanVars, serves, boards, loops>>
  \/ turn = "scan" /\ ScanNext /\ UNCHANGED <<turn, transferVars, bringVars, serves, boards, loops>>
  \/ turn = "ftp" /\ FtpNext
     /\ UNCHANGED <<turn, wifi, serverVars, pathVars, fatVars, ntpVars, boards, loops>>
  \/ turn = "server" /\ ServerNext
     /\ UNCHANGED <<turn, wifi, ftpVars, pathVars, fatVars, ntpVars, boards, loops>>
  \/ turn = "paths" /\ PathNext
     /\ UNCHANGED <<turn, wifi, ftpVars, serverVars, fatVars, ntpVars, boards, loops>>
  \/ turn = "names" /\ FatNext
     /\ UNCHANGED <<turn, wifi, ftpVars, serverVars, pathVars, ntpVars, boards, loops>>
  \/ turn = "ntp" /\ NtpNext
     /\ UNCHANGED <<turn, wifi, ftpVars, serverVars, pathVars, fatVars, boards, loops>>
  \/ turn = "sd" /\ SdmmcNext /\ UNCHANGED <<turn, wifi, serves, mediavars, cameravars, loops>>
  \/ turn = "card" /\ MediaNext /\ UNCHANGED <<turn, wifi, serves, sdvars, cameravars, loops>>
  \/ turn = "camera" /\ CameraNext /\ UNCHANGED <<turn, wifi, serves, sdvars, mediavars, loops>>
  \/ turn = "pool" /\ PoolNext /\ UNCHANGED <<turn, wifi, serves, boards, searchVars, rowVars>>
  \/ turn = "search" /\ Search /\ UNCHANGED <<turn, wifi, serves, boards, poolVars, rowVars>>
  \/ turn = "rows" /\ RowsNext /\ UNCHANGED <<turn, wifi, serves, boards, poolVars, searchVars>>

(* The fairness of each part, on its turn. *)
Fair ==
  /\ \A t \in Threads : WF_transferVars(turn = "transfer" /\ Sending(t))
  /\ WF_transferVars(turn = "transfer" /\ Receiving) /\ SF_transferVars(turn = "transfer" /\ Setups)
  /\ WF_bringVars(turn = "bring-up" /\ BringNext)
  /\ WF_scanVars(turn = "scan" /\ scan_once)
  /\ WF_serverVars(turn = "server" /\ (server_task \/ AcceptFails))
  /\ WF_serverVars(turn = "server" /\ (ClosesListener \/ ftpd_close \/ Forgets))
  /\ \A w \in FtpWorkers :
       /\ WF_serverVars(turn = "server" /\ ftpd_startworker(w))
       /\ WF_serverVars(turn = "server" /\ ftpd_account_login(w))
       /\ WF_serverVars(turn = "server" /\ ftpd_uncount(w))
  /\ SF_serverVars(turn = "server" /\ Leaving)
  /\ WF_sdvars(turn = "sd" /\ CallerStep) /\ WF_sdvars(turn = "sd" /\ eventtimeout)
  /\ WF_sdvars(turn = "sd" /\ HandlerStep)
  /\ WF_mediavars(turn = "card" /\ card_interrupt) /\ WF_mediavars(turn = "card" /\ DriverStep)
  /\ \A c \in NtpCallers : WF_ntpVars(turn = "ntp" /\ CallSteps(c))
  /\ \A d \in NtpDaemons : WF_ntpVars(turn = "ntp" /\ ntpc_daemon(d))

Spec == Init /\ [][Next]_<<turn, wifi, serves, boards, loops>> /\ Fair
-----------------------------------------------------------------------------
(* The types of every part, and the counters of the NPU pool's report.       *)
TypesOK ==
  /\ TransferTypeOK /\ FtpTypeOK /\ ServerTypeOK /\ PathTypeOK /\ FatTypeOK
  /\ SdmmcTypeOK /\ MediaTypeOK /\ CameraTypeOK /\ NtpTypeOK /\ PoolTypeOK /\ CountsExact

(* PathsStayInside asks about every path there is, so only where it matters. *)
PathsAreServed == turn = "paths" => PathsStayInside

(* Each part that works comes to its end: a sender of the Wi-Fi driver comes *)
(* back, the bring-up leaves its device node, a scan ends, a stopped FTP     *)
(* server drains, an SD transfer ends, a moved card becomes known, a call of *)
(* the NTP client returns.  This is SendersReturn, NodeAppears, ScanEnds,    *)
(* StopDrains, TransfersEnd, CardIsKnown and NtpCallsReturn as one formula,  *)
(* since turn never changes.  Each thread of the driver stands for a caller  *)
(* of the client too, and every caller has one.                              *)
CallerOf == CHOOSE f \in [Threads -> NtpCallers] : \A c \in NtpCallers : \E t \in Threads : f[t] = c

Works(t) ==
  \/ turn = "transfer" /\ InIo(t, "tx_lock")
  \/ turn \in {"bring-up", "card"}
  \/ turn = "scan" /\ scan.pc = "dwell"
  \/ turn = "server" /\ g_stop
  \/ turn = "sd" /\ caller.pc = "waiting"
  \/ turn = "ntp" /\ calls[CallerOf[t]] # "idle"

Ended(t) ==
  \/ turn = "transfer" /\ InIo(t, "idle")
  \/ turn = "bring-up" /\ up.node
  \/ turn = "card" /\ (known = slot \/ missed # "no")
  \/ turn = "scan" /\ scan.pc = "idle"
  \/ turn = "server" /\ g_server = "none"
  \/ turn = "sd" /\ caller.pc = "idle"
  \/ turn = "ntp" /\ (calls[CallerOf[t]] = "idle" \/ Stuck)

EverythingEnds == \A t \in Threads : Works(t) ~> Ended(t)
=============================================================================
