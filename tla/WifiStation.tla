----------------------------- MODULE WifiStation -----------------------------
(***************************************************************************)
(* The station side of the FCU760K Wi-Fi driver (a733_wifi_usb.c): the     *)
(* commands written to the device, the receive thread of wlan0 with the    *)
(* WPA2 four-way handshake, and the DHCP thread.  All of them share g_wifi *)
(* without a lock.  Only the message endpoint of the chip is serialised,   *)
(* by g_wifi_msg_lock: the answers of the firmware and its unsolicited     *)
(* messages come through one queue, and whoever reads a message owns it.   *)
(*                                                                         *)
(* The firmware and the access points are outside the repository; they are *)
(* modelled by the messages the driver sends them and waits for.           *)
(***************************************************************************)
EXTENDS Naturals, Sequences

CONSTANTS Secured, Plain,       \* a WPA2 network and an open one
          Commands,             \* bound: commands written to the device
          Drops,                \* bound: links the access point ends
          Resends               \* bound: repeated handshake messages

Nets   == {Secured, Plain}
NoNet  == "no network"
Zero   == <<0, 0>>              \* an erased key, and what has no integrity code
NoKey  == <<>>                  \* the firmware holds none
NoLock == "free"

VARIABLES
  chip,      \* the firmware: requests, link, key; and the access point's side
  msgs,      \* the message endpoint, messages from the firmware in order
  air,       \* EAPOL frames waiting at the data endpoint
  g_wifi,    \* the driver's state
  wlan0,     \* carrier and address of the interface
  msg_lock,  \* g_wifi_msg_lock: who holds it
  ctl, rxd, dhcp,   \* the writer of commands, the receive thread, the client
  late,      \* a command came back while its answer was still to come or to be read
  left       \* what remains of the three bounds

wifiVars == <<chip, msgs, air, g_wifi, wlan0, msg_lock, ctl, rxd, dhcp, late, left>>

-----------------------------------------------------------------------------
(* The firmware and the access point.                                      *)

Msg(id, to, net, ok) == [id |-> id, to |-> to, net |-> net, ok |-> ok]

(* A request reaches the firmware; it is answered later. *)
lmac_send(id, to, net, key) ==
  chip' = [chip EXCEPT !.todo = Append(@, [id |-> id, to |-> to, net |-> net, key |-> key])]

Frame(m, replay, ptk) == [m |-> m, session |-> chip.session, replay |-> replay, ptk |-> ptk]

(* The answers of the firmware: a connection is confirmed first and joined *)
(* later; a disconnection is confirmed and, if there was a link, indicated,*)
(* in either order.                                                        *)
FwConnect(r) ==
  \/ /\ chip.link = NoNet
     /\ msgs' = Append(msgs, Msg("CONNECT_CFM", r.to, r.net, TRUE))
     /\ chip' = [chip EXCEPT !.todo = <<[r EXCEPT !.id = "JOIN"]>> \o Tail(@)]
     /\ UNCHANGED air
  \/ /\ chip.link # NoNet
     /\ msgs' = Append(msgs, Msg("CONNECT_CFM", r.to, r.net, FALSE))
     /\ chip' = [chip EXCEPT !.todo = Tail(@)]
     /\ UNCHANGED air

FwJoin(r) ==
  \/ /\ msgs' = Append(msgs, Msg("CONNECT_IND", r.to, r.net, FALSE))
     /\ chip' = [chip EXCEPT !.todo = Tail(@)]
     /\ UNCHANGED air
  \/ /\ msgs' = Append(msgs, Msg("CONNECT_IND", r.to, r.net, TRUE))
     /\ chip' = [chip EXCEPT !.todo = Tail(@), !.link = r.net, !.session = @ + 1,
                             !.key = NoKey, !.ap = "M1", !.counter = 1]
     /\ air' = IF r.net = Secured
               THEN Append(air, [Frame("M1", 1, Zero) EXCEPT !.session = @ + 1])
               ELSE air

FwDisconnect(r) ==
  LET cfm == Msg("DISCONNECT_CFM", r.to, NoNet, TRUE)
      ind == Msg("DISCONNECT_IND", "all", NoNet, TRUE)
  IN /\ \/ chip.link = NoNet /\ msgs' = Append(msgs, cfm)
        \/ chip.link # NoNet /\ msgs' = msgs \o <<cfm, ind>>
        \/ chip.link # NoNet /\ msgs' = msgs \o <<ind, cfm>>
     /\ chip' = [chip EXCEPT !.todo = Tail(@), !.link = NoNet, !.key = NoKey]
     /\ UNCHANGED air

(* Both keys are added by the same message, so that the confirmation of    *)
(* one may be taken for that of the other; the firmware may refuse a key.  *)
Confirmed(id) == IF id = "GROUP_ADD" THEN "KEY_ADD" ELSE id

FwOther(r) ==
  \E ok \in BOOLEAN :
    /\ ok \/ Confirmed(r.id) = "KEY_ADD"
    /\ msgs' = Append(msgs, Msg(Confirmed(r.id), r.to, NoNet, ok))
    /\ chip' = [chip EXCEPT !.todo = Tail(@),
                   !.key = IF ok /\ r.id = "KEY_ADD" /\ chip.link # NoNet THEN r.key ELSE @]
    /\ UNCHANGED air

FwAnswer ==
  /\ chip.todo # <<>>
  /\ LET r == Head(chip.todo)
     IN \/ r.id = "CONNECT" /\ FwConnect(r)
        \/ r.id = "JOIN" /\ FwJoin(r)
        \/ r.id = "DISCONNECT" /\ FwDisconnect(r)
        \/ r.id \in {"KEY_ADD", "GROUP_ADD", "PORT", "SCAN"} /\ FwOther(r)
  /\ UNCHANGED <<g_wifi, wlan0, msg_lock, ctl, rxd, dhcp, late, left>>

(* The access point ends the link: an indication nobody asked for. *)
ApDrop ==
  /\ chip.link # NoNet /\ left.drops > 0
  /\ chip' = [chip EXCEPT !.link = NoNet, !.key = NoKey]
  /\ msgs' = Append(msgs, Msg("DISCONNECT_IND", "all", NoNet, TRUE))
  /\ left' = [left EXCEPT !.drops = @ - 1]
  /\ UNCHANGED <<air, g_wifi, wlan0, msg_lock, ctl, rxd, dhcp, late>>

(* It repeats the message that was not answered, under the next counter. *)
ApResend ==
  /\ chip.link = Secured /\ chip.ap \in {"M1", "M3"} /\ left.resends > 0
  /\ chip' = [chip EXCEPT !.counter = @ + 1]
  /\ air' = Append(air, Frame(chip.ap, chip.counter + 1,
                              IF chip.ap = "M3" THEN chip.ptk ELSE Zero))
  /\ left' = [left EXCEPT !.resends = @ - 1]
  /\ UNCHANGED <<msgs, g_wifi, wlan0, msg_lock, ctl, rxd, dhcp, late>>

(* Message 2 reaches it: it derives the key and answers with message 3,    *)
(* whichever of its copies of message 1 that answers, unless the message   *)
(* is for another exchange or of another passphrase.                       *)
ApTakesM2(session, replay, ptk, pmk) ==
  IF chip.link = Secured /\ chip.ap = "M1" /\ pmk
     /\ session = chip.session /\ replay <= chip.counter
  THEN /\ chip' = [chip EXCEPT !.ap = "M3", !.ptk = ptk, !.counter = @ + 1,
                               !.made = @ \cup {ptk}]
       /\ air' = Append(Tail(air), Frame("M3", chip.counter + 1, ptk))
  ELSE air' = Tail(air) /\ UNCHANGED chip

(* Message 4 must carry the integrity code of the same key. *)
ApTakesM4(session, ptk) ==
  chip' = IF /\ chip.link = Secured /\ chip.session = session
             /\ chip.ap = "M3" /\ chip.ptk = ptk
          THEN [chip EXCEPT !.ap = "done"] ELSE chip

-----------------------------------------------------------------------------
(* The writer of commands.                                                 *)

Lost(g) ==
  [g EXCEPT !.associated = FALSE, !.port = FALSE, !.pairwise = FALSE, !.group = FALSE]

ToDo(pc) == ctl' = [ctl EXCEPT !.pc = pc]

(* A command erases the session key under no lock.  It is noted when that  *)
(* falls between the check of message 3 and the reading of the key.        *)
Wiped == ctl.wiped \/ rxd.pc \in {"M4", "key"}

(* wpa2=: the old keys are erased before the new ones are computed, and    *)
(* computing them takes seconds.                                           *)
CtlWpa ==
  /\ ctl.pc = "idle" /\ left.commands > 0
  /\ left' = [left EXCEPT !.commands = @ - 1]
  /\ g_wifi' = [g_wifi EXCEPT !.pmk = FALSE, !.ptk = Zero]
  /\ ctl' = [ctl EXCEPT !.pc = "pmk", !.cmd = "wpa2", !.net = Secured, !.wiped = Wiped]
  /\ UNCHANGED <<chip, msgs, air, wlan0, msg_lock, rxd, dhcp, late>>

(* a733_wifi_wext_wpa_connect, from the derived key on. *)
wext_wpa_connect ==
  /\ ctl.pc = "pmk"
  /\ g_wifi' = [g_wifi EXCEPT !.pmk = TRUE, !.configured = TRUE, !.state = 1,
                   !.pairwise = FALSE, !.group = FALSE, !.port = FALSE, !.replay = 0]
  /\ ToDo("associate")
  /\ UNCHANGED <<chip, msgs, air, wlan0, msg_lock, rxd, dhcp, late, left>>

(* associate=: whatever was configured stays configured. *)
CtlAssociate ==
  /\ ctl.pc = "idle" /\ left.commands > 0
  /\ left' = [left EXCEPT !.commands = @ - 1]
  /\ \E net \in Nets :
       ctl' = [ctl EXCEPT !.pc = "associate", !.cmd = "associate", !.net = net]
  /\ UNCHANGED <<chip, msgs, air, g_wifi, wlan0, msg_lock, rxd, dhcp, late>>

CtlDisconnect ==
  /\ ctl.pc = "idle" /\ left.commands > 0
  /\ left' = [left EXCEPT !.commands = @ - 1]
  /\ ctl' = [ctl EXCEPT !.pc = "disconnect", !.cmd = "disconnect"]
  /\ UNCHANGED <<chip, msgs, air, g_wifi, wlan0, msg_lock, rxd, dhcp, late>>

CtlScan ==
  /\ ctl.pc = "idle" /\ left.commands > 0
  /\ left' = [left EXCEPT !.commands = @ - 1]
  /\ ctl' = [ctl EXCEPT !.pc = "scan", !.cmd = "scan"]
  /\ UNCHANGED <<chip, msgs, air, g_wifi, wlan0, msg_lock, rxd, dhcp, late>>

(* A command ends.  wpa2= without an association forgets its               *)
(* configuration, with one it asks the access point to begin.              *)
Finish(g, ok) ==
  /\ g_wifi' = CASE ctl.cmd = "wpa2" /\ ~ok -> [g EXCEPT !.configured = FALSE, !.pmk = FALSE]
                 [] ctl.cmd = "disconnect" ->
                      [g EXCEPT !.configured = FALSE, !.state = 0, !.port = FALSE,
                                !.pmk = FALSE, !.ptk = Zero]
                 [] OTHER -> g
  /\ ctl' = [ctl EXCEPT !.pc = "idle",
                         !.wiped = IF ctl.cmd = "disconnect" THEN Wiped ELSE @]

(* The first lines of associate(): a second request for the network in use *)
(* is answered at once, another one ends the association it replaces.      *)
Associate ==
  /\ ctl.pc = "associate"
  /\ \/ /\ g_wifi.associated /\ g_wifi.bssid = ctl.net /\ ~g_wifi.configured
        /\ Finish(g_wifi, TRUE)
     \/ /\ g_wifi.associated /\ (g_wifi.bssid # ctl.net \/ g_wifi.configured)
        /\ ToDo("disconnect") /\ UNCHANGED g_wifi
     \/ /\ ~g_wifi.associated
        /\ ToDo("connect") /\ UNCHANGED g_wifi
  /\ UNCHANGED <<chip, msgs, air, wlan0, msg_lock, rxd, dhcp, late, left>>

(* The flags are cleared before the lock is asked for. *)
ConnectClears ==
  /\ ctl.pc = "connect"
  /\ g_wifi' = [g_wifi EXCEPT !.associated = FALSE, !.bssid = NoNet]
  /\ ToDo("connect_send")
  /\ UNCHANGED <<chip, msgs, air, wlan0, msg_lock, rxd, dhcp, late, left>>

(* was_associated is read here, under no lock. *)
DisconnectClears ==
  /\ ctl.pc = "disconnect"
  /\ g_wifi' = [g_wifi EXCEPT !.confirmed = FALSE, !.indicated = FALSE]
  /\ ctl' = [ctl EXCEPT !.pc = "disconnect_send", !.was = g_wifi.associated]
  /\ UNCHANGED <<chip, msgs, air, wlan0, msg_lock, rxd, dhcp, late, left>>

CtlSend ==
  /\ ctl.pc \in {"connect_send", "disconnect_send", "scan"} /\ msg_lock = NoLock
  /\ msg_lock' = "ctl"
  /\ \/ /\ ctl.pc = "connect_send" /\ lmac_send("CONNECT", "ctl", ctl.net, NoKey)
        /\ ctl' = [ctl EXCEPT !.pc = "connect_wait", !.cfm = FALSE]
     \/ /\ ctl.pc = "disconnect_send" /\ lmac_send("DISCONNECT", "ctl", NoNet, NoKey)
        /\ ToDo("disconnect_wait")
     \/ /\ ctl.pc = "scan" /\ lmac_send("SCAN", "ctl", NoNet, NoKey)
        /\ ToDo("scan_wait")
  /\ UNCHANGED <<msgs, air, g_wifi, wlan0, rxd, dhcp, late, left>>

Carrier(up) == wlan0' = [wlan0 EXCEPT !.carrier = up]

(* One message of the loop that waits for a connection. *)
a733_wifi_associate ==
  /\ ctl.pc = "connect_wait" /\ msgs # <<>>
  /\ msgs' = Tail(msgs)
  /\ LET m == Head(msgs)
     IN \/ /\ m.id = "CONNECT_CFM" /\ m.ok
           /\ ctl' = [ctl EXCEPT !.cfm = TRUE]
           /\ UNCHANGED <<g_wifi, wlan0, msg_lock>>
        \/ /\ \/ m.id = "CONNECT_CFM" /\ ~m.ok
              \/ m.id = "CONNECT_IND" /\ (~ctl.cfm \/ ~m.ok)
           /\ Finish([g_wifi EXCEPT !.bssid = IF m.id = "CONNECT_IND" /\ ctl.cfm
                                              THEN m.net ELSE @], FALSE)
           /\ msg_lock' = NoLock
           /\ UNCHANGED wlan0
        \/ /\ m.id = "CONNECT_IND" /\ ctl.cfm /\ m.ok
           /\ g_wifi' = [g_wifi EXCEPT !.associated = TRUE, !.bssid = m.net]
           /\ Carrier(TRUE)
           /\ msg_lock' = NoLock
           /\ ToDo(IF ctl.cmd = "wpa2" THEN "eapol_start" ELSE "idle")
        \/ /\ m.id = "DISCONNECT_IND"
           /\ g_wifi' = [Lost(g_wifi) EXCEPT !.state = IF g_wifi.configured THEN 1 ELSE @]
           /\ Carrier(FALSE)
           /\ UNCHANGED <<ctl, msg_lock>>
        \/ /\ m.id \notin {"CONNECT_CFM", "CONNECT_IND", "DISCONNECT_IND"}
           /\ UNCHANGED <<g_wifi, wlan0, msg_lock, ctl>>
  /\ UNCHANGED <<chip, air, rxd, dhcp, late, left>>

(* The frame that asks the access point to begin may fail to leave. *)
send_eapol_start ==
  /\ ctl.pc = "eapol_start"
  /\ \E sent \in BOOLEAN : Finish(g_wifi, sent)
  /\ UNCHANGED <<chip, msgs, air, wlan0, msg_lock, rxd, dhcp, late, left>>

(* A mistake that would be easy to make here; the properties exclude it:   *)
(* the confirmation is taken for the end of the disconnection.             *)
TornDownEarly(g) == g.confirmed

(* disconnect() is over when the firmware has confirmed and, if the driver *)
(* thought it was associated, has also indicated.                          *)
TornDown(g) == g.confirmed /\ (g.indicated \/ ~ctl.was)

AfterDisconnect(g, ok) ==
  IF ctl.cmd # "disconnect" /\ ok
  THEN g_wifi' = g /\ ToDo("connect") /\ UNCHANGED wlan0
  ELSE /\ Finish(g, ok)
       /\ wlan0' = IF ctl.cmd = "disconnect" THEN [wlan0 EXCEPT !.address = FALSE]
                                             ELSE wlan0

(* One message of the loop that waits for a disconnection. *)
a733_wifi_disconnect ==
  /\ ctl.pc = "disconnect_wait" /\ msgs # <<>>
  /\ msgs' = Tail(msgs)
  /\ LET m == Head(msgs)
         g == [g_wifi EXCEPT
                !.confirmed  = @ \/ m.id = "DISCONNECT_CFM",
                !.indicated  = @ \/ m.id = "DISCONNECT_IND",
                !.associated = @ /\ m.id # "DISCONNECT_IND"]
     IN \/ /\ TornDown(g)
           /\ g_wifi' = [g EXCEPT !.bssid = NoNet]
           /\ ToDo("disconnect_done")
           /\ msg_lock' = NoLock
        \/ ~TornDown(g) /\ g_wifi' = g /\ UNCHANGED <<ctl, msg_lock>>
  /\ wlan0' = IF Head(msgs).id = "DISCONNECT_IND" THEN [wlan0 EXCEPT !.carrier = FALSE]
                                                  ELSE wlan0
  /\ UNCHANGED <<chip, air, rxd, dhcp, late, left>>

DisconnectDone ==
  /\ ctl.pc = "disconnect_done"
  /\ AfterDisconnect(g_wifi, TRUE)
  /\ UNCHANGED <<chip, msgs, air, msg_lock, rxd, dhcp, late, left>>

(* A scan keeps results and the final confirmation, and drops the rest. *)
scan_once ==
  /\ ctl.pc = "scan_wait" /\ msgs # <<>>
  /\ msgs' = Tail(msgs)
  /\ IF Head(msgs).id = "SCAN"
     THEN ToDo("idle") /\ msg_lock' = NoLock
     ELSE UNCHANGED <<ctl, msg_lock>>
  /\ UNCHANGED <<chip, air, g_wifi, wlan0, rxd, dhcp, late, left>>

(* What a thread asked for is still to be answered, or in the queue. *)
Asked(ids) == \E k \in DOMAIN chip.todo : chip.todo[k].id \in ids
Queued(id) == \E k \in DOMAIN msgs : msgs[k].id = id
Refused    == \E k \in DOMAIN msgs : msgs[k].id = "CONNECT_CFM" /\ ~msgs[k].ok

CtlWaits == {"connect_wait", "disconnect_wait", "scan_wait"}

Owed == \/ \E k \in DOMAIN chip.todo : chip.todo[k].to = "ctl"
        \/ \E k \in DOMAIN msgs : msgs[k].to = "ctl"

(* A command ends without its answer. *)
Fail ==
  IF ctl.pc \in {"disconnect_send", "disconnect_wait"} THEN AfterDisconnect(g_wifi, FALSE)
  ELSE Finish(g_wifi, FALSE) /\ UNCHANGED wlan0

(* A mistake that would be easy to make here; the properties exclude it:   *)
(* nothing bounds the loop of a disconnection.                             *)
CtlWaitsOn ==
  /\ ctl.pc \in CtlWaits \ {"disconnect_wait"}
  /\ msg_lock' = NoLock
  /\ late' = (late \/ Owed)
  /\ Fail
  /\ UNCHANGED <<chip, msgs, air, rxd, dhcp, left>>

(* A loop that waits may end at any time, with messages in the queue too:  *)
(* after 24 idle reads in a row (12 of a scan), after 128 reads (96), most *)
(* of them of confirmations the model leaves out, or by an error of the    *)
(* bus.                                                                    *)
CtlGivesUp ==
  /\ ctl.pc \in CtlWaits
  /\ msg_lock' = NoLock
  /\ late' = (late \/ Owed)
  /\ Fail
  /\ UNCHANGED <<chip, msgs, air, rxd, dhcp, left>>

(* The request does not leave.  One that arrives although the bus reports  *)
(* an error is a request whose wait ends at once.                          *)
CtlSendFails ==
  /\ ctl.pc \in {"connect_send", "disconnect_send", "scan"} /\ msg_lock = NoLock
  /\ Fail
  /\ UNCHANGED <<chip, msgs, air, msg_lock, rxd, dhcp, late, left>>

-----------------------------------------------------------------------------
(* The receive thread.                                                     *)

RxTo(pc) == rxd' = [rxd EXCEPT !.pc = pc]

(* A mistake that would be easy to make here; the properties exclude it:   *)
(* the pump reads whether or not a command holds the lock.                 *)
message_poll_unserialised ==
  /\ rxd.pc = "poll" /\ msgs # <<>>
  /\ msgs' = Tail(msgs)
  /\ IF Head(msgs).id = "DISCONNECT_IND"
     THEN g_wifi' = [Lost(g_wifi) EXCEPT !.indicated = TRUE, !.state = 1] /\ RxTo("carrier")
     ELSE UNCHANGED <<g_wifi, rxd>>
  /\ UNCHANGED <<chip, air, wlan0, msg_lock, ctl, dhcp, late, left>>

(* It reads the endpoint only when nobody holds the lock; the carrier goes *)
(* down after the lock is released.                                        *)
message_poll ==
  /\ rxd.pc = "poll" /\ msg_lock = NoLock /\ msgs # <<>>
  /\ msgs' = Tail(msgs)
  /\ IF Head(msgs).id = "DISCONNECT_IND"
     THEN g_wifi' = [Lost(g_wifi) EXCEPT !.indicated = TRUE, !.state = 1] /\ RxTo("carrier")
     ELSE UNCHANGED <<g_wifi, rxd>>
  /\ UNCHANGED <<chip, air, wlan0, msg_lock, ctl, dhcp, late, left>>

RxCarrier ==
  /\ rxd.pc = "carrier"
  /\ Carrier(FALSE) /\ RxTo("poll")
  /\ UNCHANGED <<chip, msgs, air, g_wifi, msg_lock, ctl, dhcp, late, left>>

(* The pairwise key follows from the nonces of both sides, and a frame's   *)
(* integrity code from the key.                                            *)
wpa_derive_ptk(session) == <<session, g_wifi.nonce + 1>>
wpa_mic_valid(f) == f.ptk = g_wifi.ptk

(* Message 1: a new nonce and a new key every time, then message 2. *)
EapolM1 ==
  /\ rxd.pc = "poll" /\ g_wifi.associated /\ air # <<>> /\ Head(air).m = "M1"
  /\ IF g_wifi.configured /\ g_wifi.bssid # NoNet
     THEN /\ g_wifi' = [g_wifi EXCEPT !.replay = Head(air).replay, !.nonce = @ + 1,
                           !.ptk = wpa_derive_ptk(Head(air).session)]
          /\ rxd' = [rxd EXCEPT !.pc = "M2"] /\ UNCHANGED air
     ELSE air' = Tail(air) /\ UNCHANGED <<g_wifi, rxd>>
  /\ UNCHANGED <<chip, msgs, wlan0, msg_lock, ctl, dhcp, late, left>>

EapolM2 ==
  /\ rxd.pc = "M2"
  /\ \/ /\ g_wifi' = [g_wifi EXCEPT !.state = 2]
        /\ \/ ApTakesM2(g_wifi.ptk[1], Head(air).replay, g_wifi.ptk, g_wifi.pmk)
           \/ air' = Tail(air) /\ UNCHANGED chip
     \/ air' = Tail(air) /\ UNCHANGED <<chip, g_wifi>>
  /\ RxTo("poll")
  /\ UNCHANGED <<msgs, wlan0, msg_lock, ctl, dhcp, late, left>>

(* A mistake that would be easy to make here; the properties exclude it:   *)
(* the integrity code of message 3 is not verified.                        *)
BelievedUnchecked(f) == /\ g_wifi.configured
                        /\ g_wifi.state >= 2
                        /\ f.replay > g_wifi.replay

(* Message 3 counts only after message 1, under a newer counter, and if    *)
(* its integrity code was made with the same key.                          *)
Believed(f) == /\ g_wifi.configured
               /\ g_wifi.state >= 2
               /\ f.replay > g_wifi.replay
               /\ wpa_mic_valid(f)

EapolM3 ==
  /\ rxd.pc = "poll" /\ g_wifi.associated /\ air # <<>> /\ Head(air).m = "M3"
  /\ air' = Tail(air)
  /\ IF Believed(Head(air))
     THEN /\ g_wifi' = [g_wifi EXCEPT !.replay = Head(air).replay]
          /\ rxd' = [rxd EXCEPT !.pc = "M4", !.session = Head(air).session]
     ELSE UNCHANGED <<g_wifi, rxd>>
  /\ UNCHANGED <<chip, msgs, wlan0, msg_lock, ctl, dhcp, late, left>>

(* Message 4 leaves before the key is installed. *)
EapolM4 ==
  /\ rxd.pc = "M4"
  /\ \/ ApTakesM4(rxd.session, g_wifi.ptk) /\ RxTo("key")
     \/ UNCHANGED chip /\ RxTo("poll")
  /\ UNCHANGED <<msgs, air, g_wifi, wlan0, msg_lock, ctl, dhcp, late, left>>

(* install_key copies the key into its request before it waits for the     *)
(* endpoint.                                                               *)
RxReadsKey ==
  /\ rxd.pc = "key"
  /\ rxd' = [rxd EXCEPT !.pc = "KEY_ADD", !.key = g_wifi.ptk]
  /\ UNCHANGED <<chip, msgs, air, g_wifi, wlan0, msg_lock, ctl, dhcp, late, left>>

(* The three exchanges of the handshake: pairwise key, group key, port. *)
Exchanges == {"KEY_ADD", "GROUP_ADD", "PORT"}

RxSend ==
  /\ rxd.pc \in Exchanges /\ msg_lock = NoLock
  /\ msg_lock' = "rx"
  /\ lmac_send(rxd.pc, "rx", NoNet, rxd.key)
  /\ rxd' = [rxd EXCEPT !.pc = "wait", !.what = rxd.pc, !.key = NoKey]
  /\ UNCHANGED <<msgs, air, g_wifi, wlan0, ctl, dhcp, late, left>>

RxSendFails ==
  /\ rxd.pc \in Exchanges /\ msg_lock = NoLock
  /\ rxd' = [rxd EXCEPT !.pc = "poll", !.key = NoKey]
  /\ UNCHANGED <<chip, msgs, air, g_wifi, wlan0, msg_lock, ctl, dhcp, late, left>>

(* a733_wifi_lmac_exchange: whatever is not the confirmation is dropped,   *)
(* and a key that is refused ends the handshake.                           *)
lmac_exchange ==
  /\ rxd.pc = "wait" /\ msgs # <<>>
  /\ msgs' = Tail(msgs)
  /\ IF Head(msgs).id # Confirmed(rxd.what)
     THEN UNCHANGED <<g_wifi, rxd, msg_lock>>
     ELSE /\ msg_lock' = NoLock
          /\ \/ ~Head(msgs).ok /\ UNCHANGED g_wifi /\ RxTo("poll")
             \/ /\ rxd.what = "KEY_ADD" /\ Head(msgs).ok
                /\ g_wifi' = [g_wifi EXCEPT !.pairwise = TRUE] /\ RxTo("GROUP_ADD")
             \/ /\ rxd.what = "GROUP_ADD" /\ Head(msgs).ok
                /\ g_wifi' = [g_wifi EXCEPT !.group = TRUE] /\ RxTo("PORT")
             \/ /\ rxd.what = "PORT" /\ Head(msgs).ok
                /\ g_wifi' = [g_wifi EXCEPT !.port = TRUE, !.state = 3]
                /\ RxTo("dhcp_start")
  /\ UNCHANGED <<chip, air, wlan0, ctl, dhcp, late, left>>

(* An exchange ends with the first read that times out or fails, and after *)
(* eight of other messages, whatever is in the queue then.                 *)
RxGivesUp ==
  /\ rxd.pc = "wait"
  /\ msg_lock' = NoLock /\ RxTo("poll")
  /\ UNCHANGED <<chip, msgs, air, g_wifi, wlan0, ctl, dhcp, late, left>>

(* The thread exists before its number is stored. *)
dhcp_start ==
  /\ rxd.pc = "dhcp_start"
  /\ IF ~g_wifi.port \/ g_wifi.dhcp_pid
     THEN RxTo("poll") /\ UNCHANGED dhcp
     ELSE RxTo("dhcp_pid") /\ dhcp' = "clear"
  /\ UNCHANGED <<chip, msgs, air, g_wifi, wlan0, msg_lock, ctl, late, left>>

RxStoresPid ==
  /\ rxd.pc = "dhcp_pid"
  /\ g_wifi' = [g_wifi EXCEPT !.dhcp_pid = TRUE] /\ RxTo("poll")
  /\ UNCHANGED <<chip, msgs, air, wlan0, msg_lock, ctl, dhcp, late, left>>

-----------------------------------------------------------------------------
(* The DHCP thread: it clears the address, asks, and stores the answer or  *)
(* nothing; nobody tells it that the link has gone.                        *)

DhcpClears ==
  /\ dhcp = "clear" /\ dhcp' = "request"
  /\ wlan0' = [wlan0 EXCEPT !.address = FALSE]
  /\ UNCHANGED <<chip, msgs, air, g_wifi, msg_lock, ctl, rxd, late, left>>

(* An answer needs a link while the client asks. *)
DhcpAnswered ==
  /\ dhcp = "request" /\ chip.link # NoNet /\ dhcp' = "store"
  /\ UNCHANGED <<chip, msgs, air, g_wifi, wlan0, msg_lock, ctl, rxd, late, left>>

DhcpFails ==
  /\ dhcp = "request" /\ dhcp' = "end"
  /\ UNCHANGED <<chip, msgs, air, g_wifi, wlan0, msg_lock, ctl, rxd, late, left>>

DhcpStores ==
  /\ dhcp = "store" /\ dhcp' = "end"
  /\ wlan0' = [wlan0 EXCEPT !.address = TRUE]
  /\ UNCHANGED <<chip, msgs, air, g_wifi, msg_lock, ctl, rxd, late, left>>

DhcpEnds ==
  /\ dhcp = "end" /\ dhcp' = "none"
  /\ g_wifi' = [g_wifi EXCEPT !.dhcp_pid = FALSE]
  /\ UNCHANGED <<chip, msgs, air, wlan0, msg_lock, ctl, rxd, late, left>>

-----------------------------------------------------------------------------
WifiInit ==
  /\ chip = [todo |-> <<>>, link |-> NoNet, session |-> 0, key |-> NoKey,
             ap |-> "done", counter |-> 0, ptk |-> Zero, made |-> {}]
  /\ msgs = <<>> /\ air = <<>>
  /\ g_wifi = [associated |-> FALSE, bssid |-> NoNet, configured |-> FALSE, state |-> 0,
               replay |-> 0, nonce |-> 0, ptk |-> Zero, pmk |-> FALSE,
               pairwise |-> FALSE, group |-> FALSE, port |-> FALSE,
               confirmed |-> FALSE, indicated |-> FALSE, dhcp_pid |-> FALSE]
  /\ wlan0 = [carrier |-> FALSE, address |-> FALSE]
  /\ msg_lock = NoLock
  /\ ctl = [pc |-> "idle", cmd |-> "scan", net |-> Plain, was |-> FALSE, cfm |-> FALSE,
            wiped |-> FALSE]
  /\ rxd = [pc |-> "poll", what |-> "PORT", session |-> 0, key |-> NoKey]
  /\ dhcp = "none" /\ late = FALSE
  /\ left = [commands |-> Commands, drops |-> Drops, resends |-> Resends]

CtlStep == \/ wext_wpa_connect \/ Associate \/ ConnectClears \/ DisconnectClears
           \/ CtlSend \/ a733_wifi_associate \/ send_eapol_start
           \/ a733_wifi_disconnect \/ DisconnectDone \/ scan_once \/ CtlGivesUp \/ CtlSendFails

RxStep == \/ message_poll \/ RxCarrier \/ EapolM1 \/ EapolM2 \/ EapolM3 \/ EapolM4
          \/ RxReadsKey \/ RxSend \/ RxSendFails \/ lmac_exchange \/ RxGivesUp
          \/ dhcp_start \/ RxStoresPid

DhcpStep == DhcpClears \/ DhcpAnswered \/ DhcpFails \/ DhcpStores \/ DhcpEnds

WifiNext == \/ CtlWpa \/ CtlAssociate \/ CtlDisconnect \/ CtlScan
            \/ CtlStep \/ RxStep \/ DhcpStep
            \/ FwAnswer \/ ApDrop \/ ApResend

(* The threads run; the firmware and the access point promise nothing. *)
WifiSpec == WifiInit /\ [][WifiNext]_wifiVars
            /\ WF_wifiVars(CtlStep) /\ WF_wifiVars(RxStep)

-----------------------------------------------------------------------------
(* The type of the state. *)
Pairs == Nat \X Nat

WifiTypeOK ==
  /\ msgs \in Seq([id : {"CONNECT_CFM", "CONNECT_IND", "DISCONNECT_CFM", "SCAN", "DISCONNECT_IND"}
                        \cup Exchanges,
                   to : {"ctl", "rx", "all"}, net : Nets \cup {NoNet}, ok : BOOLEAN])
  /\ air \in Seq([m : {"M1", "M3"}, session : Nat, replay : Nat, ptk : Pairs])
  /\ g_wifi.bssid \in Nets \cup {NoNet} /\ g_wifi.state \in 0..3
  /\ g_wifi.ptk \in Pairs
  /\ wlan0 \in [carrier : BOOLEAN, address : BOOLEAN]
  /\ msg_lock \in {NoLock, "ctl", "rx"}
  /\ msg_lock = "ctl" <=> ctl.pc \in CtlWaits
  /\ msg_lock = "rx" <=> rxd.pc = "wait"

(* A thread that leaves its wait without its answer leaves it where it is, *)
(* with the firmware or in the queue: nobody else took it, neither the pump*)
(* of the receive thread a confirmation of a command nor a command one of  *)
(* the installation of a key (g_wifi_msg_lock).                            *)
OwnConfirmations ==
  [][msgs' = msgs =>
       /\ ctl.pc = "connect_wait" /\ ctl'.pc # ctl.pc =>
            Asked({"CONNECT", "JOIN"}) \/ Queued("CONNECT_IND") \/ Refused
       /\ ctl.pc = "disconnect_wait" /\ ctl'.pc # ctl.pc =>
            g_wifi.confirmed \/ Asked({"DISCONNECT"}) \/ Queued("DISCONNECT_CFM")
       /\ ctl.pc = "scan_wait" /\ ctl'.pc # ctl.pc => Asked({"SCAN"}) \/ Queued("SCAN")
       /\ rxd.pc = "wait" /\ rxd'.pc # rxd.pc =>
            Asked({rxd.what}) \/ Queued(Confirmed(rxd.what))]_wifiVars

(* A disconnection of an associated station that returns OK leaves no link *)
(* in the firmware and no message of the teardown for the next connection  *)
(* to trip over, unless an earlier wait ended before its answer was read.  *)
CleanTeardown ==
  [][ctl.pc = "disconnect_wait" /\ ctl'.pc = "disconnect_done" /\ ctl.was /\ ~late
       => /\ chip.link = NoNet
          /\ \A k \in DOMAIN msgs' : msgs'[k].id \notin {"DISCONNECT_CFM", "DISCONNECT_IND"}
    ]_wifiVars

(* A pairwise key in the firmware is one an access point made and whose    *)
(* message 3 was verified, whatever frames were repeated, delayed over a   *)
(* new connection or crossed with a command.  The exception is the erased  *)
(* key: a command may erase it, under no lock, between the check of        *)
(* message 3 and install_key, which then installs the zeroes.              *)
AgreedKey ==
  chip.key \notin chip.made \cup {NoKey} => chip.key = Zero /\ ctl.wiped

(* Every command comes back, though the firmware may never answer and the  *)
(* receive thread uses the same endpoint.                                  *)
CommandsEnd == ctl.pc # "idle" ~> ctl.pc = "idle"

(* What the release notes promise of the command disconnect: no address is *)
(* left on the interface once it has come back.                            *)
AddressGone ==
  ctl.pc = "idle" /\ ctl.cmd = "disconnect" => ~wlan0.address
=============================================================================
