---------------------------- MODULE WifiTransfer ----------------------------
(***************************************************************************)
(* The data path of the Wi-Fi driver (a733_wifi_usb.c).  Frames are built  *)
(* in one buffer, g_wifi_data_tx, and every bulk transfer of the chip uses *)
(* one queue head and one descriptor of the host controller.  Three locks  *)
(* guard them, always taken in the same order: the network lock, where the *)
(* caller holds it, g_wifi_data_tx_lock, g_wifi_usb_lock.                  *)
(*                                                                         *)
(* A frame is several packets, so a transfer can stop in its middle.  The  *)
(* host and the chip keep one data toggle per endpoint, and a packet that  *)
(* comes with the wrong one is acknowledged and thrown away.               *)
(***************************************************************************)
EXTENDS Naturals, FiniteSets

CONSTANTS ToSend,     \* bound: frames each thread sends
          Arrivals,   \* bound: frames that arrive
          InPackets,  \* packets of the longest received frame: g_wifi_data_rx holds 4
          Failing,    \* bound: endpoints where a transaction fails
          Queue       \* confirmations the chip holds before it stops taking frames

ASSUME TransferAssumption ==
  /\ ToSend \in Nat /\ Arrivals \in Nat /\ Queue \in Nat
  /\ InPackets \in Nat \ {0} /\ Failing \in Nat

Senders   == {"net", "dhcp"}              \* the stack, and a thread without its lock
Threads   == Senders \cup {"rx"}
Endpoints == {"out", "in", "msg"}
Unlocked  == "nobody"
Empty     == [by |-> "nobody", whole |-> FALSE]

(* A descriptor out of use, and one set up: met says that the transfer saw *)
(* the frame under way begin, begun that it has its first packet and all   *)
(* that followed.                                                          *)
Descriptor(ep, bit, packets, done) ==
  [ep |-> ep, toggle |-> bit, packets |-> packets, done |-> done, error |-> FALSE,
   met |-> FALSE, begun |-> FALSE]
NoTransfer == Descriptor("in", 0, 0, TRUE)

VARIABLES
  net_lock, tx_lock, usb_lock,  \* who holds each
  tx_buffer,    \* g_wifi_data_tx: whose frame, and whether all of it is there
  tx_pending,   \* g_wifi_tx_pending
  qtd,          \* the transfer of the one descriptor
  toggle,       \* the driver's toggles
  dev,          \* the chip: toggles, first packet kept, frames taken, queues,
                \* packets left of the frame it is handing over
  io,           \* where each thread is
  tally,        \* data_tx_frames, wifi_data_confirmations, frames received
  torn          \* endpoints where a transfer failed, or ended inside a sent frame

transferVars == <<net_lock, tx_lock, usb_lock, tx_buffer, tx_pending, qtd, toggle,
                  dev, io, tally, torn>>

InIo(t, pc) == io[t].pc = pc
GoIo(t, pc) == io' = [io EXCEPT ![t].pc = pc]

-----------------------------------------------------------------------------
(* One bulk transfer.                                                      *)

(* The descriptor is set up with the toggle the driver remembers. *)
bulk_setup(t, ep) ==
  /\ usb_lock = Unlocked /\ usb_lock' = t
  /\ qtd' = Descriptor(ep, toggle[ep], IF ep = "out" THEN 2 ELSE 1, FALSE)
  /\ UNCHANGED <<net_lock, tx_lock, tx_buffer, tx_pending, toggle, dev, tally, torn>>

(* The controller moves a packet out: the chip keeps it if its toggle is   *)
(* the expected one.  A frame is complete with its second packet.          *)
PacketOut ==
  /\ usb_lock # Unlocked /\ ~qtd.done /\ qtd.ep = "out" /\ dev.confirm < Queue
  /\ qtd' = [qtd EXCEPT !.toggle = 1 - @, !.packets = @ - 1, !.done = qtd.packets = 1]
  /\ dev' = IF qtd.toggle # dev.toggle["out"] THEN dev
            ELSE IF dev.first = Empty
            THEN [dev EXCEPT !.toggle["out"] = 1 - @, !.first = tx_buffer]
            ELSE [dev EXCEPT !.toggle["out"] = 1 - @, !.first = Empty,
                             !.frame = <<dev.first, tx_buffer>>, !.confirm = @ + 1]
  /\ UNCHANGED <<net_lock, tx_lock, usb_lock, tx_buffer, tx_pending, toggle, io, tally, torn>>

(* It moves a packet of a frame in: the controller drops one with the      *)
(* wrong toggle, and the chip goes on all the same.  The last packet is    *)
(* short and ends the transfer.                                            *)
FrameIn(length) ==
  LET begins == dev.left = 0
      met    == begins \/ qtd.met
      kept   == qtd.toggle = dev.toggle["in"]
  IN /\ IF begins THEN dev.arrived > 0 ELSE length = dev.left
     /\ qtd' = IF kept
               THEN [qtd EXCEPT !.toggle = 1 - @, !.done = length = 1,
                                !.met = met, !.begun = begins \/ @]
               ELSE [qtd EXCEPT !.met = met]
     /\ dev' = [dev EXCEPT !.toggle["in"] = 1 - @, !.left = length - 1,
                           !.arrived = IF begins THEN @ - 1 ELSE @,
                           !.handed = IF length = 1 /\ met THEN @ + 1 ELSE @]

(* A confirmation is one packet. *)
ConfirmationIn ==
  /\ dev.confirm > 0
  /\ qtd' = IF qtd.toggle = dev.toggle["msg"] THEN [qtd EXCEPT !.toggle = 1 - @, !.done = TRUE] ELSE qtd
  /\ dev' = [dev EXCEPT !.toggle["msg"] = 1 - @, !.confirm = @ - 1]

PacketIn ==
  /\ usb_lock # Unlocked /\ ~qtd.done
  /\ \/ qtd.ep = "in" /\ \E length \in 1 .. InPackets : FrameIn(length)
     \/ qtd.ep = "msg" /\ ConfirmationIn
  /\ UNCHANGED <<net_lock, tx_lock, usb_lock, tx_buffer, tx_pending, toggle, io, tally, torn>>

(* A transaction fails: the controller tries again, with the error bit set *)
(* from then on, or halts the descriptor.                                  *)
PacketFails ==
  /\ usb_lock # Unlocked /\ ~qtd.done
  /\ qtd.ep \in torn \/ Cardinality(torn) < Failing
  /\ \E halted \in BOOLEAN : qtd' = [qtd EXCEPT !.error = TRUE, !.done = halted]
  /\ torn' = torn \cup {qtd.ep}
  /\ UNCHANGED <<net_lock, tx_lock, usb_lock, tx_buffer, tx_pending, toggle, dev, io, tally>>

(* A mistake that would be easy to make here; the properties exclude it:   *)
(* a completion in the last interval of the wait is a time-out.            *)
VerdictOfLoop(seen) == qtd.done /\ seen /\ ~qtd.error

(* The wait ends because it saw the completion or because its time is over,*)
(* and then looks once more.  With an error bit set it is -EIO.            *)
Verdict(seen) == qtd.done /\ ~qtd.error

bulk_timeout(t, done, failed) ==
  /\ usb_lock = t
  /\ \E seen \in (IF qtd.done THEN BOOLEAN ELSE {FALSE}) :
       /\ toggle' = IF Verdict(seen) THEN [toggle EXCEPT ![qtd.ep] = qtd.toggle] ELSE toggle
       /\ io' = [io EXCEPT ![t].pc = IF Verdict(seen) THEN done ELSE failed, ![t].ok = Verdict(seen) /\ qtd.ep = "out"]
       /\ tally' = CASE Verdict(seen) /\ qtd.begun      -> [tally EXCEPT !.got = @ + 1]
                     [] Verdict(seen) /\ qtd.ep = "msg" -> [tally EXCEPT !.confirmed = @ + 1]
                     [] OTHER -> tally
  /\ torn' = IF qtd.ep = "out" /\ ~qtd.done /\ qtd.packets = 1 THEN torn \cup {"out"} ELSE torn
  /\ usb_lock' = Unlocked /\ qtd' = NoTransfer
  /\ UNCHANGED <<net_lock, tx_lock, tx_buffer, tx_pending, dev>>

-----------------------------------------------------------------------------
(* a733_wifi_data_send_ethernet and a733_wifi_data_send_eapol_start.       *)

SendBegin(t) ==
  /\ InIo(t, "idle") /\ t \in Senders /\ io[t].frames > 0
  /\ t = "net" => net_lock = Unlocked
  /\ net_lock' = IF t = "net" THEN t ELSE net_lock
  /\ io' = [io EXCEPT ![t].pc = "tx_lock", ![t].frames = @ - 1]
  /\ UNCHANGED <<tx_lock, usb_lock, tx_buffer, tx_pending, qtd, toggle, dev, tally, torn>>

(* A mistake that would be easy to make here; the properties exclude it:   *)
(* the lock is taken only for the transfer.                                *)
TakeTxLockLate(t) ==
  /\ InIo(t, "tx_lock")
  /\ tx_lock' = t
  /\ tx_buffer' = [by |-> t, whole |-> FALSE]
  /\ GoIo(t, "descriptor")
  /\ UNCHANGED <<net_lock, usb_lock, tx_pending, qtd, toggle, dev, tally, torn>>

(* With the lock the descriptor is written first, then the payload. *)
TakeTxLock(t) ==
  /\ InIo(t, "tx_lock") /\ tx_lock = Unlocked
  /\ tx_lock' = t
  /\ tx_buffer' = [by |-> t, whole |-> FALSE]
  /\ GoIo(t, "descriptor")
  /\ UNCHANGED <<net_lock, usb_lock, tx_pending, qtd, toggle, dev, tally, torn>>

Payload(t) ==
  /\ InIo(t, "descriptor")
  /\ tx_buffer' = [tx_buffer EXCEPT !.whole = TRUE]
  /\ tx_pending' = TRUE /\ GoIo(t, "usb")
  /\ UNCHANGED <<net_lock, tx_lock, usb_lock, qtd, toggle, dev, tally, torn>>

SendSetup(t)  == InIo(t, "usb") /\ bulk_setup(t, "out") /\ GoIo(t, "sending")
SendEnds(t)   == InIo(t, "sending") /\ bulk_timeout(t, "sent", "sent")

SendReturn(t) ==
  /\ InIo(t, "sent")
  /\ tx_pending' = FALSE /\ tx_lock' = Unlocked
  /\ tally' = [tally EXCEPT !.sent = @ + (IF io[t].ok THEN 1 ELSE 0)]
  /\ net_lock' = IF net_lock = t THEN Unlocked ELSE net_lock
  /\ GoIo(t, "idle")
  /\ UNCHANGED <<usb_lock, tx_buffer, qtd, toggle, dev, torn>>

-----------------------------------------------------------------------------
(* The receive thread: a confirmation is read first, if one is due or the  *)
(* tick has come; a frame only while nobody waits to send.                 *)

MessageSetup ==
  /\ InIo("rx", "idle")
  /\ tally.confirmed < tally.sent \/ io["rx"].frames > 0
  /\ bulk_setup("rx", "msg")
  /\ io' = [io EXCEPT !["rx"].pc = "message",
                      !["rx"].frames = IF tally.confirmed < tally.sent THEN @ ELSE @ - 1]

message_ends == InIo("rx", "message") /\ bulk_timeout("rx", "receive", "receive")

NoMessage ==
  /\ InIo("rx", "idle") /\ tally.confirmed >= tally.sent
  /\ GoIo("rx", "receive")
  /\ UNCHANGED <<net_lock, tx_lock, usb_lock, tx_buffer, tx_pending, qtd, toggle, dev,
                 tally, torn>>

LeaveToSender ==
  /\ InIo("rx", "receive") /\ tx_pending
  /\ GoIo("rx", "idle")
  /\ UNCHANGED <<net_lock, tx_lock, usb_lock, tx_buffer, tx_pending, qtd, toggle, dev,
                 tally, torn>>

ReceiveSetup ==
  /\ InIo("rx", "receive") /\ ~tx_pending
  /\ bulk_setup("rx", "in") /\ GoIo("rx", "receiving")

(* What was received may be no frame for the host by its header (-EPROTO,  *)
(* -ENOMSG): the tail of a frame whose first packets a transfer lost, and  *)
(* a frame of the air.                                                     *)
data_receive_timeout ==
  /\ InIo("rx", "receiving")
  /\ \E next \in {"net_lock", "idle"} : bulk_timeout("rx", next, "idle")

(* A received frame is handled under the network lock, and may be answered *)
(* at once: by the stack, or by the handshake.                             *)
net_receive ==
  /\ InIo("rx", "net_lock") /\ net_lock = Unlocked
  /\ \/ GoIo("rx", "tx_lock") /\ net_lock' = "rx"
     \/ GoIo("rx", "idle") /\ UNCHANGED net_lock
  /\ UNCHANGED <<tx_lock, usb_lock, tx_buffer, tx_pending, qtd, toggle, dev, tally, torn>>

FrameArrives ==
  /\ dev.coming > 0
  /\ dev' = [dev EXCEPT !.coming = @ - 1, !.arrived = @ + 1]
  /\ UNCHANGED <<net_lock, tx_lock, usb_lock, tx_buffer, tx_pending, qtd, toggle, io,
                 tally, torn>>

-----------------------------------------------------------------------------
TransferInit ==
  /\ net_lock = Unlocked /\ tx_lock = Unlocked /\ usb_lock = Unlocked
  /\ tx_buffer = Empty /\ tx_pending = FALSE
  /\ qtd = NoTransfer
  /\ toggle = [ep \in Endpoints |-> 0]
  /\ dev = [toggle |-> [ep \in Endpoints |-> 0], first |-> Empty, frame |-> <<Empty, Empty>>,
            confirm |-> 0, coming |-> Arrivals, arrived |-> 0, left |-> 0, handed |-> 0]
  /\ io = [t \in Threads |-> [pc |-> "idle", ok |-> FALSE, frames |-> ToSend]]
  /\ tally = [sent |-> 0, confirmed |-> 0, got |-> 0]
  /\ torn = {}

Sending(t) == TakeTxLock(t) \/ Payload(t) \/ SendSetup(t) \/ SendEnds(t) \/ SendReturn(t)

Receiving == MessageSetup \/ message_ends \/ NoMessage \/ LeaveToSender
             \/ ReceiveSetup \/ data_receive_timeout \/ net_receive

TransferNext == \/ \E t \in Threads : SendBegin(t) \/ Sending(t)
                \/ Receiving \/ PacketOut \/ PacketIn \/ PacketFails \/ FrameArrives

(* The threads run.  A mutex goes to the thread that has waited longest,   *)
(* so the receive thread cannot take g_wifi_usb_lock again and again while *)
(* a sender waits for it.                                                  *)
Setups == \E t \in Threads : SendSetup(t)
TransferFair == /\ \A t \in Threads : WF_transferVars(Sending(t))
                /\ WF_transferVars(Receiving) /\ SF_transferVars(Setups)

TransferSpec == TransferInit /\ [][TransferNext]_transferVars /\ TransferFair

-----------------------------------------------------------------------------
(* The locks are held where the threads are. *)
TransferTypeOK ==
  /\ \A t \in Threads :
       /\ tx_lock = t <=> io[t].pc \in {"descriptor", "usb", "sending", "sent"}
       /\ usb_lock = t <=> io[t].pc \in {"sending", "receiving", "message"}
  /\ toggle \in [Endpoints -> {0, 1}] /\ dev.toggle \in [Endpoints -> {0, 1}]
  /\ qtd \in [ep : Endpoints, toggle : {0, 1}, packets : 0..2, done : BOOLEAN,
               error : BOOLEAN, met : BOOLEAN, begun : BOOLEAN]
  /\ dev.left \in 0 .. InPackets /\ torn \subseteq Endpoints

(* The chip gets each frame as its sender built it: both packets from the  *)
(* same frame, and nothing of a frame still being built ("the USB lock     *)
(* alone is too late", says the comment at the lock).                      *)
FramesWhole ==
  "out" \notin torn => /\ dev.frame[1] = dev.frame[2]
                       /\ dev.frame[1] # Empty => dev.frame[1].whole

(* Without a failed transaction the host gets what the chip hands over: a  *)
(* confirmation, and a frame that moved within one transfer, in its last   *)
(* interval too.  A poll that ends inside a received frame costs that      *)
(* frame and no other: where a frame begins the toggles agree again.       *)
NothingDropped ==
  usb_lock = Unlocked =>
    /\ "in" \notin torn => /\ tally.got = dev.handed
                           /\ dev.left = 0 => toggle["in"] = dev.toggle["in"]
    /\ torn \cap {"msg", "out"} = {} =>
         tally.confirmed + dev.confirm
           = tally.sent + Cardinality({t \in Threads : InIo(t, "sent") /\ io[t].ok})

(* Frames arrive: as they were built at the chip, and all of them here.    *)
FramesArrive == FramesWhole /\ NothingDropped

(* Whoever begins to send comes back, whatever the chip does: no two       *)
(* threads wait for each other's locks, and the receive thread leaves the  *)
(* controller to the senders.                                              *)
SendersReturn == \A t \in Threads : InIo(t, "tx_lock") ~> InIo(t, "idle")
=============================================================================
