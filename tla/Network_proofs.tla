--------------------------- MODULE Network_proofs ---------------------------
(***************************************************************************)
(* Proofs about the network of the board.                                  *)
(* The Wi-Fi driver.  The data path, for any number of frames: under the   *)
(* three locks and the toggles of the endpoints the chip gets whole frames,*)
(* no confirmation is lost, and no frame that moved within one transfer.   *)
(* The bring-up, for images of any length.  The scan table, of any size.   *)
(* The FTP server: its accounts, the sessions of its workers, and the paths*)
(* of its clients, of any length.                                          *)
(* The NTP client: its lock, its posts, and the offset it moves the clock  *)
(* by, for any number of samples.                                          *)
(***************************************************************************)
EXTENDS WifiTransfer, WifiBringUp, WifiScan, FtpServer, FtpSession, FtpPaths,
        NtpClient, FiniteSetTheorems, SequenceTheorems, TLAPS

(* 1. The data path.                                                        *)
Building == {"descriptor", "usb", "sending", "sent"}
OnUsb == {"sending", "receiving", "message"}
IoSteps == Building \cup OnUsb \cup {"idle", "tx_lock", "receive", "net_lock"}
FrameBuffers == [by : Threads \cup {"nobody"}, whole : BOOLEAN]
Descriptors ==
  [ep : Endpoints, toggle : {0, 1}, packets : 0 .. 2, done : BOOLEAN, error : BOOLEAN,
   met : BOOLEAN, begun : BOOLEAN]
Chips ==
  [toggle : [Endpoints -> {0, 1}], first : FrameBuffers, frame : FrameBuffers \X FrameBuffers,
   confirm : Nat, coming : Nat, arrived : Nat, left : 0 .. InPackets, handed : Nat]

IoTypes ==
  /\ io \in [Threads -> [pc : IoSteps, ok : BOOLEAN, frames : Nat]]
  /\ tx_lock \in Threads \cup {Unlocked} /\ usb_lock \in Threads \cup {Unlocked}
  /\ tx_buffer \in FrameBuffers /\ torn \subseteq Endpoints
  /\ tally \in [sent : Nat, confirmed : Nat, got : Nat]

ChipTypes ==
  /\ qtd \in Descriptors /\ toggle \in [Endpoints -> {0, 1}] /\ dev \in Chips
  /\ qtd.ep = "out" /\ ~qtd.done => qtd.packets \in {1, 2}
  /\ qtd.ep # "in" => ~qtd.begun

(* The locks are held where the threads are, the frame is built before its   *)
(* transfer, and the descriptor is that of the thread with the USB lock.     *)
LocksHeld ==
  \A t \in Threads :
    /\ tx_lock = t <=> io[t].pc \in Building
    /\ usb_lock = t <=> io[t].pc \in OnUsb
    /\ io[t].pc \in {"usb", "sending", "sent"} => tx_buffer.whole
    /\ io[t].pc = "sending" => qtd.ep = "out"
    /\ io[t].pc = "receiving" => qtd.ep = "in"
    /\ io[t].pc = "message" => qtd.ep = "msg"

Busy(ep) == usb_lock # Unlocked /\ qtd.ep = ep

(* As long as no frame was torn, the two toggles of the OUT endpoint agree   *)
(* and the chip has the first packet of a frame only in its middle.          *)
OutFlow ==
  "out" \notin torn =>
    IF Busy("out")
    THEN /\ qtd.toggle = dev.toggle["out"]
         /\ \/ /\ qtd.packets = 2 /\ ~qtd.done /\ dev.first = Empty
               /\ toggle["out"] = qtd.toggle
            \/ qtd.packets = 1 /\ ~qtd.done /\ dev.first = tx_buffer
            \/ qtd.packets = 0 /\ qtd.done /\ dev.first = Empty
    ELSE toggle["out"] = dev.toggle["out"] /\ dev.first = Empty

(* Those of the confirmations always do. *)
MsgFlow ==
  "msg" \notin torn =>
    IF Busy("msg")
    THEN qtd.toggle = dev.toggle["msg"] /\ (~qtd.done => toggle["msg"] = qtd.toggle)
    ELSE toggle["msg"] = dev.toggle["msg"]

(* Those of the received frames do where a frame begins.  Within one they    *)
(* may differ only for a transfer that did not see it begin, and only as     *)
(* long as that transfer has taken nothing.                                  *)
InFlow ==
  "in" \notin torn =>
    IF Busy("in")
    THEN /\ qtd.done => qtd.toggle = dev.toggle["in"] /\ dev.left = 0
         /\ ~qtd.done /\ dev.left = 0 =>
              qtd.toggle = dev.toggle["in"] /\ toggle["in"] = qtd.toggle /\ ~qtd.met /\ ~qtd.begun
         /\ ~qtd.done /\ dev.left > 0 =>
              /\ qtd.met = qtd.begun
              /\ qtd.toggle # dev.toggle["in"] => toggle["in"] = qtd.toggle /\ ~qtd.begun
    ELSE dev.left = 0 => toggle["in"] = dev.toggle["in"]

(* An error is known, and the flag of a thread is that of its last transfer. *)
ErrorsKnown == usb_lock # Unlocked /\ qtd.error => qtd.ep \in torn

One(b) == IF b THEN 1 ELSE 0

SentOk == \E t \in Threads : io[t].pc = "sent" /\ io[t].ok

(* What was moved and is not counted yet is in the descriptor. *)
FramesCounted ==
  /\ "in" \notin torn => tally.got + One(Busy("in") /\ qtd.done /\ qtd.begun) = dev.handed
  /\ torn \cap {"msg", "out"} = {} =>
       tally.confirmed + dev.confirm + One(Busy("msg") /\ qtd.done)
         = tally.sent + One(SentOk) + One(Busy("out") /\ qtd.done)

(* The inductive invariant. *)
TransferInv ==
  /\ IoTypes /\ ChipTypes /\ LocksHeld
  /\ OutFlow /\ InFlow /\ MsgFlow /\ ErrorsKnown /\ FramesCounted /\ FramesWhole
-----------------------------------------------------------------------------
(* Two threads are never in the middle of a frame, or of a transfer. *)
LEMMA OneBuilds ==
  ASSUME LocksHeld, NEW t \in Threads, NEW u \in Threads
  PROVE  /\ io[t].pc \in Building /\ io[u].pc \in Building => t = u
         /\ io[t].pc \in OnUsb /\ io[u].pc \in OnUsb => t = u
BY DEF LocksHeld

(* The descriptor of a transfer is that of the thread's step. *)
LEMMA WhoSends ==
  ASSUME IoTypes, LocksHeld, NEW t \in Threads, usb_lock = t
  PROVE  /\ (io[t].pc = "sending") = (qtd.ep = "out")
         /\ (io[t].pc = "receiving") = (qtd.ep = "in")
         /\ (io[t].pc = "message") = (qtd.ep = "msg")
         /\ io[t].pc \in OnUsb /\ t # Unlocked
BY DEF IoTypes, LocksHeld, OnUsb, Threads, Senders, Unlocked

(* A step of the thread t from one position to another. *)
Goes(t, from, to) ==
  /\ io' \in [Threads -> [pc : IoSteps, ok : BOOLEAN, frames : Nat]]
  /\ io[t].pc = from /\ io'[t].pc = to /\ io'[t].ok = io[t].ok
  /\ \A u \in Threads : u # t => io'[u] = io[u]

LEMMA GoIoGoes ==
  ASSUME IoTypes, NEW t \in Threads, NEW p, NEW q \in IoSteps, InIo(t, p), GoIo(t, q)
  PROVE  Goes(t, p, q)
BY DEF IoTypes, InIo, GoIo, Goes

(* What leaves the transfer alone leaves the flows alone. *)
LEMMA FlowsKeep ==
  ASSUME TransferInv, UNCHANGED <<usb_lock, qtd, toggle, dev, torn>>,
         Busy("out") => UNCHANGED tx_buffer
  PROVE  ChipTypes' /\ OutFlow' /\ InFlow' /\ MsgFlow' /\ ErrorsKnown' /\ FramesWhole'
<1>1. \A ep : Busy(ep)' <=> Busy(ep)
  BY DEF Busy
<1>2. ChipTypes' /\ FramesWhole' /\ ErrorsKnown'
  BY DEF TransferInv, ChipTypes, FramesWhole, ErrorsKnown
<1>3. InFlow' /\ MsgFlow'
  BY <1>1 DEF TransferInv, InFlow, MsgFlow
<1>4. OutFlow'
  BY <1>1 DEF TransferInv, OutFlow
<1> QED
  BY <1>2, <1>3, <1>4

(* A step away from the transfer, by locks and counters. *)
Apart(t, from, to) ==
  /\ Goes(t, from, to) /\ from \notin OnUsb /\ to \notin OnUsb
  /\ UNCHANGED <<usb_lock, qtd, toggle, dev, torn>>

LEMMA ApartKeeps ==
  ASSUME TransferInv, NEW t \in Threads, NEW p, NEW q, Apart(t, p, q),
         p # "sent", q # "sent", UNCHANGED tally,
         tx_lock' \in {tx_lock, t}, tx_buffer' \in FrameBuffers,
         tx_lock' = t <=> q \in Building,
         tx_lock # t /\ tx_lock' = t => tx_lock = Unlocked,
         tx_buffer' # tx_buffer => tx_lock' = t,
         q = "usb" => tx_buffer'.whole
  PROVE  TransferInv'
<1>1. IoTypes'
  BY DEF TransferInv, IoTypes, Apart, Goes
<1>2. LocksHeld'
  <2>1. ASSUME NEW u \in Threads, u # t
        PROVE  /\ tx_lock' = u <=> tx_lock = u
               /\ tx_lock = u => tx_buffer' = tx_buffer
    BY <2>1 DEF TransferInv, LocksHeld, Apart, Goes, Threads, Senders, Unlocked
  <2>2. ASSUME NEW u \in Threads, u # t
        PROVE  /\ tx_lock' = u <=> io'[u].pc \in Building
               /\ usb_lock' = u <=> io'[u].pc \in OnUsb
               /\ io'[u].pc \in {"usb", "sending", "sent"} => tx_buffer'.whole
               /\ io'[u].pc = "sending" => qtd'.ep = "out"
               /\ io'[u].pc = "receiving" => qtd'.ep = "in"
               /\ io'[u].pc = "message" => qtd'.ep = "msg"
    BY <2>1, <2>2 DEF TransferInv, LocksHeld, Apart, Goes, Building
  <2>3. /\ usb_lock' = t <=> io'[t].pc \in OnUsb
        /\ io'[t].pc \in {"usb", "sending", "sent"} => tx_buffer'.whole
        /\ io'[t].pc \notin {"sending", "receiving", "message"}
    BY DEF TransferInv, LocksHeld, Apart, Goes, OnUsb
  <2>4. tx_lock' = t <=> io'[t].pc \in Building
    BY DEF Apart, Goes
  <2> QED
    BY <2>2, <2>3, <2>4 DEF LocksHeld
<1>3. Busy("out") => UNCHANGED tx_buffer
  <2>1. SUFFICES ASSUME Busy("out"), tx_buffer' # tx_buffer PROVE FALSE
    OBVIOUS
  <2>2. PICK u \in Threads : usb_lock = u
    BY <2>1 DEF Busy, TransferInv, IoTypes
  <2>3. io[u].pc = "sending" /\ u # t
    BY <2>1, <2>2, WhoSends DEF Busy, TransferInv, Apart, Goes, OnUsb
  <2>4. tx_lock = u
    BY <2>3 DEF TransferInv, LocksHeld, Building
  <2> QED
    BY <2>1, <2>3, <2>4 DEF Threads, Senders, Unlocked
<1>4. ChipTypes' /\ OutFlow' /\ InFlow' /\ MsgFlow' /\ ErrorsKnown' /\ FramesWhole'
  BY <1>3, FlowsKeep DEF Apart
<1>5. FramesCounted'
  <2>1. SentOk' <=> SentOk
    BY DEF SentOk, Apart, Goes
  <2>2. \A ep : Busy(ep)' <=> Busy(ep)
    BY DEF Busy, Apart
  <2> QED
    BY <2>1, <2>2 DEF TransferInv, FramesCounted, Apart
<1> QED
  BY <1>1, <1>2, <1>4, <1>5 DEF TransferInv
-----------------------------------------------------------------------------
(* The steps of a sender and of the receive thread between the transfers.    *)
LEMMA BeginFrameKeeps == ASSUME TransferInv, NEW t \in Threads, SendBegin(t) PROVE TransferInv'
<1>1. Apart(t, "idle", "tx_lock")
  BY DEF SendBegin, TransferInv, IoTypes, IoSteps, OnUsb, InIo, Goes, Apart
<1>2. tx_lock # t
  BY <1>1 DEF TransferInv, LocksHeld, Apart, Goes, Building
<1> QED
  BY <1>1, <1>2, ApartKeeps DEF SendBegin, Building, TransferInv, IoTypes

LEMMA TakeKeeps == ASSUME TransferInv, NEW t \in Threads, TakeTxLock(t) PROVE TransferInv'
<1>1. Apart(t, "tx_lock", "descriptor")
  BY GoIoGoes DEF TakeTxLock, TransferInv, IoSteps, Building, OnUsb, Apart
<1>2. tx_buffer' \in FrameBuffers
  BY DEF TakeTxLock, FrameBuffers
<1> QED
  BY <1>1, <1>2, ApartKeeps DEF TakeTxLock, Building

LEMMA PayloadKeeps == ASSUME TransferInv, NEW t \in Threads, Payload(t) PROVE TransferInv'
<1>1. Apart(t, "descriptor", "usb")
  BY GoIoGoes DEF Payload, TransferInv, IoSteps, Building, OnUsb, Apart
<1>2. tx_lock = t /\ tx_lock' = t
  BY <1>1 DEF TransferInv, LocksHeld, Apart, Goes, Building, Payload
<1>3. tx_buffer' \in FrameBuffers /\ tx_buffer'.whole
  BY DEF Payload, FrameBuffers, TransferInv, IoTypes
<1> QED
  BY <1>1, <1>2, <1>3, ApartKeeps DEF Payload, Building

LEMMA IdlesKeep ==
  ASSUME TransferInv, NoMessage \/ LeaveToSender \/ net_receive
  PROVE  TransferInv'
<1>1. "rx" \in Threads
  BY DEF Threads
<1>2. PICK p \in {"idle", "receive", "net_lock"}, q \in {"idle", "receive", "tx_lock"} :
        InIo("rx", p) /\ GoIo("rx", q)
  BY DEF NoMessage, LeaveToSender, net_receive
<1>3. Apart("rx", p, q)
  BY <1>1, <1>2, GoIoGoes DEF NoMessage, LeaveToSender, net_receive, TransferInv, IoSteps, OnUsb, Apart
<1>4. UNCHANGED <<tx_lock, tx_buffer, tally>> /\ tx_lock # "rx"
  BY <1>1, <1>2, <1>3 DEF NoMessage, LeaveToSender, net_receive, TransferInv, LocksHeld,
       Apart, Goes, Building
<1> QED
  BY <1>1, <1>3, <1>4, ApartKeeps DEF Building, TransferInv, IoTypes

(* The only frame that is sent is then counted. *)
LEMMA ReturnKeeps == ASSUME TransferInv, NEW t \in Threads, SendReturn(t) PROVE TransferInv'
<1>1. /\ Apart(t, "sent", "idle") /\ tx_lock' = Unlocked /\ UNCHANGED tx_buffer
      /\ tally' = [tally EXCEPT !.sent = @ + (IF io[t].ok THEN 1 ELSE 0)]
  BY GoIoGoes DEF SendReturn, TransferInv, IoSteps, OnUsb, Apart
<1>2. tx_lock = t /\ \A u \in Threads : io[u].pc \in Building => u = t
  BY <1>1 DEF TransferInv, LocksHeld, Apart, Goes, Building
<1>3. IoTypes'
  BY <1>1 DEF TransferInv, IoTypes, Apart, Goes
<1>4. LocksHeld'
  BY <1>1, <1>2 DEF TransferInv, LocksHeld, Apart, Goes, Building, OnUsb, Threads, Senders, Unlocked
<1>5. ChipTypes' /\ OutFlow' /\ InFlow' /\ MsgFlow' /\ ErrorsKnown' /\ FramesWhole'
  BY <1>1, FlowsKeep DEF Apart
<1>6. FramesCounted'
  <2>1. SentOk <=> io[t].ok
    BY <1>1, <1>2 DEF SentOk, Building, Apart, Goes
  <2>2. ~SentOk'
    BY <1>1, <1>2 DEF SentOk, Building, Apart, Goes
  <2>3. \A ep : Busy(ep)' <=> Busy(ep)
    BY <1>1 DEF Busy, Apart
  <2>4. /\ tally'.sent = tally.sent + One(SentOk) /\ One(SentOk') = 0
        /\ tally'.got = tally.got /\ tally'.confirmed = tally.confirmed /\ tally.sent \in Nat
        /\ One(SentOk) \in Nat
    BY <1>1, <2>1, <2>2 DEF TransferInv, IoTypes, One
  <2>5. UNCHANGED <<dev, torn, qtd, usb_lock>>
    BY <1>1 DEF Apart
  <2> QED
    BY <2>3, <2>4, <2>5 DEF TransferInv, FramesCounted, One
<1> QED
  BY <1>3, <1>4, <1>5, <1>6 DEF TransferInv
-----------------------------------------------------------------------------
(* A transfer begins. *)
LEMMA SetupKeeps ==
  ASSUME TransferInv, NEW t \in Threads, NEW ep \in Endpoints, NEW p \in IoSteps,
         NEW q \in OnUsb, bulk_setup(t, ep),
         io' \in [Threads -> [pc : IoSteps, ok : BOOLEAN, frames : Nat]],
         io[t].pc = p, io'[t].pc = q, io'[t].ok = io[t].ok,
         \A u \in Threads : u # t => io'[u] = io[u],
         p \notin OnUsb \cup {"sent"}, p \in Building <=> q = "sending",
         q = "sending" => p = "usb",
         q = "sending" <=> ep = "out", q = "receiving" <=> ep = "in", q = "message" <=> ep = "msg"
  PROVE  TransferInv'
<1>1. /\ usb_lock = Unlocked /\ usb_lock' = t /\ t # Unlocked
      /\ qtd' = Descriptor(ep, toggle[ep], IF ep = "out" THEN 2 ELSE 1, FALSE)
      /\ UNCHANGED <<tx_lock, tx_buffer, toggle, dev, tally, torn>>
  BY DEF bulk_setup, Threads, Senders, Unlocked
<1>2. /\ qtd'.ep = ep /\ qtd'.toggle = toggle[ep] /\ ~qtd'.done /\ (ep = "out" => qtd'.packets = 2)
      /\ ~qtd'.met /\ ~qtd'.begun /\ ~qtd'.error
  BY <1>1 DEF Descriptor
<1>3. toggle[ep] \in {0, 1} /\ qtd' \in Descriptors
  <2>1. toggle[ep] \in {0, 1} /\ (IF ep = "out" THEN 2 ELSE 1) \in 0 .. 2
    BY DEF TransferInv, ChipTypes
  <2> QED
    BY <1>1, <2>1 DEF Descriptor, Descriptors
<1>4. IoTypes'
  BY <1>1 DEF TransferInv, IoTypes
<1>5. ChipTypes' /\ ErrorsKnown'
  BY <1>1, <1>2, <1>3 DEF TransferInv, ChipTypes, ErrorsKnown
<1>6. \A e : ~Busy(e) /\ (Busy(e)' <=> e = ep)
  BY <1>1, <1>2 DEF Busy
<1>7. LocksHeld'
  <2>1. ASSUME NEW u \in Threads, u # t
        PROVE  /\ tx_lock' = u <=> io'[u].pc \in Building
               /\ usb_lock' = u <=> io'[u].pc \in OnUsb
               /\ io'[u].pc \in {"usb", "sending", "sent"} => tx_buffer'.whole
               /\ io'[u].pc \notin {"sending", "receiving", "message"}
    BY <1>1, <2>1 DEF TransferInv, LocksHeld, OnUsb, Threads, Senders, Unlocked
  <2>2. /\ tx_lock' = t <=> io'[t].pc \in Building
        /\ usb_lock' = t <=> io'[t].pc \in OnUsb
        /\ io'[t].pc \in {"usb", "sending", "sent"} => tx_buffer'.whole
        /\ io'[t].pc = "sending" => qtd'.ep = "out"
        /\ io'[t].pc = "receiving" => qtd'.ep = "in"
        /\ io'[t].pc = "message" => qtd'.ep = "msg"
    BY <1>1, <1>2 DEF TransferInv, LocksHeld, OnUsb, Building
  <2> QED
    BY <2>1, <2>2 DEF LocksHeld
<1>8. OutFlow'
  BY <1>1, <1>2, <1>6 DEF TransferInv, OutFlow
<1>9. InFlow' /\ MsgFlow'
  <2>1. InFlow'
    BY <1>1, <1>2, <1>3, <1>6 DEF TransferInv, InFlow, Descriptors
  <2>2. MsgFlow'
    BY <1>1, <1>2, <1>6 DEF TransferInv, MsgFlow
  <2> QED
    BY <2>1, <2>2
<1>10. FramesCounted'
  <2>1. SentOk' <=> SentOk
    BY DEF SentOk, OnUsb
  <2> QED
    BY <1>1, <1>2, <1>6, <2>1 DEF TransferInv, FramesCounted, One
<1>11. FramesWhole'
  BY <1>1 DEF TransferInv, FramesWhole
<1> QED
  BY <1>4, <1>5, <1>7, <1>8, <1>9, <1>10, <1>11 DEF TransferInv

LEMMA SetupsKeep ==
  ASSUME TransferInv, (\E t \in Threads : SendSetup(t)) \/ MessageSetup \/ ReceiveSetup
  PROVE  TransferInv'
<1>1. ASSUME NEW t \in Threads, SendSetup(t) PROVE TransferInv'
  <2>1. Goes(t, "usb", "sending") /\ bulk_setup(t, "out")
    BY <1>1, GoIoGoes DEF SendSetup, TransferInv, IoSteps, Building
  <2> QED
    BY <2>1, SetupKeeps DEF Goes, Endpoints, IoSteps, Building, OnUsb
<1>2. CASE MessageSetup
  <2>1. "rx" \in Threads
    BY DEF Threads
  <2>2. Goes("rx", "idle", "message") /\ bulk_setup("rx", "msg")
    <3>1. io \in [Threads -> [pc : IoSteps, ok : BOOLEAN, frames : Nat]] /\ tally.sent \in Nat
      BY DEF TransferInv, IoTypes
    <3>2. (IF tally.confirmed < tally.sent THEN io["rx"].frames ELSE io["rx"].frames - 1) \in Nat
      BY <1>2, <2>1, <3>1 DEF MessageSetup
    <3>3. "message" \in IoSteps
      BY DEF IoSteps, OnUsb
    <3> QED
      BY <1>2, <2>1, <3>1, <3>2, <3>3 DEF MessageSetup, InIo, Goes
  <2> QED
    BY <2>1, <2>2, SetupKeeps DEF Goes, Endpoints, IoSteps, Building, OnUsb
<1>3. CASE ReceiveSetup
  <2>1. "rx" \in Threads
    BY DEF Threads
  <2>2. Goes("rx", "receive", "receiving") /\ bulk_setup("rx", "in")
    BY <1>3, <2>1, GoIoGoes DEF ReceiveSetup, TransferInv, IoSteps, OnUsb
  <2> QED
    BY <2>1, <2>2, SetupKeeps DEF Goes, Endpoints, IoSteps, Building, OnUsb
<1> QED
  BY <1>1, <1>2, <1>3
-----------------------------------------------------------------------------
(* The counter of what a transfer moved. *)
Tallied ==
  /\ tally' \in [sent : Nat, confirmed : Nat, got : Nat] /\ tally'.sent = tally.sent
  /\ tally'.got = tally.got + One(qtd.done /\ ~qtd.error /\ qtd.begun)
  /\ tally'.confirmed = tally.confirmed + One(qtd.done /\ ~qtd.error /\ qtd.ep = "msg")

(* A transfer ends, with its data or without. *)
Ends(t, done, failed) ==
  LET good == qtd.done /\ ~qtd.error
  IN /\ usb_lock = t /\ usb_lock' = Unlocked /\ qtd' = NoTransfer
     /\ io' = [io EXCEPT ![t].pc = IF good THEN done ELSE failed, ![t].ok = good /\ qtd.ep = "out"]
     /\ toggle' = IF good THEN [toggle EXCEPT ![qtd.ep] = qtd.toggle] ELSE toggle
     /\ torn' = IF qtd.ep = "out" /\ ~qtd.done /\ qtd.packets = 1 THEN torn \cup {"out"} ELSE torn
     /\ UNCHANGED <<tx_lock, tx_buffer, dev>> /\ Tallied

LEMMA EndIs ==
  ASSUME TransferInv, NEW t \in Threads, NEW done \in IoSteps, NEW failed \in IoSteps,
         bulk_timeout(t, done, failed)
  PROVE  Ends(t, done, failed)
<1>. DEFINE good == qtd.done /\ ~qtd.error
<1>1. PICK seen \in BOOLEAN :
        tally' = CASE good /\ qtd.begun      -> [tally EXCEPT !.got = @ + 1]
                   [] good /\ qtd.ep = "msg" -> [tally EXCEPT !.confirmed = @ + 1]
                   [] OTHER -> tally
  BY Zenon DEF bulk_timeout, Verdict
<1>2. ~(good /\ qtd.begun /\ good /\ qtd.ep = "msg")
  BY DEF TransferInv, ChipTypes
<1>3. tally \in [sent : Nat, confirmed : Nat, got : Nat]
  BY DEF TransferInv, IoTypes
<1>4. Tallied
  <2>. HIDE DEF good
  <2>1. /\ good /\ qtd.begun => tally' = [tally EXCEPT !.got = @ + 1]
        /\ good /\ qtd.ep = "msg" => tally' = [tally EXCEPT !.confirmed = @ + 1]
        /\ ~(good /\ qtd.begun) /\ ~(good /\ qtd.ep = "msg") => tally' = tally
    BY <1>1, <1>2, Zenon
  <2>2. /\ tally' \in [sent : Nat, confirmed : Nat, got : Nat] /\ tally'.sent = tally.sent
        /\ tally'.got = tally.got + One(good /\ qtd.begun)
        /\ tally'.confirmed = tally.confirmed + One(good /\ qtd.ep = "msg")
    <3>1. CASE good /\ qtd.begun
      BY <1>2, <1>3, <2>1, <3>1 DEF One
    <3>2. CASE good /\ qtd.ep = "msg"
      BY <1>2, <1>3, <2>1, <3>2 DEF One
    <3>3. CASE ~(good /\ qtd.begun) /\ ~(good /\ qtd.ep = "msg")
      BY <1>3, <2>1, <3>3 DEF One
    <3> QED
      BY <3>1, <3>2, <3>3
  <2>3. /\ One(good /\ qtd.begun) = One(qtd.done /\ ~qtd.error /\ qtd.begun)
        /\ One(good /\ qtd.ep = "msg") = One(qtd.done /\ ~qtd.error /\ qtd.ep = "msg")
    BY DEF good, One
  <2> QED
    BY <2>2, <2>3 DEF Tallied
<1>5. /\ toggle' = IF good THEN [toggle EXCEPT ![qtd.ep] = qtd.toggle] ELSE toggle
      /\ io' = [io EXCEPT ![t].pc = IF good THEN done ELSE failed, ![t].ok = good /\ qtd.ep = "out"]
  BY Zenon DEF bulk_timeout, Verdict
<1>6. /\ usb_lock = t /\ usb_lock' = Unlocked /\ qtd' = NoTransfer
      /\ torn' = IF qtd.ep = "out" /\ ~qtd.done /\ qtd.packets = 1 THEN torn \cup {"out"} ELSE torn
      /\ UNCHANGED <<tx_lock, tx_buffer, dev>>
  BY Zenon DEF bulk_timeout
<1> QED
  BY <1>4, <1>5, <1>6, Zenon DEF Ends

LEMMA NoTransferIs ==
  /\ NoTransfer \in Descriptors /\ NoTransfer.ep = "in" /\ NoTransfer.done /\ ~NoTransfer.begun
  /\ ~NoTransfer.error
<1>1. "in" \in Endpoints /\ 0 \in 0 .. 2 /\ 0 \in {0, 1}
  BY DEF Endpoints
<1> QED
  BY <1>1 DEF NoTransfer, Descriptor, Descriptors

LEMMA EndFrameKeeps ==
  ASSUME TransferInv, NEW t \in Threads, NEW done \in IoSteps, NEW failed \in IoSteps,
         bulk_timeout(t, done, failed),
         done \notin OnUsb, failed \notin OnUsb,
         io[t].pc = "sending" => done = "sent" /\ failed = "sent",
         io[t].pc # "sending" => done \notin Building /\ failed \notin Building
  PROVE  TransferInv'
<1>. DEFINE good == qtd.done /\ ~qtd.error
<1>1. /\ usb_lock = t /\ usb_lock' = Unlocked /\ qtd' = NoTransfer
      /\ UNCHANGED <<tx_lock, tx_buffer, dev>>
      /\ io' = [io EXCEPT ![t].pc = IF good THEN done ELSE failed, ![t].ok = good /\ qtd.ep = "out"]
      /\ toggle' = IF good THEN [toggle EXCEPT ![qtd.ep] = qtd.toggle] ELSE toggle
      /\ torn' = IF qtd.ep = "out" /\ ~qtd.done /\ qtd.packets = 1 THEN torn \cup {"out"} ELSE torn
      /\ Tallied
  BY EndIs, Zenon DEF Ends
<1>2. /\ (io[t].pc = "sending") = (qtd.ep = "out")
      /\ io[t].pc \in OnUsb /\ t # Unlocked
      /\ qtd.done \in BOOLEAN /\ qtd.error \in BOOLEAN /\ qtd.begun \in BOOLEAN
      /\ qtd.ep \in Endpoints /\ qtd.toggle \in {0, 1}
  BY <1>1, WhoSends DEF TransferInv, ChipTypes, Descriptors
<1>3. /\ io' \in [Threads -> [pc : IoSteps, ok : BOOLEAN, frames : Nat]]
      /\ io'[t].pc \in {done, failed} /\ io'[t].ok = (good /\ qtd.ep = "out")
      /\ \A u \in Threads : u # t => io'[u] = io[u]
  <2>1. io \in [Threads -> [pc : IoSteps, ok : BOOLEAN, frames : Nat]]
        /\ (good /\ qtd.ep = "out") \in BOOLEAN
    BY <1>2 DEF TransferInv, IoTypes
  <2>. HIDE DEF good
  <2> QED
    BY <1>1, <1>2, <2>1
<1>12. torn \subseteq torn' /\ torn' \subseteq Endpoints /\ torn' \subseteq torn \cup {"out"}
       /\ torn \subseteq Endpoints
  BY <1>1 DEF TransferInv, IoTypes, Endpoints
<1>4. IoTypes'
  BY <1>1, <1>2, <1>3, <1>12 DEF TransferInv, IoTypes, Tallied
<1>5. ChipTypes' /\ ErrorsKnown'
  <2>1. [toggle EXCEPT ![qtd.ep] = qtd.toggle] \in [Endpoints -> {0, 1}]
    BY <1>2 DEF TransferInv, ChipTypes
  <2> QED
    BY <1>1, <2>1, NoTransferIs DEF TransferInv, ChipTypes, ErrorsKnown
<1>6. \A e : (Busy(e) <=> e = qtd.ep) /\ ~Busy(e)'
  BY <1>1, <1>2 DEF Busy
<1>7. LocksHeld'
  <2>1. ASSUME NEW u \in Threads, u # t
        PROVE  /\ tx_lock' = u <=> io'[u].pc \in Building
               /\ usb_lock' # u /\ io'[u].pc \notin OnUsb
               /\ io'[u].pc \in {"usb", "sending", "sent"} => tx_buffer'.whole
    BY <1>1, <1>3, <2>1 DEF TransferInv, LocksHeld, Threads, Senders, Unlocked
  <2>2. /\ tx_lock' = t <=> io'[t].pc \in Building
        /\ usb_lock' # t /\ io'[t].pc \notin OnUsb
        /\ io'[t].pc \in {"usb", "sending", "sent"} => tx_buffer'.whole
    BY <1>1, <1>2, <1>3 DEF TransferInv, LocksHeld, OnUsb, Building
  <2> QED
    BY <2>1, <2>2 DEF LocksHeld, OnUsb
(* Where nothing failed the verdict is the completion of the transfer. *)
<1>13. qtd.ep \notin torn => (good <=> qtd.done)
  BY <1>1, <1>2 DEF TransferInv, ErrorsKnown
<1>14. toggle \in [Endpoints -> {0, 1}]
  BY DEF TransferInv, ChipTypes
<1>8. OutFlow'
  <2>1. SUFFICES ASSUME "out" \notin torn' PROVE toggle'["out"] = dev.toggle["out"] /\ dev.first = Empty
    BY <1>1, <1>6 DEF OutFlow
  <2>2. "out" \notin torn
    BY <1>12, <2>1
  <2>3. CASE qtd.ep = "out"
    <3>1. Busy("out") /\ (qtd.done \/ qtd.packets # 1)
      BY <1>1, <1>2, <1>6, <2>1, <2>3
    <3>2. /\ qtd.toggle = dev.toggle["out"] /\ dev.first = Empty
          /\ ~qtd.done => toggle["out"] = qtd.toggle
      BY <3>1, <2>2 DEF TransferInv, OutFlow
    <3>3. toggle'["out"] = IF qtd.done THEN qtd.toggle ELSE toggle["out"]
      BY <1>1, <1>13, <1>14, <2>2, <2>3 DEF Endpoints
    <3> QED
      BY <3>2, <3>3
  <2>4. CASE qtd.ep # "out"
    <3>1. toggle["out"] = dev.toggle["out"] /\ dev.first = Empty
      BY <1>6, <2>2, <2>4 DEF TransferInv, OutFlow
    <3> QED
      BY <1>1, <1>2, <1>14, <2>4, <3>1 DEF Endpoints
  <2> QED
    BY <2>3, <2>4
<1>9. MsgFlow'
  <2>1. SUFFICES ASSUME "msg" \notin torn PROVE toggle'["msg"] = dev.toggle["msg"]
    BY <1>1, <1>6, <1>12 DEF MsgFlow
  <2>2. CASE qtd.ep = "msg"
    <3>1. qtd.toggle = dev.toggle["msg"] /\ (~qtd.done => toggle["msg"] = qtd.toggle)
      BY <1>6, <2>1, <2>2 DEF TransferInv, MsgFlow
    <3>2. toggle'["msg"] = IF qtd.done THEN qtd.toggle ELSE toggle["msg"]
      BY <1>1, <1>13, <1>14, <2>1, <2>2 DEF Endpoints
    <3> QED
      BY <3>1, <3>2
  <2>3. CASE qtd.ep # "msg"
    BY <1>1, <1>2, <1>6, <1>14, <2>1, <2>3 DEF TransferInv, MsgFlow, Endpoints
  <2> QED
    BY <2>2, <2>3
<1>15. InFlow'
  <2>1. SUFFICES ASSUME "in" \notin torn, dev.left = 0 PROVE toggle'["in"] = dev.toggle["in"]
    BY <1>1, <1>6, <1>12 DEF InFlow
  <2>2. CASE qtd.ep = "in"
    <3>1. qtd.toggle = dev.toggle["in"] /\ (~qtd.done => toggle["in"] = qtd.toggle)
      BY <1>6, <2>1, <2>2 DEF TransferInv, InFlow
    <3>2. toggle'["in"] = IF qtd.done THEN qtd.toggle ELSE toggle["in"]
      BY <1>1, <1>13, <1>14, <2>1, <2>2 DEF Endpoints
    <3> QED
      BY <3>1, <3>2
  <2>3. CASE qtd.ep # "in"
    BY <1>1, <1>2, <1>6, <1>14, <2>1, <2>3 DEF TransferInv, InFlow, Endpoints
  <2> QED
    BY <2>2, <2>3
<1>10. FramesCounted'
  <2>1. \A u \in Threads : u # t => io[u].pc # "sent" \/ qtd.ep # "out"
    BY <1>2, OneBuilds DEF TransferInv, Building
  <2>2. qtd.ep = "out" => ~SentOk /\ (SentOk' <=> good)
    BY <1>1, <1>2, <1>3, <2>1 DEF SentOk, OnUsb
  <2>3. qtd.ep # "out" => (SentOk' <=> SentOk)
    BY <1>1, <1>2, <1>3 DEF SentOk, OnUsb, Building
  <2>7. /\ tally \in [sent : Nat, confirmed : Nat, got : Nat]
        /\ tally' \in [sent : Nat, confirmed : Nat, got : Nat]
        /\ dev.confirm \in Nat /\ dev.handed \in Nat
        /\ \A b \in BOOLEAN : One(b) \in Nat
    BY <1>1 DEF Tallied, TransferInv, ChipTypes, IoTypes, Chips, One
  <2>4. ~Busy("in")' /\ ~Busy("msg")' /\ ~Busy("out")'
    BY <1>6
  <2>5. "in" \notin torn' => tally'.got = dev'.handed
    <3>1. SUFFICES ASSUME "in" \notin torn PROVE tally'.got = dev.handed
      BY <1>1, <1>12
    <3>2. tally.got + One(Busy("in") /\ qtd.done /\ qtd.begun) = dev.handed
      BY <3>1 DEF TransferInv, FramesCounted
    <3>3. qtd.ep # "in" => ~qtd.begun
      BY DEF TransferInv, ChipTypes
    <3>4. (Busy("in") /\ qtd.done /\ qtd.begun) <=> (qtd.done /\ ~qtd.error /\ qtd.begun)
      BY <1>6, <1>13, <3>1, <3>3
    <3> QED
      BY <1>1, <2>7, <3>2, <3>4 DEF Tallied, One
  <2>6. torn' \cap {"msg", "out"} = {} => tally'.confirmed + dev'.confirm = tally'.sent + One(SentOk')
    <3>1. SUFFICES ASSUME "msg" \notin torn, "out" \notin torn
                   PROVE  tally'.confirmed + dev.confirm = tally.sent + One(SentOk')
      BY <1>1, <1>12 DEF Tallied
    <3>2. tally.confirmed + dev.confirm + One(Busy("msg") /\ qtd.done)
            = tally.sent + One(SentOk) + One(Busy("out") /\ qtd.done)
      BY <3>1 DEF TransferInv, FramesCounted
    <3>3. tally'.confirmed = tally.confirmed + One(qtd.done /\ ~qtd.error /\ qtd.ep = "msg")
      BY <1>1 DEF Tallied
    <3>4. CASE qtd.ep = "out"
      <4>1. good <=> qtd.done
        BY <1>13, <3>1, <3>4
      <4> QED
        BY <1>6, <2>2, <2>7, <3>2, <3>3, <3>4, <4>1 DEF One
    <3>5. CASE qtd.ep = "msg"
      <4>1. good <=> qtd.done
        BY <1>13, <3>1, <3>5
      <4>2. (qtd.done /\ ~qtd.error /\ qtd.ep = "msg") <=> (Busy("msg") /\ qtd.done)
        BY <1>6, <3>5, <4>1
      <4>3. One(Busy("out") /\ qtd.done) = 0 /\ One(SentOk') = One(SentOk)
        BY <1>6, <2>3, <3>5 DEF One
      <4> QED
        BY <2>7, <3>2, <3>3, <4>2, <4>3 DEF One
    <3>6. CASE qtd.ep \notin {"out", "msg"}
      <4>1. /\ One(Busy("out") /\ qtd.done) = 0 /\ One(Busy("msg") /\ qtd.done) = 0
            /\ One(SentOk') = One(SentOk) /\ One(qtd.done /\ ~qtd.error /\ qtd.ep = "msg") = 0
        BY <1>6, <2>3, <3>6 DEF One
      <4> QED
        BY <2>7, <3>2, <3>3, <4>1 DEF One
    <3> QED
      BY <3>4, <3>5, <3>6
  <2>8. dev'.handed = dev.handed /\ dev'.confirm = dev.confirm
    BY <1>1
  <2> QED
    BY <2>4, <2>5, <2>6, <2>7, <2>8 DEF FramesCounted, One
<1>11. FramesWhole'
  BY <1>1, <1>12 DEF TransferInv, FramesWhole
<1> QED
  BY <1>4, <1>5, <1>7, <1>8, <1>9, <1>10, <1>11, <1>15 DEF TransferInv

LEMMA EndsKeep ==
  ASSUME TransferInv, (\E t \in Threads : SendEnds(t)) \/ message_ends \/ data_receive_timeout
  PROVE  TransferInv'
<1>1. ASSUME NEW t \in Threads, SendEnds(t) PROVE TransferInv'
  BY <1>1, EndFrameKeeps DEF SendEnds, InIo, IoSteps, Building, OnUsb
<1>2. CASE message_ends
  BY <1>2, EndFrameKeeps DEF message_ends, InIo, IoSteps, Building, OnUsb, Threads
<1>3. CASE data_receive_timeout
  <2>1. PICK next \in {"net_lock", "idle"} : bulk_timeout("rx", next, "idle") /\ io["rx"].pc = "receiving"
    BY <1>3 DEF data_receive_timeout, InIo
  <2> QED
    BY <2>1, EndFrameKeeps DEF IoSteps, Building, OnUsb, Threads
<1> QED
  BY <1>1, <1>2, <1>3
-----------------------------------------------------------------------------
(* The controller and the chip. *)
LEMMA FramesArriveKeeps == ASSUME TransferInv, FrameArrives PROVE TransferInv'
<1>1. dev' = [dev EXCEPT !.coming = @ - 1, !.arrived = @ + 1] /\ dev.coming > 0
  BY DEF FrameArrives
<1>2. UNCHANGED <<tx_lock, usb_lock, tx_buffer, qtd, toggle, io, tally, torn>>
  BY DEF FrameArrives
<1>3. /\ dev'.toggle = dev.toggle /\ dev'.first = dev.first /\ dev'.frame = dev.frame
      /\ dev'.confirm = dev.confirm /\ dev'.handed = dev.handed /\ dev'.left = dev.left
  BY <1>1 DEF TransferInv, ChipTypes, Chips
<1>4. IoTypes' /\ LocksHeld'
  BY <1>2 DEF TransferInv, IoTypes, LocksHeld
<1>5. ChipTypes' /\ ErrorsKnown'
  <2>1. dev \in Chips /\ dev.coming - 1 \in Nat /\ dev.arrived + 1 \in Nat
    BY <1>1 DEF TransferInv, ChipTypes, Chips
  <2>2. dev' \in Chips
    BY <1>1, <2>1 DEF Chips
  <2> QED
    BY <1>2, <2>2 DEF TransferInv, ChipTypes, ErrorsKnown
<1>6. OutFlow' /\ InFlow' /\ MsgFlow' /\ FramesWhole'
  <2>1. \A ep : Busy(ep)' <=> Busy(ep)
    BY <1>2 DEF Busy
  <2>2. OutFlow' /\ FramesWhole'
    BY <1>2, <1>3, <2>1 DEF TransferInv, OutFlow, FramesWhole
  <2>3. InFlow'
    BY <1>2, <1>3, <2>1 DEF TransferInv, InFlow
  <2>4. MsgFlow'
    BY <1>2, <1>3, <2>1 DEF TransferInv, MsgFlow
  <2> QED
    BY <2>2, <2>3, <2>4
<1>7. FramesCounted'
  BY <1>2, <1>3 DEF TransferInv, FramesCounted, Busy, SentOk
<1> QED
  BY <1>4, <1>5, <1>6, <1>7 DEF TransferInv

(* Nothing is promised of an endpoint with a failed transaction. *)
LEMMA PacketFailsKeeps == ASSUME TransferInv, PacketFails PROVE TransferInv'
<1>1. PICK halted \in BOOLEAN : qtd' = [qtd EXCEPT !.error = TRUE, !.done = halted]
  BY Zenon DEF PacketFails
<1>2. /\ usb_lock # Unlocked /\ ~qtd.done /\ torn' = torn \cup {qtd.ep}
      /\ UNCHANGED <<tx_lock, usb_lock, tx_buffer, toggle, dev, io, tally>>
  BY DEF PacketFails
<1>3. /\ qtd \in Descriptors /\ qtd' \in Descriptors /\ qtd'.ep = qtd.ep
      /\ qtd'.toggle = qtd.toggle /\ qtd'.packets = qtd.packets
      /\ qtd'.met = qtd.met /\ qtd'.begun = qtd.begun
  <2>1. qtd \in Descriptors
    BY DEF TransferInv, ChipTypes
  <2> QED
    BY <1>1, <2>1 DEF Descriptors
<1>4. /\ \A ep : Busy(ep)' <=> Busy(ep)
      /\ \A ep : ep \notin torn' => ep \notin torn /\ ~Busy(ep)
  BY <1>2, <1>3 DEF Busy
<1>5. IoTypes' /\ LocksHeld'
  BY <1>2, <1>3 DEF TransferInv, IoTypes, LocksHeld, Descriptors
<1>6. ChipTypes' /\ ErrorsKnown'
  BY <1>2, <1>3 DEF TransferInv, ChipTypes, ErrorsKnown
<1>7. OutFlow' /\ InFlow' /\ MsgFlow' /\ FramesWhole'
  BY <1>2, <1>4 DEF TransferInv, OutFlow, InFlow, MsgFlow, FramesWhole
<1>8. FramesCounted'
  <2>1. SentOk' <=> SentOk
    BY <1>2 DEF SentOk
  <2>2. "in" \notin torn' => tally'.got + One(Busy("in")' /\ qtd'.done /\ qtd'.begun) = dev'.handed
    <3>1. SUFFICES ASSUME "in" \notin torn'
                   PROVE  tally.got + One(Busy("in")' /\ qtd'.done /\ qtd'.begun) = dev.handed
      BY <1>2
    <3>2. "in" \notin torn /\ ~Busy("in") /\ ~Busy("in")'
      BY <1>4, <3>1
    <3>3. tally.got + One(Busy("in") /\ qtd.done /\ qtd.begun) = dev.handed
      BY <3>2 DEF TransferInv, FramesCounted
    <3> QED
      BY <3>2, <3>3 DEF One
  <2>3. torn' \cap {"msg", "out"} = {} =>
          tally'.confirmed + dev'.confirm + One(Busy("msg")' /\ qtd'.done)
            = tally'.sent + One(SentOk') + One(Busy("out")' /\ qtd'.done)
    <3>1. SUFFICES ASSUME torn' \cap {"msg", "out"} = {}
                   PROVE  tally.confirmed + dev.confirm + One(Busy("msg")' /\ qtd'.done)
                            = tally.sent + One(SentOk') + One(Busy("out")' /\ qtd'.done)
      BY <1>2
    <3>2. /\ "msg" \notin torn /\ ~Busy("msg") /\ ~Busy("msg")'
          /\ "out" \notin torn /\ ~Busy("out") /\ ~Busy("out")'
      BY <1>4, <3>1
    <3>3. tally.confirmed + dev.confirm + One(Busy("msg") /\ qtd.done)
            = tally.sent + One(SentOk) + One(Busy("out") /\ qtd.done)
      BY <3>2 DEF TransferInv, FramesCounted
    <3> QED
      BY <2>1, <3>2, <3>3 DEF One
  <2> QED
    BY <2>2, <2>3 DEF FramesCounted
<1> QED
  BY <1>5, <1>6, <1>7, <1>8 DEF TransferInv
-----------------------------------------------------------------------------
(* What a step of the IN endpoints leaves alone. *)
InStep ==
  /\ usb_lock # Unlocked /\ ~qtd.done /\ qtd.ep \in {"in", "msg"}
  /\ UNCHANGED <<tx_lock, usb_lock, tx_buffer, toggle, io, tally, torn>>
  /\ qtd' \in Descriptors /\ qtd'.ep = qtd.ep /\ qtd'.error = qtd.error
  /\ dev' \in Chips /\ dev'.toggle["out"] = dev.toggle["out"]
  /\ dev'.first = dev.first /\ dev'.frame = dev.frame

LEMMA InStepKeeps ==
  ASSUME TransferInv, InStep
  PROVE  /\ IoTypes' /\ LocksHeld' /\ OutFlow' /\ ErrorsKnown' /\ FramesWhole'
         /\ \A e : (Busy(e) <=> e = qtd.ep) /\ (Busy(e)' <=> e = qtd.ep)
         /\ SentOk' <=> SentOk
<1>1. \A e : (Busy(e) <=> e = qtd.ep) /\ (Busy(e)' <=> e = qtd.ep)
  BY DEF InStep, Busy
<1>2. IoTypes' /\ LocksHeld' /\ ErrorsKnown' /\ FramesWhole'
  BY DEF InStep, TransferInv, IoTypes, LocksHeld, ErrorsKnown, FramesWhole
<1>3. OutFlow'
  BY <1>1 DEF InStep, TransferInv, OutFlow
<1>4. SentOk' <=> SentOk
  BY DEF InStep, SentOk
<1> QED
  BY <1>1, <1>2, <1>3, <1>4

LEMMA FrameInKeeps ==
  ASSUME TransferInv, PacketIn, qtd.ep = "in"
  PROVE  TransferInv'
<1>1. PICK length \in 1 .. InPackets : FrameIn(length)
  BY DEF PacketIn
<1>. DEFINE begins == dev.left = 0
            met == begins \/ qtd.met
            kept == qtd.toggle = dev.toggle["in"]
            last_one == length = 1
            bits == [dev.toggle EXCEPT !["in"] = 1 - @]
<1>2. /\ IF begins THEN dev.arrived > 0 ELSE length = dev.left
      /\ qtd' = IF kept THEN [qtd EXCEPT !.toggle = 1 - @, !.done = last_one,
                                         !.met = met, !.begun = begins \/ @]
                ELSE [qtd EXCEPT !.met = met]
      /\ dev' = [dev EXCEPT !.toggle["in"] = 1 - @, !.left = length - 1,
                            !.arrived = IF begins THEN @ - 1 ELSE @,
                            !.handed = IF last_one /\ met THEN @ + 1 ELSE @]
  BY <1>1 DEF FrameIn
<1>3. /\ qtd \in Descriptors /\ dev \in Chips /\ dev.toggle \in [Endpoints -> {0, 1}]
      /\ toggle \in [Endpoints -> {0, 1}] /\ "in" \in Endpoints /\ "msg" \in Endpoints
      /\ length \in Nat /\ length > 0 /\ length - 1 \in 0 .. InPackets
  BY TransferAssumption DEF TransferInv, ChipTypes, Chips, Endpoints
<1>4. /\ begins \in BOOLEAN /\ met \in BOOLEAN /\ kept \in BOOLEAN /\ last_one \in BOOLEAN
      /\ qtd.done \in BOOLEAN /\ qtd.met \in BOOLEAN /\ qtd.begun \in BOOLEAN
      /\ dev.left \in Nat /\ dev.arrived \in Nat /\ dev.handed \in Nat /\ dev.confirm \in Nat
      /\ qtd.toggle \in {0, 1}
  BY <1>3, TransferAssumption DEF Descriptors, Chips
<1>5. /\ qtd' \in Descriptors /\ qtd'.ep = qtd.ep /\ qtd'.error = qtd.error
      /\ qtd'.met = met
      /\ kept => /\ qtd'.toggle = 1 - qtd.toggle /\ qtd'.done = last_one
                 /\ qtd'.begun = (begins \/ qtd.begun)
      /\ ~kept => qtd'.toggle = qtd.toggle /\ ~qtd'.done /\ qtd'.begun = qtd.begun
  <2>1. 1 - qtd.toggle \in {0, 1} /\ (begins \/ qtd.begun) \in BOOLEAN
    BY <1>4
  <2>2. ~qtd.done
    BY DEF PacketIn
  <2>. HIDE DEF begins, met, kept, last_one
  <2>3. CASE kept
    <3>1. qtd' = [qtd EXCEPT !.toggle = 1 - @, !.done = last_one, !.met = met, !.begun = begins \/ @]
      BY <1>2, <2>3
    <3> QED
      BY <1>3, <1>4, <2>1, <2>3, <3>1 DEF Descriptors
  <2>4. CASE ~kept
    <3>1. qtd' = [qtd EXCEPT !.met = met]
      BY <1>2, <2>4
    <3> QED
      BY <1>3, <1>4, <2>2, <2>4, <3>1 DEF Descriptors
  <2> QED
    BY <2>3, <2>4
<1>6. /\ dev' \in Chips /\ dev'.toggle = bits /\ dev'.left = length - 1
      /\ dev'.handed = (IF last_one /\ met THEN dev.handed + 1 ELSE dev.handed)
      /\ dev'.first = dev.first /\ dev'.frame = dev.frame /\ dev'.confirm = dev.confirm
  <2>1. bits \in [Endpoints -> {0, 1}]
    BY <1>3
  <2>2. length - 1 \in 0 .. InPackets /\ (IF begins THEN dev.arrived - 1 ELSE dev.arrived) \in Nat
        /\ (IF last_one /\ met THEN dev.handed + 1 ELSE dev.handed) \in Nat
    BY <1>2, <1>3, <1>4
  <2>3. dev' = [dev EXCEPT !.toggle = bits, !.left = length - 1,
                           !.arrived = IF begins THEN @ - 1 ELSE @,
                           !.handed = IF last_one /\ met THEN @ + 1 ELSE @]
    BY <1>2, <1>3 DEF Chips
  <2>. HIDE DEF begins, met, kept, last_one, bits
  <2> QED
    BY <1>3, <1>4, <2>1, <2>2, <2>3 DEF Chips
<1>7. /\ bits["in"] = 1 - dev.toggle["in"] /\ bits["msg"] = dev.toggle["msg"]
      /\ bits["out"] = dev.toggle["out"]
  BY <1>3 DEF Endpoints
<1>. HIDE DEF bits
<1>8. InStep
  BY <1>5, <1>6, <1>7 DEF PacketIn, InStep
<1>9. /\ IoTypes' /\ LocksHeld' /\ OutFlow' /\ ErrorsKnown' /\ FramesWhole'
      /\ \A e : (Busy(e) <=> e = "in") /\ (Busy(e)' <=> e = "in")
      /\ SentOk' <=> SentOk
  BY <1>8, InStepKeeps
<1>10. ChipTypes'
  BY <1>5, <1>6, <1>8 DEF InStep, TransferInv, ChipTypes
<1>11. MsgFlow'
  BY <1>6, <1>7, <1>8, <1>9 DEF InStep, TransferInv, MsgFlow
<1>12. ASSUME "in" \notin torn
       PROVE  /\ begins => kept /\ toggle["in"] = qtd.toggle /\ ~qtd.met /\ ~qtd.begun
              /\ ~begins => /\ qtd.met = qtd.begun
                            /\ ~kept => toggle["in"] = qtd.toggle /\ ~qtd.begun
  BY <1>4, <1>8, <1>9, <1>12 DEF TransferInv, InFlow, InStep
<1>13. InFlow'
  <2>1. SUFFICES ASSUME "in" \notin torn
                 PROVE  /\ qtd'.done => qtd'.toggle = dev'.toggle["in"] /\ dev'.left = 0
                        /\ ~qtd'.done /\ dev'.left = 0 =>
                             /\ qtd'.toggle = dev'.toggle["in"] /\ toggle["in"] = qtd'.toggle
                             /\ ~qtd'.met /\ ~qtd'.begun
                        /\ ~qtd'.done /\ dev'.left > 0 =>
                             /\ qtd'.met = qtd'.begun
                             /\ qtd'.toggle # dev'.toggle["in"] =>
                                  toggle["in"] = qtd'.toggle /\ ~qtd'.begun
    BY <1>8, <1>9 DEF InFlow, InStep
  <2>2. dev.toggle["in"] \in {0, 1} /\ dev'.toggle["in"] = 1 - dev.toggle["in"]
    BY <1>3, <1>6, <1>7
  <2>3. dev'.left = 0 <=> last_one
    BY <1>3, <1>6
  <2>4. CASE kept
    <3>1. qtd'.toggle = dev'.toggle["in"]
      BY <1>5, <2>2, <2>4
    <3>2. qtd'.met = qtd'.begun
      BY <1>5, <1>12, <2>1, <2>4
    <3> QED
      BY <1>5, <2>3, <2>4, <3>1, <3>2
  <2>5. CASE ~kept
    <3>1. ~begins /\ ~qtd.met /\ ~qtd.begun /\ toggle["in"] = qtd.toggle
      BY <1>4, <1>12, <2>1, <2>5
    <3>2. qtd'.toggle = dev'.toggle["in"]
      BY <1>4, <1>5, <2>2, <2>5
    <3>3. qtd'.met = FALSE /\ qtd'.begun = FALSE /\ ~qtd'.done /\ toggle["in"] = qtd'.toggle
      BY <1>4, <1>5, <2>5, <3>1
    <3> QED
      BY <3>2, <3>3
  <2> QED
    BY <2>4, <2>5
<1>14. FramesCounted'
  <2>1. "in" \notin torn' => tally'.got + One(Busy("in")' /\ qtd'.done /\ qtd'.begun) = dev'.handed
    <3>1. SUFFICES ASSUME "in" \notin torn PROVE tally.got + One(qtd'.done /\ qtd'.begun) = dev'.handed
      BY <1>8, <1>9 DEF InStep, One
    <3>2. tally.got = dev.handed /\ tally.got \in Nat
      BY <1>4, <1>8, <3>1 DEF InStep, TransferInv, FramesCounted, IoTypes, One
    <3>3. (qtd'.done /\ qtd'.begun) <=> (last_one /\ met)
      BY <1>5, <1>12, <3>1
    <3> QED
      BY <1>6, <3>2, <3>3 DEF One
  <2>2. torn' \cap {"msg", "out"} = {} =>
          tally'.confirmed + dev'.confirm + One(Busy("msg")' /\ qtd'.done)
            = tally'.sent + One(SentOk') + One(Busy("out")' /\ qtd'.done)
    BY <1>6, <1>8, <1>9 DEF InStep, TransferInv, FramesCounted, One
  <2> QED
    BY <2>1, <2>2 DEF FramesCounted
<1> QED
  BY <1>9, <1>10, <1>11, <1>13, <1>14 DEF TransferInv

LEMMA ConfirmationInKeeps ==
  ASSUME TransferInv, PacketIn, qtd.ep = "msg"
  PROVE  TransferInv'
<1>. DEFINE kept == qtd.toggle = dev.toggle["msg"]
            bits == [dev.toggle EXCEPT !["msg"] = 1 - @]
<1>1. /\ dev.confirm > 0
      /\ qtd' = IF kept THEN [qtd EXCEPT !.toggle = 1 - @, !.done = TRUE] ELSE qtd
      /\ dev' = [dev EXCEPT !.toggle["msg"] = 1 - @, !.confirm = @ - 1]
  BY DEF PacketIn, ConfirmationIn
<1>2. /\ qtd \in Descriptors /\ dev \in Chips /\ dev.toggle \in [Endpoints -> {0, 1}]
      /\ dev.confirm \in Nat /\ dev.toggle["msg"] \in {0, 1} /\ qtd.toggle \in {0, 1}
      /\ toggle \in [Endpoints -> {0, 1}] /\ "in" \in Endpoints /\ "msg" \in Endpoints
  BY DEF TransferInv, ChipTypes, Chips, Descriptors, Endpoints
<1>3. /\ qtd' \in Descriptors /\ qtd'.ep = qtd.ep /\ qtd'.error = qtd.error
      /\ qtd'.begun = qtd.begun
      /\ kept => qtd'.toggle = 1 - qtd.toggle /\ qtd'.done
  <2>1. 1 - qtd.toggle \in {0, 1}
    BY <1>2
  <2>2. CASE kept
    <3>1. qtd' = [qtd EXCEPT !.toggle = 1 - @, !.done = TRUE]
      BY <1>1, <2>2
    <3> QED
      BY <1>2, <2>1, <3>1 DEF Descriptors
  <2>3. CASE ~kept
    BY <1>1, <1>2, <2>3
  <2> QED
    BY <2>2, <2>3
<1>4. /\ dev' \in Chips /\ dev'.toggle = bits /\ dev'.confirm = dev.confirm - 1
      /\ dev'.first = dev.first /\ dev'.frame = dev.frame /\ dev'.handed = dev.handed
      /\ dev'.left = dev.left
  <2>1. bits \in [Endpoints -> {0, 1}] /\ dev.confirm - 1 \in Nat
    BY <1>1, <1>2
  <2>2. dev' = [dev EXCEPT !.toggle = bits, !.confirm = @ - 1]
    BY <1>1, <1>2 DEF Chips
  <2>. HIDE DEF bits
  <2> QED
    BY <1>2, <2>1, <2>2 DEF Chips
<1>5. /\ bits["msg"] = 1 - dev.toggle["msg"] /\ bits["in"] = dev.toggle["in"]
      /\ bits["out"] = dev.toggle["out"]
  BY <1>2 DEF Endpoints
<1>. HIDE DEF bits
<1>6. InStep
  BY <1>3, <1>4, <1>5 DEF PacketIn, InStep
<1>7. /\ IoTypes' /\ LocksHeld' /\ OutFlow' /\ ErrorsKnown' /\ FramesWhole'
      /\ \A e : (Busy(e) <=> e = "msg") /\ (Busy(e)' <=> e = "msg")
      /\ SentOk' <=> SentOk
  BY <1>6, InStepKeeps
<1>8. ChipTypes'
  BY <1>3, <1>4, <1>6 DEF InStep, TransferInv, ChipTypes
<1>9. InFlow'
  BY <1>4, <1>5, <1>6, <1>7 DEF InStep, TransferInv, InFlow
<1>10. "msg" \notin torn => kept
  BY <1>7 DEF TransferInv, MsgFlow
<1>11. MsgFlow'
  <2>1. SUFFICES ASSUME "msg" \notin torn PROVE qtd'.toggle = dev'.toggle["msg"] /\ qtd'.done
    BY <1>6, <1>7 DEF MsgFlow, InStep
  <2> QED
    BY <1>3, <1>4, <1>5, <1>10, <2>1
<1>12. FramesCounted'
  <2>1. "in" \notin torn' => tally'.got + One(Busy("in")' /\ qtd'.done /\ qtd'.begun) = dev'.handed
    BY <1>4, <1>6, <1>7 DEF InStep, TransferInv, FramesCounted, One
  <2>2. torn' \cap {"msg", "out"} = {} =>
          tally'.confirmed + dev'.confirm + One(Busy("msg")' /\ qtd'.done)
            = tally'.sent + One(SentOk') + One(Busy("out")' /\ qtd'.done)
    <3>1. SUFFICES ASSUME torn \cap {"msg", "out"} = {}
                   PROVE  tally.confirmed + (dev.confirm - 1) + 1 = tally.sent + One(SentOk)
      <4>1. UNCHANGED <<tally, torn>> /\ ~Busy("out")' /\ Busy("msg")'
        BY <1>6, <1>7 DEF InStep
      <4>2. ASSUME torn \cap {"msg", "out"} = {}
            PROVE  One(Busy("msg")' /\ qtd'.done) = 1 /\ One(Busy("out")' /\ qtd'.done) = 0
        BY <1>3, <1>10, <4>1, <4>2 DEF One
      <4>3. One(SentOk') = One(SentOk) /\ One(SentOk) \in Nat
        BY <1>7 DEF One
      <4>4. tally.sent \in Nat
        BY DEF TransferInv, IoTypes
      <4> QED
        BY <1>4, <4>1, <4>2, <4>3, <4>4
    <3>2. tally.confirmed + dev.confirm = tally.sent + One(SentOk)
      <4>1. One(Busy("msg") /\ qtd.done) = 0 /\ One(Busy("out") /\ qtd.done) = 0
        BY <1>6, <1>7 DEF InStep, One
      <4>2. tally.confirmed + dev.confirm + One(Busy("msg") /\ qtd.done)
              = tally.sent + One(SentOk) + One(Busy("out") /\ qtd.done)
        BY <3>1 DEF TransferInv, FramesCounted
      <4>3. tally.confirmed \in Nat /\ tally.sent \in Nat /\ One(SentOk) \in Nat
        BY DEF TransferInv, IoTypes, One
      <4> QED
        BY <1>2, <4>1, <4>2, <4>3
    <3>3. tally.confirmed \in Nat
      BY DEF TransferInv, IoTypes
    <3> QED
      BY <1>2, <3>2, <3>3
  <2> QED
    BY <2>1, <2>2 DEF FramesCounted
<1> QED
  BY <1>7, <1>8, <1>9, <1>11, <1>12 DEF TransferInv

LEMMA PacketInKeeps == ASSUME TransferInv, PacketIn PROVE TransferInv'
BY FrameInKeeps, ConfirmationInKeeps DEF PacketIn

LEMMA PacketOutKeeps == ASSUME TransferInv, PacketOut PROVE TransferInv'
<1>1. /\ usb_lock # Unlocked /\ ~qtd.done /\ qtd.ep = "out" /\ Busy("out")
      /\ UNCHANGED <<tx_lock, usb_lock, tx_buffer, toggle, io, tally, torn>>
  BY DEF PacketOut, Busy
<1>2. qtd' = [qtd EXCEPT !.toggle = 1 - @, !.packets = @ - 1, !.done = qtd.packets = 1]
  BY DEF PacketOut
<1>3. /\ qtd \in Descriptors /\ dev \in Chips
      /\ qtd.packets \in {1, 2} /\ tx_buffer \in FrameBuffers
  BY <1>1 DEF TransferInv, ChipTypes, IoTypes
<1>4. /\ qtd' \in Descriptors /\ ~qtd'.begun /\ qtd'.error = qtd.error
      /\ qtd'.ep = "out" /\ qtd'.toggle = 1 - qtd.toggle
      /\ qtd'.packets = qtd.packets - 1 /\ (qtd'.done <=> qtd.packets = 1)
  <2>1. 1 - qtd.toggle \in {0, 1} /\ qtd.packets - 1 \in 0 .. 2 /\ (qtd.packets = 1) \in BOOLEAN
          /\ ~qtd.begun
    BY <1>1, <1>3 DEF Descriptors, TransferInv, ChipTypes
  <2> QED
    BY <1>1, <1>2, <1>3, <2>1 DEF Descriptors
<1>5. IoTypes' /\ LocksHeld'
  BY <1>1, <1>4 DEF TransferInv, IoTypes, LocksHeld
<1>6. tx_buffer.whole
  <2>1. PICK t \in Threads : usb_lock = t
    BY <1>1 DEF TransferInv, IoTypes
  <2>2. io[t].pc = "sending"
    BY <1>1, <2>1, WhoSends DEF TransferInv
  <2> QED
    BY <2>2 DEF TransferInv, LocksHeld
<1>7. tx_buffer # Empty
  BY <1>6 DEF Empty
(* The chip throws the packet away, keeps it, or has a frame. *)
<1>8. \/ qtd.toggle # dev.toggle["out"] /\ dev' = dev
      \/ /\ dev.first = Empty
         /\ dev' = [dev EXCEPT !.toggle["out"] = 1 - @, !.first = tx_buffer]
      \/ /\ dev.first # Empty
         /\ dev' = [dev EXCEPT !.toggle["out"] = 1 - @, !.first = Empty,
                               !.frame = <<dev.first, tx_buffer>>, !.confirm = @ + 1]
  BY DEF PacketOut
<1>9. /\ dev' \in Chips
      /\ dev'.toggle["in"] = dev.toggle["in"] /\ dev'.toggle["msg"] = dev.toggle["msg"]
      /\ dev'.handed = dev.handed /\ dev'.left = dev.left
  <2>. DEFINE flipped == [dev.toggle EXCEPT !["out"] = 1 - @]
  <2>1. /\ flipped \in [Endpoints -> {0, 1}] /\ Empty \in FrameBuffers
        /\ flipped["in"] = dev.toggle["in"] /\ flipped["msg"] = dev.toggle["msg"]
    BY <1>3 DEF FrameBuffers, Empty, Endpoints, Chips
  <2>2. CASE qtd.toggle # dev.toggle["out"] /\ dev' = dev
    BY <1>3, <2>2
  <2>3. CASE dev' = [dev EXCEPT !.toggle["out"] = 1 - @, !.first = tx_buffer]
    <3>1. dev' = [dev EXCEPT !.toggle = flipped, !.first = tx_buffer]
      BY <1>3, <2>3 DEF Chips
    <3> HIDE DEF flipped
    <3> QED
      BY <1>3, <2>1, <3>1 DEF Chips
  <2>4. CASE dev' = [dev EXCEPT !.toggle["out"] = 1 - @, !.first = Empty,
                               !.frame = <<dev.first, tx_buffer>>, !.confirm = @ + 1]
    <3>1. dev' = [dev EXCEPT !.toggle = flipped, !.first = Empty,
                             !.frame = <<dev.first, tx_buffer>>, !.confirm = @ + 1]
      BY <1>3, <2>4 DEF Chips
    <3>2. dev.confirm + 1 \in Nat /\ <<dev.first, tx_buffer>> \in FrameBuffers \X FrameBuffers
      BY <1>3 DEF Chips
    <3> HIDE DEF flipped
    <3> QED
      BY <1>3, <2>1, <3>1, <3>2 DEF Chips
  <2> QED
    BY <1>8, <2>2, <2>3, <2>4
<1>10. ChipTypes' /\ ErrorsKnown'
  BY <1>1, <1>3, <1>4, <1>9 DEF TransferInv, ChipTypes, ErrorsKnown
<1>11. \A e : (Busy(e) <=> e = "out") /\ (Busy(e)' <=> e = "out")
  BY <1>1, <1>4 DEF Busy
<1>12. InFlow' /\ MsgFlow'
  <2>1. InFlow'
    BY <1>1, <1>9, <1>11 DEF TransferInv, InFlow
  <2>2. MsgFlow'
    BY <1>1, <1>9, <1>11 DEF TransferInv, MsgFlow
  <2> QED
    BY <2>1, <2>2
(* What moved while no frame was torn. *)
<1>13. ASSUME "out" \notin torn
       PROVE  /\ qtd.toggle = dev.toggle["out"] /\ dev'.toggle["out"] = 1 - dev.toggle["out"]
              /\ qtd.packets = 2 => /\ toggle["out"] = qtd.toggle /\ dev.first = Empty
                                    /\ dev'.first = tx_buffer
                                    /\ dev'.frame = dev.frame /\ dev'.confirm = dev.confirm
              /\ qtd.packets = 1 => /\ dev'.first = Empty /\ dev'.frame = <<tx_buffer, tx_buffer>>
                                    /\ dev'.confirm = dev.confirm + 1
  <2>1. /\ qtd.toggle = dev.toggle["out"]
        /\ qtd.packets = 2 => toggle["out"] = qtd.toggle /\ dev.first = Empty
        /\ qtd.packets = 1 => dev.first = tx_buffer
    BY <1>1, <1>3, <1>13 DEF TransferInv, OutFlow
  <2>2. CASE qtd.packets = 2
    <3>1. dev' = [dev EXCEPT !.toggle["out"] = 1 - @, !.first = tx_buffer]
      BY <1>8, <2>1, <2>2
    <3> QED
      BY <1>3, <2>1, <2>2, <3>1 DEF Endpoints, Chips
  <2>3. CASE qtd.packets = 1
    <3>1. dev' = [dev EXCEPT !.toggle["out"] = 1 - @, !.first = Empty,
                             !.frame = <<dev.first, tx_buffer>>, !.confirm = @ + 1]
      BY <1>7, <1>8, <2>1, <2>3
    <3> QED
      BY <1>3, <2>1, <2>3, <3>1 DEF Endpoints, Chips
  <2> QED
    BY <1>3, <2>2, <2>3
<1>14. OutFlow'
  <2>1. SUFFICES ASSUME "out" \notin torn
                 PROVE  /\ qtd'.toggle = dev'.toggle["out"]
                        /\ \/ qtd'.packets = 1 /\ ~qtd'.done /\ dev'.first = tx_buffer'
                           \/ qtd'.packets = 0 /\ qtd'.done /\ dev'.first = Empty
    BY <1>1, <1>11 DEF OutFlow
  <2>2. CASE qtd.packets = 2
    BY <1>1, <1>4, <1>13, <2>1, <2>2
  <2>3. CASE qtd.packets = 1
    BY <1>1, <1>4, <1>13, <2>1, <2>3
  <2> QED
    BY <1>3, <2>2, <2>3
<1>15. FramesWhole'
  <2>1. SUFFICES ASSUME "out" \notin torn
                 PROVE  dev'.frame[1] = dev'.frame[2] /\ (dev'.frame[1] # Empty => dev'.frame[1].whole)
    BY <1>1 DEF FramesWhole
  <2>2. CASE qtd.packets = 2
    BY <1>13, <2>1, <2>2 DEF TransferInv, FramesWhole
  <2>3. CASE qtd.packets = 1
    BY <1>6, <1>13, <2>1, <2>3
  <2> QED
    BY <1>3, <2>2, <2>3
<1>16. FramesCounted'
  <2>1. SentOk' <=> SentOk
    BY <1>1 DEF SentOk
  <2>2. "in" \notin torn => tally.got = dev.handed
    BY <1>3, <1>11 DEF TransferInv, FramesCounted, IoTypes, One, Chips
  <2>3. "in" \notin torn' => tally'.got + One(Busy("in")' /\ qtd'.done /\ qtd'.begun) = dev'.handed
    BY <1>1, <1>3, <1>9, <1>11, <2>2 DEF One, Chips
  <2>4. ASSUME torn \cap {"msg", "out"} = {}
        PROVE  tally.confirmed + dev'.confirm = tally.sent + One(SentOk) + One(qtd'.done)
    <3>1. tally.confirmed + dev.confirm = tally.sent + One(SentOk)
      BY <1>1, <1>3, <1>11, <2>4 DEF TransferInv, FramesCounted, IoTypes, One, Chips
    <3>2. tally.confirmed \in Nat /\ tally.sent \in Nat /\ One(SentOk) \in Nat /\ dev.confirm \in Nat
      BY <1>3 DEF TransferInv, IoTypes, One, Chips
    <3>3. dev'.confirm = dev.confirm + One(qtd'.done)
      BY <1>3, <1>4, <1>13, <2>4, <3>2 DEF One
    <3>4. One(qtd'.done) \in Nat
      BY DEF One
    <3> QED
      BY <3>1, <3>2, <3>3, <3>4
  <2>5. torn' \cap {"msg", "out"} = {} =>
          tally'.confirmed + dev'.confirm + One(Busy("msg")' /\ qtd'.done)
            = tally'.sent + One(SentOk') + One(Busy("out")' /\ qtd'.done)
    <3>1. /\ One(Busy("msg")' /\ qtd'.done) = 0 /\ One(SentOk') = One(SentOk)
          /\ One(Busy("out")' /\ qtd'.done) = One(qtd'.done)
      BY <1>11, <2>1 DEF One
    <3>2. tally.confirmed + dev'.confirm \in Nat
      BY <1>9 DEF TransferInv, IoTypes, Chips
    <3> QED
      BY <1>1, <2>4, <3>1, <3>2
  <2> QED
    BY <2>3, <2>5 DEF FramesCounted
<1> QED
  BY <1>5, <1>10, <1>12, <1>14, <1>15, <1>16 DEF TransferInv
-----------------------------------------------------------------------------
LEMMA InitTransferInv == TransferInit => TransferInv
<1>. SUFFICES ASSUME TransferInit PROVE TransferInv
  OBVIOUS
<1>1. \A t \in Threads : io[t] = [pc |-> "idle", ok |-> FALSE, frames |-> ToSend]
  BY DEF TransferInit
<1>2. IoTypes
  BY TransferAssumption DEF TransferInit, IoTypes, IoSteps, FrameBuffers, Empty, Unlocked
<1>3. ChipTypes /\ ErrorsKnown
  <2>1. /\ [ep \in Endpoints |-> 0] \in [Endpoints -> {0, 1}] /\ Empty \in FrameBuffers
        /\ "in" \in Endpoints /\ 0 \in 0 .. 2 /\ "in" # "out"
    BY DEF Endpoints, FrameBuffers, Empty
  <2>2. NoTransfer \in Descriptors /\ NoTransfer.ep = "in"
    BY <2>1 DEF NoTransfer, Descriptor, Descriptors
  <2>3. dev \in Chips
    BY <2>1, TransferAssumption DEF TransferInit, Chips
  <2> QED
    BY <2>1, <2>2, <2>3 DEF TransferInit, ChipTypes, ErrorsKnown
<1>4. LocksHeld
  BY <1>1 DEF TransferInit, LocksHeld, Building, OnUsb, Threads, Senders, Unlocked
<1>5. \A e : ~Busy(e)
  BY DEF TransferInit, Busy
<1>6. OutFlow /\ InFlow /\ MsgFlow /\ FramesWhole
  BY <1>5 DEF TransferInit, OutFlow, InFlow, MsgFlow, FramesWhole, Endpoints
<1>7. FramesCounted
  BY <1>1, <1>5 DEF TransferInit, FramesCounted, One, SentOk
<1> QED
  BY <1>2, <1>3, <1>4, <1>6, <1>7 DEF TransferInv

LEMMA TransferInvKept == TransferInv /\ [TransferNext]_transferVars => TransferInv'
<1>. SUFFICES ASSUME TransferInv, [TransferNext]_transferVars PROVE TransferInv'
  OBVIOUS
<1>1. ASSUME NEW t \in Threads, SendBegin(t) \/ TakeTxLock(t) \/ Payload(t) \/ SendReturn(t)
      PROVE  TransferInv'
  BY <1>1, BeginFrameKeeps, TakeKeeps, PayloadKeeps, ReturnKeeps
<1>2. ASSUME NEW t \in Threads, SendSetup(t) \/ SendEnds(t) PROVE TransferInv'
  BY <1>2, SetupsKeep, EndsKeep
<1>3. CASE Receiving
  BY <1>3, SetupsKeep, EndsKeep, IdlesKeep DEF Receiving
<1>4. CASE PacketOut \/ PacketIn \/ PacketFails \/ FrameArrives
  BY <1>4, PacketOutKeeps, PacketInKeeps, PacketFailsKeeps, FramesArriveKeeps
<1>5. CASE UNCHANGED transferVars
  <2>1. UNCHANGED <<usb_lock, qtd, toggle, dev, torn, io, tx_lock, tx_buffer, tally>>
    BY <1>5 DEF transferVars
  <2>2. ChipTypes' /\ OutFlow' /\ InFlow' /\ MsgFlow' /\ ErrorsKnown' /\ FramesWhole'
    BY <2>1, FlowsKeep
  <2> QED
    BY <2>1, <2>2 DEF TransferInv, IoTypes, LocksHeld, FramesCounted, Busy, SentOk
<1> QED
  BY <1>1, <1>2, <1>3, <1>4, <1>5 DEF TransferNext, Sending

(* With no transfer on the bus everything that moved is counted. *)
LEMMA AllCounted == TransferInv => FramesArrive
<1>. SUFFICES ASSUME TransferInv PROVE NothingDropped
  BY DEF FramesArrive, TransferInv
<1>. SUFFICES ASSUME usb_lock = Unlocked
              PROVE  /\ "in" \notin torn => /\ tally.got = dev.handed
                                            /\ dev.left = 0 => toggle["in"] = dev.toggle["in"]
                     /\ torn \cap {"msg", "out"} = {} =>
                          tally.confirmed + dev.confirm
                            = tally.sent + Cardinality({t \in Threads : InIo(t, "sent") /\ io[t].ok})
  BY DEF NothingDropped
<1>1. \A e : ~Busy(e)
  BY DEF Busy
<1>2. "in" \notin torn /\ dev.left = 0 => toggle["in"] = dev.toggle["in"]
  BY <1>1 DEF TransferInv, InFlow
<1>3. /\ "in" \notin torn => tally.got = dev.handed
      /\ torn \cap {"msg", "out"} = {} => tally.confirmed + dev.confirm = tally.sent + One(SentOk)
  BY <1>1 DEF TransferInv, FramesCounted, One, IoTypes, ChipTypes, Chips
<1>4. Cardinality({t \in Threads : InIo(t, "sent") /\ io[t].ok}) = One(SentOk)
  <2>. DEFINE S == {t \in Threads : InIo(t, "sent") /\ io[t].ok}
  <2>1. CASE SentOk
    <3>1. PICK t \in Threads : io[t].pc = "sent" /\ io[t].ok
      BY <2>1 DEF SentOk
    <3>2. S = {t}
      BY <3>1, OneBuilds DEF TransferInv, Building, InIo
    <3> QED
      BY <2>1, <3>2, FS_Singleton DEF One
  <2>2. CASE ~SentOk
    <3>1. S = {}
      BY <2>2 DEF SentOk, InIo
    <3> QED
      BY <2>2, <3>1, FS_EmptySet DEF One
  <2> QED
    BY <2>1, <2>2
<1> QED
  BY <1>2, <1>3, <1>4

(* Under the three locks the chip gets each frame as it was built, and     *)
(* with the toggles of the endpoints no confirmation is lost, nor a frame  *)
(* that moved within one transfer; a poll that ends inside a frame costs   *)
(* that frame only.  This is a733_ehci_bulk_timeout and its callers, for   *)
(* any number of frames of any length, as long as no transaction fails on  *)
(* the endpoint.                                                           *)
THEOREM EveryFrameArrives == TransferSpec => []FramesArrive
BY InitTransferInv, TransferInvKept, AllCounted, PTL DEF TransferSpec
-----------------------------------------------------------------------------
(* 2. From the power switch to wlan0.                                       *)
(* The requests of a start of the radio.                                     *)
LmacTaken == {LmacRequests[k] : k \in DOMAIN LmacRequests}

BeforeStart == {"power", "port", "enumerate", "probe", "adid", "patch", "ext0", "patch_table",
                "fmac", "patch_config", "start"}
BeforeLmac  == BeforeStart \cup {"port_again", "enumerate_again", "map"}

BringTypes ==
  /\ DOMAIN fcu = {"device", "ram", "confirmed", "table", "config", "app", "taken"}
  /\ fcu.ram \in [Images -> SUBSET Nat] /\ fcu.confirmed \in [Images -> Nat]
  /\ fcu.taken \in Seq(LmacTaken)
  /\ DOMAIN up = {"step", "offset", "attempt", "request", "pid", "list", "mac_start", "node",
                  "wlan0"}
  /\ up.step \in BeforeLmac \cup {"lmac", "register", "done"}
  /\ up.offset \in 0 .. FileBlocks /\ up.request \in 1 .. Len(LmacRequests)

(* What is whole when a step begins: nothing is written to an image before   *)
(* or after its step, which has confirmed the blocks it has written.         *)
Whole(step) ==
  CASE step \in {"power", "port", "enumerate", "probe", "adid"} -> {}
    [] step = "patch" -> {"adid"}
    [] step = "ext0" -> {"adid", "patch"}
    [] step \in {"patch_table", "fmac"} -> {"adid", "patch", "ext0"}
    [] OTHER -> Images

AllWritten ==
  up.step \in BeforeStart =>
    /\ ~fcu.app
    /\ \A image \in Images :
         fcu.confirmed[image] = IF image \in Whole(up.step) THEN FileBlocks
                                ELSE IF image = up.step THEN up.offset ELSE 0
    /\ up.step \in {"power", "port", "enumerate", "probe", "patch_table"} => up.offset = 0
    /\ up.step \in {"fmac", "patch_config", "start"} => fcu.table
    /\ up.step = "start" => fcu.config /\ 0 \in fcu.ram["fmac"]

(* The requests are confirmed in their order, by the runtime.                *)
RequestsTaken ==
  /\ ~up.mac_start => Len(fcu.taken) = up.request - 1
  /\ \A k \in 1 .. Len(fcu.taken) : fcu.taken[k] = LmacRequests[k]

OverRuntime == fcu.device = "runtime" /\ Separate(up.list)

RadioInv ==
  /\ up.step \in BeforeLmac => up.request = 1
  /\ up.step = "map" =>
       /\ up.pid \in {fcu.device, "other"}
       /\ \E config \in Configs : Readable(config) /\ up.list = parse_config(config)
  /\ up.step = "lmac" => OverRuntime
  /\ up.mac_start => /\ up.step \in {"register", "done"}
                     /\ fcu.taken = LmacRequests /\ OverRuntime
  /\ up.wlan0 => up.mac_start
  /\ RequestsTaken

BringInv == BringTypes /\ StartedWhole /\ AllWritten /\ RadioInv

LEMMA RequestsAreSeq ==
  LmacRequests \in Seq(LmacTaken) /\ Len(LmacRequests) \in Nat \ {0}
<1> DEFINE Kinds == {"VERSION", "STACK", "GET_MAC", "TXPWR", "RF_CALIB", "RESET", "ME_CONFIG",
                     "ME_CHAN", "ADD_IF", "START"}
<1>1. /\ runtime_version \in Seq(Kinds) /\ stack_start \in Seq(Kinds)
      /\ rf_config \in Seq(Kinds) /\ me_config \in Seq(Kinds)
      /\ channel_config \in Seq(Kinds) /\ station_vif \in Seq(Kinds) /\ mac_start \in Seq(Kinds)
  BY DEF runtime_version, stack_start, rf_config, me_config, channel_config, station_vif,
         mac_start
<1>2. Len(mac_start) = 1
  BY DEF mac_start
<1> HIDE DEF Kinds
<1>3. LmacRequests \in Seq(Kinds) /\ Len(LmacRequests) \in Nat \ {0}
  BY <1>1, <1>2 DEF LmacRequests
<1>4. DOMAIN LmacRequests = 1 .. Len(LmacRequests)
  BY <1>3, LenProperties
<1>5. LmacRequests \in [1 .. Len(LmacRequests) -> LmacTaken]
  BY <1>3, <1>4, LenProperties DEF LmacTaken
<1> QED
  BY <1>3, <1>5, SeqDef

LEMMA ImagesAre == Images = {"adid", "patch", "ext0", "fmac"}
BY DEF Images, After

LEMMA BringStarts == BringInit => BringInv
<1> SUFFICES ASSUME BringInit PROVE BringInv
  OBVIOUS
<1> USE BringUpAssumption, RequestsAreSeq, ImagesAre
<1>1. BringTypes
  BY DEF BringInit, BringTypes, BeforeLmac, BeforeStart
<1>2. Len(fcu.taken) = 0
  BY DEF BringInit
<1> QED
  BY <1>1, <1>2 DEF BringInit, BringInv, StartedWhole, AllWritten, Whole, RadioInv, RequestsTaken, BeforeLmac,
     BeforeStart

LEMMA FailsKeeps == BringInv /\ Fails => BringInv'
<1> SUFFICES ASSUME BringInv, Fails PROVE BringInv'
  OBVIOUS
<1> USE BringUpAssumption
<1>1. /\ fcu' = fcu /\ DOMAIN up' = DOMAIN up /\ up'.step = "register" /\ up'.offset = 0
      /\ up'.request = up.request /\ up'.list = up.list /\ up'.mac_start = up.mac_start
      /\ up'.wlan0 = up.wlan0
  BY DEF Fails, ToStep, BringInv, BringTypes
<1>2. BringTypes'
  BY <1>1 DEF BringInv, BringTypes
<1> QED
  BY <1>1, <1>2 DEF BringInv, StartedWhole, AllWritten, RadioInv, RequestsTaken, OverRuntime, BeforeStart,
     BeforeLmac

(* The steps before and between the images only move on.                     *)
LEMMA MovesKeep ==
  ASSUME BringInv, NEW from, NEW to, At(from), ToStep(to), UNCHANGED fcu,
         <<from, to>> \in {<<"port", "enumerate">>, <<"port_again", "enumerate_again">>,
                           <<"probe", "adid">>}
  PROVE  BringInv'
<1> USE BringUpAssumption
<1>1. /\ fcu' = fcu /\ DOMAIN up' = DOMAIN up /\ up'.step = to /\ up'.offset = 0
      /\ up'.request = up.request /\ up'.mac_start = up.mac_start /\ up'.wlan0 = up.wlan0
      /\ up.step = from /\ up'.list = up.list
  BY DEF ToStep, At, BringInv, BringTypes
<1>2. from # to /\ from \in BeforeLmac /\ to \in BeforeLmac \ {"map", "patch_table"}
      /\ (to \in BeforeStart => from \in BeforeStart)
      /\ (to \in BeforeStart => Whole(to) = {} /\ Whole(from) = {} /\ from \notin Images)
      /\ to \notin {"fmac", "patch_config", "start"}
  BY ImagesAre DEF BeforeLmac, BeforeStart, Whole
<1>3. BringTypes'
  <2>1. to \in BeforeLmac /\ 0 \in 0 .. FileBlocks
    BY <1>2
  <2> QED
    BY <1>1, <2>1 DEF BringInv, BringTypes
<1>4. AllWritten'
  BY <1>1, <1>2 DEF BringInv, AllWritten, Whole, BringTypes
<1>5. RadioInv'
  BY <1>1, <1>2 DEF BringInv, RadioInv, RequestsTaken, BeforeLmac, BeforeStart
<1> QED
  BY <1>1, <1>3, <1>4, <1>5 DEF BringInv, StartedWhole

LEMMA PowerKeeps == ASSUME BringInv, power_enable PROVE BringInv'
<1> USE BringUpAssumption
<1>1. /\ fcu'.ram = fcu.ram /\ fcu'.confirmed = fcu.confirmed /\ fcu'.taken = fcu.taken
      /\ fcu'.table = fcu.table /\ fcu'.config = fcu.config /\ fcu'.app = fcu.app
      /\ DOMAIN fcu' = DOMAIN fcu
      /\ DOMAIN up' = DOMAIN up /\ up'.step = "port" /\ up'.offset = 0
      /\ up'.request = up.request /\ up'.mac_start = up.mac_start /\ up'.wlan0 = up.wlan0
      /\ up.step = "power" /\ up'.list = up.list
  BY DEF power_enable, ToStep, At, BringInv, BringTypes
<1>2. BringTypes'
  BY <1>1 DEF BringInv, BringTypes, BeforeLmac, BeforeStart
<1>3. AllWritten'
  BY <1>1, ImagesAre DEF BringInv, AllWritten, Whole, BringTypes, BeforeStart
<1>4. RadioInv'
  BY <1>1 DEF BringInv, RadioInv, RequestsTaken, BeforeLmac, BeforeStart
<1> QED
  BY <1>1, <1>2, <1>3, <1>4 DEF BringInv, StartedWhole

LEMMA EnumeratedKeeps ==
  ASSUME BringInv, NEW next, NEW config \in Configs, NEW product \in {fcu.device, "other"},
         Readable(config),
         <<up.step, next>> \in {<<"enumerate", "probe">>, <<"enumerate_again", "map">>},
         up' = [up EXCEPT !.step = next, !.pid = product, !.list = parse_config(config)],
         UNCHANGED fcu
  PROVE  BringInv'
<1>1. PICK list : list = parse_config(config)
  OBVIOUS
<1>2. /\ fcu' = fcu /\ DOMAIN up' = DOMAIN up /\ up'.step = next /\ up'.offset = up.offset
      /\ up'.request = up.request /\ up'.mac_start = up.mac_start /\ up'.wlan0 = up.wlan0
      /\ up'.pid = product /\ up'.list = list
  BY <1>1 DEF BringInv, BringTypes
<1>3. up.step # next /\ up.step \in BeforeLmac /\ next \in BeforeLmac
      /\ (next \in BeforeStart => next = "probe" /\ up.step = "enumerate")
  BY DEF BeforeLmac, BeforeStart
<1>4. BringTypes'
  BY <1>2, <1>3 DEF BringInv, BringTypes
<1>5. AllWritten'
  BY <1>2, <1>3, ImagesAre DEF BringInv, AllWritten, Whole, BringTypes, BeforeStart
<1>6. RadioInv'
  <2>1. next \notin {"lmac", "register", "done"} /\ up.step \notin {"register", "done"}
    BY <1>3 DEF BeforeLmac, BeforeStart
  <2>2. \E c \in Configs : Readable(c) /\ up'.list = parse_config(c)
    BY <1>1, <1>2
  <2>3. up'.pid \in {fcu'.device, "other"} /\ RequestsTaken' /\ up'.request = 1
        /\ ~up'.mac_start /\ ~up'.wlan0
    BY <1>2, <1>3, <2>1 DEF BringInv, RadioInv, RequestsTaken
  <2> QED
    BY <1>2, <2>1, <2>2, <2>3 DEF RadioInv
<1> QED
  BY <1>2, <1>4, <1>5, <1>6 DEF BringInv, StartedWhole

LEMMA EnumerateKeeps ==
  ASSUME BringInv, NEW here, NEW next, enumerate(here, next),
         <<here, next>> \in {<<"enumerate", "probe">>, <<"enumerate_again", "map">>}
  PROVE  BringInv'
<1>1. CASE Fails
  BY <1>1, FailsKeeps
<1>2. CASE ~Fails
  <2>1. up.step = here
    BY DEF enumerate, At
  <2>2. PICK config \in Configs, product \in {fcu.device, "other"} :
          /\ \/ /\ Readable(config)
                /\ up' = [up EXCEPT !.step = next, !.pid = product, !.list = parse_config(config)]
             \/ ToStep("register")
          /\ UNCHANGED fcu
    BY <1>2 DEF enumerate
  <2>3. ~ToStep("register")
    BY <1>2, <2>2 DEF Fails
  <2> QED
    BY <2>1, <2>2, <2>3, EnumeratedKeeps
<1> QED
  BY <1>1, <1>2

(* One block of an image.                                                    *)
LEMMA BlockKeeps ==
  ASSUME BringInv, NEW image \in Images, block_write(image)
  PROVE  BringInv'
<1> USE BringUpAssumption
<1>1. CASE Fails
  BY <1>1, FailsKeeps
<1>2. CASE ~Fails
  <2>1. PICK kept \in SUBSET {up.offset} :
          /\ fcu' = [fcu EXCEPT !.ram[image] = @ \cup kept, !.confirmed[image] = @ + 1]
          /\ up' = [up EXCEPT !.offset = @ + 1]
    BY <1>2 DEF block_write, aic_command
  <2>2. up.step = image /\ up.offset < FileBlocks
    BY DEF block_write, At
  <2>3. /\ DOMAIN fcu' = DOMAIN fcu /\ fcu'.device = fcu.device /\ fcu'.table = fcu.table
        /\ fcu'.config = fcu.config /\ fcu'.app = fcu.app /\ fcu'.taken = fcu.taken
        /\ fcu'.ram = [fcu.ram EXCEPT ![image] = @ \cup kept]
        /\ fcu'.confirmed = [fcu.confirmed EXCEPT ![image] = @ + 1]
    BY <2>1 DEF BringInv, BringTypes
  <2>4. /\ DOMAIN up' = DOMAIN up /\ up'.step = up.step /\ up'.offset = up.offset + 1
        /\ up'.request = up.request /\ up'.mac_start = up.mac_start /\ up'.wlan0 = up.wlan0
        /\ up'.list = up.list
    BY <2>1 DEF BringInv, BringTypes
  <2>5. BringTypes'
    <3>1. fcu'.ram \in [Images -> SUBSET Nat]
      BY <2>1, <2>3 DEF BringInv, BringTypes
    <3>2. fcu'.confirmed \in [Images -> Nat]
      BY <2>3 DEF BringInv, BringTypes
    <3>3. up'.offset \in 0 .. FileBlocks
      BY <2>2, <2>4 DEF BringInv, BringTypes
    <3> QED
      BY <2>3, <2>4, <3>1, <3>2, <3>3 DEF BringInv, BringTypes
  <2>6. image \in BeforeStart /\ image \in BeforeLmac /\ image \notin Whole(image)
    BY ImagesAre DEF BeforeStart, BeforeLmac, Whole
  <2>7. AllWritten'
    <3>1. ~fcu.app /\ fcu.confirmed[image] = up.offset
      BY <2>2, <2>6 DEF BringInv, AllWritten
    <3>2. \A i \in Images : fcu'.confirmed[i] =
            IF i = image THEN up.offset + 1 ELSE fcu.confirmed[i]
      BY <2>3, <3>1 DEF BringInv, BringTypes
    <3>3. image # "start" /\ image \notin {"power", "port", "enumerate", "probe", "patch_table",
                                          "patch_config"}
      BY ImagesAre
    <3> QED
      BY <2>2, <2>3, <2>4, <2>6, <3>1, <3>2, <3>3 DEF BringInv, AllWritten, Whole
  <2>8. RadioInv'
    <3>1. image \notin {"map", "lmac", "register", "done"}
      BY ImagesAre
    <3> QED
      BY <2>2, <2>3, <2>4, <2>6, <3>1 DEF BringInv, RadioInv, RequestsTaken
  <2>9. ~fcu.app
    BY <2>2, <2>6 DEF BringInv, AllWritten
  <2> QED
    BY <2>3, <2>5, <2>7, <2>8, <2>9 DEF BringInv, StartedWhole
<1> QED
  BY <1>1, <1>2

LEMMA UploadKeeps ==
  ASSUME BringInv, NEW image \in Images, upload_file(image)
  PROVE  BringInv'
<1> USE BringUpAssumption
<1>1. CASE Fails
  BY <1>1, FailsKeeps
<1>2. CASE ToStep(After[image]) /\ UNCHANGED fcu
  <2>1. /\ fcu' = fcu /\ DOMAIN up' = DOMAIN up /\ up'.step = After[image] /\ up'.offset = 0
        /\ up'.request = up.request /\ up'.mac_start = up.mac_start /\ up'.wlan0 = up.wlan0
        /\ up'.list = up.list /\ up.step = image /\ up.offset = FileBlocks
    BY <1>2 DEF upload_file, At, ToStep, BringInv, BringTypes
  <2>2. /\ image \in BeforeStart /\ image \in BeforeLmac /\ image \notin {"register", "done"}
        /\ After[image] \in BeforeStart /\ After[image] \in BeforeLmac
        /\ After[image] \notin {"map", "start", "lmac", "register", "done"}
        /\ After[image] = "patch_config" => image = "fmac"
        /\ After[image] # "fmac" /\ image \notin Whole(image)
        /\ Whole(After[image]) = Whole(image) \cup {image}
        /\ After[image] \notin Whole(After[image]) /\ image # After[image]
    BY ImagesAre DEF After, BeforeStart, BeforeLmac, Whole
  <2>3. BringTypes'
    BY <2>1, <2>2 DEF BringInv, BringTypes
  <2>4. AllWritten'
    BY <2>1, <2>2 DEF BringInv, AllWritten
  <2>5. RadioInv'
    <3>1. up.request = 1 /\ ~up.mac_start /\ ~up.wlan0 /\ RequestsTaken
      BY <2>1, <2>2 DEF BringInv, RadioInv
    <3>2. RequestsTaken'
      BY <2>1, <3>1 DEF RequestsTaken
    <3> QED
      BY <2>1, <2>2, <3>1, <3>2 DEF RadioInv
  <2> QED
    BY <2>1, <2>3, <2>4, <2>5 DEF BringInv, StartedWhole
<1> QED
  BY <1>1, <1>2 DEF upload_file

LEMMA TableKeeps ==
  ASSUME BringInv, apply_patch_table \/ patch_config_d80
  PROVE  BringInv'
<1> USE BringUpAssumption
<1>1. CASE Fails
  BY <1>1, FailsKeeps
<1>2. CASE apply_patch_table /\ ~Fails
  <2>1. /\ fcu'.ram = fcu.ram /\ fcu'.confirmed = fcu.confirmed /\ fcu'.taken = fcu.taken
        /\ fcu'.device = fcu.device /\ fcu'.config = fcu.config /\ fcu'.app = fcu.app
        /\ DOMAIN fcu' = DOMAIN fcu /\ fcu'.table = TRUE
        /\ DOMAIN up' = DOMAIN up /\ up'.step = "fmac" /\ up'.offset = 0
        /\ up'.request = up.request /\ up'.mac_start = up.mac_start /\ up'.wlan0 = up.wlan0
        /\ up.step = "patch_table" /\ up'.list = up.list
    BY <1>2 DEF apply_patch_table, aic_command, At, BringInv, BringTypes
  <2>2. BringTypes'
    BY <2>1 DEF BringInv, BringTypes, BeforeLmac, BeforeStart
  <2>3. AllWritten'
    BY <2>1, ImagesAre DEF BringInv, AllWritten, Whole, BringTypes, BeforeStart
  <2>4. RadioInv'
    BY <2>1 DEF BringInv, RadioInv, RequestsTaken, BeforeLmac, BeforeStart
  <2>5. ~fcu.app
    BY <2>1 DEF BringInv, AllWritten, BeforeStart
  <2> QED
    BY <2>1, <2>2, <2>3, <2>4, <2>5 DEF BringInv, StartedWhole
<1>3. CASE patch_config_d80 /\ ~Fails
  <2>1. /\ fcu'.ram = fcu.ram /\ fcu'.confirmed = fcu.confirmed /\ fcu'.taken = fcu.taken
        /\ fcu'.device = fcu.device /\ fcu'.config = TRUE /\ fcu'.app = fcu.app
        /\ DOMAIN fcu' = DOMAIN fcu /\ fcu'.table = fcu.table /\ 0 \in fcu.ram["fmac"]
        /\ DOMAIN up' = DOMAIN up /\ up'.step = "start" /\ up'.offset = up.offset
        /\ up'.request = up.request /\ up'.mac_start = up.mac_start /\ up'.wlan0 = up.wlan0
        /\ up.step = "patch_config" /\ up'.list = up.list
    BY <1>3 DEF patch_config_d80, aic_command, At, BringInv, BringTypes
  <2>2. BringTypes'
    BY <2>1 DEF BringInv, BringTypes, BeforeLmac, BeforeStart
  <2>3. AllWritten'
    BY <2>1, ImagesAre DEF BringInv, AllWritten, Whole, BringTypes, BeforeStart
  <2>4. RadioInv'
    BY <2>1 DEF BringInv, RadioInv, RequestsTaken, BeforeLmac, BeforeStart
  <2>5. ~fcu.app
    BY <2>1 DEF BringInv, AllWritten, BeforeStart
  <2> QED
    BY <2>1, <2>2, <2>3, <2>4, <2>5 DEF BringInv, StartedWhole
<1> QED
  BY <1>1, <1>2, <1>3

(* The start: from here on nothing is written any more.                      *)
LEMMA StartKeeps ==
  ASSUME BringInv, bootrom_start
  PROVE  BringInv'
<1> USE BringUpAssumption
<1>1. CASE Fails
  BY <1>1, FailsKeeps
<1>2. CASE ~Fails
  <2>1. /\ fcu'.ram = fcu.ram /\ fcu'.confirmed = fcu.confirmed /\ fcu'.taken = fcu.taken
        /\ fcu'.config = fcu.config
        /\ DOMAIN fcu' = DOMAIN fcu /\ fcu'.table = fcu.table
        /\ DOMAIN up' = DOMAIN up /\ up'.step = "port_again" /\ up'.offset = up.offset
        /\ up'.request = up.request /\ up'.mac_start = up.mac_start /\ up'.wlan0 = up.wlan0
        /\ up.step = "start" /\ up'.list = up.list
    BY <1>2 DEF bootrom_start, aic_command, At, BringInv, BringTypes
  <2>2. BringTypes'
    BY <2>1 DEF BringInv, BringTypes, BeforeLmac, BeforeStart
  <2>3. AllWritten'
    BY <2>1 DEF AllWritten, BeforeStart
  <2>4. RadioInv'
    BY <2>1 DEF BringInv, RadioInv, RequestsTaken, BeforeLmac, BeforeStart
  <2>5. StartedWhole'
    BY <2>1, ImagesAre DEF BringInv, AllWritten, Whole, BeforeStart, StartedWhole
  <2> QED
    BY <2>2, <2>3, <2>4, <2>5 DEF BringInv
<1> QED
  BY <1>1, <1>2

LEMMA MapKeeps ==
  ASSUME BringInv, MapRuntime
  PROVE  BringInv'
<1> USE BringUpAssumption
<1>1. CASE Fails
  BY <1>1, FailsKeeps
<1>2. CASE ~Fails
  <2>1. /\ fcu' = fcu /\ DOMAIN up' = DOMAIN up /\ up'.step = "lmac" /\ up'.offset = 0
        /\ up'.request = up.request /\ up'.mac_start = up.mac_start /\ up'.wlan0 = up.wlan0
        /\ up'.list = up.list /\ up.step = "map" /\ up.pid = "runtime"
        /\ runtime_map(up.list).msg_in # 0
    BY <1>2 DEF MapRuntime, ToStep, At, BringInv, BringTypes
  <2>2. fcu.device = "runtime"
    BY <2>1 DEF BringInv, RadioInv
  <2>3. Separate(up.list)
    BY <2>1, MapIsSeparate DEF BringInv, RadioInv
  <2>4. OverRuntime'
    BY <2>1, <2>2, <2>3 DEF OverRuntime
  <2>5. BringTypes'
    BY <2>1 DEF BringInv, BringTypes
  <2>6. AllWritten'
    BY <2>1 DEF AllWritten, BeforeStart
  <2>7. RadioInv'
    BY <2>1, <2>4 DEF BringInv, RadioInv, RequestsTaken, BeforeLmac, BeforeStart
  <2> QED
    BY <2>1, <2>5, <2>6, <2>7 DEF BringInv, StartedWhole
<1> QED
  BY <1>1, <1>2

(* The requests to the runtime.                                              *)
LEMMA LmacKeeps ==
  ASSUME BringInv, LmacOther \/ LmacConfirmed \/ LmacGivesUp
  PROVE  BringInv'
<1> USE BringUpAssumption
<1>1. CASE Fails
  BY <1>1, FailsKeeps
<1>2. CASE LmacOther
  <2>1. /\ fcu' = fcu /\ DOMAIN up' = DOMAIN up /\ up'.step = up.step /\ up'.offset = up.offset
        /\ up'.request = up.request /\ up'.mac_start = up.mac_start /\ up'.wlan0 = up.wlan0
        /\ up'.list = up.list /\ up.step = "lmac"
    BY <1>2 DEF LmacOther, At, BringInv, BringTypes
  <2> QED
    BY <2>1 DEF BringInv, BringTypes, StartedWhole, AllWritten, BeforeStart, RadioInv, RequestsTaken,
       OverRuntime, BeforeLmac
<1>3. CASE LmacConfirmed /\ ~Fails
  <2>1. /\ DOMAIN fcu' = DOMAIN fcu /\ fcu'.device = fcu.device /\ fcu'.table = fcu.table
        /\ fcu'.config = fcu.config /\ fcu'.app = fcu.app /\ fcu'.ram = fcu.ram
        /\ fcu'.confirmed = fcu.confirmed
        /\ fcu'.taken = Append(fcu.taken, LmacRequests[up.request])
        /\ up.step = "lmac"
    BY <1>3 DEF LmacConfirmed, At, BringInv, BringTypes
  <2>2. /\ DOMAIN up' = DOMAIN up /\ up'.offset = up.offset
        /\ up'.wlan0 = up.wlan0 /\ up'.list = up.list
        /\ \/ /\ up.request = Len(LmacRequests) /\ up'.step = "register" /\ up'.mac_start = TRUE
              /\ up'.request = up.request
           \/ /\ up.request # Len(LmacRequests) /\ up'.step = "lmac"
              /\ up'.mac_start = up.mac_start /\ up'.request = up.request + 1
    BY <1>3, <2>1 DEF LmacConfirmed, BringInv, BringTypes
  <2>3. /\ up.request \in 1 .. Len(LmacRequests) /\ Len(LmacRequests) \in Nat
        /\ fcu.taken \in Seq(LmacTaken)
    BY RequestsAreSeq DEF BringInv, BringTypes
  <2>4. LmacRequests[up.request] \in LmacTaken
    BY <2>3, RequestsAreSeq, ElementOfSeq
  <2>5. fcu'.taken \in Seq(LmacTaken) /\ Len(fcu'.taken) = Len(fcu.taken) + 1
        /\ \A k \in 1 .. Len(fcu'.taken) : fcu'.taken[k] =
              IF k = Len(fcu.taken) + 1 THEN LmacRequests[up.request] ELSE fcu.taken[k]
    BY <2>1, <2>3, <2>4, AppendProperties
  <2>6. ~up.mac_start /\ ~up.wlan0 /\ Len(fcu.taken) = up.request - 1 /\ OverRuntime
        /\ \A k \in 1 .. Len(fcu.taken) : fcu.taken[k] = LmacRequests[k]
    BY <2>1 DEF BringInv, RadioInv, RequestsTaken
  <2>7. Len(fcu'.taken) = up.request
        /\ \A k \in 1 .. Len(fcu'.taken) : fcu'.taken[k] = LmacRequests[k]
    <3>1. Len(fcu'.taken) = up.request
      BY <2>3, <2>5, <2>6
    <3>2. ASSUME NEW k \in 1 .. Len(fcu'.taken) PROVE fcu'.taken[k] = LmacRequests[k]
      <4>1. CASE k = Len(fcu.taken) + 1
        <5>1. fcu'.taken[k] = LmacRequests[up.request]
          BY <2>5, <4>1
        <5>2. k = up.request
          BY <2>3, <2>6, <4>1
        <5> QED BY <5>1, <5>2
      <4>2. CASE k # Len(fcu.taken) + 1
        <5>1. fcu'.taken[k] = fcu.taken[k]
          BY <2>5, <4>2
        <5>2. k \in 1 .. Len(fcu.taken)
          BY <2>3, <2>6, <3>1, <4>2
        <5> QED BY <2>6, <5>1, <5>2
      <4> QED BY <4>1, <4>2
    <3> QED BY <3>1, <3>2
  <2>8. BringTypes'
    <3>1. up'.request \in 1 .. Len(LmacRequests)
      BY <2>2, <2>3
    <3> QED
      BY <2>1, <2>2, <2>5, <3>1 DEF BringInv, BringTypes
  <2>9. up'.mac_start => fcu'.taken = LmacRequests
    <3>1. SUFFICES ASSUME up'.mac_start PROVE fcu'.taken = LmacRequests
      OBVIOUS
    <3>2. Len(fcu'.taken) = Len(LmacRequests)
      BY <2>2, <2>6, <2>7, <3>1
    <3> QED
      BY <2>5, <2>7, <3>2, RequestsAreSeq, SeqEqual
  <2>10. OverRuntime'
    BY <2>1, <2>2, <2>6 DEF OverRuntime
  <2>11. RequestsTaken'
    BY <2>2, <2>3, <2>7 DEF RequestsTaken
  <2>12. RadioInv'
    BY <2>1, <2>2, <2>6, <2>9, <2>10, <2>11 DEF RadioInv, BeforeLmac, BeforeStart
  <2>13. AllWritten'
    BY <2>2 DEF AllWritten, BeforeStart
  <2> QED
    BY <2>1, <2>8, <2>12, <2>13 DEF BringInv, StartedWhole
<1> QED
  BY <1>1, <1>2, <1>3 DEF LmacGivesUp

LEMMA RegisterKeeps ==
  ASSUME BringInv, register
  PROVE  BringInv'
<1>1. /\ fcu' = fcu /\ DOMAIN up' = DOMAIN up /\ up'.step = "done" /\ up'.offset = up.offset
      /\ up'.request = up.request /\ up'.mac_start = up.mac_start
      /\ up'.list = up.list /\ up.step = "register"
      /\ up'.wlan0 = up.mac_start \/ (up'.wlan0 = up.wlan0 /\ up.mac_start)
  BY DEF register, At, BringInv, BringTypes
<1> QED
  BY <1>1 DEF BringInv, BringTypes, StartedWhole, AllWritten, BeforeStart, RadioInv, RequestsTaken,
     OverRuntime, BeforeLmac

LEMMA BringStep == BringInv /\ [BringNext]_bringVars => BringInv'
<1> SUFFICES ASSUME BringInv, [BringNext]_bringVars PROVE BringInv'
  OBVIOUS
<1>1. CASE UNCHANGED bringVars
  BY <1>1 DEF bringVars, BringInv, BringTypes, StartedWhole, AllWritten, RadioInv, RequestsTaken, OverRuntime
<1>2. ASSUME NEW here, NEW next, ehci1_checkpoint(here, next),
             <<here, next>> \in {<<"port", "enumerate">>, <<"port_again", "enumerate_again">>}
      PROVE  BringInv'
  BY <1>2, FailsKeeps, MovesKeep DEF ehci1_checkpoint
<1>3. CASE bootrom_read32 \/ NotBoot
  BY <1>3, FailsKeeps, MovesKeep DEF bootrom_read32, NotBoot
<1>4. CASE load_firmware
  BY <1>4, BlockKeeps, UploadKeeps, TableKeeps, StartKeeps DEF load_firmware
<1> QED
  BY <1>1, <1>2, <1>3, <1>4, PowerKeeps, EnumerateKeeps, MapKeeps, LmacKeeps, RegisterKeeps
     DEF BringNext

LEMMA BringIsSound == BringInv => BroughtUp
  BY DEF BringInv, BroughtUp, RadioBehindWlan0, RadioInv, OverRuntime

(* The bring-up goes on only over what it knows: the application starts      *)
(* after all its images, and wlan0 is there only over a radio that has       *)
(* confirmed every request, for any number of blocks and whatever the chip,  *)
(* the bus and the card answer.                                              *)
THEOREM RadioIsBroughtUp == BringSpec => []BroughtUp
BY BringIsSound, BringStarts, BringStep, PTL DEF BringSpec
-----------------------------------------------------------------------------
(* 3. The scan table.                                                       *)
ScanEntries == [bss : DOMAIN Bss, rssi : Levels]
Ids(entries) == {entries[k].bss : k \in DOMAIN entries}
HeardOf(level) == {b \in DOMAIN Bss : level[b] > 0}

(* The table is what was heard last of each network, and full or complete.   *)
Union(entries, level) ==
  /\ Cardinality(Ids(entries)) = Len(entries) /\ Len(entries) <= TableMax
  /\ \A k \in DOMAIN entries : entries[k].rssi = level[entries[k].bss]
  /\ Ids(entries) \subseteq HeardOf(level)
  /\ Len(entries) < TableMax => Ids(entries) = HeardOf(level)

ScanTypes == table \in Seq(ScanEntries) /\ last \in [DOMAIN Bss -> {0} \cup Levels]

LEMMA UnionIs == TableIsUnion <=> Union(table, last)
  BY DEF TableIsUnion, Union, Ids, HeardOf

(* An indication refreshes the entry of its network or adds one at the end.  *)
LEMMA ResultKeeps ==
  ASSUME ScanTypes, Union(table, last), NEW b \in DOMAIN Bss, NEW rssi \in Levels
  PROVE  /\ scan_result(b, rssi) \in Seq(ScanEntries)
         /\ Union(scan_result(b, rssi), [last EXCEPT ![b] = rssi])
  <1> DEFINE new == scan_result(b, rssi)
             level == [last EXCEPT ![b] = rssi]
  <1>1. HeardOf(level) = HeardOf(last) \cup {b}
    BY DEF HeardOf, ScanTypes, Levels
  <1>2. CASE b \in Ids(table)
    <2>1. new = [k \in DOMAIN table |->
            IF table[k].bss = b THEN [table[k] EXCEPT !.rssi = rssi] ELSE table[k]]
      BY <1>2 DEF scan_result, Ids
    <2>2. DOMAIN new = DOMAIN table /\ DOMAIN table = 1 .. Len(table) /\ Len(table) \in Nat
      BY <2>1 DEF ScanTypes
    <2>3. \A k \in DOMAIN table : /\ table[k] \in ScanEntries /\ new[k] \in ScanEntries
                                  /\ new[k].bss = table[k].bss
                                  /\ new[k].rssi = level[new[k].bss]
      <3> SUFFICES ASSUME NEW k \in DOMAIN table
                   PROVE  /\ table[k] \in ScanEntries /\ new[k] \in ScanEntries
                          /\ new[k].bss = table[k].bss
                          /\ new[k].rssi = level[new[k].bss]
        OBVIOUS
      <3>1. table[k] \in ScanEntries /\ table[k].rssi = last[table[k].bss]
        BY DEF ScanTypes, Union
      <3>2. new[k] = IF table[k].bss = b THEN [table[k] EXCEPT !.rssi = rssi] ELSE table[k]
        BY <2>1
      <3> QED BY <3>1, <3>2 DEF ScanEntries, ScanTypes
    <2>4. new \in Seq(ScanEntries) /\ Len(new) = Len(table)
      <3>1. new \in [1 .. Len(table) -> ScanEntries]
        BY <2>1, <2>2, <2>3
      <3> QED BY <2>2, <3>1, SeqDef, LenProperties
    <2>5. Ids(new) = Ids(table)
      BY <2>2, <2>3 DEF Ids
    <2> QED BY <1>1, <1>2, <2>2, <2>3, <2>4, <2>5 DEF Union
  <1>3. CASE b \notin Ids(table)
    <2>1. /\ \A k \in DOMAIN table : level[table[k].bss] = last[table[k].bss]
          /\ \A k \in DOMAIN table : table[k] \in ScanEntries
      <3>1. \A k \in DOMAIN table : table[k] \in ScanEntries
        BY ElementOfSeq, LenProperties DEF ScanTypes
      <3>2. \A k \in DOMAIN table : table[k].bss # b /\ table[k].bss \in DOMAIN Bss
        BY <1>3, <3>1 DEF Ids, ScanEntries
      <3> QED BY <3>1, <3>2 DEF ScanTypes
    <2>2. CASE Len(table) < TableMax
      <3> DEFINE entry == [bss |-> b, rssi |-> rssi]
      <3>1. new = Append(table, entry) /\ entry \in ScanEntries
        BY <1>3, <2>2 DEF scan_result, Ids, ScanEntries
      <3>2. /\ new \in Seq(ScanEntries) /\ Len(new) = Len(table) + 1 /\ Len(table) \in Nat
            /\ DOMAIN new = 1 .. Len(table) + 1 /\ DOMAIN table = 1 .. Len(table)
            /\ \A k \in 1 .. Len(table) : new[k] = table[k]
            /\ new[Len(table) + 1] = entry
        <4> HIDE DEF new, entry
        <4> QED BY <3>1 DEF ScanTypes
      <3> HIDE DEF new
      <3>3. Ids(new) = Ids(table) \cup {b}
        BY <3>2 DEF Ids
      <3>4. IsFiniteSet(Ids(table))
        <4> DEFINE f == [k \in 1 .. Len(table) |-> table[k].bss]
        <4>1. f \in Surjection(1 .. Len(table), Ids(table))
          BY <3>2 DEF Ids, Surjection
        <4>0. Len(table) \in Int
          BY <3>2
        <4>2. IsFiniteSet(1 .. Len(table))
          BY <4>0, FS_Interval
        <4> QED BY <4>1, <4>2, FS_Surjection
      <3>5. Cardinality(Ids(new)) = Len(new)
        <4>1. Cardinality(Ids(table)) = Len(table)
          BY DEF Union
        <4>2. Cardinality(Ids(table) \cup {b}) = Cardinality(Ids(table)) + 1
          BY <1>3, <3>4, FS_AddElement
        <4> QED BY <3>2, <3>3, <4>1, <4>2
      <3>6. \A k \in DOMAIN new : new[k].rssi = level[new[k].bss]
        BY <2>1, <3>2 DEF Union, ScanTypes
      <3>7. Len(new) <= TableMax
        BY <2>2, <3>2, ScanAssumption
      <3>8. Ids(table) = HeardOf(last)
        BY <2>2 DEF Union
      <3> HIDE DEF level
      <3>9. Ids(new) = HeardOf(level)
        BY <1>1, <3>3, <3>8
      <3>10. Union(new, level)
        BY <3>5, <3>6, <3>7, <3>9 DEF Union
      <3>11. new \in Seq(ScanEntries)
        BY <3>2
      <3> QED BY <3>10, <3>11 DEF new, level
    <2>3. CASE ~(Len(table) < TableMax)
      <3>1. new = table BY <1>3, <2>3 DEF scan_result, Ids
      <3> QED BY <1>1, <2>1, <2>3, <3>1, ScanAssumption DEF Union, ScanTypes
    <2> QED BY <2>2, <2>3
  <1> QED BY <1>2, <1>3

LEMMA EmptyUnion ==
  ASSUME NEW level, Ids(<<>>) = {}, HeardOf(level) = {} PROVE Union(<<>>, level)
  <1>1. Cardinality({}) = 0
    BY FS_EmptySet
  <1>2. Len(<<>>) = 0 /\ DOMAIN <<>> = {}
    OBVIOUS
  <1>3. 0 <= TableMax
    BY ScanAssumption
  <1>4. Cardinality(Ids(<<>>)) = Len(<<>>)
    BY <1>1, <1>2
  <1> QED BY <1>2, <1>3, <1>4 DEF Union

LEMMA ScanStarts == ScanInit => ScanTypes /\ Union(table, last)
  <1> SUFFICES ASSUME ScanInit PROVE ScanTypes /\ Union(table, last)
    OBVIOUS
  <1>1. table = <<>> /\ last = [b \in DOMAIN Bss |-> 0]
    BY DEF ScanInit
  <1>2. ScanTypes
    BY <1>1 DEF ScanTypes, Levels
  <1>3. Ids(table) = {} /\ HeardOf(last) = {}
    BY <1>1 DEF Ids, HeardOf
  <1> QED BY <1>1, <1>2, <1>3, EmptyUnion

LEMMA ScanStep ==
  ScanTypes /\ Union(table, last) /\ [ScanNext]_scanVars => ScanTypes' /\ Union(table, last)'
  <1> SUFFICES ASSUME ScanTypes, Union(table, last), [ScanNext]_scanVars
               PROVE  ScanTypes' /\ Union(table', last')
    BY DEF Union, Ids, HeardOf
  <1>1. CASE ScanBegins
    <2>1. table' = <<>> /\ last' = [b \in DOMAIN Bss |-> 0]
      BY <1>1 DEF ScanBegins
    <2>2. ScanTypes'
      BY <2>1 DEF ScanTypes, Levels
    <2>3. Ids(table') = {} /\ HeardOf(last') = {}
      BY <2>1 DEF Ids, HeardOf
    <2> QED BY <2>1, <2>2, <2>3, EmptyUnion
  <1>2. CASE Indication
    <2>1. PICK b \in Heard(Bands[scan.band]), rssi \in Levels :
            table' = scan_result(b, rssi) /\ last' = [last EXCEPT ![b] = rssi]
      BY <1>2 DEF Indication
    <2>2. b \in DOMAIN Bss
      BY DEF Heard
    <2>3. table' \in Seq(ScanEntries) /\ Union(table', last')
      BY <2>1, <2>2, ResultKeeps
    <2> QED BY <2>1, <2>3 DEF ScanTypes
  <1>3. CASE scan_once \/ Find \/ UNCHANGED scanVars
    BY <1>3 DEF scan_once, Find, scanVars, ScanTypes
  <1> QED BY <1>1, <1>2, <1>3 DEF ScanNext

(* Whatever is heard, in whichever order, and however often a dwell is       *)
(* repeated: the table has each network once, at the level it was last heard,*)
(* and misses one only when it is full (scan_result of a733_wifi_usb.c).     *)
THEOREM TableIsSound == ScanSpec => []TableIsUnion
  <1>1. ScanSpec => [](ScanTypes /\ Union(table, last))
    BY ScanStarts, ScanStep, PTL DEF ScanSpec
  <1> QED BY <1>1, UnionIs, PTL
-----------------------------------------------------------------------------
(* Proofs about FtpServer: the accounts are there as long as any worker is,  *)
(* for any number of connections, sessions and starts.  The liveness of a    *)
(* stop stays with TLC.                                                      *)

(* The invariant.  AccountsOutlive is not inductive: that a start, which     *)
(* gives the command new accounts, and the freeing of the old ones find no   *)
(* session depends on where the listener is.                                 *)
ServerInv ==
  /\ ServerTypeOK
  /\ clients = Cardinality(OpenSessions)
  /\ accounts = "there" <=> listener \in {"loop", "accept", "create", "close", "drain"}
  /\ g_server = "none" <=> listener = "none"
  /\ listener \in {"none", "forget"} => OpenSessions = {}

(* The sessions are finitely many, so their number counts them. *)
LEMMA SessionsAreFinite ==
  /\ IsFiniteSet(OpenSessions)
  /\ Cardinality(OpenSessions) \in Nat
  /\ Cardinality(OpenSessions) = 0 <=> OpenSessions = {}
<1>1. IsFiniteSet(OpenSessions)
  BY FtpServerAssumption, FS_Subset DEF OpenSessions
<1>. QED  BY <1>1, FS_CardinalityType, FS_EmptySet

(* A worker that moves inside its session changes no count. *)
LEMMA MovingKeepsSessions ==
  ASSUME ServerInv, NEW w \in FtpWorkers, session[w] # "none", NEW v, v # "none",
         session' = [session EXCEPT ![w] = v]
  PROVE  OpenSessions' = OpenSessions
BY DEF ServerInv, ServerTypeOK, OpenSessions

(* An accepted connection adds its session. *)
LEMMA AcceptAddsOne ==
  ASSUME ServerInv, NEW w \in FtpWorkers, session[w] = "none",
         session' = [session EXCEPT ![w] = "counted"]
  PROVE  Cardinality(OpenSessions') = Cardinality(OpenSessions) + 1
<1>1. OpenSessions' = OpenSessions \cup {w} /\ w \notin OpenSessions
  BY DEF ServerInv, ServerTypeOK, OpenSessions
<1>. QED  BY <1>1, SessionsAreFinite, FS_AddElement

(* A session that ends takes one away. *)
LEMMA EndTakesOne ==
  ASSUME ServerInv, NEW w \in FtpWorkers, session[w] # "none",
         session' = [session EXCEPT ![w] = "none"]
  PROVE  /\ OpenSessions' \subseteq OpenSessions
         /\ OpenSessions # {}
         /\ Cardinality(OpenSessions') = Cardinality(OpenSessions) - 1
<1>1. OpenSessions' = OpenSessions \ {w} /\ w \in OpenSessions
  BY DEF ServerInv, ServerTypeOK, OpenSessions
<1>. QED  BY <1>1, SessionsAreFinite, FS_RemoveElement

-----------------------------------------------------------------------------
(* The server starts without sessions. *)
LEMMA ServerInitHolds == ServerInit => ServerInv
<1>. SUFFICES ASSUME ServerInit PROVE ServerInv
  OBVIOUS
<1>1. OpenSessions = {}
  BY DEF ServerInit, OpenSessions
<1>2. Cardinality(OpenSessions) = 0
  BY <1>1, SessionsAreFinite
<1>3. ServerTypeOK
  <2>1. clients \in 0 .. MaxSessions /\ starts \in 0 .. Starts
    BY FtpServerAssumption DEF ServerInit
  <2>. QED  BY <2>1 DEF ServerInit, ServerTypeOK
<1>4. accounts = "none" /\ listener = "none" /\ g_server = "none" /\ clients = 0
  BY DEF ServerInit
<1>. QED  BY <1>1, <1>2, <1>3, <1>4 DEF ServerInv

(* The steps of the command and the listener that touch no session. *)
LEMMA ListenerSteps ==
  ASSUME ServerInv,
         \/ ftpd_start \/ ftpd_stop \/ server_task \/ AcceptFails \/ TooManyClients
         \/ ClosesListener \/ Forgets
  PROVE  ServerInv'
<1>1. session' = session /\ OpenSessions' = OpenSessions /\ clients' = clients
  BY DEF ftpd_start, ftpd_stop, server_task, AcceptFails, TooManyClients, ClosesListener,
         Forgets, OpenSessions
<1>2. CASE ftpd_start
  <2>1. starts' \in 0 .. Starts
    BY <1>2, FtpServerAssumption DEF ftpd_start, ServerInv, ServerTypeOK
  <2>2. g_server' \in {"none", "open", "closed"} /\ g_stop' \in BOOLEAN
    BY <1>2 DEF ftpd_start, ServerInv, ServerTypeOK
  <2>3. listener' \in {"none", "loop", "accept", "create", "close", "drain", "forget"}
    BY <1>2 DEF ftpd_start, ServerInv, ServerTypeOK
  <2>4. accounts' \in {"none", "there", "freed"}
    BY <1>2 DEF ftpd_start, ServerInv, ServerTypeOK
  <2>5. ServerTypeOK'
    BY <1>1, <2>1, <2>2, <2>3, <2>4 DEF ServerInv, ServerTypeOK
  <2>6. (accounts' = "there") <=> (listener' \in {"loop", "accept", "create", "close", "drain"})
    <3>1. CASE accounts' = "there" /\ listener' = "loop"
      BY <3>1
    <3>2. CASE UNCHANGED <<accounts, listener>>
      BY <3>2 DEF ServerInv
    <3>. QED  BY <1>2, <3>1, <3>2 DEF ftpd_start
  <2>7. (g_server' = "none" <=> listener' = "none") /\ OpenSessions = {}
    BY <1>2 DEF ftpd_start, ServerInv
  <2>. QED  BY <1>1, <2>5, <2>6, <2>7 DEF ServerInv
<1>3. CASE ftpd_stop
  BY <1>1, <1>3 DEF ftpd_stop, ServerInv, ServerTypeOK
<1>4. CASE server_task
  BY <1>1, <1>4 DEF server_task, ServerInv, ServerTypeOK
<1>5. CASE AcceptFails
  BY <1>1, <1>5 DEF AcceptFails, ServerInv, ServerTypeOK
<1>6. CASE TooManyClients
  BY <1>1, <1>6 DEF TooManyClients, ServerInv, ServerTypeOK
<1>7. CASE ClosesListener
  BY <1>1, <1>7 DEF ClosesListener, ServerInv, ServerTypeOK
<1>8. CASE Forgets
  BY <1>1, <1>8 DEF Forgets, ServerInv, ServerTypeOK
<1>. QED  BY <1>2, <1>3, <1>4, <1>5, <1>6, <1>7, <1>8

(* The accounts are freed when the count is zero, and then no session is.    *)
LEMMA CloseStep == ASSUME ServerInv, ftpd_close PROVE ServerInv'
<1>1. OpenSessions = {} /\ OpenSessions' = OpenSessions
  BY SessionsAreFinite DEF ServerInv, ftpd_close, Freed, OpenSessions
<1>. QED  BY <1>1 DEF ServerInv, ServerTypeOK, ftpd_close, Freed

(* The steps of one worker. *)
LEMMA WorkerSteps ==
  ASSUME ServerInv, NEW w \in FtpWorkers,
         \/ ftpd_session_accepts(w) \/ ftpd_startworker(w)
         \/ ftpd_account_login(w) \/ NextCommand(w) \/ WorkerLeaves(w) \/ ftpd_uncount(w)
  PROVE  ServerInv'
<1>1. CASE ftpd_session_accepts(w)
  <2>1. Cardinality(OpenSessions') = Cardinality(OpenSessions) + 1
    BY <1>1, AcceptAddsOne DEF ftpd_session_accepts
  <2>2. ServerTypeOK'
    BY <1>1, FtpServerAssumption DEF ftpd_session_accepts, ServerInv, ServerTypeOK
  <2>. QED  BY <1>1, <2>1, <2>2 DEF ftpd_session_accepts, ServerInv
<1>2. CASE ftpd_startworker(w)
  <2>1. OpenSessions' = OpenSessions
    BY <1>2, MovingKeepsSessions DEF ftpd_startworker
  <2>2. ServerTypeOK'
    BY <1>2 DEF ftpd_startworker, ServerInv, ServerTypeOK
  <2>. QED  BY <1>2, <2>1, <2>2 DEF ftpd_startworker, ServerInv
<1>3. CASE ftpd_account_login(w) \/ NextCommand(w) \/ WorkerLeaves(w)
  <2>1. OpenSessions' = OpenSessions
    BY <1>3, MovingKeepsSessions DEF ftpd_account_login, NextCommand, WorkerLeaves
  <2>2. ServerTypeOK'
    BY <1>3 DEF ftpd_account_login, NextCommand, WorkerLeaves, ServerInv, ServerTypeOK
  <2>. QED
    BY <1>3, <2>1, <2>2 DEF ftpd_account_login, NextCommand, WorkerLeaves, ServerInv
<1>4. CASE ftpd_uncount(w)
  <2>1. /\ OpenSessions' \subseteq OpenSessions
        /\ OpenSessions # {}
        /\ Cardinality(OpenSessions') = Cardinality(OpenSessions) - 1
    BY <1>4, EndTakesOne DEF ftpd_uncount, Uncounted
  <2>2. clients > 0 /\ clients' = clients - 1
    BY <1>4, <2>1, SessionsAreFinite DEF ftpd_uncount, ServerInv, ServerTypeOK
  <2>3. ServerTypeOK'
    BY <1>4, <2>2, FtpServerAssumption DEF ftpd_uncount, Uncounted, ServerInv, ServerTypeOK
  <2>. QED  BY <1>4, <2>1, <2>2, <2>3 DEF ftpd_uncount, Uncounted, ServerInv
<1>. QED  BY <1>1, <1>2, <1>3, <1>4

LEMMA ServerStep == ServerInv /\ [ServerNext]_serverVars => ServerInv'
<1>. SUFFICES ASSUME ServerInv, [ServerNext]_serverVars PROVE ServerInv'
  OBVIOUS
<1>1. CASE UNCHANGED serverVars
  BY <1>1 DEF serverVars, ServerInv, ServerTypeOK, OpenSessions
<1>2. CASE ServerNext
  BY <1>2, ListenerSteps, CloseStep, WorkerSteps DEF ServerNext
<1>. QED  BY <1>1, <1>2

LEMMA ServerIsSound == ServerInv => AccountsOutlive
BY DEF ServerInv, ServerTypeOK, AccountsOutlive

-----------------------------------------------------------------------------
(* The accounts and the verifier outlive every worker, and the count that    *)
(* ftpd_close waits for is the number of sessions (ftpd_close,               *)
(* ftpd_freesession).                                                        *)
THEOREM AccountsOutliveWorkers == ServerSpec => []AccountsOutlive
BY ServerIsSound, ServerInitHolds, ServerStep, PTL DEF ServerSpec

-----------------------------------------------------------------------------
(* Uploads that are interrupted and resumed, for a file of any length, any   *)
(* number of workers and any number of interruptions.  The inductive         *)
(* invariant says where an upload stands: one worker is alive (the client    *)
(* waits for the one it left behind), every file is a beginning of the       *)
(* client's, and the buffers on their way are those that follow what is      *)
(* stored.  Between two commands nothing is on its way, and what the client  *)
(* was told still holds.                                                     *)

(* A record with these fields and no others, for the provers.                *)
Has(r, fields) == r = [x \in fields |-> r[x]]
SessionFields == {"worker", "user", "loggedin", "restartpos", "renamefrom", "data", "cmd", "pos",
                  "inbox", "fin"}
ClientFields == {"active", "offset", "known", "next", "got", "acked", "losses"}
Commands == {"none", "retr", "stor", "appe"}

(* A file that holds the first k buffers, and m buffers that follow them.    *)
Beginning(k) == [i \in 1 .. k |-> i]
Following(k, m) == [i \in 1 .. m |-> k + i]

Size == Len(Content("part"))

SessionTyped(r) ==
  /\ Has(r, SessionFields)
  /\ r.worker \in {"none", "command", "stream"} /\ r.cmd \in Commands
  /\ r.restartpos \in 0 .. Buffers /\ r.renamefrom \in {"none", "part"}
  /\ r.worker = "stream" <=> r.data = "connected"
  /\ \E a \in Nat, m \in 0 .. InFlight : r.inbox = Following(a, m)

ClientTyped(c) ==
  /\ Has(c, ClientFields)
  /\ c.active \in Workers \cup {NoWorker} /\ c.acked \in BOOLEAN

SessionTypes ==
  /\ Has(ftp, Workers) /\ \A w \in Workers : SessionTyped(ftp[w])
  /\ ClientTyped(client)

(* The client waits, so one worker at most is alive.                         *)
OneWorker ==
  /\ \A v, w \in Workers : ftp[v].worker # "none" /\ ftp[w].worker # "none" => v = w
  /\ \A w \in Workers : client.active = w => ftp[w].worker # "none"

(* Every file is a beginning of the client's.                                *)
Beginnings ==
  /\ DOMAIN files \subseteq Names
  /\ \A n \in DOMAIN files : \E k \in 0 .. Buffers : files[n] = Beginning(k)
  /\ "model" \in DOMAIN files => files["model"] = Original

(* What the client was told, and between two commands it is still true.      *)
Told ==
  /\ client.acked => /\ "part" \in DOMAIN files /\ files["part"] = Original
                     /\ \A w \in Workers : ftp[w].worker # "stream"
  /\ \A w \in Workers : client.active = w /\ ftp[w].worker = "command" =>
       /\ ftp[w].restartpos = client.offset
       /\ client.offset \in {0, Size} /\ client.known \in {-1, Size}
       /\ ftp[w].inbox = <<>> /\ ftp[w].fin = FALSE

(* What is on its way follows what is stored.                                *)
OnItsWay ==
  \A w \in Workers : Streaming(w, {"stor", "appe"}) =>
    \E m \in 0 .. InFlight :
      /\ ftp[w].inbox = Following(Size, m) /\ Size + m <= Buffers
      /\ "part" \in DOMAIN files
      /\ ftp[w].cmd = "stor" => ftp[w].pos = Size
      /\ client.active = w => client.next = Size + m /\ (ftp[w].fin => client.next = Buffers)

FtpInv == SessionTypes /\ OneWorker /\ Beginnings /\ Told /\ OnItsWay
-----------------------------------------------------------------------------
(* Sequences of buffers.                                                     *)
LEMMA BeginningIs ==
  ASSUME NEW k \in Nat
  PROVE  /\ Beginning(k) \in Seq(Nat) /\ Len(Beginning(k)) = k
         /\ \A i \in 1 .. k : Beginning(k)[i] = i
BY DEF Beginning

LEMMA FollowingIs ==
  ASSUME NEW k \in Nat, NEW m \in Nat
  PROVE  /\ Following(k, m) \in Seq(Nat) /\ Len(Following(k, m)) = m
         /\ \A i \in 1 .. m : Following(k, m)[i] = k + i
BY DEF Following

LEMMA NothingFollows == \A k \in Nat : Following(k, 0) = <<>>
  <1> TAKE k \in Nat
  <1>1. Following(k, 0) \in Seq(Nat) /\ Len(Following(k, 0)) = 0
    BY FollowingIs
  <1> QED BY <1>1, EmptySeq

LEMMA OneMoreFollows ==
  ASSUME NEW k \in Nat, NEW m \in Nat
  PROVE  Append(Following(k, m), k + m + 1) = Following(k, m + 1)
BY DEF Following

LEMMA FirstIsTaken ==
  ASSUME NEW k \in Nat, NEW m \in Nat \ {0}
  PROVE  /\ Following(k, m)[1] = k + 1
         /\ Tail(Following(k, m)) = Following(k + 1, m - 1)
  <1>1. Following(k, m)[1] = k + 1
    BY FollowingIs
  <1>2. Tail(Following(k, m)) = Following(k + 1, m - 1)
    <2> DEFINE s == Following(k, m)
    <2>1. s \in Seq(Nat) /\ Len(s) = m /\ \A i \in 1 .. m : s[i] = k + i
      BY FollowingIs
    <2>2. s # <<>>
      BY <2>1
    <2> HIDE DEF s
    <2>3. /\ Tail(s) \in Seq(Nat) /\ Len(Tail(s)) = m - 1
          /\ \A i \in 1 .. m - 1 : Tail(s)[i] = s[i + 1]
      BY <2>1, <2>2, HeadTailProperties
    <2> DEFINE t == Following(k + 1, m - 1)
    <2>4. t \in Seq(Nat) /\ Len(t) = m - 1 /\ \A i \in 1 .. m - 1 : t[i] = (k + 1) + i
      <3>1. k + 1 \in Nat /\ m - 1 \in Nat
        OBVIOUS
      <3> QED BY <3>1, FollowingIs
    <2> HIDE DEF t
    <2>5. \A i \in 1 .. m - 1 : Tail(s)[i] = t[i]
      BY <2>1, <2>3, <2>4
    <2>6. Tail(s) = t
      BY <2>3, <2>4, <2>5, SeqEqual
    <2> QED BY <2>6 DEF s, t
  <1> QED BY <1>1, <1>2

LEMMA WrittenAtTheEnd ==
  ASSUME NEW k \in Nat
  PROVE  Written(Beginning(k), k, k + 1) = Beginning(k + 1)
  <1>1. Len(Beginning(k)) = k /\ \A i \in 1 .. k : Beginning(k)[i] = i
    BY BeginningIs
  <1>2. Written(Beginning(k), k, k + 1) =
          [i \in 1 .. k + 1 |-> IF i = k + 1 THEN k + 1 ELSE IF i <= k THEN Beginning(k)[i] ELSE 0]
    <2>1. (IF k + 1 > k THEN k + 1 ELSE k) = k + 1
      OBVIOUS
    <2> QED BY <1>1, <2>1 DEF Written
  <1>3. \A i \in 1 .. k + 1 :
          (IF i = k + 1 THEN k + 1 ELSE IF i <= k THEN Beginning(k)[i] ELSE 0) = i
    BY <1>1
  <1> QED BY <1>2, <1>3 DEF Beginning

LEMMA CutIsBeginning ==
  ASSUME NEW k \in Nat, NEW j \in 0 .. k
  PROVE  SubSeq(Beginning(k), 1, j) = Beginning(j)
  <1>1. \A i \in 1 .. j : Beginning(k)[i] \in Nat /\ Beginning(k)[i] = i
    <2>1. \A i \in 1 .. k : Beginning(k)[i] = i
      BY BeginningIs
    <2> QED BY <2>1
  <1>2. /\ SubSeq(Beginning(k), 1, j) \in Seq(Nat)
        /\ Len(SubSeq(Beginning(k), 1, j)) = IF 1 <= j THEN j - 1 + 1 ELSE 0
        /\ \A i \in 1 .. j - 1 + 1 : SubSeq(Beginning(k), 1, j)[i] = Beginning(k)[1 + i - 1]
    BY <1>1, SubSeqProperties
  <1>3. Len(SubSeq(Beginning(k), 1, j)) = j
    BY <1>2
  <1>4. \A i \in 1 .. j : SubSeq(Beginning(k), 1, j)[i] = i
    <2> TAKE i \in 1 .. j
    <2>1. i \in 1 .. j - 1 + 1 /\ 1 + i - 1 = i
      OBVIOUS
    <2> QED BY <1>1, <1>2, <2>1
  <1>5. Beginning(j) \in Seq(Nat) /\ Len(Beginning(j)) = j /\ \A i \in 1 .. j : Beginning(j)[i] = i
    BY BeginningIs
  <1> QED BY <1>2, <1>3, <1>4, <1>5, SeqEqual

LEMMA WholeIs == Original = Beginning(Buffers)
BY DEF Original, Beginning

LEMMA BeginningIsPrefix ==
  ASSUME NEW k \in 0 .. Buffers PROVE IsPrefix(Beginning(k), Original)
  <1> USE FtpConstants
  <1>1. Len(Beginning(k)) = k /\ Len(Original) = Buffers
    BY BeginningIs, WholeIs
  <1>2. SubSeq(Beginning(k), 1, k) = Beginning(k) /\ SubSeq(Original, 1, k) = Beginning(k)
    BY CutIsBeginning, WholeIs
  <1> QED BY <1>1, <1>2 DEF IsPrefix

(* What "part" holds.                                                        *)
LEMMA PartIs ==
  ASSUME Beginnings
  PROVE  Size \in 0 .. Buffers /\ Content("part") = Beginning(Size)
  <1> USE FtpConstants
  <1>1. CASE "part" \in DOMAIN files
    <2>1. PICK k \in 0 .. Buffers : files["part"] = Beginning(k)
      BY <1>1 DEF Beginnings
    <2>2. Content("part") = Beginning(k)
      BY <1>1, <2>1 DEF Content
    <2>3. Len(Beginning(k)) = k
      BY BeginningIs
    <2> QED BY <2>2, <2>3 DEF Size
  <1>2. CASE "part" \notin DOMAIN files
    <2>1. Content("part") = <<>>
      BY <1>2 DEF Content
    <2>2. Beginning(0) \in Seq(Nat) /\ Len(Beginning(0)) = 0
      BY BeginningIs
    <2>3. Beginning(0) = <<>>
      BY <2>2, EmptySeq
    <2> QED BY <2>1, <2>2, <2>3 DEF Size
  <1> QED BY <1>1, <1>2

LEMMA StoredIs ==
  ASSUME Beginnings, NEW k \in 0 .. Buffers, files' = Stored("part", Beginning(k))
  PROVE  /\ Beginnings' /\ Size' = k
         /\ "part" \in DOMAIN files' /\ files'["part"] = Beginning(k)
  <1> USE FtpConstants
  <1>1. /\ DOMAIN files' = DOMAIN files \cup {"part"}
        /\ files'["part"] = Beginning(k)
        /\ \A n \in DOMAIN files \ {"part"} : files'[n] = files[n]
    BY DEF Stored
  <1>2. Beginnings'
    BY <1>1 DEF Beginnings, Names
  <1>3. Size' = k
    BY <1>1, BeginningIs DEF Size, Content
  <1> QED BY <1>1, <1>2, <1>3

-----------------------------------------------------------------------------
(* What a step does to the session w leaves the others alone.                *)
LEMMA SetIs ==
  ASSUME SessionTypes, NEW w \in Workers, NEW r, SessionTyped(r), Set(w, r)
  PROVE  /\ Has(ftp', Workers) /\ ftp'[w] = r
         /\ \A v \in Workers \ {w} : ftp'[v] = ftp[v]
         /\ \A v \in Workers : SessionTyped(ftp'[v])
  <1>1. /\ Has(ftp', Workers) /\ ftp'[w] = r
        /\ \A v \in Workers \ {w} : ftp'[v] = ftp[v]
    BY DEF Set, SessionTypes, Has
  <1>2. ASSUME NEW v \in Workers PROVE SessionTyped(ftp'[v])
    <2>1. CASE v = w
      BY <1>1, <2>1, Zenon
    <2>2. CASE v # w
      <3>1. ftp'[v] = ftp[v] /\ SessionTyped(ftp[v])
        BY <1>1, <2>2 DEF SessionTypes
      <3> QED BY <3>1, Zenon
    <2> QED BY <2>1, <2>2
  <1> QED BY <1>1, <1>2

LEMMA FreshIs ==
  /\ SessionTyped(Fresh) /\ Fresh.worker = "none" /\ Fresh.restartpos = 0 /\ Fresh.inbox = <<>>
  /\ Fresh.renamefrom = "none" /\ Fresh.data = "none" /\ Fresh.cmd = "none" /\ Fresh.fin = FALSE
  <1> USE FtpConstants
  <1>1. /\ Fresh.worker = "none" /\ Fresh.restartpos = 0 /\ Fresh.inbox = <<>>
        /\ Fresh.renamefrom = "none" /\ Fresh.data = "none" /\ Fresh.cmd = "none"
        /\ Fresh.fin = FALSE
    BY DEF Fresh
  <1>2. Has(Fresh, SessionFields)
    BY DEF Fresh, Has, SessionFields
  <1>3. Fresh.inbox = Following(0, 0) /\ 0 \in Nat /\ 0 \in 0 .. InFlight
    BY <1>1, NothingFollows
  <1>4. Fresh.restartpos \in 0 .. Buffers
    BY <1>1
  <1>5. \E a \in Nat, m \in 0 .. InFlight : Fresh.inbox = Following(a, m)
    BY <1>3
  <1>6. Fresh.worker \in {"none", "command", "stream"} /\ Fresh.cmd \in Commands
        /\ Fresh.renamefrom \in {"none", "part"} /\ Fresh.worker # "stream"
        /\ Fresh.data # "connected"
    BY <1>1 DEF Commands
  <1> QED BY <1>1, <1>2, <1>4, <1>5, <1>6 DEF SessionTyped

(* A step of the worker of w, which is the only one.                         *)
LEMMA Lonely ==
  ASSUME OneWorker, NEW w \in Workers, ftp[w].worker # "none", NEW v \in Workers, v # w
  PROVE  ftp[v].worker = "none"
BY DEF OneWorker

(* Between two commands of the client: nothing is stored, and it is told     *)
(* nothing that is not so.                                                   *)
LEMMA CommandKeeps ==
  ASSUME FtpInv, NEW w \in Workers, Commanded(w), NEW r, SessionTyped(r), Set(w, r),
         r.worker = "command", r.restartpos = client'.offset, r.inbox = <<>>, r.fin = FALSE,
         ClientTyped(client'), client'.active = w, client'.offset \in {0, Size},
         client'.known \in {-1, Size}, client'.acked => client.acked,
         UNCHANGED files
  PROVE  FtpInv'
  <1>1. /\ SessionTypes /\ OneWorker /\ Beginnings /\ Told /\ OnItsWay
        /\ client.active = w /\ ftp[w].worker = "command"
    BY DEF FtpInv, Commanded
  <1>2. /\ Has(ftp', Workers) /\ ftp'[w] = r
        /\ \A v \in Workers \ {w} : ftp'[v] = ftp[v]
        /\ \A v \in Workers : SessionTyped(ftp'[v])
    BY <1>1, SetIs
  <1>3. \A v \in Workers \ {w} : ftp'[v].worker = "none"
    BY <1>1, <1>2, Lonely
  <1>4. Size' = Size /\ Beginnings'
    BY <1>1 DEF Size, Content, Beginnings
  <1>5. SessionTypes'
    BY <1>2 DEF SessionTypes
  <1>6. OneWorker'
    BY <1>2, <1>3 DEF OneWorker
  <1>7. Told'
    BY <1>1, <1>2, <1>3, <1>4 DEF Told
  <1>8. OnItsWay'
    BY <1>2, <1>3 DEF OnItsWay, Streaming
  <1> QED BY <1>4, <1>5, <1>6, <1>7, <1>8 DEF FtpInv

(* A session ends.                                                           *)
LEMMA LeaveKeeps ==
  ASSUME FtpInv, NEW w \in Workers, ftp[w].worker # "none", ftpd_freesession(w), UNCHANGED files
  PROVE  FtpInv'
  <1>1. SessionTypes /\ OneWorker /\ Beginnings /\ Told /\ OnItsWay
    BY DEF FtpInv
  <1>2. /\ Has(ftp', Workers) /\ ftp'[w].worker = "none"
        /\ \A v \in Workers \ {w} : ftp'[v] = ftp[v]
        /\ \A v \in Workers : SessionTyped(ftp'[v])
    BY <1>1, SetIs, FreshIs DEF ftpd_freesession
  <1>3. \A v \in Workers : ftp'[v].worker = "none"
    BY <1>1, <1>2, Lonely
  <1>4. /\ ClientTyped(client') /\ client'.active \notin Workers /\ client'.acked = client.acked
    BY <1>1, FtpConstants DEF ftpd_freesession, SessionTypes, ClientTyped, Has, ClientFields,
       NoWorker, OneWorker
  <1>5. Size' = Size /\ Beginnings'
    BY <1>1 DEF Size, Content, Beginnings
  <1>6. SessionTypes' /\ OneWorker' /\ OnItsWay'
    BY <1>2, <1>3, <1>4 DEF SessionTypes, OneWorker, OnItsWay, Streaming
  <1>7. Told'
    BY <1>1, <1>3, <1>4 DEF Told
  <1> QED BY <1>5, <1>6, <1>7 DEF FtpInv

(* A stream begins or goes on.                                               *)
LEMMA StreamKeeps ==
  ASSUME FtpInv, NEW w \in Workers, ftp[w].worker # "none", NEW r, SessionTyped(r), Set(w, r),
         r.worker = "stream", ClientTyped(client'), client'.acked = FALSE,
         client'.active = client.active \/ client'.active = NoWorker,
         Beginnings',
         r.cmd \in {"stor", "appe"} =>
           \E m \in 0 .. InFlight :
             /\ r.inbox = Following(Size', m) /\ Size' + m <= Buffers
             /\ "part" \in DOMAIN files'
             /\ r.cmd = "stor" => r.pos = Size'
             /\ client'.active = w => client'.next = Size' + m /\ (r.fin => client'.next = Buffers)
  PROVE  FtpInv'
  <1>1. SessionTypes /\ OneWorker
    BY DEF FtpInv
  <1>2. /\ Has(ftp', Workers) /\ ftp'[w] = r
        /\ \A v \in Workers \ {w} : ftp'[v] = ftp[v]
        /\ \A v \in Workers : SessionTyped(ftp'[v])
    BY <1>1, SetIs
  <1>3. \A v \in Workers \ {w} : ftp'[v].worker = "none"
    BY <1>1, <1>2, Lonely
  <1>4. \A v \in Workers : client'.active = v => v = w
    BY <1>1, FtpConstants, Lonely DEF OneWorker, NoWorker
  <1>5. SessionTypes'
    BY <1>2 DEF SessionTypes
  <1>6. OneWorker'
    BY <1>2, <1>3, <1>4 DEF OneWorker
  <1>7. Told'
    BY <1>2, <1>3, <1>4 DEF Told
  <1>8. OnItsWay'
    <2> SUFFICES ASSUME NEW v \in Workers, Streaming(v, {"stor", "appe"})'
                 PROVE  \E m \in 0 .. InFlight :
                          /\ ftp'[v].inbox = Following(Size', m) /\ Size' + m <= Buffers
                          /\ "part" \in DOMAIN files'
                          /\ ftp'[v].cmd = "stor" => ftp'[v].pos = Size'
                          /\ client'.active = v =>
                               client'.next = Size' + m /\ (ftp'[v].fin => client'.next = Buffers)
      BY DEF OnItsWay
    <2>1. v = w /\ ftp'[v] = r
      BY <1>2, <1>3 DEF Streaming
    <2> QED BY <2>1 DEF Streaming
  <1> QED BY <1>5, <1>6, <1>7, <1>8 DEF FtpInv

(* The session that a stream leaves.                                         *)
LEMMA LeftIs ==
  ASSUME SessionTypes, NEW w \in Workers
  PROVE  /\ SessionTyped(StreamLeft(w)) /\ StreamLeft(w).worker = "command"
         /\ StreamLeft(w).restartpos = 0 /\ StreamLeft(w).inbox = <<>> /\ StreamLeft(w).fin = FALSE
  <1>1. SessionTyped(ftp[w])
    BY DEF SessionTypes
  <1>2. /\ Has(StreamLeft(w), SessionFields) /\ StreamLeft(w).worker = "command"
        /\ StreamLeft(w).restartpos = 0 /\ StreamLeft(w).inbox = Fresh.inbox
        /\ StreamLeft(w).fin = Fresh.fin
        /\ StreamLeft(w).data = "none" /\ StreamLeft(w).cmd = "none"
        /\ StreamLeft(w).renamefrom = ftp[w].renamefrom
    BY FreshIs DEF StreamLeft, SessionTyped, Has, SessionFields
  <1>3. 0 \in 0 .. Buffers
    BY FtpConstants
  <1> QED BY <1>1, <1>2, <1>3, FreshIs DEF SessionTyped, Commands

LEMMA SpentIs ==
  ASSUME ClientTyped(client)
  PROVE  /\ Has(Spent, ClientFields) /\ ClientTyped(Spent) /\ Spent.active = client.active
         /\ Spent.offset = 0 /\ Spent.known = -1 /\ Spent.acked = FALSE
  <1>1. /\ Has(Spent, ClientFields) /\ Spent.active = client.active
        /\ Spent.offset = 0 /\ Spent.known = -1 /\ Spent.acked = FALSE
    BY DEF Spent, ClientTyped, Has, ClientFields
  <1> QED BY <1>1 DEF ClientTyped

(* A stream is over; what the client is told of it is so.                    *)
LEMMA StreamEnds ==
  ASSUME FtpInv, NEW w \in Workers, ftp[w].worker = "stream", Set(w, StreamLeft(w)),
         NEW told \in BOOLEAN,
         client' = IF client.active = w THEN [Spent EXCEPT !.acked = told] ELSE client,
         Beginnings',
         told /\ client.active = w => "part" \in DOMAIN files' /\ files'["part"] = Original
  PROVE  FtpInv'
  <1>1. SessionTypes /\ OneWorker /\ Told /\ ClientTyped(client)
    BY DEF FtpInv, SessionTypes
  <1>2. /\ Has(ftp', Workers) /\ ftp'[w].worker = "command" /\ ftp'[w].restartpos = 0
        /\ ftp'[w].inbox = <<>> /\ ftp'[w].fin = FALSE
        /\ \A v \in Workers \ {w} : ftp'[v] = ftp[v]
        /\ \A v \in Workers : SessionTyped(ftp'[v])
    BY <1>1, SetIs, LeftIs
  <1>3. \A v \in Workers \ {w} : ftp'[v].worker = "none"
    BY <1>1, <1>2, Lonely
  <1>4. client.acked = FALSE
    BY <1>1 DEF Told, ClientTyped
  <1>5. /\ ClientTyped(client') /\ client'.active = client.active
        /\ client.active = w => client'.offset = 0 /\ client'.known = -1 /\ client'.acked = told
        /\ client.active # w => client'.acked = FALSE
    <2>1. CASE client.active = w
      BY <1>1, <2>1, SpentIs DEF ClientTyped, Has, ClientFields
    <2>2. CASE client.active # w
      BY <1>1, <1>4, <2>2
    <2> QED BY <2>1, <2>2
  <1>6. \A v \in Workers : client'.active = v => v = w
    BY <1>1, <1>5, Lonely DEF OneWorker
  <1>7. SessionTypes'
    BY <1>2, <1>5 DEF SessionTypes
  <1>8. OneWorker'
    BY <1>2, <1>3, <1>6 DEF OneWorker
  <1>9. Told'
    BY <1>2, <1>3, <1>5, <1>6 DEF Told
  <1>10. OnItsWay'
    BY <1>2, <1>3 DEF OnItsWay, Streaming
  <1> QED BY <1>7, <1>8, <1>9, <1>10 DEF FtpInv
-----------------------------------------------------------------------------
(* Sessions.                                                                 *)
LEMMA SessionBegins ==
  ASSUME FtpInv, NEW w \in Workers, Patient, ftpd_session(w) PROVE FtpInv'
  <1>1. SessionTypes /\ Beginnings /\ Told /\ ClientTyped(client)
    BY DEF FtpInv, SessionTypes
  <1> DEFINE r == [Fresh EXCEPT !.worker = "command"]
  <1>2. /\ SessionTyped(r) /\ r.worker = "command" /\ r.restartpos = 0
        /\ r.inbox = <<>> /\ r.fin = FALSE
    BY FreshIs DEF SessionTyped, Has, SessionFields
  <1>3. Set(w, r) /\ files' = files /\ \A v \in Workers : ftp[v].worker = "none"
    BY DEF ftpd_session
  <1> HIDE DEF r
  <1>4. /\ Has(ftp', Workers) /\ ftp'[w] = r
        /\ \A v \in Workers \ {w} : ftp'[v].worker = "none"
        /\ \A v \in Workers : SessionTyped(ftp'[v])
    BY <1>1, <1>2, <1>3, SetIs
  <1>5. /\ ClientTyped(client') /\ client'.active = w /\ client'.offset = 0
        /\ client'.known = -1 /\ client'.acked = FALSE
    BY <1>1 DEF ftpd_session, ClientTyped, Has, ClientFields
  <1>6. Beginnings'
    BY <1>1, <1>3 DEF Beginnings
  <1>7. SessionTypes' /\ OneWorker' /\ OnItsWay'
    BY <1>2, <1>4, <1>5 DEF SessionTypes, OneWorker, OnItsWay, Streaming
  <1>8. Told'
    BY <1>2, <1>4, <1>5 DEF Told
  <1> QED BY <1>6, <1>7, <1>8 DEF FtpInv

LEMMA LossKeeps ==
  ASSUME FtpInv, ClientLost PROVE FtpInv'
  <1>1. SessionTypes /\ OneWorker /\ Beginnings /\ Told /\ OnItsWay /\ ClientTyped(client)
    BY DEF FtpInv, SessionTypes
  <1> DEFINE w == client.active
  <1>2. w \in Workers /\ SessionTyped(ftp[w]) /\ ftp[w].worker # "none"
    BY <1>1 DEF ClientLost, ClientTyped, SessionTypes, OneWorker
  <1>3. PICK closed \in BOOLEAN : Set(w, [ftp[w] EXCEPT !.fin = closed])
    BY DEF ClientLost
  <1>4. /\ ClientTyped(client') /\ client'.active = NoWorker /\ client'.acked = client.acked
        /\ files' = files
    BY <1>1 DEF ClientLost, ClientTyped, Has, ClientFields
  <1> HIDE DEF w
  <1> DEFINE r == [ftp[w] EXCEPT !.fin = closed]
  <1>5. /\ SessionTyped(r) /\ r.worker = ftp[w].worker /\ r.cmd = ftp[w].cmd
        /\ r.inbox = ftp[w].inbox /\ r.pos = ftp[w].pos
    BY <1>2 DEF SessionTyped, Has, SessionFields
  <1>6. Set(w, r)
    BY <1>3
  <1> HIDE DEF r
  <1>7. /\ Has(ftp', Workers) /\ ftp'[w] = r
        /\ \A v \in Workers \ {w} : ftp'[v] = ftp[v]
        /\ \A v \in Workers : SessionTyped(ftp'[v])
    BY <1>1, <1>2, <1>5, <1>6, SetIs
  <1>8. \A v \in Workers : ftp'[v].worker = ftp[v].worker
    BY <1>5, <1>7
  <1>9. Size' = Size /\ Beginnings' /\ NoWorker \notin Workers
    BY <1>1, <1>4, FtpConstants DEF Size, Content, Beginnings, NoWorker
  <1>10. SessionTypes' /\ OneWorker'
    BY <1>1, <1>4, <1>7, <1>8, <1>9 DEF SessionTypes, OneWorker
  <1>11. Told'
    BY <1>1, <1>4, <1>8, <1>9 DEF Told
  <1>12. OnItsWay'
    <2> SUFFICES ASSUME NEW v \in Workers, Streaming(v, {"stor", "appe"})'
                 PROVE  \E m \in 0 .. InFlight :
                          /\ ftp'[v].inbox = Following(Size', m) /\ Size' + m <= Buffers
                          /\ "part" \in DOMAIN files'
                          /\ ftp'[v].cmd = "stor" => ftp'[v].pos = Size'
                          /\ client'.active = v =>
                               client'.next = Size' + m /\ (ftp'[v].fin => client'.next = Buffers)
      BY DEF OnItsWay
    <2>1. /\ ftp'[v].inbox = ftp[v].inbox /\ ftp'[v].cmd = ftp[v].cmd /\ ftp'[v].pos = ftp[v].pos
          /\ Streaming(v, {"stor", "appe"})
      BY <1>5, <1>7 DEF Streaming
    <2>2. PICK m \in 0 .. InFlight :
            /\ ftp[v].inbox = Following(Size, m) /\ Size + m <= Buffers
            /\ "part" \in DOMAIN files
            /\ ftp[v].cmd = "stor" => ftp[v].pos = Size
      BY <1>1, <2>1 DEF OnItsWay
    <2> QED BY <1>4, <1>9, <2>1, <2>2
  <1> QED BY <1>9, <1>10, <1>11, <1>12 DEF FtpInv

-----------------------------------------------------------------------------
(* The start.                                                                *)
LEMMA FtpStarts == FtpInit => FtpInv
  <1> SUFFICES ASSUME FtpInit PROVE FtpInv
    OBVIOUS
  <1> USE DEF FtpInit
  <1>1. \A w \in Workers : ftp[w] = Fresh
    OBVIOUS
  <1>2. ClientTyped(client) /\ client.active = NoWorker /\ client.acked = FALSE
    BY DEF ClientTyped, Has, ClientFields, NewClient
  <1>3. SessionTypes
    BY <1>1, <1>2, FreshIs, Zenon DEF SessionTypes, Has
  <1>4. OneWorker
    BY <1>1, <1>2, FreshIs, FtpConstants DEF OneWorker, NoWorker
  <1>5. DOMAIN files = {}
    OBVIOUS
  <1>6. Beginnings
    BY <1>5 DEF Beginnings
  <1>7. Told
    BY <1>1, <1>2, FreshIs DEF Told
  <1>8. OnItsWay
    BY <1>1, FreshIs DEF OnItsWay, Streaming
  <1> QED BY <1>3, <1>4, <1>6, <1>7, <1>8 DEF FtpInv

-----------------------------------------------------------------------------
(* Commands.                                                                 *)
LEMMA CommandedIs ==
  ASSUME FtpInv, NEW w \in Workers, Commanded(w)
  PROVE  /\ client.active = w /\ ClientTyped(client) /\ Has(client, ClientFields)
         /\ SessionTyped(ftp[w]) /\ Has(ftp[w], SessionFields) /\ ftp[w].worker = "command"
         /\ ftp[w].data # "connected" /\ ftp[w].restartpos = client.offset
         /\ client.offset \in {0, Size} /\ client.known \in {-1, Size}
         /\ Size \in 0 .. Buffers /\ ftp[w].inbox = <<>> /\ ftp[w].fin = FALSE
         /\ \A v \in Workers : ftp[v].worker # "stream"
  <1>1. SessionTypes /\ OneWorker /\ Beginnings /\ Told
    BY DEF FtpInv
  <1>2. client.active = w /\ ftp[w].worker = "command"
    BY DEF Commanded
  <1>3. SessionTyped(ftp[w]) /\ ClientTyped(client)
    BY <1>1 DEF SessionTypes
  <1>4. \A v \in Workers : ftp[v].worker # "stream"
    BY <1>1, <1>2, Lonely
  <1>5. ftp[w].data # "connected"
    BY <1>2, <1>3 DEF SessionTyped
  <1>6. /\ ftp[w].restartpos = client.offset
        /\ client.offset \in {0, Size} /\ client.known \in {-1, Size}
        /\ ftp[w].inbox = <<>> /\ ftp[w].fin = FALSE
    BY <1>1, <1>2 DEF Told
  <1> QED BY <1>1, <1>2, <1>3, <1>4, <1>5, <1>6, PartIs DEF SessionTyped, ClientTyped

(* A session that goes on waiting for commands, whatever the handler did.    *)
LEMMA WaitingIs ==
  ASSUME NEW old, SessionTyped(old), old.worker = "command", NEW r, Has(r, SessionFields),
         r.worker = old.worker, r.cmd = old.cmd, r.inbox = old.inbox,
         r.data # "connected", r.renamefrom \in {"none", "part"}, r.restartpos \in 0 .. Buffers
  PROVE  SessionTyped(r)
BY DEF SessionTyped

LEMMA UserKeeps ==
  ASSUME FtpInv, NEW w \in Workers, ftpd_command_user(w) PROVE FtpInv'
  <1> DEFINE r == [ftp[w] EXCEPT !.user = TRUE, !.loggedin = FALSE, !.restartpos = 0,
                                 !.renamefrom = "none"]
  <1>1. Commanded(w) /\ Set(w, r) /\ UNCHANGED files
    BY DEF ftpd_command_user
  <1>2. /\ Has(r, SessionFields) /\ r.worker = ftp[w].worker /\ r.cmd = ftp[w].cmd
        /\ r.inbox = ftp[w].inbox /\ r.fin = ftp[w].fin /\ r.data = ftp[w].data
        /\ r.renamefrom = "none"
        /\ r.restartpos = 0
    <2>1. ftp[w] = [x \in SessionFields |-> ftp[w][x]]
      BY <1>1, CommandedIs DEF Has
    <2> QED
      BY <2>1 DEF Has, SessionFields
  <1>3. 0 \in 0 .. Buffers
    BY FtpConstants
  <1> HIDE DEF r
  <1>4. SessionTyped(r)
    BY <1>1, <1>2, <1>3, CommandedIs, WaitingIs
  <1>5. /\ ClientTyped(client') /\ client'.active = client.active /\ client'.offset = 0
        /\ client'.known = client.known /\ client'.acked = client.acked
    BY <1>1, CommandedIs DEF ftpd_command_user, ClientTyped, Has, ClientFields
  <1> QED BY <1>1, <1>2, <1>4, <1>5, CommandedIs, CommandKeeps

(* The handlers that change nothing of the client's and leave the restart    *)
(* position alone.                                                           *)
LEMMA HandlerKeeps ==
  ASSUME FtpInv, NEW w \in Workers, Commanded(w), NEW r, Has(r, SessionFields), Set(w, r),
         r.worker = ftp[w].worker, r.cmd = ftp[w].cmd, r.inbox = ftp[w].inbox,
         r.data # "connected", r.renamefrom \in {"none", "part"},
         r.fin = ftp[w].fin, r.restartpos = ftp[w].restartpos, UNCHANGED <<files, client>>
  PROVE  FtpInv'
  <1>1. r.restartpos \in 0 .. Buffers
    <2>1. SessionTyped(ftp[w])
      BY CommandedIs
    <2> QED BY <2>1 DEF SessionTyped
  <1>2. SessionTyped(r)
    BY <1>1, CommandedIs, WaitingIs
  <1>3. client' = client /\ files' = files
    OBVIOUS
  <1>4. ClientTyped(client')
    BY <1>3, CommandedIs, Zenon
  <1>5. /\ client'.active = w /\ client'.offset \in {0, Size} /\ client'.known \in {-1, Size}
        /\ client'.acked => client.acked
        /\ r.worker = "command" /\ r.restartpos = client'.offset
        /\ r.inbox = <<>> /\ r.fin = FALSE
    BY <1>3, CommandedIs
  <1> QED BY <1>2, <1>3, <1>4, <1>5, CommandKeeps

LEMMA PassKeeps ==
  ASSUME FtpInv, NEW w \in Workers, ftpd_command_pass(w) PROVE FtpInv'
  <1>1. PICK valid \in BOOLEAN : Set(w, [ftp[w] EXCEPT !.loggedin = valid])
    BY DEF ftpd_command_pass
  <1> DEFINE r == [ftp[w] EXCEPT !.loggedin = valid]
  <1>2. Commanded(w) /\ Set(w, r) /\ UNCHANGED <<files, client>>
    BY <1>1 DEF ftpd_command_pass
  <1>3. /\ Has(r, SessionFields) /\ r.worker = ftp[w].worker /\ r.cmd = ftp[w].cmd
        /\ r.inbox = ftp[w].inbox /\ r.fin = ftp[w].fin /\ r.data = ftp[w].data
        /\ r.renamefrom = ftp[w].renamefrom
        /\ r.restartpos = ftp[w].restartpos
    <2>1. ftp[w] = [x \in SessionFields |-> ftp[w][x]]
      BY <1>2, CommandedIs DEF Has
    <2> QED
      BY <2>1 DEF Has, SessionFields
  <1>4. r.data # "connected" /\ r.renamefrom \in {"none", "part"}
    BY <1>2, <1>3, CommandedIs DEF SessionTyped
  <1> HIDE DEF r
  <1> QED BY <1>2, <1>3, <1>4, HandlerKeeps

(* PASV, EPSV, ABOR and LIST change the data socket.                         *)
LEMMA DataKeeps ==
  ASSUME FtpInv, NEW w \in Workers, ftpd_command(w), NEW d \in {"none", "listening"},
         Set(w, [ftp[w] EXCEPT !.data = d]), UNCHANGED <<files, client>>
  PROVE  FtpInv'
  <1> DEFINE r == [ftp[w] EXCEPT !.data = d]
  <1>1. Commanded(w) /\ Set(w, r)
    BY DEF ftpd_command
  <1>2. /\ Has(r, SessionFields) /\ r.worker = ftp[w].worker /\ r.cmd = ftp[w].cmd
        /\ r.inbox = ftp[w].inbox /\ r.fin = ftp[w].fin /\ r.data = d
        /\ r.renamefrom = ftp[w].renamefrom
        /\ r.restartpos = ftp[w].restartpos
    <2>1. ftp[w] = [x \in SessionFields |-> ftp[w][x]]
      BY <1>1, CommandedIs DEF Has
    <2> QED
      BY <2>1 DEF Has, SessionFields
  <1>3. r.data # "connected" /\ r.renamefrom \in {"none", "part"}
    BY <1>1, <1>2, CommandedIs DEF SessionTyped
  <1> HIDE DEF r
  <1> QED BY <1>1, <1>2, <1>3, HandlerKeeps

LEMMA RnfrKeeps ==
  ASSUME FtpInv, NEW w \in Workers, ftpd_command_rnfr(w) PROVE FtpInv'
  <1> DEFINE from == IF "part" \in DOMAIN files THEN "part" ELSE "none"
             r == [ftp[w] EXCEPT !.renamefrom = from]
  <1>1. Commanded(w) /\ Set(w, r) /\ UNCHANGED <<files, client>> /\ from \in {"none", "part"}
    BY DEF ftpd_command_rnfr, ftpd_command
  <1> HIDE DEF from
  <1>2. /\ Has(r, SessionFields) /\ r.worker = ftp[w].worker /\ r.cmd = ftp[w].cmd
        /\ r.inbox = ftp[w].inbox /\ r.fin = ftp[w].fin /\ r.data = ftp[w].data
        /\ r.renamefrom = from
        /\ r.restartpos = ftp[w].restartpos
    <2>1. ftp[w] = [x \in SessionFields |-> ftp[w][x]]
      BY <1>1, CommandedIs DEF Has
    <2> QED
      BY <2>1 DEF Has, SessionFields
  <1>3. r.data # "connected"
    BY <1>1, <1>2, CommandedIs
  <1> HIDE DEF r
  <1> QED BY <1>1, <1>2, <1>3, HandlerKeeps

LEMMA SizeKeeps ==
  ASSUME FtpInv, NEW w \in Workers, ftpd_command_size(w) PROVE FtpInv'
  <1>1. Commanded(w) /\ ftp' = ftp /\ files' = files
    BY DEF ftpd_command_size, ftpd_command
  <1>2. SizesOf("part") = {Size}
    BY <1>1, CommandedIs DEF SizesOf, Size
  <1>3. client' = [client EXCEPT !.known = Size]
    BY <1>2 DEF ftpd_command_size
  <1>4. /\ ClientTyped(client') /\ client'.active = w /\ client'.offset = client.offset
        /\ client'.known = Size /\ client'.acked = client.acked
    BY <1>1, <1>3, CommandedIs DEF ClientTyped, Has, ClientFields
  <1>5. Set(w, ftp[w])
    <2>1. Has(ftp, Workers)
      BY DEF FtpInv, SessionTypes
    <2>2. ftp = [ftp EXCEPT ![w] = ftp[w]]
      BY <2>1 DEF Has
    <2> QED BY <1>1, <2>2 DEF Set
  <1>6. /\ SessionTyped(ftp[w]) /\ ftp[w].worker = "command" /\ ftp[w].restartpos = client'.offset
        /\ ftp[w].inbox = <<>> /\ ftp[w].fin = FALSE
        /\ client'.offset \in {0, Size} /\ client'.known \in {-1, Size}
    BY <1>1, <1>4, CommandedIs
  <1> QED BY <1>1, <1>4, <1>5, <1>6, CommandKeeps

LEMMA RestKeeps ==
  ASSUME FtpInv, NEW w \in Workers, ftpd_command_rest(w) PROVE FtpInv'
  <1> DEFINE r == [ftp[w] EXCEPT !.restartpos = client.known]
  <1>1. Commanded(w) /\ Set(w, r) /\ files' = files /\ client.known >= 0
    BY DEF ftpd_command_rest, ftpd_command
  <1>2. client.known = Size /\ client.known \in 0 .. Buffers
    <2>1. client.known \in {-1, Size} /\ Size \in 0 .. Buffers
      BY <1>1, CommandedIs
    <2> QED BY <1>1, <2>1
  <1>3. /\ Has(r, SessionFields) /\ r.worker = ftp[w].worker /\ r.cmd = ftp[w].cmd
        /\ r.inbox = ftp[w].inbox /\ r.fin = ftp[w].fin /\ r.data = ftp[w].data
        /\ r.renamefrom = ftp[w].renamefrom
        /\ r.restartpos = client.known
    <2>1. ftp[w] = [x \in SessionFields |-> ftp[w][x]]
      BY <1>1, CommandedIs DEF Has
    <2> QED
      BY <2>1 DEF Has, SessionFields
  <1>4. r.data # "connected" /\ r.renamefrom \in {"none", "part"}
    BY <1>1, <1>3, CommandedIs DEF SessionTyped
  <1> HIDE DEF r
  <1>5. SessionTyped(r)
    BY <1>1, <1>2, <1>3, <1>4, CommandedIs, WaitingIs
  <1>6. client' = [client EXCEPT !.offset = client.known]
    BY DEF ftpd_command_rest
  <1>7. /\ ClientTyped(client') /\ client'.active = w /\ client'.offset = client.known
        /\ client'.known = client.known /\ client'.acked = client.acked
    BY <1>1, <1>6, CommandedIs DEF ClientTyped, Has, ClientFields
  <1>8. /\ r.worker = "command" /\ r.restartpos = client'.offset
        /\ r.inbox = <<>> /\ r.fin = FALSE
        /\ client'.offset \in {0, Size} /\ client'.known \in {-1, Size}
    BY <1>1, <1>2, <1>3, <1>7, CommandedIs
  <1> QED BY <1>1, <1>5, <1>7, <1>8, CommandKeeps

LEMMA ListKeeps ==
  ASSUME FtpInv, NEW w \in Workers,
         ftpd_command_pasv(w) \/ ftpd_command_abor(w) \/ ftpd_command_list(w)
  PROVE  FtpInv'
  <1>1. CASE ftpd_command_pasv(w)
    <2>1. PICK d \in {"none", "listening"} : Set(w, [ftp[w] EXCEPT !.data = d])
      BY <1>1 DEF ftpd_command_pasv
    <2>2. ftpd_command(w) /\ UNCHANGED <<files, client>>
      BY <1>1 DEF ftpd_command_pasv
    <2> QED BY <2>1, <2>2, DataKeeps
  <1>2. CASE ftpd_command_abor(w) \/ ftpd_command_list(w)
    <2>1. /\ Set(w, [ftp[w] EXCEPT !.data = "none"]) /\ "none" \in {"none", "listening"}
          /\ ftpd_command(w) /\ UNCHANGED <<files, client>>
      BY <1>2 DEF ftpd_command_abor, ftpd_command_list
    <2> QED BY <2>1, DataKeeps
  <1> QED BY <1>1, <1>2

(* Between two commands the client renames or deletes what is stored.        *)
LEMMA FilesChange ==
  ASSUME FtpInv, NEW w \in Workers, Commanded(w), client.offset = 0, ftp' = ftp,
         client' = [client EXCEPT !.acked = FALSE, !.known = -1], Beginnings'
  PROVE  FtpInv'
  <1>1. SessionTypes /\ OneWorker /\ Told
    BY DEF FtpInv
  <1>2. /\ ClientTyped(client') /\ client'.active = w /\ client'.offset = 0
        /\ client'.known = -1 /\ client'.acked = FALSE
    BY CommandedIs DEF ClientTyped, Has, ClientFields
  <1>3. SessionTypes' /\ OneWorker'
    BY <1>1, <1>2, CommandedIs DEF SessionTypes, OneWorker
  <1>4. Told'
    BY <1>2, CommandedIs DEF Told
  <1>5. OnItsWay'
    BY CommandedIs DEF OnItsWay, Streaming
  <1> QED BY <1>3, <1>4, <1>5 DEF FtpInv

LEMMA RntoKeeps ==
  ASSUME FtpInv, NEW w \in Workers, ftpd_command_rnto(w) PROVE FtpInv'
  <1>1. Commanded(w) /\ client.acked /\ client.offset = 0 /\ ftp[w].worker # "none"
    BY CommandedIs DEF ftpd_command_rnto, ftpd_command, Commanded
  <1>2. CASE ftpd_freesession(w) /\ UNCHANGED files
    BY <1>1, <1>2, LeaveKeeps
  <1>3. CASE ~(ftpd_freesession(w) /\ UNCHANGED files)
    <2> DEFINE from == ftp[w].renamefrom
    <2>1. /\ from \in DOMAIN files
          /\ files' = [m \in (DOMAIN files \ {from}) \cup {"model"} |->
                         IF m = "model" THEN files[from] ELSE files[m]]
          /\ client' = [client EXCEPT !.acked = FALSE, !.known = -1] /\ ftp' = ftp
      BY <1>3 DEF ftpd_command_rnto
    <2>2. from \in {"none", "part"}
      BY <1>1, CommandedIs DEF SessionTyped
    <2>3. Beginnings /\ Told
      BY DEF FtpInv
    <2>4. from = "part" /\ DOMAIN files \subseteq {"part", "model"}
      BY <2>1, <2>2, <2>3 DEF Beginnings, Names
    <2>5. files["part"] = Original
      BY <1>1, <2>3 DEF Told
    <2>6. DOMAIN files' = {"model"} /\ files'["model"] = Original
      BY <2>1, <2>4, <2>5
    <2>7. \E k \in 0 .. Buffers : Original = Beginning(k)
      BY WholeIs, FtpConstants
    <2>8. Beginnings'
      BY <2>6, <2>7 DEF Beginnings, Names
    <2> QED BY <1>1, <2>1, <2>8, FilesChange
  <1> QED BY <1>2, <1>3

LEMMA DeleKeeps ==
  ASSUME FtpInv, NEW w \in Workers, ftpd_command_dele(w) PROVE FtpInv'
  <1>1. Commanded(w) /\ client.offset = 0 /\ ftp[w].worker # "none" /\ Beginnings
    BY DEF ftpd_command_dele, ftpd_command, Commanded, FtpInv
  <1>2. CASE ftpd_freesession(w) /\ UNCHANGED files
    BY <1>1, <1>2, LeaveKeeps
  <1>3. CASE ~(ftpd_freesession(w) /\ UNCHANGED files)
    <2>1. PICK n \in DOMAIN files :
            /\ files' = Without(n)
            /\ client' = [client EXCEPT !.acked = FALSE, !.known = -1] /\ ftp' = ftp
      BY <1>3 DEF ftpd_command_dele
    <2>2. DOMAIN files' \subseteq DOMAIN files /\ \A m \in DOMAIN files' : files'[m] = files[m]
      BY <2>1 DEF Without
    <2>3. Beginnings'
      BY <1>1, <2>2 DEF Beginnings
    <2> QED BY <1>1, <2>1, <2>3, FilesChange
  <1> QED BY <1>2, <1>3

-----------------------------------------------------------------------------
(* Transfers.                                                                *)
LEMMA RefusalKeeps ==
  ASSUME FtpInv, NEW w \in Workers, Commanded(w), StreamFails(w) PROVE FtpInv'
  <1>1. SessionTypes /\ ClientTyped(client)
    BY CommandedIs DEF FtpInv
  <1>2. Set(w, StreamLeft(w)) /\ client' = Spent /\ files' = files
    BY DEF StreamFails, StreamRefused
  <1>3. /\ ClientTyped(client') /\ client'.active = w /\ client'.offset = 0
        /\ client'.known = -1 /\ client'.acked = FALSE
    BY <1>1, <1>2, SpentIs, CommandedIs
  <1> QED BY <1>1, <1>2, <1>3, LeftIs, CommandKeeps

(* The file is open and the client has been answered: nothing is on its way, *)
(* and both ends stand where what is stored ends.                            *)
LEMMA BeginKeeps ==
  ASSUME FtpInv, NEW w \in Workers, Commanded(w), NEW cmd \in {"retr", "stor", "appe"},
         StreamBegins(w, cmd),
         cmd = "stor" => client.offset > 0 \/ client.known = 0,
         cmd = "appe" => client.known >= 0
  PROVE  FtpInv'
  <1> DEFINE r == [ftp[w] EXCEPT !.worker = "stream", !.data = "connected", !.cmd = cmd,
                                 !.pos = ftp[w].restartpos]
             at == IF cmd = "appe" THEN client.known ELSE client.offset
  <1>1. /\ Set(w, r) /\ files' = Opened(cmd, w)
        /\ client' = [client EXCEPT !.acked = FALSE, !.next = at]
    BY DEF StreamBegins
  <1>0. /\ Has(ftp[w], SessionFields) /\ ftp[w].inbox = <<>> /\ ftp[w].fin = FALSE
        /\ SessionTyped(ftp[w]) /\ ftp[w].restartpos = client.offset
    BY CommandedIs
  <1>2. /\ Has(r, SessionFields) /\ r.worker = "stream" /\ r.data = "connected" /\ r.cmd = cmd
        /\ r.pos = ftp[w].restartpos /\ r.inbox = ftp[w].inbox /\ r.fin = ftp[w].fin
        /\ r.restartpos = ftp[w].restartpos /\ r.renamefrom = ftp[w].renamefrom
    BY <1>0 DEF Has, SessionFields
  <1> HIDE DEF r, at
  <1>3. SessionTyped(r)
    BY <1>0, <1>2 DEF SessionTyped, Commands
  <1>4. /\ ClientTyped(client') /\ client'.active = client.active /\ client'.acked = FALSE
        /\ client'.next = at
    BY <1>1, CommandedIs DEF ClientTyped, Has, ClientFields
  <1>5. Beginnings /\ Size \in 0 .. Buffers /\ Content("part") = Beginning(Size)
    BY PartIs DEF FtpInv
  <1>6. ftp[w].worker # "none"
    BY DEF Commanded
  <1>7. CASE cmd = "retr"
    <2>1. files' = files
      BY <1>1, <1>7 DEF Opened
    <2>2. Beginnings'
      BY <1>5, <2>1 DEF Beginnings
    <2> QED BY <1>1, <1>2, <1>3, <1>4, <1>6, <1>7, <2>2, StreamKeeps
  <1>8. CASE cmd \in {"stor", "appe"}
    <2>1. files' = Stored("part", Beginning(Size)) /\ at = Size
          /\ (cmd = "stor" => ftp[w].restartpos = Size)
      <3>1. /\ ftp[w].restartpos = client.offset
            /\ client.offset \in {0, Size} /\ client.known \in {-1, Size}
        BY CommandedIs
      <3>2. CASE cmd = "appe"
        <4>1. at = Size
          BY <1>5, <3>1, <3>2 DEF at
        <4>2. files' = Stored("part", Content("part"))
          BY <1>1, <3>2 DEF Opened
        <4> QED BY <1>5, <3>2, <4>1, <4>2
      <3>3. CASE cmd = "stor"
        <4>1. client.offset = Size
          BY <1>5, <3>1, <3>3
        <4>2. at = Size /\ ftp[w].restartpos = Size
          BY <3>1, <3>3, <4>1 DEF at
        <4>3. CASE Size = 0
          <5>1. Beginning(0) = <<>>
            <6>1. Beginning(0) \in Seq(Nat) /\ Len(Beginning(0)) = 0
              BY BeginningIs
            <6> QED BY <6>1, EmptySeq
          <5>2. files' = Stored("part", <<>>)
            BY <1>1, <3>3, <4>2, <4>3 DEF Opened
          <5> QED BY <4>2, <4>3, <5>1, <5>2
        <4>4. CASE Size # 0
          <5>1. ~(ftp[w].restartpos <= 0)
            BY <1>5, <4>2, <4>4
          <5>2. files' = Stored("part", Content("part"))
            BY <1>1, <3>3, <5>1 DEF Opened
          <5> QED BY <1>5, <4>2, <5>2
        <4> QED BY <4>3, <4>4
      <3> QED BY <1>8, <3>2, <3>3
    <2>2. Beginnings' /\ Size' = Size
      BY <1>5, <2>1, StoredIs
    <2>3. r.inbox = Following(Size', 0) /\ Size' + 0 <= Buffers /\ "part" \in DOMAIN files'
      <3>1. r.inbox = <<>> /\ Size \in Nat
        BY <1>0, <1>2, <1>5, FtpConstants
      <3> QED BY <1>5, <2>1, <2>2, <3>1, NothingFollows, StoredIs
    <2>4. r.cmd = "stor" => r.pos = Size'
      BY <1>2, <2>1, <2>2
    <2>5. client'.next = Size' + 0 /\ r.fin = FALSE
      BY <1>0, <1>2, <1>4, <1>5, <2>1, <2>2
    <2>6. 0 \in 0 .. InFlight
      BY FtpConstants
    <2>7. \E m \in 0 .. InFlight :
            /\ r.inbox = Following(Size', m) /\ Size' + m <= Buffers
            /\ "part" \in DOMAIN files'
            /\ r.cmd = "stor" => r.pos = Size'
            /\ client'.active = w => client'.next = Size' + m /\ (r.fin => client'.next = Buffers)
      BY <2>3, <2>4, <2>5, <2>6
    <2> QED BY <1>1, <1>2, <1>3, <1>4, <1>6, <2>2, <2>7, StreamKeeps
  <1> QED BY <1>7, <1>8

LEMMA TransferKeeps ==
  ASSUME FtpInv, NEW w \in Workers,
         ftpd_command_retr(w) \/ ftpd_command_stor(w) \/ ftpd_command_appe(w)
  PROVE  FtpInv'
  <1>1. PICK cmd \in {"retr", "stor", "appe"} :
          /\ Transfer(w, cmd)
          /\ cmd = "stor" => client.offset > 0 \/ client.known = 0
          /\ cmd = "appe" => client.known >= 0
    BY DEF ftpd_command_retr, ftpd_command_stor, ftpd_command_appe
  <1>2. Commanded(w) /\ ftp[w].worker # "none"
    BY DEF ftpd_command_retr, ftpd_command_stor, ftpd_command_appe, ftpd_command, Commanded
  <1>3. CASE StreamFails(w)
    BY <1>2, <1>3, RefusalKeeps
  <1>4. CASE ftpd_dataopen_fails(w)
    BY <1>2, <1>4, LeaveKeeps DEF ftpd_dataopen_fails
  <1>5. CASE StreamBegins(w, cmd)
    BY <1>1, <1>2, <1>5, BeginKeeps
  <1> QED BY <1>1, <1>3, <1>4, <1>5 DEF Transfer

(* The stream of an upload, and what it says of what is stored.              *)
LEMMA UploadIs ==
  ASSUME FtpInv, NEW w \in Workers, Streaming(w, {"stor", "appe"})
  PROVE  /\ SessionTyped(ftp[w]) /\ Has(ftp[w], SessionFields)
         /\ ftp[w].worker = "stream" /\ ftp[w].cmd \in {"stor", "appe"} /\ ftp[w].data = "connected"
         /\ ClientTyped(client) /\ Has(client, ClientFields) /\ client.acked = FALSE
         /\ Beginnings /\ Size \in 0 .. Buffers /\ Content("part") = Beginning(Size)
         /\ \E m \in 0 .. InFlight :
              /\ ftp[w].inbox = Following(Size, m) /\ Size + m <= Buffers
              /\ "part" \in DOMAIN files
              /\ ftp[w].cmd = "stor" => ftp[w].pos = Size
              /\ client.active = w =>
                   client.next = Size + m /\ (ftp[w].fin => client.next = Buffers)
  <1>1. SessionTypes /\ Beginnings /\ Told /\ OnItsWay
    BY DEF FtpInv
  <1>2. SessionTyped(ftp[w]) /\ ftp[w].worker = "stream" /\ ftp[w].cmd \in {"stor", "appe"}
    BY <1>1 DEF SessionTypes, Streaming
  <1>3. Has(ftp[w], SessionFields) /\ ftp[w].data = "connected"
    BY <1>2 DEF SessionTyped
  <1>4. ClientTyped(client) /\ Has(client, ClientFields) /\ client.acked = FALSE
    BY <1>1, <1>2 DEF SessionTypes, ClientTyped, Told
  <1>5. \E m \in 0 .. InFlight :
          /\ ftp[w].inbox = Following(Size, m) /\ Size + m <= Buffers
          /\ "part" \in DOMAIN files
          /\ ftp[w].cmd = "stor" => ftp[w].pos = Size
          /\ client.active = w =>
               client.next = Size + m /\ (ftp[w].fin => client.next = Buffers)
    BY <1>1 DEF OnItsWay
  <1> QED BY <1>1, <1>2, <1>3, <1>4, <1>5, PartIs

LEMMA BufferKeeps ==
  ASSUME FtpInv, NEW w \in Workers, client.active = w, Streaming(w, {"stor", "appe"}),
         ~ftp[w].fin, client.next < Buffers, Len(ftp[w].inbox) < InFlight,
         Set(w, [ftp[w] EXCEPT !.inbox = Append(ftp[w].inbox, client.next + 1)]),
         client' = [client EXCEPT !.next = client.next + 1], UNCHANGED files
  PROVE  FtpInv'
  <1>2. /\ SessionTyped(ftp[w]) /\ Has(ftp[w], SessionFields)
        /\ ftp[w].worker = "stream" /\ ftp[w].data = "connected"
        /\ ClientTyped(client) /\ Has(client, ClientFields) /\ client.acked = FALSE
        /\ Beginnings /\ Size \in 0 .. Buffers
    BY UploadIs
  <1>3. PICK m \in 0 .. InFlight :
          /\ ftp[w].inbox = Following(Size, m) /\ Size + m <= Buffers
          /\ "part" \in DOMAIN files
          /\ ftp[w].cmd = "stor" => ftp[w].pos = Size
          /\ client.next = Size + m
    BY UploadIs
  <1>4. Size \in Nat /\ m \in Nat /\ m + 1 \in 0 .. InFlight
    <2>1. Size \in Nat /\ m \in Nat
      BY <1>2, <1>3, FtpConstants
    <2>2. m < InFlight
      BY <1>3, <2>1, FollowingIs
    <2> QED BY <2>1, <2>2, FtpConstants
  <1> DEFINE r == [ftp[w] EXCEPT !.inbox = Append(ftp[w].inbox, client.next + 1)]
  <1>5. /\ Has(r, SessionFields) /\ r.worker = "stream" /\ r.data = "connected"
        /\ r.cmd = ftp[w].cmd /\ r.fin = ftp[w].fin /\ r.pos = ftp[w].pos
        /\ r.inbox = Append(ftp[w].inbox, client.next + 1)
        /\ r.restartpos = ftp[w].restartpos /\ r.renamefrom = ftp[w].renamefrom
    BY <1>2 DEF Has, SessionFields
  <1>6. Set(w, r)
    OBVIOUS
  <1> HIDE DEF r
  <1>7. r.inbox = Following(Size, m + 1)
    BY <1>3, <1>4, <1>5, OneMoreFollows
  <1>8. SessionTyped(r)
    BY <1>2, <1>4, <1>5, <1>7 DEF SessionTyped
  <1>9. /\ ClientTyped(client') /\ client'.active = w /\ client'.acked = FALSE
        /\ client'.next = client.next + 1
    BY <1>2 DEF ClientTyped, Has, ClientFields
  <1>10. Beginnings' /\ Size' = Size
    BY <1>2 DEF Beginnings, Size, Content
  <1>11. Size + (m + 1) = client.next + 1 /\ Size + (m + 1) <= Buffers
    BY <1>2, <1>3, <1>4, FtpConstants
  <1>12. /\ r.inbox = Following(Size', m + 1) /\ Size' + (m + 1) <= Buffers
         /\ "part" \in DOMAIN files'
         /\ r.cmd = "stor" => r.pos = Size'
         /\ client'.active = w =>
              client'.next = Size' + (m + 1) /\ (r.fin => client'.next = Buffers)
    BY <1>3, <1>5, <1>7, <1>9, <1>10, <1>11
  <1> QED BY <1>2, <1>4, <1>5, <1>6, <1>8, <1>9, <1>10, <1>12, StreamKeeps

LEMMA EndKeeps ==
  ASSUME FtpInv, NEW w \in Workers, client.active = w, Streaming(w, {"stor", "appe"}),
         ~(client.next < Buffers), Set(w, [ftp[w] EXCEPT !.fin = TRUE]), UNCHANGED <<client, files>>
  PROVE  FtpInv'
  <1>2. /\ SessionTyped(ftp[w]) /\ Has(ftp[w], SessionFields)
        /\ ftp[w].worker = "stream" /\ ftp[w].data = "connected"
        /\ ClientTyped(client) /\ client.acked = FALSE
        /\ Beginnings /\ Size \in 0 .. Buffers
    BY UploadIs
  <1>3. PICK m \in 0 .. InFlight :
          /\ ftp[w].inbox = Following(Size, m) /\ Size + m <= Buffers
          /\ "part" \in DOMAIN files
          /\ ftp[w].cmd = "stor" => ftp[w].pos = Size
          /\ client.next = Size + m
    BY UploadIs
  <1>4. client.next = Buffers
    BY <1>2, <1>3, FtpConstants
  <1> DEFINE r == [ftp[w] EXCEPT !.fin = TRUE]
  <1>5. /\ Has(r, SessionFields) /\ r.worker = "stream" /\ r.data = "connected"
        /\ r.cmd = ftp[w].cmd /\ r.pos = ftp[w].pos /\ r.inbox = ftp[w].inbox
        /\ r.restartpos = ftp[w].restartpos /\ r.renamefrom = ftp[w].renamefrom
    BY <1>2 DEF Has, SessionFields
  <1>6. Set(w, r)
    OBVIOUS
  <1> HIDE DEF r
  <1>7. SessionTyped(r)
    BY <1>2, <1>5 DEF SessionTyped
  <1>8. client' = client /\ files' = files
    OBVIOUS
  <1>9. ClientTyped(client') /\ client'.active = w /\ client'.acked = FALSE
    BY <1>2, <1>8
  <1>10. Beginnings' /\ Size' = Size
    BY <1>2, <1>8 DEF Beginnings, Size, Content
  <1>11. /\ r.inbox = Following(Size', m) /\ Size' + m <= Buffers
         /\ "part" \in DOMAIN files'
         /\ r.cmd = "stor" => r.pos = Size'
         /\ client'.active = w =>
              client'.next = Size' + m /\ (r.fin => client'.next = Buffers)
    BY <1>3, <1>4, <1>5, <1>8, <1>10
  <1> QED BY <1>2, <1>5, <1>6, <1>7, <1>9, <1>10, <1>11, StreamKeeps

LEMMA SendsKeeps ==
  ASSUME FtpInv, ClientSends PROVE FtpInv'
  <1> DEFINE w == client.active
  <1>1. w \in Workers /\ Streaming(w, {"stor", "appe"}) /\ ~ftp[w].fin /\ UNCHANGED files
    BY DEF ClientSends, FtpInv, SessionTypes, ClientTyped
  <1>2. CASE client.next < Buffers
    <2>1. /\ Len(ftp[w].inbox) < InFlight
          /\ Set(w, [ftp[w] EXCEPT !.inbox = Append(ftp[w].inbox, client.next + 1)])
          /\ client' = [client EXCEPT !.next = client.next + 1]
      BY <1>2 DEF ClientSends
    <2> HIDE DEF w
    <2> QED BY <1>1, <1>2, <2>1, BufferKeeps DEF w
  <1>3. CASE ~(client.next < Buffers)
    <2>1. Set(w, [ftp[w] EXCEPT !.fin = TRUE]) /\ UNCHANGED client
      BY <1>3 DEF ClientSends
    <2> QED BY <1>1, <1>3, <2>1, EndKeeps
  <1> QED BY <1>2, <1>3

LEMMA StoresKeeps ==
  ASSUME FtpInv, NEW w \in Workers, StreamStores(w) PROVE FtpInv'
  <1>1. Streaming(w, {"stor", "appe"}) /\ ftp[w].inbox # <<>>
    BY DEF StreamStores
  <1>2. /\ SessionTyped(ftp[w]) /\ Has(ftp[w], SessionFields)
        /\ ftp[w].worker = "stream" /\ ftp[w].cmd \in {"stor", "appe"} /\ ftp[w].data = "connected"
        /\ ClientTyped(client) /\ client.acked = FALSE
        /\ Beginnings /\ Size \in 0 .. Buffers /\ Content("part") = Beginning(Size)
    BY <1>1, UploadIs
  <1>3. PICK m \in 0 .. InFlight :
          /\ ftp[w].inbox = Following(Size, m) /\ Size + m <= Buffers
          /\ "part" \in DOMAIN files
          /\ ftp[w].cmd = "stor" => ftp[w].pos = Size
          /\ client.active = w =>
               client.next = Size + m /\ (ftp[w].fin => client.next = Buffers)
    BY <1>1, UploadIs
  <1>4. m \in Nat \ {0} /\ Size \in Nat /\ Size + 1 \in 0 .. Buffers /\ m - 1 \in 0 .. InFlight
    <2>1. Size \in Nat /\ m \in Nat
      BY <1>2, <1>3, FtpConstants
    <2>2. m # 0
      BY <1>1, <1>3, <2>1, NothingFollows
    <2> QED BY <1>2, <1>3, <2>1, <2>2, FtpConstants
  <1>5. ftp[w].inbox[1] = Size + 1 /\ Tail(ftp[w].inbox) = Following(Size + 1, m - 1)
    BY <1>3, <1>4, FirstIsTaken
  <1>6. Position(w) = Size
    BY <1>2, <1>3 DEF Position, Size
  <1>7. files' = Stored("part", Beginning(Size + 1))
    <2>1. files' = Stored("part", Written(Content("part"), Position(w), ftp[w].inbox[1]))
      BY DEF StreamStores
    <2>2. files' = Stored("part", Written(Beginning(Size), Size, Size + 1))
      BY <1>2, <1>5, <1>6, <2>1
    <2> QED BY <1>4, <2>2, WrittenAtTheEnd
  <1>8. Beginnings' /\ Size' = Size + 1 /\ "part" \in DOMAIN files'
    BY <1>2, <1>4, <1>7, StoredIs
  <1> DEFINE r == [ftp[w] EXCEPT !.inbox = Tail(ftp[w].inbox), !.pos = Position(w) + 1]
  <1>9. Set(w, r) /\ client' = client
    BY DEF StreamStores
  <1>10. /\ Has(r, SessionFields) /\ r.worker = "stream" /\ r.data = "connected"
         /\ r.cmd = ftp[w].cmd /\ r.fin = ftp[w].fin /\ r.inbox = Tail(ftp[w].inbox)
         /\ r.pos = Position(w) + 1
         /\ r.restartpos = ftp[w].restartpos /\ r.renamefrom = ftp[w].renamefrom
    BY <1>2 DEF Has, SessionFields
  <1> HIDE DEF r
  <1>11. SessionTyped(r)
    <2>1. \E a \in Nat, k \in 0 .. InFlight : r.inbox = Following(a, k)
      <3>1. Size + 1 \in Nat
        BY <1>4
      <3> QED BY <1>4, <1>5, <1>10, <3>1
    <2> QED BY <1>2, <1>10, <2>1 DEF SessionTyped
  <1>12. Size' + (m - 1) = Size + m
    BY <1>3, <1>4, <1>8
  <1>13. /\ r.inbox = Following(Size', m - 1) /\ Size' + (m - 1) <= Buffers
         /\ "part" \in DOMAIN files'
         /\ r.cmd = "stor" => r.pos = Size'
         /\ client'.active = w =>
              client'.next = Size' + (m - 1) /\ (r.fin => client'.next = Buffers)
    BY <1>3, <1>5, <1>6, <1>8, <1>9, <1>10, <1>12
  <1>14. ClientTyped(client') /\ client'.acked = FALSE /\ client'.active = client.active
    BY <1>2, <1>9
  <1> QED BY <1>2, <1>4, <1>8, <1>9, <1>10, <1>11, <1>13, <1>14, StreamKeeps

(* The end of an upload, with or without its last buffers.                   *)
LEMMA RefusedKeeps ==
  ASSUME FtpInv, NEW w \in Workers, ftp[w].worker = "stream", Refused(w), Beginnings'
  PROVE  FtpInv'
  <1>1. Set(w, StreamLeft(w))
        /\ client' = IF client.active = w THEN Spent ELSE client
    BY DEF Refused
  <1>2. Has(Spent, ClientFields) /\ Spent.acked = FALSE
    BY SpentIs DEF FtpInv, SessionTypes
  <1>3. Spent = [Spent EXCEPT !.acked = FALSE]
    BY <1>2 DEF Has, ClientFields
  <1>4. client' = IF client.active = w THEN [Spent EXCEPT !.acked = FALSE] ELSE client
    BY <1>1, <1>3, Zenon
  <1> QED BY <1>1, <1>4, StreamEnds

LEMMA FlushKeeps ==
  ASSUME FtpInv, NEW w \in Workers, StreamFlushes(w) PROVE FtpInv'
  <1>1. Streaming(w, {"stor", "appe"}) /\ ftp[w].inbox = <<>> /\ ftp[w].fin
    BY DEF StreamFlushes
  <1>2. /\ ftp[w].worker = "stream"
        /\ Beginnings /\ Size \in 0 .. Buffers /\ Content("part") = Beginning(Size)
    BY <1>1, UploadIs
  <1>3. CASE UNCHANGED files /\ Acknowledged(w)
    <2>1. /\ Set(w, StreamLeft(w)) /\ files' = files /\ TRUE \in BOOLEAN
          /\ client' = IF client.active = w THEN [Spent EXCEPT !.acked = TRUE] ELSE client
      BY <1>3 DEF Acknowledged
    <2>2. Beginnings'
      BY <1>2, <2>1 DEF Beginnings
    <2>3. ASSUME client.active = w
          PROVE  "part" \in DOMAIN files' /\ files'["part"] = Original
      <3>1. PICK m \in 0 .. InFlight :
              /\ ftp[w].inbox = Following(Size, m) /\ Size + m <= Buffers
              /\ "part" \in DOMAIN files
              /\ client.active = w =>
                   client.next = Size + m /\ (ftp[w].fin => client.next = Buffers)
        BY <1>1, UploadIs
      <3>2. m = 0
        <4>1. m \in Nat /\ Size \in Nat /\ Len(<<>>) = 0
          BY <1>2, <3>1, FtpConstants
        <4>2. Len(Following(Size, m)) = m
          BY <4>1, FollowingIs
        <4>3. Following(Size, m) = <<>>
          BY <1>1, <3>1
        <4> QED BY <4>1, <4>2, <4>3
      <3>3. Size = Buffers
        BY <1>1, <1>2, <2>3, <3>1, <3>2
      <3> QED BY <1>2, <2>1, <3>1, <3>3, WholeIs DEF Content
    <2> QED BY <1>2, <2>1, <2>2, <2>3, StreamEnds
  <1>4. CASE FlushLoses(w) /\ Refused(w)
    <2>1. PICK k \in 0 .. Len(Content("part")) :
            files' = Stored("part", SubSeq(Content("part"), 1, k))
      BY <1>4 DEF FlushLoses
    <2>2. k \in 0 .. Size /\ k \in 0 .. Buffers /\ Size \in Nat
      <3>1. k \in 0 .. Size
        BY <2>1 DEF Size
      <3> QED BY <1>2, <3>1, FtpConstants
    <2>3. files' = Stored("part", Beginning(k))
      BY <1>2, <2>1, <2>2, CutIsBeginning
    <2>4. Beginnings'
      BY <1>2, <2>2, <2>3, StoredIs
    <2> QED BY <1>2, <1>4, <2>4, RefusedKeeps
  <1> QED BY <1>3, <1>4 DEF StreamFlushes

LEMMA BreakKeeps ==
  ASSUME FtpInv, NEW w \in Workers, StreamBreaks(w) PROVE FtpInv'
  <1>1. ftp[w].worker = "stream" /\ Refused(w) /\ files' = files /\ Beginnings
    BY DEF StreamBreaks, Streaming, FtpInv
  <1>2. Beginnings'
    BY <1>1 DEF Beginnings
  <1> QED BY <1>1, <1>2, RefusedKeeps

(* RETR stores nothing.                                                      *)
LEMMA DownloadKeeps ==
  ASSUME FtpInv, NEW w \in Workers, StreamSends(w) PROVE FtpInv'
  <1> DEFINE r == [ftp[w] EXCEPT !.pos = ftp[w].pos + 1]
             b == Content("part")[ftp[w].pos + 1]
  <1>1. /\ Streaming(w, {"retr"}) /\ Set(w, r) /\ files' = files
        /\ client' = [client EXCEPT !.got = Append(client.got, b)]
    BY DEF StreamSends
  <1> HIDE DEF b
  <1>2. /\ SessionTyped(ftp[w]) /\ ftp[w].worker = "stream" /\ ftp[w].cmd = "retr"
        /\ ClientTyped(client) /\ client.acked = FALSE /\ Beginnings
    <2>1. ftp[w].worker = "stream" /\ ftp[w].cmd = "retr"
      BY <1>1 DEF Streaming
    <2> QED BY <2>1 DEF FtpInv, SessionTypes, Told, ClientTyped
  <1>3. /\ SessionTyped(r) /\ r.worker = "stream" /\ r.cmd = "retr"
    BY <1>2 DEF SessionTyped, Has, SessionFields
  <1>4. ClientTyped(client') /\ client'.active = client.active /\ client'.acked = FALSE
    BY <1>1, <1>2 DEF ClientTyped, Has, ClientFields
  <1>5. Beginnings'
    BY <1>1, <1>2 DEF Beginnings
  <1> HIDE DEF r
  <1> QED BY <1>1, <1>2, <1>3, <1>4, <1>5, StreamKeeps

LEMMA SentKeeps ==
  ASSUME FtpInv, NEW w \in Workers, StreamSent(w) PROVE FtpInv'
  <1>1. /\ Set(w, StreamLeft(w)) /\ files' = files /\ ftp[w].worker = "stream"
        /\ client' = IF client.active = w
                     THEN [Spent EXCEPT !.acked = client.acked] ELSE client
    BY DEF StreamSent, Streaming
  <1>2. Beginnings /\ client.acked = FALSE
    BY <1>1 DEF FtpInv, SessionTypes, Told, ClientTyped
  <1>3. Beginnings'
    BY <1>1, <1>2 DEF Beginnings
  <1> QED BY <1>1, <1>2, <1>3, StreamEnds

-----------------------------------------------------------------------------
LEMMA FtpKeeps ==
  ASSUME Patient, FtpInv, [FtpNext]_ftpVars PROVE FtpInv'
  <1>1. CASE ClientLost
    BY <1>1, LossKeeps
  <1>2. CASE ClientSends
    BY <1>2, SendsKeeps
  <1>3. ASSUME NEW w \in Workers, FtpWorker(w) PROVE FtpInv'
    <2>1. CASE ftpd_session(w)
      BY <2>1, SessionBegins
    <2>2. CASE CommandTimesOut(w) \/ ftpd_command_quit(w)
      <3>1. ftp[w].worker # "none" /\ ftpd_freesession(w) /\ UNCHANGED files
        BY <2>2 DEF CommandTimesOut, ftpd_command_quit, Commanded
      <3> QED BY <3>1, LeaveKeeps
    <2>3. CASE ftpd_command_user(w)
      BY <2>3, UserKeeps
    <2>4. CASE ftpd_command_pass(w)
      BY <2>4, PassKeeps
    <2>5. CASE ftpd_command_epsv(w) \/ ftpd_command_abor(w) \/ ftpd_command_list(w)
      BY <2>5, ListKeeps DEF ftpd_command_epsv
    <2>6. CASE ftpd_command_size(w)
      BY <2>6, SizeKeeps
    <2>7. CASE ftpd_command_rest(w)
      BY <2>7, RestKeeps
    <2>8. CASE ftpd_command_rnfr(w)
      BY <2>8, RnfrKeeps
    <2>9. CASE ftpd_command_rnto(w)
      BY <2>9, RntoKeeps
    <2>10. CASE ftpd_command_dele(w)
      BY <2>10, DeleKeeps
    <2>11. CASE ftpd_command_retr(w) \/ ftpd_command_stor(w) \/ ftpd_command_appe(w)
      BY <2>11, TransferKeeps
    <2>12. CASE StreamStores(w)
      BY <2>12, StoresKeeps
    <2>13. CASE StreamFlushes(w)
      BY <2>13, FlushKeeps
    <2>14. CASE StreamBreaks(w)
      BY <2>14, BreakKeeps
    <2>15. CASE StreamSends(w)
      BY <2>15, DownloadKeeps
    <2>16. CASE StreamSent(w)
      BY <2>16, SentKeeps
    <2> QED BY <1>3, <2>1, <2>2, <2>3, <2>4, <2>5, <2>6, <2>7, <2>8, <2>9, <2>10, <2>11,
               <2>12, <2>13, <2>14, <2>15, <2>16 DEF FtpWorker
  <1>4. CASE UNCHANGED ftpVars
    BY <1>4 DEF ftpVars, FtpInv, SessionTypes, SessionTyped, ClientTyped, OneWorker, Beginnings,
                Told, OnItsWay, Streaming, Has, Size, Content
  <1> QED BY <1>1, <1>2, <1>3, <1>4 DEF FtpNext

LEMMA FtpResumesIs == FtpInv => FtpResumes
  <1> SUFFICES ASSUME FtpInv PROVE FtpResumes
    OBVIOUS
  <1>1. Beginnings /\ Told
    BY DEF FtpInv
  <1>2. \A n \in DOMAIN files : IsPrefix(files[n], Original)
    BY <1>1, BeginningIsPrefix DEF Beginnings
  <1>3. RestartIsSpent
    BY <1>1 DEF Told, RestartIsSpent
  <1>4. ResumedWhole
    BY <1>1, <1>2 DEF ResumedWhole, Beginnings, Told
  <1> QED BY <1>3, <1>4 DEF FtpResumes

(* An upload to the FTP server that is interrupted any number of times and   *)
(* resumed is the whole file when it is acknowledged, a beginning of it at   *)
(* every moment, and a restart position is used by the transfer it was sent  *)
(* for or not at all: for every file length, any number of workers and of    *)
(* interruptions, provided the client comes back after the worker it left    *)
(* behind has ended (ftpd_stream, ftpd_command_rest, ftpd_command_user).     *)
THEOREM UploadsResume == ASSUME Patient PROVE FtpSpec => []FtpResumes
  <1>1. FtpInit => FtpInv
    BY FtpStarts
  <1>2. FtpInv /\ [FtpNext]_ftpVars => FtpInv'
    BY FtpKeeps
  <1>3. FtpInv => FtpResumes
    BY FtpResumesIs
  <1> QED BY <1>1, <1>2, <1>3, PTL DEF FtpSpec

LEMMA FtpIsTyped == FtpInv => FtpTypeOK
  <1> SUFFICES ASSUME FtpInv PROVE FtpTypeOK
    OBVIOUS
  <1>1. SessionTypes /\ Beginnings
    BY DEF FtpInv
  <1>2. \A n \in DOMAIN files : Len(files[n]) <= 2 * Buffers
    <2> TAKE n \in DOMAIN files
    <2>1. PICK k \in 0 .. Buffers : files[n] = Beginning(k)
      BY <1>1 DEF Beginnings
    <2>2. Len(files[n]) = k
      BY <2>1, BeginningIs, FtpConstants
    <2> QED BY <2>2, FtpConstants
  <1>3. ASSUME NEW w \in Workers
        PROVE  /\ ftp[w].worker \in {"none", "command", "stream"}
               /\ ftp[w].worker = "stream" <=> ftp[w].data = "connected"
               /\ ftp[w].restartpos \in 0 .. 2 * Buffers
               /\ Len(ftp[w].inbox) <= InFlight
    <2>1. SessionTyped(ftp[w])
      BY <1>1 DEF SessionTypes
    <2>2. PICK a \in Nat, m \in 0 .. InFlight : ftp[w].inbox = Following(a, m)
      BY <2>1 DEF SessionTyped
    <2>3. Len(ftp[w].inbox) = m
      BY <2>2, FollowingIs, FtpConstants
    <2>4. ftp[w].restartpos \in 0 .. 2 * Buffers
      BY <2>1, FtpConstants DEF SessionTyped
    <2> QED BY <2>1, <2>3, <2>4 DEF SessionTyped
  <1> QED BY <1>1, <1>2, <1>3 DEF FtpTypeOK, Beginnings, SessionTypes, ClientTyped

(* Types of the sessions, and the bounds of what a worker holds.             *)
THEOREM SessionsAreTyped == ASSUME Patient PROVE FtpSpec => []FtpTypeOK
  <1>1. FtpInit => FtpInv
    BY FtpStarts
  <1>2. FtpInv /\ [FtpNext]_ftpVars => FtpInv'
    BY FtpKeeps
  <1> QED BY <1>1, <1>2, FtpIsTyped, PTL DEF FtpSpec
-----------------------------------------------------------------------------
(* Every set of numbers that is not empty has a least one. *)
LEMMA LeastOf == ASSUME NEW T, T \subseteq Nat, T # {} PROVE \E x \in T : \A y \in T : x <= y
  <1> DEFINE R == StrictSubsetOrdering(Nat)
             U == {1 .. x : x \in T}
  <1>1. IsWellFoundedOn(R, FiniteSubsetsOf(Nat))
    BY FS_StrictSubsetOrderingWellFounded
  <1>2. U \subseteq FiniteSubsetsOf(Nat) /\ U # {}
    <2>1. ASSUME NEW x \in T PROVE 1 .. x \in FiniteSubsetsOf(Nat)
      BY FS_Interval DEF FiniteSubsetsOf
    <2> QED BY <2>1
  <1> HIDE DEF R, U
  <1>3. PICK u \in U : \A v \in U : ~(<<v, u>> \in R)
    BY <1>1, <1>2, WFMin
  <1>4. PICK x \in T : u = 1 .. x
    BY <1>3 DEF U
  <1>5. ASSUME NEW y \in T, y < x PROVE FALSE
    <2>1. 1 .. y \in U /\ 1 .. y \subseteq 1 .. x /\ x \in 1 .. x /\ x \notin 1 .. y
      <3>1. 1 .. y \in U
        BY Zenon DEF U
      <3>2. x \in Nat /\ y \in Nat
        OBVIOUS
      <3> QED
        BY <1>5, <3>1, <3>2
    <2>2. <<1 .. y, u>> \in R
      BY <1>4, <2>1 DEF R, StrictSubsetOrdering
    <2> QED BY <1>3, <2>1, <2>2
  <1> QED BY <1>5

(* What holds of 0 and is handed on by each number holds of all of them.     *)
LEMMA Counting ==
  ASSUME NEW S, 0 \in S, \A k \in Nat : k \in S => k + 1 \in S
  PROVE  Nat \subseteq S
  <1> SUFFICES ASSUME Nat \ S # {} PROVE FALSE
    OBVIOUS
  <1>1. PICK x \in Nat \ S : \A y \in Nat \ S : x <= y
    BY LeastOf
  <1>2. x - 1 \in Nat /\ x - 1 \in S
    BY <1>1
  <1> QED BY <1>1, <1>2

(* A function on the numbers is given by its value at 0 and by what follows  *)
(* each value.                                                               *)
Turns(A, step)         == step \in [Nat -> [A -> A]]
Unfolds(f, A, base, step) ==
  f \in [Nat -> A] /\ f[0] = base /\ \A k \in Nat : f[k + 1] = step[k][f[k]]
LEMMA Recursion ==
  ASSUME NEW A, NEW base \in A, NEW step, Turns(A, step)
  PROVE  \E f : Unfolds(f, A, base, step)
  <1> USE DEF Turns
  <1> DEFINE Begun(g, n) == g \in [0 .. n -> A] /\ g[0] = base
                            /\ \A k \in 0 .. n - 1 : g[k + 1] = step[k][g[k]]
  <1>1. \A n \in Nat : \E g \in [0 .. n -> A] : Begun(g, n)
    <2> DEFINE S == {n \in Nat : \E g \in [0 .. n -> A] : Begun(g, n)}
    <2>1. 0 \in S
      <3> DEFINE g == [k \in 0 .. 0 |-> base]
      <3>1. Begun(g, 0)
        OBVIOUS
      <3> QED BY <3>1
    <2>2. ASSUME NEW n \in Nat, n \in S PROVE n + 1 \in S
      <3>1. PICK g \in [0 .. n -> A] : Begun(g, n)
        BY <2>2
      <3> DEFINE h == [k \in 0 .. n + 1 |-> IF k = n + 1 THEN step[n][g[n]] ELSE g[k]]
      <3>2. h \in [0 .. n + 1 -> A]
        BY <3>1
      <3>3. h[0] = base
        BY <3>1
      <3>4. ASSUME NEW k \in 0 .. (n + 1) - 1 PROVE h[k + 1] = step[k][h[k]]
        <4>1. CASE k = n
          <5>1. h[n + 1] = step[n][g[n]] /\ h[n] = g[n]
            OBVIOUS
          <5> QED BY <4>1, <5>1
        <4>2. CASE k # n
          BY <3>1, <4>2
        <4> QED BY <4>1, <4>2
      <3>5. Begun(h, n + 1)
        BY <3>2, <3>3, <3>4
      <3> HIDE DEF h
      <3>6. n + 1 \in Nat /\ \E d \in [0 .. n + 1 -> A] : Begun(d, n + 1)
        BY <3>2, <3>5
      <3> QED BY <3>6
    <2> HIDE DEF S
    <2>3. Nat \subseteq S
      BY <2>1, <2>2, Counting
    <2> QED BY <2>3 DEF S
  <1> HIDE DEF Begun
  <1>2. \A m, n \in Nat : \A g, h : m <= n /\ Begun(g, m) /\ Begun(h, n) => g[m] = h[m]
    <2> SUFFICES ASSUME NEW m \in Nat, NEW n \in Nat, NEW g, NEW h, m <= n, Begun(g, m), Begun(h, n)
                 PROVE  g[m] = h[m]
      OBVIOUS
    <2> USE DEF Begun
    <2> DEFINE S == {k \in Nat : k <= m => g[k] = h[k]}
    <2>1. 0 \in S
      OBVIOUS
    <2>2. ASSUME NEW k \in Nat, k \in S PROVE k + 1 \in S
      <3> SUFFICES ASSUME k + 1 <= m PROVE g[k + 1] = h[k + 1]
        OBVIOUS
      <3>1. k \in 0 .. m - 1 /\ k \in 0 .. n - 1 /\ g[k] = h[k]
        BY <2>2
      <3> QED BY <3>1
    <2> HIDE DEF S
    <2>3. Nat \subseteq S
      BY <2>1, <2>2, Counting
    <2> QED BY <2>3 DEF S
  <1> DEFINE of(n) == CHOOSE g \in [0 .. n -> A] : Begun(g, n)
             f == [n \in Nat |-> of(n)[n]]
  <1>3. \A n \in Nat : Begun(of(n), n)
    BY <1>1
  <1> HIDE DEF of
  <1>4. \A n \in Nat : /\ of(n) \in [0 .. n -> A] /\ of(n)[0] = base
                        /\ \A k \in 0 .. n - 1 : of(n)[k + 1] = step[k][of(n)[k]]
    BY <1>3 DEF Begun
  <1>5. f \in [Nat -> A]
    <2>1. \A n \in Nat : of(n)[n] \in A
      BY <1>4
    <2> QED BY <2>1
  <1>6. f[0] = base
    BY <1>4
  <1>7. ASSUME NEW k \in Nat PROVE f[k + 1] = step[k][f[k]]
    <2>1. k + 1 \in Nat /\ k <= k + 1 /\ k \in 0 .. (k + 1) - 1
      OBVIOUS
    <2>2. Begun(of(k), k) /\ Begun(of(k + 1), k + 1)
      BY <1>3, <2>1
    <2>3. of(k)[k] = of(k + 1)[k]
      BY <1>2, <2>1, <2>2
    <2>4. of(k + 1)[k + 1] = step[k][of(k + 1)[k]]
      BY <1>4, <2>1
    <2> QED BY <2>1, <2>3, <2>4
  <1> QED BY <1>5, <1>6, <1>7 DEF Unfolds

(* What Step and the list of nodes deal with: the names of the client and of the root. *)
TreeNames == PathNames \cup {"data", "models"}
Marks == {"", ".", ".."}
Pieces == TreeNames \cup Marks
Node == [name : Pieces, ignore : BOOLEAN]
AbsPaths == {q \in Seq(Pieces) : q # <<>> /\ q[1] = ""}

(* The loops one turn after the other. *)
LEMMA CountedOff ==
  ASSUME NEW n \in Nat, NEW S, 0 \in S, \A k \in 0 .. n - 1 : k \in S => k + 1 \in S
  PROVE  0 .. n \subseteq S
<1> DEFINE T == {k \in Nat : k <= n => k \in S}
<1>1. 0 \in T
  OBVIOUS
<1>2. \A k \in Nat : k \in T => k + 1 \in T
  OBVIOUS
<1> HIDE DEF T
<1>3. Nat \subseteq T
  BY <1>1, <1>2, Counting
<1> QED
  BY <1>3 DEF T

FirstTurns(A, n, step) == step \in [1 .. n -> [A -> A]]
TurnsOut(f, A, n, base, step) ==
  f \in [0 .. n -> A] /\ f[0] = base /\ \A k \in 1 .. n : f[k] = step[k][f[k - 1]]
LEMMA Loop ==
  ASSUME NEW A, NEW base \in A, NEW n \in Nat, NEW step, FirstTurns(A, n, step)
  PROVE  \E f : TurnsOut(f, A, n, base, step)
<1> USE DEF FirstTurns
<1> DEFINE turn == [k \in Nat |-> IF k < n THEN step[k + 1] ELSE [a \in A |-> a]]
<1>1. turn \in [Nat -> [A -> A]]
  <2>1. ASSUME NEW k \in Nat PROVE turn[k] \in [A -> A]
    <3>1. CASE k < n
      <4>1. k + 1 \in 1 .. n
        BY <3>1
      <4> QED
        BY <3>1, <4>1
    <3>2. CASE ~(k < n)
      BY <3>2
    <3> QED
      BY <3>1, <3>2
  <2> QED
    BY <2>1
<1>2. \A k \in 1 .. n : turn[k - 1] = step[k]
  <2>1. ASSUME NEW k \in 1 .. n PROVE turn[k - 1] = step[k]
    <3>1. k - 1 \in Nat /\ k - 1 < n /\ (k - 1) + 1 = k
      OBVIOUS
    <3> QED
      BY <3>1
  <2> QED
    BY <2>1
<1> HIDE DEF turn
<1>2a. Turns(A, turn)
  BY <1>1 DEF Turns
<1>2b. PICK g : Unfolds(g, A, base, turn)
  BY <1>2a, Recursion
<1>3. g \in [Nat -> A] /\ g[0] = base /\ \A k \in Nat : g[k + 1] = turn[k][g[k]]
  BY <1>2b DEF Unfolds
<1> DEFINE f == [k \in 0 .. n |-> g[k]]
<1>4. f \in [0 .. n -> A] /\ f[0] = base
  BY <1>3
<1>5. ASSUME NEW k \in 1 .. n PROVE f[k] = step[k][f[k - 1]]
  <2>1. k - 1 \in Nat /\ (k - 1) + 1 = k /\ k \in 0 .. n /\ k - 1 \in 0 .. n
    OBVIOUS
  <2>2. g[(k - 1) + 1] = turn[k - 1][g[k - 1]]
    BY <1>3, <2>1
  <2>3. f[k] = g[k] /\ f[k - 1] = g[k - 1]
    BY <2>1
  <2> QED
    BY <1>2, <2>1, <2>2, <2>3
<1> QED
  BY <1>4, <1>5 DEF TurnsOut

LEMMA WalkIs ==
  ASSUME NEW S, NEW from \in Seq(S), NEW path \in Seq(S \cup Marks)
  PROVE  \E f \in [0 .. Len(path) -> Seq(S)] :
           /\ f[0] = from /\ Walk(from, path) = f[Len(path)]
           /\ \A k \in 1 .. Len(path) : f[k] = Step(f[k - 1], path[k])
<1> DEFINE n == Len(path)
           step == [k \in 1 .. n |-> [a \in Seq(S) |-> Step(a, path[k])]]
<1>1. ASSUME NEW a \in Seq(S), NEW piece \in S \cup Marks PROVE Step(a, piece) \in Seq(S)
  <2>1. CASE piece = ".." 
    <3>1. Len(a) \in Nat
      OBVIOUS
    <3>2. CASE a = <<>>
      <4>1. SubSeq(a, 1, Len(a) - 1) = <<>>
        BY <3>2
      <4> QED
        BY <2>1, <4>1 DEF Step
    <3>3. CASE a # <<>>
      <4>1. Len(a) - 1 \in 0 .. Len(a)
        BY <3>3
      <4>2. SubSeq(a, 1, Len(a) - 1) \in Seq(S)
        BY <4>1, SubSeqProperties
      <4> QED
        BY <2>1, <4>2 DEF Step
    <3> QED
      BY <3>2, <3>3
  <2>2. CASE piece \in {"", "."}
    BY <2>2 DEF Step
  <2>3. CASE piece \notin {"", ".", ".."}
    <3>1. piece \in S /\ Step(a, piece) = Append(a, piece)
      BY <2>3 DEF Step, Marks
    <3> QED
      BY <3>1
  <2> QED
    BY <2>1, <2>2, <2>3
<1>2. n \in Nat /\ \A k \in 1 .. n : path[k] \in S \cup Marks
  OBVIOUS
<1> HIDE DEF n
<1>3. step \in [1 .. n -> [Seq(S) -> Seq(S)]]
  BY <1>1, <1>2
<1>4. \A k \in 1 .. n : \A a \in Seq(S) : step[k][a] = Step(a, path[k])
  OBVIOUS
<1> HIDE DEF step
<1>4a. FirstTurns(Seq(S), n, step)
  BY <1>3 DEF FirstTurns
<1>4b. PICK f : TurnsOut(f, Seq(S), n, from, step)
  BY <1>2, <1>4a, Loop
<1>5. f \in [0 .. n -> Seq(S)] /\ f[0] = from
      /\ \A k \in 1 .. n : f[k] = step[k][f[k - 1]]
  BY <1>4b DEF TurnsOut
<1>6. ASSUME NEW k \in 1 .. n PROVE k - 1 \in 0 .. n /\ f[k] = Step(f[k - 1], path[k])
  <2>1. k - 1 \in 0 .. n
    BY <1>2
  <2>2. f[k - 1] \in Seq(S)
    BY <1>5, <2>1
  <2> QED
    BY <1>4, <1>5, <2>1, <2>2
<1> DEFINE Is(g) == g = [k \in 0 .. n |-> IF k = 0 THEN from ELSE Step(g[k - 1], path[k])]
<1>7. Is(f)
  <2> DEFINE h == [k \in 0 .. n |-> IF k = 0 THEN from ELSE Step(f[k - 1], path[k])]
  <2>1. ASSUME NEW k \in 0 .. n PROVE f[k] = h[k]
    BY <1>2, <1>5, <1>6
  <2> QED
    BY <1>5, <2>1
<1>8. Is(CHOOSE g : Is(g))
  BY <1>7
<1>9. Walk(from, path) = (CHOOSE g : Is(g))[n]
  BY DEF Walk, n
<1> DEFINE w == CHOOSE g : Is(g)
<1>10. w = [k \in 0 .. n |-> IF k = 0 THEN from ELSE Step(w[k - 1], path[k])]
  BY <1>8
<1>11. Walk(from, path) = w[n]
  BY <1>9
<1> HIDE DEF w, Is
<1>12. w[0] = from /\ \A k \in 1 .. n : w[k] = Step(w[k - 1], path[k])
  BY <1>2, <1>10
<1> DEFINE T == {k \in 0 .. n : w[k] \in Seq(S)}
<1>13. 0 .. n \subseteq T
  <2>1. 0 \in T
    BY <1>2, <1>12
  <2>2. \A k \in 0 .. n - 1 : k \in T => k + 1 \in T
    <3>1. ASSUME NEW k \in 0 .. n - 1, k \in T PROVE k + 1 \in T
      <4>1. k + 1 \in 1 .. n /\ (k + 1) - 1 = k /\ k + 1 \in 0 .. n
        BY <1>2
      <4>2. w[k + 1] = Step(w[k], path[k + 1])
        BY <1>12, <4>1
      <4> QED
        BY <1>1, <1>2, <3>1, <4>1, <4>2
    <3> QED
      BY <3>1
  <2> HIDE DEF T
  <2> QED
    BY <1>2, <2>1, <2>2, CountedOff
<1>14. w \in [0 .. n -> Seq(S)]
  BY <1>10, <1>13
<1> QED
  BY <1>11, <1>12, <1>14 DEF n
LEMMA WalkStays ==
  ASSUME NEW from \in Seq(TreeNames), NEW path \in Seq(Pieces)
  PROVE  \E f \in [0 .. Len(path) -> Seq(TreeNames)] :
           /\ f[0] = from /\ Walk(from, path) = f[Len(path)]
           /\ \A k \in 1 .. Len(path) : f[k] = Step(f[k - 1], path[k])
  BY WalkIs DEF Pieces

(* The loop of ftpd_path2node.                                               *)
LEMMA IgnoreKeeps ==
  ASSUME NEW done \in Seq(Node), NEW part \in Pieces
  PROVE  /\ ftpd_pathignore(done, part) \in Seq(Node)
         /\ Len(ftpd_pathignore(done, part)) = Len(done) + 1
<1> DEFINE tail == CHOOSE k \in Kept(done) : \A j \in Kept(done) : j <= k
           popped == part = ".." /\ Kept(done) # {} /\ done[tail].name # ""
           marked == [done EXCEPT ![tail].ignore = TRUE]
           before == IF popped THEN marked ELSE done
           node == [name |-> part,
                    ignore |-> part \in {".", ".."} \/ (part = "" /\ done # <<>>)]
<1>1. ftpd_pathignore(done, part) = Append(before, node)
  BY DEF ftpd_pathignore
<1>2. node \in Node
  BY DEF Node
<1> HIDE DEF tail, node
<1>3. marked \in Seq(Node) /\ Len(marked) = Len(done)
  <2>1. done \in [1 .. Len(done) -> Node]
    OBVIOUS
  <2>2. DOMAIN marked = 1 .. Len(done) /\ Len(done) \in Nat
    OBVIOUS
  <2>3. ASSUME NEW k \in 1 .. Len(done) PROVE marked[k] \in Node
    <3>1. CASE k = tail
      <4>1. marked[tail] = [done[tail] EXCEPT !.ignore = TRUE]
        BY <2>1, <3>1
      <4> QED
        BY <2>1, <3>1, <4>1 DEF Node
    <3>2. CASE k # tail
      BY <2>1, <3>2
    <3> QED
      BY <3>1, <3>2
  <2>4. marked \in [1 .. Len(done) -> Node]
    BY <2>2, <2>3
  <2> HIDE DEF marked
  <2> QED
    BY <2>2, <2>4
<1> HIDE DEF marked
<1>4. before \in Seq(Node) /\ Len(before) = Len(done)
  BY <1>3
<1> HIDE DEF before
<1>5. Append(before, node) \in Seq(Node) /\ Len(Append(before, node)) = Len(before) + 1
  BY <1>2, <1>4
<1> QED
  BY <1>1, <1>4, <1>5

LEMMA NodesAre ==
  ASSUME NEW path \in Seq(Pieces)
  PROVE  \E f \in [0 .. Len(path) -> Seq(Node)] :
           /\ f[0] = <<>> /\ ftpd_path2node(path) = f[Len(path)]
           /\ \A k \in 1 .. Len(path) : f[k] = ftpd_pathignore(f[k - 1], path[k])
<1> DEFINE n == Len(path)
           step == [k \in 1 .. n |-> [a \in Seq(Node) |-> ftpd_pathignore(a, path[k])]]
<1>1. ASSUME NEW k \in 1 .. n, NEW a \in Seq(Node) PROVE ftpd_pathignore(a, path[k]) \in Seq(Node)
  <2>1. path[k] \in Pieces
    OBVIOUS
  <2> QED
    BY <2>1, IgnoreKeeps
<1>2. n \in Nat
  OBVIOUS
<1> HIDE DEF n
<1>3. FirstTurns(Seq(Node), n, step)
  BY <1>1 DEF FirstTurns
<1>4. \A k \in 1 .. n : \A a \in Seq(Node) : step[k][a] = ftpd_pathignore(a, path[k])
  OBVIOUS
<1> HIDE DEF step
<1>5. <<>> \in Seq(Node)
  OBVIOUS
<1>6. PICK f : TurnsOut(f, Seq(Node), n, <<>>, step)
  BY <1>2, <1>3, <1>5, Loop
<1>7. f \in [0 .. n -> Seq(Node)] /\ f[0] = <<>>
      /\ \A k \in 1 .. n : f[k] = step[k][f[k - 1]]
  BY <1>6 DEF TurnsOut
<1>8. ASSUME NEW k \in 1 .. n PROVE f[k] = ftpd_pathignore(f[k - 1], path[k])
  <2>1. f[k - 1] \in Seq(Node)
    BY <1>2, <1>7
  <2> QED
    BY <1>4, <1>7, <2>1
<1> DEFINE Is(g) == g = [k \in 0 .. n |-> IF k = 0 THEN <<>> ELSE ftpd_pathignore(g[k - 1], path[k])]
<1>9. Is(f)
  <2> DEFINE h == [k \in 0 .. n |-> IF k = 0 THEN <<>> ELSE ftpd_pathignore(f[k - 1], path[k])]
  <2>1. ASSUME NEW k \in 0 .. n PROVE f[k] = h[k]
    BY <1>2, <1>7, <1>8
  <2> QED
    BY <1>7, <2>1
<1> DEFINE w == CHOOSE g : Is(g)
<1>10. Is(w)
  BY <1>9
<1>11. ftpd_path2node(path) = w[n]
  BY DEF ftpd_path2node, n
<1>12. w = [k \in 0 .. n |-> IF k = 0 THEN <<>> ELSE ftpd_pathignore(w[k - 1], path[k])]
  BY <1>10
<1> HIDE DEF w, Is
<1>a. w[0] = <<>> /\ \A k \in 1 .. n : w[k] = ftpd_pathignore(w[k - 1], path[k])
  BY <1>2, <1>12
<1> DEFINE T == {k \in 0 .. n : w[k] = f[k]}
<1>13. 0 .. n \subseteq T
  <2>1. 0 \in T
    BY <1>2, <1>7, <1>a
  <2>2. ASSUME NEW k \in 0 .. n - 1, k \in T PROVE k + 1 \in T
    <3>1. k + 1 \in 1 .. n /\ (k + 1) - 1 = k /\ k + 1 \in 0 .. n
      BY <1>2
    <3>2. w[k + 1] = ftpd_pathignore(w[k], path[k + 1])
      BY <1>a, <3>1
    <3> QED
      BY <1>8, <2>2, <3>1, <3>2
  <2> HIDE DEF T
  <2> QED
    BY <1>2, <2>1, <2>2, CountedOff
<1> QED
  BY <1>2, <1>7, <1>8, <1>11, <1>13 DEF n

(* The loop of ftpd_node2path.                                               *)
TakenParts(nodes, parts, k) ==
  IF nodes[k].ignore THEN parts ELSE Append(parts, nodes[k].name)

LEMMA PartsAre ==
  ASSUME NEW nodes \in Seq(Node)
  PROVE  \E f \in [0 .. Len(nodes) -> Seq(Pieces)] :
           /\ f[0] = <<>> /\ ftpd_node2path(nodes) = f[Len(nodes)]
           /\ \A k \in 1 .. Len(nodes) : f[k] = TakenParts(nodes, f[k - 1], k)
<1> DEFINE n == Len(nodes)
           step == [k \in 1 .. n |-> [a \in Seq(Pieces) |-> TakenParts(nodes, a, k)]]
<1>1. ASSUME NEW k \in 1 .. n, NEW a \in Seq(Pieces) PROVE TakenParts(nodes, a, k) \in Seq(Pieces)
  <2>1. nodes[k] \in Node
    OBVIOUS
  <2>2. nodes[k].name \in Pieces
    BY <2>1 DEF Node
  <2> QED
    BY <2>2 DEF TakenParts
<1>2. n \in Nat
  OBVIOUS
<1> HIDE DEF n
<1>3. FirstTurns(Seq(Pieces), n, step)
  BY <1>1 DEF FirstTurns
<1>4. \A k \in 1 .. n : \A a \in Seq(Pieces) : step[k][a] = TakenParts(nodes, a, k)
  OBVIOUS
<1> HIDE DEF step
<1>5. <<>> \in Seq(Pieces)
  OBVIOUS
<1>6. PICK f : TurnsOut(f, Seq(Pieces), n, <<>>, step)
  BY <1>2, <1>3, <1>5, Loop
<1>7. f \in [0 .. n -> Seq(Pieces)] /\ f[0] = <<>>
      /\ \A k \in 1 .. n : f[k] = step[k][f[k - 1]]
  BY <1>6 DEF TurnsOut
<1>8. ASSUME NEW k \in 1 .. n PROVE f[k] = TakenParts(nodes, f[k - 1], k)
  <2>1. f[k - 1] \in Seq(Pieces)
    BY <1>2, <1>7
  <2> QED
    BY <1>4, <1>7, <2>1
<1> DEFINE Is(g) == g = [k \in 0 .. n |-> IF k = 0 THEN <<>> ELSE TakenParts(nodes, g[k - 1], k)]
<1>9. Is(f)
  <2> DEFINE h == [k \in 0 .. n |-> IF k = 0 THEN <<>> ELSE TakenParts(nodes, f[k - 1], k)]
  <2>1. ASSUME NEW k \in 0 .. n PROVE f[k] = h[k]
    BY <1>2, <1>7, <1>8
  <2> QED
    BY <1>7, <2>1
<1> DEFINE w == CHOOSE g : Is(g)
<1>10. Is(w)
  BY <1>9
<1>11. ftpd_node2path(nodes) = w[n]
  BY DEF ftpd_node2path, n, TakenParts
<1>12. w = [k \in 0 .. n |-> IF k = 0 THEN <<>> ELSE TakenParts(nodes, w[k - 1], k)]
  BY <1>10
<1> HIDE DEF w, Is
<1>a. w[0] = <<>> /\ \A k \in 1 .. n : w[k] = TakenParts(nodes, w[k - 1], k)
  BY <1>2, <1>12
<1> DEFINE T == {k \in 0 .. n : w[k] = f[k]}
<1>13. 0 .. n \subseteq T
  <2>1. 0 \in T
    BY <1>2, <1>7, <1>a
  <2>2. ASSUME NEW k \in 0 .. n - 1, k \in T PROVE k + 1 \in T
    <3>1. k + 1 \in 1 .. n /\ (k + 1) - 1 = k /\ k + 1 \in 0 .. n
      BY <1>2
    <3>2. w[k + 1] = TakenParts(nodes, w[k], k + 1)
      BY <1>a, <3>1
    <3> QED
      BY <1>8, <2>2, <3>1, <3>2
  <2> HIDE DEF T
  <2> QED
    BY <1>2, <2>1, <2>2, CountedOff
<1> QED
  BY <1>2, <1>7, <1>8, <1>11, <1>13 DEF n


(* `pos` lists the nodes that count, in their order; they are called `names`. *)
Lists(nodes, pos, names) ==
  /\ pos \in [1 .. Len(names) -> 1 .. Len(nodes)]
  /\ \A i, j \in 1 .. Len(names) : i < j => pos[i] < pos[j]
  /\ \A k \in 1 .. Len(nodes) : ~nodes[k].ignore <=> \E i \in 1 .. Len(names) : pos[i] = k
  /\ \A i \in 1 .. Len(names) : nodes[pos[i]].name = names[i]

LEMMA ReadsBack ==
  ASSUME NEW nodes \in Seq(Node), NEW names \in Seq(Pieces), NEW pos, Lists(nodes, pos, names)
  PROVE  ftpd_node2path(nodes) = names
<1> DEFINE n == Len(nodes)
           m == Len(names)
<1>1. PICK f \in [0 .. n -> Seq(Pieces)] :
        /\ f[0] = <<>> /\ ftpd_node2path(nodes) = f[n]
        /\ \A k \in 1 .. n : f[k] = TakenParts(nodes, f[k - 1], k)
  BY PartsAre
<1>2. n \in Nat /\ m \in Nat /\ pos \in [1 .. m -> 1 .. n]
  BY DEF Lists
<1>3. \A i, j \in 1 .. m : i < j => pos[i] < pos[j]
  BY DEF Lists
<1>4. \A k \in 1 .. n : ~nodes[k].ignore <=> \E i \in 1 .. m : pos[i] = k
  BY DEF Lists
<1>5. \A i \in 1 .. m : nodes[pos[i]].name = names[i]
  BY DEF Lists
<1> DEFINE UpTo(k, c) == /\ \A i \in 1 .. m : pos[i] <= k <=> i <= c
                         /\ f[k] = SubSeq(names, 1, c)
           T == {k \in 0 .. n : \E c \in 0 .. m : UpTo(k, c)}
<1> HIDE DEF n, m
<1>6. 0 .. n \subseteq T
  <2>1. 0 \in T
    <3>1. UpTo(0, 0)
      <4>1. \A i \in 1 .. m : pos[i] \in 1 .. n
        BY <1>2
      <4>2. SubSeq(names, 1, 0) = <<>>
        OBVIOUS
      <4> QED
        BY <1>1, <1>2, <4>1, <4>2
    <3>2. 0 \in 0 .. n /\ 0 \in 0 .. m
      BY <1>2
    <3> HIDE DEF UpTo
    <3> QED
      BY <3>1, <3>2
  <2>2. ASSUME NEW k \in 0 .. n - 1, k \in T PROVE k + 1 \in T
    <3>1. PICK c \in 0 .. m : UpTo(k, c)
      BY <2>2
    <3>2. k + 1 \in 1 .. n /\ (k + 1) - 1 = k /\ k + 1 \in 0 .. n /\ k \in Nat
      BY <1>2
    <3>3. f[k + 1] = TakenParts(nodes, f[k], k + 1)
      BY <1>1, <3>2
    <3>4. CASE nodes[k + 1].ignore
      <4>1. \A i \in 1 .. m : pos[i] # k + 1
        BY <1>4, <3>2, <3>4
      <4>2. \A i \in 1 .. m : pos[i] \in 1 .. n
        BY <1>2
      <4>3. \A i \in 1 .. m : pos[i] <= k + 1 <=> pos[i] <= k
        BY <3>2, <4>1, <4>2, <1>2
      <4>4. UpTo(k + 1, c)
        BY <3>1, <3>3, <3>4, <4>3 DEF TakenParts
      <4> QED
        BY <3>2, <4>4
    <3>5. CASE ~nodes[k + 1].ignore
      <4>1. PICK e \in 1 .. m : pos[e] = k + 1
        BY <1>4, <3>2, <3>5
      <4>2. \A i \in 1 .. m : pos[i] \in 1 .. n /\ (i < e => pos[i] < k + 1)
                              /\ (e < i => k + 1 < pos[i])
        BY <1>2, <1>3, <4>1
      <4>3. e = c + 1
        <5>1. ~(e <= c)
          BY <3>1, <4>1, <3>2
        <5>2. CASE c + 1 < e
          <6>1. c + 1 \in 1 .. m /\ ~(c + 1 <= c)
            BY <1>2, <5>2
          <6>2. pos[c + 1] < k + 1 /\ ~(pos[c + 1] <= k) /\ pos[c + 1] \in 1 .. n
            BY <3>1, <4>2, <5>2, <6>1
          <6> QED
            BY <3>2, <6>2, <1>2
        <5> QED
          BY <5>1, <5>2, <1>2
      <4>4. \A i \in 1 .. m : pos[i] <= k + 1 <=> i <= e
        <5>1. ASSUME NEW i \in 1 .. m PROVE pos[i] <= k + 1 <=> i <= e
          <6>1. CASE i < e
            BY <4>2, <6>1, <3>2, <1>2
          <6>2. CASE i = e
            BY <4>1, <6>2, <3>2
          <6>3. CASE e < i
            BY <4>2, <6>3, <3>2, <1>2
          <6> QED
            BY <6>1, <6>2, <6>3, <1>2
        <5> QED
          BY <5>1
      <4>5. f[k + 1] = Append(SubSeq(names, 1, c), names[e])
        BY <1>5, <3>1, <3>3, <3>5, <4>1 DEF TakenParts
      <4>6. SubSeq(names, 1, e) = Append(SubSeq(names, 1, c), names[e])
        BY <4>3, <1>2 DEF m
      <4>7. UpTo(k + 1, e)
        BY <4>4, <4>5, <4>6
      <4>8. e \in 0 .. m
        BY <1>2
      <4> HIDE DEF UpTo
      <4> QED
        BY <3>2, <4>7, <4>8
    <3> QED
      BY <3>4, <3>5
  <2> HIDE DEF T
  <2> QED
    BY <1>2, <2>1, <2>2, CountedOff
<1> HIDE DEF UpTo
<1>7. PICK c \in 0 .. m : UpTo(n, c)
  <2>1. n \in T
    <3>1. n \in 0 .. n
      BY <1>2
    <3> HIDE DEF T
    <3> QED
      BY <1>6, <3>1
  <2> QED
    BY <2>1
<1> USE DEF UpTo
<1>8. c = m
  <2>1. CASE c < m
    <3>1. m \in 1 .. m /\ ~(m <= c) /\ pos[m] \in 1 .. n
      BY <1>2, <2>1
    <3>2. pos[m] <= n
      BY <1>2, <3>1
    <3> QED
      BY <1>7, <3>1, <3>2
  <2> QED
    BY <1>2, <2>1
<1>9. SubSeq(names, 1, m) = names
  BY DEF m
<1> QED
  BY <1>1, <1>7, <1>8, <1>9

(* One more node, and the names it leaves.                                   *)
Slash == ""
Up    == ".."
Skips == {"", "."}
NameStep(names, part) ==
  IF part \in Skips THEN names
  ELSE IF part = Up THEN (IF Len(names) > 1 THEN SubSeq(names, 1, Len(names) - 1) ELSE names)
  ELSE Append(names, part)

LEMMA OneMoreNode ==
  ASSUME NEW done \in Seq(Node), NEW part \in Pieces, NEW names \in Seq(Pieces), NEW pos,
         Lists(done, pos, names), Len(names) >= 1, names[1] = Slash,
         \A i \in 2 .. Len(names) : names[i] # Slash
  PROVE  \E new : Lists(ftpd_pathignore(done, part), new, NameStep(names, part))
<1> DEFINE n == Len(done)
           m == Len(names)
           after == ftpd_pathignore(done, part)
<1>0. Len(done) \in Nat /\ Len(names) \in Nat \ {0}
  OBVIOUS
<1>1. n \in Nat /\ m \in Nat \ {0} /\ pos \in [1 .. m -> 1 .. n]
  BY <1>0 DEF Lists
<1>2. \A i, j \in 1 .. m : i < j => pos[i] < pos[j]
  BY DEF Lists
<1>3. \A k \in 1 .. n : ~done[k].ignore <=> \E i \in 1 .. m : pos[i] = k
  BY DEF Lists
<1>4. \A i \in 1 .. m : done[pos[i]].name = names[i]
  BY DEF Lists
<1>5. /\ done \in [1 .. n -> Node] /\ DOMAIN done = 1 .. n /\ (n > 0 => done # <<>>)
      /\ names \in [1 .. m -> Pieces] /\ names[1] = Slash /\ \A i \in 2 .. m : names[i] # Slash
      /\ (m > 1 => Len(SubSeq(names, 1, m - 1)) = m - 1
                   /\ \A i \in 1 .. m - 1 : SubSeq(names, 1, m - 1)[i] = names[i])
      /\ Len(Append(names, part)) = m + 1 /\ Append(names, part)[m + 1] = part
      /\ \A i \in 1 .. m : Append(names, part)[i] = names[i]
  BY <1>0
<1>m. m = Len(names) /\ n = Len(done)
  OBVIOUS
<1> HIDE DEF n, m
<1>n. done # <<>>
  <2>1. pos[1] \in 1 .. n
    BY <1>1
  <2> QED
    BY <1>1, <1>5, <2>1
<1> DEFINE tail == CHOOSE k \in Kept(done) : \A j \in Kept(done) : j <= k
<1>6. tail = pos[m] /\ Kept(done) # {} /\ pos[m] \in 1 .. n
  <2>1. m \in 1 .. m /\ pos[m] \in 1 .. n
    BY <1>1
  <2>2. pos[m] \in Kept(done)
    BY <1>3, <1>5, <2>1 DEF Kept
  <2>3. ASSUME NEW j \in Kept(done) PROVE j <= pos[m]
    <3>1. PICK i \in 1 .. m : pos[i] = j
      BY <1>3, <1>5 DEF Kept
    <3>2. i = m \/ i < m
      BY <1>1
    <3>3. pos[i] \in 1 .. n
      BY <1>1
    <3> QED
      BY <1>1, <1>2, <2>1, <3>1, <3>2, <3>3
  <2>4. tail \in Kept(done) /\ \A j \in Kept(done) : j <= tail
    BY <2>2, <2>3
  <2>5. tail <= pos[m] /\ pos[m] <= tail
    BY <2>2, <2>3, <2>4
  <2>6. tail \in 1 .. n
    BY <1>5, <2>4 DEF Kept
  <2> HIDE DEF tail
  <2> QED
    BY <1>1, <2>1, <2>2, <2>5, <2>6
<1> DEFINE popped == part = Up /\ Kept(done) # {} /\ done[tail].name # Slash
           before == IF popped THEN [done EXCEPT ![tail].ignore = TRUE] ELSE done
           node == [name |-> part,
                    ignore |-> part \in {".", ".."} \/ (part = "" /\ done # <<>>)]
<1>7. after = Append(before, node)
  BY DEF ftpd_pathignore, Slash, Up
<1>s. (node.ignore <=> part \in Skips \cup {Up}) /\ node.name = part /\ Up \notin Skips
      /\ node.ignore \in BOOLEAN
  BY <1>n, Zenon DEF Skips, Up
<1> HIDE DEF node
<1> HIDE DEF tail
<1>8. popped <=> part = Up /\ m > 1
  <2>1. done[tail].name = names[m] /\ m \in 1 .. m
    BY <1>1, <1>4, <1>6
  <2>2. m > 1 => m \in 2 .. m
    BY <1>1
  <2> QED
    BY <1>1, <1>5, <1>6, <2>1, <2>2
<1>9. /\ before \in [1 .. n -> Node]
      /\ \A k \in 1 .. n : /\ before[k].name = done[k].name
                           /\ before[k].ignore = (done[k].ignore \/ (popped /\ k = tail))
  <2>1. CASE popped
    <3>1. before = [done EXCEPT ![tail].ignore = TRUE]
      BY <2>1
    <3>2. \A k \in 1 .. n : k # tail => before[k] = done[k]
      BY <1>5, <3>1
    <3>3. before[tail] = [done[tail] EXCEPT !.ignore = TRUE]
      BY <1>5, <1>6, <3>1
    <3>4. done[tail] \in Node /\ DOMAIN before = 1 .. n
      BY <1>5, <1>6, <3>1
    <3>5. before[tail] \in Node /\ before[tail].ignore = TRUE /\ before[tail].name = done[tail].name
      BY <3>3, <3>4 DEF Node
    <3>6. before = [k \in 1 .. n |-> before[k]]
      BY <1>5, <3>1
    <3>7. \A k \in 1 .. n : before[k] \in Node /\ done[k] \in Node
      BY <1>5, <3>2, <3>5
    <3> HIDE DEF before, popped
    <3>8. before \in [1 .. n -> Node]
      BY <3>6, <3>7
    <3>9. \A k \in 1 .. n : done[k].ignore \in BOOLEAN
      BY <3>7 DEF Node
    <3> QED
      BY <2>1, <3>2, <3>5, <3>8, <3>9
  <2>2. CASE ~popped
    <3>1. \A k \in 1 .. n : done[k].ignore \in BOOLEAN
      BY <1>5 DEF Node
    <3> QED
      BY <1>5, <2>2, <3>1
  <2> QED
    BY <2>1, <2>2
<1> HIDE DEF popped, before
<1>10. /\ Len(after) = n + 1
       /\ \A k \in 1 .. n : after[k] = before[k]
       /\ after[n + 1] = node
  <2>1. node \in Node
    <3>1. node.name = part /\ node.ignore \in BOOLEAN
      BY <1>s
    <3> QED
      BY <3>1 DEF Node, node
  <2>2. before \in Seq(Node) /\ Len(before) = n
    BY <1>1, <1>9
  <2>3. /\ Len(Append(before, node)) = n + 1
        /\ \A k \in 1 .. n : Append(before, node)[k] = before[k]
        /\ Append(before, node)[n + 1] = node
    BY <2>1, <2>2, AppendProperties
  <2> QED
    BY <1>7, <2>3
<1> HIDE DEF after
<1>11. CASE part \in Skips \/ (part = Up /\ m = 1)
  <2>1. NameStep(names, part) = names /\ node.ignore /\ ~popped
    BY <1>1, <1>8, <1>11, <1>m, <1>s DEF NameStep
  <2>2. Lists(after, pos, names)
    <3>1. pos \in [1 .. m -> 1 .. n + 1]
      BY <1>1
    <3>2. ASSUME NEW k \in 1 .. n + 1
          PROVE  ~after[k].ignore <=> \E i \in 1 .. m : pos[i] = k
      <4>1. CASE k = n + 1
        <5>1. \A i \in 1 .. m : pos[i] \in 1 .. n
          BY <1>1
        <5> QED
          BY <1>1, <1>10, <2>1, <4>1, <5>1
      <4>2. CASE k # n + 1
        <5>1. k \in 1 .. n
          BY <1>1, <4>2
        <5> QED
          BY <1>3, <1>9, <1>10, <2>1, <5>1
      <4> QED
        BY <4>1, <4>2
    <3>3. \A i \in 1 .. m : after[pos[i]].name = names[i]
      <4>1. \A i \in 1 .. m : pos[i] \in 1 .. n
        BY <1>1
      <4> QED
        BY <1>4, <1>9, <1>10, <4>1
    <3> QED
      BY <1>m, <1>2, <1>10, <3>1, <3>2, <3>3 DEF Lists
  <2> QED
    BY <2>1, <2>2 DEF after
<1>12. CASE part = Up /\ m > 1
  <2> DEFINE new == [i \in 1 .. m - 1 |-> pos[i]]
             less == SubSeq(names, 1, m - 1)
  <2>1. NameStep(names, part) = less /\ node.ignore /\ popped
    BY <1>1, <1>8, <1>12, <1>m, <1>s DEF NameStep
  <2>2. Len(less) = m - 1 /\ \A i \in 1 .. m - 1 : less[i] = names[i]
    BY <1>5, <1>12
  <2> HIDE DEF less
  <2>3. \A i \in 1 .. m - 1 : i \in 1 .. m /\ i < m /\ new[i] = pos[i] /\ pos[i] \in 1 .. n
                              /\ pos[i] < pos[m]
    <3>1. ASSUME NEW i \in 1 .. m - 1 PROVE i \in 1 .. m /\ i < m /\ m \in 1 .. m
      BY <1>1
    <3> QED
      BY <1>1, <1>2, <3>1
  <2>4. Lists(after, new, less)
    <3>1. new \in [1 .. m - 1 -> 1 .. n + 1]
      BY <1>1, <2>3
    <3>2. ASSUME NEW k \in 1 .. n + 1
          PROVE  ~after[k].ignore <=> \E i \in 1 .. m - 1 : new[i] = k
      <4>1. CASE k = n + 1
        BY <1>1, <1>10, <2>1, <2>3, <4>1
      <4>2. CASE k # n + 1
        <5>1. k \in 1 .. n
          BY <1>1, <4>2
        <5>2. after[k].ignore = (done[k].ignore \/ k = pos[m])
          BY <1>6, <1>9, <1>10, <2>1, <5>1
        <5>3. CASE k = pos[m]
          <6>1. after[k].ignore
            BY <5>2, <5>3
          <6>2. \A i \in 1 .. m - 1 : pos[i] < pos[m]
            BY <2>3
          <6>3. \A i \in 1 .. m - 1 : new[i] # k
            BY <1>1, <1>6, <2>3, <5>3, <6>2
          <6> QED
            BY <6>1, <6>3
        <5>4. CASE k # pos[m]
          <6>1. (\E i \in 1 .. m : pos[i] = k) <=> \E i \in 1 .. m - 1 : pos[i] = k
            <7>1. ASSUME NEW i \in 1 .. m, pos[i] = k PROVE i \in 1 .. m - 1
              BY <1>1, <5>4, <7>1
            <7> QED
              BY <2>3, <7>1
          <6> QED
            BY <1>3, <2>3, <5>1, <5>2, <5>4, <6>1
        <5> QED
          BY <5>3, <5>4
      <4> QED
        BY <4>1, <4>2
    <3>3. \A i \in 1 .. m - 1 : after[new[i]].name = less[i]
      BY <1>4, <1>9, <1>10, <2>2, <2>3
    <3>4. \A i, j \in 1 .. m - 1 : i < j => new[i] < new[j]
      BY <1>2, <2>3
    <3> HIDE DEF new
    <3> QED
      BY <1>m, <1>10, <2>2, <3>1, <3>2, <3>3, <3>4 DEF Lists
  <2> HIDE DEF new
  <2> QED
    BY <2>1, <2>4 DEF after
<1>13. CASE part \notin Skips \cup {Up}
  <2> DEFINE new == [i \in 1 .. m + 1 |-> IF i = m + 1 THEN n + 1 ELSE pos[i]]
             more == Append(names, part)
  <2>1. NameStep(names, part) = more /\ ~node.ignore /\ node.name = part /\ ~popped
    BY <1>8, <1>13, <1>m, <1>s DEF NameStep
  <2>2. Len(more) = m + 1 /\ more[m + 1] = part /\ \A i \in 1 .. m : more[i] = names[i]
    BY <1>5
  <2> HIDE DEF more
  <2>3. /\ \A i \in 1 .. m : i \in 1 .. m + 1 /\ new[i] = pos[i] /\ pos[i] \in 1 .. n
                             /\ pos[i] < n + 1
        /\ m + 1 \in 1 .. m + 1 /\ new[m + 1] = n + 1
        /\ \A i \in 1 .. m + 1 : i \in 1 .. m \/ i = m + 1
    <3>1. \A i \in 1 .. m : pos[i] \in 1 .. n
      BY <1>1
    <3> QED
      BY <1>1, <3>1
  <2>4. Lists(after, new, more)
    <3>1. new \in [1 .. m + 1 -> 1 .. n + 1]
      BY <1>1, <2>3
    <3> HIDE DEF new
    <3>2. ASSUME NEW k \in 1 .. n + 1
          PROVE  ~after[k].ignore <=> \E i \in 1 .. m + 1 : new[i] = k
      <4>1. CASE k = n + 1
        BY <1>10, <2>1, <2>3, <4>1
      <4>2. CASE k # n + 1
        <5>1. k \in 1 .. n
          BY <1>1, <4>2
        <5>2. after[k].ignore = done[k].ignore
          <6>1. done[k].ignore \in BOOLEAN
            BY <1>5, <5>1 DEF Node
          <6> QED
            BY <1>9, <1>10, <2>1, <5>1, <6>1
        <5>3. (\E i \in 1 .. m + 1 : new[i] = k) <=> \E i \in 1 .. m : pos[i] = k
          BY <2>3, <4>2
        <5> QED
          BY <1>3, <5>1, <5>2, <5>3
      <4> QED
        BY <4>1, <4>2
    <3>3. \A i \in 1 .. m + 1 : after[new[i]].name = more[i]
      <4>1. ASSUME NEW i \in 1 .. m PROVE after[new[i]].name = more[i]
        <5>1. new[i] = pos[i] /\ pos[i] \in 1 .. n /\ more[i] = names[i]
          BY <2>2, <2>3
        <5>2. after[pos[i]].name = done[pos[i]].name
          BY <1>9, <1>10, <5>1
        <5>3. done[pos[i]].name = names[i]
          BY <1>4, <1>9, <5>1
        <5> QED
          BY <5>1, <5>2, <5>3
      <4>2. after[new[m + 1]].name = more[m + 1]
        BY <1>10, <2>1, <2>2, <2>3
      <4> QED
        BY <2>3, <4>1, <4>2
    <3>4. ASSUME NEW i \in 1 .. m + 1, NEW j \in 1 .. m + 1, i < j PROVE new[i] < new[j]
      <4>1. i \in 1 .. m
        BY <1>1, <3>4
      <4>2. CASE j = m + 1
        BY <2>3, <4>1, <4>2
      <4>3. CASE j \in 1 .. m
        BY <1>2, <2>3, <3>4, <4>1, <4>3
      <4> QED
        BY <2>3, <4>2, <4>3
    <3> QED
      BY <1>m, <1>10, <2>2, <3>1, <3>2, <3>3, <3>4 DEF Lists
  <2> HIDE DEF new
  <2> QED
    BY <2>1, <2>4 DEF after
<1> QED
  BY <1>1, <1>11, <1>12, <1>13

(* An absolute path is written as the root and the names of its place.       *)
Rooted(place) == <<Slash>> \o place

LEMMA RootedIs ==
  ASSUME NEW place \in Seq(TreeNames)
  PROVE  /\ Rooted(place) \in Seq(Pieces) /\ Len(Rooted(place)) = Len(place) + 1
         /\ Rooted(place)[1] = Slash
         /\ \A i \in 2 .. Len(Rooted(place)) : Rooted(place)[i] = place[i - 1]
         /\ Tail(Rooted(place)) = place
<1>1. Slash \in Pieces /\ place \in Seq(Pieces) /\ <<Slash>> \in Seq(Pieces)
  <2>1. Slash \in Pieces /\ TreeNames \subseteq Pieces
    BY DEF Slash, Pieces, Marks
  <2> QED
    BY <2>1
<1>2. /\ Rooted(place) \in Seq(Pieces) /\ Len(Rooted(place)) = Len(place) + 1
      /\ Rooted(place)[1] = Slash
      /\ \A i \in 2 .. Len(Rooted(place)) : Rooted(place)[i] = place[i - 1]
  BY <1>1 DEF Rooted
<1>3. Tail(Rooted(place)) = place
  <2> DEFINE r == Rooted(place)
             t == Tail(Rooted(place))
  <2>1. r \in Seq(Pieces) /\ r # <<>> /\ Len(place) \in Nat
    BY <1>2
  <2>2. t \in Seq(Pieces) /\ Len(t) = Len(r) - 1 /\ \A i \in 1 .. Len(t) : t[i] = r[i + 1]
    BY <2>1, HeadTailProperties
  <2>3. ASSUME NEW i \in 1 .. Len(t) PROVE t[i] = place[i]
    <3>1. i + 1 \in 2 .. Len(r) /\ (i + 1) - 1 = i
      BY <2>1, <2>2, <1>2
    <3>2. r[i + 1] = place[(i + 1) - 1]
      BY <1>2, <3>1
    <3> QED
      BY <2>2, <3>1, <3>2
  <2>4. Len(t) = Len(place)
    BY <1>2, <2>1, <2>2
  <2> HIDE DEF t
  <2> QED
    BY <1>1, <2>2, <2>3, <2>4, SeqEqual
<1> QED
  BY <1>2, <1>3

LEMMA NamesAreNames ==
  ASSUME NEW place \in Seq(TreeNames), NEW i \in 2 .. Len(Rooted(place))
  PROVE  Rooted(place)[i] \in TreeNames /\ Rooted(place)[i] # Slash
<1>1. Slash \notin TreeNames
  BY PathAssumption, Zenon DEF Slash, TreeNames
<1>2. i - 1 \in 1 .. Len(place) /\ Rooted(place)[i] = place[i - 1]
  BY RootedIs
<1> QED
  BY <1>1, <1>2

LEMMA StepIs ==
  ASSUME NEW place \in Seq(TreeNames), NEW part \in Pieces
  PROVE  Step(place, part) \in Seq(TreeNames) /\ NameStep(Rooted(place), part) = Rooted(Step(place, part))
<1>1. Up \notin Skips
  BY DEF Up, Skips
<1>2. Step(place, part) = IF part \in Skips THEN place
                          ELSE IF part = Up THEN SubSeq(place, 1, Len(place) - 1)
                          ELSE Append(place, part)
  BY DEF Step, Skips, Up
<1>3. part \in Skips \/ part = Up \/ part \in TreeNames
  BY DEF Pieces, Marks, Skips, Up
<1>4. CASE part \in Skips
  BY <1>2, <1>4 DEF NameStep
<1>5. CASE part = Up /\ place = <<>>
  <2>1. SubSeq(place, 1, Len(place) - 1) = <<>> /\ Len(place) = 0
    BY <1>5
  <2>2. Len(Rooted(place)) = 1
    <3>1. Len(Rooted(place)) = Len(place) + 1
      BY RootedIs
    <3> QED
      BY <2>1, <3>1
  <2>3. NameStep(Rooted(place), part) = Rooted(place)
    <3>1. part = Up /\ part \notin Skips
      BY <1>1, <1>5, Zenon
    <3>2. ~(Len(Rooted(place)) > 1)
      BY ONLY <2>2
    <3> QED
      BY <3>1, <3>2, Zenon DEF NameStep
  <2>4. Step(place, part) = place
    BY <1>1, <1>2, <1>5, <2>1
  <2> QED
    BY <2>3, <2>4
<1>6. CASE part = Up /\ place # <<>>
  <2> DEFINE above == SubSeq(place, 1, Len(place) - 1)
             m  == Len(place)
  <2>1. m \in Nat \ {0} /\ above \in Seq(TreeNames) /\ Len(above) = m - 1
        /\ \A i \in 1 .. m - 1 : above[i] = place[i]
    <3>1. m \in Nat \ {0} /\ m - 1 \in 0 .. Len(place)
      BY <1>6, EmptySeq
    <3>2. \A i \in 1 .. m - 1 : place[i] \in TreeNames
      BY <3>1
    <3> HIDE DEF m
    <3>3. above \in Seq(TreeNames) /\ Len(above) = IF 1 <= m - 1 THEN (m - 1) - 1 + 1 ELSE 0
      BY <3>1, <3>2, SubSeqProperties DEF m
    <3>4. \A i \in 1 .. (m - 1) - 1 + 1 : above[i] = place[1 + i - 1]
      BY <3>1, <3>2, SubSeqProperties DEF m
    <3> HIDE DEF above
    <3> QED
      BY <3>1, <3>3, <3>4
  <2> HIDE DEF above
  <2>2. Rooted(place) \in Seq(Pieces) /\ Len(Rooted(place)) = m + 1
    BY RootedIs
  <2> DEFINE s == SubSeq(Rooted(place), 1, m)
  <2>3. s \in Seq(Pieces) /\ Len(s) = m /\ \A i \in 1 .. m : s[i] = Rooted(place)[i]
    BY <2>1, <2>2
  <2>4. Rooted(above) \in Seq(Pieces) /\ Len(Rooted(above)) = m
    BY <2>1, RootedIs
  <2>5. ASSUME NEW i \in 1 .. m PROVE s[i] = Rooted(above)[i]
    <3>1. CASE i = 1
      BY <2>1, <2>3, <3>1, RootedIs
    <3>2. CASE i # 1
      <4>1. i \in 2 .. Len(Rooted(above)) /\ i \in 2 .. Len(Rooted(place)) /\ i - 1 \in 1 .. m - 1
        BY <2>1, <2>2, <2>4, <3>2
      <4>2. Rooted(above)[i] = above[i - 1] /\ Rooted(place)[i] = place[i - 1]
        BY <2>1, <4>1, RootedIs
      <4> QED
        BY <2>1, <2>3, <4>1, <4>2
    <3> QED
      BY <3>1, <3>2
  <2>6. s = Rooted(above)
    BY <2>3, <2>4, <2>5, SeqEqual
  <2>7. NameStep(Rooted(place), part) = s
    BY <1>1, <1>6, <2>1, <2>2 DEF NameStep
  <2> QED
    BY <1>1, <1>2, <1>6, <2>1, <2>6, <2>7 DEF above
<1>7. CASE part \notin Skips \cup {Up}
  <2>1. part \in TreeNames /\ Slash \in Pieces /\ TreeNames \subseteq Pieces
    BY <1>3, <1>7 DEF Pieces, Marks, Slash
  <2>2. Append(place, part) \in Seq(TreeNames)
    BY <2>1
  <2>3. place \in Seq(Pieces) /\ part \in Pieces /\ <<Slash>> \in Seq(Pieces)
    BY <2>1
  <2>4. <<Slash>> \o Append(place, part) = Append(<<Slash>> \o place, part)
    BY <2>3
  <2> QED
    BY <1>2, <1>7, <2>2, <2>4 DEF NameStep, Rooted
<1> QED
  BY <1>3, <1>4, <1>5, <1>6, <1>7

(* Walking: through a list of names, and on from where one has got.          *)
LEMMA WalkOn ==
  ASSUME NEW from \in Seq(TreeNames), NEW one \in Seq(Pieces), NEW two \in Seq(Pieces)
  PROVE  /\ Walk(from, one) \in Seq(TreeNames)
         /\ Walk(from, one \o two) = Walk(Walk(from, one), two)
<1> DEFINE m == Len(one)
           n == Len(two)
           there == Walk(from, one)
<1>1. PICK f \in [0 .. m -> Seq(TreeNames)] :
        f[0] = from /\ there = f[m] /\ \A k \in 1 .. m : f[k] = Step(f[k - 1], one[k])
  BY WalkIs DEF Pieces
<1>2. m \in Nat /\ n \in Nat /\ there \in Seq(TreeNames)
  BY <1>1
<1>3. /\ one \o two \in Seq(Pieces) /\ Len(one \o two) = m + n
      /\ \A k \in 1 .. m : (one \o two)[k] = one[k]
      /\ \A k \in 1 .. n : (one \o two)[m + k] = two[k]
  <2>1. one \o two \in Seq(Pieces)
    OBVIOUS
  <2>2. Len(one \o two) = m + n
    OBVIOUS
  <2>3. \A k \in 1 .. m : (one \o two)[k] = one[k]
    OBVIOUS
  <2>4. \A k \in 1 .. n : (one \o two)[m + k] = two[k]
    OBVIOUS
  <2> QED
    BY <2>1, <2>2, <2>3, <2>4
<1> DEFINE both == one \o two
<1> HIDE DEF there, m, n, both
<1>4. PICK g \in [0 .. n -> Seq(TreeNames)] :
        g[0] = there /\ Walk(there, two) = g[n] /\ \A k \in 1 .. n : g[k] = Step(g[k - 1], two[k])
  <2>1. two \in Seq(Pieces) /\ Len(two) = n
    BY DEF n
  <2>2. \E g \in [0 .. Len(two) -> Seq(TreeNames)] :
          /\ g[0] = there /\ Walk(there, two) = g[Len(two)]
          /\ \A k \in 1 .. Len(two) : g[k] = Step(g[k - 1], two[k])
    BY <1>2, <2>1, WalkStays
  <2> QED
    BY <2>1, <2>2
<1>5. PICK h \in [0 .. m + n -> Seq(TreeNames)] :
        /\ h[0] = from /\ Walk(from, both) = h[m + n]
        /\ \A k \in 1 .. m + n : h[k] = Step(h[k - 1], both[k])
  <2>1. both \in Seq(Pieces) /\ Len(both) = m + n
    BY <1>3 DEF both
  <2>2. \E h \in [0 .. Len(both) -> Seq(TreeNames)] :
          /\ h[0] = from /\ Walk(from, both) = h[Len(both)]
          /\ \A k \in 1 .. Len(both) : h[k] = Step(h[k - 1], both[k])
    BY <2>1, WalkStays
  <2> QED
    BY <2>1, <2>2
<1>6. 0 .. m \subseteq {k \in 0 .. m : h[k] = f[k]}
  <2>1. 0 \in {k \in 0 .. m : h[k] = f[k]}
    BY <1>1, <1>2, <1>5
  <2>2. ASSUME NEW k \in 0 .. m - 1, k \in {j \in 0 .. m : h[j] = f[j]}
        PROVE  k + 1 \in {j \in 0 .. m : h[j] = f[j]}
    <3>1. k + 1 \in 1 .. m /\ k + 1 \in 1 .. m + n /\ (k + 1) - 1 = k /\ k + 1 \in 0 .. m
      BY <1>2
    <3>2. both[k + 1] = one[k + 1]
      BY <1>3, <3>1 DEF both
    <3>3. h[k + 1] = Step(h[k], both[k + 1]) /\ f[k + 1] = Step(f[k], one[k + 1])
      BY <1>1, <1>5, <3>1
    <3> QED
      BY <2>2, <3>1, <3>2, <3>3
  <2> QED
    BY <1>2, <2>1, <2>2, CountedOff
<1>7. h[m] = there
  <2>1. m \in 0 .. m
    BY <1>2
  <2> QED
    BY <1>1, <1>6, <2>1
<1>8. 0 .. n \subseteq {k \in 0 .. n : h[m + k] = g[k]}
  <2>1. 0 \in {k \in 0 .. n : h[m + k] = g[k]}
    <3>1. m + 0 = m /\ 0 \in 0 .. n
      BY <1>2
    <3> QED
      BY <1>4, <1>7, <3>1
  <2>2. ASSUME NEW k \in 0 .. n - 1, k \in {j \in 0 .. n : h[m + j] = g[j]}
        PROVE  k + 1 \in {j \in 0 .. n : h[m + j] = g[j]}
    <3>1. k + 1 \in 1 .. n /\ m + (k + 1) \in 1 .. m + n /\ (k + 1) - 1 = k /\ k + 1 \in 0 .. n
          /\ (m + (k + 1)) - 1 = m + k
      BY <1>2
    <3>2. both[m + (k + 1)] = two[k + 1]
      BY <1>3, <3>1 DEF both
    <3>3. h[m + (k + 1)] = Step(h[m + k], both[m + (k + 1)]) /\ g[k + 1] = Step(g[k], two[k + 1])
      BY <1>4, <1>5, <3>1
    <3> QED
      BY <2>2, <3>1, <3>2, <3>3
  <2> QED
    BY <1>2, <2>1, <2>2, CountedOff
<1>9. h[m + n] = g[n]
  <2>1. n \in 0 .. n
    BY <1>2
  <2> QED
    BY <1>8, <2>1
<1> QED
  BY <1>2, <1>4, <1>5, <1>9 DEF there, both

LEMMA WalkNames ==
  ASSUME NEW from \in Seq(TreeNames), NEW names \in Seq(TreeNames)
  PROVE  Walk(from, names) = from \o names
<1> DEFINE n == Len(names)
<1>1. n \in Nat /\ names \in Seq(TreeNames \cup Marks) /\ \A k \in 1 .. n : names[k] \in TreeNames
  <2>1. TreeNames \subseteq TreeNames \cup Marks
    OBVIOUS
  <2> QED
    BY <2>1
<1>2. PICK f \in [0 .. n -> Seq(TreeNames)] :
        /\ f[0] = from /\ Walk(from, names) = f[n]
        /\ \A k \in 1 .. n : f[k] = Step(f[k - 1], names[k])
  <2> HIDE DEF n
  <2>1. names \in Seq(TreeNames \cup Marks)
    BY <1>1
  <2> USE DEF n
  <2> QED
    BY <2>1, WalkIs
<1> DEFINE begun(k) == from \o SubSeq(names, 1, k)
<1>3. begun(0) = from /\ begun(n) = from \o names
  <2>1. SubSeq(names, 1, 0) = <<>> /\ SubSeq(names, 1, n) = names
    OBVIOUS
  <2> QED
    BY <2>1, ConcatEmptySeq
<1>4. \A k \in 0 .. n - 1 : begun(k + 1) = Append(begun(k), names[k + 1])
  <2>1. ASSUME NEW k \in 0 .. n - 1 PROVE begun(k + 1) = Append(begun(k), names[k + 1])
    <3> DEFINE s == SubSeq(names, 1, k)
               x == names[k + 1]
    <3>1. SubSeq(names, 1, k + 1) = Append(s, x) /\ s \in Seq(TreeNames) /\ x \in TreeNames
      BY <1>1
    <3> HIDE DEF s, x
    <3>2. from \o Append(s, x) = Append(from \o s, x)
      BY <3>1
    <3> QED
      BY <3>1, <3>2 DEF s, x
  <2> QED
    BY <2>1
<1> HIDE DEF n, begun
<1>5. \A place \in Seq(TreeNames), name \in TreeNames : Step(place, name) = Append(place, name)
  <2>1. \A name \in TreeNames : name \notin Marks
    BY PathAssumption, Zenon DEF TreeNames, Marks
  <2> QED
    BY <2>1, Zenon DEF Step, Marks
<1>6. 0 .. n \subseteq {k \in 0 .. n : f[k] = begun(k)}
  <2>1. 0 \in {k \in 0 .. n : f[k] = begun(k)}
    BY <1>1, <1>2, <1>3
  <2>2. ASSUME NEW k \in 0 .. n - 1, k \in {j \in 0 .. n : f[j] = begun(j)}
        PROVE  k + 1 \in {j \in 0 .. n : f[j] = begun(j)}
    <3>1. k + 1 \in 1 .. n /\ (k + 1) - 1 = k /\ k + 1 \in 0 .. n /\ k \in 0 .. n
      BY <1>1
    <3>2. f[k + 1] = Step(f[k], names[k + 1]) /\ f[k] \in Seq(TreeNames) /\ names[k + 1] \in TreeNames
      BY <1>1, <1>2, <3>1
    <3> QED
      BY <1>4, <1>5, <2>2, <3>1, <3>2
  <2> QED
    BY <1>1, <2>1, <2>2, CountedOff
<1> QED
  BY <1>1, <1>2, <1>3, <1>6

LEMMA FirstNode ==
  ASSUME NEW part, part = Slash
  PROVE  /\ ftpd_pathignore(<<>>, part) = <<[name |-> Slash, ignore |-> FALSE]>>
         /\ Step(<<>>, part) = <<>>
<1>1. Kept(<<>>) = {}
  BY DEF Kept
<1>2. /\ part \notin {".", ".."} /\ part # ".." /\ part \in {"", "."}
  BY DEF Slash
<1>3. ftpd_pathignore(<<>>, part) = Append(<<>>, [name |-> part, ignore |-> FALSE])
  BY <1>1, <1>2, Zenon DEF ftpd_pathignore
<1>4. Step(<<>>, part) = <<>>
  BY <1>2 DEF Step
<1> DEFINE node == [name |-> part, ignore |-> FALSE]
<1> HIDE DEF node
<1>5. Append(<<>>, node) = <<node>>
  OBVIOUS
<1> QED
  BY <1>3, <1>4, <1>5 DEF node

(* What is left of an absolute path is its place.                            *)
LEMMA PathIsRead ==
  ASSUME NEW path \in Seq(Pieces), path # <<>>, path[1] = Slash
  PROVE  ftpd_node2path(ftpd_path2node(path)) = Rooted(Walk(<<>>, path))
<1> DEFINE n == Len(path)
<1>1. n \in Nat \ {0} /\ \A k \in 1 .. n : path[k] \in Pieces
  OBVIOUS
<1>2. PICK f \in [0 .. n -> Seq(Node)] :
        /\ f[0] = <<>> /\ ftpd_path2node(path) = f[n]
        /\ \A k \in 1 .. n : f[k] = ftpd_pathignore(f[k - 1], path[k])
  BY NodesAre
<1>3. PICK g \in [0 .. n -> Seq(TreeNames)] :
        /\ g[0] = <<>> /\ Walk(<<>>, path) = g[n]
        /\ \A k \in 1 .. n : g[k] = Step(g[k - 1], path[k])
  <2>1. <<>> \in Seq(TreeNames)
    OBVIOUS
  <2> QED
    BY <2>1, WalkStays
<1> HIDE DEF n
<1> DEFINE T == {k \in 0 .. n : k = 0 \/ \E pos : Lists(f[k], pos, Rooted(g[k]))}
<1>4. 1 \in T
  <2>1. 1 \in 1 .. n /\ 1 - 1 = 0 /\ 1 \in 0 .. n
    BY <1>1
  <2>2. f[1] = <<[name |-> Slash, ignore |-> FALSE]>> /\ g[1] = <<>>
    BY <1>2, <1>3, <2>1, FirstNode
  <2> DEFINE node == [name |-> Slash, ignore |-> FALSE]
             pos == [i \in 1 .. 1 |-> 1]
  <2>3. Len(Rooted(<<>>)) = 1 /\ Rooted(<<>>)[1] = Slash
    <3>1. <<>> \in Seq(TreeNames) /\ Len(<<>>) + 1 = 1
      OBVIOUS
    <3> QED
      BY <3>1, RootedIs
  <2>4. Len(<<node>>) = 1 /\ <<node>>[1].name = Slash /\ ~<<node>>[1].ignore
    OBVIOUS
  <2> HIDE DEF node
  <2>5. Lists(<<node>>, pos, Rooted(<<>>))
    <3> DEFINE nodes == <<node>>
               names == Rooted(<<>>)
    <3>1. Len(nodes) = 1 /\ ~nodes[1].ignore /\ nodes[1].name = names[1] /\ Len(names) = 1
      BY <2>3, <2>4
    <3> HIDE DEF nodes, names
    <3>2. pos \in [1 .. Len(names) -> 1 .. Len(nodes)]
      BY <3>1
    <3>3. \A i \in 1 .. Len(names) : i = 1 /\ pos[i] = 1
      BY <3>1
    <3>4. \A k \in 1 .. Len(nodes) : k = 1
      BY <3>1
    <3>5. Lists(nodes, pos, names)
      BY <3>1, <3>2, <3>3, <3>4 DEF Lists
    <3> QED
      BY <3>5 DEF nodes, names
  <2> HIDE DEF pos
  <2> QED
    BY <2>1, <2>2, <2>5 DEF node
<1>5. ASSUME NEW k \in 0 .. n - 1, k \in T PROVE k + 1 \in T
  <2>1. CASE k = 0
    BY <1>4, <2>1
  <2>2. CASE k # 0
    <3>1. PICK pos : Lists(f[k], pos, Rooted(g[k]))
      BY <1>5, <2>2
    <3>2. k + 1 \in 1 .. n /\ (k + 1) - 1 = k /\ k + 1 \in 0 .. n /\ k \in 0 .. n
      BY <1>1
    <3>3. f[k] \in Seq(Node) /\ g[k] \in Seq(TreeNames) /\ path[k + 1] \in Pieces
      BY <1>1, <1>2, <1>3, <3>2
    <3>4. f[k + 1] = ftpd_pathignore(f[k], path[k + 1]) /\ g[k + 1] = Step(g[k], path[k + 1])
      BY <1>2, <1>3, <3>2
    <3>5. /\ Rooted(g[k]) \in Seq(Pieces) /\ Len(Rooted(g[k])) >= 1 /\ Rooted(g[k])[1] = Slash
          /\ \A i \in 2 .. Len(Rooted(g[k])) : Rooted(g[k])[i] # Slash
      <4>1. Rooted(g[k]) \in Seq(Pieces) /\ Len(Rooted(g[k])) = Len(g[k]) + 1
            /\ Rooted(g[k])[1] = Slash
        BY <3>3, RootedIs
      <4>2. Len(g[k]) \in Nat
        BY <3>3
      <4>3. \A i \in 2 .. Len(Rooted(g[k])) : Rooted(g[k])[i] # Slash
        BY <3>3, NamesAreNames
      <4> QED
        BY <4>1, <4>2, <4>3
    <3>6. PICK new : Lists(ftpd_pathignore(f[k], path[k + 1]), new, NameStep(Rooted(g[k]), path[k + 1]))
      BY <3>1, <3>3, <3>5, OneMoreNode
    <3>7. NameStep(Rooted(g[k]), path[k + 1]) = Rooted(g[k + 1])
      BY <3>3, <3>4, StepIs
    <3> QED
      BY <3>2, <3>4, <3>6, <3>7
  <2> QED
    BY <2>1, <2>2
<1>6. n \in T
  <2>1. 0 \in T
    BY <1>1
  <2> HIDE DEF T
  <2>2. 0 .. n \subseteq T
    BY <1>1, <1>5, <2>1, CountedOff
  <2> QED
    BY <1>1, <2>2
<1>7. PICK pos : Lists(f[n], pos, Rooted(g[n]))
  BY <1>1, <1>6
<1>8. f[n] \in Seq(Node) /\ g[n] \in Seq(TreeNames)
  BY <1>1, <1>2, <1>3
<1>9. ftpd_node2path(f[n]) = Rooted(g[n])
  BY <1>7, <1>8, RootedIs, ReadsBack
<1> QED
  BY <1>2, <1>3, <1>9

LEMMA RootStays ==
  ASSUME NEW from \in Seq(TreeNames), <<Slash>> \in Seq(Pieces)
  PROVE  Walk(from, <<Slash>>) = from
<1> DEFINE one == <<Slash>>
<1>1. one \in Seq(Pieces) /\ Len(one) = 1 /\ one[1] = Slash
  OBVIOUS
<1> HIDE DEF one
<1>2. PICK f \in [0 .. Len(one) -> Seq(TreeNames)] :
        /\ f[0] = from /\ Walk(from, one) = f[Len(one)]
        /\ \A k \in 1 .. Len(one) : f[k] = Step(f[k - 1], one[k])
  BY <1>1, WalkStays
<1>3. f[1] = Step(f[1 - 1], one[1]) /\ 1 - 1 = 0
  BY <1>1, <1>2
<1>4. Step(from, Slash) = from
  BY DEF Step, Slash
<1> QED
  BY <1>1, <1>2, <1>3, <1>4 DEF one

LEMMA WalkRooted ==
  ASSUME NEW from \in Seq(TreeNames), from = <<>>, NEW place \in Seq(TreeNames)
  PROVE  Walk(from, Rooted(place)) = place
<1>1. <<Slash>> \in Seq(Pieces) /\ place \in Seq(Pieces) /\ Slash \in Pieces
  <2>1. Slash \in Pieces /\ TreeNames \subseteq Pieces
    BY DEF Slash, Pieces, Marks
  <2> QED
    BY <2>1
<1>2. Walk(from, Rooted(place)) = Walk(Walk(from, <<Slash>>), place)
  BY <1>1, WalkOn DEF Rooted
<1>3. Walk(from, <<Slash>>) = from
  BY <1>1, RootStays
<1>4. Walk(from, place) = from \o place
  BY WalkNames
<1> QED
  BY <1>2, <1>3, <1>4, ConcatEmptySeq

(* The session's directory and the tree.                                     *)
PathInv ==
  /\ \E w \in Seq(PathNames) : workdir = Rooted(w) /\ w \in tree
  /\ tree \subseteq Seq(PathNames)

ClientPaths == Seq(PathNames \cup Marks)

LEMMA WorkPath ==
  ASSUME PathInv, NEW path \in ClientPaths
  PROVE  /\ Place(path) \in Seq(PathNames)
         /\ ftpd_workpath(path) = Rooted(Place(path))
<1>1. PICK w \in Seq(PathNames) : workdir = Rooted(w) /\ w \in tree
  BY DEF PathInv
<1>2. w \in Seq(TreeNames) /\ path \in Seq(Pieces)
  <2>1. PathNames \subseteq TreeNames /\ PathNames \cup Marks \subseteq Pieces
    BY DEF TreeNames, Pieces
  <2> QED
    BY <1>1, <2>1 DEF ClientPaths
<1>3. /\ Rooted(w) \in Seq(Pieces) /\ Rooted(w)[1] = Slash /\ Tail(Rooted(w)) = w
      /\ Rooted(w) # <<>> /\ Len(Rooted(w)) \in Nat \ {0}
  BY <1>2, RootedIs
<1> DEFINE absolute == path # <<>> /\ path[1] = Slash
<1>4. Place(path) = Walk(IF absolute THEN <<>> ELSE w, path)
  BY <1>1, <1>3, Zenon DEF Place, Slash
<1>5. ftpd_workpath(path) = ftpd_node2path(ftpd_path2node(IF absolute THEN path ELSE workdir \o path))
  BY Zenon DEF ftpd_workpath, ftpd_nodeappend, Slash
<1>6. Place(path) \in Seq(PathNames)
  <2>1. \A from \in Seq(PathNames) : Walk(from, path) \in Seq(PathNames)
    <3>1. ASSUME NEW from \in Seq(PathNames) PROVE Walk(from, path) \in Seq(PathNames)
      <4>1. path \in Seq(PathNames \cup Marks) /\ Len(path) \in Nat
        BY DEF ClientPaths
      <4>2. PICK f \in [0 .. Len(path) -> Seq(PathNames)] : Walk(from, path) = f[Len(path)]
        BY <4>1, WalkIs
      <4> QED
        BY <4>1, <4>2
    <3> QED
      BY <3>1
  <2>2. <<>> \in Seq(PathNames)
    OBVIOUS
  <2> QED
    BY <1>1, <1>4, <2>1, <2>2
<1>7. CASE absolute
  <2>1. ftpd_node2path(ftpd_path2node(path)) = Rooted(Walk(<<>>, path))
    BY <1>2, <1>7, PathIsRead
  <2>2. Place(path) = Walk(<<>>, path)
    BY <1>4, <1>7, Zenon
  <2>3. ftpd_workpath(path) = ftpd_node2path(ftpd_path2node(path))
    BY <1>5, <1>7, Zenon
  <2> QED
    BY <1>6, <2>1, <2>2, <2>3
<1>8. CASE ~absolute
  <2> DEFINE whole == Rooted(w) \o path
  <2>1. whole \in Seq(Pieces) /\ whole # <<>> /\ whole[1] = Slash
    BY <1>2, <1>3
  <2> HIDE DEF whole
  <2>2. ftpd_node2path(ftpd_path2node(whole)) = Rooted(Walk(<<>>, whole))
    BY <2>1, PathIsRead
  <2>3. Walk(<<>>, whole) = Walk(w, path)
    <3>1. <<>> \in Seq(TreeNames)
      OBVIOUS
    <3>2. Walk(<<>>, whole) = Walk(Walk(<<>>, Rooted(w)), path)
      BY <1>2, <1>3, <3>1, WalkOn DEF whole
    <3>3. Walk(<<>>, Rooted(w)) = w
      BY <1>2, <3>1, WalkRooted
    <3> QED
      BY <3>2, <3>3
  <2>4. Place(path) = Walk(w, path)
    BY <1>4, <1>8, Zenon
  <2>5. ftpd_workpath(path) = ftpd_node2path(ftpd_path2node(whole))
    BY <1>1, <1>5, <1>8, Zenon DEF whole
  <2> QED
    BY <1>6, <2>2, <2>3, <2>4, <2>5
<1> QED
  BY <1>6, <1>7, <1>8

LEMMA HomeIs ==
  /\ <<"data", "models">> \in Seq(TreeNames)
  /\ Home = Rooted(<<"data", "models">>) /\ Home \in Seq(Pieces)
  /\ Home # <<>> /\ Home[1] = Slash /\ Len(Home) = 3
<1>1. <<"data", "models">> \in Seq(TreeNames)
  BY DEF TreeNames
<1>2. Home = <<Slash, "data", "models">>
  BY DEF Home, Slash
<1>3. Home = Rooted(<<"data", "models">>)
  BY <1>2 DEF Rooted
<1>4. Home \in Seq(Pieces)
  BY <1>1, <1>3, RootedIs
<1> QED
  BY <1>1, <1>2, <1>3, <1>4

LEMMA GetPath ==
  ASSUME PathInv, NEW path \in ClientPaths
  PROVE  ftpd_getpath(path) = Home \o Place(path)
<1> DEFINE place == Place(path)
           home  == <<"data", "models">>
           whole == Home \o Rooted(place)
<1>1. place \in Seq(PathNames) /\ ftpd_workpath(path) = Rooted(place)
  BY WorkPath
<1>2. place \in Seq(TreeNames)
  BY <1>1 DEF TreeNames
<1>3. home \in Seq(TreeNames) /\ Home = Rooted(home) /\ Home \in Seq(Pieces)
      /\ Home # <<>> /\ Home[1] = Slash /\ Len(Home) = 3
  BY HomeIs
<1>4. ftpd_getpath(path) = ftpd_node2path(ftpd_path2node(whole))
  BY <1>1, Zenon DEF ftpd_getpath, ftpd_nodeappend
<1> HIDE DEF place, home
<1>5. whole \in Seq(Pieces) /\ whole # <<>> /\ whole[1] = Slash
  <2>1. Rooted(place) \in Seq(Pieces)
    BY <1>2, RootedIs
  <2> QED
    BY <1>3, <2>1
<1>6. Walk(<<>>, whole) = home \o place
  <2>1. <<>> \in Seq(TreeNames) /\ <<Slash>> \in Seq(Pieces) /\ place \in Seq(Pieces)
    <3>1. Slash \in Pieces /\ TreeNames \subseteq Pieces
      BY DEF Slash, Pieces, Marks
    <3> QED
      BY <1>2, <3>1
  <2>2. Rooted(place) \in Seq(Pieces)
    BY <1>2, RootedIs
  <2>3. Walk(<<>>, whole) = Walk(Walk(<<>>, Home), Rooted(place))
    BY <1>3, <2>1, <2>2, WalkOn
  <2>4. Walk(<<>>, Home) = home
    BY <1>3, <2>1, WalkRooted
  <2>5. Walk(home, Rooted(place)) = Walk(Walk(home, <<Slash>>), place)
    BY <1>3, <2>1, WalkOn DEF Rooted
  <2>6. Walk(home, <<Slash>>) = home
    BY <1>3, <2>1, RootStays
  <2>7. Walk(home, place) = home \o place
    BY <1>2, <1>3, WalkNames
  <2> QED
    BY <2>3, <2>4, <2>5, <2>6, <2>7
<1> HIDE DEF whole
<1>7. ftpd_node2path(ftpd_path2node(whole)) = Rooted(home \o place)
  BY <1>5, <1>6, PathIsRead
<1>8. Rooted(home \o place) = Home \o place
  <2> DEFINE top == <<Slash>>
  <2>1. top \in Seq(Pieces) /\ home \in Seq(Pieces) /\ place \in Seq(Pieces)
    <3>1. Slash \in Pieces /\ TreeNames \subseteq Pieces
      BY DEF Slash, Pieces, Marks
    <3> QED
      BY <1>2, <1>3, <3>1
  <2> HIDE DEF top
  <2>2. top \o (home \o place) = (top \o home) \o place
    BY <2>1, ConcatAssociative
  <2> QED
    BY <1>3, <2>2 DEF top, Rooted
<1> QED
  BY <1>4, <1>7, <1>8 DEF place

LEMMA BelowIs ==
  ASSUME NEW place \in Seq(PathNames)
  PROVE  Below(Home \o place) = place
<1>1. Home \in Seq(Pieces) /\ Len(Home) = 3 /\ place \in Seq(Pieces) /\ Len(place) \in Nat
  <2>1. PathNames \subseteq Pieces
    BY DEF Pieces, TreeNames
  <2> QED
    BY <2>1, HomeIs
<1> DEFINE whole == Home \o place
           rest == SubSeq(whole, 4, Len(whole))
<1>2. /\ whole \in Seq(Pieces) /\ Len(whole) = Len(place) + 3
      /\ \A k \in 1 .. Len(place) : whole[k + 3] = place[k]
  <2>0. /\ whole \in Seq(Pieces) /\ Len(whole) = Len(Home) + Len(place)
        /\ \A i \in 1 .. Len(Home) + Len(place) :
             whole[i] = IF i <= Len(Home) THEN Home[i] ELSE place[i - Len(Home)]
    BY <1>1, ConcatProperties
  <2>1. whole \in Seq(Pieces) /\ Len(whole) = 3 + Len(place)
    BY <1>1, <2>0
  <2>2. \A i \in 1 .. 3 + Len(place) : whole[i] = IF i <= 3 THEN Home[i] ELSE place[i - 3]
    BY <1>1, <2>0
  <2> HIDE DEF whole
  <2>3. ASSUME NEW k \in 1 .. Len(place) PROVE whole[k + 3] = place[k]
    <3>1. k + 3 \in 1 .. 3 + Len(place) /\ ~(k + 3 <= 3) /\ (k + 3) - 3 = k
      BY <1>1
    <3> QED
      BY <2>2, <3>1
  <2> QED
    BY <1>1, <2>1, <2>3
<1> HIDE DEF whole
<1>3. rest \in Seq(Pieces) /\ Len(rest) = Len(place)
      /\ \A k \in 1 .. Len(place) : rest[k] = whole[k + 3]
  <2>1. \A k \in 4 .. Len(whole) : whole[k] \in Pieces
    BY <1>2
  <2>2. 4 \in Int /\ Len(whole) \in Int
    BY <1>1, <1>2
  <2>3. rest \in Seq(Pieces) /\ Len(rest) = IF 4 <= Len(whole) THEN Len(whole) - 4 + 1 ELSE 0
    BY <2>1, <2>2, SubSeqProperties
  <2>4. \A k \in 1 .. Len(whole) - 4 + 1 : rest[k] = whole[4 + k - 1]
    BY <2>1, <2>2, SubSeqProperties
  <2> HIDE DEF rest
  <2> QED
    BY <1>1, <1>2, <2>3, <2>4
<1> HIDE DEF rest
<1>4. rest = place
  BY <1>1, <1>2, <1>3, SeqEqual
<1> QED
  BY <1>1, <1>4 DEF Below, whole, rest

(* The directory of the session and the tree, step by step.                  *)
LEMMA PathStart == PathInit => PathInv
<1> SUFFICES ASSUME PathInit PROVE PathInv
  OBVIOUS
<1>1. <<>> \in Seq(PathNames) /\ Rooted(<<>>) = <<Slash>>
  <2>1. <<Slash>> \o <<>> = <<Slash>>
    OBVIOUS
  <2> QED
    BY <2>1 DEF Rooted
<1>2. workdir = <<Slash>> /\ tree = {<<>>}
  BY Zenon DEF PathInit, Slash
<1> QED
  BY <1>1, <1>2 DEF PathInv

LEMMA BoundedPaths == Paths \subseteq ClientPaths /\ <<"..">> \in ClientPaths
<1>1. Parts = PathNames \cup Marks
  BY DEF Parts, Marks
<1>2. ASSUME NEW path \in Paths PROVE path \in ClientPaths
  <2>1. PICK k \in 0 .. PathParts : path \in [1 .. k -> Parts]
    BY DEF Paths
  <2>2. k \in Nat
    <3>1. PathParts \in Nat
      BY PathAssumption, Zenon
    <3> QED
      BY <3>1
  <2>3. path \in [1 .. k -> PathNames \cup Marks]
    BY <1>1, <2>1
  <2>4. path \in Seq(PathNames \cup Marks)
    BY <2>2, <2>3
  <2> QED
    BY <2>4 DEF ClientPaths
<1>3. ".." \in Marks
  BY DEF Marks
<1> QED
  BY <1>2, <1>3 DEF ClientPaths

LEMMA ChangeKeeps ==
  ASSUME PathInv, NEW path \in ClientPaths, ftpd_changedir(path)
  PROVE  PathInv'
<1>1. /\ Place(path) \in Seq(PathNames) /\ ftpd_workpath(path) = Rooted(Place(path))
      /\ Below(ftpd_getpath(path)) = Place(path)
  BY WorkPath, GetPath, BelowIs
<1>2. workdir' = Rooted(Place(path)) /\ Place(path) \in tree /\ tree' = tree
  BY <1>1 DEF ftpd_changedir
<1> QED
  BY <1>1, <1>2 DEF PathInv

LEMMA MakeKeeps ==
  ASSUME PathInv, NEW path \in ClientPaths, ftpd_command_mkd(path)
  PROVE  PathInv'
<1>1. Place(path) \in Seq(PathNames) /\ Below(ftpd_getpath(path)) = Place(path)
  BY WorkPath, GetPath, BelowIs
<1>2. tree' = tree \cup {Place(path)} /\ workdir' = workdir
  BY <1>1 DEF ftpd_command_mkd
<1> QED
  BY <1>1, <1>2 DEF PathInv

LEMMA RemoveKeeps ==
  ASSUME PathInv, NEW path \in ClientPaths, ftpd_command_rmd(path)
  PROVE  PathInv'
<1>1. /\ Place(path) \in Seq(PathNames) /\ ftpd_workpath(path) = Rooted(Place(path))
      /\ Below(ftpd_getpath(path)) = Place(path)
  BY WorkPath, GetPath, BelowIs
<1>2. workdir # Rooted(Place(path)) /\ tree' = tree \ {Place(path)} /\ workdir' = workdir
  BY <1>1 DEF ftpd_command_rmd, Removed
<1> QED
  BY <1>1, <1>2 DEF PathInv

LEMMA PathStep == PathInv /\ [PathNext]_pathVars => PathInv'
<1> SUFFICES ASSUME PathInv, [PathNext]_pathVars PROVE PathInv'
  OBVIOUS
<1>1. CASE UNCHANGED pathVars
  BY <1>1 DEF PathInv, pathVars
<1>2. CASE ftpd_changedir(<<"..">>)
  BY <1>2, BoundedPaths, ChangeKeeps
<1>3. ASSUME NEW path \in Paths,
             ftpd_changedir(path) \/ ftpd_command_mkd(path) \/ ftpd_command_rmd(path)
      PROVE  PathInv'
  BY <1>3, BoundedPaths, ChangeKeeps, MakeKeeps, RemoveKeeps
<1> QED
  BY <1>1, <1>2, <1>3 DEF PathNext

(* What the invariant says of every path a client may send.                  *)
EveryPathInside == \A path \in ClientPaths : ftpd_getpath(path) = Home \o Place(path)

LEMMA PathsServed == PathInv => PathsStayInside /\ PathTypeOK /\ EveryPathInside
<1> SUFFICES ASSUME PathInv PROVE PathsStayInside /\ PathTypeOK /\ EveryPathInside
  OBVIOUS
<1>1. PICK w \in Seq(PathNames) : workdir = Rooted(w) /\ w \in tree
  BY DEF PathInv
<1>2. w \in Seq(TreeNames)
  BY <1>1 DEF TreeNames
<1>3. Rooted(w)[1] = Slash /\ Tail(Rooted(w)) = w
  BY <1>2, RootedIs
<1>4. \A path \in Paths : ftpd_getpath(path) = Home \o Place(path)
  BY BoundedPaths, GetPath
<1>5. PathsStayInside
  BY <1>1, <1>3, <1>4, Zenon DEF PathsStayInside, Slash
<1>6. workdir \in Seq(PathNames \cup {Slash})
  BY <1>1 DEF Rooted
<1>7. PathTypeOK
  BY <1>6, Zenon DEF PathTypeOK, PathInv, Slash
<1>8. EveryPathInside
  BY GetPath DEF EveryPathInside
<1> QED
  BY <1>5, <1>7, <1>8

(* A path of a client, however long and however many "." and ".." it holds,  *)
(* is served below the root, at the place that it means, and the directory   *)
(* that a session works in is there (ftpd_getpath, ftpd_pathignore,          *)
(* ftpd_changedir, ftpd_command_rmd).                                        *)
THEOREM PathsMeanTheirPlace == PathSpec => [](EveryPathInside /\ PathsStayInside)
BY PathStart, PathStep, PathsServed, PTL DEF PathSpec

(* The working directory is a list of names, and so is every directory of    *)
(* the tree: no "", "." or ".." is ever kept.                                *)
THEOREM PathsAreTyped == PathSpec => []PathTypeOK
BY PathStart, PathStep, PathsServed, PTL DEF PathSpec

-----------------------------------------------------------------------------
(* 7. The NTP client.  The arithmetic of the offsets.                       *)
HalfRange == 2 ^ (OffsetBits - 1)
Offsets == Magnitudes \cup {-m : m \in Magnitudes}

LEMMA HalfRangeIs == HalfRange \in Nat /\ 2 ^ OffsetBits = 2 * HalfRange
BY NtpAssumption DEF HalfRange

LEMMA OffsetsAre == Offsets \subseteq Int /\ \A o \in Offsets : -HalfRange < o /\ o < HalfRange
<1>1. ASSUME NEW o \in Offsets PROVE o \in Int /\ -HalfRange < o /\ o < HalfRange
  <2>1. PICK m \in Magnitudes : o = m \/ o = -m
    BY DEF Offsets
  <2>2. m \in 0 .. HalfRange - 1
    BY NtpAssumption DEF HalfRange
  <2> QED BY <2>1, <2>2, HalfRangeIs
<1> QED BY <1>1

LEMMA SmallModulo == ASSUME NEW x \in Nat, NEW y \in Nat, x < y PROVE x % y = x
OBVIOUS

LEMMA ComparisonIs ==
  ASSUME NEW a \in Int, NEW b \in Int, -HalfRange <= a - b, a - b < HalfRange
  PROVE  sample_cmp(a, b) = a - b
<1>1. sample_cmp(a, b) = ((a - b + HalfRange) % (2 * HalfRange)) - HalfRange
  BY HalfRangeIs DEF sample_cmp, Wrapped, HalfRange
<1> DEFINE x == a - b + HalfRange
           y == 2 * HalfRange
<1>2. x \in Nat /\ y \in Nat /\ x < y
  BY HalfRangeIs
<1>3. x % y = x
  BY <1>2, SmallModulo
<1> QED
  BY <1>1, <1>3, HalfRangeIs

LEMMA AverageIs ==
  ASSUME NEW a \in Int, NEW b \in Int, b <= a
  PROVE  average(a, b) \in Int /\ b <= average(a, b) /\ average(a, b) <= a
BY DEF average, Half

(* The places of an ordered list, for samples whose offsets compare as       *)
(* numbers.                                                                  *)
Samples(n) == [1 .. n -> [server : NtpServers, offset : Offsets]]
Less(s, o)   == {k \in DOMAIN s : s[k].offset < o}
AtMost(s, o) == {k \in DOMAIN s : s[k].offset <= o}

LEMMA CountsAre ==
  ASSUME NEW n \in Nat, NEW s \in Samples(n), NEW o
  PROVE  /\ IsFiniteSet(Less(s, o)) /\ IsFiniteSet(AtMost(s, o))
         /\ Cardinality(Less(s, o)) \in Nat /\ Cardinality(AtMost(s, o)) \in Nat
         /\ IsFiniteSet(1 .. n) /\ Cardinality(1 .. n) = n
         /\ DOMAIN s = 1 .. n /\ \A k \in 1 .. n : s[k].offset \in Offsets /\ s[k].offset \in Int
<1>1. DOMAIN s = 1 .. n /\ \A k \in 1 .. n : s[k].offset \in Offsets /\ s[k].offset \in Int
  BY OffsetsAre DEF Samples
<1>2. IsFiniteSet(1 .. n) /\ Cardinality(1 .. n) = n
  BY FS_Interval
<1>3. Less(s, o) \subseteq 1 .. n /\ AtMost(s, o) \subseteq 1 .. n
  BY <1>1 DEF Less, AtMost
<1>4. IsFiniteSet(Less(s, o)) /\ IsFiniteSet(AtMost(s, o))
  BY <1>2, <1>3, FS_Subset
<1> QED
  BY <1>1, <1>2, <1>4, FS_CardinalityType

(* The greatest of some of the offsets. *)
LEMMA GreatestOf ==
  ASSUME NEW n \in Nat, NEW s \in Samples(n), NEW K, K \subseteq 1 .. n, K # {}
  PROVE  \E g \in K : \A k \in K : s[k].offset <= s[g].offset
<1> DEFINE T == {HalfRange - s[k].offset : k \in K}
<1>1. ASSUME NEW k \in K PROVE HalfRange - s[k].offset \in Nat
  <2>1. s[k].offset \in Offsets
    BY CountsAre
  <2>2. s[k].offset \in Int /\ -HalfRange < s[k].offset /\ s[k].offset < HalfRange
    BY <2>1, OffsetsAre
  <2> QED BY <2>2, HalfRangeIs
<1>2. PICK x \in T : \A y \in T : x <= y
  <2>1. T \subseteq Nat /\ T # {}
    BY <1>1
  <2> HIDE DEF T
  <2> QED BY <2>1, LeastOf
<1>3. PICK g \in K : x = HalfRange - s[g].offset
  BY <1>2
<1>4. ASSUME NEW k \in K PROVE s[k].offset <= s[g].offset
  <2>1. s[k].offset \in Int /\ s[g].offset \in Int
    BY CountsAre
  <2>2. HalfRange - s[g].offset <= HalfRange - s[k].offset
    BY <1>2, <1>3
  <2> QED BY <2>1, <2>2, HalfRangeIs
<1> QED BY <1>4

LEMMA LeastIn ==
  ASSUME NEW n \in Nat, NEW s \in Samples(n), NEW K, K \subseteq 1 .. n, K # {}
  PROVE  \E g \in K : \A k \in K : s[g].offset <= s[k].offset
<1> DEFINE T == {HalfRange + s[k].offset : k \in K}
<1>1. ASSUME NEW k \in K PROVE HalfRange + s[k].offset \in Nat
  <2>1. s[k].offset \in Offsets
    BY CountsAre
  <2>2. s[k].offset \in Int /\ -HalfRange < s[k].offset /\ s[k].offset < HalfRange
    BY <2>1, OffsetsAre
  <2> QED BY <2>2, HalfRangeIs
<1>2. PICK x \in T : \A y \in T : x <= y
  <2>1. T \subseteq Nat /\ T # {}
    BY <1>1
  <2> HIDE DEF T
  <2> QED BY <2>1, LeastOf
<1>3. PICK g \in K : x = HalfRange + s[g].offset
  BY <1>2
<1>4. ASSUME NEW k \in K PROVE s[g].offset <= s[k].offset
  <2>1. s[k].offset \in Int /\ s[g].offset \in Int
    BY CountsAre
  <2>2. HalfRange + s[g].offset <= HalfRange + s[k].offset
    BY <1>2, <1>3
  <2> QED BY <2>1, <2>2, HalfRangeIs
<1> QED BY <1>4

(* Every place of the list is some sample's.                                 *)
LEMMA PlaceIsTaken ==
  ASSUME NEW n \in Nat, NEW s \in Samples(n), NEW i \in 0 .. n - 1
  PROVE  \E g \in 1 .. n : /\ Cardinality(Less(s, s[g].offset)) <= i
                           /\ i < Cardinality(AtMost(s, s[g].offset))
<1> DEFINE K == {k \in 1 .. n : i < Cardinality(AtMost(s, s[k].offset))}
<1>1. K # {}
  <2>1. 1 .. n # {}
    OBVIOUS
  <2>2. PICK g \in 1 .. n : \A k \in 1 .. n : s[k].offset <= s[g].offset
    BY <2>1, GreatestOf
  <2>3. AtMost(s, s[g].offset) = 1 .. n
    BY <2>2, CountsAre DEF AtMost
  <2>4. i < Cardinality(AtMost(s, s[g].offset))
    BY <2>3, CountsAre
  <2> QED BY <2>4
<1>2. PICK g \in K : \A k \in K : s[g].offset <= s[k].offset
  <2>1. K \subseteq 1 .. n
    OBVIOUS
  <2> HIDE DEF K
  <2> QED BY <1>1, <2>1, LeastIn
<1>3. Cardinality(Less(s, s[g].offset)) <= i
  <2> DEFINE L == Less(s, s[g].offset)
  <2>1. CASE L = {}
    BY <2>1, FS_EmptySet
  <2>2. CASE L # {}
    <3>1. L \subseteq 1 .. n
      BY CountsAre DEF Less
    <3>2. PICK p \in L : \A k \in L : s[k].offset <= s[p].offset
      <4> HIDE DEF L
      <4> QED BY <2>2, <3>1, GreatestOf
    <3>3. p \in 1 .. n /\ s[p].offset < s[g].offset
      BY <3>1 DEF Less
    <3>4. AtMost(s, s[p].offset) = L
      <4>1. ASSUME NEW k \in 1 .. n PROVE s[k].offset <= s[p].offset <=> s[k].offset < s[g].offset
        <5>1. s[k].offset \in Int /\ s[p].offset \in Int /\ s[g].offset \in Int
          BY <3>3, CountsAre
        <5>2. s[k].offset < s[g].offset => k \in L
          BY CountsAre DEF Less
        <5> QED BY <3>2, <3>3, <5>1, <5>2
      <4> QED BY <4>1, CountsAre DEF Less, AtMost
    <3>5. ~(i < Cardinality(AtMost(s, s[p].offset)))
      <4>1. p \notin K
        <5>1. s[p].offset \in Int /\ s[g].offset \in Int
          BY <3>3, CountsAre
        <5> QED BY <1>2, <3>3, <5>1
      <4> QED BY <3>3, <4>1
    <3> QED BY <3>4, <3>5, CountsAre
  <2> QED BY <2>1, <2>2
<1> QED BY <1>2, <1>3

(* A middle offset: no more than half of the samples lie on either side.     *)
More(s, o) == {k \in DOMAIN s : s[k].offset > o}
Middle(s, o) == 2 * Cardinality(Less(s, o)) <= Len(s) /\ 2 * Cardinality(More(s, o)) <= Len(s)

LEMMA SortedIs ==
  ASSUME NEW n \in Nat, NEW s \in Samples(n), SamplesFit(s), NEW i \in 0 .. n - 1
  PROVE  /\ Sorted(s, i) \in Offsets /\ Sorted(s, i) \in Int
         /\ Cardinality(Less(s, Sorted(s, i))) <= i
         /\ i < Cardinality(AtMost(s, Sorted(s, i)))
<1> DEFINE O == {s[k].offset : k \in DOMAIN s}
           P(o) == Cardinality(Before(s, o)) <= i /\ i < Cardinality(NotAfter(s, o))
<1>1. O \subseteq Offsets /\ DOMAIN s = 1 .. n
  BY CountsAre
<1>2. ASSUME NEW o \in O PROVE Before(s, o) = Less(s, o) /\ NotAfter(s, o) = AtMost(s, o)
  <2>1. ASSUME NEW k \in 1 .. n
        PROVE  /\ sample_cmp(s[k].offset, o) < 0 <=> s[k].offset < o
               /\ sample_cmp(s[k].offset, o) <= 0 <=> s[k].offset <= o
    <3>1. s[k].offset \in Int /\ o \in Int
      BY <1>1, <1>2, CountsAre, OffsetsAre
    <3>2. PICK j \in DOMAIN s : o = s[j].offset
      BY <1>2
    <3>3. s[k].offset - s[j].offset \in -HalfRange .. HalfRange - 1
      BY <1>1, <3>2 DEF SamplesFit, HalfRange
    <3>4. -HalfRange <= s[k].offset - o /\ s[k].offset - o < HalfRange
      BY <3>1, <3>2, <3>3, HalfRangeIs
    <3>5. sample_cmp(s[k].offset, o) = s[k].offset - o
      BY <3>1, <3>4, ComparisonIs
    <3> QED BY <3>1, <3>5
  <2> QED BY <1>1, <2>1 DEF Before, NotAfter, Less, AtMost
<1>3. \E o \in O : P(o)
  <2>1. PICK g \in 1 .. n : /\ Cardinality(Less(s, s[g].offset)) <= i
                            /\ i < Cardinality(AtMost(s, s[g].offset))
    BY PlaceIsTaken
  <2>2. s[g].offset \in O
    BY <1>1
  <2> QED BY <1>2, <2>1, <2>2
<1>4. Sorted(s, i) = CHOOSE o \in O : P(o)
  BY DEF Sorted
<1> HIDE DEF P, O
<1>5. Sorted(s, i) \in O /\ P(Sorted(s, i))
  BY <1>3, <1>4
<1> QED
  BY <1>1, <1>2, <1>5, OffsetsAre DEF P

(* What the clock is moved by is a middle offset.                            *)
LEMMA MedianIs ==
  ASSUME NEW n \in Nat \ {0}, NEW s \in Samples(n), SamplesFit(s)
  PROVE  median(s) \in Int /\ Middle(s, median(s))
<1> DEFINE m == n \div 2
           a == Sorted(s, m)
           b == Sorted(s, m - 1)
<1>1. Len(s) = n /\ \A k \in 1 .. n : s[k].offset \in Int
  <2>1. \A k \in 1 .. n : s[k].offset \in Int
    BY CountsAre
  <2>2. Len(s) = n
    BY DEF Samples
  <2> QED BY <2>1, <2>2
<1>2. m \in 0 .. n - 1
  OBVIOUS
<1>3. /\ a \in Int /\ Cardinality(Less(s, a)) <= m /\ m < Cardinality(AtMost(s, a))
  BY <1>2, SortedIs
<1>4. ASSUME NEW o \in Int
      PROVE  /\ Cardinality(More(s, o)) = n - Cardinality(AtMost(s, o))
             /\ Cardinality(Less(s, o)) \in Nat /\ Cardinality(AtMost(s, o)) \in Nat
             /\ Cardinality(More(s, o)) \in Nat
  <2>1. AtMost(s, o) \subseteq 1 .. n /\ More(s, o) = (1 .. n) \ AtMost(s, o)
    BY <1>1, CountsAre DEF AtMost, More
  <2>2. /\ IsFiniteSet(1 .. n) /\ Cardinality(1 .. n) = n
        /\ Cardinality(Less(s, o)) \in Nat /\ Cardinality(AtMost(s, o)) \in Nat
    BY CountsAre
  <2>3. /\ IsFiniteSet(More(s, o)) /\ (1 .. n) \cap AtMost(s, o) = AtMost(s, o)
        /\ Cardinality((1 .. n) \ AtMost(s, o)) = Cardinality(1 .. n) - Cardinality((1 .. n) \cap AtMost(s, o))
    <3>1. (1 .. n) \cap AtMost(s, o) = AtMost(s, o)
      BY <2>1
    <3>2. /\ IsFiniteSet((1 .. n) \ AtMost(s, o))
          /\ Cardinality((1 .. n) \ AtMost(s, o))
               = Cardinality(1 .. n) - Cardinality((1 .. n) \cap AtMost(s, o))
      BY <2>2, FS_Difference, Zenon
    <3> QED
      BY <2>1, <3>1, <3>2
  <2>4. Cardinality(More(s, o)) \in Nat
    BY <2>3, FS_CardinalityType
  <2> QED BY <2>1, <2>2, <2>3, <2>4
<1> HIDE DEF m, a, b
<1>5. CASE n % 2 = 1
  <2>1. median(s) = a
    BY <1>1, <1>5 DEF median, a, m
  <2>2. n = 2 * m + 1 /\ m \in Nat
    BY <1>5 DEF m
  <2>3. /\ Cardinality(More(s, a)) = n - Cardinality(AtMost(s, a))
        /\ Cardinality(Less(s, a)) \in Nat /\ Cardinality(AtMost(s, a)) \in Nat
    BY <1>3, <1>4
  <2>4. 2 * Cardinality(Less(s, a)) <= n /\ 2 * Cardinality(More(s, a)) <= n
    BY <1>3, <2>2, <2>3
  <2> QED BY <1>1, <1>3, <2>1, <2>4 DEF Middle
<1>6. CASE n % 2 # 1
  <2>1. n = 2 * m /\ m \in Nat \ {0}
    BY <1>6 DEF m
  <2>2. median(s) = average(a, b)
    BY <1>1, <1>6 DEF median, a, b, m
  <2>3. b \in Int /\ Cardinality(Less(s, b)) <= m - 1 /\ m - 1 < Cardinality(AtMost(s, b))
    <3>1. m - 1 \in 0 .. n - 1
      BY <2>1
    <3> QED BY <3>1, SortedIs DEF b
  <2>4. b <= a
    <3> SUFFICES ASSUME a < b PROVE FALSE
      BY <1>3, <2>3
    <3>1. AtMost(s, a) \subseteq Less(s, b)
      BY <1>1, <1>3, <2>3, CountsAre DEF AtMost, Less
    <3>2. Cardinality(AtMost(s, a)) <= Cardinality(Less(s, b))
      BY <3>1, CountsAre, FS_Subset
    <3> QED BY <1>3, <1>4, <2>1, <2>3, <3>2
  <2> DEFINE o == average(a, b)
  <2>5. o \in Int /\ b <= o /\ o <= a
    BY <1>3, <2>3, <2>4, AverageIs
  <2> HIDE DEF o
  <2>6. Less(s, o) \subseteq Less(s, a) /\ AtMost(s, b) \subseteq AtMost(s, o)
    BY <1>1, <1>3, <2>3, <2>5, CountsAre DEF AtMost, Less
  <2>7. /\ Cardinality(Less(s, o)) <= Cardinality(Less(s, a))
        /\ Cardinality(AtMost(s, b)) <= Cardinality(AtMost(s, o))
    BY <2>6, CountsAre, FS_Subset
  <2>8. /\ Cardinality(More(s, o)) = n - Cardinality(AtMost(s, o))
        /\ Cardinality(Less(s, o)) \in Nat /\ Cardinality(AtMost(s, o)) \in Nat
        /\ Cardinality(Less(s, a)) \in Nat /\ Cardinality(AtMost(s, b)) \in Nat
    BY <1>3, <1>4, <2>3, <2>5
  <2>9. 2 * Cardinality(Less(s, o)) <= n /\ 2 * Cardinality(More(s, o)) <= n
    BY <1>3, <2>1, <2>3, <2>7, <2>8
  <2> QED BY <1>1, <2>2, <2>5, <2>9 DEF Middle, o
<1> QED BY <1>5, <1>6

-----------------------------------------------------------------------------
(* The daemon and its callers.                                               *)
StopWords == {"idle", "start", "start_sync", "stop", "stop_sync", "status"}
States == {"NOT_RUNNING", "STARTED", "RUNNING", "STOP_REQUESTED", "STOPPED"}
Sample == [server : NtpServers, offset : Offsets]
Moves == {NoOffset} \cup {median(s) : s \in Seq(Sample)}
DaemonRecord ==
  [pc : DaemonPlaces, samples : Seq(Sample), asked : Nat, list : Seq(NtpServers), retry : Nat,
   server : NtpServers \cup {"none"}, answer : Offsets \cup {NoOffset},
   errval : {"none", "eintr", "other"}, retries : Nat, offset : Moves]

(* A daemon that has moved the clock is on its way out, and moved it by a    *)
(* middle offset of its samples.                                             *)
DaemonOk(r) ==
  /\ r \in DaemonRecord
  /\ r.pc \in {"recv", "woken"} => r.server \in NtpServers
  /\ r.offset # NoOffset => /\ r.pc \in {"ending", "lockwait", "unlock"}
                            /\ SamplesFit(r.samples) => Middle(r.samples, r.offset)

NtpTypes ==
  /\ daemon \in [NtpDaemons -> DaemonRecord] /\ \A d \in NtpDaemons : DaemonOk(daemon[d])
  /\ state \in States /\ mutex \in Nat /\ sync \in Nat
  /\ pid \in NtpDaemons \cup {"none"} /\ kod_list \subseteq NtpServers
  /\ calls \in [NtpCallers -> StopWords] /\ called \in 0 .. NtpCalls

(* One daemon at a time is in its loop, the one that was started last.       *)
OneDaemon ==
  \A d \in NtpDaemons : daemon[d].pc \notin {"gone", "posting"} =>
    d = pid /\ state \in {"STARTED", "RUNNING", "STOP_REQUESTED"}

(* What the daemon that was started last still posts, and whether it may     *)
(* still give back a lock.                                                   *)
Standing == IF pid = "none" THEN "gone" ELSE daemon[pid].pc
Posts(p) == IF p \in {"gone", "posting"} THEN 0 ELSE IF p \in {"born", "announce"} THEN 2 ELSE 1
Unlocks(p) == IF p \in {"gone", "posting", "ending"} THEN 0 ELSE 1
Starting == {c \in NtpCallers : calls[c] = "start"}
Posting  == {d \in NtpDaemons : daemon[d].pc = "posting"}

(* Every start is for two posts, and for one lock too many.                  *)
PostsCounted ==
  sync + Posts(Standing) + Cardinality(Posting) + 2 * Cardinality(Starting) <= 2 * called
LocksCounted ==
  mutex + Cardinality(Holders) + Unlocks(Standing) + Cardinality(Starting) <= 1 + called

(* As long as the lock is intact, a daemon that has said nothing yet has the *)
(* caller that started it, and a caller that stops one has its request.      *)
StopsHeld ==
  LockIntact =>
    /\ \A d \in NtpDaemons : daemon[d].pc = "born" =>
         state = "STARTED" /\ \E c \in NtpCallers : calls[c] = "start_sync"
    /\ \A c \in NtpCallers, d \in NtpDaemons :
         calls[c] = "stop_sync" /\ daemon[d].pc \notin {"gone", "posting"} =>
           state = "STOP_REQUESTED" /\ daemon[d].pc # "born"

NtpInv == NtpTypes /\ OneDaemon /\ PostsCounted /\ LocksCounted /\ StopsHeld

LEMMA MovedCount ==
  ASSUME NEW S, IsFiniteSet(S), NEW A, A \subseteq S, NEW B, B \subseteq S,
         NEW x \in S, A \ {x} = B \ {x}
  PROVE  /\ Cardinality(A) \in Nat /\ Cardinality(B) \in Nat
         /\ Cardinality(B) = Cardinality(A) + One(x \in B) - One(x \in A)
<1>1. IsFiniteSet(A) /\ IsFiniteSet(B)
  BY FS_Subset
<1>2. Cardinality(A) \in Nat /\ Cardinality(B) \in Nat
  BY <1>1, FS_CardinalityType
<1>3. CASE x \in A /\ x \notin B
  <2>1. B = A \ {x}
    BY <1>3
  <2>2. Cardinality(B) = Cardinality(A) - 1
    BY <1>1, <1>3, <2>1, FS_RemoveElement
  <2> QED BY <1>2, <1>3, <2>2 DEF One
<1>4. CASE x \notin A /\ x \in B
  <2>1. A = B \ {x}
    BY <1>4
  <2>2. Cardinality(A) = Cardinality(B) - 1
    BY <1>1, <1>4, <2>1, FS_RemoveElement
  <2> QED BY <1>2, <1>4, <2>2 DEF One
<1>5. CASE x \in A <=> x \in B
  <2>1. A = B
    BY <1>5
  <2> QED BY <1>2, <2>1 DEF One
<1> QED BY <1>3, <1>4, <1>5

(* A caller moves. *)
LEMMA CallerMoves ==
  ASSUME NtpTypes, NEW c \in NtpCallers, NEW v \in StopWords, calls' = [calls EXCEPT ![c] = v]
  PROVE  /\ calls' \in [NtpCallers -> StopWords]
         /\ Cardinality(Starting) \in Nat /\ Cardinality(Holders) \in Nat
         /\ Cardinality(Starting') = Cardinality(Starting) + One(v = "start") - One(calls[c] = "start")
         /\ Cardinality(Holders') = Cardinality(Holders) + One(v \in {"start_sync", "stop_sync"})
                                      - One(calls[c] \in {"start_sync", "stop_sync"})
<1>1. calls \in [NtpCallers -> StopWords] /\ IsFiniteSet(NtpCallers)
  BY NtpAssumption DEF NtpTypes
<1>2. Starting \ {c} = Starting' \ {c} /\ Holders \ {c} = Holders' \ {c}
  BY <1>1 DEF Starting, Holders
<1>3. /\ c \in Starting <=> calls[c] = "start"
      /\ c \in Starting' <=> v = "start"
      /\ c \in Holders <=> calls[c] \in {"start_sync", "stop_sync"}
      /\ c \in Holders' <=> v \in {"start_sync", "stop_sync"}
  BY <1>1 DEF Starting, Holders
<1>4. /\ Starting \subseteq NtpCallers /\ Starting' \subseteq NtpCallers
      /\ Holders \subseteq NtpCallers /\ Holders' \subseteq NtpCallers
  BY DEF Starting, Holders
<1>5. /\ Cardinality(Starting) \in Nat
      /\ Cardinality(Starting') = Cardinality(Starting) + One(c \in Starting') - One(c \in Starting)
  BY <1>1, <1>2, <1>4, MovedCount
<1>6. /\ Cardinality(Holders) \in Nat
      /\ Cardinality(Holders') = Cardinality(Holders) + One(c \in Holders') - One(c \in Holders)
  BY <1>1, <1>2, <1>4, MovedCount
<1>7. calls' \in [NtpCallers -> StopWords]
  BY <1>1
<1> QED BY <1>3, <1>5, <1>6, <1>7 DEF One

(* A daemon moves. *)
LEMMA DaemonMoves ==
  ASSUME NtpTypes, NEW d \in NtpDaemons, NEW q, DaemonOk(q), daemon' = [daemon EXCEPT ![d] = q]
  PROVE  /\ daemon' \in [NtpDaemons -> DaemonRecord] /\ \A e \in NtpDaemons : DaemonOk(daemon'[e])
         /\ daemon'[d] = q /\ \A e \in NtpDaemons : e # d => daemon'[e] = daemon[e]
         /\ Cardinality(Posting) \in Nat
         /\ Cardinality(Posting') = Cardinality(Posting) + One(q.pc = "posting")
                                      - One(daemon[d].pc = "posting")
<1>1. daemon \in [NtpDaemons -> DaemonRecord] /\ q \in DaemonRecord /\ IsFiniteSet(NtpDaemons)
  BY NtpAssumption DEF NtpTypes, DaemonOk
<1>2. /\ daemon' \in [NtpDaemons -> DaemonRecord]
      /\ daemon'[d] = q /\ \A e \in NtpDaemons : e # d => daemon'[e] = daemon[e]
  BY <1>1
<1>3. \A e \in NtpDaemons : DaemonOk(daemon'[e])
  BY <1>2 DEF NtpTypes
<1>4. Posting \ {d} = Posting' \ {d} /\ Posting \subseteq NtpDaemons /\ Posting' \subseteq NtpDaemons
  BY <1>2 DEF Posting
<1>5. d \in Posting' <=> q.pc = "posting"
  BY <1>2 DEF Posting
<1>6. /\ Cardinality(Posting) \in Nat
      /\ Cardinality(Posting') = Cardinality(Posting) + One(d \in Posting') - One(d \in Posting)
  BY <1>1, <1>4, MovedCount
<1> QED BY <1>2, <1>3, <1>5, <1>6 DEF One, Posting

-----------------------------------------------------------------------------
(* The records that the daemon's loop goes through.                          *)
InLoop == {"top", "select", "recv", "woken", "sleep", "lockwait"}
LoopEnds == {"ending", "unlock"}

LEMMA EmptyOk ==
  ASSUME NEW p \in DaemonPlaces \ {"recv", "woken"}, NEW k \in Nat
  PROVE  /\ DaemonOk(NoDaemon) /\ DaemonOk([NoDaemon EXCEPT !.pc = p])
         /\ DaemonOk([NoDaemon EXCEPT !.pc = p, !.retries = k])
         /\ DaemonOk([NoDaemon EXCEPT !.retries = k, !.pc = p])
<1>1. NoDaemon \in DaemonRecord /\ NoDaemon.offset = NoOffset /\ NoDaemon.pc = "gone"
  <2>1. NoOffset \in Moves /\ 0 \in Nat /\ << >> \in Seq(Sample) /\ << >> \in Seq(NtpServers)
    BY DEF Moves
  <2> HIDE DEF NoOffset
  <2> QED BY <2>1 DEF NoDaemon, DaemonRecord, DaemonPlaces
<1>2. ASSUME NEW r \in DaemonRecord, r.pc \notin {"recv", "woken"}, r.offset = NoOffset
      PROVE  DaemonOk(r)
  BY <1>2 DEF DaemonOk
<1>3. /\ [NoDaemon EXCEPT !.pc = p] \in DaemonRecord
      /\ [NoDaemon EXCEPT !.pc = p].pc = p
      /\ [NoDaemon EXCEPT !.pc = p].offset = NoOffset
  BY <1>1 DEF DaemonRecord
<1>4. /\ [NoDaemon EXCEPT !.pc = p, !.retries = k] \in DaemonRecord
      /\ [NoDaemon EXCEPT !.pc = p, !.retries = k].pc = p
      /\ [NoDaemon EXCEPT !.pc = p, !.retries = k].offset = NoOffset
      /\ [NoDaemon EXCEPT !.retries = k, !.pc = p] = [NoDaemon EXCEPT !.pc = p, !.retries = k]
  BY <1>1 DEF DaemonRecord
<1> QED
  BY <1>1, <1>2, <1>3, <1>4

(* After an attempt the daemon is somewhere in its loop, or at its end.      *)
LEMMA AttemptedOk ==
  ASSUME mutex \in Nat,
         NEW r \in DaemonRecord, r.offset = NoOffset, NEW q \in Attempted(r)
  PROVE  DaemonOk(q) /\ q.pc \in InLoop \cup LoopEnds
<1> DEFINE next == [r EXCEPT !.asked = @ + 1, !.retry = 0, !.server = "none", !.answer = NoOffset]
<1>1. next \in DaemonRecord /\ next.offset = NoOffset /\ next.samples = r.samples
  <2> DEFINE k == r.asked + 1
  <2>1. k \in Nat /\ 0 \in Nat /\ "none" \in NtpServers \cup {"none"}
        /\ NoOffset \in Offsets \cup {NoOffset}
    BY DEF DaemonRecord
  <2>2. next = [r EXCEPT !.asked = k, !.retry = 0, !.server = "none", !.answer = NoOffset]
    OBVIOUS
  <2> HIDE DEF k, next
  <2> QED BY <2>1, <2>2 DEF DaemonRecord
<1>2. \/ next.asked < NumSamples /\ q = [next EXCEPT !.pc = "select"]
      \/ /\ next.samples # << >>
         /\ \E o \in ntpc_settime(next.samples) :
              q = [next EXCEPT !.offset = o, !.list = << >>,
                               !.pc = IF mutex > 0 THEN "ending" ELSE "lockwait"]
      \/ q = [NoDaemon EXCEPT !.pc = "ending"]
      \/ q = [NoDaemon EXCEPT !.retries = next.retries + 1,
                              !.pc = IF next.errval = "eintr" THEN "top" ELSE "sleep"]
  BY DEF Attempted
<1> HIDE DEF next
<1>3. CASE q = [next EXCEPT !.pc = "select"]
  <2>1. q \in DaemonRecord /\ q.pc = "select" /\ q.offset = NoOffset
    BY <1>1, <1>3 DEF DaemonRecord, DaemonPlaces
  <2> QED BY <2>1 DEF DaemonOk, InLoop
<1>4. ASSUME NEW o \in ntpc_settime(next.samples), next.samples # << >>,
             q = [next EXCEPT !.offset = o, !.list = << >>,
                              !.pc = IF mutex > 0 THEN "ending" ELSE "lockwait"]
      PROVE  DaemonOk(q) /\ q.pc \in InLoop \cup LoopEnds
  <2> DEFINE s == next.samples
             n == Len(next.samples)
  <2>1. s \in Seq(Sample) /\ s # << >>
    BY <1>1, <1>4 DEF DaemonRecord
  <2>2. n \in Nat \ {0} /\ s \in Samples(n)
    <3> HIDE DEF s
    <3>1. Len(s) \in Nat /\ Len(s) # 0 /\ s \in [1 .. Len(s) -> Sample]
      BY <2>1, LenProperties, EmptySeq
    <3> QED BY <3>1 DEF Samples, Sample, s
  <2>3. SamplesFit(s) => Middle(s, median(s))
    <3> HIDE DEF s, n
    <3> QED BY <2>2, MedianIs
  <2>4. o \in Moves /\ (o # NoOffset /\ SamplesFit(s) => Middle(s, o))
    BY <1>4, <2>1, <2>3 DEF ntpc_settime, Moves
  <2>5. q \in DaemonRecord /\ q.pc \in {"ending", "lockwait"} /\ q.offset = o /\ q.samples = s
    <3> DEFINE p == IF mutex > 0 THEN "ending" ELSE "lockwait"
    <3>1. p \in DaemonPlaces /\ p \in {"ending", "lockwait"} /\ << >> \in Seq(NtpServers)
      BY DEF DaemonPlaces
    <3>2. q = [next EXCEPT !.offset = o, !.list = << >>, !.pc = p]
      BY <1>4
    <3> HIDE DEF p
    <3> QED BY <1>1, <2>4, <3>1, <3>2 DEF DaemonRecord
  <2> HIDE DEF s
  <2> QED BY <2>4, <2>5 DEF DaemonOk, InLoop, LoopEnds
<1>5. CASE q = [NoDaemon EXCEPT !.pc = "ending"]
  <2>1. "ending" \in DaemonPlaces \ {"recv", "woken"} /\ q.pc = "ending"
    BY <1>5 DEF DaemonPlaces, NoDaemon
  <2> QED BY <1>5, <2>1, EmptyOk DEF LoopEnds
<1>6. CASE q = [NoDaemon EXCEPT !.retries = next.retries + 1,
                                !.pc = IF next.errval = "eintr" THEN "top" ELSE "sleep"]
  <2> DEFINE p == IF next.errval = "eintr" THEN "top" ELSE "sleep"
             k == next.retries + 1
  <2>1. p \in DaemonPlaces \ {"recv", "woken"} /\ p \in InLoop /\ k \in Nat
    BY <1>1 DEF DaemonPlaces, InLoop, DaemonRecord
  <2>2. q = [NoDaemon EXCEPT !.retries = k, !.pc = p]
    BY <1>6
  <2> HIDE DEF p, k
  <2>3. q.pc = p
    BY <2>2 DEF NoDaemon
  <2> QED BY <2>1, <2>2, <2>3, EmptyOk
<1> QED BY <1>2, <1>3, <1>4, <1>5, <1>6

LEMMA FailedOk ==
  ASSUME mutex \in Nat,
         NEW r \in DaemonRecord, r.offset = NoOffset, NEW q \in Failed(r)
  PROVE  DaemonOk(q) /\ q.pc \in InLoop \cup LoopEnds
<1> DEFINE s == [r EXCEPT !.errval = "other"]
<1>1. s \in DaemonRecord /\ s.offset = NoOffset /\ q \in Attempted(s)
  BY DEF DaemonRecord, Failed
<1> HIDE DEF s
<1> QED BY <1>1, AttemptedOk

(* A step of the daemon in its loop, which no caller sees.                   *)
LEMMA LoopKeeps ==
  ASSUME NtpInv, NEW d \in NtpDaemons, daemon[d].pc \in InLoop \cup {"announce"},
         NEW q, DaemonOk(q), q.pc \in InLoop \cup LoopEnds, Now(d, q),
         UNCHANGED <<state, mutex, pid, calls, called>>,
         sync' = sync + One(daemon[d].pc = "announce"), kod_list' \subseteq NtpServers
  PROVE  NtpInv'
<1>1. /\ daemon' \in [NtpDaemons -> DaemonRecord] /\ \A e \in NtpDaemons : DaemonOk(daemon'[e])
      /\ daemon'[d] = q /\ \A e \in NtpDaemons : e # d => daemon'[e] = daemon[e]
      /\ Cardinality(Posting) \in Nat
      /\ Cardinality(Posting') = Cardinality(Posting) + One(q.pc = "posting")
                                   - One(daemon[d].pc = "posting")
  BY DaemonMoves DEF NtpInv, Now
<1>2. /\ q.pc \notin {"gone", "posting", "born", "announce"}
      /\ daemon[d].pc \notin {"gone", "posting", "born", "ending"}
  BY DEF InLoop, LoopEnds
<1>3. NtpTypes'
  <2>1. sync' \in Nat
    BY DEF One, NtpInv, NtpTypes
  <2> QED BY <1>1, <2>1 DEF NtpInv, NtpTypes
<1>4. OneDaemon'
  BY <1>1, <1>2 DEF NtpInv, OneDaemon
<1>5. d = pid /\ pid # "none"
  BY <1>2, NtpAssumption DEF NtpInv, OneDaemon
<1>6. Standing = daemon[d].pc /\ Standing' = q.pc
  BY <1>1, <1>5 DEF Standing
<1>7. Cardinality(Starting') = Cardinality(Starting) /\ Cardinality(Holders') = Cardinality(Holders)
  BY DEF Starting, Holders
<1>8. PostsCounted'
  <2>1. Cardinality(Posting') = Cardinality(Posting)
    BY <1>1, <1>2 DEF One
  <2>2. Posts(Standing') + One(daemon[d].pc = "announce") <= Posts(Standing)
        /\ Posts(Standing') \in Nat /\ Posts(Standing) \in Nat
    BY <1>2, <1>6 DEF Posts, One
  <2>3. sync' \in Nat /\ sync \in Nat /\ called \in Nat /\ One(daemon[d].pc = "announce") \in Nat
        /\ Cardinality(Starting) \in Nat
    <3>1. Cardinality(Starting) \in Nat
      <4>1. IsFiniteSet(Starting)
        BY NtpAssumption, FS_Subset DEF Starting
      <4> QED BY <4>1, FS_CardinalityType
    <3> QED BY <1>3, <3>1 DEF NtpInv, NtpTypes, One
  <2> QED BY <1>1, <1>7, <2>1, <2>2, <2>3 DEF NtpInv, PostsCounted
<1>9. LocksCounted'
  <2>1. Unlocks(Standing') <= Unlocks(Standing) /\ Unlocks(Standing') \in Nat /\ Unlocks(Standing) \in Nat
    BY <1>2, <1>6 DEF Unlocks
  <2>2. Cardinality(Starting) \in Nat /\ Cardinality(Holders) \in Nat
    <3>1. IsFiniteSet(Starting) /\ IsFiniteSet(Holders)
      BY NtpAssumption, FS_Subset DEF Starting, Holders
    <3> QED BY <3>1, FS_CardinalityType
  <2> QED BY <1>7, <2>1, <2>2 DEF NtpInv, LocksCounted, NtpTypes
<1>10. StopsHeld'
  <2>1. LockIntact' <=> LockIntact
    BY <1>7 DEF LockIntact
  <2> QED BY <1>1, <1>2, <2>1 DEF NtpInv, StopsHeld
<1> QED BY <1>3, <1>4, <1>8, <1>9, <1>10 DEF NtpInv

(* The steps of the loop. *)
LEMMA LoopSteps ==
  ASSUME NtpInv, NEW d \in NtpDaemons,
         \/ DaemonAnnounces(d) \/ RoundBegins(d) \/ ntp_get_next_hostip(d) \/ SelectServer(d)
         \/ ntpc_verify_recvd_ntp_datagram(d) \/ ntp_is_kiss_of_death(d)
         \/ ntpc_get_ntp_sample(d) \/ DelayEnds(d)
  PROVE  NtpInv'
<1> DEFINE r == daemon[d]
<1>1. DaemonOk(r) /\ mutex \in Nat /\ kod_list \subseteq NtpServers /\ sync \in Nat
  BY DEF NtpInv, NtpTypes
<1>2. r \in DaemonRecord
  BY <1>1 DEF DaemonOk
<1>3. r.pc \in InLoop \cup {"announce"} => r.pc = "lockwait" \/ r.offset = NoOffset
  BY <1>1 DEF DaemonOk, InLoop
<1>4. ASSUME NEW q, DaemonOk(q), q.pc \in InLoop \cup LoopEnds, Now(d, q), r.pc \in InLoop,
             UNCHANGED <<state, mutex, sync, pid, calls, called>>, kod_list' \subseteq NtpServers
      PROVE  NtpInv'
  <2>1. sync' = sync + One(daemon[d].pc = "announce")
    BY <1>1, <1>4 DEF One, InLoop
  <2> QED BY <1>4, <2>1, LoopKeeps
<1>5. CASE DaemonAnnounces(d)
  <2> DEFINE q == [r EXCEPT !.pc = "top"]
  <2>1. r.pc = "announce" /\ r.offset = NoOffset
    BY <1>3, <1>5 DEF DaemonAnnounces
  <2>2. q \in DaemonRecord /\ q.pc = "top" /\ q.offset = NoOffset
    BY <1>2, <2>1 DEF DaemonRecord, DaemonPlaces
  <2>3. DaemonOk(q) /\ q.pc \in InLoop
    BY <2>2 DEF DaemonOk, InLoop
  <2>4. Now(d, q) /\ sync' = sync + One(daemon[d].pc = "announce")
    BY <1>5, <2>1 DEF DaemonAnnounces, One
  <2> HIDE DEF q
  <2> QED BY <1>1, <1>5, <2>1, <2>3, <2>4, LoopKeeps DEF DaemonAnnounces
<1>6. CASE RoundBegins(d)
  <2>1. r.pc = "top" /\ r.offset = NoOffset
    BY <1>3, <1>6 DEF RoundBegins, InLoop
  <2> DEFINE q == IF state = "STOP_REQUESTED" THEN [r EXCEPT !.pc = "ending"]
                  ELSE [NoDaemon EXCEPT !.pc = "select", !.retries = r.retries]
  <2>2. DaemonOk(q) /\ q.pc \in InLoop \cup LoopEnds
    <3>1. CASE state = "STOP_REQUESTED"
      <4>1. q \in DaemonRecord /\ q.pc = "ending" /\ q.offset = NoOffset
        BY <1>2, <2>1, <3>1 DEF DaemonRecord, DaemonPlaces
      <4> QED BY <4>1 DEF DaemonOk, LoopEnds
    <3>2. CASE state # "STOP_REQUESTED"
      <4>1. r.retries \in Nat /\ "select" \in DaemonPlaces \ {"recv", "woken"}
        BY <1>2 DEF DaemonRecord, DaemonPlaces
      <4>2. q = [NoDaemon EXCEPT !.pc = "select", !.retries = r.retries] /\ q.pc = "select"
        BY <3>2 DEF NoDaemon
      <4> QED BY <4>1, <4>2, EmptyOk DEF InLoop
    <3> QED BY <3>1, <3>2
  <2>3. Now(d, q) /\ UNCHANGED <<state, mutex, sync, pid, kod_list, calls, called>>
    BY <1>6 DEF RoundBegins
  <2> HIDE DEF q
  <2> QED BY <1>1, <1>4, <2>1, <2>2, <2>3 DEF InLoop
<1>7. CASE ntp_get_next_hostip(d)
  <2>1. /\ r.pc = "select" /\ r.offset = NoOffset
        /\ UNCHANGED <<state, mutex, sync, pid, kod_list, calls, called>>
    BY <1>3, <1>7 DEF ntp_get_next_hostip, InLoop
  <2>2. \/ \E l \in Seq(NtpServers) : Now(d, [r EXCEPT !.list = l])
        \/ \E q \in Failed(r) : Now(d, q)
    <3>1. ASSUME NEW a \in NtpServers, NEW b \in NtpServers,
                 Now(d, [r EXCEPT !.list = <<a, b>>]) \/ Now(d, [r EXCEPT !.list = <<a>>])
          PROVE  \E l \in Seq(NtpServers) : Now(d, [r EXCEPT !.list = l])
      <4>1. <<a, b>> \in Seq(NtpServers) /\ <<a>> \in Seq(NtpServers)
        OBVIOUS
      <4> QED BY <3>1, <4>1, Zenon
    <3>2. \/ \E a, b \in NtpServers : Now(d, [r EXCEPT !.list = <<a, b>>])
          \/ \E a \in NtpServers : Now(d, [r EXCEPT !.list = <<a>>])
          \/ \E q \in Failed(r) : Now(d, q)
      BY <1>7, Zenon DEF ntp_get_next_hostip, OneOf
    <3> QED BY <3>1, <3>2, Zenon
  <2>3. ASSUME NEW l \in Seq(NtpServers), Now(d, [r EXCEPT !.list = l]) PROVE NtpInv'
    <3> DEFINE q == [r EXCEPT !.list = l]
    <3>1. q \in DaemonRecord /\ q.pc = "select" /\ q.offset = NoOffset
      BY <1>2, <2>1 DEF DaemonRecord
    <3>2. DaemonOk(q) /\ q.pc \in InLoop
      BY <3>1 DEF DaemonOk, InLoop
    <3> HIDE DEF q
    <3>3. Now(d, q)
      BY <2>3 DEF q
    <3> QED BY <1>1, <1>4, <2>1, <3>2, <3>3 DEF InLoop
  <2>4. ASSUME NEW q \in Failed(r), Now(d, q) PROVE NtpInv'
    <3>1. DaemonOk(q) /\ q.pc \in InLoop \cup LoopEnds
      BY <1>1, <1>2, <2>1, <2>4, FailedOk
    <3> QED BY <1>1, <1>4, <2>1, <2>4, <3>1 DEF InLoop
  <2> QED BY <2>2, <2>3, <2>4
<1>8. CASE SelectServer(d)
  <2> DEFINE s == Head(r.list)
             rest == [r EXCEPT !.list = Tail(r.list)]
  <2>1. /\ r.pc = "select" /\ r.offset = NoOffset /\ r.list # << >>
        /\ UNCHANGED <<state, mutex, sync, pid, kod_list, calls, called>>
    BY <1>3, <1>8 DEF SelectServer, InLoop
  <2>2. /\ s \in NtpServers /\ rest \in DaemonRecord /\ rest.pc = "select" /\ rest.offset = NoOffset
        /\ rest.retry \in Nat
    <3>1. r.list \in Seq(NtpServers)
      BY <1>2 DEF DaemonRecord
    <3>2. s \in NtpServers /\ Tail(r.list) \in Seq(NtpServers)
      BY <2>1, <3>1, HeadTailProperties
    <3> QED BY <1>2, <2>1, <3>2 DEF DaemonRecord
  <2>3. \/ Now(d, [rest EXCEPT !.retry = rest.retry + 1])
        \/ \E q \in Failed(rest) : Now(d, q)
        \/ Now(d, [rest EXCEPT !.pc = "recv", !.server = s])
    BY <1>8 DEF SelectServer, OneOf
  <2> HIDE DEF rest, s
  <2>4. CASE Now(d, [rest EXCEPT !.retry = rest.retry + 1])
    <3> DEFINE q == [rest EXCEPT !.retry = rest.retry + 1]
    <3>0. rest.retry + 1 \in Nat
      BY <2>2
    <3>1. q \in DaemonRecord /\ q.pc = "select" /\ q.offset = NoOffset
      BY <2>2, <3>0 DEF DaemonRecord
    <3>2. DaemonOk(q) /\ q.pc \in InLoop
      BY <3>1 DEF DaemonOk, InLoop
    <3> HIDE DEF q
    <3>3. Now(d, q)
      BY <2>4 DEF q
    <3> QED BY <1>1, <1>4, <2>1, <3>2, <3>3 DEF InLoop
  <2>5. ASSUME NEW q \in Failed(rest), Now(d, q) PROVE NtpInv'
    <3>1. DaemonOk(q) /\ q.pc \in InLoop \cup LoopEnds
      BY <1>1, <2>2, <2>5, FailedOk
    <3> QED BY <1>1, <1>4, <2>1, <2>5, <3>1 DEF InLoop
  <2>6. CASE Now(d, [rest EXCEPT !.pc = "recv", !.server = s])
    <3> DEFINE q == [rest EXCEPT !.pc = "recv", !.server = s]
    <3>1. q \in DaemonRecord /\ q.pc = "recv" /\ q.offset = NoOffset /\ q.server = s
      BY <2>2 DEF DaemonRecord, DaemonPlaces
    <3>2. DaemonOk(q) /\ q.pc \in InLoop
      BY <2>2, <3>1 DEF DaemonOk, InLoop
    <3> HIDE DEF q
    <3>3. Now(d, q)
      BY <2>6 DEF q
    <3> QED BY <1>1, <1>4, <2>1, <3>2, <3>3 DEF InLoop
  <2> QED BY <2>3, <2>4, <2>5, <2>6
<1>9. CASE ntpc_verify_recvd_ntp_datagram(d) \/ ntp_is_kiss_of_death(d)
  <2>1. /\ r.pc = "recv" /\ r.offset = NoOffset /\ r.server \in NtpServers
        /\ UNCHANGED <<state, mutex, sync, pid, calls, called>>
        /\ kod_list' \in {kod_list, kod_list \cup {r.server}}
    BY <1>1, <1>3, <1>9 DEF ntpc_verify_recvd_ntp_datagram, ntp_is_kiss_of_death, InLoop, DaemonOk
  <2>2. \/ \E o \in Offsets : Now(d, [r EXCEPT !.pc = "woken", !.answer = o])
        \/ Now(d, [r EXCEPT !.pc = "woken", !.errval = "other"])
    BY <1>9 DEF ntpc_verify_recvd_ntp_datagram, ntp_is_kiss_of_death, Offsets
  <2>3. ASSUME NEW o \in Offsets, Now(d, [r EXCEPT !.pc = "woken", !.answer = o]) PROVE NtpInv'
    <3> DEFINE q == [r EXCEPT !.pc = "woken", !.answer = o]
    <3>1. q \in DaemonRecord /\ q.pc = "woken" /\ q.offset = NoOffset /\ q.server = r.server
      BY <1>2, <2>1 DEF DaemonRecord, DaemonPlaces
    <3>2. DaemonOk(q) /\ q.pc \in InLoop
      BY <2>1, <3>1 DEF DaemonOk, InLoop
    <3> HIDE DEF q
    <3>3. Now(d, q)
      BY <2>3 DEF q
    <3> QED BY <1>1, <1>4, <2>1, <3>2, <3>3 DEF InLoop
  <2>4. CASE Now(d, [r EXCEPT !.pc = "woken", !.errval = "other"])
    <3> DEFINE q == [r EXCEPT !.pc = "woken", !.errval = "other"]
    <3>1. q \in DaemonRecord /\ q.pc = "woken" /\ q.offset = NoOffset /\ q.server = r.server
      BY <1>2, <2>1 DEF DaemonRecord, DaemonPlaces
    <3>2. DaemonOk(q) /\ q.pc \in InLoop
      BY <2>1, <3>1 DEF DaemonOk, InLoop
    <3> HIDE DEF q
    <3>3. Now(d, q)
      BY <2>4 DEF q
    <3> QED BY <1>1, <1>4, <2>1, <3>2, <3>3 DEF InLoop
  <2> QED BY <2>2, <2>3, <2>4
<1>10. CASE ntpc_get_ntp_sample(d)
  <2> DEFINE t == IF r.answer = NoOffset THEN r
                  ELSE [r EXCEPT !.samples =
                          Append(r.samples, [server |-> r.server, offset |-> r.answer])]
  <2>1. /\ r.pc = "woken" /\ r.offset = NoOffset /\ r.server \in NtpServers
        /\ UNCHANGED <<state, mutex, sync, pid, kod_list, calls, called>>
    BY <1>1, <1>3, <1>10 DEF ntpc_get_ntp_sample, InLoop, DaemonOk
  <2>2. PICK q \in Attempted(t) : Now(d, q)
    BY <1>10 DEF ntpc_get_ntp_sample, OneOf
  <2>3. t \in DaemonRecord /\ t.offset = NoOffset
    <3>1. CASE r.answer = NoOffset
      BY <1>2, <2>1, <3>1
    <3>2. CASE r.answer # NoOffset
      <4> DEFINE z == [server |-> r.server, offset |-> r.answer]
      <4>1. z \in Sample /\ r.samples \in Seq(Sample)
        BY <1>2, <2>1, <3>2 DEF Sample, DaemonRecord
      <4> HIDE DEF z
      <4>2. Append(r.samples, z) \in Seq(Sample)
        BY <4>1, AppendProperties
      <4>3. t = [r EXCEPT !.samples = Append(r.samples, z)]
        BY <3>2 DEF z
      <4> QED BY <1>2, <2>1, <4>2, <4>3 DEF DaemonRecord
    <3> QED BY <3>1, <3>2
  <2> HIDE DEF t
  <2>4. DaemonOk(q) /\ q.pc \in InLoop \cup LoopEnds
    BY <1>1, <2>2, <2>3, AttemptedOk
  <2> QED BY <1>1, <1>4, <2>1, <2>2, <2>4 DEF InLoop
<1>11. CASE DelayEnds(d)
  <2> DEFINE q == [r EXCEPT !.pc = "top"]
  <2>1. r.pc = "sleep" /\ r.offset = NoOffset
    BY <1>3, <1>11 DEF DelayEnds, InLoop
  <2>2. q \in DaemonRecord /\ q.pc = "top" /\ q.offset = NoOffset
    BY <1>2, <2>1 DEF DaemonRecord, DaemonPlaces
  <2>3. DaemonOk(q) /\ q.pc \in InLoop
    BY <2>2 DEF DaemonOk, InLoop
  <2>4. Now(d, q) /\ UNCHANGED <<state, mutex, sync, pid, kod_list, calls, called>>
    BY <1>11 DEF DelayEnds
  <2> HIDE DEF q
  <2> QED BY <1>1, <1>4, <2>1, <2>3, <2>4 DEF InLoop
<1> QED BY <1>5, <1>6, <1>7, <1>8, <1>9, <1>10, <1>11

-----------------------------------------------------------------------------
(* The other steps. *)
LEMMA NtpCountsTyped ==
  ASSUME NtpTypes
  PROVE  /\ Cardinality(Starting) \in Nat /\ Cardinality(Holders) \in Nat
         /\ Cardinality(Posting) \in Nat /\ IsFiniteSet(Holders)
         /\ Posts(Standing) \in Nat /\ Unlocks(Standing) \in Nat
         /\ mutex \in Nat /\ sync \in Nat /\ called \in Nat
<1>1. IsFiniteSet(Starting) /\ IsFiniteSet(Holders) /\ IsFiniteSet(Posting)
  BY NtpAssumption, FS_Subset DEF Starting, Holders, Posting
<1> QED BY <1>1, FS_CardinalityType DEF Posts, Unlocks, NtpTypes

(* An intact lock that is free is held by nobody, and never by two.          *)
LEMMA LockIsHeld ==
  ASSUME NtpTypes, LockIntact
  PROVE  /\ mutex > 0 => Holders = {}
         /\ \A b, c \in Holders : b = c
<1>1. /\ Cardinality(Holders) \in Nat /\ IsFiniteSet(Holders) /\ mutex \in Nat
      /\ Cardinality(Holders) <= 1
  BY NtpCountsTyped DEF LockIntact
<1>2. mutex > 0 => Holders = {}
  <2>1. mutex > 0 => Cardinality(Holders) = 0
    BY <1>1 DEF LockIntact
  <2> QED BY <1>1, <2>1, FS_EmptySet
<1>3. ASSUME NEW b \in Holders, NEW c \in Holders, b # c PROVE FALSE
  <2>1. {b, c} \subseteq Holders /\ Cardinality({b, c}) = 2
    <3>1. IsFiniteSet({b}) /\ Cardinality({b}) = 1 /\ c \notin {b} /\ {b} \cup {c} = {b, c}
      BY <1>3, FS_Singleton
    <3>2. Cardinality({b} \cup {c}) = Cardinality({b}) + 1
      BY <3>1, FS_AddElement
    <3> QED BY <1>3, <3>1, <3>2
  <2>2. Cardinality({b, c}) <= Cardinality(Holders)
    BY <1>1, <2>1, FS_Subset
  <2> QED BY <1>1, <2>1, <2>2
<1> QED BY <1>2, <1>3

(* A caller that neither takes nor gives back the lock. *)
LEMMA CallKeeps ==
  ASSUME NtpInv, NEW c \in NtpCallers, NEW v \in {"idle", "start", "stop", "status"},
         calls' = [calls EXCEPT ![c] = v], calls[c] \notin {"start_sync", "stop_sync"},
         called' = called + One(v # "idle"), called' \in 0 .. NtpCalls,
         UNCHANGED <<state, mutex, sync, pid, kod_list, daemon>>
  PROVE  NtpInv'
<1>1. /\ calls' \in [NtpCallers -> StopWords]
      /\ Cardinality(Starting') = Cardinality(Starting) + One(v = "start") - One(calls[c] = "start")
      /\ Cardinality(Holders') = Cardinality(Holders) + One(v \in {"start_sync", "stop_sync"})
                                   - One(calls[c] \in {"start_sync", "stop_sync"})
  <2>1. v \in StopWords /\ NtpTypes
    BY DEF StopWords, NtpInv
  <2> QED BY <2>1, CallerMoves
<1>2. NtpTypes'
  BY <1>1 DEF NtpInv, NtpTypes
<1>3. OneDaemon'
  BY DEF NtpInv, OneDaemon
<1>4. /\ Cardinality(Starting) \in Nat /\ Cardinality(Holders) \in Nat /\ Cardinality(Posting) \in Nat
      /\ Posts(Standing) \in Nat /\ Unlocks(Standing) \in Nat
      /\ mutex \in Nat /\ sync \in Nat /\ called \in Nat
  BY NtpCountsTyped DEF NtpInv
<1>5. Standing' = Standing /\ Posting' = Posting
  BY DEF Standing, Posting
<1>6. /\ Cardinality(Starting') <= Cardinality(Starting) + One(v # "idle")
      /\ Cardinality(Starting') \in Int
      /\ Cardinality(Holders') = Cardinality(Holders) /\ One(v # "idle") \in Nat
  BY <1>1, <1>4 DEF One
<1>7. PostsCounted' /\ LocksCounted'
  <2>1. Posts(Standing') = Posts(Standing) /\ Unlocks(Standing') = Unlocks(Standing)
        /\ Cardinality(Posting') = Cardinality(Posting)
    BY <1>5
  <2>2. /\ sync + Posts(Standing) + Cardinality(Posting) + 2 * Cardinality(Starting) <= 2 * called
        /\ mutex + Cardinality(Holders) + Unlocks(Standing) + Cardinality(Starting) <= 1 + called
    BY DEF NtpInv, PostsCounted, LocksCounted
  <2> QED BY <1>4, <1>6, <2>1, <2>2 DEF PostsCounted, LocksCounted
<1>8. StopsHeld'
  <2>1. LockIntact' <=> LockIntact
    BY <1>6 DEF LockIntact
  <2>2. ASSUME NEW b \in NtpCallers, NEW w \in {"start_sync", "stop_sync"}
        PROVE  calls'[b] = w <=> calls[b] = w
    BY <1>1 DEF NtpInv, NtpTypes
  <2> QED BY <2>1, <2>2 DEF NtpInv, StopsHeld
<1> QED BY <1>2, <1>3, <1>7, <1>8 DEF NtpInv

LEMMA CallsKeep ==
  ASSUME NtpInv, NEW c \in NtpCallers,
         Call(c) \/ ntpc_status(c) \/ StartFindsOne(c) \/ StopFindsNone(c)
  PROVE  NtpInv'
<1>1. called \in 0 .. NtpCalls /\ NtpCalls \in Nat
  BY NtpAssumption DEF NtpInv, NtpTypes
<1>2. CASE Call(c)
  <2>1. PICK v \in {"start", "stop", "status"} : calls' = [calls EXCEPT ![c] = v]
    BY <1>2 DEF Call
  <2>2. /\ calls[c] = "idle" /\ called' = called + One(v # "idle") /\ called' \in 0 .. NtpCalls
        /\ UNCHANGED <<state, mutex, sync, pid, kod_list, daemon>>
    BY <1>1, <1>2 DEF Call, One
  <2> QED BY <2>1, <2>2, CallKeeps
<1>3. CASE ntpc_status(c) \/ StartFindsOne(c) \/ StopFindsNone(c)
  <2>1. calls' = [calls EXCEPT ![c] = "idle"]
    BY <1>3 DEF ntpc_status, StartFindsOne, StopFindsNone, Returns
  <2>2. /\ calls[c] \in {"status", "start", "stop"}
        /\ UNCHANGED <<state, mutex, sync, pid, kod_list, daemon, called>>
    BY <1>3 DEF ntpc_status, StartFindsOne, StopFindsNone
  <2>3. called' = called + One("idle" # "idle")
    BY <1>1, <2>2 DEF One
  <2> QED BY <1>1, <2>1, <2>2, <2>3, CallKeeps
<1> QED BY <1>2, <1>3

(* A signal leaves the daemon what it still has to do. *)
LEMMA SignalledOk ==
  ASSUME NtpTypes, NEW d \in NtpDaemons
  PROVE  LET p == daemon[d].pc
             q == Signalled(d)
         IN /\ DaemonOk(q)
            /\ Posts(q.pc) = Posts(p) /\ Unlocks(q.pc) = Unlocks(p)
            /\ \A w \in {"gone", "born", "posting"} : q.pc = w <=> p = w
<1> DEFINE r == daemon[d]
<1>1. r \in DaemonRecord /\ DaemonOk(r)
  BY DEF NtpTypes
<1>2. CASE r.pc = "recv"
  <2> DEFINE q == [r EXCEPT !.pc = "woken", !.errval = "eintr"]
  <2>1. Signalled(d) = q
    BY <1>2 DEF Signalled
  <2>2. q \in DaemonRecord /\ q.pc = "woken" /\ q.server = r.server /\ q.offset = r.offset
    BY <1>1 DEF DaemonRecord, DaemonPlaces
  <2>3. DaemonOk(q)
    BY <1>1, <1>2, <2>2 DEF DaemonOk
  <2> HIDE DEF q
  <2> QED BY <1>2, <2>1, <2>2, <2>3 DEF Posts, Unlocks
<1>3. CASE r.pc = "sleep"
  <2> DEFINE q == [r EXCEPT !.pc = "top"]
  <2>1. Signalled(d) = q
    BY <1>3 DEF Signalled
  <2>2. q \in DaemonRecord /\ q.pc = "top" /\ q.offset = r.offset
    BY <1>1 DEF DaemonRecord, DaemonPlaces
  <2>3. DaemonOk(q)
    BY <1>1, <1>3, <2>2 DEF DaemonOk
  <2> HIDE DEF q
  <2> QED BY <1>3, <2>1, <2>2, <2>3 DEF Posts, Unlocks
<1>4. CASE r.pc = "lockwait"
  <2> DEFINE q == [r EXCEPT !.pc = "unlock"]
  <2>1. Signalled(d) = q
    BY <1>4 DEF Signalled
  <2>2. q \in DaemonRecord /\ q.pc = "unlock" /\ q.offset = r.offset /\ q.samples = r.samples
    BY <1>1 DEF DaemonRecord, DaemonPlaces
  <2>3. DaemonOk(q)
    BY <1>1, <2>2 DEF DaemonOk
  <2> HIDE DEF q
  <2> QED BY <1>4, <2>1, <2>2, <2>3 DEF Posts, Unlocks
<1>5. CASE r.pc \notin {"recv", "sleep", "lockwait"}
  <2>1. Signalled(d) = r
    BY <1>5 DEF Signalled
  <2> QED BY <1>1, <2>1
<1> QED BY <1>2, <1>3, <1>4, <1>5

(* No daemon is in its loop while the state lets a new one be started.       *)
LEMMA NtpStartKeeps ==
  ASSUME NtpInv, NEW c \in NtpCallers, ntpc_start(c)
  PROVE  NtpInv'
<1>1. /\ Cardinality(Starting) \in Nat /\ Cardinality(Holders) \in Nat /\ Cardinality(Posting) \in Nat
      /\ Posts(Standing) \in Nat /\ Unlocks(Standing) \in Nat
      /\ mutex \in Nat /\ sync \in Nat /\ called \in Nat
  BY NtpCountsTyped DEF NtpInv
<1>2. /\ calls[c] = "start" /\ mutex > 0 /\ state \in {"NOT_RUNNING", "STOPPED"}
      /\ UNCHANGED <<sync, kod_list, called>>
  BY DEF ntpc_start
<1>3. /\ \A e \in NtpDaemons : daemon[e].pc \in {"gone", "posting"}
      /\ Posts(Standing) = 0 /\ Unlocks(Standing) = 0
  <2>1. \A e \in NtpDaemons : daemon[e].pc \in {"gone", "posting"}
    BY <1>2 DEF NtpInv, OneDaemon
  <2> QED BY <2>1 DEF Standing, Posts, Unlocks, NtpInv, NtpTypes
<1>4. /\ sync + Posts(Standing) + Cardinality(Posting) + 2 * Cardinality(Starting) <= 2 * called
      /\ mutex + Cardinality(Holders) + Unlocks(Standing) + Cardinality(Starting) <= 1 + called
  BY DEF NtpInv, PostsCounted, LocksCounted
<1>5. ASSUME NEW v \in {"start_sync", "idle"}, calls' = [calls EXCEPT ![c] = v]
      PROVE  /\ calls' \in [NtpCallers -> StopWords]
             /\ Cardinality(Starting') = Cardinality(Starting) - 1
             /\ Cardinality(Holders') = Cardinality(Holders) + One(v = "start_sync")
  <2>1. v \in StopWords /\ NtpTypes
    BY DEF StopWords, NtpInv
  <2>2. /\ calls' \in [NtpCallers -> StopWords]
        /\ Cardinality(Starting') = Cardinality(Starting) + One(v = "start") - One(calls[c] = "start")
        /\ Cardinality(Holders') = Cardinality(Holders) + One(v \in {"start_sync", "stop_sync"})
                                     - One(calls[c] \in {"start_sync", "stop_sync"})
    BY <1>5, <2>1, CallerMoves
  <2> QED BY <1>1, <1>2, <2>2 DEF One
<1>6. ASSUME NEW d \in NtpDaemons, daemon[d].pc = "gone",
             daemon' = [daemon EXCEPT ![d].pc = "born"], pid' = d, state' = "STARTED",
             mutex' = mutex - 1, calls' = [calls EXCEPT ![c] = "start_sync"]
      PROVE  NtpInv'
  <2> DEFINE q == [daemon[d] EXCEPT !.pc = "born"]
  <2>1. daemon[d] \in DaemonRecord /\ DaemonOk(daemon[d]) /\ daemon \in [NtpDaemons -> DaemonRecord]
    BY DEF NtpInv, NtpTypes
  <2>2. daemon[d].offset = NoOffset
    BY <1>6, <2>1 DEF DaemonOk
  <2>3. q \in DaemonRecord /\ q.pc = "born" /\ q.offset = NoOffset
    BY <2>1, <2>2 DEF DaemonRecord, DaemonPlaces
  <2>4. DaemonOk(q)
    BY <2>3 DEF DaemonOk
  <2>5. daemon' = [daemon EXCEPT ![d] = q]
    BY <1>6, <2>1
  <2> HIDE DEF q
  <2>6. /\ daemon' \in [NtpDaemons -> DaemonRecord] /\ \A e \in NtpDaemons : DaemonOk(daemon'[e])
        /\ daemon'[d] = q /\ \A e \in NtpDaemons : e # d => daemon'[e] = daemon[e]
        /\ Cardinality(Posting') = Cardinality(Posting) + One(q.pc = "posting")
                                     - One(daemon[d].pc = "posting")
    BY <2>4, <2>5, DaemonMoves DEF NtpInv
  <2>7. Cardinality(Posting') = Cardinality(Posting)
    BY <1>1, <1>6, <2>3, <2>6 DEF One
  <2>8. Cardinality(Starting') = Cardinality(Starting) - 1
        /\ Cardinality(Holders') = Cardinality(Holders) + 1 /\ calls' \in [NtpCallers -> StopWords]
    BY <1>1, <1>5, <1>6 DEF One
  <2>9. Standing' = "born" /\ Posts(Standing') = 2 /\ Unlocks(Standing') = 1
    <3>1. d # "none"
      BY NtpAssumption
    <3> QED BY <1>6, <2>3, <2>6, <3>1 DEF Standing, Posts, Unlocks
  <2>10. NtpTypes'
    BY <1>1, <1>2, <1>6, <2>6, <2>8 DEF NtpInv, NtpTypes, States
  <2>11. OneDaemon'
    BY <1>3, <1>6, <2>6 DEF OneDaemon
  <2>12. PostsCounted' /\ LocksCounted'
    BY <1>1, <1>2, <1>3, <1>4, <1>6, <2>7, <2>8, <2>9 DEF PostsCounted, LocksCounted
  <2>13. StopsHeld'
    <3>1. SUFFICES ASSUME LockIntact'
                   PROVE  StopsHeld'
      BY DEF StopsHeld
    <3>2. Holders = {}
      <4>1. LockIntact
        BY <1>1, <1>6, <2>8, <3>1 DEF LockIntact
      <4> QED BY <1>2, <4>1, LockIsHeld DEF NtpInv
    <3>3. \A e \in NtpDaemons : daemon'[e].pc = "born" =>
            state' = "STARTED" /\ \E b \in NtpCallers : calls'[b] = "start_sync"
      BY <1>6 DEF NtpInv, NtpTypes
    <3>4. \A b \in NtpCallers : calls'[b] # "stop_sync"
      BY <1>6, <3>2 DEF Holders, NtpInv, NtpTypes
    <3> QED BY <3>3, <3>4 DEF StopsHeld
  <2> QED BY <2>10, <2>11, <2>12, <2>13 DEF NtpInv
<1>7. ASSUME state' = "STOPPED", pid' = "none", calls' = [calls EXCEPT ![c] = "idle"],
             UNCHANGED <<mutex, daemon>>
      PROVE  NtpInv'
  <2>1. Cardinality(Starting') = Cardinality(Starting) - 1
        /\ Cardinality(Holders') = Cardinality(Holders) /\ calls' \in [NtpCallers -> StopWords]
    BY <1>1, <1>5, <1>7 DEF One
  <2>2. Posts(Standing') = 0 /\ Unlocks(Standing') = 0 /\ Posting' = Posting
    BY <1>7 DEF Standing, Posts, Unlocks, Posting
  <2>3. NtpTypes'
    BY <1>2, <1>7, <2>1 DEF NtpInv, NtpTypes, States
  <2>4. OneDaemon' /\ StopsHeld'
    BY <1>3, <1>7 DEF OneDaemon, StopsHeld
  <2>5. PostsCounted' /\ LocksCounted'
    <3>1. Cardinality(Posting') = Cardinality(Posting)
      BY <2>2
    <3> QED BY <1>1, <1>2, <1>3, <1>4, <1>7, <2>1, <2>2, <3>1 DEF PostsCounted, LocksCounted
  <2> QED BY <2>3, <2>4, <2>5 DEF NtpInv
<1>8. \/ \E d \in NtpDaemons :
           /\ daemon[d].pc = "gone" /\ daemon' = [daemon EXCEPT ![d].pc = "born"]
           /\ pid' = d /\ state' = "STARTED" /\ mutex' = mutex - 1
           /\ calls' = [calls EXCEPT ![c] = "start_sync"]
      \/ /\ state' = "STOPPED" /\ pid' = "none" /\ calls' = [calls EXCEPT ![c] = "idle"]
         /\ UNCHANGED <<mutex, daemon>>
  BY DEF ntpc_start, Returns
<1> QED BY <1>6, <1>7, <1>8

(* A caller that comes back from its wait with the lock, or waits on. *)
LEMMA GivesBack ==
  ASSUME NtpInv, NEW c \in NtpCallers, calls[c] \in {"start_sync", "stop_sync"}, sync > 0,
         calls[c] = "start_sync" => state # "STARTED",
         sync' = sync - 1, mutex' = mutex + 1, calls' = [calls EXCEPT ![c] = "idle"],
         UNCHANGED <<state, pid, kod_list, daemon, called>>
  PROVE  NtpInv'
<1>1. /\ Cardinality(Starting) \in Nat /\ Cardinality(Holders) \in Nat /\ Cardinality(Posting) \in Nat
      /\ Posts(Standing) \in Nat /\ Unlocks(Standing) \in Nat
      /\ mutex \in Nat /\ sync \in Nat /\ called \in Nat
  BY NtpCountsTyped DEF NtpInv
<1>2. /\ calls' \in [NtpCallers -> StopWords]
      /\ Cardinality(Starting') = Cardinality(Starting) /\ Cardinality(Holders') = Cardinality(Holders) - 1
  <2>1. "idle" \in StopWords /\ NtpTypes
    BY DEF StopWords, NtpInv
  <2>2. /\ calls' \in [NtpCallers -> StopWords]
        /\ Cardinality(Starting') = Cardinality(Starting) + One("idle" = "start") - One(calls[c] = "start")
        /\ Cardinality(Holders') = Cardinality(Holders) + One("idle" \in {"start_sync", "stop_sync"})
                                     - One(calls[c] \in {"start_sync", "stop_sync"})
    BY <2>1, CallerMoves
  <2> QED BY <1>1, <2>2 DEF One
<1>3. NtpTypes' /\ OneDaemon'
  BY <1>1, <1>2 DEF NtpInv, NtpTypes, OneDaemon
<1>4. Standing' = Standing /\ Posting' = Posting
  BY DEF Standing, Posting
<1>5. PostsCounted' /\ LocksCounted'
  <2>1. Posts(Standing') = Posts(Standing) /\ Unlocks(Standing') = Unlocks(Standing)
        /\ Cardinality(Posting') = Cardinality(Posting)
    BY <1>4
  <2> QED BY <1>1, <1>2, <2>1 DEF NtpInv, PostsCounted, LocksCounted
<1>6. StopsHeld'
  <2>1. SUFFICES ASSUME LockIntact'
                 PROVE  StopsHeld'
    BY DEF StopsHeld
  <2>2. LockIntact
    BY <1>1, <1>2, <2>1 DEF LockIntact
  <2>3. /\ \A d \in NtpDaemons : daemon[d].pc = "born" =>
             state = "STARTED" /\ \E b \in NtpCallers : calls[b] = "start_sync"
        /\ \A b \in NtpCallers, d \in NtpDaemons :
             calls[b] = "stop_sync" /\ daemon[d].pc \notin {"gone", "posting"} =>
               state = "STOP_REQUESTED" /\ daemon[d].pc # "born"
    BY <2>2 DEF NtpInv, StopsHeld
  <2>4. \A d \in NtpDaemons : daemon[d].pc # "born"
    <3>1. SUFFICES ASSUME NEW d \in NtpDaemons, daemon[d].pc = "born"
                   PROVE  FALSE
      OBVIOUS
    <3>2. PICK b \in NtpCallers : calls[b] = "start_sync"
      BY <2>3, <3>1
    <3>3. b = c
      BY <2>2, <3>2, LockIsHeld DEF Holders, NtpInv
    <3> QED BY <2>3, <3>1, <3>2, <3>3
  <2>5. \A b \in NtpCallers : calls'[b] = "stop_sync" => calls[b] = "stop_sync"
    BY DEF NtpInv, NtpTypes
  <2> QED BY <2>3, <2>4, <2>5 DEF StopsHeld
<1> QED BY <1>3, <1>5, <1>6 DEF NtpInv

LEMMA StartWaitsKeeps ==
  ASSUME NtpInv, NEW c \in NtpCallers, StartWaits(c)
  PROVE  NtpInv'
<1>1. CASE state = "STARTED"
  <2>1. /\ sync > 0 /\ sync' = sync - 1
        /\ UNCHANGED <<state, mutex, pid, kod_list, calls, daemon, called>>
    BY <1>1 DEF StartWaits
  <2>2. sync \in Nat /\ sync' \in Nat
    BY <2>1 DEF NtpInv, NtpTypes
  <2>3. NtpTypes' /\ OneDaemon'
    BY <2>1, <2>2 DEF NtpInv, NtpTypes, OneDaemon
  <2>4. Standing' = Standing /\ Posting' = Posting /\ Starting' = Starting /\ Holders' = Holders
    BY <2>1 DEF Standing, Posting, Starting, Holders
  <2>5. LocksCounted' /\ StopsHeld'
    BY <2>1, <2>4 DEF NtpInv, LocksCounted, StopsHeld, LockIntact
  <2>6. PostsCounted'
    <3>1. /\ Posts(Standing') = Posts(Standing) /\ Cardinality(Posting') = Cardinality(Posting)
          /\ Cardinality(Starting') = Cardinality(Starting)
      BY <2>4
    <3>2. /\ Cardinality(Starting) \in Nat /\ Cardinality(Posting) \in Nat
          /\ Posts(Standing) \in Nat /\ called \in Nat
      BY NtpCountsTyped DEF NtpInv
    <3> QED BY <2>1, <2>2, <3>1, <3>2 DEF NtpInv, PostsCounted
  <2> QED BY <2>3, <2>5, <2>6 DEF NtpInv
<1>2. CASE state # "STARTED"
  <2>1. /\ calls[c] = "start_sync" /\ sync > 0 /\ sync' = sync - 1 /\ mutex' = mutex + 1
        /\ calls' = [calls EXCEPT ![c] = "idle"]
        /\ UNCHANGED <<state, pid, kod_list, daemon, called>>
    BY <1>2 DEF StartWaits, Returns
  <2> QED BY <1>2, <2>1, GivesBack
<1> QED BY <1>1, <1>2

(* The signal of ntpc_stop, before its first wait and before a further one.  *)
LEMMA SignalKeeps ==
  ASSUME NtpInv, pid # "none", daemon' = [daemon EXCEPT ![pid] = Signalled(pid)]
  PROVE  /\ daemon' \in [NtpDaemons -> DaemonRecord] /\ \A d \in NtpDaemons : DaemonOk(daemon'[d])
         /\ \A d \in NtpDaemons, w \in {"gone", "born", "posting"} :
              daemon'[d].pc = w <=> daemon[d].pc = w
         /\ Posts(daemon'[pid].pc) = Posts(Standing) /\ Unlocks(daemon'[pid].pc) = Unlocks(Standing)
         /\ Cardinality(Posting') = Cardinality(Posting)
<1>1. pid \in NtpDaemons /\ NtpTypes
  BY DEF NtpInv, NtpTypes
<1> DEFINE q == Signalled(pid)
<1>2. /\ DaemonOk(q) /\ Posts(q.pc) = Posts(daemon[pid].pc) /\ Unlocks(q.pc) = Unlocks(daemon[pid].pc)
      /\ \A w \in {"gone", "born", "posting"} : q.pc = w <=> daemon[pid].pc = w
  BY <1>1, SignalledOk
<1> HIDE DEF q
<1>3. daemon' = [daemon EXCEPT ![pid] = q]
  BY DEF q
<1>4. /\ daemon' \in [NtpDaemons -> DaemonRecord] /\ \A e \in NtpDaemons : DaemonOk(daemon'[e])
      /\ daemon'[pid] = q /\ \A e \in NtpDaemons : e # pid => daemon'[e] = daemon[e]
  BY <1>1, <1>2, <1>3, DaemonMoves
<1>5. \A d \in NtpDaemons, w \in {"gone", "born", "posting"} : daemon'[d].pc = w <=> daemon[d].pc = w
  BY <1>2, <1>4
<1>6. Posting' = Posting
  BY <1>5 DEF Posting
<1>7. Standing = daemon[pid].pc
  BY DEF Standing
<1> QED BY <1>2, <1>4, <1>5, <1>6, <1>7

LEMMA StopKeeps ==
  ASSUME NtpInv, NEW c \in NtpCallers, ntpc_stop(c)
  PROVE  NtpInv'
<1>1. /\ Cardinality(Starting) \in Nat /\ Cardinality(Holders) \in Nat /\ Cardinality(Posting) \in Nat
      /\ Posts(Standing) \in Nat /\ Unlocks(Standing) \in Nat
      /\ mutex \in Nat /\ sync \in Nat /\ called \in Nat
  BY NtpCountsTyped DEF NtpInv
<1>2. /\ calls[c] = "stop" /\ mutex > 0 /\ state' = "STOP_REQUESTED"
      /\ UNCHANGED <<sync, pid, kod_list, called>>
  BY DEF ntpc_stop
<1>3. ASSUME LockIntact
      PROVE  /\ \A b \in NtpCallers : calls[b] \notin {"start_sync", "stop_sync"}
             /\ \A d \in NtpDaemons : daemon[d].pc # "born"
  <2>1. \A b \in NtpCallers : calls[b] \notin {"start_sync", "stop_sync"}
    BY <1>2, <1>3, LockIsHeld DEF Holders, NtpInv
  <2> QED BY <1>3, <2>1 DEF NtpInv, StopsHeld
<1>4. ASSUME NEW v \in {"stop_sync", "idle"}, calls' = [calls EXCEPT ![c] = v]
      PROVE  /\ calls' \in [NtpCallers -> StopWords]
             /\ Cardinality(Starting') = Cardinality(Starting)
             /\ Cardinality(Holders') = Cardinality(Holders) + One(v = "stop_sync")
  <2>1. v \in StopWords /\ NtpTypes
    BY DEF StopWords, NtpInv
  <2>2. /\ calls' \in [NtpCallers -> StopWords]
        /\ Cardinality(Starting') = Cardinality(Starting) + One(v = "start") - One(calls[c] = "start")
        /\ Cardinality(Holders') = Cardinality(Holders) + One(v \in {"start_sync", "stop_sync"})
                                     - One(calls[c] \in {"start_sync", "stop_sync"})
    BY <1>4, <2>1, CallerMoves
  <2> QED BY <1>1, <1>2, <2>2 DEF One
<1>5. CASE KillFails
  <2>1. calls' = [calls EXCEPT ![c] = "idle"] /\ UNCHANGED <<daemon, mutex>>
    BY <1>5 DEF ntpc_stop, Returns
  <2>2. /\ calls' \in [NtpCallers -> StopWords]
        /\ Cardinality(Starting') = Cardinality(Starting) /\ Cardinality(Holders') = Cardinality(Holders)
    BY <1>1, <1>4, <2>1 DEF One
  <2>3. NtpTypes' /\ OneDaemon'
    BY <1>2, <2>1, <2>2 DEF NtpInv, NtpTypes, OneDaemon, States
  <2>4. PostsCounted' /\ LocksCounted'
    <3>1. Standing' = Standing /\ Posting' = Posting
      BY <1>2, <2>1 DEF Standing, Posting
    <3>2. Posts(Standing') = Posts(Standing) /\ Unlocks(Standing') = Unlocks(Standing)
          /\ Cardinality(Posting') = Cardinality(Posting)
      BY <3>1
    <3> QED BY <1>1, <1>2, <2>1, <2>2, <3>2 DEF NtpInv, PostsCounted, LocksCounted
  <2>5. StopsHeld'
    <3>1. LockIntact' => LockIntact
      BY <2>1, <2>2 DEF LockIntact
    <3>2. LockIntact => \A b \in NtpCallers : calls'[b] # "stop_sync"
      BY <1>3, <2>1 DEF NtpInv, NtpTypes
    <3> QED BY <1>3, <2>1, <3>1, <3>2 DEF StopsHeld
  <2> QED BY <2>3, <2>4, <2>5 DEF NtpInv
<1>6. CASE ~KillFails
  <2>1. /\ calls' = [calls EXCEPT ![c] = "stop_sync"] /\ mutex' = mutex - 1
        /\ pid # "none" /\ daemon' = [daemon EXCEPT ![pid] = Signalled(pid)]
    BY <1>6 DEF ntpc_stop, KillFails
  <2>2. /\ calls' \in [NtpCallers -> StopWords]
        /\ Cardinality(Starting') = Cardinality(Starting)
        /\ Cardinality(Holders') = Cardinality(Holders) + 1
    BY <1>1, <1>4, <2>1 DEF One
  <2>3. /\ daemon' \in [NtpDaemons -> DaemonRecord] /\ \A d \in NtpDaemons : DaemonOk(daemon'[d])
        /\ \A d \in NtpDaemons, w \in {"gone", "born", "posting"} :
             daemon'[d].pc = w <=> daemon[d].pc = w
        /\ Posts(daemon'[pid].pc) = Posts(Standing) /\ Unlocks(daemon'[pid].pc) = Unlocks(Standing)
        /\ Cardinality(Posting') = Cardinality(Posting)
    BY <2>1, SignalKeeps
  <2>4. Standing' = daemon'[pid].pc
    BY <1>2, <2>1 DEF Standing
  <2>5. NtpTypes'
    BY <1>1, <1>2, <2>1, <2>2, <2>3 DEF NtpInv, NtpTypes, States
  <2>6. OneDaemon'
    BY <1>2, <2>3 DEF NtpInv, OneDaemon
  <2>7. PostsCounted' /\ LocksCounted'
    BY <1>1, <1>2, <2>1, <2>2, <2>3, <2>4 DEF NtpInv, PostsCounted, LocksCounted
  <2>8. StopsHeld'
    <3>1. LockIntact' => LockIntact
      BY <1>1, <2>1, <2>2 DEF LockIntact
    <3>2. LockIntact => \A d \in NtpDaemons : daemon'[d].pc # "born"
      BY <1>3, <2>3
    <3> QED BY <1>2, <3>1, <3>2 DEF StopsHeld
  <2> QED BY <2>5, <2>6, <2>7, <2>8 DEF NtpInv
<1> QED BY <1>5, <1>6

LEMMA StopWaitsKeeps ==
  ASSUME NtpInv, NEW c \in NtpCallers, StopWaits(c)
  PROVE  NtpInv'
<1>1. /\ calls[c] = "stop_sync" /\ sync > 0 /\ sync' = sync - 1
      /\ UNCHANGED <<state, pid, kod_list, called>>
  BY DEF StopWaits
<1>2. CASE state = "STOP_REQUESTED" /\ ~KillFails
  <2>1. /\ pid # "none" /\ daemon' = [daemon EXCEPT ![pid] = Signalled(pid)]
        /\ UNCHANGED <<mutex, calls>>
    BY <1>2 DEF StopWaits, KillFails
  <2>2. /\ daemon' \in [NtpDaemons -> DaemonRecord] /\ \A d \in NtpDaemons : DaemonOk(daemon'[d])
        /\ \A d \in NtpDaemons, w \in {"gone", "born", "posting"} :
             daemon'[d].pc = w <=> daemon[d].pc = w
        /\ Posts(daemon'[pid].pc) = Posts(Standing) /\ Unlocks(daemon'[pid].pc) = Unlocks(Standing)
        /\ Cardinality(Posting') = Cardinality(Posting)
    BY <2>1, SignalKeeps
  <2>3. /\ Cardinality(Starting) \in Nat /\ Cardinality(Holders) \in Nat
        /\ Cardinality(Posting) \in Nat /\ Posts(Standing) \in Nat /\ Unlocks(Standing) \in Nat
        /\ mutex \in Nat /\ sync \in Nat /\ called \in Nat
    BY NtpCountsTyped DEF NtpInv
  <2>4. Standing' = daemon'[pid].pc /\ Starting' = Starting /\ Holders' = Holders
    BY <1>1, <2>1 DEF Standing, Starting, Holders
  <2>5. NtpTypes'
    BY <1>1, <2>1, <2>2, <2>3 DEF NtpInv, NtpTypes
  <2>6. OneDaemon'
    BY <1>1, <2>2 DEF NtpInv, OneDaemon
  <2>7. PostsCounted' /\ LocksCounted'
    <3>1. Cardinality(Starting') = Cardinality(Starting) /\ Cardinality(Holders') = Cardinality(Holders)
      BY <2>4
    <3>2. Posts(Standing') = Posts(Standing) /\ Unlocks(Standing') = Unlocks(Standing)
      BY <2>2, <2>4
    <3> QED BY <1>1, <2>1, <2>2, <2>3, <3>1, <3>2 DEF NtpInv, PostsCounted, LocksCounted
  <2>8. StopsHeld'
    <3>1. LockIntact' <=> LockIntact
      BY <2>1, <2>4 DEF LockIntact
    <3> QED BY <1>1, <2>1, <2>2, <3>1 DEF NtpInv, StopsHeld
  <2> QED BY <2>5, <2>6, <2>7, <2>8 DEF NtpInv
<1>3. CASE ~(state = "STOP_REQUESTED" /\ ~KillFails)
  <2>1. mutex' = mutex + 1 /\ calls' = [calls EXCEPT ![c] = "idle"] /\ UNCHANGED daemon
    BY <1>3 DEF StopWaits, Returns
  <2> QED BY <1>1, <2>1, GivesBack
<1> QED BY <1>2, <1>3

(* What a daemon that is not in its wait for the lock changes: the state to  *)
(* one that suits its place, the posts by the one it makes.                  *)
LEMMA DaemonKeeps ==
  ASSUME NtpInv, NEW d \in NtpDaemons, NEW q, DaemonOk(q), Now(d, q), daemon[d].pc # "gone",
         q.pc \notin {"gone", "posting"} => daemon[d].pc # "posting",
         UNCHANGED <<pid, kod_list, calls, called>>,
         state' \in States, sync' \in Nat, mutex' \in Nat,
         q.pc \notin {"gone", "posting"} => state' \in {"STARTED", "RUNNING", "STOP_REQUESTED"},
         daemon[d].pc = "posting" => UNCHANGED state,
         sync' + Posts(q.pc) + One(q.pc = "posting")
           <= sync + Posts(daemon[d].pc) + One(daemon[d].pc = "posting"),
         mutex <= mutex', mutex' + Unlocks(q.pc) <= mutex + Unlocks(daemon[d].pc),
         q.pc # "born",
         daemon[d].pc # "born" /\ q.pc \notin {"gone", "posting"} => UNCHANGED state
  PROVE  NtpInv'
<1>1. /\ Cardinality(Starting) \in Nat /\ Cardinality(Holders) \in Nat /\ Cardinality(Posting) \in Nat
      /\ Posts(Standing) \in Nat /\ Unlocks(Standing) \in Nat
      /\ mutex \in Nat /\ sync \in Nat /\ called \in Nat /\ NtpTypes
  BY NtpCountsTyped DEF NtpInv
<1>2. /\ daemon' \in [NtpDaemons -> DaemonRecord] /\ \A e \in NtpDaemons : DaemonOk(daemon'[e])
      /\ daemon'[d] = q /\ \A e \in NtpDaemons : e # d => daemon'[e] = daemon[e]
      /\ Cardinality(Posting') = Cardinality(Posting) + One(q.pc = "posting")
                                   - One(daemon[d].pc = "posting")
  BY DaemonMoves DEF NtpInv, Now
<1>3. daemon[d].pc # "posting" => d = pid /\ pid # "none"
  BY NtpAssumption DEF NtpInv, OneDaemon
<1>4. NtpTypes'
  BY <1>1, <1>2 DEF NtpTypes
<1>5. ASSUME NEW e \in NtpDaemons, e # d, daemon[e].pc \notin {"gone", "posting"}
      PROVE  daemon[d].pc = "posting" /\ UNCHANGED state
  <2>1. e = pid
    BY <1>5 DEF NtpInv, OneDaemon
  <2> QED BY <1>3, <1>5, <2>1
<1>6. OneDaemon'
  <2>1. ASSUME NEW e \in NtpDaemons, daemon'[e].pc \notin {"gone", "posting"}
        PROVE  e = pid' /\ state' \in {"STARTED", "RUNNING", "STOP_REQUESTED"}
    <3>1. CASE e = d
      BY <1>2, <1>3, <2>1, <3>1
    <3>2. CASE e # d
      BY <1>2, <1>5, <2>1, <3>2 DEF NtpInv, OneDaemon
    <3> QED BY <3>1, <3>2
  <2> QED BY <2>1 DEF OneDaemon
<1>7. Starting' = Starting /\ Holders' = Holders
  BY DEF Starting, Holders
<1>8. \/ Standing = daemon[d].pc /\ Standing' = q.pc
      \/ /\ Standing' = Standing /\ daemon[d].pc = "posting"
         /\ Posts(q.pc) = Posts(daemon[d].pc) /\ Unlocks(q.pc) = Unlocks(daemon[d].pc)
  <2>1. CASE d = pid
    BY <1>2, <2>1, NtpAssumption DEF Standing
  <2>2. CASE d # pid
    <3>1. daemon[d].pc = "posting" /\ q.pc \in {"gone", "posting"}
      BY <1>3, <2>2
    <3>2. Standing' = Standing
      BY <1>1, <1>2, <2>2 DEF Standing, NtpTypes
    <3> QED BY <3>1, <3>2 DEF Posts, Unlocks
  <2> QED BY <2>1, <2>2
<1>9. PostsCounted' /\ LocksCounted'
  <2>1. Cardinality(Starting') = Cardinality(Starting) /\ Cardinality(Holders') = Cardinality(Holders)
    BY <1>7
  <2>2. /\ Posts(q.pc) \in Nat /\ Posts(daemon[d].pc) \in Nat
        /\ Unlocks(q.pc) \in Nat /\ Unlocks(daemon[d].pc) \in Nat
        /\ One(q.pc = "posting") \in Nat /\ One(daemon[d].pc = "posting") \in Nat
    BY DEF Posts, Unlocks, One
  <2>3. /\ sync + Posts(Standing) + Cardinality(Posting) + 2 * Cardinality(Starting) <= 2 * called
        /\ mutex + Cardinality(Holders) + Unlocks(Standing) + Cardinality(Starting) <= 1 + called
    BY DEF NtpInv, PostsCounted, LocksCounted
  <2>4. sync' + Posts(Standing') + Cardinality(Posting')
          <= sync + Posts(Standing) + Cardinality(Posting)
    BY <1>1, <1>2, <1>8, <2>2
  <2>5. mutex' + Unlocks(Standing') <= mutex + Unlocks(Standing)
    BY <1>1, <1>8, <2>2
  <2>6. Cardinality(Posting') \in Int /\ Posts(Standing') \in Nat /\ Unlocks(Standing') \in Nat
    BY <1>1, <1>2, <1>8, <2>2
  <2>7. PostsCounted'
    BY <1>1, <2>1, <2>3, <2>4, <2>6 DEF PostsCounted
  <2>8. LocksCounted'
    BY <1>1, <2>1, <2>3, <2>5, <2>6 DEF LocksCounted
  <2> QED BY <2>7, <2>8
<1>10. StopsHeld'
  <2>1. SUFFICES ASSUME LockIntact'
                 PROVE  StopsHeld'
    BY DEF StopsHeld
  <2>2. LockIntact
    <3>1. Cardinality(Holders') = Cardinality(Holders)
      BY <1>7
    <3> QED BY <1>1, <2>1, <3>1 DEF LockIntact
  <2>3. /\ \A e \in NtpDaemons : daemon[e].pc = "born" =>
             state = "STARTED" /\ \E b \in NtpCallers : calls[b] = "start_sync"
        /\ \A b \in NtpCallers, e \in NtpDaemons :
             calls[b] = "stop_sync" /\ daemon[e].pc \notin {"gone", "posting"} =>
               state = "STOP_REQUESTED" /\ daemon[e].pc # "born"
    BY <2>2 DEF NtpInv, StopsHeld
  <2>4. ASSUME NEW e \in NtpDaemons, daemon'[e].pc = "born"
        PROVE  state' = "STARTED" /\ \E b \in NtpCallers : calls'[b] = "start_sync"
    <3>1. e # d /\ daemon[e].pc = "born"
      BY <1>2, <2>4
    <3>2. UNCHANGED state
      BY <1>5, <3>1
    <3> QED BY <2>3, <3>1, <3>2
  <2>5. ASSUME NEW b \in NtpCallers, NEW e \in NtpDaemons, calls'[b] = "stop_sync",
               daemon'[e].pc \notin {"gone", "posting"}
        PROVE  state' = "STOP_REQUESTED" /\ daemon'[e].pc # "born"
    <3>1. CASE e = d
      <4>1. daemon[d].pc \notin {"gone", "posting"}
        BY <1>2, <2>5, <3>1
      <4> QED BY <1>2, <2>3, <2>5, <3>1, <4>1
    <3>2. CASE e # d
      <4>1. daemon[e].pc \notin {"gone", "posting"} /\ daemon'[e] = daemon[e]
        BY <1>2, <2>5, <3>2
      <4> QED BY <1>5, <2>3, <2>5, <3>2, <4>1
    <3> QED BY <3>1, <3>2
  <2> QED BY <2>4, <2>5 DEF StopsHeld
<1> QED BY <1>4, <1>6, <1>9, <1>10 DEF NtpInv

LEMMA DaemonEndsKeep ==
  ASSUME NtpInv, NEW d \in NtpDaemons,
         DaemonBegins(d) \/ SamplesSaved(d) \/ DaemonStops(d) \/ DaemonLeaves(d)
  PROVE  NtpInv'
<1> DEFINE r == daemon[d]
<1>1. r \in DaemonRecord /\ DaemonOk(r) /\ mutex \in Nat /\ sync \in Nat /\ state \in States
  BY DEF NtpInv, NtpTypes
<1>2. r.pc \notin {"gone", "posting"} => state \in {"STARTED", "RUNNING", "STOP_REQUESTED"}
  BY DEF NtpInv, OneDaemon
<1>3. CASE DaemonBegins(d)
  <2>1. /\ r.pc = "born" /\ UNCHANGED <<mutex, sync, pid, kod_list, calls, called>>
        /\ \/ Now(d, [NoDaemon EXCEPT !.pc = "announce"]) /\ state' = "RUNNING"
           \/ Now(d, NoDaemon) /\ UNCHANGED state
    BY <1>3 DEF DaemonBegins
  <2>2. ASSUME Now(d, [NoDaemon EXCEPT !.pc = "announce"]), state' = "RUNNING"
        PROVE  NtpInv'
    <3> DEFINE q == [NoDaemon EXCEPT !.pc = "announce"]
    <3>1. DaemonOk(q) /\ q.pc = "announce"
      <4>1. "announce" \in DaemonPlaces \ {"recv", "woken"} /\ 0 \in Nat
        BY DEF DaemonPlaces
      <4>2. q.pc = "announce"
        BY DEF NoDaemon
      <4> QED BY <4>1, <4>2, EmptyOk
    <3> HIDE DEF q
    <3>2. Now(d, q) /\ state' \in States
      BY <2>2 DEF q, States
    <3> QED BY <1>1, <2>1, <2>2, <3>1, <3>2, DaemonKeeps DEF Posts, Unlocks, One
  <2>3. ASSUME Now(d, NoDaemon), UNCHANGED state
        PROVE  NtpInv'
    <3>1. DaemonOk(NoDaemon) /\ NoDaemon.pc = "gone"
      <4>1. "announce" \in DaemonPlaces \ {"recv", "woken"} /\ 0 \in Nat
        BY DEF DaemonPlaces
      <4>2. NoDaemon.pc = "gone"
        BY DEF NoDaemon
      <4> QED BY <4>1, <4>2, EmptyOk
    <3> QED BY <1>1, <2>1, <2>3, <3>1, DaemonKeeps DEF Posts, Unlocks, One
  <2> QED BY <2>1, <2>2, <2>3
<1>4. CASE SamplesSaved(d)
  <2> DEFINE q == [r EXCEPT !.pc = "ending"]
  <2>1. /\ \/ r.pc = "lockwait" /\ UNCHANGED mutex
           \/ r.pc = "unlock" /\ mutex' = mutex + 1
        /\ Now(d, q) /\ UNCHANGED <<state, sync, pid, kod_list, calls, called>>
    BY <1>4 DEF SamplesSaved
  <2>2. q \in DaemonRecord /\ q.pc = "ending" /\ q.offset = r.offset /\ q.samples = r.samples
    BY <1>1 DEF DaemonRecord, DaemonPlaces
  <2>3. DaemonOk(q)
    BY <1>1, <2>2 DEF DaemonOk
  <2> HIDE DEF q
  <2> QED BY <1>1, <1>2, <2>1, <2>2, <2>3, DaemonKeeps DEF Posts, Unlocks, One
<1>5. CASE DaemonStops(d)
  <2> DEFINE q == [NoDaemon EXCEPT !.pc = "posting"]
  <2>1. /\ r.pc = "ending" /\ state' = "STOPPED" /\ Now(d, q)
        /\ UNCHANGED <<mutex, sync, pid, kod_list, calls, called>>
    BY <1>5 DEF DaemonStops
  <2>2. DaemonOk(q) /\ q.pc = "posting"
    <3>1. "posting" \in DaemonPlaces \ {"recv", "woken"} /\ 0 \in Nat
      BY DEF DaemonPlaces
    <3>2. q.pc = "posting"
      BY DEF NoDaemon
    <3> QED BY <3>1, <3>2, EmptyOk
  <2> HIDE DEF q
  <2> QED BY <1>1, <2>1, <2>2, DaemonKeeps DEF Posts, Unlocks, One, States
<1>6. CASE DaemonLeaves(d)
  <2>1. /\ r.pc = "posting" /\ sync' = sync + 1 /\ Now(d, NoDaemon)
        /\ UNCHANGED <<state, mutex, pid, kod_list, calls, called>>
    BY <1>6 DEF DaemonLeaves
  <2>2. DaemonOk(NoDaemon) /\ NoDaemon.pc = "gone"
    <3>1. "announce" \in DaemonPlaces \ {"recv", "woken"} /\ 0 \in Nat
      BY DEF DaemonPlaces
    <3>2. NoDaemon.pc = "gone"
      BY DEF NoDaemon
    <3> QED BY <3>1, <3>2, EmptyOk
  <2> QED BY <1>1, <2>1, <2>2, DaemonKeeps DEF Posts, Unlocks, One
<1> QED BY <1>3, <1>4, <1>5, <1>6

-----------------------------------------------------------------------------
(* The invariant, and what follows from it. *)
LEMMA NtpInitHolds ==
  ASSUME NtpInit
  PROVE  NtpInv
<1>1. /\ state = "NOT_RUNNING" /\ mutex = 1 /\ sync = 0 /\ pid = "none"
      /\ kod_list = {} /\ called = 0
      /\ calls = [c \in NtpCallers |-> "idle"] /\ daemon = [d \in NtpDaemons |-> NoDaemon]
  BY DEF NtpInit
<1>2. DaemonOk(NoDaemon) /\ NoDaemon.pc = "gone" /\ NoDaemon \in DaemonRecord
  <2>1. "announce" \in DaemonPlaces \ {"recv", "woken"} /\ 0 \in Nat
    BY DEF DaemonPlaces
  <2>2. NoDaemon.pc = "gone"
    BY DEF NoDaemon
  <2>3. DaemonOk(NoDaemon)
    BY <2>1, EmptyOk
  <2> QED BY <2>2, <2>3 DEF DaemonOk
<1>3. NtpTypes
  BY <1>1, <1>2, NtpAssumption DEF NtpTypes, States, StopWords
<1>4. OneDaemon
  BY <1>1, <1>2 DEF OneDaemon
<1>5. Starting = {} /\ Holders = {} /\ Posting = {} /\ Standing = "gone"
  BY <1>1, <1>2 DEF Starting, Holders, Posting, Standing
<1>6. Cardinality(Starting) = 0 /\ Cardinality(Holders) = 0 /\ Cardinality(Posting) = 0
  BY <1>5, FS_EmptySet
<1>7. PostsCounted /\ LocksCounted
  BY <1>1, <1>5, <1>6 DEF PostsCounted, LocksCounted, Posts, Unlocks
<1>8. StopsHeld
  BY <1>1, <1>2 DEF StopsHeld
<1> QED BY <1>3, <1>4, <1>7, <1>8 DEF NtpInv

LEMMA NtpStep ==
  ASSUME NtpInv, [NtpNext]_ntpVars
  PROVE  NtpInv'
<1>1. ASSUME NEW c \in NtpCallers, Call(c) \/ CallSteps(c) PROVE NtpInv'
  <2>1. \/ Call(c) \/ ntpc_status(c) \/ StartFindsOne(c) \/ StopFindsNone(c)
        \/ ntpc_start(c) \/ StartWaits(c) \/ ntpc_stop(c) \/ StopWaits(c)
    BY <1>1, Zenon DEF CallSteps
  <2> QED
    BY <2>1, CallsKeep, NtpStartKeeps, StartWaitsKeeps, StopKeeps, StopWaitsKeeps
<1>2. ASSUME NEW d \in NtpDaemons, ntpc_daemon(d) PROVE NtpInv'
  BY <1>2, LoopSteps, DaemonEndsKeep DEF ntpc_daemon
<1>3. CASE UNCHANGED ntpVars
  <2>1. UNCHANGED <<state, mutex, sync, pid, kod_list, calls, daemon, called>>
    BY <1>3 DEF ntpVars
  <2>2. NtpTypes' /\ OneDaemon' /\ PostsCounted' /\ LocksCounted' /\ StopsHeld'
    BY <2>1 DEF NtpInv, NtpTypes, OneDaemon, PostsCounted, LocksCounted, StopsHeld, Standing,
                Posting, Starting, Holders, LockIntact
  <2> QED BY <2>2 DEF NtpInv
<1> QED BY <1>1, <1>2, <1>3 DEF NtpNext

LEMMA NtpTyped == ASSUME NtpInv PROVE NtpTypeOK
<1>1. /\ Cardinality(Starting) \in Nat /\ Cardinality(Holders) \in Nat /\ Cardinality(Posting) \in Nat
      /\ Posts(Standing) \in Nat /\ Unlocks(Standing) \in Nat
      /\ mutex \in Nat /\ sync \in Nat /\ called \in 0 .. NtpCalls /\ NtpCalls \in Nat
  BY NtpCountsTyped, NtpAssumption DEF NtpInv, NtpTypes
<1>2. mutex \in 0 .. 1 + NtpCalls
  BY <1>1 DEF NtpInv, LocksCounted
<1>3. sync \in 0 .. 2 * NtpCalls
  BY <1>1 DEF NtpInv, PostsCounted
<1>4. ASSUME NEW d \in NtpDaemons
      PROVE  /\ daemon[d].pc \in DaemonPlaces
             /\ daemon[d].pc \notin {"gone", "posting"} => d = pid
  <2>1. daemon[d] \in DaemonRecord
    BY DEF NtpInv, NtpTypes
  <2> QED BY <2>1 DEF NtpInv, OneDaemon, DaemonRecord
<1> QED BY <1>2, <1>3, <1>4 DEF NtpInv, NtpTypes, NtpTypeOK, States, StopWords

LEMMA NtpOffsets == ASSUME NtpInv PROVE OffsetIsMedian
<1>1. SUFFICES ASSUME NEW d \in NtpDaemons, daemon[d].offset # NoOffset,
                      SamplesFit(daemon[d].samples)
               PROVE  LET r == daemon[d]
                          smaller == {i \in DOMAIN r.samples : r.samples[i].offset < r.offset}
                          larger == {i \in DOMAIN r.samples : r.samples[i].offset > r.offset}
                      IN /\ 2 * Cardinality(smaller) <= Len(r.samples)
                         /\ 2 * Cardinality(larger) <= Len(r.samples)
  BY DEF OffsetIsMedian
<1>2. Middle(daemon[d].samples, daemon[d].offset)
  BY <1>1 DEF NtpInv, NtpTypes, DaemonOk
<1> QED BY <1>2 DEF Middle, Less, More

(* The only step that ends a stop is the one that saw it answered.           *)
LEMMA NtpStops == ASSUME NtpInv, [NtpNext]_ntpVars PROVE StopMeansStopped
<1>1. SUFFICES ASSUME NEW c \in NtpCallers, LockIntact, calls[c] = "stop_sync", calls'[c] = "idle"
               PROVE  KillFails' \/ daemon'[pid].pc = "posting"
  BY DEF StopMeansStopped
<1>2. calls \in [NtpCallers -> StopWords] /\ pid \in NtpDaemons \cup {"none"}
  BY DEF NtpInv, NtpTypes
<1>3. StopWaits(c)
  <2>1. ~UNCHANGED calls
    BY <1>1
  <2>2. PICK b \in NtpCallers : Call(b) \/ CallSteps(b)
    BY <2>1 DEF NtpNext, ntpVars, ntpc_daemon, DaemonBegins, DaemonAnnounces, RoundBegins,
                ntp_get_next_hostip, SelectServer, ntpc_verify_recvd_ntp_datagram,
                ntp_is_kiss_of_death, ntpc_get_ntp_sample, DelayEnds, SamplesSaved, DaemonStops,
                DaemonLeaves
  <2>3. ASSUME NEW v, calls' = [calls EXCEPT ![b] = v], calls[b] # "stop_sync"
        PROVE  FALSE
    BY <1>1, <1>2, <2>3
  <2>4. ~Call(b) /\ ~ntpc_status(b) /\ ~StartFindsOne(b) /\ ~StopFindsNone(b)
    BY <2>3 DEF Call, ntpc_status, StartFindsOne, StopFindsNone, Returns
  <2>5. ~ntpc_start(b)
    BY <2>3 DEF ntpc_start, Returns
  <2>6. ~StartWaits(b)
    BY <2>1, <2>3 DEF StartWaits, Returns
  <2>7. ~ntpc_stop(b)
    BY <2>3 DEF ntpc_stop, Returns
  <2>8. StopWaits(b)
    BY <2>2, <2>4, <2>5, <2>6, <2>7 DEF CallSteps
  <2>9. b = c
    BY <1>1, <1>2, <2>1, <2>8 DEF StopWaits, Returns
  <2> QED BY <2>8, <2>9
<1>4. ~(state = "STOP_REQUESTED" /\ ~KillFails)
  BY <1>1, <1>3 DEF StopWaits
<1>5. UNCHANGED <<pid, daemon>>
  BY <1>3, <1>4 DEF StopWaits
<1>6. CASE KillFails
  BY <1>5, <1>6 DEF KillFails
<1>7. CASE ~KillFails
  <2>1. state # "STOP_REQUESTED" /\ pid \in NtpDaemons /\ daemon[pid].pc # "gone"
    BY <1>2, <1>4, <1>7 DEF KillFails
  <2>2. daemon[pid].pc \in {"gone", "posting"}
    BY <1>1, <2>1 DEF NtpInv, StopsHeld
  <2> QED BY <1>5, <2>1, <2>2
<1> QED BY <1>6, <1>7

(* The NTP client counts its posts and its lock, never more of them than the *)
(* calls made, and has one daemon at a time in its loop, the last one        *)
(* started.                                                                  *)
THEOREM ClientIsTyped == NtpSpec => []NtpTypeOK
<1>1. NtpInit => NtpInv
  BY NtpInitHolds
<1>2. NtpInv /\ [NtpNext]_ntpVars => NtpInv'
  BY NtpStep
<1>3. NtpInv => NtpTypeOK
  BY NtpTyped
<1> QED BY <1>1, <1>2, <1>3, PTL DEF NtpSpec

(* The clock is moved by a middle offset of the samples, however many there  *)
(* are, and not by a daemon whose stop was answered while the lock was       *)
(* intact.                                                                   *)
THEOREM ClockMovesSafely == NtpSpec => ClockIsSafe
<1>1. NtpInit => NtpInv
  BY NtpInitHolds
<1>2. NtpInv /\ [NtpNext]_ntpVars => NtpInv'
  BY NtpStep
<1>3. NtpInv => OffsetIsMedian
  BY NtpOffsets
<1>4. NtpInv /\ [NtpNext]_ntpVars => StopMeansStopped
  BY NtpStops
<1> QED BY <1>1, <1>2, <1>3, <1>4, PTL DEF NtpSpec, ClockIsSafe

-----------------------------------------------------------------------------
(* 8. The choice among the entries of the table.  The loop holds the strongest  *)
(* of that name so far.                                                      *)
Named(ssid, n) == {j \in 1 .. n : Bss[table[j].bss].ssid = ssid}
Strongest(ssid, n, k) ==
  /\ (k = -1 /\ Named(ssid, n) = {}) \/ k \in Named(ssid, n)
  /\ \A j \in Named(ssid, n) : table[j].rssi <= table[k].rssi

Better(ssid, k, best) == 
  Bss[table[k].bss].ssid = ssid /\ (best < 0 \/ table[k].rssi > table[best].rssi)

LEMMA FindIs ==
  ASSUME ScanTypes, NEW ssid
  PROVE  wext_find(ssid) \in Int /\ Strongest(ssid, Len(table), wext_find(ssid))
<1> DEFINE n == Len(table)
           A == -1 .. n
           step == [k \in 1 .. n |-> [a \in A |-> IF Better(ssid, k, a) THEN k ELSE a]]
<1>1. n \in Nat /\ DOMAIN table = 1 .. n /\ \A k \in 1 .. n : table[k].rssi \in Int
  <2>1. n \in Nat /\ DOMAIN table = 1 .. n
    BY LenProperties DEF ScanTypes
  <2>2. ASSUME NEW k \in 1 .. n PROVE table[k].rssi \in Int
    <3>1. table[k] \in ScanEntries
      BY <2>2, ElementOfSeq DEF ScanTypes
    <3> QED BY <3>1 DEF ScanEntries, Levels
  <2> QED BY <2>1, <2>2
<1> HIDE DEF n
<1>2. FirstTurns(A, n, step) /\ -1 \in A
  <2>1. step \in [1 .. n -> [A -> A]]
    BY <1>1
  <2> HIDE DEF step, A
  <2>2. -1 \in A
    BY <1>1 DEF A
  <2> QED BY <2>1, <2>2 DEF FirstTurns
<1>3. PICK f : TurnsOut(f, A, n, -1, step)
  <2> HIDE DEF A, step
  <2> QED BY <1>1, <1>2, Loop
<1>4. f \in [0 .. n -> A] /\ f[0] = -1
      /\ \A k \in 1 .. n : f[k] = IF Better(ssid, k, f[k - 1]) THEN k ELSE f[k - 1]
  <2>1. f \in [0 .. n -> A] /\ f[0] = -1 /\ \A k \in 1 .. n : f[k] = step[k][f[k - 1]]
    BY <1>3 DEF TurnsOut
  <2>2. ASSUME NEW k \in 1 .. n
        PROVE  f[k] = IF Better(ssid, k, f[k - 1]) THEN k ELSE f[k - 1]
    <3>1. k - 1 \in 0 .. n
      BY <1>1
    <3>2. f[k - 1] \in A
      BY <2>1, <3>1
    <3>3. f[k] = step[k][f[k - 1]]
      BY <2>1
    <3> HIDE DEF A
    <3> QED BY <3>2, <3>3
  <2> QED BY <2>1, <2>2
<1> HIDE DEF step
<1> DEFINE Is(g) ==
      g = [k \in 0 .. n |-> IF k = 0 THEN -1
                            ELSE IF /\ Bss[table[k].bss].ssid = ssid
                                    /\ g[k - 1] < 0 \/ table[k].rssi > table[g[k - 1]].rssi
                                 THEN k ELSE g[k - 1]]
<1>5. Is(f)
  <2> DEFINE h == [k \in 0 .. n |-> IF k = 0 THEN -1
                                    ELSE IF /\ Bss[table[k].bss].ssid = ssid
                                            /\ f[k - 1] < 0 \/ table[k].rssi > table[f[k - 1]].rssi
                                         THEN k ELSE f[k - 1]]
  <2>1. ASSUME NEW k \in 0 .. n PROVE f[k] = h[k]
    BY <1>1, <1>4 DEF Better
  <2> HIDE DEF A
  <2>2. f = h
    BY <1>4, <2>1
  <2> QED BY <2>2
<1>6. Is(CHOOSE g : Is(g))
  BY <1>5
<1>7. wext_find(ssid) = (CHOOSE g : Is(g))[n]
  BY DEF wext_find, n
<1> DEFINE w == CHOOSE g : Is(g)
<1>8. /\ w[0] = -1
      /\ \A k \in 1 .. n : w[k] = IF Better(ssid, k, w[k - 1]) THEN k ELSE w[k - 1]
  <2>1. w = [k \in 0 .. n |-> IF k = 0 THEN -1
                              ELSE IF /\ Bss[table[k].bss].ssid = ssid
                                      /\ w[k - 1] < 0 \/ table[k].rssi > table[w[k - 1]].rssi
                                   THEN k ELSE w[k - 1]]
    BY <1>6
  <2> HIDE DEF w
  <2>2. 0 \in 0 .. n /\ \A k \in 1 .. n : k \in 0 .. n /\ k # 0
    BY <1>1
  <2>3. w[0] = -1
    BY <2>1, <2>2
  <2>4. ASSUME NEW k \in 1 .. n
        PROVE  w[k] = IF Better(ssid, k, w[k - 1]) THEN k ELSE w[k - 1]
    <3>1. k \in 0 .. n /\ k # 0
      BY <2>2
    <3>2. w[k] = IF /\ Bss[table[k].bss].ssid = ssid
                    /\ w[k - 1] < 0 \/ table[k].rssi > table[w[k - 1]].rssi
                 THEN k ELSE w[k - 1]
      BY <2>1, <3>1, Zenon
    <3> QED BY <3>2 DEF Better
  <2> QED BY <2>3, <2>4
<1>9. wext_find(ssid) = w[n]
  BY <1>7
<1> HIDE DEF w, Is
<1> DEFINE S == {k \in 0 .. n : w[k] \in Int /\ Strongest(ssid, k, w[k])}
<1>10. 0 \in S
  BY <1>1, <1>8 DEF Strongest, Named
<1>11. ASSUME NEW k \in 0 .. n - 1, k \in S PROVE k + 1 \in S
  <2>1. /\ k + 1 \in 1 .. n /\ k \in Nat /\ w[k] \in Int /\ Strongest(ssid, k, w[k])
        /\ w[k + 1] = IF Better(ssid, k + 1, w[k]) THEN k + 1 ELSE w[k]
    <3>1. k + 1 \in 1 .. n /\ (k + 1) - 1 = k
      BY <1>1
    <3> QED BY <1>8, <1>11, <3>1
  <2>2. Named(ssid, k + 1) = Named(ssid, k) \cup
                             (IF Bss[table[k + 1].bss].ssid = ssid THEN {k + 1} ELSE {})
    BY <2>1 DEF Named
  <2>3. \A j \in Named(ssid, k) : j \in 1 .. k /\ table[j].rssi \in Int
    BY <1>1, <2>1 DEF Named
  <2>4. table[k + 1].rssi \in Int
    BY <1>1, <2>1
  <2>5. CASE Bss[table[k + 1].bss].ssid # ssid
    <3>1. w[k + 1] = w[k] /\ Named(ssid, k + 1) = Named(ssid, k)
      BY <2>1, <2>2, <2>5 DEF Better
    <3> QED BY <2>1, <3>1 DEF Strongest
  <2>6. CASE Bss[table[k + 1].bss].ssid = ssid /\ Better(ssid, k + 1, w[k])
    <3>1. w[k + 1] = k + 1 /\ Named(ssid, k + 1) = Named(ssid, k) \cup {k + 1}
      BY <2>1, <2>2, <2>6
    <3>2. \A j \in Named(ssid, k) : table[j].rssi <= table[k + 1].rssi
      <4>1. CASE w[k] < 0
        BY <2>1, <2>3, <4>1 DEF Strongest
      <4>2. CASE table[k + 1].rssi > table[w[k]].rssi
        BY <2>1, <2>3, <2>4, <4>2 DEF Strongest
      <4> QED BY <2>6, <4>1, <4>2 DEF Better
    <3>3. Strongest(ssid, k + 1, k + 1)
      BY <2>4, <3>1, <3>2 DEF Strongest
    <3> QED BY <2>1, <3>1, <3>3
  <2>7. CASE Bss[table[k + 1].bss].ssid = ssid /\ ~Better(ssid, k + 1, w[k])
    <3>1. w[k + 1] = w[k] /\ Named(ssid, k + 1) = Named(ssid, k) \cup {k + 1}
      BY <2>1, <2>2, <2>7
    <3>2. w[k] \in Named(ssid, k) /\ table[k + 1].rssi <= table[w[k]].rssi
      BY <2>1, <2>3, <2>4, <2>7 DEF Better, Strongest
    <3>3. Strongest(ssid, k + 1, w[k])
      BY <2>1, <3>1, <3>2 DEF Strongest
    <3> QED BY <2>1, <3>1, <3>3
  <2> QED BY <2>5, <2>6, <2>7
<1>12. 0 .. n \subseteq S
  <2> HIDE DEF S
  <2> QED BY <1>1, <1>10, <1>11, CountedOff
<1>13. n \in S
  BY <1>1, <1>12
<1> QED BY <1>9, <1>13 DEF n

(* What the elements of the networks in reach say. *)
LEMMA KeysAre ==
  ASSUME NEW b \in DOMAIN Bss
  PROVE  wpa_select_rsn(Bss[b].ies) = IF b = "home2" THEN 32 ELSE 0
<1>1. b \in {"home2", "home5", "cafe"}
  BY DEF Bss
<1>2. CASE b = "cafe"
  <2>1. Bss[b].ies = << >>
    BY <1>2 DEF Bss
  <2>2. {k \in DOMAIN Bss[b].ies : Bss[b].ies[k].rsn} = {}
    BY <2>1
  <2> QED BY <1>2, <2>2, Zenon DEF wpa_select_rsn
<1>3. ASSUME NEW ies, NEW first \in DOMAIN ies,
             DOMAIN ies \subseteq Nat, ies[first].rsn,
             \A k \in DOMAIN ies : k < first => ~ies[k].rsn
      PROVE  wpa_select_rsn(ies) =
               IF "ccmp" \notin ies[first].pairwise \/ "psk" \notin ies[first].akm THEN 0
               ELSE CASE ies[first].group = "ccmp" -> 16 [] ies[first].group = "tkip" -> 32
                      [] OTHER -> 0
  <2> DEFINE rsn == {k \in DOMAIN ies : ies[k].rsn}
             k == CHOOSE k \in rsn : \A j \in rsn : k <= j
  <2>1. first \in rsn /\ \A j \in rsn : first <= j
    BY <1>3
  <2>2. k \in rsn /\ \A j \in rsn : k <= j
    BY <2>1
  <2>3. k = first /\ rsn # {}
    BY <1>3, <2>1, <2>2
  <2>4. wpa_select_rsn(ies) =
          IF rsn = {} \/ "ccmp" \notin ies[k].pairwise \/ "psk" \notin ies[k].akm THEN 0
          ELSE CASE ies[k].group = "ccmp" -> 16 [] ies[k].group = "tkip" -> 32 [] OTHER -> 0
    BY DEF wpa_select_rsn
  <2> HIDE DEF rsn, k
  <2> QED BY <2>3, <2>4
<1>4. CASE b = "home5"
  <2>1. Bss[b].ies = <<Rsn({"ccmp"}, {"sae"}, "ccmp")>>
    BY <1>4 DEF Bss
  <2> DEFINE ies == <<Rsn({"ccmp"}, {"sae"}, "ccmp")>>
  <2>2. /\ 1 \in DOMAIN ies /\ DOMAIN ies \subseteq Nat /\ ies[1].rsn
        /\ \A k \in DOMAIN ies : ~(k < 1)
    BY DEF Rsn
  <2>3. "psk" \notin ies[1].akm
    BY DEF Rsn
  <2> HIDE DEF ies
  <2>4. wpa_select_rsn(ies) = 0
    BY <1>3, <2>2, <2>3
  <2> QED BY <1>4, <2>1, <2>4 DEF ies
<1>5. CASE b = "home2"
  <2>1. Bss[b].ies = <<Wpa, Rsn({"ccmp", "tkip"}, {"psk", "sae"}, "tkip")>>
    BY <1>5 DEF Bss
  <2> DEFINE ies == <<Wpa, Rsn({"ccmp", "tkip"}, {"psk", "sae"}, "tkip")>>
  <2>2. DOMAIN ies = {1, 2} /\ ies[1] = Wpa /\ ies[2] = Rsn({"ccmp", "tkip"}, {"psk", "sae"}, "tkip")
    OBVIOUS
  <2>3. Wpa.rsn = FALSE
    BY DEF Wpa, Rsn
  <2>4. /\ ies[2].rsn /\ "ccmp" \in ies[2].pairwise /\ "psk" \in ies[2].akm
        /\ ies[2].group = "tkip"
    BY <2>2 DEF Rsn
  <2> HIDE DEF ies
  <2>5. wpa_select_rsn(ies) = 32
    <3>1. /\ 2 \in DOMAIN ies /\ DOMAIN ies \subseteq Nat
          /\ \A k \in DOMAIN ies : k < 2 => ~ies[k].rsn
      BY <2>2, <2>3
    <3>2. wpa_select_rsn(ies) =
               IF "ccmp" \notin ies[2].pairwise \/ "psk" \notin ies[2].akm THEN 0
               ELSE CASE ies[2].group = "ccmp" -> 16 [] ies[2].group = "tkip" -> 32
                      [] OTHER -> 0
      BY <1>3, <2>4, <3>1
    <3> QED BY <2>4, <3>2
  <2> QED BY <1>5, <2>1, <2>5 DEF ies
<1> QED BY <1>1, <1>2, <1>4, <1>5

LEMMA ChoiceIsSound ==
  ASSUME ScanTypes, [ScanNext]_scanVars
  PROVE  SoundChoice
<1>1. SUFFICES ASSUME chosen' # chosen, chosen'.k > 0
               PROVE  LET b == table[chosen'.k].bss
                      IN /\ \A k \in DOMAIN table :
                              Bss[table[k].bss].ssid = Bss[b].ssid =>
                                table[k].rssi <= table[chosen'.k].rssi
                         /\ chosen'.key = IF b = "home2" THEN 32 ELSE 0
  BY DEF SoundChoice
<1>2. Find
  BY <1>1 DEF ScanNext, scanVars, ScanBegins, Indication, scan_once
<1>3. PICK ssid \in {"home", "cafe"} :
        chosen' = [k |-> wext_find(ssid),
                   key |-> IF wext_find(ssid) < 0 THEN 0
                           ELSE wpa_select_rsn(Bss[table[wext_find(ssid)].bss].ies)]
  BY <1>2 DEF Find
<1> DEFINE k == wext_find(ssid)
<1>4. k \in Int /\ Strongest(ssid, Len(table), k)
  BY FindIs
<1> HIDE DEF k
<1>5. chosen'.k = k /\ k > 0 /\ chosen'.key = wpa_select_rsn(Bss[table[k].bss].ies)
  BY <1>1, <1>3, <1>4 DEF k
<1>6. k \in Named(ssid, Len(table)) /\ \A j \in Named(ssid, Len(table)) : table[j].rssi <= table[k].rssi
  BY <1>4, <1>5 DEF Strongest
<1>7. DOMAIN table = 1 .. Len(table) /\ k \in DOMAIN table /\ Bss[table[k].bss].ssid = ssid
  BY <1>6, LenProperties DEF Named, ScanTypes
<1>8. table[k].bss \in DOMAIN Bss
  <2>1. table[k] \in ScanEntries
    BY <1>7, ElementOfSeq DEF ScanTypes
  <2> QED BY <2>1 DEF ScanEntries
<1> QED
  BY <1>5, <1>6, <1>7, <1>8, KeysAre DEF Named

(* Whatever is heard, in whichever order, and however often a dwell is       *)
(* repeated: the table has each network once, at the level it was last heard,*)
(* misses one only when it is full, and a connection by name gets the        *)
(* strongest entry of that name and the key length its elements allow        *)
(* (scan_result, a733_wifi_wext_find and wpa_select_rsn).                    *)
THEOREM ScansAreSound == ScanSpec => ScanIsSound
<1>1. ScanSpec => [](ScanTypes /\ Union(table, last))
  BY ScanStarts, ScanStep, PTL DEF ScanSpec
<1>2. ScanTypes /\ Union(table, last) /\ [ScanNext]_scanVars => SoundChoice
  BY ChoiceIsSound
<1> QED BY <1>1, <1>2, UnionIs, PTL DEF ScanSpec, ScanIsSound
=============================================================================
