--------------------------- MODULE Devices_proofs ---------------------------
(***************************************************************************)
(* Proofs about drivers that share nothing with one another: the waits of  *)
(* the SD controller, the captures of the camera, two sequential loops, the*)
(* directory of long names and the card; and about all the parts of        *)
(* MC_Devices side by side.                                                *)
(***************************************************************************)
EXTENDS MC_Devices, Network_proofs, NpuPool_proofs, SequenceTheorems, FiniteSetTheorems, TLAPS

-----------------------------------------------------------------------------
(* SD transfers, for any number of requests, words of a transfer and entries *)
(* of the FIFO.  The inductive invariant relates the masks, the wait that is *)
(* open, the bus master and the words that are still to move: one post at    *)
(* most is left for each wait, interrupts are enabled for the transfer that  *)
(* was set up only, and a transfer that ended well has moved every word.     *)
SdErrors == {"ERROR", "TIMEOUT"}
Steps == {"idle", "enabled", "filled", "setup", "waiting", "refused", "masked"}
Wakes == {{}, {"TRANSFERDONE"}, {"TRANSFERDONE", "TIMEOUT"}, {"TRANSFERDONE", "ERROR"}}
Words == 1 .. Requests

CallerFields == {"pc", "n", "write", "dma", "moved", "said"}
PrivFields == {"waitevents", "wkupevent", "xfrmask", "dmamask", "dmamode", "dmafastready",
               "remaining", "wrdir"}
SdFields == {"fifo", "rintsts", "idsts", "engine", "left", "doubt"}

(* The types of the fields.                                                  *)
CallerTypes ==
  /\ Has(caller, CallerFields)
  /\ caller.pc \in Steps /\ caller.n \in 0 .. Requests
  /\ caller.write \in BOOLEAN /\ caller.dma \in BOOLEAN
  /\ caller.moved \in Seq(Words) /\ caller.said \in {"none", "ok", "failed"}
  /\ caller.pc # "idle" => caller.n > 0

PrivTypes ==
  /\ Has(priv, PrivFields)
  /\ priv.waitevents \in {{}, SdioEvents} /\ priv.wkupevent \in Wakes
  /\ priv.xfrmask \in {{}, RecvMask, SendMask, DmaMask}
  /\ priv.dmamask \in BOOLEAN /\ priv.dmamode \in BOOLEAN /\ priv.dmafastready \in BOOLEAN
  /\ priv.wrdir \in BOOLEAN /\ priv.remaining \in 0 .. XferWords

SdTypes ==
  /\ Has(sd, SdFields)
  /\ sd.fifo \in Seq(Words) /\ Len(sd.fifo) <= FifoDepth
  /\ sd.rintsts \in SUBSET DataInts /\ sd.idsts \in BOOLEAN
  /\ sd.engine \in {"off", "on", "stuck"} /\ sd.left \in 0 .. XferWords
  /\ sd.doubt \in SUBSET Doubts
  /\ caller.n = 0 => sd.left = 0 /\ sd.engine # "on"

(* One post at most for each wait, and the event of a wait ends it.          *)
Waits ==
  /\ waitsem \in Nat /\ waitwdog \in BOOLEAN
  /\ waitsem + (IF priv.waitevents = {} THEN 0 ELSE 1) <= caller.n
  /\ priv.waitevents # {} => priv.wkupevent = {}

Mask == IF caller.dma THEN DmaMask ELSE IF caller.write THEN SendMask ELSE RecvMask

(* Interrupts are enabled for the transfer that was set up.                  *)
Masked ==
  priv.xfrmask # {} =>
    /\ caller.pc \in {"setup", "waiting", "refused"} /\ priv.xfrmask = Mask
    /\ priv.dmamode => caller.dma /\ (sd.doubt = {} => sd.engine = "on")
    /\ caller.pc = "refused" =>
         sd.left = 0 /\ sd.rintsts = {} /\ (sd.engine = "on" => sd.fifo = <<>>)

(* A bus master called ready has nothing left to do, until the next setup,   *)
(* unless its transfer was in doubt.                                         *)
Ready ==
  priv.dmafastready =>
    /\ sd.engine # "on" /\ sd.left = 0 /\ priv.xfrmask = {}
    /\ sd.doubt = {} => sd.engine = "off" /\ sd.fifo = <<>>
    /\ caller.pc \notin {"filled", "setup"}

(* The transfer that was set up is under way: its wait is open, or that was  *)
(* over before the setup and the bus master works for nobody.                *)
StillOpen == priv.waitevents # {} \/ priv.dmamode

(* Between the setup and the command nothing moves.                          *)
Prepared ==
  caller.pc \in {"filled", "setup"} =>
    /\ sd.left = 0 /\ sd.rintsts = {} /\ caller.moved = <<>>
    /\ sd.fifo = (IF caller.write /\ ~caller.dma THEN Primed(caller.n) ELSE <<>>)
    /\ sd.engine = "on" => caller.dma /\ caller.pc = "setup"
    /\ caller.pc = "filled" /\ caller.dma /\ sd.doubt = {} => sd.engine = "off"
    /\ priv.wrdir = caller.write
    /\ StillOpen =>
         /\ priv.dmamode = caller.dma
         /\ priv.remaining = XferWords - Len(sd.fifo)
         /\ caller.pc = "setup" => priv.xfrmask = Mask

(* While the transfer is under way every word is of this request, and none   *)
(* is counted twice.                                                         *)
Ours ==
  /\ caller.moved \in Seq({caller.n}) /\ sd.fifo \in Seq({caller.n})
  /\ Len(caller.moved) + (IF caller.write THEN 0 ELSE Len(sd.fifo)) + sd.left <= XferWords
  /\ "DTO" \in sd.rintsts => sd.left = 0

(* Without a doubt and as long as no error is pending, every word is where   *)
(* the counts say.                                                           *)
Sure == sd.doubt = {} /\ sd.rintsts \cap {"ERROR", "DRTO"} = {}

Counted ==
  /\ caller.moved \in Seq({caller.n}) /\ sd.fifo \in Seq({caller.n})
  /\ IF caller.write
     THEN /\ Len(caller.moved) + sd.left = XferWords
          /\ IF caller.dma THEN Len(sd.fifo) <= sd.left
             ELSE priv.remaining + Len(sd.fifo) = sd.left
     ELSE /\ Len(caller.moved) + Len(sd.fifo) + sd.left = XferWords
          /\ ~caller.dma => priv.remaining = Len(sd.fifo) + sd.left
  /\ "DTO" \in sd.rintsts => sd.left = 0 /\ (caller.dma => sd.fifo = <<>>)

Moving ==
  caller.pc = "waiting" /\ StillOpen =>
    /\ priv.dmamode = caller.dma /\ priv.wrdir = caller.write /\ priv.xfrmask = Mask
    /\ ~caller.dma => sd.engine # "on"
    /\ Ours /\ (Sure => Counted)

(* A wait that ended well: nothing moves any more, and all the words arrived *)
(* unless there was a doubt.                                                 *)
EndedWell ==
  priv.wkupevent = {"TRANSFERDONE"} =>
    /\ caller.pc \in {"waiting", "idle"} /\ priv.waitevents = {}
    /\ sd.left = 0 /\ sd.engine # "on"
    /\ priv.xfrmask = {} /\ ~priv.dmamode
    /\ caller.moved \in Seq({caller.n}) /\ Len(caller.moved) <= XferWords
    /\ sd.doubt = {} => sd.fifo = <<>> /\ Len(caller.moved) = XferWords

Said == caller.said = "ok" => caller.pc = "idle" /\ priv.wkupevent = {"TRANSFERDONE"}

SdInv == /\ CallerTypes /\ PrivTypes /\ SdTypes /\ Waits
         /\ Masked /\ Ready /\ Prepared /\ Moving /\ EndedWell /\ Said

(* Sequences of one value: put together they are of that value, and the      *)
(* length says the rest.                                                     *)
LEMMA SameAppended ==
  ASSUME NEW word, NEW s \in Seq({word}), NEW t \in Seq({word})
  PROVE  /\ s \o t \in Seq({word}) /\ Len(s \o t) = Len(s) + Len(t)
         /\ Len(s) \in Nat /\ Len(t) \in Nat
  <1>1. s \o t \in Seq({word}) /\ Len(s \o t) = Len(s) + Len(t)
    BY ConcatProperties
  <1> QED BY <1>1, LenProperties

LEMMA SameThroughout ==
  ASSUME NEW word, NEW k \in Nat, NEW s \in Seq({word}), Len(s) = k
  PROVE  s = [i \in 1 .. k |-> word]
  <1>1. s \in [1 .. k -> {word}]
    BY LenProperties
  <1> QED BY <1>1

LEMMA SdStarts == SdmmcInit => SdInv
  <1> SUFFICES ASSUME SdmmcInit PROVE SdInv
    OBVIOUS
  <1> USE SdmmcConstants DEF SdmmcInit
  <1>1. CallerTypes
    BY DEF CallerTypes, Steps, Has, CallerFields
  <1>2. PrivTypes
    BY DEF PrivTypes, Wakes, Has, PrivFields
  <1>3. SdTypes
    BY DEF SdTypes, Has, SdFields
  <1>4. Waits
    <2>1. priv.waitevents = {} /\ waitsem + 0 <= caller.n
      OBVIOUS
    <2> QED BY <2>1 DEF Waits
  <1>5. Masked /\ Ready /\ Prepared /\ Moving /\ EndedWell /\ Said
    BY DEF Masked, Ready, Prepared, Moving, EndedWell, Said
  <1> QED BY <1>1, <1>2, <1>3, <1>4, <1>5 DEF SdInv

(* What endtransfer does to a transfer with the fields of p and s.           *)
LEMMA EndTransferIs ==
  ASSUME NEW p, NEW s, NEW W \in {{"TRANSFERDONE"}, {"TRANSFERDONE", "TIMEOUT"},
                                  {"TRANSFERDONE", "ERROR"}},
         Has(p, PrivFields), Has(s, SdFields),
         p.waitevents \in {{}, SdioEvents}, p.dmafastready \in BOOLEAN,
         endtransfer(p, s, W)
  PROVE  /\ Has(priv', PrivFields)
         /\ priv'.waitevents = {}
         /\ priv'.wkupevent = IF p.waitevents = {} THEN p.wkupevent ELSE W
         /\ priv'.xfrmask = {} /\ priv'.dmamode = FALSE
         /\ priv'.dmamask = IF p.dmamode THEN FALSE ELSE p.dmamask
         /\ priv'.dmafastready \in BOOLEAN
         /\ priv'.dmafastready <=> IF p.dmamode THEN W = {"TRANSFERDONE"} ELSE p.dmafastready
         /\ priv'.remaining = 0 /\ priv'.wrdir = p.wrdir
         /\ Has(sd', SdFields)
         /\ sd'.fifo = s.fifo /\ sd'.rintsts = {} /\ sd'.left = s.left /\ sd'.doubt = s.doubt
         /\ sd'.idsts = IF p.dmamode THEN FALSE ELSE s.idsts
         /\ sd'.engine = IF p.dmamode THEN HaltedEngine(s) ELSE s.engine
         /\ waitsem' = IF p.waitevents = {} THEN waitsem ELSE waitsem + 1
         /\ waitwdog' = IF p.waitevents = {} THEN waitwdog ELSE FALSE
  <1> DEFINE q == TransferEnded(p, W)
  <1>1. p.waitevents \cap W # {} <=> p.waitevents # {}
    BY DEF SdioEvents
  <1>2. (W \cap {"ERROR", "TIMEOUT"} = {}) <=> W = {"TRANSFERDONE"}
    OBVIOUS
  <1>3. /\ Has(q, PrivFields)
        /\ q.waitevents = p.waitevents /\ q.wkupevent = p.wkupevent
        /\ q.xfrmask = {} /\ q.dmamode = FALSE
        /\ q.dmamask = IF p.dmamode THEN FALSE ELSE p.dmamask
        /\ q.remaining = 0 /\ q.wrdir = p.wrdir
        /\ q.dmafastready = IF p.dmamode THEN W \cap {"ERROR", "TIMEOUT"} = {}
                            ELSE p.dmafastready
    BY DEF TransferEnded, Has, PrivFields
  <1>4. /\ q.dmafastready \in BOOLEAN
        /\ q.dmafastready <=> IF p.dmamode THEN W = {"TRANSFERDONE"} ELSE p.dmafastready
    <2>1. CASE p.dmamode
      BY <1>2, <1>3, <2>1
    <2>2. CASE ~p.dmamode
      BY <1>3, <2>2
    <2> QED BY <2>1, <2>2
  <1>5. /\ Has(sd', SdFields)
        /\ sd'.fifo = s.fifo /\ sd'.rintsts = {} /\ sd'.left = s.left /\ sd'.doubt = s.doubt
        /\ sd'.idsts = IF p.dmamode THEN FALSE ELSE s.idsts
        /\ sd'.engine = IF p.dmamode THEN HaltedEngine(s) ELSE s.engine
    BY DEF endtransfer, dma_stop, Has, SdFields
  <1>6. IF p.waitevents # {} THEN endwait(q, W)
        ELSE priv' = q /\ UNCHANGED <<waitsem, waitwdog>>
    BY <1>1 DEF endtransfer
  <1> HIDE DEF q
  <1>7. CASE p.waitevents = {}
    BY <1>3, <1>4, <1>5, <1>6, <1>7
  <1>8. CASE p.waitevents # {}
    <2>1. endwait(q, W)
      BY <1>6, <1>8
    <2>2. /\ Has(priv', PrivFields)
          /\ priv'.waitevents = {} /\ priv'.wkupevent = W
          /\ \A x \in PrivFields \ {"waitevents", "wkupevent"} : priv'[x] = q[x]
      BY <2>1, <1>3 DEF endwait, Has, PrivFields
    <2>3. waitwdog' = FALSE /\ waitsem' = waitsem + 1
      BY <2>1 DEF endwait
    <2> QED BY <1>3, <1>4, <1>5, <1>8, <2>2, <2>3 DEF PrivFields
  <1> QED BY <1>7, <1>8

LEMMA Halted ==
  ASSUME NEW s, s.engine \in {"off", "on", "stuck"}
  PROVE  /\ HaltedEngine(s) \in {"off", "stuck"}
         /\ s.engine = "off" => HaltedEngine(s) = "off"
         /\ s.engine = "on" /\ s.left = 0 /\ s.fifo = <<>> /\ ~s.idsts => HaltedEngine(s) = "off"
  <1>1. ASSUME s.left = 0 PROVE ~(s.left > 0)
    BY <1>1
  <1> QED BY <1>1 DEF HaltedEngine

(* A transfer ends: by the watchdog, by an error, or well, when the last word*)
(* is where it belongs and the bus master has nothing left to do.            *)
LEMMA EndTransferKeeps ==
  ASSUME SdInv, NEW p, NEW s,
         NEW W \in {{"TRANSFERDONE"}, {"TRANSFERDONE", "TIMEOUT"}, {"TRANSFERDONE", "ERROR"}},
         Has(p, PrivFields), Has(s, SdFields),
         \A x \in PrivFields \ {"remaining"} : p[x] = priv[x],
         \A x \in SdFields \ {"fifo", "rintsts"} : s[x] = sd[x],
         Has(caller', CallerFields),
         \A x \in CallerFields \ {"moved"} : caller'[x] = caller[x],
         caller'.moved \in Seq(Words), s.fifo \in Seq(Words), Len(s.fifo) <= FifoDepth,
         \/ s.fifo = sd.fifo /\ caller'.moved = caller.moved
         \/ priv.xfrmask # {} /\ caller.pc = "waiting",
         W = {"TRANSFERDONE"} =>
            /\ caller.pc = "waiting"
            /\ priv.dmamode =>
                 sd.left = 0 /\ (sd.doubt = {} => s.fifo = <<>> /\ ~sd.idsts /\ sd.engine = "on")
            /\ priv.waitevents # {} =>
                 /\ sd.left = 0 /\ (~priv.dmamode => sd.engine # "on")
                 /\ caller'.moved \in Seq({caller.n}) /\ Len(caller'.moved) <= XferWords
                 /\ sd.doubt = {} => s.fifo = <<>> /\ Len(caller'.moved) = XferWords,
         endtransfer(p, s, W)
  PROVE  SdInv'
  <1>1. /\ p.waitevents = priv.waitevents /\ p.wkupevent = priv.wkupevent
        /\ p.dmamask = priv.dmamask /\ p.dmamode = priv.dmamode
        /\ p.dmafastready = priv.dmafastready /\ p.wrdir = priv.wrdir
        /\ s.engine = sd.engine /\ s.idsts = sd.idsts /\ s.left = sd.left /\ s.doubt = sd.doubt
    BY DEF PrivFields, SdFields
  <1>2. /\ p.waitevents \in {{}, SdioEvents} /\ p.dmafastready \in BOOLEAN
        /\ sd.engine \in {"off", "on", "stuck"}
    BY <1>1 DEF SdInv, PrivTypes, SdTypes
  <1>3. /\ Has(priv', PrivFields)
        /\ priv'.waitevents = {}
        /\ priv'.wkupevent = (IF priv.waitevents = {} THEN priv.wkupevent ELSE W)
        /\ priv'.xfrmask = {} /\ priv'.dmamode = FALSE
        /\ priv'.dmamask = (IF priv.dmamode THEN FALSE ELSE priv.dmamask)
        /\ priv'.dmafastready \in BOOLEAN
        /\ priv'.dmafastready <=> IF priv.dmamode THEN W = {"TRANSFERDONE"}
                                  ELSE priv.dmafastready
        /\ priv'.remaining = 0 /\ priv'.wrdir = priv.wrdir
        /\ Has(sd', SdFields)
        /\ sd'.fifo = s.fifo /\ sd'.rintsts = {} /\ sd'.left = sd.left /\ sd'.doubt = sd.doubt
        /\ sd'.idsts = (IF priv.dmamode THEN FALSE ELSE sd.idsts)
        /\ sd'.engine = (IF priv.dmamode THEN HaltedEngine(s) ELSE sd.engine)
        /\ waitsem' = (IF priv.waitevents = {} THEN waitsem ELSE waitsem + 1)
        /\ waitwdog' = (IF priv.waitevents = {} THEN waitwdog ELSE FALSE)
    <2>1. /\ Has(priv', PrivFields)
          /\ priv'.waitevents = {}
          /\ priv'.wkupevent = IF p.waitevents = {} THEN p.wkupevent ELSE W
          /\ priv'.xfrmask = {} /\ priv'.dmamode = FALSE
          /\ priv'.dmamask = IF p.dmamode THEN FALSE ELSE p.dmamask
          /\ priv'.dmafastready \in BOOLEAN
          /\ priv'.dmafastready <=> IF p.dmamode THEN W = {"TRANSFERDONE"} ELSE p.dmafastready
          /\ priv'.remaining = 0 /\ priv'.wrdir = p.wrdir
          /\ Has(sd', SdFields)
          /\ sd'.fifo = s.fifo /\ sd'.rintsts = {} /\ sd'.left = s.left /\ sd'.doubt = s.doubt
          /\ sd'.idsts = IF p.dmamode THEN FALSE ELSE s.idsts
          /\ sd'.engine = IF p.dmamode THEN HaltedEngine(s) ELSE s.engine
          /\ waitsem' = IF p.waitevents = {} THEN waitsem ELSE waitsem + 1
          /\ waitwdog' = IF p.waitevents = {} THEN waitwdog ELSE FALSE
      BY <1>2, EndTransferIs
    <2> QED BY <1>1, <2>1
  <1>4. /\ caller'.pc = caller.pc /\ caller'.n = caller.n /\ caller'.write = caller.write
        /\ caller'.dma = caller.dma /\ caller'.said = caller.said
    BY DEF CallerFields
  <1>5. /\ sd'.engine \in {"off", "on", "stuck"}
        /\ sd'.engine = "on" => sd.engine = "on" /\ ~priv.dmamode
        /\ sd.engine = "off" => sd'.engine = "off"
        /\ priv.dmamode /\ W = {"TRANSFERDONE"} /\ sd.doubt = {} => sd'.engine = "off"
    BY <1>1, <1>2, <1>3, Halted
  <1> HIDE DEF HaltedEngine
  <1>6. CallerTypes'
    BY <1>4 DEF SdInv, CallerTypes
  <1>7. PrivTypes'
    <2>1. priv'.wkupevent \in Wakes
      BY <1>3 DEF SdInv, PrivTypes, Wakes
    <2>2. 0 \in 0 .. XferWords
      BY SdmmcConstants
    <2> QED BY <1>3, <2>1, <2>2 DEF SdInv, PrivTypes
  <1>8. SdTypes'
    <2>1. sd'.idsts \in BOOLEAN
      BY <1>3 DEF SdInv, SdTypes
    <2> QED BY <1>3, <1>4, <1>5, <2>1 DEF SdInv, SdTypes
  <1>9. Waits'
    <2>1. waitsem \in Nat /\ waitwdog \in BOOLEAN
          /\ waitsem + (IF priv.waitevents = {} THEN 0 ELSE 1) <= caller.n
      BY DEF SdInv, Waits
    <2>2. CASE priv.waitevents = {}
      BY <1>3, <1>4, <2>1, <2>2 DEF Waits
    <2>3. CASE priv.waitevents # {}
      <3>1. waitsem + 1 <= caller.n
        BY <2>1, <2>3
      <3>2. waitsem' + 0 <= caller'.n /\ waitsem' \in Nat
        BY <1>3, <1>4, <2>1, <2>3, <3>1
      <3> QED BY <1>3, <2>3, <3>2 DEF Waits
    <2> QED BY <2>2, <2>3
  <1>10. Masked'
    BY <1>3 DEF Masked
  <1>11. Ready'
    <2> SUFFICES ASSUME priv'.dmafastready PROVE Ready'
      BY DEF Ready
    <2>1. CASE priv.dmamode
      BY <1>3, <1>4, <1>5, <2>1 DEF Ready
    <2>2. CASE ~priv.dmamode
      BY <1>3, <1>4, <1>5, <2>2 DEF SdInv, Ready
    <2> QED BY <2>1, <2>2
  <1>12. Prepared'
    BY <1>3, <1>4, <1>5 DEF SdInv, Prepared, StillOpen
  <1>13. Moving'
    BY <1>3 DEF Moving, StillOpen
  <1>14. EndedWell'
    <2> SUFFICES ASSUME priv'.wkupevent = {"TRANSFERDONE"} PROVE EndedWell'
      BY DEF EndedWell
    <2>1. CASE priv.waitevents = {}
      <3>1. priv.wkupevent = {"TRANSFERDONE"}
        BY <1>3, <2>1
      <3> QED BY <1>3, <1>4, <1>5, <3>1 DEF SdInv, EndedWell
    <2>2. CASE priv.waitevents # {}
      <3>1. W = {"TRANSFERDONE"}
        BY <1>3, <2>2
      <3> QED BY <1>3, <1>4, <1>5, <2>2, <3>1 DEF EndedWell
    <2> QED BY <2>1, <2>2
  <1>15. Said'
    <2>1. caller.said = "ok" => priv.wkupevent = {"TRANSFERDONE"} /\ priv.waitevents = {}
      BY DEF SdInv, Said, EndedWell
    <2> QED BY <1>3, <1>4, <2>1 DEF SdInv, Said
  <1> QED BY <1>6, <1>7, <1>8, <1>9, <1>10, <1>11, <1>12, <1>13, <1>14, <1>15 DEF SdInv

(* The watchdog, which may expire before the setup is done.                  *)
LEMMA TimeoutKeeps == ASSUME SdInv, eventtimeout PROVE SdInv'
  <1>1. caller' = caller /\ Has(caller, CallerFields) /\ Has(priv, PrivFields) /\ Has(sd, SdFields)
    BY DEF eventtimeout, SdInv, CallerTypes, PrivTypes, SdTypes
  <1>2. CASE "TIMEOUT" \in priv.waitevents
    <2>1. endtransfer(priv, sd, {"TRANSFERDONE", "TIMEOUT"})
      BY <1>2 DEF eventtimeout
    <2>2. {"TRANSFERDONE", "TIMEOUT"} # {"TRANSFERDONE"}
      OBVIOUS
    <2>3. /\ caller.moved \in Seq(Words) /\ sd.fifo \in Seq(Words) /\ Len(sd.fifo) <= FifoDepth
      BY DEF SdInv, CallerTypes, SdTypes
    <2> QED BY <1>1, <2>1, <2>2, <2>3, EndTransferKeeps
  <1>3. CASE "TIMEOUT" \notin priv.waitevents
    <2>1. waitwdog' = FALSE /\ UNCHANGED <<priv, waitsem, sd>>
      BY <1>3 DEF eventtimeout
    <2>2. Waits'
      BY <1>1, <2>1 DEF SdInv, Waits
    <2>3. CallerTypes' /\ PrivTypes' /\ SdTypes'
      BY <1>1, <2>1 DEF SdInv, CallerTypes, PrivTypes, SdTypes
    <2>4. Masked' /\ Ready' /\ Prepared'
      BY <1>1, <2>1 DEF SdInv, Masked, Mask, Ready, Prepared, StillOpen
    <2>5. Moving' /\ EndedWell' /\ Said'
      BY <1>1, <2>1 DEF SdInv, Moving, Mask, StillOpen, Ours, Sure, Counted, EndedWell, Said
    <2> QED
      BY <2>2, <2>3, <2>4, <2>5 DEF SdInv
  <1> QED BY <1>2, <1>3

(* The bus master's error ends its transfer.                                 *)
LEMMA IdmacErrorKeeps == ASSUME SdInv, IdmacError PROVE SdInv'
  <1>1. caller' = caller /\ Has(caller, CallerFields) /\ Has(priv, PrivFields) /\ Has(sd, SdFields)
    BY DEF IdmacError, SdInv, CallerTypes, PrivTypes, SdTypes
  <1>2. endtransfer(priv, sd, {"TRANSFERDONE", "ERROR"})
    BY DEF IdmacError
  <1>3. {"TRANSFERDONE", "ERROR"} # {"TRANSFERDONE"}
    OBVIOUS
  <1>4. /\ caller.moved \in Seq(Words) /\ sd.fifo \in Seq(Words) /\ Len(sd.fifo) <= FifoDepth
    BY DEF SdInv, CallerTypes, SdTypes
  <1> QED BY <1>1, <1>2, <1>3, <1>4, EndTransferKeeps

(* The words that fit in advance.                                            *)
LEMMA PrimedIs ==
  ASSUME NEW k \in Words
  PROVE  /\ Primed(k) \in Seq({k}) /\ Primed(k) \in Seq(Words)
         /\ Len(Primed(k)) \in 0 .. XferWords /\ Len(Primed(k)) <= FifoDepth
  <1> DEFINE m == IF XferWords < FifoDepth THEN XferWords ELSE FifoDepth
  <1>1. m \in Nat /\ m <= XferWords /\ m <= FifoDepth
    BY SdmmcConstants
  <1>2. Primed(k) = [i \in 1 .. m |-> k]
    BY DEF Primed
  <1> HIDE DEF m
  <1>3. Primed(k) \in [1 .. m -> {k}] /\ Primed(k) \in [1 .. m -> Words] /\ Len(Primed(k)) = m
    BY <1>1, <1>2
  <1> QED BY <1>1, <1>3, SeqDef, SdmmcConstants

(* The steps of the thread up to the command.                                *)
LEMMA WaitenableKeeps == ASSUME SdInv, waitenable PROVE SdInv'
  <1>1. /\ Has(caller', CallerFields) /\ caller'.pc = "enabled" /\ caller'.n = caller.n + 1
        /\ caller'.write \in BOOLEAN /\ caller'.dma \in BOOLEAN /\ caller'.moved = <<>>
        /\ caller'.said = "none" /\ caller.pc = "idle" /\ caller.n < Requests
    BY DEF waitenable, Has, CallerFields
  <1>2. /\ Has(priv', PrivFields) /\ priv'.waitevents = SdioEvents /\ priv'.wkupevent = {}
        /\ \A x \in PrivFields \ {"waitevents", "wkupevent"} : priv'[x] = priv[x]
    BY DEF waitenable, SdInv, PrivTypes, Has, PrivFields
  <1>3. sd' = sd /\ waitsem' = waitsem /\ waitwdog' = TRUE
    BY DEF waitenable
  <1>4. priv.xfrmask = {} /\ SdioEvents # {}
    BY <1>1 DEF SdInv, Masked, SdioEvents
  <1>5. CallerTypes'
    BY <1>1, SdmmcConstants DEF SdInv, CallerTypes, Steps
  <1>6. PrivTypes'
    BY <1>2 DEF SdInv, PrivTypes, PrivFields, Wakes
  <1>7. SdTypes'
    BY <1>1, <1>3 DEF SdInv, SdTypes, CallerTypes
  <1>8. Waits'
    <2>1. waitsem \in Nat /\ waitsem <= caller.n /\ caller.n \in Nat
      BY DEF SdInv, Waits, CallerTypes
    <2>2. waitsem + 1 <= caller.n + 1
      BY <2>1
    <2> QED BY <1>1, <1>2, <1>3, <1>4, <2>1, <2>2 DEF Waits
  <1>9. priv'.xfrmask = {} /\ priv'.dmafastready = priv.dmafastready
    BY <1>2, <1>4 DEF PrivFields
  <1>10. Masked' /\ Ready' /\ Prepared' /\ Moving' /\ EndedWell' /\ Said'
    BY <1>1, <1>2, <1>3, <1>9 DEF SdInv, Masked, Ready, Prepared, Moving, EndedWell, Said
  <1> QED BY <1>5, <1>6, <1>7, <1>8, <1>10 DEF SdInv

(* The steps that only move the thread on, and may mask every interrupt.     *)
LEMMA StepsKeep ==
  ASSUME SdInv, DmaRefused \/ SetupFails \/ CommandFails \/ CancelMasks
  PROVE  SdInv'
  <1>1. /\ Has(caller', CallerFields) /\ Has(priv', PrivFields)
        /\ caller'.n = caller.n /\ caller'.moved = caller.moved /\ caller'.write = caller.write
        /\ caller'.said = caller.said
        /\ \A x \in PrivFields \ {"xfrmask", "dmamask", "dmafastready"} : priv'[x] = priv[x]
        /\ sd' = sd /\ waitsem' = waitsem /\ waitwdog' = waitwdog
    BY DEF DmaRefused, SetupFails, CommandFails, CancelMasks, SdInv, CallerTypes, PrivTypes, Has,
       CallerFields, PrivFields
  <1>2. \/ /\ caller.pc = "enabled" /\ caller'.pc = "enabled" /\ caller'.dma = FALSE
           /\ priv'.xfrmask = priv.xfrmask /\ priv'.dmafastready = FALSE
           /\ priv'.dmamask = priv.dmamask
        \/ /\ caller.pc \in {"enabled", "setup"} /\ caller'.pc = "refused"
           /\ caller'.dma = caller.dma
           /\ priv'.xfrmask = priv.xfrmask /\ priv'.dmafastready = priv.dmafastready
           /\ priv'.dmamask = priv.dmamask
        \/ /\ caller.pc = "refused" /\ caller'.pc = "masked" /\ caller'.dma = caller.dma
           /\ priv'.xfrmask = {} /\ priv'.dmafastready = priv.dmafastready
           /\ priv'.dmamask = FALSE
    <2>1. CASE DmaRefused
      BY <2>1 DEF DmaRefused, SdInv, CallerTypes, PrivTypes, Has, CallerFields, PrivFields
    <2>2. CASE SetupFails
      BY <2>2 DEF SetupFails, SdInv, CallerTypes, Has, CallerFields
    <2>3. CASE CommandFails
      BY <2>3 DEF CommandFails, SdInv, CallerTypes, Has, CallerFields
    <2>4. CASE CancelMasks
      BY <2>4 DEF CancelMasks, SdInv, CallerTypes, PrivTypes, Has, CallerFields, PrivFields
    <2> QED BY <2>1, <2>2, <2>3, <2>4
  <1>3. /\ priv'.waitevents = priv.waitevents /\ priv'.wkupevent = priv.wkupevent
        /\ priv'.dmamode = priv.dmamode /\ priv'.remaining = priv.remaining
        /\ priv'.wrdir = priv.wrdir
    BY <1>1 DEF PrivFields
  <1>4. /\ caller.pc \notin {"idle", "waiting"} /\ caller'.pc \in Steps
        /\ caller'.pc \in {"enabled", "refused", "masked"}
    BY <1>2 DEF Steps
  <1>5. CallerTypes'
    BY <1>1, <1>2, <1>4 DEF SdInv, CallerTypes
  <1>6. PrivTypes'
    BY <1>1, <1>2, <1>3 DEF SdInv, PrivTypes
  <1>7. SdTypes' /\ Waits'
    BY <1>1, <1>3 DEF SdInv, SdTypes, Waits
  <1>8. Masked'
    BY <1>1, <1>2, <1>3 DEF SdInv, Masked, Mask, Prepared
  <1>9. Ready'
    BY <1>1, <1>2, <1>4 DEF SdInv, Ready
  <1>10. Prepared' /\ Moving' /\ EndedWell' /\ Said'
    BY <1>1, <1>3, <1>4 DEF SdInv, Prepared, Moving, EndedWell, Said
  <1> QED BY <1>5, <1>6, <1>7, <1>8, <1>9, <1>10 DEF SdInv

LEMMA CancelStopsKeeps == ASSUME SdInv, CancelStops PROVE SdInv'
  <1>1. /\ Has(caller', CallerFields) /\ caller.pc = "masked" /\ caller'.pc = "idle"
        /\ caller'.said = "failed"
        /\ \A x \in CallerFields \ {"pc", "said"} : caller'[x] = caller[x]
    BY DEF CancelStops, SdInv, CallerTypes, Has, CallerFields
  <1>2. /\ Has(priv', PrivFields) /\ priv'.dmamode = FALSE /\ priv'.dmafastready = FALSE
        /\ priv'.remaining = 0
        /\ \A x \in PrivFields \ {"dmamode", "dmafastready", "remaining"} : priv'[x] = priv[x]
    BY DEF CancelStops, SdInv, PrivTypes, Has, PrivFields
  <1>3. /\ Has(sd', SdFields) /\ sd'.rintsts = {} /\ sd'.fifo = sd.fifo /\ sd'.left = sd.left
        /\ sd'.doubt = sd.doubt
        /\ sd'.idsts \in {FALSE, sd.idsts} /\ sd'.engine \in {sd.engine, HaltedEngine(sd)}
    <2>1. CASE priv.dmamode
      BY <2>1 DEF CancelStops, dma_stop, SdInv, SdTypes, Has, SdFields
    <2>2. CASE ~priv.dmamode
      BY <2>2 DEF CancelStops, SdInv, SdTypes, Has, SdFields
    <2> QED BY <2>1, <2>2
  <1>4. sd'.engine \in {"off", "stuck", sd.engine} /\ sd'.engine \in {"off", "on", "stuck"}
    BY <1>3, Halted DEF SdInv, SdTypes
  <1>5. waitwdog' = FALSE /\ waitsem' = waitsem
    BY DEF CancelStops
  <1>6. CallerTypes'
    BY <1>1 DEF SdInv, CallerTypes, CallerFields, Steps
  <1>7. PrivTypes'
    <2>1. 0 \in 0 .. XferWords BY SdmmcConstants
    <2> QED BY <1>2, <2>1 DEF SdInv, PrivTypes, PrivFields
  <1>8. SdTypes'
    <2>1. sd'.idsts \in BOOLEAN BY <1>3 DEF SdInv, SdTypes
    <2> QED BY <1>1, <1>3, <1>4, <2>1 DEF SdInv, SdTypes, CallerFields
  <1>9. Waits'
    BY <1>1, <1>2, <1>5 DEF SdInv, Waits, PrivFields, CallerFields
  <1>10. priv.xfrmask = {} /\ priv'.xfrmask = {} /\ priv'.wkupevent = priv.wkupevent
    BY <1>1, <1>2 DEF SdInv, Masked, PrivFields
  <1>11. Masked' /\ Ready' /\ Prepared' /\ Moving' /\ EndedWell' /\ Said'
    BY <1>1, <1>2, <1>10 DEF SdInv, Masked, Ready, Prepared, Moving, EndedWell, Said
  <1> QED BY <1>6, <1>7, <1>8, <1>9, <1>11 DEF SdInv

LEMMA FillKeeps == ASSUME SdInv, FillTransfer PROVE SdInv'
  <1>1. /\ Has(caller', CallerFields) /\ caller.pc = "enabled" /\ caller'.pc = "filled"
        /\ caller'.moved = <<>>
        /\ caller'.n = caller.n /\ caller'.write = caller.write /\ caller'.dma = caller.dma
        /\ caller'.said = caller.said
        /\ waitsem' = waitsem /\ waitwdog' = waitwdog
    BY DEF FillTransfer, SdInv, CallerTypes, Has, CallerFields
  <1>2. /\ caller.n \in Words /\ caller.write \in BOOLEAN /\ caller.dma \in BOOLEAN
        /\ caller.said # "ok"
    BY <1>1, SdmmcConstants DEF SdInv, CallerTypes, Words, Said
  <1> DEFINE fifo == IF caller.write /\ ~caller.dma THEN Primed(caller.n) ELSE <<>>
  <1>3. /\ fifo \in Seq(Words) /\ Len(fifo) <= FifoDepth
        /\ XferWords - Len(fifo) \in 0 .. XferWords
    <2>1. CASE caller.write /\ ~caller.dma
      <3>1. /\ fifo = Primed(caller.n)
            /\ Primed(caller.n) \in Seq(Words) /\ Len(Primed(caller.n)) <= FifoDepth
            /\ Len(Primed(caller.n)) \in 0 .. XferWords
        BY <1>2, <2>1, PrimedIs
      <3> HIDE DEF fifo
      <3> QED BY <3>1, SdmmcConstants
    <2>2. CASE ~(caller.write /\ ~caller.dma)
      BY <2>2, SdmmcConstants
    <2> QED BY <2>1, <2>2
  <1>4. /\ Has(priv', PrivFields) /\ priv'.wrdir = caller.write /\ priv'.dmamode = caller.dma
        /\ priv'.dmafastready = FALSE /\ priv'.remaining = XferWords - Len(fifo)
        /\ priv'.waitevents = priv.waitevents /\ priv'.wkupevent = priv.wkupevent
        /\ priv'.xfrmask = priv.xfrmask /\ priv'.dmamask = priv.dmamask
    <2>1. CASE PioFilled
      <3>1. CASE caller.write
        BY <1>2, <2>1, <3>1 DEF PioFilled, SdInv, PrivTypes, Has, PrivFields
      <3>2. CASE ~caller.write
        <4>1. XferWords - Len(fifo) = XferWords BY <3>2, SdmmcConstants
        <4> QED BY <1>2, <2>1, <3>2, <4>1 DEF PioFilled, SdInv, PrivTypes, Has, PrivFields
      <3> QED BY <3>1, <3>2
    <2>2. CASE DmaFilled
      <3>1. caller.dma BY <2>2 DEF DmaFilled
      <3>2. XferWords - Len(fifo) = XferWords BY <3>1, SdmmcConstants
      <3> QED BY <1>2, <2>2, <3>1, <3>2 DEF DmaFilled, SdInv, PrivTypes, Has, PrivFields
    <2> QED BY <2>1, <2>2 DEF FillTransfer
  <1>5. /\ Has(sd', SdFields) /\ sd'.fifo = fifo /\ sd'.left = 0 /\ sd'.rintsts = {}
        /\ sd'.idsts \in BOOLEAN /\ sd'.engine \in {"off", "stuck"}
        /\ sd'.doubt \in SUBSET Doubts /\ (caller.dma /\ sd'.doubt = {} => sd'.engine = "off")
    <2>1. CASE PioFilled
      <3>1. /\ ~caller.dma
            /\ sd' = [sd EXCEPT !.fifo = fifo, !.engine = HaltedEngine(sd), !.rintsts = {}, !.left = 0,
                                !.doubt = {}]
        <4>1. CASE caller.write
          BY <2>1, <4>1 DEF PioFilled
        <4>2. CASE ~caller.write
          BY <2>1, <4>2 DEF PioFilled
        <4> QED BY <4>1, <4>2
      <3>2. HaltedEngine(sd) \in {"off", "stuck"} /\ sd.idsts \in BOOLEAN
        BY Halted DEF SdInv, SdTypes
      <3> HIDE DEF fifo, HaltedEngine
      <3> QED BY <3>1, <3>2 DEF SdInv, SdTypes, Has, SdFields
    <2>2. CASE DmaFilled
      <3>1. /\ Has(sd', SdFields) /\ sd'.fifo = <<>> /\ sd'.left = 0 /\ sd'.rintsts = {}
            /\ sd'.idsts = FALSE /\ caller.dma
            /\ sd'.engine = (IF priv.dmafastready THEN sd.engine ELSE "off")
            /\ sd'.doubt = (IF priv.dmafastready /\ sd.engine # "off" THEN {"reused"} ELSE {})
        BY <2>2 DEF DmaFilled, SdInv, SdTypes, Has, SdFields
      <3>2. priv.dmafastready => sd.engine \in {"off", "stuck"}
        BY DEF SdInv, SdTypes, Ready
      <3>3. {"reused"} \in SUBSET Doubts /\ {} \in SUBSET Doubts /\ {"reused"} # {}
        BY DEF Doubts
      <3>4. CASE priv.dmafastready /\ sd.engine # "off"
        BY <3>1, <3>2, <3>3, <3>4
      <3>5. CASE ~(priv.dmafastready /\ sd.engine # "off")
        BY <3>1, <3>2, <3>3, <3>5
      <3> QED BY <3>4, <3>5
    <2> QED BY <2>1, <2>2 DEF FillTransfer
  <1>6. CallerTypes'
    BY <1>1, <1>2 DEF SdInv, CallerTypes, Steps
  <1>7. PrivTypes'
    BY <1>2, <1>3, <1>4 DEF SdInv, PrivTypes
  <1>8. SdTypes'
    <2>1. 0 \in 0 .. XferWords BY SdmmcConstants
    <2> HIDE DEF fifo
    <2> QED BY <1>3, <1>5, <2>1 DEF SdTypes
  <1>9. Waits'
    BY <1>1, <1>4 DEF SdInv, Waits
  <1>10. priv'.xfrmask = {}
    BY <1>1, <1>4 DEF SdInv, Masked
  <1>11. Prepared'
    <2>1. (IF caller.write /\ ~caller.dma THEN Primed(caller.n) ELSE <<>>) = fifo
      OBVIOUS
    <2> HIDE DEF fifo
    <2> QED BY <1>1, <1>4, <1>5, <2>1 DEF Prepared
  <1>12. Masked' /\ Ready' /\ Moving' /\ EndedWell' /\ Said'
    BY <1>1, <1>2, <1>4, <1>10 DEF SdInv, Masked, Ready, Moving, EndedWell, Said
  <1> QED BY <1>6, <1>7, <1>8, <1>9, <1>11, <1>12 DEF SdInv

LEMMA ArmKeeps == ASSUME SdInv, ArmTransfer PROVE SdInv'
  <1>1. /\ Has(caller', CallerFields) /\ caller.pc = "filled" /\ caller'.pc = "setup"
        /\ caller'.n = caller.n /\ caller'.write = caller.write /\ caller'.dma = caller.dma
        /\ caller'.moved = caller.moved /\ caller'.said = caller.said
        /\ waitsem' = waitsem /\ waitwdog' = waitwdog
    BY DEF ArmTransfer, SdInv, CallerTypes, Has, CallerFields
  <1>2. /\ Has(priv', PrivFields) /\ priv'.xfrmask = Mask /\ priv'.dmamask \in BOOLEAN
        /\ \A x \in PrivFields \ {"xfrmask", "dmamask"} : priv'[x] = priv[x]
    BY DEF ArmTransfer, SdInv, PrivTypes, Has, PrivFields, Mask
  <1>3. /\ priv'.waitevents = priv.waitevents /\ priv'.wkupevent = priv.wkupevent
        /\ priv'.dmamode = priv.dmamode /\ priv'.remaining = priv.remaining
        /\ priv'.wrdir = priv.wrdir /\ priv'.dmafastready = priv.dmafastready
    BY <1>2 DEF PrivFields
  <1>4. /\ Has(sd', SdFields) /\ sd'.engine \in {"on", sd.engine}
        /\ IF caller.dma THEN sd'.engine = "on" \/ sd.engine = "stuck" ELSE sd'.engine = sd.engine
        /\ sd'.fifo = sd.fifo /\ sd'.left = sd.left /\ sd'.rintsts = sd.rintsts
        /\ sd'.idsts = sd.idsts /\ sd'.doubt = sd.doubt
    BY Zenon DEF ArmTransfer, SdInv, SdTypes, Has, SdFields
  <1>5. /\ Mask \in {RecvMask, SendMask, DmaMask} /\ Mask' = Mask
        /\ caller.dma \in BOOLEAN /\ caller.n > 0 /\ caller.said # "ok"
    BY <1>1 DEF Mask, SdInv, CallerTypes, Said
  <1>6. CallerTypes'
    BY <1>1 DEF SdInv, CallerTypes, Steps
  <1>7. PrivTypes'
    BY <1>2, <1>3, <1>5 DEF SdInv, PrivTypes
  <1>8. SdTypes'
    <2>1. sd'.engine \in {"off", "on", "stuck"} BY <1>4 DEF SdInv, SdTypes
    <2>2. caller'.n # 0 BY <1>1, <1>5
    <2> QED BY <1>4, <2>1, <2>2 DEF SdInv, SdTypes
  <1>9. Waits'
    BY <1>1, <1>3 DEF SdInv, Waits
  <1>10. /\ sd.engine # "on" /\ ~priv.dmafastready
         /\ priv.dmamode => caller.dma
         /\ caller.dma /\ sd.doubt = {} => sd.engine = "off"
    BY <1>1 DEF SdInv, Prepared, Ready, StillOpen
  <1>11. Masked'
    BY <1>1, <1>2, <1>3, <1>4, <1>5, <1>10 DEF Masked
  <1>12. Prepared'
    BY <1>1, <1>2, <1>3, <1>4, <1>5, <1>10 DEF SdInv, Prepared, StillOpen
  <1>13. Ready' /\ Moving' /\ EndedWell' /\ Said'
    BY <1>1, <1>3, <1>5, <1>10 DEF SdInv, Ready, Moving, EndedWell, Said
  <1> QED BY <1>6, <1>7, <1>8, <1>9, <1>11, <1>12, <1>13 DEF SdInv

LEMMA TakenKeeps == ASSUME SdInv, CommandTaken PROVE SdInv'
  <1>1. /\ Has(caller', CallerFields) /\ caller.pc = "setup" /\ caller'.pc = "waiting"
        /\ caller'.n = caller.n /\ caller'.write = caller.write /\ caller'.dma = caller.dma
        /\ caller'.moved = caller.moved /\ caller'.said = caller.said
        /\ waitsem' = waitsem /\ waitwdog' = waitwdog /\ priv' = priv
    BY DEF CommandTaken, SdInv, CallerTypes, Has, CallerFields
  <1>2. /\ Has(sd', SdFields) /\ sd'.left = XferWords
        /\ sd'.fifo = sd.fifo /\ sd'.engine = sd.engine /\ sd'.rintsts = sd.rintsts
        /\ sd'.idsts = sd.idsts /\ sd'.doubt = sd.doubt
    BY DEF CommandTaken, SdInv, SdTypes, Has, SdFields
  <1>3. /\ Mask' = Mask /\ caller.n \in Words /\ caller.said # "ok"
        /\ caller.dma \in BOOLEAN /\ caller.write \in BOOLEAN
    BY <1>1, SdmmcConstants DEF Mask, SdInv, CallerTypes, Words, Said
  <1>4. CallerTypes' /\ PrivTypes'
    BY <1>1 DEF SdInv, CallerTypes, PrivTypes, Steps
  <1>5. SdTypes'
    <2>1. XferWords \in 0 .. XferWords BY SdmmcConstants
    <2>2. caller'.n # 0 BY <1>1, <1>3 DEF Words
    <2> QED BY <1>2, <2>1, <2>2 DEF SdInv, SdTypes
  <1>6. Waits'
    BY <1>1 DEF SdInv, Waits
  <1>7. Masked'
    BY <1>1, <1>2, <1>3 DEF SdInv, Masked
  <1>8. /\ sd.rintsts = {} /\ caller.moved = <<>> /\ ~priv.dmafastready
        /\ sd.fifo = (IF caller.write /\ ~caller.dma THEN Primed(caller.n) ELSE <<>>)
        /\ sd.engine = "on" => caller.dma
        /\ priv.wrdir = caller.write
        /\ StillOpen => /\ priv.dmamode = caller.dma /\ priv.xfrmask = Mask
                        /\ priv.remaining = XferWords - Len(sd.fifo)
    BY <1>1 DEF SdInv, Prepared, Ready
  <1>9. ASSUME StillOpen PROVE Ours' /\ Counted'
    <2>1. caller'.moved \in Seq({caller'.n}) /\ Len(caller'.moved) = 0
      BY <1>1, <1>8
    <2>2. /\ sd'.fifo \in Seq({caller'.n}) /\ Len(sd'.fifo) \in 0 .. XferWords
          /\ ~(caller.write /\ ~caller.dma) => sd'.fifo = <<>> /\ Len(sd'.fifo) = 0
      <3>1. CASE caller.write /\ ~caller.dma
        <4>1. sd'.fifo = Primed(caller.n) BY <1>2, <1>8, <3>1
        <4> QED BY <1>1, <1>3, <3>1, <4>1, PrimedIs
      <3>2. CASE ~(caller.write /\ ~caller.dma)
        <4>1. sd'.fifo = <<>> BY <1>2, <1>8, <3>2
        <4> QED BY <4>1, SdmmcConstants
      <3> QED BY <3>1, <3>2
    <2>3. priv'.remaining + Len(sd'.fifo) = sd'.left
      BY <1>1, <1>2, <1>8, <1>9, <2>2, SdmmcConstants
    <2>4. sd'.left = XferWords /\ XferWords \in Nat /\ priv'.remaining \in Nat
      BY <1>1, <1>2, SdmmcConstants DEF SdInv, PrivTypes
    <2>5. "DTO" \notin sd'.rintsts
      BY <1>2, <1>8
    <2>6. CASE caller.write
      <3>1. caller.dma => Len(sd'.fifo) <= sd'.left
        BY <2>2, <2>4
      <3>2. Len(caller'.moved) + sd'.left = XferWords
        BY <2>1, <2>4
      <3>3. Len(caller'.moved) + 0 + sd'.left <= XferWords
        BY <2>1, <2>4
      <3> QED BY <1>1, <2>1, <2>2, <2>3, <2>5, <2>6, <3>1, <3>2, <3>3 DEF Counted, Ours
    <2>7. CASE ~caller.write
      <3>1. Len(caller'.moved) + Len(sd'.fifo) + sd'.left = XferWords
        BY <2>1, <2>2, <2>4, <2>7
      <3>2. priv'.remaining = Len(sd'.fifo) + sd'.left
        BY <2>2, <2>3, <2>4, <2>7
      <3>3. Len(caller'.moved) + Len(sd'.fifo) + sd'.left <= XferWords
        BY <2>1, <2>2, <2>4, <2>7
      <3> QED BY <1>1, <2>1, <2>2, <2>5, <2>7, <3>1, <3>2, <3>3 DEF Counted, Ours
    <2> QED BY <2>6, <2>7
  <1>10. Moving'
    <2> SUFFICES ASSUME StillOpen' PROVE Moving'
      BY DEF Moving
    <2>1. StillOpen BY <1>1 DEF StillOpen
    <2> QED BY <1>1, <1>2, <1>3, <1>8, <1>9, <2>1 DEF Moving
  <1>11. Ready' /\ Prepared' /\ EndedWell' /\ Said'
    BY <1>1, <1>3, <1>8 DEF SdInv, Ready, Prepared, EndedWell, Said
  <1> QED BY <1>4, <1>5, <1>6, <1>7, <1>10, <1>11 DEF SdInv

LEMMA EventwaitKeeps == ASSUME SdInv, eventwait PROVE SdInv'
  <1>1. /\ caller.pc = "waiting" /\ waitsem > 0 /\ waitsem' = waitsem - 1
        /\ waitwdog' = waitwdog /\ sd' = sd
    BY DEF eventwait
  <1>2. /\ waitsem' \in Nat /\ waitwdog \in BOOLEAN
        /\ waitsem' + (IF priv.waitevents = {} THEN 0 ELSE 1) <= caller.n
    <2>1. waitsem \in Nat /\ caller.n \in Nat BY DEF SdInv, Waits, CallerTypes
    <2>2. waitsem + (IF priv.waitevents = {} THEN 0 ELSE 1) <= caller.n
      BY DEF SdInv, Waits
    <2> DEFINE one == IF priv.waitevents = {} THEN 0 ELSE 1
    <2>3. one \in Nat
      OBVIOUS
    <2>4. waitsem + one <= caller.n
      BY <2>2
    <2>5. waitwdog \in BOOLEAN BY DEF SdInv, Waits
    <2>6. waitsem' \in Nat BY <1>1, <2>1
    <2> HIDE DEF one
    <2>7. waitsem' + one <= caller.n
      BY <1>1, <2>1, <2>3, <2>4
    <2> QED BY <2>5, <2>6, <2>7 DEF one
  <1>3. CASE priv.wkupevent = {}
    <2>1. priv' = priv /\ caller' = caller
      BY <1>3 DEF eventwait, Woken
    <2>2. CallerTypes' /\ PrivTypes' /\ SdTypes'
      BY <1>1, <2>1 DEF SdInv, CallerTypes, PrivTypes, SdTypes
    <2>3. Masked' /\ Ready' /\ Prepared'
      BY <1>1, <2>1 DEF SdInv, Masked, Mask, Ready, Prepared, StillOpen
    <2>4. Moving' /\ EndedWell' /\ Said'
      BY <1>1, <2>1 DEF SdInv, Moving, Mask, StillOpen, Ours, Sure, Counted, EndedWell, Said
    <2>5. Waits'
      BY <1>1, <1>2, <2>1 DEF SdInv, Waits
    <2> QED BY <2>2, <2>3, <2>4, <2>5 DEF SdInv
  <1>4. CASE priv.wkupevent # {}
    <2>1. /\ Has(priv', PrivFields) /\ priv'.xfrmask = {} /\ priv'.dmamask = FALSE
          /\ \A x \in PrivFields \ {"xfrmask", "dmamask"} : priv'[x] = priv[x]
      BY <1>4 DEF eventwait, Woken, SdInv, PrivTypes, Has, PrivFields
    <2>2. /\ Has(caller', CallerFields) /\ caller'.pc = "idle"
          /\ caller'.said = (IF priv.wkupevent \cap {"ERROR", "TIMEOUT"} = {}
                             THEN "ok" ELSE "failed")
          /\ \A x \in CallerFields \ {"pc", "said"} : caller'[x] = caller[x]
      BY <1>4 DEF eventwait, Woken, SdInv, CallerTypes, Has, CallerFields
    <2>3. /\ priv'.waitevents = priv.waitevents /\ priv'.wkupevent = priv.wkupevent
          /\ priv'.dmamode = priv.dmamode /\ priv'.dmafastready = priv.dmafastready
          /\ caller'.n = caller.n /\ caller'.moved = caller.moved
      BY <2>1, <2>2 DEF PrivFields, CallerFields
    <2>4. CallerTypes' /\ PrivTypes'
      BY <2>1, <2>2 DEF SdInv, CallerTypes, PrivTypes, CallerFields, PrivFields, Steps
    <2>5. SdTypes' /\ Waits'
      BY <1>1, <1>2, <2>3 DEF SdInv, SdTypes, Waits
    <2>6. priv'.wkupevent = {"TRANSFERDONE"} \/ caller'.said # "ok"
      BY <1>4, <2>2, <2>3 DEF SdInv, PrivTypes, Wakes
    <2>7. Masked' /\ Prepared' /\ Moving' /\ Said'
      BY <2>1, <2>2, <2>6 DEF Masked, Prepared, Moving, Said
    <2>8. Ready' /\ EndedWell'
      BY <1>1, <2>1, <2>2, <2>3 DEF SdInv, Ready, EndedWell
    <2> QED BY <2>4, <2>5, <2>7, <2>8 DEF SdInv
  <1> QED BY <1>3, <1>4

(* What the card and the bus master leave alone, and what they move.         *)
LEMMA CardKeeps ==
  ASSUME SdInv, priv' = priv, waitsem' = waitsem, waitwdog' = waitwdog,
         Has(caller', CallerFields), Has(sd', SdFields),
         \A x \in CallerFields \ {"moved"} : caller'[x] = caller[x],
         caller'.moved \in Seq(Words), sd'.fifo \in Seq(Words), Len(sd'.fifo) <= FifoDepth,
         sd'.left \in 0 .. XferWords, sd'.rintsts \in SUBSET DataInts, sd'.idsts \in BOOLEAN,
         sd'.engine = sd.engine, sd'.doubt \in SUBSET Doubts, sd.doubt \subseteq sd'.doubt,
         sd.left > 0 \/ (sd.engine = "on" /\ sd'.left = sd.left),
         sd.left = 0 => ~priv.wrdir /\ sd.fifo # <<>>,
         caller.pc = "waiting" /\ StillOpen => Ours' /\ (Sure' => Counted')
  PROVE  SdInv'
  <1>1. /\ caller'.pc = caller.pc /\ caller'.n = caller.n /\ caller'.write = caller.write
        /\ caller'.dma = caller.dma /\ caller'.said = caller.said
    BY DEF CallerFields
  <1>2. Mask' = Mask /\ (StillOpen' <=> StillOpen)
    BY <1>1 DEF Mask, StillOpen
  <1>3. caller.n # 0 /\ sd.left \in Nat
    BY SdmmcConstants DEF SdInv, SdTypes
  <1>4. CallerTypes' /\ PrivTypes' /\ Waits'
    BY <1>1 DEF SdInv, CallerTypes, PrivTypes, Waits
  <1>5. SdTypes'
    BY <1>1, <1>3 DEF SdInv, SdTypes
  <1>6. caller.pc \notin {"filled", "setup"}
    BY <1>3 DEF SdInv, Prepared
  <1>7. caller.pc = "refused" => priv.xfrmask = {}
    BY <1>3 DEF SdInv, Masked
  <1>8. ~priv.dmafastready /\ priv.wkupevent # {"TRANSFERDONE"}
    BY <1>3 DEF SdInv, Ready, EndedWell
  <1>9. Masked'
    BY <1>1, <1>2, <1>7 DEF SdInv, Masked
  <1>10. Moving'
    BY <1>1, <1>2 DEF SdInv, Moving
  <1>11. Ready' /\ Prepared' /\ EndedWell' /\ Said'
    BY <1>1, <1>6, <1>8 DEF SdInv, Ready, Prepared, EndedWell, Said
  <1> QED BY <1>4, <1>5, <1>9, <1>10, <1>11 DEF SdInv

(* The bookkeeping of an open transfer, and that of one without an error and *)
(* without a doubt.                                                          *)
LEMMA InOpen ==
  ASSUME SdInv, caller.pc = "waiting", StillOpen
  PROVE  /\ Ours /\ priv.wrdir = caller.write /\ priv.dmamode = caller.dma
         /\ ~caller.dma => sd.engine # "on"
         /\ caller.n \in Words /\ caller.write \in BOOLEAN /\ caller.dma \in BOOLEAN
         /\ sd.left \in Nat /\ XferWords \in Nat /\ priv.remaining \in Nat
         /\ caller.moved \in Seq({caller.n}) /\ sd.fifo \in Seq({caller.n})
         /\ Len(caller.moved) \in Nat /\ Len(sd.fifo) \in Nat
  <1>1. /\ Ours /\ priv.wrdir = caller.write /\ priv.dmamode = caller.dma
        /\ ~caller.dma => sd.engine # "on"
    BY DEF SdInv, Moving
  <1>2. /\ caller.n \in Words /\ caller.write \in BOOLEAN /\ caller.dma \in BOOLEAN
        /\ sd.left \in Nat /\ XferWords \in Nat /\ priv.remaining \in Nat
    BY SdmmcConstants DEF SdInv, CallerTypes, SdTypes, PrivTypes, Words
  <1>3. /\ caller.moved \in Seq({caller.n}) /\ sd.fifo \in Seq({caller.n})
    BY <1>1 DEF Ours
  <1> QED BY <1>1, <1>2, <1>3

LEMMA WhenOpen ==
  ASSUME SdInv, caller.pc = "waiting", StillOpen, Sure
  PROVE  Counted /\ (caller.dma <=> sd.engine = "on")
  <1>1. Counted /\ priv.xfrmask = Mask /\ (~caller.dma => sd.engine # "on")
        /\ priv.dmamode = caller.dma
    BY DEF SdInv, Moving
  <1>2. Mask # {}
    BY DEF Mask, DmaMask, SendMask, RecvMask
  <1>3. caller.dma => sd.engine = "on"
    BY <1>1, <1>2 DEF SdInv, Masked, Sure
  <1> QED BY <1>1, <1>3

LEMMA CardSendsKeeps == ASSUME SdInv, CardSends PROVE SdInv'
  <1>1. /\ priv' = priv /\ waitsem' = waitsem /\ waitwdog' = waitwdog /\ caller' = caller
        /\ sd.left > 0 /\ ~priv.wrdir /\ Len(sd.fifo) < FifoDepth
    BY DEF CardSends, Driven
  <1> PICK over \in BOOLEAN :
         /\ over => sd.left = 1
         /\ sd' = [sd EXCEPT !.fifo = Append(@, caller.n), !.left = @ - 1,
                             !.rintsts = @ \cup {"RXDR"} \cup (IF over THEN {"DTO"} ELSE {}),
                             !.doubt = IF over /\ sd.engine = "on" THEN @ \cup {"early"} ELSE @]
    BY DEF CardSends
  <1>2. /\ Has(sd', SdFields) /\ sd'.fifo = Append(sd.fifo, caller.n) /\ sd'.left = sd.left - 1
        /\ sd'.rintsts = sd.rintsts \cup {"RXDR"} \cup (IF over THEN {"DTO"} ELSE {})
        /\ sd'.engine = sd.engine /\ sd'.idsts = sd.idsts
        /\ sd'.doubt = (IF over /\ sd.engine = "on" THEN sd.doubt \cup {"early"} ELSE sd.doubt)
    BY DEF SdInv, SdTypes, Has, SdFields
  <1>3. /\ caller.n \in Words /\ sd.left \in 0 .. XferWords /\ sd.fifo \in Seq(Words)
        /\ sd.idsts \in BOOLEAN /\ caller.moved \in Seq(Words) /\ Has(caller, CallerFields)
    BY <1>1, SdmmcConstants DEF SdInv, SdTypes, CallerTypes, Words
  <1>4. sd'.fifo \in Seq(Words) /\ Len(sd'.fifo) <= FifoDepth /\ sd'.left \in 0 .. XferWords
    BY <1>1, <1>2, <1>3, SdmmcConstants
  <1>5. sd'.rintsts \in SUBSET DataInts
    BY <1>2 DEF SdInv, SdTypes, DataInts
  <1>d. sd'.doubt \in SUBSET Doubts /\ sd.doubt \subseteq sd'.doubt
    BY <1>2 DEF SdInv, SdTypes, Doubts
  <1>6. ASSUME caller.pc = "waiting", StillOpen, Sure'
        PROVE  Counted'
    <2>1. Sure
      BY <1>2, <1>d, <1>6 DEF Sure
    <2>2. /\ Counted /\ priv.wrdir = caller.write
          /\ caller.dma <=> sd.engine = "on"
          /\ caller.n \in Words /\ sd.left \in Nat /\ XferWords \in Nat /\ priv.remaining \in Nat
          /\ caller.moved \in Seq({caller.n}) /\ sd.fifo \in Seq({caller.n})
          /\ Len(caller.moved) \in Nat /\ Len(sd.fifo) \in Nat
      BY <1>6, <2>1, WhenOpen, InOpen
    <2>3. ~caller.write
      BY <1>1, <2>2
    <2>4. /\ Len(caller.moved) + Len(sd.fifo) + sd.left = XferWords
          /\ ~caller.dma => priv.remaining = Len(sd.fifo) + sd.left
          /\ "DTO" \in sd.rintsts => sd.left = 0
      BY <2>2, <2>3 DEF Counted
    <2>5. sd'.fifo \in Seq({caller.n}) /\ Len(sd'.fifo) = Len(sd.fifo) + 1
      BY <1>2, <2>2
    <2>6. "DTO" \in sd'.rintsts => sd'.left = 0 /\ ~caller.dma
      <3> SUFFICES ASSUME "DTO" \in sd'.rintsts PROVE sd'.left = 0 /\ ~caller.dma
        OBVIOUS
      <3>1. over
        BY <1>1, <1>2, <2>2, <2>4
      <3>2. sd.engine # "on"
        BY <1>2, <1>6, <3>1 DEF Sure
      <3> QED BY <1>2, <2>2, <3>1, <3>2
    <2>7. /\ Len(caller.moved) + Len(sd'.fifo) + sd'.left = XferWords
          /\ ~caller.dma => priv.remaining = Len(sd'.fifo) + sd'.left
      <3>1. /\ sd'.left = sd.left - 1 /\ sd.left \in Nat /\ Len(sd'.fifo) = Len(sd.fifo) + 1
            /\ Len(sd.fifo) \in Nat /\ Len(caller.moved) \in Nat /\ XferWords \in Nat
        BY <1>2, <2>2, <2>5
      <3>2. Len(caller.moved) + Len(sd.fifo) + sd.left = XferWords
        BY <2>4
      <3>3. Len(caller.moved) + Len(sd'.fifo) + sd'.left = XferWords
        <4> DEFINE a == Len(caller.moved)
                   b == Len(sd.fifo)
                   c == sd.left
        <4>1. a \in Int /\ b \in Int /\ c \in Int
          BY <3>1
        <4>2. Len(caller.moved) + Len(sd'.fifo) + sd'.left = a + (b + 1) + (c - 1)
          BY <3>1
        <4>3. a + b + c = XferWords
          BY <3>2
        <4> HIDE DEF a, b, c
        <4>4. a + (b + 1) + (c - 1) = a + b + c
          BY <4>1
        <4> QED BY <4>2, <4>3, <4>4
      <3>4. Len(sd'.fifo) + sd'.left = Len(sd.fifo) + sd.left
        BY <3>1
      <3> QED BY <2>4, <3>3, <3>4
    <2> QED BY <1>1, <2>2, <2>3, <2>5, <2>6, <2>7 DEF Counted
  <1>o. ASSUME caller.pc = "waiting", StillOpen PROVE Ours'
    <2>1. /\ Ours /\ ~caller.write
          /\ sd.left \in Nat /\ XferWords \in Nat
          /\ caller.moved \in Seq({caller.n}) /\ sd.fifo \in Seq({caller.n})
          /\ Len(caller.moved) \in Nat /\ Len(sd.fifo) \in Nat
      BY <1>1, <1>o, InOpen
    <2>2. /\ sd'.fifo \in Seq({caller.n}) /\ Len(sd'.fifo) = Len(sd.fifo) + 1
          /\ sd'.left = sd.left - 1
      BY <1>2, <2>1
    <2>3. Len(caller.moved) + Len(sd.fifo) + sd.left <= XferWords
      BY <2>1 DEF Ours
    <2>4. Len(caller.moved) + Len(sd'.fifo) + sd'.left <= XferWords
      <3> DEFINE a == Len(caller.moved)
                 b == Len(sd.fifo)
                 c == sd.left
      <3>1. a \in Int /\ b \in Int /\ c \in Int
        BY <2>1
      <3>2. Len(caller.moved) + Len(sd'.fifo) + sd'.left = a + (b + 1) + (c - 1)
        BY <2>2
      <3>3. a + b + c <= XferWords
        BY <2>3
      <3> HIDE DEF a, b, c
      <3>4. a + (b + 1) + (c - 1) = a + b + c
        BY <3>1
      <3> QED BY <3>2, <3>3, <3>4
    <2>5. "DTO" \in sd'.rintsts => sd'.left = 0
      BY <1>1, <1>2, <2>1 DEF Ours
    <2> QED BY <1>1, <2>1, <2>2, <2>4, <2>5 DEF Ours
  <1>7. sd.left # 0
    BY <1>1
  <1> QED BY <1>1, <1>2, <1>3, <1>4, <1>5, <1>6, <1>7, <1>d, <1>o, CardKeeps

LEMMA CardTakesKeeps == ASSUME SdInv, CardTakes PROVE SdInv'
  <1>1. /\ priv' = priv /\ waitsem' = waitsem /\ waitwdog' = waitwdog
        /\ sd.left > 0 /\ priv.wrdir /\ sd.fifo # <<>>
    BY DEF CardTakes, Driven
  <1>2. /\ Has(sd', SdFields) /\ sd'.fifo = Tail(sd.fifo) /\ sd'.left = sd.left - 1
        /\ sd'.rintsts = sd.rintsts \cup {IF sd.left = 1 THEN "DTO" ELSE "TXDR"}
        /\ sd'.engine = sd.engine /\ sd'.idsts = sd.idsts /\ sd'.doubt = sd.doubt
    BY DEF CardTakes, SdInv, SdTypes, Has, SdFields
  <1>3. /\ Has(caller', CallerFields) /\ caller'.moved = Append(caller.moved, Head(sd.fifo))
        /\ \A x \in CallerFields \ {"moved"} : caller'[x] = caller[x]
    BY DEF CardTakes, SdInv, CallerTypes, Has, CallerFields
  <1>4. /\ sd.left \in 0 .. XferWords /\ sd.fifo \in Seq(Words) /\ Len(sd.fifo) <= FifoDepth
        /\ sd.idsts \in BOOLEAN /\ caller.moved \in Seq(Words) /\ Len(sd.fifo) \in Nat
    BY DEF SdInv, SdTypes, CallerTypes
  <1>5. /\ Head(sd.fifo) \in Words /\ Tail(sd.fifo) \in Seq(Words)
        /\ Len(Tail(sd.fifo)) = Len(sd.fifo) - 1
    BY <1>1, <1>4, HeadTailProperties
  <1>6. sd'.fifo \in Seq(Words) /\ Len(sd'.fifo) <= FifoDepth
    BY <1>2, <1>4, <1>5, SdmmcConstants
  <1>7. sd'.left \in 0 .. XferWords /\ caller'.moved \in Seq(Words)
    BY <1>1, <1>2, <1>3, <1>4, <1>5, SdmmcConstants
  <1>8. sd'.rintsts \in SUBSET DataInts
    BY <1>2 DEF SdInv, SdTypes, DataInts
  <1>d. sd'.doubt \in SUBSET Doubts /\ sd.doubt \subseteq sd'.doubt
    BY <1>2 DEF SdInv, SdTypes
  <1>o. ASSUME caller.pc = "waiting", StillOpen PROVE Ours'
    <2>1. /\ Ours /\ caller.write
          /\ sd.left \in Nat /\ XferWords \in Nat
          /\ caller.moved \in Seq({caller.n}) /\ sd.fifo \in Seq({caller.n})
          /\ Len(caller.moved) \in Nat
      BY <1>1, <1>o, InOpen
    <2>2. /\ Head(sd.fifo) \in {caller.n} /\ Tail(sd.fifo) \in Seq({caller.n})
      BY <1>1, <2>1, HeadTailProperties
    <2>3. caller'.moved \in Seq({caller.n}) /\ Len(caller'.moved) = Len(caller.moved) + 1
      BY <1>3, <2>1, <2>2, AppendProperties
    <2>4. Len(caller.moved) + 0 + sd.left <= XferWords
      BY <2>1 DEF Ours
    <2>5. Len(caller'.moved) + 0 + sd'.left <= XferWords
      BY <1>2, <2>1, <2>3, <2>4
    <2>6. "DTO" \in sd'.rintsts => sd'.left = 0
      BY <1>1, <1>2, <2>1 DEF Ours
    <2>7. caller'.n = caller.n /\ caller'.write = caller.write
      BY <1>3 DEF CallerFields
    <2> QED BY <1>2, <2>1, <2>2, <2>3, <2>5, <2>6, <2>7 DEF Ours
  <1>9. ASSUME caller.pc = "waiting", StillOpen, Sure'
        PROVE  Counted'
    <2>1. Sure
      BY <1>2, <1>9 DEF Sure
    <2>2. /\ Counted /\ priv.wrdir = caller.write
          /\ caller.n \in Words /\ sd.left \in Nat /\ XferWords \in Nat /\ priv.remaining \in Nat
          /\ caller.moved \in Seq({caller.n}) /\ sd.fifo \in Seq({caller.n})
          /\ Len(caller.moved) \in Nat /\ Len(sd.fifo) \in Nat
      BY <1>9, <2>1, WhenOpen, InOpen
    <2>3. caller.write
      BY <1>1, <2>2
    <2>4. /\ Len(caller.moved) + sd.left = XferWords
          /\ caller.dma => Len(sd.fifo) <= sd.left
          /\ ~caller.dma => priv.remaining + Len(sd.fifo) = sd.left
      BY <2>2, <2>3 DEF Counted
    <2>5. /\ Head(sd.fifo) \in {caller.n} /\ Tail(sd.fifo) \in Seq({caller.n})
      BY <1>1, <2>2, HeadTailProperties
    <2>6. caller'.moved \in Seq({caller.n}) /\ Len(caller'.moved) = Len(caller.moved) + 1
      BY <1>3, <2>2, <2>5, AppendProperties
    <2>7. sd'.left = sd.left - 1 /\ Len(sd'.fifo) = Len(sd.fifo) - 1
      BY <1>2, <1>5
    <2>8. /\ Len(caller'.moved) + sd'.left = XferWords
          /\ caller.dma => Len(sd'.fifo) <= sd'.left
          /\ ~caller.dma => priv.remaining + Len(sd'.fifo) = sd'.left
      <3>1. sd.left \in Nat /\ Len(sd.fifo) \in Nat /\ Len(caller.moved) \in Nat
            /\ priv.remaining \in Nat /\ XferWords \in Nat
        BY <2>2
      <3>2. Len(caller.moved) + sd.left = XferWords
        BY <2>4
      <3>3. Len(caller'.moved) + sd'.left = XferWords
        BY <2>6, <2>7, <3>1, <3>2
      <3>4. ASSUME Len(sd.fifo) <= sd.left PROVE Len(sd'.fifo) <= sd'.left
        BY <2>7, <3>1, <3>4
      <3>5. ASSUME priv.remaining + Len(sd.fifo) = sd.left
            PROVE  priv.remaining + Len(sd'.fifo) = sd'.left
        BY <2>7, <3>1, <3>5
      <3> QED BY <2>4, <3>3, <3>4, <3>5
    <2>9. "DTO" \in sd'.rintsts => sd'.left = 0 /\ (caller.dma => sd'.fifo = <<>>)
      <3> SUFFICES ASSUME "DTO" \in sd'.rintsts
                   PROVE  sd'.left = 0 /\ (caller.dma => sd'.fifo = <<>>)
        OBVIOUS
      <3>1. sd.left = 1
        BY <1>1, <1>2, <2>2 DEF Counted
      <3>2. sd'.left = 0
        BY <2>7, <3>1
      <3>3. caller.dma => Len(sd'.fifo) = 0
        <4>1. Len(sd'.fifo) \in Nat
          BY <1>2, <1>5
        <4> QED BY <2>8, <3>2, <4>1
      <3> QED BY <1>6, <3>2, <3>3, EmptySeq
    <2>10. caller'.n = caller.n /\ caller'.write = caller.write /\ caller'.dma = caller.dma
      BY <1>3 DEF CallerFields
    <2> QED BY <1>1, <1>2, <2>3, <2>5, <2>6, <2>8, <2>9, <2>10 DEF Counted
  <1>10. sd.left # 0
    BY <1>1
  <1> QED BY <1>1, <1>2, <1>3, <1>4, <1>6, <1>7, <1>8, <1>9, <1>10, <1>d, <1>o, CardKeeps

LEMMA EngineReadsKeeps ==
  ASSUME SdInv, sd.engine = "on", ~priv.wrdir, sd.fifo # <<>>,
         UNCHANGED <<priv, waitsem, waitwdog>>,
         caller' = [caller EXCEPT !.moved = Append(@, Head(sd.fifo))],
         sd' = [sd EXCEPT !.fifo = Tail(@),
                          !.rintsts = @ \cup IF /\ sd.left = 0 /\ Len(sd.fifo) = 1
                                                /\ "early" \notin sd.doubt
                                             THEN {"DTO"} ELSE {}]
  PROVE  SdInv'
  <1>1. /\ Has(sd', SdFields) /\ sd'.fifo = Tail(sd.fifo) /\ sd'.left = sd.left
        /\ sd'.rintsts = sd.rintsts
             \cup (IF sd.left = 0 /\ Len(sd.fifo) = 1 /\ "early" \notin sd.doubt THEN {"DTO"} ELSE {})
        /\ sd'.engine = sd.engine /\ sd'.idsts = sd.idsts /\ sd'.doubt = sd.doubt
    BY DEF SdInv, SdTypes, Has, SdFields
  <1>2. /\ Has(caller', CallerFields) /\ caller'.moved = Append(caller.moved, Head(sd.fifo))
        /\ \A x \in CallerFields \ {"moved"} : caller'[x] = caller[x]
    BY DEF SdInv, CallerTypes, Has, CallerFields
  <1>3. /\ sd.left \in 0 .. XferWords /\ sd.fifo \in Seq(Words) /\ Len(sd.fifo) <= FifoDepth
        /\ sd.idsts \in BOOLEAN /\ caller.moved \in Seq(Words) /\ Len(sd.fifo) \in Nat
    BY DEF SdInv, SdTypes, CallerTypes
  <1>4. /\ Head(sd.fifo) \in Words /\ Tail(sd.fifo) \in Seq(Words)
        /\ Len(Tail(sd.fifo)) = Len(sd.fifo) - 1
    BY <1>3, HeadTailProperties
  <1>5. sd'.fifo \in Seq(Words) /\ Len(sd'.fifo) <= FifoDepth
    BY <1>1, <1>3, <1>4, SdmmcConstants
  <1>6. caller'.moved \in Seq(Words)
    BY <1>2, <1>3, <1>4
  <1>7. sd'.rintsts \in SUBSET DataInts
    BY <1>1 DEF SdInv, SdTypes, DataInts
  <1>d. sd'.doubt \in SUBSET Doubts /\ sd.doubt \subseteq sd'.doubt
    BY <1>1 DEF SdInv, SdTypes
  <1>o. ASSUME caller.pc = "waiting", StillOpen PROVE Ours'
    <2>1. /\ Ours /\ ~caller.write
          /\ sd.left \in Nat /\ XferWords \in Nat
          /\ caller.moved \in Seq({caller.n}) /\ sd.fifo \in Seq({caller.n})
          /\ Len(caller.moved) \in Nat /\ Len(sd.fifo) \in Nat
      BY <1>o, InOpen
    <2>2. /\ Head(sd.fifo) \in {caller.n} /\ Tail(sd.fifo) \in Seq({caller.n})
      BY <2>1, HeadTailProperties
    <2>3. caller'.moved \in Seq({caller.n}) /\ Len(caller'.moved) = Len(caller.moved) + 1
      BY <1>2, <2>1, <2>2, AppendProperties
    <2>4. Len(caller.moved) + Len(sd.fifo) + sd.left <= XferWords
      BY <2>1 DEF Ours
    <2>5. Len(caller'.moved) + Len(sd'.fifo) + sd'.left <= XferWords
      <3> DEFINE a == Len(caller.moved)
                 b == Len(sd.fifo)
                 c == sd.left
      <3>1. a \in Int /\ b \in Int /\ c \in Int
        BY <2>1
      <3>2. Len(caller'.moved) + Len(sd'.fifo) + sd'.left = (a + 1) + (b - 1) + c
        BY <1>1, <1>4, <2>3
      <3>3. a + b + c <= XferWords
        BY <2>4
      <3> HIDE DEF a, b, c
      <3>4. (a + 1) + (b - 1) + c = a + b + c
        BY <3>1
      <3> QED BY <3>2, <3>3, <3>4
    <2>6. "DTO" \in sd'.rintsts => sd'.left = 0
      BY <1>1, <2>1 DEF Ours
    <2>7. caller'.n = caller.n /\ caller'.write = caller.write
      BY <1>2 DEF CallerFields
    <2>8. sd'.fifo \in Seq({caller'.n}) /\ caller'.moved \in Seq({caller'.n})
      BY <1>1, <2>2, <2>3, <2>7
    <2>9. Len(caller'.moved) + (IF caller'.write THEN 0 ELSE Len(sd'.fifo)) + sd'.left <= XferWords
      <3>1. (IF caller'.write THEN 0 ELSE Len(sd'.fifo)) = Len(sd'.fifo)
        BY <2>1, <2>7
      <3> QED BY <2>5, <3>1, Zenon
    <2> QED BY <2>6, <2>8, <2>9 DEF Ours
  <1>8. ASSUME caller.pc = "waiting", StillOpen, Sure'
        PROVE  Counted'
    <2>1. Sure
      BY <1>1, <1>8 DEF Sure
    <2>2. /\ Counted /\ priv.wrdir = caller.write /\ (caller.dma <=> sd.engine = "on")
          /\ caller.n \in Words /\ sd.left \in Nat /\ XferWords \in Nat
          /\ caller.moved \in Seq({caller.n}) /\ sd.fifo \in Seq({caller.n})
          /\ Len(caller.moved) \in Nat /\ Len(sd.fifo) \in Nat
      BY <1>8, <2>1, WhenOpen, InOpen
    <2>3. ~caller.write /\ caller.dma
      BY <2>2
    <2>4. /\ Len(caller.moved) + Len(sd.fifo) + sd.left = XferWords
          /\ "DTO" \notin sd.rintsts
      BY <2>2, <2>3 DEF Counted
    <2>5. /\ Head(sd.fifo) \in {caller.n} /\ Tail(sd.fifo) \in Seq({caller.n})
      BY <2>2, HeadTailProperties
    <2>6. caller'.moved \in Seq({caller.n}) /\ Len(caller'.moved) = Len(caller.moved) + 1
      BY <1>2, <2>2, <2>5, AppendProperties
    <2>7. sd'.left = sd.left /\ Len(sd'.fifo) = Len(sd.fifo) - 1
      BY <1>1, <1>4
    <2>8. Len(caller'.moved) + Len(sd'.fifo) + sd'.left = XferWords
      <3>1. sd.left \in Nat /\ Len(sd.fifo) \in Nat /\ Len(caller.moved) \in Nat
            /\ XferWords \in Nat
        BY <2>2
      <3>2. Len(caller.moved) + Len(sd.fifo) + sd.left = XferWords
        BY <2>4
      <3> DEFINE a == Len(caller.moved)
                 b == Len(sd.fifo)
                 c == sd.left
      <3>3. a \in Int /\ b \in Int /\ c \in Int
        BY <3>1
      <3>4. Len(caller'.moved) + Len(sd'.fifo) + sd'.left = (a + 1) + (b - 1) + c
        BY <2>6, <2>7
      <3>5. a + b + c = XferWords
        BY <3>2
      <3> HIDE DEF a, b, c
      <3>6. (a + 1) + (b - 1) + c = a + b + c
        BY <3>3
      <3> QED BY <3>4, <3>5, <3>6
    <2>9. "DTO" \in sd'.rintsts => sd'.left = 0 /\ sd'.fifo = <<>>
      <3> SUFFICES ASSUME "DTO" \in sd'.rintsts PROVE sd'.left = 0 /\ sd'.fifo = <<>>
        OBVIOUS
      <3>1. sd.left = 0 /\ Len(sd.fifo) = 1
        BY <1>1, <2>4
      <3>2. Len(sd'.fifo) = 0
        BY <2>7, <3>1
      <3> QED BY <1>5, <2>7, <3>1, <3>2, EmptySeq
    <2>10. caller'.n = caller.n /\ caller'.write = caller.write /\ caller'.dma = caller.dma
      BY <1>2 DEF CallerFields
    <2> QED BY <1>1, <2>3, <2>5, <2>6, <2>8, <2>9, <2>10 DEF Counted
  <1>9. sd.left > 0 \/ (sd.engine = "on" /\ sd'.left = sd.left)
    BY <1>1
  <1> QED BY <1>1, <1>2, <1>3, <1>5, <1>6, <1>7, <1>8, <1>9, <1>d, <1>o, CardKeeps

LEMMA EngineWritesKeeps ==
  ASSUME SdInv, sd.engine = "on", priv.wrdir, Len(sd.fifo) < sd.left, Len(sd.fifo) < FifoDepth,
         UNCHANGED <<priv, waitsem, waitwdog, caller>>,
         sd' = [sd EXCEPT !.fifo = Append(@, caller.n)]
  PROVE  SdInv'
  <1>1. /\ Has(sd', SdFields) /\ sd'.fifo = Append(sd.fifo, caller.n) /\ sd'.left = sd.left
        /\ sd'.rintsts = sd.rintsts /\ sd'.engine = sd.engine /\ sd'.idsts = sd.idsts
        /\ sd'.doubt = sd.doubt
    BY DEF SdInv, SdTypes, Has, SdFields
  <1>2. /\ caller.n \in Words /\ sd.left \in 0 .. XferWords /\ sd.fifo \in Seq(Words)
        /\ sd.idsts \in BOOLEAN /\ caller.moved \in Seq(Words) /\ Has(caller, CallerFields)
        /\ sd.rintsts \in SUBSET DataInts /\ Len(sd.fifo) \in Nat
    BY SdmmcConstants DEF SdInv, SdTypes, CallerTypes, Words
  <1>3. sd'.fifo \in Seq(Words) /\ Len(sd'.fifo) = Len(sd.fifo) + 1
    BY <1>1, <1>2
  <1>4. Len(sd'.fifo) <= FifoDepth /\ sd.left > 0 /\ sd.left # 0
    BY <1>2, <1>3, SdmmcConstants
  <1>d. sd'.doubt \in SUBSET Doubts /\ sd.doubt \subseteq sd'.doubt
    BY <1>1 DEF SdInv, SdTypes
  <1>o. ASSUME caller.pc = "waiting", StillOpen PROVE Ours'
    <2>1. Ours /\ caller.write /\ sd.fifo \in Seq({caller.n}) /\ caller.moved \in Seq({caller.n})
      BY <1>o, InOpen
    <2>2. sd'.fifo \in Seq({caller.n})
      BY <1>1, <2>1
    <2> QED BY <1>1, <2>1, <2>2 DEF Ours
  <1>5. ASSUME caller.pc = "waiting", StillOpen, Sure'
        PROVE  Counted'
    <2>0. Sure
      BY <1>1, <1>5 DEF Sure
    <2>1. /\ Counted /\ priv.wrdir = caller.write /\ (caller.dma <=> sd.engine = "on")
          /\ sd.left \in Nat /\ sd.fifo \in Seq({caller.n}) /\ caller.moved \in Seq({caller.n})
      BY <1>5, <2>0, WhenOpen, InOpen
    <2>2. caller.write /\ caller.dma
      BY <2>1
    <2>3. /\ Len(caller.moved) + sd.left = XferWords /\ "DTO" \notin sd.rintsts
      BY <1>4, <2>1, <2>2 DEF Counted
    <2>4. sd'.fifo \in Seq({caller.n})
      BY <1>1, <2>1
    <2>5. Len(sd'.fifo) <= sd'.left
      BY <1>1, <1>2, <1>3
    <2> QED BY <1>1, <2>1, <2>2, <2>3, <2>4, <2>5 DEF Counted
  <1> QED BY <1>1, <1>2, <1>3, <1>4, <1>5, <1>d, <1>o, CardKeeps

LEMMA FailuresKeep == ASSUME SdInv, CardFails \/ EndBitFails \/ EngineFails PROVE SdInv'
  <1>1. /\ UNCHANGED <<priv, waitsem, waitwdog, caller>> /\ sd.left > 0
        /\ Has(sd', SdFields) /\ sd'.fifo = sd.fifo /\ sd'.engine = sd.engine
        /\ \/ /\ sd'.left = 0 /\ sd'.idsts = sd.idsts /\ sd'.doubt = sd.doubt
              /\ \E why \in {"ERROR", "DRTO"} : sd'.rintsts = sd.rintsts \cup {why}
           \/ /\ sd'.left \in {0, sd.left} /\ sd'.idsts \in BOOLEAN
              /\ sd'.doubt = sd.doubt \cup {"EBE"}
              /\ \E over \in SUBSET {"DTO"} :
                    /\ sd'.rintsts = sd.rintsts \cup {"EBE"} \cup over
                    /\ sd'.left # 0 => over = {}
           \/ /\ sd'.left = sd.left /\ sd'.idsts = TRUE /\ sd'.rintsts = sd.rintsts
              /\ sd'.doubt = sd.doubt
    <2>1. CASE CardFails
      BY <2>1 DEF CardFails, Driven, SdInv, SdTypes, Has, SdFields
    <2>2. CASE EngineFails
      BY <2>2 DEF EngineFails, SdInv, SdTypes, Has, SdFields
    <2>3. CASE EndBitFails
      <3>1. PICK rest \in {0, sd.left}, over \in SUBSET {"DTO"}, summed \in BOOLEAN :
               /\ rest # 0 => over = {}
               /\ sd' = [sd EXCEPT !.left = rest, !.rintsts = @ \cup {"EBE"} \cup over,
                                   !.idsts = @ \/ summed, !.doubt = @ \cup {"EBE"}]
        BY <2>3, Zenon DEF EndBitFails
      <3>2. /\ UNCHANGED <<priv, waitsem, waitwdog, caller>> /\ sd.left > 0
        BY <2>3 DEF EndBitFails, Driven
      <3>3. /\ Has(sd', SdFields) /\ sd'.fifo = sd.fifo /\ sd'.engine = sd.engine
            /\ sd'.left = rest /\ sd'.idsts \in BOOLEAN /\ sd'.doubt = sd.doubt \cup {"EBE"}
            /\ sd'.rintsts = sd.rintsts \cup {"EBE"} \cup over
        BY <3>1, Zenon DEF SdInv, SdTypes, Has, SdFields
      <3> QED BY <3>1, <3>2, <3>3, Zenon
    <2> QED BY <2>1, <2>2, <2>3
  <1>3. /\ sd.left \in 0 .. XferWords /\ sd.fifo \in Seq(Words) /\ Len(sd.fifo) <= FifoDepth
        /\ sd.idsts \in BOOLEAN /\ sd.rintsts \in SUBSET DataInts /\ sd.doubt \in SUBSET Doubts
        /\ caller.moved \in Seq(Words) /\ Has(caller, CallerFields) /\ sd.left # 0
    BY <1>1 DEF SdInv, SdTypes, CallerTypes
  <1>4. sd'.left \in 0 .. XferWords /\ sd'.idsts \in BOOLEAN
    <2>1. 0 \in 0 .. XferWords
      BY SdmmcConstants
    <2> QED BY <1>1, <1>3, <2>1
  <1>5. sd'.rintsts \in SUBSET DataInts
    BY <1>1, <1>3 DEF DataInts
  <1>6. sd'.doubt \in SUBSET Doubts /\ sd.doubt \subseteq sd'.doubt
    BY <1>1, <1>3 DEF Doubts
  <1>7. ASSUME caller.pc = "waiting", StillOpen PROVE Ours' /\ (Sure' => Counted')
    <2>1. /\ Ours /\ sd.left \in Nat /\ XferWords \in Nat
          /\ Len(caller.moved) \in Nat /\ Len(sd.fifo) \in Nat
      BY <1>7, InOpen
    <2>2. sd'.left \in {0, sd.left} /\ ("DTO" \in sd'.rintsts => sd'.left = 0)
      BY <1>1, <2>1 DEF Ours
    <2>3. Ours'
      <3> DEFINE a == Len(caller.moved)
                 b == IF caller.write THEN 0 ELSE Len(sd.fifo)
                 c == sd.left
      <3>1. a + b + c <= XferWords
        BY <2>1 DEF Ours
      <3>2. a \in Nat /\ b \in Nat /\ c \in Nat /\ sd'.left \in {0, c}
        BY <2>1, <2>2
      <3> HIDE DEF a, b, c
      <3>3. a + b + sd'.left <= XferWords
        BY <2>1, <3>1, <3>2
      <3>4. Len(caller'.moved) + (IF caller'.write THEN 0 ELSE Len(sd'.fifo)) + sd'.left <= XferWords
        BY <1>1, <3>3 DEF a, b
      <3> QED BY <1>1, <2>1, <2>2, <3>4 DEF Ours
    <2>4. ASSUME Sure' PROVE Counted'
      <3>1. sd'.left = sd.left /\ sd'.rintsts = sd.rintsts /\ sd'.doubt = sd.doubt
        BY <1>1, <2>4 DEF Sure
      <3>2. Counted
        BY <1>7, <2>4, <3>1, WhenOpen DEF Sure
      <3> QED BY <1>1, <3>1, <3>2 DEF Counted
    <2> QED BY <2>3, <2>4
  <1> QED BY <1>1, <1>3, <1>4, <1>5, <1>6, <1>7, CardKeeps

(* The interrupt handler copies in one direction and ends the transfer, or   *)
(* goes on.                                                                  *)
Filled == ~priv.dmamode /\ "TXDR" \in Pending
Read   == ~priv.dmamode /\ ~Filled /\ ~priv.wrdir /\ Pending \cap {"RXDR", "DTO"} # {}
CopiedOver  == Copied(Read, Filled)
Left   == [sd EXCEPT !.rintsts = @ \ Pending,
                     !.fifo = IF Read THEN SubSeq(@, Len(Drawn) + 1, Len(@))
                              ELSE IF Filled THEN @ \o [i \in 1 .. Room |-> caller.n] ELSE @]

LEMMA HandlerIs ==
  ASSUME sdmmc_interrupt
  PROVE  /\ Pending # {}
         /\ \/ "ERROR" \in Pending /\ endtransfer(CopiedOver, Left, {"TRANSFERDONE", "ERROR"})
            \/ "DRTO" \in Pending /\ endtransfer(CopiedOver, Left, {"TRANSFERDONE", "TIMEOUT"})
            \/ /\ Pending \cap {"ERROR", "DRTO", "DTO"} = {}
               /\ priv' = CopiedOver /\ sd' = Left /\ UNCHANGED <<waitsem, waitwdog>>
            \/ /\ Pending \cap {"ERROR", "DRTO"} = {} /\ "DTO" \in Pending
               /\ (CopiedOver.dmamode /\ ~sd.idsts) \/ (~CopiedOver.dmamode /\ CopiedOver.remaining = 0)
               /\ endtransfer(CopiedOver, Left, {"TRANSFERDONE"})
            \/ "DTO" \in Pending /\ endtransfer(CopiedOver, Left, {"TRANSFERDONE", "ERROR"})
         /\ caller' = IF Read THEN [caller EXCEPT !.moved = @ \o Drawn] ELSE caller
  <1> DEFINE p == CopiedOver
             s == Left
  <1>1. /\ Pending # {}
        /\ IF "ERROR" \in Pending THEN endtransfer(p, s, {"TRANSFERDONE", "ERROR"})
           ELSE IF "DRTO" \in Pending THEN endtransfer(p, s, {"TRANSFERDONE", "TIMEOUT"})
           ELSE IF "DTO" \notin Pending
                THEN priv' = p /\ sd' = s /\ UNCHANGED <<waitsem, waitwdog>>
           ELSE IF (p.dmamode /\ ~sd.idsts) \/ (~p.dmamode /\ p.remaining = 0)
                THEN endtransfer(p, s, {"TRANSFERDONE"})
                ELSE endtransfer(p, s, {"TRANSFERDONE", "ERROR"})
        /\ caller' = IF Read THEN [caller EXCEPT !.moved = @ \o Drawn] ELSE caller
    BY DEF sdmmc_interrupt, CopiedOver, Left, Read, Filled
  <1> HIDE DEF p, s
  <1> QED
    <2>1. CASE "ERROR" \in Pending
      BY <1>1, <2>1 DEF p, s
    <2>2. CASE "ERROR" \notin Pending /\ "DRTO" \in Pending
      BY <1>1, <2>2 DEF p, s
    <2>3. CASE Pending \cap {"ERROR", "DRTO", "DTO"} = {}
      BY <1>1, <2>3 DEF p, s
    <2>4. CASE Pending \cap {"ERROR", "DRTO"} = {} /\ "DTO" \in Pending
      <3>1. CASE (p.dmamode /\ ~sd.idsts) \/ (~p.dmamode /\ p.remaining = 0)
        BY <1>1, <2>4, <3>1 DEF p, s
      <3>2. CASE ~((p.dmamode /\ ~sd.idsts) \/ (~p.dmamode /\ p.remaining = 0))
        BY <1>1, <2>4, <3>2 DEF p, s
      <3> QED BY <3>1, <3>2
    <2> QED BY <2>1, <2>2, <2>3, <2>4

(* An interrupt comes while a transfer waits; errors are never masked.       *)
LEMMA Interrupted ==
  ASSUME SdInv, Pending # {}
  PROVE  /\ caller.pc = "waiting" /\ priv.xfrmask = Mask /\ priv.xfrmask # {}
         /\ \A e \in {"ERROR", "DRTO", "DTO"} : e \in sd.rintsts <=> e \in Pending
         /\ ~priv.dmafastready /\ priv.wkupevent # {"TRANSFERDONE"}
  <1>1. priv.xfrmask # {} /\ sd.rintsts # {}
    BY DEF Pending
  <1>2. priv.xfrmask = Mask /\ caller.pc = "waiting"
    BY <1>1 DEF SdInv, Masked, Prepared
  <1>3. \A e \in {"ERROR", "DRTO", "DTO"} : e \in sd.rintsts <=> e \in Pending
    BY <1>2 DEF Pending, Mask, DmaMask, SendMask, RecvMask
  <1> QED BY <1>1, <1>2, <1>3 DEF SdInv, Ready, EndedWell

(* What is copied out of the FIFO, or into it, and what is left to copy.     *)
LEMMA DrawnIs ==
  ASSUME SdInv, NEW S, sd.fifo \in Seq(S)
  PROVE  /\ Drawn \in Seq(S) /\ Len(Drawn) \in 0 .. priv.remaining
         /\ Len(Drawn) = IF Len(sd.fifo) < priv.remaining THEN Len(sd.fifo) ELSE priv.remaining
         /\ SubSeq(sd.fifo, Len(Drawn) + 1, Len(sd.fifo)) \in Seq(S)
         /\ Len(SubSeq(sd.fifo, Len(Drawn) + 1, Len(sd.fifo))) = Len(sd.fifo) - Len(Drawn)
  <1> DEFINE k == IF Len(sd.fifo) < priv.remaining THEN Len(sd.fifo) ELSE priv.remaining
             l == Len(sd.fifo)
  <1>1. /\ l \in Nat /\ priv.remaining \in Nat
        /\ \A i \in 1 .. l : sd.fifo[i] \in S
    BY ElementOfSeq, SdmmcConstants DEF SdInv, PrivTypes
  <1>2. k \in Nat /\ k <= l /\ k \in 0 .. priv.remaining
    BY <1>1
  <1>3. Drawn = SubSeq(sd.fifo, 1, k)
    BY DEF Drawn
  <1> HIDE DEF k
  <1>4. \A i \in 1 .. k : sd.fifo[i] \in S
    BY <1>1, <1>2
  <1>5. Drawn \in Seq(S) /\ Len(Drawn) = IF 1 <= k THEN k - 1 + 1 ELSE 0
    BY <1>2, <1>3, <1>4, SubSeqProperties
  <1>6. Len(Drawn) = k
    BY <1>2, <1>5
  <1>7. \A i \in k + 1 .. l : sd.fifo[i] \in S
    BY <1>1, <1>2
  <1> HIDE DEF l
  <1>8. /\ SubSeq(sd.fifo, k + 1, l) \in Seq(S)
        /\ Len(SubSeq(sd.fifo, k + 1, l)) = IF k + 1 <= l THEN l - (k + 1) + 1 ELSE 0
    BY <1>1, <1>2, <1>7, SubSeqProperties
  <1>9. Len(SubSeq(sd.fifo, k + 1, l)) = l - k
    BY <1>1, <1>2, <1>8
  <1> QED BY <1>2, <1>5, <1>6, <1>8, <1>9 DEF k, l

LEMMA RoomIs ==
  ASSUME SdInv, NEW e, NEW S, e \in S, sd.fifo \in Seq(S)
  PROVE  /\ Room \in 0 .. priv.remaining
         /\ sd.fifo \o [i \in 1 .. Room |-> e] \in Seq(S)
         /\ Len(sd.fifo \o [i \in 1 .. Room |-> e]) = Len(sd.fifo) + Room
         /\ Len(sd.fifo) + Room <= FifoDepth
  <1>1. /\ Len(sd.fifo) \in Nat /\ Len(sd.fifo) <= FifoDepth /\ FifoDepth \in Nat
        /\ priv.remaining \in Nat
    BY SdmmcConstants DEF SdInv, PrivTypes, SdTypes
  <1>2. Room \in 0 .. priv.remaining /\ Room \in Nat /\ Len(sd.fifo) + Room <= FifoDepth
    BY <1>1 DEF Room
  <1> DEFINE more == [i \in 1 .. Room |-> e]
  <1>3. more \in [1 .. Room -> S]
    OBVIOUS
  <1>4. more \in Seq(S) /\ Len(more) = Room
    BY <1>2, <1>3, SeqDef
  <1> HIDE DEF more
  <1>5. sd.fifo \o more \in Seq(S) /\ Len(sd.fifo \o more) = Len(sd.fifo) + Len(more)
    BY <1>4, ConcatProperties
  <1> QED BY <1>2, <1>4, <1>5 DEF more

LEMMA CopiedIs ==
  ASSUME SdInv, Pending # {},
         caller' = IF Read THEN [caller EXCEPT !.moved = @ \o Drawn] ELSE caller
  PROVE  /\ Has(CopiedOver, PrivFields)
         /\ \A x \in PrivFields \ {"remaining"} : CopiedOver[x] = priv[x]
         /\ CopiedOver.remaining = priv.remaining - (IF Read THEN Len(Drawn)
                                                ELSE IF Filled THEN Room ELSE 0)
         /\ CopiedOver.remaining \in 0 .. XferWords
         /\ Has(Left, SdFields)
         /\ \A x \in SdFields \ {"fifo", "rintsts"} : Left[x] = sd[x]
         /\ Left.rintsts = sd.rintsts \ Pending /\ Left.rintsts \in SUBSET DataInts
         /\ Left.fifo = IF Read THEN SubSeq(sd.fifo, Len(Drawn) + 1, Len(sd.fifo))
                        ELSE IF Filled THEN sd.fifo \o [i \in 1 .. Room |-> caller.n] ELSE sd.fifo
         /\ Left.fifo \in Seq(Words) /\ Len(Left.fifo) <= FifoDepth
         /\ Has(caller', CallerFields)
         /\ \A x \in CallerFields \ {"moved"} : caller'[x] = caller[x]
         /\ caller'.moved = (IF Read THEN caller.moved \o Drawn ELSE caller.moved)
         /\ caller'.moved \in Seq(Words)
  <1>1. /\ sd.fifo \in Seq(Words) /\ caller.n \in Words /\ caller.moved \in Seq(Words)
        /\ Len(sd.fifo) \in Nat /\ Len(sd.fifo) <= FifoDepth /\ FifoDepth \in Nat
        /\ priv.remaining \in 0 .. XferWords /\ XferWords \in Nat
    BY Interrupted, SdmmcConstants DEF SdInv, SdTypes, PrivTypes, CallerTypes, Words
  <1>2. /\ Drawn \in Seq(Words) /\ Len(Drawn) \in 0 .. priv.remaining
        /\ SubSeq(sd.fifo, Len(Drawn) + 1, Len(sd.fifo)) \in Seq(Words)
        /\ Len(SubSeq(sd.fifo, Len(Drawn) + 1, Len(sd.fifo))) = Len(sd.fifo) - Len(Drawn)
    BY <1>1, DrawnIs
  <1>3. /\ Room \in 0 .. priv.remaining
        /\ sd.fifo \o [i \in 1 .. Room |-> caller.n] \in Seq(Words)
        /\ Len(sd.fifo \o [i \in 1 .. Room |-> caller.n]) = Len(sd.fifo) + Room
        /\ Len(sd.fifo) + Room <= FifoDepth
    BY <1>1, RoomIs
  <1>4. /\ Has(CopiedOver, PrivFields)
        /\ \A x \in PrivFields \ {"remaining"} : CopiedOver[x] = priv[x]
        /\ CopiedOver.remaining = priv.remaining - (IF Read THEN Len(Drawn)
                                               ELSE IF Filled THEN Room ELSE 0)
    BY DEF CopiedOver, Copied, SdInv, PrivTypes, Has, PrivFields
  <1>5. CopiedOver.remaining \in 0 .. XferWords
    <2>1. CASE Read
      BY <1>1, <1>2, <1>4, <2>1
    <2>2. CASE ~Read /\ Filled
      BY <1>1, <1>3, <1>4, <2>2
    <2>3. CASE ~Read /\ ~Filled
      BY <1>1, <1>4, <2>3
    <2> QED BY <2>1, <2>2, <2>3
  <1>6. /\ Has(Left, SdFields)
        /\ \A x \in SdFields \ {"fifo", "rintsts"} : Left[x] = sd[x]
        /\ Left.rintsts = sd.rintsts \ Pending
        /\ Left.fifo = IF Read THEN SubSeq(sd.fifo, Len(Drawn) + 1, Len(sd.fifo))
                       ELSE IF Filled THEN sd.fifo \o [i \in 1 .. Room |-> caller.n] ELSE sd.fifo
    BY DEF Left, SdInv, SdTypes, Has, SdFields
  <1>7. Left.rintsts \in SUBSET DataInts
    BY <1>6 DEF SdInv, SdTypes
  <1>8. Left.fifo \in Seq(Words) /\ Len(Left.fifo) <= FifoDepth
    <2>1. CASE Read
      <3>1. Left.fifo = SubSeq(sd.fifo, Len(Drawn) + 1, Len(sd.fifo))
        BY <1>6, <2>1
      <3>2. Len(Left.fifo) \in Nat /\ Len(Left.fifo) <= Len(sd.fifo)
        BY <1>2, <3>1
      <3> QED BY <1>1, <1>2, <3>1, <3>2
    <2>2. CASE ~Read /\ Filled
      <3>1. Left.fifo = sd.fifo \o [i \in 1 .. Room |-> caller.n]
        BY <1>6, <2>2
      <3> QED BY <1>3, <3>1
    <2>3. CASE ~Read /\ ~Filled
      BY <1>1, <1>6, <2>3
    <2> QED BY <2>1, <2>2, <2>3
  <1>9. /\ Has(caller', CallerFields)
        /\ \A x \in CallerFields \ {"moved"} : caller'[x] = caller[x]
        /\ caller'.moved = (IF Read THEN caller.moved \o Drawn ELSE caller.moved)
    <2>1. CASE Read
      BY <2>1 DEF SdInv, CallerTypes, Has, CallerFields
    <2>2. CASE ~Read
      BY <2>2 DEF SdInv, CallerTypes
    <2> QED BY <2>1, <2>2
  <1>10. caller'.moved \in Seq(Words)
    BY <1>1, <1>2, <1>9, ConcatProperties
  <1> QED BY <1>4, <1>5, <1>6, <1>7, <1>8, <1>9, <1>10

(* Whatever the handler copies is of this request, and counted once.         *)
LEMMA CopiesOurs ==
  ASSUME SdInv, Pending # {}, StillOpen,
         caller' = IF Read THEN [caller EXCEPT !.moved = @ \o Drawn] ELSE caller
  PROVE  /\ caller'.moved \in Seq({caller.n}) /\ Left.fifo \in Seq({caller.n})
         /\ Len(caller'.moved) \in Nat /\ Len(caller'.moved) <= XferWords
         /\ Len(caller'.moved) + (IF caller.write THEN 0 ELSE Len(Left.fifo)) + sd.left <= XferWords
  <1>1. caller.pc = "waiting"
    BY Interrupted
  <1>2. /\ Ours /\ priv.wrdir = caller.write
        /\ caller.n \in Words /\ caller.write \in BOOLEAN
        /\ sd.left \in Nat /\ XferWords \in Nat
        /\ caller.moved \in Seq({caller.n}) /\ sd.fifo \in Seq({caller.n})
        /\ Len(caller.moved) \in Nat /\ Len(sd.fifo) \in Nat
    BY <1>1, InOpen
  <1>3. /\ Left.fifo = IF Read THEN SubSeq(sd.fifo, Len(Drawn) + 1, Len(sd.fifo))
                       ELSE IF Filled THEN sd.fifo \o [i \in 1 .. Room |-> caller.n] ELSE sd.fifo
        /\ caller'.moved = (IF Read THEN caller.moved \o Drawn ELSE caller.moved)
    BY CopiedIs
  <1>4. /\ Drawn \in Seq({caller.n}) /\ Len(Drawn) \in 0 .. priv.remaining
        /\ SubSeq(sd.fifo, Len(Drawn) + 1, Len(sd.fifo)) \in Seq({caller.n})
        /\ Len(SubSeq(sd.fifo, Len(Drawn) + 1, Len(sd.fifo))) = Len(sd.fifo) - Len(Drawn)
    BY <1>2, DrawnIs
  <1>5. sd.fifo \o [i \in 1 .. Room |-> caller.n] \in Seq({caller.n})
    BY <1>2, RoomIs
  <1>6. Len(Drawn) \in Nat
    BY <1>4, LenProperties
  <1> DEFINE a == Len(caller.moved)
             b == Len(sd.fifo)
             k == Len(Drawn)
  <1>7. a \in Nat /\ b \in Nat /\ k \in Nat
    BY <1>2, <1>6
  <1>8. a + (IF caller.write THEN 0 ELSE b) + sd.left <= XferWords
    BY <1>2 DEF Ours
  <1>9. CASE Read
    <2>1. ~caller.write
      BY <1>2, <1>9 DEF Read
    <2>2. /\ caller'.moved = caller.moved \o Drawn
          /\ Left.fifo = SubSeq(sd.fifo, Len(Drawn) + 1, Len(sd.fifo))
      BY <1>3, <1>9
    <2>3. caller'.moved \in Seq({caller.n}) /\ Len(caller'.moved) = a + k
      BY <1>2, <1>4, <2>2, SameAppended
    <2>4. Left.fifo \in Seq({caller.n}) /\ Len(Left.fifo) = b - k
      BY <1>4, <2>2
    <2>5. Len(Left.fifo) \in Nat
      BY <2>4, LenProperties
    <2> HIDE DEF a, b, k
    <2>6. (a + k) + (b - k) + sd.left <= XferWords /\ a + k <= XferWords
      BY <1>2, <1>7, <1>8, <2>1, <2>4, <2>5
    <2> QED BY <1>7, <2>1, <2>3, <2>4, <2>6
  <1>10. CASE ~Read
    <2>1. caller'.moved = caller.moved /\ Left.fifo \in Seq({caller.n})
      BY <1>2, <1>3, <1>5, <1>10
    <2>2. ~caller.write => Left.fifo = sd.fifo
      <3> SUFFICES ASSUME ~caller.write PROVE ~Filled
        BY <1>3, <1>10
      <3>1. priv.xfrmask = Mask /\ priv.dmamode = caller.dma
        BY <1>1, Interrupted, InOpen
      <3> QED BY <3>1 DEF Filled, Pending, Mask, RecvMask
    <2>3. CASE caller.write
      <3>1. a + 0 + sd.left <= XferWords
        BY <1>8, <2>3
      <3>2. a <= XferWords
        BY <1>2, <1>7, <3>1
      <3> QED BY <1>2, <2>1, <2>3, <3>1, <3>2
    <2>4. CASE ~caller.write
      <3>1. a + b + sd.left <= XferWords
        BY <1>8, <2>4
      <3>2. a <= XferWords
        <4> HIDE DEF a, b
        <4> QED BY <1>2, <1>7, <3>1
      <3> QED BY <1>2, <2>1, <2>2, <2>4, <3>1, <3>2
    <2> QED BY <1>2, <2>3, <2>4
  <1> QED BY <1>9, <1>10

(* In an open read everything in the FIFO is drawn.                          *)
LEMMA AllDrawn ==
  ASSUME SdInv, Counted, ~caller.write, ~caller.dma, sd.left \in Nat, Len(sd.fifo) \in Nat
  PROVE  /\ Drawn = sd.fifo /\ Len(Drawn) = Len(sd.fifo)
         /\ SubSeq(sd.fifo, Len(Drawn) + 1, Len(sd.fifo)) = <<>>
         /\ priv.remaining - Len(Drawn) = sd.left
  <1>1. priv.remaining = Len(sd.fifo) + sd.left /\ sd.fifo \in Seq({caller.n})
    BY DEF Counted
  <1>2. Len(sd.fifo) < priv.remaining \/ Len(sd.fifo) = priv.remaining
    BY <1>1
  <1>3. Drawn = SubSeq(sd.fifo, 1, Len(sd.fifo))
    BY <1>2 DEF Drawn
  <1>4. Drawn = sd.fifo
    BY <1>1, <1>3, SubSeqFull
  <1>5. SubSeq(sd.fifo, Len(sd.fifo) + 1, Len(sd.fifo)) = <<>>
    BY SubSeqEmpty
  <1> QED BY <1>1, <1>4, <1>5

(* The handler found the end of the data and nothing amiss.                  *)
LEMMA DoneWell ==
  ASSUME SdInv, Pending \cap {"ERROR", "DRTO"} = {}, "DTO" \in Pending, StillOpen,
         (priv.dmamode /\ ~sd.idsts) \/ (~priv.dmamode /\ CopiedOver.remaining = 0),
         caller' = IF Read THEN [caller EXCEPT !.moved = @ \o Drawn] ELSE caller
  PROVE  /\ sd.left = 0 /\ (~priv.dmamode => sd.engine # "on")
         /\ caller'.moved \in Seq({caller.n}) /\ Len(caller'.moved) <= XferWords
         /\ sd.doubt = {} => /\ Left.fifo = <<>> /\ Len(caller'.moved) = XferWords
                             /\ priv.dmamode => sd.engine = "on"
  <1>1. Pending # {}
    OBVIOUS
  <1>2. /\ caller.pc = "waiting" /\ priv.xfrmask = Mask
        /\ sd.rintsts \cap {"ERROR", "DRTO"} = {} /\ "DTO" \in sd.rintsts
    BY <1>1, Interrupted
  <1>a. Ours /\ priv.dmamode = caller.dma /\ (~caller.dma => sd.engine # "on")
    BY <1>2, InOpen
  <1>b. sd.left = 0
    BY <1>2, <1>a DEF Ours
  <1>c. caller'.moved \in Seq({caller.n}) /\ Len(caller'.moved) <= XferWords
    BY <1>1, CopiesOurs
  <1>d. SUFFICES ASSUME sd.doubt = {}
                 PROVE  /\ Left.fifo = <<>> /\ Len(caller'.moved) = XferWords
                        /\ priv.dmamode => sd.engine = "on"
    BY <1>a, <1>b, <1>c
  <1>e. Sure
    BY <1>2, <1>d DEF Sure
  <1>3. /\ Counted /\ priv.wrdir = caller.write /\ priv.dmamode = caller.dma
        /\ caller.dma <=> sd.engine = "on"
        /\ caller.write \in BOOLEAN /\ caller.dma \in BOOLEAN
        /\ XferWords \in Nat /\ priv.remaining \in Nat
        /\ caller.moved \in Seq({caller.n}) /\ sd.fifo \in Seq({caller.n})
        /\ Len(caller.moved) \in Nat /\ Len(sd.fifo) \in Nat
    BY <1>2, <1>e, WhenOpen, InOpen
  <1>4. sd.left = 0 /\ (caller.dma => sd.fifo = <<>>)
    BY <1>2, <1>3 DEF Counted
  <1>5. /\ CopiedOver.remaining = priv.remaining - (IF Read THEN Len(Drawn)
                                               ELSE IF Filled THEN Room ELSE 0)
        /\ Left.fifo = IF Read THEN SubSeq(sd.fifo, Len(Drawn) + 1, Len(sd.fifo))
                       ELSE IF Filled THEN sd.fifo \o [i \in 1 .. Room |-> caller.n] ELSE sd.fifo
        /\ caller'.moved = (IF Read THEN caller.moved \o Drawn ELSE caller.moved)
    BY <1>1, CopiedIs
  <1>6. /\ Left.fifo = <<>>
        /\ caller'.moved \in Seq({caller.n}) /\ Len(caller'.moved) = XferWords
    <2>1. CASE caller.dma
      <3>1. ~Read /\ ~Filled
        BY <1>3, <2>1 DEF Read, Filled
      <3>2. Len(caller.moved) = XferWords
        <4>1. Len(sd.fifo) = 0 /\ sd.left = 0
          BY <1>4, <2>1
        <4> QED BY <1>3, <4>1 DEF Counted
      <3> QED BY <1>3, <1>4, <1>5, <2>1, <3>1, <3>2
    <2>2. CASE ~caller.dma /\ caller.write
      <3>1. ~Read
        BY <1>3, <2>2 DEF Read
      <3>2. /\ Len(caller.moved) + 0 = XferWords
            /\ priv.remaining + Len(sd.fifo) = 0
        BY <1>3, <1>4, <2>2 DEF Counted
      <3>3. priv.remaining = 0 /\ Len(sd.fifo) = 0 /\ Len(caller.moved) = XferWords
        BY <1>3, <3>2
      <3>4. sd.fifo = <<>>
        BY <1>3, <3>3, EmptySeq
      <3>5. sd.fifo \o [i \in 1 .. Room |-> caller.n] = <<>>
        <4>1. /\ Room \in 0 .. priv.remaining
              /\ sd.fifo \o [i \in 1 .. Room |-> caller.n] \in Seq({caller.n})
              /\ Len(sd.fifo \o [i \in 1 .. Room |-> caller.n]) = Len(sd.fifo) + Room
          BY <1>3, RoomIs
        <4>2. Len(sd.fifo) + Room = 0
          BY <3>3, <4>1
        <4> QED BY <4>1, <4>2, EmptySeq
      <3> QED BY <1>3, <1>5, <3>1, <3>3, <3>4, <3>5
    <2>3. CASE ~caller.dma /\ ~caller.write
      <3>1. Read
        BY <1>2, <1>3, <2>3 DEF Read, Filled, Mask, RecvMask, Pending
      <3>2. /\ Drawn = sd.fifo /\ SubSeq(sd.fifo, Len(Drawn) + 1, Len(sd.fifo)) = <<>>
        BY <1>3, <1>4, <2>3, AllDrawn
      <3>3. Len(caller.moved) + Len(sd.fifo) = XferWords
        <4> DEFINE a == Len(caller.moved)
                   b == Len(sd.fifo)
        <4>1. a + b + sd.left = XferWords /\ sd.left = 0
          BY <1>3, <1>4, <2>3 DEF Counted
        <4>2. a \in Nat /\ b \in Nat
          BY <1>3, <1>4, SameAppended DEF Counted
        <4> HIDE DEF a, b
        <4>3. a + b = XferWords
          BY <4>1, <4>2
        <4> QED BY <4>3 DEF a, b
      <3>4. caller'.moved = caller.moved \o sd.fifo
        BY <1>5, <3>1, <3>2
      <3>5. caller'.moved \in Seq({caller.n}) /\ Len(caller'.moved) = XferWords
        <4>1. /\ caller.moved \o sd.fifo \in Seq({caller.n})
              /\ Len(caller.moved \o sd.fifo) = Len(caller.moved) + Len(sd.fifo)
          BY <1>3, SameAppended DEF Counted
        <4> QED BY <3>3, <3>4, <4>1
      <3> QED BY <1>5, <3>1, <3>2, <3>5
    <2> QED BY <1>3, <2>1, <2>2, <2>3
  <1> QED BY <1>3, <1>6

(* The handler copied what was there, and the transfer goes on.              *)
LEMMA GoesOnKeeps ==
  ASSUME SdInv, Pending # {}, Pending \cap {"ERROR", "DRTO", "DTO"} = {},
         priv' = CopiedOver, sd' = Left, UNCHANGED <<waitsem, waitwdog>>,
         caller' = IF Read THEN [caller EXCEPT !.moved = @ \o Drawn] ELSE caller
  PROVE  SdInv'
  <1>1. /\ caller.pc = "waiting" /\ priv.xfrmask = Mask /\ priv.xfrmask # {}
        /\ sd.rintsts \cap {"ERROR", "DRTO", "DTO"} = {}
        /\ ~priv.dmafastready /\ priv.wkupevent # {"TRANSFERDONE"}
    BY Interrupted
  <1>2. /\ Has(priv', PrivFields)
        /\ priv'.waitevents = priv.waitevents /\ priv'.wkupevent = priv.wkupevent
        /\ priv'.xfrmask = priv.xfrmask /\ priv'.dmamask = priv.dmamask
        /\ priv'.dmamode = priv.dmamode /\ priv'.dmafastready = priv.dmafastready
        /\ priv'.wrdir = priv.wrdir /\ priv'.remaining \in 0 .. XferWords
        /\ priv'.remaining = priv.remaining - (IF Read THEN Len(Drawn)
                                               ELSE IF Filled THEN Room ELSE 0)
    BY CopiedIs DEF PrivFields
  <1>3. /\ Has(sd', SdFields) /\ sd'.engine = sd.engine /\ sd'.idsts = sd.idsts
        /\ sd'.left = sd.left /\ sd'.doubt = sd.doubt /\ sd'.rintsts = sd.rintsts \ Pending
        /\ sd'.rintsts \in SUBSET DataInts
        /\ sd'.fifo = (IF Read THEN SubSeq(sd.fifo, Len(Drawn) + 1, Len(sd.fifo))
                       ELSE IF Filled THEN sd.fifo \o [i \in 1 .. Room |-> caller.n] ELSE sd.fifo)
        /\ sd'.fifo \in Seq(Words) /\ Len(sd'.fifo) <= FifoDepth
    BY CopiedIs DEF SdFields
  <1>4. /\ Has(caller', CallerFields)
        /\ caller'.pc = caller.pc /\ caller'.n = caller.n /\ caller'.write = caller.write
        /\ caller'.dma = caller.dma /\ caller'.said = caller.said
        /\ caller'.moved = (IF Read THEN caller.moved \o Drawn ELSE caller.moved)
        /\ caller'.moved \in Seq(Words)
    BY CopiedIs DEF CallerFields
  <1>5. Mask' = Mask /\ (StillOpen' <=> StillOpen)
    BY <1>2, <1>4 DEF Mask, StillOpen
  <1>6. CallerTypes' /\ PrivTypes' /\ Waits'
    BY <1>2, <1>4 DEF SdInv, CallerTypes, PrivTypes, Waits
  <1>7. SdTypes'
    BY <1>3, <1>4 DEF SdInv, SdTypes
  <1>8. Masked'
    BY <1>1, <1>2, <1>3, <1>4, <1>5 DEF SdInv, Masked
  <1>9. Ready' /\ Prepared' /\ EndedWell' /\ Said'
    BY <1>1, <1>2, <1>4 DEF SdInv, Ready, Prepared, EndedWell, Said
  <1>o. ASSUME StillOpen PROVE Ours'
    <2>1. /\ caller'.moved \in Seq({caller.n}) /\ sd'.fifo \in Seq({caller.n})
          /\ Len(caller'.moved) + (IF caller.write THEN 0 ELSE Len(sd'.fifo)) + sd.left <= XferWords
      BY <1>o, CopiesOurs
    <2>2. "DTO" \notin sd'.rintsts
      BY <1>1, <1>3
    <2> QED BY <1>3, <1>4, <2>1, <2>2 DEF Ours
  <1>10. ASSUME StillOpen, Sure PROVE Counted'
    <2>1. /\ Counted /\ priv.wrdir = caller.write /\ priv.dmamode = caller.dma
          /\ caller.write \in BOOLEAN /\ caller.dma \in BOOLEAN
          /\ sd.left \in Nat /\ XferWords \in Nat /\ priv.remaining \in Nat
          /\ caller.moved \in Seq({caller.n}) /\ sd.fifo \in Seq({caller.n})
          /\ Len(caller.moved) \in Nat /\ Len(sd.fifo) \in Nat
      BY <1>1, <1>10, WhenOpen, InOpen
    <2>2. Read \/ Filled => ~caller.dma
      BY <2>1 DEF Read, Filled
    <2>3. "DTO" \notin sd'.rintsts
      BY <1>1, <1>3
    <2>6. CASE ~Read /\ ~Filled
      <3>1. /\ sd'.fifo = sd.fifo /\ caller'.moved = caller.moved
            /\ priv'.remaining = priv.remaining
        BY <1>2, <1>3, <1>4, <2>1, <2>6
      <3> QED BY <1>3, <1>4, <2>1, <2>3, <3>1 DEF Counted
    <2>4. CASE Read
      <3>0. ~caller.write /\ ~caller.dma
        BY <2>1, <2>2, <2>4 DEF Read
      <3>1. Read
        BY <2>4
      <3>2. /\ Drawn = sd.fifo /\ SubSeq(sd.fifo, Len(Drawn) + 1, Len(sd.fifo)) = <<>>
            /\ priv.remaining - Len(Drawn) = sd.left
        BY <2>1, <3>0, AllDrawn
      <3>3. /\ caller'.moved = caller.moved \o sd.fifo /\ sd'.fifo = <<>>
            /\ priv'.remaining = sd.left
        BY <1>2, <1>3, <1>4, <3>1, <3>2
      <3>4. /\ caller'.moved \in Seq({caller.n})
            /\ Len(caller'.moved) = Len(caller.moved) + Len(sd.fifo)
        <4>1. /\ caller.moved \o sd.fifo \in Seq({caller.n})
              /\ Len(caller.moved \o sd.fifo) = Len(caller.moved) + Len(sd.fifo)
          BY <2>1, SameAppended
        <4> QED BY <3>3, <4>1
      <3>5. Len(caller.moved) + Len(sd.fifo) + sd.left = XferWords
        BY <2>1, <3>0 DEF Counted
      <3>6. /\ sd'.fifo \in Seq({caller.n}) /\ Len(sd'.fifo) = 0
        BY <3>3
      <3>7. Len(caller'.moved) + Len(sd'.fifo) + sd'.left = XferWords
        <4>1. Len(caller'.moved) \in Nat /\ Len(caller'.moved) + 0 = Len(caller'.moved)
          BY <3>4
        <4> QED BY <1>3, <3>4, <3>5, <3>6, <4>1
      <3>8. priv'.remaining = Len(sd'.fifo) + sd'.left
        <4>1. 0 + sd.left = sd.left
          BY <2>1
        <4> QED BY <1>3, <3>3, <3>6, <4>1
      <3> QED BY <1>4, <2>3, <3>0, <3>4, <3>6, <3>7, <3>8 DEF Counted
    <2>5. CASE Filled
      <3>0. caller.write /\ ~caller.dma
        BY <1>1, <2>2, <2>5 DEF Filled, Mask, RecvMask, Pending
      <3>1. ~Read /\ Filled
        BY <2>5 DEF Read
      <3>2. /\ Room \in 0 .. priv.remaining
            /\ sd.fifo \o [i \in 1 .. Room |-> caller.n] \in Seq({caller.n})
            /\ Len(sd.fifo \o [i \in 1 .. Room |-> caller.n]) = Len(sd.fifo) + Room
        BY <2>1, RoomIs
      <3>3. /\ sd'.fifo \in Seq({caller.n}) /\ Len(sd'.fifo) = Len(sd.fifo) + Room
            /\ priv'.remaining = priv.remaining - Room /\ caller'.moved = caller.moved
        BY <1>2, <1>3, <1>4, <3>1, <3>2
      <3>4. /\ Len(caller.moved) + sd.left = XferWords
            /\ priv.remaining + Len(sd.fifo) = sd.left
        BY <2>1, <3>0 DEF Counted
      <3>5. priv'.remaining + Len(sd'.fifo) = sd'.left
        <4> DEFINE l == Len(sd.fifo)
        <4>1. l \in Nat /\ Room \in Int /\ priv.remaining \in Nat /\ priv.remaining + l = sd.left
          BY <2>1, <3>2, <3>4
        <4>2. priv'.remaining = priv.remaining - Room /\ Len(sd'.fifo) = l + Room
          BY <3>3
        <4> HIDE DEF l
        <4>3. (priv.remaining - Room) + (l + Room) = sd.left
          BY <4>1
        <4> QED BY <1>3, <4>2, <4>3
      <3> QED BY <1>3, <1>4, <2>1, <2>3, <3>0, <3>3, <3>4, <3>5 DEF Counted
    <2> QED BY <2>4, <2>5, <2>6
  <1>11. Moving'
    <2>1. Sure' => Sure
      BY <1>1, <1>3 DEF Sure
    <2> QED BY <1>1, <1>2, <1>3, <1>4, <1>5, <1>10, <1>o, <2>1 DEF SdInv, Moving
  <1> QED BY <1>6, <1>7, <1>8, <1>9, <1>11 DEF SdInv

LEMMA InterruptKeeps == ASSUME SdInv, sdmmc_interrupt PROVE SdInv'
  <1>1. /\ Pending # {}
        /\ caller' = IF Read THEN [caller EXCEPT !.moved = @ \o Drawn] ELSE caller
    BY HandlerIs
  <1>2. /\ Has(CopiedOver, PrivFields) /\ Has(Left, SdFields)
        /\ \A x \in PrivFields \ {"remaining"} : CopiedOver[x] = priv[x]
        /\ \A x \in SdFields \ {"fifo", "rintsts"} : Left[x] = sd[x]
        /\ Left.fifo \in Seq(Words) /\ Len(Left.fifo) <= FifoDepth
        /\ Has(caller', CallerFields)
        /\ \A x \in CallerFields \ {"moved"} : caller'[x] = caller[x]
        /\ caller'.moved \in Seq(Words)
    BY <1>1, CopiedIs
  <1>3. priv.xfrmask # {} /\ caller.pc = "waiting"
    BY <1>1, Interrupted
  <1>4. \/ endtransfer(CopiedOver, Left, {"TRANSFERDONE", "ERROR"})
        \/ endtransfer(CopiedOver, Left, {"TRANSFERDONE", "TIMEOUT"})
        \/ /\ Pending \cap {"ERROR", "DRTO", "DTO"} = {}
           /\ priv' = CopiedOver /\ sd' = Left /\ UNCHANGED <<waitsem, waitwdog>>
        \/ /\ Pending \cap {"ERROR", "DRTO"} = {} /\ "DTO" \in Pending
           /\ (CopiedOver.dmamode /\ ~sd.idsts) \/ (~CopiedOver.dmamode /\ CopiedOver.remaining = 0)
           /\ endtransfer(CopiedOver, Left, {"TRANSFERDONE"})
    BY HandlerIs
  <1>5. CASE endtransfer(CopiedOver, Left, {"TRANSFERDONE", "ERROR"})
    <2>1. {"TRANSFERDONE", "ERROR"} # {"TRANSFERDONE"}
      OBVIOUS
    <2> QED BY <1>2, <1>3, <1>5, <2>1, EndTransferKeeps
  <1>6. CASE endtransfer(CopiedOver, Left, {"TRANSFERDONE", "TIMEOUT"})
    <2>1. {"TRANSFERDONE", "TIMEOUT"} # {"TRANSFERDONE"}
      OBVIOUS
    <2> QED BY <1>2, <1>3, <1>6, <2>1, EndTransferKeeps
  <1>7. CASE /\ Pending \cap {"ERROR", "DRTO", "DTO"} = {}
             /\ priv' = CopiedOver /\ sd' = Left /\ UNCHANGED <<waitsem, waitwdog>>
    BY <1>1, <1>7, GoesOnKeeps
  <1>8. CASE /\ Pending \cap {"ERROR", "DRTO"} = {} /\ "DTO" \in Pending
             /\ (CopiedOver.dmamode /\ ~sd.idsts) \/ (~CopiedOver.dmamode /\ CopiedOver.remaining = 0)
             /\ endtransfer(CopiedOver, Left, {"TRANSFERDONE"})
    <2>1. CopiedOver.dmamode = priv.dmamode
      BY <1>2 DEF PrivFields
    <2>2. (priv.dmamode /\ ~sd.idsts) \/ (~priv.dmamode /\ CopiedOver.remaining = 0)
      BY <1>8, <2>1
    <2>3. StillOpen =>
             /\ sd.left = 0 /\ (~priv.dmamode => sd.engine # "on")
             /\ caller'.moved \in Seq({caller.n}) /\ Len(caller'.moved) <= XferWords
             /\ sd.doubt = {} => /\ Left.fifo = <<>> /\ Len(caller'.moved) = XferWords
                                 /\ priv.dmamode => sd.engine = "on"
      BY <1>1, <1>8, <2>2, DoneWell
    <2>4. /\ priv.dmamode =>
               sd.left = 0 /\ (sd.doubt = {} => Left.fifo = <<>> /\ ~sd.idsts /\ sd.engine = "on")
          /\ priv.waitevents # {} =>
               /\ sd.left = 0 /\ (~priv.dmamode => sd.engine # "on")
               /\ caller'.moved \in Seq({caller.n}) /\ Len(caller'.moved) <= XferWords
               /\ sd.doubt = {} => Left.fifo = <<>> /\ Len(caller'.moved) = XferWords
      <3>1. priv.dmamode => StillOpen
        BY DEF StillOpen
      <3>2. priv.waitevents # {} => StillOpen
        BY DEF StillOpen
      <3>3. priv.dmamode => ~sd.idsts
        BY <2>2
      <3>4. CASE StillOpen
        <4>1. CASE sd.doubt = {}
          <5>1. /\ sd.left = 0 /\ (~priv.dmamode => sd.engine # "on")
                /\ caller'.moved \in Seq({caller.n}) /\ Len(caller'.moved) <= XferWords
                /\ Left.fifo = <<>> /\ Len(caller'.moved) = XferWords
                /\ priv.dmamode => sd.engine = "on"
            BY <2>3, <3>4, <4>1, Zenon
          <5> QED BY <3>3, <5>1, Zenon
        <4>2. CASE sd.doubt # {}
          BY <2>3, <3>4, <4>2, Zenon
        <4> QED BY <4>1, <4>2
      <3> QED BY <3>1, <3>2, <3>4
    <2>5. endtransfer(CopiedOver, Left, {"TRANSFERDONE"})
      BY <1>8
    <2> QED BY <1>2, <1>3, <2>4, <2>5, EndTransferKeeps
  <1> QED BY <1>4, <1>5, <1>6, <1>7, <1>8

LEMMA SdStep == SdInv /\ [SdmmcNext]_sdvars => SdInv'
  <1> SUFFICES ASSUME SdInv, [SdmmcNext]_sdvars PROVE SdInv'
    OBVIOUS
  <1>1. CASE CallerStep
    BY <1>1, WaitenableKeeps, StepsKeep, FillKeeps, ArmKeeps, TakenKeeps, CancelStopsKeeps,
       EventwaitKeeps DEF CallerStep
  <1>2. CASE eventtimeout
    BY <1>2, TimeoutKeeps
  <1>3. CASE HandlerStep
    BY <1>3, InterruptKeeps, IdmacErrorKeeps DEF HandlerStep
  <1>4. CASE CardStep
    <2>1. CASE EngineMoves
      BY <2>1, EngineReadsKeeps, EngineWritesKeeps DEF EngineMoves
    <2> QED BY <1>4, <2>1, CardSendsKeeps, CardTakesKeeps, FailuresKeep DEF CardStep
  <1>5. CASE UNCHANGED sdvars
    <2>1. CallerTypes' /\ PrivTypes' /\ SdTypes' /\ Waits'
      BY <1>5 DEF SdInv, CallerTypes, PrivTypes, SdTypes, Waits, sdvars
    <2>2. Masked' /\ Ready' /\ Prepared'
      BY <1>5 DEF SdInv, Masked, Mask, Ready, Prepared, StillOpen, sdvars
    <2>3. Moving' /\ EndedWell' /\ Said'
      BY <1>5 DEF SdInv, Moving, Mask, StillOpen, Ours, Sure, Counted, EndedWell, Said, sdvars
    <2> QED BY <2>1, <2>2, <2>3 DEF SdInv
  <1> QED BY <1>1, <1>2, <1>3, <1>4, <1>5 DEF SdmmcNext

LEMMA SdIsHonest == SdInv => SdTransfers
  <1> SUFFICES ASSUME SdInv PROVE SdTransfers
    OBVIOUS
  <1>1. CleanReuse
    BY DEF SdInv, CleanReuse, Ready
  <1>2. ASSUME caller.said = "ok"
        PROVE  /\ caller.moved = [i \in 1 .. Len(caller.moved) |-> caller.n]
               /\ Len(caller.moved) <= XferWords
               /\ sd.doubt = {} => Len(caller.moved) = XferWords
    <2>1. /\ caller.moved \in Seq({caller.n}) /\ Len(caller.moved) <= XferWords
          /\ sd.doubt = {} => Len(caller.moved) = XferWords
      BY <1>2 DEF SdInv, Said, EndedWell
    <2>2. Len(caller.moved) \in Nat
      BY <2>1, LenProperties
    <2>3. caller.moved = [i \in 1 .. Len(caller.moved) |-> caller.n]
      BY <2>1, <2>2, SameThroughout
    <2> QED BY <2>1, <2>3
  <1> QED BY <1>1, <1>2 DEF SdTransfers, HonestTransfer

LEMMA SdIsTyped == SdInv => SdmmcTypeOK
  <1> SUFFICES ASSUME SdInv PROVE SdmmcTypeOK
    OBVIOUS
  <1>1. /\ caller.n \in 0 .. Requests /\ caller.moved \in Seq(1 .. Requests)
        /\ caller \in [pc : {"idle", "enabled", "filled", "setup", "waiting", "refused", "masked"},
                       n : 0..Requests, write : BOOLEAN, dma : BOOLEAN, moved : Seq(1..Requests),
                       said : {"none", "ok", "failed"}]
    BY DEF SdInv, CallerTypes, Has, CallerFields, Steps, Words
  <1>2. /\ priv.waitevents \in SUBSET SdioEvents /\ priv.wkupevent \in SUBSET SdioEvents
        /\ priv.xfrmask \in SUBSET DataInts
    BY DEF SdInv, PrivTypes, SdioEvents, Wakes, RecvMask, SendMask, DmaMask, DataInts
  <1>3. priv \in [waitevents : SUBSET SdioEvents, wkupevent : SUBSET SdioEvents,
                  xfrmask : SUBSET DataInts, dmamask : BOOLEAN, dmamode : BOOLEAN,
                  dmafastready : BOOLEAN, remaining : 0..XferWords, wrdir : BOOLEAN]
    BY <1>2 DEF SdInv, PrivTypes, Has, PrivFields
  <1>4. waitsem \in 0..Requests /\ waitwdog \in BOOLEAN
    <2>1. waitsem \in Nat /\ waitsem <= caller.n
      BY <1>1, SdmmcConstants DEF SdInv, Waits
    <2> QED BY <1>1, <2>1, SdmmcConstants DEF SdInv, Waits
  <1>5. sd \in [fifo : Seq(1..Requests), rintsts : SUBSET DataInts, idsts : BOOLEAN,
                engine : {"off", "on", "stuck"}, left : 0..XferWords, doubt : SUBSET Doubts]
    BY DEF SdInv, SdTypes, Has, SdFields, Words
  <1>6. Len(sd.fifo) <= FifoDepth
    BY DEF SdInv, SdTypes
  <1> QED BY <1>1, <1>3, <1>4, <1>5, <1>6 DEF SdmmcTypeOK

(* A transfer that rk3506_sdmmc.c reports as done has no word of another     *)
(* request where its words belong and, unless a block ended without its end  *)
(* bit or CRC status, DTO came before the FIFO was empty, or the bus master  *)
(* was not reset after such an end, each of its words; and the bus master is *)
(* started again without a reset only when it has nothing left to do, or     *)
(* after such a transfer.  For any number of requests, words and FIFO        *)
(* entries, with a watchdog that may expire before the setup is done.        *)
THEOREM TransfersAreHonest == SdmmcSpec => []SdTransfers
BY SdStarts, SdStep, SdIsHonest, PTL DEF SdmmcSpec

(* The types of the controller and its caller.                               *)
THEOREM TransfersAreTyped == SdmmcSpec => []SdmmcTypeOK
BY SdStarts, SdStep, SdIsTyped, PTL DEF SdmmcSpec

-----------------------------------------------------------------------------
(* Captures of the camera, for any number of tasks, frames, failing writes   *)
(* and uses.  The inductive invariant says what each step of a task holds:   *)
(* the two locks, where the capture channel writes and how it is routed, and *)
(* which frames are allocated and which are shown.                           *)
TaskFields == {"pc", "op", "held", "out", "was", "good", "then", "on"}

(* Where a task goes on when the sensor has been switched.                   *)
Targets == {"started", "switched", "capture", "halted", "process", "restore", "publish"}

(* What a task is.                                                           *)
Typed(r) ==
  /\ Has(r, TaskFields)
  /\ r.pc \in CameraSteps /\ r.op \in CameraOps
  /\ r.held \in SUBSET FrameRange /\ r.out \in 0 .. FrameCount
  /\ r.was \in BOOLEAN /\ r.good \in BOOLEAN
  /\ r.then \in CameraSteps \cup {"none"} /\ r.on \in BOOLEAN
  /\ r.pc \in {"stream", "flag"} => r.then \in Targets

TaskTypes == Has(task, CameraTasks) /\ \A t \in CameraTasks : Typed(task[t])

SharedTypes ==
  /\ lock \in CameraTasks \cup {NoTask} /\ capture_lock \in CameraTasks \cup {NoTask}
  /\ sensor \in BOOLEAN /\ streaming \in BOOLEAN /\ fpsfailed \in BOOLEAN
  /\ video_frame \in 0 .. FrameCount /\ isp_frame \in 0 .. FrameCount
  /\ heap \in SUBSET FrameRange /\ cif \in SUBSET FrameRange
  /\ route \in {"raw", "isp"}
  /\ vts \in Rates /\ exposure \in 1 .. 3
  /\ busleft \in 0 .. BusFailures /\ usesleft \in 0 .. Uses

(* The step a task is at, or comes to when the sensor has been switched.     *)
Aim(t) == IF task[t].pc \in {"stream", "flag"} THEN task[t].then ELSE task[t].pc

Capturing == {"capture", "burst", "exchange", "drop", "done", "check", "halted", "process",
              "restore", "publish"}
Routed == {"check", "process", "restore"}
IspSteps == {"halted", "process", "restore", "publish"}
Copies(t) == task[t].pc = "copy" /\ task[t].op = "video"

(* Whoever captures has the capture lock, and whoever switches the sensor or *)
(* copies the published frame has the other.                                 *)
Locked ==
  \A t \in CameraTasks :
    /\ Aim(t) \in Capturing <=> capture_lock = t
    /\ Aim(t) = "switched" \/ Copies(t) => lock = t

(* What the channel writes to, and its route, are those of the capture.      *)
Channel ==
  /\ capture_lock = NoTask => route = "raw" /\ cif = {}
  /\ \A t \in CameraTasks : capture_lock = t =>
       /\ Aim(t) \in Routed \/ route = "raw"
       /\ Aim(t) = "burst" => cif = task[t].held
       /\ Aim(t) = "process" => cif = task[t].held \ {task[t].out}
       /\ Aim(t) \notin {"burst", "process"} => cif = {}

(* The frames of a capture are allocated and not shown, but for the one that *)
(* was exchanged.                                                            *)
FramesOf(t) ==
  /\ Aim(t) \in IspSteps \cup {"burst", "exchange", "drop"} =>
       task[t].held \subseteq heap /\ isp_frame \notin task[t].held
  /\ Aim(t) \in IspSteps \cup {"burst", "exchange"} => video_frame \notin task[t].held
  /\ Aim(t) \in IspSteps \cup {"exchange"} => task[t].out \in task[t].held
  /\ Aim(t) = "drop" =>
       /\ video_frame \in task[t].held /\ task[t].out \notin task[t].held
       /\ task[t].out = isp_frame => isp_frame = 0

Shown ==
  /\ {video_frame, isp_frame} \subseteq heap \cup {0}
  /\ video_frame = isp_frame => isp_frame = 0

Frames ==
  /\ Shown
  /\ \A t \in CameraTasks :
       FramesOf(t) /\ (Copies(t) => task[t].out = video_frame /\ video_frame # 0)

CamInv == TaskTypes /\ SharedTypes /\ Locked /\ Channel /\ Frames /\ ExposureFits
-----------------------------------------------------------------------------
(* A task that does nothing.                                                 *)
LEMMA IdleIs ==
  /\ Has(Idle, TaskFields)
  /\ Idle.pc = "idle" /\ Idle.op = "none" /\ Idle.held = {} /\ Idle.out = 0
  /\ Idle.was = FALSE /\ Idle.good = FALSE /\ Idle.then = "none" /\ Idle.on = FALSE
  <1>1. /\ Idle.pc = "idle" /\ Idle.op = "none" /\ Idle.held = {} /\ Idle.out = 0
        /\ Idle.was = FALSE /\ Idle.good = FALSE /\ Idle.then = "none" /\ Idle.on = FALSE
    BY DEF Idle
  <1>2. Has(Idle, TaskFields)
    BY DEF Idle, Has, TaskFields
  <1> QED BY <1>1, <1>2

LEMMA IdleTyped == Typed(Idle)
  <1> USE CameraConstants
  <1>1. Idle.out \in 0 .. FrameCount /\ Idle.held \in SUBSET FrameRange
    BY IdleIs
  <1>2. Idle.was \in BOOLEAN /\ Idle.good \in BOOLEAN /\ Idle.on \in BOOLEAN
    BY IdleIs
  <1>3. /\ Idle.pc \in CameraSteps /\ Idle.op \in CameraOps
        /\ Idle.then \in CameraSteps \cup {"none"}
        /\ Idle.pc \notin {"stream", "flag"}
    BY IdleIs DEF CameraSteps, CameraOps
  <1> QED BY <1>1, <1>2, <1>3, IdleIs DEF Typed

(* The initial state.                                                        *)
LEMMA CameraStarts ==
  ASSUME CameraInit PROVE CamInv
  <1> USE CameraConstants DEF CameraInit
  <1>1. TaskTypes
    <2>1. Has(task, CameraTasks) /\ \A t \in CameraTasks : task[t] = Idle
      BY DEF Has
    <2>3. ASSUME NEW t \in CameraTasks PROVE Typed(task[t])
      BY <2>1, IdleTyped, Zenon
    <2> QED BY <2>1, <2>3 DEF TaskTypes
  <1>2. SharedTypes
    <2>1. 1 \in FrameRange /\ 0 \in 0 .. FrameCount /\ 1 \in 0 .. FrameCount
      BY DEF FrameRange
    <2>2. busleft \in 0 .. BusFailures /\ usesleft \in 0 .. Uses
      OBVIOUS
    <2>3. vts \in Rates /\ exposure \in 1 .. 3
      BY DEF Rates
    <2> QED BY <2>1, <2>2, <2>3 DEF SharedTypes
  <1>3. Locked
    BY IdleIs DEF Locked, Aim, Capturing, Copies
  <1>4. Channel
    BY IdleIs DEF Channel, Aim
  <1>5. Frames
    BY IdleIs DEF Frames, Shown, FramesOf, Aim, IspSteps, Copies
  <1>6. ExposureFits
    BY DEF ExposureFits
  <1> QED BY <1>1, <1>2, <1>3, <1>4, <1>5, <1>6 DEF CamInv

(* What a step leaves of the tasks: t is what it should be, the others stay. *)
Moved(t) ==
  /\ Has(task', CameraTasks) /\ Typed(task'[t])
  /\ \A u \in CameraTasks \ {t} : task'[u] = task[u]

LEMMA Edited ==
  ASSUME Has(task, CameraTasks), NEW t \in CameraTasks, NEW r, Typed(r),
         task' = [task EXCEPT ![t] = r]
  PROVE  Moved(t) /\ task'[t] = r
BY DEF Has, Moved

LEMMA OneMoves ==
  ASSUME TaskTypes, NEW t \in CameraTasks, Moved(t)
  PROVE  TaskTypes'
BY DEF TaskTypes, Moved, Has

LEMMA OthersStay ==
  ASSUME NEW t \in CameraTasks, Moved(t), NEW u \in CameraTasks, u # t
  PROVE  /\ Aim(u)' = Aim(u) /\ (Copies(u)' <=> Copies(u))
         /\ task'[u].held = task[u].held /\ task'[u].out = task[u].out
BY DEF Moved, Aim, Copies

(* Only one task captures. *)
LEMMA Alone ==
  ASSUME Locked, NEW t \in CameraTasks, NEW u \in CameraTasks, u # t, Aim(t) \in Capturing
  PROVE  Aim(u) \notin Capturing
BY DEF Locked

(* A step that leaves the locks alone. *)
LEMMA LockedStays ==
  ASSUME Locked, NEW t \in CameraTasks, Moved(t), UNCHANGED <<lock, capture_lock>>,
         Aim(t)' \in Capturing <=> Aim(t) \in Capturing,
         Aim(t)' = "switched" \/ Copies(t)' => lock = t
  PROVE  Locked'
  <1> SUFFICES ASSUME NEW u \in CameraTasks
               PROVE  /\ Aim(u)' \in Capturing <=> capture_lock = u
                      /\ Aim(u)' = "switched" \/ Copies(u)' => lock = u
    BY DEF Locked
  <1>1. CASE u = t
    BY <1>1 DEF Locked
  <1>2. CASE u # t
    BY <1>2, OthersStay DEF Locked
  <1> QED BY <1>1, <1>2

(* A step that gives up a lock, or both. *)
LEMMA LockedDrops ==
  ASSUME Locked, NEW t \in CameraTasks, Moved(t),
         lock' = lock \/ lock = t, capture_lock' = capture_lock \/ (capture_lock = t /\ capture_lock' = NoTask),
         Aim(t)' \notin Capturing, capture_lock' # t, Aim(t)' # "switched", ~Copies(t)'
  PROVE  Locked'
  <1> SUFFICES ASSUME NEW u \in CameraTasks
               PROVE  /\ Aim(u)' \in Capturing <=> capture_lock' = u
                      /\ Aim(u)' = "switched" \/ Copies(u)' => lock' = u
    BY DEF Locked
  <1>1. CASE u = t
    BY <1>1
  <1>2. CASE u # t
    BY <1>2, OthersStay, CameraConstants DEF Locked
  <1> QED BY <1>1, <1>2

(* A step that takes a lock. *)
LEMMA LockedTakes ==
  ASSUME Locked, NEW t \in CameraTasks, Moved(t),
         lock' = lock \/ (lock = NoTask /\ lock' = t),
         capture_lock' = capture_lock \/ (capture_lock = NoTask /\ capture_lock' = t),
         Aim(t)' \in Capturing <=> capture_lock' = t,
         Aim(t)' = "switched" \/ Copies(t)' => lock' = t
  PROVE  Locked'
  <1> SUFFICES ASSUME NEW u \in CameraTasks
               PROVE  /\ Aim(u)' \in Capturing <=> capture_lock' = u
                      /\ Aim(u)' = "switched" \/ Copies(u)' => lock' = u
    BY DEF Locked
  <1>1. CASE u = t
    BY <1>1
  <1>2. CASE u # t
    BY <1>2, OthersStay, CameraConstants DEF Locked
  <1> QED BY <1>1, <1>2

(* The channel and the route are those of the capture that goes on. *)
LEMMA ChannelOfOne ==
  ASSUME NEW t \in CameraTasks, capture_lock' = t,
         Aim(t)' \in Routed \/ route' = "raw",
         Aim(t)' = "burst" => cif' = task'[t].held,
         Aim(t)' = "process" => cif' = task'[t].held \ {task'[t].out},
         Aim(t)' \notin {"burst", "process"} => cif' = {}
  PROVE  Channel'
BY CameraConstants DEF Channel

LEMMA ChannelStays ==
  ASSUME Channel, Locked, NEW t \in CameraTasks, Moved(t), Aim(t) \notin Capturing,
         Aim(t)' \notin Capturing, UNCHANGED <<capture_lock, route, cif>>
  PROVE  Channel'
  <1> SUFFICES ASSUME NEW u \in CameraTasks, capture_lock = u
               PROVE  /\ Aim(u)' \in Routed \/ route = "raw"
                      /\ Aim(u)' = "burst" => cif = task'[u].held
                      /\ Aim(u)' = "process" => cif = task'[u].held \ {task'[u].out}
                      /\ Aim(u)' \notin {"burst", "process"} => cif = {}
    BY DEF Channel
  <1>1. u # t
    BY DEF Locked
  <1> QED BY <1>1, OthersStay DEF Channel

(* The frames of the others do not matter to the capture, nor their readers  *)
(* to one that exchanges the frame within the lock.                          *)
LEMMA FramesOfOne ==
  ASSUME Locked, Frames, NEW t \in CameraTasks, Moved(t), Aim(t) \in Capturing,
         video_frame' = video_frame \/ lock = NoTask,
         Shown', FramesOf(t)', ~Copies(t)'
  PROVE  Frames'
  <1> SUFFICES ASSUME NEW u \in CameraTasks, u # t
               PROVE  /\ FramesOf(u)'
                      /\ Copies(u)' => task'[u].out = video_frame' /\ video_frame' # 0
    BY DEF Frames
  <1>1. Aim(u)' \notin Capturing
    BY Alone, OthersStay
  <1>2. FramesOf(u)'
    BY <1>1 DEF FramesOf, Capturing, IspSteps
  <1>3. Copies(u)' => task'[u].out = video_frame' /\ video_frame' # 0
    BY OthersStay, CameraConstants DEF Frames, Locked
  <1> QED BY <1>2, <1>3

LEMMA FramesStay ==
  ASSUME Frames, NEW t \in CameraTasks, Moved(t), UNCHANGED <<video_frame, isp_frame, heap>>,
         FramesOf(t)',
         Copies(t)' => task'[t].out = video_frame /\ video_frame # 0
  PROVE  Frames'
  <1> SUFFICES ASSUME NEW u \in CameraTasks, u # t
               PROVE  /\ FramesOf(u)'
                      /\ Copies(u)' => task'[u].out = video_frame' /\ video_frame' # 0
    BY DEF Frames, Shown
  <1> QED BY OthersStay DEF Frames, FramesOf

(* An I2C write that was accepted or refused, and the flag after it.         *)
LEMMA StreamWriteKeeps ==
  ASSUME CamInv, NEW t \in CameraTasks, StreamWrite(t) PROVE CamInv'
  <1> USE CameraConstants
  <1>1. /\ task[t].pc = "stream" /\ Typed(task[t]) /\ Has(task, CameraTasks)
        /\ UNCHANGED <<lock, capture_lock, streaming, Published, heap, cif, route, Settings>>
    BY DEF CamInv, TaskTypes, Typed, StreamWrite, CamAt
  <1>2. PICK r : /\ task' = [task EXCEPT ![t] = r] /\ Typed(r)
                 /\ r.pc \in {"flag", task[t].then} /\ r.then = task[t].then
                 /\ r.held = task[t].held /\ r.out = task[t].out /\ r.op = task[t].op
    <2>1. CASE Goto(t, "flag")
      <3> DEFINE r == [task[t] EXCEPT !.pc = "flag"]
      <3>1. task' = [task EXCEPT ![t] = r]
        BY <1>1, <2>1 DEF Goto, Has
      <3>2. /\ Typed(r) /\ r.pc = "flag" /\ r.then = task[t].then
            /\ r.held = task[t].held /\ r.out = task[t].out /\ r.op = task[t].op
        BY <1>1 DEF Typed, Has, TaskFields, CameraSteps, Targets
      <3> HIDE DEF r
      <3> QED BY <3>1, <3>2
    <2>2. CASE task' = [task EXCEPT ![t].pc = task[t].then,
                                    ![t].good = @ /\ task[t].then = "restore"]
      <3> DEFINE r == [task[t] EXCEPT !.pc = task[t].then, !.good = @ /\ task[t].then = "restore"]
      <3>1. task' = [task EXCEPT ![t] = r]
        BY <1>1, <2>2 DEF Has, Typed, TaskFields
      <3>2. /\ Typed(r) /\ r.pc = task[t].then /\ r.then = task[t].then
            /\ r.held = task[t].held /\ r.out = task[t].out /\ r.op = task[t].op
        BY <1>1 DEF Typed, Has, TaskFields, CameraSteps, Targets
      <3> HIDE DEF r
      <3> QED BY <3>1, <3>2
    <2> QED BY <2>1, <2>2 DEF StreamWrite
  <1>3. Moved(t) /\ task'[t] = r
    BY <1>1, <1>2, Edited
  <1>4. TaskTypes'
    BY <1>3, OneMoves DEF CamInv
  <1>5. SharedTypes'
    <2>1. sensor' \in BOOLEAN
      BY <1>1 DEF CamInv, SharedTypes, StreamWrite, Typed
    <2>2. busleft' \in 0 .. BusFailures /\ usesleft' = usesleft
      BY <1>1 DEF CamInv, SharedTypes, StreamWrite
    <2> QED BY <1>1, <2>1, <2>2 DEF CamInv, SharedTypes, Published, Settings
  <1>6. Aim(t)' = Aim(t) /\ ~Copies(t) /\ ~Copies(t)'
    BY <1>1, <1>2, <1>3 DEF Aim, Copies, Typed, Targets
  <1>7. Locked' /\ Channel' /\ Frames' /\ ExposureFits'
    BY <1>1, <1>2, <1>3, <1>6, OthersStay DEF CamInv, Locked, Channel, Frames, Shown, FramesOf,
       ExposureFits, Published, Settings
  <1> QED BY <1>4, <1>5, <1>7 DEF CamInv
-----------------------------------------------------------------------------
(* The frames that the memory gives are free ones.                           *)
LEMMA OneMore ==
  ASSUME NEW S, IsFiniteSet(S), NEW T \in SUBSET S, Cardinality(T) < Cardinality(S)
  PROVE  \E x \in S : T \cup {x} \in SUBSET S /\ Cardinality(T \cup {x}) = Cardinality(T) + 1
  <1>1. IsFiniteSet(T) /\ Cardinality(T) \in Nat
    BY FS_Subset, FS_CardinalityType
  <1>2. PICK x \in S : x \notin T
    BY <1>1
  <1>3. Cardinality(T \cup {x}) = Cardinality(T) + 1
    BY <1>1, <1>2, FS_AddElement
  <1> QED BY <1>2, <1>3

LEMMA NoFrame == 0 \in 0 .. FrameCount /\ {} \in SUBSET FrameRange
BY CameraConstants

LEMMA FreeIs ==
  ASSUME NEW k \in {2, 3}, HasRoom(k)
  PROVE  FreeFrames(k) \subseteq FrameRange \ heap /\ FreeFrames(k) # {}
  <1> DEFINE S == FrameRange \ heap
  <1> USE CameraConstants
  <1>1. IsFiniteSet(FrameRange) /\ S \in SUBSET FrameRange
    BY FS_Interval DEF FrameRange
  <1>2. IsFiniteSet(S) /\ Cardinality(S) \in Nat /\ Cardinality(S) >= k
    BY <1>1, FS_Subset, FS_CardinalityType DEF HasRoom
  <1> HIDE DEF S
  <1>3. {} \in SUBSET S /\ Cardinality({}) = 0
    BY FS_EmptySet
  <1>4. PICK x \in S : {} \cup {x} \in SUBSET S /\ Cardinality({} \cup {x}) = 1
    <2>1. Cardinality({}) < Cardinality(S)
      BY <1>2, <1>3
    <2> QED BY <1>2, <1>3, <2>1, OneMore
  <1> DEFINE one == {} \cup {x}
  <1> HIDE DEF one
  <1>5. PICK y \in S : one \cup {y} \in SUBSET S /\ Cardinality(one \cup {y}) = 2
    <2>1. one \in SUBSET S /\ Cardinality(one) = 1
      BY <1>4 DEF one
    <2>2. Cardinality(one) < Cardinality(S)
      BY <1>2, <2>1
    <2> QED BY <1>2, <2>1, <2>2, OneMore
  <1> DEFINE two == one \cup {y}
  <1> HIDE DEF two
  <1>6. \E s \in SUBSET S : Cardinality(s) = k
    <2>1. two \in SUBSET S /\ Cardinality(two) = 2
      BY <1>5 DEF two
    <2>2. ASSUME k = 3 PROVE \E z \in S : two \cup {z} \in SUBSET S /\ Cardinality(two \cup {z}) = 3
      <3>1. Cardinality(two) < Cardinality(S)
        BY <1>2, <2>1, <2>2
      <3>2. \E z \in S : /\ two \cup {z} \in SUBSET S
                         /\ Cardinality(two \cup {z}) = Cardinality(two) + 1
        BY <1>2, <2>1, <3>1, OneMore
      <3>3. PICK z \in S : /\ two \cup {z} \in SUBSET S
                          /\ Cardinality(two \cup {z}) = Cardinality(two) + 1
        BY <3>2
      <3>4. Cardinality(two \cup {z}) = 3
        BY <2>1, <3>3
      <3> QED BY <3>3, <3>4
    <2>3. ASSUME k = 3 PROVE \E s \in SUBSET S : Cardinality(s) = 3
      BY <2>2, <2>3
    <2> QED BY <2>1, <2>3
  <1>7. PICK s \in SUBSET S : Cardinality(s) = k
    BY <1>6
  <1>8. s \in kSubset(k, S)
    BY <1>7 DEF kSubset
  <1>9. FreeFrames(k) \in kSubset(k, S)
    BY <1>8 DEF FreeFrames, S
  <1>10. FreeFrames(k) \in SUBSET S /\ Cardinality(FreeFrames(k)) = k
    BY <1>9 DEF kSubset
  <1>11. FreeFrames(k) # {}
    BY <1>10, <1>3
  <1> QED BY <1>10, <1>11 DEF S

(* A capture that does not begin.                                           *)
LEMMA CaptureRefusedKeeps ==
  ASSUME CamInv, NEW t \in CameraTasks, CaptureRefused(t) PROVE CamInv'
  <1> USE CameraConstants
  <1> DEFINE r == Idle
  <1>1. /\ task[t].pc = "capture" /\ Typed(task[t]) /\ Has(task, CameraTasks)
        /\ UNCHANGED <<lock, sensor, streaming, vts, exposure, fpsfailed, busleft, usesleft>>
    BY DEF CamInv, TaskTypes, CaptureRefused, CamAt, Settings
  <1>2. /\ Aim(t) = "capture" /\ capture_lock = t /\ FramesOf(t) /\ Shown /\ Locked /\ Channel
        /\ Frames
        /\ SharedTypes /\ Aim(t) \in Capturing /\ (Aim(t) \in Routed \/ route = "raw")
    BY <1>1 DEF CamInv, Locked, Frames, Channel, Aim, Capturing, Routed
  <1>3. task' = [task EXCEPT ![t] = r]
    BY <1>1, <1>2 DEF CaptureRefused, Goto, Finished, Has, Typed, TaskFields
  <1>4. /\ Typed(r)
        /\ r.pc = "idle"
    BY IdleIs, IdleTyped
  <1> HIDE DEF r
  <1>5. Moved(t) /\ task'[t] = r
    BY <1>1, <1>3, <1>4, Edited
  <1>6. TaskTypes'
    BY <1>5, OneMoves DEF CamInv
  <1>7. SharedTypes'
    BY <1>1, <1>2 DEF SharedTypes, CaptureRefused, Typed, Published, Finished
  <1>8. Aim(t)' = "idle" /\ ~Copies(t)'
    BY <1>4, <1>5 DEF Aim, Copies
  <1>9. capture_lock' = NoTask /\ UNCHANGED <<route, cif, heap, video_frame, isp_frame>>
    BY DEF CaptureRefused, Finished, Published
  <1>10. Locked'
    BY <1>1, <1>2, <1>5, <1>8, <1>9, LockedDrops DEF Capturing
  <1>11. Channel'
    BY <1>2, <1>9 DEF Channel, Routed
  <1>12. FramesOf(t)'
    BY <1>8 DEF FramesOf, IspSteps
  <1>13. Frames'
    BY <1>2, <1>5, <1>8, <1>9, <1>12, FramesStay
  <1>14. ExposureFits'
    BY <1>1 DEF CamInv, ExposureFits
  <1> QED BY <1>6, <1>7, <1>10, <1>11, <1>13, <1>14 DEF CamInv

(* The end of a capture.                                                    *)
LEMMA CaptureDoneKeeps ==
  ASSUME CamInv, NEW t \in CameraTasks, CaptureDone(t) PROVE CamInv'
  <1> USE CameraConstants
  <1> DEFINE r == Idle
  <1>1. /\ task[t].pc = "done" /\ Typed(task[t]) /\ Has(task, CameraTasks)
        /\ UNCHANGED <<lock, sensor, streaming, vts, exposure, fpsfailed, busleft, usesleft>>
    BY DEF CamInv, TaskTypes, CaptureDone, CamAt, Settings
  <1>2. /\ Aim(t) = "done" /\ capture_lock = t /\ FramesOf(t) /\ Shown /\ Locked /\ Channel
        /\ Frames
        /\ SharedTypes /\ Aim(t) \in Capturing /\ (Aim(t) \in Routed \/ route = "raw")
    BY <1>1 DEF CamInv, Locked, Frames, Channel, Aim, Capturing, Routed
  <1>3. task' = [task EXCEPT ![t] = r]
    BY <1>1, <1>2 DEF CaptureDone, Goto, Finished, Has, Typed, TaskFields
  <1>4. /\ Typed(r)
        /\ r.pc = "idle"
    BY IdleIs, IdleTyped
  <1> HIDE DEF r
  <1>5. Moved(t) /\ task'[t] = r
    BY <1>1, <1>3, <1>4, Edited
  <1>6. TaskTypes'
    BY <1>5, OneMoves DEF CamInv
  <1>7. SharedTypes'
    BY <1>1, <1>2 DEF SharedTypes, CaptureDone, Typed, Published, Finished
  <1>8. Aim(t)' = "idle" /\ ~Copies(t)'
    BY <1>4, <1>5 DEF Aim, Copies
  <1>9. capture_lock' = NoTask /\ UNCHANGED <<route, cif, heap, video_frame, isp_frame>>
    BY DEF CaptureDone, Finished, Published
  <1>10. Locked'
    BY <1>1, <1>2, <1>5, <1>8, <1>9, LockedDrops DEF Capturing
  <1>11. Channel'
    BY <1>2, <1>9 DEF Channel, Routed
  <1>12. FramesOf(t)'
    BY <1>8 DEF FramesOf, IspSteps
  <1>13. Frames'
    BY <1>2, <1>5, <1>8, <1>9, <1>12, FramesStay
  <1>14. ExposureFits'
    BY <1>1 DEF CamInv, ExposureFits
  <1> QED BY <1>6, <1>7, <1>10, <1>11, <1>13, <1>14 DEF CamInv

(* A capture of raw frames.                                                 *)
LEMMA BurstBeginsKeeps ==
  ASSUME CamInv, NEW t \in CameraTasks, BurstBegins(t) PROVE CamInv'
  <1> USE CameraConstants
  <1> DEFINE r == [task[t] EXCEPT !.pc = "burst", !.held = FreeFrames(2)]
  <1>1. /\ task[t].pc = "capture" /\ Typed(task[t]) /\ Has(task, CameraTasks)
        /\ UNCHANGED <<lock, capture_lock, sensor, streaming, vts, exposure, fpsfailed, busleft,
                        usesleft>>
    BY DEF CamInv, TaskTypes, BurstBegins, CamAt, Settings
  <1>2. /\ Aim(t) = "capture" /\ capture_lock = t /\ FramesOf(t) /\ Shown /\ Locked /\ Channel
        /\ Frames
        /\ SharedTypes /\ Aim(t) \in Capturing /\ (Aim(t) \in Routed \/ route = "raw")
    BY <1>1 DEF CamInv, Locked, Frames, Channel, Aim, Capturing, Routed
  <1>3. /\ FreeFrames(2) \subseteq FrameRange \ heap
        /\ FreeFrames(2) \in SUBSET FrameRange
    BY <1>1, <1>2, FreeIs DEF BurstBegins, SharedTypes, FramesOf, IspSteps
  <1>4. isp_frame \notin FreeFrames(2) /\ video_frame \notin FreeFrames(2)
    <2>1. 0 \notin FrameRange
      BY DEF FrameRange
    <2> QED BY <1>2, <1>3, <2>1 DEF Shown
  <1>5. task' = [task EXCEPT ![t] = r]
    BY <1>1, <1>2, <1>3, <1>4 DEF BurstBegins, Goto, Finished, Has, Typed, TaskFields
  <1>6. /\ Typed(r)
        /\ r.pc = "burst"
        /\ r.held = FreeFrames(2)
    BY <1>1, <1>2, <1>3, <1>4, NoFrame DEF Typed, Has, TaskFields, CameraSteps, CameraOps, Targets
  <1> HIDE DEF r
  <1>7. Moved(t) /\ task'[t] = r
    BY <1>1, <1>5, <1>6, Edited
  <1>8. TaskTypes'
    BY <1>7, OneMoves DEF CamInv
  <1>9. SharedTypes'
    BY <1>1, <1>2, <1>3, <1>4 DEF SharedTypes, BurstBegins, Typed, Published
  <1>10. Aim(t)' = "burst" /\ ~Copies(t)'
    BY <1>6, <1>7 DEF Aim, Copies
  <1>11. Locked'
    BY <1>1, <1>2, <1>7, <1>10, LockedStays DEF Capturing
  <1>12. Channel'
    <2>1. /\ Aim(t)' \in Routed \/ route' = "raw"
          /\ Aim(t)' = "burst" => cif' = task'[t].held
          /\ Aim(t)' = "process" => cif' = task'[t].held \ {task'[t].out}
          /\ Aim(t)' \notin {"burst", "process"} => cif' = {}
      BY <1>1, <1>2, <1>3, <1>4, <1>6, <1>7, <1>10 DEF BurstBegins, Channel, Routed
    <2> QED BY <1>1, <1>2, <2>1, ChannelOfOne
  <1>13. FramesOf(t)' /\ Shown'
    BY <1>1, <1>2, <1>3, <1>4, <1>6, <1>7, <1>10 DEF BurstBegins, FramesOf, IspSteps, Shown,
       SharedTypes, Published
  <1>14. Frames'
    <2>1. video_frame' = video_frame \/ lock = NoTask
      BY DEF BurstBegins, Published
    <2> QED BY <1>2, <1>7, <1>10, <1>13, <2>1, FramesOfOne
  <1>15. ExposureFits'
    BY <1>1 DEF CamInv, ExposureFits
  <1> QED BY <1>8, <1>9, <1>11, <1>12, <1>14, <1>15 DEF CamInv

(* The exchange of the published frame.                                     *)
LEMMA ExchangeKeeps ==
  ASSUME CamInv, NEW t \in CameraTasks, Exchange(t) PROVE CamInv'
  <1> USE CameraConstants
  <1> DEFINE r == [task[t] EXCEPT !.pc = "drop", !.out = video_frame]
  <1>1. /\ task[t].pc = "exchange" /\ Typed(task[t]) /\ Has(task, CameraTasks)
        /\ UNCHANGED <<lock, capture_lock, sensor, streaming, vts, exposure, fpsfailed, busleft,
                        usesleft>>
    BY DEF CamInv, TaskTypes, Exchange, CamAt, Settings
  <1>2. /\ Aim(t) = "exchange" /\ capture_lock = t /\ FramesOf(t) /\ Shown /\ Locked /\ Channel
        /\ Frames
        /\ SharedTypes /\ Aim(t) \in Capturing /\ (Aim(t) \in Routed \/ route = "raw")
    BY <1>1 DEF CamInv, Locked, Frames, Channel, Aim, Capturing, Routed
  <1>3. /\ video_frame \in 0 .. FrameCount
        /\ task[t].held \in SUBSET FrameRange
        /\ task[t].out \in 0 .. FrameCount
    BY <1>1, <1>2 DEF Exchange, SharedTypes, FramesOf, IspSteps, Typed
  <1>4. task' = [task EXCEPT ![t] = r]
    BY <1>1, <1>2, <1>3 DEF Exchange, Goto, Finished, Has, Typed, TaskFields
  <1>5. /\ Typed(r)
        /\ r.pc = "drop"
        /\ r.held = task[t].held
        /\ r.out = video_frame
    BY <1>1, <1>2, <1>3, NoFrame DEF Typed, Has, TaskFields, CameraSteps, CameraOps, Targets
  <1> HIDE DEF r
  <1>6. Moved(t) /\ task'[t] = r
    BY <1>1, <1>4, <1>5, Edited
  <1>7. TaskTypes'
    BY <1>6, OneMoves DEF CamInv
  <1>8. SharedTypes'
    BY <1>1, <1>2, <1>3 DEF SharedTypes, Exchange, Typed, Published
  <1>9. Aim(t)' = "drop" /\ ~Copies(t)'
    BY <1>5, <1>6 DEF Aim, Copies
  <1>10. Locked'
    BY <1>1, <1>2, <1>6, <1>9, LockedStays DEF Capturing
  <1>11. Channel'
    <2>1. /\ Aim(t)' \in Routed \/ route' = "raw"
          /\ Aim(t)' = "burst" => cif' = task'[t].held
          /\ Aim(t)' = "process" => cif' = task'[t].held \ {task'[t].out}
          /\ Aim(t)' \notin {"burst", "process"} => cif' = {}
      BY <1>1, <1>2, <1>3, <1>5, <1>6, <1>9 DEF Exchange, Channel, Routed
    <2> QED BY <1>1, <1>2, <2>1, ChannelOfOne
  <1>12. FramesOf(t)' /\ Shown'
    BY <1>1, <1>2, <1>3, <1>5, <1>6, <1>9 DEF Exchange, FramesOf, IspSteps, Shown, SharedTypes,
       FrameRange, Published
  <1>13. Frames'
    <2>1. video_frame' = video_frame \/ lock = NoTask
      BY DEF Exchange, Published
    <2> QED BY <1>2, <1>6, <1>9, <1>12, <2>1, FramesOfOne
  <1>14. ExposureFits'
    BY <1>1 DEF CamInv, ExposureFits
  <1> QED BY <1>7, <1>8, <1>10, <1>11, <1>13, <1>14 DEF CamInv

(* The frames that were not published are freed.                            *)
LEMMA BurstDropsKeeps ==
  ASSUME CamInv, NEW t \in CameraTasks, BurstDrops(t) PROVE CamInv'
  <1> USE CameraConstants
  <1> DEFINE r == [task[t] EXCEPT !.pc = "done", !.held = {}, !.out = 0]
  <1>1. /\ task[t].pc = "drop" /\ Typed(task[t]) /\ Has(task, CameraTasks)
        /\ UNCHANGED <<lock, capture_lock, sensor, streaming, vts, exposure, fpsfailed, busleft,
                        usesleft>>
    BY DEF CamInv, TaskTypes, BurstDrops, CamAt, Settings
  <1>2. /\ Aim(t) = "drop" /\ capture_lock = t /\ FramesOf(t) /\ Shown /\ Locked /\ Channel
        /\ Frames
        /\ SharedTypes /\ Aim(t) \in Capturing /\ (Aim(t) \in Routed \/ route = "raw")
    BY <1>1 DEF CamInv, Locked, Frames, Channel, Aim, Capturing, Routed
  <1>3. task' = [task EXCEPT ![t] = r]
    BY <1>1, <1>2 DEF BurstDrops, Goto, Finished, Has, Typed, TaskFields
  <1>4. /\ Typed(r)
        /\ r.pc = "done"
    BY <1>1, <1>2, NoFrame DEF Typed, Has, TaskFields, CameraSteps, CameraOps, Targets
  <1> HIDE DEF r
  <1>5. Moved(t) /\ task'[t] = r
    BY <1>1, <1>3, <1>4, Edited
  <1>6. TaskTypes'
    BY <1>5, OneMoves DEF CamInv
  <1>7. SharedTypes'
    BY <1>1, <1>2 DEF SharedTypes, BurstDrops, Typed, Published
  <1>8. Aim(t)' = "done" /\ ~Copies(t)'
    BY <1>4, <1>5 DEF Aim, Copies
  <1>9. Locked'
    BY <1>1, <1>2, <1>5, <1>8, LockedStays DEF Capturing
  <1>10. Channel'
    <2>1. /\ Aim(t)' \in Routed \/ route' = "raw"
          /\ Aim(t)' = "burst" => cif' = task'[t].held
          /\ Aim(t)' = "process" => cif' = task'[t].held \ {task'[t].out}
          /\ Aim(t)' \notin {"burst", "process"} => cif' = {}
      BY <1>1, <1>2, <1>4, <1>5, <1>8 DEF BurstDrops, Channel, Routed
    <2> QED BY <1>1, <1>2, <2>1, ChannelOfOne
  <1>11. FramesOf(t)' /\ Shown'
    BY <1>1, <1>2, <1>4, <1>5, <1>8 DEF BurstDrops, FramesOf, IspSteps, Shown, SharedTypes,
       FrameRange, Published
  <1>12. Frames'
    <2>1. video_frame' = video_frame \/ lock = NoTask
      BY DEF BurstDrops, Published
    <2> QED BY <1>2, <1>5, <1>8, <1>11, <2>1, FramesOfOne
  <1>13. ExposureFits'
    BY <1>1 DEF CamInv, ExposureFits
  <1> QED BY <1>6, <1>7, <1>9, <1>10, <1>12, <1>13 DEF CamInv

(* The look at the input of the ISP.                                        *)
LEMMA CheckBeginsKeeps ==
  ASSUME CamInv, NEW t \in CameraTasks, CheckBegins(t) PROVE CamInv'
  <1> USE CameraConstants
  <1> DEFINE r == [task[t] EXCEPT !.pc = "check"]
  <1>1. /\ task[t].pc = "capture" /\ Typed(task[t]) /\ Has(task, CameraTasks)
        /\ UNCHANGED <<lock, capture_lock, sensor, streaming, vts, exposure, fpsfailed, busleft,
                        usesleft>>
    BY DEF CamInv, TaskTypes, CheckBegins, CamAt, Settings
  <1>2. /\ Aim(t) = "capture" /\ capture_lock = t /\ FramesOf(t) /\ Shown /\ Locked /\ Channel
        /\ Frames
        /\ SharedTypes /\ Aim(t) \in Capturing /\ (Aim(t) \in Routed \/ route = "raw")
    BY <1>1 DEF CamInv, Locked, Frames, Channel, Aim, Capturing, Routed
  <1>3. task' = [task EXCEPT ![t] = r]
    BY <1>1, <1>2 DEF CheckBegins, Goto, Finished, Has, Typed, TaskFields
  <1>4. /\ Typed(r)
        /\ r.pc = "check"
    BY <1>1, <1>2, NoFrame DEF Typed, Has, TaskFields, CameraSteps, CameraOps, Targets
  <1> HIDE DEF r
  <1>5. Moved(t) /\ task'[t] = r
    BY <1>1, <1>3, <1>4, Edited
  <1>6. TaskTypes'
    BY <1>5, OneMoves DEF CamInv
  <1>7. SharedTypes'
    BY <1>1, <1>2 DEF SharedTypes, CheckBegins, Typed, Published
  <1>8. Aim(t)' = "check" /\ ~Copies(t)'
    BY <1>4, <1>5 DEF Aim, Copies
  <1>9. Locked'
    BY <1>1, <1>2, <1>5, <1>8, LockedStays DEF Capturing
  <1>10. Channel'
    <2>1. /\ Aim(t)' \in Routed \/ route' = "raw"
          /\ Aim(t)' = "burst" => cif' = task'[t].held
          /\ Aim(t)' = "process" => cif' = task'[t].held \ {task'[t].out}
          /\ Aim(t)' \notin {"burst", "process"} => cif' = {}
      BY <1>1, <1>2, <1>4, <1>5, <1>8 DEF CheckBegins, Channel, Routed
    <2> QED BY <1>1, <1>2, <2>1, ChannelOfOne
  <1>11. FramesOf(t)' /\ Shown'
    BY <1>1, <1>2, <1>4, <1>5, <1>8 DEF CheckBegins, FramesOf, IspSteps, Shown, SharedTypes,
       FrameRange, Published
  <1>12. Frames'
    <2>1. video_frame' = video_frame \/ lock = NoTask
      BY DEF CheckBegins, Published
    <2> QED BY <1>2, <1>5, <1>8, <1>11, <2>1, FramesOfOne
  <1>13. ExposureFits'
    BY <1>1 DEF CamInv, ExposureFits
  <1> QED BY <1>6, <1>7, <1>9, <1>10, <1>12, <1>13 DEF CamInv

LEMMA CheckEndsKeeps ==
  ASSUME CamInv, NEW t \in CameraTasks, CheckEnds(t) PROVE CamInv'
  <1> USE CameraConstants
  <1> DEFINE r == [task[t] EXCEPT !.pc = "done"]
  <1>1. /\ task[t].pc = "check" /\ Typed(task[t]) /\ Has(task, CameraTasks)
        /\ UNCHANGED <<lock, capture_lock, sensor, streaming, vts, exposure, fpsfailed, busleft,
                        usesleft>>
    BY DEF CamInv, TaskTypes, CheckEnds, CamAt, Settings
  <1>2. /\ Aim(t) = "check" /\ capture_lock = t /\ FramesOf(t) /\ Shown /\ Locked /\ Channel
        /\ Frames
        /\ SharedTypes /\ Aim(t) \in Capturing /\ (Aim(t) \in Routed \/ route = "raw")
    BY <1>1 DEF CamInv, Locked, Frames, Channel, Aim, Capturing, Routed
  <1>3. task' = [task EXCEPT ![t] = r]
    BY <1>1, <1>2 DEF CheckEnds, Goto, Finished, Has, Typed, TaskFields
  <1>4. /\ Typed(r)
        /\ r.pc = "done"
    BY <1>1, <1>2, NoFrame DEF Typed, Has, TaskFields, CameraSteps, CameraOps, Targets
  <1> HIDE DEF r
  <1>5. Moved(t) /\ task'[t] = r
    BY <1>1, <1>3, <1>4, Edited
  <1>6. TaskTypes'
    BY <1>5, OneMoves DEF CamInv
  <1>7. SharedTypes'
    BY <1>1, <1>2 DEF SharedTypes, CheckEnds, Typed, Published
  <1>8. Aim(t)' = "done" /\ ~Copies(t)'
    BY <1>4, <1>5 DEF Aim, Copies
  <1>9. Locked'
    BY <1>1, <1>2, <1>5, <1>8, LockedStays DEF Capturing
  <1>10. Channel'
    <2>1. /\ Aim(t)' \in Routed \/ route' = "raw"
          /\ Aim(t)' = "burst" => cif' = task'[t].held
          /\ Aim(t)' = "process" => cif' = task'[t].held \ {task'[t].out}
          /\ Aim(t)' \notin {"burst", "process"} => cif' = {}
      BY <1>1, <1>2, <1>4, <1>5, <1>8 DEF CheckEnds, Channel, Routed
    <2> QED BY <1>1, <1>2, <2>1, ChannelOfOne
  <1>11. FramesOf(t)' /\ Shown'
    BY <1>1, <1>2, <1>4, <1>5, <1>8 DEF CheckEnds, FramesOf, IspSteps, Shown, SharedTypes,
       FrameRange, Published
  <1>12. Frames'
    <2>1. video_frame' = video_frame \/ lock = NoTask
      BY DEF CheckEnds, Published
    <2> QED BY <1>2, <1>5, <1>8, <1>11, <2>1, FramesOfOne
  <1>13. ExposureFits'
    BY <1>1 DEF CamInv, ExposureFits
  <1> QED BY <1>6, <1>7, <1>9, <1>10, <1>12, <1>13 DEF CamInv

(* The frames for the way through the ISP.                                  *)
LEMMA MiBeginsKeeps ==
  ASSUME CamInv, NEW t \in CameraTasks, MiBegins(t) PROVE CamInv'
  <1> USE CameraConstants
  <1> DEFINE r == [task[t] EXCEPT !.held = FreeFrames(3), !.out = AnyOf(FreeFrames(3)),
                                    !.was = streaming, !.on = FALSE, !.then = "halted",
                                    !.pc = IF streaming THEN "stream" ELSE "halted"]
  <1>1. /\ task[t].pc = "capture" /\ Typed(task[t]) /\ Has(task, CameraTasks)
        /\ UNCHANGED <<lock, capture_lock, sensor, streaming, vts, exposure, fpsfailed, busleft,
                        usesleft>>
    BY DEF CamInv, TaskTypes, MiBegins, CamAt, Settings
  <1>2. /\ Aim(t) = "capture" /\ capture_lock = t /\ FramesOf(t) /\ Shown /\ Locked /\ Channel
        /\ Frames
        /\ SharedTypes /\ Aim(t) \in Capturing /\ (Aim(t) \in Routed \/ route = "raw")
    BY <1>1 DEF CamInv, Locked, Frames, Channel, Aim, Capturing, Routed
  <1>3. /\ FreeFrames(3) \subseteq FrameRange \ heap
        /\ FreeFrames(3) \in SUBSET FrameRange
        /\ AnyOf(FreeFrames(3)) \in FreeFrames(3)
        /\ streaming \in BOOLEAN
    BY <1>1, <1>2, FreeIs DEF MiBegins, SharedTypes, FramesOf, IspSteps, AnyOf
  <1>4. isp_frame \notin FreeFrames(3) /\ video_frame \notin FreeFrames(3)
    <2>1. 0 \notin FrameRange
      BY DEF FrameRange
    <2> QED BY <1>2, <1>3, <2>1 DEF Shown
  <1>5. task' = [task EXCEPT ![t] = r]
    BY <1>1, <1>2, <1>3, <1>4 DEF MiBegins, Goto, Finished, Has, Typed, TaskFields
  <1>6. /\ Typed(r)
        /\ r.pc \in {"stream", "halted"}
        /\ r.then = "halted"
        /\ r.held = FreeFrames(3)
        /\ r.out = AnyOf(FreeFrames(3))
    <2>1. AnyOf(FreeFrames(3)) \in 0 .. FrameCount /\ streaming \in BOOLEAN
      BY <1>2, <1>3 DEF FrameRange, SharedTypes
    <2>2. Has(r, TaskFields)
      BY <1>1 DEF Typed, Has, TaskFields
    <2>3. /\ r.pc \in {"stream", "halted"} /\ r.then = "halted" /\ r.held = FreeFrames(3)
          /\ r.out = AnyOf(FreeFrames(3)) /\ r.on = FALSE /\ r.was = streaming
          /\ r.good = task[t].good /\ r.op = task[t].op
      BY <1>1 DEF Typed, Has, TaskFields
    <2> HIDE DEF r
    <2> QED BY <1>1, <1>3, <2>1, <2>2, <2>3 DEF Typed, CameraSteps, Targets
  <1> HIDE DEF r
  <1>7. Moved(t) /\ task'[t] = r
    BY <1>1, <1>5, <1>6, Edited
  <1>8. TaskTypes'
    BY <1>7, OneMoves DEF CamInv
  <1>9. SharedTypes'
    BY <1>1, <1>2, <1>3, <1>4 DEF SharedTypes, MiBegins, Typed, Published
  <1>10. Aim(t)' = "halted" /\ ~Copies(t)'
    BY <1>6, <1>7 DEF Aim, Copies
  <1>11. Locked'
    BY <1>1, <1>2, <1>7, <1>10, LockedStays DEF Capturing
  <1>12. Channel'
    <2>1. /\ Aim(t)' \in Routed \/ route' = "raw"
          /\ Aim(t)' = "burst" => cif' = task'[t].held
          /\ Aim(t)' = "process" => cif' = task'[t].held \ {task'[t].out}
          /\ Aim(t)' \notin {"burst", "process"} => cif' = {}
      BY <1>1, <1>2, <1>3, <1>4, <1>6, <1>7, <1>10 DEF MiBegins, Channel, Routed
    <2> QED BY <1>1, <1>2, <2>1, ChannelOfOne
  <1>13. FramesOf(t)' /\ Shown'
    BY <1>1, <1>2, <1>3, <1>4, <1>6, <1>7, <1>10 DEF MiBegins, FramesOf, IspSteps, Shown,
       SharedTypes, Published
  <1>14. Frames'
    <2>1. video_frame' = video_frame \/ lock = NoTask
      BY DEF MiBegins, Published
    <2> QED BY <1>2, <1>7, <1>10, <1>13, <2>1, FramesOfOne
  <1>15. ExposureFits'
    BY <1>1 DEF CamInv, ExposureFits
  <1> QED BY <1>8, <1>9, <1>11, <1>12, <1>14, <1>15 DEF CamInv

(* The registers go back.                                                   *)
LEMMA MiRestoresKeeps ==
  ASSUME CamInv, NEW t \in CameraTasks, MiRestores(t) PROVE CamInv'
  <1> USE CameraConstants
  <1> DEFINE r == [task[t] EXCEPT !.on = TRUE, !.then = "publish",
                                    !.pc = IF task[t].was THEN "stream" ELSE "publish"]
  <1>1. /\ task[t].pc = "restore" /\ Typed(task[t]) /\ Has(task, CameraTasks)
        /\ UNCHANGED <<lock, capture_lock, sensor, streaming, vts, exposure, fpsfailed, busleft,
                        usesleft>>
    BY DEF CamInv, TaskTypes, MiRestores, CamAt, Settings
  <1>2. /\ Aim(t) = "restore" /\ capture_lock = t /\ FramesOf(t) /\ Shown /\ Locked /\ Channel
        /\ Frames
        /\ SharedTypes /\ Aim(t) \in Capturing /\ (Aim(t) \in Routed \/ route = "raw")
    BY <1>1 DEF CamInv, Locked, Frames, Channel, Aim, Capturing, Routed
  <1>3. task' = [task EXCEPT ![t] = r]
    BY <1>1, <1>2 DEF MiRestores, Goto, Finished, Has, Typed, TaskFields
  <1>4. /\ Typed(r)
        /\ r.pc \in {"stream", "publish"}
        /\ r.then = "publish"
        /\ r.held = task[t].held
        /\ r.out = task[t].out
    BY <1>1, <1>2, NoFrame DEF Typed, Has, TaskFields, CameraSteps, CameraOps, Targets
  <1> HIDE DEF r
  <1>5. Moved(t) /\ task'[t] = r
    BY <1>1, <1>3, <1>4, Edited
  <1>6. TaskTypes'
    BY <1>5, OneMoves DEF CamInv
  <1>7. SharedTypes'
    BY <1>1, <1>2 DEF SharedTypes, MiRestores, Typed, Published
  <1>8. Aim(t)' = "publish" /\ ~Copies(t)'
    BY <1>4, <1>5 DEF Aim, Copies
  <1>9. Locked'
    BY <1>1, <1>2, <1>5, <1>8, LockedStays DEF Capturing
  <1>10. Channel'
    <2>1. /\ Aim(t)' \in Routed \/ route' = "raw"
          /\ Aim(t)' = "burst" => cif' = task'[t].held
          /\ Aim(t)' = "process" => cif' = task'[t].held \ {task'[t].out}
          /\ Aim(t)' \notin {"burst", "process"} => cif' = {}
      BY <1>1, <1>2, <1>4, <1>5, <1>8 DEF MiRestores, Channel, Routed
    <2> QED BY <1>1, <1>2, <2>1, ChannelOfOne
  <1>11. FramesOf(t)' /\ Shown'
    BY <1>1, <1>2, <1>4, <1>5, <1>8 DEF MiRestores, FramesOf, IspSteps, Shown, SharedTypes,
       FrameRange, Published
  <1>12. Frames'
    <2>1. video_frame' = video_frame \/ lock = NoTask
      BY DEF MiRestores, Published
    <2> QED BY <1>2, <1>5, <1>8, <1>11, <2>1, FramesOfOne
  <1>13. ExposureFits'
    BY <1>1 DEF CamInv, ExposureFits
  <1> QED BY <1>6, <1>7, <1>9, <1>10, <1>12, <1>13 DEF CamInv

(* The frame of the ISP is shown, or all are freed.                         *)
LEMMA MiPublishesKeeps ==
  ASSUME CamInv, NEW t \in CameraTasks, MiPublishes(t) PROVE CamInv'
  <1> USE CameraConstants
  <1> DEFINE r == [task[t] EXCEPT !.pc = "done", !.held = {}, !.out = 0]
  <1>1. /\ task[t].pc = "publish" /\ Typed(task[t]) /\ Has(task, CameraTasks)
        /\ UNCHANGED <<lock, capture_lock, sensor, streaming, vts, exposure, fpsfailed, busleft,
                        usesleft>>
    BY DEF CamInv, TaskTypes, MiPublishes, CamAt, Settings
  <1>2. /\ Aim(t) = "publish" /\ capture_lock = t /\ FramesOf(t) /\ Shown /\ Locked /\ Channel
        /\ Frames
        /\ SharedTypes /\ Aim(t) \in Capturing /\ (Aim(t) \in Routed \/ route = "raw")
    BY <1>1 DEF CamInv, Locked, Frames, Channel, Aim, Capturing, Routed
  <1>3. task' = [task EXCEPT ![t] = r]
    BY <1>1, <1>2 DEF MiPublishes, Goto, Finished, Has, Typed, TaskFields
  <1>4. /\ Typed(r)
        /\ r.pc = "done"
    BY <1>1, <1>2, NoFrame DEF Typed, Has, TaskFields, CameraSteps, CameraOps, Targets
  <1> HIDE DEF r
  <1>5. Moved(t) /\ task'[t] = r
    BY <1>1, <1>3, <1>4, Edited
  <1>6. TaskTypes'
    BY <1>5, OneMoves DEF CamInv
  <1>7. SharedTypes'
    BY <1>1, <1>2 DEF SharedTypes, MiPublishes, Typed, Published
  <1>8. Aim(t)' = "done" /\ ~Copies(t)'
    BY <1>4, <1>5 DEF Aim, Copies
  <1>9. Locked'
    BY <1>1, <1>2, <1>5, <1>8, LockedStays DEF Capturing
  <1>10. Channel'
    <2>1. /\ Aim(t)' \in Routed \/ route' = "raw"
          /\ Aim(t)' = "burst" => cif' = task'[t].held
          /\ Aim(t)' = "process" => cif' = task'[t].held \ {task'[t].out}
          /\ Aim(t)' \notin {"burst", "process"} => cif' = {}
      BY <1>1, <1>2, <1>4, <1>5, <1>8 DEF MiPublishes, Channel, Routed
    <2> QED BY <1>1, <1>2, <2>1, ChannelOfOne
  <1>11. FramesOf(t)' /\ Shown'
    BY <1>1, <1>2, <1>4, <1>5, <1>8 DEF MiPublishes, FramesOf, IspSteps, Shown, SharedTypes,
       FrameRange, Published
  <1>12. Frames'
    <2>1. video_frame' = video_frame \/ lock = NoTask
      BY DEF MiPublishes, Published
    <2> QED BY <1>2, <1>5, <1>8, <1>11, <2>1, FramesOfOne
  <1>13. ExposureFits'
    BY <1>1 DEF CamInv, ExposureFits
  <1> QED BY <1>6, <1>7, <1>9, <1>10, <1>12, <1>13 DEF CamInv

(* The two ends of a burst: its last frame, or nothing.                      *)
BurstFilled(t, f) ==
  /\ CamAt(t, "burst") /\ f \in task[t].held
  /\ cif' = {}
  /\ task' = [task EXCEPT ![t].pc = "exchange", ![t].out = f]
  /\ UNCHANGED <<heap, lock, capture_lock, sensor, streaming, Published, route, Settings,
                 busleft, usesleft>>

BurstFailed(t) ==
  /\ CamAt(t, "burst")
  /\ cif' = {}
  /\ heap' = heap \ task[t].held
  /\ task' = [task EXCEPT ![t].pc = "done", ![t].held = {}]
  /\ UNCHANGED <<lock, capture_lock, sensor, streaming, Published, route, Settings,
                 busleft, usesleft>>

LEMMA BurstFilledKeeps ==
  ASSUME CamInv, NEW t \in CameraTasks, NEW f, BurstFilled(t, f) PROVE CamInv'
  <1> USE CameraConstants
  <1> DEFINE r == [task[t] EXCEPT !.pc = "exchange", !.out = f]
  <1>1. /\ task[t].pc = "burst" /\ Typed(task[t]) /\ Has(task, CameraTasks)
        /\ UNCHANGED <<lock, capture_lock, sensor, streaming, vts, exposure, fpsfailed, busleft,
                        usesleft>>
    BY DEF CamInv, TaskTypes, BurstFilled, CamAt, Settings
  <1>2. /\ Aim(t) = "burst" /\ capture_lock = t /\ FramesOf(t) /\ Shown /\ Locked /\ Channel
        /\ Frames
        /\ SharedTypes /\ Aim(t) \in Capturing /\ (Aim(t) \in Routed \/ route = "raw")
    BY <1>1 DEF CamInv, Locked, Frames, Channel, Aim, Capturing, Routed
  <1>3. /\ f \in task[t].held
        /\ f \in 0 .. FrameCount
        /\ task[t].held \in SUBSET FrameRange
    BY <1>1, <1>2 DEF BurstFilled, SharedTypes, FramesOf, IspSteps, Typed, FrameRange
  <1>4. task' = [task EXCEPT ![t] = r]
    BY <1>1, <1>2, <1>3 DEF BurstFilled, Goto, Finished, Has, Typed, TaskFields
  <1>5. /\ Typed(r)
        /\ r.pc = "exchange"
        /\ r.held = task[t].held
        /\ r.out = f
    BY <1>1, <1>2, <1>3, NoFrame DEF Typed, Has, TaskFields, CameraSteps, CameraOps, Targets
  <1> HIDE DEF r
  <1>6. Moved(t) /\ task'[t] = r
    BY <1>1, <1>4, <1>5, Edited
  <1>7. TaskTypes'
    BY <1>6, OneMoves DEF CamInv
  <1>8. SharedTypes'
    BY <1>1, <1>2, <1>3 DEF SharedTypes, BurstFilled, Typed, Published
  <1>9. Aim(t)' = "exchange" /\ ~Copies(t)'
    BY <1>5, <1>6 DEF Aim, Copies
  <1>10. Locked'
    BY <1>1, <1>2, <1>6, <1>9, LockedStays DEF Capturing
  <1>11. Channel'
    <2>1. /\ Aim(t)' \in Routed \/ route' = "raw"
          /\ Aim(t)' = "burst" => cif' = task'[t].held
          /\ Aim(t)' = "process" => cif' = task'[t].held \ {task'[t].out}
          /\ Aim(t)' \notin {"burst", "process"} => cif' = {}
      BY <1>1, <1>2, <1>3, <1>5, <1>6, <1>9 DEF BurstFilled, Channel, Routed
    <2> QED BY <1>1, <1>2, <2>1, ChannelOfOne
  <1>12. FramesOf(t)' /\ Shown'
    BY <1>1, <1>2, <1>3, <1>5, <1>6, <1>9 DEF BurstFilled, FramesOf, IspSteps, Shown, SharedTypes,
       FrameRange, Published
  <1>13. Frames'
    <2>1. video_frame' = video_frame \/ lock = NoTask
      BY DEF BurstFilled, Published
    <2> QED BY <1>2, <1>6, <1>9, <1>12, <2>1, FramesOfOne
  <1>14. ExposureFits'
    BY <1>1 DEF CamInv, ExposureFits
  <1> QED BY <1>7, <1>8, <1>10, <1>11, <1>13, <1>14 DEF CamInv

LEMMA BurstFailedKeeps ==
  ASSUME CamInv, NEW t \in CameraTasks, BurstFailed(t) PROVE CamInv'
  <1> USE CameraConstants
  <1> DEFINE r == [task[t] EXCEPT !.pc = "done", !.held = {}]
  <1>1. /\ task[t].pc = "burst" /\ Typed(task[t]) /\ Has(task, CameraTasks)
        /\ UNCHANGED <<lock, capture_lock, sensor, streaming, vts, exposure, fpsfailed, busleft,
                        usesleft>>
    BY DEF CamInv, TaskTypes, BurstFailed, CamAt, Settings
  <1>2. /\ Aim(t) = "burst" /\ capture_lock = t /\ FramesOf(t) /\ Shown /\ Locked /\ Channel
        /\ Frames
        /\ SharedTypes /\ Aim(t) \in Capturing /\ (Aim(t) \in Routed \/ route = "raw")
    BY <1>1 DEF CamInv, Locked, Frames, Channel, Aim, Capturing, Routed
  <1>3. task' = [task EXCEPT ![t] = r]
    BY <1>1, <1>2 DEF BurstFailed, Goto, Finished, Has, Typed, TaskFields
  <1>4. /\ Typed(r)
        /\ r.pc = "done"
    BY <1>1, <1>2, NoFrame DEF Typed, Has, TaskFields, CameraSteps, CameraOps, Targets
  <1> HIDE DEF r
  <1>5. Moved(t) /\ task'[t] = r
    BY <1>1, <1>3, <1>4, Edited
  <1>6. TaskTypes'
    BY <1>5, OneMoves DEF CamInv
  <1>7. SharedTypes'
    BY <1>1, <1>2 DEF SharedTypes, BurstFailed, Typed, Published
  <1>8. Aim(t)' = "done" /\ ~Copies(t)'
    BY <1>4, <1>5 DEF Aim, Copies
  <1>9. Locked'
    BY <1>1, <1>2, <1>5, <1>8, LockedStays DEF Capturing
  <1>10. Channel'
    <2>1. /\ Aim(t)' \in Routed \/ route' = "raw"
          /\ Aim(t)' = "burst" => cif' = task'[t].held
          /\ Aim(t)' = "process" => cif' = task'[t].held \ {task'[t].out}
          /\ Aim(t)' \notin {"burst", "process"} => cif' = {}
      BY <1>1, <1>2, <1>4, <1>5, <1>8 DEF BurstFailed, Channel, Routed
    <2> QED BY <1>1, <1>2, <2>1, ChannelOfOne
  <1>11. FramesOf(t)' /\ Shown'
    BY <1>1, <1>2, <1>4, <1>5, <1>8 DEF BurstFailed, FramesOf, IspSteps, Shown, SharedTypes,
       FrameRange, Published
  <1>12. Frames'
    <2>1. video_frame' = video_frame \/ lock = NoTask
      BY DEF BurstFailed, Published
    <2> QED BY <1>2, <1>5, <1>8, <1>11, <2>1, FramesOfOne
  <1>13. ExposureFits'
    BY <1>1 DEF CamInv, ExposureFits
  <1> QED BY <1>6, <1>7, <1>9, <1>10, <1>12, <1>13 DEF CamInv

LEMMA BurstEndsKeeps ==
  ASSUME CamInv, NEW t \in CameraTasks, BurstEnds(t) PROVE CamInv'
  <1>1. ASSUME NEW f \in task[t].held,
               task' = [task EXCEPT ![t].pc = "exchange", ![t].out = f] /\ UNCHANGED heap
        PROVE  CamInv'
    <2>1. BurstFilled(t, f)
      BY <1>1 DEF BurstEnds, BurstFilled
    <2> QED BY <2>1, BurstFilledKeeps
  <1>2. ASSUME heap' = heap \ task[t].held,
               task' = [task EXCEPT ![t].pc = "done", ![t].held = {}]
        PROVE  CamInv'
    <2>1. BurstFailed(t)
      BY <1>2 DEF BurstEnds, BurstFailed
    <2> QED BY <2>1, BurstFailedKeeps
  <1> QED BY <1>1, <1>2 DEF BurstEnds

(* The way through the ISP, set up or given up.                              *)
MiRouted(t) ==
  /\ CamAt(t, "halted")
  /\ route' = "isp" /\ cif' = task[t].held \ {task[t].out}
  /\ task' = [task EXCEPT ![t].pc = "stream", ![t].on = TRUE, ![t].then = "process"]
  /\ UNCHANGED <<heap, lock, capture_lock, sensor, streaming, Published, Settings,
                 busleft, usesleft>>

MiGivenUp(t) ==
  /\ CamAt(t, "halted")
  /\ heap' = heap \ task[t].held
  /\ task' = [task EXCEPT ![t].pc = "done", ![t].held = {}, ![t].out = 0]
  /\ UNCHANGED <<route, cif, lock, capture_lock, sensor, streaming, Published, Settings,
                 busleft, usesleft>>

LEMMA MiRoutedKeeps ==
  ASSUME CamInv, NEW t \in CameraTasks, MiRouted(t) PROVE CamInv'
  <1> USE CameraConstants
  <1> DEFINE r == [task[t] EXCEPT !.pc = "stream", !.on = TRUE, !.then = "process"]
  <1>1. /\ task[t].pc = "halted" /\ Typed(task[t]) /\ Has(task, CameraTasks)
        /\ UNCHANGED <<lock, capture_lock, sensor, streaming, vts, exposure, fpsfailed, busleft,
                        usesleft>>
    BY DEF CamInv, TaskTypes, MiRouted, CamAt, Settings
  <1>2. /\ Aim(t) = "halted" /\ capture_lock = t /\ FramesOf(t) /\ Shown /\ Locked /\ Channel
        /\ Frames
        /\ SharedTypes /\ Aim(t) \in Capturing /\ (Aim(t) \in Routed \/ route = "raw")
    BY <1>1 DEF CamInv, Locked, Frames, Channel, Aim, Capturing, Routed
  <1>3. /\ task[t].held \in SUBSET FrameRange
    BY <1>1, <1>2 DEF MiRouted, SharedTypes, FramesOf, IspSteps, Typed
  <1>4. task' = [task EXCEPT ![t] = r]
    BY <1>1, <1>2, <1>3 DEF MiRouted, Goto, Finished, Has, Typed, TaskFields
  <1>5. /\ Typed(r)
        /\ r.pc = "stream"
        /\ r.then = "process"
        /\ r.held = task[t].held
        /\ r.out = task[t].out
    BY <1>1, <1>2, <1>3, NoFrame DEF Typed, Has, TaskFields, CameraSteps, CameraOps, Targets
  <1> HIDE DEF r
  <1>6. Moved(t) /\ task'[t] = r
    BY <1>1, <1>4, <1>5, Edited
  <1>7. TaskTypes'
    BY <1>6, OneMoves DEF CamInv
  <1>8. SharedTypes'
    BY <1>1, <1>2, <1>3 DEF SharedTypes, MiRouted, Typed, Published
  <1>9. Aim(t)' = "process" /\ ~Copies(t)'
    BY <1>5, <1>6 DEF Aim, Copies
  <1>10. Locked'
    BY <1>1, <1>2, <1>6, <1>9, LockedStays DEF Capturing
  <1>11. Channel'
    <2>1. /\ Aim(t)' \in Routed \/ route' = "raw"
          /\ Aim(t)' = "burst" => cif' = task'[t].held
          /\ Aim(t)' = "process" => cif' = task'[t].held \ {task'[t].out}
          /\ Aim(t)' \notin {"burst", "process"} => cif' = {}
      BY <1>1, <1>2, <1>3, <1>5, <1>6, <1>9 DEF MiRouted, Channel, Routed
    <2> QED BY <1>1, <1>2, <2>1, ChannelOfOne
  <1>12. FramesOf(t)' /\ Shown'
    BY <1>1, <1>2, <1>3, <1>5, <1>6, <1>9 DEF MiRouted, FramesOf, IspSteps, Shown, SharedTypes,
       FrameRange, Published
  <1>13. Frames'
    <2>1. video_frame' = video_frame \/ lock = NoTask
      BY DEF MiRouted, Published
    <2> QED BY <1>2, <1>6, <1>9, <1>12, <2>1, FramesOfOne
  <1>14. ExposureFits'
    BY <1>1 DEF CamInv, ExposureFits
  <1> QED BY <1>7, <1>8, <1>10, <1>11, <1>13, <1>14 DEF CamInv

LEMMA MiGivenUpKeeps ==
  ASSUME CamInv, NEW t \in CameraTasks, MiGivenUp(t) PROVE CamInv'
  <1> USE CameraConstants
  <1> DEFINE r == [task[t] EXCEPT !.pc = "done", !.held = {}, !.out = 0]
  <1>1. /\ task[t].pc = "halted" /\ Typed(task[t]) /\ Has(task, CameraTasks)
        /\ UNCHANGED <<lock, capture_lock, sensor, streaming, vts, exposure, fpsfailed, busleft,
                        usesleft>>
    BY DEF CamInv, TaskTypes, MiGivenUp, CamAt, Settings
  <1>2. /\ Aim(t) = "halted" /\ capture_lock = t /\ FramesOf(t) /\ Shown /\ Locked /\ Channel
        /\ Frames
        /\ SharedTypes /\ Aim(t) \in Capturing /\ (Aim(t) \in Routed \/ route = "raw")
    BY <1>1 DEF CamInv, Locked, Frames, Channel, Aim, Capturing, Routed
  <1>3. task' = [task EXCEPT ![t] = r]
    BY <1>1, <1>2 DEF MiGivenUp, Goto, Finished, Has, Typed, TaskFields
  <1>4. /\ Typed(r)
        /\ r.pc = "done"
    BY <1>1, <1>2, NoFrame DEF Typed, Has, TaskFields, CameraSteps, CameraOps, Targets
  <1> HIDE DEF r
  <1>5. Moved(t) /\ task'[t] = r
    BY <1>1, <1>3, <1>4, Edited
  <1>6. TaskTypes'
    BY <1>5, OneMoves DEF CamInv
  <1>7. SharedTypes'
    BY <1>1, <1>2 DEF SharedTypes, MiGivenUp, Typed, Published
  <1>8. Aim(t)' = "done" /\ ~Copies(t)'
    BY <1>4, <1>5 DEF Aim, Copies
  <1>9. Locked'
    BY <1>1, <1>2, <1>5, <1>8, LockedStays DEF Capturing
  <1>10. Channel'
    <2>1. /\ Aim(t)' \in Routed \/ route' = "raw"
          /\ Aim(t)' = "burst" => cif' = task'[t].held
          /\ Aim(t)' = "process" => cif' = task'[t].held \ {task'[t].out}
          /\ Aim(t)' \notin {"burst", "process"} => cif' = {}
      BY <1>1, <1>2, <1>4, <1>5, <1>8 DEF MiGivenUp, Channel, Routed
    <2> QED BY <1>1, <1>2, <2>1, ChannelOfOne
  <1>11. FramesOf(t)' /\ Shown'
    BY <1>1, <1>2, <1>4, <1>5, <1>8 DEF MiGivenUp, FramesOf, IspSteps, Shown, SharedTypes,
       FrameRange, Published
  <1>12. Frames'
    <2>1. video_frame' = video_frame \/ lock = NoTask
      BY DEF MiGivenUp, Published
    <2> QED BY <1>2, <1>5, <1>8, <1>11, <2>1, FramesOfOne
  <1>13. ExposureFits'
    BY <1>1 DEF CamInv, ExposureFits
  <1> QED BY <1>6, <1>7, <1>9, <1>10, <1>12, <1>13 DEF CamInv

LEMMA MiRoutesKeeps ==
  ASSUME CamInv, NEW t \in CameraTasks, MiRoutes(t) PROVE CamInv'
  <1>1. CASE task[t].good
    <2>1. MiRouted(t)
      BY <1>1 DEF MiRoutes, MiRouted
    <2> QED BY <2>1, MiRoutedKeeps
  <1>2. CASE ~task[t].good
    <2>1. MiGivenUp(t)
      BY <1>2 DEF MiRoutes, MiGivenUp
    <2> QED BY <2>1, MiGivenUpKeeps
  <1> QED BY <1>1, <1>2

(* The frames of the ISP were counted, or not.                               *)
MiStopped(t, good) ==
  /\ CamAt(t, "process")
  /\ cif' = {}
  /\ task' = [task EXCEPT ![t].good = good, ![t].on = FALSE, ![t].then = "restore",
                          ![t].pc = IF streaming THEN "stream" ELSE "restore"]
  /\ UNCHANGED <<lock, capture_lock, sensor, streaming, Published, heap, route, Settings,
                 busleft, usesleft>>

LEMMA MiStoppedKeeps ==
  ASSUME CamInv, NEW t \in CameraTasks, NEW good \in BOOLEAN, MiStopped(t, good) PROVE CamInv'
  <1> USE CameraConstants
  <1> DEFINE r == [task[t] EXCEPT !.good = good, !.on = FALSE, !.then = "restore",
                                    !.pc = IF streaming THEN "stream" ELSE "restore"]
  <1>1. /\ task[t].pc = "process" /\ Typed(task[t]) /\ Has(task, CameraTasks)
        /\ UNCHANGED <<lock, capture_lock, sensor, streaming, vts, exposure, fpsfailed, busleft,
                        usesleft>>
    BY DEF CamInv, TaskTypes, MiStopped, CamAt, Settings
  <1>2. /\ Aim(t) = "process" /\ capture_lock = t /\ FramesOf(t) /\ Shown /\ Locked /\ Channel
        /\ Frames
        /\ SharedTypes /\ Aim(t) \in Capturing /\ (Aim(t) \in Routed \/ route = "raw")
    BY <1>1 DEF CamInv, Locked, Frames, Channel, Aim, Capturing, Routed
  <1>3. task' = [task EXCEPT ![t] = r]
    BY <1>1, <1>2 DEF MiStopped, Goto, Finished, Has, Typed, TaskFields
  <1>4. /\ Typed(r)
        /\ r.pc \in {"stream", "restore"}
        /\ r.then = "restore"
        /\ r.held = task[t].held
        /\ r.out = task[t].out
    BY <1>1, <1>2, NoFrame DEF Typed, Has, TaskFields, CameraSteps, CameraOps, Targets
  <1> HIDE DEF r
  <1>5. Moved(t) /\ task'[t] = r
    BY <1>1, <1>3, <1>4, Edited
  <1>6. TaskTypes'
    BY <1>5, OneMoves DEF CamInv
  <1>7. SharedTypes'
    BY <1>1, <1>2 DEF SharedTypes, MiStopped, Typed, Published
  <1>8. Aim(t)' = "restore" /\ ~Copies(t)'
    BY <1>4, <1>5 DEF Aim, Copies
  <1>9. Locked'
    BY <1>1, <1>2, <1>5, <1>8, LockedStays DEF Capturing
  <1>10. Channel'
    <2>1. /\ Aim(t)' \in Routed \/ route' = "raw"
          /\ Aim(t)' = "burst" => cif' = task'[t].held
          /\ Aim(t)' = "process" => cif' = task'[t].held \ {task'[t].out}
          /\ Aim(t)' \notin {"burst", "process"} => cif' = {}
      BY <1>1, <1>2, <1>4, <1>5, <1>8 DEF MiStopped, Channel, Routed
    <2> QED BY <1>1, <1>2, <2>1, ChannelOfOne
  <1>11. FramesOf(t)' /\ Shown'
    BY <1>1, <1>2, <1>4, <1>5, <1>8 DEF MiStopped, FramesOf, IspSteps, Shown, SharedTypes,
       FrameRange, Published
  <1>12. Frames'
    <2>1. video_frame' = video_frame \/ lock = NoTask
      BY DEF MiStopped, Published
    <2> QED BY <1>2, <1>5, <1>8, <1>11, <2>1, FramesOfOne
  <1>13. ExposureFits'
    BY <1>1 DEF CamInv, ExposureFits
  <1> QED BY <1>6, <1>7, <1>9, <1>10, <1>12, <1>13 DEF CamInv

LEMMA MiStopsKeeps ==
  ASSUME CamInv, NEW t \in CameraTasks, MiStops(t) PROVE CamInv'
  <1>1. PICK good \in {task[t].good /\ sensor, FALSE} :
          task' = [task EXCEPT ![t].good = good, ![t].on = FALSE, ![t].then = "restore",
                               ![t].pc = IF streaming THEN "stream" ELSE "restore"]
    BY DEF MiStops
  <1>2. good \in BOOLEAN
    BY <1>1
  <1>3. MiStopped(t, good)
    BY <1>1 DEF MiStops, MiStopped
  <1> QED BY <1>2, <1>3, MiStoppedKeeps

-----------------------------------------------------------------------------
(* The operations outside a capture: they take a lock or give it back.       *)

LEMMA SwitchedKeeps ==
  ASSUME CamInv, NEW t \in CameraTasks, Switched(t) PROVE CamInv'
  <1> USE CameraConstants
  <1> DEFINE r == Idle
  <1>1. /\ task[t].pc = "switched" /\ Typed(task[t]) /\ Has(task, CameraTasks)
        /\ UNCHANGED <<sensor, streaming, Published, heap, cif, route, busleft, Settings>>
    BY DEF CamInv, TaskTypes, Switched, CamAt
  <1>2. /\ Aim(t) = "switched" /\ capture_lock # t /\ Shown /\ Locked /\ Channel /\ Frames
        /\ SharedTypes /\ Aim(t) \notin Capturing
    BY <1>1 DEF CamInv, Locked, Frames, Aim, Capturing
  <1>3. /\ lock = t
    BY <1>1, <1>2 DEF Switched, SharedTypes, Locked, Copies
  <1>4. task' = [task EXCEPT ![t] = r]
    BY <1>1, <1>2, <1>3 DEF Switched
  <1>5. /\ Typed(r)
        /\ r.pc = "idle"
    BY IdleIs, IdleTyped
  <1> HIDE DEF r
  <1>6. Moved(t) /\ task'[t] = r
    BY <1>1, <1>4, <1>5, Edited
  <1>7. TaskTypes'
    BY <1>6, OneMoves DEF CamInv
  <1>8. SharedTypes'
    BY <1>1, <1>2, <1>3 DEF SharedTypes, Switched, Published, Settings
  <1>9. Aim(t)' = "idle" /\ ~Copies(t)'
    BY <1>5, <1>6 DEF Aim, Copies
  <1>10. Locked'
    <2>1. lock' = lock \/ lock = t
      BY <1>1, <1>2, <1>3, <1>6, <1>9 DEF Switched, Capturing, Settings, Published
    <2>2. capture_lock' = capture_lock \/ (capture_lock = t /\ capture_lock' = NoTask)
      BY <1>1, <1>2, <1>3, <1>6, <1>9 DEF Switched, Capturing, Settings, Published
    <2>3. Aim(t)' \notin Capturing /\ capture_lock' # t /\ Aim(t)' # "switched" /\ ~Copies(t)'
      BY <1>1, <1>2, <1>3, <1>6, <1>9 DEF Switched, Capturing, Settings, Published
    <2> QED BY <1>1, <1>2, <1>3, <1>6, <1>9, <2>1, <2>2, <2>3, LockedDrops
  <1>11. Channel'
    BY <1>1, <1>2, <1>3, <1>6, <1>9, ChannelStays DEF Switched, Capturing
  <1>12. FramesOf(t)'
    BY <1>9 DEF FramesOf, IspSteps
  <1>13. Frames'
    BY <1>1, <1>2, <1>3, <1>5, <1>6, <1>9, <1>12, FramesStay DEF Published
  <1>14. ExposureFits'
    BY <1>1 DEF CamInv, ExposureFits, Settings
  <1> QED BY <1>7, <1>8, <1>10, <1>11, <1>13, <1>14 DEF CamInv

LEMMA ReadEndsKeeps ==
  ASSUME CamInv, NEW t \in CameraTasks, ReadEnds(t) PROVE CamInv'
  <1> USE CameraConstants
  <1> DEFINE r == Idle
  <1>1. /\ task[t].pc = "copy" /\ Typed(task[t]) /\ Has(task, CameraTasks)
        /\ UNCHANGED <<sensor, streaming, Published, heap, cif, route, busleft, Settings>>
    BY DEF CamInv, TaskTypes, ReadEnds, CamAt
  <1>2. /\ Aim(t) = "copy" /\ capture_lock # t /\ Shown /\ Locked /\ Channel /\ Frames
        /\ SharedTypes /\ Aim(t) \notin Capturing
    BY <1>1 DEF CamInv, Locked, Frames, Aim, Capturing
  <1>3. /\ task[t].op = "video" => lock = t
    BY <1>1, <1>2 DEF ReadEnds, SharedTypes, Locked, Copies
  <1>4. task' = [task EXCEPT ![t] = r]
    BY <1>1, <1>2, <1>3 DEF ReadEnds
  <1>5. /\ Typed(r)
        /\ r.pc = "idle"
    BY IdleIs, IdleTyped
  <1> HIDE DEF r
  <1>6. Moved(t) /\ task'[t] = r
    BY <1>1, <1>4, <1>5, Edited
  <1>7. TaskTypes'
    BY <1>6, OneMoves DEF CamInv
  <1>8. SharedTypes'
    BY <1>1, <1>2, <1>3 DEF SharedTypes, ReadEnds, Published, Settings
  <1>9. Aim(t)' = "idle" /\ ~Copies(t)'
    BY <1>5, <1>6 DEF Aim, Copies
  <1>10. Locked'
    <2>1. lock' = lock \/ lock = t
      BY <1>1, <1>2, <1>3, <1>6, <1>9 DEF ReadEnds, Capturing, Settings, Published
    <2>2. capture_lock' = capture_lock \/ (capture_lock = t /\ capture_lock' = NoTask)
      BY <1>1, <1>2, <1>3, <1>6, <1>9 DEF ReadEnds, Capturing, Settings, Published
    <2>3. Aim(t)' \notin Capturing /\ capture_lock' # t /\ Aim(t)' # "switched" /\ ~Copies(t)'
      BY <1>1, <1>2, <1>3, <1>6, <1>9 DEF ReadEnds, Capturing, Settings, Published
    <2> QED BY <1>1, <1>2, <1>3, <1>6, <1>9, <2>1, <2>2, <2>3, LockedDrops
  <1>11. Channel'
    BY <1>1, <1>2, <1>3, <1>6, <1>9, ChannelStays DEF ReadEnds, Capturing
  <1>12. FramesOf(t)'
    BY <1>9 DEF FramesOf, IspSteps
  <1>13. Frames'
    BY <1>1, <1>2, <1>3, <1>5, <1>6, <1>9, <1>12, FramesStay DEF Published
  <1>14. ExposureFits'
    BY <1>1 DEF CamInv, ExposureFits, Settings
  <1> QED BY <1>7, <1>8, <1>10, <1>11, <1>13, <1>14 DEF CamInv

SwitchedTo(t, enable) ==
  /\ Begin(t, "switch") /\ lock = NoTask
  /\ lock' = t
  /\ task' = [task EXCEPT ![t] = [Idle EXCEPT !.op = "switch", !.on = enable,
                                              !.then = "switched", !.pc = "stream"]]
  /\ UNCHANGED <<capture_lock, Settings>>

LEMMA SwitchedToKeeps ==
  ASSUME CamInv, NEW t \in CameraTasks, NEW enable \in BOOLEAN, SwitchedTo(t, enable) PROVE CamInv'
  <1> USE CameraConstants
  <1> DEFINE r == [Idle EXCEPT !.op = "switch", !.on = enable, !.then = "switched", !.pc = "stream"]
  <1>1. /\ task[t].pc = "idle" /\ Typed(task[t]) /\ Has(task, CameraTasks)
        /\ UNCHANGED <<sensor, streaming, Published, heap, cif, route, busleft, Settings>>
    BY DEF CamInv, TaskTypes, SwitchedTo, CamAt, Begin
  <1>2. /\ Aim(t) = "idle" /\ capture_lock # t /\ Shown /\ Locked /\ Channel /\ Frames
        /\ SharedTypes /\ Aim(t) \notin Capturing
    BY <1>1 DEF CamInv, Locked, Frames, Aim, Capturing
  <1>3. task' = [task EXCEPT ![t] = r]
    BY <1>1, <1>2 DEF SwitchedTo
  <1>4. /\ Typed(r)
        /\ r.pc = "stream"
        /\ r.then = "switched"
    BY <1>1, <1>2, IdleIs, IdleTyped DEF Typed, Has, TaskFields, CameraSteps, CameraOps, Targets,
       Captures
  <1> HIDE DEF r
  <1>5. Moved(t) /\ task'[t] = r
    BY <1>1, <1>3, <1>4, Edited
  <1>6. TaskTypes'
    BY <1>5, OneMoves DEF CamInv
  <1>7. SharedTypes'
    BY <1>1, <1>2 DEF SharedTypes, SwitchedTo, Published, Settings, Begin
  <1>8. Aim(t)' = "switched" /\ ~Copies(t)'
    BY <1>4, <1>5 DEF Aim, Copies
  <1>9. Locked'
    <2>1. lock' = lock \/ (lock = NoTask /\ lock' = t)
      BY <1>1, <1>2, <1>5, <1>8 DEF SwitchedTo, Capturing, Settings, Published, Begin
    <2>2. capture_lock' = capture_lock \/ (capture_lock = NoTask /\ capture_lock' = t)
      BY <1>1, <1>2, <1>5, <1>8 DEF SwitchedTo, Capturing, Settings, Published, Begin
    <2>3. Aim(t)' \in Capturing <=> capture_lock' = t
      BY <1>1, <1>2, <1>5, <1>8 DEF SwitchedTo, Capturing, Settings, Published, Begin
    <2>4. Aim(t)' = "switched" \/ Copies(t)' => lock' = t
      BY <1>1, <1>2, <1>5, <1>8 DEF SwitchedTo, Capturing, Settings, Published, Begin
    <2> QED BY <1>1, <1>2, <1>5, <1>8, <2>1, <2>2, <2>3, <2>4, LockedTakes
  <1>10. Channel'
    BY <1>1, <1>2, <1>5, <1>8, ChannelStays DEF SwitchedTo, Capturing, Begin
  <1>11. FramesOf(t)'
    BY <1>8 DEF FramesOf, IspSteps
  <1>12. Frames'
    BY <1>1, <1>2, <1>4, <1>5, <1>8, <1>11, FramesStay DEF Published
  <1>13. ExposureFits'
    BY <1>1 DEF CamInv, ExposureFits, Settings
  <1> QED BY <1>6, <1>7, <1>9, <1>10, <1>12, <1>13 DEF CamInv

LEMMA StreamonBeginsKeeps ==
  ASSUME CamInv, NEW t \in CameraTasks, StreamonBegins(t) PROVE CamInv'
  <1> USE CameraConstants
  <1> DEFINE r == [Idle EXCEPT !.op = "streamon", !.on = TRUE, !.then = "started", !.good = TRUE,
                        !.pc = IF streaming THEN "started" ELSE "stream"]
  <1>1. /\ task[t].pc = "idle" /\ Typed(task[t]) /\ Has(task, CameraTasks)
        /\ UNCHANGED <<sensor, streaming, Published, heap, cif, route, busleft, Settings>>
    BY DEF CamInv, TaskTypes, StreamonBegins, CamAt, Begin
  <1>2. /\ Aim(t) = "idle" /\ capture_lock # t /\ Shown /\ Locked /\ Channel /\ Frames
        /\ SharedTypes /\ Aim(t) \notin Capturing
    BY <1>1 DEF CamInv, Locked, Frames, Aim, Capturing
  <1>3. task' = [task EXCEPT ![t] = r]
    BY <1>1, <1>2 DEF StreamonBegins
  <1>4. /\ Typed(r)
        /\ r.pc \in {"started", "stream"}
        /\ r.then = "started"
    BY <1>1, <1>2, IdleIs, IdleTyped DEF Typed, Has, TaskFields, CameraSteps, CameraOps, Targets,
       Captures
  <1> HIDE DEF r
  <1>5. Moved(t) /\ task'[t] = r
    BY <1>1, <1>3, <1>4, Edited
  <1>6. TaskTypes'
    BY <1>5, OneMoves DEF CamInv
  <1>7. SharedTypes'
    BY <1>1, <1>2 DEF SharedTypes, StreamonBegins, Published, Settings, Begin
  <1>8. Aim(t)' = "started" /\ ~Copies(t)'
    BY <1>4, <1>5 DEF Aim, Copies
  <1>9. Locked'
    <2>1. lock' = lock \/ (lock = NoTask /\ lock' = t)
      BY <1>1, <1>2, <1>5, <1>8 DEF StreamonBegins, Capturing, Settings, Published, Begin
    <2>2. capture_lock' = capture_lock \/ (capture_lock = NoTask /\ capture_lock' = t)
      BY <1>1, <1>2, <1>5, <1>8 DEF StreamonBegins, Capturing, Settings, Published, Begin
    <2>3. Aim(t)' \in Capturing <=> capture_lock' = t
      BY <1>1, <1>2, <1>5, <1>8 DEF StreamonBegins, Capturing, Settings, Published, Begin
    <2>4. Aim(t)' = "switched" \/ Copies(t)' => lock' = t
      BY <1>1, <1>2, <1>5, <1>8 DEF StreamonBegins, Capturing, Settings, Published, Begin
    <2> QED BY <1>1, <1>2, <1>5, <1>8, <2>1, <2>2, <2>3, <2>4, LockedTakes
  <1>10. Channel'
    BY <1>1, <1>2, <1>5, <1>8, ChannelStays DEF StreamonBegins, Capturing, Begin
  <1>11. FramesOf(t)'
    BY <1>8 DEF FramesOf, IspSteps
  <1>12. Frames'
    BY <1>1, <1>2, <1>4, <1>5, <1>8, <1>11, FramesStay DEF Published
  <1>13. ExposureFits'
    BY <1>1 DEF CamInv, ExposureFits, Settings
  <1> QED BY <1>6, <1>7, <1>9, <1>10, <1>12, <1>13 DEF CamInv

CaptureOf(t, op) ==
  /\ Begin(t, op) /\ capture_lock = NoTask
  /\ capture_lock' = t
  /\ task' = [task EXCEPT ![t] =
                [Idle EXCEPT !.op = op, !.on = TRUE, !.then = "capture", !.good = TRUE,
                   !.pc = IF streaming \/ op = "isp_streamon" THEN "capture" ELSE "stream"]]
  /\ UNCHANGED <<lock, Settings>>

LEMMA CaptureOfKeeps ==
  ASSUME CamInv, NEW t \in CameraTasks, NEW op \in Captures \ {"streamon"}, CaptureOf(t, op)
  PROVE  CamInv'
  <1> USE CameraConstants
  <1> DEFINE r == [Idle EXCEPT !.op = op, !.on = TRUE, !.then = "capture", !.good = TRUE,
                        !.pc = IF streaming \/ op = "isp_streamon" THEN "capture" ELSE "stream"]
  <1>1. /\ task[t].pc = "idle" /\ Typed(task[t]) /\ Has(task, CameraTasks)
        /\ UNCHANGED <<sensor, streaming, Published, heap, cif, route, busleft, Settings>>
    BY DEF CamInv, TaskTypes, CaptureOf, CamAt, Begin
  <1>2. /\ Aim(t) = "idle" /\ capture_lock # t /\ Shown /\ Locked /\ Channel /\ Frames
        /\ SharedTypes /\ Aim(t) \notin Capturing
    BY <1>1 DEF CamInv, Locked, Frames, Aim, Capturing
  <1>3. task' = [task EXCEPT ![t] = r]
    BY <1>1, <1>2 DEF CaptureOf
  <1>4. /\ Typed(r)
        /\ r.pc \in {"capture", "stream"}
        /\ r.then = "capture"
    BY <1>1, <1>2, IdleIs, IdleTyped DEF Typed, Has, TaskFields, CameraSteps, CameraOps, Targets,
       Captures
  <1> HIDE DEF r
  <1>5. Moved(t) /\ task'[t] = r
    BY <1>1, <1>3, <1>4, Edited
  <1>6. TaskTypes'
    BY <1>5, OneMoves DEF CamInv
  <1>7. SharedTypes'
    BY <1>1, <1>2 DEF SharedTypes, CaptureOf, Published, Settings, Begin
  <1>8. Aim(t)' = "capture" /\ ~Copies(t)'
    BY <1>4, <1>5 DEF Aim, Copies
  <1>9. Locked'
    <2>1. lock' = lock \/ (lock = NoTask /\ lock' = t)
      BY <1>1, <1>2, <1>5, <1>8 DEF CaptureOf, Capturing, Settings, Published, Begin
    <2>2. capture_lock' = capture_lock \/ (capture_lock = NoTask /\ capture_lock' = t)
      BY <1>1, <1>2, <1>5, <1>8 DEF CaptureOf, Capturing, Settings, Published, Begin
    <2>3. Aim(t)' \in Capturing <=> capture_lock' = t
      BY <1>1, <1>2, <1>5, <1>8 DEF CaptureOf, Capturing, Settings, Published, Begin
    <2>4. Aim(t)' = "switched" \/ Copies(t)' => lock' = t
      BY <1>1, <1>2, <1>5, <1>8 DEF CaptureOf, Capturing, Settings, Published, Begin
    <2> QED BY <1>1, <1>2, <1>5, <1>8, <2>1, <2>2, <2>3, <2>4, LockedTakes
  <1>10. Channel'
    BY <1>1, <1>2, <1>8, ChannelOfOne DEF CaptureOf, Channel, Begin
  <1>11. FramesOf(t)'
    BY <1>8 DEF FramesOf, IspSteps
  <1>12. Frames'
    BY <1>1, <1>2, <1>4, <1>5, <1>8, <1>11, FramesStay DEF Published
  <1>13. ExposureFits'
    BY <1>1 DEF CamInv, ExposureFits, Settings
  <1> QED BY <1>6, <1>7, <1>9, <1>10, <1>12, <1>13 DEF CamInv

ReadsVideo(t) ==
  /\ Begin(t, "video") /\ lock = NoTask /\ video_frame # 0
  /\ lock' = t
  /\ task' = [task EXCEPT ![t] = [Idle EXCEPT !.pc = "copy", !.op = "video", !.out = video_frame]]
  /\ UNCHANGED <<capture_lock, Settings>>

LEMMA ReadsVideoKeeps ==
  ASSUME CamInv, NEW t \in CameraTasks, ReadsVideo(t) PROVE CamInv'
  <1> USE CameraConstants
  <1> DEFINE r == [Idle EXCEPT !.pc = "copy", !.op = "video", !.out = video_frame]
  <1>1. /\ task[t].pc = "idle" /\ Typed(task[t]) /\ Has(task, CameraTasks)
        /\ UNCHANGED <<sensor, streaming, Published, heap, cif, route, busleft, Settings>>
    BY DEF CamInv, TaskTypes, ReadsVideo, CamAt, Begin
  <1>2. /\ Aim(t) = "idle" /\ capture_lock # t /\ Shown /\ Locked /\ Channel /\ Frames
        /\ SharedTypes /\ Aim(t) \notin Capturing
    BY <1>1 DEF CamInv, Locked, Frames, Aim, Capturing
  <1>3. /\ video_frame \in 0 .. FrameCount
        /\ video_frame # 0
        /\ lock' = t
    BY <1>1, <1>2 DEF ReadsVideo, SharedTypes, Locked, Copies, Begin
  <1>4. task' = [task EXCEPT ![t] = r]
    BY <1>1, <1>2, <1>3 DEF ReadsVideo
  <1>5. /\ Typed(r)
        /\ r.pc = "copy"
        /\ r.out = video_frame
    BY <1>1, <1>2, <1>3, IdleIs, IdleTyped DEF Typed, Has, TaskFields, CameraSteps, CameraOps,
       Targets, Captures
  <1> HIDE DEF r
  <1>6. Moved(t) /\ task'[t] = r
    BY <1>1, <1>4, <1>5, Edited
  <1>7. TaskTypes'
    BY <1>6, OneMoves DEF CamInv
  <1>8. SharedTypes'
    BY <1>1, <1>2, <1>3 DEF SharedTypes, ReadsVideo, Published, Settings, Begin
  <1>9. Aim(t)' = "copy" /\ video_frame # 0 /\ lock' = t
    BY <1>3, <1>5, <1>6 DEF Aim, Copies
  <1>10. Locked'
    <2>1. lock' = lock \/ (lock = NoTask /\ lock' = t)
      BY <1>1, <1>2, <1>3, <1>6, <1>9 DEF ReadsVideo, Capturing, Settings, Published, Begin
    <2>2. capture_lock' = capture_lock \/ (capture_lock = NoTask /\ capture_lock' = t)
      BY <1>1, <1>2, <1>3, <1>6, <1>9 DEF ReadsVideo, Capturing, Settings, Published, Begin
    <2>3. Aim(t)' \in Capturing <=> capture_lock' = t
      BY <1>1, <1>2, <1>3, <1>6, <1>9 DEF ReadsVideo, Capturing, Settings, Published, Begin
    <2>4. Aim(t)' = "switched" \/ Copies(t)' => lock' = t
      BY <1>1, <1>2, <1>3, <1>6, <1>9 DEF ReadsVideo, Capturing, Settings, Published, Begin
    <2> QED BY <1>1, <1>2, <1>3, <1>6, <1>9, <2>1, <2>2, <2>3, <2>4, LockedTakes
  <1>11. Channel'
    BY <1>1, <1>2, <1>3, <1>6, <1>9, ChannelStays DEF ReadsVideo, Capturing, Begin
  <1>12. FramesOf(t)'
    BY <1>9 DEF FramesOf, IspSteps
  <1>13. Frames'
    BY <1>1, <1>2, <1>3, <1>5, <1>6, <1>9, <1>12, FramesStay DEF Published
  <1>14. ExposureFits'
    BY <1>1 DEF CamInv, ExposureFits, Settings
  <1> QED BY <1>7, <1>8, <1>10, <1>11, <1>13, <1>14 DEF CamInv

ReadsIsp(t) ==
  /\ Begin(t, "isp") /\ isp_frame # 0
  /\ task' = [task EXCEPT ![t] = [Idle EXCEPT !.pc = "copy", !.op = "isp", !.out = isp_frame]]
  /\ UNCHANGED <<lock, capture_lock, Settings>>

LEMMA ReadsIspKeeps ==
  ASSUME CamInv, NEW t \in CameraTasks, ReadsIsp(t) PROVE CamInv'
  <1> USE CameraConstants
  <1> DEFINE r == [Idle EXCEPT !.pc = "copy", !.op = "isp", !.out = isp_frame]
  <1>1. /\ task[t].pc = "idle" /\ Typed(task[t]) /\ Has(task, CameraTasks)
        /\ UNCHANGED <<sensor, streaming, Published, heap, cif, route, busleft, Settings>>
    BY DEF CamInv, TaskTypes, ReadsIsp, CamAt, Begin
  <1>2. /\ Aim(t) = "idle" /\ capture_lock # t /\ Shown /\ Locked /\ Channel /\ Frames
        /\ SharedTypes /\ Aim(t) \notin Capturing
    BY <1>1 DEF CamInv, Locked, Frames, Aim, Capturing
  <1>3. /\ isp_frame \in 0 .. FrameCount
    BY <1>1, <1>2 DEF ReadsIsp, SharedTypes, Locked, Copies, Begin
  <1>4. task' = [task EXCEPT ![t] = r]
    BY <1>1, <1>2, <1>3 DEF ReadsIsp
  <1>5. /\ Typed(r)
        /\ r.pc = "copy"
        /\ r.op = "isp"
    BY <1>1, <1>2, <1>3, IdleIs, IdleTyped DEF Typed, Has, TaskFields, CameraSteps, CameraOps,
       Targets, Captures
  <1> HIDE DEF r
  <1>6. Moved(t) /\ task'[t] = r
    BY <1>1, <1>4, <1>5, Edited
  <1>7. TaskTypes'
    BY <1>6, OneMoves DEF CamInv
  <1>8. SharedTypes'
    BY <1>1, <1>2, <1>3 DEF SharedTypes, ReadsIsp, Published, Settings, Begin
  <1>9. Aim(t)' = "copy" /\ ~Copies(t)'
    BY <1>5, <1>6 DEF Aim, Copies
  <1>10. Locked'
    <2>1. lock' = lock \/ (lock = NoTask /\ lock' = t)
      BY <1>1, <1>2, <1>3, <1>6, <1>9 DEF ReadsIsp, Capturing, Settings, Published, Begin
    <2>2. capture_lock' = capture_lock \/ (capture_lock = NoTask /\ capture_lock' = t)
      BY <1>1, <1>2, <1>3, <1>6, <1>9 DEF ReadsIsp, Capturing, Settings, Published, Begin
    <2>3. Aim(t)' \in Capturing <=> capture_lock' = t
      BY <1>1, <1>2, <1>3, <1>6, <1>9 DEF ReadsIsp, Capturing, Settings, Published, Begin
    <2>4. Aim(t)' = "switched" \/ Copies(t)' => lock' = t
      BY <1>1, <1>2, <1>3, <1>6, <1>9 DEF ReadsIsp, Capturing, Settings, Published, Begin
    <2> QED BY <1>1, <1>2, <1>3, <1>6, <1>9, <2>1, <2>2, <2>3, <2>4, LockedTakes
  <1>11. Channel'
    BY <1>1, <1>2, <1>3, <1>6, <1>9, ChannelStays DEF ReadsIsp, Capturing, Begin
  <1>12. FramesOf(t)'
    BY <1>9 DEF FramesOf, IspSteps
  <1>13. Frames'
    BY <1>1, <1>2, <1>3, <1>5, <1>6, <1>9, <1>12, FramesStay DEF Published
  <1>14. ExposureFits'
    BY <1>1 DEF CamInv, ExposureFits, Settings
  <1> QED BY <1>7, <1>8, <1>10, <1>11, <1>13, <1>14 DEF CamInv

LEMMA SwitchBeginsKeeps ==
  ASSUME CamInv, NEW t \in CameraTasks, SwitchBegins(t) PROVE CamInv'
  <1>1. PICK enable \in BOOLEAN : SwitchedTo(t, enable)
    BY DEF SwitchBegins, SwitchedTo
  <1> QED BY <1>1, SwitchedToKeeps

LEMMA CaptureBeginsKeeps ==
  ASSUME CamInv, NEW t \in CameraTasks, CaptureBegins(t) PROVE CamInv'
  <1>1. PICK op \in Captures \ {"streamon"} : CaptureOf(t, op)
    BY DEF CaptureBegins, CaptureOf
  <1> QED BY <1>1, CaptureOfKeeps

LEMMA ReadBeginsKeeps ==
  ASSUME CamInv, NEW t \in CameraTasks, ReadBegins(t) PROVE CamInv'
  <1>1. ReadsVideo(t) \/ ReadsIsp(t)
    BY DEF ReadBegins, ReadsVideo, ReadsIsp
  <1> QED BY <1>1, ReadsVideoKeeps, ReadsIspKeeps

(* A stream that was started goes on to its capture in two steps: it gives   *)
(* up the one lock and takes the other.                                      *)
StreamonUnlocks(t) ==
  /\ CamAt(t, "started") /\ lock = t /\ lock' = NoTask
  /\ UNCHANGED <<task, capture_lock, sensor, streaming, Published, heap, cif, route, Settings,
                 busleft, usesleft>>

StreamonFails(t) ==
  /\ CamAt(t, "started") /\ lock = t /\ lock' = NoTask
  /\ task' = [task EXCEPT ![t] = Idle]
  /\ UNCHANGED <<capture_lock, sensor, streaming, Published, heap, cif, route, Settings,
                 busleft, usesleft>>

StreamonCaptures(t) ==
  /\ CamAt(t, "started") /\ capture_lock = NoTask /\ capture_lock' = t
  /\ task' = [task EXCEPT ![t].pc = "capture"]
  /\ UNCHANGED <<lock, sensor, streaming, Published, heap, cif, route, Settings,
                 busleft, usesleft>>

LEMMA StreamonUnlocksKeeps ==
  ASSUME CamInv, NEW t \in CameraTasks, StreamonUnlocks(t) PROVE CamInv'
  <1> USE CameraConstants
  <1>1. /\ task[t].pc = "started" /\ lock = t /\ lock' = NoTask
        /\ UNCHANGED <<task, capture_lock, sensor, streaming, video_frame, isp_frame, heap, cif,
                       route, vts, exposure, fpsfailed, busleft, usesleft>>
    BY DEF StreamonUnlocks, CamAt, Published, Settings
  <1>2. Aim(t) = "started" /\ ~Copies(t)
    BY <1>1 DEF Aim, Copies
  <1>3. TaskTypes'
    BY <1>1 DEF CamInv, TaskTypes
  <1>4. SharedTypes' /\ ExposureFits'
    BY <1>1 DEF CamInv, SharedTypes, ExposureFits
  <1>5. \A u \in CameraTasks : Aim(u)' = Aim(u) /\ (Copies(u)' <=> Copies(u))
    BY <1>1 DEF Aim, Copies
  <1>6. Locked'
    BY <1>1, <1>2, <1>5 DEF CamInv, Locked
  <1>7. Channel' /\ Frames'
    BY <1>1, <1>5 DEF CamInv, Channel, Frames, FramesOf, Shown
  <1> QED BY <1>3, <1>4, <1>6, <1>7 DEF CamInv

LEMMA ControlSetKeeps ==
  ASSUME CamInv, NEW t \in CameraTasks, ControlSet(t) PROVE CamInv'
  <1> USE CameraConstants
  <1>1. UNCHANGED <<task, lock, capture_lock, sensor, streaming, video_frame, isp_frame, heap, cif,
                    route, busleft>> /\ usesleft > 0 /\ usesleft' = usesleft - 1
    BY DEF ControlSet, Begin, Published
  <1>2. \A u \in CameraTasks : Aim(u)' = Aim(u) /\ (Copies(u)' <=> Copies(u))
    BY <1>1 DEF Aim, Copies
  <1>3. TaskTypes' /\ Locked' /\ Channel' /\ Frames'
    BY <1>1, <1>2 DEF CamInv, TaskTypes, Locked, Channel, Frames, FramesOf, Shown
  <1>4. /\ vts' \in Rates /\ exposure' \in 1 .. 3 /\ fpsfailed' \in BOOLEAN
        /\ exposure' <= vts' - 1 \/ fpsfailed'
    <2>1. vts \in {2, 4} /\ exposure \in 1 .. 3 /\ fpsfailed \in BOOLEAN
          /\ (exposure <= vts - 1 \/ fpsfailed)
      BY DEF CamInv, SharedTypes, Rates, ExposureFits
    <2>2. CASE \E e \in 1 .. 3 : e <= vts - 1 /\ exposure' = e /\ UNCHANGED <<vts, fpsfailed>>
      BY <2>1, <2>2 DEF Rates
    <2>3. CASE \E v \in Rates : RateSet(v)
      <3>1. PICK v \in {2, 4} : RateSet(v)
        BY <2>3 DEF Rates
      <3>2. vts' = v /\ fpsfailed' = FALSE
            /\ exposure' = IF exposure > v - 1 THEN v - 1 ELSE exposure
        BY <3>1 DEF RateSet
      <3>3. exposure' \in 1 .. 3 /\ exposure' <= v - 1
        BY <2>1, <3>2
      <3> QED BY <3>2, <3>3 DEF Rates
    <2>4. CASE (\E v \in Rates : exposure > v - 1 /\ vts' = v) /\ fpsfailed' = TRUE
               /\ UNCHANGED exposure
      BY <2>1, <2>4 DEF Rates
    <2> QED BY <2>2, <2>3, <2>4 DEF ControlSet
  <1>5. SharedTypes'
    BY <1>1, <1>4 DEF CamInv, SharedTypes
  <1>6. ExposureFits'
    BY <1>4 DEF ExposureFits
  <1> QED BY <1>3, <1>5, <1>6 DEF CamInv

(* What the code believes follows the sensor.                                *)
LEMMA StreamFlagKeeps ==
  ASSUME CamInv, NEW t \in CameraTasks, StreamFlag(t) PROVE CamInv'
  <1> USE CameraConstants
  <1> DEFINE r == [task[t] EXCEPT !.pc = task[t].then]
  <1>1. /\ task[t].pc = "flag" /\ Typed(task[t]) /\ Has(task, CameraTasks)
        /\ streaming' = task[t].on
        /\ UNCHANGED <<lock, capture_lock, sensor, video_frame, isp_frame, heap, cif, route,
                       vts, exposure, fpsfailed, busleft, usesleft>>
    BY DEF CamInv, TaskTypes, StreamFlag, CamAt, Published, Settings
  <1>2. task' = [task EXCEPT ![t] = r]
    BY <1>1 DEF StreamFlag, Goto, Has, Typed, TaskFields
  <1>3. /\ Typed(r) /\ r.pc = task[t].then /\ r.pc \in Targets
        /\ r.held = task[t].held /\ r.out = task[t].out
    BY <1>1 DEF Typed, Has, TaskFields, CameraSteps, Targets
  <1> HIDE DEF r
  <1>4. Moved(t) /\ task'[t] = r
    BY <1>1, <1>2, <1>3, Edited
  <1>5. TaskTypes'
    BY <1>4, OneMoves DEF CamInv
  <1>6. SharedTypes'
    <2>1. streaming' \in BOOLEAN
      BY <1>1 DEF Typed
    <2> QED BY <1>1, <2>1 DEF CamInv, SharedTypes
  <1>7. Aim(t)' = Aim(t) /\ ~Copies(t) /\ ~Copies(t)'
    BY <1>1, <1>3, <1>4 DEF Aim, Copies, Targets
  <1>8. Locked' /\ Channel' /\ Frames' /\ ExposureFits'
    BY <1>1, <1>3, <1>4, <1>7, OthersStay DEF CamInv, Locked, Channel, Frames, Shown, FramesOf,
       ExposureFits
  <1> QED BY <1>5, <1>6, <1>8 DEF CamInv

LEMMA StreamonFailsKeeps ==
  ASSUME CamInv, NEW t \in CameraTasks, StreamonFails(t) PROVE CamInv'
  <1> USE CameraConstants
  <1> DEFINE r == Idle
  <1>1. /\ task[t].pc = "started" /\ Typed(task[t]) /\ Has(task, CameraTasks)
        /\ UNCHANGED <<sensor, streaming, Published, heap, cif, route, busleft, Settings>>
    BY DEF CamInv, TaskTypes, StreamonFails, CamAt
  <1>2. /\ Aim(t) = "started" /\ capture_lock # t /\ Shown /\ Locked /\ Channel /\ Frames
        /\ SharedTypes /\ Aim(t) \notin Capturing
    BY <1>1 DEF CamInv, Locked, Frames, Aim, Capturing
  <1>3. /\ lock = t
    BY <1>1, <1>2 DEF StreamonFails, SharedTypes, Locked, Copies
  <1>4. task' = [task EXCEPT ![t] = r]
    BY <1>1, <1>2, <1>3 DEF StreamonFails
  <1>5. /\ Typed(r)
        /\ r.pc = "idle"
    BY IdleIs, IdleTyped
  <1> HIDE DEF r
  <1>6. Moved(t) /\ task'[t] = r
    BY <1>1, <1>4, <1>5, Edited
  <1>7. TaskTypes'
    BY <1>6, OneMoves DEF CamInv
  <1>8. SharedTypes'
    BY <1>1, <1>2, <1>3 DEF SharedTypes, StreamonFails, Published, Settings
  <1>9. Aim(t)' = "idle" /\ ~Copies(t)'
    BY <1>5, <1>6 DEF Aim, Copies
  <1>10. Locked'
    <2>1. lock' = lock \/ lock = t
      BY <1>1, <1>2, <1>3, <1>6, <1>9 DEF StreamonFails, Capturing, Settings, Published
    <2>2. capture_lock' = capture_lock \/ (capture_lock = t /\ capture_lock' = NoTask)
      BY <1>1, <1>2, <1>3, <1>6, <1>9 DEF StreamonFails, Capturing, Settings, Published
    <2>3. Aim(t)' \notin Capturing /\ capture_lock' # t /\ Aim(t)' # "switched" /\ ~Copies(t)'
      BY <1>1, <1>2, <1>3, <1>6, <1>9 DEF StreamonFails, Capturing, Settings, Published
    <2> QED BY <1>1, <1>2, <1>3, <1>6, <1>9, <2>1, <2>2, <2>3, LockedDrops
  <1>11. Channel'
    BY <1>1, <1>2, <1>3, <1>6, <1>9, ChannelStays DEF StreamonFails, Capturing
  <1>12. FramesOf(t)'
    BY <1>9 DEF FramesOf, IspSteps
  <1>13. Frames'
    BY <1>1, <1>2, <1>3, <1>5, <1>6, <1>9, <1>12, FramesStay DEF Published
  <1>14. ExposureFits'
    BY <1>1 DEF CamInv, ExposureFits, Settings
  <1> QED BY <1>7, <1>8, <1>10, <1>11, <1>13, <1>14 DEF CamInv

LEMMA StreamonCapturesKeeps ==
  ASSUME CamInv, NEW t \in CameraTasks, StreamonCaptures(t) PROVE CamInv'
  <1> USE CameraConstants
  <1> DEFINE r == [task[t] EXCEPT !.pc = "capture"]
  <1>1. /\ task[t].pc = "started" /\ Typed(task[t]) /\ Has(task, CameraTasks)
        /\ UNCHANGED <<sensor, streaming, Published, heap, cif, route, busleft, Settings>>
    BY DEF CamInv, TaskTypes, StreamonCaptures, CamAt
  <1>2. /\ Aim(t) = "started" /\ capture_lock # t /\ Shown /\ Locked /\ Channel /\ Frames
        /\ SharedTypes /\ Aim(t) \notin Capturing
    BY <1>1 DEF CamInv, Locked, Frames, Aim, Capturing
  <1>3. task' = [task EXCEPT ![t] = r]
    BY <1>1, <1>2 DEF StreamonCaptures
  <1>4. /\ Typed(r)
        /\ r.pc = "capture"
    BY <1>1, <1>2, IdleIs, IdleTyped DEF Typed, Has, TaskFields, CameraSteps, CameraOps, Targets,
       Captures
  <1> HIDE DEF r
  <1>5. Moved(t) /\ task'[t] = r
    BY <1>1, <1>3, <1>4, Edited
  <1>6. TaskTypes'
    BY <1>5, OneMoves DEF CamInv
  <1>7. SharedTypes'
    BY <1>1, <1>2 DEF SharedTypes, StreamonCaptures, Published, Settings
  <1>8. Aim(t)' = "capture" /\ ~Copies(t)'
    BY <1>4, <1>5 DEF Aim, Copies
  <1>9. Locked'
    <2>1. lock' = lock \/ (lock = NoTask /\ lock' = t)
      BY <1>1, <1>2, <1>5, <1>8 DEF StreamonCaptures, Capturing, Settings, Published
    <2>2. capture_lock' = capture_lock \/ (capture_lock = NoTask /\ capture_lock' = t)
      BY <1>1, <1>2, <1>5, <1>8 DEF StreamonCaptures, Capturing, Settings, Published
    <2>3. Aim(t)' \in Capturing <=> capture_lock' = t
      BY <1>1, <1>2, <1>5, <1>8 DEF StreamonCaptures, Capturing, Settings, Published
    <2>4. Aim(t)' = "switched" \/ Copies(t)' => lock' = t
      BY <1>1, <1>2, <1>5, <1>8 DEF StreamonCaptures, Capturing, Settings, Published
    <2> QED BY <1>1, <1>2, <1>5, <1>8, <2>1, <2>2, <2>3, <2>4, LockedTakes
  <1>10. Channel'
    BY <1>1, <1>2, <1>8, ChannelOfOne DEF StreamonCaptures, Channel
  <1>11. FramesOf(t)'
    BY <1>8 DEF FramesOf, IspSteps
  <1>12. Frames'
    BY <1>1, <1>2, <1>4, <1>5, <1>8, <1>11, FramesStay DEF Published
  <1>13. ExposureFits'
    BY <1>1 DEF CamInv, ExposureFits, Settings
  <1> QED BY <1>6, <1>7, <1>9, <1>10, <1>12, <1>13 DEF CamInv

LEMMA StartedKeeps ==
  ASSUME CamInv, NEW t \in CameraTasks, Started(t) PROVE CamInv'
  <1>1. CASE lock = t /\ lock' = NoTask /\ task[t].good
    <2>1. StreamonUnlocks(t)
      BY <1>1, CameraConstants DEF Started, StreamonUnlocks
    <2> QED BY <2>1, StreamonUnlocksKeeps
  <1>2. CASE lock = t /\ lock' = NoTask /\ ~task[t].good
    <2>1. StreamonFails(t)
      BY <1>2, CameraConstants DEF Started, StreamonFails
    <2> QED BY <2>1, StreamonFailsKeeps
  <1>3. CASE lock # t
    <2>1. StreamonCaptures(t)
      BY <1>3 DEF Started, StreamonCaptures, Goto
    <2> QED BY <2>1, StreamonCapturesKeeps
  <1> QED BY <1>1, <1>2, <1>3 DEF Started

-----------------------------------------------------------------------------
LEMMA CameraKeeps == CamInv /\ [CameraNext]_cameravars => CamInv'
  <1> SUFFICES ASSUME CamInv, [CameraNext]_cameravars PROVE CamInv'
    OBVIOUS
  <1>1. CASE UNCHANGED cameravars
    <2>1. UNCHANGED <<task, lock, capture_lock, sensor, streaming, video_frame, isp_frame, heap, cif,
                      route, vts, exposure, fpsfailed, busleft, usesleft>>
      BY <1>1 DEF cameravars
    <2>2. \A u \in CameraTasks : Aim(u)' = Aim(u) /\ (Copies(u)' <=> Copies(u))
      BY <2>1 DEF Aim, Copies
    <2>3. TaskTypes' /\ SharedTypes' /\ ExposureFits'
      BY <2>1 DEF CamInv, TaskTypes, SharedTypes, ExposureFits
    <2>4. Locked' /\ Channel' /\ Frames'
      BY <2>1, <2>2 DEF CamInv, Locked, Channel, Frames, FramesOf, Shown
    <2> QED BY <2>3, <2>4 DEF CamInv
  <1>2. ASSUME NEW t \in CameraTasks, CameraStep(t) PROVE CamInv'
    BY <1>2, CaptureBeginsKeeps, StreamonBeginsKeeps, StartedKeeps, SwitchBeginsKeeps,
       SwitchedKeeps,
       StreamWriteKeeps, StreamFlagKeeps, ControlSetKeeps, CaptureRefusedKeeps, BurstBeginsKeeps,
       BurstEndsKeeps, ExchangeKeeps, BurstDropsKeeps, CaptureDoneKeeps, CheckBeginsKeeps,
       CheckEndsKeeps, MiBeginsKeeps, MiRoutesKeeps, MiStopsKeeps, MiRestoresKeeps,
       MiPublishesKeeps, ReadBeginsKeeps, ReadEndsKeeps DEF CameraStep
  <1> QED BY <1>1, <1>2 DEF CameraNext

(* The channel is that of the one who captures, and a reader's frame is the  *)
(* one that is published.                                                    *)
LEMMA CameraIsSound == CamInv => CameraSound
  <1> SUFFICES ASSUME CamInv PROVE CameraSound
    OBVIOUS
  <1> USE CameraConstants
  <1>1. 0 \notin heap
    BY DEF CamInv, SharedTypes, FrameRange
  <1>2. ChannelWritesOwn
    <2>1. CASE capture_lock = NoTask
      BY <2>1 DEF CamInv, Channel, ChannelWritesOwn
    <2>2. ASSUME NEW t \in CameraTasks, capture_lock = t PROVE ChannelWritesOwn
      BY <2>2 DEF CamInv, Channel, Frames, FramesOf, IspSteps, ChannelWritesOwn
    <2> QED BY <2>1, <2>2 DEF CamInv, SharedTypes
  <1>3. RouteRestored
    BY DEF CamInv, Channel, RouteRestored
  <1>4. FramesAlive
    BY <1>1 DEF CamInv, Frames, Shown, FramesAlive, Copies, CamAt
  <1> QED BY <1>2, <1>3, <1>4 DEF CamInv, CameraSound

LEMMA CameraIsTyped == CamInv => CameraTypeOK
  <1> SUFFICES ASSUME CamInv PROVE CameraTypeOK
    OBVIOUS
  <1>1. ASSUME NEW t \in CameraTasks
        PROVE  task[t] \in [pc : CameraSteps, op : CameraOps, held : SUBSET FrameRange,
                            out : 0 .. FrameCount, was : BOOLEAN, good : BOOLEAN,
                            then : CameraSteps \cup {"none"}, on : BOOLEAN]
    BY DEF CamInv, TaskTypes, Typed, Has, TaskFields
  <1> QED BY <1>1 DEF CamInv, TaskTypes, SharedTypes, Has, CameraTypeOK

(* However many captures fail wherever, and whoever reads: the channel       *)
(* writes into frames of its own only, it is off and routed as it was after  *)
(* each capture, what is shown or copied is not freed, and the exposure fits *)
(* the frame.                                                                *)
THEOREM CameraStaysSound == CameraSpec => []CameraSound
BY CameraStarts, CameraKeeps, CameraIsSound, PTL DEF CameraSpec

(* The camera's variables keep their types.                                  *)
THEOREM CameraStaysTyped == CameraSpec => []CameraTypeOK
BY CameraStarts, CameraKeeps, CameraIsTyped, PTL DEF CameraSpec

-----------------------------------------------------------------------------
(***************************************************************************)
(* Proofs about the two sequential loops.  The page search of              *)
(* a733_rt_alloc finds the first fit, for any size of the pool, any used   *)
(* pages and any request.  The rows of a matrix are divided without gap or *)
(* overlap, for any number of rows, any number of CPUs and any mask: the   *)
(* sums before the CPUs (share) grow with the CPU, and so do the rounded   *)
(* shares of the rows; the rows given so far are an initial part of the    *)
(* matrix.                                                                 *)
(***************************************************************************)

(* The run is free and shorter than wanted while the scan goes on, and no    *)
(* fit starts before it.                                                     *)
ScanInv ==
  /\ n \in 1 .. PoolPages - 1 /\ start \in Nat \ {0} /\ run \in Nat
  /\ pc \in {"scan", "found", "none"}
  /\ \A q \in start .. start + run - 1 : q \notin used
  /\ \A p \in 1 .. start - 1 : p \notin Fits(used, n)
  /\ start + run <= PoolPages
  /\ pc = "found" => run = n
  /\ pc # "found" => run < n
  /\ pc = "none" => start + run >= PoolPages

LEMMA InitScanInv == SearchInit => ScanInv
BY PagesAssumption DEF SearchInit, ScanInv

LEMMA ExtendScanInv == ScanInv /\ Extend => ScanInv'
<1> SUFFICES ASSUME ScanInv, Extend PROVE ScanInv'
  OBVIOUS
<1>1. \A q \in start .. start + run : q \notin used
  BY DEF ScanInv, Extend
<1> QED
  BY <1>1, PagesAssumption DEF ScanInv, Extend, Scanning

(* Every window of n pages that starts in the run holds the used page.       *)
LEMMA SkipScanInv == ScanInv /\ Skip => ScanInv'
<1> SUFFICES ASSUME ScanInv, Skip PROVE ScanInv'
  OBVIOUS
<1>1. /\ start + run \in used /\ run < n /\ start + run < PoolPages
      /\ start' = start + run + 1 /\ run' = 0 /\ UNCHANGED <<used, n, pc>> /\ pc = "scan"
  BY DEF ScanInv, Skip, Scanning
<1>2. ASSUME NEW p \in 1 .. start' - 1
      PROVE  p \notin Fits(used, n)
  <2>1. CASE p < start
    BY <2>1, <1>2, <1>1 DEF ScanInv
  <2>2. CASE p >= start
    <3>1. start + run \in p .. p + n - 1
      BY <2>2, <1>2, <1>1 DEF ScanInv
    <3> QED
      BY <3>1, <1>1 DEF Fits
  <2> QED
    BY <2>1, <2>2, <1>1, <1>2 DEF ScanInv
<1> QED
  BY <1>1, <1>2, PagesAssumption DEF ScanInv

LEMMA GiveUpScanInv == ScanInv /\ GiveUp => ScanInv'
BY DEF ScanInv, GiveUp

LEMMA NextScanInv == ScanInv /\ [Search]_searchVars => ScanInv'
<1>1. ScanInv /\ UNCHANGED searchVars => ScanInv'
  BY DEF ScanInv, searchVars
<1> QED
  BY <1>1, ExtendScanInv, SkipScanInv, GiveUpScanInv DEF Search

LEMMA Found == ScanInv => FindsFirstFit
<1> SUFFICES ASSUME ScanInv PROVE FindsFirstFit
  OBVIOUS
<1>1. \A p \in Fits(used, n) : p \in 1 .. PoolPages - n /\ p >= start
  BY PagesAssumption DEF ScanInv, Fits
<1>2. ASSUME pc = "found" PROVE start \in Fits(used, n)
  BY <1>2, PagesAssumption DEF ScanInv, Fits
<1>3. ASSUME pc = "none" PROVE Fits(used, n) = {}
  BY <1>1, <1>3, PagesAssumption DEF ScanInv
<1> QED
  BY <1>1, <1>2, <1>3 DEF FindsFirstFit, Least

(* However the pool is used, the search returns the first run of free pages  *)
(* and fails only if there is none.                                          *)
THEOREM SearchIsFirstFit == SearchSpec => []FindsFirstFit
BY InitScanInv, NextScanInv, Found, PTL DEF SearchSpec
-----------------------------------------------------------------------------
(* The rows before the CPU c. *)
Cut(c) == (rows * share[c]) \div total

(* How far the first loop has come. *)
Summed == IF loop = 1 THEN cpu ELSE CpuCount

Types ==
  /\ rows \in Nat /\ mask \in (SUBSET Cpus) \ {{}}
  /\ cpu \in 0 .. CpuCount /\ loop \in {1, 2}
  /\ total \in Nat /\ cumulative \in Nat
  /\ firstRow \in [Cpus -> Int] /\ end \in [Cpus -> Int]
  /\ share \in [0 .. CpuCount -> Nat]

Shares ==
  /\ share[0] = 0 /\ total = share[Summed]
  /\ \A c \in Cpus : c < Summed =>
       share[c + 1] = share[c] + (IF c \in mask THEN Weight(c) ELSE 0)
  /\ \A c, d \in 0 .. CpuCount : c <= d /\ d <= Summed => share[c] <= share[d]
  /\ cumulative = (IF loop = 1 THEN 0 ELSE share[cpu])

Given ==
  loop = 2 =>
    /\ \A c \in mask : c < cpu => firstRow[c] = Cut(c) /\ end[c] = Cut(c + 1)
    /\ \A r \in Nat : r < Cut(cpu) => \E c \in mask : c < cpu /\ r \in Rows(c)

Inv == Types /\ Shares /\ Given
-----------------------------------------------------------------------------
LEMMA DivGrows ==
  ASSUME NEW a \in Nat, NEW b \in Nat, NEW t \in Nat, t > 0, a <= b
  PROVE  a \div t <= b \div t
OBVIOUS

LEMMA DivNat ==
  ASSUME NEW a \in Nat, NEW t \in Nat, t > 0
  PROVE  a \div t \in Nat
OBVIOUS

LEMMA DivExact ==
  ASSUME NEW r \in Nat, NEW t \in Nat, t > 0
  PROVE  (r * t) \div t = r
OBVIOUS

LEMMA ProductGrows ==
  ASSUME NEW r \in Nat, NEW a \in Nat, NEW b \in Nat, a <= b
  PROVE  r * a <= r * b /\ r * a \in Nat /\ r * b \in Nat
OBVIOUS

(* Some CPU of the mask has added its weight. *)
LEMMA TotalPositive ==
  ASSUME Types, Shares, Summed = CpuCount
  PROVE  total > 0
<1>1. PICK c \in Cpus : c \in mask
  BY DEF Types
<1>2. c \in Nat /\ c < CpuCount /\ CpuCount \in Nat /\ c \in 0 .. CpuCount
      /\ c + 1 \in 0 .. CpuCount /\ CpuCount \in 0 .. CpuCount
  BY PartitionAssumption DEF Cpus
<1>3. share[c + 1] = share[c] + Weight(c) /\ Weight(c) > 0 /\ Weight(c) \in Nat
  BY <1>1, <1>2 DEF Shares, Weight
<1>4. share[c + 1] <= share[CpuCount] /\ total = share[CpuCount]
  BY <1>2 DEF Shares
<1>5. share[c] \in Nat /\ share[c + 1] \in Nat /\ share[CpuCount] \in Nat
  BY <1>2 DEF Types
<1> QED
  BY <1>3, <1>4, <1>5

LEMMA CutsGrow ==
  ASSUME Types, Shares, Summed = CpuCount,
         NEW c \in 0 .. CpuCount, NEW d \in 0 .. CpuCount, c <= d
  PROVE  Cut(c) \in Nat /\ Cut(d) \in Nat /\ Cut(c) <= Cut(d)
<1>1. share[c] \in Nat /\ share[d] \in Nat /\ rows \in Nat /\ total \in Nat
  BY DEF Types
<1>2. share[c] <= share[d]
  BY PartitionAssumption DEF Shares
<1>3. rows * share[c] <= rows * share[d] /\ rows * share[c] \in Nat /\ rows * share[d] \in Nat
  BY <1>1, <1>2, ProductGrows
<1>4. total > 0
  BY TotalPositive
<1> QED
  BY <1>1, <1>3, <1>4, DivGrows, DivNat DEF Cut

(* The last cut is the end of the matrix, the first one its start.           *)
LEMMA CutsEnd ==
  ASSUME Types, Shares, Summed = CpuCount
  PROVE  Cut(CpuCount) = rows /\ Cut(0) = 0
<1>1. total = share[CpuCount] /\ share[0] = 0 /\ rows \in Nat /\ total \in Nat /\ total > 0
  BY TotalPositive DEF Shares, Types
<1>2. (rows * total) \div total = rows
  BY <1>1, DivExact
<1>3. rows * 0 = 0 /\ 0 \div total = 0
  BY <1>1
<1> QED
  BY <1>1, <1>2, <1>3 DEF Cut
-----------------------------------------------------------------------------
LEMMA InitInv == RowsInit => Inv
BY PartitionAssumption DEF RowsInit, Inv, Types, Shares, Given, Summed, Cpus

LEMMA SumInv == Inv /\ Sum => Inv'
<1> SUFFICES ASSUME Inv, Sum PROVE Inv'
  OBVIOUS
<1>1. cpu \in Cpus /\ cpu \in 0 .. CpuCount /\ cpu + 1 \in 0 .. CpuCount /\ loop = 1 /\ Summed = cpu
      /\ Summed' = cpu + 1
  BY PartitionAssumption DEF Inv, Types, Sum, Cpus, Summed
<1>2. total = share[cpu] /\ total \in Nat /\ Added(total) \in Nat /\ total <= Added(total)
  BY <1>1 DEF Inv, Types, Shares, Added, Weight
<1>3. Added(total) = total + (IF cpu \in mask THEN Weight(cpu) ELSE 0)
  BY <1>2 DEF Added
<1>4. share' \in [0 .. CpuCount -> Nat] /\ share'[cpu + 1] = Added(total)
      /\ \A c \in 0 .. CpuCount : c # cpu + 1 => share'[c] = share[c]
  BY <1>1, <1>2 DEF Inv, Types, Sum
<1>5. Types'
  BY <1>1, <1>2, <1>4, PartitionAssumption DEF Inv, Types, Sum
<1>6. Shares'
  <2>1. share'[0] = 0 /\ total' = share'[Summed']
    BY <1>1, <1>4, PartitionAssumption DEF Inv, Types, Shares, Sum
  <2>2. ASSUME NEW c \in Cpus, c < Summed'
        PROVE  share'[c + 1] = share'[c] + (IF c \in mask' THEN Weight(c) ELSE 0)
    <3>1. CASE c = cpu
      BY <3>1, <1>1, <1>2, <1>3, <1>4 DEF Sum
    <3>2. CASE c < cpu
      <4>1. c \in 0 .. CpuCount /\ c + 1 \in 0 .. CpuCount /\ c # cpu + 1 /\ c + 1 # cpu + 1
        BY <3>2, <1>1, PartitionAssumption DEF Cpus
      <4> QED
        BY <4>1, <3>2, <1>1, <1>4 DEF Inv, Shares, Sum
    <3> QED
      BY <3>1, <3>2, <2>2, <1>1, PartitionAssumption DEF Cpus
  <2>3. ASSUME NEW c \in 0 .. CpuCount, NEW d \in 0 .. CpuCount, c <= d, d <= Summed'
        PROVE  share'[c] <= share'[d]
    <3>1. CASE d = cpu + 1 /\ c # cpu + 1
      <4>1. c <= cpu /\ share[c] <= share[cpu] /\ share[c] \in Nat
        BY <3>1, <2>3, <1>1, PartitionAssumption DEF Inv, Shares, Types
      <4> QED
        BY <4>1, <3>1, <1>2, <1>4
    <3>2. CASE c = cpu + 1
      BY <3>2, <2>3, <1>1, <1>4, PartitionAssumption
    <3>3. CASE d # cpu + 1
      <4>1. d <= cpu /\ c # cpu + 1
        BY <3>3, <2>3, <1>1, PartitionAssumption
      <4> QED
        BY <4>1, <3>3, <2>3, <1>1, <1>4 DEF Inv, Shares
    <3> QED
      BY <3>1, <3>2, <3>3
  <2>4. cumulative' = 0 /\ loop' = 1
    BY <1>1 DEF Inv, Shares, Sum
  <2> QED
    BY <2>1, <2>2, <2>3, <2>4 DEF Shares
<1>7. Given'
  BY <1>1 DEF Given, Sum
<1> QED
  BY <1>5, <1>6, <1>7 DEF Inv

LEMMA TurnInv == Inv /\ Turn => Inv'
<1> SUFFICES ASSUME Inv, Turn PROVE Inv'
  OBVIOUS
<1>1. loop = 1 /\ loop' = 2 /\ cpu' = 0 /\ Summed = CpuCount /\ Summed' = CpuCount
      /\ UNCHANGED <<rows, mask, total, cumulative, firstRow, end, share>>
  BY DEF Turn, Summed
<1>2. Types'
  BY <1>1, PartitionAssumption DEF Inv, Types
<1>3. Shares'
  BY <1>1 DEF Inv, Shares
<1>4. (rows' * share'[cpu']) \div total' = 0
  BY <1>1, CutsEnd DEF Inv, Cut
<1>5. Given'
  BY <1>1, <1>4, PartitionAssumption DEF Given, Cut, Inv, Types, Cpus
<1> QED
  BY <1>2, <1>3, <1>5 DEF Inv

LEMMA DivideInv == Inv /\ Divide => Inv'
<1> SUFFICES ASSUME Inv, Divide PROVE Inv'
  OBVIOUS
<1>1. /\ loop = 2 /\ loop' = 2 /\ cpu \in Cpus /\ cpu' = cpu + 1
      /\ Summed = CpuCount /\ Summed' = CpuCount
      /\ cpu \in 0 .. CpuCount /\ cpu + 1 \in 0 .. CpuCount
      /\ UNCHANGED <<rows, mask, total, share>>
  BY PartitionAssumption DEF Inv, Types, Divide, Cpus, Summed
<1>2. \A c : Cut(c)' = Cut(c)
  BY <1>1 DEF Cut
<1>3. cumulative = share[cpu] /\ Added(cumulative) = share[cpu + 1]
  <2>1. cpu < Summed /\ share[cpu] \in Nat
    BY <1>1, PartitionAssumption DEF Inv, Types, Cpus
  <2>2. share[cpu + 1] = share[cpu] + (IF cpu \in mask THEN Weight(cpu) ELSE 0)
    BY <1>1, <2>1 DEF Inv, Shares
  <2> QED
    BY <1>1, <2>1, <2>2 DEF Inv, Shares, Added
<1>4. Cut(cpu) \in Nat /\ Cut(cpu + 1) \in Nat /\ Cut(cpu) <= Cut(cpu + 1)
  BY <1>1, CutsGrow DEF Inv
<1>5. /\ cpu \in mask => firstRow' = [firstRow EXCEPT ![cpu] = Cut(cpu)]
                          /\ end' = [end EXCEPT ![cpu] = Cut(cpu + 1)]
      /\ cpu \notin mask => firstRow' = firstRow /\ end' = end
  BY <1>3 DEF Divide, Cut
<1>6. Types'
  <2>1. cumulative' \in Nat
    BY <1>1, <1>3 DEF Divide, Inv, Types
  <2>2. firstRow' \in [Cpus -> Int] /\ end' \in [Cpus -> Int]
    BY <1>1, <1>4, <1>5 DEF Inv, Types
  <2> QED
    BY <1>1, <2>1, <2>2 DEF Inv, Types
<1>7. Shares'
  BY <1>1, <1>3 DEF Divide, Inv, Shares
<1>8. Given'
  <2>1. \A c \in mask : c \in Cpus /\ (c < cpu + 1 <=> c < cpu \/ c = cpu)
    BY <1>1 DEF Inv, Types, Cpus
  <2>2. ASSUME NEW c \in mask, c < cpu + 1
        PROVE  firstRow'[c] = Cut(c) /\ end'[c] = Cut(c + 1)
    <3>1. CASE c = cpu
      BY <3>1, <1>1, <1>5 DEF Inv, Types
    <3>2. CASE c # cpu
      BY <3>2, <2>1, <2>2, <1>1, <1>5 DEF Inv, Types, Given
    <3> QED
      BY <3>1, <3>2
  <2>3. \A c \in mask : c < cpu => Rows(c)' = Rows(c)
    BY <2>1, <1>1, <1>5 DEF Inv, Types, Rows
  <2>4. ASSUME NEW r \in Nat, r < Cut(cpu + 1)
        PROVE  \E c \in mask : c < cpu + 1 /\ r \in Rows(c)'
    <3>1. CASE r < Cut(cpu)
      <4>1. PICK c \in mask : c < cpu /\ r \in Rows(c)
        BY <3>1, <1>1 DEF Inv, Given
      <4> QED
        BY <4>1, <2>1, <2>3
    <3>2. CASE r >= Cut(cpu) /\ cpu \in mask
      <4>1. firstRow'[cpu] = Cut(cpu) /\ end'[cpu] = Cut(cpu + 1)
        BY <3>2, <2>1, <2>2
      <4>2. r \in firstRow'[cpu] .. end'[cpu] - 1
        BY <4>1, <3>2, <2>4, <1>4
      <4> QED
        BY <4>2, <3>2, <2>1 DEF Rows
    <3>3. CASE cpu \notin mask
      <4>1. share[cpu + 1] = share[cpu]
        BY <3>3, <1>1, <1>3 DEF Added
      <4>2. r < Cut(cpu)
        BY <4>1, <2>4 DEF Cut
      <4> QED
        BY <4>2, <3>1
    <3> QED
      BY <3>1, <3>2, <3>3, <1>4
  <2> QED
    BY <1>1, <1>2, <2>2, <2>4 DEF Given
<1> QED
  BY <1>6, <1>7, <1>8 DEF Inv

LEMMA NextInv == Inv /\ [RowsNext]_rowVars => Inv'
<1>1. Inv /\ UNCHANGED rowVars => Inv'
  BY DEF Inv, Types, Shares, Given, Summed, Cut, Rows, rowVars
<1> QED
  BY <1>1, SumInv, TurnInv, DivideInv DEF RowsNext

(* What the invariant says when the loops are over. *)
LEMMA AllGiven == Inv => EveryRowOnce
<1> SUFFICES ASSUME Inv, Divided
             PROVE  /\ \A r \in 0 .. rows - 1 : \E c \in mask : r \in Rows(c)
                    /\ \A c \in mask : Rows(c) \subseteq 0 .. rows - 1
                    /\ \A c, d \in mask : c # d => Rows(c) \cap Rows(d) = {}
  BY DEF EveryRowOnce
<1>1. loop = 2 /\ cpu = CpuCount /\ Summed = CpuCount /\ rows \in Nat
  BY DEF Divided, Summed, Inv, Types
<1>2. Cut(CpuCount) = rows /\ Cut(0) = 0
  BY <1>1, CutsEnd DEF Inv
<1>3. \A c \in mask : c \in Int /\ 0 <= c /\ c < CpuCount /\ c \in 0 .. CpuCount
                     /\ c + 1 \in 0 .. CpuCount
  BY PartitionAssumption DEF Inv, Types, Cpus
<1>4. \A c \in mask : firstRow[c] = Cut(c) /\ end[c] = Cut(c + 1)
  BY <1>1, <1>3 DEF Inv, Given
<1>5. \A r \in 0 .. rows - 1 : \E c \in mask : r \in Rows(c)
  BY <1>1, <1>2 DEF Inv, Given
<1>6. ASSUME NEW c \in mask
      PROVE  Rows(c) \subseteq 0 .. rows - 1
  <2>1. Cut(0) <= Cut(c) /\ Cut(c) \in Nat
    BY <1>1, <1>3, CutsGrow, PartitionAssumption DEF Inv
  <2>2. Cut(c + 1) <= Cut(CpuCount) /\ Cut(c + 1) \in Nat
    BY <1>1, <1>3, CutsGrow, PartitionAssumption DEF Inv
  <2> QED
    BY <2>1, <2>2, <1>1, <1>2, <1>4 DEF Rows
<1>7. ASSUME NEW c \in mask, NEW d \in mask, c < d
      PROVE  Rows(c) \cap Rows(d) = {}
  <2>1. Cut(c + 1) <= Cut(d) /\ Cut(c + 1) \in Nat /\ Cut(d) \in Nat
    BY <1>1, <1>3, <1>7, CutsGrow DEF Inv
  <2>2. Cut(c) \in Nat /\ Cut(d + 1) \in Nat
    BY <1>1, <1>3, CutsGrow DEF Inv
  <2> QED
    BY <2>1, <2>2, <1>4 DEF Rows
<1>8. \A c, d \in mask : c # d => Rows(c) \cap Rows(d) = {}
  <2> SUFFICES ASSUME NEW c \in mask, NEW d \in mask, c # d
               PROVE  Rows(c) \cap Rows(d) = {}
    OBVIOUS
  <2>1. c < d \/ d < c
    BY <1>3
  <2> QED
    BY <2>1, <1>7
<1> QED
  BY <1>5, <1>6, <1>8

(* However many rows, and whatever the mask: every row is computed by        *)
(* exactly one worker of read_parallel_matvec.                               *)
THEOREM RowsArePartitioned == RowsSpec => []EveryRowOnce
BY InitInv, NextInv, AllGiven, PTL DEF RowsSpec
-----------------------------------------------------------------------------
(* Long names, for any names, checksums and losses of power.  An entry holds *)
(* a part of a name, the entries from b spell the last k parts, and a run is *)
(* whole when the short entry of the name with its checksum follows.         *)
IsPart(d, i, name, j) ==
  /\ d[i].kind = "lfn" /\ d[i].seq = j /\ d[i].part = name[j] /\ (d[i].last <=> j = Len(name))

Spelled(d, b, name, k) ==
  \A j \in 0 .. k - 1 : /\ b + j \in DOMAIN d /\ IsPart(d, b + j, name, Len(name) - j)
                        /\ d[b + j].sum = d[b].sum

WholeRun(d, b, name) ==
  LET s == b + Len(name) IN
  /\ Spelled(d, b, name, Len(name))
  /\ s \in DOMAIN d /\ d[s].kind = "sfn" /\ d[s].name = name
  /\ fat_lfnchecksum(d[s].alias) = d[b].sum

(* The inductive invariant: what follows the end mark is unused, a short     *)
(* entry is that of a name that was created, and of a long name it has the   *)
(* run before it, and a part belongs to a whole run or was cut.              *)
EntryKinds == {"end", "free", "sfn", "lfn"}

FatShape ==
  /\ \E c \in 1 .. Clusters : DOMAIN dir = 1 .. c * PerCluster
  /\ dir = [i \in DOMAIN dir |-> dir[i]]
  /\ \A i \in DOMAIN dir : dir[i].kind \in EntryKinds
  /\ made \subseteq LongNames \cup ShortNames

EndsLast == \A i, j \in DOMAIN dir : dir[i].kind = "end" /\ i <= j => dir[j].kind = "end"

ShortEntries ==
  \A i \in DOMAIN dir : dir[i].kind = "sfn" =>
    /\ dir[i].name \in made
    /\ IF dir[i].name \in LongNames
       THEN WholeRun(dir, i - Len(dir[i].name), dir[i].name) /\ dir[i].alias.number # 0
       ELSE dir[i].alias = AsAlias(dir[i].name)

OneEach ==
  /\ \A i, j \in DOMAIN dir :
       dir[i].kind = "sfn" /\ dir[j].kind = "sfn" /\ dir[i].name = dir[j].name => i = j
  /\ \A name \in made : \E i \in DOMAIN dir : dir[i].kind = "sfn" /\ dir[i].name = name

CutAt(d, b, name, i, cuts) ==
  name \in cuts /\ \E k \in 1 .. Len(name) : Spelled(d, b, name, k) /\ i \in b .. b + k - 1
InRun(d, b, name, i) == WholeRun(d, b, name) /\ i \in b .. b + Len(name) - 1

LongEntries ==
  \A i \in DOMAIN dir : dir[i].kind = "lfn" =>
    \E b \in DOMAIN dir, name \in LongNames :
      InRun(dir, b, name, i) \/ CutAt(dir, b, name, i, cut)

FatInv == FatShape /\ EndsLast /\ ShortEntries /\ OneEach /\ LongEntries

LEMMA ShapeIs ==
  ASSUME FatShape
  PROVE  \E z \in Nat \ {0} : DOMAIN dir = 1 .. z /\ Len(dir) = z
<1>1. PICK c \in 1 .. Clusters : DOMAIN dir = 1 .. c * PerCluster
  BY DEF FatShape
<1>2. c * PerCluster \in Nat \ {0}
  BY FatAssumption
<1>3. Len(dir) = c * PerCluster
  <2> DEFINE size == c * PerCluster
  <2>1. dir \in [1 .. size -> {dir[i] : i \in DOMAIN dir}]
    BY <1>1 DEF FatShape
  <2> HIDE DEF size
  <2> QED BY <1>2, <2>1, LenProperties, SeqDef DEF size
<1> QED BY <1>1, <1>2, <1>3

LEMMA NameIs ==
  ASSUME NEW name \in LongNames
  PROVE  Len(name) \in Nat \ {0} /\ name = [j \in 1 .. Len(name) |-> name[j]] /\ name \notin ShortNames
BY FatAssumption

(* What a run begins with, and that two runs that share an entry begin       *)
(* together.                                                                 *)
Opening(d, b, name) ==
  /\ b \in DOMAIN d /\ d[b].kind = "lfn" /\ d[b].last /\ d[b].seq = Len(name)
  /\ d[b].part = name[Len(name)]

LEMMA OpensWith ==
  ASSUME NEW d, NEW b \in Int, NEW name, Len(name) \in Nat, NEW k \in Int, 0 < k, Spelled(d, b, name, k)
  PROVE  Opening(d, b, name)
<1>1. 0 \in 0 .. k - 1 /\ b + 0 = b /\ Len(name) - 0 = Len(name)
  OBVIOUS
<1>2. b \in DOMAIN d /\ IsPart(d, b, name, Len(name))
  BY <1>1 DEF Spelled
<1> QED BY <1>2 DEF IsPart, Opening

LEMMA OneStart ==
  ASSUME NEW d, NEW b \in Int, NEW m \in Int, NEW one, NEW two, NEW k \in Int, NEW l \in Int,
         NEW i \in Int, Len(one) \in Nat, Len(two) \in Nat,
         Spelled(d, b, one, k), Spelled(d, m, two, l),
         i \in b .. b + k - 1, i \in m .. m + l - 1
  PROVE  b = m
<1>1. ~(b < m)
  <2> SUFFICES ASSUME b < m PROVE FALSE
    OBVIOUS
  <2>1. m - b \in 0 .. k - 1 /\ 0 \in 0 .. l - 1 /\ b + (m - b) = m /\ m + 0 = m
    OBVIOUS
  <2>2. d[m].last <=> Len(one) - (m - b) = Len(one)
    BY <2>1 DEF Spelled, IsPart
  <2>3. d[m].last <=> Len(two) - 0 = Len(two)
    BY <2>1 DEF Spelled, IsPart
  <2> QED BY <2>2, <2>3
<1>2. ~(m < b)
  <2> SUFFICES ASSUME m < b PROVE FALSE
    OBVIOUS
  <2>1. b - m \in 0 .. l - 1 /\ 0 \in 0 .. k - 1 /\ m + (b - m) = b /\ b + 0 = b
    OBVIOUS
  <2>2. d[b].last <=> Len(two) - (b - m) = Len(two)
    BY <2>1 DEF Spelled, IsPart
  <2>3. d[b].last <=> Len(one) - 0 = Len(one)
    BY <2>1 DEF Spelled, IsPart
  <2> QED BY <2>2, <2>3
<1> QED BY <1>1, <1>2

-----------------------------------------------------------------------------
(* Finding.  Where the search of a long name stands after the entry i.       *)
Looked == [want : Int, sum : {0} \cup {dir[i].sum : i \in DOMAIN dir},
           lfn : Nat, sfn : Nat, end : BOOLEAN]

AtRest(r, name) == ~r.end /\ r.sfn = NoEntry /\ r.want = Len(name)

Amid(r, i, name) ==
  /\ ~r.end /\ r.sfn = NoEntry /\ r.lfn \in 1 .. i
  /\ r.want = Len(name) - (i - r.lfn + 1) /\ r.want >= 0
  /\ Spelled(dir, r.lfn, name, i - r.lfn + 1) /\ r.sum = dir[r.lfn].sum

Hit(r, i, name) ==
  /\ r.end /\ r.lfn \in Nat \ {0} /\ r.sfn = r.lfn + Len(name) /\ r.sfn \in 1 .. i
  /\ Spelled(dir, r.lfn, name, Len(name)) /\ dir[r.sfn].kind = "sfn"
  /\ fat_lfnchecksum(dir[r.sfn].alias) = dir[r.lfn].sum

Missed(r, i) == r.end /\ r.sfn = NoEntry /\ \E e \in 1 .. i : dir[e].kind = "end"

Scanned(r, i, name) == AtRest(r, name) \/ Amid(r, i, name) \/ Hit(r, i, name) \/ Missed(r, i)

Begins(name, i) == IsPart(dir, i, name, Len(name))
Follows(r, name, i) == IsPart(dir, i, name, r.want) /\ dir[i].sum = r.sum
Closes(r, i) == dir[i].kind = "sfn" /\ fat_lfnchecksum(dir[i].alias) = r.sum

(* The branches of one turn.                                                 *)
HitAt(r, i)      == [r EXCEPT !.sfn = i, !.end = TRUE]
StopAt(r)       == [r EXCEPT !.end = TRUE]
StartOver(r, name)    == [r EXCEPT !.want = Len(name)]
BeginAt(r, name, i) == [r EXCEPT !.want = Len(name) - 1, !.lfn = i, !.sum = dir[i].sum]
GoOn(r)       == [r EXCEPT !.want = r.want - 1]

TakesTurn(q, r, name, i) ==
  /\ r.end => q = r
  /\ ~r.end /\ r.want = 0 /\ Closes(r, i) => q = HitAt(r, i)
  /\ ~r.end /\ ~(r.want = 0 /\ Closes(r, i)) /\ dir[i].kind = "end" => q = StopAt(r)
  /\ ~r.end /\ ~(r.want = 0 /\ Closes(r, i)) /\ dir[i].kind # "end"
       /\ r.want \in {0, Len(name)} =>
       q = IF Begins(name, i) THEN BeginAt(r, name, i) ELSE StartOver(r, name)
  /\ ~r.end /\ dir[i].kind # "end" /\ r.want \notin {0, Len(name)} =>
       q = IF Follows(r, name, i) THEN GoOn(r) ELSE StartOver(r, name)

LEMMA TurnIs ==
  ASSUME NEW name, NEW r \in Looked, NEW i, Len(name) \in Nat \ {0}, NEW q, q = LfnStep(name, r, i)
  PROVE  TakesTurn(q, r, name, i)
<1> DEFINE fits == /\ dir[i].kind = "lfn" /\ dir[i].seq = r.want /\ ~dir[i].last
                   /\ dir[i].sum = r.sum /\ dir[i].part = name[r.want]
           begins == dir[i].kind = "lfn" /\ dir[i].seq = Len(name) /\ dir[i].last
                     /\ dir[i].part = name[Len(name)]
           closes == r.want = 0 /\ dir[i].kind = "sfn" /\ fat_lfnchecksum(dir[i].alias) = r.sum
<1>1. q = IF r.end THEN r
          ELSE IF closes THEN HitAt(r, i)
          ELSE IF dir[i].kind = "end" THEN StopAt(r)
          ELSE IF r.want \in {0, Len(name)}
               THEN IF begins THEN BeginAt(r, name, i) ELSE StartOver(r, name)
          ELSE IF fits THEN GoOn(r) ELSE StartOver(r, name)
  BY DEF LfnStep, SumFits, fat_cmplfname, HitAt, StopAt, StartOver, BeginAt, GoOn
<1>2. closes <=> r.want = 0 /\ Closes(r, i)
  BY DEF Closes
<1>3. begins <=> Begins(name, i)
  BY DEF Begins, IsPart
<1>4. r.want # Len(name) => (fits <=> Follows(r, name, i))
  BY DEF Follows, IsPart
<1> HIDE DEF fits, begins, closes
<1>5. r.want \notin {0, Len(name)} => r.want # Len(name) /\ ~closes
  BY <1>2
<1>6. CASE r.end
  BY <1>1, <1>6 DEF TakesTurn
<1>7. CASE ~r.end /\ closes
  BY <1>1, <1>2, <1>5, <1>7 DEF TakesTurn
<1>8. CASE ~r.end /\ ~closes /\ dir[i].kind = "end"
  BY <1>1, <1>2, <1>8 DEF TakesTurn
<1>9. CASE ~r.end /\ ~closes /\ dir[i].kind # "end" /\ r.want \in {0, Len(name)}
  BY <1>1, <1>2, <1>3, <1>9 DEF TakesTurn
<1>10. CASE ~r.end /\ ~closes /\ dir[i].kind # "end" /\ r.want \notin {0, Len(name)}
  BY <1>1, <1>2, <1>4, <1>5, <1>10 DEF TakesTurn
<1> QED BY <1>6, <1>7, <1>8, <1>9, <1>10

(* The fields a turn sets and keeps.                                         *)
Fields(r, name, i) ==
  /\ HitAt(r, i) \in Looked /\ HitAt(r, i).end /\ HitAt(r, i).sfn = i
  /\ HitAt(r, i).lfn = r.lfn /\ HitAt(r, i).sum = r.sum
  /\ StopAt(r) \in Looked /\ StopAt(r).end /\ StopAt(r).sfn = r.sfn
  /\ StartOver(r, name) \in Looked /\ StartOver(r, name).end = r.end /\ StartOver(r, name).sfn = r.sfn
  /\ StartOver(r, name).want = Len(name)
  /\ BeginAt(r, name, i) \in Looked /\ BeginAt(r, name, i).end = r.end
  /\ BeginAt(r, name, i).sfn = r.sfn /\ BeginAt(r, name, i).lfn = i
  /\ BeginAt(r, name, i).want = Len(name) - 1 /\ BeginAt(r, name, i).sum = dir[i].sum
  /\ GoOn(r) \in Looked /\ GoOn(r).end = r.end /\ GoOn(r).sfn = r.sfn
  /\ GoOn(r).lfn = r.lfn /\ GoOn(r).want = r.want - 1 /\ GoOn(r).sum = r.sum

LEMMA FieldsOf ==
  ASSUME NEW r \in Looked, NEW name, NEW i \in DOMAIN dir, Len(name) \in Nat, DOMAIN dir \subseteq Nat
  PROVE  Fields(r, name, i)
<1>1. i \in Nat /\ dir[i].sum \in {dir[j].sum : j \in DOMAIN dir} /\ r.want - 1 \in Int
      /\ Len(name) - 1 \in Int /\ Len(name) \in Int
  BY DEF Looked
<1>2. HitAt(r, i) \in Looked /\ HitAt(r, i).end /\ HitAt(r, i).sfn = i
      /\ HitAt(r, i).lfn = r.lfn /\ HitAt(r, i).sum = r.sum
  BY <1>1 DEF HitAt, Looked
<1>3. StopAt(r) \in Looked /\ StopAt(r).end /\ StopAt(r).sfn = r.sfn
  BY DEF StopAt, Looked
<1>4. StartOver(r, name) \in Looked /\ StartOver(r, name).end = r.end /\ StartOver(r, name).sfn = r.sfn
      /\ StartOver(r, name).want = Len(name)
  BY <1>1 DEF StartOver, Looked
<1>5. BeginAt(r, name, i) \in Looked /\ BeginAt(r, name, i).end = r.end
      /\ BeginAt(r, name, i).sfn = r.sfn /\ BeginAt(r, name, i).lfn = i
      /\ BeginAt(r, name, i).want = Len(name) - 1 /\ BeginAt(r, name, i).sum = dir[i].sum
  BY <1>1 DEF BeginAt, Looked
<1>6. GoOn(r) \in Looked /\ GoOn(r).end = r.end /\ GoOn(r).sfn = r.sfn
      /\ GoOn(r).lfn = r.lfn /\ GoOn(r).want = r.want - 1 /\ GoOn(r).sum = r.sum
  BY <1>1 DEF GoOn, Looked
<1> QED BY <1>2, <1>3, <1>4, <1>5, <1>6, Zenon DEF Fields

(* An opening part, one more part, and the end of the run.                   *)
LEMMA OpensAt ==
  ASSUME NEW name, NEW i \in Nat \ {0}, i \in DOMAIN dir, Len(name) \in Nat \ {0},
         NEW q, ~q.end, q.sfn = NoEntry, q.lfn = i, q.want = Len(name) - 1, q.sum = dir[i].sum,
         Begins(name, i)
  PROVE  Amid(q, i, name)
<1>1. i - q.lfn + 1 = 1 /\ q.lfn \in 1 .. i /\ Len(name) - 0 = Len(name) /\ i + 0 = i
  OBVIOUS
<1>2. \A j \in 0 .. 1 - 1 : j = 0
  OBVIOUS
<1>3. Spelled(dir, i, name, 1)
  BY <1>1, <1>2 DEF Spelled, Begins
<1> QED BY <1>1, <1>3 DEF Amid

LEMMA GoesOnAt ==
  ASSUME NEW name, NEW i \in Nat \ {0}, i \in DOMAIN dir, Len(name) \in Nat \ {0},
         NEW r \in Looked, Amid(r, i - 1, name), r.want # 0, Follows(r, name, i),
         NEW q, q.end = r.end, q.sfn = r.sfn, q.lfn = r.lfn, q.want = r.want - 1, q.sum = r.sum
  PROVE  Amid(q, i, name)
<1> DEFINE b == r.lfn
           k == i - b
<1>1. b \in 1 .. i - 1 /\ (i - 1) - b + 1 = k /\ i - b + 1 = k + 1 /\ k \in Nat
      /\ r.want = Len(name) - k /\ r.want >= 0
  BY DEF Amid
<1>2. Spelled(dir, b, name, k) /\ r.sum = dir[b].sum
  BY <1>1 DEF Amid
<1>3. IsPart(dir, i, name, r.want) /\ dir[i].sum = r.sum
  BY DEF Follows
<1> HIDE DEF b, k
<1>4. ASSUME NEW j \in 0 .. (k + 1) - 1
      PROVE  /\ b + j \in DOMAIN dir /\ IsPart(dir, b + j, name, Len(name) - j)
             /\ dir[b + j].sum = dir[b].sum
  <2>1. CASE j \in 0 .. k - 1
    BY <1>2, <2>1 DEF Spelled
  <2>2. CASE j = k
    <3>1. b + k = i
      BY <1>1 DEF k
    <3> QED BY <1>1, <1>2, <1>3, <2>2, <3>1
  <2> QED BY <1>1, <2>1, <2>2
<1>5. Spelled(dir, b, name, k + 1)
  BY <1>4 DEF Spelled
<1>6. q.lfn = b /\ q.want = r.want - 1 /\ q.sum = dir[b].sum /\ ~q.end /\ q.sfn = NoEntry
  BY <1>2 DEF Amid, b
<1>7. q.want = Len(name) - (k + 1) /\ q.want >= 0 /\ b \in 1 .. i
  BY <1>1, <1>6
<1> QED BY <1>1, <1>5, <1>6, <1>7 DEF Amid

LEMMA ClosesAt ==
  ASSUME NEW name, NEW i \in Nat \ {0}, i \in DOMAIN dir, Len(name) \in Nat \ {0},
         NEW r \in Looked, Amid(r, i - 1, name), r.want = 0, Closes(r, i),
         NEW q, q.end, q.sfn = i, q.lfn = r.lfn
  PROVE  Hit(q, i, name)
<1>1. r.lfn \in 1 .. i - 1 /\ (i - 1) - r.lfn + 1 = Len(name) /\ i = r.lfn + Len(name)
  BY DEF Amid
<1>2. Spelled(dir, r.lfn, name, Len(name)) /\ r.sum = dir[r.lfn].sum
  BY <1>1 DEF Amid
<1> QED BY <1>1, <1>2 DEF Hit, Closes

(* Where the search stands after a turn, and which turns it must take.       *)
LEMMA Turned ==
  ASSUME FatShape, NEW name \in LongNames, NEW i \in DOMAIN dir, NEW r \in Looked,
         Scanned(r, i - 1, name), NEW q, q = LfnStep(name, r, i)
  PROVE  /\ q \in Looked /\ Scanned(q, i, name)
         /\ Hit(r, i - 1, name) => Hit(q, i, name)
         /\ (AtRest(r, name) \/ (Amid(r, i - 1, name) /\ r.want = 0)) /\ Begins(name, i) =>
              Amid(q, i, name) /\ q.lfn = i
         /\ Amid(r, i - 1, name) /\ r.want # 0 /\ Follows(r, name, i) =>
              Amid(q, i, name) /\ q.lfn = r.lfn
         /\ Amid(r, i - 1, name) /\ r.want = 0 /\ Closes(r, i) => Hit(q, i, name)
<1>1. i \in Nat \ {0} /\ DOMAIN dir \subseteq Nat /\ Len(name) \in Nat \ {0}
  BY ShapeIs, NameIs
<1>t. TakesTurn(q, r, name, i)
  BY <1>1, TurnIs
<1>2. \/ q = r \/ q = HitAt(r, i) \/ q = StopAt(r) \/ q = StartOver(r, name)
      \/ q = BeginAt(r, name, i) \/ q = GoOn(r)
  BY <1>t, Zenon DEF TakesTurn
<1>f. Fields(r, name, i)
  BY <1>1, FieldsOf
<1>3. q \in Looked
  BY <1>2, <1>f DEF Fields
<1>4. CASE r.end
  <2>1. q = r
    BY <1>4, <1>t DEF TakesTurn
  <2>2. ~AtRest(r, name) /\ ~Amid(r, i - 1, name)
    BY <1>4 DEF AtRest, Amid
  <2>3. Hit(r, i - 1, name) => Hit(q, i, name)
    BY <1>1, <2>1 DEF Hit
  <2>4. Missed(r, i - 1) => Missed(q, i)
    BY <1>1, <2>1 DEF Missed
  <2> QED BY <1>3, <2>2, <2>3, <2>4 DEF Scanned
<1>5. CASE ~r.end
  <2>1. ~Hit(r, i - 1, name) /\ (AtRest(r, name) \/ Amid(r, i - 1, name)) /\ r.sfn = NoEntry
    BY <1>5 DEF Hit, Scanned, Missed, AtRest, Amid
  <2>2. AtRest(r, name) => r.want = Len(name)
    BY DEF AtRest
  <2>3. Amid(r, i - 1, name) => r.want # Len(name)
    BY <1>1 DEF Amid
  <2>4. CASE r.want = 0 /\ Closes(r, i)
    <3>1. q = HitAt(r, i) /\ Amid(r, i - 1, name)
      BY <1>1, <1>5, <1>t, <2>1, <2>2, <2>4 DEF TakesTurn
    <3>2. Hit(q, i, name)
      <4>1. q.end /\ q.sfn = i /\ q.lfn = r.lfn
        BY <1>f, <3>1 DEF Fields
      <4> QED BY <1>1, <2>4, <3>1, <4>1, ClosesAt
    <3>3. ~Begins(name, i)
      BY <2>4 DEF Closes, Begins, IsPart
    <3> QED BY <1>3, <2>1, <2>2, <2>4, <3>2, <3>3, <1>1 DEF Scanned
  <2>5. CASE ~(r.want = 0 /\ Closes(r, i)) /\ dir[i].kind = "end"
    <3>1. q = StopAt(r)
      BY <1>5, <1>t, <2>5 DEF TakesTurn
    <3>2. Missed(q, i)
      BY <1>1, <1>f, <2>1, <2>5, <3>1 DEF Missed, Fields
    <3>3. ~Begins(name, i) /\ ~Follows(r, name, i)
      BY <2>5 DEF Begins, Follows, IsPart
    <3> QED BY <1>3, <2>1, <2>5, <3>2, <3>3 DEF Scanned
  <2>6. CASE ~(r.want = 0 /\ Closes(r, i)) /\ dir[i].kind # "end" /\ r.want \in {0, Len(name)}
    <3>1. q = IF Begins(name, i) THEN BeginAt(r, name, i) ELSE StartOver(r, name)
      BY <1>5, <1>t, <2>6 DEF TakesTurn
    <3>2. Begins(name, i) => Amid(q, i, name) /\ q.lfn = i
      <4> SUFFICES ASSUME Begins(name, i) PROVE Amid(q, i, name) /\ q.lfn = i
        OBVIOUS
      <4>1. /\ ~q.end /\ q.sfn = NoEntry /\ q.lfn = i /\ q.want = Len(name) - 1
            /\ q.sum = dir[i].sum
        BY <1>5, <1>f, <2>1, <3>1 DEF Fields
      <4> QED BY <1>1, <4>1, OpensAt
    <3>3. ~Begins(name, i) => AtRest(q, name)
      BY <1>5, <1>f, <2>1, <3>1 DEF AtRest, Fields
    <3>4. ~(Amid(r, i - 1, name) /\ r.want # 0)
      BY <2>3, <2>6
    <3> QED BY <1>3, <2>1, <2>6, <3>2, <3>3, <3>4 DEF Scanned
  <2>7. CASE dir[i].kind # "end" /\ r.want \notin {0, Len(name)}
    <3>1. q = IF Follows(r, name, i) THEN GoOn(r) ELSE StartOver(r, name)
      BY <1>5, <1>t, <2>7 DEF TakesTurn
    <3>2. Amid(r, i - 1, name) /\ r.want # 0
      BY <2>1, <2>2, <2>7
    <3>3. Follows(r, name, i) => Amid(q, i, name) /\ q.lfn = r.lfn
      <4> SUFFICES ASSUME Follows(r, name, i) PROVE Amid(q, i, name) /\ q.lfn = r.lfn
        OBVIOUS
      <4>1. /\ q.end = r.end /\ q.sfn = r.sfn /\ q.lfn = r.lfn /\ q.want = r.want - 1
            /\ q.sum = r.sum
        BY <1>f, <3>1 DEF Fields
      <4> QED BY <1>1, <3>2, <4>1, GoesOnAt
    <3>4. ~Follows(r, name, i) => AtRest(q, name)
      BY <1>5, <1>f, <2>1, <3>1 DEF AtRest, Fields
    <3> QED BY <1>3, <2>1, <2>2, <2>7, <3>2, <3>3, <3>4 DEF Scanned
  <2> QED BY <2>4, <2>5, <2>6, <2>7
<1> QED BY <1>4, <1>5

(* The whole search, one turn after the other.                               *)
SearchedBy(f, name, z) ==
  /\ f \in [0 .. z -> Looked] /\ f[0] = Nothing(Len(name)) /\ fat_findlfnentry(name) = f[z]
  /\ \A i \in 1 .. z : f[i] = LfnStep(name, f[i - 1], i)

LEMMA StartsAtRest ==
  ASSUME NEW name, Len(name) \in Nat
  PROVE  Nothing(Len(name)) \in Looked /\ AtRest(Nothing(Len(name)), name)
BY DEF Nothing, Looked, AtRest, NoEntry

LEMMA StaysLooked ==
  ASSUME FatShape, NEW name \in LongNames, NEW i \in DOMAIN dir, NEW r \in Looked
  PROVE  LfnStep(name, r, i) \in Looked
<1>1. DOMAIN dir \subseteq Nat /\ Len(name) \in Nat \ {0}
  BY ShapeIs, NameIs
<1> DEFINE q == LfnStep(name, r, i)
<1>2. TakesTurn(q, r, name, i) /\ Fields(r, name, i)
  BY <1>1, TurnIs, FieldsOf
<1> HIDE DEF q
<1>3. \/ q = r \/ q = HitAt(r, i) \/ q = StopAt(r) \/ q = StartOver(r, name)
      \/ q = BeginAt(r, name, i) \/ q = GoOn(r)
  BY <1>2, Zenon DEF TakesTurn
<1>4. q \in Looked
  BY <1>2, <1>3 DEF Fields
<1> QED BY <1>4 DEF q

LEMMA SearchIs ==
  ASSUME FatShape, NEW name \in LongNames, NEW z \in Nat \ {0}, DOMAIN dir = 1 .. z, Len(dir) = z
  PROVE  \E f : SearchedBy(f, name, z)
<1> DEFINE step == [k \in 1 .. z |-> [a \in Looked |-> LfnStep(name, a, k)]]
           base == Nothing(Len(name))
<1>1. base \in Looked
  BY NameIs, StartsAtRest
<1>2. FirstTurns(Looked, z, step)
  BY StaysLooked DEF FirstTurns
<1>3. \A k \in 1 .. z : \A a \in Looked : step[k][a] = LfnStep(name, a, k)
  OBVIOUS
<1> HIDE DEF step, base
<1>4. PICK f : TurnsOut(f, Looked, z, base, step)
  BY <1>1, <1>2, Loop
<1>5. f \in [0 .. z -> Looked] /\ f[0] = base /\ \A k \in 1 .. z : f[k] = step[k][f[k - 1]]
  BY <1>4 DEF TurnsOut
<1>6. ASSUME NEW i \in 1 .. z PROVE f[i] = LfnStep(name, f[i - 1], i)
  <2>1. i - 1 \in 0 .. z
    OBVIOUS
  <2> QED BY <1>3, <1>5, <2>1
<1>7. f = [i \in 0 .. z |-> IF i = 0 THEN base ELSE LfnStep(name, f[i - 1], i)]
  <2>1. ASSUME NEW i \in 0 .. z
        PROVE  f[i] = IF i = 0 THEN base ELSE LfnStep(name, f[i - 1], i)
    <3>1. i # 0 => i \in 1 .. z
      OBVIOUS
    <3> QED BY <1>5, <1>6, <3>1
  <2> QED BY <1>5, <2>1
<1>8. fat_findlfnentry(name) = f[z]
  <2> DEFINE Is(g) == g = [i \in 0 .. z |-> IF i = 0 THEN base ELSE LfnStep(name, g[i - 1], i)]
             found == CHOOSE g : Is(g)
  <2>1. fat_findlfnentry(name) = found[z]
    BY DEF fat_findlfnentry, base
  <2>2. Is(f)
    BY <1>7
  <2> HIDE DEF Is
  <2>3. Is(found)
    BY <2>2
  <2>4. ASSUME NEW g, Is(g) PROVE \A k \in 0 .. z : g[k] = f[k]
    <3>1. g[0] = base /\ \A i \in 1 .. z : g[i] = LfnStep(name, g[i - 1], i)
      <4>1. \A i \in 0 .. z : g[i] = IF i = 0 THEN base ELSE LfnStep(name, g[i - 1], i)
        BY <2>4 DEF Is
      <4>2. 0 \in 0 .. z /\ \A i \in 1 .. z : i \in 0 .. z /\ i # 0
        OBVIOUS
      <4> QED BY <4>1, <4>2
    <3> DEFINE T == {k \in 0 .. z : g[k] = f[k]}
    <3>2. 0 \in T
      BY <1>5, <3>1
    <3>3. ASSUME NEW k \in 0 .. z - 1, k \in T PROVE k + 1 \in T
      <4>1. k + 1 \in 1 .. z /\ (k + 1) - 1 = k /\ k + 1 \in 0 .. z
        OBVIOUS
      <4>2. g[k + 1] = LfnStep(name, g[k], k + 1) /\ f[k + 1] = LfnStep(name, f[k], k + 1)
        BY <1>6, <3>1, <4>1
      <4> QED BY <3>3, <4>1, <4>2
    <3> HIDE DEF T
    <3>4. 0 .. z \subseteq T
      BY <3>2, <3>3, CountedOff
    <3> QED BY <3>4 DEF T
  <2> HIDE DEF found
  <2>5. z \in 0 .. z
    OBVIOUS
  <2> QED BY <2>1, <2>3, <2>4, <2>5
<1> QED BY <1>5, <1>6, <1>8 DEF SearchedBy, base

(* What a search returns, and that it comes upon a whole run unless it was   *)
(* in the middle of another when the run began.                              *)
LEMMA LfnReturns ==
  ASSUME FatShape, NEW name \in LongNames, NEW z \in Nat \ {0}, DOMAIN dir = 1 .. z,
         NEW f, SearchedBy(f, name, z)
  PROVE  \A i \in 0 .. z : Scanned(f[i], i, name)
<1> DEFINE T == {i \in 0 .. z : Scanned(f[i], i, name)}
<1>1. 0 \in T
  BY NameIs, StartsAtRest DEF SearchedBy, Scanned
<1>2. ASSUME NEW k \in 0 .. z - 1, k \in T PROVE k + 1 \in T
  <2>1. k + 1 \in 1 .. z /\ (k + 1) - 1 = k /\ k + 1 \in 0 .. z
    OBVIOUS
  <2> DEFINE i == k + 1
  <2>2. f[k] \in Looked /\ f[i] = LfnStep(name, f[k], i) /\ Scanned(f[k], k, name)
    BY <1>2, <2>1 DEF SearchedBy
  <2>3. i \in DOMAIN dir /\ i - 1 = k
    BY <2>1
  <2> HIDE DEF i, T
  <2>4. Scanned(f[i], i, name)
    BY <2>2, <2>3, Turned
  <2> QED BY <2>1, <2>4 DEF T, i
<1> HIDE DEF T
<1>3. 0 .. z \subseteq T
  BY <1>1, <1>2, CountedOff
<1> QED BY <1>3 DEF T

LEMMA LfnHits ==
  ASSUME FatShape, NEW name \in LongNames, fat_findlfnentry(name).sfn # NoEntry
  PROVE  Hit(fat_findlfnentry(name), Len(dir), name)
<1>1. PICK z \in Nat \ {0} : DOMAIN dir = 1 .. z /\ Len(dir) = z
  BY ShapeIs
<1>2. PICK f : SearchedBy(f, name, z)
  BY <1>1, SearchIs
<1>3. Scanned(f[z], z, name) /\ f[z] = fat_findlfnentry(name)
  BY <1>1, <1>2, LfnReturns DEF SearchedBy
<1> QED BY <1>1, <1>3 DEF Scanned, AtRest, Amid, Missed

LEMMA LfnFinds ==
  ASSUME FatShape, EndsLast, NEW name \in LongNames, NEW b \in DOMAIN dir, WholeRun(dir, b, name),
         \A m \in DOMAIN dir : m < b /\ b - m < Len(name) => ~Spelled(dir, m, name, b - m)
  PROVE  fat_findlfnentry(name).sfn # NoEntry
<1>1. PICK z \in Nat \ {0} : DOMAIN dir = 1 .. z /\ Len(dir) = z
  BY ShapeIs
<1>2. PICK f : SearchedBy(f, name, z)
  BY <1>1, SearchIs
<1>3. \A i \in 0 .. z : Scanned(f[i], i, name)
  BY <1>1, <1>2, LfnReturns
<1> DEFINE len == Len(name)
<1>4. len \in Nat \ {0} /\ b \in 1 .. z /\ b + len \in 1 .. z
  BY <1>1, NameIs DEF WholeRun
<1>5. \A j \in 0 .. len - 1 : /\ IsPart(dir, b + j, name, len - j) /\ dir[b + j].sum = dir[b].sum
  BY DEF WholeRun, Spelled
<1>6. dir[b + len].kind = "sfn" /\ fat_lfnchecksum(dir[b + len].alias) = dir[b].sum
  BY DEF WholeRun
<1>7. \A i \in 1 .. z : f[i - 1] \in Looked /\ f[i] = LfnStep(name, f[i - 1], i)
  BY <1>2 DEF SearchedBy
<1>8. \A i \in 1 .. b + len - 1 : dir[i].kind # "end"
  BY <1>1, <1>4, <1>6 DEF EndsLast
<1> HIDE DEF len
<1> DEFINE Going(i) == Hit(f[i], i, name) \/ (Amid(f[i], i, name) /\ f[i].lfn = b)
<1>9. Going(b)
  <2> DEFINE r == f[b - 1]
  <2>1. b - 1 \in 0 .. z /\ Scanned(r, b - 1, name) /\ r \in Looked /\ f[b] = LfnStep(name, r, b)
    BY <1>3, <1>4, <1>7
  <2>2. Begins(name, b)
    <3>1. 0 \in 0 .. len - 1 /\ b + 0 = b /\ len - 0 = len
      BY <1>4
    <3> QED BY <1>5, <3>1 DEF Begins, len
  <2>3. ~Missed(r, b - 1)
    BY <1>4, <1>8 DEF Missed
  <2>4. Amid(r, b - 1, name) => r.want = 0
    <3> SUFFICES ASSUME Amid(r, b - 1, name), r.want # 0 PROVE FALSE
      OBVIOUS
    <3> DEFINE m == r.lfn
    <3>1. m \in 1 .. b - 1 /\ (b - 1) - m + 1 = b - m /\ r.want = len - (b - m) /\ r.want >= 0
      BY <1>4 DEF Amid, len
    <3>2. Spelled(dir, m, name, b - m)
      BY <3>1 DEF Amid
    <3> HIDE DEF m
    <3>3. m \in DOMAIN dir /\ m < b /\ b - m < Len(name)
      BY <1>1, <1>4, <3>1 DEF len
    <3> QED BY <3>2, <3>3
  <2> HIDE DEF r
  <2>5. \/ Hit(r, b - 1, name)
        \/ (AtRest(r, name) \/ (Amid(r, b - 1, name) /\ r.want = 0)) /\ Begins(name, b)
    BY <2>1, <2>2, <2>3, <2>4 DEF Scanned
  <2>6. b \in DOMAIN dir
    OBVIOUS
  <2> QED BY <2>1, <2>5, <2>6, Turned
<1>10. ASSUME NEW k \in 0 .. len - 2, Going(b + k) PROVE Going(b + (k + 1))
  <2> DEFINE i == b + (k + 1)
             r == f[b + k]
  <2>1. i - 1 = b + k /\ i \in 1 .. z /\ k + 1 \in 0 .. len - 1 /\ b + k \in 0 .. z
    BY <1>4
  <2>2. Scanned(r, i - 1, name) /\ r \in Looked /\ f[i] = LfnStep(name, r, i) /\ i \in DOMAIN dir
    BY <1>1, <1>3, <1>7, <2>1
  <2>3. IsPart(dir, i, name, len - (k + 1)) /\ dir[i].sum = dir[b].sum
    BY <1>5, <2>1
  <2>4. Amid(r, i - 1, name) /\ r.lfn = b =>
          r.want = len - (k + 1) /\ r.sum = dir[b].sum /\ r.want # 0
    <3>1. (i - 1) - b + 1 = k + 1 /\ len - (k + 1) # 0
      BY <1>4, <2>1
    <3> QED BY <3>1 DEF Amid, len
  <2>5. Hit(r, i - 1, name) \/ (Amid(r, i - 1, name) /\ r.lfn = b)
    BY <1>10, <2>1
  <2> HIDE DEF i, r
  <2>6. Hit(r, i - 1, name) => Hit(f[i], i, name)
    BY <2>2, Turned
  <2>7. Amid(r, i - 1, name) /\ r.lfn = b => Amid(f[i], i, name) /\ f[i].lfn = b
    <3> SUFFICES ASSUME Amid(r, i - 1, name), r.lfn = b PROVE Amid(f[i], i, name) /\ f[i].lfn = b
      OBVIOUS
    <3>1. r.want # 0 /\ Follows(r, name, i)
      BY <2>3, <2>4 DEF Follows
    <3> QED BY <2>2, <3>1, Turned
  <2>8. Going(i)
    BY <2>5, <2>6, <2>7
  <2> QED BY <2>8 DEF i
<1>11. Going(b + (len - 1))
  <2> DEFINE T == {k \in 0 .. len - 1 : Going(b + k)}
  <2>1. 0 \in T
    BY <1>4, <1>9
  <2>2. \A k \in 0 .. (len - 1) - 1 : k \in T => k + 1 \in T
    BY <1>4, <1>10
  <2> HIDE DEF T
  <2>3. 0 .. len - 1 \subseteq T
    <3>1. len - 1 \in Nat
      BY <1>4
    <3> HIDE DEF Going
    <3> QED BY <2>1, <2>2, <3>1, CountedOff
  <2>4. len - 1 \in T
    BY <1>4, <2>3
  <2> QED BY <2>4 DEF T
<1>12. Hit(f[b + len], b + len, name)
  <2> DEFINE i == b + len
             r == f[b + (len - 1)]
  <2>1. i - 1 = b + (len - 1) /\ i \in 1 .. z /\ i - 1 \in 0 .. z
    BY <1>4
  <2>2. Scanned(r, i - 1, name) /\ r \in Looked /\ f[i] = LfnStep(name, r, i) /\ i \in DOMAIN dir
    BY <1>1, <1>3, <1>7, <2>1
  <2>3. Hit(r, i - 1, name) \/ (Amid(r, i - 1, name) /\ r.lfn = b)
    BY <1>11, <2>1
  <2>4. Amid(r, i - 1, name) /\ r.lfn = b => r.want = 0 /\ r.sum = dir[b].sum
    <3>1. (i - 1) - b + 1 = len
      BY <1>4
    <3> QED BY <1>4, <3>1 DEF Amid, len
  <2>5. dir[i].kind = "sfn" /\ fat_lfnchecksum(dir[i].alias) = dir[b].sum
    BY <1>6
  <2> HIDE DEF i, r
  <2>6. Hit(f[i], i, name)
    <3>1. CASE Hit(r, i - 1, name)
      BY <2>2, <3>1, Turned
    <3>2. CASE Amid(r, i - 1, name) /\ r.lfn = b
      <4>1. r.want = 0 /\ Closes(r, i)
        BY <2>4, <2>5, <3>2 DEF Closes
      <4> QED BY <2>2, <3>2, <4>1, Turned
    <3> QED BY <2>3, <3>1, <3>2
  <2> QED BY <2>6 DEF i
<1>13. Hit(f[z], z, name)
  <2> DEFINE s == b + len
             T == {k \in 0 .. z - s : Hit(f[s + k], s + k, name)}
  <2>1. s \in 1 .. z /\ s + 0 = s /\ z - s \in Nat /\ s + (z - s) = z
    BY <1>4
  <2>2. Hit(f[s], s, name)
    BY <1>12
  <2> HIDE DEF s
  <2>3. 0 \in T
    BY <2>1, <2>2
  <2>4. ASSUME NEW k \in 0 .. (z - s) - 1, k \in T PROVE k + 1 \in T
    <3> DEFINE i == s + (k + 1)
    <3>1. i \in 1 .. z /\ i - 1 = s + k /\ i - 1 \in 0 .. z /\ k + 1 \in 0 .. z - s
      BY <2>1
    <3>2. Hit(f[i - 1], i - 1, name) /\ Scanned(f[i - 1], i - 1, name) /\ f[i - 1] \in Looked
          /\ f[i] = LfnStep(name, f[i - 1], i) /\ i \in DOMAIN dir
      BY <1>1, <1>3, <1>7, <2>4, <3>1
    <3> HIDE DEF i
    <3>3. Hit(f[i], i, name)
      BY <3>2, Turned
    <3> QED BY <3>1, <3>3 DEF i
  <2> HIDE DEF T
  <2>5. 0 .. z - s \subseteq T
    BY <2>1, <2>3, <2>4, CountedOff
  <2>6. z - s \in T
    BY <2>1, <2>5
  <2> QED BY <2>1, <2>6 DEF T
<1>14. fat_findlfnentry(name) = f[z]
  BY <1>2 DEF SearchedBy
<1> QED BY <1>1, <1>13, <1>14 DEF Hit, NoEntry

(* A part of a name that no cut hides belongs to a whole run.                *)
LEMMA PartsAreWhole ==
  ASSUME FatInv, NEW name \in LongNames, ~Hidden(name), NEW m \in DOMAIN dir,
         NEW k \in 1 .. Len(name), Spelled(dir, m, name, k)
  PROVE  \E spells \in LongNames : WholeRun(dir, m, spells) /\ Len(spells) = Len(name)
<1>1. DOMAIN dir \subseteq Int /\ Len(name) \in Nat \ {0}
  BY NameIs, ShapeIs DEF FatInv
<1>2. m \in Int /\ k \in Int /\ 0 < k /\ Len(name) \in Nat /\ m \in m .. m + k - 1
  BY <1>1
<1>3. dir[m].kind = "lfn" /\ dir[m].part = name[Len(name)] /\ dir[m].seq = Len(name)
  <2>1. Opening(dir, m, name)
    BY <1>2, OpensWith
  <2> QED BY <2>1 DEF Opening
<1>4. PICK b \in DOMAIN dir, spells \in LongNames :
        InRun(dir, b, spells, m) \/ CutAt(dir, b, spells, m, cut)
  BY <1>3 DEF FatInv, LongEntries
<1>5. Len(spells) \in Nat \ {0} /\ Len(spells) \in Nat /\ Len(spells) \in Int /\ b \in Int
  BY <1>1, NameIs
<1>6. ASSUME NEW l \in 1 .. Len(spells), Spelled(dir, b, spells, l), m \in b .. b + l - 1
      PROVE  m = b /\ Len(name) = Len(spells) /\ spells[Len(spells)] = name[Len(name)]
  <2>1. l \in Int /\ 0 < l
    BY <1>5
  <2>2. m = b
    BY <1>2, <1>5, <1>6, <2>1, OneStart
  <2>3. Opening(dir, b, spells)
    BY <1>5, <1>6, <2>1, OpensWith
  <2> QED BY <1>3, <2>2, <2>3 DEF Opening
<1>7. CASE InRun(dir, b, spells, m)
  <2>1. Spelled(dir, b, spells, Len(spells)) /\ m \in b .. b + Len(spells) - 1 /\ WholeRun(dir, b, spells)
    BY <1>7 DEF InRun, WholeRun
  <2>2. Len(spells) \in 1 .. Len(spells)
    BY <1>5
  <2> QED BY <1>6, <2>1, <2>2
<1>8. CASE CutAt(dir, b, spells, m, cut)
  <2>1. PICK l \in 1 .. Len(spells) : Spelled(dir, b, spells, l) /\ m \in b .. b + l - 1
    BY <1>8 DEF CutAt
  <2>2. Len(name) = Len(spells) /\ spells[Len(spells)] = name[Len(name)]
    BY <1>6, <2>1
  <2>3. spells \in cut
    BY <1>8 DEF CutAt
  <2> QED BY <2>2, <2>3 DEF Hidden
<1> QED BY <1>4, <1>7, <1>8

(* Two names spelled at the same place are the same.                         *)
LEMMA SameName ==
  ASSUME NEW one \in LongNames, NEW two \in LongNames, NEW b, Len(one) = Len(two),
         Spelled(dir, b, one, Len(one)), Spelled(dir, b, two, Len(two))
  PROVE  one = two
<1>1. Len(one) \in Nat \ {0} /\ one = [j \in 1 .. Len(one) |-> one[j]]
      /\ two = [j \in 1 .. Len(one) |-> two[j]]
  BY NameIs
<1>2. ASSUME NEW j \in 1 .. Len(one) PROVE one[j] = two[j]
  <2> DEFINE k == Len(one) - j
  <2>1. k \in 0 .. Len(one) - 1 /\ Len(one) - k = j
    BY <1>1
  <2> HIDE DEF k
  <2>2. dir[b + k].part = one[j] /\ dir[b + k].part = two[j]
    BY <2>1 DEF Spelled, IsPart
  <2> QED BY <2>2
<1> QED BY <1>1, <1>2

(* A name that no cut hides is found exactly when it was created, at the     *)
(* entry of its own file.                                                    *)
LEMMA LongFound ==
  ASSUME FatInv, NEW name \in LongNames, ~Hidden(name)
  PROVE  LET sfn == fat_findlfnentry(name).sfn IN
         /\ name \in made <=> sfn # NoEntry
         /\ name \in made => dir[sfn].name = name
<1> DEFINE hit == fat_findlfnentry(name)
<1>1. PICK z \in Nat \ {0} : DOMAIN dir = 1 .. z /\ Len(dir) = z
  BY ShapeIs DEF FatInv
<1>2. Len(name) \in Nat \ {0}
  BY NameIs
<1>3. hit.sfn # NoEntry => name \in made /\ dir[hit.sfn].name = name
  <2> SUFFICES ASSUME hit.sfn # NoEntry PROVE name \in made /\ dir[hit.sfn].name = name
    OBVIOUS
  <2>1. Hit(hit, z, name)
    BY <1>1, LfnHits DEF FatInv
  <2> DEFINE b == hit.lfn
  <2>2. b \in DOMAIN dir /\ hit.sfn = b + Len(name) /\ hit.sfn \in DOMAIN dir
        /\ Spelled(dir, b, name, Len(name)) /\ dir[hit.sfn].kind = "sfn"
    BY <1>1, <1>2, <2>1 DEF Hit
  <2> HIDE DEF b, hit
  <2>3. PICK spells \in LongNames : WholeRun(dir, b, spells) /\ Len(spells) = Len(name)
    BY <1>2, <2>2, PartsAreWhole
  <2>4. spells = name
    BY <2>2, <2>3, SameName DEF WholeRun
  <2>5. dir[hit.sfn].name = name
    BY <2>2, <2>3, <2>4 DEF WholeRun
  <2> QED BY <2>2, <2>5 DEF FatInv, ShortEntries
<1>4. name \in made => hit.sfn # NoEntry
  <2> SUFFICES ASSUME name \in made PROVE hit.sfn # NoEntry
    OBVIOUS
  <2>1. PICK i \in DOMAIN dir : dir[i].kind = "sfn" /\ dir[i].name = name
    BY DEF FatInv, OneEach
  <2> DEFINE b == i - Len(name)
  <2>2. WholeRun(dir, b, name)
    BY <2>1 DEF FatInv, ShortEntries
  <2>3. b \in Int /\ 0 \in 0 .. Len(name) - 1 /\ b + 0 = b
    BY <1>1, <1>2
  <2> HIDE DEF b, hit
  <2>4. b \in DOMAIN dir
    BY <2>2, <2>3 DEF WholeRun, Spelled
  <2>5. ASSUME NEW m \in DOMAIN dir, m < b, b - m < Len(name), Spelled(dir, m, name, b - m)
        PROVE  FALSE
    <3>1. b - m \in 1 .. Len(name) /\ m \in Int
      BY <1>1, <1>2, <2>3, <2>5
    <3>2. PICK spells \in LongNames : WholeRun(dir, m, spells) /\ Len(spells) = Len(name)
      BY <2>5, <3>1, PartsAreWhole
    <3>3. Spelled(dir, m, spells, Len(name)) /\ Spelled(dir, b, name, Len(name))
          /\ b \in m .. m + Len(name) - 1 /\ b \in b .. b + Len(name) - 1
      BY <1>2, <2>2, <2>3, <2>5, <3>1, <3>2 DEF WholeRun
    <3>4. m = b
      <4>1. Len(name) \in Nat /\ Len(name) \in Int /\ Len(spells) \in Nat
        BY <1>2, <3>2
      <4> QED BY <2>3, <3>1, <3>3, <4>1, OneStart
    <3> QED BY <2>3, <2>5, <3>1, <3>4
  <2>6. fat_findlfnentry(name).sfn # NoEntry
    BY <2>2, <2>4, <2>5, LfnFinds DEF FatInv
  <2> QED BY <2>6 DEF hit
<1> HIDE DEF hit
<1>5. /\ name \in made <=> hit.sfn # NoEntry
      /\ name \in made => dir[hit.sfn].name = name
  BY <1>3, <1>4
<1> QED BY <1>5 DEF hit

(* The listing: what a run spells.                                           *)
LEMMA RunSpells ==
  ASSUME FatInv, NEW name \in LongNames, NEW b \in DOMAIN dir, WholeRun(dir, b, name)
  PROVE  fat_getlfname(b) = name /\ dir[b].kind = "lfn" /\ dir[b].last
<1> DEFINE len == Len(name)
           entries == SubSeq(dir, b, b + len - 1)
<1>1. PICK z \in Nat \ {0} : DOMAIN dir = 1 .. z /\ Len(dir) = z
  BY ShapeIs DEF FatInv
<1>2. len \in Nat \ {0} /\ name = [j \in 1 .. len |-> name[j]]
  BY NameIs
<1>3. \A j \in 0 .. len - 1 : IsPart(dir, b + j, name, len - j) /\ dir[b + j].sum = dir[b].sum
  BY DEF WholeRun, Spelled
<1>4. b + len \in 1 .. z /\ dir[b + len].kind = "sfn"
      /\ fat_lfnchecksum(dir[b + len].alias) = dir[b].sum
  BY <1>1 DEF WholeRun
<1> HIDE DEF len
<1>5. dir[b].seq = len /\ dir[b].kind = "lfn" /\ dir[b].last
  <2>1. 0 \in 0 .. len - 1 /\ b + 0 = b /\ len - 0 = len
    BY <1>1, <1>2
  <2>2. IsPart(dir, b, name, len)
    BY <1>3, <2>1
  <2> QED BY <2>2 DEF IsPart, len
<1>6. \A j \in 1 .. len : entries[j] = dir[b + j - 1]
  <2> DEFINE S == {dir[i] : i \in DOMAIN dir}
             upto == b + len - 1
  <2>1. b \in Int /\ upto \in Int /\ upto - b + 1 = len /\ \A i \in b .. upto : i \in DOMAIN dir
    BY <1>1, <1>2, <1>4
  <2>2. \A i \in b .. upto : dir[i] \in S
    BY <2>1
  <2> HIDE DEF S, upto
  <2>3. \A i \in 1 .. upto - b + 1 : SubSeq(dir, b, upto)[i] = dir[b + i - 1]
    BY <2>1, <2>2, SubSeqProperties
  <2> QED BY <2>1, <2>3 DEF upto
<1>7. ASSUME NEW j \in 1 .. len
      PROVE  entries[j].kind = "lfn" /\ entries[j].seq = len + 1 - j /\ entries[j].sum = dir[b].sum
             /\ entries[j].part = name[len + 1 - j]
  <2>1. j - 1 \in 0 .. len - 1 /\ b + (j - 1) = b + j - 1 /\ len - (j - 1) = len + 1 - j
    BY <1>1, <1>2
  <2>2. IsPart(dir, b + j - 1, name, len + 1 - j) /\ dir[b + j - 1].sum = dir[b].sum
    BY <1>3, <2>1
  <2> QED BY <1>6, <2>2 DEF IsPart
<1> DEFINE whole == /\ b + len <= Len(dir)
                    /\ \A j \in 1 .. len : /\ entries[j].kind = "lfn" /\ entries[j].seq = len + 1 - j
                                           /\ entries[j].sum = dir[b].sum
                    /\ dir[b + len].kind = "sfn"
                    /\ fat_lfnchecksum(dir[b + len].alias) = dir[b].sum
<1>8. whole
  <2>1. b + len <= Len(dir)
    BY <1>1, <1>4
  <2>2. \A j \in 1 .. len : /\ entries[j].kind = "lfn" /\ entries[j].seq = len + 1 - j
                            /\ entries[j].sum = dir[b].sum
    BY <1>7
  <2> HIDE DEF entries
  <2> QED BY <1>4, <2>1, <2>2
<1>9. fat_getlfname(b) = IF whole THEN [j \in 1 .. len |-> entries[len + 1 - j].part] ELSE <<>>
  BY <1>5 DEF fat_getlfname
<1> HIDE DEF whole, entries
<1>10. ASSUME NEW j \in 1 .. len PROVE entries[len + 1 - j].part = name[j]
  <2>1. len + 1 - j \in 1 .. len /\ len + 1 - (len + 1 - j) = j
    BY <1>2
  <2> QED BY <1>7, <2>1
<1> QED BY <1>2, <1>5, <1>8, <1>9, <1>10

LEMMA ListedAre ==
  ASSUME FatInv, NEW name \in LongNames, ~Hidden(name)
  PROVE  name \in made <=> name \in Listed
<1>1. PICK z \in Nat \ {0} : DOMAIN dir = 1 .. z /\ Len(dir) = z
  BY ShapeIs DEF FatInv
<1>2. Len(name) \in Nat \ {0} /\ name = [j \in 1 .. Len(name) |-> name[j]]
  BY NameIs
<1>3. ASSUME name \in made PROVE name \in Listed
  <2>1. PICK i \in DOMAIN dir : dir[i].kind = "sfn" /\ dir[i].name = name
    BY <1>3 DEF FatInv, OneEach
  <2> DEFINE b == i - Len(name)
  <2>2. WholeRun(dir, b, name)
    BY <2>1 DEF FatInv, ShortEntries
  <2>3. b \in Int /\ 0 \in 0 .. Len(name) - 1 /\ b + 0 = b
    BY <1>1, <1>2
  <2> HIDE DEF b
  <2>4. b \in DOMAIN dir
    BY <2>2, <2>3 DEF WholeRun, Spelled
  <2> QED BY <2>2, <2>4, RunSpells DEF Listed
<1>4. ASSUME name \in Listed PROVE name \in made
  <2>1. PICK i \in DOMAIN dir : dir[i].kind = "lfn" /\ dir[i].last /\ name = fat_getlfname(i)
    BY <1>4 DEF Listed
  <2>2. PICK b \in DOMAIN dir, spells \in LongNames :
          InRun(dir, b, spells, i) \/ CutAt(dir, b, spells, i, cut)
    BY <2>1 DEF FatInv, LongEntries
  <2>3. Len(spells) \in Nat \ {0} /\ b \in Int /\ i \in Int
    BY <1>1, NameIs
  <2>4. PICK l \in 1 .. Len(spells) : Spelled(dir, b, spells, l) /\ i \in b .. b + l - 1
    BY <2>2, <2>3 DEF InRun, WholeRun, CutAt
  <2>5. i - b \in 0 .. l - 1 /\ b + (i - b) = i
    BY <2>3, <2>4
  <2>6. IsPart(dir, i, spells, Len(spells) - (i - b))
    BY <2>4, <2>5 DEF Spelled
  <2>7. i = b /\ dir[i].seq = Len(spells) /\ dir[i].part = spells[Len(spells)]
    <3>1. Len(spells) - (i - b) = Len(spells)
      BY <2>1, <2>6 DEF IsPart
    <3>2. i = b
      BY <2>3, <3>1
    <3> QED BY <2>6, <3>1, <3>2 DEF IsPart
  <2>8. CASE InRun(dir, b, spells, i)
    <3>1. WholeRun(dir, i, spells)
      BY <2>7, <2>8 DEF InRun
    <3>2. name = spells
      BY <2>1, <3>1, RunSpells
    <3> QED BY <3>1, <3>2 DEF WholeRun, FatInv, ShortEntries
  <2>9. CASE CutAt(dir, b, spells, i, cut)
    <3> DEFINE len == Len(spells)
               entries == SubSeq(dir, i, i + len - 1)
               spelled == [j \in 1 .. len |-> entries[len + 1 - j].part]
    <3>1. name = spelled \/ name = <<>>
      BY <2>1, <2>7 DEF fat_getlfname
    <3>2. name # <<>>
      BY <1>2
    <3>3. DOMAIN name = 1 .. Len(name) /\ DOMAIN spelled = 1 .. len
      BY <1>2
    <3>4. len \in 1 .. len /\ len + 1 - len = 1
      BY <2>3
    <3>5. entries[1] = dir[i]
      <4> DEFINE upto == i + len - 1
                 S == {dir[k] : k \in i .. upto}
      <4>1. i \in Int /\ upto \in Int /\ 1 \in 1 .. upto - i + 1 /\ i + 1 - 1 = i
        BY <2>3
      <4>2. \A k \in i .. upto : dir[k] \in S
        OBVIOUS
      <4> HIDE DEF S, upto
      <4>3. \A k \in 1 .. upto - i + 1 : SubSeq(dir, i, upto)[k] = dir[i + k - 1]
        BY <4>1, <4>2, SubSeqProperties
      <4>4. SubSeq(dir, i, upto)[1] = dir[i]
        BY <4>1, <4>3
      <4> QED BY <4>4 DEF upto
    <3> HIDE DEF entries
    <3>6. spelled[len] = spells[len]
      BY <2>7, <3>4, <3>5
    <3> HIDE DEF spelled, len
    <3>7. Len(name) = len
      BY <1>2, <2>3, <3>1, <3>2, <3>3 DEF len
    <3>8. name[Len(name)] = spells[Len(spells)] /\ spells \in cut
      BY <2>9, <3>1, <3>2, <3>6, <3>7 DEF len, CutAt
    <3> QED BY <3>8 DEF Hidden
  <2> QED BY <2>2, <2>8, <2>9
<1> QED BY <1>3, <1>4

-----------------------------------------------------------------------------
(* Short names.  The search of an alias stops at the first entry with it.    *)
LEMMA AliasSearch ==
  ASSUME FatShape, NEW alias, NEW places \in SUBSET DOMAIN dir,
         NEW hit, hit = fat_findsfnentry(alias, places)
  PROVE  /\ hit.sfn # NoEntry => /\ hit.sfn \in places /\ hit.lfn = hit.sfn
                                 /\ dir[hit.sfn].kind = "sfn" /\ dir[hit.sfn].alias = alias
         /\ \A i \in places :
              /\ dir[i].kind = "sfn" /\ dir[i].alias = alias
              /\ \A j \in places : j <= i => dir[j].kind # "end"
              => hit.sfn # NoEntry
<1> DEFINE Stops == {i \in places : \/ dir[i].kind = "end"
                                    \/ dir[i].kind = "sfn" /\ dir[i].alias = alias}
           stop == Lowest(Stops)
           there == [Nothing(0) EXCEPT !.lfn = stop, !.sfn = stop, !.end = TRUE]
<1>1. DOMAIN dir \subseteq Nat /\ 0 \notin DOMAIN dir
  BY ShapeIs
<1>2. hit = IF Stops = {} \/ dir[stop].kind = "end" THEN Nothing(0) ELSE there
  BY DEF fat_findsfnentry
<1>3. Nothing(0).sfn = NoEntry /\ there.sfn = stop /\ there.lfn = stop
  BY DEF Nothing
<1>4. Stops # {} => stop \in Stops /\ \A i \in Stops : stop <= i
  <2> SUFFICES ASSUME Stops # {} PROVE stop \in Stops /\ \A i \in Stops : stop <= i
    OBVIOUS
  <2>1. Stops \subseteq Nat
    BY <1>1
  <2> HIDE DEF Stops
  <2>2. \E i \in Stops : \A j \in Stops : i <= j
    BY <2>1, LeastOf
  <2> QED BY <2>2 DEF Lowest
<1> HIDE DEF stop, there
<1>5. ASSUME hit.sfn # NoEntry
      PROVE  /\ hit.sfn \in places /\ hit.lfn = hit.sfn
             /\ dir[hit.sfn].kind = "sfn" /\ dir[hit.sfn].alias = alias
  <2>1. hit = there /\ Stops # {} /\ dir[stop].kind # "end"
    BY <1>2, <1>3, <1>5
  <2>2. stop \in places /\ dir[stop].kind = "sfn" /\ dir[stop].alias = alias
    BY <1>4, <2>1
  <2> QED BY <1>3, <2>1, <2>2
<1>6. ASSUME NEW i \in places, dir[i].kind = "sfn", dir[i].alias = alias,
             \A j \in places : j <= i => dir[j].kind # "end"
      PROVE  hit.sfn # NoEntry
  <2>1. i \in Stops
    BY <1>6
  <2>2. stop \in places /\ stop <= i
    BY <1>4, <2>1
  <2>3. hit = there
    BY <1>2, <1>6, <2>1, <2>2
  <2>4. stop # 0
    BY <1>1, <2>2
  <2> QED BY <1>3, <2>3, <2>4 DEF NoEntry
<1> QED BY <1>5, <1>6

LEMMA ShortFound ==
  ASSUME FatInv, NEW name \in ShortNames
  PROVE  LET sfn == fat_findsfnentry(AsAlias(name), DOMAIN dir).sfn IN
         /\ name \in made <=> sfn # NoEntry
         /\ name \in made => dir[sfn].name = name
<1> DEFINE hit == fat_findsfnentry(AsAlias(name), DOMAIN dir)
<1>1. name \notin LongNames /\ DOMAIN dir \in SUBSET DOMAIN dir
  BY FatAssumption
<1>2. /\ hit.sfn # NoEntry => /\ hit.sfn \in DOMAIN dir
                              /\ dir[hit.sfn].kind = "sfn" /\ dir[hit.sfn].alias = AsAlias(name)
      /\ \A i \in DOMAIN dir :
           /\ dir[i].kind = "sfn" /\ dir[i].alias = AsAlias(name)
           /\ \A j \in DOMAIN dir : j <= i => dir[j].kind # "end"
           => hit.sfn # NoEntry
  BY <1>1, AliasSearch DEF FatInv
<1> HIDE DEF hit
<1>3. ASSUME hit.sfn # NoEntry PROVE name \in made /\ dir[hit.sfn].name = name
  <2> DEFINE other == dir[hit.sfn].name
  <2>1. other \in made /\ dir[hit.sfn].alias = AsAlias(name) /\ AsAlias(name).number = 0
    BY <1>2, <1>3 DEF FatInv, ShortEntries, AsAlias
  <2>2. other \notin LongNames /\ AsAlias(other) = AsAlias(name)
    BY <1>2, <1>3, <2>1 DEF FatInv, ShortEntries
  <2>3. AsAlias(other).stem = other /\ AsAlias(name).stem = name
    BY DEF AsAlias
  <2> QED BY <2>1, <2>2, <2>3
<1>4. ASSUME name \in made PROVE hit.sfn # NoEntry
  <2>1. PICK i \in DOMAIN dir : dir[i].kind = "sfn" /\ dir[i].name = name
    BY <1>4 DEF FatInv, OneEach
  <2>2. dir[i].alias = AsAlias(name)
    BY <1>1, <2>1 DEF FatInv, ShortEntries
  <2>3. \A j \in DOMAIN dir : j <= i => dir[j].kind # "end"
    BY <2>1 DEF FatInv, EndsLast
  <2> QED BY <1>2, <2>1, <2>2, <2>3
<1>5. /\ name \in made <=> hit.sfn # NoEntry
      /\ name \in made => dir[hit.sfn].name = name
  BY <1>3, <1>4
<1> QED BY <1>5 DEF hit

(* More numbers are tried than the directory has entries.                    *)
LEMMA NumberIsLeft ==
  ASSUME FatShape, NEW name, NEW at
  PROVE  fat_uniquealias(name, at).number \in Nat \ {0}
<1>1. PICK z \in Nat \ {0} : DOMAIN dir = 1 .. z /\ Len(dir) = z
  BY ShapeIs
<1> DEFINE free == {k \in 1 .. z + 1 : ~Taken(name, at, k)}
<1>2. fat_uniquealias(name, at).number = Lowest(free)
  BY <1>1 DEF fat_uniquealias, fat_createalias
<1>3. free # {}
  <2> SUFFICES ASSUME free = {} PROVE FALSE
    OBVIOUS
  <2> DEFINE place == [k \in 1 .. z + 1 |->
                         fat_findsfnentry(fat_createalias(name, k), AliasPlaces(at)).sfn]
  <2>1. ASSUME NEW k \in 1 .. z + 1
        PROVE  place[k] \in 1 .. z /\ dir[place[k]].alias.number = k
    <3> DEFINE hit == fat_findsfnentry(fat_createalias(name, k), AliasPlaces(at))
    <3>1. hit.sfn # NoEntry /\ place[k] = hit.sfn
      BY DEF Taken
    <3>2. AliasPlaces(at) \in SUBSET DOMAIN dir
      BY DEF AliasPlaces
    <3> HIDE DEF hit, place
    <3>3. hit.sfn \in AliasPlaces(at) /\ dir[hit.sfn].alias = fat_createalias(name, k)
      BY <3>1, <3>2, AliasSearch DEF hit
    <3> QED BY <1>1, <3>1, <3>2, <3>3 DEF fat_createalias
  <2>2. place \in [1 .. z + 1 -> 1 .. z]
    BY <2>1
  <2> HIDE DEF place
  <2>3. IsFiniteSet(1 .. z + 1) /\ IsFiniteSet(1 .. z)
        /\ Cardinality(1 .. z) < Cardinality(1 .. z + 1)
    BY FS_Interval
  <2>4. \E x, y \in 1 .. z + 1 : x # y /\ place[x] = place[y]
    BY <2>2, <2>3, FS_PigeonHole, SMTT(60)
  <2> QED BY <2>1, <2>4
<1>4. free \subseteq Nat \ {0}
  OBVIOUS
<1> HIDE DEF free
<1>5. \E i \in free : \A j \in free : i <= j
  BY <1>3, <1>4, LeastOf
<1> QED BY <1>2, <1>4, <1>5 DEF Lowest

-----------------------------------------------------------------------------
(* A run stays while its entries do.                                         *)
LEMMA SpelledStays ==
  ASSUME NEW d, NEW e, NEW b, NEW name, NEW k \in Int, Spelled(d, b, name, k), 0 < k, b + 0 = b,
         \A j \in 0 .. k - 1 : b + j \in DOMAIN e /\ e[b + j] = d[b + j]
  PROVE  Spelled(e, b, name, k)
<1>1. e[b] = d[b]
  <2>1. 0 \in 0 .. k - 1
    OBVIOUS
  <2> QED BY <2>1
<1>2. ASSUME NEW j \in 0 .. k - 1
      PROVE  /\ b + j \in DOMAIN e /\ IsPart(e, b + j, name, Len(name) - j)
             /\ e[b + j].sum = e[b].sum
  BY <1>1 DEF Spelled, IsPart
<1> QED BY <1>2 DEF Spelled

LEMMA RunStays ==
  ASSUME NEW d, NEW e, NEW b \in Int, NEW name, Len(name) \in Nat \ {0}, WholeRun(d, b, name),
         \A j \in 0 .. Len(name) : b + j \in DOMAIN e /\ e[b + j] = d[b + j]
  PROVE  WholeRun(e, b, name)
<1>1. b + 0 = b /\ 0 \in 0 .. Len(name) /\ Len(name) \in 0 .. Len(name) /\ Len(name) \in Int
      /\ 0 < Len(name) /\ \A j \in 0 .. Len(name) - 1 : j \in 0 .. Len(name)
  OBVIOUS
<1>2. Spelled(e, b, name, Len(name))
  BY <1>1, SpelledStays DEF WholeRun
<1>3. e[b] = d[b] /\ b + Len(name) \in DOMAIN e /\ e[b + Len(name)] = d[b + Len(name)]
  BY <1>1
<1> QED BY <1>2, <1>3 DEF WholeRun

(* No entry of a run is available.                                           *)
LEMMA RunIsUsed ==
  ASSUME NEW d, NEW b, NEW name, NEW k \in Int, Spelled(d, b, name, k), NEW j \in 0 .. k - 1
  PROVE  b + j \in DOMAIN d /\ ~Available(d[b + j])
BY DEF Spelled, IsPart, Available

(* Where the steps write only on available entries, the runs stay, and the   *)
(* entries that stay are in order.                                           *)
Old(i) == i \in DOMAIN dir /\ dir'[i] = dir[i]

LEMMA OldStays ==
  ASSUME FatInv, DOMAIN dir \subseteq DOMAIN dir', made \subseteq made', cut \subseteq cut',
         \A i \in DOMAIN dir : ~Available(dir[i]) => dir'[i] = dir[i]
  PROVE  /\ \A i \in DOMAIN dir' : Old(i) /\ dir'[i].kind = "sfn" =>
              /\ dir'[i].name \in made'
              /\ IF dir'[i].name \in LongNames
                 THEN /\ WholeRun(dir', i - Len(dir'[i].name), dir'[i].name)
                      /\ dir'[i].alias.number # 0
                 ELSE dir'[i].alias = AsAlias(dir'[i].name)
         /\ \A i \in DOMAIN dir' : Old(i) /\ dir'[i].kind = "lfn" =>
              \E b \in DOMAIN dir', name \in LongNames :
                InRun(dir', b, name, i) \/ CutAt(dir', b, name, i, cut')
<1>1. DOMAIN dir \subseteq Int
  BY ShapeIs DEF FatInv
<1>2. ASSUME NEW b \in Int, NEW name \in LongNames, NEW k \in 1 .. Len(name), Spelled(dir, b, name, k)
      PROVE  Spelled(dir', b, name, k)
  <2>1. \A j \in 0 .. k - 1 : b + j \in DOMAIN dir' /\ dir'[b + j] = dir[b + j]
    BY <1>2, RunIsUsed
  <2>2. k \in Int /\ 0 < k /\ b + 0 = b
    BY NameIs
  <2> QED BY <1>2, <2>1, <2>2, SpelledStays
<1>3. ASSUME NEW b \in Int, NEW name \in LongNames, WholeRun(dir, b, name)
      PROVE  WholeRun(dir', b, name)
  <2>1. Len(name) \in Nat \ {0}
    BY NameIs
  <2>2. ASSUME NEW j \in 0 .. Len(name) PROVE b + j \in DOMAIN dir' /\ dir'[b + j] = dir[b + j]
    <3>1. CASE j \in 0 .. Len(name) - 1
      BY <1>3, <2>1, <3>1, RunIsUsed DEF WholeRun
    <3>2. CASE j = Len(name)
      BY <1>3, <3>2 DEF WholeRun, Available
    <3> QED BY <2>1, <3>1, <3>2
  <2> QED BY <1>3, <2>1, <2>2, RunStays
<1>4. ASSUME NEW i \in DOMAIN dir', Old(i), dir'[i].kind = "sfn"
      PROVE  /\ dir'[i].name \in made'
             /\ IF dir'[i].name \in LongNames
                THEN /\ WholeRun(dir', i - Len(dir'[i].name), dir'[i].name)
                     /\ dir'[i].alias.number # 0
                ELSE dir'[i].alias = AsAlias(dir'[i].name)
  <2> DEFINE name == dir[i].name
  <2>1. i \in DOMAIN dir /\ dir'[i] = dir[i] /\ dir[i].kind = "sfn"
    BY <1>4 DEF Old
  <2>2. name \in made /\ IF name \in LongNames
                         THEN WholeRun(dir, i - Len(name), name) /\ dir[i].alias.number # 0
                         ELSE dir[i].alias = AsAlias(name)
    BY <2>1 DEF FatInv, ShortEntries
  <2>3. name \in LongNames => i - Len(name) \in Int
    BY <1>1, <2>1, NameIs
  <2>4. dir'[i].name = name
    BY <2>1
  <2> HIDE DEF name
  <2>5. name \in LongNames => WholeRun(dir', i - Len(name), name)
    BY <1>3, <2>2, <2>3
  <2> QED BY <2>1, <2>2, <2>4, <2>5
<1>5. ASSUME NEW i \in DOMAIN dir', Old(i), dir'[i].kind = "lfn"
      PROVE  \E b \in DOMAIN dir', name \in LongNames :
               InRun(dir', b, name, i) \/ CutAt(dir', b, name, i, cut')
  <2>1. i \in DOMAIN dir /\ dir[i].kind = "lfn"
    BY <1>5 DEF Old
  <2>2. PICK b \in DOMAIN dir, name \in LongNames :
          InRun(dir, b, name, i) \/ CutAt(dir, b, name, i, cut)
    BY <2>1 DEF FatInv, LongEntries
  <2>3. b \in Int /\ b \in DOMAIN dir'
    BY <1>1
  <2>4. InRun(dir, b, name, i) => InRun(dir', b, name, i)
    BY <1>3, <2>3 DEF InRun
  <2>5. CutAt(dir, b, name, i, cut) => CutAt(dir', b, name, i, cut')
    BY <1>2, <2>3 DEF CutAt
  <2> QED BY <2>2, <2>3, <2>4, <2>5
<1> QED BY <1>4, <1>5

(* The entries of a name.                                                    *)
PartOf(e, name, j, sum) ==
  /\ e.kind = "lfn" /\ e.seq = Len(name) + 1 - j /\ (e.last <=> j = 1) /\ e.sum = sum
  /\ e.part = name[Len(name) + 1 - j]

LEMMA LongEntriesAre ==
  ASSUME NEW name \in LongNames, NEW at
  PROVE  LET entries == Entries(name, at)
             alias == fat_uniquealias(name, at) IN
         /\ Len(entries) = Len(name) + 1
         /\ \A j \in 1 .. Len(name) : PartOf(entries[j], name, j, fat_lfnchecksum(alias))
         /\ entries[Len(name) + 1] = Sfn(alias, name)
<1> DEFINE alias == fat_uniquealias(name, at)
           Part(j) == Len(name) + 1 - j
           Lfn(j) == [kind |-> "lfn", seq |-> Part(j), last |-> j = 1,
                      sum |-> fat_lfnchecksum(alias), part |-> name[Part(j)]]
           parts == [j \in 1 .. Len(name) |-> Lfn(j)]
           close == <<Sfn(alias, name)>>
           S == {Lfn(j) : j \in 1 .. Len(name)} \cup {Sfn(alias, name)}
           entries == Entries(name, at)
<1>1. entries = parts \o close
  BY DEF Entries
<1>2. Len(name) \in Nat
  BY NameIs
<1>3. parts \in Seq(S) /\ Len(parts) = Len(name)
  <2> HIDE DEF Lfn, alias
  <2>1. parts \in [1 .. Len(name) -> S]
    OBVIOUS
  <2> HIDE DEF S
  <2>2. parts \in Seq(S)
    BY <1>2, <2>1
  <2>3. Len(parts) = Len(name)
    BY <1>2
  <2> QED BY <2>2, <2>3
<1>4. close \in Seq(S) /\ Len(close) = 1 /\ close[1] = Sfn(alias, name)
  <2> HIDE DEF Lfn, alias
  <2> QED OBVIOUS
<1>5. \A j \in 1 .. Len(name) : parts[j] = Lfn(j)
  <2> HIDE DEF Lfn
  <2> QED OBVIOUS
<1>6. ASSUME NEW j
      PROVE  /\ Lfn(j).kind = "lfn" /\ Lfn(j).seq = Len(name) + 1 - j
             /\ (Lfn(j).last <=> j = 1) /\ Lfn(j).sum = fat_lfnchecksum(alias)
             /\ Lfn(j).part = name[Len(name) + 1 - j]
  <2> HIDE DEF alias
  <2>1. Lfn(j).last <=> j = 1
    BY Zenon
  <2>2. /\ Lfn(j).kind = "lfn" /\ Lfn(j).seq = Len(name) + 1 - j
        /\ Lfn(j).sum = fat_lfnchecksum(alias) /\ Lfn(j).part = name[Len(name) + 1 - j]
    BY Zenon
  <2> QED BY <2>1, <2>2
<1> HIDE DEF parts, close, S, entries, Lfn
<1>7. Len(entries) = Len(name) + 1
      /\ \A i \in 1 .. Len(name) + 1 :
           entries[i] = IF i <= Len(name) THEN parts[i] ELSE close[i - Len(name)]
  <2>1. Len(parts \o close) = Len(parts) + Len(close)
        /\ \A i \in 1 .. Len(parts) + Len(close) :
             (parts \o close)[i] = IF i <= Len(parts) THEN parts[i] ELSE close[i - Len(parts)]
    BY <1>3, <1>4, ConcatProperties, Zenon
  <2> QED BY <1>1, <1>3, <1>4, <2>1
<1>8. \A j \in 1 .. Len(name) : entries[j] = Lfn(j)
  BY <1>2, <1>5, <1>7
<1>9. entries[Len(name) + 1] = Sfn(alias, name)
  BY <1>2, <1>4, <1>7
<1> HIDE DEF alias
<1>10. ASSUME NEW j \in 1 .. Len(name)
       PROVE  PartOf(entries[j], name, j, fat_lfnchecksum(alias))
  BY <1>6, <1>8, Zenon DEF PartOf
<1> QED BY <1>7, <1>9, <1>10 DEF entries, alias

-----------------------------------------------------------------------------
(* Creating.  The entries go into the first room that is long enough, so     *)
(* that no end mark is left before them.                                     *)
LEMMA Allocated ==
  ASSUME FatInv, NEW name \in LongNames \cup ShortNames, NEW at, at = fat_allocate(name), at # NoEntry
  PROVE  /\ Needed(name) \in Nat \ {0} /\ at \in DOMAIN dir /\ at + Needed(name) - 1 \in DOMAIN dir
         /\ \A i \in at .. at + Needed(name) - 1 : i \in DOMAIN dir /\ Available(dir[i])
         /\ \A i \in DOMAIN dir : i < at => dir[i].kind # "end"
<1> DEFINE w == Needed(name)
<1>1. PICK z \in Nat \ {0} : DOMAIN dir = 1 .. z /\ Len(dir) = z
  BY ShapeIs DEF FatInv
<1>2. w \in Nat \ {0}
  BY NameIs DEF Needed
<1> HIDE DEF w
<1>3. Runs(name) = {i \in 1 .. z : /\ i + w - 1 <= z /\ \A j \in i .. i + w - 1 : Available(dir[j])}
  BY <1>1 DEF Runs, w
<1>4. at \in Runs(name) /\ \A i \in Runs(name) : at <= i
  <2>1. Runs(name) # {} /\ at = Lowest(Runs(name))
    BY DEF fat_allocate
  <2>2. Runs(name) \subseteq Nat
    BY <1>3
  <2>3. \E i \in Runs(name) : \A j \in Runs(name) : i <= j
    BY <2>1, <2>2, LeastOf
  <2> QED BY <2>1, <2>3 DEF Lowest
<1>5. /\ at \in 1 .. z /\ at + w - 1 \in 1 .. z
      /\ \A i \in at .. at + w - 1 : i \in 1 .. z /\ Available(dir[i])
  BY <1>2, <1>3, <1>4
<1>6. ASSUME NEW i \in 1 .. z, i < at, dir[i].kind = "end" PROVE FALSE
  <2>1. \A j \in i .. i + w - 1 : j \in 1 .. z /\ i <= j
    BY <1>2, <1>5, <1>6
  <2>2. \A j \in i .. i + w - 1 : dir[j].kind = "end"
    BY <1>1, <1>6, <2>1 DEF FatInv, EndsLast
  <2>3. i + w - 1 <= z
    BY <1>2, <1>5, <1>6
  <2>4. i \in Runs(name)
    BY <1>3, <2>2, <2>3 DEF Available
  <2> QED BY <1>4, <1>5, <1>6, <2>4
<1> QED BY <1>1, <1>2, <1>5, <1>6 DEF w

Placed(entries, at, w) ==
  /\ FatShape' /\ EndsLast' /\ DOMAIN dir' = DOMAIN dir
  /\ \A j \in 1 .. w : at + j - 1 \in DOMAIN dir /\ dir'[at + j - 1] = entries[j]
  /\ \A i \in DOMAIN dir : Old(i) \/ \E j \in 1 .. w : i = at + j - 1
  /\ \A i \in DOMAIN dir : ~Available(dir[i]) => dir'[i] = dir[i]

LEMMA Puts ==
  ASSUME FatInv, NEW name \in LongNames \cup ShortNames, NEW at, at = fat_allocate(name), at # NoEntry,
         NEW entries, NEW w \in 1 .. Needed(name), Len(entries) = w,
         \A j \in 1 .. w : entries[j].kind \in {"sfn", "lfn"},
         dir' = Put(entries, at), made' \subseteq LongNames \cup ShortNames
  PROVE  Placed(entries, at, w)
<1>1. PICK z \in Nat \ {0} : DOMAIN dir = 1 .. z /\ Len(dir) = z
  BY ShapeIs DEF FatInv
<1>2. /\ Needed(name) \in Nat \ {0} /\ at \in 1 .. z /\ at + Needed(name) - 1 \in 1 .. z
      /\ \A i \in at .. at + Needed(name) - 1 : i \in 1 .. z /\ Available(dir[i])
      /\ \A i \in 1 .. z : i < at => dir[i].kind # "end"
  BY <1>1, Allocated
<1>3. w \in Nat \ {0} /\ at + w - 1 <= at + Needed(name) - 1
  BY <1>2
<1>4. /\ DOMAIN dir' = 1 .. z /\ dir' = [i \in DOMAIN dir' |-> dir'[i]]
      /\ \A i \in 1 .. z : dir'[i] = IF i \in at .. at + w - 1 THEN entries[i - at + 1] ELSE dir[i]
  BY <1>1 DEF Put
<1>5. \A i \in at .. at + w - 1 : Available(dir[i]) /\ i \in 1 .. z
  BY <1>2, <1>3
<1>6. \A i \in at .. at + w - 1 : /\ i - at + 1 \in 1 .. w /\ i = at + (i - at + 1) - 1
  BY <1>2, <1>3
<1>7. ASSUME NEW j \in 1 .. w PROVE at + j - 1 \in 1 .. z /\ dir'[at + j - 1] = entries[j]
  <2>1. at + j - 1 \in at .. at + w - 1 /\ (at + j - 1) - at + 1 = j
    BY <1>2, <1>3
  <2> QED BY <1>4, <1>5, <2>1
<1>8. ASSUME NEW i \in 1 .. z PROVE Old(i) \/ \E j \in 1 .. w : i = at + j - 1
  BY <1>1, <1>4, <1>6 DEF Old
<1>9. ASSUME NEW i \in 1 .. z, ~Available(dir[i]) PROVE dir'[i] = dir[i]
  BY <1>4, <1>5, <1>9
<1>10. ASSUME NEW i \in 1 .. z PROVE dir'[i].kind \in EntryKinds
  <2>1. dir[i].kind \in EntryKinds
    BY <1>1 DEF FatInv, FatShape
  <2>2. i \in at .. at + w - 1 => entries[i - at + 1].kind \in {"sfn", "lfn"}
    BY <1>6
  <2>3. dir'[i] = IF i \in at .. at + w - 1 THEN entries[i - at + 1] ELSE dir[i]
    BY <1>4
  <2> QED BY <2>1, <2>2, <2>3 DEF EntryKinds
<1>11. FatShape'
  BY <1>1, <1>4, <1>10 DEF FatInv, FatShape
<1>12. EndsLast'
  <2> SUFFICES ASSUME NEW i \in 1 .. z, NEW j \in 1 .. z, dir'[i].kind = "end", i <= j
               PROVE  dir'[j].kind = "end"
    BY <1>4 DEF EndsLast
  <2>1. i \notin at .. at + w - 1
    BY <1>4, <1>6
  <2>2. dir[i].kind = "end"
    BY <1>4, <2>1
  <2>3. at + w - 1 < i
    BY <1>2, <1>3, <2>1, <2>2
  <2>4. j \notin at .. at + w - 1
    BY <1>2, <1>3, <2>3
  <2>5. dir[j].kind = "end"
    BY <1>1, <2>2 DEF FatInv, EndsLast
  <2> QED BY <1>4, <2>4, <2>5
<1> QED BY <1>1, <1>4, <1>7, <1>8, <1>9, <1>11, <1>12 DEF Placed

(* A directory that grows has unused entries at its end.                     *)
LEMMA ExtendsKeeps ==
  ASSUME FatInv, NEW name \in LongNames \cup ShortNames, Extends(name)
  PROVE  FatInv'
<1>1. PICK c \in 1 .. Clusters : DOMAIN dir = 1 .. c * PerCluster
  BY DEF FatInv, FatShape
<1> DEFINE size == c * PerCluster
           S == {dir[i] : i \in DOMAIN dir} \cup {End}
           more == [i \in 1 .. PerCluster |-> End]
<1>2. size \in Nat /\ c \in Nat /\ PerCluster \in Nat \ {0} /\ Clusters \in Nat
  BY FatAssumption
<1>3. dir \in Seq(S) /\ Len(dir) = size /\ more \in Seq(S) /\ Len(more) = PerCluster
  <2>1. dir \in [1 .. size -> S]
    BY <1>1 DEF FatInv, FatShape
  <2>2. more \in [1 .. PerCluster -> S]
    BY DEF End
  <2> HIDE DEF S, size, more
  <2> QED BY <1>2, <2>1, <2>2, SeqDef, LenProperties
<1>4. size < Clusters * PerCluster /\ dir' = dir \o more /\ UNCHANGED <<made, cut>>
  BY <1>3 DEF Extends
<1>5. End.kind = "end" /\ \A i \in 1 .. PerCluster : more[i] = End
  BY DEF End
<1> HIDE DEF S, more
<1>6. /\ dir' \in Seq(S) /\ Len(dir') = size + PerCluster
      /\ \A i \in 1 .. size + PerCluster :
           dir'[i] = IF i <= size THEN dir[i] ELSE more[i - size]
  <2>1. /\ dir \o more \in Seq(S) /\ Len(dir \o more) = Len(dir) + Len(more)
        /\ \A i \in 1 .. Len(dir) + Len(more) :
             (dir \o more)[i] = IF i <= Len(dir) THEN dir[i] ELSE more[i - Len(dir)]
    BY <1>3, ConcatProperties, Zenon
  <2> HIDE DEF size
  <2> QED BY <1>3, <1>4, <2>1
<1>7. c + 1 \in 1 .. Clusters /\ (c + 1) * PerCluster = size + PerCluster
  <2>1. c < Clusters
    BY <1>2, <1>4
  <2> QED BY <1>2, <2>1
<1> HIDE DEF size
<1>8. DOMAIN dir' = 1 .. size + PerCluster /\ dir' = [i \in DOMAIN dir' |-> dir'[i]]
  BY <1>6, LenProperties
<1>9. ASSUME NEW i \in DOMAIN dir' PROVE Old(i) \/ (i \notin DOMAIN dir /\ dir'[i].kind = "end")
  <2>1. i <= size => i \in DOMAIN dir /\ dir'[i] = dir[i]
    BY <1>1, <1>2, <1>6, <1>8 DEF size
  <2>2. ~(i <= size) => i \notin DOMAIN dir /\ i - size \in 1 .. PerCluster /\ dir'[i] = more[i - size]
    BY <1>1, <1>2, <1>6, <1>8 DEF size
  <2> QED BY <1>5, <2>1, <2>2 DEF Old
<1>10. DOMAIN dir \subseteq DOMAIN dir' /\ DOMAIN dir = 1 .. size
       /\ \A i \in DOMAIN dir : dir'[i] = dir[i]
  BY <1>1, <1>2, <1>6, <1>8 DEF size
<1>11. FatShape'
  <2>1. \A i \in DOMAIN dir' : dir'[i].kind \in EntryKinds
    BY <1>9 DEF FatInv, FatShape, EntryKinds, Old
  <2> QED BY <1>4, <1>7, <1>8, <2>1 DEF FatInv, FatShape
<1>12. EndsLast'
  <2> SUFFICES ASSUME NEW i \in DOMAIN dir', NEW j \in DOMAIN dir', dir'[i].kind = "end", i <= j
               PROVE  dir'[j].kind = "end"
    BY DEF EndsLast
  <2>1. j \notin DOMAIN dir => dir'[j].kind = "end"
    BY <1>9 DEF Old
  <2>2. j \in DOMAIN dir => i \in DOMAIN dir
    BY <1>2, <1>8, <1>10
  <2> QED BY <1>10, <2>1, <2>2 DEF FatInv, EndsLast
<1>13. made \subseteq made' /\ cut \subseteq cut'
  BY <1>4
<1>14. ShortEntries' /\ LongEntries'
  BY <1>9, <1>10, <1>13, OldStays DEF ShortEntries, LongEntries
<1>15. OneEach'
  <2>1. \A i \in DOMAIN dir' : dir'[i].kind = "sfn" => i \in DOMAIN dir /\ dir'[i] = dir[i]
    BY <1>9 DEF Old
  <2>2. ASSUME NEW i \in DOMAIN dir', NEW j \in DOMAIN dir', dir'[i].kind = "sfn",
               dir'[j].kind = "sfn", dir'[i].name = dir'[j].name
        PROVE  i = j
    BY <2>1, <2>2 DEF FatInv, OneEach
  <2>3. ASSUME NEW other \in made' PROVE \E i \in DOMAIN dir' : dir'[i].kind = "sfn" /\ dir'[i].name = other
    BY <1>4, <1>10 DEF FatInv, OneEach
  <2> QED BY <2>2, <2>3 DEF OneEach
<1> QED BY <1>11, <1>12, <1>14, <1>15 DEF FatInv

(* A new short entry is the only one of its name.                            *)
LEMMA OneNameMore ==
  ASSUME FatInv, NEW name, name \notin made, NEW s \in DOMAIN dir, DOMAIN dir' = DOMAIN dir,
         dir'[s].kind = "sfn", dir'[s].name = name, made' = made \cup {name},
         \A i \in DOMAIN dir : dir'[i].kind = "sfn" => Old(i) \/ i = s,
         \A i \in DOMAIN dir : ~Available(dir[i]) => dir'[i] = dir[i]
  PROVE  OneEach'
<1>1. ASSUME NEW i \in DOMAIN dir, dir'[i].kind = "sfn", i # s
      PROVE  dir'[i] = dir[i] /\ dir[i].kind = "sfn" /\ dir[i].name # name
  BY <1>1 DEF FatInv, ShortEntries, Old
<1>2. ASSUME NEW i \in DOMAIN dir', NEW j \in DOMAIN dir', dir'[i].kind = "sfn",
             dir'[j].kind = "sfn", dir'[i].name = dir'[j].name
      PROVE  i = j
  <2>1. CASE i = s \/ j = s
    BY <1>1, <1>2, <2>1
  <2>2. CASE i # s /\ j # s
    BY <1>1, <1>2, <2>2 DEF FatInv, OneEach
  <2> QED BY <2>1, <2>2
<1>3. ASSUME NEW other \in made' PROVE \E i \in DOMAIN dir' : dir'[i].kind = "sfn" /\ dir'[i].name = other
  <2>1. CASE other = name
    BY <2>1
  <2>2. CASE other \in made
    <3>1. PICK i \in DOMAIN dir : dir[i].kind = "sfn" /\ dir[i].name = other
      BY <2>2 DEF FatInv, OneEach
    <3>2. dir'[i] = dir[i]
      BY <3>1 DEF Available
    <3> QED BY <3>1, <3>2
  <2> QED BY <2>1, <2>2
<1> QED BY <1>2, <1>3 DEF OneEach

(* The parts that were written spell the name.                               *)
SpelledWith(d, b, name, k, sum) == Spelled(d, b, name, k) /\ d[b].sum = sum

LEMMA WrittenSpells ==
  ASSUME NEW name \in LongNames, NEW d, NEW at \in Int, NEW sum, NEW k \in 1 .. Len(name),
         \A j \in 1 .. k : at + j - 1 \in DOMAIN d /\ PartOf(d[at + j - 1], name, j, sum)
  PROVE  SpelledWith(d, at, name, k, sum)
<1>1. Len(name) \in Nat /\ k \in Int
  BY NameIs
<1>2. ASSUME NEW j \in 0 .. k - 1
      PROVE  at + j \in DOMAIN d /\ IsPart(d, at + j, name, Len(name) - j) /\ d[at + j].sum = sum
  <2> DEFINE p == j + 1
  <2>1. p \in 1 .. k /\ at + p - 1 = at + j /\ Len(name) + 1 - p = Len(name) - j
        /\ (p = 1 <=> Len(name) - j = Len(name))
    BY <1>1
  <2> HIDE DEF p
  <2>2. /\ at + j \in DOMAIN d /\ d[at + j].kind = "lfn" /\ d[at + j].seq = Len(name) - j
        /\ (d[at + j].last <=> p = 1) /\ d[at + j].sum = sum /\ d[at + j].part = name[Len(name) - j]
    BY <2>1 DEF PartOf
  <2> QED BY <2>1, <2>2 DEF IsPart
<1>3. 0 \in 0 .. k - 1 /\ at + 0 = at
  BY <1>1
<1>4. d[at].sum = sum
  BY <1>2, <1>3
<1> QED BY <1>2, <1>4 DEF Spelled, SpelledWith

LEMMA CreateKeeps ==
  ASSUME FatInv, NEW name \in LongNames \cup ShortNames, fat_dircreate(name)
  PROVE  FatInv'
<1> DEFINE at == fat_allocate(name)
           entries == Entries(name, at)
           alias == fat_uniquealias(name, at)
<1>w. PICK w : w = Needed(name)
  OBVIOUS
<1>1. /\ name \notin made /\ at # NoEntry /\ dir' = Put(entries, at)
      /\ made' = made \cup {name} /\ cut' = cut
  BY DEF fat_dircreate
<1>2. w \in Nat \ {0} /\ at \in DOMAIN dir /\ at + w - 1 \in DOMAIN dir
  BY <1>1, <1>w, Allocated
<1>3. /\ Len(entries) = w
      /\ IF name \in LongNames
         THEN /\ w = Len(name) + 1 /\ entries[w] = Sfn(alias, name)
              /\ \A j \in 1 .. Len(name) : PartOf(entries[j], name, j, fat_lfnchecksum(alias))
         ELSE w = 1 /\ entries[1] = Sfn(AsAlias(name), name)
  <2>1. CASE name \in LongNames
    <3>1. w = Len(name) + 1
      BY <1>w, <2>1 DEF Needed
    <3> QED BY <2>1, <3>1, LongEntriesAre
  <2>2. CASE name \notin LongNames
    <3>1. w = 1 /\ entries = <<Sfn(AsAlias(name), name)>>
      BY <1>w, <2>2 DEF Needed, Entries
    <3> HIDE DEF entries
    <3>2. Len(entries) = 1 /\ entries[1] = Sfn(AsAlias(name), name)
      BY <3>1
    <3> QED BY <2>2, <3>1, <3>2
  <2> QED BY <2>1, <2>2
<1>4. \A a, m : Sfn(a, m).kind = "sfn" /\ Sfn(a, m).alias = a /\ Sfn(a, m).name = m
  BY DEF Sfn
<1>5. at \in Int /\ DOMAIN dir \subseteq Int /\ alias.number # 0
  <2>1. DOMAIN dir \subseteq Int
    BY ShapeIs DEF FatInv
  <2>2. alias.number \in Nat \ {0}
    BY NumberIsLeft DEF FatInv
  <2> QED BY <1>2, <2>1, <2>2
<1>6. name \in LongNames => Len(name) \in Nat \ {0}
  BY NameIs
<1> HIDE DEF entries, alias
<1>7. \A j \in 1 .. w : entries[j].kind = IF j = w THEN "sfn" ELSE "lfn"
  <2> SUFFICES ASSUME NEW j \in 1 .. w PROVE entries[j].kind = IF j = w THEN "sfn" ELSE "lfn"
    OBVIOUS
  <2>1. CASE name \in LongNames
    <3>1. j # w => j \in 1 .. Len(name)
      BY <1>3, <1>6, <2>1
    <3> QED BY <1>3, <1>4, <2>1, <3>1 DEF PartOf
  <2>2. CASE name \notin LongNames
    BY <1>3, <1>4, <2>2
  <2> QED BY <2>1, <2>2
<1>8. made' \subseteq LongNames \cup ShortNames
  BY <1>1 DEF FatInv, FatShape
<1>9. w \in 1 .. Needed(name) /\ \A j \in 1 .. w : entries[j].kind \in {"sfn", "lfn"}
  BY <1>2, <1>7, <1>w
<1> HIDE DEF at
<1>10. /\ FatShape' /\ EndsLast' /\ DOMAIN dir' = DOMAIN dir
       /\ \A j \in 1 .. w : at + j - 1 \in DOMAIN dir /\ dir'[at + j - 1] = entries[j]
       /\ \A i \in DOMAIN dir : Old(i) \/ \E j \in 1 .. w : i = at + j - 1
       /\ \A i \in DOMAIN dir : ~Available(dir[i]) => dir'[i] = dir[i]
  <2>1. at = fat_allocate(name) /\ at # NoEntry /\ dir' = Put(entries, at) /\ Len(entries) = w
    BY <1>1, <1>3 DEF at
  <2>2. Placed(entries, at, w)
    BY <1>8, <1>9, <2>1, Puts
  <2> QED BY <2>2, Zenon DEF Placed
<1> DEFINE s == at + w - 1
<1>11. s \in DOMAIN dir /\ dir'[s] = entries[w] /\ w \in 1 .. w
  BY <1>2, <1>10
<1>12. dir'[s].kind = "sfn" /\ dir'[s].name = name
       /\ dir'[s].alias = IF name \in LongNames THEN alias ELSE AsAlias(name)
  BY <1>3, <1>4, <1>11
<1>13. \A i \in DOMAIN dir : dir'[i].kind = "sfn" => Old(i) \/ i = s
  BY <1>7, <1>10
<1> HIDE DEF s
<1>14. OneEach'
  BY <1>1, <1>10, <1>11, <1>12, <1>13, OneNameMore
<1>15. name \in LongNames => WholeRun(dir', at, name) /\ s = at + Len(name)
  <2> SUFFICES ASSUME name \in LongNames PROVE WholeRun(dir', at, name) /\ s = at + Len(name)
    OBVIOUS
  <2>1. Len(name) \in 1 .. Len(name) /\ s = at + Len(name) /\ \A j \in 1 .. Len(name) : j \in 1 .. w
    BY <1>3, <1>5, <1>6 DEF s
  <2>2. \A j \in 1 .. Len(name) : dir'[at + j - 1] = entries[j] /\ at + j - 1 \in DOMAIN dir'
    BY <1>10, <2>1
  <2>3. Spelled(dir', at, name, Len(name)) /\ dir'[at].sum = fat_lfnchecksum(alias)
    <3> DEFINE sum == fat_lfnchecksum(alias)
    <3>1. \A j \in 1 .. Len(name) : PartOf(entries[j], name, j, sum)
      BY <1>3
    <3> HIDE DEF sum
    <3>2. PICK k \in 1 .. Len(name) : k = Len(name)
      BY <2>1
    <3>4. \A j \in 1 .. k : at + j - 1 \in DOMAIN dir' /\ PartOf(dir'[at + j - 1], name, j, sum)
      BY <2>2, <3>1, <3>2
    <3>3. SpelledWith(dir', at, name, k, sum)
      BY <1>5, <3>4, WrittenSpells
    <3> QED BY <3>2, <3>3 DEF sum, SpelledWith
  <2> QED BY <1>10, <1>11, <1>12, <2>1, <2>3 DEF WholeRun
<1>16. made \subseteq made' /\ cut \subseteq cut' /\ DOMAIN dir \subseteq DOMAIN dir'
  BY <1>1, <1>10
<1>17. /\ \A i \in DOMAIN dir' : Old(i) /\ dir'[i].kind = "sfn" =>
            /\ dir'[i].name \in made'
            /\ IF dir'[i].name \in LongNames
               THEN /\ WholeRun(dir', i - Len(dir'[i].name), dir'[i].name)
                    /\ dir'[i].alias.number # 0
               ELSE dir'[i].alias = AsAlias(dir'[i].name)
       /\ \A i \in DOMAIN dir' : Old(i) /\ dir'[i].kind = "lfn" =>
            \E b \in DOMAIN dir', m \in LongNames :
              InRun(dir', b, m, i) \/ CutAt(dir', b, m, i, cut')
  BY <1>10, <1>16, OldStays
<1>18. ShortEntries'
  <2> SUFFICES ASSUME NEW i \in DOMAIN dir', dir'[i].kind = "sfn"
               PROVE  /\ dir'[i].name \in made'
                      /\ IF dir'[i].name \in LongNames
                         THEN /\ WholeRun(dir', i - Len(dir'[i].name), dir'[i].name)
                              /\ dir'[i].alias.number # 0
                         ELSE dir'[i].alias = AsAlias(dir'[i].name)
    BY DEF ShortEntries
  <2>1. CASE Old(i)
    BY <1>17, <2>1
  <2>2. CASE i = s
    <3>1. dir'[i].name = name /\ name \in made'
      BY <1>1, <1>12, <2>2
    <3>2. name \in LongNames => i - Len(name) = at
      BY <1>5, <1>6, <1>15, <2>2
    <3> QED BY <1>5, <1>12, <1>15, <2>2, <3>1, <3>2
  <2> QED BY <1>10, <1>13, <2>1, <2>2
<1>19. LongEntries'
  <2> SUFFICES ASSUME NEW i \in DOMAIN dir', dir'[i].kind = "lfn"
               PROVE  \E b \in DOMAIN dir', m \in LongNames :
                        InRun(dir', b, m, i) \/ CutAt(dir', b, m, i, cut')
    BY DEF LongEntries
  <2>1. CASE Old(i)
    BY <1>17, <2>1
  <2>2. CASE ~Old(i)
    <3>1. PICK j \in 1 .. w : i = at + j - 1
      BY <1>10, <2>2
    <3>2. dir'[i] = entries[j]
      BY <1>10, <3>1
    <3>3. j # w
      BY <1>7, <3>2
    <3>4. name \in LongNames /\ j \in 1 .. Len(name)
      BY <1>3, <1>6, <3>3
    <3>5. i \in at .. at + Len(name) - 1
      BY <1>5, <1>6, <3>1, <3>4
    <3>6. InRun(dir', at, name, i) /\ at \in DOMAIN dir'
      BY <1>2, <1>10, <1>15, <3>4, <3>5 DEF InRun, at
    <3> QED BY <3>4, <3>6
  <2> QED BY <2>1, <2>2
<1> QED BY <1>10, <1>14, <1>18, <1>19 DEF FatInv

(* A cut leaves parts of the name it cut, and no short entry.                *)
LEMMA CutKeeps ==
  ASSUME FatInv, NEW name \in LongNames \cup ShortNames, PowerFails(name)
  PROVE  FatInv'
<1> DEFINE at == fat_allocate(name)
           whole == Entries(name, at)
           alias == fat_uniquealias(name, at)
<1>1. PICK w \in 1 .. Needed(name) - 1 : dir' = Put(SubSeq(whole, 1, w), at)
  BY DEF PowerFails
<1>2. at # NoEntry /\ made' = made /\ cut' = cut \cup {name}
  BY DEF PowerFails
<1> DEFINE entries == SubSeq(whole, 1, w)
<1>3. name \in LongNames /\ Needed(name) = Len(name) + 1
  BY DEF Needed
<1>4. Len(name) \in Nat \ {0} /\ w \in 1 .. Len(name) /\ w \in Int /\ w \in 1 .. Needed(name)
  BY <1>3, NameIs
<1>5. \A j \in 1 .. Len(name) : PartOf(whole[j], name, j, fat_lfnchecksum(alias))
  BY <1>3, LongEntriesAre
<1> HIDE DEF whole, alias
<1>6. Len(entries) = w /\ \A j \in 1 .. w : entries[j] = whole[j]
  <2> DEFINE S == {whole[i] : i \in 1 .. w}
  <2>1. \A i \in 1 .. w : whole[i] \in S
    OBVIOUS
  <2>2. 1 \in Int /\ 1 <= w /\ w - 1 + 1 = w
    BY <1>4
  <2> HIDE DEF S
  <2>3. Len(SubSeq(whole, 1, w)) = (IF 1 <= w THEN w - 1 + 1 ELSE 0)
        /\ \A i \in 1 .. w - 1 + 1 : SubSeq(whole, 1, w)[i] = whole[1 + i - 1]
    BY <1>4, <2>1, <2>2, SubSeqProperties
  <2>4. \A j \in 1 .. w : 1 + j - 1 = j
    OBVIOUS
  <2> QED BY <2>2, <2>3, <2>4
<1> HIDE DEF entries
<1>7. \A j \in 1 .. w : j \in 1 .. Len(name) /\ entries[j].kind = "lfn"
  BY <1>4, <1>5, <1>6 DEF PartOf
<1>8. made' \subseteq LongNames \cup ShortNames
  BY <1>2 DEF FatInv, FatShape
<1>9. at \in DOMAIN dir /\ at \in Int /\ DOMAIN dir \subseteq Int
  <2>1. at \in DOMAIN dir
    BY <1>2, Allocated
  <2>2. DOMAIN dir \subseteq Int
    BY ShapeIs DEF FatInv
  <2> QED BY <2>1, <2>2
<1> HIDE DEF at
<1>10. /\ FatShape' /\ EndsLast' /\ DOMAIN dir' = DOMAIN dir
       /\ \A j \in 1 .. w : at + j - 1 \in DOMAIN dir /\ dir'[at + j - 1] = entries[j]
       /\ \A i \in DOMAIN dir : Old(i) \/ \E j \in 1 .. w : i = at + j - 1
       /\ \A i \in DOMAIN dir : ~Available(dir[i]) => dir'[i] = dir[i]
  <2>1. dir' = Put(entries, at) /\ \A j \in 1 .. w : entries[j].kind \in {"sfn", "lfn"}
    BY <1>1, <1>7 DEF entries
  <2>2. at = fat_allocate(name)
    BY DEF at
  <2>3. Placed(entries, at, w)
    BY <1>2, <1>4, <1>6, <1>8, <2>1, <2>2, Puts
  <2> QED BY <2>3, Zenon DEF Placed
<1>11. made \subseteq made' /\ cut \subseteq cut' /\ DOMAIN dir \subseteq DOMAIN dir'
  BY <1>2, <1>10
<1>12. /\ \A i \in DOMAIN dir' : Old(i) /\ dir'[i].kind = "sfn" =>
            /\ dir'[i].name \in made'
            /\ IF dir'[i].name \in LongNames
               THEN /\ WholeRun(dir', i - Len(dir'[i].name), dir'[i].name)
                    /\ dir'[i].alias.number # 0
               ELSE dir'[i].alias = AsAlias(dir'[i].name)
       /\ \A i \in DOMAIN dir' : Old(i) /\ dir'[i].kind = "lfn" =>
            \E b \in DOMAIN dir', m \in LongNames :
              InRun(dir', b, m, i) \/ CutAt(dir', b, m, i, cut')
  BY <1>10, <1>11, OldStays
<1>13. \A i \in DOMAIN dir' : dir'[i].kind = "sfn" => Old(i)
  <2>1. \A j \in 1 .. w : dir'[at + j - 1].kind = "lfn"
    BY <1>7, <1>10
  <2> QED BY <1>10, <2>1
<1>14. ShortEntries'
  BY <1>12, <1>13 DEF ShortEntries
<1>15. OneEach'
  <2>1. \A i \in DOMAIN dir' : dir'[i].kind = "sfn" => i \in DOMAIN dir /\ dir'[i] = dir[i]
    BY <1>13 DEF Old
  <2>2. \A i \in DOMAIN dir : dir[i].kind = "sfn" => dir'[i] = dir[i]
    BY <1>10 DEF Available
  <2>3. ASSUME NEW i \in DOMAIN dir', NEW j \in DOMAIN dir', dir'[i].kind = "sfn",
               dir'[j].kind = "sfn", dir'[i].name = dir'[j].name
        PROVE  i = j
    BY <2>1, <2>3 DEF FatInv, OneEach
  <2>4. ASSUME NEW other \in made' PROVE \E i \in DOMAIN dir' : dir'[i].kind = "sfn" /\ dir'[i].name = other
    BY <1>2, <1>10, <2>2 DEF FatInv, OneEach
  <2> QED BY <2>3, <2>4 DEF OneEach
<1>16. Spelled(dir', at, name, w)
  <2>1. \A j \in 1 .. w : dir'[at + j - 1] = whole[j] /\ at + j - 1 \in DOMAIN dir'
    BY <1>6, <1>10
  <2> DEFINE sum == fat_lfnchecksum(alias)
  <2>2. \A j \in 1 .. w : PartOf(whole[j], name, j, sum)
    BY <1>5, <1>7
  <2> HIDE DEF sum
  <2>3. \A j \in 1 .. w : at + j - 1 \in DOMAIN dir' /\ PartOf(dir'[at + j - 1], name, j, sum)
    BY <2>1, <2>2
  <2>4. SpelledWith(dir', at, name, w, sum)
    BY <1>3, <1>4, <1>9, <2>3, WrittenSpells
  <2> QED BY <2>4 DEF SpelledWith
<1>17. LongEntries'
  <2> SUFFICES ASSUME NEW i \in DOMAIN dir', dir'[i].kind = "lfn"
               PROVE  \E b \in DOMAIN dir', m \in LongNames :
                        InRun(dir', b, m, i) \/ CutAt(dir', b, m, i, cut')
    BY DEF LongEntries
  <2>1. CASE Old(i)
    BY <1>12, <2>1
  <2>2. CASE ~Old(i)
    <3>1. PICK j \in 1 .. w : i = at + j - 1
      BY <1>10, <2>2
    <3>2. i \in at .. at + w - 1
      BY <1>4, <1>9, <3>1
    <3>3. CutAt(dir', at, name, i, cut')
      BY <1>2, <1>4, <1>16, <3>2 DEF CutAt
    <3> QED BY <1>3, <1>9, <1>10, <3>3
  <2> QED BY <2>1, <2>2
<1> QED BY <1>10, <1>14, <1>15, <1>17 DEF FatInv

-----------------------------------------------------------------------------
(* Removing.  What is freed, up to a short entry, touches no run but the one *)
(* it is the end of: a run that shares an entry with it begins with it.      *)
Frees(l, s) ==
  /\ l \in DOMAIN dir /\ s \in DOMAIN dir /\ l <= s /\ dir[s].kind = "sfn"
  /\ \A i \in l .. s : i # s => dir[i].kind # "sfn"
  /\ \A b \in DOMAIN dir, name \in LongNames, i \in Nat :
       /\ \/ \E k \in 1 .. Len(name) : Spelled(dir, b, name, k) /\ i \in b .. b + k - 1
          \/ WholeRun(dir, b, name) /\ i = b + Len(name)
       /\ i \in l .. s
       => b = l /\ b + Len(name) = s

LEMMA FreedKeeps ==
  ASSUME FatInv, NEW l, NEW s, Frees(l, s), dir' = Emptied(l, s),
         made' = made \ {dir[s].name}, cut' = cut
  PROVE  FatInv'
<1>1. PICK z \in Nat \ {0} : DOMAIN dir = 1 .. z /\ Len(dir) = z
  BY ShapeIs DEF FatInv
<1>2. l \in 1 .. z /\ s \in 1 .. z /\ l <= s /\ dir[s].kind = "sfn"
  BY <1>1 DEF Frees
<1>3. /\ DOMAIN dir' = 1 .. z /\ dir' = [i \in DOMAIN dir' |-> dir'[i]]
      /\ \A i \in 1 .. z : dir'[i] = IF i \in l .. s THEN FreePart ELSE dir[i]
  BY <1>1 DEF Emptied
<1>4. FreePart.kind = "free"
  BY DEF FreePart
<1>5. ASSUME NEW i \in 1 .. z, dir'[i].kind # "free"
      PROVE  i \notin l .. s /\ dir'[i] = dir[i]
  BY <1>3, <1>4, <1>5
<1>6. FatShape'
  <2>1. \A i \in 1 .. z : dir'[i].kind \in EntryKinds
    BY <1>1, <1>3, <1>4 DEF FatInv, FatShape, EntryKinds
  <2>2. DOMAIN dir' = DOMAIN dir /\ made' \subseteq LongNames \cup ShortNames
    BY <1>1, <1>3 DEF FatInv, FatShape
  <2> QED BY <1>3, <2>1, <2>2 DEF FatInv, FatShape
<1>7. EndsLast'
  <2> SUFFICES ASSUME NEW i \in 1 .. z, NEW j \in 1 .. z, dir'[i].kind = "end", i <= j
               PROVE  dir'[j].kind = "end"
    BY <1>3 DEF EndsLast
  <2>1. i \notin l .. s /\ dir[i].kind = "end"
    BY <1>5
  <2>2. ~(i <= s)
    BY <1>1, <1>2, <2>1 DEF FatInv, EndsLast
  <2>3. j \notin l .. s /\ dir[j].kind = "end"
    BY <1>1, <1>2, <2>1, <2>2 DEF FatInv, EndsLast
  <2> QED BY <1>3, <2>3
<1>8. ASSUME NEW b \in 1 .. z, NEW name \in LongNames, WholeRun(dir, b, name),
             NEW i \in b .. b + Len(name), i \notin l .. s
      PROVE  WholeRun(dir', b, name)
  <2>1. Len(name) \in Nat \ {0} /\ Len(name) \in 1 .. Len(name) /\ b + Len(name) \in 1 .. z /\ b \in Int
    BY <1>1, <1>8, NameIs DEF WholeRun
  <2>2. ASSUME NEW j \in b .. b + Len(name), j \in l .. s PROVE FALSE
    <3>1. j \in b .. b + Len(name) - 1 \/ j = b + Len(name)
      BY <2>1
    <3>2. Spelled(dir, b, name, Len(name)) /\ b \in DOMAIN dir /\ j \in Nat
      BY <1>1, <1>8, <2>1 DEF WholeRun
    <3>3. b = l /\ b + Len(name) = s
      BY <1>8, <2>1, <2>2, <3>1, <3>2 DEF Frees
    <3> QED BY <1>8, <3>3
  <2>3. \A j \in 0 .. Len(name) : b + j \in b .. b + Len(name) /\ b + j \in 1 .. z
    BY <2>1
  <2>4. \A j \in 0 .. Len(name) : b + j \in DOMAIN dir' /\ dir'[b + j] = dir[b + j]
    BY <1>3, <2>2, <2>3
  <2> QED BY <1>8, <2>1, <2>4, RunStays
<1>9. ASSUME NEW b \in 1 .. z, NEW name \in LongNames, NEW k \in 1 .. Len(name),
             Spelled(dir, b, name, k), NEW i \in b .. b + k - 1, i \notin l .. s
      PROVE  Spelled(dir', b, name, k)
  <2>1. Len(name) \in Nat \ {0} /\ k \in Nat /\ k \in Int /\ 0 < k /\ k <= Len(name) /\ b \in Int
        /\ b + 0 = b /\ b \in DOMAIN dir
    BY <1>1, NameIs
  <2>2. ASSUME NEW j \in 0 .. k - 1 PROVE b + j \in 1 .. z /\ b + j \notin l .. s
    <3>1. b + j \in 1 .. z /\ b + j \in Nat /\ b + j \in b .. b + k - 1
      <4>1. b + j \in DOMAIN dir
        BY <1>9 DEF Spelled
      <4>2. j \in Int /\ 0 <= j /\ j <= k - 1
        BY <2>1
      <4> QED BY <1>1, <2>1, <4>1, <4>2
    <3>2. b + j \in l .. s => b = l /\ b + Len(name) = s
      BY <1>9, <2>1, <3>1 DEF Frees
    <3> QED BY <1>2, <1>9, <2>1, <3>1, <3>2
  <2>3. \A j \in 0 .. k - 1 : b + j \in DOMAIN dir' /\ dir'[b + j] = dir[b + j]
    BY <1>3, <2>2
  <2> QED BY <1>9, <2>1, <2>3, SpelledStays
<1>10. ShortEntries'
  <2> SUFFICES ASSUME NEW i \in 1 .. z, dir'[i].kind = "sfn"
               PROVE  /\ dir'[i].name \in made'
                      /\ IF dir'[i].name \in LongNames
                         THEN /\ WholeRun(dir', i - Len(dir'[i].name), dir'[i].name)
                              /\ dir'[i].alias.number # 0
                         ELSE dir'[i].alias = AsAlias(dir'[i].name)
    BY <1>3 DEF ShortEntries
  <2> DEFINE name == dir[i].name
             b == i - Len(name)
  <2>1. dir'[i] = dir[i] /\ i \notin l .. s /\ i \in DOMAIN dir /\ dir[i].kind = "sfn"
    BY <1>1, <1>5
  <2>2. /\ name \in made
        /\ IF name \in LongNames THEN WholeRun(dir, b, name) /\ dir[i].alias.number # 0
           ELSE dir[i].alias = AsAlias(name)
    BY <2>1 DEF FatInv, ShortEntries
  <2>3. i # s /\ s \in DOMAIN dir
    BY <1>1, <1>2, <2>1
  <2>4. name # dir[s].name
    BY <1>2, <2>1, <2>3 DEF FatInv, OneEach
  <2>5. name \in made'
    BY <2>2, <2>4
  <2>6. name \in LongNames => WholeRun(dir', b, name)
    <3> SUFFICES ASSUME name \in LongNames PROVE WholeRun(dir', b, name)
      OBVIOUS
    <3>1. Len(name) \in Nat \ {0} /\ 0 \in 0 .. Len(name) - 1 /\ b + 0 = b /\ b + Len(name) = i
      BY NameIs
    <3>2. WholeRun(dir, b, name)
      BY <2>2
    <3> HIDE DEF b, name
    <3>3. b \in 1 .. z
      BY <1>1, <3>1, <3>2 DEF WholeRun, Spelled
    <3>4. i \in b .. b + Len(name)
      BY <3>1, <3>3
    <3> QED BY <1>8, <2>1, <3>2, <3>3, <3>4
  <2>7. dir'[i].name = name
    BY <2>1
  <2>8. dir'[i].alias = dir[i].alias
    BY <2>1
  <2> HIDE DEF b
  <2>9. b = i - Len(dir'[i].name)
    BY <2>7 DEF b
  <2> HIDE DEF name
  <2> QED BY <2>2, <2>5, <2>6, <2>7, <2>8, <2>9
<1>11. OneEach'
  <2>1. ASSUME NEW i \in DOMAIN dir', NEW j \in DOMAIN dir', dir'[i].kind = "sfn",
               dir'[j].kind = "sfn", dir'[i].name = dir'[j].name
        PROVE  i = j
    <3>1. dir'[i] = dir[i] /\ dir'[j] = dir[j] /\ i \in DOMAIN dir /\ j \in DOMAIN dir
      BY <1>1, <1>3, <1>5, <2>1
    <3> QED BY <2>1, <3>1 DEF FatInv, OneEach
  <2>2. ASSUME NEW other \in made' PROVE \E i \in DOMAIN dir' : dir'[i].kind = "sfn" /\ dir'[i].name = other
    <3>1. PICK i \in DOMAIN dir : dir[i].kind = "sfn" /\ dir[i].name = other
      BY <2>2 DEF FatInv, OneEach
    <3>2. i # s
      BY <2>2, <3>1
    <3>3. i \notin l .. s
      BY <3>1, <3>2 DEF Frees
    <3>4. dir'[i] = dir[i] /\ i \in DOMAIN dir'
      BY <1>1, <1>3, <3>3
    <3> QED BY <3>1, <3>4
  <2> QED BY <2>1, <2>2 DEF OneEach
<1>12. LongEntries'
  <2> SUFFICES ASSUME NEW i \in 1 .. z, dir'[i].kind = "lfn"
               PROVE  \E b \in 1 .. z, name \in LongNames :
                        InRun(dir', b, name, i) \/ CutAt(dir', b, name, i, cut')
    BY <1>3 DEF LongEntries
  <2>1. dir'[i] = dir[i] /\ i \notin l .. s /\ i \in DOMAIN dir /\ dir[i].kind = "lfn"
    BY <1>1, <1>5
  <2>2. PICK b \in DOMAIN dir, name \in LongNames :
          InRun(dir, b, name, i) \/ CutAt(dir, b, name, i, cut)
    BY <2>1 DEF FatInv, LongEntries
  <2>3. b \in 1 .. z /\ Len(name) \in Nat
    BY <1>1, NameIs
  <2>4. InRun(dir, b, name, i) => InRun(dir', b, name, i)
    <3> SUFFICES ASSUME InRun(dir, b, name, i) PROVE InRun(dir', b, name, i)
      OBVIOUS
    <3>1. WholeRun(dir, b, name) /\ i \in b .. b + Len(name) - 1 /\ i \in b .. b + Len(name)
      BY <2>3 DEF InRun
    <3> QED BY <1>8, <2>1, <2>3, <3>1 DEF InRun
  <2>5. CutAt(dir, b, name, i, cut) => CutAt(dir', b, name, i, cut')
    BY <1>9, <2>1, <2>3 DEF CutAt
  <2> QED BY <2>2, <2>3, <2>4, <2>5
<1> QED BY <1>6, <1>7, <1>10, <1>11, <1>12 DEF FatInv

(* What a search hits is freed apart from every other run.                   *)
LEMMA HitIsApart ==
  ASSUME FatInv, NEW name \in LongNames, NEW hit, Hit(hit, Len(dir), name)
  PROVE  Frees(hit.lfn, hit.sfn)
<1> DEFINE l == hit.lfn
           s == hit.sfn
           len == Len(name)
<1>1. PICK z \in Nat \ {0} : DOMAIN dir = 1 .. z /\ Len(dir) = z
  BY ShapeIs DEF FatInv
<1>2. len \in Nat \ {0} /\ len \in Int
  BY NameIs
<1>3. /\ l \in 1 .. z /\ s \in 1 .. z /\ s = l + len /\ Spelled(dir, l, name, len)
      /\ dir[s].kind = "sfn"
  BY <1>1, <1>2 DEF Hit
<1> HIDE DEF l, s, len
<1>4. ASSUME NEW i \in l .. s, i # s PROVE i \in l .. l + len - 1 /\ dir[i].kind # "sfn"
  <2>1. i - l \in 0 .. len - 1 /\ l + (i - l) = i /\ i \in l .. l + len - 1
    BY <1>1, <1>2, <1>3, <1>4
  <2>2. IsPart(dir, i, name, Len(name) - (i - l))
    BY <1>3, <2>1 DEF Spelled
  <2> QED BY <2>1, <2>2 DEF IsPart
<1>5. ASSUME NEW b \in 1 .. z, NEW other \in LongNames, NEW k \in 1 .. Len(other),
             Spelled(dir, b, other, k), NEW i \in b .. b + k - 1, i \in l .. s
      PROVE  b = l /\ b + Len(other) = s
  <2>1. Len(other) \in Nat /\ k \in Int /\ 0 < k /\ b \in Int /\ l \in Int /\ i \in Int
        /\ len \in Nat /\ Len(name) \in Nat /\ len = Len(name) /\ 0 < len
    BY <1>1, <1>2, <1>3, NameIs DEF len
  <2>2. dir[i].kind = "lfn"
    <3>1. i - b \in 0 .. k - 1 /\ b + (i - b) = i
      BY <2>1
    <3> QED BY <1>5, <3>1 DEF Spelled, IsPart
  <2>3. i \in l .. l + len - 1
    BY <1>3, <1>4, <1>5, <2>2
  <2>4. b = l
    BY <1>2, <1>3, <1>5, <2>1, <2>3, OneStart
  <2>5. Opening(dir, b, other)
    BY <1>5, <2>1, OpensWith
  <2>6. Opening(dir, l, name)
    BY <1>2, <1>3, <2>1, OpensWith
  <2> QED BY <1>3, <2>1, <2>4, <2>5, <2>6 DEF Opening
<1>6. ASSUME NEW b \in 1 .. z, NEW other \in LongNames, WholeRun(dir, b, other),
             b + Len(other) \in l .. s
      PROVE  b = l /\ b + Len(other) = s
  <2> DEFINE i == b + Len(other)
  <2>1. Len(other) \in Nat \ {0} /\ Len(other) \in 1 .. Len(other) /\ b \in Int
    BY NameIs
  <2>2. dir[i].kind = "sfn"
    BY <1>6 DEF WholeRun
  <2>3. i = s
    BY <1>4, <1>6, <2>2
  <2>4. i - 1 \in b .. b + Len(other) - 1 /\ i - 1 \in l .. s
    BY <1>2, <1>3, <2>1, <2>3
  <2> QED BY <1>5, <1>6, <2>1, <2>4 DEF WholeRun
<1>7. ASSUME NEW b \in DOMAIN dir, NEW other \in LongNames, NEW i \in Nat,
             \/ \E k \in 1 .. Len(other) : Spelled(dir, b, other, k) /\ i \in b .. b + k - 1
             \/ WholeRun(dir, b, other) /\ i = b + Len(other),
             i \in l .. s
      PROVE  b = l /\ b + Len(other) = s
  BY <1>1, <1>5, <1>6, <1>7
<1>8. Frees(l, s)
  BY <1>1, <1>2, <1>3, <1>4, <1>7 DEF Frees
<1> QED BY <1>8 DEF l, s

LEMMA AliasIsApart ==
  ASSUME FatInv, NEW name \in ShortNames, NEW s \in DOMAIN dir, dir[s].kind = "sfn",
         dir[s].alias = AsAlias(name)
  PROVE  Frees(s, s)
<1>1. PICK z \in Nat \ {0} : DOMAIN dir = 1 .. z /\ Len(dir) = z
  BY ShapeIs DEF FatInv
<1>2. \A i \in s .. s : i = s
  BY <1>1
<1>3. ASSUME NEW b \in 1 .. z, NEW other \in LongNames, NEW k \in 1 .. Len(other),
             Spelled(dir, b, other, k), s \in b .. b + k - 1
      PROVE  FALSE
  <2>1. Len(other) \in Nat /\ k \in Int /\ b \in Int /\ s \in Int
    BY <1>1, NameIs
  <2>2. s - b \in 0 .. k - 1 /\ b + (s - b) = s
    BY <1>3, <2>1
  <2> QED BY <1>3, <2>2 DEF Spelled, IsPart
<1>4. ASSUME NEW b \in 1 .. z, NEW other \in LongNames, WholeRun(dir, b, other), s = b + Len(other)
      PROVE  FALSE
  <2>1. dir[s].name = other
    BY <1>4 DEF WholeRun
  <2>2. dir[s].alias.number # 0
    BY <2>1 DEF FatInv, ShortEntries
  <2> QED BY <2>2 DEF AsAlias
<1> QED BY <1>1, <1>2, <1>3, <1>4 DEF Frees

LEMMA FatRemoveKeeps ==
  ASSUME FatInv, NEW name \in LongNames \cup ShortNames, fat_remove(name)
  PROVE  FatInv'
<1> DEFINE hit == fat_finddirentry(name)
<1>1. /\ hit.sfn # NoEntry /\ dir' = Emptied(hit.lfn, hit.sfn)
      /\ made' = made \ {dir[hit.sfn].name} /\ cut' = cut
  BY DEF fat_remove, fat_freedirentry
<1>2. Frees(hit.lfn, hit.sfn)
  <2>1. CASE name \in LongNames
    <3>1. hit = fat_findlfnentry(name)
      BY <2>1 DEF fat_finddirentry
    <3>2. Hit(hit, Len(dir), name)
      BY <1>1, <2>1, <3>1, LfnHits DEF FatInv
    <3> HIDE DEF hit
    <3> QED BY <2>1, <3>2, HitIsApart
  <2>2. CASE name \notin LongNames
    <3>1. hit = fat_findsfnentry(AsAlias(name), DOMAIN dir) /\ DOMAIN dir \in SUBSET DOMAIN dir
      BY <2>2 DEF fat_finddirentry
    <3> HIDE DEF hit
    <3>2. hit.sfn \in DOMAIN dir /\ hit.lfn = hit.sfn /\ dir[hit.sfn].kind = "sfn"
          /\ dir[hit.sfn].alias = AsAlias(name)
      BY <1>1, <3>1, AliasSearch DEF FatInv
    <3> QED BY <2>2, <3>2, AliasIsApart
  <2> QED BY <2>1, <2>2
<1>3. PICK l, s : l = hit.lfn /\ s = hit.sfn
  OBVIOUS
<1> HIDE DEF hit
<1> QED BY <1>1, <1>2, <1>3, FreedKeeps

LEMMA FatStarts == FatInit => FatInv
<1> SUFFICES ASSUME FatInit PROVE FatInv
  OBVIOUS
<1>1. dir = [i \in 1 .. PerCluster |-> End] /\ made = {}
  BY DEF FatInit
<1>2. End.kind = "end"
  BY DEF End
<1>3. 1 \in 1 .. Clusters /\ 1 * PerCluster = PerCluster
  BY FatAssumption
<1> HIDE DEF End
<1>4. DOMAIN dir = 1 .. PerCluster /\ \A i \in DOMAIN dir : dir[i] = End
  BY <1>1
<1>5. dir = [i \in DOMAIN dir |-> dir[i]]
  BY <1>1, <1>4
<1>6. FatShape
  BY <1>1, <1>2, <1>3, <1>4, <1>5 DEF FatShape, EntryKinds
<1> QED BY <1>1, <1>2, <1>4, <1>6 DEF FatInv, EndsLast, ShortEntries, OneEach, LongEntries

LEMMA FatStep == FatInv /\ [FatNext]_fatVars => FatInv'
<1> SUFFICES ASSUME FatInv, [FatNext]_fatVars PROVE FatInv'
  OBVIOUS
<1>1. CASE UNCHANGED fatVars
  BY <1>1, ZenonT(60) DEF FatInv, FatShape, EndsLast, ShortEntries, OneEach, LongEntries, fatVars
<1>2. CASE FatNext
  <2>1. PICK name \in LongNames \cup ShortNames :
          Extends(name) \/ fat_dircreate(name) \/ PowerFails(name) \/ fat_remove(name)
    BY <1>2 DEF FatNext
  <2> QED BY <2>1, ExtendsKeeps, CreateKeeps, CutKeeps, FatRemoveKeeps
<1> QED BY <1>1, <1>2

LEMMA FatIsTyped == FatInv => FatTypeOK
<1> SUFFICES ASSUME FatInv PROVE FatTypeOK
  OBVIOUS
<1>1. PICK c \in 1 .. Clusters : DOMAIN dir = 1 .. c * PerCluster
  BY DEF FatInv, FatShape
<1>2. PICK z \in Nat \ {0} : DOMAIN dir = 1 .. z /\ Len(dir) = z
  BY ShapeIs DEF FatInv
<1>3. z = c * PerCluster
  <2> DEFINE size == c * PerCluster
  <2>1. size \in Nat \ {0} /\ 1 .. size = 1 .. z
    BY <1>1, <1>2, FatAssumption
  <2> HIDE DEF size
  <2>2. size \in 1 .. z /\ z \in 1 .. size
    BY <1>2, <2>1
  <2>3. size = z
    BY <1>2, <2>1, <2>2
  <2> QED BY <2>3 DEF size
<1> QED BY <1>2, <1>3 DEF FatInv, FatShape, FatTypeOK, EntryKinds

(* What the runs promise, from the invariant: where no cut hides the name,   *)
(* and where one does.                                                       *)
LEMMA FoundUnhidden ==
  ASSUME FatInv, NEW name \in LongNames \cup ShortNames, ~Hidden(name)
  PROVE  LET found == fat_finddirentry(name) IN
         /\ name \in made <=> found.sfn # NoEntry
         /\ name \in made => dir[found.sfn].name = name
         /\ name \in LongNames => (name \in made <=> name \in Listed)
<1>1. CASE name \in LongNames
  <2>1. fat_finddirentry(name) = fat_findlfnentry(name)
    BY <1>1 DEF fat_finddirentry
  <2>2. name \in made <=> name \in Listed
    BY <1>1, ListedAre
  <2> QED BY <1>1, <2>1, <2>2, LongFound
<1>2. CASE name \notin LongNames
  <2>1. fat_finddirentry(name) = fat_findsfnentry(AsAlias(name), DOMAIN dir)
    BY <1>2 DEF fat_finddirentry
  <2> QED BY <1>2, <2>1, ShortFound
<1> QED BY <1>1, <1>2

LEMMA FoundHidden ==
  ASSUME FatInv, NEW name \in LongNames \cup ShortNames, NEW hit, hit = fat_finddirentry(name),
         hit.sfn # NoEntry, dir[hit.sfn].name # name
  PROVE  fat_lfnchecksum(dir[hit.sfn].alias) = dir[hit.lfn].sum
<1>1. name \in LongNames
  <2> SUFFICES ASSUME name \notin LongNames PROVE FALSE
    OBVIOUS
  <2>1. hit = fat_findsfnentry(AsAlias(name), DOMAIN dir)
    BY DEF fat_finddirentry
  <2> QED BY <2>1, ShortFound
<1>2. hit = fat_findlfnentry(name)
  BY <1>1 DEF fat_finddirentry
<1>3. Hit(hit, Len(dir), name)
  BY <1>1, <1>2, LfnHits DEF FatInv
<1> QED BY <1>3 DEF Hit

LEMMA FatFinds == FatInv => NamesAreFound
<1> SUFFICES ASSUME FatInv, NEW name \in LongNames \cup ShortNames
             PROVE  LET found == fat_finddirentry(name) IN
                    /\ ~Hidden(name) =>
                         /\ name \in made <=> found.sfn # NoEntry
                         /\ name \in made => dir[found.sfn].name = name
                         /\ name \in LongNames => (name \in made <=> name \in Listed)
                    /\ found.sfn # NoEntry /\ dir[found.sfn].name # name =>
                         fat_lfnchecksum(dir[found.sfn].alias) = dir[found.lfn].sum
  BY DEF NamesAreFound
<1> QED BY FoundUnhidden, FoundHidden

(* For any names, however many values a checksum has and whenever the power  *)
(* was lost: every name is found that was created, at its own file, unless   *)
(* the parts of a name that was cut hide it.                                 *)
THEOREM NamesStayFound == FatSpec => []NamesAreFound
BY FatStarts, FatStep, FatFinds, PTL DEF FatSpec

-----------------------------------------------------------------------------
(* The card of the other board. *)
LEMMA MediaStarts == MediaInit => MediaTypeOK
<1> SUFFICES ASSUME MediaInit PROVE MediaTypeOK
  OBVIOUS
<1>1. moves \in 0 .. CardMoves
  BY MediaConstants DEF MediaInit
<1> QED BY <1>1, Zenon DEF MediaInit, MediaTypeOK

LEMMA MediaStep == MediaTypeOK /\ [MediaNext]_mediavars => MediaTypeOK'
<1> SUFFICES ASSUME MediaTypeOK, [MediaNext]_mediavars PROVE MediaTypeOK'
  OBVIOUS
<1> USE MediaConstants DEF MediaTypeOK
<1>1. \A present \in BOOLEAN : {EventOf(present)} \in SUBSET MediaEvents
  BY DEF EventOf, MediaEvents
<1>2. CASE sdmmc_initialize \/ attach \/ registercallback
  BY <1>2, Zenon DEF sdmmc_initialize, attach, registercallback, NoRead
<1>3. CASE callbackenable
  BY <1>1, <1>3, Zenon DEF callbackenable, NoRead
<1>4. CASE card_interrupt
  BY <1>4, Zenon DEF card_interrupt
<1>5. CASE work
  BY <1>5, Zenon DEF work, NoRead
<1>6. CASE MoveCard
  <2>1. moves' \in 0 .. CardMoves
    BY <1>6 DEF MoveCard
  <2>2. slot' \in BOOLEAN
    BY <1>6, Zenon DEF MoveCard
  <2> QED BY <1>6, <2>1, <2>2, Zenon DEF MoveCard
<1>7. ASSUME NEW r \in Readers, ReadsStatus(r) PROVE MediaTypeOK'
  <2>1. \A step \in {"pin", "store", "load", "again", "give"} :
           GoesTo(r, step) => reading' \in [Readers -> {"pin", "store", "load", "again", "give"}]
    BY Zenon DEF GoesTo
  <2>2. seen[r] \in BOOLEAN
    BY <1>7, Zenon
  <2>3. CASE status_load(r)
    BY <2>1, <2>3, Zenon DEF status_load
  <2>4. CASE status_store(r)
    <3>1. missed' \in {"no", "absorbed", "overwritten"}
      BY <2>4, Zenon DEF status_store, Loses
    <3> QED BY <2>1, <2>2, <2>4, <3>1, Zenon DEF status_store
  <2>5. CASE status(r)
    BY <2>1, <2>5, Zenon DEF status
  <2> QED BY <1>7, <2>3, <2>4, <2>5 DEF ReadsStatus
<1>8. CASE UNCHANGED mediavars
  BY <1>8, Zenon DEF mediavars
<1> QED BY <1>2, <1>3, <1>4, <1>5, <1>6, <1>7, <1>8 DEF MediaNext, DriverStep, Readers

-----------------------------------------------------------------------------
(* The parts side by side.  Each of them begins as it does alone, and every  *)
(* step of the whole is a step or a stutter of each part.                    *)
PartsBegin ==
  /\ TransferInit /\ BringInit /\ ScanInit
  /\ FtpInit /\ ServerInit /\ PathInit /\ FatInit /\ NtpInit
  /\ SdmmcInit /\ MediaInit /\ CameraInit /\ PoolInit

PartsStep ==
  /\ [TransferNext]_transferVars /\ [BringNext]_bringVars /\ [ScanNext]_scanVars
  /\ [FtpNext]_ftpVars /\ [ServerNext]_serverVars /\ [PathNext]_pathVars
  /\ [FatNext]_fatVars /\ [NtpNext]_ntpVars
  /\ [SdmmcNext]_sdvars /\ [MediaNext]_mediavars /\ [CameraNext]_cameravars
  /\ [PoolNext]_poolVars /\ [Search]_searchVars /\ [RowsNext]_rowVars

LEMMA Start == Init => PartsBegin
BY DEF Init, PartsBegin

LEMMA TakeTurns == [Next]_<<turn, wifi, serves, boards, loops>> => PartsStep
BY DEF Next, PartsStep, wifi, serves, boards, loops

(* The invariants of the parts.                                              *)
PartsHold ==
  /\ TransferInv /\ BringInv /\ ScanTypes /\ Union(table, last)
  /\ ServerInv /\ PathInv /\ FatInv /\ NtpInv
  /\ SdInv /\ MediaTypeOK /\ CamInv /\ PoolTypes

LEMMA PartsStart == PartsBegin => PartsHold
BY InitTransferInv, BringStarts, ScanStarts, ServerInitHolds, PathStart, FatStarts,
   NtpInitHolds, SdStarts, MediaStarts, CameraStarts, InitPoolTypes
   DEF PartsBegin, PartsHold

LEMMA PartsKeep == PartsHold /\ PartsStep => PartsHold'
<1> SUFFICES ASSUME PartsHold, PartsStep PROVE PartsHold'
  OBVIOUS
<1>1. TransferInv' /\ BringInv'
  BY TransferInvKept, BringStep DEF PartsHold, PartsStep
<1>2. ScanTypes' /\ Union(table, last)'
  BY ScanStep DEF PartsHold, PartsStep
<1>3. ServerInv' /\ PathInv' /\ FatInv' /\ NtpInv'
  BY ServerStep, PathStep, FatStep, NtpStep DEF PartsHold, PartsStep
<1>4. SdInv' /\ MediaTypeOK' /\ CamInv'
  BY SdStep, MediaStep, CameraKeeps DEF PartsHold, PartsStep
<1>5. PoolTypes'
  BY PoolTypesKept DEF PartsHold, PartsStep
<1> QED BY <1>1, <1>2, <1>3, <1>4, <1>5 DEF PartsHold

LEMMA PartsAreTyped ==
  PartsHold => /\ TransferTypeOK /\ ServerTypeOK /\ PathTypeOK /\ FatTypeOK /\ SdmmcTypeOK
               /\ MediaTypeOK /\ CameraTypeOK /\ NtpTypeOK /\ PoolTypeOK /\ CountsExact
<1> SUFFICES ASSUME PartsHold
             PROVE  /\ TransferTypeOK /\ ServerTypeOK /\ PathTypeOK /\ FatTypeOK /\ SdmmcTypeOK
                    /\ MediaTypeOK /\ CameraTypeOK /\ NtpTypeOK /\ PoolTypeOK /\ CountsExact
  OBVIOUS
<1>1. TransferTypeOK
  <2>1. LocksHeld /\ ChipTypes
    BY DEF PartsHold, TransferInv
  <2>2. toggle \in [Endpoints -> {0, 1}] /\ torn \subseteq Endpoints /\ dev \in Chips
    BY DEF PartsHold, TransferInv, IoTypes, ChipTypes
  <2>3. dev.toggle \in [Endpoints -> {0, 1}] /\ dev.left \in 0 .. InPackets
    BY <2>2 DEF Chips
  <2>4. qtd \in [ep : Endpoints, toggle : {0, 1}, packets : 0..2, done : BOOLEAN,
                error : BOOLEAN, met : BOOLEAN, begun : BOOLEAN]
    BY <2>1 DEF ChipTypes, Descriptors
  <2> QED BY <2>1, <2>2, <2>3, <2>4 DEF LocksHeld, Building, OnUsb, TransferTypeOK
<1>2. ServerTypeOK /\ PathTypeOK /\ FatTypeOK
  BY PathsServed, FatIsTyped DEF PartsHold, ServerInv
<1>3. SdmmcTypeOK /\ MediaTypeOK /\ CameraTypeOK
  BY SdIsTyped, CameraIsTyped DEF PartsHold
<1>4. NtpTypeOK /\ PoolTypeOK /\ CountsExact
  BY NtpTyped, PoolTypesGive DEF PartsHold, PoolTypes
<1> QED BY <1>1, <1>2, <1>3, <1>4

(* Side by side the parts keep their types, and the counters of the NPU pool *)
(* agree with it.                                                            *)
THEOREM DevicesAreTyped == ASSUME Patient PROVE Spec => []TypesOK
<1>1. FtpInit => FtpInv
  BY FtpStarts
<1>2. FtpInv /\ [FtpNext]_ftpVars => FtpInv'
  BY FtpKeeps
<1>3. PartsBegin => FtpInit
  BY DEF PartsBegin
<1>4. PartsStep => [FtpNext]_ftpVars
  BY DEF PartsStep
<1>5. PartsHold /\ FtpInv => TypesOK
  BY PartsAreTyped, FtpIsTyped DEF TypesOK
<1> QED BY <1>1, <1>2, <1>3, <1>4, <1>5, Start, TakeTurns, PartsStart, PartsKeep, PTL DEF Spec

(* A path of an FTP client is served below the root, at the place it means.  *)
THEOREM ServedInside == Spec => []PathsAreServed
<1>1. PartsHold => PathsAreServed
  BY PathsServed DEF PartsHold, PathsAreServed
<1> QED BY <1>1, Start, TakeTurns, PartsStart, PartsKeep, PTL DEF Spec

(* Side by side, each part keeps what it promises: frames arrive, wlan0 is   *)
(* there only over a radio that was brought up, an interrupted upload        *)
(* resumes, the accounts outlive the workers, an SD transfer that is         *)
(* reported moved its words, captures write into frames of their own, names  *)
(* are found in their directory, and the NPU pool loses nothing.             *)
THEOREM DevicesStaySafe ==
  ASSUME Patient, MaxGeneration < HandleSpan
  PROVE  Spec => [](FramesArrive /\ BroughtUp /\ FtpResumes /\ AccountsOutlive
                    /\ NamesAreFound /\ SdTransfers /\ CameraSound /\ PoolIntact)
<1>1. PartsBegin => Younger /\ FtpInv
  BY FtpStarts DEF PartsBegin, PoolInit, Younger
<1>2. PartsHold /\ Younger /\ PartsStep => Younger'
  BY StepAges DEF PartsHold, PoolTypes, PartsStep
<1>3. FtpInv /\ PartsStep => FtpInv'
  BY FtpKeeps DEF PartsStep
<1>4. PartsHold => FramesArrive /\ BroughtUp /\ AccountsOutlive
  BY AllCounted, BringIsSound, ServerIsSound DEF PartsHold
<1>5. PartsHold => NamesAreFound /\ SdTransfers /\ CameraSound
  BY FatFinds, SdIsHonest, CameraIsSound DEF PartsHold
<1>6. PartsHold /\ Younger => PoolIntact
  BY OldIsRefused DEF PartsHold, PoolTypes, PoolInv, PoolIntact
<1> QED
  BY <1>1, <1>2, <1>3, <1>4, <1>5, <1>6, FtpResumesIs, Start, TakeTurns, PartsStart, PartsKeep, PTL
     DEF Spec

(* On its turn, a search finds the first run of free pages, and each row of  *)
(* a divided matrix is computed by one worker.                               *)
LoopsHold == (turn = "search" => ScanInv) /\ (turn = "rows" => Inv)

THEOREM LoopsAreRight ==
  Spec => []((turn = "search" => FindsFirstFit) /\ (turn = "rows" => EveryRowOnce))
<1>1. Init => LoopsHold
  BY InitScanInv, InitInv DEF Init, LoopsHold
<1>2. [Next]_<<turn, wifi, serves, boards, loops>> => turn' = turn
  BY DEF Next
<1>3. LoopsHold /\ turn' = turn /\ PartsStep => LoopsHold'
  BY NextScanInv, NextInv DEF LoopsHold, PartsStep
<1>4. LoopsHold => (turn = "search" => FindsFirstFit) /\ (turn = "rows" => EveryRowOnce)
  BY Found, AllGiven DEF LoopsHold
<1> QED BY <1>1, <1>2, <1>3, <1>4, TakeTurns, PTL DEF Spec

(* And in each step: the choice among the networks is sound, the clock is    *)
(* moved safely, and the buffer of the executing command stays.              *)
THEOREM DevicesStepSafely == Spec => ScanIsSound /\ ClockIsSafe /\ ProtectedStays
<1>1. PartsHold => TableIsUnion /\ OffsetIsMedian
  BY UnionIs, NtpOffsets DEF PartsHold
<1>2. PartsHold /\ PartsStep => SoundChoice /\ StopMeansStopped
  BY ChoiceIsSound, NtpStops DEF PartsHold, PartsStep
<1>3. PartsHold /\ PartsStep =>
        [\A s \in Live : Handle(s) = inflight =>
           UNCHANGED <<owner[s], first[s], count[s]>>]_poolVars
  BY ProtectionStep DEF PartsHold, PoolTypes, PartsStep
<1> QED
  BY <1>1, <1>2, <1>3, Start, TakeTurns, PartsStart, PartsKeep, PTL
     DEF Spec, ScanIsSound, ClockIsSafe, ProtectedStays
=============================================================================
