----------------------------- MODULE SdmmcWait -----------------------------
(***************************************************************************)
(* One data transfer after another on the SD controller of the RK3506      *)
(* (rk3506_sdmmc.c): the thread that asks (waitenable, the setup of the    *)
(* transfer, the command, eventwait, or cancel), the interrupt handler,    *)
(* the watchdog and the bus master of the controller.                      *)
(*                                                                         *)
(* The handler and the watchdog run with interrupts disabled and are one   *)
(* step each; the thread can be interrupted wherever it is outside a       *)
(* critical section.  A word is the number of the request it belongs to,   *)
(* so that a word left behind by an earlier request can be told apart.     *)
(* The card, the FIFO and the bus master (IDMAC) are external: the card    *)
(* moves one word at a time, may fail, or may say nothing more.  DTO can   *)
(* be raised under DMA while there is still data in the FIFO (the comment  *)
(* at rk3506_sdmmc.c:1221), and a block that ends without its end bit, or  *)
(* whose CRC status the card does not send, raises EBE: the driver enables *)
(* EBE and looks at none.  sd.doubt says which of these happened to the    *)
(* present request, so that the properties can say what they cost.         *)
(***************************************************************************)
EXTENDS Naturals, Sequences, SequencesExt

CONSTANTS Requests,   \* transfers asked for in a behaviour
          XferWords,  \* words of a transfer
          FifoDepth,  \* words the FIFO holds
          EarlyExpiry \* TRUE: the watchdog may expire before the setup is done

ASSUME SdmmcConstants == /\ Requests \in Nat
                         /\ XferWords \in Nat \ {0}
                         /\ FifoDepth \in Nat \ {0}
                         /\ EarlyExpiry \in BOOLEAN

VARIABLES caller,    \* the thread: step, request, kind of transfer, what arrived
          priv,      \* struct rk3506_dev_s: waits, masks, transfer
          waitsem,   \* count of the wait semaphore
          waitwdog,  \* TRUE while the watchdog is armed
          sd         \* the controller and the card

sdvars == <<caller, priv, waitsem, waitwdog, sd>>

SdioEvents == {"TRANSFERDONE", "TIMEOUT", "ERROR"}
DataInts == {"DTO", "RXDR", "TXDR", "ERROR", "DRTO", "EBE"}
RecvMask == {"DTO", "RXDR", "ERROR", "DRTO", "EBE"}
SendMask == {"DTO", "TXDR", "ERROR", "DRTO", "EBE"}
DmaMask  == {"DTO", "ERROR", "DRTO", "EBE"}

\* A request is in doubt: a block ended without its end bit or CRC status, DTO
\* came before the FIFO was empty, or the bus master was started again as it
\* had been stopped in the middle.
Doubts == {"EBE", "early", "reused"}

SdmmcTypeOK ==
    /\ caller \in [pc : {"idle", "enabled", "filled", "setup", "waiting", "refused", "masked"},
                   n : 0..Requests, write : BOOLEAN, dma : BOOLEAN, moved : Seq(1..Requests),
                   said : {"none", "ok", "failed"}]
    /\ priv \in [waitevents : SUBSET SdioEvents, wkupevent : SUBSET SdioEvents,
                 xfrmask : SUBSET DataInts, dmamask : BOOLEAN, dmamode : BOOLEAN,
                 dmafastready : BOOLEAN, remaining : 0..XferWords, wrdir : BOOLEAN]
    /\ waitsem \in 0..Requests
    /\ waitwdog \in BOOLEAN
    /\ sd \in [fifo : Seq(1..Requests), rintsts : SUBSET DataInts, idsts : BOOLEAN,
               engine : {"off", "on", "stuck"}, left : 0..XferWords, doubt : SUBSET Doubts]
    /\ Len(sd.fifo) <= FifoDepth

SdmmcInit ==
    /\ caller = [pc |-> "idle", n |-> 0, write |-> FALSE, dma |-> FALSE,
                 moved |-> <<>>, said |-> "none"]
    /\ priv = [waitevents |-> {}, wkupevent |-> {}, xfrmask |-> {}, dmamask |-> FALSE,
               dmamode |-> FALSE, dmafastready |-> FALSE, remaining |-> 0, wrdir |-> FALSE]
    /\ waitsem = 0 /\ waitwdog = FALSE
    /\ sd = [fifo |-> <<>>, rintsts |-> {}, idsts |-> FALSE, engine |-> "off", left |-> 0,
             doubt |-> {}]

-----------------------------------------------------------------------------
(* Pieces the handler, the watchdog and cancel share.                      *)

\* The bus master is clean when it stops only if it has nothing left to do.
HaltedEngine(s) == IF s.engine = "on" /\ (s.left > 0 \/ s.fifo # <<>> \/ s.idsts)
                   THEN "stuck" ELSE IF s.engine = "on" THEN "off" ELSE s.engine

\* rk3506_dma_stop: the bus master off, its status cleared.
dma_stop(s) == [s EXCEPT !.engine = HaltedEngine(s), !.idsts = FALSE]

\* rk3506_endwait: the watchdog off, the wait closed, the thread woken.
endwait(p, wkupevent) ==
    /\ waitwdog' = FALSE
    /\ priv' = [p EXCEPT !.waitevents = {}, !.wkupevent = wkupevent]
    /\ waitsem' = waitsem + 1

(* A mistake that would be easy to make here; the properties exclude it: a
   bus master that stopped on an error is called ready for reuse as well. *)
TransferEndedReady(p, wkupevent) ==
    [p EXCEPT !.xfrmask = {}, !.dmamask = IF p.dmamode THEN FALSE ELSE @, !.remaining = 0,
              !.dmamode = FALSE, !.dmafastready = IF p.dmamode THEN TRUE ELSE @]

\* The driver's fields once a transfer has ended.
TransferEnded(p, wkupevent) ==
    [p EXCEPT !.xfrmask = {}, !.dmamask = IF p.dmamode THEN FALSE ELSE @, !.remaining = 0,
              !.dmamode = FALSE,
              !.dmafastready = IF p.dmamode THEN wkupevent \cap {"ERROR", "TIMEOUT"} = {} ELSE @]

\* rk3506_endtransfer: every path that ends a transfer comes here.  The
\* thread is woken only if it waits for one of the events.
endtransfer(p, s, wkupevent) ==
    /\ sd' = [(IF p.dmamode THEN dma_stop(s) ELSE s) EXCEPT !.rintsts = {}]
    /\ IF p.waitevents \cap wkupevent # {}
       THEN endwait(TransferEnded(p, wkupevent), wkupevent)
       ELSE priv' = TransferEnded(p, wkupevent) /\ UNCHANGED <<waitsem, waitwdog>>

-----------------------------------------------------------------------------
(* The thread.                                                             *)

\* rk3506_waitenable: the events of the next wait, then the watchdog.
waitenable ==
    /\ caller.pc = "idle" /\ caller.n < Requests
    /\ \E write, dma \in BOOLEAN :
          caller' = [pc |-> "enabled", n |-> caller.n + 1, write |-> write, dma |-> dma,
                     moved |-> <<>>, said |-> "none"]
    /\ priv' = [priv EXCEPT !.waitevents = SdioEvents, !.wkupevent = {}]
    /\ waitwdog' = TRUE
    /\ UNCHANGED <<waitsem, sd>>

\* Words of request n that sendsetup puts into the empty FIFO in advance.
Primed(n) == [i \in 1..(IF XferWords < FifoDepth THEN XferWords ELSE FifoDepth) |-> n]

\* rk3506_recvsetup and rk3506_sendsetup: the FIFO emptied, the bus master
\* off, pending events dropped, the FIFO of a write filled in advance.
PioFilled ==
    /\ ~caller.dma
    /\ priv' = [priv EXCEPT !.wrdir = caller.write, !.dmamode = FALSE, !.dmafastready = FALSE,
                            !.remaining = IF caller.write
                                          THEN XferWords - Len(Primed(caller.n)) ELSE XferWords]
    /\ sd' = [sd EXCEPT !.fifo = IF caller.write THEN Primed(caller.n) ELSE <<>>,
                        !.engine = HaltedEngine(sd), !.rintsts = {}, !.left = 0, !.doubt = {}]

\* rk3506_dmasetup up to the start of the bus master: without a clean last
\* transfer the bus master is reset, and the FIFO is emptied in any case.
DmaFilled ==
    /\ caller.dma
    /\ priv' = [priv EXCEPT !.wrdir = caller.write, !.dmamode = TRUE, !.dmafastready = FALSE,
                            !.remaining = XferWords]
    /\ sd' = [sd EXCEPT !.fifo = <<>>, !.rintsts = {}, !.idsts = FALSE, !.left = 0,
                        !.engine = IF priv.dmafastready THEN @ ELSE "off",
                        !.doubt = IF priv.dmafastready /\ sd.engine # "off"
                                  THEN {"reused"} ELSE {}]

\* A reset that does not end turns a DMA request into programmed I/O.
DmaRefused ==
    /\ caller.pc = "enabled" /\ caller.dma
    /\ caller' = [caller EXCEPT !.dma = FALSE]
    /\ priv' = [priv EXCEPT !.dmafastready = FALSE]
    /\ UNCHANGED <<waitsem, waitwdog, sd>>

FillTransfer ==
    /\ caller.pc = "enabled"
    /\ PioFilled \/ DmaFilled
    /\ caller' = [caller EXCEPT !.pc = "filled", !.moved = <<>>]
    /\ UNCHANGED <<waitsem, waitwdog>>

\* The FIFO reset of programmed I/O does not end: the request fails, and
\* the caller cancels it.
SetupFails ==
    /\ caller.pc = "enabled" /\ ~caller.dma
    /\ caller' = [caller EXCEPT !.pc = "refused"]
    /\ UNCHANGED <<priv, waitsem, waitwdog, sd>>

\* The end of the setup: the bus master started, the interrupts enabled.  One
\* that was stopped in the middle and not reset may not start.
ArmTransfer ==
    /\ caller.pc = "filled"
    /\ caller' = [caller EXCEPT !.pc = "setup"]
    /\ priv' = [priv EXCEPT !.dmamask = IF caller.dma THEN TRUE ELSE @,
                            !.xfrmask = IF caller.dma THEN DmaMask
                                        ELSE IF caller.write THEN SendMask ELSE RecvMask]
    /\ \E engine \in {"on", sd.engine} :
          /\ IF caller.dma THEN engine = "on" \/ sd.engine = "stuck" ELSE engine = sd.engine
          /\ sd' = [sd EXCEPT !.engine = engine]
    /\ UNCHANGED <<waitsem, waitwdog>>

\* rk3506_sendcmd, rk3506_waitresponse and rk3506_recvshortcrc: the card
\* takes the command, and its data phase begins.
CommandTaken ==
    /\ caller.pc = "setup"
    /\ caller' = [caller EXCEPT !.pc = "waiting"]
    /\ sd' = [sd EXCEPT !.left = XferWords]
    /\ UNCHANGED <<priv, waitsem, waitwdog>>

\* The same three, and the CIU, the response or its CRC fails.
CommandFails ==
    /\ caller.pc = "setup"
    /\ caller' = [caller EXCEPT !.pc = "refused"]
    /\ UNCHANGED <<priv, waitsem, waitwdog, sd>>

\* rk3506_cancel, first half: every interrupt disabled.
CancelMasks ==
    /\ caller.pc = "refused"
    /\ caller' = [caller EXCEPT !.pc = "masked"]
    /\ priv' = [priv EXCEPT !.xfrmask = {}, !.dmamask = FALSE]
    /\ UNCHANGED <<waitsem, waitwdog, sd>>

\* rk3506_cancel, second half.  The events of the wait stay as they are.
CancelStops ==
    /\ caller.pc = "masked"
    /\ caller' = [caller EXCEPT !.pc = "idle", !.said = "failed"]
    /\ priv' = [priv EXCEPT !.dmamode = FALSE, !.dmafastready = FALSE, !.remaining = 0]
    /\ sd' = [(IF priv.dmamode THEN dma_stop(sd) ELSE sd) EXCEPT !.rintsts = {}]
    /\ waitwdog' = FALSE
    /\ UNCHANGED waitsem

(* A mistake that would be easy to make here; the properties exclude it: a
   post left by a cancelled request is taken for the end of this one. *)
WokenByAny == TRUE

\* The loop of rk3506_eventwait goes round for a post without an event.
Woken == priv.wkupevent # {}

eventwait ==
    /\ caller.pc = "waiting" /\ waitsem > 0
    /\ waitsem' = waitsem - 1
    /\ IF Woken
       THEN /\ priv' = [priv EXCEPT !.xfrmask = {}, !.dmamask = FALSE]
            /\ caller' = [caller EXCEPT !.pc = "idle",
                             !.said = IF priv.wkupevent \cap {"ERROR", "TIMEOUT"} = {}
                                      THEN "ok" ELSE "failed"]
       ELSE UNCHANGED <<priv, caller>>
    /\ UNCHANGED <<waitwdog, sd>>

-----------------------------------------------------------------------------
(* The watchdog and the interrupt.                                         *)

(* A mistake that would be easy to make here; the properties exclude it: a
   watchdog that finds nothing left to transfer lets the wait go on. *)
eventtimeout_busy ==
    /\ waitwdog
    /\ EarlyExpiry \/ caller.pc \notin {"enabled", "filled"}
    /\ IF "TIMEOUT" \in priv.waitevents /\ priv.remaining > 0
       THEN endtransfer(priv, sd, {"TRANSFERDONE", "TIMEOUT"})
       ELSE waitwdog' = FALSE /\ UNCHANGED <<priv, waitsem, sd>>
    /\ UNCHANGED caller

\* rk3506_eventtimeout.  Under EarlyExpiry the time may run out while the
\* thread is still preparing the transfer.
eventtimeout ==
    /\ waitwdog
    /\ EarlyExpiry \/ caller.pc \notin {"enabled", "filled"}
    /\ IF "TIMEOUT" \in priv.waitevents
       THEN endtransfer(priv, sd, {"TRANSFERDONE", "TIMEOUT"})
       ELSE waitwdog' = FALSE /\ UNCHANGED <<priv, waitsem, sd>>
    /\ UNCHANGED caller

Pending == sd.rintsts \cap priv.xfrmask

\* What the handler has taken out of the FIFO or put into it by programmed
\* I/O: as many words as are there, or fit, and are still wanted.
Drawn == SubSeq(sd.fifo, 1, IF Len(sd.fifo) < priv.remaining THEN Len(sd.fifo)
                            ELSE priv.remaining)
Room == LET free == FifoDepth - Len(sd.fifo)
        IN IF free < priv.remaining THEN free ELSE priv.remaining

\* The copying part of rk3506_sdmmc_interrupt, then what it makes of the
\* pending events: an error, the end of the data, or nothing yet.
Copied(read, filled) ==
    [priv EXCEPT !.remaining = @ - (IF read THEN Len(Drawn) ELSE IF filled THEN Room ELSE 0)]

sdmmc_interrupt ==
    LET filled == ~priv.dmamode /\ "TXDR" \in Pending
        read   == ~priv.dmamode /\ ~filled /\ ~priv.wrdir /\ Pending \cap {"RXDR", "DTO"} # {}
        p      == Copied(read, filled)
        s      == [sd EXCEPT !.rintsts = @ \ Pending,
                             !.fifo = IF read THEN SubSeq(@, Len(Drawn) + 1, Len(@))
                                      ELSE IF filled THEN @ \o [i \in 1..Room |-> caller.n] ELSE @]
    IN /\ Pending # {}
       /\ IF "ERROR" \in Pending THEN endtransfer(p, s, {"TRANSFERDONE", "ERROR"})
          ELSE IF "DRTO" \in Pending THEN endtransfer(p, s, {"TRANSFERDONE", "TIMEOUT"})
          ELSE IF "DTO" \notin Pending
               THEN priv' = p /\ sd' = s /\ UNCHANGED <<waitsem, waitwdog>>
          ELSE IF (p.dmamode /\ ~sd.idsts) \/ (~p.dmamode /\ p.remaining = 0)
               THEN endtransfer(p, s, {"TRANSFERDONE"})
               ELSE endtransfer(p, s, {"TRANSFERDONE", "ERROR"})
       /\ caller' = IF read THEN [caller EXCEPT !.moved = @ \o Drawn] ELSE caller

\* The tail of the handler: an error of the bus master.
IdmacError ==
    /\ Pending = {} /\ sd.idsts /\ priv.dmamode /\ priv.dmamask
    /\ endtransfer(priv, sd, {"TRANSFERDONE", "ERROR"})
    /\ UNCHANGED caller

-----------------------------------------------------------------------------
(* The controller and the card.                                            *)

Driven == /\ sd.left > 0
          /\ UNCHANGED <<priv, waitsem, waitwdog>>

\* A word of a read comes in.  The last one raises DTO; under DMA that may
\* wait until the bus master has emptied the FIFO.
CardSends ==
    /\ Driven /\ ~priv.wrdir /\ Len(sd.fifo) < FifoDepth
    /\ \E over \in BOOLEAN :
          /\ over => sd.left = 1
          /\ sd.left = 1 /\ sd.engine # "on" => over
          /\ sd' = [sd EXCEPT !.fifo = Append(@, caller.n), !.left = @ - 1,
                              !.rintsts = @ \cup {"RXDR"} \cup (IF over THEN {"DTO"} ELSE {}),
                              !.doubt = IF over /\ sd.engine = "on" THEN @ \cup {"early"} ELSE @]
    /\ UNCHANGED caller

\* A word of a write goes out.
CardTakes ==
    /\ Driven /\ priv.wrdir /\ sd.fifo # <<>>
    /\ caller' = [caller EXCEPT !.moved = Append(@, Head(sd.fifo))]
    /\ sd' = [sd EXCEPT !.fifo = Tail(@), !.left = @ - 1,
                        !.rintsts = @ \cup {IF sd.left = 1 THEN "DTO" ELSE "TXDR"}]

\* The bus master moves a word between the FIFO and the caller's memory.
EngineMoves ==
    /\ sd.engine = "on"
    /\ \/ /\ ~priv.wrdir /\ sd.fifo # <<>>
          /\ caller' = [caller EXCEPT !.moved = Append(@, Head(sd.fifo))]
          /\ sd' = [sd EXCEPT !.fifo = Tail(@),
                              !.rintsts = @ \cup IF /\ sd.left = 0 /\ Len(sd.fifo) = 1
                                                    /\ "early" \notin sd.doubt
                                                 THEN {"DTO"} ELSE {}]
       \/ /\ priv.wrdir /\ Len(sd.fifo) < sd.left /\ Len(sd.fifo) < FifoDepth
          /\ sd' = [sd EXCEPT !.fifo = Append(@, caller.n)]
          /\ UNCHANGED caller
    /\ UNCHANGED <<priv, waitsem, waitwdog>>

\* The data phase ends with a CRC error, a start bit error or an overrun,
\* or the controller's own timer of the data phase expires.
CardFails ==
    /\ Driven
    /\ \E why \in {"ERROR", "DRTO"} : sd' = [sd EXCEPT !.left = 0, !.rintsts = @ \cup {why}]
    /\ UNCHANGED caller

\* A block ends without its end bit, or without the CRC status that says the
\* card has written it: the data phase goes on, or is over with or without DTO.
\* The bus master may count it among its card errors (SDMMC_IDSTS_CES).
EndBitFails ==
    /\ Driven
    /\ \E rest \in {0, sd.left}, over \in SUBSET {"DTO"}, summed \in BOOLEAN :
          /\ rest # 0 => over = {}
          /\ summed => sd.engine = "on"
          /\ sd' = [sd EXCEPT !.left = rest, !.rintsts = @ \cup {"EBE"} \cup over,
                              !.idsts = @ \/ summed, !.doubt = @ \cup {"EBE"}]
    /\ UNCHANGED caller

\* The bus master meets an error on the bus.
EngineFails ==
    /\ sd.engine = "on" /\ sd.left > 0 /\ ~sd.idsts
    /\ sd' = [sd EXCEPT !.idsts = TRUE]
    /\ UNCHANGED <<caller, priv, waitsem, waitwdog>>

-----------------------------------------------------------------------------
CallerStep == \/ waitenable \/ DmaRefused \/ FillTransfer \/ SetupFails \/ ArmTransfer
              \/ CommandTaken \/ CommandFails \/ CancelMasks \/ CancelStops \/ eventwait
HandlerStep == sdmmc_interrupt \/ IdmacError
CardStep == CardSends \/ CardTakes \/ EngineMoves \/ CardFails \/ EndBitFails \/ EngineFails

SdmmcNext == CallerStep \/ eventtimeout \/ HandlerStep \/ CardStep

\* The thread runs on, an armed watchdog expires and the handler runs; the
\* card owes nothing.
SdmmcFair == /\ WF_sdvars(CallerStep)
             /\ WF_sdvars(eventtimeout)
             /\ WF_sdvars(HandlerStep)

SdmmcSpec == SdmmcInit /\ [][SdmmcNext]_sdvars /\ SdmmcFair

-----------------------------------------------------------------------------
\* A transfer is reported as done only when no word of another request is
\* where its words belong, and, unless it is in doubt, every one of its words
\* is: whatever an earlier request left in the FIFO, in the status bits or in
\* the semaphore.  A doubt is lost on the driver, which calls a transfer done
\* at DTO after an EBE, and under DMA with data still in the FIFO.
HonestTransfer ==
    caller.said = "ok" =>
        /\ caller.moved = [i \in 1..Len(caller.moved) |-> caller.n]
        /\ Len(caller.moved) <= XferWords
        /\ sd.doubt = {} => Len(caller.moved) = XferWords

\* The bus master is started again without a reset only after a transfer
\* that left it with nothing to do (the comment at rk3506_sdmmc.c:2848), or
\* one that was in doubt and called done.
CleanReuse == priv.dmafastready /\ sd.doubt = {} => sd.engine = "off" /\ sd.fifo = <<>>

\* One request never pays for an earlier one (both of the above).
SdTransfers == HonestTransfer /\ CleanReuse

\* A thread that waits for its transfer is woken, by the end of the data,
\* by an error or by the watchdog.
TransfersEnd == (caller.pc = "waiting") ~> (caller.pc = "idle")

\* The bus master never runs on once the thread has its answer: the comment
\* at rk3506_sdmmc.c:897 says the watchdog "stops IDMAC and prevents a
\* timed-out transfer from leaking into the next filesystem request".
NothingRunsOn == caller.pc = "idle" => sd.engine # "on"
=============================================================================
