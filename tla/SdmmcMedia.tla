---------------------------- MODULE SdmmcMedia ----------------------------
(***************************************************************************)
(* The card of the RV1103 board comes and goes (rv1103_sdmmc.c): the       *)
(* debounced card-detect interrupt, the status the driver keeps, and the   *)
(* callback the upper half asks for, one event at a time.                  *)
(*                                                                         *)
(* rv1103_status is called by the upper half and by the board code, which  *)
(* may overlap, and takes no lock: it reads the pin, stores what it saw,   *)
(* and then loads and stores the status again for its other bit.  The      *)
(* interrupt can fall between any two of these steps.                      *)
(*                                                                         *)
(* The upper half is external and does what the comments of callbackenable *)
(* and registercallback ask of it: when it is called back it reads the     *)
(* status, takes or drops the card, and asks for the opposite event.       *)
(***************************************************************************)
EXTENDS Naturals

CONSTANT CardMoves     \* times the card is pushed in or pulled out

ASSUME MediaConstants == CardMoves \in Nat

VARIABLES slot,      \* TRUE while a card is in the slot
          moves,     \* how often it was moved
          cdet,      \* the card-detect interrupt is pending
          cdstatus,  \* what the driver believes
          cbevents,  \* the event the upper half waits for
          cbwork,    \* the callback is queued for the work thread
          upper,     \* step of the upper half
          known,     \* what the upper half believes
          board,     \* how far the board code is
          reading,   \* the step of rv1103_status each of the two is at
          seen,      \* the presence bit it holds there
          missed     \* how a read of the status lost a move of the card, until it is made good

mediavars == <<slot, moves, cdet, cdstatus, cbevents, cbwork, upper, known, board,
               reading, seen, missed>>

MediaEvents == {"INSERTED", "EJECTED"}
Readers == {"upper", "board"}

MediaTypeOK ==
    /\ slot \in BOOLEAN /\ cdet \in BOOLEAN /\ cdstatus \in BOOLEAN /\ cbwork \in BOOLEAN
    /\ known \in BOOLEAN /\ missed \in {"no", "absorbed", "overwritten"}
    /\ moves \in 0..CardMoves
    /\ cbevents \in SUBSET MediaEvents
    /\ upper \in {"initialize", "attach", "register", "look", "ask", "rest"}
    /\ board \in {"unbound", "bound", "read"}
    /\ reading \in [Readers -> {"pin", "store", "load", "again", "give"}]
    /\ seen \in [Readers -> BOOLEAN]

MediaInit ==
    /\ slot \in BOOLEAN
    /\ moves = 0 /\ cdet = FALSE /\ cdstatus = FALSE /\ cbevents = {} /\ cbwork = FALSE
    /\ upper = "initialize" /\ known = FALSE /\ board = "unbound" /\ missed = "no"
    /\ reading = [r \in Readers |-> "pin"] /\ seen = [r \in Readers |-> FALSE]

\* What a step of no reader leaves alone.
NoRead == UNCHANGED <<reading, seen, missed>>

-----------------------------------------------------------------------------
\* The event the driver's present belief amounts to.
EventOf(present) == IF present THEN "INSERTED" ELSE "EJECTED"

\* rv1103_reset: nothing is believed of the card, pending interrupts are
\* dropped, and rv1103_sdmmc_initialize hands the controller on if the reset
\* bits cleared.
sdmmc_initialize ==
    /\ upper = "initialize"
    /\ cdstatus' = FALSE /\ cdet' = FALSE
    /\ upper' = "attach"
    /\ NoRead /\ UNCHANGED <<slot, moves, cbevents, cbwork, known, board>>

\* rv1103_attach: pending interrupts dropped, card detection enabled.
attach ==
    /\ upper = "attach"
    /\ cdet' = FALSE
    /\ upper' = "register"
    /\ NoRead /\ UNCHANGED <<slot, moves, cdstatus, cbevents, cbwork, known, board>>

\* rv1103_registercallback: the callback known, no event enabled.
registercallback ==
    /\ upper = "register"
    /\ cbevents' = {}
    /\ upper' = "look"
    /\ NoRead /\ UNCHANGED <<slot, moves, cdet, cdstatus, cbwork, known, board>>

(* A mistake that would be easy to make here; the properties exclude it: an
   event is only enabled, and what happened before it is not looked at. *)
callbackenable_later ==
    /\ upper = "ask"
    /\ cbevents' = {EventOf(~known)} /\ upper' = "rest"
    /\ board' = IF board = "unbound" THEN "bound" ELSE board
    /\ NoRead /\ UNCHANGED <<slot, moves, cdet, cdstatus, cbwork, known>>

\* rv1103_callbackenable: the event enabled; if it is what the driver
\* believes already, rv1103_callback calls the upper half at once.  The
\* first one that is not ends the binding of the slot.
callbackenable ==
    /\ upper = "ask"
    /\ IF EventOf(cdstatus) = EventOf(~known)
       THEN cbevents' = {} /\ upper' = "look" /\ board' = board
       ELSE /\ cbevents' = {EventOf(~known)} /\ upper' = "rest"
            /\ board' = IF board = "unbound" THEN "bound" ELSE board
    /\ NoRead /\ UNCHANGED <<slot, moves, cdet, cdstatus, cbwork, known>>

\* The card-detect part of rv1103_sdmmc_interrupt: a changed belief calls
\* rv1103_callback, which queues the callback if the event is enabled.
card_interrupt ==
    /\ cdet /\ upper \notin {"initialize", "attach"}
    /\ cdet' = FALSE
    /\ cdstatus' = slot
    /\ IF slot # cdstatus /\ EventOf(slot) \in cbevents
       THEN cbevents' = {} /\ cbwork' = TRUE
       ELSE UNCHANGED <<cbevents, cbwork>>
    /\ missed' = IF missed = "absorbed" /\ slot = known THEN "no" ELSE missed
    /\ UNCHANGED <<slot, moves, upper, known, board, reading, seen>>

\* The work thread calls the upper half.
work ==
    /\ cbwork /\ upper = "rest"
    /\ cbwork' = FALSE
    /\ upper' = "look"
    /\ NoRead /\ UNCHANGED <<slot, moves, cdet, cdstatus, cbevents, known, board>>

\* The card is moved; the interrupt follows when the contact has settled.
MoveCard ==
    /\ moves < CardMoves
    /\ moves' = moves + 1
    /\ slot' = ~slot
    /\ cdet' = TRUE
    /\ missed' = IF missed = "overwritten" THEN "no" ELSE missed
    /\ UNCHANGED <<cdstatus, cbevents, cbwork, upper, known, board, reading, seen>>

-----------------------------------------------------------------------------
(* rv1103_status, called by the upper half when it looks, and once by      *)
(* luckfox_sdmmc_initialize, for its message, after the slot was bound.    *)

Calls(r) == IF r = "upper" THEN upper = "look" ELSE board = "bound"

GoesTo(r, step) == reading' = [reading EXCEPT ![r] = step]

\* The pin is read, or, the second time, the status that is stored.
status_load(r) ==
    /\ Calls(r)
    /\ \/ reading[r] = "pin" /\ GoesTo(r, "store") /\ seen' = [seen EXCEPT ![r] = slot]
       \/ reading[r] = "load" /\ GoesTo(r, "again") /\ seen' = [seen EXCEPT ![r] = cdstatus]
    /\ UNCHANGED <<slot, moves, cdet, cdstatus, cbevents, cbwork, upper, known, board, missed>>

\* A store can lose a move of the card: it takes the driver's belief away
\* from what the upper half knows and waits on, so that the interrupt that
\* should tell it finds nothing new; or it puts an old value over what the
\* interrupt has found already.
Loses(r) == IF upper = "rest" /\ ~cbwork /\ seen[r] # known THEN "absorbed"
            ELSE IF seen[r] # slot /\ ~cdet THEN "overwritten"
            ELSE IF missed = "absorbed" THEN "no" ELSE missed

status_store(r) ==
    /\ Calls(r)
    /\ \/ reading[r] = "store" /\ GoesTo(r, "load")
       \/ reading[r] = "again" /\ GoesTo(r, "give")
    /\ cdstatus' = seen[r]
    /\ missed' = Loses(r)
    /\ UNCHANGED <<slot, moves, cdet, cbevents, cbwork, upper, known, board, seen>>

\* The call returns: the upper half believes it, the board code prints it.
status(r) ==
    /\ Calls(r) /\ reading[r] = "give" /\ GoesTo(r, "pin")
    /\ IF r = "upper" THEN known' = cdstatus /\ upper' = "ask" /\ board' = board
                      ELSE board' = "read" /\ UNCHANGED <<known, upper>>
    /\ UNCHANGED <<slot, moves, cdet, cdstatus, cbevents, cbwork, seen, missed>>

ReadsStatus(r) == status_load(r) \/ status_store(r) \/ status(r)

-----------------------------------------------------------------------------
DriverStep == \/ sdmmc_initialize \/ attach \/ registercallback \/ callbackenable
              \/ card_interrupt \/ work \/ ReadsStatus("upper")

MediaNext == DriverStep \/ ReadsStatus("board") \/ MoveCard

\* The threads run on and a pending interrupt is taken; nobody has to move
\* a card.
MediaFair == WF_mediavars(card_interrupt) /\ WF_mediavars(DriverStep)

MediaSpec == MediaInit /\ [][MediaNext]_mediavars /\ MediaFair

-----------------------------------------------------------------------------
\* Once the card rests, the upper half comes to know whether it is there: no
\* move of the card is lost between the interrupt, the belief of the driver
\* and the one event that is enabled, but for the moves that a read of the
\* status by rv1103_status loses, which stores without a lock (Loses).
CardIsKnown == []<>(known = slot \/ missed # "no")
=============================================================================
