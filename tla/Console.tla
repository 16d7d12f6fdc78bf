------------------------------ MODULE Console ------------------------------
(***************************************************************************)
(* The console /dev/a7zconsole (chips/a733/a733_serial.c).  A receive      *)
(* thread takes bytes from the UART and puts them into a ring of 256, with *)
(* one post of g_a733_rxsem for each; readers take one token for each byte *)
(* they remove.  The ring and the foreground command are used in critical  *)
(* sections, the semaphore outside of them, so a byte is in the ring       *)
(* before it is counted, and counted off before it is removed.             *)
(*                                                                         *)
(* A Ctrl+C that arrives while a command has the terminal becomes a SIGINT *)
(* and is not stored.  The first open starts the thread.                   *)
(*                                                                         *)
(* A byte is the number of its arrival among the stored ones.              *)
(***************************************************************************)
EXTENDS Integers, FiniteSets

CONSTANTS Readers,      \* threads that read: NSH and the command it runs
          Size,         \* sizeof(g_a733_rxbuffer), 256
          MaxBytes,     \* bound on the bytes that arrive
          MaxLength,    \* the longest read
          MaxCommands   \* bound on the commands that get the terminal

ASSUME ConsoleAssumption ==
  /\ Size \in Nat /\ Size > 1 /\ MaxBytes \in Nat /\ MaxLength \in Nat
  /\ MaxCommands \in Nat /\ IsFiniteSet(Readers)

VARIABLES
  thread,           \* g_a733_rxpid: "invalid", "running" or "error"
  opened,           \* an open returned OK
  rx, byte,         \* the receive thread: position, byte at hand
  seenCtty,         \* its copy of g_a733_ctty_pid
  ring, head, tail, \* g_a733_rxbuffer, _rxhead, _rxtail
  tokens,           \* the count of g_a733_rxsem
  ctty,             \* g_a733_ctty_pid, 0 for INVALID_PROCESS_ID
  pc, got, length,  \* of each reader: position, nread, buflen
  arrived,          \* bytes that came from the UART
  stored, taken,    \* bytes put into the ring, and removed from it
  commands          \* commands that got the terminal

deviceVars == <<thread, opened>>
rxVars == <<rx, byte, seenCtty, arrived>>
ringVars == <<ring, head, tail, stored, taken>>
readVars == <<pc, got, length>>
cttyVars == <<ctty, commands>>
vars == <<deviceVars, rxVars, ringVars, tokens, readVars, cttyVars>>

Index == 0 .. Size - 1

TypeOK ==
  /\ thread \in {"invalid", "running", "error"} /\ opened \in BOOLEAN
  /\ rx \in {"poll", "read", "signal", "store", "post"}
  /\ byte \in {"text", "interrupt"}
  /\ seenCtty \in 0 .. MaxCommands /\ ctty \in 0 .. MaxCommands
  /\ commands \in 0 .. MaxCommands
  /\ ring \in [Index -> Nat] /\ head \in Index /\ tail \in Index
  /\ tokens \in Nat /\ arrived \in 0 .. MaxBytes
  /\ stored \in Nat /\ taken \in Nat
  /\ pc \in [Readers -> {"idle", "waiting", "take", "more"}]
  /\ got \in [Readers -> Nat] /\ length \in [Readers -> 1 .. MaxLength]

Init ==
  /\ thread = "invalid" /\ opened = FALSE
  /\ rx = "poll" /\ byte = "text" /\ seenCtty = 0 /\ arrived = 0
  /\ ring = [i \in Index |-> 0] /\ head = 0 /\ tail = 0
  /\ stored = 0 /\ taken = 0 /\ tokens = 0
  /\ ctty = 0 /\ commands = 0
  /\ pc = [r \in Readers |-> "idle"] /\ got = [r \in Readers |-> 0]
  /\ length \in [Readers -> 1 .. MaxLength]
-----------------------------------------------------------------------------
(* Opening the device; NSH opens it for each of its three streams.  Only     *)
(* the first call creates the thread, even if that fails.                    *)
OpenFirst ==
  /\ thread = "invalid"
  /\ \/ thread' = "running" /\ opened' = TRUE
     \/ thread' = "error" /\ UNCHANGED opened
  /\ UNCHANGED <<rxVars, ringVars, tokens, readVars, cttyVars>>

OpenAgain ==
  /\ thread # "invalid" /\ opened' = TRUE
  /\ UNCHANGED <<thread, rxVars, ringVars, tokens, readVars, cttyVars>>
-----------------------------------------------------------------------------
(* A mistake that would be easy to make here: the index is not wrapped.      *)
AfterUnwrapped(i) == i + 1

After(i) == (i + 1) % Size

(* The receive thread.                                                       *)
Receive ==
  /\ thread = "running" /\ rx = "poll" /\ arrived < MaxBytes
  /\ arrived' = arrived + 1 /\ byte' \in {"text", "interrupt"} /\ rx' = "read"
  /\ UNCHANGED <<deviceVars, seenCtty, ringVars, tokens, readVars, cttyVars>>

LookAtTerminal ==
  /\ rx = "read" /\ seenCtty' = ctty
  /\ rx' = (IF byte = "interrupt" /\ ctty > 0 THEN "signal" ELSE "store")
  /\ UNCHANGED <<deviceVars, byte, arrived, ringVars, tokens, readVars, cttyVars>>

(* nxsig_tgkill(-1, ctty, SIGINT). *)
Signal ==
  /\ rx = "signal" /\ rx' = "poll"
  /\ UNCHANGED <<deviceVars, byte, seenCtty, arrived, ringVars, tokens, readVars, cttyVars>>

(* Mistakes that would be easy to make here; the properties exclude them:    *)
(* no test for a full ring, or a post only for the first byte of an empty    *)
(* ring.                                                                     *)
StoreOverUnread ==
  /\ rx = "store" /\ rx' = "post"
  /\ ring' = [ring EXCEPT ![head] = stored + 1]
  /\ head' = After(head) /\ stored' = stored + 1
  /\ UNCHANGED <<deviceVars, byte, seenCtty, arrived, tail, taken, tokens, readVars, cttyVars>>

PostIfFirst ==
  /\ rx = "post" /\ rx' = "poll"
  /\ tokens' = (IF After(tail) = head THEN tokens + 1 ELSE tokens)
  /\ UNCHANGED <<deviceVars, byte, seenCtty, arrived, ringVars, readVars, cttyVars>>

Store ==
  /\ rx = "store" /\ After(head) # tail
  /\ ring' = [ring EXCEPT ![head] = stored + 1]
  /\ head' = After(head) /\ stored' = stored + 1
  /\ rx' = "post"
  /\ UNCHANGED <<deviceVars, byte, seenCtty, arrived, tail, taken, tokens, readVars, cttyVars>>

(* The ring is full: the byte is dropped.                                    *)
Drop ==
  /\ rx = "store" /\ After(head) = tail
  /\ rx' = "poll"
  /\ UNCHANGED <<deviceVars, byte, seenCtty, arrived, ringVars, tokens, readVars, cttyVars>>

Post ==
  /\ rx = "post" /\ tokens' = tokens + 1 /\ rx' = "poll"
  /\ UNCHANGED <<deviceVars, byte, seenCtty, arrived, ringVars, readVars, cttyVars>>
-----------------------------------------------------------------------------
(* The readers.                                                              *)
Move(r, from, to) == pc[r] = from /\ pc' = [pc EXCEPT ![r] = to]

(* Without O_NONBLOCK the read waits, with it an empty count is -EAGAIN,     *)
(* which changes nothing.                                                    *)
Read(r) ==
  /\ opened /\ \/ Move(r, "idle", "waiting") /\ UNCHANGED tokens
               \/ tokens > 0 /\ tokens' = tokens - 1 /\ Move(r, "idle", "take")
  /\ got' = [got EXCEPT ![r] = 0]
  /\ \E n \in 1 .. MaxLength : length' = [length EXCEPT ![r] = n]
  /\ UNCHANGED <<deviceVars, rxVars, ringVars, cttyVars>>

Wake(r) ==
  /\ tokens > 0 /\ tokens' = tokens - 1 /\ Move(r, "waiting", "take")
  /\ UNCHANGED <<deviceVars, rxVars, ringVars, got, length, cttyVars>>

(* A token without a byte would end the read with what it has. *)
ReadEnds(r) ==
  /\ head = tail /\ Move(r, "take", "idle") /\ UNCHANGED <<tail, taken, got>>

Removes(r, next) ==
  /\ head # tail /\ Move(r, "take", next)
  /\ tail' = After(tail) /\ taken' = taken + 1
  /\ got' = [got EXCEPT ![r] = @ + 1]

(* A mistake that would be easy to make here; the properties exclude it:     *)
(* all that is in the ring is taken for one token.                           *)
TakeWithoutToken(r) ==
  /\ ReadEnds(r) \/ Removes(r, IF got[r] + 1 >= length[r] THEN "idle" ELSE "take")
  /\ UNCHANGED <<deviceVars, rxVars, ring, head, stored, tokens, length, cttyVars>>

Take(r) ==
  /\ ReadEnds(r) \/ Removes(r, "more")
  /\ UNCHANGED <<deviceVars, rxVars, ring, head, stored, tokens, length, cttyVars>>

More(r) ==
  /\ got[r] < length[r] /\ tokens > 0
  /\ tokens' = tokens - 1 /\ Move(r, "more", "take")
  /\ UNCHANGED <<deviceVars, rxVars, ringVars, got, length, cttyVars>>

Return(r) ==
  /\ got[r] >= length[r] \/ tokens = 0
  /\ Move(r, "more", "idle")
  /\ UNCHANGED <<deviceVars, rxVars, ringVars, tokens, got, length, cttyVars>>
-----------------------------------------------------------------------------
(* NSH gives the terminal to the command it waits for, and takes it back.    *)
Foreground ==
  /\ ctty = 0 /\ commands < MaxCommands
  /\ ctty' = commands + 1 /\ commands' = commands + 1
  /\ UNCHANGED <<deviceVars, rxVars, ringVars, tokens, readVars>>

Background ==
  /\ ctty # 0 /\ ctty' = 0
  /\ UNCHANGED <<deviceVars, rxVars, ringVars, tokens, readVars, commands>>

Receiver == Receive \/ LookAtTerminal \/ Signal \/ Store \/ Drop \/ Post
Reader(r) == Read(r) \/ Wake(r) \/ Take(r) \/ More(r) \/ Return(r)
Next ==
  \/ OpenFirst \/ OpenAgain \/ Foreground \/ Background \/ Receiver
  \/ \E r \in Readers : Reader(r)

Spec == Init /\ [][Next]_vars

(* The threads run on, and somebody reads again and again; the bytes and the *)
(* commands come as they like.                                               *)
FairSpec ==
  /\ Spec /\ WF_vars(OpenFirst)
  /\ WF_vars(LookAtTerminal \/ Signal \/ Store \/ Drop \/ Post)
  /\ \A r \in Readers : WF_vars(Reader(r))
-----------------------------------------------------------------------------
(* A byte that a token stands for is in the ring when the reader removes it: *)
(* no read returns 0, which a shell takes for the end of its input.          *)
NoEmptyRead == \A r \in Readers : pc[r] = "take" => head # tail

(* The ring holds what was stored and not taken, each byte once and in the   *)
(* order of its arrival, so a full ring loses new bytes and never old ones.  *)
Unread == IF head >= tail THEN head - tail ELSE head + Size - tail

Position(i) == IF tail + i < Size THEN tail + i ELSE tail + i - Size

InOrder ==
  /\ stored = taken + Unread
  /\ \A i \in 0 .. Unread - 1 : ring[Position(i)] = taken + i + 1

(* Bytes are neither made up, lost nor exchanged on their way to a reader    *)
(* (both of the above).                                                      *)
ReadsAreWhole == NoEmptyRead /\ InOrder

(* What was stored is read, if somebody reads: no byte stays behind because  *)
(* its token was lost.                                                       *)
EverythingIsRead == []<>(taken = stored)
=============================================================================
