---------------------------- MODULE Links_proofs ----------------------------
(***************************************************************************)
(* Proofs about the console and the station side of Wi-Fi, and the two of  *)
(* them as MC_Links composes them.                                         *)
(***************************************************************************)
EXTENDS MC_Links, FiniteSetTheorems, SequenceTheorems, TLAPS
-----------------------------------------------------------------------------
(***************************************************************************)
(* What holds of the console for any size of the ring, any finite number   *)
(* of readers and any input.  The invariant that carries the others counts *)
(* the tokens: those in the semaphore, the one that is about to be posted  *)
(* and those of the readers that have not yet removed their byte are       *)
(* together the bytes in the ring.                                         *)
(***************************************************************************)

(* The readers that hold a token and have not removed its byte.              *)
Holders == {r \in Readers : pc[r] = "take"}

InPost == IF rx = "post" THEN 1 ELSE 0

Balance == tokens + InPost + Cardinality(Holders) = Unread

Inv == TypeOK /\ Balance /\ InOrder

-----------------------------------------------------------------------------
(* The next index is wrapped at the end of the buffer.                       *)
LEMMA AfterWraps ==
  ASSUME NEW i \in Index
  PROVE  After(i) = IF i + 1 = Size THEN 0 ELSE i + 1
<1>1. Size \in Nat /\ Size > 1
  BY ConsoleAssumption
<1>2. CASE i + 1 = Size
  BY <1>1, <1>2 DEF After, Index
<1>3. CASE i + 1 < Size
  BY <1>1, <1>3 DEF After, Index
<1> QED
  BY <1>1, <1>2, <1>3 DEF Index

(* Taking a token adds a holder, removing a byte or returning drops one.     *)
LEMMA HoldersFinite ==
  IsFiniteSet(Holders) /\ Cardinality(Holders) \in Nat
<1>1. IsFiniteSet(Holders)
  BY FS_Subset, ConsoleAssumption DEF Holders
<1> QED
  BY <1>1, FS_CardinalityType

LEMMA OneMoreHolder ==
  ASSUME TypeOK, NEW r \in Readers, pc[r] # "take",
         pc' = [pc EXCEPT ![r] = "take"]
  PROVE  Cardinality(Holders') = Cardinality(Holders) + 1
<1>1. Holders' = Holders \cup {r} /\ r \notin Holders
  BY DEF Holders, TypeOK
<1> QED
  BY <1>1, HoldersFinite, FS_AddElement

LEMMA OneHolderLess ==
  ASSUME TypeOK, NEW r \in Readers, pc[r] = "take", NEW next, next # "take",
         pc' = [pc EXCEPT ![r] = next]
  PROVE  Cardinality(Holders') = Cardinality(Holders) - 1
<1>1. Holders' = Holders \ {r} /\ r \in Holders
  BY DEF Holders, TypeOK
<1> QED
  BY <1>1, HoldersFinite, FS_RemoveElement

LEMMA SameHolders ==
  ASSUME TypeOK, NEW r \in Readers, pc[r] # "take", NEW next, next # "take",
         pc' = [pc EXCEPT ![r] = next]
  PROVE  Holders' = Holders
  BY DEF Holders, TypeOK

-----------------------------------------------------------------------------
(* A step that leaves the ring, the tokens, the owed post and the holders    *)
(* alone keeps what relates them.                                            *)
LEMMA QuietStep ==
  ASSUME Inv, UNCHANGED <<ringVars, tokens>>, InPost' = InPost, Holders' = Holders
  PROVE  (Balance /\ InOrder)'
<1>1. Unread' = Unread
  BY DEF ringVars, Unread
<1>2. Balance'
  BY <1>1 DEF Inv, Balance
<1>3. InOrder'
  BY <1>1 DEF Inv, InOrder, ringVars, Position
<1> QED
  BY <1>2, <1>3

(* The number of unread bytes fits the ring and is 0 only for equal indices. *)
LEMMA UnreadBounds ==
  ASSUME TypeOK
  PROVE  Unread \in 0 .. Size - 1 /\ (Unread = 0 <=> head = tail)
  BY ConsoleAssumption DEF TypeOK, Unread, Index

LEMMA StoreKeeps ==
  ASSUME Inv, Store
  PROVE  Inv'
<1> USE ConsoleAssumption
<1>1. head \in Index /\ tail \in Index /\ Size \in Nat /\ Size > 1
      /\ stored \in Nat /\ taken \in Nat /\ ring \in [Index -> Nat] /\ tokens \in Nat
  BY DEF Inv, TypeOK
<1>2. After(head) = IF head + 1 = Size THEN 0 ELSE head + 1
  BY <1>1, AfterWraps
<1>3. After(head) # tail /\ head' = After(head) /\ tail' = tail
      /\ stored' = stored + 1 /\ taken' = taken /\ tokens' = tokens
      /\ ring' = [ring EXCEPT ![head] = stored + 1]
      /\ rx = "store" /\ rx' = "post" /\ UNCHANGED readVars
  BY DEF Store
<1>4. head' \in Index
  BY <1>1, <1>2, <1>3 DEF Index
<1>5. TypeOK'
  BY <1>1, <1>3, <1>4 DEF Inv, TypeOK, Store, deviceVars, readVars, cttyVars
<1>6. Unread' = Unread + 1
  BY <1>1, <1>2, <1>3 DEF Unread, Index
<1>7. Balance'
  <2>1. Holders' = Holders
    BY <1>3 DEF Holders, readVars
  <2>2. InPost = 0 /\ InPost' = 1
    BY <1>3 DEF InPost
  <2>3. Cardinality(Holders) \in Nat
    BY HoldersFinite
  <2>4. Unread \in Nat
    BY UnreadBounds DEF Inv
  <2> QED
    BY <1>1, <1>3, <1>6, <2>1, <2>2, <2>3, <2>4 DEF Inv, Balance
<1>8. InOrder'
  <2>1. stored = taken + Unread
    BY DEF Inv, InOrder
  <2>2. Unread \in 0 .. Size - 1
    BY UnreadBounds DEF Inv
  <2>3. \A i \in 0 .. Unread : Position(i)' = Position(i)
    BY <1>3 DEF Position
  <2>4. Position(Unread) = head
    BY <1>1 DEF Position, Unread, Index
  <2>5. \A i \in 0 .. Unread - 1 : Position(i) \in Index /\ Position(i) # head
    BY <1>1, <2>2 DEF Position, Unread, Index
  <2>6. \A i \in 0 .. Unread - 1 : ring'[Position(i)] = taken + i + 1
    BY <1>1, <1>3, <2>5 DEF Inv, InOrder
  <2>7. ring'[Position(Unread)] = taken + Unread + 1
    BY <1>1, <1>3, <2>1, <2>4
  <2> QED
    BY <1>1, <1>3, <1>6, <2>1, <2>2, <2>3, <2>6, <2>7 DEF InOrder
<1> QED
  BY <1>5, <1>7, <1>8 DEF Inv

LEMMA TakeKeeps ==
  ASSUME Inv, NEW r \in Readers, Take(r)
  PROVE  Inv'
<1> USE ConsoleAssumption
<1>1. head \in Index /\ tail \in Index /\ Size \in Nat /\ Size > 1
      /\ stored \in Nat /\ taken \in Nat /\ ring \in [Index -> Nat] /\ tokens \in Nat
  BY DEF Inv, TypeOK
<1>2. Cardinality(Holders) \in Nat /\ Cardinality(Holders) # 0
  <2>1. pc[r] = "take"
    BY DEF Take, ReadEnds, Removes, Move
  <2>2. r \in Holders
    BY <2>1 DEF Holders
  <2> QED
    BY <2>2, HoldersFinite, FS_EmptySet
<1>3. head # tail
  BY <1>1, <1>2, UnreadBounds DEF Inv, Balance, InPost
<1>4. Removes(r, "more") /\ UNCHANGED <<deviceVars, rxVars, ring, head, stored, tokens, length, cttyVars>>
  BY <1>3 DEF Take, ReadEnds
<1>5. After(tail) = IF tail + 1 = Size THEN 0 ELSE tail + 1
  BY <1>1, AfterWraps
<1>6. tail' = After(tail) /\ taken' = taken + 1 /\ head' = head /\ stored' = stored
      /\ ring' = ring /\ tokens' = tokens /\ rx' = rx
      /\ pc[r] = "take" /\ pc' = [pc EXCEPT ![r] = "more"]
      /\ got' = [got EXCEPT ![r] = @ + 1]
  BY <1>4 DEF Removes, Move, rxVars
<1>7. TypeOK'
  <2>1. tail' \in Index
    BY <1>1, <1>5, <1>6 DEF Index
  <2> QED
    BY <1>1, <1>4, <1>6, <2>1 DEF Inv, TypeOK, deviceVars, rxVars, cttyVars
<1>8. Unread' = Unread - 1
  BY <1>1, <1>3, <1>5, <1>6 DEF Unread, Index
<1>9. Balance'
  <2>1. Cardinality(Holders') = Cardinality(Holders) - 1
    BY <1>6, OneHolderLess DEF Inv
  <2>2. InPost' = InPost
    BY <1>6 DEF InPost
  <2>3. Unread \in Nat
    BY UnreadBounds DEF Inv
  <2> QED
    BY <1>1, <1>2, <1>6, <1>8, <2>1, <2>2, <2>3 DEF Inv, Balance, InPost
<1>10. InOrder'
  <2>1. Unread \in 1 .. Size - 1 /\ stored = taken + Unread
    BY <1>3, UnreadBounds DEF Inv, InOrder
  <2>2. \A i \in 0 .. Unread - 2 : Position(i)' = Position(i + 1)
    BY <1>1, <1>5, <1>6, <2>1 DEF Position, Index
  <2>3. \A i \in 0 .. Unread - 2 : ring[Position(i + 1)] = taken + i + 2
    BY <1>1, <2>1 DEF Inv, InOrder
  <2> QED
    BY <1>1, <1>6, <1>8, <2>1, <2>2, <2>3 DEF InOrder
<1> QED
  BY <1>7, <1>9, <1>10 DEF Inv

(* A reader takes a token, and is a holder from then on.                     *)
LEMMA TokenTaken ==
  ASSUME Inv, NEW r \in Readers, pc[r] # "take", tokens > 0,
         tokens' = tokens - 1, pc' = [pc EXCEPT ![r] = "take"],
         UNCHANGED <<ringVars, rxVars>>
  PROVE  (Balance /\ InOrder)'
<1>1. Unread' = Unread
  BY DEF ringVars, Unread
<1>2. Cardinality(Holders') = Cardinality(Holders) + 1
  BY OneMoreHolder DEF Inv
<1>3. InPost' = InPost /\ Cardinality(Holders) \in Nat /\ tokens \in Nat
  BY HoldersFinite DEF InPost, rxVars, Inv, TypeOK
<1>4. Balance'
  BY <1>1, <1>2, <1>3 DEF Inv, Balance, InPost
<1>5. InOrder'
  BY <1>1 DEF Inv, InOrder, ringVars, Position
<1> QED
  BY <1>4, <1>5
-----------------------------------------------------------------------------
LEMMA InitInv == Init => Inv
<1> USE ConsoleAssumption
<1> SUFFICES ASSUME Init PROVE Inv
  OBVIOUS
<1>1. TypeOK
  <2>1. 0 \in Index
    BY DEF Index
  <2>2. head \in Index /\ tail \in Index /\ ring \in [Index -> Nat]
    BY <2>1 DEF Init
  <2>3. pc \in [Readers -> {"idle", "waiting", "take", "more"}] /\ got \in [Readers -> Nat]
    BY DEF Init
  <2>4. thread \in {"invalid", "running", "error"} /\ opened \in BOOLEAN
    BY DEF Init
  <2>5. /\ rx \in {"poll", "read", "signal", "store", "post"} /\ byte \in {"text", "interrupt"}
        /\ seenCtty \in 0 .. MaxCommands /\ ctty \in 0 .. MaxCommands
        /\ commands \in 0 .. MaxCommands /\ arrived \in 0 .. MaxBytes
        /\ tokens \in Nat /\ stored \in Nat /\ taken \in Nat
    BY DEF Init
  <2>6. length \in [Readers -> 1 .. MaxLength]
    BY DEF Init
  <2> QED
    BY <2>2, <2>3, <2>4, <2>5, <2>6 DEF TypeOK
<1>2. Holders = {} /\ Unread = 0 /\ InPost = 0
  BY DEF Init, Holders, Unread, InPost
<1>3. Balance
  BY <1>2, FS_EmptySet DEF Init, Balance
<1>4. InOrder
  BY <1>2 DEF Init, InOrder
<1> QED
  BY <1>1, <1>3, <1>4 DEF Inv

LEMMA StepInv == Inv /\ [Next]_vars => Inv'
<1> USE ConsoleAssumption
<1> SUFFICES ASSUME Inv, [Next]_vars PROVE Inv'
  OBVIOUS
<1> USE DEF Inv
<1>1. ASSUME NEW r \in Readers, Read(r) PROVE Inv'
  <2>1. TypeOK'
    BY <1>1 DEF TypeOK, Read, Move, deviceVars, rxVars, ringVars, cttyVars
  <2>2. CASE Move(r, "idle", "waiting") /\ UNCHANGED tokens
    <3>1. Holders' = Holders
      BY <2>2, SameHolders DEF Move
    <3>2. UNCHANGED <<ringVars, tokens>> /\ InPost' = InPost
      BY <1>1, <2>2 DEF Read, rxVars, InPost
    <3> QED
      BY <2>1, <3>1, <3>2, QuietStep
  <2>3. CASE tokens > 0 /\ tokens' = tokens - 1 /\ Move(r, "idle", "take")
    BY <1>1, <2>1, <2>3, TokenTaken DEF Read, Move
  <2> QED
    BY <1>1, <2>2, <2>3 DEF Read
<1>2. ASSUME NEW r \in Readers, Wake(r) PROVE Inv'
  <2>1. TypeOK'
    BY <1>2 DEF TypeOK, Wake, Move, deviceVars, rxVars, ringVars, cttyVars
  <2> QED
    BY <1>2, <2>1, TokenTaken DEF Wake, Move
<1>3. ASSUME NEW r \in Readers, Take(r) PROVE Inv'
  BY <1>3, TakeKeeps
<1>4. ASSUME NEW r \in Readers, More(r) PROVE Inv'
  <2>1. TypeOK'
    BY <1>4 DEF TypeOK, More, Move, deviceVars, rxVars, ringVars, cttyVars
  <2> QED
    BY <1>4, <2>1, TokenTaken DEF More, Move
<1>5. ASSUME NEW r \in Readers, Return(r) PROVE Inv'
  <2>1. TypeOK'
    BY <1>5 DEF TypeOK, Return, Move, deviceVars, rxVars, ringVars, cttyVars
  <2>2. Holders' = Holders
    BY <1>5, SameHolders DEF Return, Move
  <2> QED
    BY <1>5, <2>1, <2>2, QuietStep DEF Return, rxVars, InPost
<1>6. CASE Store
  BY <1>6, StoreKeeps
<1>7. CASE Post
  <2>1. TypeOK' /\ UNCHANGED <<ringVars, readVars>> /\ tokens' = tokens + 1
        /\ rx = "post" /\ rx' = "poll"
    BY <1>7 DEF TypeOK, Post, deviceVars, ringVars, readVars, cttyVars
  <2>2. Unread' = Unread /\ Holders' = Holders /\ InPost = 1 /\ InPost' = 0
    BY <2>1 DEF ringVars, readVars, Unread, Holders, InPost
  <2>3. Balance'
    BY <2>1, <2>2, HoldersFinite DEF Balance, TypeOK
  <2>4. InOrder'
    BY <2>1, <2>2 DEF InOrder, ringVars, Position
  <2> QED
    BY <2>1, <2>3, <2>4
<1>8. CASE Receive \/ LookAtTerminal \/ Signal \/ Drop
  <2>1. TypeOK'
    BY <1>8 DEF TypeOK, Receive, LookAtTerminal, Signal, Drop, deviceVars, ringVars, readVars, cttyVars
  <2>2. UNCHANGED <<ringVars, tokens, readVars>> /\ InPost' = InPost
    BY <1>8 DEF Receive, LookAtTerminal, Signal, Drop, InPost
  <2>3. Holders' = Holders
    BY <2>2 DEF Holders, readVars
  <2> QED
    BY <2>1, <2>2, <2>3, QuietStep
<1>9. CASE OpenFirst \/ OpenAgain \/ Foreground \/ Background
  <2>1. TypeOK'
    <3>1. CASE OpenFirst \/ OpenAgain
      BY <3>1 DEF TypeOK, OpenFirst, OpenAgain, rxVars, ringVars, readVars, cttyVars
    <3>2. CASE Foreground
      BY <3>2 DEF TypeOK, Foreground, deviceVars, rxVars, ringVars, readVars
    <3>3. CASE Background
      BY <3>3 DEF TypeOK, Background, deviceVars, rxVars, ringVars, readVars
    <3> QED
      BY <1>9, <3>1, <3>2, <3>3
  <2>2. UNCHANGED <<ringVars, tokens, readVars, rxVars>>
    BY <1>9 DEF OpenFirst, OpenAgain, Foreground, Background
  <2>3. InPost' = InPost /\ Holders' = Holders
    BY <2>2 DEF Holders, readVars, rxVars, InPost
  <2> QED
    BY <2>1, <2>2, <2>3, QuietStep
<1>10. CASE UNCHANGED vars
  <2>1. UNCHANGED <<ringVars, tokens, readVars, rxVars, deviceVars, cttyVars>>
    BY <1>10 DEF vars
  <2>2. TypeOK'
    BY <2>1 DEF TypeOK, deviceVars, rxVars, ringVars, readVars, cttyVars
  <2>3. InPost' = InPost /\ Holders' = Holders
    BY <2>1 DEF Holders, readVars, rxVars, InPost
  <2> QED
    BY <2>1, <2>2, <2>3, QuietStep
<1> QED
  BY <1>1, <1>2, <1>3, <1>4, <1>5, <1>6, <1>7, <1>8, <1>9, <1>10 DEF Next, Receiver, Reader

(* Type correctness, the balance of the tokens and the contents of the ring. *)
THEOREM Invariance == Spec => []Inv
BY InitInv, StepInv, PTL DEF Spec

LEMMA HeldBytesAreThere == Inv => NoEmptyRead
<1> SUFFICES ASSUME Inv, NEW r \in Readers, pc[r] = "take" PROVE head # tail
  BY DEF NoEmptyRead
<1>1. Cardinality(Holders) \in Nat /\ Cardinality(Holders) # 0
  <2>1. r \in Holders
    BY DEF Holders
  <2> QED
    BY <2>1, HoldersFinite, FS_EmptySet DEF Inv
<1>2. tokens \in Nat /\ TypeOK /\ Balance
  BY DEF Inv, TypeOK
<1> QED
  BY <1>1, <1>2, UnreadBounds DEF Balance, InPost

(* A read never returns 0: every token a reader holds stands for a byte.     *)
THEOREM ReadsAreNeverEmpty == Spec => []NoEmptyRead
BY HeldBytesAreThere, Invariance, PTL

(* The bytes come out once each and in the order they went in.               *)
THEOREM BytesStayInOrder == Spec => []InOrder
<1>1. Inv => InOrder
  BY DEF Inv
<1> QED
  BY <1>1, Invariance, PTL

(* No read is empty, and the bytes come out in order.                        *)
THEOREM ReadsStayWhole == Spec => []ReadsAreWhole
BY ReadsAreNeverEmpty, BytesStayInOrder, PTL DEF ReadsAreWhole
-----------------------------------------------------------------------------
(***************************************************************************)
(* Proofs about the station side of the Wi-Fi driver.                      *)
(***************************************************************************)

(* The types of the state, with the messages each thread is sent.            *)
CtlRequests == {"CONNECT", "JOIN", "DISCONNECT", "SCAN"}
CtlReplies  == {"CONNECT_CFM", "CONNECT_IND", "DISCONNECT_CFM", "SCAN"}

KeyValues == Pairs \cup {NoKey}

Request ==
  [id : CtlRequests, to : {"ctl"}, net : Nets \cup {NoNet}, key : KeyValues]
    \cup [id : Exchanges, to : {"rx"}, net : Nets \cup {NoNet}, key : KeyValues]

Message ==
  [id : CtlReplies, to : {"ctl"}, net : Nets \cup {NoNet}, ok : BOOLEAN]
    \cup [id : Exchanges, to : {"rx"}, net : Nets \cup {NoNet}, ok : BOOLEAN]
    \cup [id : {"DISCONNECT_IND"}, to : {"all"}, net : Nets \cup {NoNet}, ok : BOOLEAN]

EapolFrame == [m : {"M1", "M3"}, session : Nat, replay : Nat, ptk : Pairs]

(* The state of the firmware, of the driver and of its threads, by fields.   *)
IsChip(c) ==
  /\ DOMAIN c = {"todo", "link", "session", "key", "ap", "counter", "ptk", "made"}
  /\ c.todo \in Seq(Request) /\ c.link \in Nets \cup {NoNet}
  /\ c.session \in Nat /\ c.counter \in Nat /\ c.ap \in {"M1", "M3", "done"}
  /\ c.key \in KeyValues /\ c.ptk \in Pairs /\ c.made \subseteq Pairs

IsDriver(g) ==
  /\ DOMAIN g = {"associated", "bssid", "configured", "state", "replay", "nonce", "ptk", "pmk",
                 "pairwise", "group", "port", "confirmed", "indicated", "dhcp_pid"}
  /\ g.associated \in BOOLEAN /\ g.bssid \in Nets \cup {NoNet} /\ g.state \in 0 .. 3
  /\ g.replay \in Nat /\ g.nonce \in Nat /\ g.ptk \in Pairs
  /\ g.configured \in BOOLEAN /\ g.confirmed \in BOOLEAN /\ g.indicated \in BOOLEAN

IsCtl(c) ==
  /\ DOMAIN c = {"pc", "cmd", "net", "was", "cfm", "wiped"}
  /\ c.pc \in CtlWaits \cup {"idle", "pmk", "associate", "disconnect", "scan", "connect",
                             "connect_send", "disconnect_send", "eapol_start",
                             "disconnect_done"}
  /\ c.cmd \in {"wpa2", "associate", "disconnect", "scan"} /\ c.net \in Nets
  /\ c.was \in BOOLEAN /\ c.cfm \in BOOLEAN /\ c.wiped \in BOOLEAN

IsRxd(r) ==
  /\ DOMAIN r = {"pc", "what", "session", "key"}
  /\ r.pc \in Exchanges \cup {"poll", "carrier", "M2", "M4", "key", "wait", "dhcp_start",
                              "dhcp_pid"}
  /\ r.what \in Exchanges /\ r.session \in Nat /\ r.key \in KeyValues

IsLan(w) == w \in [carrier : BOOLEAN, address : BOOLEAN]

LockTypes ==
  /\ msg_lock \in {NoLock, "ctl", "rx"}
  /\ msg_lock = "ctl" <=> ctl.pc \in CtlWaits
  /\ msg_lock = "rx" <=> rxd.pc = "wait"

(* A frame for another exchange is left in its place while message 2 leaves. *)
FrameKept == rxd.pc = "M2" => air # <<>>

(* Every key on its way to the firmware is the access point's, or one that a *)
(* command erased in the handshake: the key of a message 3, of the handshake *)
(* that believed it, of a request.                                           *)
Made == chip.made \cup (IF ctl.wiped THEN {Zero} ELSE {})

KeysMade ==
  /\ chip.key \in Made \cup {NoKey}
  /\ chip.ap = "M3" => chip.ptk \in Made
  /\ \A k \in DOMAIN chip.todo : chip.todo[k].id = "KEY_ADD" => chip.todo[k].key \in Made
  /\ \A k \in DOMAIN air : air[k].m = "M3" => air[k].ptk \in Made
  /\ rxd.pc \in {"M4", "key"} => g_wifi.ptk \in Made
  /\ rxd.pc = "KEY_ADD" => rxd.key \in Made

(* What a step of a command may do to the key of the session.                *)
KeyStays ==
  /\ ctl.wiped => ctl'.wiped
  /\ \/ g_wifi'.ptk = g_wifi.ptk
     \/ g_wifi'.ptk = Zero /\ (rxd.pc \in {"M4", "key"} => ctl'.wiped)

(* What a thread waits for is still to be answered, or in the queue.         *)
AnswersCome ==
  /\ ctl.pc = "connect_wait" =>
       Asked({"CONNECT", "JOIN"}) \/ Queued("CONNECT_IND") \/ Refused
  /\ ctl.pc = "disconnect_wait" =>
       g_wifi.confirmed \/ Asked({"DISCONNECT"}) \/ Queued("DISCONNECT_CFM")
  /\ ctl.pc = "scan_wait" => Asked({"SCAN"}) \/ Queued("SCAN")
  /\ rxd.pc = "wait" => Asked({rxd.what}) \/ Queued(Confirmed(rxd.what))

(* A station that connects or has been told of a disconnection is not        *)
(* associated.                                                               *)
Apart ==
  /\ ctl.pc \in {"connect", "connect_send", "connect_wait"} => ~g_wifi.associated
  /\ ctl.pc \in {"disconnect_send", "disconnect_wait", "disconnect_done"} =>
       (g_wifi.indicated \/ ~ctl.was => ~g_wifi.associated)
  /\ ctl.pc = "disconnect_done" => g_wifi.indicated \/ ~ctl.was
  /\ ctl.pc = "disconnect_send" => ~g_wifi.confirmed

(* As long as no command came back early: the firmware works on at most one       *)
(* request of a command, the one that waits, and its messages come once and  *)
(* in their order ...                                                        *)
Requests(at) == CASE at = "connect_wait" -> {"CONNECT", "JOIN"}
                  [] at = "disconnect_wait" -> {"DISCONNECT"}
                  [] at = "scan_wait" -> {"SCAN"}
                  [] OTHER -> {}

Replies(at) == CASE at = "connect_wait" -> {"CONNECT_CFM", "CONNECT_IND"}
                 [] at = "disconnect_wait" -> {"DISCONNECT_CFM"}
                 [] at = "scan_wait" -> {"SCAN"}
                 [] OTHER -> {}

OneRequest ==
  /\ \A k \in DOMAIN chip.todo :
       chip.todo[k].id \in CtlRequests => chip.todo[k].id \in Requests(ctl.pc)
  /\ \A j, k \in DOMAIN chip.todo :
       chip.todo[j].id \in CtlRequests /\ chip.todo[k].id \in CtlRequests => j = k

OneReply ==
  /\ \A k \in DOMAIN msgs : msgs[k].id \in CtlReplies => msgs[k].id \in Replies(ctl.pc)
  /\ \A j, k \in DOMAIN msgs : msgs[j].id \in CtlReplies /\ msgs[j].id = msgs[k].id => j = k
  /\ \A k \in DOMAIN msgs :
       /\ msgs[k].id \in {"CONNECT_IND", "DISCONNECT_CFM", "SCAN"} => ~Asked(CtlRequests)
       /\ msgs[k].id = "CONNECT_CFM" => msgs[k].ok /\ ~ctl.cfm /\ ~Asked({"CONNECT"})
       /\ msgs[k].id = "CONNECT_IND" =>
            ctl.cfm \/ \E j \in DOMAIN msgs : j < k /\ msgs[j].id = "CONNECT_CFM"
       /\ msgs[k].id = "DISCONNECT_CFM" => ~g_wifi.confirmed
  /\ Asked({"CONNECT"}) => ~ctl.cfm
  /\ Asked({"JOIN"}) => ctl.cfm \/ Queued("CONNECT_CFM")
  /\ Asked({"DISCONNECT"}) => ~g_wifi.confirmed

(* ... and a station that is not associated, and is not about to be told     *)
(* that it is, has no link and no disconnection to be told of.               *)
Joined == \E k \in DOMAIN msgs : msgs[k].id = "CONNECT_IND" /\ msgs[k].ok

LinkKnown ==
  /\ \A j, k \in DOMAIN msgs :
       msgs[j].id = "DISCONNECT_IND" /\ msgs[k].id = "DISCONNECT_IND" => j = k
  /\ chip.link # NoNet => ~Queued("DISCONNECT_IND")
  /\ ~g_wifi.associated /\ ~Joined => chip.link = NoNet /\ ~Queued("DISCONNECT_IND")

(* The inductive invariant. *)
StationTypes ==
  /\ IsChip(chip) /\ msgs \in Seq(Message) /\ air \in Seq(EapolFrame)
  /\ IsDriver(g_wifi) /\ IsCtl(ctl) /\ IsRxd(rxd) /\ IsLan(wlan0) /\ late \in BOOLEAN
  /\ LockTypes /\ FrameKept

StationInv ==
  /\ StationTypes /\ KeysMade /\ AnswersCome /\ Apart
  /\ ~late => OneRequest /\ OneReply /\ LinkKnown
-----------------------------------------------------------------------------
(* Queues: what is left when the first message has gone, and what an appended *)
(* one changes.                                                               *)
LEMMA TailIs ==
  ASSUME NEW S, NEW q \in Seq(S), q # <<>>
  PROVE  /\ Tail(q) \in Seq(S) /\ Head(q) = q[1] /\ Head(q) \in S /\ 1 \in DOMAIN q
         /\ \A k \in DOMAIN Tail(q) : k + 1 \in DOMAIN q /\ k + 1 # 1 /\ Tail(q)[k] = q[k + 1]
         /\ \A k \in DOMAIN q \ {1} : k - 1 \in DOMAIN Tail(q) /\ Tail(q)[k - 1] = q[k]
         /\ \A k \in DOMAIN q : k \in Nat /\ k >= 1
         /\ \A k \in DOMAIN Tail(q) : k \in Nat
<1>1. /\ Tail(q) \in Seq(S) /\ Head(q) = q[1] /\ Head(q) \in S
      /\ Len(q) \in Nat \ {0} /\ Len(Tail(q)) = Len(q) - 1
      /\ \A k \in 1 .. Len(Tail(q)) : Tail(q)[k] = q[k + 1]
  BY HeadTailProperties, LenProperties
<1>2. DOMAIN q = 1 .. Len(q) /\ DOMAIN Tail(q) = 1 .. Len(q) - 1
  BY <1>1, LenProperties
<1>3. ASSUME NEW k \in DOMAIN q \ {1}
      PROVE  k - 1 \in DOMAIN Tail(q) /\ Tail(q)[k - 1] = q[k]
  <2>1. k - 1 \in 1 .. Len(Tail(q)) /\ (k - 1) + 1 = k
    BY <1>1, <1>2, <1>3
  <2> QED
    BY <1>1, <1>2, <2>1
<1> QED
  BY <1>1, <1>2, <1>3

LEMMA AppendIs ==
  ASSUME NEW S, NEW q \in Seq(S), NEW e \in S
  PROVE  /\ Append(q, e) \in Seq(S) /\ DOMAIN Append(q, e) = DOMAIN q \cup {Len(q) + 1}
         /\ Append(q, e)[Len(q) + 1] = e
         /\ \A k \in DOMAIN q : Append(q, e)[k] = q[k] /\ k < Len(q) + 1 /\ k \in Nat
         /\ Len(q) \in Nat /\ Append(q, e) # <<>>
BY AppendProperties, LenProperties

LEMMA PushIs ==
  ASSUME NEW S, NEW q \in Seq(S), q # <<>>, NEW e \in S
  PROVE  /\ <<e>> \o Tail(q) \in Seq(S) /\ DOMAIN (<<e>> \o Tail(q)) = DOMAIN q
         /\ (<<e>> \o Tail(q))[1] = e
         /\ \A k \in DOMAIN q \ {1} : (<<e>> \o Tail(q))[k] = q[k]
<1>1. /\ Tail(q) \in Seq(S) /\ Len(q) \in Nat \ {0} /\ Len(Tail(q)) = Len(q) - 1
      /\ \A k \in 1 .. Len(Tail(q)) : Tail(q)[k] = q[k + 1]
  BY HeadTailProperties, LenProperties
<1>2. <<e>> \in Seq(S) /\ Len(<<e>>) = 1 /\ <<e>>[1] = e
  OBVIOUS
<1>3. /\ <<e>> \o Tail(q) \in Seq(S) /\ Len(<<e>> \o Tail(q)) = Len(q)
      /\ \A k \in 1 .. Len(q) :
            (<<e>> \o Tail(q))[k] = IF k <= 1 THEN <<e>>[k] ELSE Tail(q)[k - 1]
  BY <1>1, <1>2, ConcatProperties
<1>4. DOMAIN (<<e>> \o Tail(q)) = 1 .. Len(q) /\ DOMAIN q = 1 .. Len(q)
  BY <1>3, LenProperties
<1>5. ASSUME NEW k \in DOMAIN q \ {1} PROVE (<<e>> \o Tail(q))[k] = q[k]
  <2>1. k \in 1 .. Len(q) /\ ~(k <= 1) /\ k - 1 \in 1 .. Len(Tail(q)) /\ (k - 1) + 1 = k
    BY <1>1, <1>4, <1>5
  <2> QED
    BY <1>1, <1>3, <2>1
<1>6. 1 \in 1 .. Len(q)
  BY <1>1
<1> QED
  BY <1>2, <1>3, <1>4, <1>5, <1>6
-----------------------------------------------------------------------------
LEMMA InitStationInv == WifiInit => StationInv
<1>. SUFFICES ASSUME WifiInit PROVE StationInv
  OBVIOUS
<1>1. Zero \in Pairs
  BY DEF Zero, Pairs
<1>2. IsChip(chip) /\ chip.todo = <<>> /\ chip.link = NoNet /\ chip.key = NoKey
      /\ chip.ap = "done"
  BY <1>1 DEF WifiInit, IsChip, KeyValues
<1>3. msgs \in Seq(Message) /\ air \in Seq(EapolFrame) /\ msgs = <<>> /\ air = <<>>
  BY DEF WifiInit
<1>4. IsDriver(g_wifi)
  BY <1>1 DEF WifiInit, IsDriver
<1>5. /\ IsCtl(ctl) /\ IsRxd(rxd) /\ IsLan(wlan0) /\ late \in BOOLEAN /\ LockTypes /\ FrameKept
      /\ ctl.pc = "idle" /\ rxd.pc = "poll"
  BY DEF WifiInit, IsCtl, IsRxd, IsLan, LockTypes, FrameKept, CtlWaits, Exchanges, Nets, NoLock,
         KeyValues
<1>6. KeysMade /\ AnswersCome /\ Apart
  BY <1>2, <1>3, <1>5 DEF KeysMade, Made, AnswersCome, Apart
<1>7. OneRequest /\ OneReply /\ LinkKnown
  BY <1>2, <1>3 DEF OneRequest, OneReply, LinkKnown, Asked, Queued
<1> QED
  BY <1>2, <1>3, <1>4, <1>5, <1>6, <1>7 DEF StationInv, StationTypes

(* While no command waits the firmware has nothing of a command, unless one  *)
(* came back early.                                                          *)
LEMMA NothingOfCtl ==
  ASSUME StationInv, ctl.pc \notin CtlWaits, ~late
  PROVE  /\ \A k \in DOMAIN chip.todo : chip.todo[k].id \notin CtlRequests
         /\ \A k \in DOMAIN msgs : msgs[k].id \notin CtlReplies
BY DEF StationInv, OneRequest, OneReply, Requests, Replies, CtlWaits

(* What a command does to the key of the session keeps every key accounted   *)
(* for.                                                                      *)
LEMMA KeysStay ==
  ASSUME KeysMade, KeyStays, UNCHANGED <<chip, air, rxd>>
  PROVE  KeysMade'
<1>1. Made \subseteq Made'
  BY DEF Made, KeyStays
<1>2. rxd.pc \in {"M4", "key"} => g_wifi'.ptk \in Made'
  <2>1. ASSUME rxd.pc \in {"M4", "key"}, g_wifi'.ptk = Zero, ctl'.wiped
        PROVE  g_wifi'.ptk \in Made'
    BY <2>1 DEF Made
  <2>2. ASSUME rxd.pc \in {"M4", "key"}, g_wifi'.ptk = g_wifi.ptk
        PROVE  g_wifi'.ptk \in Made'
    BY <1>1, <2>2 DEF KeysMade
  <2> QED
    BY <2>1, <2>2 DEF KeyStays
<1> QED
  BY <1>1, <1>2 DEF KeysMade

(* A step of the writer outside its waits. *)
LEMMA CtlMoves ==
  ASSUME StationInv, UNCHANGED <<chip, msgs, air, msg_lock, rxd, late>>,
         ctl.pc \notin CtlWaits, ctl'.pc \notin CtlWaits,
         IsDriver(g_wifi'), IsCtl(ctl'), IsLan(wlan0'),
         KeyStays, g_wifi'.associated = g_wifi.associated, Apart'
  PROVE  StationInv'
<1>1. StationTypes'
  BY DEF StationInv, StationTypes, LockTypes, FrameKept
<1>2. KeysMade' /\ AnswersCome'
  <2>1. KeysMade'
    BY KeysStay DEF StationInv
  <2> QED
    BY <2>1 DEF StationInv, AnswersCome, Asked, Queued, CtlWaits
<1>3. ASSUME ~late PROVE OneRequest' /\ OneReply' /\ LinkKnown'
  <2>1. OneRequest'
    BY <1>3, NothingOfCtl DEF OneRequest
  <2>2. OneReply'
    BY <1>3, NothingOfCtl DEF OneReply, Asked, CtlRequests, CtlReplies
  <2>3. LinkKnown'
    BY <1>3 DEF StationInv, LinkKnown, Joined, Queued
  <2> QED
    BY <2>1, <2>2, <2>3
<1> QED
  BY <1>1, <1>2, <1>3 DEF StationInv

(* A step that leaves the message endpoint and the writer alone. *)
LEMMA RxMoves ==
  ASSUME StationInv, UNCHANGED <<msgs, msg_lock, ctl, late>>,
         chip'.todo = chip.todo, chip'.link = chip.link,
         rxd' = rxd \/ (rxd.pc # "wait" /\ rxd'.pc # "wait"),
         IsChip(chip'), air' \in Seq(EapolFrame), IsDriver(g_wifi'), IsRxd(rxd'), IsLan(wlan0'),
         FrameKept', KeysMade',
         g_wifi'.associated = g_wifi.associated, g_wifi'.confirmed = g_wifi.confirmed,
         g_wifi'.indicated = g_wifi.indicated
  PROVE  StationInv'
<1>1. StationTypes'
  BY DEF StationInv, StationTypes, LockTypes
<1>2. AnswersCome' /\ Apart'
  BY DEF StationInv, AnswersCome, Asked, Queued, Refused, Apart
<1>3. ASSUME ~late PROVE OneRequest' /\ OneReply' /\ LinkKnown'
  <2>1. OneRequest' /\ LinkKnown'
    BY <1>3 DEF StationInv, OneRequest, LinkKnown, Joined, Queued
  <2>2. OneReply'
    BY <1>3 DEF StationInv, OneReply, Asked, Queued
  <2> QED
    BY <2>1, <2>2
<1> QED
  BY <1>1, <1>2, <1>3 DEF StationInv
-----------------------------------------------------------------------------
(* The writer of commands, outside its waits. *)
LEMMA FinishIs ==
  ASSUME NEW g, IsDriver(g), IsCtl(ctl), NEW ok \in BOOLEAN, Finish(g, ok), g.ptk = g_wifi.ptk
  PROVE  /\ IsDriver(g_wifi') /\ IsCtl(ctl') /\ ctl'.pc = "idle"
         /\ g_wifi'.associated = g.associated /\ KeyStays
         /\ ctl'.cfm = ctl.cfm /\ ctl'.was = ctl.was
<1>1. PICK h : /\ g_wifi' = h
              /\ \/ h = g
                 \/ h = [g EXCEPT !.configured = FALSE, !.pmk = FALSE]
                 \/ /\ ctl.cmd = "disconnect"
                    /\ h = [g EXCEPT !.configured = FALSE, !.state = 0, !.port = FALSE,
                                    !.pmk = FALSE, !.ptk = Zero]
  BY DEF Finish
<1>2. Zero \in Pairs
  BY DEF Zero, Pairs
<1>3. /\ IsDriver(h) /\ h.associated = g.associated
      /\ h.ptk # g.ptk => h.ptk = Zero /\ ctl.cmd = "disconnect"
  <2>1. CASE h = g
    BY <2>1
  <2>2. CASE h = [g EXCEPT !.configured = FALSE, !.pmk = FALSE]
    BY <2>2 DEF IsDriver
  <2>3. CASE /\ ctl.cmd = "disconnect"
             /\ h = [g EXCEPT !.configured = FALSE, !.state = 0, !.port = FALSE,
                              !.pmk = FALSE, !.ptk = Zero]
    BY <1>2, <2>3 DEF IsDriver
  <2> QED
    BY <1>1, <2>1, <2>2, <2>3
<1>4. PICK w \in BOOLEAN : /\ ctl' = [ctl EXCEPT !.pc = "idle", !.wiped = w]
                          /\ w = IF ctl.cmd = "disconnect" THEN Wiped ELSE ctl.wiped
  BY DEF Finish, Wiped, IsCtl
<1>5. /\ IsCtl(ctl') /\ ctl'.pc = "idle" /\ ctl'.cfm = ctl.cfm /\ ctl'.was = ctl.was
      /\ ctl'.wiped = w
  BY <1>4 DEF IsCtl
<1>6. KeyStays
  BY <1>1, <1>3, <1>4, <1>5 DEF KeyStays, Wiped
<1> QED
  BY <1>1, <1>3, <1>5, <1>6

(* The control commands that begin. *)
LEMMA BeginKeeps ==
  ASSUME StationInv, CtlWpa \/ CtlAssociate \/ CtlDisconnect \/ CtlScan PROVE StationInv'
<1>1. /\ UNCHANGED <<chip, msgs, air, wlan0, msg_lock, rxd, late>> /\ ctl.pc = "idle"
      /\ IsDriver(g_wifi) /\ IsCtl(ctl) /\ IsLan(wlan0)
  BY DEF CtlWpa, CtlAssociate, CtlDisconnect, CtlScan, StationInv, StationTypes
<1>2. /\ IsCtl(ctl') /\ ctl'.pc \in {"pmk", "associate", "disconnect", "scan"}
      /\ ctl'.wiped = IF CtlWpa THEN Wiped ELSE ctl.wiped
  <2>1. CASE CtlWpa
    <3>1. Wiped \in BOOLEAN
      BY <1>1 DEF Wiped, IsCtl
    <3>2. ctl' = [ctl EXCEPT !.pc = "pmk", !.cmd = "wpa2", !.net = Secured, !.wiped = Wiped]
      BY <2>1 DEF CtlWpa
    <3> QED
      BY <1>1, <2>1, <3>1, <3>2 DEF IsCtl, Nets
  <2>2. CASE CtlAssociate
    <3>1. PICK net \in Nets :
            ctl' = [ctl EXCEPT !.pc = "associate", !.cmd = "associate", !.net = net]
      BY <2>2 DEF CtlAssociate
    <3>2. IsCtl(ctl') /\ ctl'.pc = "associate" /\ ctl'.wiped = ctl.wiped
      BY <1>1, <3>1 DEF IsCtl
    <3>3. ~CtlWpa
      BY <1>1, <3>2 DEF CtlWpa, IsCtl
    <3> QED
      BY <3>2, <3>3
  <2>3. CASE CtlDisconnect \/ CtlScan
    <3>1. IsCtl(ctl') /\ ctl'.pc \in {"disconnect", "scan"} /\ ctl'.wiped = ctl.wiped
      BY <1>1, <2>3 DEF CtlDisconnect, CtlScan, IsCtl
    <3>2. ~CtlWpa
      BY <1>1, <3>1 DEF CtlWpa, IsCtl
    <3> QED
      BY <3>1, <3>2
  <2> QED
    BY <2>1, <2>2, <2>3
<1>4. IsDriver(g_wifi') /\ KeyStays /\ g_wifi'.associated = g_wifi.associated
  <2>1. \/ g_wifi' = g_wifi
        \/ CtlWpa /\ g_wifi' = [g_wifi EXCEPT !.pmk = FALSE, !.ptk = Zero]
    BY DEF CtlWpa, CtlAssociate, CtlDisconnect, CtlScan
  <2>2. CASE g_wifi' = g_wifi
    BY <1>1, <1>2, <2>2 DEF KeyStays, Wiped
  <2>3. CASE CtlWpa /\ g_wifi' = [g_wifi EXCEPT !.pmk = FALSE, !.ptk = Zero]
    <3>1. IsDriver(g_wifi') /\ g_wifi'.ptk = Zero /\ g_wifi'.associated = g_wifi.associated
      BY <1>1, <2>3 DEF IsDriver, Zero, Pairs
    <3> QED
      BY <1>2, <2>3, <3>1 DEF KeyStays, Wiped
  <2> QED
    BY <2>1, <2>2, <2>3
<1>5. Apart' /\ ctl'.pc \notin CtlWaits /\ ctl.pc \notin CtlWaits
  BY <1>1, <1>2 DEF Apart, CtlWaits
<1> QED
  BY <1>1, <1>2, <1>4, <1>5, CtlMoves

LEMMA WpaConnectKeeps == ASSUME StationInv, wext_wpa_connect PROVE StationInv'
<1>1. /\ UNCHANGED <<chip, msgs, air, wlan0, msg_lock, rxd, late>> /\ ctl.pc = "pmk"
      /\ IsDriver(g_wifi) /\ IsCtl(ctl) /\ IsLan(wlan0)
  BY DEF wext_wpa_connect, StationInv, StationTypes
<1>2. /\ IsDriver(g_wifi') /\ g_wifi'.ptk = g_wifi.ptk /\ g_wifi'.associated = g_wifi.associated
      /\ IsCtl(ctl') /\ ctl'.pc = "associate" /\ ctl'.wiped = ctl.wiped
  BY <1>1 DEF wext_wpa_connect, ToDo, IsDriver, IsCtl
<1> QED
  BY <1>1, <1>2, CtlMoves DEF Apart, CtlWaits, KeyStays

LEMMA AssociateKeeps == ASSUME StationInv, Associate PROVE StationInv'
<1>1. /\ UNCHANGED <<chip, msgs, air, wlan0, msg_lock, rxd, late>> /\ ctl.pc = "associate"
      /\ IsDriver(g_wifi) /\ IsCtl(ctl) /\ IsLan(wlan0)
  BY DEF Associate, StationInv, StationTypes
<1>2. CASE Finish(g_wifi, TRUE)
  <2>1. /\ IsDriver(g_wifi') /\ IsCtl(ctl') /\ ctl'.pc = "idle"
        /\ g_wifi'.associated = g_wifi.associated /\ KeyStays
    BY <1>1, <1>2, FinishIs
  <2> QED
    BY <1>1, <2>1, CtlMoves DEF Apart, CtlWaits
<1>3. CASE ToDo("disconnect") /\ UNCHANGED g_wifi
  <2>1. IsCtl(ctl') /\ ctl'.pc = "disconnect" /\ ctl'.wiped = ctl.wiped
    BY <1>1, <1>3 DEF ToDo, IsCtl
  <2> QED
    BY <1>1, <1>3, <2>1, CtlMoves DEF Apart, CtlWaits, KeyStays
<1>4. CASE ~g_wifi.associated /\ ToDo("connect") /\ UNCHANGED g_wifi
  <2>1. IsCtl(ctl') /\ ctl'.pc = "connect" /\ ctl'.wiped = ctl.wiped
    BY <1>1, <1>4 DEF ToDo, IsCtl
  <2> QED
    BY <1>1, <1>4, <2>1, CtlMoves DEF Apart, CtlWaits, KeyStays
<1> QED
  BY <1>2, <1>3, <1>4 DEF Associate

LEMMA ClearsKeep ==
  ASSUME StationInv, ConnectClears \/ DisconnectClears PROVE StationInv'
<1>1. /\ UNCHANGED <<chip, msgs, air, wlan0, msg_lock, rxd, late>>
      /\ IsDriver(g_wifi) /\ IsCtl(ctl) /\ IsLan(wlan0) /\ Apart
  BY DEF ConnectClears, DisconnectClears, StationInv, StationTypes
<1>2. CASE ConnectClears
  <2>1. /\ IsDriver(g_wifi') /\ g_wifi'.ptk = g_wifi.ptk /\ ~g_wifi'.associated
        /\ IsCtl(ctl') /\ ctl'.pc = "connect_send" /\ ctl.pc = "connect"
        /\ ctl'.wiped = ctl.wiped
    BY <1>1, <1>2 DEF ConnectClears, ToDo, IsDriver, IsCtl
  <2>2. g_wifi'.associated = g_wifi.associated
    BY <1>1, <2>1 DEF Apart, IsDriver
  <2> QED
    BY <1>1, <2>1, <2>2, CtlMoves DEF Apart, CtlWaits, KeyStays
<1>3. CASE DisconnectClears
  <2>1. /\ IsDriver(g_wifi') /\ g_wifi'.ptk = g_wifi.ptk
        /\ g_wifi'.associated = g_wifi.associated /\ ~g_wifi'.confirmed /\ ~g_wifi'.indicated
    BY <1>1, <1>3 DEF DisconnectClears, IsDriver
  <2>2. /\ IsCtl(ctl') /\ ctl'.pc = "disconnect_send" /\ ctl'.was = g_wifi.associated
        /\ ctl.pc = "disconnect" /\ ctl'.wiped = ctl.wiped
    BY <1>1, <1>3 DEF DisconnectClears, IsDriver, IsCtl
  <2> QED
    BY <1>1, <2>1, <2>2, CtlMoves DEF Apart, CtlWaits, KeyStays
<1> QED
  BY <1>2, <1>3

LEMMA EapolStartKeeps == ASSUME StationInv, send_eapol_start PROVE StationInv'
<1>1. /\ UNCHANGED <<chip, msgs, air, wlan0, msg_lock, rxd, late>> /\ ctl.pc = "eapol_start"
      /\ IsDriver(g_wifi) /\ IsCtl(ctl) /\ IsLan(wlan0)
  BY DEF send_eapol_start, StationInv, StationTypes
<1>2. PICK sent \in BOOLEAN : Finish(g_wifi, sent)
  BY DEF send_eapol_start
<1>3. /\ IsDriver(g_wifi') /\ IsCtl(ctl') /\ ctl'.pc = "idle"
      /\ g_wifi'.associated = g_wifi.associated /\ KeyStays
  BY <1>1, <1>2, FinishIs
<1> QED
  BY <1>1, <1>3, CtlMoves DEF Apart, CtlWaits

LEMMA AfterIs ==
  ASSUME IsDriver(g_wifi), IsCtl(ctl), IsLan(wlan0), NEW ok \in BOOLEAN,
         AfterDisconnect(g_wifi, ok)
  PROVE  /\ IsDriver(g_wifi') /\ IsCtl(ctl') /\ IsLan(wlan0')
         /\ g_wifi'.associated = g_wifi.associated /\ KeyStays
         /\ ctl'.pc = "idle" \/ (ok /\ ctl'.pc = "connect")
<1>1. CASE g_wifi' = g_wifi /\ ToDo("connect") /\ UNCHANGED wlan0 /\ ok
  <2>1. IsCtl(ctl') /\ ctl'.pc = "connect" /\ ctl'.wiped = ctl.wiped
    BY <1>1 DEF ToDo, IsCtl
  <2> QED
    BY <1>1, <2>1 DEF KeyStays
<1>2. CASE /\ Finish(g_wifi, ok)
           /\ wlan0' = IF ctl.cmd = "disconnect" THEN [wlan0 EXCEPT !.address = FALSE]
                                                ELSE wlan0
  BY <1>2, FinishIs DEF IsLan
<1> QED
  BY <1>1, <1>2 DEF AfterDisconnect

(* A command that fails. *)
LEMMA FailIs ==
  ASSUME IsDriver(g_wifi), IsCtl(ctl), IsLan(wlan0), Fail
  PROVE  /\ IsDriver(g_wifi') /\ IsCtl(ctl') /\ IsLan(wlan0') /\ ctl'.pc = "idle"
         /\ g_wifi'.associated = g_wifi.associated /\ KeyStays
<1>1. CASE AfterDisconnect(g_wifi, FALSE)
  BY <1>1, AfterIs
<1>2. CASE Finish(g_wifi, FALSE) /\ UNCHANGED wlan0
  BY <1>2, FinishIs
<1> QED
  BY <1>1, <1>2 DEF Fail

LEMMA DisconnectDoneKeeps == ASSUME StationInv, DisconnectDone PROVE StationInv'
<1>1. /\ UNCHANGED <<chip, msgs, air, msg_lock, rxd, late>> /\ ctl.pc = "disconnect_done"
      /\ IsDriver(g_wifi) /\ IsCtl(ctl) /\ IsLan(wlan0) /\ Apart
      /\ AfterDisconnect(g_wifi, TRUE)
  BY DEF DisconnectDone, StationInv, StationTypes
<1>2. /\ IsDriver(g_wifi') /\ IsCtl(ctl') /\ IsLan(wlan0')
      /\ g_wifi'.associated = g_wifi.associated /\ KeyStays
      /\ ctl'.pc \in {"idle", "connect"}
  BY <1>1, AfterIs
<1> QED
  BY <1>1, <1>2, CtlMoves DEF Apart, CtlWaits

LEMMA CtlSendFailsKeeps == ASSUME StationInv, CtlSendFails PROVE StationInv'
<1>1. /\ UNCHANGED <<chip, msgs, air, msg_lock, rxd, late>> /\ Fail
      /\ ctl.pc \in {"connect_send", "disconnect_send", "scan"}
      /\ IsDriver(g_wifi) /\ IsCtl(ctl) /\ IsLan(wlan0)
  BY DEF CtlSendFails, StationInv, StationTypes
<1>2. /\ IsDriver(g_wifi') /\ IsCtl(ctl') /\ IsLan(wlan0') /\ ctl'.pc = "idle"
      /\ g_wifi'.associated = g_wifi.associated /\ KeyStays
  BY <1>1, FailIs
<1> QED
  BY <1>1, <1>2, CtlMoves DEF Apart, CtlWaits
-----------------------------------------------------------------------------
(* Requests to the firmware. *)
LEMMA SendIs ==
  ASSUME IsChip(chip), NEW id, NEW to, NEW net, NEW key, lmac_send(id, to, net, key),
         [id |-> id, to |-> to, net |-> net, key |-> key] \in Request
  PROVE  /\ IsChip(chip') /\ chip'.link = chip.link /\ chip'.key = chip.key
         /\ chip'.ap = chip.ap /\ chip'.ptk = chip.ptk /\ chip'.made = chip.made
         /\ DOMAIN chip'.todo = DOMAIN chip.todo \cup {Len(chip.todo) + 1}
         /\ chip'.todo[Len(chip.todo) + 1] = [id |-> id, to |-> to, net |-> net, key |-> key]
         /\ \A k \in DOMAIN chip.todo : chip'.todo[k] = chip.todo[k]
<1> DEFINE r == [id |-> id, to |-> to, net |-> net, key |-> key]
<1>1. chip.todo \in Seq(Request) /\ r \in Request
  BY DEF IsChip
<1>2. chip' = [chip EXCEPT !.todo = Append(@, r)]
  BY DEF lmac_send
<1>3. /\ Append(chip.todo, r) \in Seq(Request)
      /\ DOMAIN Append(chip.todo, r) = DOMAIN chip.todo \cup {Len(chip.todo) + 1}
      /\ Append(chip.todo, r)[Len(chip.todo) + 1] = r
      /\ \A k \in DOMAIN chip.todo : Append(chip.todo, r)[k] = chip.todo[k]
  BY <1>1, AppendIs
<1> HIDE DEF r
<1>4. chip'.todo = Append(chip.todo, r)
  BY <1>2 DEF IsChip
<1>5. /\ IsChip(chip') /\ chip'.link = chip.link /\ chip'.key = chip.key
      /\ chip'.ap = chip.ap /\ chip'.ptk = chip.ptk /\ chip'.made = chip.made
  BY <1>2, <1>3 DEF IsChip
<1> QED
  BY <1>3, <1>4, <1>5 DEF r

(* A command takes the endpoint, writes its request and waits. *)
LEMMA CtlAsks ==
  ASSUME StationInv, msg_lock = NoLock, msg_lock' = "ctl", ctl.pc \notin CtlWaits,
         UNCHANGED <<msgs, air, g_wifi, wlan0, rxd, late>>, IsCtl(ctl'), ctl'.was = ctl.was,
         ctl'.wiped = ctl.wiped,
         NEW id \in {"CONNECT", "DISCONNECT", "SCAN"}, NEW net \in Nets \cup {NoNet},
         lmac_send(id, "ctl", net, NoKey),
         \/ id = "CONNECT" /\ ctl.pc = "connect_send" /\ ctl'.pc = "connect_wait" /\ ~ctl'.cfm
         \/ id = "DISCONNECT" /\ ctl.pc = "disconnect_send" /\ ctl'.pc = "disconnect_wait"
         \/ id = "SCAN" /\ ctl.pc = "scan" /\ ctl'.pc = "scan_wait"
  PROVE  StationInv'
<1> DEFINE n == Len(chip.todo) + 1
<1>1. [id |-> id, to |-> "ctl", net |-> net, key |-> NoKey] \in Request
  BY DEF Request, CtlRequests, KeyValues
<1>2. /\ IsChip(chip') /\ chip'.link = chip.link /\ chip'.key = chip.key
      /\ chip'.ap = chip.ap /\ chip'.ptk = chip.ptk /\ chip'.made = chip.made
      /\ DOMAIN chip'.todo = DOMAIN chip.todo \cup {n}
      /\ chip'.todo[n].id = id
      /\ \A k \in DOMAIN chip.todo : chip'.todo[k] = chip.todo[k]
  BY <1>1, SendIs DEF StationInv, StationTypes
<1> HIDE DEF n
<1>3. StationTypes' /\ rxd.pc # "wait"
  BY <1>2 DEF StationInv, StationTypes, LockTypes, FrameKept, CtlWaits, NoLock
<1>4. KeysMade'
  BY <1>2 DEF StationInv, KeysMade, Made
<1>5. AnswersCome' /\ Apart'
  BY <1>2, <1>3 DEF StationInv, AnswersCome, Apart, Asked
<1>6. ASSUME ~late' PROVE OneRequest' /\ OneReply' /\ LinkKnown'
  <2>1. /\ \A k \in DOMAIN chip.todo : chip.todo[k].id \notin CtlRequests
        /\ \A k \in DOMAIN msgs : msgs[k].id \notin CtlReplies
    BY <1>6, NothingOfCtl
  <2>2. OneRequest'
    BY <1>2, <2>1 DEF OneRequest, Requests, CtlRequests
  <2>3. ctl.pc = "disconnect_send" => ~g_wifi.confirmed
    BY DEF StationInv, Apart
  <2>4. OneReply'
    BY <1>2, <2>1, <2>3 DEF OneReply, Asked, CtlReplies, CtlRequests
  <2>5. LinkKnown'
    BY <1>2, <1>6 DEF StationInv, LinkKnown, Joined, Queued
  <2> QED
    BY <2>2, <2>4, <2>5
<1> QED
  BY <1>3, <1>4, <1>5, <1>6 DEF StationInv

LEMMA CtlSendKeeps == ASSUME StationInv, CtlSend PROVE StationInv'
<1>1. /\ msg_lock = NoLock /\ msg_lock' = "ctl" /\ IsCtl(ctl)
      /\ UNCHANGED <<msgs, air, g_wifi, wlan0, rxd, late>>
  BY DEF CtlSend, StationInv, StationTypes
<1>2. CASE /\ ctl.pc = "connect_send" /\ lmac_send("CONNECT", "ctl", ctl.net, NoKey)
           /\ ctl' = [ctl EXCEPT !.pc = "connect_wait", !.cfm = FALSE]
  <2>1. /\ IsCtl(ctl') /\ ctl'.was = ctl.was /\ ctl'.pc = "connect_wait" /\ ~ctl'.cfm
        /\ ctl'.wiped = ctl.wiped /\ ctl.net \in Nets \cup {NoNet}
    BY <1>1, <1>2 DEF IsCtl, CtlWaits
  <2> QED
    BY <1>1, <1>2, <2>1, CtlAsks DEF CtlWaits
<1>3. CASE /\ ctl.pc = "disconnect_send" /\ lmac_send("DISCONNECT", "ctl", NoNet, NoKey)
           /\ ToDo("disconnect_wait")
  <2>1. /\ IsCtl(ctl') /\ ctl'.was = ctl.was /\ ctl'.pc = "disconnect_wait"
        /\ ctl'.wiped = ctl.wiped
    BY <1>1, <1>3 DEF IsCtl, CtlWaits, ToDo
  <2> QED
    BY <1>1, <1>3, <2>1, CtlAsks DEF CtlWaits
<1>4. CASE ctl.pc = "scan" /\ lmac_send("SCAN", "ctl", NoNet, NoKey) /\ ToDo("scan_wait")
  <2>1. /\ IsCtl(ctl') /\ ctl'.was = ctl.was /\ ctl'.pc = "scan_wait"
        /\ ctl'.wiped = ctl.wiped
    BY <1>1, <1>4 DEF IsCtl, CtlWaits, ToDo
  <2> QED
    BY <1>1, <1>4, <2>1, CtlAsks DEF CtlWaits
<1> QED
  BY <1>2, <1>3, <1>4 DEF CtlSend

(* The receive thread takes the endpoint for one exchange. *)
LEMMA RxSendKeeps == ASSUME StationInv, RxSend PROVE StationInv'
<1> DEFINE n == Len(chip.todo) + 1
<1>1. /\ msg_lock = NoLock /\ msg_lock' = "rx" /\ rxd.pc \in Exchanges /\ ctl.pc \notin CtlWaits
      /\ UNCHANGED <<msgs, air, g_wifi, wlan0, ctl, late>> /\ IsRxd(rxd) /\ IsDriver(g_wifi)
  BY DEF RxSend, StationInv, StationTypes, LockTypes, NoLock
<1>2. lmac_send(rxd.pc, "rx", NoNet, rxd.key)
  BY DEF RxSend
<1>3. [id |-> rxd.pc, to |-> "rx", net |-> NoNet, key |-> rxd.key] \in Request
  BY <1>1 DEF Request, IsRxd
<1>4. /\ IsChip(chip') /\ chip'.link = chip.link /\ chip'.key = chip.key
      /\ chip'.ap = chip.ap /\ chip'.ptk = chip.ptk /\ chip'.made = chip.made
      /\ DOMAIN chip'.todo = DOMAIN chip.todo \cup {n}
      /\ chip'.todo[n] = [id |-> rxd.pc, to |-> "rx", net |-> NoNet, key |-> rxd.key]
      /\ \A k \in DOMAIN chip.todo : chip'.todo[k] = chip.todo[k]
  BY <1>2, <1>3, SendIs DEF StationInv, StationTypes
<1> HIDE DEF n
<1>5. IsRxd(rxd') /\ rxd'.pc = "wait" /\ rxd'.what = rxd.pc
  BY <1>1 DEF RxSend, IsRxd, KeyValues
<1>6. StationTypes'
  BY <1>1, <1>4, <1>5 DEF StationInv, StationTypes, LockTypes, FrameKept, NoLock
<1>7. KeysMade'
  BY <1>1, <1>4, <1>5 DEF StationInv, KeysMade, Made
<1>8. AnswersCome' /\ Apart'
  BY <1>1, <1>4, <1>5 DEF StationInv, AnswersCome, Apart, Asked, CtlWaits
<1>9. ASSUME ~late' PROVE OneRequest' /\ OneReply' /\ LinkKnown'
  <2>1. /\ \A k \in DOMAIN chip.todo : chip.todo[k].id \notin CtlRequests
        /\ \A k \in DOMAIN msgs : msgs[k].id \notin CtlReplies
    BY <1>1, <1>9, NothingOfCtl
  <2>2. \A k \in DOMAIN chip'.todo : chip'.todo[k].id \notin CtlRequests
    BY <1>1, <1>4, <2>1 DEF CtlRequests, Exchanges
  <2>3. OneRequest'
    BY <2>2 DEF OneRequest
  <2>4. OneReply'
    BY <1>1, <2>1, <2>2 DEF OneReply, Asked, CtlReplies, CtlRequests
  <2>5. LinkKnown'
    BY <1>1, <1>4, <1>9 DEF StationInv, LinkKnown, Joined, Queued
  <2> QED
    BY <2>3, <2>4, <2>5
<1> QED
  BY <1>6, <1>7, <1>8, <1>9 DEF StationInv

(* Its request does not leave. *)
LEMMA RxSendFailsKeeps == ASSUME StationInv, RxSendFails PROVE StationInv'
<1>1. /\ rxd.pc \in Exchanges /\ IsRxd(rxd) /\ KeysMade /\ FrameKept /\ StationTypes
      /\ UNCHANGED <<chip, msgs, air, g_wifi, wlan0, msg_lock, ctl, late>>
  BY DEF RxSendFails, StationInv, StationTypes
<1>2. IsRxd(rxd') /\ rxd'.pc = "poll" /\ rxd.pc # "wait"
  BY <1>1 DEF RxSendFails, IsRxd, KeyValues, Exchanges
<1>3. FrameKept' /\ KeysMade'
  BY <1>1, <1>2 DEF FrameKept, KeysMade, Made
<1> QED
  BY <1>1, <1>2, <1>3, RxMoves DEF StationTypes
-----------------------------------------------------------------------------
(* A message leaves the queue: what is true of the queue that remains. *)
LEMMA TakenIs ==
  ASSUME StationTypes, msgs # <<>>, msgs' = Tail(msgs)
  PROVE  /\ msgs' \in Seq(Message) /\ Head(msgs) = msgs[1] /\ Head(msgs) \in Message
         /\ 1 \in DOMAIN msgs
         /\ \A k \in DOMAIN msgs' : k + 1 \in DOMAIN msgs /\ k + 1 # 1 /\ msgs'[k] = msgs[k + 1]
         /\ \A k \in DOMAIN msgs \ {1} : k - 1 \in DOMAIN msgs' /\ msgs'[k - 1] = msgs[k]
         /\ \A k \in DOMAIN msgs : k \in Nat /\ k >= 1
         /\ \A k \in DOMAIN msgs' : k \in Nat
<1>1. msgs \in Seq(Message)
  BY DEF StationTypes
<1> QED
  BY <1>1, TailIs

(* The answer a thread waits for does not leave with another message. *)
LEMMA AnswersStay ==
  ASSUME StationInv, msgs # <<>>, msgs' = Tail(msgs), UNCHANGED chip,
         ctl'.pc = "connect_wait" => /\ ctl.pc = "connect_wait" /\ Head(msgs).id # "CONNECT_IND"
                                     /\ ~(Head(msgs).id = "CONNECT_CFM" /\ ~Head(msgs).ok),
         ctl'.pc = "disconnect_wait" => /\ ctl.pc = "disconnect_wait"
                                        /\ g_wifi.confirmed => g_wifi'.confirmed
                                        /\ Head(msgs).id = "DISCONNECT_CFM" => g_wifi'.confirmed,
         ctl'.pc = "scan_wait" => ctl.pc = "scan_wait" /\ Head(msgs).id # "SCAN",
         rxd'.pc = "wait" => UNCHANGED rxd /\ Head(msgs).id # Confirmed(rxd.what)
  PROVE  AnswersCome'
<1>1. /\ Head(msgs) = msgs[1]
      /\ \A k \in DOMAIN msgs \ {1} : k - 1 \in DOMAIN msgs' /\ msgs'[k - 1] = msgs[k]
  BY TakenIs DEF StationInv
<1>2. ASSUME NEW id, Queued(id), Head(msgs).id # id PROVE \E j \in DOMAIN msgs' : msgs'[j].id = id
  BY <1>1, <1>2 DEF Queued
<1>3. ASSUME Refused, ~(Head(msgs).id = "CONNECT_CFM" /\ ~Head(msgs).ok)
      PROVE  Refused'
  BY <1>1, <1>3 DEF Refused
<1>4. ASSUME ctl'.pc = "connect_wait"
      PROVE  (Asked({"CONNECT", "JOIN"}) \/ Queued("CONNECT_IND") \/ Refused)'
  <2>1. /\ ctl.pc = "connect_wait" /\ Head(msgs).id # "CONNECT_IND"
        /\ ~(Head(msgs).id = "CONNECT_CFM" /\ ~Head(msgs).ok)
    BY <1>4
  <2>2. Asked({"CONNECT", "JOIN"}) \/ Queued("CONNECT_IND") \/ Refused
    BY <2>1 DEF StationInv, AnswersCome
  <2>3. ASSUME Asked({"CONNECT", "JOIN"}) PROVE Asked({"CONNECT", "JOIN"})'
    BY <2>3 DEF Asked
  <2>4. ASSUME Queued("CONNECT_IND") PROVE Queued("CONNECT_IND")'
    BY <1>2, <2>1, <2>4 DEF Queued
  <2>5. ASSUME Refused PROVE Refused'
    BY <1>3, <2>1, <2>5
  <2> QED
    BY <2>2, <2>3, <2>4, <2>5
<1>5. ASSUME ctl'.pc = "scan_wait" PROVE (Asked({"SCAN"}) \/ Queued("SCAN"))'
  BY <1>2, <1>5 DEF StationInv, AnswersCome, Asked, Queued
<1>6. ASSUME ctl'.pc = "disconnect_wait"
      PROVE  (g_wifi.confirmed \/ Asked({"DISCONNECT"}) \/ Queued("DISCONNECT_CFM"))'
  <2>1. /\ g_wifi.confirmed => g_wifi'.confirmed
        /\ Head(msgs).id = "DISCONNECT_CFM" => g_wifi'.confirmed
        /\ g_wifi.confirmed \/ Asked({"DISCONNECT"}) \/ Queued("DISCONNECT_CFM")
    BY <1>6 DEF StationInv, AnswersCome
  <2>2. ASSUME Asked({"DISCONNECT"}) PROVE Asked({"DISCONNECT"})'
    BY <2>2 DEF Asked
  <2>3. ASSUME Queued("DISCONNECT_CFM"), Head(msgs).id # "DISCONNECT_CFM"
        PROVE  Queued("DISCONNECT_CFM")'
    BY <1>2, <2>3 DEF Queued
  <2> QED
    BY <2>1, <2>2, <2>3
<1>7. ASSUME rxd'.pc = "wait" PROVE (Asked({rxd.what}) \/ Queued(Confirmed(rxd.what)))'
  <2>1. PICK what, cfm : what = rxd.what /\ cfm = Confirmed(rxd.what)
    OBVIOUS
  <2>2. /\ rxd'.what = what /\ Confirmed(rxd.what)' = cfm /\ Head(msgs).id # cfm
        /\ Asked({what}) \/ Queued(cfm)
    BY <1>7, <2>1 DEF StationInv, AnswersCome, Confirmed
  <2>3. ASSUME Asked({what}) PROVE Asked({what})'
    BY <2>3 DEF Asked
  <2>4. ASSUME Queued(cfm) PROVE Queued(cfm)'
    BY <1>2, <2>2, <2>4 DEF Queued
  <2> QED
    BY <2>2, <2>3, <2>4
<1> QED
  BY <1>4, <1>5, <1>6, <1>7 DEF AnswersCome

(* Taking a message tells nothing of a link that is not known already, but   *)
(* the one that says the station has joined.                                 *)
LEMMA LinkStaysKnown ==
  ASSUME StationInv, ~late, msgs # <<>>, msgs' = Tail(msgs), UNCHANGED chip,
         ~(Head(msgs).id = "CONNECT_IND" /\ Head(msgs).ok) \/ g_wifi'.associated,
         \/ g_wifi'.associated \/ ~g_wifi.associated
         \/ Head(msgs).id = "DISCONNECT_IND" /\ ~Joined
  PROVE  LinkKnown'
<1>1. /\ Head(msgs) = msgs[1] /\ 1 \in DOMAIN msgs
      /\ \A k \in DOMAIN msgs' : k + 1 \in DOMAIN msgs /\ k + 1 # 1 /\ msgs'[k] = msgs[k + 1]
      /\ \A k \in DOMAIN msgs \ {1} : k - 1 \in DOMAIN msgs' /\ msgs'[k - 1] = msgs[k]
      /\ \A k \in DOMAIN msgs' : k \in Nat
  BY TakenIs DEF StationInv
<1>2. LinkKnown
  BY DEF StationInv
<1>3. ASSUME NEW j \in DOMAIN msgs', NEW k \in DOMAIN msgs',
             msgs'[j].id = "DISCONNECT_IND", msgs'[k].id = "DISCONNECT_IND"
      PROVE  j = k
  <2>1. j + 1 = k + 1
    BY <1>1, <1>2, <1>3 DEF LinkKnown
  <2> QED
    BY <1>1, <2>1
<1>4. ASSUME NEW k \in DOMAIN msgs', msgs'[k].id = "DISCONNECT_IND"
      PROVE  Queued("DISCONNECT_IND") /\ Head(msgs).id # "DISCONNECT_IND"
  BY <1>1, <1>2, <1>4 DEF LinkKnown, Queued
<1>5. chip.link # NoNet => \A k \in DOMAIN msgs' : msgs'[k].id # "DISCONNECT_IND"
  BY <1>2, <1>4 DEF LinkKnown
<1>6. ASSUME ~g_wifi'.associated, ~Joined'
      PROVE  chip.link = NoNet /\ \A k \in DOMAIN msgs' : msgs'[k].id # "DISCONNECT_IND"
  <2>1. ~Joined
    <3> SUFFICES ASSUME NEW k \in DOMAIN msgs, msgs[k].id = "CONNECT_IND", msgs[k].ok PROVE FALSE
      BY DEF Joined
    <3>1. CASE k = 1
      BY <1>1, <1>6, <3>1
    <3>2. CASE k # 1
      <4>1. k - 1 \in DOMAIN msgs' /\ msgs'[k - 1] = msgs[k]
        BY <1>1, <3>2
      <4> QED
        BY <1>6, <4>1 DEF Joined
    <3> QED
      BY <3>1, <3>2
  <2>2. CASE ~g_wifi.associated
    BY <1>2, <1>4, <2>1, <2>2 DEF LinkKnown
  <2>3. CASE Head(msgs).id = "DISCONNECT_IND"
    <3>1. Queued("DISCONNECT_IND")
      BY <1>1, <2>3 DEF Queued
    <3> QED
      BY <1>2, <1>4, <2>3, <3>1 DEF LinkKnown
  <2> QED
    BY <1>6, <2>2, <2>3
<1> QED
  BY <1>3, <1>5, <1>6 DEF LinkKnown, Queued

(* Nor does a message that is not the thread's own change what it waits for. *)
LEMMA RepliesStay ==
  ASSUME StationInv, ~late, msgs # <<>>, msgs' = Tail(msgs), UNCHANGED chip,
         UNCHANGED ctl, Head(msgs).id \notin CtlReplies, g_wifi'.confirmed = g_wifi.confirmed
  PROVE  OneRequest' /\ OneReply'
<1>1. /\ Head(msgs) = msgs[1] /\ 1 \in DOMAIN msgs
      /\ \A k \in DOMAIN msgs' : k + 1 \in DOMAIN msgs /\ k + 1 # 1 /\ msgs'[k] = msgs[k + 1]
      /\ \A k \in DOMAIN msgs \ {1} : k - 1 \in DOMAIN msgs' /\ msgs'[k - 1] = msgs[k]
      /\ \A k \in DOMAIN msgs' : k \in Nat
      /\ \A k \in DOMAIN msgs : k \in Nat
  BY TakenIs DEF StationInv
<1>2. OneRequest /\ OneReply
  BY DEF StationInv
<1>3. OneRequest'
  BY <1>2 DEF OneRequest
<1>4. \A k \in DOMAIN msgs' : msgs'[k].id \in CtlReplies => msgs'[k].id \in Replies(ctl.pc)
  BY <1>1, <1>2 DEF OneReply
<1>5. ASSUME NEW j \in DOMAIN msgs', NEW k \in DOMAIN msgs',
             msgs'[j].id \in CtlReplies, msgs'[j].id = msgs'[k].id
      PROVE  j = k
  <2>1. j + 1 = k + 1
    BY <1>1, <1>2, <1>5 DEF OneReply
  <2> QED
    BY <1>1, <2>1
<1>6. ASSUME NEW k \in DOMAIN msgs', msgs'[k].id = "CONNECT_IND", ~ctl.cfm
      PROVE  \E j \in DOMAIN msgs' : j < k /\ msgs'[j].id = "CONNECT_CFM"
  <2>1. k + 1 \in DOMAIN msgs /\ msgs[k + 1].id = "CONNECT_IND"
    BY <1>1, <1>6
  <2>2. PICK j \in DOMAIN msgs : j < k + 1 /\ msgs[j].id = "CONNECT_CFM"
    BY <1>2, <1>6, <2>1 DEF OneReply
  <2>3. j # 1 /\ j - 1 \in DOMAIN msgs' /\ msgs'[j - 1].id = "CONNECT_CFM"
    BY <1>1, <2>2 DEF CtlReplies
  <2>4. j - 1 < k
    BY <1>1, <2>2
  <2> QED
    BY <2>3, <2>4
<1>7. ASSUME NEW k \in DOMAIN msgs'
      PROVE  /\ msgs'[k].id \in {"CONNECT_IND", "DISCONNECT_CFM", "SCAN"} => ~Asked(CtlRequests)
             /\ msgs'[k].id = "CONNECT_CFM" => msgs'[k].ok /\ ~ctl.cfm /\ ~Asked({"CONNECT"})
             /\ msgs'[k].id = "DISCONNECT_CFM" => ~g_wifi.confirmed
  BY <1>1, <1>2 DEF OneReply
<1>8. Queued("CONNECT_CFM") => \E k \in DOMAIN msgs' : msgs'[k].id = "CONNECT_CFM"
  BY <1>1 DEF Queued, CtlReplies
<1>9. /\ Asked({"CONNECT"}) => ~ctl.cfm
      /\ Asked({"JOIN"}) => ctl.cfm \/ Queued("CONNECT_CFM")
      /\ Asked({"DISCONNECT"}) => ~g_wifi.confirmed
  BY <1>2 DEF OneReply
<1>10. OneReply'
  BY <1>4, <1>5, <1>6, <1>7, <1>8, <1>9 DEF OneReply, Asked, Queued
<1> QED
  BY <1>3, <1>10
-----------------------------------------------------------------------------
(* The waits of the commands. *)
LEMMA WritersTypes ==
  ASSUME StationInv, UNCHANGED <<chip, air, rxd, late>>, ctl.pc \in CtlWaits,
         msgs' \in Seq(Message), IsDriver(g_wifi'), KeyStays,
         IsCtl(ctl'), IsLan(wlan0'),
         \/ msg_lock' = NoLock /\ ctl'.pc \notin CtlWaits
         \/ UNCHANGED msg_lock /\ ctl'.pc \in CtlWaits
  PROVE  StationTypes' /\ KeysMade' /\ rxd.pc # "wait" /\ rxd'.pc # "wait"
<1>1. rxd.pc # "wait" /\ msg_lock = "ctl"
  BY DEF StationInv, StationTypes, LockTypes
<1>2. LockTypes'
  BY <1>1 DEF StationInv, StationTypes, LockTypes, NoLock
<1>3. StationTypes'
  BY <1>2 DEF StationInv, StationTypes, FrameKept
<1>4. KeysMade'
  BY KeysStay DEF StationInv
<1> QED
  BY <1>1, <1>3, <1>4

(* A connection is refused, or the joining fails. *)
LEMMA ConnectFails ==
  ASSUME StationInv, ctl.pc = "connect_wait", msgs # <<>>, msgs' = Tail(msgs),
         UNCHANGED <<chip, air, rxd, late, wlan0>>, msg_lock' = NoLock,
         NEW m, m = Head(msgs),
         (m.id = "CONNECT_CFM" /\ ~m.ok) \/ (m.id = "CONNECT_IND" /\ (~ctl.cfm \/ ~m.ok)),
         IsDriver(g_wifi'), IsCtl(ctl'), ctl'.pc = "idle",
         g_wifi'.associated = g_wifi.associated, KeyStays
  PROVE  StationInv'
<1>1. /\ msgs' \in Seq(Message) /\ m = msgs[1] /\ 1 \in DOMAIN msgs
      /\ \A k \in DOMAIN msgs' : k + 1 \in DOMAIN msgs /\ k + 1 # 1 /\ msgs'[k] = msgs[k + 1]
      /\ \A k \in DOMAIN msgs : k \in Nat /\ k >= 1
  BY TakenIs DEF StationInv
<1>2. StationTypes' /\ KeysMade' /\ rxd'.pc # "wait"
  BY <1>1, WritersTypes DEF StationInv, StationTypes, CtlWaits
<1>3. AnswersCome' /\ Apart'
  BY <1>2 DEF AnswersCome, Apart
<1>4. ASSUME ~late' PROVE OneRequest' /\ OneReply' /\ LinkKnown'
  <2>1. OneRequest /\ OneReply /\ ~late
    BY <1>4 DEF StationInv
  <2>2. m.id = "CONNECT_IND"
    BY <1>1, <2>1 DEF OneReply
  <2>3. ctl.cfm /\ ~Asked(CtlRequests)
    <3>1. ~\E j \in DOMAIN msgs : j < 1
      BY <1>1
    <3> QED
      BY <1>1, <2>1, <2>2, <3>1 DEF OneReply
  <2>4. ~m.ok
    BY <2>2, <2>3
  <2>5. \A k \in DOMAIN msgs' : msgs'[k].id \notin CtlReplies
    <3>1. ASSUME NEW k \in DOMAIN msgs, msgs[k].id \in CtlReplies PROVE k = 1
      <4>1. msgs[k].id \in {"CONNECT_CFM", "CONNECT_IND"}
        BY <2>1, <3>1 DEF OneReply, Replies
      <4>2. msgs[k].id # "CONNECT_CFM"
        BY <2>1, <2>3, <3>1 DEF OneReply
      <4> QED
        BY <1>1, <2>1, <2>2, <3>1, <4>1, <4>2 DEF OneReply
    <3> QED
      BY <1>1, <3>1
  <2>6. OneRequest'
    BY <2>3 DEF OneRequest, Asked
  <2>7. OneReply'
    BY <2>3, <2>5 DEF OneReply, Asked, CtlReplies, CtlRequests
  <2>8. LinkKnown'
    BY <2>1, <2>4, LinkStaysKnown
  <2> QED
    BY <2>6, <2>7, <2>8
<1> QED
  BY <1>2, <1>3, <1>4 DEF StationInv

(* The station joins. *)
LEMMA StationJoins ==
  ASSUME StationInv, ctl.pc = "connect_wait", msgs # <<>>, msgs' = Tail(msgs),
         UNCHANGED <<chip, air, rxd, late>>, msg_lock' = NoLock,
         Head(msgs).id = "CONNECT_IND", ctl.cfm,
         IsDriver(g_wifi'), IsCtl(ctl'), IsLan(wlan0'), ctl'.pc \in {"eapol_start", "idle"},
         g_wifi'.associated, KeyStays
  PROVE  StationInv'
<1>1. /\ msgs' \in Seq(Message) /\ Head(msgs) = msgs[1] /\ 1 \in DOMAIN msgs
      /\ \A k \in DOMAIN msgs' : k + 1 \in DOMAIN msgs /\ k + 1 # 1 /\ msgs'[k] = msgs[k + 1]
  BY TakenIs DEF StationInv
<1>2. StationTypes' /\ KeysMade' /\ rxd'.pc # "wait"
  BY <1>1, WritersTypes DEF CtlWaits
<1>3. AnswersCome' /\ Apart'
  BY <1>2 DEF AnswersCome, Apart
<1>4. ASSUME ~late' PROVE OneRequest' /\ OneReply' /\ LinkKnown'
  <2>1. OneRequest /\ OneReply /\ ~late
    BY <1>4 DEF StationInv
  <2>2. ~Asked(CtlRequests)
    BY <1>1, <2>1 DEF OneReply
  <2>3. \A k \in DOMAIN msgs' : msgs'[k].id \notin CtlReplies
    <3>1. ASSUME NEW k \in DOMAIN msgs, msgs[k].id \in CtlReplies PROVE k = 1
      <4>1. msgs[k].id \in {"CONNECT_CFM", "CONNECT_IND"}
        BY <2>1, <3>1 DEF OneReply, Replies
      <4>2. msgs[k].id # "CONNECT_CFM"
        BY <2>1, <3>1 DEF OneReply
      <4> QED
        BY <1>1, <2>1, <3>1, <4>1, <4>2 DEF OneReply
    <3> QED
      BY <1>1, <3>1
  <2>4. OneRequest'
    BY <2>2 DEF OneRequest, Asked
  <2>5. OneReply'
    BY <2>2, <2>3 DEF OneReply, Asked, CtlReplies, CtlRequests
  <2>6. LinkKnown'
    BY <2>1, LinkStaysKnown
  <2> QED
    BY <2>4, <2>5, <2>6
<1> QED
  BY <1>2, <1>3, <1>4 DEF StationInv

(* The connection is confirmed; the joining is still to come. *)
LEMMA ConnectConfirmed ==
  ASSUME StationInv, ctl.pc = "connect_wait", msgs # <<>>, msgs' = Tail(msgs),
         UNCHANGED <<chip, air, rxd, late, g_wifi, wlan0, msg_lock>>,
         Head(msgs).id = "CONNECT_CFM", Head(msgs).ok, ctl' = [ctl EXCEPT !.cfm = TRUE]
  PROVE  StationInv'
<1>1. /\ msgs' \in Seq(Message) /\ Head(msgs) = msgs[1] /\ 1 \in DOMAIN msgs
      /\ \A k \in DOMAIN msgs' : k + 1 \in DOMAIN msgs /\ k + 1 # 1 /\ msgs'[k] = msgs[k + 1]
      /\ \A k \in DOMAIN msgs' : k \in Nat
  BY TakenIs DEF StationInv
<1>2. /\ IsCtl(ctl') /\ ctl'.pc = "connect_wait" /\ ctl'.cfm /\ ctl'.was = ctl.was
      /\ ctl'.wiped = ctl.wiped
  BY DEF StationInv, StationTypes, IsCtl
<1>3. StationTypes' /\ KeysMade' /\ rxd'.pc # "wait"
  BY <1>1, <1>2, WritersTypes DEF StationInv, StationTypes, CtlWaits, KeyStays
<1>4. AnswersCome'
  BY <1>2, <1>3, AnswersStay
<1>5. Apart'
  BY <1>2 DEF StationInv, Apart
<1>6. ASSUME ~late' PROVE OneRequest' /\ OneReply' /\ LinkKnown'
  <2>1. OneRequest /\ OneReply /\ ~late
    BY <1>6 DEF StationInv
  <2>2. OneRequest'
    BY <1>2, <2>1 DEF OneRequest
  <2>3. \A k \in DOMAIN msgs' : msgs'[k].id # "CONNECT_CFM"
    BY <1>1, <2>1 DEF OneReply, CtlReplies
  <2>4. ~Asked({"CONNECT"})
    BY <1>1, <2>1 DEF OneReply
  <2>5. \A k \in DOMAIN msgs' : msgs'[k].id \in CtlReplies => msgs'[k].id \in Replies(ctl'.pc)
    BY <1>1, <1>2, <2>1 DEF OneReply
  <2>6. ASSUME NEW j \in DOMAIN msgs', NEW k \in DOMAIN msgs',
               msgs'[j].id \in CtlReplies, msgs'[j].id = msgs'[k].id
        PROVE  j = k
    <3>1. j + 1 = k + 1
      BY <1>1, <2>1, <2>6 DEF OneReply
    <3> QED
      BY <1>1, <3>1
  <2>7. ASSUME NEW k \in DOMAIN msgs'
        PROVE  /\ msgs'[k].id \in {"CONNECT_IND", "DISCONNECT_CFM", "SCAN"} => ~Asked(CtlRequests)
               /\ msgs'[k].id = "DISCONNECT_CFM" => ~g_wifi.confirmed
    BY <1>1, <2>1 DEF OneReply
  <2>8. Asked({"DISCONNECT"}) => ~g_wifi.confirmed
    BY <2>1 DEF OneReply
  <2>9. OneReply'
    BY <1>2, <2>3, <2>4, <2>5, <2>6, <2>7, <2>8 DEF OneReply, Asked
  <2>10. LinkKnown'
    BY <2>1, LinkStaysKnown
  <2> QED
    BY <2>2, <2>9, <2>10
<1> QED
  BY <1>3, <1>4, <1>5, <1>6 DEF StationInv

(* A message of somebody else arrives at a command that waits. *)
LEMMA CtlReadsOther ==
  ASSUME StationInv, ctl.pc \in {"connect_wait", "scan_wait"}, msgs # <<>>, msgs' = Tail(msgs),
         UNCHANGED <<chip, air, rxd, late, ctl, msg_lock>>, IsLan(wlan0'), IsDriver(g_wifi'),
         ctl.pc = "connect_wait" => Head(msgs).id \notin {"CONNECT_CFM", "CONNECT_IND"},
         ctl.pc = "scan_wait" => Head(msgs).id # "SCAN",
         g_wifi'.ptk = g_wifi.ptk, g_wifi'.confirmed = g_wifi.confirmed,
         g_wifi'.indicated = g_wifi.indicated,
         \/ g_wifi'.associated = g_wifi.associated
         \/ ctl.pc = "connect_wait" /\ ~g_wifi'.associated
  PROVE  StationInv'
<1>1. /\ msgs' \in Seq(Message) /\ Head(msgs) = msgs[1] /\ 1 \in DOMAIN msgs
  BY TakenIs DEF StationInv
<1>2. IsCtl(ctl) /\ Apart
  BY DEF StationInv, StationTypes
<1>3. StationTypes' /\ KeysMade' /\ rxd'.pc # "wait"
  BY <1>1, <1>2, WritersTypes DEF CtlWaits, KeyStays
<1>4. g_wifi'.associated = g_wifi.associated /\ Apart'
  BY <1>2 DEF Apart, StationInv, StationTypes, IsDriver
<1>5. AnswersCome'
  BY <1>3, AnswersStay
<1>6. ASSUME ~late' PROVE OneRequest' /\ OneReply' /\ LinkKnown'
  <2>1. OneReply /\ ~late
    BY <1>6 DEF StationInv
  <2>2. Head(msgs).id \notin CtlReplies
    BY <1>1, <2>1 DEF OneReply, Replies
  <2>3. OneRequest' /\ OneReply'
    BY <2>1, <2>2, RepliesStay
  <2>4. LinkKnown'
    BY <1>4, <2>1, <2>2, LinkStaysKnown DEF CtlReplies
  <2> QED
    BY <2>3, <2>4
<1> QED
  BY <1>3, <1>4, <1>5, <1>6 DEF StationInv

LEMMA LostIs ==
  ASSUME NEW g, IsDriver(g)
  PROVE  /\ IsDriver(Lost(g)) /\ ~Lost(g).associated /\ Lost(g).ptk = g.ptk
         /\ Lost(g).confirmed = g.confirmed /\ Lost(g).indicated = g.indicated
         /\ Lost(g).state = g.state
BY DEF Lost, IsDriver

LEMMA ConnectWaitKeeps == ASSUME StationInv, a733_wifi_associate PROVE StationInv'
<1> DEFINE m == Head(msgs)
<1>1. /\ ctl.pc = "connect_wait" /\ msgs # <<>> /\ msgs' = Tail(msgs)
      /\ UNCHANGED <<chip, air, rxd, dhcp, late, left>>
      /\ IsDriver(g_wifi) /\ IsCtl(ctl) /\ IsLan(wlan0)
  BY DEF a733_wifi_associate, StationInv, StationTypes
<1>2. m \in Message /\ m.net \in Nets \cup {NoNet}
  <2>1. m \in Message
    BY <1>1, TakenIs DEF StationInv
  <2> QED
    BY <2>1 DEF Message
<1> HIDE DEF m
<1>3. CASE /\ m.id = "CONNECT_CFM" /\ m.ok
           /\ ctl' = [ctl EXCEPT !.cfm = TRUE] /\ UNCHANGED <<g_wifi, wlan0, msg_lock>>
  BY <1>1, <1>3, ConnectConfirmed DEF m
<1>4. CASE /\ (m.id = "CONNECT_CFM" /\ ~m.ok) \/ (m.id = "CONNECT_IND" /\ (~ctl.cfm \/ ~m.ok))
           /\ Finish([g_wifi EXCEPT !.bssid = IF m.id = "CONNECT_IND" /\ ctl.cfm
                                              THEN m.net ELSE @], FALSE)
           /\ msg_lock' = NoLock /\ UNCHANGED wlan0
  <2>1. PICK g : g = [g_wifi EXCEPT !.bssid = IF m.id = "CONNECT_IND" /\ ctl.cfm
                                              THEN m.net ELSE @]
    OBVIOUS
  <2>2. IsDriver(g) /\ g.associated = g_wifi.associated /\ g.ptk = g_wifi.ptk
    BY <1>1, <1>2, <2>1 DEF IsDriver
  <2>3. /\ IsDriver(g_wifi') /\ IsCtl(ctl') /\ ctl'.pc = "idle"
        /\ g_wifi'.associated = g.associated /\ KeyStays
    BY <1>1, <1>4, <2>1, <2>2, FinishIs
  <2> QED
    BY <1>1, <1>4, <2>2, <2>3, ConnectFails DEF m
<1>5. CASE /\ m.id = "CONNECT_IND" /\ ctl.cfm /\ m.ok
           /\ g_wifi' = [g_wifi EXCEPT !.associated = TRUE, !.bssid = m.net]
           /\ Carrier(TRUE) /\ msg_lock' = NoLock
           /\ ToDo(IF ctl.cmd = "wpa2" THEN "eapol_start" ELSE "idle")
  <2>1. IsDriver(g_wifi') /\ g_wifi'.associated /\ g_wifi'.ptk = g_wifi.ptk
    BY <1>1, <1>2, <1>5 DEF IsDriver
  <2>2. IsCtl(ctl') /\ ctl'.pc \in {"eapol_start", "idle"} /\ ctl'.wiped = ctl.wiped
    BY <1>1, <1>5 DEF IsCtl, ToDo
  <2>3. IsLan(wlan0')
    BY <1>1, <1>5 DEF IsLan, Carrier
  <2> QED
    BY <1>1, <1>5, <2>1, <2>2, <2>3, StationJoins DEF m, KeyStays
<1>6. CASE /\ m.id = "DISCONNECT_IND"
           /\ g_wifi' = [Lost(g_wifi) EXCEPT !.state = IF g_wifi.configured THEN 1 ELSE @]
           /\ Carrier(FALSE) /\ UNCHANGED <<ctl, msg_lock>>
  <2>1. PICK s \in 0 .. 3 : g_wifi' = [Lost(g_wifi) EXCEPT !.state = s]
    <3>1. Lost(g_wifi).state \in 0 .. 3
      BY <1>1, LostIs DEF IsDriver
    <3>2. (IF g_wifi.configured THEN 1 ELSE Lost(g_wifi).state) \in 0 .. 3
      BY <3>1
    <3> QED
      BY <1>6, <3>2
  <2>2. /\ IsDriver(g_wifi') /\ ~g_wifi'.associated /\ g_wifi'.ptk = g_wifi.ptk
        /\ g_wifi'.confirmed = g_wifi.confirmed /\ g_wifi'.indicated = g_wifi.indicated
    <3>1. /\ IsDriver(Lost(g_wifi)) /\ ~Lost(g_wifi).associated /\ Lost(g_wifi).ptk = g_wifi.ptk
          /\ Lost(g_wifi).confirmed = g_wifi.confirmed
          /\ Lost(g_wifi).indicated = g_wifi.indicated
      BY <1>1, LostIs
    <3> QED
      BY <2>1, <3>1 DEF IsDriver
  <2>3. IsLan(wlan0')
    BY <1>1, <1>6 DEF IsLan, Carrier
  <2> QED
    BY <1>1, <1>6, <2>2, <2>3, CtlReadsOther DEF m
<1>7. CASE /\ m.id \notin {"CONNECT_CFM", "CONNECT_IND", "DISCONNECT_IND"}
           /\ UNCHANGED <<g_wifi, wlan0, msg_lock, ctl>>
  BY <1>1, <1>7, CtlReadsOther DEF m
<1> QED
  BY <1>3, <1>4, <1>5, <1>6, <1>7 DEF a733_wifi_associate, m

(* The disconnection has come to its end. *)
LEMMA TeardownEnds ==
  ASSUME StationInv, ctl.pc = "disconnect_wait", msgs # <<>>, msgs' = Tail(msgs),
         UNCHANGED <<chip, air, rxd, late>>, IsLan(wlan0'),
         IsDriver(g_wifi'), KeyStays,
         g_wifi'.confirmed = (g_wifi.confirmed \/ Head(msgs).id = "DISCONNECT_CFM"),
         g_wifi'.indicated = (g_wifi.indicated \/ Head(msgs).id = "DISCONNECT_IND"),
         g_wifi'.associated = (g_wifi.associated /\ Head(msgs).id # "DISCONNECT_IND"),
         g_wifi'.confirmed /\ (g_wifi'.indicated \/ ~ctl.was),
         msg_lock' = NoLock, IsCtl(ctl'), ctl'.pc = "disconnect_done", ctl'.was = ctl.was
  PROVE  StationInv'
<1>1. /\ msgs' \in Seq(Message) /\ Head(msgs) = msgs[1] /\ 1 \in DOMAIN msgs
      /\ \A k \in DOMAIN msgs' : k + 1 \in DOMAIN msgs /\ k + 1 # 1 /\ msgs'[k] = msgs[k + 1]
  BY TakenIs DEF StationInv
<1>2. StationTypes' /\ KeysMade' /\ rxd'.pc # "wait"
  BY <1>1, WritersTypes DEF CtlWaits
<1>3. AnswersCome' /\ Apart'
  BY <1>2 DEF AnswersCome, Apart, StationInv
<1>4. ASSUME ~late' PROVE OneRequest' /\ OneReply' /\ LinkKnown'
  <2>1. OneRequest /\ OneReply /\ ~late
    BY <1>4 DEF StationInv
  <2>2. \A k \in DOMAIN chip.todo : chip.todo[k].id \notin CtlRequests
    <3>1. CASE g_wifi.confirmed
      BY <2>1, <3>1 DEF OneRequest, OneReply, Requests, Asked
    <3>2. CASE Head(msgs).id = "DISCONNECT_CFM"
      BY <1>1, <2>1, <3>2 DEF OneReply, Asked
    <3> QED
      BY <3>1, <3>2
  <2>3. \A k \in DOMAIN msgs : msgs[k].id \in CtlReplies => msgs[k].id = "DISCONNECT_CFM"
    BY <2>1 DEF OneReply, Replies
  <2>4. \A k \in DOMAIN msgs' : msgs'[k].id \notin CtlReplies
    <3>1. CASE g_wifi.confirmed
      BY <1>1, <2>1, <2>3, <3>1 DEF OneReply
    <3>2. CASE Head(msgs).id = "DISCONNECT_CFM"
      BY <1>1, <2>1, <2>3, <3>2 DEF OneReply, CtlReplies
    <3> QED
      BY <3>1, <3>2
  <2>5. OneRequest'
    BY <2>2 DEF OneRequest
  <2>6. OneReply'
    BY <2>2, <2>4 DEF OneReply, Asked, CtlReplies, CtlRequests
  <2>7. ~Joined
    BY <2>3 DEF Joined, CtlReplies
  <2>8. LinkKnown'
    BY <1>1, <2>1, <2>3, <2>7, LinkStaysKnown DEF CtlReplies
  <2> QED
    BY <2>5, <2>6, <2>8
<1> QED
  BY <1>2, <1>3, <1>4 DEF StationInv

(* The disconnection goes on. *)
LEMMA TeardownGoesOn ==
  ASSUME StationInv, ctl.pc = "disconnect_wait", msgs # <<>>, msgs' = Tail(msgs),
         UNCHANGED <<chip, air, rxd, late, ctl, msg_lock>>, IsLan(wlan0'),
         IsDriver(g_wifi'), g_wifi'.ptk = g_wifi.ptk,
         g_wifi'.confirmed = (g_wifi.confirmed \/ Head(msgs).id = "DISCONNECT_CFM"),
         g_wifi'.indicated = (g_wifi.indicated \/ Head(msgs).id = "DISCONNECT_IND"),
         g_wifi'.associated = (g_wifi.associated /\ Head(msgs).id # "DISCONNECT_IND")
  PROVE  StationInv'
<1>1. /\ msgs' \in Seq(Message) /\ Head(msgs) = msgs[1] /\ 1 \in DOMAIN msgs
      /\ \A k \in DOMAIN msgs' : k + 1 \in DOMAIN msgs /\ k + 1 # 1 /\ msgs'[k] = msgs[k + 1]
  BY TakenIs DEF StationInv
<1>2. StationTypes' /\ KeysMade' /\ rxd'.pc # "wait"
  BY <1>1, WritersTypes DEF CtlWaits, StationInv, StationTypes, KeyStays
<1>3. AnswersCome' /\ Apart'
  <2>1. AnswersCome'
    BY <1>2, AnswersStay
  <2> QED
    BY <1>2, <2>1 DEF Apart, StationInv
<1>4. ASSUME ~late' PROVE OneRequest' /\ OneReply' /\ LinkKnown'
  <2>1. OneRequest /\ OneReply /\ ~late
    BY <1>4 DEF StationInv
  <2>2. \A k \in DOMAIN msgs : msgs[k].id \in CtlReplies => msgs[k].id = "DISCONNECT_CFM"
    BY <2>1 DEF OneReply, Replies
  <2>3. ~Joined
    BY <2>2 DEF Joined, CtlReplies
  <2>4. LinkKnown'
    BY <1>1, <2>1, <2>2, <2>3, LinkStaysKnown DEF CtlReplies
  <2>5. CASE Head(msgs).id \notin CtlReplies
    <3>1. g_wifi'.confirmed = g_wifi.confirmed
      BY <2>5 DEF CtlReplies, StationInv, StationTypes, IsDriver
    <3> QED
      BY <2>1, <2>4, <2>5, <3>1, RepliesStay
  <2>6. CASE Head(msgs).id = "DISCONNECT_CFM"
    <3>1. \A k \in DOMAIN msgs' : msgs'[k].id \notin CtlReplies
      BY <1>1, <2>1, <2>2, <2>6 DEF OneReply, CtlReplies
    <3>2. \A k \in DOMAIN chip.todo : chip.todo[k].id \notin CtlRequests
      BY <1>1, <2>1, <2>6 DEF OneReply, Asked
    <3>3. OneRequest'
      BY <3>2 DEF OneRequest
    <3>4. OneReply'
      BY <3>1, <3>2 DEF OneReply, Asked, CtlReplies, CtlRequests
    <3> QED
      BY <2>4, <3>3, <3>4
  <2> QED
    BY <1>1, <2>2, <2>5, <2>6
<1> QED
  BY <1>2, <1>3, <1>4 DEF StationInv

(* One message of the loop that waits for the end of a disconnection. *)
Heard ==
  [g_wifi EXCEPT !.confirmed  = @ \/ Head(msgs).id = "DISCONNECT_CFM",
                 !.indicated  = @ \/ Head(msgs).id = "DISCONNECT_IND",
                 !.associated = @ /\ Head(msgs).id # "DISCONNECT_IND"]

LEMMA HeardIs ==
  ASSUME IsDriver(g_wifi)
  PROVE  /\ IsDriver(Heard) /\ Heard.ptk = g_wifi.ptk
         /\ Heard.confirmed = (g_wifi.confirmed \/ Head(msgs).id = "DISCONNECT_CFM")
         /\ Heard.indicated = (g_wifi.indicated \/ Head(msgs).id = "DISCONNECT_IND")
         /\ Heard.associated = (g_wifi.associated /\ Head(msgs).id # "DISCONNECT_IND")
<1>1. PICK c \in BOOLEAN : c = (g_wifi.confirmed \/ Head(msgs).id = "DISCONNECT_CFM")
  BY DEF IsDriver
<1>2. PICK i \in BOOLEAN : i = (g_wifi.indicated \/ Head(msgs).id = "DISCONNECT_IND")
  BY DEF IsDriver
<1>3. PICK a \in BOOLEAN : a = (g_wifi.associated /\ Head(msgs).id # "DISCONNECT_IND")
  BY DEF IsDriver
<1>4. PICK h : h = [g_wifi EXCEPT !.confirmed = c, !.indicated = i, !.associated = a]
  OBVIOUS
<1>5. Heard = h
  BY <1>1, <1>2, <1>3, <1>4 DEF Heard
<1>6. IsDriver(h) /\ h.ptk = g_wifi.ptk /\ h.confirmed = c /\ h.indicated = i /\ h.associated = a
  BY <1>4 DEF IsDriver
<1> QED
  BY <1>1, <1>2, <1>3, <1>5, <1>6

LEMMA DisconnectWaitKeeps == ASSUME StationInv, a733_wifi_disconnect PROVE StationInv'
<1>1. /\ ctl.pc = "disconnect_wait" /\ msgs # <<>> /\ msgs' = Tail(msgs)
      /\ UNCHANGED <<chip, air, rxd, dhcp, late, left>>
      /\ IsDriver(g_wifi) /\ IsCtl(ctl) /\ IsLan(wlan0)
  BY DEF a733_wifi_disconnect, StationInv, StationTypes
<1>2. IsLan(wlan0')
  BY <1>1 DEF a733_wifi_disconnect, IsLan
<1>3. /\ IsDriver(Heard) /\ Heard.ptk = g_wifi.ptk
      /\ Heard.confirmed = (g_wifi.confirmed \/ Head(msgs).id = "DISCONNECT_CFM")
      /\ Heard.indicated = (g_wifi.indicated \/ Head(msgs).id = "DISCONNECT_IND")
      /\ Heard.associated = (g_wifi.associated /\ Head(msgs).id # "DISCONNECT_IND")
  BY <1>1, HeardIs
<1>4. \/ /\ TornDown(Heard) /\ g_wifi' = [Heard EXCEPT !.bssid = NoNet]
         /\ ToDo("disconnect_done") /\ msg_lock' = NoLock
      \/ ~TornDown(Heard) /\ g_wifi' = Heard /\ UNCHANGED <<ctl, msg_lock>>
  BY DEF a733_wifi_disconnect, Heard
<1>5. CASE /\ TornDown(Heard) /\ g_wifi' = [Heard EXCEPT !.bssid = NoNet]
           /\ ToDo("disconnect_done") /\ msg_lock' = NoLock
  <2>1. PICK h : h = Heard
    OBVIOUS
  <2>2. /\ IsDriver(g_wifi') /\ g_wifi'.ptk = h.ptk /\ g_wifi'.confirmed = h.confirmed
        /\ g_wifi'.indicated = h.indicated /\ g_wifi'.associated = h.associated
    BY <1>3, <1>5, <2>1 DEF IsDriver
  <2>3. h.confirmed /\ (h.indicated \/ ~ctl.was)
    BY <1>5, <2>1 DEF TornDown
  <2>4. /\ IsCtl(ctl') /\ ctl'.pc = "disconnect_done" /\ ctl'.was = ctl.was
        /\ ctl'.wiped = ctl.wiped
    BY <1>1, <1>5 DEF ToDo, IsCtl
  <2>5. KeyStays
    BY <1>3, <2>1, <2>2, <2>4 DEF KeyStays
  <2> QED
    BY <1>1, <1>2, <1>3, <1>5, <2>1, <2>2, <2>3, <2>4, <2>5, TeardownEnds
<1>6. CASE g_wifi' = Heard /\ UNCHANGED <<ctl, msg_lock>>
  BY <1>1, <1>2, <1>3, <1>6, TeardownGoesOn
<1> QED
  BY <1>4, <1>5, <1>6

LEMMA ScanKeeps == ASSUME StationInv, scan_once PROVE StationInv'
<1>1. /\ ctl.pc = "scan_wait" /\ msgs # <<>> /\ msgs' = Tail(msgs)
      /\ UNCHANGED <<chip, air, g_wifi, wlan0, rxd, dhcp, late, left>>
      /\ IsDriver(g_wifi) /\ IsCtl(ctl) /\ IsLan(wlan0)
  BY DEF scan_once, StationInv, StationTypes
<1>2. /\ msgs' \in Seq(Message) /\ Head(msgs) = msgs[1] /\ 1 \in DOMAIN msgs
      /\ \A k \in DOMAIN msgs' : k + 1 \in DOMAIN msgs /\ k + 1 # 1 /\ msgs'[k] = msgs[k + 1]
  BY <1>1, TakenIs DEF StationInv
<1>3. CASE Head(msgs).id = "SCAN"
  <2>1. IsCtl(ctl') /\ ctl'.pc = "idle" /\ msg_lock' = NoLock /\ ctl'.wiped = ctl.wiped
    BY <1>1, <1>3 DEF scan_once, ToDo, IsCtl
  <2>2. StationTypes' /\ KeysMade' /\ rxd'.pc # "wait"
    BY <1>1, <1>2, <2>1, WritersTypes DEF CtlWaits, KeyStays
  <2>3. AnswersCome' /\ Apart'
    BY <2>1, <2>2 DEF AnswersCome, Apart
  <2>4. ASSUME ~late' PROVE OneRequest' /\ OneReply' /\ LinkKnown'
    <3>1. OneReply /\ ~late
      BY <1>1, <2>4 DEF StationInv
    <3>2. \A k \in DOMAIN chip.todo : chip.todo[k].id \notin CtlRequests
      BY <1>2, <1>3, <3>1 DEF OneReply, Asked
    <3>3. \A k \in DOMAIN msgs : msgs[k].id \in CtlReplies => msgs[k].id = "SCAN"
      BY <1>1, <3>1 DEF OneReply, Replies
    <3>4. \A k \in DOMAIN msgs' : msgs'[k].id \notin CtlReplies
      BY <1>2, <1>3, <3>1, <3>3 DEF OneReply, CtlReplies
    <3>5. OneRequest'
      BY <1>1, <3>2 DEF OneRequest
    <3>6. OneReply'
      BY <1>1, <3>2, <3>4 DEF OneReply, Asked, CtlReplies, CtlRequests
    <3>7. LinkKnown'
      BY <1>1, <1>3, <3>1, LinkStaysKnown
    <3> QED
      BY <3>5, <3>6, <3>7
  <2> QED
    BY <2>2, <2>3, <2>4 DEF StationInv
<1>4. CASE Head(msgs).id # "SCAN"
  <2>1. UNCHANGED <<ctl, msg_lock>>
    BY <1>4 DEF scan_once
  <2> QED
    BY <1>1, <1>4, <2>1, CtlReadsOther
<1> QED
  BY <1>3, <1>4

(* What the firmware still has to answer is a command's, or the handshake's;  *)
(* so is what it has answered.                                               *)
LEMMA RequestsAre ==
  ASSUME StationTypes, NEW k \in DOMAIN chip.todo
  PROVE  chip.todo[k].to = "ctl" <=> chip.todo[k].id \in CtlRequests
<1>1. chip.todo \in Seq(Request)
  BY DEF StationTypes, IsChip
<1>2. chip.todo[k] \in Request
  BY <1>1, LenProperties, ElementOfSeq
<1> QED
  BY <1>2 DEF Request, CtlRequests, Exchanges

LEMMA MessagesAre ==
  ASSUME StationTypes, NEW k \in DOMAIN msgs
  PROVE  msgs[k].to = "ctl" <=> msgs[k].id \in CtlReplies
<1>1. msgs[k] \in Message
  BY LenProperties, ElementOfSeq DEF StationTypes
<1> QED
  BY <1>1 DEF Message, CtlReplies, Exchanges

(* A wait ends, with nothing of a command on its way or with late set. *)
LEMMA CtlGivesUpKeeps == ASSUME StationInv, CtlGivesUp PROVE StationInv'
<1>1. /\ ctl.pc \in CtlWaits /\ msg_lock' = NoLock /\ Fail
      /\ late' = (late \/ Owed) /\ UNCHANGED <<chip, msgs, air, rxd>>
      /\ IsDriver(g_wifi) /\ IsCtl(ctl) /\ IsLan(wlan0) /\ late \in BOOLEAN
  BY DEF CtlGivesUp, StationInv, StationTypes
<1>2. /\ IsDriver(g_wifi') /\ IsCtl(ctl') /\ IsLan(wlan0') /\ ctl'.pc = "idle"
      /\ g_wifi'.associated = g_wifi.associated /\ KeyStays
  BY <1>1, FailIs
<1>3. rxd.pc # "wait" /\ late' \in BOOLEAN
  BY <1>1 DEF StationInv, StationTypes, LockTypes
<1>4. StationTypes' /\ KeysMade'
  <2>1. LockTypes'
    BY <1>1, <1>2, <1>3 DEF LockTypes, NoLock, CtlWaits
  <2>2. StationTypes'
    BY <1>1, <1>2, <1>3, <2>1 DEF StationInv, StationTypes, FrameKept
  <2>3. KeysMade'
    BY <1>1, <1>2, KeysStay DEF StationInv
  <2> QED
    BY <2>2, <2>3
<1>5. AnswersCome' /\ Apart'
  BY <1>1, <1>2, <1>3 DEF AnswersCome, Apart
<1>6. ASSUME ~late' PROVE OneRequest' /\ OneReply' /\ LinkKnown'
  <2>1. ~late /\ ~Owed
    BY <1>1, <1>6
  <2>2. \A k \in DOMAIN chip.todo : chip.todo[k].id \notin CtlRequests
    BY <2>1, RequestsAre DEF Owed, StationInv
  <2>3. \A k \in DOMAIN msgs : msgs[k].id \notin CtlReplies
    BY <2>1, MessagesAre DEF Owed, StationInv
  <2>4. OneRequest'
    BY <1>1, <2>2 DEF OneRequest
  <2>5. OneReply'
    BY <1>1, <2>2, <2>3 DEF OneReply, Asked, CtlReplies, CtlRequests
  <2>6. LinkKnown'
    BY <1>1, <1>2, <2>1 DEF StationInv, LinkKnown, Joined, Queued
  <2> QED
    BY <2>4, <2>5, <2>6
<1> QED
  BY <1>4, <1>5, <1>6 DEF StationInv
-----------------------------------------------------------------------------
(* The receive thread. *)
LEMMA RxGivesUpKeeps == ASSUME StationInv, RxGivesUp PROVE StationInv'
<1>1. /\ rxd.pc = "wait" /\ msg_lock' = NoLock
      /\ UNCHANGED <<chip, msgs, air, g_wifi, wlan0, ctl, late>>
      /\ IsRxd(rxd) /\ ctl.pc \notin CtlWaits
  BY DEF RxGivesUp, StationInv, StationTypes, LockTypes
<1>2. IsRxd(rxd') /\ rxd'.pc = "poll"
  BY <1>1 DEF RxGivesUp, RxTo, IsRxd
<1>3. StationTypes'
  <2>1. LockTypes' /\ FrameKept'
    BY <1>1, <1>2 DEF LockTypes, FrameKept, NoLock
  <2> QED
    BY <1>1, <1>2, <2>1 DEF StationInv, StationTypes
<1>4. KeysMade'
  BY <1>1, <1>2 DEF StationInv, KeysMade, Made
<1>5. AnswersCome' /\ Apart'
  BY <1>1, <1>2 DEF StationInv, AnswersCome, Apart, CtlWaits
<1>6. ASSUME ~late' PROVE OneRequest' /\ OneReply' /\ LinkKnown'
  BY <1>1, <1>6 DEF StationInv, OneRequest, OneReply, LinkKnown, Joined, Queued, Asked
<1> QED
  BY <1>3, <1>4, <1>5, <1>6 DEF StationInv

(* While no command waits, the receive thread may drop whatever comes.       *)
LEMMA RxReads ==
  ASSUME StationInv, ctl.pc \notin CtlWaits, msgs # <<>>, msgs' = Tail(msgs),
         UNCHANGED <<chip, air, ctl, late, wlan0>>,
         msg_lock' \in {NoLock, "rx"}, msg_lock' = "rx" <=> rxd'.pc = "wait",
         IsRxd(rxd'), rxd'.pc \notin {"M2", "M4", "key", "KEY_ADD"},
         rxd'.pc = "wait" => UNCHANGED rxd /\ Head(msgs).id # Confirmed(rxd.what),
         IsDriver(g_wifi'), g_wifi'.ptk = g_wifi.ptk, g_wifi'.confirmed = g_wifi.confirmed,
         \/ g_wifi'.associated = g_wifi.associated /\ g_wifi'.indicated = g_wifi.indicated
         \/ Head(msgs).id = "DISCONNECT_IND" /\ ~g_wifi'.associated /\ g_wifi'.indicated
  PROVE  StationInv'
<1>1. /\ msgs' \in Seq(Message) /\ Head(msgs) = msgs[1] /\ 1 \in DOMAIN msgs
      /\ \A k \in DOMAIN msgs' : k + 1 \in DOMAIN msgs /\ msgs'[k] = msgs[k + 1]
  BY TakenIs DEF StationInv
<1>2. StationTypes'
  <2>1. LockTypes' /\ FrameKept'
    BY DEF LockTypes, FrameKept, NoLock
  <2> QED
    BY <1>1, <2>1 DEF StationInv, StationTypes
<1>3. KeysMade'
  BY DEF StationInv, KeysMade, Made
<1>4. AnswersCome'
  BY AnswersStay DEF CtlWaits
<1>5. Apart'
  BY DEF StationInv, Apart, CtlWaits
<1>6. ASSUME ~late' PROVE OneRequest' /\ OneReply' /\ LinkKnown'
  <2>1. /\ ~late
        /\ \A k \in DOMAIN chip.todo : chip.todo[k].id \notin CtlRequests
        /\ \A k \in DOMAIN msgs : msgs[k].id \notin CtlReplies
    BY <1>6, NothingOfCtl
  <2>2. \A k \in DOMAIN msgs' : msgs'[k].id \notin CtlReplies
    BY <1>1, <2>1
  <2>3. OneRequest'
    BY <2>1 DEF OneRequest
  <2>4. OneReply'
    BY <2>1, <2>2 DEF OneReply, Asked, CtlReplies, CtlRequests
  <2>5. ~Joined /\ Head(msgs).id # "CONNECT_IND"
    BY <1>1, <2>1 DEF Joined, CtlReplies
  <2>6. LinkKnown'
    BY <2>1, <2>5, LinkStaysKnown
  <2> QED
    BY <2>3, <2>4, <2>6
<1> QED
  BY <1>2, <1>3, <1>4, <1>5, <1>6 DEF StationInv

LEMMA PollKeeps == ASSUME StationInv, message_poll PROVE StationInv'
<1>1. /\ rxd.pc = "poll" /\ msg_lock = NoLock /\ msgs # <<>> /\ msgs' = Tail(msgs)
      /\ UNCHANGED <<chip, air, wlan0, msg_lock, ctl, dhcp, late, left>>
      /\ IsDriver(g_wifi) /\ IsRxd(rxd) /\ ctl.pc \notin CtlWaits
  BY DEF message_poll, StationInv, StationTypes, LockTypes, NoLock
<1>2. CASE Head(msgs).id = "DISCONNECT_IND"
  <2>1. IsRxd(rxd') /\ rxd'.pc = "carrier"
    BY <1>1, <1>2 DEF message_poll, RxTo, IsRxd
  <2>2. /\ IsDriver(Lost(g_wifi)) /\ ~Lost(g_wifi).associated /\ Lost(g_wifi).ptk = g_wifi.ptk
        /\ Lost(g_wifi).confirmed = g_wifi.confirmed
    BY <1>1, LostIs
  <2>3. g_wifi' = [Lost(g_wifi) EXCEPT !.indicated = TRUE, !.state = 1]
    BY <1>2 DEF message_poll
  <2>4. /\ IsDriver(g_wifi') /\ ~g_wifi'.associated /\ g_wifi'.indicated
        /\ g_wifi'.ptk = g_wifi.ptk /\ g_wifi'.confirmed = g_wifi.confirmed
    BY <2>2, <2>3 DEF IsDriver
  <2> QED
    BY <1>1, <1>2, <2>1, <2>4, RxReads DEF NoLock
<1>3. CASE Head(msgs).id # "DISCONNECT_IND"
  <2>1. UNCHANGED <<g_wifi, rxd>>
    BY <1>3 DEF message_poll
  <2> QED
    BY <1>1, <2>1, RxReads DEF NoLock
<1> QED
  BY <1>2, <1>3

LEMMA ExchangeKeeps == ASSUME StationInv, lmac_exchange PROVE StationInv'
<1>1. /\ rxd.pc = "wait" /\ msg_lock = "rx" /\ msgs # <<>> /\ msgs' = Tail(msgs)
      /\ UNCHANGED <<chip, air, wlan0, ctl, dhcp, late, left>>
      /\ IsDriver(g_wifi) /\ IsRxd(rxd) /\ ctl.pc \notin CtlWaits
  BY DEF lmac_exchange, StationInv, StationTypes, LockTypes
<1>2. CASE Head(msgs).id # Confirmed(rxd.what)
  <2>1. UNCHANGED <<g_wifi, rxd, msg_lock>>
    BY <1>2 DEF lmac_exchange
  <2> QED
    BY <1>1, <1>2, <2>1, RxReads
<1>3. CASE Head(msgs).id = Confirmed(rxd.what)
  <2>1. msg_lock' = NoLock
    BY <1>3 DEF lmac_exchange
  <2>2. IsRxd(rxd') /\ rxd'.pc \in {"poll", "GROUP_ADD", "PORT", "dhcp_start"}
    BY <1>1, <1>3 DEF lmac_exchange, RxTo, IsRxd, Exchanges
  <2>3. \/ g_wifi' = g_wifi
        \/ g_wifi' = [g_wifi EXCEPT !.pairwise = TRUE]
        \/ g_wifi' = [g_wifi EXCEPT !.group = TRUE]
        \/ g_wifi' = [g_wifi EXCEPT !.port = TRUE, !.state = 3]
    BY <1>3 DEF lmac_exchange
  <2>4. /\ IsDriver(g_wifi') /\ g_wifi'.ptk = g_wifi.ptk /\ g_wifi'.confirmed = g_wifi.confirmed
        /\ g_wifi'.associated = g_wifi.associated /\ g_wifi'.indicated = g_wifi.indicated
    <3>1. CASE g_wifi' = [g_wifi EXCEPT !.pairwise = TRUE]
      BY <1>1, <3>1 DEF IsDriver
    <3>2. CASE g_wifi' = [g_wifi EXCEPT !.group = TRUE]
      BY <1>1, <3>2 DEF IsDriver
    <3>3. CASE g_wifi' = [g_wifi EXCEPT !.port = TRUE, !.state = 3]
      BY <1>1, <3>3 DEF IsDriver
    <3> QED
      BY <1>1, <2>3, <3>1, <3>2, <3>3
  <2> QED
    BY <1>1, <2>1, <2>2, <2>4, RxReads DEF NoLock
<1> QED
  BY <1>2, <1>3

LEMMA AirTailIs ==
  ASSUME air \in Seq(EapolFrame), air # <<>>
  PROVE  /\ Tail(air) \in Seq(EapolFrame) /\ Head(air) = air[1] /\ 1 \in DOMAIN air
         /\ air[1] \in EapolFrame
         /\ \A k \in DOMAIN Tail(air) : k + 1 \in DOMAIN air /\ Tail(air)[k] = air[k + 1]
BY TailIs

LEMMA M1Keeps == ASSUME StationInv, EapolM1 PROVE StationInv'
<1>1. /\ rxd.pc = "poll" /\ air # <<>> /\ air \in Seq(EapolFrame)
      /\ UNCHANGED <<chip, msgs, wlan0, msg_lock, ctl, dhcp, late, left>>
      /\ IsDriver(g_wifi) /\ IsRxd(rxd) /\ IsChip(chip) /\ IsLan(wlan0) /\ KeysMade
  BY DEF EapolM1, StationInv, StationTypes
<1>2. /\ Tail(air) \in Seq(EapolFrame) /\ Head(air) = air[1] /\ 1 \in DOMAIN air
      /\ air[1] \in EapolFrame
      /\ \A k \in DOMAIN Tail(air) : k + 1 \in DOMAIN air /\ Tail(air)[k] = air[k + 1]
  BY <1>1, AirTailIs
<1>3. CASE /\ g_wifi' = [g_wifi EXCEPT !.replay = Head(air).replay, !.nonce = @ + 1,
                           !.ptk = wpa_derive_ptk(Head(air).session)]
           /\ rxd' = [rxd EXCEPT !.pc = "M2"] /\ UNCHANGED air
  <2>1. Head(air).replay \in Nat /\ Head(air).session \in Nat
    BY <1>2 DEF EapolFrame
  <2>2. wpa_derive_ptk(Head(air).session) \in Pairs /\ g_wifi.nonce + 1 \in Nat
    BY <1>1, <2>1 DEF wpa_derive_ptk, Pairs, IsDriver
  <2>3. /\ IsDriver(g_wifi') /\ g_wifi'.associated = g_wifi.associated
        /\ g_wifi'.confirmed = g_wifi.confirmed /\ g_wifi'.indicated = g_wifi.indicated
    BY <1>1, <1>3, <2>1, <2>2 DEF IsDriver
  <2>4. IsRxd(rxd') /\ rxd'.pc = "M2"
    BY <1>1, <1>3 DEF IsRxd
  <2>5. FrameKept' /\ KeysMade'
    BY <1>1, <1>3, <2>4 DEF FrameKept, KeysMade, Made
  <2> QED
    BY <1>1, <1>3, <2>3, <2>4, <2>5, RxMoves
<1>4. CASE air' = Tail(air) /\ UNCHANGED <<g_wifi, rxd>>
  <2>1. FrameKept' /\ KeysMade'
    BY <1>1, <1>2, <1>4 DEF FrameKept, KeysMade, Made
  <2> QED
    BY <1>1, <1>2, <1>4, <2>1, RxMoves
<1> QED
  BY <1>3, <1>4 DEF EapolM1

(* Message 2 reaches the access point, or not. *)
LEMMA TakesM2Is ==
  ASSUME StationTypes, KeysMade, air # <<>>, UNCHANGED ctl,
         \/ ApTakesM2(g_wifi.ptk[1], Head(air).replay, g_wifi.ptk, g_wifi.pmk)
         \/ air' = Tail(air) /\ UNCHANGED chip
  PROVE  /\ IsChip(chip') /\ air' \in Seq(EapolFrame) /\ chip'.todo = chip.todo
         /\ chip'.link = chip.link /\ chip'.key = chip.key
         /\ chip.made \subseteq chip'.made
         /\ chip'.ap = "M3" => chip'.ptk \in Made'
         /\ \A k \in DOMAIN air' : air'[k].m = "M3" => air'[k].ptk \in Made'
<1>1. /\ Tail(air) \in Seq(EapolFrame)
      /\ \A k \in DOMAIN Tail(air) : k + 1 \in DOMAIN air /\ Tail(air)[k] = air[k + 1]
      /\ IsChip(chip)
  BY AirTailIs DEF StationTypes
<1>2. CASE air' = Tail(air) /\ UNCHANGED chip
  BY <1>1, <1>2 DEF KeysMade, Made
<1> DEFINE ptk == g_wifi.ptk
<1>3. ptk \in Pairs
  BY DEF StationTypes, IsDriver
<1>4. CASE /\ chip' = [chip EXCEPT !.ap = "M3", !.ptk = ptk, !.counter = @ + 1,
                                   !.made = @ \cup {ptk}]
           /\ air' = Append(Tail(air), Frame("M3", chip.counter + 1, ptk))
  <2> DEFINE f == Frame("M3", chip.counter + 1, ptk)
  <2>1. chip.counter + 1 \in Nat /\ chip.session \in Nat /\ chip.made \cup {ptk} \subseteq Pairs
    BY <1>1, <1>3 DEF IsChip
  <2>2. f \in EapolFrame /\ f.ptk = ptk
    BY <1>3, <2>1 DEF Frame, EapolFrame
  <2>3. /\ IsChip(chip') /\ chip'.todo = chip.todo /\ chip'.link = chip.link
        /\ chip'.key = chip.key /\ chip'.made = chip.made \cup {ptk} /\ chip'.ptk = ptk
    BY <1>1, <1>3, <1>4, <2>1 DEF IsChip
  <2> HIDE DEF f
  <2>4. /\ air' \in Seq(EapolFrame) /\ DOMAIN air' = DOMAIN Tail(air) \cup {Len(Tail(air)) + 1}
        /\ air'[Len(Tail(air)) + 1] = f
        /\ \A k \in DOMAIN Tail(air) : air'[k] = Tail(air)[k]
    <3>1. air' = Append(Tail(air), f)
      BY <1>4 DEF f
    <3> QED
      BY <1>1, <2>2, <3>1, AppendIs
  <2>5. \A k \in DOMAIN air' : air'[k].m = "M3" => air'[k].ptk \in Made'
    BY <1>1, <2>2, <2>3, <2>4 DEF KeysMade, Made
  <2> QED
    BY <2>3, <2>4, <2>5 DEF Made
<1> QED
  BY <1>2, <1>4 DEF ApTakesM2

LEMMA M2Keeps == ASSUME StationInv, EapolM2 PROVE StationInv'
<1>1. /\ rxd.pc = "M2" /\ air # <<>>
      /\ UNCHANGED <<msgs, wlan0, msg_lock, ctl, dhcp, late, left>>
      /\ IsDriver(g_wifi) /\ IsRxd(rxd) /\ IsLan(wlan0) /\ KeysMade /\ StationTypes
  BY DEF EapolM2, StationInv, StationTypes, FrameKept
<1>2. g_wifi' = g_wifi \/ g_wifi' = [g_wifi EXCEPT !.state = 2]
  BY DEF EapolM2
<1>3. /\ IsDriver(g_wifi') /\ g_wifi'.associated = g_wifi.associated
      /\ g_wifi'.confirmed = g_wifi.confirmed /\ g_wifi'.indicated = g_wifi.indicated
  BY <1>1, <1>2 DEF IsDriver
<1>4. /\ IsChip(chip') /\ air' \in Seq(EapolFrame) /\ chip'.todo = chip.todo
      /\ chip'.link = chip.link /\ chip'.key = chip.key
      /\ chip.made \subseteq chip'.made
      /\ chip'.ap = "M3" => chip'.ptk \in Made'
      /\ \A k \in DOMAIN air' : air'[k].m = "M3" => air'[k].ptk \in Made'
  <2>1. \/ ApTakesM2(g_wifi.ptk[1], Head(air).replay, g_wifi.ptk, g_wifi.pmk)
        \/ air' = Tail(air) /\ UNCHANGED chip
    BY DEF EapolM2
  <2> QED
    BY <1>1, <2>1, TakesM2Is
<1>5. IsRxd(rxd') /\ rxd'.pc = "poll"
  BY <1>1 DEF EapolM2, RxTo, IsRxd
<1>6. FrameKept' /\ KeysMade'
  BY <1>1, <1>4, <1>5 DEF FrameKept, KeysMade, Made
<1> QED
  BY <1>1, <1>3, <1>4, <1>5, <1>6, RxMoves

LEMMA M3Keeps == ASSUME StationInv, EapolM3 PROVE StationInv'
<1>1. /\ rxd.pc = "poll" /\ air # <<>> /\ Head(air).m = "M3" /\ air' = Tail(air)
      /\ UNCHANGED <<chip, msgs, wlan0, msg_lock, ctl, dhcp, late, left>>
      /\ IsDriver(g_wifi) /\ IsRxd(rxd) /\ IsChip(chip) /\ IsLan(wlan0) /\ KeysMade
      /\ air \in Seq(EapolFrame)
  BY DEF EapolM3, StationInv, StationTypes
<1>2. /\ air' \in Seq(EapolFrame) /\ Head(air) = air[1] /\ 1 \in DOMAIN air
      /\ air[1] \in EapolFrame
      /\ \A k \in DOMAIN air' : k + 1 \in DOMAIN air /\ air'[k] = air[k + 1]
  BY <1>1, AirTailIs
<1>3. CASE /\ Believed(Head(air))
           /\ g_wifi' = [g_wifi EXCEPT !.replay = Head(air).replay]
           /\ rxd' = [rxd EXCEPT !.pc = "M4", !.session = Head(air).session]
  <2>1. Head(air).replay \in Nat /\ Head(air).session \in Nat
    BY <1>2 DEF EapolFrame
  <2>2. /\ IsDriver(g_wifi') /\ g_wifi'.associated = g_wifi.associated
        /\ g_wifi'.confirmed = g_wifi.confirmed /\ g_wifi'.indicated = g_wifi.indicated
        /\ g_wifi'.ptk = g_wifi.ptk
    BY <1>1, <1>3, <2>1 DEF IsDriver
  <2>3. IsRxd(rxd') /\ rxd'.pc = "M4"
    BY <1>1, <1>3, <2>1 DEF IsRxd
  <2>4. g_wifi.ptk \in Made
    BY <1>1, <1>2, <1>3 DEF Believed, wpa_mic_valid, KeysMade
  <2>5. FrameKept' /\ KeysMade'
    BY <1>1, <1>2, <2>2, <2>3, <2>4 DEF FrameKept, KeysMade, Made
  <2> QED
    BY <1>1, <1>2, <2>2, <2>3, <2>5, RxMoves
<1>4. CASE UNCHANGED <<g_wifi, rxd>>
  <2>1. FrameKept' /\ KeysMade'
    BY <1>1, <1>2, <1>4 DEF FrameKept, KeysMade, Made
  <2> QED
    BY <1>1, <1>2, <1>4, <2>1, RxMoves
<1> QED
  BY <1>3, <1>4 DEF EapolM3

LEMMA M4Keeps == ASSUME StationInv, EapolM4 PROVE StationInv'
<1>1. /\ rxd.pc = "M4" /\ air \in Seq(EapolFrame)
      /\ UNCHANGED <<msgs, air, g_wifi, wlan0, msg_lock, ctl, dhcp, late, left>>
      /\ IsDriver(g_wifi) /\ IsRxd(rxd) /\ IsChip(chip) /\ IsLan(wlan0) /\ KeysMade
  BY DEF EapolM4, StationInv, StationTypes
<1>2. IsRxd(rxd') /\ rxd'.pc \in {"key", "poll"}
  BY <1>1 DEF EapolM4, RxTo, IsRxd, Exchanges
<1>3. chip' = chip \/ chip' = [chip EXCEPT !.ap = "done"]
  BY DEF EapolM4, ApTakesM4
<1>4. /\ IsChip(chip') /\ chip'.todo = chip.todo /\ chip'.link = chip.link
      /\ chip'.key = chip.key /\ chip'.made = chip.made /\ chip'.ptk = chip.ptk
      /\ chip'.ap = "M3" => chip.ap = "M3"
  BY <1>1, <1>3 DEF IsChip
<1>5. FrameKept' /\ KeysMade'
  BY <1>1, <1>2, <1>4 DEF FrameKept, KeysMade, Made
<1> QED
  BY <1>1, <1>2, <1>4, <1>5, RxMoves

(* The key is copied for the request that installs it. *)
LEMMA RxReadsKeyKeeps == ASSUME StationInv, RxReadsKey PROVE StationInv'
<1>1. /\ rxd.pc = "key" /\ air \in Seq(EapolFrame)
      /\ UNCHANGED <<chip, msgs, air, g_wifi, wlan0, msg_lock, ctl, dhcp, late, left>>
      /\ IsDriver(g_wifi) /\ IsRxd(rxd) /\ IsChip(chip) /\ IsLan(wlan0) /\ KeysMade
  BY DEF RxReadsKey, StationInv, StationTypes
<1>2. IsRxd(rxd') /\ rxd'.pc = "KEY_ADD" /\ rxd'.key = g_wifi.ptk
  <2>1. g_wifi.ptk \in KeyValues
    BY <1>1 DEF IsDriver, KeyValues
  <2> QED
    BY <1>1, <2>1 DEF RxReadsKey, IsRxd, Exchanges
<1>3. FrameKept' /\ KeysMade'
  BY <1>1, <1>2 DEF FrameKept, KeysMade, Made
<1> QED
  BY <1>1, <1>2, <1>3, RxMoves

(* The carrier, the start of the client and the client itself. *)
LEMMA SmallStepsKeep ==
  ASSUME StationInv, RxCarrier \/ dhcp_start \/ RxStoresPid \/ DhcpStep
  PROVE  StationInv'
<1>1. /\ UNCHANGED <<chip, msgs, air, msg_lock, ctl, late>> /\ air \in Seq(EapolFrame)
      /\ IsDriver(g_wifi) /\ IsRxd(rxd) /\ IsChip(chip) /\ IsLan(wlan0) /\ KeysMade /\ FrameKept
  BY DEF RxCarrier, dhcp_start, RxStoresPid, DhcpStep, DhcpClears, DhcpAnswered, DhcpFails,
         DhcpStores, DhcpEnds, StationInv, StationTypes
<1>2. \/ rxd' = rxd
      \/ /\ rxd.pc # "wait"
         /\ rxd' = [rxd EXCEPT !.pc = "poll"] \/ rxd' = [rxd EXCEPT !.pc = "dhcp_pid"]
  BY DEF RxCarrier, dhcp_start, RxStoresPid, DhcpStep, DhcpClears, DhcpAnswered, DhcpFails,
         DhcpStores, DhcpEnds, RxTo
<1>3. IsRxd(rxd') /\ (rxd' = rxd \/ (rxd.pc # "wait" /\ rxd'.pc \in {"poll", "dhcp_pid"}))
  BY <1>1, <1>2 DEF IsRxd
<1>4. \/ g_wifi' = g_wifi
      \/ g_wifi' = [g_wifi EXCEPT !.dhcp_pid = TRUE]
      \/ g_wifi' = [g_wifi EXCEPT !.dhcp_pid = FALSE]
  BY DEF RxCarrier, dhcp_start, RxStoresPid, DhcpStep, DhcpClears, DhcpAnswered, DhcpFails,
         DhcpStores, DhcpEnds
<1>5. /\ IsDriver(g_wifi') /\ g_wifi'.associated = g_wifi.associated
      /\ g_wifi'.confirmed = g_wifi.confirmed /\ g_wifi'.indicated = g_wifi.indicated
      /\ g_wifi'.ptk = g_wifi.ptk
  BY <1>1, <1>4 DEF IsDriver
<1>6. IsLan(wlan0')
  BY <1>1 DEF RxCarrier, dhcp_start, RxStoresPid, DhcpStep, DhcpClears, DhcpAnswered, DhcpFails,
              DhcpStores, DhcpEnds, Carrier, IsLan
<1>7. FrameKept' /\ KeysMade'
  BY <1>1, <1>3, <1>5 DEF FrameKept, KeysMade, Made
<1> QED
  BY <1>1, <1>3, <1>5, <1>6, <1>7, RxMoves
-----------------------------------------------------------------------------
(* The firmware answers its oldest request. *)
LEMMA ServedIs ==
  ASSUME StationTypes, chip.todo # <<>>
  PROVE  /\ chip.todo \in Seq(Request) /\ Tail(chip.todo) \in Seq(Request)
         /\ Head(chip.todo) = chip.todo[1] /\ 1 \in DOMAIN chip.todo
         /\ Head(chip.todo) \in Request
         /\ \A k \in DOMAIN Tail(chip.todo) :
              k + 1 \in DOMAIN chip.todo /\ k + 1 # 1 /\ Tail(chip.todo)[k] = chip.todo[k + 1]
         /\ \A k \in DOMAIN chip.todo \ {1} :
              k - 1 \in DOMAIN Tail(chip.todo) /\ Tail(chip.todo)[k - 1] = chip.todo[k]
         /\ \A k \in DOMAIN Tail(chip.todo) : k \in Nat
<1>1. chip.todo \in Seq(Request)
  BY DEF StationTypes, IsChip
<1> QED
  BY <1>1, TailIs

LEMMA MoreIs ==
  ASSUME msgs \in Seq(Message), NEW e \in Message, msgs' = Append(msgs, e)
  PROVE  /\ msgs' \in Seq(Message) /\ DOMAIN msgs' = DOMAIN msgs \cup {Len(msgs) + 1}
         /\ msgs'[Len(msgs) + 1] = e
         /\ \A k \in DOMAIN msgs : msgs'[k] = msgs[k] /\ k < Len(msgs) + 1 /\ k \in Nat
         /\ Len(msgs) \in Nat
<1>1. /\ Append(msgs, e) \in Seq(Message)
      /\ DOMAIN Append(msgs, e) = DOMAIN msgs \cup {Len(msgs) + 1}
      /\ Append(msgs, e)[Len(msgs) + 1] = e
      /\ \A k \in DOMAIN msgs :
           Append(msgs, e)[k] = msgs[k] /\ k < Len(msgs) + 1 /\ k \in Nat
      /\ Len(msgs) \in Nat
  BY AppendIs
<1> QED
  BY <1>1

(* What is left of the requests, and one more message, keep the answers to   *)
(* come when the message is the answer to the request that leaves.           *)
LEMMA AnswersFollow ==
  ASSUME StationInv, chip.todo # <<>>, chip'.todo = Tail(chip.todo),
         UNCHANGED <<ctl, rxd, g_wifi>>,
         NEW e, DOMAIN msgs \subseteq DOMAIN msgs',
         \A k \in DOMAIN msgs : msgs'[k] = msgs[k],
         NEW n \in DOMAIN msgs', msgs'[n] = e,
         Head(chip.todo).id \in {"CONNECT", "JOIN"} =>
            e.id = "CONNECT_IND" \/ (e.id = "CONNECT_CFM" /\ ~e.ok),
         Head(chip.todo).id = "DISCONNECT" => e.id = "DISCONNECT_CFM",
         Head(chip.todo).id \in {"SCAN"} \cup Exchanges => e.id = Confirmed(Head(chip.todo).id)
  PROVE  AnswersCome'
<1>1. \A k \in DOMAIN chip.todo \ {1} :
        k - 1 \in DOMAIN chip'.todo /\ chip'.todo[k - 1] = chip.todo[k]
  BY ServedIs DEF StationInv
<1>2. Head(chip.todo) = chip.todo[1]
  BY ServedIs DEF StationInv
<1>3. ASSUME ctl.pc = "connect_wait"
      PROVE  (Asked({"CONNECT", "JOIN"}) \/ Queued("CONNECT_IND") \/ Refused)'
  BY <1>1, <1>2, <1>3 DEF StationInv, AnswersCome, Asked, Queued, Refused
<1>4. ASSUME ctl.pc = "scan_wait" PROVE (Asked({"SCAN"}) \/ Queued("SCAN"))'
  BY <1>1, <1>2, <1>4 DEF StationInv, AnswersCome, Asked, Queued, Confirmed
<1>5. ASSUME ctl.pc = "disconnect_wait"
      PROVE  (g_wifi.confirmed \/ Asked({"DISCONNECT"}) \/ Queued("DISCONNECT_CFM"))'
  BY <1>1, <1>2, <1>5 DEF StationInv, AnswersCome, Asked, Queued
<1>6. ASSUME rxd.pc = "wait" PROVE (Asked({rxd.what}) \/ Queued(Confirmed(rxd.what)))'
  <2>1. PICK what, cfm : what = rxd.what /\ cfm = Confirmed(rxd.what)
    OBVIOUS
  <2>2. /\ what \in Exchanges /\ rxd'.what = what /\ Confirmed(rxd.what)' = cfm
        /\ Asked({what}) \/ Queued(cfm)
        /\ Head(chip.todo).id = what => e.id = cfm
    BY <1>6, <2>1 DEF StationInv, StationTypes, IsRxd, AnswersCome, Confirmed
  <2>3. CASE Asked({what})
    BY <1>1, <1>2, <2>2, <2>3 DEF Asked, Queued
  <2>4. CASE Queued(cfm)
    BY <2>2, <2>4 DEF Queued
  <2> QED
    BY <2>2, <2>3, <2>4
<1> QED
  BY <1>3, <1>4, <1>5, <1>6 DEF AnswersCome

(* One command's request at a time: none is left when the oldest was one.    *)
LEMMA LastRequest ==
  ASSUME StationInv, ~late, chip.todo # <<>>, Head(chip.todo).id \in CtlRequests
  PROVE  /\ \A k \in DOMAIN Tail(chip.todo) : Tail(chip.todo)[k].id \notin CtlRequests
         /\ Head(chip.todo).id \in Requests(ctl.pc)
         /\ Asked({Head(chip.todo).id}) /\ Asked(CtlRequests)
         /\ \A k \in DOMAIN chip.todo : chip.todo[k].id \in CtlRequests => k = 1
<1>1. OneRequest
  BY DEF StationInv
<1>2. /\ Head(chip.todo) = chip.todo[1] /\ 1 \in DOMAIN chip.todo
      /\ \A k \in DOMAIN Tail(chip.todo) :
              k + 1 \in DOMAIN chip.todo /\ k + 1 # 1 /\ Tail(chip.todo)[k] = chip.todo[k + 1]
  BY ServedIs DEF StationInv
<1>3. \A k \in DOMAIN chip.todo : chip.todo[k].id \in CtlRequests => k = 1
  BY <1>1, <1>2 DEF OneRequest
<1>4. \A k \in DOMAIN Tail(chip.todo) : Tail(chip.todo)[k].id \notin CtlRequests
  BY <1>2, <1>3
<1>5. Head(chip.todo).id \in Requests(ctl.pc)
  BY <1>1, <1>2 DEF OneRequest
<1>6. Asked({Head(chip.todo).id}) /\ Asked(CtlRequests)
  BY <1>2 DEF Asked
<1> QED
  BY <1>3, <1>4, <1>5, <1>6

(* What a step of the firmware has in common with every other.               *)
FwLeaves == UNCHANGED <<g_wifi, wlan0, msg_lock, ctl, rxd, late>>

LEMMA FwTypes ==
  ASSUME StationInv, FwLeaves, IsChip(chip'), msgs' \in Seq(Message), air' \in Seq(EapolFrame),
         air # <<>> => air' # <<>>
  PROVE  StationTypes' /\ Apart'
BY DEF FwLeaves, StationInv, StationTypes, LockTypes, FrameKept, Apart

(* A connection is refused. *)
LEMMA FwRefuses ==
  ASSUME StationInv, FwLeaves, chip.todo # <<>>, Head(chip.todo).id = "CONNECT",
         chip.link # NoNet, UNCHANGED air, chip' = [chip EXCEPT !.todo = Tail(@)],
         msgs' = Append(msgs, Msg("CONNECT_CFM", Head(chip.todo).to, Head(chip.todo).net, FALSE))
  PROVE  StationInv'
<1> DEFINE r == Head(chip.todo)
           e == Msg("CONNECT_CFM", r.to, r.net, FALSE)
<1>1. /\ Tail(chip.todo) \in Seq(Request) /\ r \in Request /\ IsChip(chip)
      /\ \A k \in DOMAIN Tail(chip.todo) :
              k + 1 \in DOMAIN chip.todo /\ Tail(chip.todo)[k] = chip.todo[k + 1]
  BY ServedIs DEF StationInv, StationTypes
<1>2. e \in Message /\ e.id = "CONNECT_CFM" /\ ~e.ok
  BY <1>1 DEF Request, Message, Msg, CtlReplies, Exchanges
<1> HIDE DEF e
<1>3. /\ msgs' \in Seq(Message) /\ DOMAIN msgs' = DOMAIN msgs \cup {Len(msgs) + 1}
      /\ msgs'[Len(msgs) + 1] = e /\ \A k \in DOMAIN msgs : msgs'[k] = msgs[k]
  <2>1. msgs \in Seq(Message) /\ msgs' = Append(msgs, e)
    BY DEF StationInv, StationTypes, e
  <2> QED
    BY <1>2, <2>1, MoreIs
<1>4. /\ IsChip(chip') /\ chip'.todo = Tail(chip.todo) /\ chip'.key = chip.key
      /\ chip'.ap = chip.ap /\ chip'.ptk = chip.ptk /\ chip'.made = chip.made
  BY <1>1 DEF IsChip
<1>5. StationTypes' /\ Apart'
  BY <1>3, <1>4, FwTypes DEF StationInv, StationTypes
<1>6. KeysMade'
  BY <1>1, <1>4 DEF StationInv, KeysMade, Made, FwLeaves
<1>7. AnswersCome'
  BY <1>2, <1>3, <1>4, AnswersFollow DEF FwLeaves, Exchanges
<1>8. late
  <2>1. SUFFICES ASSUME ~late PROVE FALSE
    OBVIOUS
  <2>2. OneReply /\ LinkKnown
    BY <2>1 DEF StationInv
  <2>3. ctl.pc = "connect_wait" /\ Asked(CtlRequests)
    BY <2>1, LastRequest DEF CtlRequests, Requests
  <2>4. ~g_wifi.associated /\ ~Joined
    BY <2>2, <2>3 DEF StationInv, Apart, OneReply, Joined
  <2> QED
    BY <2>2, <2>4 DEF LinkKnown
<1> QED
  BY <1>5, <1>6, <1>7, <1>8 DEF StationInv, FwLeaves

(* A connection is accepted; the joining takes the place of the request. *)
LEMMA FwAccepts ==
  ASSUME StationInv, FwLeaves, chip.todo # <<>>, Head(chip.todo).id = "CONNECT",
         UNCHANGED air,
         chip' = [chip EXCEPT !.todo = <<[Head(chip.todo) EXCEPT !.id = "JOIN"]>> \o Tail(@)],
         msgs' = Append(msgs, Msg("CONNECT_CFM", Head(chip.todo).to, Head(chip.todo).net, TRUE))
  PROVE  StationInv'
<1> DEFINE r == Head(chip.todo)
           e == Msg("CONNECT_CFM", r.to, r.net, TRUE)
           j == [r EXCEPT !.id = "JOIN"]
           n == Len(msgs) + 1
<1>1. /\ chip.todo \in Seq(Request) /\ r \in Request /\ IsChip(chip) /\ r = chip.todo[1]
      /\ 1 \in DOMAIN chip.todo
  BY ServedIs DEF StationInv, StationTypes
<1>2. e \in Message /\ e.id = "CONNECT_CFM" /\ e.ok
  BY <1>1 DEF Request, Message, Msg, CtlReplies, Exchanges
<1>3. j \in Request /\ j.id = "JOIN"
  BY <1>1 DEF Request, CtlRequests, Exchanges
<1> HIDE DEF e, j
<1>4. /\ msgs' \in Seq(Message) /\ DOMAIN msgs' = DOMAIN msgs \cup {n}
      /\ msgs'[n] = e /\ \A k \in DOMAIN msgs : msgs'[k] = msgs[k] /\ k < n /\ k \in Nat
      /\ n \in Nat
  <2>1. msgs \in Seq(Message) /\ msgs' = Append(msgs, e)
    BY DEF StationInv, StationTypes, e
  <2>2. /\ msgs' \in Seq(Message) /\ DOMAIN msgs' = DOMAIN msgs \cup {Len(msgs) + 1}
        /\ msgs'[Len(msgs) + 1] = e
        /\ \A k \in DOMAIN msgs : msgs'[k] = msgs[k] /\ k < Len(msgs) + 1 /\ k \in Nat
        /\ Len(msgs) \in Nat
    BY <1>2, <2>1, MoreIs
  <2>3. n \in Nat
    BY <2>2
  <2> QED
    BY <2>2, <2>3
<1> HIDE DEF n
<1>5. /\ chip'.todo \in Seq(Request) /\ DOMAIN chip'.todo = DOMAIN chip.todo
      /\ chip'.todo[1] = j /\ \A k \in DOMAIN chip.todo \ {1} : chip'.todo[k] = chip.todo[k]
  <2>1. chip'.todo = <<j>> \o Tail(chip.todo)
    BY <1>1 DEF IsChip, j
  <2>2. /\ <<j>> \o Tail(chip.todo) \in Seq(Request)
        /\ DOMAIN (<<j>> \o Tail(chip.todo)) = DOMAIN chip.todo
        /\ (<<j>> \o Tail(chip.todo))[1] = j
        /\ \A k \in DOMAIN chip.todo \ {1} : (<<j>> \o Tail(chip.todo))[k] = chip.todo[k]
    BY <1>1, <1>3, PushIs
  <2> QED
    BY <2>1, <2>2
<1>6. /\ IsChip(chip') /\ chip'.key = chip.key /\ chip'.link = chip.link
      /\ chip'.ap = chip.ap /\ chip'.ptk = chip.ptk /\ chip'.made = chip.made
  BY <1>1, <1>5 DEF IsChip
<1>7. StationTypes' /\ Apart'
  BY <1>4, <1>6, FwTypes DEF StationInv, StationTypes
<1>8. KeysMade'
  BY <1>3, <1>5, <1>6 DEF StationInv, KeysMade, Made, FwLeaves
<1>9. AnswersCome'
  <2>1. ASSUME ctl.pc = "connect_wait" PROVE Asked({"CONNECT", "JOIN"})'
    BY <1>1, <1>3, <1>5 DEF Asked
  <2>2. ASSUME ctl.pc = "scan_wait" PROVE (Asked({"SCAN"}) \/ Queued("SCAN"))'
    BY <1>1, <1>4, <1>5, <2>2 DEF StationInv, AnswersCome, Asked, Queued
  <2>3. ASSUME ctl.pc = "disconnect_wait"
        PROVE  (g_wifi.confirmed \/ Asked({"DISCONNECT"}) \/ Queued("DISCONNECT_CFM"))'
    BY <1>1, <1>4, <1>5, <2>3 DEF StationInv, AnswersCome, Asked, Queued, FwLeaves
  <2>4. ASSUME rxd.pc = "wait" PROVE (Asked({rxd.what}) \/ Queued(Confirmed(rxd.what)))'
    <3>1. PICK what, cfm : what = rxd.what /\ cfm = Confirmed(rxd.what)
      OBVIOUS
    <3>2. /\ what # "CONNECT" /\ rxd'.what = what /\ Confirmed(rxd.what)' = cfm
          /\ Asked({what}) \/ Queued(cfm)
      BY <2>4, <3>1 DEF StationInv, StationTypes, IsRxd, AnswersCome, Confirmed, Exchanges,
                        FwLeaves
    <3>3. CASE Asked({what})
      BY <1>1, <1>5, <3>2, <3>3 DEF Asked
    <3>4. CASE Queued(cfm)
      BY <1>4, <3>2, <3>4 DEF Queued
    <3> QED
      BY <3>2, <3>3, <3>4
  <2> QED
    BY <2>1, <2>2, <2>3, <2>4 DEF AnswersCome, FwLeaves
<1>10. ASSUME ~late' PROVE OneRequest' /\ OneReply' /\ LinkKnown'
  <2>1. ~late /\ OneReply /\ LinkKnown /\ ctl' = ctl /\ g_wifi' = g_wifi
    BY <1>10 DEF StationInv, FwLeaves
  <2>2. /\ \A k \in DOMAIN chip.todo : chip.todo[k].id \in CtlRequests => k = 1
        /\ ctl.pc = "connect_wait" /\ Asked({"CONNECT"}) /\ Asked(CtlRequests)
    BY <2>1, LastRequest DEF CtlRequests, Requests
  <2>3. ~ctl.cfm /\ \A k \in DOMAIN msgs : msgs[k].id \notin CtlReplies
    BY <2>1, <2>2 DEF OneReply, Replies
  <2>4. \A k \in DOMAIN chip'.todo : chip'.todo[k].id \in CtlRequests => k = 1
    BY <1>5, <2>2
  <2>5. OneRequest'
    <3>1. {"CONNECT", "JOIN"} = Requests(ctl'.pc)
      BY <2>1, <2>2 DEF Requests
    <3>2. ASSUME NEW k \in DOMAIN chip'.todo, chip'.todo[k].id \in CtlRequests
          PROVE  k = 1 /\ chip'.todo[k].id \in Requests(ctl'.pc)
      BY <1>3, <1>5, <2>4, <3>1, <3>2
    <3> QED
      BY <3>2 DEF OneRequest
  <2>6. \A k \in DOMAIN chip'.todo : chip'.todo[k].id \notin {"CONNECT", "DISCONNECT"}
    BY <1>3, <1>5, <2>4 DEF CtlRequests
  <2>7. \A k \in DOMAIN msgs' : msgs'[k].id \in CtlReplies => k = n /\ msgs'[k] = e
    BY <1>4, <2>3
  <2>8. "CONNECT_CFM" \in Replies(ctl'.pc)
    BY <2>1, <2>2 DEF Replies
  <2>9. OneReply'
    BY <1>2, <1>4, <2>1, <2>3, <2>6, <2>7, <2>8 DEF OneReply, Asked, Queued, CtlReplies
  <2>10. LinkKnown'
    <3>1. \A k \in DOMAIN msgs' :
             msgs'[k].id = "DISCONNECT_IND" => k \in DOMAIN msgs /\ msgs[k].id = "DISCONNECT_IND"
      BY <1>2, <1>4
    <3>2. Joined => Joined'
      BY <1>4 DEF Joined
    <3> QED
      BY <1>6, <2>1, <3>1, <3>2 DEF LinkKnown, Queued
  <2> QED
    BY <2>5, <2>9, <2>10
<1> QED
  BY <1>7, <1>8, <1>9, <1>10 DEF StationInv

(* The joining comes to its end: what both ends have in common.              *)
LEMMA JoinEnds ==
  ASSUME StationInv, FwLeaves, ~late, chip.todo # <<>>, Head(chip.todo).id = "JOIN",
         chip'.todo = Tail(chip.todo), NEW e \in Message, msgs' = Append(msgs, e),
         e.id = "CONNECT_IND"
  PROVE  OneRequest' /\ OneReply' /\ ctl.pc = "connect_wait"
         /\ \A k \in DOMAIN msgs : msgs[k].id # "CONNECT_IND"
<1> DEFINE n == Len(msgs) + 1
<1>1. /\ DOMAIN msgs' = DOMAIN msgs \cup {n} /\ msgs'[n] = e /\ n \in Nat
      /\ \A k \in DOMAIN msgs : msgs'[k] = msgs[k] /\ k < n /\ k \in Nat
  BY MoreIs DEF StationInv, StationTypes
<1> HIDE DEF n
<1>2. OneReply /\ ctl' = ctl /\ g_wifi' = g_wifi
  BY DEF StationInv, FwLeaves
<1>3. /\ \A k \in DOMAIN chip'.todo : chip'.todo[k].id \notin CtlRequests
      /\ ctl.pc = "connect_wait" /\ Asked({"JOIN"}) /\ Asked(CtlRequests)
  BY LastRequest DEF CtlRequests, Requests
<1>4. OneRequest'
  BY <1>3 DEF OneRequest
<1>5. \A k \in DOMAIN msgs : msgs[k].id \in CtlReplies => msgs[k].id = "CONNECT_CFM"
  BY <1>2, <1>3 DEF OneReply, Replies
<1>6. ctl.cfm \/ \E k \in DOMAIN msgs' : k < n /\ msgs'[k].id = "CONNECT_CFM"
  BY <1>1, <1>2, <1>3 DEF OneReply, Queued
<1>7. \A k \in DOMAIN msgs' : msgs'[k].id \in CtlReplies => msgs'[k].id \in Replies(ctl'.pc)
  BY <1>1, <1>2, <1>3, <1>5 DEF Replies
<1>8. \A i, k \in DOMAIN msgs' :
        msgs'[i].id \in CtlReplies /\ msgs'[i].id = msgs'[k].id => i = k
  BY <1>1, <1>2, <1>5 DEF OneReply
<1>9. \A k \in DOMAIN msgs' : msgs'[k].id = "CONNECT_IND" => k = n
  BY <1>1, <1>5 DEF CtlReplies
<1>10. \A k \in DOMAIN msgs' : msgs'[k].id = "CONNECT_CFM" => msgs'[k].ok /\ ~ctl.cfm
  BY <1>1, <1>2 DEF OneReply
<1>11. \A k \in DOMAIN msgs' : msgs'[k].id # "DISCONNECT_CFM"
  BY <1>1, <1>5 DEF CtlReplies
<1>12. OneReply'
  BY <1>2, <1>3, <1>6, <1>7, <1>8, <1>9, <1>10, <1>11 DEF OneReply, Asked, CtlRequests
<1> QED
  BY <1>3, <1>4, <1>5, <1>12 DEF CtlReplies

LEMMA FwJoinFails ==
  ASSUME StationInv, FwLeaves, chip.todo # <<>>, Head(chip.todo).id = "JOIN",
         UNCHANGED air, chip' = [chip EXCEPT !.todo = Tail(@)],
         msgs' = Append(msgs, Msg("CONNECT_IND", Head(chip.todo).to, Head(chip.todo).net, FALSE))
  PROVE  StationInv'
<1> DEFINE r == Head(chip.todo)
           e == Msg("CONNECT_IND", r.to, r.net, FALSE)
<1>1. /\ Tail(chip.todo) \in Seq(Request) /\ r \in Request /\ IsChip(chip)
      /\ \A k \in DOMAIN Tail(chip.todo) :
              k + 1 \in DOMAIN chip.todo /\ Tail(chip.todo)[k] = chip.todo[k + 1]
  BY ServedIs DEF StationInv, StationTypes
<1>2. e \in Message /\ e.id = "CONNECT_IND" /\ ~e.ok
  BY <1>1 DEF Request, Message, Msg, CtlReplies, Exchanges
<1> HIDE DEF e
<1>3. msgs \in Seq(Message) /\ msgs' = Append(msgs, e)
  BY DEF StationInv, StationTypes, e
<1>4. /\ msgs' \in Seq(Message) /\ DOMAIN msgs' = DOMAIN msgs \cup {Len(msgs) + 1}
      /\ msgs'[Len(msgs) + 1] = e /\ \A k \in DOMAIN msgs : msgs'[k] = msgs[k]
  BY <1>2, <1>3, MoreIs
<1>5. /\ IsChip(chip') /\ chip'.todo = Tail(chip.todo) /\ chip'.key = chip.key
      /\ chip'.link = chip.link
      /\ chip'.ap = chip.ap /\ chip'.ptk = chip.ptk /\ chip'.made = chip.made
  BY <1>1 DEF IsChip
<1>6. StationTypes' /\ Apart'
  BY <1>4, <1>5, FwTypes DEF StationInv, StationTypes
<1>7. KeysMade'
  BY <1>1, <1>5 DEF StationInv, KeysMade, Made, FwLeaves
<1>8. AnswersCome'
  BY <1>2, <1>4, <1>5, AnswersFollow DEF FwLeaves, Exchanges
<1>9. ASSUME ~late' PROVE OneRequest' /\ OneReply' /\ LinkKnown'
  <2>1. ~late /\ g_wifi' = g_wifi
    BY <1>9 DEF FwLeaves
  <2>2. OneRequest' /\ OneReply'
    BY <1>2, <1>3, <1>5, <2>1, JoinEnds
  <2>3. LinkKnown'
    <3>1. LinkKnown /\ chip'.link = chip.link
      BY <1>5, <2>1 DEF StationInv
    <3>2. \A k \in DOMAIN msgs' : /\ msgs'[k].id = "DISCONNECT_IND" => k \in DOMAIN msgs
                                  /\ k \in DOMAIN msgs => msgs'[k] = msgs[k]
      BY <1>2, <1>4
    <3>3. Queued("DISCONNECT_IND")' => Queued("DISCONNECT_IND")
      <4> SUFFICES ASSUME NEW k \in DOMAIN msgs', msgs'[k].id = "DISCONNECT_IND"
                   PROVE  Queued("DISCONNECT_IND")
        BY DEF Queued
      <4>1. k \in DOMAIN msgs /\ msgs[k].id = "DISCONNECT_IND"
        BY <3>2, Zenon
      <4> QED
        BY <4>1 DEF Queued
    <3>4. Joined => Joined'
      BY <1>4 DEF Joined
    <3>5. ASSUME NEW k \in DOMAIN msgs', NEW l \in DOMAIN msgs',
                 msgs'[k].id = "DISCONNECT_IND", msgs'[l].id = "DISCONNECT_IND"
          PROVE  k = l
      <4>1. /\ k \in DOMAIN msgs /\ msgs[k].id = "DISCONNECT_IND"
            /\ l \in DOMAIN msgs /\ msgs[l].id = "DISCONNECT_IND"
        BY <3>2, <3>5, Zenon
      <4> QED
        BY <3>1, <4>1 DEF LinkKnown
    <3> QED
      BY <2>1, <3>1, <3>3, <3>4, <3>5 DEF LinkKnown
  <2> QED
    BY <2>2, <2>3
<1> QED
  BY <1>6, <1>7, <1>8, <1>9 DEF StationInv

LEMMA FwJoins ==
  ASSUME StationInv, FwLeaves, chip.todo # <<>>, Head(chip.todo).id = "JOIN",
         msgs' = Append(msgs, Msg("CONNECT_IND", Head(chip.todo).to, Head(chip.todo).net, TRUE)),
         chip' = [chip EXCEPT !.todo = Tail(@), !.link = Head(chip.todo).net, !.session = @ + 1,
                              !.key = NoKey, !.ap = "M1", !.counter = 1],
         air' = IF Head(chip.todo).net = Secured
                THEN Append(air, [Frame("M1", 1, Zero) EXCEPT !.session = @ + 1])
                ELSE air
  PROVE  StationInv'
<1> DEFINE r == Head(chip.todo)
           e == Msg("CONNECT_IND", r.to, r.net, TRUE)
           f == [Frame("M1", 1, Zero) EXCEPT !.session = @ + 1]
<1>1. /\ Tail(chip.todo) \in Seq(Request) /\ r \in Request /\ IsChip(chip)
      /\ \A k \in DOMAIN Tail(chip.todo) :
              k + 1 \in DOMAIN chip.todo /\ Tail(chip.todo)[k] = chip.todo[k + 1]
  BY ServedIs DEF StationInv, StationTypes
<1>2. e \in Message /\ e.id = "CONNECT_IND" /\ e.ok /\ r.net \in Nets \cup {NoNet}
  BY <1>1 DEF Request, Message, Msg, CtlReplies, Exchanges
<1>3. f \in EapolFrame /\ f.m = "M1"
  <2>1. chip.session \in Nat /\ chip.session + 1 \in Nat /\ Zero \in Pairs
    BY <1>1 DEF IsChip, Zero, Pairs
  <2> QED
    BY <2>1 DEF Frame, EapolFrame
<1> HIDE DEF e, f
<1>4. msgs \in Seq(Message) /\ msgs' = Append(msgs, e) /\ air \in Seq(EapolFrame)
  BY DEF StationInv, StationTypes, e
<1>5. /\ msgs' \in Seq(Message) /\ DOMAIN msgs' = DOMAIN msgs \cup {Len(msgs) + 1}
      /\ msgs'[Len(msgs) + 1] = e /\ \A k \in DOMAIN msgs : msgs'[k] = msgs[k]
  BY <1>2, <1>4, MoreIs
<1>6. /\ air' \in Seq(EapolFrame)
      /\ air # <<>> => air' # <<>>
      /\ \A k \in DOMAIN air' : air'[k].m = "M3" => k \in DOMAIN air /\ air'[k] = air[k]
  <2>1. CASE air' = air
    BY <1>4, <2>1
  <2>2. CASE air' = Append(air, f)
    <3>1. /\ Append(air, f) \in Seq(EapolFrame) /\ Append(air, f) # <<>>
          /\ DOMAIN Append(air, f) = DOMAIN air \cup {Len(air) + 1}
          /\ Append(air, f)[Len(air) + 1] = f
          /\ \A k \in DOMAIN air : Append(air, f)[k] = air[k]
      BY <1>3, <1>4, AppendIs
    <3> QED
      BY <1>3, <2>2, <3>1
  <2> QED
    BY <2>1, <2>2 DEF f
<1>7. /\ IsChip(chip') /\ chip'.todo = Tail(chip.todo) /\ chip'.key = NoKey
      /\ chip'.ap = "M1" /\ chip'.made = chip.made
  <2>1. chip.session + 1 \in Nat
    BY <1>1 DEF IsChip
  <2> QED
    BY <1>1, <1>2, <2>1 DEF IsChip, KeyValues
<1>8. StationTypes' /\ Apart'
  BY <1>5, <1>6, <1>7, FwTypes
<1>9. KeysMade'
  BY <1>1, <1>6, <1>7 DEF StationInv, KeysMade, Made, FwLeaves
<1>10. AnswersCome'
  BY <1>2, <1>5, <1>7, AnswersFollow DEF FwLeaves, Exchanges
<1>11. ASSUME ~late' PROVE OneRequest' /\ OneReply' /\ LinkKnown'
  <2>1. ~late /\ g_wifi' = g_wifi /\ LinkKnown
    BY <1>11 DEF FwLeaves, StationInv
  <2>2. /\ OneRequest' /\ OneReply' /\ ctl.pc = "connect_wait"
        /\ \A k \in DOMAIN msgs : msgs[k].id # "CONNECT_IND"
    BY <1>2, <1>4, <1>7, <2>1, JoinEnds
  <2>3. \A k \in DOMAIN msgs : msgs[k].id # "DISCONNECT_IND"
    BY <2>1, <2>2 DEF StationInv, Apart, LinkKnown, Joined, Queued
  <2>4. Joined' /\ \A k \in DOMAIN msgs' : msgs'[k].id # "DISCONNECT_IND"
    BY <1>2, <1>5, <2>3 DEF Joined
  <2>5. LinkKnown'
    BY <2>4 DEF LinkKnown, Queued
  <2> QED
    BY <2>2, <2>5
<1> QED
  BY <1>8, <1>9, <1>10, <1>11 DEF StationInv

(* A disconnection is confirmed, and indicated if there was a link. *)
LEMMA TwoMoreAre ==
  ASSUME msgs \in Seq(Message), NEW c \in Message, NEW d \in Message, msgs' = msgs \o <<c, d>>
  PROVE  /\ msgs' \in Seq(Message)
         /\ DOMAIN msgs' = DOMAIN msgs \cup {Len(msgs) + 1, Len(msgs) + 2}
         /\ msgs'[Len(msgs) + 1] = c /\ msgs'[Len(msgs) + 2] = d
         /\ \A k \in DOMAIN msgs : msgs'[k] = msgs[k] /\ k < Len(msgs) + 1 /\ k \in Nat
         /\ Len(msgs) \in Nat
<1> DEFINE q == Append(msgs, c)
<1>1. /\ q \in Seq(Message) /\ DOMAIN q = DOMAIN msgs \cup {Len(msgs) + 1}
      /\ q[Len(msgs) + 1] = c
      /\ \A k \in DOMAIN msgs : q[k] = msgs[k] /\ k < Len(msgs) + 1 /\ k \in Nat
      /\ Len(msgs) \in Nat
  BY AppendIs
<1>2. Len(q) = Len(msgs) + 1
  BY AppendProperties
<1> HIDE DEF q
<1>3. /\ Append(q, d) \in Seq(Message) /\ DOMAIN Append(q, d) = DOMAIN q \cup {Len(q) + 1}
      /\ Append(q, d)[Len(q) + 1] = d
      /\ \A k \in DOMAIN q : Append(q, d)[k] = q[k]
  BY <1>1, AppendIs
<1>4. msgs' = Append(q, d)
  <2>1. <<c, d>> \in Seq(Message) /\ Len(<<c, d>>) = 2 /\ <<c, d>>[1] = c /\ <<c, d>>[2] = d
    OBVIOUS
  <2>2. /\ msgs' \in Seq(Message) /\ Len(msgs') = Len(msgs) + 2
        /\ \A k \in 1 .. Len(msgs) + 2 :
             msgs'[k] = IF k <= Len(msgs) THEN msgs[k] ELSE <<c, d>>[k - Len(msgs)]
    BY <2>1, ConcatProperties
  <2>3. Len(Append(q, d)) = Len(msgs) + 2
    BY <1>1, <1>2, AppendProperties
  <2>4. ASSUME NEW k \in 1 .. Len(msgs) + 2 PROVE msgs'[k] = Append(q, d)[k]
    <3>1. DOMAIN msgs = 1 .. Len(msgs)
      BY LenProperties
    <3>2. CASE k \in 1 .. Len(msgs)
      BY <1>1, <1>3, <2>2, <3>1, <3>2
    <3>3. CASE k = Len(msgs) + 1
      BY <1>1, <1>3, <2>1, <2>2, <3>3
    <3>4. CASE k = Len(msgs) + 2
      BY <1>1, <1>2, <1>3, <2>1, <2>2, <3>4
    <3> QED
      BY <1>1, <3>2, <3>3, <3>4
  <2> QED
    BY <1>3, <2>2, <2>3, <2>4, SeqEqual
<1>5. Len(q) + 1 = Len(msgs) + 2
  BY <1>1, <1>2
<1> QED
  BY <1>1, <1>3, <1>4, <1>5

LEMMA FwDisconnectKeeps ==
  ASSUME StationInv, FwLeaves, chip.todo # <<>>, Head(chip.todo).id = "DISCONNECT",
         FwDisconnect(Head(chip.todo))
  PROVE  StationInv'
<1> DEFINE r == Head(chip.todo)
           cfm == Msg("DISCONNECT_CFM", r.to, NoNet, TRUE)
           ind == Msg("DISCONNECT_IND", "all", NoNet, TRUE)
           n == Len(msgs) + 1
           m == Len(msgs) + 2
<1>1. /\ Tail(chip.todo) \in Seq(Request) /\ r \in Request /\ IsChip(chip)
      /\ \A k \in DOMAIN Tail(chip.todo) :
              k + 1 \in DOMAIN chip.todo /\ Tail(chip.todo)[k] = chip.todo[k + 1]
  BY ServedIs DEF StationInv, StationTypes
<1>2. cfm \in Message /\ cfm.id = "DISCONNECT_CFM"
  BY <1>1 DEF Request, Message, Msg, CtlReplies, Exchanges
<1>3. ind \in Message /\ ind.id = "DISCONNECT_IND"
  BY DEF Message, Msg
<1>4. /\ chip' = [chip EXCEPT !.todo = Tail(@), !.link = NoNet, !.key = NoKey]
      /\ UNCHANGED air
      /\ \/ chip.link = NoNet /\ msgs' = Append(msgs, cfm)
         \/ chip.link # NoNet /\ msgs' = msgs \o <<cfm, ind>>
         \/ chip.link # NoNet /\ msgs' = msgs \o <<ind, cfm>>
  BY DEF FwDisconnect
<1> HIDE DEF cfm, ind
<1>5. /\ IsChip(chip') /\ chip'.todo = Tail(chip.todo) /\ chip'.key = NoKey
      /\ chip'.link = NoNet
      /\ chip'.ap = chip.ap /\ chip'.ptk = chip.ptk /\ chip'.made = chip.made
  BY <1>1, <1>4 DEF IsChip, KeyValues
<1>6. PICK i, d \in Nat \ DOMAIN msgs :
        /\ msgs' \in Seq(Message)
        /\ \A k \in DOMAIN msgs : k \in DOMAIN msgs' /\ msgs'[k] = msgs[k]
        /\ i \in DOMAIN msgs' /\ msgs'[i] = cfm /\ i # d
        /\ IF chip.link = NoNet THEN DOMAIN msgs' = DOMAIN msgs \cup {i}
           ELSE /\ DOMAIN msgs' = DOMAIN msgs \cup {i, d} /\ msgs'[d] = ind
  <2>1. msgs \in Seq(Message)
    BY DEF StationInv, StationTypes
  <2>2. CASE chip.link = NoNet /\ msgs' = Append(msgs, cfm)
    <3>1. /\ msgs' \in Seq(Message) /\ DOMAIN msgs' = DOMAIN msgs \cup {n}
          /\ msgs'[n] = cfm /\ \A k \in DOMAIN msgs : msgs'[k] = msgs[k] /\ k < n
          /\ Len(msgs) \in Nat
      BY <1>2, <2>1, <2>2, MoreIs
    <3>2. n \in Nat \ DOMAIN msgs /\ m \in Nat \ DOMAIN msgs /\ n # m
      <4>1. DOMAIN msgs = 1 .. Len(msgs)
        BY <2>1, LenProperties
      <4> QED
        BY <3>1, <4>1
    <3> HIDE DEF n, m
    <3> QED
      BY <2>2, <3>1, <3>2
  <2>3. CASE chip.link # NoNet /\ (msgs' = msgs \o <<cfm, ind>> \/ msgs' = msgs \o <<ind, cfm>>)
    <3>1. /\ msgs' \in Seq(Message) /\ DOMAIN msgs' = DOMAIN msgs \cup {n, m}
          /\ \A k \in DOMAIN msgs : msgs'[k] = msgs[k]
          /\ Len(msgs) \in Nat
          /\ \/ msgs'[n] = cfm /\ msgs'[m] = ind
             \/ msgs'[m] = cfm /\ msgs'[n] = ind
      <4>1. CASE msgs' = msgs \o <<cfm, ind>>
        BY <1>2, <1>3, <2>1, <4>1, TwoMoreAre
      <4>2. CASE msgs' = msgs \o <<ind, cfm>>
        BY <1>2, <1>3, <2>1, <4>2, TwoMoreAre
      <4> QED
        BY <2>3, <4>1, <4>2
    <3>2. n \in Nat \ DOMAIN msgs /\ m \in Nat \ DOMAIN msgs /\ n # m
      <4>1. DOMAIN msgs = 1 .. Len(msgs)
        BY <2>1, LenProperties
      <4> QED
        BY <3>1, <4>1
    <3> HIDE DEF n, m
    <3> QED
      BY <2>3, <3>1, <3>2
  <2> QED
    BY <1>4, <2>2, <2>3
<1>7. StationTypes' /\ Apart'
  BY <1>4, <1>5, <1>6, FwTypes DEF StationInv, StationTypes
<1>8. KeysMade'
  BY <1>1, <1>4, <1>5 DEF StationInv, KeysMade, Made, FwLeaves
<1>9. AnswersCome'
  <2>1. DOMAIN msgs \subseteq DOMAIN msgs'
    BY <1>6
  <2> QED
    BY <1>2, <1>5, <1>6, <2>1, AnswersFollow DEF FwLeaves, Exchanges
<1>10. ASSUME ~late' PROVE OneRequest' /\ OneReply' /\ LinkKnown'
  <2>1. ~late /\ OneReply /\ LinkKnown /\ ctl' = ctl /\ g_wifi' = g_wifi
    BY <1>10 DEF StationInv, FwLeaves
  <2>2. /\ \A k \in DOMAIN chip'.todo : chip'.todo[k].id \notin CtlRequests
        /\ ctl.pc = "disconnect_wait" /\ Asked({"DISCONNECT"}) /\ Asked(CtlRequests)
    BY <1>5, <2>1, LastRequest DEF CtlRequests, Requests
  <2>3. ~g_wifi.confirmed /\ \A k \in DOMAIN msgs : msgs[k].id \notin CtlReplies
    BY <2>1, <2>2 DEF OneReply, Replies
  <2>4. OneRequest'
    BY <2>2 DEF OneRequest
  <2>5. \A k \in DOMAIN msgs' :
           msgs'[k].id \in CtlReplies => k = i /\ msgs'[k].id = "DISCONNECT_CFM"
    BY <1>2, <1>3, <1>6, <2>3 DEF CtlReplies
  <2>6. Replies(ctl'.pc) = {"DISCONNECT_CFM"}
    BY <2>1, <2>2 DEF Replies
  <2>7. OneReply'
    BY <2>1, <2>2, <2>3, <2>5, <2>6 DEF OneReply, Asked, CtlReplies, CtlRequests
  <2>8. ~Joined
    BY <2>3 DEF Joined, CtlReplies
  <2>9. LinkKnown'
    <3>1. CASE chip.link = NoNet
      <4>1. ASSUME NEW k \in DOMAIN msgs', msgs'[k].id = "DISCONNECT_IND"
            PROVE  k \in DOMAIN msgs /\ msgs[k].id = "DISCONNECT_IND"
        BY <1>2, <1>6, <3>1, <4>1
      <4> QED
        BY <1>5, <2>1, <2>8, <4>1 DEF LinkKnown, Queued
    <3>2. CASE chip.link # NoNet
      <4>1. ASSUME NEW k \in DOMAIN msgs', msgs'[k].id = "DISCONNECT_IND" PROVE k = d
        BY <1>2, <1>6, <2>1, <3>2, <4>1 DEF LinkKnown, Queued
      <4>2. g_wifi'.associated
        BY <2>1, <2>8, <3>2 DEF LinkKnown, StationInv, StationTypes, IsDriver
      <4> QED
        BY <1>5, <4>1, <4>2 DEF LinkKnown
    <3> QED
      BY <3>1, <3>2
  <2> QED
    BY <2>4, <2>7, <2>9
<1> QED
  BY <1>7, <1>8, <1>9, <1>10 DEF StationInv

(* The other requests are answered in kind; a key is taken only with a link. *)
LEMMA FwOtherKeeps ==
  ASSUME StationInv, FwLeaves, chip.todo # <<>>,
         Head(chip.todo).id \in {"KEY_ADD", "GROUP_ADD", "PORT", "SCAN"},
         FwOther(Head(chip.todo))
  PROVE  StationInv'
<1> DEFINE r == Head(chip.todo)
<1>0. PICK ok \in BOOLEAN :
        /\ ok \/ Confirmed(r.id) = "KEY_ADD"
        /\ msgs' = Append(msgs, Msg(Confirmed(r.id), r.to, NoNet, ok))
        /\ chip' = [chip EXCEPT !.todo = Tail(@),
                       !.key = IF ok /\ r.id = "KEY_ADD" /\ chip.link # NoNet THEN r.key ELSE @]
        /\ UNCHANGED air
  BY DEF FwOther
<1> DEFINE e == Msg(Confirmed(r.id), r.to, NoNet, ok)
<1>1. /\ Tail(chip.todo) \in Seq(Request) /\ r \in Request /\ IsChip(chip) /\ r = chip.todo[1]
      /\ 1 \in DOMAIN chip.todo
      /\ \A k \in DOMAIN Tail(chip.todo) :
              k + 1 \in DOMAIN chip.todo /\ Tail(chip.todo)[k] = chip.todo[k + 1]
  BY ServedIs DEF StationInv, StationTypes
<1>2. /\ e \in Message /\ e.id = Confirmed(r.id) /\ r.key \in KeyValues
      /\ e.id # "DISCONNECT_IND"
      /\ e.id \in CtlReplies => r.id = "SCAN" /\ e.id = "SCAN"
  BY <1>1 DEF Request, Message, Msg, CtlReplies, CtlRequests, Exchanges, Confirmed
<1> HIDE DEF e
<1>3. msgs \in Seq(Message) /\ msgs' = Append(msgs, e) /\ UNCHANGED air
  BY <1>0 DEF StationInv, StationTypes, e
<1>4. /\ msgs' \in Seq(Message) /\ DOMAIN msgs' = DOMAIN msgs \cup {Len(msgs) + 1}
      /\ msgs'[Len(msgs) + 1] = e
      /\ \A k \in DOMAIN msgs : msgs'[k] = msgs[k] /\ k < Len(msgs) + 1
      /\ Len(msgs) \in Nat
  BY <1>2, <1>3, MoreIs
<1>5. PICK key \in KeyValues :
        /\ chip' = [chip EXCEPT !.todo = Tail(@), !.key = key]
        /\ key = chip.key \/ (r.id = "KEY_ADD" /\ key = r.key)
  <2>1. chip.key \in KeyValues
    BY <1>1 DEF IsChip
  <2> QED
    BY <1>0, <1>2, <2>1
<1>6. /\ IsChip(chip') /\ chip'.todo = Tail(chip.todo) /\ chip'.key = key
      /\ chip'.link = chip.link
      /\ chip'.ap = chip.ap /\ chip'.ptk = chip.ptk /\ chip'.made = chip.made
  BY <1>1, <1>5 DEF IsChip
<1>7. StationTypes' /\ Apart'
  BY <1>3, <1>4, <1>6, FwTypes DEF StationInv, StationTypes
<1>8. KeysMade'
  BY <1>1, <1>3, <1>5, <1>6 DEF StationInv, KeysMade, Made, FwLeaves
<1>9. AnswersCome'
  BY <1>2, <1>4, <1>6, AnswersFollow DEF FwLeaves
<1>10. ASSUME ~late' PROVE OneRequest' /\ OneReply' /\ LinkKnown'
  <2>1. ~late /\ OneRequest /\ OneReply /\ LinkKnown /\ ctl' = ctl /\ g_wifi' = g_wifi
    BY <1>10 DEF StationInv, FwLeaves
  <2>2. LinkKnown'
    <3>1. \A k \in DOMAIN msgs' :
             msgs'[k].id = "DISCONNECT_IND" => k \in DOMAIN msgs /\ msgs[k].id = "DISCONNECT_IND"
      BY <1>2, <1>4
    <3>2. Joined => Joined'
      BY <1>4 DEF Joined
    <3> QED
      BY <1>6, <2>1, <3>1, <3>2 DEF LinkKnown, Queued
  <2>3. CASE r.id = "SCAN"
    <3>1. /\ \A k \in DOMAIN chip'.todo : chip'.todo[k].id \notin CtlRequests
          /\ ctl.pc = "scan_wait" /\ Asked(CtlRequests)
      BY <1>6, <2>1, <2>3, LastRequest DEF CtlRequests, Requests
    <3>2. \A k \in DOMAIN msgs : msgs[k].id \notin CtlReplies
      BY <2>1, <3>1 DEF OneReply, Replies
    <3>3. OneRequest'
      BY <3>1 DEF OneRequest
    <3>4. \A k \in DOMAIN msgs' :
             msgs'[k].id \in CtlReplies => k = Len(msgs) + 1 /\ msgs'[k].id = "SCAN"
      BY <1>2, <1>4, <3>2
    <3>5. Replies(ctl'.pc) = {"SCAN"}
      BY <2>1, <3>1 DEF Replies
    <3>6. OneReply'
      BY <3>1, <3>4, <3>5 DEF OneReply, Asked, CtlReplies, CtlRequests
    <3> QED
      BY <2>2, <3>3, <3>6
  <2>4. CASE r.id # "SCAN"
    <3>1. r.id \notin CtlRequests \cup CtlReplies
      BY <2>4 DEF CtlRequests, CtlReplies
    <3>2. OneRequest'
      <4>1. ASSUME NEW j \in DOMAIN chip'.todo, NEW k \in DOMAIN chip'.todo,
                   chip'.todo[j].id \in CtlRequests, chip'.todo[k].id \in CtlRequests
            PROVE  j = k
        <5>1. j + 1 = k + 1
          BY <1>1, <1>6, <2>1, <4>1 DEF OneRequest
        <5> QED
          BY <1>6, <5>1, ServedIs DEF StationInv
      <4>2. \A k \in DOMAIN chip'.todo :
               chip'.todo[k].id \in CtlRequests => chip'.todo[k].id \in Requests(ctl'.pc)
        BY <1>1, <1>6, <2>1 DEF OneRequest
      <4> QED
        BY <4>1, <4>2 DEF OneRequest
    <3>3. \A k \in DOMAIN msgs' : msgs'[k].id \in CtlReplies => k \in DOMAIN msgs
      BY <1>2, <1>4, <2>4
    <3>4. /\ Asked(CtlRequests)' => Asked(CtlRequests)
          /\ Asked({"CONNECT"})' => Asked({"CONNECT"})
          /\ Asked({"DISCONNECT"})' => Asked({"DISCONNECT"})
          /\ Asked({"JOIN"})' => Asked({"JOIN"})
      BY <1>1, <1>6 DEF Asked
    <3>5. Queued("CONNECT_CFM") => Queued("CONNECT_CFM")'
      BY <1>4 DEF Queued
    <3>6. ASSUME NEW k \in DOMAIN msgs'
          PROVE  /\ msgs'[k].id \in CtlReplies => msgs'[k].id \in Replies(ctl.pc)
                 /\ msgs'[k].id \in {"CONNECT_IND", "DISCONNECT_CFM", "SCAN"} => ~Asked(CtlRequests)
                 /\ msgs'[k].id = "CONNECT_CFM" => msgs'[k].ok /\ ~ctl.cfm /\ ~Asked({"CONNECT"})
                 /\ msgs'[k].id = "CONNECT_IND" =>
                      ctl.cfm \/ \E j \in DOMAIN msgs' : j < k /\ msgs'[j].id = "CONNECT_CFM"
                 /\ msgs'[k].id = "DISCONNECT_CFM" => ~g_wifi.confirmed
      <4>1. CASE k \notin DOMAIN msgs
        BY <3>3, <4>1 DEF CtlReplies
      <4>2. CASE k \in DOMAIN msgs
        <5>1. k \in DOMAIN msgs /\ msgs'[k] = msgs[k]
          BY <1>4, <4>2
        <5>2. \A j \in DOMAIN msgs : j \in DOMAIN msgs' /\ msgs'[j] = msgs[j]
          BY <1>4
        <5> QED
          BY <2>1, <5>1, <5>2 DEF OneReply
      <4> QED
        BY <4>1, <4>2
    <3>7. \A i, k \in DOMAIN msgs' :
             msgs'[i].id \in CtlReplies /\ msgs'[i].id = msgs'[k].id => i = k
      BY <1>4, <2>1, <3>3 DEF OneReply
    <3>8. /\ Asked({"CONNECT"}) => ~ctl.cfm
          /\ Asked({"JOIN"}) => ctl.cfm \/ Queued("CONNECT_CFM")
          /\ Asked({"DISCONNECT"}) => ~g_wifi.confirmed
      BY <2>1 DEF OneReply
    <3>9. OneReply'
      BY <2>1, <3>4, <3>5, <3>6, <3>7, <3>8 DEF OneReply
    <3> QED
      BY <2>2, <3>2, <3>9
  <2> QED
    BY <2>3, <2>4
<1> QED
  BY <1>7, <1>8, <1>9, <1>10 DEF StationInv

LEMMA FwAnswerKeeps == ASSUME StationInv, FwAnswer PROVE StationInv'
<1>1. chip.todo # <<>> /\ FwLeaves
  BY DEF FwAnswer, FwLeaves
<1>2. \/ Head(chip.todo).id = "CONNECT" /\ FwConnect(Head(chip.todo))
      \/ Head(chip.todo).id = "JOIN" /\ FwJoin(Head(chip.todo))
      \/ Head(chip.todo).id = "DISCONNECT" /\ FwDisconnect(Head(chip.todo))
      \/ /\ Head(chip.todo).id \in {"KEY_ADD", "GROUP_ADD", "PORT", "SCAN"}
         /\ FwOther(Head(chip.todo))
  BY DEF FwAnswer
<1>3. CASE Head(chip.todo).id = "CONNECT" /\ FwConnect(Head(chip.todo))
  BY <1>1, <1>3, FwRefuses, FwAccepts DEF FwConnect
<1>4. CASE Head(chip.todo).id = "JOIN" /\ FwJoin(Head(chip.todo))
  BY <1>1, <1>4, FwJoins, FwJoinFails DEF FwJoin
<1>5. CASE Head(chip.todo).id = "DISCONNECT" /\ FwDisconnect(Head(chip.todo))
  BY <1>1, <1>5, FwDisconnectKeeps
<1>6. CASE /\ Head(chip.todo).id \in {"KEY_ADD", "GROUP_ADD", "PORT", "SCAN"}
           /\ FwOther(Head(chip.todo))
  BY <1>1, <1>6, FwOtherKeeps
<1> QED
  BY <1>2, <1>3, <1>4, <1>5, <1>6

(* The access point ends the link. *)
LEMMA ApDropKeeps == ASSUME StationInv, ApDrop PROVE StationInv'
<1> DEFINE e == Msg("DISCONNECT_IND", "all", NoNet, TRUE)
<1>1. /\ chip.link # NoNet /\ chip' = [chip EXCEPT !.link = NoNet, !.key = NoKey]
      /\ msgs' = Append(msgs, e) /\ msgs \in Seq(Message) /\ IsChip(chip)
      /\ UNCHANGED air /\ FwLeaves
  BY DEF ApDrop, FwLeaves, StationInv, StationTypes
<1>2. e \in Message /\ e.id = "DISCONNECT_IND"
  BY DEF Message, Msg
<1> HIDE DEF e
<1>3. /\ msgs' \in Seq(Message) /\ DOMAIN msgs' = DOMAIN msgs \cup {Len(msgs) + 1}
      /\ msgs'[Len(msgs) + 1] = e /\ \A k \in DOMAIN msgs : msgs'[k] = msgs[k]
  BY <1>1, <1>2, MoreIs
<1>4. /\ IsChip(chip') /\ chip'.todo = chip.todo /\ chip'.key = NoKey /\ chip'.link = NoNet
      /\ chip'.ap = chip.ap /\ chip'.ptk = chip.ptk /\ chip'.made = chip.made
  BY <1>1 DEF IsChip, KeyValues
<1>5. StationTypes' /\ Apart'
  BY <1>1, <1>3, <1>4, FwTypes DEF StationInv, StationTypes
<1>6. KeysMade'
  BY <1>1, <1>4 DEF StationInv, KeysMade, Made, FwLeaves
<1>7. AnswersCome'
  BY <1>1, <1>3, <1>4 DEF StationInv, AnswersCome, Asked, Queued, Refused, FwLeaves
<1>8. ASSUME ~late' PROVE OneRequest' /\ OneReply' /\ LinkKnown'
  <2>1. ~late /\ OneRequest /\ OneReply /\ LinkKnown /\ ctl' = ctl /\ g_wifi' = g_wifi
    BY <1>1, <1>8 DEF StationInv, FwLeaves
  <2>2. OneRequest'
    BY <1>4, <2>1 DEF OneRequest
  <2>3. \A k \in DOMAIN msgs' : msgs'[k].id \in CtlReplies => k \in DOMAIN msgs
    BY <1>2, <1>3 DEF CtlReplies
  <2>4. OneReply'
    BY <1>3, <1>4, <2>1, <2>3 DEF OneReply, Asked, Queued, CtlReplies
  <2>5. LinkKnown'
    BY <1>1, <1>2, <1>3, <1>4, <2>1 DEF LinkKnown, Joined, Queued
  <2> QED
    BY <2>2, <2>4, <2>5
<1> QED
  BY <1>5, <1>6, <1>7, <1>8 DEF StationInv

(* The access point repeats a message of the handshake. *)
LEMMA ApResendKeeps == ASSUME StationInv, ApResend PROVE StationInv'
<1> DEFINE f == Frame(chip.ap, chip.counter + 1, IF chip.ap = "M3" THEN chip.ptk ELSE Zero)
<1>1. /\ chip.ap \in {"M1", "M3"} /\ chip' = [chip EXCEPT !.counter = @ + 1]
      /\ air' = Append(air, f) /\ air \in Seq(EapolFrame) /\ IsChip(chip)
      /\ UNCHANGED <<msgs, g_wifi, wlan0, msg_lock, ctl, rxd, dhcp, late>>
      /\ IsDriver(g_wifi) /\ IsRxd(rxd) /\ IsLan(wlan0) /\ KeysMade
  BY DEF ApResend, StationInv, StationTypes
<1>2. f \in EapolFrame /\ (f.m = "M3" => f.ptk \in Made)
  <2>1. chip.counter + 1 \in Nat /\ chip.session \in Nat /\ Zero \in Pairs /\ chip.ptk \in Pairs
    BY <1>1 DEF IsChip, Zero, Pairs
  <2> QED
    BY <1>1, <2>1 DEF Frame, EapolFrame, KeysMade
<1> HIDE DEF f
<1>3. /\ air' \in Seq(EapolFrame) /\ air' # <<>> /\ DOMAIN air' = DOMAIN air \cup {Len(air) + 1}
      /\ air'[Len(air) + 1] = f /\ \A k \in DOMAIN air : air'[k] = air[k]
  <2>1. /\ Append(air, f) \in Seq(EapolFrame) /\ Append(air, f) # <<>>
        /\ DOMAIN Append(air, f) = DOMAIN air \cup {Len(air) + 1}
        /\ Append(air, f)[Len(air) + 1] = f
        /\ \A k \in DOMAIN air : Append(air, f)[k] = air[k]
    BY <1>1, <1>2, AppendIs
  <2> QED
    BY <1>1, <2>1
<1>4. /\ IsChip(chip') /\ chip'.todo = chip.todo /\ chip'.key = chip.key
      /\ chip'.link = chip.link
      /\ chip'.ap = chip.ap /\ chip'.ptk = chip.ptk /\ chip'.made = chip.made
  BY <1>1 DEF IsChip
<1>5. FrameKept' /\ KeysMade'
  BY <1>1, <1>2, <1>3, <1>4 DEF FrameKept, KeysMade, Made
<1> QED
  BY <1>1, <1>3, <1>4, <1>5, RxMoves
-----------------------------------------------------------------------------
(* Every step keeps the invariant. *)
LEMMA StationStep == ASSUME StationInv, [WifiNext]_wifiVars PROVE StationInv'
<1>1. CASE CtlWpa \/ CtlAssociate \/ CtlDisconnect \/ CtlScan
  BY <1>1, BeginKeeps
<1>2. CASE CtlStep
  BY <1>2, WpaConnectKeeps, AssociateKeeps, ClearsKeep, CtlSendKeeps, ConnectWaitKeeps,
     EapolStartKeeps, DisconnectWaitKeeps, DisconnectDoneKeeps, ScanKeeps, CtlGivesUpKeeps,
     CtlSendFailsKeeps
     DEF CtlStep
<1>3. CASE RxStep
  BY <1>3, PollKeeps, SmallStepsKeep, M1Keeps, M2Keeps, M3Keeps, M4Keeps, RxReadsKeyKeeps,
     RxSendKeeps, RxSendFailsKeeps, ExchangeKeeps, RxGivesUpKeeps DEF RxStep
<1>4. CASE DhcpStep
  BY <1>4, SmallStepsKeep
<1>5. CASE FwAnswer \/ ApDrop \/ ApResend
  BY <1>5, FwAnswerKeeps, ApDropKeeps, ApResendKeeps
<1>6. CASE UNCHANGED wifiVars
  BY <1>6 DEF wifiVars, StationInv, StationTypes, LockTypes, FrameKept, KeysMade, Made,
              AnswersCome, Asked, Queued, Refused, Apart, OneRequest, OneReply, LinkKnown, Joined
<1> QED
  BY <1>1, <1>2, <1>3, <1>4, <1>5, <1>6 DEF WifiNext

LEMMA StationAlways == WifiSpec => []StationInv
BY InitStationInv, StationStep, PTL DEF WifiSpec

(* The firmware never holds a pairwise key that no access point has made,    *)
(* however frames are repeated, delayed over a new connection or crossed by  *)
(* a command, but for the zeroes a command leaves when it erases the key     *)
(* between the check of message 3 and install_key.                           *)
THEOREM KeyIsAgreed == WifiSpec => []AgreedKey
<1>1. StationInv => AgreedKey
  BY DEF StationInv, KeysMade, Made, AgreedKey
<1> QED
  BY <1>1, StationAlways, PTL

(* A thread that gives up, however early, leaves its answer behind: nobody   *)
(* else took it from the endpoint the threads share under g_wifi_msg_lock.   *)
THEOREM AnswersAreOwn == WifiSpec => OwnConfirmations
<1> DEFINE A == msgs' = msgs =>
     /\ ctl.pc = "connect_wait" /\ ctl'.pc # ctl.pc =>
          Asked({"CONNECT", "JOIN"}) \/ Queued("CONNECT_IND") \/ Refused
     /\ ctl.pc = "disconnect_wait" /\ ctl'.pc # ctl.pc =>
          g_wifi.confirmed \/ Asked({"DISCONNECT"}) \/ Queued("DISCONNECT_CFM")
     /\ ctl.pc = "scan_wait" /\ ctl'.pc # ctl.pc => Asked({"SCAN"}) \/ Queued("SCAN")
     /\ rxd.pc = "wait" /\ rxd'.pc # rxd.pc =>
          Asked({rxd.what}) \/ Queued(Confirmed(rxd.what))
<1>1. ASSUME StationInv, [WifiNext]_wifiVars PROVE [A]_wifiVars
  BY <1>1 DEF StationInv, AnswersCome
<1>2. WifiSpec => [][WifiNext]_wifiVars
  BY PTL DEF WifiSpec
<1>3. WifiSpec => [][A]_wifiVars
  BY <1>1, <1>2, StationAlways, PTL
<1> QED
  BY <1>3 DEF OwnConfirmations

(* A command that gives up is over. *)
LEMMA GivesUpIdles == ASSUME IsCtl(ctl), CtlGivesUp PROVE ctl'.pc = "idle"
<1>1. \E w : ctl' = [ctl EXCEPT !.pc = "idle", !.wiped = w]
  BY DEF CtlGivesUp, Fail, AfterDisconnect, Finish
<1> QED
  BY <1>1 DEF IsCtl

(* A disconnection that returns OK leaves no link behind and no message of   *)
(* its own for the next connection, unless an earlier wait gave up.          *)
THEOREM TeardownIsClean == WifiSpec => CleanTeardown
<1> DEFINE A == ctl.pc = "disconnect_wait" /\ ctl'.pc = "disconnect_done" /\ ctl.was /\ ~late
                => /\ chip.link = NoNet
                   /\ \A k \in DOMAIN msgs' :
                        msgs'[k].id \notin {"DISCONNECT_CFM", "DISCONNECT_IND"}
<1>1. ASSUME StationInv, [WifiNext]_wifiVars PROVE [A]_wifiVars
  <2>1. SUFFICES ASSUME ctl.pc = "disconnect_wait", ctl'.pc = "disconnect_done", ctl.was, ~late
                 PROVE  /\ chip.link = NoNet
                        /\ \A k \in DOMAIN msgs' :
                             msgs'[k].id \notin {"DISCONNECT_CFM", "DISCONNECT_IND"}
    OBVIOUS
  <2>2. StationInv'
    BY <1>1, StationStep
  <2>3. IsCtl(ctl) /\ a733_wifi_disconnect
    <3>1. IsCtl(ctl)
      BY <1>1 DEF StationInv, StationTypes
    <3>2. a733_wifi_disconnect \/ CtlGivesUp
      BY <1>1, <2>1 DEF WifiNext, CtlStep, RxStep, DhcpStep, wifiVars, CtlWpa, CtlAssociate,
         CtlDisconnect, CtlScan, wext_wpa_connect, Associate, ConnectClears, DisconnectClears,
         CtlSend, a733_wifi_associate, send_eapol_start, DisconnectDone, scan_once,
         message_poll, RxCarrier, EapolM1, EapolM2, EapolM3, EapolM4, RxReadsKey, RxSend, RxSendFails,
         lmac_exchange, CtlSendFails,
         RxGivesUp, dhcp_start, RxStoresPid, DhcpClears, DhcpAnswered, DhcpFails, DhcpStores,
         DhcpEnds, FwAnswer, ApDrop, ApResend
    <3>3. ASSUME CtlGivesUp PROVE FALSE
      <4>1. ctl'.pc = "idle"
        BY <3>1, <3>3, GivesUpIdles
      <4> QED
        BY <2>1, <4>1
    <3> QED
      BY <3>1, <3>2, <3>3
  <2>4. ctl' = [ctl EXCEPT !.pc = "disconnect_done"] /\ UNCHANGED <<chip, late>>
    BY <2>1, <2>3 DEF a733_wifi_disconnect, ToDo
  <2>5. ctl'.was
    BY <2>1, <2>3, <2>4 DEF IsCtl
  <2>6. ~g_wifi'.associated /\ OneReply' /\ LinkKnown'
    BY <2>1, <2>2, <2>4, <2>5 DEF StationInv, Apart
  <2>7. \A k \in DOMAIN msgs' : msgs'[k].id \notin CtlReplies
    BY <2>1, <2>6 DEF OneReply, Replies
  <2>8. chip'.link = NoNet /\ \A k \in DOMAIN msgs' : msgs'[k].id # "DISCONNECT_IND"
    BY <2>6, <2>7 DEF LinkKnown, Joined, Queued, CtlReplies
  <2> QED
    BY <2>4, <2>7, <2>8 DEF CtlReplies
<1>2. WifiSpec => [][WifiNext]_wifiVars
  BY PTL DEF WifiSpec
<1>3. WifiSpec => [][A]_wifiVars
  BY <1>1, <1>2, StationAlways, PTL
<1> QED
  BY <1>3 DEF CleanTeardown
-----------------------------------------------------------------------------
(* The two together, each on its turn.                                       *)
LEMMA LinksStart == LinksInit => WifiInit /\ Init
  BY DEF LinksInit

LEMMA LinksTakeTurns ==
  [LinksNext]_<<turn, wifiVars, vars>> => [WifiNext]_wifiVars /\ [Next]_vars
  BY DEF LinksNext

LEMMA StationIsTyped == StationInv => WifiTypeOK
<1> SUFFICES ASSUME StationInv PROVE WifiTypeOK
  OBVIOUS
<1>1. msgs \in Seq(Message) /\ air \in Seq(EapolFrame)
  BY DEF StationInv, StationTypes
<1> DEFINE Wide == [id : {"CONNECT_CFM", "CONNECT_IND", "DISCONNECT_CFM", "SCAN", "DISCONNECT_IND"}
                           \cup Exchanges,
                    to : {"ctl", "rx", "all"}, net : Nets \cup {NoNet}, ok : BOOLEAN]
<1>2. Message \subseteq Wide
  BY DEF Message, CtlReplies
<1>3. msgs \in Seq(Wide)
  <2> HIDE DEF Wide
  <2> QED
    BY <1>1, <1>2
<1>4. /\ g_wifi.bssid \in Nets \cup {NoNet} /\ g_wifi.state \in 0 .. 3 /\ g_wifi.ptk \in Pairs
      /\ wlan0 \in [carrier : BOOLEAN, address : BOOLEAN]
  BY DEF StationInv, StationTypes, IsDriver, IsLan
<1>5. LockTypes
  BY DEF StationInv, StationTypes
<1> QED
  BY <1>1, <1>3, <1>4, <1>5, Zenon DEF WifiTypeOK, EapolFrame, LockTypes

(* The types of both hold in every behaviour of the composition.             *)
THEOREM LinksAreTyped == LinksSpec => []Types
<1>1. StationInv /\ Inv => Types
  BY StationIsTyped DEF Types, Inv
<1> QED
  BY <1>1, LinksStart, LinksTakeTurns, InitStationInv, StationStep, InitInv, StepInv,
     PTL DEF LinksSpec

(* And so does what the console and the station guarantee: a reader of the   *)
(* console never takes a byte that is not there, and a key in the firmware   *)
(* is the access point's, or the zeroes of a command that erased it.         *)
THEOREM LinksStaySafe == LinksSpec => [](ReadsAreWhole /\ AgreedKey)
<1>1. Inv => ReadsAreWhole
  BY HeldBytesAreThere DEF ReadsAreWhole, Inv
<1>2. StationInv => AgreedKey
  BY DEF StationInv, KeysMade, Made, AgreedKey
<1> QED
  BY <1>1, <1>2, LinksStart, LinksTakeTurns, InitStationInv, StationStep, InitInv, StepInv,
     PTL DEF LinksSpec
=============================================================================
