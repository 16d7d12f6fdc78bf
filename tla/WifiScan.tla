------------------------------ MODULE WifiScan ------------------------------
(***************************************************************************)
(* Scanning and choosing a network (a733_wifi_usb.c).  A scan empties the  *)
(* table and visits the bands one after the other, each up to three times, *)
(* because one dwell may hear nothing.  What is heard is added to the      *)
(* table or refreshes what is there.  A connection by name then takes the  *)
(* strongest entry of that name and reads from its elements whether        *)
(* WPA2-PSK with CCMP is offered.                                          *)
(***************************************************************************)
EXTENDS Integers, Sequences, FiniteSets

CONSTANTS TableMax,      \* A733_WIFI_SCAN_MAX
          Scans          \* bound: scans

ASSUME ScanAssumption == TableMax \in Nat
(* The networks in reach with the elements they send: a transition network *)
(* with an old WPA element first, one that has only SAE, an open one.      *)
Rsn(pairwise, akm, group) ==
  [rsn |-> TRUE, pairwise |-> pairwise, akm |-> akm, group |-> group]
Wpa    == [Rsn({"tkip"}, {"psk"}, "tkip") EXCEPT !.rsn = FALSE]
Bss    == [home2 |-> [ssid |-> "home", band |-> "2G",
                      ies |-> <<Wpa, Rsn({"ccmp", "tkip"}, {"psk", "sae"}, "tkip")>>],
           home5 |-> [ssid |-> "home", band |-> "5G_low",
                      ies |-> <<Rsn({"ccmp"}, {"sae"}, "ccmp")>>],
           cafe  |-> [ssid |-> "cafe", band |-> "2G", ies |-> <<>>]]
Levels == {1, 2}                      \* rssi, weak and strong
Bands  == <<"2G", "5G_low", "5G_high">>
Heard(band) == {b \in DOMAIN Bss : Bss[b].band = band}

VARIABLES table,    \* g_wifi.scan: entries in the order they were first heard
          scan,     \* the scan: band, attempt, indications of this dwell, results
          last,     \* the level at which each network was last heard in this scan
          chosen    \* what a connection by name got: index or -1, key length or 0

scanVars == <<table, scan, last, chosen>>

(* A mistake that would be easy to make here; the properties exclude it:   *)
(* an entry is looked for only among those of this dwell.                  *)
scan_result_appends(bss, rssi) ==
  IF Len(table) < TableMax THEN Append(table, [bss |-> bss, rssi |-> rssi]) ELSE table

(* One indication: the entry of this network is refreshed; a new one is    *)
(* added while there is room.                                              *)
scan_result(bss, rssi) ==
  IF \E k \in DOMAIN table : table[k].bss = bss
  THEN [k \in DOMAIN table |->
          IF table[k].bss = bss THEN [table[k] EXCEPT !.rssi = rssi] ELSE table[k]]
  ELSE IF Len(table) < TableMax THEN Append(table, [bss |-> bss, rssi |-> rssi]) ELSE table

(* scan_group clears the table; it is not protected against a reader. *)
ScanBegins ==
  /\ scan.pc = "idle" /\ scan.left > 0
  /\ table' = <<>> /\ last' = [b \in DOMAIN Bss |-> 0]
  /\ scan' = [scan EXCEPT !.pc = "dwell", !.band = 1, !.attempt = 1, !.messages = 0,
                          !.success = 0, !.left = @ - 1]
  /\ UNCHANGED chosen

(* scan_once: indications come in any number before the confirmation. *)
Indication ==
  /\ scan.pc = "dwell"
  /\ \E b \in Heard(Bands[scan.band]), rssi \in Levels :
       /\ scan.messages < 2                      \* bound: indications of a dwell
       /\ table' = scan_result(b, rssi) /\ last' = [last EXCEPT ![b] = rssi]
  /\ scan' = [scan EXCEPT !.messages = @ + 1]
  /\ UNCHANGED chosen

NextBand(s) == IF s.band = Len(Bands) THEN [s EXCEPT !.pc = "idle", !.ret = s.success > 0]
               ELSE [s EXCEPT !.band = @ + 1, !.attempt = 1, !.messages = 0]

(* A mistake that would be easy to make here; the properties exclude it:   *)
(* a dwell without indications is repeated until there are some.           *)
scan_retry_always(verdict) ==
  scan' = IF verdict = "ok" /\ scan.messages > 0
          THEN NextBand([scan EXCEPT !.success = @ + 1])
          ELSE [scan EXCEPT !.messages = 0]

(* scan_retry: a dwell with indications ends the band, an error too; an    *)
(* empty one or one that timed out is repeated twice.                      *)
scan_retry(verdict) ==
  scan' = CASE verdict = "ok" /\ scan.messages > 0 -> NextBand([scan EXCEPT !.success = @ + 1])
            [] verdict = "error" \/ (scan.attempt = 3 /\ (verdict # "ok" \/ scan.messages = 0))
                 -> NextBand(scan)
            [] OTHER -> [scan EXCEPT !.attempt = @ + 1, !.messages = 0]

scan_once ==
  /\ scan.pc = "dwell"
  /\ \E verdict \in {"ok", "timeout", "error"} : scan_retry(verdict)
  /\ UNCHANGED <<table, last, chosen>>

(* a733_wifi_wext_find: the first among the strongest of that name. *)
wext_find(ssid) ==
  LET best[k \in 0 .. Len(table)] ==
        IF k = 0 THEN -1
        ELSE IF /\ Bss[table[k].bss].ssid = ssid
                /\ best[k - 1] < 0 \/ table[k].rssi > table[best[k - 1]].rssi
             THEN k ELSE best[k - 1]
  IN best[Len(table)]

(* The first RSN element decides whether WPA2-PSK with CCMP can be used,   *)
(* and how long the group key is; 0 if it cannot.                          *)
wpa_select_rsn(ies) ==
  LET rsn == {k \in DOMAIN ies : ies[k].rsn}
      first == ies[CHOOSE k \in rsn : \A j \in rsn : k <= j]
  IN IF rsn = {} \/ "ccmp" \notin first.pairwise \/ "psk" \notin first.akm
     THEN 0
     ELSE CASE first.group = "ccmp" -> 16 [] first.group = "tkip" -> 32 [] OTHER -> 0

Find == \E ssid \in {"home", "cafe"} :
          /\ scan.pc = "idle"
          /\ LET k == wext_find(ssid)
             IN chosen' = [k |-> k, key |-> IF k < 0 THEN 0
                                           ELSE wpa_select_rsn(Bss[table[k].bss].ies)]
          /\ UNCHANGED <<table, scan, last>>

-----------------------------------------------------------------------------
ScanInit ==
  /\ table = <<>> /\ last = [b \in DOMAIN Bss |-> 0] /\ chosen = [k |-> -1, key |-> 0]
  /\ scan = [pc |-> "idle", band |-> 1, attempt |-> 1, messages |-> 0, success |-> 0,
             ret |-> FALSE, left |-> Scans]

ScanNext == ScanBegins \/ Indication \/ scan_once \/ Find

(* Each dwell ends, by its confirmation or its time-out. *)
ScanFair == WF_scanVars(scan_once)

ScanSpec == ScanInit /\ [][ScanNext]_scanVars /\ ScanFair

(* The table is the union of what the whole scan heard: every network once,*)
(* at the level it was last heard, none missing while there is room, though*)
(* dwells are repeated and time out.                                       *)
TableIsUnion ==
  LET ids == {table[k].bss : k \in DOMAIN table}
      heard == {b \in DOMAIN Bss : last[b] > 0}
  IN /\ Cardinality(ids) = Len(table) /\ Len(table) <= TableMax
     /\ \A k \in DOMAIN table : table[k].rssi = last[table[k].bss]
     /\ ids \subseteq heard
     /\ Len(table) < TableMax => ids = heard

(* A connection by name gets an entry of that name than which no entry of  *)
(* the table is stronger, and joins it only if it takes a pre-shared key   *)
(* with CCMP, with a group key of the length its group cipher has.         *)
SoundChoice ==
  chosen' # chosen /\ chosen'.k > 0 =>
    LET b == table[chosen'.k].bss
    IN /\ \A k \in DOMAIN table :
            Bss[table[k].bss].ssid = Bss[b].ssid => table[k].rssi <= table[chosen'.k].rssi
       /\ chosen'.key = IF b = "home2" THEN 32 ELSE 0

(* Whatever was heard and in whichever order: the table and the choice.    *)
ScanIsSound == [][TableIsUnion' /\ SoundChoice]_scanVars

(* A scan ends, and says OK only if some band was heard. *)
ScanEnds == scan.pc = "dwell" ~> scan.pc = "idle"
=============================================================================
