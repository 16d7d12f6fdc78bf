----------------------------- MODULE WifiBringUp -----------------------------
(***************************************************************************)
(* a733_wifi_usb_initialize: from the power switch of the FCU760K to the   *)
(* network device wlan0.  The chip starts as a boot loader on USB, takes   *)
(* its firmware from the SD card, is restarted, comes back as another      *)
(* device and is configured over its message endpoint.  Every function is  *)
(* a checkpoint: the next one runs only if it returned OK, and nothing is  *)
(* ever tried twice.                                                       *)
(*                                                                         *)
(* What the chip and the card answer is chosen at each step.               *)
(***************************************************************************)
EXTENDS Integers, Sequences, SequencesExt

CONSTANT FileBlocks      \* bound: blocks of each firmware image

ASSUME BringUpAssumption == FileBlocks \in Nat

VARIABLES fcu,   \* the chip: device on the bus, memory, requests it has taken
          up     \* the driver: step, blocks written, messages read, results

bringVars == <<fcu, up>>

At(step)   == up.step = step
ToStep(s)  == up' = [up EXCEPT !.step = s, !.offset = 0, !.attempt = 0]
\* A step that fails ends the bring-up, except for the device node.
Fails      == ToStep("register") /\ UNCHANGED fcu

-----------------------------------------------------------------------------
(* The port and the descriptors.                                           *)

power_enable ==
  /\ At("power")
  /\ fcu' = [fcu EXCEPT !.device = "boot"]
  /\ ToStep("port")

(* The controller is reset; the port shows no device, a slow one, one that *)
(* is not enabled, or a device at high speed.                              *)
ehci1_checkpoint(here, next) ==
  /\ At(here)
  /\ \/ fcu.device # "none" /\ ToStep(next) /\ UNCHANGED fcu
     \/ Fails

Itf(n, alt) == [kind |-> "interface", n |-> n, alt |-> alt]
Ep(num, input, type, size) ==
  [kind |-> "endpoint", num |-> num, input |-> input, type |-> type, size |-> size]
Broken == [kind |-> "broken"]

(* What the devices describe: the boot loader, the runtime with Bluetooth  *)
(* and an alternate setting, and two descriptors nobody should accept.     *)
BootConfig    == <<Itf(0, 0), Ep(1, FALSE, 2, 512), Ep(1, TRUE, 2, 512)>>
RuntimeConfig == <<Itf(0, 0), Ep(1, TRUE, 3, 64), Ep(2, FALSE, 2, 512), Ep(2, TRUE, 2, 512),
                   Itf(1, 1), Ep(3, TRUE, 1, 512),
                   Itf(2, 0), Ep(4, FALSE, 2, 512), Ep(4, TRUE, 2, 512),
                              Ep(5, FALSE, 2, 512), Ep(5, TRUE, 2, 512)>>
Configs == {BootConfig, RuntimeConfig,
            Append(BootConfig, Ep(2, TRUE, 2, 512)), Append(RuntimeConfig, Broken)}

Readable(config) == \A k \in DOMAIN config : config[k] # Broken

(* Every endpoint with the interface it was listed under. *)
parse_config(config) ==
  FoldLeft(LAMBDA p, d :
             IF d.kind = "interface" THEN [p EXCEPT !.n = d.n, !.alt = d.alt]
             ELSE [p EXCEPT !.list = Append(@, [ep |-> d, n |-> p.n, alt |-> p.alt])],
           [n |-> 255, alt |-> 0, list |-> <<>>], config).list

Bulk(list, input) == SelectSeq(list, LAMBDA e : e.ep.type = 2 /\ e.ep.input = input)

(* The boot loader must have one bulk endpoint each way, of one size. *)
BootShape(list) ==
  /\ Len(Bulk(list, TRUE)) = 1 /\ Len(Bulk(list, FALSE)) = 1
  /\ Bulk(list, TRUE)[1].ep.size = Bulk(list, FALSE)[1].ep.size

enumerate(here, next) ==
  /\ At(here)
  /\ \/ Fails                                  \* one of its six control transfers
     \/ \E config \in Configs, pid \in {fcu.device, "other"} :
          /\ IF /\ Readable(config)
                /\ pid \in {"boot", "runtime"}
                /\ pid = "boot" => BootShape(parse_config(config))
             THEN up' = [up EXCEPT !.step = next, !.pid = pid, !.list = parse_config(config)]
             ELSE ToStep("register")
          /\ UNCHANGED fcu

(* A mistake that would be easy to make here; the properties exclude it:   *)
(* the last endpoint seen of a direction serves both purposes.             *)
runtime_map_last(list) ==
  LET wlan == SelectSeq(list, LAMBDA e : e.alt = 0 /\ e.n = 2 /\ e.ep.type = 2)
      num(input) == IF Bulk(wlan, input) = <<>> THEN 0 ELSE Last(Bulk(wlan, input)).ep.num
  IN [data_out |-> num(FALSE), data_in |-> num(TRUE),
      msg_out |-> num(FALSE), msg_in |-> num(TRUE)]

(* Interface 2 is Wi-Fi: its first bulk endpoints carry data, its second   *)
(* ones messages; interface 0 is Bluetooth.                                *)
runtime_map(list) ==
  LET main == SelectSeq(list, LAMBDA e : e.alt = 0)
      wlan == SelectSeq(main, LAMBDA e : e.n = 2 /\ e.ep.type = 2)
      bt(input, type) == \E k \in DOMAIN main :
        main[k].n = 0 /\ main[k].ep.input = input /\ main[k].ep.type = type
      num(input, k) == Bulk(wlan, input)[k].ep.num
  IN IF /\ \A k \in DOMAIN wlan : wlan[k].ep.size = 512
        /\ Len(Bulk(wlan, TRUE)) >= 2 /\ Len(Bulk(wlan, FALSE)) >= 2
        /\ bt(TRUE, 3) /\ bt(TRUE, 2) /\ bt(FALSE, 2)
     THEN [data_out |-> num(FALSE, 1), data_in |-> num(TRUE, 1),
           msg_out |-> num(FALSE, 2), msg_in |-> num(TRUE, 2)]
     ELSE [data_out |-> 0, data_in |-> 0, msg_out |-> 0, msg_in |-> 0]

(* The pipes for data and for messages are different ones.  That this is   *)
(* so for every device the driver accepts is a fact without constants and  *)
(* variables, which TLC computes on each run and the proofs use.           *)
Separate(list) ==
  LET m == runtime_map(list) IN m.data_in # m.msg_in /\ m.data_out # m.msg_out

ASSUME MapIsSeparate ==
  \A config \in {c \in Configs : Readable(c)} :
    runtime_map(parse_config(config)).msg_in # 0 => Separate(parse_config(config))

-----------------------------------------------------------------------------
(* The boot loader: one command, one answer.                               *)

(* The answer is the confirmation, or the bring-up is over. *)
aic_command(effect, next) == (fcu' = effect /\ up' = next) \/ Fails

(* Reading the chip's identity, whose revision has to be 7. *)
bootrom_read32 ==
  /\ At("probe") /\ up.pid = "boot"
  /\ \/ ToStep("adid") /\ UNCHANGED fcu
     \/ Fails

NotBoot == At("probe") /\ up.pid # "boot" /\ Fails

After == [adid |-> "patch", patch |-> "ext0", ext0 |-> "patch_table", fmac |-> "patch_config"]
Images == DOMAIN After

(* One block of an image.  The card may hold less of the file than it      *)
(* should; the chip may confirm a block it did not keep.                   *)
block_write(image) ==
  /\ At(image) /\ up.offset < FileBlocks
  /\ \E kept \in SUBSET {up.offset} :
       aic_command([fcu EXCEPT !.ram[image] = @ \cup kept, !.confirmed[image] = @ + 1],
                   [up EXCEPT !.offset = @ + 1])

(* After the last block the file must be at its end. *)
upload_file(image) ==
  /\ At(image) /\ up.offset = FileBlocks
  /\ \/ ToStep(After[image]) /\ UNCHANGED fcu
     \/ Fails

(* The table is read whole, has its tag, and its sections end exactly at   *)
(* its end; each pair is one write.                                        *)
apply_patch_table ==
  /\ At("patch_table")
  /\ aic_command([fcu EXCEPT !.table = TRUE],
                 [up EXCEPT !.step = "fmac", !.offset = 0])

(* A mistake that would be easy to make here; the properties exclude it:   *)
(* the values read back are only logged.                                   *)
patch_config_unread ==
  /\ At("patch_config")
  /\ aic_command([fcu EXCEPT !.config = TRUE], [up EXCEPT !.step = "start"])

(* Words of the first block of the image are read back: zeros mean that it *)
(* was confirmed and not stored, and nothing more is written.              *)
patch_config_d80 ==
  /\ At("patch_config")
  /\ IF 0 \in fcu.ram["fmac"]
     THEN aic_command([fcu EXCEPT !.config = TRUE], [up EXCEPT !.step = "start"])
     ELSE Fails

(* START_APP is not confirmed: the device leaves the bus and comes back as *)
(* the runtime, or is still seen as the boot loader when it is looked for. *)
bootrom_start ==
  /\ At("start")
  /\ \E seen \in {"none", "boot", "runtime"} :
       aic_command([fcu EXCEPT !.device = seen, !.app = TRUE],
                   [up EXCEPT !.step = "port_again"])

load_firmware == \/ \E image \in Images : block_write(image) \/ upload_file(image)
                 \/ apply_patch_table \/ patch_config_d80 \/ bootrom_start

MapRuntime ==
  /\ At("map")
  /\ IF up.pid = "runtime" /\ runtime_map(up.list).msg_in # 0
     THEN ToStep("lmac") /\ UNCHANGED fcu
     ELSE Fails

-----------------------------------------------------------------------------
(* The runtime: requests over the message endpoint, each waiting for its   *)
(* confirmation among whatever else the firmware says.                     *)

runtime_version == <<"VERSION">>
stack_start     == <<"STACK", "GET_MAC">>
rf_config       == <<"TXPWR", "RF_CALIB">>
me_config       == <<"RESET">> \o runtime_version \o <<"ME_CONFIG">>
channel_config  == <<"ME_CHAN">>
station_vif     == <<"ADD_IF">>
mac_start       == <<"START">>

LmacRequests == runtime_version \o stack_start \o rf_config \o me_config
            \o channel_config \o station_vif \o mac_start

(* How many messages a request reads before it gives up. *)
Tries(request) == IF request = "VERSION" THEN 4 ELSE 8

(* A message that is not the confirmation is dropped; a confirmation that  *)
(* says no, or makes no sense (no usable address, no gains, no interface), *)
(* and a time-out end the bring-up.                                        *)
LmacOther ==
  /\ At("lmac") /\ up.attempt < Tries(LmacRequests[up.request])
  /\ up' = [up EXCEPT !.attempt = @ + 1]
  /\ UNCHANGED fcu

LmacConfirmed ==
  /\ At("lmac") /\ up.attempt < Tries(LmacRequests[up.request])
  /\ \/ /\ fcu' = [fcu EXCEPT !.taken = Append(@, LmacRequests[up.request])]
        /\ up' = IF up.request = Len(LmacRequests)
                 THEN [up EXCEPT !.step = "register", !.mac_start = TRUE]
                 ELSE [up EXCEPT !.request = @ + 1, !.attempt = 0]
     \/ Fails

LmacGivesUp ==
  /\ At("lmac") /\ up.attempt = Tries(LmacRequests[up.request])
  /\ Fails

(* The device node appears in any case, wlan0 only with the radio started. *)
register ==
  /\ At("register")
  /\ \/ up' = [up EXCEPT !.step = "done", !.node = TRUE, !.wlan0 = up.mac_start]
     \/ up.mac_start /\ up' = [up EXCEPT !.step = "done", !.node = TRUE]
  /\ UNCHANGED fcu

BringInit ==
  /\ fcu = [device |-> "none", ram |-> [i \in Images |-> {}],
            confirmed |-> [i \in Images |-> 0], table |-> FALSE,
            config |-> FALSE, app |-> FALSE, taken |-> <<>>]
  /\ up = [step |-> "power", offset |-> 0, attempt |-> 0, request |-> 1, pid |-> "other",
           list |-> <<>>, mac_start |-> FALSE, node |-> FALSE, wlan0 |-> FALSE]

BringNext == \/ power_enable
             \/ ehci1_checkpoint("port", "enumerate") \/ enumerate("enumerate", "probe")
             \/ bootrom_read32 \/ NotBoot \/ load_firmware
             \/ ehci1_checkpoint("port_again", "enumerate_again")
             \/ enumerate("enumerate_again", "map") \/ MapRuntime
             \/ LmacOther \/ LmacConfirmed \/ LmacGivesUp \/ register

(* Each step waits for the chip or the card for a bounded time. *)
BringFair == WF_bringVars(BringNext)

BringSpec == BringInit /\ [][BringNext]_bringVars /\ BringFair

-----------------------------------------------------------------------------
(* The application is started only after everything it needs has been sent *)
(* and confirmed, four whole images, the patch table and the patch         *)
(* configuration, and never over an image whose first block is not in the  *)
(* memory, though files may be cut short and blocks confirmed but lost.    *)
StartedWhole ==
  fcu.app => /\ \A image \in Images : fcu.confirmed[image] = FileBlocks
             /\ 0 \in fcu.ram["fmac"] /\ fcu.table /\ fcu.config

(* wlan0 exists only over a started radio: the runtime device is on the    *)
(* bus, its message and data endpoints are different ones, and it has      *)
(* confirmed every request in order.                                       *)
RadioBehindWlan0 ==
  up.wlan0 => /\ fcu.taken = LmacRequests /\ fcu.device = "runtime"
              /\ Separate(up.list)

(* The bring-up never goes on over something it only believes: neither the *)
(* application nor wlan0 without all they stand on.                        *)
BroughtUp == StartedWhole /\ RadioBehindWlan0

(* The bring-up ends and leaves its device node, whatever the chip and the *)
(* card answer: a board without the module still boots.                    *)
NodeAppears == <>(up.node)
=============================================================================
