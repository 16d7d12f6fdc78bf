---------------------------- MODULE AgentSetup ----------------------------
(***************************************************************************)
(* The first configuration of the cloud agent and its start at boot        *)
(* (apps/system/aipet/agent_setup.c, agent_secret.c, agent_startup.c and   *)
(* the autostart record of apps/system/a733services).                      *)
(*                                                                         *)
(* `aipet init` asks for a provider and a key, seals the key with the key  *)
(* of the device (created when there is none), replaces config.json,       *)
(* switches the autostart on and starts an initializer.  An initializer,   *)
(* started there or at boot, waits until network, configuration, CA and    *)
(* clock are there and then starts the agent once.                         *)
(*                                                                         *)
(* Files keep their contents over a power loss once they were synced; what *)
(* was not is gone, torn or there.  Renaming over a file is two steps of   *)
(* the FAT volume under /data, removing the old and moving the new, and a  *)
(* power loss may come between (A733_SERVICES_V55.md: a replacement is not *)
(* a transaction).  A text is known by the setup that wrote it.            *)
(***************************************************************************)
EXTENDS Naturals, FiniteSets

CONSTANTS Terminals,    \* terminals at which commands are given
          Starters,     \* initializer tasks that may exist at a time
          MaxSetups,    \* bound on the calls of aipet_setup
          MaxLosses,    \* bound on the power losses
          MaxFaults,    \* bound on the calls that fail
          MaxKills,     \* bound on the setups that Ctrl+C kills between its prompts
          Nobody

ASSUME SetupAssumption ==
  /\ MaxSetups \in Nat /\ MaxLosses \in Nat /\ MaxFaults \in Nat
  /\ MaxKills \in Nat /\ Nobody \notin Terminals

VARIABLES
  config, temp,       \* config.json and config.json.new
  key,                \* device.key
  auto,               \* agent.auto
  setupLock, keyLock, \* setup_lock, key_lock
  pc, attempt, seal,  \* terminals: position, number of the setup, key it seals with
  boot,               \* initializers: position
  bootRunning,        \* boot_running
  started, phase,     \* agents spawned and not yet claimed; aipet_agent_status
  online,              \* network, CA and clock
  setups, losses, faults, kills

disk == <<config, temp, key, auto>>
locks == <<setupLock, keyLock>>
terminals == <<pc, attempt, seal>>
startup == <<boot, bootRunning, started, phase>>
counters == <<setups, losses, faults, kills>>
vars == <<disk, locks, terminals, startup, online, counters>>
-----------------------------------------------------------------------------
Attempts == 0 .. MaxSetups

(* A file: not there, written and not yet synced, cut short, or whole, with *)
(* the setup that wrote it and the setup that made the key it is sealed     *)
(* with (0 for a text from before, 0 for a plain one).                      *)
Files == [state : {"none", "unsynced", "torn", "whole"}, by : Attempts, sealed : Attempts]

Absent == [state |-> "none", by |-> 0, sealed |-> 0]
Whole(n, k) == [state |-> "whole", by |-> n, sealed |-> k]
Unsynced(n, k) == [state |-> "unsynced", by |-> n, sealed |-> k]

Positions == {"idle", "prompt", "seal", "sync key", "save", "sync", "rename", "move",
              "on", "move on", "start", "off", "move off"}

BootPositions == {"none", "entry", "loop", "look", "spawn", "leave"}

FilesTyped ==
  /\ config \in Files /\ temp \in Files /\ key \in Files
  /\ auto \in {"none", "on", "off"}

TerminalsTyped ==
  /\ setupLock \in Terminals \cup {Nobody} /\ keyLock \in Terminals \cup {Nobody}
  /\ pc \in [Terminals -> Positions]
  /\ attempt \in [Terminals -> Attempts] /\ seal \in [Terminals -> Attempts]

StartupTyped ==
  /\ boot \in [Starters -> BootPositions]
  /\ bootRunning \in BOOLEAN
  /\ started \in Nat /\ phase \in {0, 1} /\ online \in BOOLEAN

CountersTyped ==
  /\ setups \in Attempts /\ losses \in 0 .. MaxLosses
  /\ faults \in 0 .. MaxFaults /\ kills \in 0 .. MaxKills

TypeOK == FilesTyped /\ TerminalsTyped /\ StartupTyped /\ CountersTyped

(* a733_auto_enabled: without a record the agent starts at boot.            *)
AutoEnabled(record) == record # "off"

(* service --boot: one initializer when the record allows it.               *)
Booted(b, record) ==
  IF AutoEnabled(record)
    THEN \E s \in Starters : b = [x \in Starters |-> IF x = s THEN "entry" ELSE "none"]
    ELSE b = [x \in Starters |-> "none"]

Init ==
  /\ config \in {Absent, Whole(0, 0)} /\ temp = Absent /\ key = Absent
  /\ auto \in {"none", "off"}
  /\ setupLock = Nobody /\ keyLock = Nobody
  /\ pc = [t \in Terminals |-> "idle"]
  /\ attempt = [t \in Terminals |-> 0] /\ seal = [t \in Terminals |-> 0]
  /\ Booted(boot, auto)
  /\ bootRunning = FALSE /\ started = 0 /\ phase = 0 /\ online = FALSE
  /\ setups = 0 /\ losses = 0 /\ faults = 0 /\ kills = 0
-----------------------------------------------------------------------------
Goto(t, from, to) == pc[t] = from /\ pc' = [pc EXCEPT ![t] = to]

(* A lock whose owner was killed may be passed.                             *)
KeyFree == keyLock \notin {t \in Terminals : pc[t] = "sync key"}

Fault == faults < MaxFaults /\ faults' = faults + 1

(* done: of aipet_setup.  The lock is given back whatever happened.         *)
Leave(t, from) == Goto(t, from, "idle") /\ setupLock' = Nobody

(* trylock of setup_lock, and the agent asked for its phase, once.          *)
SetupBegins(t) ==
  /\ setups < MaxSetups /\ setupLock = Nobody
  /\ setups' = setups + 1
  /\ IF phase = 0
       THEN /\ Goto(t, "idle", "prompt") /\ setupLock' = t
            /\ attempt' = [attempt EXCEPT ![t] = setups']
       ELSE /\ pc[t] = "idle" /\ UNCHANGED <<pc, setupLock, attempt>>
  /\ UNCHANGED <<disk, keyLock, seal, startup, online, losses, faults, kills>>

(* The three prompts, the directories and existing(): a cancelled prompt, a *)
(* field it refuses and a config.json it cannot parse end the setup.        *)
SetupAsks(t) ==
  /\ \/ Leave(t, "prompt")
     \/ Goto(t, "prompt", "seal") /\ config.state # "torn" /\ UNCHANGED setupLock
  /\ UNCHANGED <<disk, keyLock, attempt, seal, startup, online, counters>>

(* device_key in aipet_secret_seal, with the lock of the key held: a key of *)
(* the right size is read, an absent one is created, anything else is an    *)
(* error.                                                                   *)
SealsWithKey(t) ==
  /\ KeyFree /\ key.state = "whole"
  /\ Goto(t, "seal", "save")
  /\ seal' = [seal EXCEPT ![t] = key.by]
  /\ UNCHANGED <<disk, locks, attempt, startup, online, counters>>

KeyCreated(t) ==
  /\ KeyFree /\ key.state = "none"
  /\ Goto(t, "seal", "sync key")
  /\ keyLock' = t
  /\ key' = Unsynced(attempt[t], 0)
  /\ UNCHANGED <<config, temp, auto, setupLock, attempt, seal, startup, online, counters>>

KeySynced(t) ==
  /\ Goto(t, "sync key", "save")
  /\ keyLock' = Nobody
  /\ key' = [key EXCEPT !.state = "whole"]
  /\ seal' = [seal EXCEPT ![t] = key.by]
  /\ UNCHANGED <<config, temp, auto, setupLock, attempt, startup, online, counters>>

(* A write, fsync or close that fails: the new key is removed.              *)
KeyFails(t) ==
  /\ Fault
  /\ Leave(t, "sync key")
  /\ keyLock' = Nobody
  /\ key' = Absent
  /\ UNCHANGED <<config, temp, auto, attempt, seal, startup, online, setups, losses, kills>>

SealFails(t) ==
  /\ KeyFree
  /\ \/ key.state = "torn" /\ UNCHANGED faults
     \/ Fault
  /\ Leave(t, "seal")
  /\ UNCHANGED <<disk, keyLock, attempt, seal, startup, online, setups, losses, kills>>

(* save: the temporary file is opened with O_EXCL, so one that is there     *)
(* already ends the setup; then it is written and synced, and renamed.      *)
SaveOpens(t) ==
  /\ temp.state = "none"
  /\ Goto(t, "save", "sync")
  /\ temp' = Unsynced(attempt[t], seal[t])
  /\ UNCHANGED <<config, key, auto, locks, attempt, seal, startup, online, counters>>

SaveRefused(t) ==
  /\ \/ temp.state # "none" /\ UNCHANGED faults
     \/ Fault
  /\ Leave(t, "save")
  /\ UNCHANGED <<disk, keyLock, attempt, seal, startup, online, setups, losses, kills>>

(* A mistake that would be easy to make here; the properties exclude it:     *)
(* the text is renamed before it is synced.                                 *)
SavesUnsynced(t) ==
  /\ Goto(t, "sync", "rename")
  /\ UNCHANGED <<disk, locks, attempt, seal, startup, online, counters>>

SaveSyncs(t) ==
  /\ Goto(t, "sync", "rename")
  /\ temp' = [temp EXCEPT !.state = "whole"]
  /\ UNCHANGED <<config, key, auto, locks, attempt, seal, startup, online, counters>>

(* The file system removes the old file ...                                 *)
RenameRemoves(t) ==
  /\ Goto(t, "rename", "move")
  /\ config' = Absent
  /\ UNCHANGED <<temp, key, auto, locks, attempt, seal, startup, online, counters>>

(* ... and moves the new one.                                               *)
RenameMoves(t) ==
  /\ Goto(t, "move", "on")
  /\ config' = temp /\ temp' = Absent
  /\ UNCHANGED <<key, auto, locks, attempt, seal, startup, online, counters>>

(* A mistake that would be easy to make here; the properties exclude it:     *)
(* a failed save leaves its temporary file.                                 *)
SaveLeavesTemp(t) ==
  /\ Fault
  /\ \E here \in {"sync", "rename", "move"} : Leave(t, here)
  /\ UNCHANGED <<disk, keyLock, attempt, seal, startup, online, setups, losses, kills>>

(* A write, fsync, close or rename that fails: the new file is removed.     *)
SaveFails(t) ==
  /\ Fault
  /\ \E here \in {"sync", "rename", "move"} : Leave(t, here)
  /\ temp' = Absent
  /\ UNCHANGED <<config, key, auto, keyLock, attempt, seal, startup, online, setups, losses, kills>>

(* a733_config_write of agent.auto, under the lock of the records: its      *)
(* temporary file is truncated when it is opened, so that nothing in it     *)
(* outlives a call; the record is removed, then the new one moved.          *)
RecordFree == \A t \in Terminals : pc[t] \notin {"move on", "move off"}

AutoRemoves(t) ==
  /\ RecordFree
  /\ Goto(t, "on", "move on") \/ Goto(t, "off", "move off")
  /\ auto' = "none"
  /\ UNCHANGED <<config, temp, key, locks, attempt, seal, startup, online, counters>>

AutoMoves(t) ==
  /\ \/ Goto(t, "move on", "start") /\ auto' = "on"
     \/ Goto(t, "move off", "idle") /\ auto' = "off"
  /\ UNCHANGED <<config, temp, key, locks, attempt, seal, startup, online, counters>>

AutoFails(t) ==
  /\ Fault
  /\ \/ \E here \in {"on", "move on"} : Leave(t, here)
     \/ \E here \in {"off", "move off"} : Goto(t, here, "idle") /\ UNCHANGED setupLock
  /\ UNCHANGED <<disk, keyLock, attempt, seal, startup, online, setups, losses, kills>>

(* service agent off.                                                       *)
ServiceOff(t) ==
  /\ auto # "off"
  /\ Goto(t, "idle", "off")
  /\ UNCHANGED <<disk, locks, attempt, seal, startup, online, counters>>

(* aipet_startup(0) spawns an initializer and the setup is over.            *)
SetupStarts(t) ==
  /\ Leave(t, "start")
  /\ \/ /\ \E s \in Starters : boot[s] = "none" /\ boot' = [boot EXCEPT ![s] = "entry"]
        /\ UNCHANGED faults
     \/ Fault /\ UNCHANGED boot
  /\ UNCHANGED <<disk, keyLock, attempt, seal, bootRunning, started, phase, online,
                 setups, losses, kills>>

(* Ctrl+C outside a prompt and outside a733_config_write, which masks it:   *)
(* the task is deleted as it stands.                                        *)
Kill(t) ==
  /\ kills < MaxKills /\ kills' = kills + 1
  /\ \E here \in {"seal", "sync key", "save", "sync", "rename", "move", "on", "start"} :
       Goto(t, here, "idle")
  /\ UNCHANGED <<disk, locks, attempt, seal, startup, online, setups, losses, faults>>
-----------------------------------------------------------------------------
GotoBoot(s, from, to) == boot[s] = from /\ boot' = [boot EXCEPT ![s] = to]

(* A mistake that would be easy to make here; the properties exclude it:     *)
(* the gate is set and not read.                                            *)
BootIgnoresGate(s) ==
  /\ GotoBoot(s, "entry", "loop")
  /\ bootRunning' = TRUE
  /\ UNCHANGED <<disk, locks, terminals, started, phase, online, counters>>

(* aipet_startup(1): the gate.                                              *)
BootEnters(s) ==
  /\ IF bootRunning THEN GotoBoot(s, "entry", "none") ELSE GotoBoot(s, "entry", "loop")
  /\ bootRunning' = TRUE
  /\ UNCHANGED <<disk, locks, terminals, started, phase, online, counters>>

(* An agent that was started before is left alone.                          *)
BootChecks(s) ==
  /\ GotoBoot(s, "loop", IF phase = 0 THEN "look" ELSE "leave")
  /\ UNCHANGED <<disk, locks, terminals, bootRunning, started, phase, online, counters>>

(* configured: config.json is there and its key can be opened.              *)
Configured ==
  /\ config.state = "whole"
  /\ config.sealed = 0 \/ (key.state = "whole" /\ key.by = config.sealed)

(* A mistake that would be easy to make here; the properties exclude it:     *)
(* an initializer that finds nothing ready gives up.                        *)
BootLooksOnce(s) ==
  /\ KeyFree
  /\ GotoBoot(s, "look", IF online /\ Configured THEN "spawn" ELSE "leave")
  /\ UNCHANGED <<disk, locks, terminals, bootRunning, started, phase, online, counters>>

(* Network, configuration, CA and clock.  Opening the key takes its lock.   *)
BootLooks(s) ==
  /\ KeyFree
  /\ GotoBoot(s, "look", IF online /\ Configured THEN "spawn" ELSE "loop")
  /\ UNCHANGED <<disk, locks, terminals, bootRunning, started, phase, online, counters>>

BootSpawns(s) ==
  /\ GotoBoot(s, "spawn", "leave")
  /\ \/ started' = started + 1 /\ UNCHANGED faults
     \/ Fault /\ UNCHANGED started
  /\ UNCHANGED <<disk, locks, terminals, bootRunning, phase, online, setups, losses, kills>>

BootLeaves(s) ==
  /\ GotoBoot(s, "leave", "none")
  /\ bootRunning' = FALSE
  /\ UNCHANGED <<disk, locks, terminals, started, phase, online, counters>>

(* A mistake that would be easy to make here; the properties exclude it:     *)
(* a claim by nobody.                                                       *)
ClaimsUnspawned ==
  /\ started' = started - 1
  /\ phase' = 1
  /\ UNCHANGED <<disk, locks, terminals, boot, bootRunning, online, counters>>

(* A spawned agent calls aipet_agent_claim, which lets one through and      *)
(* never another (AgentBridge has the rest of its life).                    *)
AgentClaims ==
  /\ started > 0
  /\ started' = started - 1
  /\ phase' = 1
  /\ UNCHANGED <<disk, locks, terminals, boot, bootRunning, online, counters>>

(* The network comes and goes.                                              *)
ReadyChanges ==
  /\ online' = ~online
  /\ UNCHANGED <<disk, locks, terminals, startup, counters>>

(* What a power loss leaves of a file.                                      *)
Survivors(f) ==
  IF f.state = "unsynced"
    THEN {Absent, [f EXCEPT !.state = "torn"], [f EXCEPT !.state = "whole"]}
    ELSE {f}

PowerLoss ==
  /\ losses < MaxLosses /\ losses' = losses + 1
  /\ config' \in Survivors(config) /\ temp' \in Survivors(temp) /\ key' \in Survivors(key)
  /\ auto' = auto
  /\ setupLock' = Nobody /\ keyLock' = Nobody
  /\ pc' = [t \in Terminals |-> "idle"]
  /\ attempt' = [t \in Terminals |-> 0] /\ seal' = [t \in Terminals |-> 0]
  /\ Booted(boot', auto)
  /\ bootRunning' = FALSE /\ started' = 0 /\ phase' = 0 /\ online' = FALSE
  /\ UNCHANGED <<setups, faults, kills>>
-----------------------------------------------------------------------------
SetupStep(t) ==
  \/ SetupAsks(t)
  \/ SealsWithKey(t) \/ KeyCreated(t) \/ KeySynced(t) \/ KeyFails(t) \/ SealFails(t)
  \/ SaveOpens(t) \/ SaveRefused(t) \/ SaveSyncs(t)
  \/ RenameRemoves(t) \/ RenameMoves(t) \/ SaveFails(t)
  \/ AutoRemoves(t) \/ AutoMoves(t) \/ AutoFails(t)
  \/ SetupStarts(t)

BootStep(s) ==
  BootEnters(s) \/ BootChecks(s) \/ BootLooks(s) \/ BootSpawns(s) \/ BootLeaves(s)

Next ==
  \/ \E t \in Terminals : SetupBegins(t) \/ SetupStep(t) \/ ServiceOff(t) \/ Kill(t)
  \/ \E s \in Starters : BootStep(s)
  \/ AgentClaims \/ ReadyChanges \/ PowerLoss

Spec == Init /\ [][Next]_vars

(* A setup that was begun goes on, the initializers run, and an agent that  *)
(* was spawned claims.  Nothing is assumed of the network.                  *)
FairSpec ==
  /\ Spec
  /\ \A t \in Terminals : WF_vars(SetupStep(t))
  /\ \A s \in Starters : WF_vars(BootStep(s))
  /\ WF_vars(AgentClaims)
-----------------------------------------------------------------------------
(* Whatever call fails and whenever the power goes, a config.json that is   *)
(* there is complete, and when its API key is sealed the key of this device *)
(* that opens it is on the disk: the order in which aipet_setup creates and *)
(* syncs the key, writes and syncs the text and renames it.                 *)
KeyOpensConfig ==
  config.state # "none" => Configured

(* The gate of aipet_startup: while boot_running is set there is exactly    *)
(* one initializer at work, and none while it is clear, so that a caller    *)
(* that returns at once can rely on another one.                            *)
GateIsHeld ==
  Cardinality({s \in Starters : boot[s] \in {"loop", "look", "spawn", "leave"}})
    = (IF bootRunning THEN 1 ELSE 0)

(* Setups and initializers at once leave the device able to start its agent *)
(* (both of the above).                                                     *)
SetupIsSafe == KeyOpensConfig /\ GateIsHeld

(* Whichever calls fail, once no setup is running the next one can go       *)
(* through: the lock is free, no temporary file is in the way of the O_EXCL *)
(* of save, and device.key is whole or absent.  A power loss, or a Ctrl+C   *)
(* outside the prompts, may leave each of them behind.                      *)
Repeatable ==
  losses = 0 /\ kills = 0 /\ (\A t \in Terminals : pc[t] \in {"idle", "off", "move off"})
    => /\ setupLock = Nobody /\ keyLock = Nobody
       /\ temp.state = "none"
       /\ key.state \in {"none", "whole"}

(* A setup that has saved and comes to start the agent gets it started once *)
(* the network stays and nothing fails, whether its own initializer or the  *)
(* one that was there before does it, even over a power loss, unless a      *)
(* later command switches the autostart off or a later setup takes the      *)
(* configuration away.                                                      *)
StartIsServed ==
  <>[]online =>
    ((\E t \in Terminals : pc[t] = "start")
       ~> (phase # 0 \/ auto = "off" \/ ~Configured \/ faults + kills > 0))
=============================================================================
