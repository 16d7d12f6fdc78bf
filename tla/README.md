# TLA+ models of the A733 openvela share hub

This directory holds a formal model of the program's own logic on openvela
(NuttX): on the A733 Cubie A7Z the pet, the local language model, the NPU
service, the console, the Wi-Fi driver, the FTP server, the long names of FAT
and the NTP client, and on the two Rockchip boards the SD/MMC controllers and
the camera.  TLC checks every module on small instances, and TLAPS proves the
most important properties for every value of the constants.

Paths below are relative to `src/`.  `OV` is
`board/a733-cubie-a7z/openvela-overlay`, `CH` is
`OV/vendor/allwinnertech/chips/a733`, `AP` is `OV/apps/system`, `RK` is
`board/rockchip`.

`PROJECT.json` lists the components, the runs, for every property a mutated
definition that breaks it, the source lines of every definition, the findings,
the hazards and the theorems.

To repeat the work:

    tlc -workers 2 -config LlmPool.cfg MC_LlmPool.tla
    tlapm LlmPool_proofs.tla

## 1. Inventory

### Modelled components

| component | source | state | operations | modules |
|---|---|---|---|---|
| LLM: compute pool and model lock | `AP/aipetllm/aipetllm_modelcheck.c`, `CH/a733_boot.c` | `g_model_lock`, cached weights, eight slots of plain memory with two semaphores each, request and reply semaphores | configure, run a matrix, unload; service task, compute threads | `LlmPool`, `ModelMemory` |
| LLM: generation, history, stop | the same, `AP/aipetllm/aipetllm_main.c` | `g_chat_lock`, history of 64 tokens, active and stop flags, cached model | ask, chat, newchat, stop, unload | `LlmGeneration` |
| LLM: division of a matrix | `aipetllm_modelcheck.c` | two loops over a CPU mask | `read_parallel_matvec` | `RowPartition` |
| Pet: bridge to the agent | `AP/aipet/agent_bridge.c`, `pet_routes.cxx` | one request, one reply, life of the agent, under one lock | claim, attach, detach, finish, submit, poll, cancel, tap | `AgentBridge` |
| Pet: setup, key, start of the agent | `AP/aipet/agent_setup.c`, `agent_secret.c`, `agent_startup.c`, `AP/a733services` | `config.json`, `config.json.new`, `device.key`, the autostart record, three locks | init, boot, power loss | `AgentSetup` |
| NPU: command pool | `CH/a733_npu_runtime.c` | contexts, buffers, page map | open, close, alloc, free | `NpuPool`, `FirstFit`, `PageScan` |
| NPU: execution | the same, `CH/a733_npu.c` | gate, in-flight handle, cancel flag, last task and status, run lock | submit, self-test, RUN_A7PM, prepared=, cancel, reset, sync | `NpuRuntime` |
| Console | `CH/a733_serial.c` | ring, semaphore, receive thread, foreground command | open, receive, read | `Console` |
| Wi-Fi: station | `CH/a733_wifi_usb.c` | `g_wifi` without a lock, the message endpoint under one | associate, wpa, disconnect, scan, receive thread, DHCP thread | `WifiStation` |
| Wi-Fi: data path | the same | send buffer, one descriptor, data toggles, three locks | send, receive loop, message poll | `WifiTransfer` |
| Wi-Fi: bring-up | the same | checkpoints from power to `wlan0` | power, enumeration, firmware, LMAC requests, registration | `WifiBringUp` |
| Wi-Fi: scan | the same | table of the networks heard, bands and attempts | scan, connection by name | `WifiScan` |
| FTP: sessions | `OV/apps/netutils/ftpd/ftpd.c` | restart position, rename source, data connection, transfer | USER to RNTO, RETR, STOR, APPE, LIST, loss of a connection | `FtpSession` |
| FTP: server | the same, `AP/a733ftpd` | server object, accounts, count of clients | start, stop, accept, login, leave, drain | `FtpServer` |
| FTP: paths | `ftpd.c` | working directory, tree | the nodes of a path, CWD, MKD, RMD | `FtpPaths` |
| FAT: long names | `OV/nuttx/fs/fat/fs_fat32dirent.c` | entries over sectors and clusters | find, create, list, remove, power loss | `FatNames` |
| SD/MMC: transfers | `RK/chips/rk3506/rk3506_sdmmc.c` | wait and transfer masks, semaphore, watchdog, FIFO, bus master | waitenable, send and receive setup, cancel, eventwait, interrupt, expiry | `SdmmcWait` |
| SD/MMC: card-detect | `RK/chips/rv1103/rv1103_sdmmc.c` | believed card, the one event asked for | interrupt, registercallback, callbackenable, status | `SdmmcMedia` |
| Camera SC3336 | `RK/boards/rv1103/luckfox-pico-mini/src/luckfox_sc3336.c` | sensor, capture channel, two published frames, exposure and rate | capture, stream on and off, ISP capture, controls, read | `Camera` |
| NTP client | `OV/apps/netutils/ntpclient/ntpclient.c` | daemon state, lock, one semaphore for all posts, kiss-of-death list | start, stop, status, the daemon | `NtpClient` |

### How they interact

    NSH commands ─┬─ aipet ──► agent_bridge ◄── tap ◄── official agent (external)
                  │     └────► agent_setup ─ files, autostart ─► agent_startup ─► agent
                  ├─ aipetllm ─► generation ─► pool service ─► compute threads
                  ├─ a733npu ──► /dev/npu0 ─► pool, gate ─► NPU and its interrupt
                  ├─ wifi ─────► station ─► message endpoint ◄─ receive thread ─► wlan0
                  │                └► DHCP thread, NTP client     └► data endpoints
                  └─ ftpd ─────► listener ─► workers ─► files (FAT, SD card)
    all of them read their keys from /dev/a7zconsole

* Calls under locks: an `ask` takes `g_chat_lock`, then `g_model_lock` (both
  with trylock), then talks to the pool service over two semaphores.  A frame is
  sent under the network lock, the lock of the send buffer and the lock of the
  host controller, in this order.  `ntpc_stop` keeps its lock while it waits.
* Callbacks: the agent's dispatcher calls the bridge's tap; it looks the tap
  up under the bus lock and calls it after releasing it.  The SD driver calls
  the slot driver back from a work thread, one enabled event at a time.
* Shared state without a lock: stop flag, cancel flag, last task and status of
  the NPU, the slots of the pool, all of `g_wifi`, the accounts of the FTP
  server.
* Interrupts and watchdogs: the NPU's interrupt ends a command that the caller
  polls; an SD transfer is ended by its interrupt, the bus master's, the
  watchdog or a cancel.
* Files: the setup and the initializer of the next boot meet on the disk only;
  an interrupted upload is resumed from the size that is on the disk.

### Behaviours that are hard, and what correctness means there

| component | hard behaviour | correctness |
|---|---|---|
| pool | plain memory ordered by semaphores only; thread creation fails half way | nothing is freed under a thread; slots rewritten only when quiet; a success was computed on every CPU; every wait ends |
| generation | minutes of work between reading and writing the history; stop takes no lock | the session grows by whole turns; budget and promptness kept; only whole models cached |
| bridge | late, repeated, missing answers; shutdown at any time | one request and one reply, none overwritten; no old answer is presented; an ask ends |
| setup | power loss, failing calls, Ctrl+C between any two steps | what is on the disk can be opened; after a failure the setup can be repeated; a saved setup gets its agent |
| NPU pool | close that stops in the middle, stale handles | no page twice or lost; old handles refused; a protected buffer stays |
| NPU execution | an NPU that hangs, resists its reset or answers late; flags without locks | one command at a time, honest results, every call ends |
| console | token and byte are handled apart, two readers | order kept, no empty read, no byte left behind |
| station | repeated and late handshake messages, one queue for the answers to two threads, a teardown in two messages | only agreed keys installed, but for one erased meanwhile; nobody takes another's answer; a disconnect leaves nothing behind; commands come back |
| data path | completion in the last interval of a poll, a poll that ends inside a frame, one buffer for all senders, toggles | frames whole at the chip; a received frame is lost only with the poll that ended in it; senders come back |
| bring-up, scan | blocks confirmed and lost, other endpoints, a full table | nothing is built on a step that did not happen; the table is what was heard |
| FTP | connections lost anywhere, an old worker that lives on, stop with sessions open | an upload can be resumed; the accounts outlive the workers; a stop drains; no path leaves the served root |
| FAT | a name is several entries over two sectors or clusters; power loss between them | every created name is found at its own file, and no other |
| SD/MMC | interrupt, watchdog and cancel at one moment; leftovers of the last transfer, an EBE nobody looks at, an early DTO | a success has exactly its own words and a fast restart finds the bus master done, unless the request is in doubt; waits end |
| camera | failure between two switches of the channel; readers of shared frames | the channel writes into its own frames and is given back; frames stay while they are shown |
| NTP | a lock kept over a wait, posts that stay in the semaphore, offsets of 64 bits | the clock moves by a middle offset and never after a stop; calls return |

### Components that are not modelled

`PROJECT.json` has the sources and the reason for each.

* Next in the plan (section 2): the conversation and sentence stream, local
  speech recognition, the NPU arena, Rockchip's USB CDC, SPI NAND and DMA.
* Left out because they are sequential input and output with hardly any state:
  speech output over UART, the USB camera checkpoint, A733 peripherals and
  command line tools, Rockchip small peripherals and Wi-Fi probe.
* Left out because their value is in the data: tokenizer and tensor checks.
* Left out because they are not this program's logic: vendored and changed
  third-party sources (ggml, libssh, iperf, NSH's network commands, the NuttX
  kernel files).

## 2. Plan

The order puts first what would lose or corrupt data, or stop the device.

1. Done: `LlmPool` over `ModelMemory`; `LlmGeneration`; `AgentBridge`;
   `NpuPool` and `NpuRuntime`, which composes it with the execution path;
   `PageScan`, `RowPartition`; `Console`; `AgentSetup`.
2. Done: the Wi-Fi driver (`WifiStation`, `WifiTransfer`, `WifiBringUp`,
   `WifiScan`); the FTP server (`FtpSession`, `FtpServer`, `FtpPaths`);
   `FatNames`; `SdmmcWait` and `SdmmcMedia`; `Camera`; `NtpClient`.
3. Left: `Conversation` and `SentenceStream` (`AP/aipet/pet_core.cxx`), the
   fallback from cloud to local and a stream whose cut does not depend on its
   chunks; `LocalAsr`, `NpuArena`; `UsbCdc` and `SfcNand` of the Rockchip boards.
4. Done: the theorems of section 5: every safety invariant of the passing runs
   is a theorem, for the parts by themselves and as the runs compose them.

## 3. The modules

Conventions.  One action is one critical section, one semaphore operation or
one access to a shared variable that no lock protects; what a handler does
between two such points belongs to the action.  `pc` has one position for each
place where another thread may get in.  Names are those of the source where
they differ from it only in case.  Definitions under the comment "A mistake that
would be easy to make here" are not part of any specification: they are
plausible wrong versions of the action that follows, kept so that each property
can be shown to exclude one of them.  Variables that the code does not have
(called ghosts) only record what a property speaks about; no guard reads them.

### ModelMemory, LlmPool

`ModelMemory` is the abstract specification, the comment above `g_model_lock`
("never free weights that workers are reading") as a state machine.  `LlmPool`
is the code:

| model | code |
|---|---|
| `lock`, `Acquire`, `Release` | trylock of `g_model_lock` in `embedding_pipeline_run`, `aipetllm_cache_control` |
| `started`, `svc`, `cursor` | the service task and where its loops are |
| `request`, `reply`, `command`, `requested`, `result` | `g_pool_request`, `g_pool_reply` and the fields of the command |
| `thread`, `ready`, `done`, `stop`, `work`, `status`, `cpu` | the slots |
| `mem`, `inputs` | the weights and `input_q8` of a client |
| `Configure`, `ServiceStop/Join/Reset/Create/Created` | `llm_pool_configure`, the configure branch of `llm_pool_service` |
| `StartMatvec`, `ServicePost/Collect/Collected` | `read_parallel_matvec`, the run branch |
| `WorkerWake`, `WorkerFinish` | `pool_worker`, `matvec_worker` |

The refinement maps `mem` to itself and the readers to the slots that compute.

### LlmGeneration

`Start` is `ask` or `chat` up to the trylock of the model, `Enter`, `ClearStop`
and `Activate` the beginning of a run, `Load` one chunk of the model, `Layer`
one layer with its look at the stop flag, `Prefill` and `Predict` the end of a
position, `Deactivate`, `Unlock` and `Finish` the end with the commit of the
turn.  `StopTest` and `StopSet` are the two atomics of
`aipetllm_generation_control`.  The record `run[t]` has the arguments and the
loop variables.  A token is who wrote it; logits and text are abstract.

### AgentBridge

Every action is one critical section of the bridge's lock.  `Lookup` is the
moment in which the dispatcher (external, known through the patches of the
repository and the bridge's own calls) has found the tap and left the bus lock; `Receive` is the
call, possibly after a detach.  `Tick` is the passing of the deadline.

### NpuPool, FirstFit, PageScan

`NpuPool` has the contexts, slots, page map and counters; `FirstFit` says which
pages an allocation gets, and `PageScan` is the loop of `a733_rt_alloc` that
finds them, shown to compute just that.  A handle is a slot and a generation
modulo `HandleSpan` (2^24 in the code).

### NpuRuntime

Extends `NpuPool` with the execution: the gate (`busy`), the flag `cancel`, the
protected handle, `g_rt_run_lock`, the last task and status, and an external NPU
(`job`, `irq`) that may finish, hang, answer late and resist its reset.
`PoolCall` takes a step of `NpuPool` for the file of the thread, `Continue` is
whatever step a call under way takes next.  The abstract specification is
`NpuPool`'s `PoolSpec`, checked as a property: seen through the pool's
variables the composition only ever takes steps of the pool.

### RowPartition

The two loops of `read_parallel_matvec`, one step for each turn of a loop.  It
and `PageScan` are sequential and independent.

### Console

`Receive`, `LookAtTerminal`, `Signal`, `Store`, `Drop` and `Post` are the
receive thread; `Read`, `Wake`, `Take`, `More` and `Return` a read, where the
semaphore and the critical section of the ring are separate steps, as they are
in the code.  A byte is the number of its arrival.

### AgentSetup

A file has a state (`none`, `unsynced`, `torn`, `whole`), the setup that wrote
it and the key that sealed it.  A rename over a file is two steps of the FAT
volume; a power loss keeps what was synced and does to the rest whatever it
likes.  `Fault` lets any call fail, `Kill` is Ctrl+C where the code does not mask
it, at most `MaxKills` times.  `BootEnters` to `BootLeaves` are `aipet_startup`; `AgentClaims` is the
agent's call of the bridge.

### WifiStation

`ctl` is the writer of commands, `rxd` the receive thread, `dhcp` the client;
`chip`, `msgs` and `air` are the firmware, its message queue and the frames of
the access point.  `CtlWpa`, `CtlAssociate`, `CtlDisconnect`, `CtlScan` are the
commands, `CtlSend`, `a733_wifi_associate`, `a733_wifi_disconnect` and `scan_once`
their exchange with the firmware, `DisconnectDone` the end of a teardown.  `message_poll` and `EapolM1` to
`EapolM4` are the receive thread, `RxReadsKey`, `RxSend`, `lmac_exchange` and
`RxGivesUp` its installation of keys.  A loop that waits may end at any step,
with messages in the queue too (`CtlGivesUp`, `RxGivesUp`): the code ends it
after 24 idle reads (12 of a scan, the first one of a key), after 128 messages
(96, 8), most of which are confirmations of data frames that the model does not
have, and by any other error of the bus, so every one of these ends is one of the
model's.  A request may also fail to leave (`CtlSendFails`, `RxSendFails`), and
the firmware may refuse a key; both keys are confirmed by the same message
(`Confirmed`).  `DhcpClears` to `DhcpEnds` are the DHCP thread, which
nobody stops.  A nonce is a session and a replay counter; a key is a pair, and
`chip.made` the keys an access point agreed to.
`EapolM1` draws a new nonce and key for a repeated message 1 as well, so that a
message 3 that answers the earlier message 2 fails its check: this may cost the
connection, and never installs a key nobody agreed to (`AgreedKey`).  `wpa2=` and
`disconnect` erase the session key without a lock.  If that falls between the
check of message 3 and the copy of the key in `install_key`, the zeroes are
installed and the port is opened: `Wiped` notes it, and `AgreedKey` excepts the
erased key in that case only.

### WifiTransfer

One action for each lock taken or given back, each packet the controller moves
(`PacketOut`, `PacketIn`) and each end of a wait (`bulk_timeout`, with the last
look at the descriptor after the time is up).  A frame to the chip is two
packets, a received one up to `InPackets`, the last of them short, so that a wait
can end inside a frame.  Then the driver keeps its old toggle while the chip has
gone on, the controller drops the packets that come with the wrong one, and
`qtd.met` and `qtd.begun` say whether the transfer saw the frame begin and has its
first packet.  `PacketFails` is a transaction that fails: the controller tries
again, with the error bit set from then on, or halts.  `torn` has the endpoints
where that happened, or where a wait ended inside a sent frame.  What is claimed
(`NothingDropped`): without a failed transaction, a frame that moved within one
transfer is received; a poll that ends inside a frame costs that frame, and where
the next one begins the toggles agree again.

### WifiBringUp, WifiScan

Two sequential checkpoints: `up.step` is the function, `fcu` what the chip
really has, against what the driver believes of it.  `ehci1_checkpoint`,
`enumerate`, `block_write`, `upload_file`, `apply_patch_table` and
`LmacConfirmed` each have the branch in which the chip, the bus or the card does
not deliver.  `Separate` says that data and messages have different pipes; that
it holds for every descriptor the driver accepts (`MapIsSeparate`) has neither
constants nor variables in it, so TLC computes it and the proofs use it.
`scan_once` is one dwell with its verdict and the next band or attempt; `Find` is
a connection by name, with the loop over the table (`wext_find`) and the
elements of the chosen network (`wpa_select_rsn`).

### FtpSession, FtpServer, FtpPaths

`FtpSession` has one worker for each session and a client that uploads one file
the way the board's guide says.  `Transfer` with `StreamBegins`, `StreamStores`,
`StreamFlushes`, `StreamBreaks`, `StreamSends`, `StreamSent` is `ftpd_stream`;
`ClientLost` loses both connections at any moment, and what was in flight
arrives at the old worker later.  A file is the list of the client's buffers.
`FtpServer` counts clients and sessions: `session[w]` says where the object is
in its life, `WorkerLeaves` and `ftpd_uncount` are the two halves of
`ftpd_freesession`.  `FtpPaths` translates the list of nodes with its `ignore`
flags, node by node (`ftpd_path2node`, `ftpd_node2path` are recursive functions
over the list), and compares it with `Place`, what the path means.

### FatNames

`dir` is the list of entries.  `fat_finddirentry` looks for a name with the two
searches of the code, `fat_dircreate` allocates a run, finds an alias
(`fat_uniquealias` with the checksum) and writes the entries, `fat_remove`
frees them, and the file whose short entry was among them is gone, `PowerFails`
writes a beginning of them only.  The state of the search over long names (the
part it wants, the checksum of the run, where it began) is a record that
`LfnStep` changes entry by entry.  A checksum is a number below `Checksums`, so
that different short names may share it, as those of the code, a byte, do.

### SdmmcWait, SdmmcMedia

`caller.pc` is the thread: `waitenable`, the fill of the transfer, the command,
`eventwait` or the cancel in its two steps.  `sdmmc_interrupt` and
`eventtimeout` run with interrupts disabled and are one step.  The card, the
FIFO and the bus master move a word at a time, and a word carries the number of
its request.  Under DMA the last word of a read may raise DTO while words are in
the FIFO (`CardSends`), and a block may end without its end bit or its CRC status
(`EndBitFails`): the driver enables EBE, clears it and looks at none.  `sd.doubt`
says which of the two the present request has met, or that it runs on a bus
master that was not reset after it had stopped in the middle.

`SdmmcMedia` is the chain from the contact to the slot driver's belief; the slot
driver is external.  `rv1103_status` is read step by step (`status_load`,
`status_store`, twice), by the slot driver and by the board code, and the
interrupt can fall between any two.  A store can take the belief the interrupt
would have changed ("absorbed") or put an old one over what it has stored
("overwritten"); `missed` notes both until a later event makes it good.

### Camera

`task[t].pc` walks through a capture: take the capture lock, switch the sensor,
start the channel, wait, exchange the frame under `g_sc3336_lock`.
`MiRoutes` to `MiRestores` are the detour over the ISP.  A frame is a number,
`heap` the numbers that are allocated, `cif` those the channel writes to.

### NtpClient

A daemon runs with the scheduler locked, so its steps lie between its waits: a
name, an answer, a delay, the lock.  A signal ends any of these waits, the wait
for the lock too: the daemon then gives back a lock it does not hold
(`LockIntact` says that this has not happened).  `sample_cmp` compares offsets of
`OffsetBits` bits by their wrapped difference, `Sorted` is what the sort leaves at
a place, `median` and `average` are the rest of the code.  The most negative
offset, whose negation does not exist in 64 bits, is not among the offsets
(`Magnitudes`); `ntpc_calculate_offset` can give it for clocks 68 years apart.
`Call` stands for the tasks that call: `wifi_sync_time` (`a733wifi_main.c`) and
the shell's commands, which are outside the repository.

### MC_Agent, MC_Links, MC_Devices

Components that share nothing are checked in one run: the variable `turn` says
in the first state which of them the behaviour is about, and the others stay
where they begin.  The states of such a run are the sum of the parts, not their
product, and the fairness is each part's own, on its turn.  `MC_Agent` has the
bridge and the setup, `MC_Links` the console and the Wi-Fi station,
`MC_Devices` fourteen more parts.  Invariants of one part hold trivially on the
turns of another, because its variables keep their first values.

## 4. The runs

Runs that pass:

| run | instance | what it shows |
|---|---|---|
| `pool` | 3 CPUs, 2 clients, all masks | no buffer freed under a thread, slots rewritten only when quiet, a success computed on every CPU (`JobsAreSound`); every wait for the service ends; implements `ModelMemory` |
| `generation` | 2 tasks, 1 stopper, 2 models, limits 0 and 2, 6 tokens, 2 chunks, 1 layer | budget, history and promptness of stop (`SessionIsSound`), the session grows by whole turns or is cleared, only whole models cached |
| `agent` | 2 terminals, 2 agents, 2 requests, 1 cancel; 2 initializers, 2 setups, 1 power loss, 1 failing call, 1 Ctrl+C | nothing overwritten, nothing left after a detach and no old answer (`BridgeClean`); what is on the disk can be opened, one initializer (`SetupIsSafe`); a failed setup can be repeated; an ask ends and a saved setup gets its agent (`AgentServes`) |
| `links` | 2 readers, ring of 3, 5 bytes; 2 commands, 1 drop, 1 repeated message, an open and a secured network | reads are whole and in order; only agreed keys or an erased one, answers left to the thread that waits, clean teardown; readers and commands come back (`LinksDeliver`) |
| `npu` | 2 threads, 2 buffers, 3 pages, 2 tasks | the gate (`OneCommand`), live buffers and honest results (`ResultsAreHonest`); implements `NpuPool` (`PoolSpec`) |
| `npu_calls` | packages, self-tests, cancels, resets | every call returns |
| `devices` | the fourteen parts below | one property, or two, for each, and that what has to end ends (`EverythingEnds`) |

The parts of `devices`:

| part | instance | property |
|---|---|---|
| transfer | 2 senders with 1 frame each, 1 arrival of up to 3 packets, 2 confirmations, 1 endpoint that fails | `FramesArrive`: whole at the chip, none lost but with a poll that ends inside it |
| bring-up | 2 blocks for each image, every broken descriptor | `BroughtUp` |
| scan | table of 2, 3 networks, 3 bands, 1 scan | `ScanIsSound` |
| ftp | 2 workers, a file of 2 buffers, 2 losses | `FtpResumes`: resumable, restart positions spent once |
| server | 3 connections, at most 2 sessions, 2 starts | `AccountsOutlive` |
| paths | all paths of up to 3 parts of 2 names, "", ".", ".." | `PathsAreServed` |
| names | 2 long names with one ending each, one of a single part, 1 short; clusters of 2 sectors of 2 entries; checksums 0 and 1; 1 power loss | `NamesAreFound` |
| sd | 2 requests of 3 words, FIFO of 2, PIO and DMA, both ways | `SdTransfers`, requests in doubt excepted where it says so |
| card | 4 moves of the card, reads of the status by two threads | the card becomes known, unless a read of the status lost its move |
| camera | 2 tasks, 3 uses, 1 failing bus write, 6 frames | `CameraSound` |
| ntp | 2 callers, 3 calls, 2 daemons, 1 server, 2 samples, offsets of 3 bits: 0, 3 and -3 | `ClockIsSafe` |
| pool | 2 contexts, 3 buffers, 7 pages, 2 of them reserved, 2 generations of 4 | `PoolIntact`, `ProtectedStays`, exact counts |
| search | 7 pages, every set in use | `FindsFirstFit` |
| rows | 8 CPUs as on the board, up to 24 rows | `EveryRowOnce` |

The other runs show where the code does otherwise than a document or a comment
says; each stops at a counterexample, and `PROJECT.json` ("findings") quotes it:

| run | what happens |
|---|---|
| `stop_race` | a stop that saw one run is stored after it ended and stops the next |
| `bridge_shared` | after a cancel, a second terminal's answer is presented by the first |
| `npu_write` | a package started through write rewrites the pool of a RUN_A7PM under way |
| `wifi_address` | a DHCP thread of the link that was left stores its address after `wifi disconnect` cleared it |
| `ntp_stop` | `ntpc_stop` waits with the lock for a daemon that waits for the lock |

Four more statements of comments are written in the modules and refuted by the
model; they are no properties of a run:

* `NothingRunsOn` (`SdmmcWait`): a watchdog that expires while its transfer is
  still being set up has nothing to stop; the bus master is started after it, and
  runs on when the caller has its answer;
* `ReadersKeepFrames` (`Camera`): a reader of `/dev/isp0` copies a frame that the
  next ISP capture frees;
* `SessionSurvives` (`FtpSession`): a transfer without a data connection ends the
  whole session;
* `AliasesAreUnique` (`FatNames`): two short names can be equal, since the search
  for a free alias leaves out clusters that come before the new entry's; a long
  name is still found, because its parts stand next to their own short name.

Other weaknesses that the models contain and no property claims away.  No
document of the repository promises otherwise, or only in general words, so
there is no run about them:

* a handle keeps 24 bits of a generation: 2^24 allocations of one slot later the
  handle of a released buffer finds the new one (`HandleSpan`);
* task and status of the last command are two stores (`RecordTask`,
  `RecordStatus`), so sync can report the task of one submit with the status of
  another;
* a call that the gate then refuses has cleared the cancel meant for the one
  that waits (`Clear` before `Gate`);
* after a failed creation of the console's receive thread the next open returns
  OK, and its reads wait for ever (`OpenFirst`, `OpenAgain`);
* the agent may start while a setup is at its prompts, and the file is replaced
  under it (`SetupBegins` reads the phase, `RenameMoves` does not);
* Ctrl+C between prompts and save leaves `setup_lock` taken, and Ctrl+C or a
  power loss there leaves `config.json.new`, which `O_EXCL` then refuses
  (`Kill`, `PowerLoss`, `SaveRefused`);
* `ntpc_start` waits for the first word of a daemon that may have found no
  memory and left (`NoWord`);
* the signal of `ntpc_stop` may end the daemon's wait for the lock, and the
  daemon gives the lock back although it does not hold it: from then on two calls
  run at once, and one may take the post the other waits for (`~LockIntact`).
  `StopMeansStopped` and `NtpCallsReturn` speak of the lock as long as it is
  intact;
* the sort of the NTP samples compares by a difference of 64 bits: offsets that
  are half the range apart or more are sorted wrongly.  `OffsetIsMedian` is about
  the others (`SamplesFit`), which servers that agree to within 68 years have;
* a creation that a power loss cut can leave parts which hide a name that ends
  with the same part and is put right behind them, and a search for it, or a
  removal, can take a file of another name that follows; that file's short name
  must then have the checksum that is in the parts, one chance in 256 (`Hidden`,
  the last clause of `NamesAreFound`);
* a read of the card's status takes the change that the interrupt would have
  reported, or puts an old value over what the interrupt has stored, and the slot
  driver is not told (`Loses`);
* `wpa2=` or `disconnect` erases the session key between the check of message 3
  and the installation, and a key of zeroes is installed (`AgreedKey` names it);
* a poll that ends between two packets of a received frame loses the frame; a
  transfer that succeeded on a second try has the error bit set, is reported as
  `-EIO`, and its toggle is not kept, so that the endpoint is out of step from
  then on (`PacketFails`; nothing is claimed about it afterwards);
* a block that ended without its end bit, or a written one without its CRC status
  (EBE), is reported as a success if DTO follows; under DMA so is one whose DTO
  came before the FIFO was empty, although the comments at `rk3506_sdmmc.c` 202
  and 1221 say that both the controller and the DMA have to be waited for, and
  that DTO comes early; and the bus master stopped by such an end is started
  again without a reset (`sd.doubt`).

### Bounds, and why they are enough

* Two of every actor that competes (clients, terminals, threads, readers,
  initializers, senders, workers, camera tasks): all the locks are held by one,
  so a third only waits as the second does.  `LlmPool` has three CPUs, so that
  creation can fail for the first, a middle and the last one, and the service can
  be in the middle of each of its loops; `FtpServer` has one connection more than
  sessions, so that one is refused.  The proofs are for any number.
* Counters grow only as far as a repetition needs: two requests (one answered
  late while the next is pending), two setups (one interrupted, one after it),
  two generations, a ring that wraps within five bytes, two SD transfers (the
  second meets what the first left), two commands to the station, two losses of
  an upload (a resumed one is interrupted again).
* Sizes keep the relations that matter: the ring is smaller than the bytes that
  come, the sequence limit is reached by the second turn, `Limits` has 0 (the
  diagnostic that only prefills) and a budget larger than one, the pool has a
  reserved page in its middle, a transfer is longer than the FIFO and no multiple
  of it, the scan table is smaller than the networks in reach, a name's entries
  cross sectors and clusters, aliases share a checksum, a received frame has a
  packet that is neither first nor last, and the sum of two offsets
  does not fit their bits.
* `HandleSpan` is larger than `MaxGeneration`, since old handles are refused
  only while the generations of a slot fit a handle.
* `EarlyExpiry` and `Patient` are premises rather than bounds: the watchdog may
  expire while its transfer is still being set up, as the code allows, and the
  FTP client comes back when the worker it left has ended, as the guide tells it.
* `MaxRequests`, `MaxCancels`, `MaxTasks`, `MaxBytes`, `MaxCommands`,
  `MaxSetups`, `MaxLosses`, `MaxFaults`, `MaxKills`, `MaxGeneration`, `Commands`,
  `Drops`, `Resends`, `ToSend`, `Arrivals`, `InPackets`, `Failing`, `FileBlocks`, `Scans`, `InFlight`,
  `Losses`, `Starts`, `TreeDepth`, `Clusters`, `PowerLosses`, `Requests`,
  `CardMoves`, `FrameCount`, `BusFailures`, `Uses` and `NtpCalls` are bounds of
  the models only.  Where actions have used them up, or a sequential part has
  come to its end, nothing may be left to do, so `agent`, `devices`,
  `bridge_shared`, `wifi_address` and `ntp_stop` do not check for deadlock; the liveness properties
  say instead what has to come to its end.

### Fairness, and why the code justifies it

* `LlmPool`: the service, every compute thread, and a client that has its reply
  go on.  They are threads of their own under a preemptive scheduler, and block
  on semaphores only.  Nothing is assumed of the clients' wish to begin.
* Bridge: time passes, and a terminal keeps polling (a loop with a sleep).
  Nothing is assumed of the agent.  The property is about a terminal that is the
  only one to ask; with two, `bridge_shared` shows how one can be left polling.
* Setup: a setup and an initializer go on, and a spawned agent claims the
  bridge.  That the network comes and stays, and that from the beginning no call
  fails and nobody presses Ctrl+C, is the premise of the property.
* `NpuRuntime`: a call under way goes on (every wait of the code is bounded),
  and the run lock has strong fairness, since `nxmutex_unlock` hands it to a
  waiter.  Nothing is assumed of the NPU.
* `Console`: the console is opened, the receive thread runs, and the readers
  read again, as the shell does.
* `WifiStation`: the thread of a command and the receive thread go on.  Nothing
  is assumed of the firmware, the access point or the DHCP thread.
* `WifiTransfer`: each sender and the receive loop go on.  Whoever waits for the
  controller gets it (strong fairness of `Setups`): waiters of a mutex are queued,
  and the receive loop leaves the lock alone while someone waits to send.
* `WifiBringUp`, `WifiScan`: one thread each, all waits bounded.
* `FtpServer`: the listener and the workers go on; a client leaves, or is silent
  for the minute after which its worker gives up (strong fairness of `Leaving`).
* `SdmmcWait`: the caller, the armed watchdog and a pending interrupt are served;
  nothing is assumed of the card.  `SdmmcMedia`: the interrupt and the threads.
* `NtpClient`: callers and daemons go on; every wait of a daemon but the one for
  the lock is bounded.  The property excepts the two places `Circle` and `NoWord`
  where calls do not return.
* `LlmGeneration`, `FtpSession`, `FtpPaths`, `FatNames`, `Camera` and the two
  loops have safety properties only.

## 5. What is proved

TLAPS checks every proof to its leaves.  The only assumptions are the named
ones of the modules (`PoolAssumption`, `FtpConstants` and the like): sizes are
natural numbers, what is counted is finite, the marker for "nobody" is none of the
actors, the names of a path are not "", "." or "..".  `NtpAssumption` also says
what the powers of two in the width of an offset are, which the provers do not
compute, and `MapIsSeparate` is the fact of `WifiBringUp` described above.  TLC
evaluates all of them in the runs.

Every inductive invariant below was first checked by TLC.  In each case the
property by itself is not inductive; the text says what has to be added.

* `LlmPool_proofs`: `TypeCorrect`, `BuffersStayAlive`, `SlotsStayQuiet`,
  `RepliesAreHonest` (together `JobsStaySound`), `FreedAfterJoin`,
  `PoolImplementsMemory`, for any number
  of clients and CPUs.  The properties speak of slots, which say nothing by
  themselves; the argument is about the one token that client and service pass
  each other.  The invariant `IInv` therefore says who has the token
  (`Handshake`), that only the holder of the lock can wait for it (`OneClient`),
  what every slot may be doing while the service is at each place (`SlotPhase`),
  whose work the slots have (`JobOwner`), what the holder has allocated
  meanwhile (`Held`), which CPUs the threads are on (`Placement`), what has been
  collected (`Outcome`) and that an unload has no threads left (`Emptied`).
  The refinement follows: in each step that releases memory the token is with
  the client, so that every slot is asleep.
* `LlmGeneration_proofs`: `SessionStaysSound`, `NoTurnIsLost` and
  `OnlyWholeIsKept`, for any number of terminals, models, limits and tokens.
  `GenerationInv` relates each run to the session it works on (`RunInv`): a task
  that generates on the session holds both locks, what it has copied is the
  history, and the layers it has computed since a stop are counted by `late`.
* `NpuPool_proofs`: `PagesAreOwned`, `BuffersHaveContexts`, `OldHandlesAreRefused`
  (together `PoolStaysIntact`), `ProtectedBuffersStay`, `CountsAreExact` and
  `PoolIsTyped`, for any pool, any number of contexts and buffers.  The invariant
  is the shape of the variables with page ownership and the absence of orphans;
  that a close releases several buffers at once is one lemma about sets of slots,
  and that the counters follow the sets one about cardinalities.  Old handles are
  refused under the premise that the generations fit a handle
  (`MaxGeneration < HandleSpan`).
* `NpuRuntime_proofs`, on top of it.  The gate, for any number of threads:
  `GateAdmitsOne` and `LaunchesOnIdleNpu` (together `OneCommandAtATime`).  Every
  action is one of five kinds of step (outside the gate, entering, working,
  leaving, the NPU by itself), and `GateStep` is about the kinds.  The commands on
  the pool, under the premise `OwnFiles` that no two threads share an open file:
  the refinement `CommandsUseThePool`, hence `PoolSurvivesCommands`;
  `CommandsKeepTheirPages`; `CommandsAreHonest`.  No lock is held between the
  lookup of a buffer and its use; what keeps the buffer is that its context belongs
  to the file of the thread that is busy with it (`OwnContexts`, `OwnBuffers`).  A
  result is honest since whoever waits has started the command the NPU works on,
  if it works at all, and an interrupt since then is that command's (`Answered`).
  `RuntimeIsTyped` needs no premise.
* `Agent_proofs`.  The bridge: `BridgeStaysClean`, `BridgeTypesHold` and
  `RequestsAreKept`, for any number of terminals, agents and requests.  `OneSlot`
  says that a request under way carries the last number, that there is never a
  request and an unread reply together, and that an unread reply answers the last
  request: no other can be submitted before it is read, so the reply a terminal
  takes is at least as young as what it asked.  The setup: `ConfigCanBeOpened` and
  `GateIsSingle` (together `SetupStaysSafe`) and `SetupCanBeRepeated`, for any
  number of setups, failing calls, power losses and kills.  Once a setup holds a
  seal the key is synced and is never removed, and the text that is renamed is
  synced and carries the seal; only the holder of the lock gets there, and the lock
  of a killed setup keeps the others out.  `RepeatInv` adds what a setup that
  nothing cut short has left behind at each of its steps.  `AgentIsTyped` and
  `AgentStaysSafe` are about the two as `MC_Agent` composes them.
* `Links_proofs`.  The console: `ReadsAreNeverEmpty`, `BytesStayInOrder` (together
  `ReadsStayWhole`), for any ring and any number of readers.  The invariant
  balances the bytes in the ring against the tokens, the readers that have taken a
  token and not yet their byte, and the byte that is stored and not yet posted.
  The station: `KeyIsAgreed`, `AnswersAreOwn` and `TeardownIsClean`, for any number
  of commands, repeated and lost messages.  `StationInv` says that every key that
  has been verified or is on its way (in `g_wifi` after the check of message 3, in
  a request, in a message 3, in the firmware) was made by an access point, or is
  the erased key and a command erased it there (`KeysMade`), that whoever waits has
  its answer with the firmware or in the queue (`AnswersCome`), that a station that connects, or has been told of a
  disconnection, is not associated (`Apart`), and, while no answer is late, that
  the firmware works on one request of a command and answers it once
  (`OneRequest`, `OneReply`) and which link it still has (`LinkKnown`).
  `LinksAreTyped` and `LinksStaySafe` are about the composition.
* `Network_proofs`, the Wi-Fi driver's data.  `EveryFrameArrives`, for any number
  of frames of any number of packets: `TransferInv` says that the descriptor is
  that of the thread with the USB lock (`LocksHeld`), how the two toggles and the
  part of a frame in the chip follow the descriptor (`OutFlow`, `InFlow`: where a
  received frame begins they agree, and inside one they differ only if its first
  packets were lost with an earlier poll), that an error bit is seen only on
  an endpoint that failed (`ErrorsKnown`), and that what was moved and is
  not counted yet is in the descriptor (`FramesCounted`).  `RadioIsBroughtUp`, for
  images of any length: `BringInv` says which images are whole when each step
  begins and that nothing of the next one is written (`AllWritten`), and that the
  requests taken are the first ones of the list, by a runtime with separate pipes
  (`RadioInv`).  `ScansAreSound` (with `TableIsSound` for the table alone), for a
  table of any size: the loop that chooses an entry holds the strongest of that
  name among those it has seen, by induction over the entries.
* The same module, the FTP server.  `AccountsOutliveWorkers`, for any number of
  connections, sessions and starts: the listener frees the accounts when the count
  is zero, so `ServerInv` says that the count is the number of sessions, that the
  accounts are there from the start of the listener to the end of its drain and
  nowhere else, and that no session is open when there is no server.
  `UploadsResume` and `SessionsAreTyped`, for a file of any length, any number of
  workers and interruptions, under `Patient`: `FtpInv` says that at most one worker
  is alive (`OneWorker`), that every file is a beginning of the client's
  (`Beginnings`), that what the client was told still holds between two commands
  (`Told`), and that the buffers on their way are those that follow what is stored
  or the restart position (`OnItsWay`).  `PathsMeanTheirPlace` and `PathsAreTyped`,
  for paths of any length: `PathInv` says that the working directory is a list of
  names in the tree; the lemmas relate the nodes with their `ignore` flags to the
  place of the path so far (`OneMoreNode`), through both passes over the list.
  The recursive functions of the model are unfolded by an induction over the
  length, which is proved here from finite sets of numbers (`CountedOff`, `Loop`),
  since the library's rule cannot be used.
* The same module, the NTP client.  `ClientIsTyped` and `ClockMovesSafely`, for any
  number of callers, daemons and samples: `NtpInv` says that the daemon in its loop
  is the last one started (`OneDaemon`), how many posts and how much of the lock
  are held by the calls and the daemons (`PostsCounted`, `LocksCounted`), and that
  with the lock intact a stop that waits has a request no start has overwritten
  (`StopsHeld`).  That the sort's places and the mean of the two middle offsets are
  middle offsets is arithmetic over any number of samples (`PlaceIsTaken`,
  `SortedIs`, `MedianIs`).
* `Devices_proofs`.  `TransfersAreHonest` and `TransfersAreTyped`, for any number of
  requests, words and FIFO entries: `SdInv` says what is armed before the command
  (`Prepared`), which interrupts are enabled while a transfer is set up and at no
  other time (`Masked`), that one post at most belongs to the wait that is open
  (`Waits`), that all words are of the present request and, while it is not in
  doubt, those moved, in the FIFO and still to come make it up (`Moving`), and what
  the caller may have been told (`EndedWell`, `Said`).
  `CameraStaysSound` and `CameraStaysTyped`, for any number of tasks, frames and
  failing writes: `CamInv` says for each place of a task which of the two locks it
  has (`Locked`), how the channel is routed and whose frame it writes (`Channel`),
  and which frames are allocated, held, shown or copied (`Frames`).
  `SearchIsFirstFit`: the run at hand is free and shorter than wanted, and no fit
  starts before it; `RowsArePartitioned`, for any number of rows and CPUs: the
  rounded shares grow with the CPU, and the rows given so far are an initial part
  of the matrix.
* The same module, long names.  `NamesStayFound`, for any number of names, parts,
  cuts and checksums, and sectors and clusters of any size.  `FatInv` says that
  nothing is used behind the end mark (`EndsLast`); that a short entry is that of a
  name that was created, with the alias the name calls for, and of a long name it
  has its whole run right before it (`ShortEntries`, `WholeRun`); that each created
  name has exactly one (`OneEach`); and that every other part belongs to such a run
  or to the beginning of a creation that was cut (`LongEntries`).  None of these can
  be left out: a part that belonged to nothing could begin the run of another name,
  and an entry behind the end mark would be listed and not found.  The search is a
  recursive function over the directory; a second invariant, proved by the induction
  `Loop` over its steps, says where the entries looked at so far can have left it
  (`Looking`), and from it `LfnFinds` and `LfnHits`: it ends at the run of the name,
  or at one with parts and checksum of that name only.  Allocation takes available
  entries, so writing and freeing keep all other runs (`Placed`, `SpelledWith`).
* The same module, `MC_Devices` as a whole: every step of it is a step or a stutter
  of each part (`TakeTurns`), so that the invariants of the parts hold together
  (`PartsKeep`).  Hence `DevicesAreTyped` (with the card's types), `ServedInside`, `DevicesStaySafe`,
  `DevicesStepSafely` and `LoopsAreRight`.

Premises that are not assumptions of a module: `OwnFiles`, as all the clients in
the repository have it; `Patient`, as the guide asks the FTP client to be;
`MaxGeneration < HandleSpan`; in `OffsetIsMedian`, that the offsets of a round can
be compared by their differences; in `StopMeansStopped`, that the lock is intact.
The first three hold in the runs, the last two are conditions in the properties
that states of the run meet and break.

Only model-checked:

* liveness under fairness (`PoolAnswers`, `AgentServes`, `LinksDeliver`,
  `CallsEnd`, `EverythingEnds`), which TLAPS does not prove.

## 6. What the models leave out

* External, known only from how the code uses it: the official agent, its bus
  and dispatcher; the NPU; the UART; the FAT volume, whose sync is believed and
  whose rename is two steps.  Removing a file is assumed to succeed.
* `pthread_join` cannot fail for the service's own joinable threads; its error
  branch is left out.
* The interrupt handler of the NPU and its soft reset are single steps.
* A file of `/dev/npu0` is used by one thread at a time, as all the clients in
  the repository do; two threads on one file are not modelled.
* `apitest` is a composition of calls that are modelled; the staging of files,
  the parsing of packages and post-processing have no shared state.
* The arithmetic of the transformer, the tokenizer, texts, formatting, logging.
* `AgentSetup` does not have the records of Wi-Fi, SSH and FTP, which are saved
  by the same function, and the agent's own command that writes its
  configuration.
* Task ids are numbers; that two submits may draw the same one (`++next_task`)
  is modelled, but no property says that ids are unique, since nothing in the
  repository relies on it.
* Relaxed memory: the kernel runs on several cores, and accesses without a lock
  are taken to be sequentially consistent.  The code has acquire and release
  atomics for the flags of the LLM, `volatile` flags in the NPU driver, and plain
  memory behind semaphores and locks.
* Wi-Fi: the rekeying of the group key, the raw diagnostics of the control node,
  the contents of frames, what the cryptography computes.  The access point and
  the firmware answer any request, late or never, and repeat one message of the
  handshake; they do not invent messages.
* FTP: the texts of listings and answers, MDTM and SITE, the address of PORT and
  EPRT (the server is built for passive connections only), the ASCII type.
* FAT: dates, volume labels, character sets; the FAT itself, so that a cluster is
  always found up to `Clusters`; a power loss inside a removal, which is one step.
* SD/MMC: clocks, tuning, contents of responses; the tasks of the upper half.
* Camera: register tables, statistics of the ISP, the RKISP probes, pixels.
* NTP: name resolution, the fields of the datagram beyond the checks that refuse
  it, the setting of the clock.
