------------------------------ MODULE Camera ------------------------------
(***************************************************************************)
(* The camera of the RV1103 board (luckfox_sc3336.c): the sensor, switched *)
(* on and off over I2C; the capture of raw frames by RKCIF; the detour     *)
(* through the image processor (ISP), which borrows the capture channel    *)
(* and gives it back; and the frames that the device files hand out.       *)
(*                                                                         *)
(* Any task may write a command to /dev/sc3336, start a stream on a video  *)
(* device or read a frame.  Captures exclude each other by                 *)
(* g_sc3336_capture_lock; the sensor's settings and the published frames   *)
(* are under g_sc3336_lock, which a capture takes only for the exchange of *)
(* its frame.  A frame is a number, and "heap" the numbers in use; pixels  *)
(* are left out.  An I2C write fails at most BusFailures times.            *)
(***************************************************************************)
EXTENDS Naturals, FiniteSets, FiniteSetsExt

CONSTANTS CameraTasks,  \* tasks that use the camera
          NoTask,       \* nobody
          FrameCount,   \* frames the memory has room for
          BusFailures,  \* failing I2C writes in a behaviour
          Uses          \* operations in a behaviour

ASSUME CameraConstants ==
    NoTask \notin CameraTasks /\ FrameCount \in Nat \ {0} /\ BusFailures \in Nat /\ Uses \in Nat

VARIABLES task,          \* each task: step, operation, frames it holds
          lock,          \* g_sc3336_lock
          capture_lock,  \* g_sc3336_capture_lock
          sensor,        \* the sensor is streaming
          streaming,     \* g_sc3336_streaming, what the code believes
          video_frame,   \* g_sc3336_video_frame, 0 if there is none
          isp_frame,     \* g_sc3336_isp_frame, 0 if there is none
          heap,          \* frames allocated
          cif,           \* frames the capture channel writes to; {} while it is off
          route,         \* where the channel is routed: "raw" or "isp"
          vts, exposure, \* the remembered frame length and exposure
          fpsfailed,     \* the last change of the rate was reported as failed
          busleft, usesleft

cameravars == <<task, lock, capture_lock, sensor, streaming, video_frame, isp_frame, heap, cif,
                route, vts, exposure, fpsfailed, busleft, usesleft>>

Captures == {"capture", "streamon", "ispcheck", "micapture", "isp_streamon"}
CameraOps == Captures \cup {"none", "switch", "video", "isp"}
CameraSteps == {"idle", "stream", "flag", "started", "switched", "capture", "burst", "exchange",
                "drop", "done", "check", "halted", "process", "restore", "publish", "copy"}
Rates == {2, 4}     \* frame lengths; the exposure keeps a margin of one
FrameRange == 1..FrameCount

CameraTypeOK ==
    /\ task \in [CameraTasks -> [pc : CameraSteps, op : CameraOps, held : SUBSET FrameRange,
                                 out : 0..FrameCount, was : BOOLEAN, good : BOOLEAN,
                                 then : CameraSteps \cup {"none"}, on : BOOLEAN]]
    /\ lock \in CameraTasks \cup {NoTask} /\ capture_lock \in CameraTasks \cup {NoTask}
    /\ sensor \in BOOLEAN /\ streaming \in BOOLEAN /\ fpsfailed \in BOOLEAN
    /\ video_frame \in 0..FrameCount /\ isp_frame \in 0..FrameCount
    /\ heap \in SUBSET FrameRange /\ cif \in SUBSET FrameRange
    /\ route \in {"raw", "isp"}
    /\ vts \in Rates /\ exposure \in 1..3
    /\ busleft \in 0..BusFailures /\ usesleft \in 0..Uses

Idle == [pc |-> "idle", op |-> "none", held |-> {}, out |-> 0, was |-> FALSE,
         good |-> FALSE, then |-> "none", on |-> FALSE]

\* After luckfox_sc3336_initialize: the sensor runs, and the first burst has
\* published a frame.
CameraInit ==
    /\ task = [t \in CameraTasks |-> Idle]
    /\ lock = NoTask /\ capture_lock = NoTask
    /\ sensor = TRUE /\ streaming = TRUE
    /\ video_frame = 1 /\ isp_frame = 0 /\ heap = {1}
    /\ cif = {} /\ route = "raw"
    /\ vts = 2 /\ exposure = 1 /\ fpsfailed = FALSE
    /\ busleft = BusFailures /\ usesleft = Uses

Settings == <<vts, exposure, fpsfailed>>
Published == <<video_frame, isp_frame>>

CamAt(t, pc) == task[t].pc = pc
Goto(t, pc) == task' = [task EXCEPT ![t].pc = pc]

\* n frames of memory that are free.
FreeFrames(n) == CHOOSE s \in kSubset(n, FrameRange \ heap) : TRUE
AnyOf(s) == CHOOSE f \in s : TRUE
HasRoom(n) == Cardinality(FrameRange \ heap) >= n

-----------------------------------------------------------------------------
(* An operation begins.                                                    *)

Begin(t, op) ==
    /\ CamAt(t, "idle") /\ usesleft > 0
    /\ usesleft' = usesleft - 1
    /\ UNCHANGED <<sensor, streaming, Published, heap, cif, route, busleft>>

\* sc3336_write and sc3336_isp_video_streamon: the capture lock, then the
\* sensor, unless the code believes that it streams.
CaptureBegins(t) ==
    \E op \in Captures \ {"streamon"} :
       /\ Begin(t, op) /\ capture_lock = NoTask
       /\ capture_lock' = t
       /\ task' = [task EXCEPT ![t] =
                     [Idle EXCEPT !.op = op, !.on = TRUE, !.then = "capture", !.good = TRUE,
                        !.pc = IF streaming \/ op = "isp_streamon" THEN "capture" ELSE "stream"]]
       /\ UNCHANGED <<lock, Settings>>

\* sc3336_video_streamon: the sensor under the lock, then the capture lock.
StreamonBegins(t) ==
    /\ Begin(t, "streamon") /\ lock = NoTask
    /\ lock' = t
    /\ task' = [task EXCEPT ![t] =
                  [Idle EXCEPT !.op = "streamon", !.on = TRUE, !.then = "started", !.good = TRUE,
                     !.pc = IF streaming THEN "started" ELSE "stream"]]
    /\ UNCHANGED <<capture_lock, Settings>>

Started(t) ==
    /\ CamAt(t, "started")
    /\ \/ /\ lock = t /\ lock' = NoTask
          /\ IF task[t].good THEN UNCHANGED task ELSE task' = [task EXCEPT ![t] = Idle]
          /\ UNCHANGED capture_lock
       \/ /\ lock # t /\ capture_lock = NoTask /\ capture_lock' = t
          /\ Goto(t, "capture")
          /\ UNCHANGED lock
    /\ UNCHANGED <<sensor, streaming, Published, heap, cif, route, Settings, busleft, usesleft>>

\* The commands start and stop, and sc3336_video_streamoff.
SwitchBegins(t) ==
    \E enable \in BOOLEAN :
       /\ Begin(t, "switch") /\ lock = NoTask
       /\ lock' = t
       /\ task' = [task EXCEPT ![t] = [Idle EXCEPT !.op = "switch", !.on = enable,
                                                   !.then = "switched", !.pc = "stream"]]
       /\ UNCHANGED <<capture_lock, Settings>>

Switched(t) ==
    /\ CamAt(t, "switched") /\ lock' = NoTask /\ task' = [task EXCEPT ![t] = Idle]
    /\ UNCHANGED <<capture_lock, sensor, streaming, Published, heap, cif, route, Settings,
                   busleft, usesleft>>

\* sc3336_sensor_stream: the register over I2C, then what the code believes.
\* Only the stop at the end of a capture through the ISP may fail unnoticed.
StreamWrite(t) ==
    /\ CamAt(t, "stream")
    /\ \/ /\ sensor' = task[t].on /\ Goto(t, "flag") /\ UNCHANGED busleft
       \/ /\ busleft > 0 /\ busleft' = busleft - 1
          /\ task' = [task EXCEPT ![t].pc = task[t].then,
                               ![t].good = @ /\ task[t].then = "restore"]
          /\ UNCHANGED sensor
    /\ UNCHANGED <<lock, capture_lock, streaming, Published, heap, cif, route, Settings, usesleft>>

StreamFlag(t) ==
    /\ CamAt(t, "flag")
    /\ streaming' = task[t].on
    /\ Goto(t, task[t].then)
    /\ UNCHANGED <<lock, capture_lock, sensor, Published, heap, cif, route, Settings,
                   busleft, usesleft>>

(* A mistake that would be easy to make here; the properties exclude it: a
   higher rate leaves the exposure of the lower one. *)
RateSetAlone(v) == vts' = v /\ UNCHANGED exposure /\ fpsfailed' = FALSE

\* sc3336_set_fps, all of its writes accepted: the exposure follows a frame
\* that became too short for it.
RateSet(v) ==
    /\ vts' = v /\ fpsfailed' = FALSE
    /\ exposure' = IF exposure > v - 1 THEN v - 1 ELSE exposure

\* sc3336_set_exposure, sc3336_set_gain and sc3336_set_fps, each within the
\* lock: a failed write leaves what is remembered, except that the frame
\* length of set_fps stays when only the exposure after it fails.
ControlSet(t) ==
    /\ Begin(t, "control") /\ lock = NoTask
    /\ \/ \E e \in 1..3 : e <= vts - 1 /\ exposure' = e /\ UNCHANGED <<vts, fpsfailed>>
       \/ \E v \in Rates : RateSet(v)
       \/ /\ BusFailures > 0
          /\ \E v \in Rates : exposure > v - 1 /\ vts' = v
          /\ fpsfailed' = TRUE
          /\ UNCHANGED exposure
    /\ UNCHANGED <<task, lock, capture_lock>>

-----------------------------------------------------------------------------
(* A capture, under the capture lock.                                      *)

\* The capture lock goes, whatever came of it.
Finished(t) == capture_lock' = NoTask /\ task' = [task EXCEPT ![t] = Idle]

\* The sensor did not start, or there is no memory.
CaptureRefused(t) ==
    /\ CamAt(t, "capture")
    /\ \/ ~task[t].good
       \/ task[t].op \in {"capture", "streamon"} /\ ~HasRoom(2)
       \/ task[t].op \in {"micapture", "isp_streamon"} /\ ~HasRoom(3)
    /\ Finished(t)
    /\ UNCHANGED <<lock, sensor, streaming, Published, heap, cif, route, Settings, busleft, usesleft>>

\* sc3336_capture_burst: two frames, written in turn.
BurstBegins(t) ==
    /\ CamAt(t, "capture") /\ task[t].good /\ task[t].op \in {"capture", "streamon"} /\ HasRoom(2)
    /\ heap' = heap \cup FreeFrames(2)
    /\ cif' = FreeFrames(2)
    /\ task' = [task EXCEPT ![t].pc = "burst", ![t].held = FreeFrames(2)]
    /\ UNCHANGED <<lock, capture_lock, sensor, streaming, Published, route, Settings,
                   busleft, usesleft>>

(* A mistake that would be easy to make here; the properties exclude it: a
   burst that failed frees its frames with the channel still on. *)
BurstEnds_running(t) ==
    /\ CamAt(t, "burst")
    /\ \/ /\ sensor /\ cif' = {} /\ UNCHANGED heap
          /\ \E f \in task[t].held :
                task' = [task EXCEPT ![t].pc = "exchange", ![t].out = f]
       \/ /\ heap' = heap \ task[t].held
          /\ task' = [task EXCEPT ![t].pc = "done", ![t].held = {}]
          /\ UNCHANGED cif
    /\ UNCHANGED <<lock, capture_lock, sensor, streaming, Published, route, Settings,
                   busleft, usesleft>>

\* Sixty frames, an error, or four seconds: the channel is switched off, and
\* the last frame counts if the sensor streamed all along.
BurstEnds(t) ==
    /\ CamAt(t, "burst")
    /\ cif' = {}
    /\ \/ sensor /\ \E f \in task[t].held :
             task' = [task EXCEPT ![t].pc = "exchange", ![t].out = f] /\ UNCHANGED heap
       \/ /\ heap' = heap \ task[t].held
          /\ task' = [task EXCEPT ![t].pc = "done", ![t].held = {}]
    /\ UNCHANGED <<lock, capture_lock, sensor, streaming, Published, route, Settings,
                   busleft, usesleft>>

(* A mistake that would be easy to make here; the properties exclude it: the
   exchange of the published frame does not wait for a reader. *)
ExchangeUnlocked(t) ==
    /\ CamAt(t, "exchange")
    /\ video_frame' = task[t].out
    /\ task' = [task EXCEPT ![t].pc = "drop", ![t].out = video_frame]
    /\ UNCHANGED <<lock, capture_lock, sensor, streaming, isp_frame, heap, cif, route, Settings,
                   busleft, usesleft>>

\* The exchange of the published frame, within the lock.
Exchange(t) ==
    /\ CamAt(t, "exchange") /\ lock = NoTask
    /\ video_frame' = task[t].out
    /\ task' = [task EXCEPT ![t].pc = "drop", ![t].out = video_frame]
    /\ UNCHANGED <<lock, capture_lock, sensor, streaming, isp_frame, heap, cif, route, Settings,
                   busleft, usesleft>>

\* The other frame and the one published before are freed.
BurstDrops(t) ==
    /\ CamAt(t, "drop")
    /\ heap' = heap \ ((task[t].held \ {video_frame}) \cup {task[t].out})
    /\ task' = [task EXCEPT ![t].pc = "done", ![t].held = {}, ![t].out = 0]
    /\ UNCHANGED <<lock, capture_lock, sensor, streaming, Published, cif, route, Settings,
                   busleft, usesleft>>

CaptureDone(t) ==
    /\ CamAt(t, "done") /\ Finished(t)
    /\ UNCHANGED <<lock, sensor, streaming, Published, heap, cif, route, Settings, busleft, usesleft>>

\* sc3336_isp_input_check: the channel is routed to the ISP, and back again
\* however the wait for a frame ended.
CheckBegins(t) ==
    /\ CamAt(t, "capture") /\ task[t].good /\ task[t].op = "ispcheck"
    /\ route' = "isp" /\ Goto(t, "check")
    /\ UNCHANGED <<lock, capture_lock, sensor, streaming, Published, heap, cif, Settings,
                   busleft, usesleft>>

CheckEnds(t) ==
    /\ CamAt(t, "check")
    /\ route' = "raw" /\ Goto(t, "done")
    /\ UNCHANGED <<lock, capture_lock, sensor, streaming, Published, heap, cif, Settings,
                   busleft, usesleft>>

-----------------------------------------------------------------------------
(* sc3336_isp_mi_capture: a frame for the ISP and two for the channel.     *)

MiBegins(t) ==
    /\ CamAt(t, "capture") /\ task[t].good /\ task[t].op \in {"micapture", "isp_streamon"}
    /\ HasRoom(3)
    /\ heap' = heap \cup FreeFrames(3)
    /\ task' = [task EXCEPT ![t].held = FreeFrames(3), ![t].out = AnyOf(FreeFrames(3)),
                            ![t].was = streaming, ![t].on = FALSE, ![t].then = "halted",
                            ![t].pc = IF streaming THEN "stream" ELSE "halted"]
    /\ UNCHANGED <<lock, capture_lock, sensor, streaming, Published, cif, route, Settings,
                   busleft, usesleft>>

\* The sensor stands: the registers are saved, the channel and the ISP set
\* up, and the sensor started.  If it could not be stopped, all is freed.
MiRoutes(t) ==
    /\ CamAt(t, "halted")
    /\ IF task[t].good
       THEN /\ route' = "isp" /\ cif' = task[t].held \ {task[t].out}
            /\ task' = [task EXCEPT ![t].pc = "stream", ![t].on = TRUE, ![t].then = "process"]
            /\ UNCHANGED heap
       ELSE /\ heap' = heap \ task[t].held
            /\ task' = [task EXCEPT ![t].pc = "done", ![t].held = {}, ![t].out = 0]
            /\ UNCHANGED <<route, cif>>
    /\ UNCHANGED <<lock, capture_lock, sensor, streaming, Published, Settings, busleft, usesleft>>

\* The frames of the ISP were counted, or the wait was given up: the channel
\* is switched off, and the sensor stopped if the code believes it streams.
MiStops(t) ==
    /\ CamAt(t, "process")
    /\ cif' = {}
    /\ \E good \in {task[t].good /\ sensor, FALSE} :
          task' = [task EXCEPT ![t].good = good, ![t].on = FALSE, ![t].then = "restore",
                               ![t].pc = IF streaming THEN "stream" ELSE "restore"]
    /\ UNCHANGED <<lock, capture_lock, sensor, streaming, Published, heap, route, Settings,
                   busleft, usesleft>>

(* A mistake that would be easy to make here; the properties exclude it: a
   capture that failed returns before the registers are restored. *)
MiRestores_early(t) ==
    /\ CamAt(t, "restore")
    /\ route' = IF task[t].good THEN "raw" ELSE route
    /\ task' = [task EXCEPT ![t].on = TRUE, ![t].then = "publish",
                            ![t].pc = IF task[t].was THEN "stream" ELSE "publish"]
    /\ UNCHANGED <<lock, capture_lock, sensor, streaming, Published, heap, cif, Settings,
                   busleft, usesleft>>

\* Every register goes back; a sensor that streamed streams again.
MiRestores(t) ==
    /\ CamAt(t, "restore")
    /\ route' = "raw"
    /\ task' = [task EXCEPT ![t].on = TRUE, ![t].then = "publish",
                            ![t].pc = IF task[t].was THEN "stream" ELSE "publish"]
    /\ UNCHANGED <<lock, capture_lock, sensor, streaming, Published, heap, cif, Settings,
                   busleft, usesleft>>

\* /dev/isp0 shows the new frame; the old one and the raw ones are freed.
MiPublishes(t) ==
    /\ CamAt(t, "publish") /\ (lock = NoTask \/ ~task[t].good)
    /\ isp_frame' = IF task[t].good THEN task[t].out ELSE isp_frame
    /\ heap' = heap \ (IF task[t].good THEN (task[t].held \ {task[t].out}) \cup {isp_frame}
                       ELSE task[t].held)
    /\ task' = [task EXCEPT ![t].pc = "done", ![t].held = {}, ![t].out = 0]
    /\ UNCHANGED <<lock, capture_lock, sensor, streaming, video_frame, cif, route, Settings,
                   busleft, usesleft>>

-----------------------------------------------------------------------------
(* Readers.                                                                *)

\* sc3336_video_read copies within the lock, sc3336_isp_read without.
ReadBegins(t) ==
    /\ \/ /\ Begin(t, "video") /\ lock = NoTask /\ video_frame # 0
          /\ lock' = t
          /\ task' = [task EXCEPT ![t] = [Idle EXCEPT !.pc = "copy", !.op = "video",
                                                      !.out = video_frame]]
       \/ /\ Begin(t, "isp") /\ isp_frame # 0
          /\ task' = [task EXCEPT ![t] = [Idle EXCEPT !.pc = "copy", !.op = "isp",
                                                      !.out = isp_frame]]
          /\ UNCHANGED lock
    /\ UNCHANGED <<capture_lock, Settings>>

ReadEnds(t) ==
    /\ CamAt(t, "copy")
    /\ lock' = IF task[t].op = "video" THEN NoTask ELSE lock
    /\ task' = [task EXCEPT ![t] = Idle]
    /\ UNCHANGED <<capture_lock, sensor, streaming, Published, heap, cif, route, Settings,
                   busleft, usesleft>>

-----------------------------------------------------------------------------
CameraStep(t) ==
    \/ CaptureBegins(t) \/ StreamonBegins(t) \/ Started(t) \/ SwitchBegins(t) \/ Switched(t)
    \/ StreamWrite(t) \/ StreamFlag(t) \/ ControlSet(t) \/ CaptureRefused(t) \/ BurstBegins(t)
    \/ BurstEnds(t) \/ Exchange(t) \/ BurstDrops(t) \/ CaptureDone(t) \/ CheckBegins(t)
    \/ CheckEnds(t) \/ MiBegins(t) \/ MiRoutes(t) \/ MiStops(t) \/ MiRestores(t)
    \/ MiPublishes(t) \/ ReadBegins(t) \/ ReadEnds(t)

CameraNext == \E t \in CameraTasks : CameraStep(t)

CameraSpec == CameraInit /\ [][CameraNext]_cameravars

-----------------------------------------------------------------------------
\* The capture channel writes only into frames that are allocated and that
\* nobody has been shown, whatever capture was cut off by whatever failure
\* (the comment at luckfox_sc3336.c:1288).
ChannelWritesOwn == cif \subseteq heap \ {video_frame, isp_frame}

\* Without a capture under way the channel is off and routed as the raw
\* capture needs it ("Every modified route/ISP register is restored before
\* returning", luckfox_sc3336.c:1054).
RouteRestored == capture_lock = NoTask => route = "raw" /\ cif = {}

\* A frame that is published, or that a reader of /dev/video0 is copying,
\* stays allocated.
FramesAlive ==
    /\ {video_frame, isp_frame} \subseteq heap \cup {0}
    /\ \A t \in CameraTasks : CamAt(t, "copy") /\ task[t].op = "video" => task[t].out \in heap

\* The exposure fits the frame, after any number of changes of either, as
\* long as the last change of the rate was not reported as failed.
ExposureFits == exposure <= vts - 1 \/ fpsfailed

\* The camera survives every failing capture and every change of its settings
\* with its frames, its channel and its exposure in order (all of the above).
CameraSound == ChannelWritesOwn /\ RouteRestored /\ FramesAlive /\ ExposureFits

\* Readers share frames that stay as they are: the comment at
\* luckfox_sc3336.c:531 says "The frozen burst frame is immutable and shared
\* by all readers", and /dev/isp0 uses the same open function.
ReadersKeepFrames ==
    \A t \in CameraTasks : CamAt(t, "copy") => task[t].out \in heap
=============================================================================
