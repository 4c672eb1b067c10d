# Verification of the phone-as-sensor system

TLA+ models of the program in `src/`: an Android app that turns a phone into an
RGBD and pose sensor (`src/app_vlp`, with the native API in `src/mapping/export`),
the replay and mapping pipeline that consumes what it records and streams
(`src/mapping`), and the Python tools beside them (`src/python`). The modules are
model-checked with TLC on small instances; what matters most is proved with
TLAPS for every value of the constants.

Paths below are relative to `src/`; `api.cc` is `mapping/export/mapmind_vlp_api.cc`.

## The system

```
 ARCore ──► OnDrawFrame (GL thread) ──► PushDepthUpdate / PushFrameYuvNv21
               │  ▲                          │
               ▼  │ preview                  ▼
          Da2Pipeline (init + worker)   StreamState ──► StreamFrames handlers ──► gRPC clients
                                             │                        
 Activity (UI thread) ── start/stop rec ─────┤──► vlp_stream.rec ──► DataSessionReader ──► replay loop
     │        ▲                              │                          │            │
     │        └── control callback ◄── SendControl handler         Voxblox      WebSocket server ──► browsers
     └──► BleServerManager ──► robot                                    
                                        ROS nodes: voxblox_ros_node ──► pangolin_visualizer_node
```

| Component | State it keeps | Operations | Talks to | What makes it correct |
|---|---|---|---|---|
| Frame server and recorder, `api.cc` | `StreamState`: `latest_payload_`, `frame_seq_`, `shutting_down_`, the depth slot, the recording; global server pointers | Start/StopGrpcServer, PushDepthUpdate, PushFrameYuvNv21, Start/StopRecording, StreamFrames, SendControl | GL thread, UI thread, gRPC handler threads, a file | calls get real frames in order; no lost wake-up; a depth rides once, never early, never lost; the file is the stream; stopping ends |
| AR application, `hello_ar_application.cc`, `texture.cc` | ARCore session, depth source, render flag, "already pushed" timestamps | OnDrawFrame, OnResume/OnPause, OnTouched, settings | API, Da2Pipeline | every depth result of the chosen source is offered once, in order; anchors stay bounded |
| Da2Pipeline, `da2_pipeline.cc` | `ready`, one pending frame, `stop`, latest preview | EnqueueFrame, GetLatestDepthPreview, destructor | GL thread | newest frame wins, previews never go back, destruction ends |
| JNI bridge, `jni_interface.cc` | global reference to the activity, the registered callback | onResume, destroyNativeApplication, OnGrpcControlCommand | UI thread, gRPC handler | a command reaches the live activity, never a deleted reference |
| Activity, `HelloArActivity.java` | native pointer, BLE manager, flags | life cycle, buttons, control commands | all of the above | nothing uses a destroyed application |
| BLE client, `BleServerManager.java` | `gatt`, `characteristic`, `isReconnecting`, attempts, `isScanning` | scan, reconnect loop, write with retries, shutdown | Bluetooth callbacks on other threads, main-looper timers | one loop at a time, bounded attempts, nothing after shutdown, commands in order |
| Replay, `mono_vio_ws_stream_client.cc`, `data_session.cc`, `frame_protocol.cc` | file position, pending updates, trajectory | Open, Next, main loop | recorder's file, Voxblox, web server | every whole record is read once, a cut tail ends the session |
| WebSocket server, `simple_websocket_server.cc` | `clients_`, `listen_fd_`, `stopping_` | Start, Stop, BroadcastText, accept loop | browsers | every descriptor is closed once; Stop ends |
| Voxblox processor, `voxblox_processor.cc` | maps, block cache, frame counter | Integrate, visualisation getters | replay loop, ROS node | the cache reflects the map where it says so |
| ROS nodes, `voxblox_ros_node.cc`, `pangolin_visualizer_node.cc` | latest messages, origin, trajectory | subscriptions, timer, viewer loop | each other over topics | one origin for all that is drawn |

What is hard: three kinds of threads meet in `StreamState` under one mutex and
one condition variable; a frame is built in two critical sections; stopping does
not take the mutex; the recorder can fail between any two frames and be
restarted over the same path; activities overlap while the server is global;
Bluetooth callbacks race with main-looper timers. `PROJECT.json` lists every such
hazard at its line, with the properties that cover it, or why none does.

## Modules

### VlpStream: the frame server and recorder

`VlpStream.tla` models `StreamState` and the functions of `api.cc` around it.

*State.* One variable per member (`shuttingDown`, `frameSeq`, `latest`,
`pending`, `recPath`, `recording`, `startTs`), the place of each thread (`gl`,
`ui`, `pc`), the locals a handler keeps across critical sections (`seen`,
`payload`), the files, and four histories (`published`, `delivered`, `recFrom`,
`servers`) that only the properties and the bounds read. A payload is abstracted
to its timestamp and the depth block it carries: the properties tell nothing
else apart.

*Grain of atomicity.* `mutex_` is held across two steps in one place, a handler
between its last look at the predicate and its going on the wait list
(`"deciding"`). Every other critical section is one action guarded by
`MutexFree`. `SetShuttingDown` takes no mutex and is two actions without that
guard. `PushFrameYuvNv21` is two critical sections, hence `BuildFrame` and
`PublishFrame`.

| Code (`api.cc`) | Action |
|---|---|
| `StartGrpcServer` 334-359 | `StartGrpcServer` |
| `SetShuttingDown` 189-192, `Shutdown` 370, `Wait` and reset 371-377 | `StopSetFlag`, `StopNotify`, `StopShutdown`, `StopDone` |
| `UpdateDepth` 194-207 | `UpdateDepth` |
| `PushFrameYuvNv21` 387-465 with `ConsumeDepthForFrame` 209-220 | `BuildFrame` |
| `PublishFrame` 95-106 with `MaybeRecordLocked` 233-242 | `PublishFrame` |
| `StartRecording` 136-158, `StopRecording` 160-166 | `StartRecording`, `StopRecording` |
| `StreamFrames` 108-134 | `Connect`, `Leave`, `Take`, `Decide`, `Sleep`, `SpuriousWakeup`, `WriteDone`, `WriteFailed`; `Cancel` is the client |

The guard `AppRunning` comes from the activity: `onDestroy` holds its monitor
while it stops the server and `onDrawFrame` takes the same monitor
(`HelloArActivity.java` 399, 439), and the record buttons run on the thread that
runs `onDestroy`.

### FrameFeed: what the server promises

`FrameFeed.tla` is the abstract feed: a growing sequence of frames, at most one
depth on offer which the next frames may take, and readers whose cursor only
jumps to the newest frame. `VlpStream` implements it (`ImplementsFeed`) with the
depth on offer mapped to the one the GL thread holds, else the one in the slot.

### DepthPipeline: the draw loop's depth and the Da2 threads

`DepthPipeline.tla` models where depth comes from: `OnDrawFrame` as far as it
concerns depth (`BeginFrame`, `EnqueueFrame` or `SkipEnqueue`, `NotifyWorker`,
`EndFrame`), ARCore's depth texture, the init thread and the worker of
`Da2Pipeline` and its destructor (`DestroyStop` to `JoinWorker`). An image is
its timestamp; a depth image names the image it was computed from beside the
timestamp it carries, so that a mix-up would show. Two histories (`pushed`,
`enqueued`) are read by properties only.

| Code (`app_vlp/app/src/main/cpp`) | Action |
|---|---|
| `hello_ar_application.cc` 363-475, `texture.cc` 39-92 | `BeginFrame` with `ArcoreDepth` |
| `hello_ar_application.cc` 576-617, `da2_pipeline.cc` 304-321 | `EnqueueFrame`, `NotifyWorker`; `SkipEnqueue` |
| `hello_ar_application.cc` 619-631, 186-223 | `EndFrame` with `Uploaded` |
| `da2_pipeline.cc` 53-62 | `InitReady`, `InitFailed`, `CreateWorker` |
| `da2_pipeline.cc` 155-169, 171-275 | `WorkerTake`, `WorkerDecide`, `WorkerSleep`, `WorkerReturn`, `ProcessTask` |
| `da2_pipeline.cc` 31-44 | `DestroyStop`, `DestroyNotify`, `JoinInit`, `JoinWorker` |

The depth source is atomic and loaded once per draw; `render_enabled_` is a
plain `bool` that the UI thread may change during a draw, so `EndFrame` reads
whatever it is by then. `PushDepthUpdate` is `VlpStream`'s `UpdateDepth`: here it
only appends to the history, because what becomes of the depth is that module's
question.

### BleClient: the robot's Bluetooth client

`BleClient.tla` models `BleServerManager.java`. Two threads run through it
without a lock: the main looper (buttons, posted runnables, scan results,
`shutdown`) and a binder thread for each gatt's callbacks. Whatever touches
`isReconnecting`, `reconnectAttempts` or `characteristic` more than once is split
into steps (`main` and `cb` say where each thread is), so that
`scheduleReconnect` may interleave with itself and `reconnectAttempts++` may
lose a reset. What both threads can do to these plain Java fields is taken to be
the interleavings of their reads and writes.

| Code (`BleServerManager.java`) | Action |
|---|---|
| `scheduleReconnect` 177-184 | `ScheduleCheck` to `SchedulePost` (main), `CallbackCheck` to `CallbackPost` (binder) |
| the runnable 186-224 | `LoopStart`, `LoopWait`, `LoopConnect`, `LoopConnectNull`, `LoopDenied`, `LoopRead`, `LoopCount`, `LoopDecide`, `LoopGiveUp` |
| `onConnectionStateChange` 232-253 | `ConnectedBegin`/`End`, `DisconnectedBegin`/`Close`/`Clear`, then `CallbackCheck` |
| `onServicesDiscovered` 264-297 | `DiscoveredBegin`/`End` |
| scan 83-166, `setTargetDevice` 78-81 | `Scan`, `ScanFinds` (the stack), `ScanResult`, `ScanTimeout` |
| `send...`, `writeInternal` 300-356 | `Send`, `Retry`, `Write`, `WriteDenied`, `WriteNull` |
| `shutdown` 358-376 | `ShutdownFlag`, `ShutdownRest` |

Delays are abstracted: a posted runnable runs at any later time. `WriteNull` is
the null pointer that a disconnection between check (335) and use (338) leaves;
it ends the process. The activity offers no scan after `onDestroy`, hence the
guard `~down` of `Scan`; control commands may still come, hence none in `Send`.
`shutdown` cannot stop a disconnection callback that has begun nor a scan result
already in the looper; the history `late` remembers whether there was one, and
`ShutdownIsFinal` speaks of the other shutdowns only.

### SessionLog, VoxbloxMap, WsServer and Replay: the replay client

`Replay.tla` is the main loop of `mono_vio_ws_stream_client` and composes three
modules that know nothing of each other. `SessionLog` has no state: it is the
format as operators. `VoxbloxMap` and `WsServer` are specifications of their own
(`MapSpec`, `WsSpec`), over variables that `Replay` shares; the loop's actions
conjoin theirs (`ReadFrame` with `Integrate`, `UpdateViews` with `Visualize`, `Send`
and `Sent` with `BroadcastBegin` and `BroadcastEnd`, `Finish` with `StopFlag`), and
the accept loop and the browsers interleave (`Others`). That the composition
implements both is proved (`MapRefinement`, `WsRefinement`).

The code refreshes its cache within `esdf_vis_update_radius_m` of the last pose, and
nothing relates that radius to how far a frame reaches (`MaxRange`) or to how far the
camera moves between two refreshes. The model assumes nothing of them either. `missed`
is a history: the poses of the frames that no refresh has reached yet (`Reaches(p)`:
all that a frame at `p` can change is within the radius). `SurfaceIsShown` allows a
stale block in reach of such a frame and nowhere else. `max_esdf_viz_points`, off by
default, would cut the list of points short and is left out.

A session file is a sequence of words, one per field of the format. `Record` is
what the recorder of `api.cc` writes for a frame, `Written` and `Recording` what that
adds up to after the header, `Damaged` what is left when the phone
dies: a prefix, perhaps with zeros after it, since a file system may grow a file
before it writes its blocks. `NextEntry` is `DataSessionReader::Next`, including
its way of skipping records that are too small (`data_session.cc` 62) without
skipping their bytes, and `PythonFrames` is `iter_vlprec`, which stops instead. Both
loops are recursive functions of the position (`Entries`, `PythonFrom`), so that they
can be proved about.

| Code (`src/mapping`, `src/python`) | Definition |
|---|---|
| `api.cc` 136-158, 233-242, 411-465 | `Recording`, `Record`, `Payload` |
| `data_session.cc` 22-46, 48-128, 130-191; `frame_protocol.cc` 16-50 | `Open`, `NextEntry`, `HasDepth`, `Parses` |
| `vlprec_reader.py` 206-293 | `PythonFrom`, `PythonFrames` |
| `mono_vio_ws_stream_client.cc` 127-199 | `ReadFrame` |
| 189-194 with `voxblox_processor.cc` 251-281, 283-380 | `UpdateViews` |
| 234-312 | `SkipSend`, `Send`, `Sent` |
| 129-139, 322-327 | `Reopen`, `Finish`, `Shutdown` |
| `voxblox_processor.cc` 78-137, 183-237 | `Integrate`, `Refreshed` |
| `simple_websocket_server.cc` 168-239 | `LoopStart`, `LoopCheck`, `Accept`, `RecvAndClose`, `RecvUpgrade`, `Push` |
| 125-166 | `BroadcastBegin`, `BroadcastEnd`, `StopFlag`, `StopClear`, `StopJoin`, `Destroy` |
| `web_client.html` 307-314 | `Connect` |

In `WsServer` the kernel matters: a call of `accept` that is blocked keeps the
listening socket although `Stop` has closed its descriptor, so that exactly one more
connection completes it. This is why `Stop` waits for somebody to connect, which pages do (they
reconnect by themselves) and `StopReturnsWithPage` says; and why `Loop` may add a
client after `Stop` has cleared the list, which only the second `Stop`, in the
destructor, closes (`AllClosedAtExit`). In `VoxbloxMap` blocks and poses lie on a line;
a block's content is the number of the frame that last changed it.

### Visualizer: the two ROS nodes

`Visualizer.tla` has both nodes and the topics between them. A topic is bounded
and drops its oldest message; topics are not ordered with each other. A cloud is
remembered with the origin it was shifted by, 0 when there was none.

| Code (`src/mapping/ros_nodes`) | Action |
|---|---|
| `voxblox_ros_node.cc` 75-107, 109-118 | `OnSyncedPoseDepth`, `OnTimer` |
| `pangolin_visualizer_node.cc` 236-267 | `OnPose`, `OnEsdf`, `OnDepthCloud` |
| 94-118, 120-197 | `TakeSnapshot` with `Follow`, `FinishFrame` |

The viewer copies what it draws under `mu_`, but reads `origin_t_` again while it
draws the trajectory, without the lock. `DrawnFromOneOrigin` says why that does
no harm: a trajectory of two points has an origin, and that never changes.

What the frame is looked at from is another matter. Follow Camera (menu entry of line
75, off by default) looks from `traj_.back()` without subtracting `origin_t_` (lines
112-118), although everything it looks at is drawn with the origin subtracted. The
model has this (`Follow` gives a viewpoint with origin 0), and the property claims one
origin for what is drawn, not for the viewpoint.

### AppLifecycle: the activity over the native application

`AppLifecycle.tla` has the UI thread that runs the activity's callbacks, the GL
thread of its `GLSurfaceView`, and the path of control commands (`ControlPath`). Each
callback is split where it calls something the other thread can notice; `ui` and `gl`
say where each is.

| Code | Action |
|---|---|
| `onCreate`, `hello_ar_application.cc` 63-76 | `OnCreate` |
| `HelloArActivity.java` 349-380, `hello_ar_application.cc` 99-142 | `OnResume`, `ResumeNative`, `ResumeSurface`, `RegisterDisplayListener` |
| 382-389, `hello_ar_application.cc` 92-97 | `OnPause`, `PauseNative`, `PauseSession` |
| 391-404, `jni_interface.cc` 122-132, `hello_ar_application.cc` 78-90 | `OnDestroy`, `DestroyNative`, `BeginShutdown`, `StopServer` |
| 641-651 | `OnDisplayChanged` |
| 424-434, `hello_ar_application.cc` 144-173 | `OnSurfaceCreated`, `OnSurfaceChanged`, `OnDisplayGeometryChanged` |
| 436-454 | `OnDrawFrame`, `ReadRotation`, `ClearViewportChanged`, `DrawEnds` |
| 128-139, `hello_ar_application.cc` 790-915 | `OnSingleTapUp`, `QueueTouch`, `RunTouch`, `TouchEnds` |
| `api.cc` 287-313 and 176-187, `jni_interface.cc` 63-71 | `SendControl`; `CopyCallback` and `CallCallback` within `ControlReturns` |
| `api.cc` 108-134, as far as `Shutdown` (370) waits for it | `StreamOpens`, `StreamEnds` |
| `grpc_stream_client.py` 145-154 | `SendCommand`, `ControlTimesOut` |
| 308-318 | `OnNativeGrpcControlCommand` |

`ControlPath.tla` has the state of the commands and one operator per step of theirs;
it is a specification of its own (`PathSpec`), in which the callback may come and go
at any time. `AppLifecycle` extends it, implements it (`PathRefinement`) and adds when each step can happen: calls come while the
server runs and is not being stopped, the callback is set and taken back by the
lifecycle, and posted commands run when the UI thread is free. A client sends one
command after the other and gives up on a call after two seconds, which the handler
does not notice; only then do two handlers run at once. A command is lost when there
is no callback or no `bleServerManager`. A new activity has a robot
client of its own (`NewManager`). `given` corresponds to `Send` of `BleClient`,
which takes over from there.

`Shutdown` waits for `StreamFrames` calls too. How such a call ends is `VlpStream`'s
question, whose run `stop_hangs` shows that it need not; here `StreamEnds` has no fairness,
and `UiThreadGoesOn` says that nothing else holds a callback of the UI thread
(`HeldByStreams`). A tap asks the session whether it supports depth
(`HelloArActivity.java` 134, 552) on the UI thread, without the monitor, while the GL
thread may be drawing: two threads do use the session at a time. What
`SessionNotChangedUnderGl` claims is that the UI thread does not create, resume, pause
or destroy it meanwhile.

`GLSurfaceView` is external and modelled from its contract: its thread runs queued
events first, then a requested pause, which gives up the EGL surface, then makes
a surface and reports its size, then draws; its `onPause` waits for that. The model
keeps rendering enabled, so that frames are drawn continuously (`depth_not_offered`
is about the other mode). `MaxTouches` bounds the taps that wait in the queue, `MaxStreams` the
`StreamFrames` calls at a time and `MaxTurns` the half turns of the display.

### MC modules

`MC*.tla` extend a component for TLC; each `.cfg` gives the constants of one run.

## Runs

| Run | Question and result |
|---|---|
| `stream_feed` | Two clients, two servers in a row, depth updates, cancellation, reconnection: all safety properties of delivery and depth hold, and `FrameFeed` is implemented. Two subscribers let one sleep while the other writes; two frames and two depths let a slot be overwritten and a frame be skipped; three calls let one subscriber reconnect. |
| `stream_record` | The recorder alone with two files, four frames, three timestamps, two servers, each way of starting, failing and ending. No subscriber: calls do not touch the recorder. |
| `stream_live` | Under fair threads an awake handler notices cancellation and shutdown, even out of a `Write` whose client leaves; where writes return, every frame reaches every open call, and the stop ends unless a handler slept through it. |
| `stop_hangs` | *Violated.* `StopGrpcServer` need not return although every write does: see findings. |
| `depth` | Two camera timestamps (one image in work while the next waits in the slot), every switch of source and rendering, loading that succeeds or fails, destruction at any moment: no depth is offered twice or out of order, depth keeps its image's time, the newest image wins, no thread outlives the pipeline; under fair threads an accepted image is taken (also one accepted before the worker exists), the destructor returns, results are offered while the surface renders. The invariants are proved for every number of timestamps. |
| `depth_not_offered` | *Violated.* With rendering off no DA2 result is offered. |
| `ble_safety` | Two gatt objects (a callback of the old one runs while the new one connects), two attempts, two scans (a timeout of the first meets the second), one command with one retry, two loop runnables at once, shutdown at any moment: no connection leaks, no loop dies with `isReconnecting` set, shutdown is final for what it reaches, no command is tried after it was accepted, every scan has a timeout. |
| `ble_live` | Under a fair looper the reconnect loop ends once there is a target, although callbacks restart it. |
| `app` | Any number of activities one after the other, one queued touch at a time, one anchor (so that a second touch evicts), the permission given late, the surface and the GL context lost and made again, ARCore missing or failing, a half turn, a stream, two commands of which the client may give up on any: nobody uses a deleted object, the session is not created, resumed, paused or destroyed under the GL thread, frames with a session have its intrinsics, anchors and list agree, a command arrives once at most and after those sent before it unless the client gave up on those, nothing but `StreamFrames` calls makes a callback of the UI thread hang. |
| `app_rotation` | *Violated.* A turn by 180 degrees may go unnoticed: see findings. Two half turns; no touches, streams or commands, which the question does not need. |
| `replay` | Two records, of which one has depth; the file whole, or with zeros from the end of the last record's image on, or cut in the depth of the first, or with zeros from the depth of the first on, sizes of the second included; two passes over it; a refresh of the views at every second integration; a map of four blocks, a reach of one and a radius of two, with a camera that moves freely, so that blocks lie outside of the radius and frames out of its reach; one page and one stranger. Every whole record is read back, in every pass; a pending slice is never empty; the cache shows the map but for what frames changed that no refresh has reached; every descriptor is closed at the end; Stop returns if a page is left to connect. |
| `visualizer` | Three poses, topics and trajectory of two: a third message overflows a queue and a third point the trajectory; clouds before the first pose; a viewer between any two callbacks, which follows the camera or not. What is drawn in a frame is drawn from one origin, and the map ends up there. |

Deadlock is not checked where the system may stop: a process whose bound on
servers, frames or calls is reached has nothing left to do.

*Bounds.* Every bound is a constant (`MaxTs`, `MaxFrames`, `MaxDepths`,
`MaxCalls`, `MaxServers`, ...) and sits in a guard. They bound how often
something is begun, never how it goes on, so no interleaving of what was begun
is cut. The one exception is `MaxPosted` of `BleClient`: a callback waits with
posting while so many loop runnables are posted, since every disconnection may
start one more beside those that are left; two are enough for two loops to run
side by side. In the same module attempts beyond `MaxAttempts` are not told
apart. Symmetry over subscribers, files and gatt objects is used for invariants
only.

*Fairness* (`FairSpec`). A thread that can run does: a started
`PushFrameYuvNv21` or `StopGrpcServer` goes on, and so does a
handler that is neither asleep nor writing to a client that is there. `Write`
has no fairness: it waits for a client that does not read, for as long as that
client stays. Properties that need it to return say so (`WritesReturn` is a
hypothesis of `FramesReachCalls`, `StopReturnsWhenAwake` and `StopReturns`). Where
`mutex_` must be taken fairness is strong, because others take and release it in
between and a thread that finds it free again and again gets it in the end. Nobody
is obliged to draw, connect, cancel, stop, or to wake spuriously. In `BleClient` the looper is fair to each kind of
message that is due (strongly, because it is busy with others in between) and a
message or callback that has begun goes on; the robot need not answer, and
nobody needs to scan, send or shut down. In `Replay` the closing main thread and the
accept loop go on, a page gets its answer and connects again when it was closed, as
its script does; a stranger need not say anything, no record need be read, and a peer
may leave for good at any time. In `Visualizer` the timer fires and the executor
serves each subscription that again and again has messages (strongly: its queue may be empty
in between). In `AppLifecycle` both threads go on with what they have begun, the
GL thread draws while it has a surface, and a `SendControl` handler goes on; nothing is
assumed of `StreamFrames` calls, and nobody need touch, turn, leave or come back. Only
`app_rotation` adds that a notice of the display reaches the UI thread
(`DisplayFairSpec`).

## Findings

- `stop_hangs`: the flag and the notification of `SetShuttingDown` (api.cc
  189-192) may both fall while a handler holds `mutex_` between its predicate and
  its wait. The handler sleeps, no frame comes any more, and `Shutdown()`, which
  has no deadline, waits for it. Taking `mutex_` around the store would do.
  There is one other way to the same end, which the run assumes away: a client
  that neither reads nor cancels holds its handler in `Write`, and the missing
  deadline lets it. `StopReturnsWhenAwake` shows that there is no third: where
  writes return and no handler is deciding or asleep once new calls are refused, the
  stop ends; `WhatHoldsTheStop` proves the safety part of it.
- `depth_not_offered`: `OnDrawFrame` returns before `UpdateDa2OverlayTexture`, the
  only place that publishes DA2 depth, when rendering is off. The images are
  still converted and computed; `ResultIsOfferedWhenRendering` shows that
  nothing else stands in a result's way.
- `app_rotation`: `onDrawFrame` reads the display's rotation (444) and then clears
  `viewportChanged` (447). `onDisplayChanged` (650) runs on the UI thread without
  the monitor and may set the flag in between; the frame then clears it unseen.
  A turn by 180 degrees has no other notice (377), so the old geometry stays.
  Clearing the flag before reading would do.

Observations that no run states, met while modelling:

- `latest_payload_` is one slot: a subscriber that writes while two frames are
  published gets the second only. `DeliversRealFramesInOrder` is what remains.
- JPEG encoding is done for every camera image while the server runs, whereas
  `app_vlp/README.md` line 15 has it done when a subscriber is ready.
- `need_stream_buffer_update` (`hello_ar_application.cc` 452) is read from
  `need_stream_image` before that is set; nothing reads the buffers it would fill.
- A touch queued after an `onResume` that failed (the view is still paused then)
  is run by the paused GL thread, and the next `onPause` does not wait for
  it: it may meet a session that is being paused or destroyed. `LateTouch` names
  this case and `NoUseAfterDelete` and `SessionNotChangedUnderGl` except it.
- `OnTouched` destroys neither the hits it passed over, nor their trackables, nor, when it
  returns early, the list; `camera_intrinsics_` is created at every change of
  geometry and never destroyed; the destructor does not release the anchors of the
  list, which the model takes to go with their session.
- `SendControl` may be inside the callback when `destroyNativeApplication` deletes the
  global reference the callback uses.
- The radius of a refresh is not tied to the reach of a frame. With the client's defaults
  (6 m against 9.6 m) a frame is reached if the camera hardly moves on before the
  refresh: blocks count by their centres, and half of a block's diagonal is 2.8 m. With `--max_depth_m=12.0`, as in `mapping/README.md` line 29,
  the client raises the reach only (`mono_vio_ws_stream_client.cc` 98-100), the radius stays
  9.6 m (`voxblox_processor.h` 43), and blocks farther away than that stay stale until the
  camera comes near; `SurfaceIsShown` says that this is all that does. The ROS node's
  defaults are 12 m against 14.4 m.
- Follow Camera looks from a pose in the robot's coordinates at what is drawn
  in coordinates relative to the first pose (`pangolin_visualizer_node.cc` 116).
- `isDepthSupported` (a tap) and `ConfigureSession` (the dialogs) use the session on the UI
  thread beside the GL thread, which ARCore must put up with.
- A scan's timeout that fires during a later scan ends that one early.
- A page that connects late gets no ESDF points until the next refresh.

## Proofs

### Safety of the components

`VlpStream_proofs.tla` holds the proofs for the core, for every set of
subscribers and files and every bound, from the two assumptions of the module
(`NoPath` is not a file; the bounds are naturals).

The inductive invariant `IInv` is needed because none of the properties is
inductive alone. It joins `TypeOK` with four parts:

- `ServerInv`: which places of the threads go together (a stopped server has no
  handlers, a built frame needs a server that is up, a set flag means a stop is
  under way);
- `FeedInv`: `frameSeq` is the length of the history, `latest` is its last
  entry, nobody has seen more than there is, a handler that sleeps or is about to
  has seen all of it;
- `DepthInv`: the depth blocks of the history are increasing and below the
  slot's, the consumed one is on a frame or in hand, none is ahead of its frame;
- `DeliveredInv`: what a call has written is increasing and below what it has
  taken.

From it follow, by name, `TypeCorrect`, `DeliveryCorrect`, `NoLostFrameWakeup`,
`DepthOnce`, `DepthInTime`, `DepthNotLost` and `Refinement` (the
step-by-step simulation of `FrameFeed`). For the recorder `TimeInv` (timestamps
of the history never go back) and `RecorderInv` (the members, the history and
the file agree) are inductive relative to `IInv` and give
`RecordingFollowsStream` and `FilesReplayable`.

`DepthPipeline_proofs.tla` does the same for `DepthPipeline`, from
`MaxTsAssumption` alone. Its `IInv` joins `TypeOK` with `ThreadInv` (which places
of the worker, the init thread, the draw and the destructor go together: the
worker exists exactly when initialisation is done, hence a joined init thread
decides whether there is a worker to join), `OrderInv` (timestamps never grow
along camera, slot, task, preview, overlay) and `OfferInv` (what has been offered
is no newer than the mark of its source). `TimeIsKept` and `OfferedOnce` need
`OfferInv`, because neither says how the next entry compares with the marks;
that in turn needs `OrderInv`'s `preview.of = preview.ts`.

`BleClient_proofs.tla` needs no more than `BleAssumption`. Two of the properties,
`OneConnectionOpen` and `SomeLoopIsAlive`, are inductive with `TypeOK`, and so is
`ScanHasTimeout`; `ShutdownIsFinal` follows from `DownInv` (after a shutdown that
reached everything nobody is left who could post, connect or write), `SentOnce`
from `CmdInv` (each command is in one place: sent, being written, or waiting).

`Replay_proofs.tla` proves the map and the server by themselves, then carries
both over to the composition.

- `MapInv`: where the cache differs from the map, the block is in reach of a frame
  that no refresh has reached yet. This is the strengthening `SurfaceIsShown` needs: the
  property speaks of the refresh only, and of a block that was left behind several
  refreshes ago it must be known which frame is to blame. Nothing is assumed of
  the camera's movement, the reach or the radius, but that they are naturals.
- `WsInv`: every descriptor held is a client's in the list or the one `Loop` has in
  hand (`HeldInv`), and the owner is joined only when `Loop` is done. Hence what
  `Destroy` finds in the list is all there is (`ServerLeavesNothing`).
- `MapRefinement` and `WsRefinement`: every step of `Replay` is a step of the
  component or leaves its variables alone; `ReplayShowsMap` and `ReplayClosesAll`
  follow by citing the component's theorem.
- `PlayInv` adds the flags and the slice, for `SlicesAreWhole`.
- `FileInv` says where the reader stands: `CrashInv` that the file kept its header,
  `ReadInv` that `pos` is the start of the record after those returned, or that one
  torn record was returned and nothing follows. With the lemmas of the next
  module it is inductive and gives `CrashedRecordingsAreRead`: `RecordsRecovered`
  for every sequence of frames, every crash and any number of passes.

`SessionLog_proofs.tla` is about the file and its two readers alone, for every
sequence of frames, cut after any word from the header's end on and followed by any
number of zeros. `WholeRecordsAreRead` says that each reader, put at the start of a
record that is whole, returns that record with its own data and stands at the
next one's start; `TornRecordEndsTheFile` that the torn record gives at the most
one entry more, after which there is none, even though `Next` walks into the zeros
out of step; `PythonGetsWholeRecords` adds up the first for `iter_vlprec`. What a
recursive function computes needs an induction, and the library's induction theorems
take an operator as parameter. Instead each induction is on a set of
numbers, whose complement would have a least member (`LeastNumber`, from the
well-foundedness of `<` on `Nat`). In the same way it is shown that functions with the
recursions of `Written`, `Entries` and `PythonFrom` exist, without which
nothing can be said of them (`WrittenDef`, `ReadersDef`); for the readers the
induction runs from the end of the file backwards.

`ReplayAssumption` asks that `Frames` is a sequence of frames (integers and a
Boolean each) and that a crash leaves no more words than were written.

`AppLifecycle_proofs.tla`: `IInv` joins `TypeOK` with `LifecycleInv` (the callback in
progress, the activity's state and the object go together), `GlInv`, `GeometryInv`
(once there is a session, either the intrinsics were made with it or the flag is
still up) and `AnchorInv` (the session holds the anchors of the list; during
destruction the session goes first). The core is `GlInv`: outside of the time
between `surfaceView.onResume` and the end of `surfaceView.onPause` the GL thread
is `Quiet`, paused or without any surface so far. `NoUseAfterDelete` and
`SessionNotChangedUnderGl`, about two callbacks that take no lock, follow from it. The control path is proved
about by itself: `PathInv` (the handlers that run are of the command waited for
and of late ones, and have posted nothing yet; what was given and what is posted
are in order) is invariant under `PathSpec`, whatever activity is above it;
`PathKeepsOrder` follows, `PathRefinement` shows that every step of the app is a step
of the path or leaves it alone, and `CommandsArriveInOrder` cites both.

`Visualizer_proofs.tla` is about what is drawn: `OriginInv` says of the latest data, and `SnapInv` of the
snapshot, that every cloud is as it came or shifted by the origin there is. The
snapshot may be older than the origin, and then it has no trajectory.

### Progress: what can be proved of it

A liveness property needs fairness and `ENABLED`, which this prover does not
handle. For the waits that matter its two other ingredients are proved, for every
value of the constants: a number that no step raises and that the steps waited for
lower, and an invariant that says that one of these steps can be taken (its guard
holds). What is left to TLC is that the guard implies the action is enabled and that
fairness then makes it happen.

| Wait | It gets nearer | It is not stuck |
|---|---|---|
| `~Impl` of `Da2Pipeline` (`DestructorReturns`) | `DestructorAdvances`: `StepsLeft` falls with every step of any thread | `DestructorIsNotStuck`, from `NoLostNotification` |
| `surfaceView.onPause` (`UiThreadGoesOn`) | `PauseAdvances`: `PauseLeft`, the touches queued and the callback in progress | `PauseIsNotStuck`: the GL thread waits for nothing the UI thread holds |
| `~HelloArApplication` in `onDestroy` (`UiThreadGoesOn`) | `DestroyAdvances`: `CallsLeft` falls with each step of a `SendControl` handler and nothing raises it, and no stream is opened | a `SendControl` handler can always go on: `ControlReturns` has no other guard; of `StreamFrames` calls nothing is claimed (`HeldByStreams`) |
| `StopGrpcServer` (`StopReturnsWhenAwake`) | `DrainAdvances`: `HandlerLeft` of each handler | `WhatHoldsTheStop`: while no handler can go on, each one left is asleep, which is the finding of `stop_hangs`, or writes to a client that neither reads nor cancels |
| `SimpleWebsocketServer::Stop` (`StopReturnsWithPage`) | `StopAdvances`: `LoopLeft`, with one connection to accept at the most | `StopIsNotInTheWay`: `Loop` waits for a browser or for nobody |

`NoLostNotification` is the invariant behind the first: the worker is never between
its check and its sleep when the flag is set, and sleeps on a waiting image only
while `EnqueueFrame` is about to notify.

### How far the prover is trusted

The translation of `Len` to SMT in this version of TLAPS equates `DOMAIN s = 1..n` with
`Len(s) = n` for everything, also for what is not a sequence. That is stronger than
the definition, and could let a false obligation through. All proofs that mention
`Len` were therefore also checked with this fact weakened, to the
direction that holds (what has domain `1..n` has length `n`); the few leaves that had
relied on the other direction now cite that the value is a sequence.

### Only model-checked

The liveness properties, which need fairness and `ENABLED`; the table above says
which of them have a proved part. Those of `BleClient` (`LoopEnds`) and the
visualizer (`EsdfGetsShifted`), and `FramesReachCalls` and `CancelledCallEnds`, have
none but the invariants they rest on; `ImageIsTaken` rests on `NoLostNotification`. Every invariant and every
action property that a run checks is also a theorem.

## Not modelled

- **Two activities at once.** Android may create the new activity before it
  destroys the old one; both then share the one server and its callback. The code
  has no answer to that (the old destructor stops the new one's server, api.cc
  337-376), so there is no property to state and `AppLifecycle` has one at a time.
- **Renderers and GL helpers** (`util.cc`, `*_renderer.cc`, the overlay of
  `hello_ar_application.cc`): straight-line GL calls, no protocol state. Of
  `OnTouched` the choice among the hits is left out, not what it does to anchors.
- **Settings, permissions, dialogs, buttons**: platform I/O. The dialogs call
  `ConfigureSession` on the UI thread; which settings ARCore then has is not
  modelled.
- **Images, depth values and geometry**: encoding, decoding and scaling, the
  network's output, TSDF and ESDF, poses. They are floating-point work, mostly
  of libraries, and TLC has neither floats nor sizes of that kind. What
  the models keep of them is which image a depth came from, which record a frame,
  which frame a block.
- **Of the replay loop** the trajectory and the real-time sleep; **of the
  visualizer** the colour and depth panels (each a latest image under the same
  lock); **of the Python tools** all but the iteration over records.
- **Vendored code**: `arcore_c_api.h` and the MNN headers are more than half of
  the lines in `src/` and are declarations of libraries whose code is not in the
  repository. The models treat what they declare as external. Together with the
  drawing and floating-point code above that leaves about an eighth of
  the lines for state machines, which is why the map covers a small share of all
  lines.
