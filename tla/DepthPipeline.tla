---------------------------- MODULE DepthPipeline ----------------------------
(***************************************************************************)
(* Where the depth of the phone app comes from: the draw loop of           *)
(* HelloArApplication, the threads of Da2Pipeline and the texture that     *)
(* holds ARCore's depth image.                                             *)
(*                                                                         *)
(*   - The GL thread draws.  A draw loads the depth source once, offers    *)
(*     ARCore's depth image, hands the camera image to the pipeline and    *)
(*     last, if it renders, offers the pipeline's newest result.           *)
(*   - The pipeline's init thread loads the network, then creates the      *)
(*     worker, which turns the newest pending image into a depth preview.  *)
(*   - The UI thread switches source and rendering, and destroys the       *)
(*     application while the GL thread is outside a draw.                  *)
(*                                                                         *)
(* Da2Pipeline's mutex is held across two steps in one place, a worker     *)
(* between its look at cv's predicate and its going to sleep ("deciding"). *)
(* An image is abstracted to its timestamp; a depth image names the image  *)
(* it was computed from (of) beside the timestamp it carries (ts).         *)
(***************************************************************************)
EXTENDS Integers, Sequences

CONSTANT
  MaxTs   \* bound: camera timestamps are 1..MaxTs

ASSUME MaxTsAssumption == MaxTs \in Nat

VARIABLES
  app,        \* the application: alive, or how far its destructor is
  serverUp,   \* HasGrpcServer: whether the server could be started
  source,     \* depth_source_: 0 none, 1 ARCore, 2 DA2
  render,     \* render_enabled_
  gl,         \* the draw under way: where it is, and the source it loaded
  camera,     \* timestamp of the session's current image
  texture,    \* depth_texture_: ARCore's latest depth image, and whether it has bytes
  arPushed,   \* arcore_depth_pushed_timestamp_ns_
  overlay,    \* da2_overlay_uploaded_timestamp_ns_
  da2Pushed,  \* da2_depth_pushed_timestamp_ns_
  pushed,     \* history: the depth updates given to PushDepthUpdate
  init,       \* init_thread
  ready,      \* ready
  worker,     \* worker
  stop,       \* stop
  hasPending, \* has_pending
  pending,    \* pending
  enqueued,   \* history: timestamp of the last image accepted by EnqueueFrame
  task,       \* the worker's image
  preview     \* latest_depth_preview

appVars    == <<app, serverUp>>
uiVars     == <<source, render>>
arVars     == <<camera, texture, arPushed>>
offerVars  == <<overlay, da2Pushed, pushed>>
initVars   == <<init, ready>>
queueVars  == <<stop, hasPending, pending, enqueued>>
workerVars == <<worker, task, preview>>
vars == <<appVars, uiVars, gl, arVars, offerVars, initVars, queueVars, workerVars>>

Sources == {"none", "arcore", "da2"}

Idle == [at |-> "idle", source |-> "none"]

\* The member initialisers: no depth image yet.
NoDepth == [of |-> 0, ts |-> 0]

NoTexture == [of |-> 0, ts |-> 0, filled |-> FALSE]

MutexFree == worker # "deciding"

Init ==
  /\ app = "alive"
  /\ serverUp \in BOOLEAN
  /\ source = "none"
  /\ render = TRUE
  /\ gl = Idle
  /\ camera = 0
  /\ texture = NoTexture
  /\ arPushed = 0
  /\ overlay = 0
  /\ da2Pushed = 0
  /\ pushed = <<>>
  /\ init = "loading"
  /\ ready = FALSE
  /\ worker = "none"
  /\ stop = FALSE
  /\ hasPending = FALSE
  /\ pending = 0
  /\ enqueued = 0
  /\ task = 0
  /\ preview = NoDepth

-----------------------------------------------------------------------------
(* The UI thread's settings. *)

SetDepthSource(s) ==
  /\ app = "alive"
  /\ source' = s
  /\ UNCHANGED <<appVars, render, gl, arVars, offerVars, initVars, queueVars, workerVars>>

SetRenderEnabled ==
  /\ app = "alive"
  /\ render' = ~render
  /\ UNCHANGED <<appVars, source, gl, arVars, offerVars, initVars, queueVars, workerVars>>

-----------------------------------------------------------------------------
(* The GL thread: OnDrawFrame. *)

\* PushDepthUpdate reaches a StreamState only if there is one.
Offered(from, depth) ==
  pushed' = IF serverUp
            THEN Append(pushed, [from |-> from, of |-> depth.of, ts |-> depth.ts])
            ELSE pushed

\* Mutant of ArDepthIsNew: an image that did not change is offered again.
ArDepthIsNewOrSame(depth) == serverUp /\ depth.ts >= arPushed

(* ARCore's image is later than the last one offered, and somebody listens. *)
ArDepthIsNew(depth) == serverUp /\ depth.ts > arPushed

(* UpdateWithDepthImageOnGlThread: no image for this frame, or one without  *)
(* data (0), or the depth of a frame up to the current one.  hasBytes is    *)
(* FALSE for an empty plane, whose timestamp is taken all the same.         *)
ArcoreDepth(ts, image, hasBytes) ==
  /\ image <= ts
  /\ texture' = IF image = 0
                THEN texture
                ELSE [of |-> image, ts |-> image, filled |-> hasBytes]
  /\ IF ArDepthIsNew(texture') /\ texture'.filled
     THEN /\ Offered("arcore", texture')
          /\ arPushed' = texture'.ts
     ELSE UNCHANGED <<pushed, arPushed>>

(* OnDrawFrame up to the DA2 image: the session moves to a frame that is    *)
(* not older, the source is loaded once, ARCore's depth is offered.  (The   *)
(* camera image then goes to PushFrameYuvNv21: module VlpStream.)           *)
BeginFrame(ts, image, hasBytes) ==
  /\ app = "alive"
  /\ gl.at = "idle"
  /\ ts >= camera
  /\ camera' = ts
  /\ gl' = [at |-> "begun", source |-> source]
  /\ \/ source = "arcore" /\ ArcoreDepth(ts, image, hasBytes)
     \/ source # "arcore" /\ UNCHANGED <<texture, arPushed, pushed>>
  /\ UNCHANGED <<appVars, uiVars, overlay, da2Pushed, initVars, queueVars, workerVars>>

(* EnqueueFrame's critical section: the single slot is overwritten. *)
EnqueueFrame ==
  /\ gl.at = "begun"
  /\ gl.source = "da2"
  /\ ready
  /\ MutexFree
  /\ pending' = camera
  /\ hasPending' = TRUE
  /\ enqueued' = camera
  /\ gl' = [gl EXCEPT !.at = "enqueued"]
  /\ UNCHANGED <<appVars, uiVars, arVars, offerVars, initVars, stop, workerVars>>

(* The source is another, there is no camera image, or the pipeline is not *)
(* ready.                                                                  *)
SkipEnqueue ==
  /\ gl.at = "begun"
  /\ gl' = [gl EXCEPT !.at = "drawn"]
  /\ UNCHANGED <<appVars, uiVars, arVars, offerVars, initVars, queueVars, workerVars>>

\* Mutant of Woken: nobody is notified.
WokenNever == worker

\* cv.notify_one / notify_all: the worker is the only thread that waits.
Woken == IF worker = "asleep" THEN "enter" ELSE worker

NotifyWorker ==
  /\ gl.at = "enqueued"
  /\ worker' = Woken
  /\ gl' = [gl EXCEPT !.at = "drawn"]
  /\ UNCHANGED <<appVars, uiVars, arVars, offerVars, initVars, queueVars, task, preview>>

\* Mutant of PreviewIsNew: only the result of the current image is taken.
PreviewIsCurrent == ready /\ preview.ts > overlay /\ preview.ts >= camera

(* UpdateDa2OverlayTexture goes past its early returns. *)
PreviewIsNew == ready /\ preview.ts > overlay

(* UpdateDa2OverlayTexture: publish the depth once, then upload it.  The    *)
(* two timestamps move together, so the test of da2Pushed never fails.      *)
Uploaded ==
  /\ overlay' = preview.ts
  /\ IF preview.ts > da2Pushed
     THEN Offered("da2", preview) /\ da2Pushed' = preview.ts
     ELSE UNCHANGED <<pushed, da2Pushed>>

(* The rest of OnDrawFrame: it returns at once when rendering is disabled. *)
EndFrame ==
  /\ gl.at = "drawn"
  /\ gl' = Idle
  /\ IF render /\ gl.source = "da2" /\ PreviewIsNew
     THEN Uploaded
     ELSE UNCHANGED offerVars
  /\ UNCHANGED <<appVars, uiVars, arVars, initVars, queueVars, workerVars>>

-----------------------------------------------------------------------------
(* The pipeline's threads. *)

(* Initialize succeeds: ready is set before the worker is created. *)
InitReady ==
  /\ init = "loading"
  /\ init' = "ready"
  /\ ready' = TRUE
  /\ UNCHANGED <<appVars, uiVars, gl, arVars, offerVars, queueVars, workerVars>>

InitFailed ==
  /\ init = "loading"
  /\ init' = "failed"
  /\ UNCHANGED <<appVars, uiVars, gl, arVars, offerVars, ready, queueVars, workerVars>>

CreateWorker ==
  /\ init = "ready"
  /\ init' = "done"
  /\ worker' = "enter"
  /\ UNCHANGED <<appVars, uiVars, gl, arVars, offerVars, ready, queueVars, task, preview>>

WorkerReturn ==
  /\ worker = "enter"
  /\ stop
  /\ worker' = "returned"
  /\ UNCHANGED <<appVars, uiVars, gl, arVars, offerVars, initVars, queueVars, task, preview>>

WorkerTake ==
  /\ worker = "enter"
  /\ ~stop
  /\ hasPending
  /\ task' = pending
  /\ hasPending' = FALSE
  /\ worker' = "busy"
  /\ UNCHANGED <<appVars, uiVars, gl, arVars, offerVars, initVars, stop, pending, enqueued, preview>>

WorkerDecide ==
  /\ worker = "enter"
  /\ ~stop
  /\ ~hasPending
  /\ worker' = "deciding"
  /\ UNCHANGED <<appVars, uiVars, gl, arVars, offerVars, initVars, queueVars, task, preview>>

WorkerSleep ==
  /\ worker = "deciding"
  /\ worker' = "asleep"
  /\ UNCHANGED <<appVars, uiVars, gl, arVars, offerVars, initVars, queueVars, task, preview>>

SpuriousWakeup ==
  /\ worker = "asleep"
  /\ worker' = "enter"
  /\ UNCHANGED <<appVars, uiVars, gl, arVars, offerVars, initVars, queueVars, task, preview>>

\* Mutant of ProcessTask: an image that failed is put back to be tried again.
ProcessTaskRetry(ok) ==
  /\ worker = "busy"
  /\ worker' = "enter"
  /\ IF ok
     THEN preview' = [of |-> task, ts |-> task] /\ UNCHANGED <<pending, hasPending>>
     ELSE pending' = task /\ hasPending' = TRUE /\ UNCHANGED preview
  /\ UNCHANGED <<appVars, uiVars, gl, arVars, offerVars, initVars, stop, enqueued, task>>

\* Mutant of ProcessTask: the timestamp is read from the slot the image was moved out of.
ProcessTaskSlotTime(ok) ==
  /\ worker = "busy"
  /\ worker' = "enter"
  /\ preview' = IF ok THEN [of |-> task, ts |-> pending] ELSE preview
  /\ UNCHANGED <<appVars, uiVars, gl, arVars, offerVars, initVars, queueVars, task>>

(* ProcessTask: the network runs and its output becomes the preview, or    *)
(* one of its early returns leaves the preview as it was.                  *)
ProcessTask(ok) ==
  /\ worker = "busy"
  /\ worker' = "enter"
  /\ preview' = IF ok THEN [of |-> task, ts |-> task] ELSE preview
  /\ UNCHANGED <<appVars, uiVars, gl, arVars, offerVars, initVars, queueVars, task>>

-----------------------------------------------------------------------------
(* ~HelloArApplication destroys the pipeline. *)

\* Mutant of StopLocked: stop is set without the mutex, as SetShuttingDown does.
StopUnlocked == TRUE

\* ~Impl sets stop in a critical section.
StopLocked == MutexFree

DestroyStop ==
  /\ app = "alive"
  /\ gl.at = "idle"
  /\ StopLocked
  /\ stop' = TRUE
  /\ hasPending' = FALSE
  /\ app' = "stopped"
  /\ UNCHANGED <<serverUp, uiVars, gl, arVars, offerVars, initVars, pending, enqueued, workerVars>>

DestroyNotify ==
  /\ app = "stopped"
  /\ worker' = Woken
  /\ app' = "joiningInit"
  /\ UNCHANGED <<serverUp, uiVars, gl, arVars, offerVars, initVars, queueVars, task, preview>>

\* Mutant of InitJoined: the worker is joined first, and init_thread detached.
InitNotJoined == TRUE

InitJoined == init \in {"done", "failed"}

JoinInit ==
  /\ app = "joiningInit"
  /\ InitJoined
  /\ app' = "joiningWorker"
  /\ UNCHANGED <<serverUp, uiVars, gl, arVars, offerVars, initVars, queueVars, workerVars>>

(* The worker is joined if there is one; then the members are destroyed. *)
JoinWorker ==
  /\ app = "joiningWorker"
  /\ worker \in {"none", "returned"}
  /\ app' = "gone"
  /\ UNCHANGED <<serverUp, uiVars, gl, arVars, offerVars, initVars, queueVars, workerVars>>

-----------------------------------------------------------------------------

UiThread ==
  \/ \E s \in Sources : SetDepthSource(s)
  \/ SetRenderEnabled

DrawStep == EnqueueFrame \/ SkipEnqueue \/ NotifyWorker \/ EndFrame

StartDraw ==
  \E ts \in 1..MaxTs, image \in 0..MaxTs, hasBytes \in BOOLEAN :
    BeginFrame(ts, image, hasBytes)

InitThread == InitReady \/ InitFailed \/ CreateWorker

Worker ==
  WorkerReturn \/ WorkerTake \/ WorkerDecide \/ WorkerSleep
  \/ \E ok \in BOOLEAN : ProcessTask(ok)

DestroyStep == DestroyNotify \/ JoinInit \/ JoinWorker

Next ==
  \/ UiThread
  \/ StartDraw
  \/ DrawStep
  \/ InitThread
  \/ Worker
  \/ SpuriousWakeup
  \/ DestroyStop
  \/ DestroyStep

Spec == Init /\ [][Next]_vars

(* While it renders the surface draws continuously (its mode is            *)
(* RENDERMODE_CONTINUOUSLY exactly then) and a draw that has begun ends.   *)
(* Loading and the network return.  The application need not be destroyed, *)
(* but a destructor that has begun goes on.                                *)
Fairness ==
  /\ WF_vars(render /\ StartDraw)
  /\ WF_vars(DrawStep)
  /\ WF_vars(InitThread)
  /\ WF_vars(Worker)
  /\ WF_vars(DestroyStep)

FairSpec == Spec /\ Fairness

-----------------------------------------------------------------------------
(* What should hold. *)

DepthType == [of : 0..MaxTs, ts : 0..MaxTs]

TextureType == [of : 0..MaxTs, ts : 0..MaxTs, filled : BOOLEAN]

(* The state has the types of the members it stands for. *)
TypeOK ==
  /\ app \in {"alive", "stopped", "joiningInit", "joiningWorker", "gone"}
  /\ serverUp \in BOOLEAN
  /\ source \in Sources
  /\ render \in BOOLEAN
  /\ gl \in [at : {"idle", "begun", "enqueued", "drawn"}, source : Sources]
  /\ camera \in 0..MaxTs
  /\ texture \in TextureType
  /\ arPushed \in 0..MaxTs
  /\ overlay \in 0..MaxTs
  /\ da2Pushed \in 0..MaxTs
  /\ pushed \in Seq([from : {"arcore", "da2"}, of : 0..MaxTs, ts : 0..MaxTs])
  /\ init \in {"loading", "ready", "done", "failed"}
  /\ ready \in BOOLEAN
  /\ worker \in {"none", "enter", "deciding", "asleep", "busy", "returned"}
  /\ stop \in BOOLEAN
  /\ hasPending \in BOOLEAN
  /\ pending \in 0..MaxTs
  /\ enqueued \in 0..MaxTs
  /\ task \in 0..MaxTs
  /\ preview \in DepthType

(* Each result of a source is offered once, in the order of its time,       *)
(* however often the draw loop sees it, whatever the user switches between  *)
(* ("Publish depth once per updated DA2 output").                           *)
EachDepthOfferedOnce ==
  \A i, j \in DOMAIN pushed :
    i < j /\ pushed[i].from = pushed[j].from => pushed[i].ts < pushed[j].ts

(* A depth is offered under the timestamp of the image it was computed      *)
(* from, although by then the camera and the pending slot have moved on     *)
(* ("associated with its RGB timestamp").                                   *)
DepthKeepsItsTime == \A i \in DOMAIN pushed : pushed[i].of = pushed[i].ts

(* The slot holds the newest image, and the depth on show never overtakes   *)
(* the image in work or goes back behind the one shown.                     *)
NewestImageWins ==
  /\ hasPending => pending = enqueued
  /\ worker = "busy" => preview.ts <= task /\ task <= pending
  /\ overlay <= preview.ts

(* The pipeline's members are destroyed when neither of its threads runs    *)
(* and none can start any more.                                             *)
NoThreadOutlivesPipeline ==
  app = "gone" => init \in {"done", "failed"} /\ worker \in {"none", "returned"}

(* An accepted image is taken by the worker, or dropped by the destructor:  *)
(* the notification is never lost, not even before the worker exists.       *)
ImageIsTaken == hasPending ~> ~hasPending

(* The destructor returns, wherever the threads are when it sets stop.      *)
DestructorReturns == app = "stopped" ~> app = "gone"

(* While the surface renders DA2 depth, a result reaches PushDepthUpdate    *)
(* unless a later one does.                                                 *)
ResultIsOfferedWhenRendering ==
  \A t \in 1..MaxTs :
    preview.ts = t ~> da2Pushed >= t \/ source # "da2" \/ ~render \/ app # "alive"

(* A result of the selected source reaches PushDepthUpdate ("Publish depth  *)
(* once per updated DA2 output", hello_ar_application.cc).                  *)
ResultIsOffered ==
  \A t \in 1..MaxTs :
    preview.ts = t ~> da2Pushed >= t \/ source # "da2" \/ app # "alive"
=============================================================================
