---------------------------- MODULE AppLifecycle ----------------------------
(***************************************************************************)
(* HelloArActivity and the native application under it: the UI thread that *)
(* runs the lifecycle, the GL thread of the GLSurfaceView, the handlers of *)
(* control commands (ControlPath), and what they share: the native         *)
(* object, its ARCore session, its intrinsics, the anchors that touches    *)
(* make, and the flag that the viewport changed.                           *)
(*                                                                         *)
(* GLSurfaceView is external.  Its thread runs the queued events first,    *)
(* then a requested pause, which gives up the EGL surface, then makes a    *)
(* surface and reports its size, then draws; its onPause waits for the     *)
(* pause.  The window gives it a surface once an onResume has returned.    *)
(* Rendering stays enabled, so that frames are drawn continuously.         *)
(***************************************************************************)
EXTENDS ControlPath

CONSTANTS
  MaxTouches,  \* bound: touches in the queue
  MaxStreams,  \* bound: StreamFrames calls at a time
  MaxTurns,    \* bound: half turns of the display
  MaxAnchors   \* kMaxNumberOfAndroidsToRender

ASSUME LifecycleAssumption ==
  /\ MaxTouches \in Nat /\ MaxStreams \in Nat /\ MaxTurns \in Nat
  /\ MaxAnchors \in Nat \ {0}

VARIABLES
  act,        \* the activity: none, created, resumed, paused, destroyed
  ui,         \* what the UI thread is in the middle of
  app,        \* the object behind nativeApplication: none, alive, deleting
  session,    \* ar_session_: none, paused, running
  granted,    \* the camera permission
  listening,  \* the display listener is registered
  glReq, glPaused,           \* GLSurfaceView: pause requested, pause taken
  window, egl, context,      \* there is a surface, an EGL surface, a GL context
  touches,    \* events in the GL thread's queue
  gl,         \* where the GL thread is
  viewportChanged,
  turns, notice,             \* of the display; notice: a change waits for the UI thread
  seen, applied,             \* displayRotation (a local, 0 when dead), display_rotation_
  intrinsics, \* camera_intrinsics_: none, or made with no session or with the session
  anchors, held,             \* anchors_ (how many); anchors of the session not released
  server,     \* the gRPC server runs
  streams     \* StreamFrames calls whose handlers have not returned

uiVars == <<act, ui, app, session, listening>>
glVars == <<glPaused, egl, context, gl, seen, applied, intrinsics>>
displayVars == <<turns, notice>>
anchorVars == <<anchors, held>>
serverVars == <<server, streams, callback, pathVars>>
vars == <<uiVars, granted, glReq, window, touches, viewportChanged, glVars, anchorVars,
          displayVars, serverVars>>

Init ==
  /\ act = "none" /\ ui = "idle" /\ app = "none" /\ session = "none"
  /\ granted \in BOOLEAN
  /\ listening = FALSE
  /\ glReq = FALSE /\ glPaused = FALSE
  /\ window = FALSE /\ egl = FALSE /\ context = FALSE
  /\ touches = 0
  /\ gl = "idle"
  /\ viewportChanged = FALSE
  /\ turns = 0 /\ notice = FALSE
  /\ seen = 0 /\ applied = 0
  /\ intrinsics = "none"
  /\ anchors = 0 /\ held = 0
  /\ server = FALSE /\ streams = 0
  /\ PathInit

\* The GL thread is inside onDrawFrame, which is synchronized.
InFrame == gl \in {"rotate", "geometry", "clear", "draw"}

\* The UI thread is inside destroyNativeApplication, with the monitor.
Destroying == ui \in {"destroy", "stopping"}

\* Display.getRotation().
Rotation == turns % 2

-----------------------------------------------------------------------------
(* The UI thread.                                                          *)

\* onCreate and HelloArApplication's constructor, which starts the server: the
\* port may be taken.
OnCreate ==
  /\ act = "none"
  /\ act' = "created"
  /\ app' = "alive"
  /\ server' \in BOOLEAN
  /\ UNCHANGED <<ui, session, listening, granted, glReq, window, touches, viewportChanged,
                 glVars, anchorVars, displayVars, streams, callback, pathVars>>

\* Mutant of OnResume: surfaceView is resumed before the session.
OnResumeSurfaceFirst ==
  /\ act \in {"created", "paused"} /\ ui = "idle"
  /\ act' = "resumed"
  /\ ui' = IF granted THEN "resume" ELSE "idle"
  /\ glReq' = (glReq /\ ~granted)
  /\ UNCHANGED <<app, session, listening, granted, window, touches, viewportChanged,
                 glVars, anchorVars, displayVars, serverVars>>

\* Without the permission onResume asks for it and returns.
OnResume ==
  /\ act \in {"created", "paused"} /\ ui = "idle"
  /\ act' = "resumed"
  /\ ui' = IF granted THEN "resume" ELSE "idle"
  /\ UNCHANGED <<app, session, listening, granted, glReq, window, touches,
                 viewportChanged, glVars, anchorVars, displayVars, serverVars>>

\* JniInterface.onResume: the session is created unless ARCore is to be installed
\* first, and resumed; either may fail.  The callback is set in any case, but the
\* exception keeps surfaceView and the listener from being reached.
ResumeNative ==
  /\ ui = "resume"
  /\ \/ session' = "running" /\ ui' = "surface"
     \/ session = "none" /\ session' = "none" /\ ui' \in {"surface", "idle"}
     \/ session' = "paused" /\ ui' = "idle"
  /\ callback' = server
  /\ UNCHANGED <<act, app, listening, granted, glReq, window, touches, viewportChanged,
                 glVars, anchorVars, displayVars, server, streams, pathVars>>

\* surfaceView.onResume: the GL thread may draw again.
ResumeSurface ==
  /\ ui = "surface"
  /\ ui' = "listen"
  /\ glReq' = FALSE
  /\ UNCHANGED <<act, app, session, listening, granted, window, touches, viewportChanged,
                 glVars, anchorVars, displayVars, serverVars>>

RegisterDisplayListener ==
  /\ ui = "listen"
  /\ ui' = "idle"
  /\ listening' = TRUE
  /\ UNCHANGED <<act, app, session, granted, glReq, window, touches, viewportChanged,
                 glVars, anchorVars, displayVars, serverVars>>

\* onPause begins with surfaceView.onPause, which waits for the GL thread.
OnPause ==
  /\ act = "resumed" /\ ui = "idle"
  /\ act' = "paused"
  /\ ui' = "waiting"
  /\ glReq' = TRUE
  /\ UNCHANGED <<app, session, listening, granted, window, touches, viewportChanged,
                 glVars, anchorVars, displayVars, serverVars>>

\* Mutant of PauseNative: the session is paused before the surface.
PauseNativeFirst ==
  /\ ui = "waiting"
  /\ ui' = "pause"
  /\ UNCHANGED <<act, app, session, listening, granted, glReq, window, touches,
                 viewportChanged, glVars, anchorVars, displayVars, serverVars>>

PauseNative ==
  /\ ui = "waiting" /\ glPaused
  /\ ui' = "pause"
  /\ UNCHANGED <<act, app, session, listening, granted, glReq, window, touches,
                 viewportChanged, glVars, anchorVars, displayVars, serverVars>>

\* ArSession_pause and unregisterDisplayListener, which forgets what was not
\* delivered.
PauseSession ==
  /\ ui = "pause"
  /\ ui' = "idle"
  /\ session' = IF session = "running" THEN "paused" ELSE session
  /\ listening' = FALSE /\ notice' = FALSE
  /\ UNCHANGED <<act, app, granted, glReq, window, touches, viewportChanged, glVars,
                 anchorVars, turns, serverVars>>

\* onDestroy takes the monitor; destroyNativeApplication takes the callback back.
OnDestroy ==
  /\ act \in {"created", "paused"} /\ ui = "idle"
  /\ ~InFrame
  /\ ui' = "destroy"
  /\ app' = "deleting"
  /\ callback' = FALSE
  /\ UNCHANGED <<act, session, listening, granted, glReq, window, touches,
                 viewportChanged, glVars, anchorVars, displayVars, server, streams, pathVars>>

\* ~HelloArApplication destroys the session.
DestroyNative ==
  /\ ui = "destroy" /\ session # "none"
  /\ session' = "none"
  /\ held' = 0
  /\ UNCHANGED <<act, ui, app, listening, granted, glReq, window, touches,
                 viewportChanged, glVars, anchors, displayVars, serverVars>>

\* Then it stops the server: Shutdown refuses new calls.
BeginShutdown ==
  /\ ui = "destroy" /\ session = "none"
  /\ ui' = "stopping"
  /\ UNCHANGED <<act, app, session, listening, granted, glReq, window, touches,
                 viewportChanged, glVars, anchorVars, displayVars, serverVars>>

\* Shutdown and Wait return when every call has, SendControl or StreamFrames;
\* nativeApplication becomes 0.
StopServer ==
  /\ ui = "stopping"
  /\ calling = {} /\ streams = 0
  /\ ui' = "idle"
  /\ act' = "destroyed"
  /\ app' = "none"
  /\ server' = FALSE
  /\ anchors' = 0
  /\ UNCHANGED <<session, listening, granted, glReq, window, touches, viewportChanged,
                 glVars, held, displayVars, streams, callback, pathVars>>

\* The view is detached, its GL thread exits, and the user opens the app again,
\* which the UI thread hears of after what was posted before.
Detach ==
  /\ act = "destroyed" /\ gl = "idle" /\ touches = 0
  /\ NewManager
  /\ act' = "none"
  /\ glReq' = FALSE /\ glPaused' = FALSE
  /\ window' = FALSE /\ egl' = FALSE /\ context' = FALSE
  /\ viewportChanged' = FALSE
  /\ seen' = 0 /\ applied' = 0
  /\ intrinsics' = "none"
  /\ UNCHANGED <<ui, app, session, listening, granted, touches, gl, anchorVars,
                 displayVars, server, streams, callback>>

-----------------------------------------------------------------------------
(* What reaches the UI thread: the permission, the surface, touches, and a  *)
(* change of the display.                                                  *)

Grant ==
  /\ ~granted /\ act = "paused" /\ ui = "idle"
  /\ granted' = TRUE
  /\ UNCHANGED <<uiVars, glReq, window, touches, viewportChanged, glVars, anchorVars,
                 displayVars, serverVars>>

SurfaceAppears ==
  /\ act = "resumed" /\ ui = "idle" /\ ~window
  /\ window' = TRUE
  /\ UNCHANGED <<uiVars, granted, glReq, touches, viewportChanged, glVars, anchorVars,
                 displayVars, serverVars>>

SurfaceGoes ==
  /\ act = "paused" /\ ui = "idle" /\ window
  /\ window' = FALSE
  /\ UNCHANGED <<uiVars, granted, glReq, touches, viewportChanged, glVars, anchorVars,
                 displayVars, serverVars>>

\* A tap first asks the session whether it supports depth, on the UI thread and
\* whatever the GL thread is doing (showOcclusionDialogIfNeeded).
OnSingleTapUp ==
  /\ act = "resumed" /\ ui = "idle" /\ window
  /\ touches < MaxTouches
  /\ ui' = "tap"
  /\ UNCHANGED <<act, app, session, listening, granted, glReq, window, touches,
                 viewportChanged, glVars, anchorVars, displayVars, serverVars>>

\* Then it is queued for the GL thread.
QueueTouch ==
  /\ ui = "tap"
  /\ touches < MaxTouches
  /\ ui' = "idle"
  /\ touches' = touches + 1
  /\ UNCHANGED <<act, app, session, listening, granted, glReq, window, viewportChanged,
                 glVars, anchorVars, displayVars, serverVars>>

\* The display is turned by half a turn; a listener is told.
Turn ==
  /\ turns < MaxTurns
  /\ turns' = turns + 1
  /\ notice' = (notice \/ listening)
  /\ UNCHANGED <<uiVars, granted, glReq, window, touches, viewportChanged, glVars,
                 anchorVars, serverVars>>

OnDisplayChanged ==
  /\ notice /\ ui = "idle"
  /\ notice' = FALSE
  /\ viewportChanged' = TRUE
  /\ UNCHANGED <<uiVars, granted, glReq, window, touches, glVars, anchorVars, turns,
                 serverVars>>

-----------------------------------------------------------------------------
(* The GL thread.                                                          *)

\* A queued touch runs, in onTouched and without the monitor.
RunTouch ==
  /\ gl = "idle" /\ touches > 0
  /\ gl' = "touch"
  /\ touches' = touches - 1
  /\ UNCHANGED <<uiVars, granted, glReq, window, viewportChanged, glPaused, egl, context,
                 seen, applied, intrinsics, anchorVars, displayVars, serverVars>>

TakePause ==
  /\ gl = "idle" /\ touches = 0
  /\ glPaused # glReq
  /\ glPaused' = glReq
  /\ egl' = (egl /\ ~glReq)
  /\ UNCHANGED <<uiVars, granted, glReq, window, touches, viewportChanged, context, gl,
                 seen, applied, intrinsics, anchorVars, displayVars, serverVars>>

\* The context is kept over a pause, unless it is lost.
MakeSurface ==
  /\ gl = "idle" /\ touches = 0 /\ ~glReq /\ ~glPaused
  /\ window /\ ~egl
  /\ egl' = TRUE
  /\ context' = TRUE
  /\ gl' \in IF context THEN {"create", "change"} ELSE {"create"}
  /\ UNCHANGED <<uiVars, granted, glReq, window, touches, viewportChanged, glPaused, seen,
                 applied, intrinsics, anchorVars, displayVars, serverVars>>

\* onSurfaceCreated, without the monitor, and then onSurfaceChanged.
OnSurfaceCreated ==
  /\ gl = "create"
  /\ gl' = "change"
  /\ UNCHANGED <<uiVars, granted, glReq, window, touches, viewportChanged, glPaused, egl,
                 context, seen, applied, intrinsics, anchorVars, displayVars, serverVars>>

\* Mutant of OnSurfaceChanged: a size that is the same as before is no change.
OnSurfaceChangedOnce ==
  /\ gl = "change"
  /\ viewportChanged' = (viewportChanged \/ intrinsics = "none")
  /\ gl' = "frame"
  /\ UNCHANGED <<uiVars, granted, glReq, window, touches, glPaused, egl, context, seen,
                 applied, intrinsics, anchorVars, displayVars, serverVars>>

OnSurfaceChanged ==
  /\ gl = "change"
  /\ viewportChanged' = TRUE
  /\ gl' = "frame"
  /\ UNCHANGED <<uiVars, granted, glReq, window, touches, glPaused, egl, context, seen,
                 applied, intrinsics, anchorVars, displayVars, serverVars>>

\* Mutant of OnDrawFrame: onPause is synchronized as well.
OnDrawFrameLocked ==
  /\ gl = "frame" \/ (gl = "idle" /\ touches = 0 /\ ~glReq /\ egl)
  /\ ~Destroying /\ ui # "waiting"
  /\ gl' = IF app = "none" THEN "idle" ELSE IF viewportChanged THEN "rotate" ELSE "draw"
  /\ UNCHANGED <<uiVars, granted, glReq, window, touches, viewportChanged, glPaused, egl,
                 context, seen, applied, intrinsics, anchorVars, displayVars, serverVars>>

\* onDrawFrame takes the monitor and looks at nativeApplication and viewportChanged.
OnDrawFrame ==
  /\ gl = "frame" \/ (gl = "idle" /\ touches = 0 /\ ~glReq /\ egl)
  /\ ~Destroying
  /\ gl' = IF app = "none" THEN "idle" ELSE IF viewportChanged THEN "rotate" ELSE "draw"
  /\ UNCHANGED <<uiVars, granted, glReq, window, touches, viewportChanged, glPaused, egl,
                 context, seen, applied, intrinsics, anchorVars, displayVars, serverVars>>

ReadRotation ==
  /\ gl = "rotate"
  /\ seen' = Rotation
  /\ gl' = "geometry"
  /\ UNCHANGED <<uiVars, granted, glReq, window, touches, viewportChanged, glPaused, egl,
                 context, applied, intrinsics, anchorVars, displayVars, serverVars>>

\* The intrinsics are made anew, with the session there is.
OnDisplayGeometryChanged ==
  /\ gl = "geometry"
  /\ applied' = seen
  /\ seen' = 0
  /\ intrinsics' = IF session = "none" THEN "without" ELSE "with"
  /\ gl' = "clear"
  /\ UNCHANGED <<uiVars, granted, glReq, window, touches, viewportChanged, glPaused, egl,
                 context, anchorVars, displayVars, serverVars>>

ClearViewportChanged ==
  /\ gl = "clear"
  /\ viewportChanged' = FALSE
  /\ gl' = "draw"
  /\ UNCHANGED <<uiVars, granted, glReq, window, touches, glPaused, egl, context, seen,
                 applied, intrinsics, anchorVars, displayVars, serverVars>>

\* Mutant of Evicted: the oldest anchor leaves the list and is not released.
EvictedNotReleased == 0

\* anchors_ is full: the oldest anchor is released.
Evicted == IF anchors >= MaxAnchors THEN 1 ELSE 0

\* The end of onTouched.  No anchor is made without a session, without a hit that
\* is worth one, or when ARCore refuses; one that is not tracked is released.
TouchEnds ==
  /\ gl = "touch"
  /\ gl' = "idle"
  /\ \/ UNCHANGED anchorVars
     \/ /\ session # "none"
        /\ anchors' = IF anchors < MaxAnchors THEN anchors + 1 ELSE anchors
        /\ held' = held + 1 - Evicted
  /\ UNCHANGED <<uiVars, granted, glReq, window, touches, viewportChanged, glPaused, egl,
                 context, seen, applied, intrinsics, displayVars, serverVars>>

\* The end of onGlSurfaceDrawFrame and of the frame.
DrawEnds ==
  /\ gl = "draw"
  /\ gl' = "idle"
  /\ UNCHANGED <<uiVars, granted, glReq, window, touches, viewportChanged, glPaused, egl,
                 context, seen, applied, intrinsics, anchorVars, displayVars, serverVars>>

-----------------------------------------------------------------------------
(* The server's calls: control commands, which take ControlPath's way, and  *)
(* StreamFrames, of which nothing is said here but that they run: how their *)
(* handlers end is VlpStream.  The server takes no calls once it is         *)
(* stopping, and a posted command waits for the UI thread.                 *)

SendControl ==
  /\ server /\ ui # "stopping"
  /\ SendCommand
  /\ UNCHANGED <<uiVars, granted, glReq, window, touches, viewportChanged, glVars,
                 anchorVars, displayVars, server, streams, callback>>

ControlReturns ==
  /\ \E c \in calling : CopyCallback(c) \/ CallCallback(c)
  /\ UNCHANGED <<uiVars, granted, glReq, window, touches, viewportChanged, glVars,
                 anchorVars, displayVars, server, streams, callback>>

ControlTimesOut ==
  /\ CommandTimesOut
  /\ UNCHANGED <<uiVars, granted, glReq, window, touches, viewportChanged, glVars,
                 anchorVars, displayVars, server, streams, callback>>

OnNativeGrpcControlCommand ==
  /\ ui = "idle"
  /\ GiveCommand
  /\ UNCHANGED <<uiVars, granted, glReq, window, touches, viewportChanged, glVars,
                 anchorVars, displayVars, server, streams, callback>>

StreamOpens ==
  /\ server /\ ui # "stopping"
  /\ streams < MaxStreams
  /\ streams' = streams + 1
  /\ UNCHANGED <<uiVars, granted, glReq, window, touches, viewportChanged, glVars,
                 anchorVars, displayVars, server, callback, pathVars>>

StreamEnds ==
  /\ streams > 0
  /\ streams' = streams - 1
  /\ UNCHANGED <<uiVars, granted, glReq, window, touches, viewportChanged, glVars,
                 anchorVars, displayVars, server, callback, pathVars>>

-----------------------------------------------------------------------------

\* What a callback that has begun does next.
UiStep ==
  \/ ResumeNative \/ ResumeSurface \/ RegisterDisplayListener
  \/ PauseNative \/ PauseSession
  \/ DestroyNative \/ BeginShutdown \/ StopServer
  \/ QueueTouch

UserStep ==
  \/ OnCreate \/ OnResume \/ OnPause \/ OnDestroy \/ Detach
  \/ Grant \/ SurfaceAppears \/ SurfaceGoes \/ OnSingleTapUp \/ Turn

GlStep ==
  \/ RunTouch \/ TakePause \/ MakeSurface \/ OnSurfaceCreated \/ OnSurfaceChanged
  \/ OnDrawFrame \/ ReadRotation \/ OnDisplayGeometryChanged \/ ClearViewportChanged
  \/ TouchEnds \/ DrawEnds

ControlStep ==
  \/ SendControl \/ ControlReturns \/ ControlTimesOut \/ OnNativeGrpcControlCommand

StreamStep == StreamOpens \/ StreamEnds

Next ==
  \/ UiStep \/ UserStep \/ OnDisplayChanged \/ GlStep \/ ControlStep \/ StreamStep

Spec == Init /\ [][Next]_vars

\* Threads that are not blocked run: the two of the app, and SendControl's handlers.
\* Nothing is assumed of StreamFrames.
FairSpec == Spec /\ WF_vars(UiStep) /\ WF_vars(GlStep) /\ WF_vars(ControlReturns)

\* What a display reports reaches the UI thread when that is free.
DisplayFairSpec == FairSpec /\ WF_vars(OnDisplayChanged)

-----------------------------------------------------------------------------
(* Properties.                                                             *)

TypeOK ==
  /\ act \in {"none", "created", "resumed", "paused", "destroyed"}
  /\ ui \in {"idle", "resume", "surface", "listen", "waiting", "pause", "destroy", "stopping", "tap"}
  /\ app \in {"none", "alive", "deleting"}
  /\ session \in {"none", "paused", "running"}
  /\ granted \in BOOLEAN /\ listening \in BOOLEAN
  /\ glReq \in BOOLEAN /\ glPaused \in BOOLEAN
  /\ window \in BOOLEAN /\ egl \in BOOLEAN /\ context \in BOOLEAN
  /\ touches \in 0..MaxTouches
  /\ gl \in {"idle", "touch", "create", "change", "frame", "rotate", "geometry", "clear", "draw"}
  /\ viewportChanged \in BOOLEAN
  /\ turns \in 0..MaxTurns /\ notice \in BOOLEAN
  /\ seen \in 0..1 /\ applied \in 0..1
  /\ intrinsics \in {"none", "without", "with"}
  /\ anchors \in 0..MaxAnchors /\ held \in Nat
  /\ server \in BOOLEAN /\ streams \in 0..MaxStreams
  /\ PathTypeOK

\* A touch that is queued after an onResume that did not reach surfaceView.onResume
\* runs although the view is paused, and the next onPause does not wait for it.
LateTouch == gl = "touch" /\ glPaused

\* The GL thread is never in the native object when that is deleted or being
\* deleted, although a touch and onSurfaceCreated reach it without the monitor; a
\* LateTouch is the exception the code leaves.
NoUseAfterDelete ==
  gl \in {"touch", "create", "geometry", "draw"} /\ ~LateTouch => app = "alive"

\* The lifecycle does not create, resume, pause or destroy the session while the GL
\* thread uses it.  (A tap's query, and the dialogs' ConfigureSession, do meet the GL
\* thread there: the code leaves those to ARCore.)
SessionNotChangedUnderGl ==
  ui \in {"resume", "pause"} \/ Destroying =>
    gl \notin {"touch", "geometry", "draw"} \/ LateTouch

\* A frame that has a session has intrinsics that were made with it, also when the
\* first frames were drawn before the session existed.
IntrinsicsOfSession ==
  gl = "draw" /\ session # "none" => intrinsics = "with"

\* The anchors that are drawn belong to the session there is, and ARCore holds no
\* others for the app: one for each in the list, whatever touches failed and however
\* many were evicted.
AnchorsAreHeld ==
  app = "alive" => held = anchors /\ (anchors > 0 => session # "none")

\* The destructor waits for StreamFrames calls, which nothing here makes end.
HeldByStreams == ui = "stopping" /\ streams > 0

\* No callback of the UI thread waits forever, for the GL thread, for the monitor or
\* for control commands: it returns, or is held by StreamFrames calls (VlpStream's
\* StopReturns is violated), after which it returns as well.
UiThreadGoesOn == ui # "idle" ~> ui = "idle" \/ HeldByStreams

\* While the app is shown and listens to the display, its rotation is applied in the
\* end: the comment at HelloArActivity.java:377 expects the listener to detect every
\* turn.
Shown == act = "resumed" /\ ui = "idle" /\ egl /\ listening

RotationIsApplied ==
  Shown /\ applied # Rotation ~> applied = Rotation \/ ~Shown
=============================================================================
