------------------------- MODULE AppLifecycle_proofs -------------------------
(***************************************************************************)
(* Proofs about AppLifecycle for any number of queued touches, any bound on *)
(* the anchors, and any number of activities, turns, frames and commands.  *)
(***************************************************************************)
EXTENDS AppLifecycle, FiniteSetTheorems, TLAPS

-----------------------------------------------------------------------------
(* The inductive invariant.                                                *)

(* Nobody draws, and nobody will until surfaceView.onResume: the GL thread  *)
(* has taken the pause, or has never had a surface.                        *)
Quiet ==
  \/ glReq /\ glPaused
  \/ ~window /\ ~egl /\ gl = "idle" /\ touches = 0

(* What the UI thread does, in which state of the activity, and with which  *)
(* object under it.                                                        *)
LifecycleInv ==
  /\ ui \in {"resume", "surface", "listen", "tap"} => act = "resumed"
  /\ ui \in {"waiting", "pause"} => act = "paused"
  /\ Destroying => act \in {"created", "paused"}
  /\ app = "none" <=> act \in {"none", "destroyed"}
  /\ app = "deleting" <=> Destroying

(* The GL thread draws on a surface, and never while it is paused; it is    *)
(* quiet but between surfaceView.onResume and the end of its onPause.       *)
GlInv ==
  /\ glPaused => ~egl
  /\ gl \notin {"idle", "touch"} => egl
  /\ ui = "waiting" => glReq
  /\ act \in {"none", "created", "destroyed"} \/ ui \in {"resume", "surface", "pause"}
       \/ Destroying \/ (act = "paused" /\ ui = "idle") => Quiet

(* Once there is a session the intrinsics are made with it before anything  *)
(* is drawn.                                                               *)
GeometryInv ==
  session # "none" =>
    /\ egl /\ gl \notin {"create", "change"} /\ ~viewportChanged => intrinsics = "with"
    /\ gl \in {"clear", "draw"} => intrinsics = "with"

(* ARCore holds the anchors of the list; while the native object is deleted *)
(* the session goes first and leaves the list behind.                      *)
AnchorInv ==
  /\ held = IF session = "none" THEN 0 ELSE anchors
  /\ session = "none" /\ app # "deleting" => anchors = 0
  /\ ui = "stopping" => session = "none"

IInv == TypeOK /\ LifecycleInv /\ GlInv /\ GeometryInv /\ AnchorInv

-----------------------------------------------------------------------------
(* The path of the commands, by itself.                                    *)

(* A command precedes another for good unless the client gave up on the     *)
(* second one's call, so that it may arrive whenever its handler runs.      *)
Precedes(a, b) == a # b /\ (a < b \/ b \in late)

(* Only the last command sent is waited for; every handler that still runs  *)
(* is the waited one's or late, and has posted nothing.  What was given and *)
(* what is posted, one after the other, are in order.                       *)
PathInv ==
  /\ waiting # 0 => waiting = issued
  /\ calling \subseteq late \cup {waiting} /\ copied \subseteq calling
  /\ \A c \in calling :
       (\A i \in DOMAIN given : given[i] # c) /\ (\A i \in DOMAIN posted : posted[i] # c)
  /\ \A i, j \in DOMAIN given : i < j => Precedes(given[i], given[j])
  /\ \A i, j \in DOMAIN posted : i < j => Precedes(posted[i], posted[j])
  /\ \A i \in DOMAIN given, j \in DOMAIN posted : Precedes(given[i], posted[j])

LEMMA PathInit0 == PathInit => PathTypeOK /\ PathInv
<1> SUFFICES ASSUME PathInit PROVE PathTypeOK /\ PathInv
  OBVIOUS
<1>1. 0 \in 0..MaxCommands /\ 0 \in 0..0 /\ <<>> \in Seq(1..0) /\ DOMAIN <<>> = {}
  BY CommandAssumption
<1>2. PathTypeOK
  BY <1>1 DEF PathInit, PathTypeOK
<1>3. PathInv
  BY <1>1 DEF PathInit, PathInv
<1>4. QED
  BY <1>2, <1>3

(* A sequence of the first n numbers is one of the first n + 1.             *)
LEMMA SeqWiden ==
  ASSUME NEW n \in Nat, NEW s \in Seq(1..n)
  PROVE  s \in Seq(1..(n + 1))
<1>1. 1..n \subseteq 1..(n + 1)
  OBVIOUS
<1>2. QED
  BY <1>1

LEMMA PathTypes ==
  ASSUME PathTypeOK, PathStep, callback' = callback
  PROVE  PathTypeOK'
<1> USE CommandAssumption DEF PathTypeOK
<1>1. CASE SendCommand
  <2>1. issued \in Nat /\ issued' = issued + 1
    BY <1>1 DEF SendCommand
  <2>2. posted' \in Seq(1..issued') /\ given' \in Seq(1..issued')
    BY <1>1, <2>1, SeqWiden DEF SendCommand
  <2>3. calling' \subseteq 1..issued' /\ late' \subseteq 1..issued' /\ copied' \subseteq calling'
    BY <1>1 DEF SendCommand
  <2>4. issued' \in 0..MaxCommands /\ waiting' \in 0..issued'
    BY <1>1 DEF SendCommand
  <2>5. QED
    BY <2>2, <2>3, <2>4
<1>2. CASE CommandTimesOut
  BY <1>2 DEF CommandTimesOut
<1>3. CASE GiveCommand
  <2>1. Head(posted) \in 1..issued /\ Tail(posted) \in Seq(1..issued)
    BY <1>3 DEF GiveCommand
  <2>2. Append(given, Head(posted)) \in Seq(1..issued)
    BY <2>1
  <2>3. QED
    BY <1>3, <2>1, <2>2 DEF GiveCommand
<1>4. ASSUME NEW c \in calling, CopyCallback(c) PROVE PathTypeOK'
  <2>1. /\ calling' \in {calling, calling \ {c}} /\ copied' \subseteq calling'
        /\ waiting' \in {waiting, 0}
        /\ UNCHANGED <<issued, late, posted, given>>
    BY <1>4 DEF CopyCallback, Answer
  <2>2. calling' \subseteq 1..issued /\ waiting' \in 0..issued
    BY <2>1
  <2>3. QED
    BY <2>1, <2>2
<1>5. ASSUME NEW c \in calling, CallCallback(c) PROVE PathTypeOK'
  <2>1. c \in 1..issued
    BY <1>5
  <2> HIDE DEF PathTypeOK
  <2>2. posted \in Seq(1..issued)
    BY DEF PathTypeOK
  <2>3. Append(posted, c) \in Seq(1..issued)
    BY <2>1, <2>2
  <2>4. waiting' \in 0..issued /\ calling' \subseteq 1..issued /\ copied' \subseteq calling'
    BY <1>5 DEF CallCallback, Answer, PathTypeOK
  <2>5. posted' \in Seq(1..issued)
    BY <1>5, <2>2, <2>3 DEF CallCallback
  <2>6. QED
    BY <1>5, <2>4, <2>5 DEF CallCallback, PathTypeOK
<1>6. CASE NewManager
  <2>1. <<>> \in Seq(1..issued)
    OBVIOUS
  <2>2. QED
    BY <1>6, <2>1 DEF NewManager
<1>7. QED
  BY <1>1, <1>2, <1>3, <1>4, <1>5, <1>6 DEF PathStep

LEMMA PathInvStep ==
  ASSUME PathTypeOK, PathInv, PathStep
  PROVE  PathInv'
<1> USE DEF PathTypeOK, PathInv, Precedes
<1>1. CASE SendCommand
  BY <1>1 DEF SendCommand
<1>2. CASE CommandTimesOut
  BY <1>2 DEF CommandTimesOut
<1>3. CASE GiveCommand
  <2>1. /\ UNCHANGED <<issued, waiting, calling, copied, late>>
        /\ Len(posted) \in Nat \ {0}
        /\ \A j \in DOMAIN posted' : j + 1 \in DOMAIN posted /\ posted'[j] = posted[j + 1]
        /\ 1 \in DOMAIN posted
    BY <1>3 DEF GiveCommand
  <2>2. \A i, j \in DOMAIN posted' : i < j => Precedes(posted'[i], posted'[j])
    <3> TAKE i, j \in DOMAIN posted'
    <3> HAVE i < j
    <3>1. i + 1 \in DOMAIN posted /\ j + 1 \in DOMAIN posted /\ i + 1 < j + 1
      BY <2>1, <1>3 DEF GiveCommand
    <3>2. QED
      BY <2>1, <3>1
  <2>3. CASE given' = given
    BY <2>1, <2>2, <2>3
  <2>4. CASE given' = Append(given, posted[1])
    <3>1. \A i \in DOMAIN given' :
            \/ i \in DOMAIN given /\ given'[i] = given[i]
            \/ i = Len(given) + 1 /\ given'[i] = posted[1]
      BY <2>1, <2>4
    <3>2. \A j \in DOMAIN posted' : Precedes(posted[1], posted'[j])
      <4> TAKE j \in DOMAIN posted'
      <4>1. j + 1 \in DOMAIN posted /\ 1 < j + 1
        BY <2>1, <1>3 DEF GiveCommand
      <4>2. QED
        BY <2>1, <4>1
    <3>3. \A i, j \in DOMAIN given' : i < j => Precedes(given'[i], given'[j])
      BY <2>1, <3>1
    <3>4. \A i \in DOMAIN given', j \in DOMAIN posted' : Precedes(given'[i], posted'[j])
      BY <2>1, <3>1, <3>2
    <3>5. \A x \in calling' : (\A i \in DOMAIN given' : given'[i] # x)
                             /\ (\A i \in DOMAIN posted' : posted'[i] # x)
      BY <2>1, <3>1
    <3>6. QED
      BY <2>1, <2>2, <3>3, <3>4, <3>5
  <2>5. Head(posted) = posted[1]
    BY <2>1
  <2>6. given' \in {given, Append(given, posted[1])}
    BY <1>3, <2>5, Zenon DEF GiveCommand
  <2>7. QED
    BY <2>3, <2>4, <2>6
<1>4. ASSUME NEW c \in calling, CopyCallback(c) PROVE PathInv'
  BY <1>4 DEF CopyCallback, Answer
<1>5. ASSUME NEW c \in calling, CallCallback(c) PROVE PathInv'
  <2>1. /\ UNCHANGED <<issued, late, given>>
        /\ calling' = calling \ {c} /\ copied' = copied \ {c}
        /\ waiting' = IF waiting = c THEN 0 ELSE waiting
    BY <1>5 DEF CallCallback, Answer
  <2>2. CASE posted' = posted
    BY <2>1, <2>2
  <2>3. CASE posted' = Append(posted, c)
    <3>1. \A i \in DOMAIN posted' :
            \/ i \in DOMAIN posted /\ posted'[i] = posted[i]
            \/ i = Len(posted) + 1 /\ posted'[i] = c
      BY <2>3
    <3>2. c \in late \/ c = issued
      BY DEF PathInv
    <3>3. /\ \A i \in DOMAIN given : Precedes(given[i], c)
          /\ \A i \in DOMAIN posted : Precedes(posted[i], c)
      BY <3>2
    <3>4. \A i, j \in DOMAIN posted' : i < j => Precedes(posted'[i], posted'[j])
      BY <2>1, <3>1, <3>3
    <3>5. \A i \in DOMAIN given', j \in DOMAIN posted' : Precedes(given'[i], posted'[j])
      BY <2>1, <3>1, <3>3
    <3>6. \A x \in calling' : (\A i \in DOMAIN given' : given'[i] # x)
                             /\ (\A i \in DOMAIN posted' : posted'[i] # x)
      BY <2>1, <3>1
    <3>7. QED
      BY <2>1, <3>4, <3>5, <3>6
  <2>4. QED
    BY <1>5, <2>2, <2>3 DEF CallCallback, Answer
<1>6. CASE NewManager
  <2>1. DOMAIN given' = {} /\ DOMAIN posted' = {}
    BY <1>6 DEF NewManager
  <2>2. QED
    BY <1>6, <2>1 DEF NewManager
<1>7. QED
  BY <1>1, <1>2, <1>3, <1>4, <1>5, <1>6 DEF PathStep

(* The path keeps its types and its order, whatever activity is above it.   *)
THEOREM PathInvariance == PathSpec => [](PathTypeOK /\ PathInv)
<1>1. ASSUME PathTypeOK, PathInv, [PathNext]_<<callback, pathVars>>
      PROVE  (PathTypeOK /\ PathInv)'
  <2>1. CASE PathStep /\ UNCHANGED callback
    BY <1>1, <2>1, PathTypes, PathInvStep
  <2>2. CASE CallbackChanges \/ UNCHANGED <<callback, pathVars>>
    <3>1. UNCHANGED pathVars /\ callback' \in BOOLEAN
      BY <1>1, <2>2 DEF CallbackChanges, PathTypeOK
    <3>2. PathTypeOK'
      BY <1>1, <3>1 DEF pathVars, PathTypeOK
    <3>3. PathInv'
      BY <1>1, <3>1 DEF pathVars, PathInv, Precedes
    <3>4. QED
      BY <3>2, <3>3
  <2>3. QED
    BY <1>1, <2>1, <2>2 DEF PathNext
<1>2. QED
  BY <1>1, PathInit0, PTL DEF PathSpec

(* Commands keep their order on any path, those the caller gave up on       *)
(* excepted.                                                               *)
THEOREM PathKeepsOrder == PathSpec => []CommandsInOrder
<1>1. PathInv => CommandsInOrder
  BY DEF PathInv, Precedes, CommandsInOrder
<1>2. QED
  BY <1>1, PathInvariance, PTL

-----------------------------------------------------------------------------
(* The initial states.                                                     *)

LEMMA InitIInv == Init => IInv
<1> SUFFICES ASSUME Init PROVE IInv
  OBVIOUS
<1>1. /\ 0 \in 0..MaxTouches /\ 0 \in 0..MaxStreams /\ 0 \in 0..MaxTurns
      /\ 0 \in 0..1 /\ 0 \in 0..MaxAnchors /\ 0 \in Nat
  BY LifecycleAssumption
<1>2. TypeOK
  BY <1>1, PathInit0 DEF Init, TypeOK
<1>3. LifecycleInv /\ GlInv /\ GeometryInv /\ AnchorInv
  BY DEF Init, LifecycleInv, GlInv, Quiet, GeometryInv, AnchorInv, Destroying
<1>4. QED
  BY <1>2, <1>3 DEF IInv

-----------------------------------------------------------------------------
(* Types.                                                                  *)

LEMMA TypeStep == TypeOK /\ [Next]_vars => TypeOK'
<1> SUFFICES ASSUME TypeOK, [Next]_vars PROVE TypeOK'
  OBVIOUS
<1> USE DEF TypeOK, PathTypeOK, uiVars, glVars, anchorVars, displayVars, serverVars, pathVars
<1>1. CASE ResumeNative
  <2>1. callback' \in BOOLEAN /\ session' \in {"none", "paused", "running"} /\ ui' \in {"surface", "idle"}
    BY <1>1 DEF ResumeNative
  <2>2. QED
    BY <1>1, <2>1 DEF ResumeNative
<1>2. CASE ResumeSurface \/ RegisterDisplayListener \/ PauseNative
  <2>1. CASE ResumeSurface
    <3>1. glReq' \in BOOLEAN /\ ui' = "listen"
      BY <2>1 DEF ResumeSurface
    <3>2. QED
      BY <2>1, <3>1 DEF ResumeSurface
  <2>2. CASE RegisterDisplayListener
    <3>1. listening' \in BOOLEAN /\ ui' = "idle"
      BY <2>2 DEF RegisterDisplayListener
    <3>2. QED
      BY <2>2, <3>1 DEF RegisterDisplayListener
  <2>3. CASE PauseNative
    BY <2>3 DEF PauseNative
  <2>4. QED
    BY <1>2, <2>1, <2>2, <2>3
<1>3. CASE PauseSession
  <2>1. /\ session' \in {"none", "paused", "running"} /\ ui' = "idle"
        /\ listening' \in BOOLEAN /\ notice' \in BOOLEAN
    BY <1>3 DEF PauseSession
  <2>2. QED
    BY <1>3, <2>1 DEF PauseSession
<1>4. CASE DestroyNative \/ BeginShutdown
  <2>1. CASE DestroyNative
    <3>1. held' \in Nat
      BY <2>1 DEF DestroyNative
    <3>2. QED
      BY <2>1, <3>1 DEF DestroyNative
  <2>2. CASE BeginShutdown
    BY <2>2 DEF BeginShutdown
  <2>3. QED
    BY <1>4, <2>1, <2>2
<1>5. CASE StopServer
  <2>1. anchors' \in 0..MaxAnchors
    BY <1>5, LifecycleAssumption DEF StopServer
  <2>2. server' \in BOOLEAN /\ app' = "none" /\ act' = "destroyed" /\ ui' = "idle"
    BY <1>5 DEF StopServer
  <2>3. QED
    BY <1>5, <2>1, <2>2 DEF StopServer
<1>6. CASE OnCreate \/ OnResume \/ OnPause \/ OnDestroy
  <2>1. CASE OnCreate
    BY <2>1 DEF OnCreate
  <2>2. CASE OnResume
    BY <2>2 DEF OnResume
  <2>3. CASE OnPause
    BY <2>3 DEF OnPause
  <2>4. CASE OnDestroy
    <3>1. callback' \in BOOLEAN /\ app' = "deleting" /\ ui' = "destroy"
      BY <2>4 DEF OnDestroy
    <3>2. QED
      BY <2>4, <3>1 DEF OnDestroy
  <2>5. QED
    BY <1>6, <2>1, <2>2, <2>3, <2>4
<1>7. CASE Detach
  <2>1. seen' \in 0..1 /\ applied' \in 0..1 /\ intrinsics' = "none" /\ act' = "none"
    BY <1>7 DEF Detach
  <2>2. /\ glReq' \in BOOLEAN /\ glPaused' \in BOOLEAN
        /\ window' \in BOOLEAN /\ egl' \in BOOLEAN /\ context' \in BOOLEAN
        /\ viewportChanged' \in BOOLEAN
    BY <1>7 DEF Detach
  <2>3. UNCHANGED <<ui, app, session, listening, granted, touches, gl, anchorVars, displayVars,
                    server, streams>>
    BY <1>7 DEF Detach
  <2>4. PathTypeOK'
    BY <1>7, PathTypes DEF Detach, PathStep
  <2> HIDE DEF PathTypeOK, pathVars
  <2>5. QED
    BY <2>1, <2>2, <2>3, <2>4
<1>8. CASE Grant
  BY <1>8 DEF Grant
<1>9. CASE SurfaceAppears
  BY <1>9 DEF SurfaceAppears
<1>10. CASE SurfaceGoes
  <2>1. window' \in BOOLEAN
    BY <1>10 DEF SurfaceGoes
  <2>2. QED
    BY <1>10, <2>1 DEF SurfaceGoes
<1>11. CASE OnSingleTapUp \/ QueueTouch
  <2>1. CASE OnSingleTapUp
    BY <2>1 DEF OnSingleTapUp
  <2>2. CASE QueueTouch
    <3>1. touches' \in 0..MaxTouches /\ ui' = "idle"
      BY <2>2, LifecycleAssumption DEF QueueTouch
    <3>2. QED
      BY <2>2, <3>1 DEF QueueTouch
  <2>3. QED
    BY <1>11, <2>1, <2>2
<1>12. CASE Turn
  <2>1. turns' \in 0..MaxTurns /\ notice' \in BOOLEAN
    BY <1>12, LifecycleAssumption DEF Turn
  <2>2. QED
    BY <1>12, <2>1 DEF Turn
<1>13. CASE OnDisplayChanged
  <2>1. viewportChanged' \in BOOLEAN /\ notice' \in BOOLEAN
    BY <1>13 DEF OnDisplayChanged
  <2>2. QED
    BY <1>13, <2>1 DEF OnDisplayChanged
<1>14. CASE RunTouch
  <2>1. touches' \in 0..MaxTouches
    BY <1>14, LifecycleAssumption DEF RunTouch
  <2>2. QED
    BY <1>14, <2>1 DEF RunTouch
<1>15. CASE TakePause
  <2>1. egl' \in BOOLEAN /\ glPaused' \in BOOLEAN
    BY <1>15 DEF TakePause
  <2>2. QED
    BY <1>15, <2>1 DEF TakePause
<1>16. CASE MakeSurface
  <2>1. gl' \in {"create", "change"}
    BY <1>16 DEF MakeSurface
  <2>2. QED
    BY <1>16, <2>1 DEF MakeSurface
<1>17. CASE OnSurfaceCreated \/ OnSurfaceChanged
  <2>1. CASE OnSurfaceCreated
    BY <2>1 DEF OnSurfaceCreated
  <2>2. CASE OnSurfaceChanged
    <3>1. viewportChanged' \in BOOLEAN /\ gl' = "frame"
      BY <2>2 DEF OnSurfaceChanged
    <3>2. QED
      BY <2>2, <3>1 DEF OnSurfaceChanged
  <2>3. QED
    BY <1>17, <2>1, <2>2
<1>18. CASE OnDrawFrame
  <2>1. gl' \in {"idle", "rotate", "draw"}
    BY <1>18 DEF OnDrawFrame
  <2>2. QED
    BY <1>18, <2>1 DEF OnDrawFrame
<1>19. CASE ReadRotation
  <2>1. seen' \in 0..1
    BY <1>19, LifecycleAssumption DEF ReadRotation, Rotation
  <2>2. QED
    BY <1>19, <2>1 DEF ReadRotation
<1>20. CASE OnDisplayGeometryChanged
  <2>1. intrinsics' \in {"without", "with"} /\ seen' \in 0..1
    BY <1>20 DEF OnDisplayGeometryChanged
  <2>2. QED
    BY <1>20, <2>1 DEF OnDisplayGeometryChanged
<1>21. CASE ClearViewportChanged
  <2>1. viewportChanged' \in BOOLEAN /\ gl' = "draw"
    BY <1>21 DEF ClearViewportChanged
  <2>2. QED
    BY <1>21, <2>1 DEF ClearViewportChanged
<1>22. CASE TouchEnds
  <2>1. anchors' \in 0..MaxAnchors
    BY <1>22, LifecycleAssumption DEF TouchEnds
  <2>2. held' \in Nat
    BY <1>22 DEF TouchEnds, Evicted
  <2>3. gl' = "idle"
    BY <1>22 DEF TouchEnds
  <2>4. QED
    BY <1>22, <2>1, <2>2, <2>3 DEF TouchEnds
<1>23. CASE ControlStep
  <2>1. PathTypeOK'
    BY <1>23, PathTypes DEF ControlStep, SendControl, ControlReturns, ControlTimesOut,
       OnNativeGrpcControlCommand, PathStep
  <2> HIDE DEF PathTypeOK, pathVars
  <2>2. QED
    BY <1>23, <2>1 DEF ControlStep, SendControl, ControlReturns, ControlTimesOut,
       OnNativeGrpcControlCommand
<1>24. CASE UNCHANGED vars
  BY <1>24 DEF vars
<1>25. CASE DrawEnds
  BY <1>25 DEF DrawEnds
<1>26. CASE StreamStep
  <2>1. streams' \in 0..MaxStreams
    BY <1>26, LifecycleAssumption DEF StreamStep, StreamOpens, StreamEnds
  <2>2. /\ UNCHANGED <<uiVars, granted, glReq, window, touches, viewportChanged, glVars>>
        /\ UNCHANGED <<anchorVars, displayVars, server, callback, pathVars>>
    BY <1>26 DEF StreamStep, StreamOpens, StreamEnds
  <2>3. QED
    BY <2>1, <2>2
<1>27. QED
  BY <1>1, <1>2, <1>3, <1>4, <1>5, <1>6, <1>7, <1>8, <1>9, <1>10, <1>11, <1>12, <1>13,
     <1>14, <1>15, <1>16, <1>17, <1>18, <1>19, <1>20, <1>21, <1>22, <1>23, <1>24, <1>25, <1>26
     DEF Next, UiStep, UserStep, GlStep

-----------------------------------------------------------------------------
(* The other parts, action by action.                                       *)

LEMMA LifecycleStep ==
  ASSUME LifecycleInv, [Next]_vars
  PROVE  LifecycleInv'
<1> USE DEF Destroying, LifecycleInv, uiVars, glVars, anchorVars, displayVars, serverVars
<1>1. CASE ResumeNative
  BY <1>1 DEF ResumeNative
<1>2. CASE ResumeSurface \/ RegisterDisplayListener \/ PauseNative \/ PauseSession
  BY <1>2 DEF ResumeSurface, RegisterDisplayListener, PauseNative, PauseSession
<1>3. CASE DestroyNative \/ BeginShutdown \/ StopServer
  BY <1>3 DEF DestroyNative, BeginShutdown, StopServer
<1>4. CASE OnCreate \/ OnResume \/ OnPause
  BY <1>4 DEF OnCreate, OnResume, OnPause
<1>5. CASE OnDestroy \/ Detach
  BY <1>5 DEF OnDestroy, Detach
<1>6. CASE Grant \/ SurfaceAppears \/ SurfaceGoes \/ OnSingleTapUp \/ QueueTouch \/ Turn \/ OnDisplayChanged
  BY <1>6 DEF Grant, SurfaceAppears, SurfaceGoes, OnSingleTapUp, QueueTouch, Turn, OnDisplayChanged
<1>7. CASE GlStep
  BY <1>7 DEF GlStep, RunTouch, TakePause, MakeSurface, OnSurfaceCreated, OnSurfaceChanged,
     OnDrawFrame, ReadRotation, OnDisplayGeometryChanged, ClearViewportChanged, TouchEnds, DrawEnds
<1>8. CASE ControlStep \/ StreamStep \/ UNCHANGED vars
  BY <1>8 DEF ControlStep, SendControl, ControlReturns, ControlTimesOut,
     OnNativeGrpcControlCommand, StreamStep, StreamOpens, StreamEnds, vars
<1>9. QED
  BY <1>1, <1>2, <1>3, <1>4, <1>5, <1>6, <1>7, <1>8 DEF Next, UiStep, UserStep

LEMMA GlInvStep ==
  ASSUME TypeOK, LifecycleInv, GlInv, [Next]_vars
  PROVE  GlInv'
<1> USE DEF Destroying, LifecycleInv, GlInv, Quiet, uiVars, glVars, anchorVars, displayVars, serverVars
<1>1. CASE ResumeNative \/ ResumeSurface \/ RegisterDisplayListener
  BY <1>1 DEF ResumeNative, ResumeSurface, RegisterDisplayListener
<1>2. CASE PauseNative \/ PauseSession
  BY <1>2 DEF PauseNative, PauseSession
<1>3. CASE DestroyNative \/ BeginShutdown \/ StopServer
  BY <1>3 DEF DestroyNative, BeginShutdown, StopServer
<1>4. CASE OnCreate \/ OnResume
  BY <1>4 DEF OnCreate, OnResume, TypeOK
<1>5. CASE OnPause \/ OnDestroy
  BY <1>5 DEF OnPause, OnDestroy
<1>6. CASE Detach
  BY <1>6 DEF Detach
<1>7. CASE Grant \/ SurfaceAppears \/ SurfaceGoes
  BY <1>7 DEF Grant, SurfaceAppears, SurfaceGoes
<1>8. CASE OnSingleTapUp \/ QueueTouch \/ Turn \/ OnDisplayChanged
  BY <1>8 DEF OnSingleTapUp, QueueTouch, Turn, OnDisplayChanged
<1>9. CASE RunTouch
  <2>1. ~(touches = 0)
    BY <1>9 DEF RunTouch, TypeOK
  <2>2. QED
    BY <1>9, <2>1 DEF RunTouch
<1>10. CASE TakePause \/ MakeSurface
  BY <1>10 DEF TakePause, MakeSurface, TypeOK
<1>11. CASE OnSurfaceCreated \/ OnSurfaceChanged \/ OnDrawFrame
  BY <1>11 DEF OnSurfaceCreated, OnSurfaceChanged, OnDrawFrame
<1>12. CASE ReadRotation \/ OnDisplayGeometryChanged \/ ClearViewportChanged \/ TouchEnds \/ DrawEnds
  BY <1>12 DEF ReadRotation, OnDisplayGeometryChanged, ClearViewportChanged, TouchEnds, DrawEnds
<1>13. CASE ControlStep \/ StreamStep \/ UNCHANGED vars
  BY <1>13 DEF ControlStep, SendControl, ControlReturns, ControlTimesOut,
     OnNativeGrpcControlCommand, StreamStep, StreamOpens, StreamEnds, vars
<1>14. QED
  BY <1>1, <1>2, <1>3, <1>4, <1>5, <1>6, <1>7, <1>8, <1>9, <1>10, <1>11, <1>12, <1>13
     DEF Next, UiStep, UserStep, GlStep

LEMMA GeometryStep ==
  ASSUME TypeOK, LifecycleInv, GlInv, GeometryInv, [Next]_vars
  PROVE  GeometryInv'
<1> USE DEF Destroying, GeometryInv, uiVars, glVars, anchorVars, displayVars, serverVars
<1>1. CASE ResumeNative
  <2>1. ~egl /\ gl \in {"idle", "touch"}
    BY <1>1 DEF ResumeNative, GlInv, Quiet, TypeOK
  <2>2. QED
    BY <1>1, <2>1 DEF ResumeNative
<1>2. CASE ResumeSurface \/ RegisterDisplayListener \/ PauseNative \/ PauseSession
  BY <1>2 DEF ResumeSurface, RegisterDisplayListener, PauseNative, PauseSession
<1>3. CASE DestroyNative \/ BeginShutdown \/ StopServer
  BY <1>3 DEF DestroyNative, BeginShutdown, StopServer
<1>4. CASE OnCreate \/ OnResume \/ OnPause \/ OnDestroy
  BY <1>4 DEF OnCreate, OnResume, OnPause, OnDestroy
<1>5. CASE Detach
  BY <1>5 DEF Detach
<1>6. CASE Grant \/ SurfaceAppears \/ SurfaceGoes \/ OnSingleTapUp \/ QueueTouch \/ Turn
  BY <1>6 DEF Grant, SurfaceAppears, SurfaceGoes, OnSingleTapUp, QueueTouch, Turn
<1>7. CASE OnDisplayChanged
  BY <1>7 DEF OnDisplayChanged, TypeOK
<1>8. CASE RunTouch \/ TakePause
  BY <1>8 DEF RunTouch, TakePause, TypeOK
<1>9. CASE MakeSurface \/ OnSurfaceCreated \/ OnSurfaceChanged
  BY <1>9 DEF MakeSurface, OnSurfaceCreated, OnSurfaceChanged
<1>10. CASE OnDrawFrame
  <2>1. egl
    BY <1>10 DEF OnDrawFrame, GlInv
  <2>2. QED
    BY <1>10, <2>1 DEF OnDrawFrame
<1>11. CASE ReadRotation \/ OnDisplayGeometryChanged
  BY <1>11 DEF ReadRotation, OnDisplayGeometryChanged
<1>12. CASE ClearViewportChanged \/ TouchEnds \/ DrawEnds
  BY <1>12 DEF ClearViewportChanged, TouchEnds, DrawEnds
<1>13. CASE ControlStep \/ StreamStep \/ UNCHANGED vars
  BY <1>13 DEF ControlStep, SendControl, ControlReturns, ControlTimesOut,
     OnNativeGrpcControlCommand, StreamStep, StreamOpens, StreamEnds, vars
<1>14. QED
  BY <1>1, <1>2, <1>3, <1>4, <1>5, <1>6, <1>7, <1>8, <1>9, <1>10, <1>11, <1>12, <1>13
     DEF Next, UiStep, UserStep, GlStep

LEMMA AnchorStep ==
  ASSUME TypeOK, LifecycleInv, AnchorInv, [Next]_vars
  PROVE  AnchorInv'
<1> USE DEF Destroying, AnchorInv, LifecycleInv, uiVars, glVars, anchorVars, displayVars, serverVars
<1>1. CASE ResumeNative
  BY <1>1 DEF ResumeNative
<1>2. CASE ResumeSurface \/ RegisterDisplayListener \/ PauseNative \/ PauseSession
  BY <1>2 DEF ResumeSurface, RegisterDisplayListener, PauseNative, PauseSession
<1>3. CASE DestroyNative \/ BeginShutdown \/ StopServer
  BY <1>3 DEF DestroyNative, BeginShutdown, StopServer
<1>4. CASE OnCreate \/ OnResume \/ OnPause \/ OnDestroy
  BY <1>4 DEF OnCreate, OnResume, OnPause, OnDestroy
<1>5. CASE Detach \/ Grant \/ SurfaceAppears \/ SurfaceGoes
  BY <1>5 DEF Detach, Grant, SurfaceAppears, SurfaceGoes
<1>6. CASE OnSingleTapUp \/ QueueTouch \/ Turn \/ OnDisplayChanged
  BY <1>6 DEF OnSingleTapUp, QueueTouch, Turn, OnDisplayChanged
<1>7. CASE RunTouch \/ TakePause \/ MakeSurface \/ OnSurfaceCreated \/ OnSurfaceChanged
  BY <1>7 DEF RunTouch, TakePause, MakeSurface, OnSurfaceCreated, OnSurfaceChanged
<1>8. CASE OnDrawFrame \/ ReadRotation \/ OnDisplayGeometryChanged \/ ClearViewportChanged \/ DrawEnds
  BY <1>8 DEF OnDrawFrame, ReadRotation, OnDisplayGeometryChanged, ClearViewportChanged, DrawEnds
<1>9. CASE TouchEnds
  <2>1. UNCHANGED <<ui, app, session>>
    BY <1>9 DEF TouchEnds
  <2>2. CASE UNCHANGED anchorVars
    BY <2>1, <2>2
  <2>3. CASE /\ session # "none"
             /\ anchors' = IF anchors < MaxAnchors THEN anchors + 1 ELSE anchors
             /\ held' = held + 1 - Evicted
    <3>1. held = anchors
      BY <2>3
    <3>2. held' = anchors'
      BY <2>3, <3>1, LifecycleAssumption DEF Evicted, TypeOK
    <3>3. QED
      BY <2>1, <2>3, <3>2
  <2>4. QED
    BY <1>9, <2>2, <2>3 DEF TouchEnds
<1>10. CASE ControlStep \/ StreamStep \/ UNCHANGED vars
  BY <1>10 DEF ControlStep, SendControl, ControlReturns, ControlTimesOut,
     OnNativeGrpcControlCommand, StreamStep, StreamOpens, StreamEnds, vars
<1>11. QED
  BY <1>1, <1>2, <1>3, <1>4, <1>5, <1>6, <1>7, <1>8, <1>9, <1>10 DEF Next, UiStep, UserStep, GlStep

-----------------------------------------------------------------------------

(* The inductive invariant of the two threads of the app.                  *)
THEOREM Invariance == Spec => []IInv
<1>1. IInv /\ [Next]_vars => IInv'
  BY TypeStep, LifecycleStep, GlInvStep, GeometryStep, AnchorStep DEF IInv
<1>2. QED
  BY <1>1, InitIInv, PTL DEF Spec

(* The types of the activity's, the view's and the native object's state.   *)
THEOREM TypeCorrect == Spec => []TypeOK
<1>1. IInv => TypeOK
  BY DEF IInv
<1>2. QED
  BY <1>1, Invariance, PTL

(* The GL thread is in the native object only while that is alive, also     *)
(* where it takes no monitor; a late touch is the exception.               *)
THEOREM DeletedWhenUnused == Spec => []NoUseAfterDelete
<1>1. IInv => NoUseAfterDelete
  <2> SUFFICES ASSUME IInv, gl \in {"touch", "create", "geometry", "draw"}, ~LateTouch
               PROVE  app = "alive"
    BY DEF NoUseAfterDelete
  <2>1. ~Quiet
    BY DEF IInv, GlInv, Quiet, LateTouch
  <2>2. act \notin {"none", "destroyed"} /\ ~Destroying
    BY <2>1 DEF IInv, GlInv
  <2>3. QED
    BY <2>2 DEF IInv, LifecycleInv, TypeOK
<1>2. QED
  BY <1>1, Invariance, PTL

(* ARCore's session is not created, resumed, paused or destroyed while the  *)
(* GL thread uses it: onPause waits for the view before it pauses the        *)
(* session, and onResume resumes the session before the view.  What taps and *)
(* dialogs ask of the session is not excluded.                              *)
THEOREM SessionChangesAlone == Spec => []SessionNotChangedUnderGl
<1>1. IInv => SessionNotChangedUnderGl
  <2> SUFFICES ASSUME IInv, ui \in {"resume", "pause"} \/ Destroying, ~LateTouch
               PROVE  gl \notin {"touch", "geometry", "draw"}
    BY DEF SessionNotChangedUnderGl
  <2>1. Quiet
    BY DEF IInv, GlInv
  <2>2. QED
    BY <2>1 DEF IInv, GlInv, Quiet, LateTouch
<1>2. QED
  BY <1>1, Invariance, PTL

(* Frames of a session are drawn with intrinsics made for it, although      *)
(* frames may have been drawn before there was one.                        *)
THEOREM IntrinsicsAreRemade == Spec => []IntrinsicsOfSession
<1>1. IInv => IntrinsicsOfSession
  BY DEF IInv, GeometryInv, IntrinsicsOfSession
<1>2. QED
  BY <1>1, Invariance, PTL

(* Touches, evictions and failures leave ARCore holding the anchors of the  *)
(* list and no others, all of them of the session there is.                *)
THEOREM AnchorsOfSession == Spec => []AnchorsAreHeld
<1>1. IInv => AnchorsAreHeld
  BY DEF IInv, AnchorInv, TypeOK, AnchorsAreHeld
<1>2. QED
  BY <1>1, Invariance, PTL

-----------------------------------------------------------------------------
(* The path under the activity.                                            *)

(* Whatever the app does is a step of the path or leaves it alone: it sets   *)
(* the callback, and only Detach, the activity's end, makes a new manager.  *)
THEOREM PathRefinement == Spec => PathSpec
<1>1. Init => PathInit
  BY DEF Init
<1>2. ASSUME TypeOK', [Next]_vars
      PROVE  [PathNext]_<<callback, pathVars>>
  <2> USE DEF serverVars, vars
  <2>1. CASE ControlStep \/ Detach
    BY <2>1 DEF ControlStep, SendControl, ControlReturns, ControlTimesOut,
       OnNativeGrpcControlCommand, Detach, PathNext, PathStep
  <2>2. CASE ~ControlStep /\ ~Detach
    <3>1. UNCHANGED pathVars
      <4>1. CASE UiStep
        BY <4>1 DEF UiStep, ResumeNative, ResumeSurface, RegisterDisplayListener,
           PauseNative, PauseSession, DestroyNative, BeginShutdown, StopServer, QueueTouch
      <4>2. CASE UserStep
        BY <2>2, <4>2 DEF UserStep, OnCreate, OnResume, OnPause, OnDestroy, Grant,
           SurfaceAppears, SurfaceGoes, OnSingleTapUp, Turn
      <4>3. CASE GlStep
        BY <4>3 DEF GlStep, RunTouch, TakePause, MakeSurface, OnSurfaceCreated,
           OnSurfaceChanged, OnDrawFrame, ReadRotation, OnDisplayGeometryChanged,
           ClearViewportChanged, TouchEnds, DrawEnds
      <4>4. CASE OnDisplayChanged \/ StreamStep \/ UNCHANGED vars
        BY <4>4 DEF OnDisplayChanged, StreamStep, StreamOpens, StreamEnds
      <4>5. QED
        BY <1>2, <2>2, <4>1, <4>2, <4>3, <4>4 DEF Next
    <3>2. QED
      BY <1>2, <3>1 DEF PathNext, CallbackChanges, TypeOK, PathTypeOK
  <2>3. QED
    BY <2>1, <2>2
<1>3. QED
  BY <1>1, <1>2, TypeCorrect, PTL DEF Spec, PathSpec

(* However late the handlers run, commands reach the robot's client in the  *)
(* order in which they were sent, those the caller gave up on excepted.     *)
THEOREM CommandsArriveInOrder == Spec => []CommandsInOrder
BY PathRefinement, PathKeepsOrder, PTL

-----------------------------------------------------------------------------
(* What UiThreadGoesOn rests on.  The UI thread waits in two places: in      *)
(* surfaceView.onPause for the GL thread, and in the native destructor for   *)
(* the server's calls.  What it waits for has a bounded way to go, which no  *)
(* step makes longer, and whoever has to go it can.                         *)

(* What the GL thread has still to do in its present callback.              *)
CallbackLeft ==
  CASE gl = "create" -> 7 [] gl = "change" -> 6 [] gl = "frame" -> 5
    [] gl = "rotate" -> 4 [] gl = "geometry" -> 3 [] gl = "clear" -> 2
    [] gl \in {"draw", "touch"} -> 1 [] OTHER -> 0

(* What it does at the most before it has taken the pause: a queued touch    *)
(* is two steps.                                                           *)
PauseLeft == CallbackLeft + (2 * touches + IF glPaused THEN 0 ELSE 1)

(* The guard of a step of the GL thread holds: it is in a callback and, if   *)
(* that is about to take the monitor, the UI thread has not got it; or it    *)
(* has a touch to run or the pause to take.                                 *)
GlRuns ==
  \/ gl # "idle" /\ (gl = "frame" => ~Destroying)
  \/ gl = "idle" /\ touches > 0
  \/ gl = "idle" /\ touches = 0 /\ glPaused # glReq

LEMMA PauseLeftNat == TypeOK => PauseLeft \in Nat
BY LifecycleAssumption DEF TypeOK, PauseLeft, CallbackLeft

LEMMA GlStepCounts ==
  ASSUME TypeOK, LifecycleInv, GlInv, ui = "waiting", GlStep
  PROVE  PauseLeft' < PauseLeft
<1>1. glReq /\ glPaused \in BOOLEAN /\ touches \in Nat
  BY LifecycleAssumption DEF TypeOK, GlInv
<1>2. CASE RunTouch
  <2>1. gl = "idle" /\ gl' = "touch" /\ touches' = touches - 1 /\ glPaused' = glPaused
    BY <1>2 DEF RunTouch
  <2>2. QED
    BY <1>1, <2>1 DEF PauseLeft, CallbackLeft
<1>3. CASE TakePause
  <2>1. ~glPaused /\ glPaused'
    BY <1>1, <1>3, Zenon DEF TakePause
  <2>2. UNCHANGED <<gl, touches>> /\ gl = "idle"
    BY <1>3 DEF TakePause
  <2>3. QED
    BY <1>1, <2>1, <2>2 DEF PauseLeft, CallbackLeft
<1>4. ~MakeSurface
  BY <1>1 DEF MakeSurface
<1>5. CASE ~RunTouch /\ ~TakePause
  <2>1. UNCHANGED <<touches, glPaused>>
    BY <1>4, <1>5 DEF GlStep, OnSurfaceCreated, OnSurfaceChanged, OnDrawFrame, ReadRotation,
       OnDisplayGeometryChanged, ClearViewportChanged, TouchEnds, DrawEnds
  <2>2. \/ gl = "create" /\ gl' = "change"
        \/ gl = "change" /\ gl' = "frame"
        \/ gl = "frame" /\ gl' \in {"idle", "rotate", "draw"}
        \/ gl = "rotate" /\ gl' = "geometry"
        \/ gl = "geometry" /\ gl' = "clear"
        \/ gl = "clear" /\ gl' = "draw"
        \/ gl \in {"draw", "touch"} /\ gl' = "idle"
    BY <1>1, <1>4, <1>5 DEF GlStep, OnSurfaceCreated, OnSurfaceChanged, OnDrawFrame,
       ReadRotation, OnDisplayGeometryChanged, ClearViewportChanged, TouchEnds, DrawEnds
  <2>3. CallbackLeft' < CallbackLeft /\ CallbackLeft \in Nat /\ CallbackLeft' \in Nat
    BY <2>2 DEF CallbackLeft
  <2> DEFINE more == 2 * touches + IF glPaused THEN 0 ELSE 1
  <2>4. more \in Nat /\ PauseLeft = CallbackLeft + more /\ PauseLeft' = CallbackLeft' + more
    BY <1>1, <2>1, <2>3 DEF PauseLeft
  <2>5. QED
    BY <2>3, <2>4
<1>6. QED
  BY <1>2, <1>3, <1>5

LEMMA OthersDoNotCount ==
  ASSUME LifecycleInv, ui = "waiting", [Next]_vars, ~GlStep
  PROVE  PauseLeft' = PauseLeft
<1> SUFFICES UNCHANGED <<gl, touches, glPaused>>
  BY DEF PauseLeft, CallbackLeft
<1> USE DEF LifecycleInv, vars, glVars
<1>1. CASE UiStep
  BY <1>1 DEF UiStep, ResumeNative, ResumeSurface, RegisterDisplayListener,
     PauseNative, PauseSession, DestroyNative, BeginShutdown, StopServer, QueueTouch
<1>2. CASE UserStep
  BY <1>2 DEF UserStep, OnCreate, OnResume, OnPause, OnDestroy, Detach, Grant,
     SurfaceAppears, SurfaceGoes, OnSingleTapUp, Turn
<1>3. CASE ControlStep
  BY <1>3 DEF ControlStep, SendControl, ControlReturns, ControlTimesOut,
     OnNativeGrpcControlCommand
<1>4. CASE OnDisplayChanged \/ StreamStep \/ UNCHANGED vars
  BY <1>4 DEF OnDisplayChanged, StreamStep, StreamOpens, StreamEnds
<1>5. QED
  BY <1>1, <1>2, <1>3, <1>4 DEF Next

(* While onPause waits, every step of the GL thread brings the pause nearer, *)
(* and nobody's step puts it off: no new touch is queued, no surface made.  *)
THEOREM PauseAdvances ==
  Spec => [][ui = "waiting" => /\ PauseLeft' <= PauseLeft
                               /\ GlStep => PauseLeft' < PauseLeft]_vars
<1>1. ASSUME IInv, IInv', [Next]_vars
      PROVE  ui = "waiting" => /\ PauseLeft' <= PauseLeft
                               /\ GlStep => PauseLeft' < PauseLeft
  <2>1. PauseLeft \in Nat
    BY <1>1, PauseLeftNat DEF IInv
  <2>2. ui = "waiting" /\ GlStep => PauseLeft' < PauseLeft
    BY <1>1, GlStepCounts DEF IInv
  <2>3. ui = "waiting" /\ ~GlStep => PauseLeft' = PauseLeft
    BY <1>1, OthersDoNotCount DEF IInv
  <2>4. ui = "waiting" /\ GlStep => PauseLeft' \in Nat
    BY <1>1, LifecycleAssumption DEF IInv, TypeOK, PauseLeft, CallbackLeft
  <2>5. QED
    BY <2>1, <2>2, <2>3, <2>4
<1>2. QED
  BY <1>1, Invariance, PTL DEF Spec

(* While onPause waits, the pause is taken or the GL thread can go on: it    *)
(* waits neither for the monitor nor for a request.                         *)
THEOREM PauseIsNotStuck == Spec => [](ui = "waiting" => glPaused \/ GlRuns)
<1>1. IInv => (ui = "waiting" => glPaused \/ GlRuns)
  <2> SUFFICES ASSUME IInv, ui = "waiting", ~glPaused
               PROVE  GlRuns
    OBVIOUS
  <2>1. glReq /\ touches \in Nat
    BY LifecycleAssumption DEF IInv, TypeOK, GlInv
  <2>2. glPaused # glReq
    BY <2>1, Zenon
  <2>3. touches > 0 \/ touches = 0
    BY <2>1
  <2>4. ~Destroying
    BY DEF Destroying
  <2>5. QED
    BY <2>2, <2>3, <2>4, Zenon DEF GlRuns
<1>2. QED
  BY <1>1, Invariance, PTL

(* Two steps for each handler of SendControl, one when it has its callback.  *)
CallsLeft == Cardinality(calling) + Cardinality(calling \ copied)

(* While the destructor waits for the server's calls none is added, and each *)
(* step of a SendControl handler, which needs nothing of the UI thread,      *)
(* brings its return nearer.  Of StreamFrames calls it is shown only that    *)
(* there are no more of them than before; what can hold them, and with them  *)
(* the destructor, is VlpStream_proofs' WhatHoldsTheStop.                    *)
THEOREM DestroyAdvances ==
  Spec => [][ui = "stopping" => /\ CallsLeft \in Nat /\ CallsLeft' <= CallsLeft
                                /\ ControlReturns => CallsLeft' < CallsLeft
                                /\ streams' <= streams]_vars
<1>1. ASSUME IInv, [Next]_vars, ui = "stopping"
      PROVE  /\ CallsLeft \in Nat /\ CallsLeft' <= CallsLeft
             /\ ControlReturns => CallsLeft' < CallsLeft
             /\ streams' <= streams
  <2> USE DEF vars, serverVars, pathVars
  <2>1. IsFiniteSet(calling) /\ IsFiniteSet(calling \ copied)
    <3>1. issued \in Nat /\ calling \subseteq 1..issued
      BY <1>1, CommandAssumption DEF IInv, TypeOK, PathTypeOK
    <3>2. IsFiniteSet(1..issued)
      BY <3>1, FS_Interval
    <3>3. QED
      BY <3>1, <3>2, FS_Subset
  <2>2. Cardinality(calling) \in Nat /\ Cardinality(calling \ copied) \in Nat
    BY <2>1, FS_CardinalityType
  <2>3. CallsLeft \in Nat
    BY <2>2 DEF CallsLeft
  <2>4. ASSUME ControlReturns
        PROVE  CallsLeft' <= CallsLeft /\ CallsLeft' < CallsLeft /\ streams' = streams
    <3>0. streams' = streams
      BY <2>4 DEF ControlReturns
    <3>1. PICK c \in calling : CopyCallback(c) \/ CallCallback(c)
      BY <2>4 DEF ControlReturns
    <3>2. CASE c \in copied
      <4>1. calling' = calling \ {c} /\ calling' \ copied' = calling \ copied
        BY <3>1, <3>2 DEF CopyCallback, CallCallback, Answer
      <4>2. Cardinality(calling') = Cardinality(calling) - 1
        BY <2>1, <3>1, <4>1, FS_RemoveElement
      <4>3. QED
        BY <2>2, <3>0, <4>1, <4>2 DEF CallsLeft
    <3>3. CASE c \notin copied
      <4>1. /\ calling' \in {calling, calling \ {c}}
            /\ calling' \ copied' = (calling \ copied) \ {c}
        BY <3>1, <3>3 DEF CopyCallback, CallCallback, Answer
      <4>2. Cardinality(calling' \ copied') = Cardinality(calling \ copied) - 1
        BY <2>1, <3>1, <3>3, <4>1, FS_RemoveElement
      <4>3. Cardinality(calling') \in {Cardinality(calling), Cardinality(calling) - 1}
        BY <2>1, <3>1, <4>1, FS_RemoveElement
      <4>4. QED
        BY <2>2, <3>0, <4>2, <4>3 DEF CallsLeft
    <3>4. QED
      BY <3>2, <3>3
  <2>5. CASE StreamStep
    BY <1>1, <2>3, <2>4, <2>5, LifecycleAssumption
       DEF StreamStep, StreamOpens, StreamEnds, CallsLeft, IInv, TypeOK
  <2>6. CASE ~ControlReturns /\ ~StreamStep
    <3>1. UNCHANGED <<calling, copied, streams>>
      <4>1. CASE UiStep
        BY <4>1 DEF UiStep, ResumeNative, ResumeSurface, RegisterDisplayListener, PauseNative,
           PauseSession, DestroyNative, BeginShutdown, StopServer, QueueTouch
      <4>2. CASE UserStep
        BY <4>2 DEF UserStep, OnCreate, OnResume, OnPause, OnDestroy, Detach, NewManager,
           Grant, SurfaceAppears, SurfaceGoes, OnSingleTapUp, Turn
      <4>3. CASE GlStep
        BY <4>3 DEF GlStep, RunTouch, TakePause, MakeSurface, OnSurfaceCreated,
           OnSurfaceChanged, OnDrawFrame, ReadRotation, OnDisplayGeometryChanged,
           ClearViewportChanged, TouchEnds, DrawEnds
      <4>4. CASE ControlStep
        BY <1>1, <2>6, <4>4 DEF ControlStep, SendControl, ControlTimesOut,
           OnNativeGrpcControlCommand, CommandTimesOut, GiveCommand
      <4>5. CASE OnDisplayChanged \/ UNCHANGED vars
        BY <4>5 DEF OnDisplayChanged
      <4>6. QED
        BY <1>1, <2>6, <4>1, <4>2, <4>3, <4>4, <4>5 DEF Next
    <3>2. QED
      BY <1>1, <2>3, <2>6, <3>1, LifecycleAssumption DEF CallsLeft, IInv, TypeOK
  <2>7. streams \in Nat
    BY <1>1, LifecycleAssumption DEF IInv, TypeOK
  <2>8. QED
    BY <2>3, <2>4, <2>5, <2>6, <2>7
<1>2. QED
  BY <1>1, Invariance, PTL DEF Spec
=============================================================================
