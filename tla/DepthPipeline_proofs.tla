------------------------ MODULE DepthPipeline_proofs ------------------------
(***************************************************************************)
(* Proofs about DepthPipeline for any number of camera timestamps.         *)
(***************************************************************************)
EXTENDS DepthPipeline, SequenceTheorems, TLAPS

PushType == [from : {"arcore", "da2"}, of : 0..MaxTs, ts : 0..MaxTs]

-----------------------------------------------------------------------------
(* The inductive invariant. *)

(* Which places of the threads and the destructor go together.             *)
ThreadInv ==
  /\ gl.at # "idle" => app = "alive"
  /\ stop <=> app # "alive"
  /\ stop => ~hasPending
  /\ worker = "none" <=> init # "done"
  /\ worker = "returned" => stop
  /\ app \in {"joiningWorker", "gone"} => init \in {"done", "failed"}
  /\ app = "gone" => worker \in {"none", "returned"}

(* The timestamps never grow along the way from the camera to the overlay, *)
(* and a depth image keeps the time of its image.                          *)
OrderInv ==
  /\ pending = enqueued
  /\ pending <= camera
  /\ task <= pending
  /\ preview.ts <= task
  /\ overlay <= preview.ts
  /\ preview.of = preview.ts
  /\ texture.of = texture.ts

(* What has been offered is no newer than the marks of its source.         *)
OfferInv ==
  /\ \A i \in DOMAIN pushed :
       /\ pushed[i].of = pushed[i].ts
       /\ pushed[i].from = "da2" => pushed[i].ts <= da2Pushed
       /\ pushed[i].from = "arcore" => pushed[i].ts <= arPushed
  /\ EachDepthOfferedOnce

IInv == TypeOK /\ ThreadInv /\ OrderInv /\ OfferInv

-----------------------------------------------------------------------------
(* Offering one more depth image. *)

LEMMA OfferedType ==
  ASSUME TypeOK, NEW from \in {"arcore", "da2"},
         NEW depth \in DepthType \cup TextureType, Offered(from, depth)
  PROVE  pushed' \in Seq(PushType)
<1> DEFINE rec == [from |-> from, of |-> depth.of, ts |-> depth.ts]
<1>1. pushed \in Seq(PushType) /\ rec \in PushType
  BY DEF TypeOK, PushType, DepthType, TextureType
<1>2. pushed' = Append(pushed, rec) \/ pushed' = pushed
  BY DEF Offered
<1> HIDE DEF rec
<1>3. QED
  BY <1>1, <1>2

LEMMA OfferedEntries ==
  ASSUME TypeOK, NEW from \in {"arcore", "da2"},
         NEW depth \in DepthType \cup TextureType, Offered(from, depth)
  PROVE  \/ pushed' = pushed
         \/ LET n == Len(pushed)
            IN  /\ n \in Nat
                /\ DOMAIN pushed = 1..n
                /\ DOMAIN pushed' = 1..(n + 1)
                /\ \A i \in 1..n : pushed'[i] = pushed[i]
                /\ pushed'[n + 1] = [from |-> from, of |-> depth.of, ts |-> depth.ts]
<1> DEFINE rec == [from |-> from, of |-> depth.of, ts |-> depth.ts]
<1>1. pushed \in Seq(PushType) /\ rec \in PushType
  BY DEF TypeOK, PushType, DepthType, TextureType
<1>2. CASE serverUp
  <2>1. pushed' = Append(pushed, rec)
    BY <1>2 DEF Offered
  <2> HIDE DEF rec
  <2>2. /\ Append(pushed, rec) \in Seq(PushType)
        /\ Len(Append(pushed, rec)) = Len(pushed) + 1
        /\ \A i \in 1..Len(pushed) : Append(pushed, rec)[i] = pushed[i]
        /\ Append(pushed, rec)[Len(pushed) + 1] = rec
    BY <1>1, AppendProperties
  <2>3. Len(pushed) \in Nat /\ DOMAIN pushed = 1..Len(pushed)
    BY <1>1
  <2>4. DOMAIN Append(pushed, rec) = 1..(Len(pushed) + 1)
    BY <2>2
  <2>5. QED
    BY <2>1, <2>2, <2>3, <2>4 DEF rec
<1>3. CASE ~serverUp
  BY <1>3 DEF Offered
<1>4. QED
  BY <1>2, <1>3

(* One more entry, later than the mark of its source, which becomes the     *)
(* mark, keeps OfferInv.                                                    *)
LEMMA OfferedKeeps ==
  ASSUME TypeOK, OfferInv,
         NEW from \in {"arcore", "da2"},
         NEW depth \in DepthType \cup TextureType, Offered(from, depth),
         depth.of = depth.ts,
         \/ from = "da2" /\ depth.ts > da2Pushed /\ da2Pushed' = depth.ts /\ arPushed' = arPushed
         \/ from = "arcore" /\ depth.ts > arPushed /\ arPushed' = depth.ts /\ da2Pushed' = da2Pushed
  PROVE  OfferInv'
<1> DEFINE n == Len(pushed)
<1>1. arPushed \in Nat /\ da2Pushed \in Nat /\ depth.ts \in Nat
  BY MaxTsAssumption DEF TypeOK, DepthType, TextureType
<1>2. \A i \in DOMAIN pushed : pushed[i].ts \in Nat /\ pushed[i].from \in {"arcore", "da2"}
  <2>1. ASSUME NEW i \in DOMAIN pushed
        PROVE  pushed[i] \in PushType
    <3>1. pushed \in Seq(PushType)
      BY DEF TypeOK, PushType
    <3>2. QED
      BY <3>1
  <2>2. QED
    BY <2>1, MaxTsAssumption DEF PushType
<1>3. CASE pushed' = pushed
  BY <1>1, <1>2, <1>3 DEF OfferInv, EachDepthOfferedOnce
<1>4. CASE /\ n \in Nat
           /\ DOMAIN pushed = 1..n
           /\ DOMAIN pushed' = 1..(n + 1)
           /\ \A i \in 1..n : pushed'[i] = pushed[i]
           /\ pushed'[n + 1] = [from |-> from, of |-> depth.of, ts |-> depth.ts]
  <2> HIDE DEF n
  <2>1. ASSUME NEW i \in 1..(n + 1)
        PROVE  /\ pushed'[i].of = pushed'[i].ts
               /\ pushed'[i].from = "da2" => pushed'[i].ts <= da2Pushed'
               /\ pushed'[i].from = "arcore" => pushed'[i].ts <= arPushed'
    <3>1. CASE i \in 1..n
      BY <1>1, <1>2, <1>4, <3>1 DEF OfferInv
    <3>2. CASE i = n + 1
      BY <1>1, <1>4, <3>2
    <3>3. QED
      BY <1>4, <3>1, <3>2
  <2>2. ASSUME NEW i \in 1..(n + 1), NEW j \in 1..(n + 1),
               i < j, pushed'[i].from = pushed'[j].from
        PROVE  pushed'[i].ts < pushed'[j].ts
    <3>1. i \in 1..n
      BY <1>4, <2>2
    <3>2. CASE j \in 1..n
      BY <1>4, <2>2, <3>1, <3>2 DEF OfferInv, EachDepthOfferedOnce
    <3>3. CASE j = n + 1
      BY <1>1, <1>2, <1>4, <2>2, <3>1, <3>3 DEF OfferInv
    <3>4. QED
      BY <1>4, <3>2, <3>3
  <2>3. QED
    BY <1>4, <2>1, <2>2 DEF OfferInv, EachDepthOfferedOnce
<1>5. QED
  BY <1>3, <1>4, OfferedEntries

-----------------------------------------------------------------------------
(* Type correctness. *)

LEMMA TypeStep ==
  ASSUME TypeOK, [Next]_vars
  PROVE  TypeOK'
<1> USE MaxTsAssumption DEF appVars, uiVars, arVars, offerVars, initVars, queueVars, workerVars
<1>1. CASE UNCHANGED vars
  BY <1>1 DEF TypeOK, vars
<1>2. CASE UiThread
  <2>1. ASSUME NEW s \in Sources, SetDepthSource(s)
        PROVE  TypeOK'
    BY <2>1 DEF TypeOK, SetDepthSource
  <2>2. CASE SetRenderEnabled
    BY <2>2 DEF TypeOK, SetRenderEnabled
  <2>3. QED
    BY <1>2, <2>1, <2>2 DEF UiThread
<1>3. ASSUME NEW ts \in 1..MaxTs, NEW image \in 0..MaxTs, NEW hasBytes \in BOOLEAN,
             BeginFrame(ts, image, hasBytes)
      PROVE  TypeOK'
  <2>1. /\ gl' \in [at : {"idle", "begun", "enqueued", "drawn"}, source : Sources]
        /\ camera' \in 0..MaxTs
    BY <1>3 DEF BeginFrame, TypeOK
  <2>2. texture' \in TextureType
    BY <1>3 DEF BeginFrame, ArcoreDepth, TypeOK, TextureType
  <2>3. arPushed' \in 0..MaxTs
    BY <1>3, <2>2 DEF BeginFrame, ArcoreDepth, TypeOK, TextureType
  <2>4. pushed' \in Seq(PushType)
    <3>1. CASE UNCHANGED pushed
      BY <3>1 DEF TypeOK, PushType
    <3>2. CASE Offered("arcore", texture')
      BY <2>2, <3>2, OfferedType
    <3>3. QED
      BY <1>3, <3>1, <3>2 DEF BeginFrame, ArcoreDepth
  <2>5. QED
    BY <1>3, <2>1, <2>2, <2>3, <2>4 DEF BeginFrame, TypeOK, PushType
<1>4. CASE EnqueueFrame
  BY <1>4 DEF TypeOK, EnqueueFrame
<1>5. CASE SkipEnqueue
  BY <1>5 DEF TypeOK, SkipEnqueue
<1>6. CASE NotifyWorker
  BY <1>6 DEF TypeOK, NotifyWorker, Woken
<1>7. CASE EndFrame
  <2>1. pushed' \in Seq(PushType)
    <3>1. CASE UNCHANGED pushed
      BY <3>1 DEF TypeOK, PushType
    <3>2. CASE Offered("da2", preview)
      <4>1. preview \in DepthType
        BY DEF TypeOK
      <4>2. QED
        BY <3>2, <4>1, OfferedType
    <3>3. QED
      BY <1>7, <3>1, <3>2 DEF EndFrame, Uploaded
  <2>2. overlay' \in 0..MaxTs /\ da2Pushed' \in 0..MaxTs
    BY <1>7 DEF EndFrame, Uploaded, TypeOK, DepthType
  <2>3. gl' \in [at : {"idle", "begun", "enqueued", "drawn"}, source : Sources]
    BY <1>7 DEF EndFrame, Idle, Sources
  <2>4. QED
    BY <1>7, <2>1, <2>2, <2>3 DEF EndFrame, TypeOK, PushType
<1>8. CASE InitThread
  <2>1. CASE InitReady
    BY <2>1 DEF TypeOK, InitReady
  <2>2. CASE InitFailed
    BY <2>2 DEF TypeOK, InitFailed
  <2>3. CASE CreateWorker
    BY <2>3 DEF TypeOK, CreateWorker
  <2>4. QED
    BY <1>8, <2>1, <2>2, <2>3 DEF InitThread
<1>9. CASE Worker
  <2>1. CASE WorkerReturn
    BY <2>1 DEF TypeOK, WorkerReturn
  <2>2. CASE WorkerTake
    BY <2>2 DEF TypeOK, WorkerTake
  <2>3. CASE WorkerDecide \/ WorkerSleep
    BY <2>3 DEF TypeOK, WorkerDecide, WorkerSleep
  <2>4. ASSUME NEW ok \in BOOLEAN, ProcessTask(ok)
        PROVE  TypeOK'
    <3>1. preview' \in DepthType
      BY <2>4 DEF ProcessTask, TypeOK, DepthType
    <3>2. QED
      BY <2>4, <3>1 DEF ProcessTask, TypeOK
  <2>5. QED
    BY <1>9, <2>1, <2>2, <2>3, <2>4 DEF Worker
<1>10. CASE SpuriousWakeup
  BY <1>10 DEF TypeOK, SpuriousWakeup
<1>11. CASE DestroyStop
  BY <1>11 DEF TypeOK, DestroyStop
<1>12. CASE DestroyStep
  <2>1. CASE DestroyNotify
    BY <2>1 DEF TypeOK, DestroyNotify, Woken
  <2>2. CASE JoinInit
    BY <2>2 DEF TypeOK, JoinInit
  <2>3. CASE JoinWorker
    BY <2>3 DEF TypeOK, JoinWorker
  <2>4. QED
    BY <1>12, <2>1, <2>2, <2>3 DEF DestroyStep
<1>13. QED
  BY <1>1, <1>2, <1>3, <1>4, <1>5, <1>6, <1>7, <1>8, <1>9, <1>10, <1>11, <1>12
     DEF Next, StartDraw, DrawStep

LEMMA InitIInv == Init => IInv
<1> SUFFICES ASSUME Init PROVE IInv
  OBVIOUS
<1>1. pushed = <<>> /\ DOMAIN pushed = {}
  BY DEF Init
<1>2. TypeOK
  <2>1. pushed \in Seq(PushType) /\ 0 \in 0..MaxTs
    BY <1>1, MaxTsAssumption
  <2>2. /\ gl \in [at : {"idle", "begun", "enqueued", "drawn"}, source : Sources]
        /\ texture \in TextureType
        /\ preview \in DepthType
        /\ source \in Sources
    BY <2>1 DEF Init, Idle, NoDepth, NoTexture, DepthType, TextureType, Sources
  <2>3. QED
    BY <2>1, <2>2 DEF Init, TypeOK, PushType
<1>3. ThreadInv /\ OrderInv
  BY DEF Init, ThreadInv, OrderInv, Idle, NoDepth, NoTexture
<1>4. OfferInv
  BY <1>1 DEF OfferInv, EachDepthOfferedOnce
<1>5. QED
  BY <1>2, <1>3, <1>4 DEF IInv

(* Every reachable state has the types of the members of                    *)
(* HelloArApplication and Da2Pipeline it models.                            *)
THEOREM TypeCorrect == Spec => []TypeOK
<1>1. Init => TypeOK
  BY InitIInv DEF IInv
<1>2. TypeOK /\ [Next]_vars => TypeOK'
  BY TypeStep
<1>3. QED
  BY <1>1, <1>2, PTL DEF Spec

-----------------------------------------------------------------------------

LEMMA ThreadInvStep ==
  ASSUME TypeOK, ThreadInv, [Next]_vars
  PROVE  ThreadInv'
<1> USE DEF ThreadInv, appVars, uiVars, arVars, offerVars, initVars, queueVars, workerVars
<1>0. gl \in [at : {"idle", "begun", "enqueued", "drawn"}, source : Sources]
  BY DEF TypeOK
<1>1. CASE UNCHANGED vars
  BY <1>1 DEF vars
<1>2. CASE UiThread
  BY <1>2 DEF UiThread, SetDepthSource, SetRenderEnabled
<1>3. CASE StartDraw
  BY <1>3 DEF StartDraw, BeginFrame
<1>4. CASE EnqueueFrame
  BY <1>0, <1>4 DEF EnqueueFrame
<1>5. CASE SkipEnqueue
  BY <1>0, <1>5 DEF SkipEnqueue
<1>6. CASE NotifyWorker
  BY <1>0, <1>6 DEF NotifyWorker, Woken
<1>7. CASE EndFrame
  BY <1>7 DEF EndFrame, Idle
<1>8. CASE InitThread
  BY <1>8 DEF InitThread, InitReady, InitFailed, CreateWorker
<1>9. CASE Worker \/ SpuriousWakeup
  BY <1>9 DEF Worker, WorkerReturn, WorkerTake, WorkerDecide, WorkerSleep, SpuriousWakeup,
              ProcessTask
<1>10. CASE DestroyStop
  BY <1>10 DEF DestroyStop
<1>11. CASE DestroyStep
  BY <1>11 DEF DestroyStep, DestroyNotify, JoinInit, InitJoined, JoinWorker, Woken
<1>12. QED
  BY <1>1, <1>2, <1>3, <1>4, <1>5, <1>6, <1>7, <1>8, <1>9, <1>10, <1>11 DEF Next, DrawStep

LEMMA OrderInvStep ==
  ASSUME TypeOK, OrderInv, [Next]_vars
  PROVE  OrderInv'
<1> USE DEF OrderInv, appVars, uiVars, arVars, offerVars, initVars, queueVars, workerVars
<1>0. /\ camera \in Nat /\ pending \in Nat /\ task \in Nat /\ overlay \in Nat
      /\ preview.ts \in Nat
  BY MaxTsAssumption DEF TypeOK, DepthType
<1>1. CASE UNCHANGED vars \/ UiThread \/ InitThread \/ DestroyStep
  BY <1>1 DEF vars, UiThread, SetDepthSource, SetRenderEnabled, InitThread, InitReady,
              InitFailed, CreateWorker, DestroyStep, DestroyNotify, JoinInit, JoinWorker
<1>2. ASSUME NEW ts \in 1..MaxTs, NEW image \in 0..MaxTs, NEW hasBytes \in BOOLEAN,
             BeginFrame(ts, image, hasBytes)
      PROVE  OrderInv'
  <2>1. texture'.of = texture'.ts
    BY <1>2 DEF BeginFrame, ArcoreDepth
  <2>2. ts \in Nat /\ camera' = ts /\ ts >= camera
    BY <1>2, MaxTsAssumption DEF BeginFrame
  <2>3. QED
    BY <1>0, <1>2, <2>1, <2>2 DEF BeginFrame
<1>3. CASE DrawStep
  BY <1>0, <1>3 DEF DrawStep, EnqueueFrame, SkipEnqueue, NotifyWorker, EndFrame, Uploaded
<1>4. CASE Worker \/ SpuriousWakeup
  BY <1>0, <1>4 DEF Worker, WorkerReturn, WorkerTake, WorkerDecide, WorkerSleep, SpuriousWakeup,
                    ProcessTask
<1>5. CASE DestroyStop
  BY <1>5 DEF DestroyStop
<1>6. QED
  BY <1>1, <1>2, <1>3, <1>4, <1>5 DEF Next, StartDraw

LEMMA OfferInvStep ==
  ASSUME TypeOK, OrderInv, OfferInv, [Next]_vars
  PROVE  OfferInv'
<1> USE DEF appVars, uiVars, arVars, offerVars, initVars, queueVars, workerVars
<1>1. CASE UNCHANGED <<pushed, arPushed, da2Pushed>>
  BY <1>1 DEF OfferInv, EachDepthOfferedOnce
<1>2. ASSUME NEW ts \in 1..MaxTs, NEW image \in 0..MaxTs, NEW hasBytes \in BOOLEAN,
             BeginFrame(ts, image, hasBytes)
      PROVE  OfferInv'
  <2>1. CASE UNCHANGED <<pushed, arPushed, da2Pushed>>
    BY <1>1, <2>1
  <2>2. CASE /\ ArcoreDepth(ts, image, hasBytes)
             /\ ArDepthIsNew(texture') /\ texture'.filled
    <3>1. texture' \in TextureType /\ texture'.of = texture'.ts
      BY <2>2 DEF ArcoreDepth, TypeOK, TextureType, OrderInv
    <3>2. /\ Offered("arcore", texture')
          /\ texture'.ts > arPushed /\ arPushed' = texture'.ts
          /\ da2Pushed' = da2Pushed
      BY <1>2, <2>2 DEF BeginFrame, ArcoreDepth, ArDepthIsNew
    <3>3. QED
      BY <3>1, <3>2, OfferedKeeps
  <2>3. QED
    BY <1>2, <2>1, <2>2 DEF BeginFrame, ArcoreDepth
<1>3. CASE EndFrame
  <2>1. CASE UNCHANGED <<pushed, arPushed, da2Pushed>>
    BY <1>1, <2>1
  <2>2. CASE preview.ts > da2Pushed /\ Offered("da2", preview) /\ da2Pushed' = preview.ts
    <3>1. preview \in DepthType /\ preview.of = preview.ts /\ arPushed' = arPushed
      BY <1>3 DEF TypeOK, OrderInv, EndFrame
    <3>2. QED
      BY <2>2, <3>1, OfferedKeeps
  <2>3. QED
    BY <1>3, <2>1, <2>2 DEF EndFrame, Uploaded
<1>4. QED
  BY <1>1, <1>2, <1>3
     DEF Next, vars, UiThread, SetDepthSource, SetRenderEnabled, StartDraw, DrawStep,
         EnqueueFrame, SkipEnqueue, NotifyWorker, InitThread, InitReady, InitFailed, CreateWorker,
         Worker, WorkerReturn, WorkerTake, WorkerDecide, WorkerSleep, SpuriousWakeup, ProcessTask,
         DestroyStop, DestroyStep, DestroyNotify, JoinInit, JoinWorker

(* The inductive invariant of the draw loop and the pipeline.               *)
THEOREM Invariance == Spec => []IInv
<1>1. IInv /\ [Next]_vars => IInv'
  BY TypeStep, ThreadInvStep, OrderInvStep, OfferInvStep DEF IInv
<1>2. QED
  BY <1>1, InitIInv, PTL DEF Spec

(* No result of a source is offered twice or after a later one of it        *)
(* (OnDrawFrame's and UpdateDa2OverlayTexture's timestamps).                *)
THEOREM OfferedOnce == Spec => []EachDepthOfferedOnce
<1>1. IInv => EachDepthOfferedOnce
  BY DEF IInv, OfferInv
<1>2. QED
  BY <1>1, Invariance, PTL

(* A depth keeps the timestamp of its image through slot, worker and        *)
(* preview.                                                                 *)
THEOREM TimeIsKept == Spec => []DepthKeepsItsTime
<1>1. IInv => DepthKeepsItsTime
  BY DEF IInv, OfferInv, DepthKeepsItsTime
<1>2. QED
  BY <1>1, Invariance, PTL

(* The slot holds the newest image and shown depth never goes back.         *)
THEOREM NewestWins == Spec => []NewestImageWins
<1>1. IInv => NewestImageWins
  BY DEF IInv, OrderInv, NewestImageWins
<1>2. QED
  BY <1>1, Invariance, PTL

(* ~Da2Pipeline leaves no thread behind (joins of init_thread and worker).  *)
THEOREM PipelineEndsClean == Spec => []NoThreadOutlivesPipeline
<1>1. IInv => NoThreadOutlivesPipeline
  BY DEF IInv, ThreadInv, NoThreadOutlivesPipeline
<1>2. QED
  BY <1>1, Invariance, PTL

-----------------------------------------------------------------------------
(* What liveness rests on: nobody sleeps through a notification, and the     *)
(* destructor gets nearer to its end with every step, whoever takes it.     *)

(* The worker goes to sleep only while it holds the mutex; an image that is  *)
(* in the slot while it sleeps is one the draw has still to notify it of.   *)
WakeInv ==
  /\ stop \/ hasPending => worker # "deciding"
  /\ app \notin {"alive", "stopped"} => worker # "asleep"
  /\ hasPending /\ worker = "asleep" => gl.at = "enqueued"

Closing == app \in {"stopped", "joiningInit", "joiningWorker"}

(* What the destructor, the init thread and the worker have still to do at   *)
(* the most before ~Impl returns.                                           *)
DestructorLeft ==
  CASE app = "stopped" -> 3 [] app = "joiningInit" -> 2 [] app = "joiningWorker" -> 1
    [] OTHER -> 0

InitLeft == CASE init = "loading" -> 4 [] init = "ready" -> 3 [] OTHER -> 0

WorkerLeft == CASE worker \in {"asleep", "busy"} -> 2 [] worker = "enter" -> 1 [] OTHER -> 0

StepsLeft == DestructorLeft + InitLeft + WorkerLeft

(* The guard of DestroyStep, of InitThread or of Worker holds: a thread that *)
(* runs can take a step.                                                    *)
SomeoneRuns ==
  \/ app = "stopped"
  \/ app = "joiningInit" /\ InitJoined
  \/ app = "joiningWorker" /\ worker \in {"none", "returned"}
  \/ init \in {"loading", "ready"}
  \/ worker = "enter" \/ worker = "busy"

LEMMA WakeInit == Init => WakeInv
BY DEF Init, WakeInv

LEMMA WakeStep ==
  ASSUME TypeOK, ThreadInv, WakeInv, [Next]_vars
  PROVE  WakeInv'
<1> USE DEF WakeInv, appVars, uiVars, arVars, offerVars, initVars, queueVars, workerVars
<1>0. gl \in [at : {"idle", "begun", "enqueued", "drawn"}, source : Sources]
  BY DEF TypeOK
<1>1. CASE UNCHANGED vars
  BY <1>1 DEF vars
<1>2. CASE UiThread
  BY <1>2 DEF UiThread, SetDepthSource, SetRenderEnabled
<1>3. CASE StartDraw
  BY <1>3 DEF StartDraw, BeginFrame
<1>4. CASE EnqueueFrame
  BY <1>0, <1>4 DEF EnqueueFrame, MutexFree
<1>5. CASE SkipEnqueue
  BY <1>0, <1>5 DEF SkipEnqueue
<1>6. CASE NotifyWorker
  BY <1>0, <1>6 DEF NotifyWorker, Woken
<1>7. CASE EndFrame
  BY <1>7 DEF EndFrame, Idle
<1>8. CASE InitThread
  BY <1>8 DEF InitThread, InitReady, InitFailed, CreateWorker
<1>9. CASE Worker \/ SpuriousWakeup
  BY <1>9 DEF ThreadInv, Worker, WorkerReturn, WorkerTake, WorkerDecide, WorkerSleep,
              SpuriousWakeup, ProcessTask
<1>10. CASE DestroyStop
  BY <1>10 DEF DestroyStop, StopLocked, MutexFree
<1>11. CASE DestroyStep
  BY <1>11 DEF DestroyStep, DestroyNotify, JoinInit, InitJoined, JoinWorker, Woken
<1>12. QED
  BY <1>1, <1>2, <1>3, <1>4, <1>5, <1>6, <1>7, <1>8, <1>9, <1>10, <1>11 DEF Next, DrawStep

(* No notification of Da2Pipeline's cv is lost: EnqueueFrame's reaches a     *)
(* worker that sleeps on an image, ~Impl's one that sleeps through stop.    *)
THEOREM NoLostNotification == Spec => []WakeInv
<1>1. IInv /\ WakeInv /\ [Next]_vars => WakeInv'
  BY WakeStep DEF IInv
<1>2. QED
  BY <1>1, WakeInit, Invariance, PTL DEF Spec

LEMMA StepsLeftNat == StepsLeft \in Nat
BY DEF StepsLeft, DestructorLeft, InitLeft, WorkerLeft

LEMMA StepsLeftDecrease ==
  ASSUME TypeOK, ThreadInv, WakeInv, Closing, Next
  PROVE  StepsLeft' < StepsLeft
<1> USE DEF StepsLeft, DestructorLeft, InitLeft, WorkerLeft
<1>0. app # "alive" /\ stop /\ gl.at = "idle"
  <2>1. gl.at \in {"idle", "begun", "enqueued", "drawn"}
    BY DEF TypeOK
  <2>2. QED
    BY <2>1 DEF Closing, ThreadInv
<1>1. CASE UiThread \/ StartDraw \/ DestroyStop
  BY <1>0, <1>1 DEF UiThread, SetDepthSource, SetRenderEnabled, StartDraw, BeginFrame, DestroyStop
<1>2. CASE DrawStep
  BY <1>0, <1>2 DEF DrawStep, EnqueueFrame, SkipEnqueue, NotifyWorker, EndFrame
<1>3. CASE InitThread
  <2>1. UNCHANGED app
    BY <1>3 DEF InitThread, InitReady, InitFailed, CreateWorker, appVars
  <2>2. \/ init = "loading" /\ init' \in {"ready", "failed"} /\ worker' = worker
        \/ init = "ready" /\ init' = "done" /\ worker = "none" /\ worker' = "enter"
    BY <1>3 DEF InitThread, InitReady, InitFailed, CreateWorker, workerVars, ThreadInv
  <2>3. QED
    BY <2>1, <2>2
<1>4. CASE Worker \/ SpuriousWakeup
  <2>1. UNCHANGED <<app, init>>
    BY <1>4 DEF Worker, WorkerReturn, WorkerTake, WorkerDecide, WorkerSleep, SpuriousWakeup,
                ProcessTask, appVars, initVars
  <2>2. \/ worker = "enter" /\ worker' = "returned"
        \/ worker \in {"busy", "asleep"} /\ worker' = "enter"
    BY <1>0, <1>4 DEF Worker, WorkerReturn, WorkerTake, WorkerDecide, WorkerSleep, SpuriousWakeup,
                ProcessTask, WakeInv
  <2>3. QED
    BY <2>1, <2>2
<1>5. CASE DestroyStep
  <2>1. UNCHANGED init
    BY <1>5 DEF DestroyStep, DestroyNotify, JoinInit, JoinWorker, initVars
  <2>2. \/ app = "stopped" /\ app' = "joiningInit"
        \/ app = "joiningInit" /\ app' = "joiningWorker"
        \/ app = "joiningWorker" /\ app' = "gone"
    BY <1>5 DEF DestroyStep, DestroyNotify, JoinInit, JoinWorker
  <2>3. \/ worker' = worker
        \/ worker = "asleep" /\ worker' = "enter"
    BY <1>5 DEF DestroyStep, DestroyNotify, JoinInit, JoinWorker, Woken, workerVars
  <2>4. QED
    BY <2>1, <2>2, <2>3
<1>6. QED
  BY <1>1, <1>2, <1>3, <1>4, <1>5 DEF Next

LEMMA ClosingRuns ==
  ASSUME TypeOK, ThreadInv, WakeInv, Closing
  PROVE  SomeoneRuns
BY DEF TypeOK, ThreadInv, WakeInv, Closing, SomeoneRuns, InitJoined

(* Once ~Impl has set stop, no step of any thread puts off its return: each  *)
(* brings it nearer, so that it takes at the most StepsLeft steps.          *)
THEOREM DestructorAdvances == Spec => [][Closing => StepsLeft' < StepsLeft]_vars
<1>1. TypeOK /\ ThreadInv /\ WakeInv /\ [Next]_vars
        => [Closing => StepsLeft' < StepsLeft]_vars
  BY StepsLeftDecrease
<1>2. Spec => [](TypeOK /\ ThreadInv /\ WakeInv)
  BY Invariance, NoLostNotification, PTL DEF IInv
<1>3. QED
  BY <1>1, <1>2, PTL DEF Spec

(* Until ~Impl has returned there is a thread that can take the next step:   *)
(* it never waits for one that sleeps.                                      *)
THEOREM DestructorIsNotStuck == Spec => [](Closing => SomeoneRuns)
<1>1. TypeOK /\ ThreadInv /\ WakeInv => (Closing => SomeoneRuns)
  BY ClosingRuns
<1>2. Spec => [](TypeOK /\ ThreadInv /\ WakeInv)
  BY Invariance, NoLostNotification, PTL DEF IInv
<1>3. QED
  BY <1>1, <1>2, PTL
=============================================================================
