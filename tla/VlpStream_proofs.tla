--------------------------- MODULE VlpStream_proofs ---------------------------
(***************************************************************************)
(* Theorems about VlpStream, for any set of subscribers, any set of files  *)
(* and any bounds.                                                         *)
(***************************************************************************)
EXTENDS VlpStream, SequenceTheorems, TLAPS

USE NoPathAssumption, BoundsAssumption

(* Waking every sleeper keeps pc a function into the handler's places.      *)
LEMMA NotifiedType ==
  ASSUME TypeOK
  PROVE  Notified \in [Subscribers -> {"off", "enter", "deciding", "asleep", "writing"}]
BY DEF TypeOK, Notified

(* A fresh StreamState is well typed, whoever makes it.                     *)
LEMMA FreshType ==
  ASSUME TypeOK, FreshStream, UNCHANGED <<gl, pc, files>>,
         server' \in {"down", "up"}, servers' \in Nat,
         ui' \in {"idle", "flagged", "notified", "draining"}
  PROVE  TypeOK'
<1>1. NoFrame \in FrameType
  BY DEF NoFrame, FrameType
<1>2. NoPending \in [seq : 0..MaxDepths, ts : 0..MaxTs, published : BOOLEAN]
  BY DEF NoPending
<1>3. <<>> \in Seq(FrameType) /\ <<>> \in Seq(Nat)
  OBVIOUS
<1>4. QED
  BY <1>1, <1>2, <1>3 DEF TypeOK, FreshStream

(* The recorder's part of the state is well typed after a frame.            *)
LEMMA RecordType_MaybeRecord ==
  ASSUME TypeOK, NEW f \in FrameType, NEW n \in Nat, NEW good \in BOOLEAN,
         MaybeRecordLocked(f, n, good)
  PROVE  /\ recPath' \in Paths \cup {NoPath}
         /\ recording' \in BOOLEAN
         /\ startTs' \in Nat \cup {-1}
         /\ files' \in [Paths -> [header : BOOLEAN, records : Seq(RecordType)]]
<1>1. CASE ~recording \/ recPath = NoPath
  BY <1>1 DEF MaybeRecordLocked, TypeOK
<1>2. CASE recording /\ recPath # NoPath
  <2> DEFINE start == RecordStart(f.ts)
             rel   == IF f.ts > start THEN f.ts - start ELSE 0
             rec   == [rel |-> rel, seq |-> n, whole |-> good]
  <2>1. recPath \in Paths
    BY <1>2 DEF TypeOK
  <2>2. f.ts \in Nat /\ start \in Nat
    BY DEF FrameType, RecordStart, TypeOK
  <2>3. rel \in Nat
    BY <2>2
  <2>4. rec \in RecordType
    BY <2>3 DEF RecordType
  <2> HIDE DEF rel, start, rec
  <2>5. /\ files' = [files EXCEPT ![recPath].records = Append(@, rec)]
        /\ AfterWrite(good, start)
    BY <1>2 DEF MaybeRecordLocked, rec, rel, start
  <2>6. Append(files[recPath].records, rec) \in Seq(RecordType)
    BY <2>1, <2>4 DEF TypeOK
  <2>7. files' \in [Paths -> [header : BOOLEAN, records : Seq(RecordType)]]
    BY <2>1, <2>5, <2>6 DEF TypeOK
  <2>8. QED
    BY <2>2, <2>5, <2>7 DEF AfterWrite, StopRecordingLocked, TypeOK
<1>3. QED
  BY <1>1, <1>2

LEMMA InitType == Init => TypeOK
<1>1. NoFrame \in FrameType /\ Idle \in [at : {"idle", "built"}, frame : FrameType]
  BY DEF NoFrame, Idle, FrameType
<1>2. NoPending \in [seq : 0..MaxDepths, ts : 0..MaxTs, published : BOOLEAN]
  BY DEF NoPending
<1>3. EmptyFile \in [header : BOOLEAN, records : Seq(RecordType)]
  BY DEF EmptyFile
<1>4. <<>> \in Seq(FrameType) /\ <<>> \in Seq(Nat)
  OBVIOUS
<1> SUFFICES ASSUME Init PROVE TypeOK
  OBVIOUS
<1>5. /\ pc \in [Subscribers -> {"off", "enter", "deciding", "asleep", "writing"}]
      /\ cancelled \in [Subscribers -> BOOLEAN]
      /\ seen \in [Subscribers -> Nat]
      /\ payload \in [Subscribers -> FrameType]
      /\ delivered \in [Subscribers -> Seq(Nat)]
  BY <1>1, <1>4 DEF Init
<1>6. files \in [Paths -> [header : BOOLEAN, records : Seq(RecordType)]]
  BY <1>3 DEF Init
<1>7. recPath \in Paths \cup {NoPath} /\ startTs \in Nat \cup {-1}
  BY DEF Init
<1>8. QED
  BY <1>1, <1>2, <1>4, <1>5, <1>6, <1>7 DEF Init, TypeOK

LEMMA TypeStep ==
  ASSUME TypeOK, [Next]_vars
  PROVE  TypeOK'
<1> USE DEF serverVars, depthVars, feedVars, callVars, recVars
<1>1. ASSUME NEW ts \in 1..MaxTs, UpdateDepth(ts)
      PROVE  TypeOK'
  BY <1>1 DEF UpdateDepth, TypeOK
<1>2. ASSUME NEW ts \in 1..MaxTs, BuildFrame(ts)
      PROVE  TypeOK'
  <2>1. gl' \in [at : {"idle", "built"}, frame : FrameType]
    <3>1. /\ ts \in 0..MaxTs
          /\ pending.seq \in 0..MaxDepths
          /\ pending.ts \in 0..MaxTs
      BY DEF TypeOK
    <3>2. Built(ts, pending.seq, pending.ts) \/ Built(ts, 0, 0)
      BY <1>2 DEF BuildFrame, ConsumeDepth
    <3>3. QED
      BY <3>1, <3>2 DEF Built, FrameType
  <2>2. pending' \in [seq : 0..MaxDepths, ts : 0..MaxTs, published : BOOLEAN]
    <3>1. pending' = pending \/ pending' = [pending EXCEPT !.published = TRUE]
      BY <1>2 DEF BuildFrame, ConsumeDepth
    <3>2. QED
      BY <3>1 DEF TypeOK
  <2>3. QED
    BY <1>2, <2>1, <2>2 DEF BuildFrame, TypeOK
<1>3. ASSUME NEW good \in BOOLEAN, PublishFrame(good)
      PROVE  TypeOK'
  <2>1. gl.frame \in FrameType
    BY DEF TypeOK
  <2>2. frameSeq + 1 \in Nat
    BY DEF TypeOK
  <2>3. MaybeRecordLocked(gl.frame, frameSeq + 1, good)
    BY <1>3 DEF PublishFrame
  <2>4. /\ recPath' \in Paths \cup {NoPath}
        /\ recording' \in BOOLEAN
        /\ startTs' \in Nat \cup {-1}
        /\ files' \in [Paths -> [header : BOOLEAN, records : Seq(RecordType)]]
    BY <2>1, <2>2, <2>3, RecordType_MaybeRecord
  <2>5. published' \in Seq(FrameType)
    BY <1>3, <2>1 DEF PublishFrame, TypeOK
  <2>6. gl' \in [at : {"idle", "built"}, frame : FrameType]
    BY <1>3 DEF PublishFrame, Idle, NoFrame, FrameType
  <2>7. pc' \in [Subscribers -> {"off", "enter", "deciding", "asleep", "writing"}]
    BY <1>3, NotifiedType DEF PublishFrame
  <2>8. QED
    BY <1>3, <2>1, <2>2, <2>4, <2>5, <2>6, <2>7 DEF PublishFrame, TypeOK
<1>4. CASE StartGrpcServer
  <2>1. servers + 1 \in Nat
    BY DEF TypeOK
  <2>2. QED
    BY <1>4, <2>1, FreshType DEF StartGrpcServer, TypeOK
<1>5. ASSUME NEW p \in Paths, NEW outcome \in RecordOutcomes, StartRecording(p, outcome)
      PROVE  TypeOK'
  <2>1. EmptyFile \in [header : BOOLEAN, records : Seq(RecordType)]
    BY DEF EmptyFile
  <2>2. [header |-> TRUE, records |-> <<>>] \in [header : BOOLEAN, records : Seq(RecordType)]
    OBVIOUS
  <2>3. files' \in [Paths -> [header : BOOLEAN, records : Seq(RecordType)]]
    BY <1>5, <2>1, <2>2 DEF StartRecording, TypeOK
  <2>4. QED
    BY <1>5, <2>3 DEF StartRecording, StopRecordingLocked, TypeOK
<1>6. CASE StopRecording
  BY <1>6 DEF StopRecording, StopRecordingLocked, TypeOK
<1>7. CASE StopSetFlag
  BY <1>7 DEF StopSetFlag, TypeOK
<1>8. CASE StopNotify
  BY <1>8, NotifiedType DEF StopNotify, TypeOK
<1>9. CASE StopShutdown
  BY <1>9 DEF StopShutdown, TypeOK
<1>10. CASE StopDone
  BY <1>10, FreshType DEF StopDone, TypeOK
<1>11. ASSUME NEW s \in Subscribers, Call(s)
       PROVE  TypeOK'
  <2>1. CASE Connect(s)
    <3>1. NoFrame \in FrameType /\ <<>> \in Seq(Nat)
      BY DEF NoFrame, FrameType
    <3>2. QED
      BY <2>1, <3>1 DEF Connect, TypeOK
  <2>2. CASE Cancel(s)
    BY <2>2 DEF Cancel, TypeOK
  <2>3. CASE Leave(s)
    BY <2>3 DEF Leave, MovesTo, TypeOK
  <2>4. CASE Take(s)
    BY <2>4 DEF Take, MovesTo, TypeOK
  <2>5. CASE Decide(s)
    BY <2>5 DEF Decide, MovesTo, TypeOK
  <2>6. CASE Sleep(s)
    BY <2>6 DEF Sleep, MovesTo, TypeOK
  <2>7. CASE SpuriousWakeup(s)
    BY <2>7 DEF SpuriousWakeup, MovesTo, TypeOK
  <2>8. CASE WriteDone(s)
    <3>1. Append(delivered[s], seen[s]) \in Seq(Nat)
      BY DEF TypeOK
    <3>2. QED
      BY <2>8, <3>1 DEF WriteDone, MovesTo, TypeOK
  <2>9. CASE WriteFailed(s)
    BY <2>9 DEF WriteFailed, MovesTo, TypeOK
  <2>10. QED
    BY <1>11, <2>1, <2>2, <2>3, <2>4, <2>5, <2>6, <2>7, <2>8, <2>9 DEF Call, Handler, HandlerAlone
<1>12. CASE UNCHANGED vars
  BY <1>12 DEF vars, TypeOK
<1>13. QED
  BY <1>1, <1>2, <1>3, <1>4, <1>5, <1>6, <1>7, <1>8, <1>9, <1>10, <1>11, <1>12
     DEF Next, GlThread, UiThread, StopStep

(* The state has the types of StreamState's members, in every behaviour.    *)
THEOREM TypeCorrect == Spec => []TypeOK
<1>1. Init => TypeOK
  BY InitType
<1>2. TypeOK /\ [Next]_vars => TypeOK'
  BY TypeStep
<1>3. QED
  BY <1>1, <1>2, PTL DEF Spec

-----------------------------------------------------------------------------
(* The invariant behind the safety properties, in four parts. *)

(* A server that is down has a fresh StreamState and nobody in it; one that *)
(* is being stopped has its flag up and the GL thread outside.              *)
ServerInv ==
  /\ server = "down" =>
       /\ ui = "idle"
       /\ gl = Idle
       /\ frameSeq = 0
       /\ published = <<>>
       /\ pending = NoPending
       /\ seen = [s \in Subscribers |-> 0]
       /\ payload = [s \in Subscribers |-> NoFrame]
       /\ delivered = [s \in Subscribers |-> <<>>]
       /\ recPath = NoPath
       /\ \A s \in Subscribers : pc[s] = "off"
  /\ gl.at = "idle" => gl = Idle
  /\ ui # "idle" => server = "up" /\ gl = Idle

(* The counter, the latest payload and the history agree; every handler is  *)
(* at a place of the history, and at its end when it sleeps.                *)
FeedInv ==
  /\ frameSeq = Len(published)
  /\ frameSeq > 0 => latest = published[frameSeq]
  /\ \A s \in Subscribers :
       /\ seen[s] <= frameSeq
       /\ seen[s] > 0 => payload[s] = published[seen[s]]
       /\ pc[s] \in {"deciding", "asleep"} => seen[s] = frameSeq

(* Where each depth update is: in the slot, in the GL thread's hands, or on *)
(* one frame.  What is in the slot or in hand is newer than what was sent.  *)
DepthInv ==
  /\ gl.frame.depth # 0 => pending.published /\ gl.frame.depth = pending.seq
  /\ ~pending.published => pending.seq > 0
  /\ \A i \in DOMAIN published : published[i].depth <= pending.seq
  /\ (~pending.published \/ gl.frame.depth # 0) =>
       \A i \in DOMAIN published : published[i].depth < pending.seq
  /\ gl.frame.depthTs <= gl.frame.ts
  /\ DepthNotAhead
  /\ DepthAttachedOnce
  /\ ConsumedDepthIsSent

(* What a call has written comes before what it is writing or will write.   *)
DeliveredInv ==
  \A s \in Subscribers :
    /\ \A i \in DOMAIN delivered[s] :
         /\ delivered[s][i] <= seen[s]
         /\ pc[s] = "writing" => delivered[s][i] < seen[s]
    /\ \A i, j \in DOMAIN delivered[s] : i < j => delivered[s][i] < delivered[s][j]

IInv == TypeOK /\ ServerInv /\ FeedInv /\ DepthInv /\ DeliveredInv

LEMMA EmptyDomain == DOMAIN <<>> = {}
OBVIOUS

LEMMA InitIInv == Init => TypeOK /\ ServerInv /\ FeedInv /\ DepthInv /\ DeliveredInv
<1> SUFFICES ASSUME Init PROVE ServerInv /\ FeedInv /\ DepthInv /\ DeliveredInv
  BY InitType
<1>1. ServerInv
  BY DEF Init, ServerInv
<1>2. FeedInv
  BY DEF Init, FeedInv
<1>3. DepthInv
  BY DEF Init, DepthInv, DepthNotAhead, DepthAttachedOnce, ConsumedDepthIsSent, Idle,
         NoFrame, NoPending
<1>4. DeliveredInv
  <2>1. \A s \in Subscribers : DOMAIN delivered[s] = {}
    BY EmptyDomain DEF Init
  <2>2. QED
    BY <2>1 DEF DeliveredInv
<1>5. QED
  BY <1>1, <1>2, <1>3, <1>4

(* A step of a call changes nothing but that call.                          *)
LEMMA CallLeaves ==
  ASSUME NEW s \in Subscribers, Call(s)
  PROVE  UNCHANGED <<serverVars, gl, depthVars, feedVars, recVars>>
BY DEF Call, Connect, Cancel, Handler, HandlerAlone, Leave, Take, Decide, Sleep, SpuriousWakeup,
       WriteDone, WriteFailed

LEMMA ServerInvStep ==
  ASSUME TypeOK, ServerInv, [Next]_vars
  PROVE  ServerInv'
<1> USE DEF serverVars, depthVars, feedVars, callVars, recVars
<1>1. ASSUME NEW ts \in 1..MaxTs, UpdateDepth(ts)
      PROVE  ServerInv'
  BY <1>1 DEF UpdateDepth, AppRunning, ServerInv
<1>2. ASSUME NEW ts \in 1..MaxTs, BuildFrame(ts)
      PROVE  ServerInv'
  BY <1>2 DEF BuildFrame, ConsumeDepth, Built, AppRunning, ServerInv
<1>3. ASSUME NEW good \in BOOLEAN, PublishFrame(good)
      PROVE  ServerInv'
  BY <1>3 DEF PublishFrame, AppRunning, ServerInv
<1>4. CASE StartGrpcServer
  BY <1>4 DEF StartGrpcServer, FreshStream, ServerInv
<1>5. ASSUME NEW p \in Paths, NEW outcome \in RecordOutcomes, StartRecording(p, outcome)
      PROVE  ServerInv'
  BY <1>5 DEF StartRecording, AppRunning, ServerInv
<1>6. CASE StopRecording
  BY <1>6 DEF StopRecording, AppRunning, ServerInv
<1>7. CASE StopSetFlag
  <2>1. gl = Idle
    BY <1>7 DEF StopSetFlag, ServerInv, AppRunning
  <2>2. QED
    BY <1>7, <2>1 DEF StopSetFlag, AppRunning, ServerInv
<1>8. CASE StopNotify
  BY <1>8 DEF StopNotify, ServerInv
<1>9. CASE StopShutdown
  BY <1>9 DEF StopShutdown, ServerInv
<1>10. CASE StopDone
  BY <1>10 DEF StopDone, CallsReturned, FreshStream, ServerInv
<1>11. ASSUME NEW s \in Subscribers, Call(s)
       PROVE  ServerInv'
  <2>1. CASE Connect(s)
    BY <2>1 DEF Connect, ServerInv
  <2>2. CASE Cancel(s)
    BY <2>2 DEF Cancel, ServerInv
  <2>3. ASSUME Handler(s) \/ SpuriousWakeup(s)
        PROVE  server = "up" /\ UNCHANGED <<server, ui, gl>>
    <3>1. pc[s] # "off"
      BY <2>3 DEF Handler, HandlerAlone, Leave, Take, Decide, Sleep, SpuriousWakeup, WriteDone,
                  WriteFailed, MovesTo
    <3>2. QED
      BY <3>1, <1>11, CallLeaves DEF ServerInv, TypeOK
  <2>4. QED
    BY <1>11, <2>1, <2>2, <2>3 DEF Call, ServerInv
<1>12. CASE UNCHANGED vars
  BY <1>12 DEF vars, ServerInv
<1>13. QED
  BY <1>1, <1>2, <1>3, <1>4, <1>5, <1>6, <1>7, <1>8, <1>9, <1>10, <1>11, <1>12
     DEF Next, GlThread, UiThread, StopStep

(* What publishing does to the history: one more frame at its end.          *)
LEMMA PublishedGrows ==
  ASSUME TypeOK, NEW good \in BOOLEAN, PublishFrame(good)
  PROVE  /\ Len(published') = Len(published) + 1
         /\ DOMAIN published = 1..Len(published)
         /\ DOMAIN published' = 1..(Len(published) + 1)
         /\ \A i \in 1..Len(published) : published'[i] = published[i]
         /\ published'[Len(published) + 1] = gl.frame
<1>1. published' = Append(published, gl.frame) /\ published \in Seq(FrameType)
      /\ gl.frame \in FrameType
  BY DEF PublishFrame, TypeOK
<1>2. QED
  BY <1>1, AppendProperties

(* Where the handlers stand after a notify_all.                             *)
LEMMA NotifiedPlaces ==
  ASSUME TypeOK, pc' = Notified, NEW s \in Subscribers
  PROVE  /\ pc'[s] # "asleep"
         /\ pc'[s] = "deciding" <=> pc[s] = "deciding"
         /\ pc'[s] = "writing" <=> pc[s] = "writing"
BY DEF TypeOK, Notified

LEMMA FeedInvStep ==
  ASSUME TypeOK, ServerInv, FeedInv, [Next]_vars
  PROVE  FeedInv'
<1> USE DEF serverVars, depthVars, feedVars, callVars, recVars
<1>1. ASSUME NEW ts \in 1..MaxTs, UpdateDepth(ts) \/ BuildFrame(ts)
      PROVE  FeedInv'
  BY <1>1 DEF UpdateDepth, BuildFrame, FeedInv
<1>2. ASSUME NEW good \in BOOLEAN, PublishFrame(good)
      PROVE  FeedInv'
  <2>1. /\ frameSeq' = frameSeq + 1
        /\ latest' = gl.frame
        /\ UNCHANGED <<seen, payload>>
        /\ MutexFree
        /\ pc' = Notified
    BY <1>2 DEF PublishFrame
  <2>2. frameSeq' = Len(published') /\ latest' = published'[frameSeq']
    BY <1>2, <2>1, PublishedGrows DEF FeedInv
  <2>3. ASSUME NEW s \in Subscribers
        PROVE  /\ seen'[s] <= frameSeq'
               /\ seen'[s] > 0 => payload'[s] = published'[seen'[s]]
               /\ pc'[s] \in {"deciding", "asleep"} => seen'[s] = frameSeq'
    <3>1. seen[s] \in Nat /\ frameSeq \in Nat /\ seen[s] <= frameSeq
      BY DEF TypeOK, FeedInv
    <3>2. seen[s] > 0 => published'[seen[s]] = published[seen[s]]
      BY <1>2, <3>1, PublishedGrows DEF FeedInv
    <3>3. pc'[s] \notin {"deciding", "asleep"}
      BY <2>1, NotifiedPlaces DEF MutexFree
    <3>4. QED
      BY <2>1, <3>1, <3>2, <3>3 DEF FeedInv
  <2>4. QED
    BY <2>2, <2>3 DEF FeedInv
<1>3. CASE StartGrpcServer \/ StopDone
  <2>1. /\ frameSeq' = 0
        /\ published' = <<>>
        /\ seen' = [s \in Subscribers |-> 0]
        /\ UNCHANGED pc
        /\ \A s \in Subscribers : pc[s] = "off"
    BY <1>3 DEF StartGrpcServer, StopDone, CallsReturned, FreshStream, ServerInv
  <2>2. QED
    BY <2>1 DEF FeedInv
<1>4. ASSUME NEW p \in Paths, NEW outcome \in RecordOutcomes, StartRecording(p, outcome)
      PROVE  FeedInv'
  BY <1>4 DEF StartRecording, FeedInv
<1>5. CASE StopRecording \/ StopSetFlag \/ StopShutdown
  BY <1>5 DEF StopRecording, StopSetFlag, StopShutdown, FeedInv
<1>6. CASE StopNotify
  <2>1. pc' = Notified /\ UNCHANGED <<frameSeq, latest, published, seen, payload>>
    BY <1>6 DEF StopNotify
  <2>2. QED
    BY <2>1, NotifiedPlaces DEF FeedInv
<1>7. ASSUME NEW s \in Subscribers, Call(s)
      PROVE  FeedInv'
  <2>1. UNCHANGED <<frameSeq, latest, published>>
    BY <1>7, CallLeaves
  <2>2. CASE Connect(s)
    BY <2>1, <2>2 DEF Connect, FeedInv, TypeOK
  <2>3. CASE Take(s)
    <3>1. /\ pc' = [pc EXCEPT ![s] = "writing"]
          /\ seen' = [seen EXCEPT ![s] = frameSeq]
          /\ payload' = [payload EXCEPT ![s] = latest]
          /\ frameSeq > seen[s]
      BY <2>3 DEF Take, MovesTo
    <3>2. seen[s] \in Nat /\ frameSeq \in Nat
      BY DEF TypeOK
    <3>3. latest = published[frameSeq]
      BY <3>1, <3>2 DEF FeedInv
    <3>4. ASSUME NEW t \in Subscribers
          PROVE  /\ seen'[t] <= frameSeq
                 /\ seen'[t] > 0 => payload'[t] = published[seen'[t]]
                 /\ pc'[t] \in {"deciding", "asleep"} => seen'[t] = frameSeq
      <4>1. CASE t = s
        BY <3>1, <3>2, <3>3, <4>1 DEF TypeOK
      <4>2. CASE t # s
        <5>1. pc'[t] = pc[t] /\ seen'[t] = seen[t] /\ payload'[t] = payload[t]
          BY <3>1, <4>2 DEF TypeOK
        <5>2. QED
          BY <5>1 DEF FeedInv
      <4>3. QED
        BY <4>1, <4>2
    <3>5. QED
      BY <2>1, <3>4 DEF FeedInv
  <2>4. CASE Decide(s)
    <3>1. /\ pc' = [pc EXCEPT ![s] = "deciding"]
          /\ frameSeq <= seen[s]
          /\ UNCHANGED <<seen, payload>>
      BY <2>4 DEF Decide, MovesTo
    <3>2. seen[s] = frameSeq
      BY <3>1 DEF FeedInv, TypeOK
    <3>3. QED
      BY <2>1, <3>1, <3>2 DEF FeedInv, TypeOK
  <2>5. CASE Sleep(s)
    BY <2>1, <2>5 DEF Sleep, MovesTo, FeedInv, TypeOK
  <2>6. CASE Cancel(s)
    BY <2>1, <2>6 DEF Cancel, FeedInv
  <2>7. CASE Leave(s) \/ SpuriousWakeup(s) \/ WriteDone(s) \/ WriteFailed(s)
    <3>1. /\ UNCHANGED <<seen, payload>>
          /\ \E to \in {"off", "enter"} : pc' = [pc EXCEPT ![s] = to]
      BY <2>7 DEF Leave, SpuriousWakeup, WriteDone, WriteFailed, MovesTo
    <3>2. QED
      BY <2>1, <3>1 DEF FeedInv, TypeOK
  <2>8. QED
    BY <1>7, <2>2, <2>3, <2>4, <2>5, <2>6, <2>7 DEF Call, Handler, HandlerAlone
<1>8. CASE UNCHANGED vars
  BY <1>8 DEF vars, FeedInv
<1>9. QED
  BY <1>1, <1>2, <1>3, <1>4, <1>5, <1>6, <1>7, <1>8 DEF Next, GlThread, UiThread, StopStep

LEMMA PublishedFrames ==
  ASSUME TypeOK
  PROVE  \A i \in DOMAIN published : published[i] \in FrameType
<1>1. published \in Seq(FrameType)
  BY DEF TypeOK
<1>2. QED
  BY <1>1

(* A step that leaves the depths and the frames alone keeps DepthInv.       *)
LEMMA DepthInvFrame ==
  ASSUME DepthInv, UNCHANGED <<gl, pending, published>>
  PROVE  DepthInv'
BY DEF DepthInv, DepthNotAhead, DepthAttachedOnce, ConsumedDepthIsSent

LEMMA DepthInvStep ==
  ASSUME TypeOK, ServerInv, DepthInv, [Next]_vars
  PROVE  DepthInv'
<1> USE DEF serverVars, depthVars, feedVars, callVars, recVars
<1>1. ASSUME NEW ts \in 1..MaxTs, UpdateDepth(ts)
      PROVE  DepthInv'
  <2>1. /\ pending' = [seq |-> pending.seq + 1, ts |-> ts, published |-> FALSE]
        /\ UNCHANGED <<gl, published>>
        /\ gl = Idle
    BY <1>1 DEF UpdateDepth, ServerInv
  <2>2. pending.seq \in Nat
    BY DEF TypeOK
  <2>3. gl.frame.depth = 0
    BY <2>1 DEF Idle, NoFrame
  <2>4. \A i \in DOMAIN published : published[i].depth \in Nat
    BY PublishedFrames DEF FrameType
  <2>5. \A i \in DOMAIN published' : published'[i].depth < pending'.seq
    BY <2>1, <2>2, <2>4 DEF DepthInv
  <2>6. DepthNotAhead' /\ DepthAttachedOnce'
    BY <2>1 DEF DepthInv, DepthNotAhead, DepthAttachedOnce
  <2>7. ConsumedDepthIsSent'
    BY <2>1 DEF ConsumedDepthIsSent
  <2>8. QED
    BY <2>1, <2>2, <2>3, <2>4, <2>5, <2>6, <2>7 DEF DepthInv
<1>2. ASSUME NEW ts \in 1..MaxTs, BuildFrame(ts)
      PROVE  DepthInv'
  <2>1. UNCHANGED published /\ gl = Idle
    BY <1>2 DEF BuildFrame, ServerInv
  <2>2. DepthNotAhead' /\ DepthAttachedOnce'
    BY <2>1 DEF DepthInv, DepthNotAhead, DepthAttachedOnce
  <2>3. CASE ConsumeDepth(ts)
    <3>1. /\ ~pending.published
          /\ pending.seq > 0
          /\ ts >= pending.ts
          /\ pending' = [pending EXCEPT !.published = TRUE]
          /\ gl' = [at |-> "built",
                    frame |-> [ts |-> ts, depth |-> pending.seq, depthTs |-> pending.ts]]
      BY <2>3 DEF ConsumeDepth, DepthReady, Built
    <3>2. /\ pending'.seq = pending.seq
          /\ pending'.published
          /\ pending.ts \in Nat
      BY <3>1 DEF TypeOK
    <3>3. ConsumedDepthIsSent'
      BY <3>1, <3>2 DEF ConsumedDepthIsSent
    <3>4. \A i \in DOMAIN published' : published'[i].depth < pending'.seq
      BY <2>1, <3>1, <3>2 DEF DepthInv
    <3>5. \A i \in DOMAIN published' : published'[i].depth <= pending'.seq
      BY <2>1, <3>2 DEF DepthInv
    <3>6. QED
      BY <2>2, <3>1, <3>2, <3>3, <3>4, <3>5 DEF DepthInv
  <2>4. CASE ~DepthReady(ts) /\ Built(ts, 0, 0) /\ UNCHANGED pending
    <3>1. gl' = [at |-> "built", frame |-> [ts |-> ts, depth |-> 0, depthTs |-> 0]]
      BY <2>4 DEF Built
    <3>2. gl.frame.depth = 0 /\ gl.at = "idle"
      BY <2>1 DEF Idle, NoFrame
    <3>3. ConsumedDepthIsSent'
      BY <2>1, <2>4, <3>2 DEF DepthInv, ConsumedDepthIsSent
    <3>4. QED
      BY <2>1, <2>2, <2>4, <3>1, <3>2, <3>3 DEF DepthInv
  <2>5. QED
    BY <1>2, <2>3, <2>4 DEF BuildFrame
<1>3. ASSUME NEW good \in BOOLEAN, PublishFrame(good)
      PROVE  DepthInv'
  <2> DEFINE n == Len(published)
  <2>1. /\ gl' = Idle
        /\ gl.at = "built"
        /\ UNCHANGED pending
    BY <1>3 DEF PublishFrame
  <2>2. n \in Nat
    BY DEF TypeOK
  <2>3. /\ DOMAIN published = 1..n
        /\ DOMAIN published' = 1..(n + 1)
        /\ \A i \in 1..n : published'[i] = published[i]
        /\ published'[n + 1] = gl.frame
    BY <1>3, PublishedGrows
  <2> HIDE DEF n
  <2>4. /\ pending.seq \in Nat
        /\ gl.frame.depth \in Nat
        /\ \A i \in 1..n : published[i].depth \in Nat
    <3>1. gl.frame \in FrameType /\ pending.seq \in Nat
      BY DEF TypeOK
    <3>2. QED
      BY <2>3, <3>1, PublishedFrames DEF FrameType
  <2>5. DepthNotAhead'
    BY <2>2, <2>3 DEF DepthInv, DepthNotAhead
  <2>6. gl.frame.depth # 0 => \A i \in 1..n : published[i].depth < gl.frame.depth
    BY <2>3 DEF DepthInv
  <2>7. DepthAttachedOnce'
    <3>1. SUFFICES ASSUME NEW i \in 1..(n + 1), NEW j \in 1..(n + 1), i < j,
                          published'[i].depth # 0, published'[j].depth # 0
                   PROVE  published'[i].depth < published'[j].depth
      BY <2>3 DEF DepthAttachedOnce
    <3>2. i \in 1..n
      BY <2>2, <3>1
    <3>3. CASE j = n + 1
      BY <2>3, <2>6, <3>1, <3>2, <3>3
    <3>4. CASE j \in 1..n
      BY <2>3, <3>1, <3>2, <3>4 DEF DepthInv, DepthAttachedOnce
    <3>5. QED
      BY <2>2, <3>3, <3>4
  <2>8. ConsumedDepthIsSent'
    <3>1. SUFFICES ASSUME pending.seq > 0, pending.published
                   PROVE  \E i \in 1..(n + 1) : published'[i].depth = pending.seq
      BY <2>1, <2>3 DEF ConsumedDepthIsSent
    <3>2. CASE gl.frame.depth = pending.seq
      BY <2>2, <2>3, <3>2
    <3>3. CASE \E i \in DOMAIN published : published[i].depth = pending.seq
      BY <2>2, <2>3, <3>3
    <3>4. QED
      BY <3>1, <3>2, <3>3 DEF DepthInv, ConsumedDepthIsSent
  <2>9. \A i \in 1..(n + 1) : published'[i].depth <= pending.seq
    BY <2>2, <2>3, <2>4 DEF DepthInv
  <2>10. ~pending.published => \A i \in 1..(n + 1) : published'[i].depth < pending.seq
    BY <2>2, <2>3, <2>4 DEF DepthInv
  <2>11. gl'.frame.depth = 0 /\ gl'.frame.depthTs = 0 /\ gl'.frame.ts = 0
    BY <2>1 DEF Idle, NoFrame
  <2>12. QED
    BY <2>1, <2>3, <2>5, <2>7, <2>8, <2>9, <2>10, <2>11 DEF DepthInv
<1>4. CASE StartGrpcServer \/ StopDone
  <2>1. /\ published' = <<>>
        /\ pending' = NoPending
        /\ gl' = Idle
    BY <1>4 DEF StartGrpcServer, StopDone, FreshStream, ServerInv
  <2>2. DOMAIN published' = {}
    BY <2>1, EmptyDomain
  <2>3. QED
    BY <2>1, <2>2 DEF DepthInv, DepthNotAhead, DepthAttachedOnce, ConsumedDepthIsSent,
                      NoPending, Idle, NoFrame
<1>5. ASSUME NEW p \in Paths, NEW outcome \in RecordOutcomes, StartRecording(p, outcome)
      PROVE  DepthInv'
  BY <1>5, DepthInvFrame DEF StartRecording
<1>6. CASE StopRecording \/ StopSetFlag \/ StopShutdown \/ StopNotify
  BY <1>6, DepthInvFrame DEF StopRecording, StopSetFlag, StopShutdown, StopNotify
<1>7. ASSUME NEW s \in Subscribers, Call(s)
      PROVE  DepthInv'
  BY <1>7, CallLeaves, DepthInvFrame
<1>8. CASE UNCHANGED vars
  BY <1>8, DepthInvFrame DEF vars
<1>9. QED
  BY <1>1, <1>2, <1>3, <1>4, <1>5, <1>6, <1>7, <1>8 DEF Next, GlThread, UiThread, StopStep

LEMMA DeliveredInvStep ==
  ASSUME TypeOK, ServerInv, FeedInv, DeliveredInv, [Next]_vars
  PROVE  DeliveredInv'
<1> USE DEF serverVars, depthVars, feedVars, callVars, recVars
<1>1. CASE UNCHANGED <<delivered, seen, pc>>
  BY <1>1 DEF DeliveredInv
<1>2. CASE pc' = Notified /\ UNCHANGED <<delivered, seen>>
  BY <1>2, NotifiedPlaces DEF DeliveredInv
<1>3. CASE StartGrpcServer \/ StopDone
  <2>1. delivered' = [s \in Subscribers |-> <<>>]
    BY <1>3 DEF StartGrpcServer, StopDone, FreshStream
  <2>2. \A s \in Subscribers : DOMAIN delivered'[s] = {}
    BY <2>1, EmptyDomain
  <2>3. QED
    BY <2>2 DEF DeliveredInv
<1>4. ASSUME NEW s \in Subscribers, Call(s)
      PROVE  DeliveredInv'
  <2>1. CASE Connect(s)
    <3>1. /\ \A t \in Subscribers \ {s} :
                pc'[t] = pc[t] /\ seen'[t] = seen[t] /\ delivered'[t] = delivered[t]
          /\ delivered'[s] = <<>>
      BY <2>1 DEF Connect, TypeOK
    <3>2. DOMAIN delivered'[s] = {}
      BY <3>1, EmptyDomain
    <3>3. QED
      BY <3>1, <3>2 DEF DeliveredInv
  <2>2. CASE Take(s)
    <3>1. /\ \A t \in Subscribers \ {s} : pc'[t] = pc[t] /\ seen'[t] = seen[t]
          /\ seen'[s] = frameSeq
          /\ frameSeq > seen[s]
          /\ UNCHANGED delivered
      BY <2>2 DEF Take, MovesTo, TypeOK
    <3>2. \A i \in DOMAIN delivered[s] : delivered[s][i] \in Nat
      BY DEF TypeOK
    <3>3. seen[s] \in Nat /\ frameSeq \in Nat
      BY DEF TypeOK
    <3>4. QED
      BY <3>1, <3>2, <3>3 DEF DeliveredInv
  <2>3. CASE WriteDone(s)
    <3>1. /\ \A t \in Subscribers \ {s} : pc'[t] = pc[t] /\ delivered'[t] = delivered[t]
          /\ pc[s] = "writing"
          /\ pc'[s] = "enter"
          /\ delivered'[s] = Append(delivered[s], seen[s])
          /\ UNCHANGED seen
      BY <2>3 DEF WriteDone, MovesTo, TypeOK
    <3> DEFINE n == Len(delivered[s])
    <3>2. seen[s] \in Nat /\ delivered[s] \in Seq(Nat) /\ n \in Nat
      BY DEF TypeOK
    <3>3. /\ DOMAIN delivered[s] = 1..n
          /\ DOMAIN delivered'[s] = 1..(n + 1)
          /\ \A i \in 1..n : delivered'[s][i] = delivered[s][i]
          /\ delivered'[s][n + 1] = seen[s]
      BY <3>1, <3>2, AppendProperties
    <3> HIDE DEF n
    <3>4. \A i \in 1..n : delivered[s][i] < seen[s]
      BY <3>1, <3>3 DEF DeliveredInv
    <3>5. \A i, j \in 1..n : i < j => delivered[s][i] < delivered[s][j]
      BY <3>3 DEF DeliveredInv
    <3>6. \A i \in 1..n : delivered[s][i] \in Nat
      BY <3>2, <3>3
    <3>7. \A i \in 1..(n + 1) : delivered'[s][i] <= seen[s]
      BY <3>2, <3>3, <3>4, <3>6
    <3>8. \A i, j \in 1..(n + 1) : i < j => delivered'[s][i] < delivered'[s][j]
      BY <3>2, <3>3, <3>4, <3>5
    <3>9. QED
      BY <3>1, <3>3, <3>7, <3>8 DEF DeliveredInv
  <2>4. CASE Cancel(s)
    BY <2>4 DEF Cancel, DeliveredInv
  <2>5. CASE Leave(s) \/ Decide(s) \/ Sleep(s) \/ SpuriousWakeup(s) \/ WriteFailed(s)
    <3>1. /\ UNCHANGED <<seen, delivered>>
          /\ \E to \in {"off", "enter", "deciding", "asleep"} : pc' = [pc EXCEPT ![s] = to]
      BY <2>5 DEF Leave, Decide, Sleep, SpuriousWakeup, WriteFailed, MovesTo
    <3>2. \A t \in Subscribers : pc'[t] = "writing" => pc[t] = "writing"
      BY <3>1 DEF TypeOK
    <3>3. QED
      BY <3>1, <3>2 DEF DeliveredInv
  <2>6. QED
    BY <1>4, <2>1, <2>2, <2>3, <2>4, <2>5 DEF Call, Handler, HandlerAlone
<1>5. QED
  BY <1>1, <1>2, <1>3, <1>4
     DEF Next, GlThread, UiThread, StopStep, UpdateDepth, BuildFrame, PublishFrame,
         StartRecording, StopRecording, StopSetFlag, StopNotify, StopShutdown, vars

(* The four parts hold together in every behaviour.                         *)
THEOREM Invariance == Spec => []IInv
<1>1. Init => IInv
  BY InitIInv DEF IInv
<1>2. IInv /\ [Next]_vars => IInv'
  BY TypeStep, ServerInvStep, FeedInvStep, DepthInvStep, DeliveredInvStep DEF IInv
<1>3. QED
  BY <1>1, <1>2, PTL DEF Spec

-----------------------------------------------------------------------------
(* The safety properties. *)

(* Calls are sent frames that were published, under their own numbers and   *)
(* in order: StreamFrames' copy is whole and matches its seen_seq.          *)
THEOREM DeliveryCorrect == Spec => []DeliversRealFramesInOrder
<1>1. IInv => DeliversRealFramesInOrder
  <2> SUFFICES ASSUME IInv, NEW s \in Subscribers
               PROVE  /\ seen[s] \in 0..Len(published)
                      /\ seen[s] > 0 => payload[s] = published[seen[s]]
                      /\ \A i, j \in DOMAIN delivered[s] :
                           i < j => delivered[s][i] < delivered[s][j]
    BY DEF DeliversRealFramesInOrder
  <2>1. seen[s] \in 0..Len(published)
    BY DEF IInv, TypeOK, FeedInv
  <2>2. QED
    BY <2>1 DEF IInv, FeedInv, DeliveredInv
<1>2. QED
  BY <1>1, Invariance, PTL

(* No frame is published between a handler's last look and its sleep: the   *)
(* use of mutex_ by PublishFrame and by cv_.wait excludes the lost wakeup.  *)
THEOREM NoLostFrameWakeup == Spec => []NoSleeperMissesAFrame
<1>1. IInv => NoSleeperMissesAFrame
  BY DEF IInv, FeedInv, NoSleeperMissesAFrame
<1>2. QED
  BY <1>1, Invariance, PTL

(* ConsumeDepthForFrame hands each depth update to one frame at most.       *)
THEOREM DepthOnce == Spec => []DepthAttachedOnce
<1>1. IInv => DepthAttachedOnce
  BY DEF IInv, DepthInv
<1>2. QED
  BY <1>1, Invariance, PTL

(* A depth image never rides on a frame older than itself.                  *)
THEOREM DepthInTime == Spec => []DepthNotAhead
<1>1. IInv => DepthNotAhead
  BY DEF IInv, DepthInv
<1>2. QED
  BY <1>1, Invariance, PTL

(* PushFrameYuvNv21 publishes every depth it takes.                         *)
THEOREM DepthNotLost == Spec => []ConsumedDepthIsSent
<1>1. IInv => ConsumedDepthIsSent
  BY DEF IInv, DepthInv
<1>2. QED
  BY <1>1, Invariance, PTL

-----------------------------------------------------------------------------
(* The refinement. *)

LEMMA InitRefines == Init => Feed!Init
BY DEF Init, Feed!Init, DepthOnOffer, Idle, NoFrame, NoPending

LEMMA StepRefines ==
  ASSUME IInv, [Next]_vars
  PROVE  [Feed!Next]_(Feed!vars)
<1> USE DEF serverVars, depthVars, feedVars, callVars, recVars
<1>1. CASE UNCHANGED <<gl, pending, published, seen, payload>>
  BY <1>1 DEF Feed!vars, DepthOnOffer
<1>2. ASSUME NEW ts \in 1..MaxTs, UpdateDepth(ts)
      PROVE  Feed!Offer
  <2>1. /\ pending' = [seq |-> pending.seq + 1, ts |-> ts, published |-> FALSE]
        /\ UNCHANGED <<gl, published, seen, payload>>
        /\ gl.at = "idle"
    BY <1>2 DEF UpdateDepth
  <2>2. pending.seq \in Nat
    BY DEF IInv, TypeOK
  <2>3. DepthOnOffer' = pending.seq + 1 /\ DepthOnOffer \in {0, pending.seq}
    BY <2>1 DEF DepthOnOffer
  <2>4. \A i \in DOMAIN published : published[i].depth \in Nat
    BY PublishedFrames DEF IInv, FrameType
  <2>5. \A i \in DOMAIN published : published[i].depth < pending.seq + 1
    BY <2>2, <2>4 DEF IInv, DepthInv
  <2>6. QED
    BY <2>1, <2>2, <2>3, <2>5 DEF Feed!Offer
<1>3. ASSUME NEW ts \in 1..MaxTs, BuildFrame(ts)
      PROVE  UNCHANGED Feed!vars
  <2>1. UNCHANGED <<published, seen, payload>> /\ gl.at = "idle"
    BY <1>3 DEF BuildFrame
  <2>2. CASE ConsumeDepth(ts)
    <3>1. /\ ~pending.published
          /\ pending.seq > 0
          /\ gl'.at = "built"
          /\ gl'.frame.depth = pending.seq
      BY <2>2 DEF ConsumeDepth, DepthReady, Built
    <3>2. pending.seq # 0
      BY <3>1 DEF IInv, TypeOK
    <3>3. QED
      BY <2>1, <3>1, <3>2 DEF DepthOnOffer, Feed!vars
  <2>3. CASE ~DepthReady(ts) /\ Built(ts, 0, 0) /\ UNCHANGED pending
    <3>1. gl'.frame.depth = 0
      BY <2>3 DEF Built
    <3>2. QED
      BY <2>1, <2>3, <3>1 DEF DepthOnOffer, Feed!vars
  <2>4. QED
    BY <1>3, <2>2, <2>3 DEF BuildFrame
<1>4. ASSUME NEW good \in BOOLEAN, PublishFrame(good)
      PROVE  Feed!Publish
  <2>1. /\ gl.at = "built"
        /\ gl' = Idle
        /\ published' = Append(published, gl.frame)
        /\ UNCHANGED <<pending, seen, payload>>
    BY <1>4 DEF PublishFrame
  <2>2. gl.frame \in FrameType
    BY DEF IInv, TypeOK
  <2>3. gl'.at = "idle"
    BY <2>1 DEF Idle
  <2>4. DepthOnOffer' = IF pending.published THEN 0 ELSE pending.seq
    BY <2>1, <2>3 DEF DepthOnOffer
  <2>5. gl.frame.depth # 0 => pending.published
    BY DEF IInv, DepthInv
  <2>6. /\ gl.frame.depth \in {0, DepthOnOffer}
        /\ DepthOnOffer' = IF gl.frame.depth = 0 THEN DepthOnOffer ELSE 0
    BY <2>1, <2>4, <2>5 DEF DepthOnOffer
  <2>7. QED
    BY <2>1, <2>2, <2>6 DEF Feed!Publish
<1>5. ASSUME StartGrpcServer
      PROVE  UNCHANGED <<gl, pending, published, seen, payload>>
  BY <1>5 DEF StartGrpcServer, FreshStream, IInv, ServerInv
<1>6. ASSUME StopDone
      PROVE  Feed!Restart
  <2>1. gl' = Idle /\ pending' = NoPending
    BY <1>6 DEF StopDone, FreshStream, IInv, ServerInv
  <2>2. DepthOnOffer' = 0
    BY <2>1 DEF DepthOnOffer, Idle, NoPending
  <2>3. QED
    BY <1>6, <2>2 DEF StopDone, FreshStream, Feed!Restart
<1>7. ASSUME NEW s \in Subscribers, Connect(s)
      PROVE  Feed!Join(s)
  BY <1>7 DEF Connect, Feed!Join, DepthOnOffer
<1>8. ASSUME NEW s \in Subscribers, Take(s)
      PROVE  Feed!Deliver(s)
  <2>1. /\ frameSeq > seen[s]
        /\ seen' = [seen EXCEPT ![s] = frameSeq]
        /\ payload' = [payload EXCEPT ![s] = latest]
        /\ UNCHANGED <<gl, pending, published>>
    BY <1>8 DEF Take
  <2>2. frameSeq \in Nat /\ seen[s] \in Nat
    BY DEF IInv, TypeOK
  <2>3. frameSeq = Len(published) /\ latest = published[Len(published)]
    BY <2>1, <2>2 DEF IInv, FeedInv
  <2>4. QED
    BY <2>1, <2>2, <2>3 DEF Feed!Deliver, DepthOnOffer
<1>9. QED
  BY <1>1, <1>2, <1>3, <1>4, <1>5, <1>6, <1>7, <1>8
     DEF Next, GlThread, UiThread, StopStep, Call, Handler, HandlerAlone, Cancel, Leave, Decide, Sleep,
         SpuriousWakeup, WriteDone, WriteFailed, StartRecording, StopRecording, StopSetFlag,
         StopNotify, StopShutdown, vars, Feed!Next

(* The threads, the lock and the buffers implement the abstract feed.       *)
THEOREM Refinement == Spec => ImplementsFeed
<1>1. Init => Feed!Init
  BY InitRefines
<1>2. IInv /\ [Next]_vars => [Feed!Next]_(Feed!vars)
  BY StepRefines
<1>3. QED
  BY <1>1, <1>2, Invariance, PTL DEF Spec, Feed!Spec, ImplementsFeed

-----------------------------------------------------------------------------
(* The recorder. *)

(* The history's timestamps never go back, nor does the frame in hand.      *)
TimeInv ==
  /\ \A i, j \in DOMAIN published : i <= j => published[i].ts <= published[j].ts
  /\ gl.at = "built" => \A i \in DOMAIN published : published[i].ts <= gl.frame.ts

(* The three members of the recorder agree with each other, with the        *)
(* history and with the file.                                               *)
RecorderInv ==
  /\ recording <=> recPath # NoPath
  /\ recFrom <= frameSeq
  /\ recording => startTs = IF recFrom = frameSeq THEN -1 ELSE published[recFrom + 1].ts
  /\ RecordingIsTheStream
  /\ FilesCanBeReplayed

LEMMA TimeInvStep ==
  ASSUME IInv, TimeInv, [Next]_vars
  PROVE  TimeInv'
<1> USE DEF serverVars, depthVars, feedVars, callVars, recVars
<1>1. CASE UNCHANGED <<gl, published>>
  BY <1>1 DEF TimeInv
<1>2. ASSUME NEW ts \in 1..MaxTs, BuildFrame(ts)
      PROVE  TimeInv'
  <2>1. /\ UNCHANGED published
        /\ ts >= latest.ts
        /\ gl'.frame.ts = ts
    BY <1>2 DEF BuildFrame, ConsumeDepth, Built
  <2>2. ASSUME NEW i \in DOMAIN published
        PROVE  published[i].ts <= ts
    <3>1. /\ i \in 1..frameSeq
          /\ frameSeq \in DOMAIN published
          /\ latest = published[frameSeq]
      <4>1. published \in Seq(FrameType) /\ frameSeq = Len(published) /\ frameSeq \in Nat
        BY DEF IInv, TypeOK, FeedInv
      <4>2. i \in 1..frameSeq
        BY <2>2, <4>1
      <4>3. frameSeq > 0 /\ frameSeq \in 1..frameSeq
        BY <4>1, <4>2
      <4>4. DOMAIN published = 1..frameSeq
        BY <4>1
      <4>5. QED
        BY <4>2, <4>3, <4>4 DEF IInv, FeedInv
    <3>2. published[i].ts <= latest.ts
      BY <2>2, <3>1 DEF TimeInv
    <3>3. published[i].ts \in Nat /\ latest.ts \in Nat
      BY <2>2, <3>1, PublishedFrames DEF IInv, FrameType
    <3>4. QED
      BY <2>1, <3>2, <3>3
  <2>3. QED
    BY <2>1, <2>2 DEF TimeInv
<1>3. ASSUME NEW good \in BOOLEAN, PublishFrame(good)
      PROVE  TimeInv'
  <2> DEFINE n == Len(published)
  <2>1. n \in Nat /\ gl.at = "built" /\ gl' = Idle
    BY <1>3 DEF PublishFrame, IInv, TypeOK
  <2>2. /\ DOMAIN published = 1..n
        /\ DOMAIN published' = 1..(n + 1)
        /\ \A i \in 1..n : published'[i] = published[i]
        /\ published'[n + 1] = gl.frame
    BY <1>3, PublishedGrows DEF IInv
  <2> HIDE DEF n
  <2>3. gl.frame.ts \in Nat
    <3>1. gl.frame \in FrameType
      BY DEF IInv, TypeOK
    <3>2. QED
      BY <3>1 DEF FrameType
  <2>4. ASSUME NEW i \in 1..(n + 1), NEW j \in 1..(n + 1), i <= j
        PROVE  published'[i].ts <= published'[j].ts
    <3>1. CASE j = n + 1 /\ i = n + 1
      BY <2>2, <2>3, <3>1
    <3>2. CASE j = n + 1 /\ i \in 1..n
      BY <2>1, <2>2, <3>2 DEF TimeInv
    <3>3. CASE j \in 1..n
      <4>1. i \in 1..n
        BY <2>1, <2>4, <3>3
      <4>2. QED
        BY <2>2, <2>4, <3>3, <4>1 DEF TimeInv
    <3>4. QED
      BY <2>1, <3>1, <3>2, <3>3
  <2>5. gl'.at = "idle"
    BY <2>1 DEF Idle
  <2>6. QED
    BY <2>2, <2>4, <2>5 DEF TimeInv
<1>4. CASE StartGrpcServer \/ StopDone
  <2>1. published' = <<>> /\ gl' = Idle
    BY <1>4 DEF StartGrpcServer, StopDone, FreshStream, IInv, ServerInv
  <2>2. DOMAIN published' = {} /\ gl'.at = "idle"
    BY <2>1, EmptyDomain DEF Idle
  <2>3. QED
    BY <2>2 DEF TimeInv
<1>5. QED
  BY <1>1, <1>2, <1>3, <1>4, CallLeaves
     DEF Next, GlThread, UiThread, StopStep, UpdateDepth, StartRecording, StopRecording,
         StopSetFlag, StopNotify, StopShutdown, vars

(* The two statements about files, for the file p alone.                    *)
Replayable(f) ==
  /\ f.records # <<>> => f.header /\ f.records[1].rel = 0
  /\ \A i \in 1..(Len(f.records) - 1) :
       /\ f.records[i].whole
       /\ f.records[i + 1].seq = f.records[i].seq + 1
       /\ f.records[i + 1].rel >= f.records[i].rel

LEMMA EmptyReplayable ==
  ASSUME NEW h \in BOOLEAN
  PROVE  Replayable([header |-> h, records |-> <<>>])
BY DEF Replayable

LEMMA AppendedRecord ==
  ASSUME NEW seq \in Seq(RecordType), NEW r \in RecordType, NEW len \in Nat,
         Len(seq) = len
  PROVE  /\ Len(Append(seq, r)) = len + 1
         /\ DOMAIN Append(seq, r) = 1..(len + 1)
         /\ \A i \in 1..len : Append(seq, r)[i] = seq[i]
         /\ Append(seq, r)[len + 1] = r
         /\ Append(seq, r) # <<>>
<1>1. /\ Append(seq, r) \in Seq(RecordType)
      /\ Len(Append(seq, r)) = len + 1
      /\ \A i \in 1..len : Append(seq, r)[i] = seq[i]
      /\ Append(seq, r)[len + 1] = r
  BY AppendProperties
<1>2. DOMAIN Append(seq, r) = 1..(len + 1)
  BY <1>1
<1>3. Append(seq, r) # <<>>
  <2>1. Len(Append(seq, r)) # 0
    BY <1>1
  <2>2. Len(<<>>) = 0
    OBVIOUS
  <2>3. QED
    BY <2>1, <2>2, Zenon
<1>4. QED
  BY <1>1, <1>2, <1>3

(* The record of the frame in hand continues the file of a running          *)
(* recording: the file is replayable whatever the write does to it, and     *)
(* still the stream if the write succeeds.                                  *)
LEMMA RecordContinues ==
  ASSUME IInv, TimeInv, RecorderInv, recording,
         NEW good \in BOOLEAN, PublishFrame(good)
  PROVE  /\ Replayable(files'[recPath])
         /\ good => RecordingIsTheStream'
         /\ good => startTs' = published'[recFrom + 1].ts
<1> DEFINE n     == frameSeq
           k     == n - recFrom
           f     == gl.frame
           start == RecordStart(f.ts)
           rel   == IF f.ts > start THEN f.ts - start ELSE 0
           rec   == [rel |-> rel, seq |-> n + 1, whole |-> good]
           old   == files[recPath].records
<1>1. /\ n \in Nat /\ recFrom \in Nat /\ k \in Nat
      /\ recPath \in Paths
      /\ Len(published) = n
      /\ old \in Seq(RecordType)
  BY DEF IInv, TypeOK, FeedInv, RecorderInv
<1>2. /\ DOMAIN published = 1..n
      /\ DOMAIN published' = 1..(n + 1)
      /\ \A i \in 1..n : published'[i] = published[i]
      /\ published'[n + 1] = f
  BY <1>1, PublishedGrows DEF IInv
<1>3. /\ gl.at = "built"
      /\ frameSeq' = n + 1
      /\ recFrom' = recFrom
      /\ MaybeRecordLocked(f, n + 1, good)
  BY DEF PublishFrame
<1>4. f.ts \in Nat /\ \A i \in 1..n : published[i].ts \in Nat
  <2>1. f \in FrameType
    BY DEF IInv, TypeOK
  <2>2. QED
    BY <1>2, <2>1, PublishedFrames DEF IInv, FrameType
<1>5. /\ files[recPath].header
      /\ Len(old) = k
      /\ \A i \in 1..k :
           /\ old[i].seq = recFrom + i
           /\ old[i].whole
           /\ old[i].rel = published[recFrom + i].ts - published[recFrom + 1].ts
  <2>1. DOMAIN old = 1..k
    BY <1>1 DEF RecorderInv, RecordingIsTheStream
  <2>2. QED
    BY <1>1, <2>1 DEF RecorderInv, RecordingIsTheStream
<1>6. start = published'[recFrom + 1].ts /\ start \in Nat /\ start <= f.ts
  <2>1. CASE recFrom = n
    <3>1. startTs = -1
      BY <2>1 DEF RecorderInv
    <3>2. QED
      BY <1>2, <1>4, <2>1, <3>1 DEF RecordStart
  <2>2. CASE recFrom # n
    <3>1. recFrom + 1 \in 1..n
      BY <1>1, <2>2
    <3>2. startTs = published[recFrom + 1].ts
      BY <2>2 DEF RecorderInv
    <3>3. published[recFrom + 1].ts <= f.ts
      BY <1>2, <1>3, <3>1 DEF TimeInv
    <3>4. QED
      BY <1>2, <1>4, <3>1, <3>2, <3>3 DEF RecordStart
  <2>3. QED
    BY <2>1, <2>2
<1>7. rel = f.ts - start /\ rel \in Nat /\ rec \in RecordType
  BY <1>1, <1>4, <1>6 DEF RecordType
<1>8. /\ files' = [files EXCEPT ![recPath].records = Append(@, rec)]
      /\ AfterWrite(good, start)
  <2>1. recPath # NoPath
    BY <1>1
  <2>2. QED
    BY <1>3, <2>1 DEF MaybeRecordLocked
<1> DEFINE new == Append(old, rec)
<1>9. /\ files'[recPath].records = new
      /\ files'[recPath].header = files[recPath].header
  BY <1>1, <1>8 DEF IInv, TypeOK
<1>10. /\ Len(new) = k + 1
       /\ DOMAIN new = 1..(k + 1)
       /\ \A i \in 1..k : new[i] = old[i]
       /\ new[k + 1] = rec
       /\ new # <<>>
  <2>1. Len(old) = k
    BY <1>5
  <2> HIDE DEF old, rec, k
  <2>2. QED
    BY <1>1, <1>7, <2>1, AppendedRecord
<1> HIDE DEF new, rec, rel, start, old, k, f, n
<1>11. rec.rel = f.ts - start /\ rec.seq = n + 1 /\ rec.whole = good
  BY <1>7 DEF rec
<1>12. k = n - recFrom
  BY DEF k
<1>13. \A i \in 1..k : old[i].rel = published'[recFrom + i].ts - start
  <2> SUFFICES ASSUME NEW i \in 1..k
               PROVE  old[i].rel = published'[recFrom + i].ts - start
    OBVIOUS
  <2>1. recFrom + i \in 1..n /\ recFrom + 1 \in 1..n
    BY <1>1, <1>12
  <2>2. QED
    BY <1>2, <1>5, <1>6, <2>1
<1>14. Replayable(files'[recPath])
  <2>1. new[1].rel = 0
    <3>1. CASE k = 0
      <4>1. recFrom = n /\ new[1] = rec
        BY <1>1, <1>10, <1>12, <3>1
      <4>2. start = f.ts
        BY <1>2, <1>6, <4>1
      <4>3. QED
        BY <1>4, <1>11, <4>1, <4>2
    <3>2. CASE k # 0
      <4>1. 1 \in 1..k
        BY <1>1, <3>2
      <4>2. new[1] = old[1] /\ old[1].rel = published'[recFrom + 1].ts - start
        BY <1>10, <1>13, <4>1
      <4>3. QED
        BY <1>6, <4>2
    <3>3. QED
      BY <3>1, <3>2
  <2>2. ASSUME NEW i \in 1..(Len(new) - 1)
        PROVE  /\ new[i].whole
               /\ new[i + 1].seq = new[i].seq + 1
               /\ new[i + 1].rel >= new[i].rel
    <3>1. i \in 1..k /\ new[i] = old[i]
      BY <1>1, <1>10
    <3>2. CASE i = k
      <4>1. new[i + 1] = rec
        BY <1>10, <3>2
      <4>2. recFrom + i = n /\ n \in 1..n
        BY <1>1, <1>12, <3>1, <3>2
      <4>3. new[i].rel = published[n].ts - start /\ new[i].seq = n /\ new[i].whole
        BY <1>2, <1>5, <1>13, <3>1, <4>2
      <4>4. published[n].ts <= f.ts
        BY <1>2, <1>3, <4>2 DEF TimeInv, f
      <4>5. published[n].ts \in Nat
        BY <1>4, <4>2
      <4>6. QED
        BY <1>4, <1>6, <1>11, <4>1, <4>3, <4>4, <4>5
    <3>3. CASE i # k
      <4>1. i + 1 \in 1..k /\ new[i + 1] = old[i + 1]
        BY <1>1, <1>10, <3>1, <3>3
      <4>2. recFrom + i \in 1..n /\ recFrom + (i + 1) \in 1..n
        BY <1>1, <1>12, <3>1, <4>1
      <4>3. published[recFrom + i].ts <= published[recFrom + (i + 1)].ts
        BY <1>1, <1>2, <4>2 DEF TimeInv
      <4>4. /\ new[i].rel = published[recFrom + i].ts - start
            /\ new[i + 1].rel = published[recFrom + (i + 1)].ts - start
        BY <1>2, <1>13, <3>1, <4>1, <4>2
      <4>5. published[recFrom + i].ts \in Nat /\ published[recFrom + (i + 1)].ts \in Nat
        BY <1>4, <4>2
      <4>6. new[i + 1].rel >= new[i].rel
        BY <1>6, <4>3, <4>4, <4>5
      <4>7. /\ new[i].whole
            /\ new[i].seq = recFrom + i
            /\ new[i + 1].seq = recFrom + (i + 1)
        BY <1>5, <3>1, <4>1
      <4>8. QED
        BY <1>1, <3>1, <4>6, <4>7
    <3>4. QED
      BY <3>2, <3>3
  <2>3. QED
    BY <1>5, <1>9, <2>1, <2>2 DEF Replayable
<1>15. ASSUME good
       PROVE  RecordingIsTheStream'
  <2>1. /\ recPath' = recPath
        /\ files'[recPath].header
    BY <1>5, <1>8, <1>9, <1>15 DEF AfterWrite
  <2>2. Len(new) = frameSeq' - recFrom'
    BY <1>1, <1>3, <1>10, <1>12
  <2>3. ASSUME NEW i \in 1..(k + 1)
        PROVE  /\ new[i].seq = recFrom + i
               /\ new[i].whole
               /\ new[i].rel = published'[recFrom + i].ts - start
    <3>1. CASE i \in 1..k
      BY <1>5, <1>10, <1>13, <3>1
    <3>2. CASE i = k + 1
      <4>1. recFrom + i = n + 1
        BY <1>1, <1>12, <3>2
      <4>2. QED
        BY <1>2, <1>10, <1>11, <1>15, <3>2, <4>1
    <3>3. QED
      BY <1>1, <3>1, <3>2
  <2>4. \A i \in DOMAIN new :
          /\ new[i].seq = recFrom' + i
          /\ new[i].whole
          /\ new[i].rel = published'[new[i].seq].ts - published'[recFrom' + 1].ts
    BY <1>3, <1>6, <1>10, <2>3
  <2>5. QED
    BY <1>1, <1>9, <2>1, <2>2, <2>4 DEF RecordingIsTheStream
<1>16. good => startTs' = published'[recFrom + 1].ts
  BY <1>6, <1>8 DEF AfterWrite
<1>17. QED
  BY <1>14, <1>15, <1>16

(* A step that leaves the recorder and the history alone.                   *)
LEMMA RecorderLeft ==
  ASSUME RecorderInv, UNCHANGED <<recVars, frameSeq, published>>
  PROVE  RecorderInv'
BY DEF RecorderInv, RecordingIsTheStream, FilesCanBeReplayed, recVars

LEMMA FilesReplayableAre ==
  FilesCanBeReplayed <=> \A p \in Paths : Replayable(files[p])
BY DEF FilesCanBeReplayed, Replayable

LEMMA RecorderInvStep ==
  ASSUME IInv, TimeInv, RecorderInv, [Next]_vars
  PROVE  RecorderInv'
<1> USE DEF serverVars, depthVars, feedVars, callVars, recVars
<1>1. CASE UNCHANGED <<recVars, frameSeq, published>>
  BY <1>1, RecorderLeft
<1>2. CASE StartGrpcServer \/ StopDone
  <2>1. /\ recording' = FALSE /\ recPath' = NoPath
        /\ recFrom' = 0 /\ frameSeq' = 0 /\ files' = files
    BY <1>2 DEF StartGrpcServer, StopDone, FreshStream
  <2>2. QED
    BY <2>1 DEF RecorderInv, RecordingIsTheStream, FilesCanBeReplayed
<1>3. ASSUME NEW good \in BOOLEAN, PublishFrame(good)
      PROVE  RecorderInv'
  <2>1. /\ recFrom' = recFrom /\ frameSeq' = frameSeq + 1
        /\ recFrom \in Nat /\ frameSeq \in Nat /\ recFrom <= frameSeq
        /\ MaybeRecordLocked(gl.frame, frameSeq + 1, good)
    BY <1>3 DEF PublishFrame, IInv, TypeOK, RecorderInv
  <2>2. CASE ~recording
    <3>1. UNCHANGED <<recPath, recording, startTs, files>>
      BY <2>1, <2>2 DEF MaybeRecordLocked
    <3>2. QED
      BY <2>1, <2>2, <3>1 DEF RecorderInv, RecordingIsTheStream, FilesCanBeReplayed
  <2>3. CASE recording
    <3>1. /\ Replayable(files'[recPath])
          /\ good => RecordingIsTheStream'
          /\ good => startTs' = published'[recFrom + 1].ts
      BY <1>3, <2>3, RecordContinues
    <3>2. recPath # NoPath
      BY <2>3 DEF RecorderInv
    <3>3. /\ \E rec : files' = [files EXCEPT ![recPath].records = Append(@, rec)]
          /\ \/ good /\ UNCHANGED <<recPath, recording>>
             \/ ~good /\ recording' = FALSE /\ recPath' = NoPath
      BY <2>1, <2>3, <3>2 DEF MaybeRecordLocked, AfterWrite, StopRecordingLocked
    <3>4. files \in [Paths -> [header : BOOLEAN, records : Seq(RecordType)]]
      BY DEF IInv, TypeOK
    <3>5. \A p \in Paths : p # recPath => files'[p] = files[p]
      BY <3>3, <3>4
    <3>6. FilesCanBeReplayed'
      <4>1. \A p \in Paths : Replayable(files'[p])
        BY <3>1, <3>5, FilesReplayableAre DEF RecorderInv
      <4>2. QED
        BY <4>1 DEF FilesCanBeReplayed, Replayable
    <3>7. CASE good
      BY <2>1, <3>1, <3>2, <3>3, <3>6, <3>7, <2>3 DEF RecorderInv
    <3>8. CASE ~good
      BY <2>1, <3>3, <3>6, <3>8 DEF RecorderInv, RecordingIsTheStream
    <3>9. QED
      BY <3>7, <3>8
  <2>4. QED
    BY <2>2, <2>3
<1>4. ASSUME NEW p \in Paths, NEW outcome \in RecordOutcomes, StartRecording(p, outcome)
      PROVE  RecorderInv'
  <2>1. /\ UNCHANGED <<frameSeq, published>>
        /\ recFrom \in Nat /\ frameSeq \in Nat /\ recFrom <= frameSeq
        /\ files \in [Paths -> [header : BOOLEAN, records : Seq(RecordType)]]
        /\ p # NoPath
    BY <1>4, NoPathAssumption DEF StartRecording, IInv, TypeOK, RecorderInv
  <2>2. FilesCanBeReplayed'
    <3>1. \/ files' = files
          \/ \E h \in BOOLEAN : files' = [files EXCEPT ![p] = [header |-> h, records |-> <<>>]]
      BY <1>4 DEF StartRecording, EmptyFile
    <3>2. \A q \in Paths : Replayable(files'[q])
      BY <2>1, <3>1, EmptyReplayable, FilesReplayableAre DEF RecorderInv
    <3>3. QED
      BY <3>2 DEF FilesCanBeReplayed, Replayable
  <2>3. CASE outcome # "started"
    <3>1. recording' = FALSE /\ recPath' = NoPath /\ recFrom' = recFrom
      BY <1>4, <2>3 DEF StartRecording, StopRecordingLocked
    <3>2. QED
      BY <2>1, <2>2, <3>1 DEF RecorderInv, RecordingIsTheStream
  <2>4. CASE outcome = "started"
    <3>1. /\ recording' = TRUE /\ recPath' = p /\ startTs' = -1
          /\ recFrom' = frameSeq /\ frameSeq' = frameSeq
          /\ files'[p] = [header |-> TRUE, records |-> <<>>]
      BY <1>4, <2>1, <2>4 DEF StartRecording
    <3>2. Len(<<>>) = 0 /\ DOMAIN <<>> = {}
      BY EmptyDomain
    <3>3. RecordingIsTheStream'
      BY <2>1, <3>1, <3>2 DEF RecordingIsTheStream
    <3>4. QED
      BY <2>1, <2>2, <3>1, <3>3 DEF RecorderInv
  <2>5. QED
    BY <2>3, <2>4
<1>5. CASE StopRecording
  <2>1. /\ UNCHANGED <<frameSeq, recFrom, files>>
        /\ recording' = FALSE /\ recPath' = NoPath
    BY <1>5 DEF StopRecording, StopRecordingLocked
  <2>2. QED
    BY <2>1 DEF RecorderInv, RecordingIsTheStream, FilesCanBeReplayed
<1>6. QED
  BY <1>1, <1>2, <1>3, <1>4, <1>5, CallLeaves
     DEF Next, GlThread, UiThread, StopStep, UpdateDepth, BuildFrame,
         StopSetFlag, StopNotify, StopShutdown, vars

LEMMA InitRecorder == Init => TimeInv /\ RecorderInv
BY EmptyDomain DEF Init, Idle, EmptyFile, TimeInv, RecorderInv, RecordingIsTheStream,
   FilesCanBeReplayed

(* The recorder's invariant, together with the order of the timestamps, is  *)
(* kept by every step of the server, the recorder and the handlers.         *)
THEOREM RecorderInvariance == Spec => [](TimeInv /\ RecorderInv)
<1>1. Init => TimeInv /\ RecorderInv
  BY InitRecorder
<1>2. IInv /\ (TimeInv /\ RecorderInv) /\ [Next]_vars => (TimeInv /\ RecorderInv)'
  BY TimeInvStep, RecorderInvStep
<1>3. QED
  BY <1>1, <1>2, Invariance, PTL DEF Spec

(* While the recorder runs, its file is the header and one whole record of  *)
(* every frame published since StartRecording (MaybeRecordLocked).          *)
THEOREM RecordingFollowsStream == Spec => []RecordingIsTheStream
<1>1. RecorderInv => RecordingIsTheStream
  BY DEF RecorderInv
<1>2. QED
  BY <1>1, RecorderInvariance, PTL

(* Every file a recording leaves behind can be replayed, however the        *)
(* recording ended (StopRecordingLocked, a failed write, a restart).        *)
THEOREM FilesReplayable == Spec => []FilesCanBeReplayed
<1>1. RecorderInv => FilesCanBeReplayed
  BY DEF RecorderInv
<1>2. QED
  BY <1>1, RecorderInvariance, PTL

-----------------------------------------------------------------------------
(* What StopReturnsWhenAwake rests on: once Server::Shutdown waits, handlers *)
(* only go towards their return, and of the StreamFrames handlers only those *)
(* that sleep, or write to a client that does not read, hold it up.         *)

(* The flag is up as long as the server is being stopped.                   *)
FlagInv == ui # "idle" => shuttingDown

LEMMA FlagStep ==
  ASSUME ServerInv, FlagInv, [Next]_vars
  PROVE  FlagInv'
<1> USE DEF FlagInv, serverVars
<1>1. CASE StartGrpcServer
  BY <1>1 DEF StartGrpcServer, ServerInv
<1>2. CASE StopStep
  BY <1>2 DEF StopStep, StopSetFlag, StopNotify, StopShutdown, StopDone
<1>3. CASE ~StartGrpcServer /\ ~StopStep
  <2>1. UNCHANGED serverVars
    BY <1>3 DEF Next, GlThread, UpdateDepth, BuildFrame, PublishFrame, UiThread,
       StartRecording, StopRecording, Call, Connect, Cancel, Handler, HandlerAlone, Leave, Take, Decide,
       Sleep, WriteDone, WriteFailed, SpuriousWakeup, vars
  <2>2. QED
    BY <2>1
<1>4. QED
  BY <1>1, <1>2, <1>3

LEMMA FlagInvariance == Spec => []FlagInv
<1>1. Init => FlagInv
  BY DEF Init, FlagInv
<1>2. IInv /\ FlagInv /\ [Next]_vars => FlagInv'
  BY FlagStep DEF IInv
<1>3. QED
  BY <1>1, <1>2, Invariance, PTL DEF Spec

(* What handler s has to do before it returns, once the flag is set.        *)
HandlerLeft(s) ==
  CASE pc[s] = "deciding" -> 4 [] pc[s] = "asleep" -> 3 [] pc[s] = "writing" -> 2
    [] pc[s] = "enter" -> 1 [] OTHER -> 0

(* Handler s goes on whatever its client does: it goes to sleep, the Write   *)
(* of a cancelled call fails, or it has mutex_ and sees that it must leave. *)
HandlerRuns(s) ==
  \/ pc[s] = "deciding"
  \/ pc[s] = "writing" /\ cancelled[s]
  \/ pc[s] = "enter" /\ MutexFree /\ MustLeave(s)

LEMMA DrainingStep ==
  ASSUME TypeOK, ServerInv, FlagInv, ui = "draining", [Next]_vars, NEW s \in Subscribers
  PROVE  /\ HandlerLeft(s) \in Nat
         /\ HandlerLeft(s)' <= HandlerLeft(s)
         /\ Handler(s) => HandlerLeft(s)' < HandlerLeft(s)
         /\ pc[s] \notin {"deciding", "asleep"} => pc'[s] \notin {"deciding", "asleep"}
<1> USE DEF serverVars, depthVars, feedVars, callVars, recVars
<1>1. pc \in [Subscribers -> {"off", "enter", "deciding", "asleep", "writing"}] /\ shuttingDown
  BY DEF TypeOK, FlagInv
<1>2. ASSUME NEW t \in Subscribers, Handler(t)
      PROVE  /\ \A u \in Subscribers \ {t} : pc'[u] = pc[u]
             /\ \/ pc[t] = "enter" /\ pc'[t] = "off"
                \/ pc[t] = "deciding" /\ pc'[t] = "asleep"
                \/ pc[t] = "writing" /\ pc'[t] \in {"enter", "off"}
  <2>1. ~Take(t) /\ ~Decide(t)
    BY <1>1 DEF Take, Decide, MustLeave
  <2>2. QED
    BY <1>1, <1>2, <2>1 DEF Handler, HandlerAlone, Leave, Sleep, WriteDone, WriteFailed, MovesTo
<1>3. ASSUME NEW t \in Subscribers, Connect(t) \/ Cancel(t) \/ SpuriousWakeup(t)
      PROVE  /\ \A u \in Subscribers \ {t} : pc'[u] = pc[u]
             /\ pc'[t] = pc[t] \/ (pc[t] = "asleep" /\ pc'[t] = "enter")
  BY <1>1, <1>3 DEF Connect, Cancel, SpuriousWakeup, MovesTo
<1>4. ASSUME GlThread \/ UiThread \/ UNCHANGED vars
      PROVE  pc' = pc /\ ~Handler(s)
  <2>1. pc' = pc
    BY <1>4 DEF GlThread, UpdateDepth, BuildFrame, PublishFrame, UiThread, StartGrpcServer,
       StartRecording, StopRecording, StopStep, StopSetFlag, StopNotify, StopShutdown, StopDone,
       AppRunning, vars
  <2>2. ~Handler(s)
    BY <1>2, <2>1
  <2>3. QED
    BY <2>1, <2>2
<1>5. \/ pc'[s] = pc[s] /\ ~Handler(s)
      \/ pc[s] = "enter" /\ pc'[s] = "off"
      \/ pc[s] = "deciding" /\ pc'[s] = "asleep"
      \/ pc[s] = "writing" /\ pc'[s] \in {"enter", "off"}
      \/ pc[s] = "asleep" /\ pc'[s] = "enter"
  <2>1. CASE Handler(s)
    BY <1>2, <2>1
  <2>2. CASE ~Handler(s)
    <3>1. ASSUME NEW t \in Subscribers, Call(t)
          PROVE  pc'[s] = pc[s] \/ (pc[s] = "asleep" /\ pc'[s] = "enter")
      <4>1. CASE Handler(t)
        BY <1>2, <2>2, <4>1
      <4>2. CASE ~Handler(t)
        BY <1>3, <3>1, <4>2 DEF Call
      <4>3. QED
        BY <4>1, <4>2
    <3>2. QED
      BY <1>4, <2>2, <3>1 DEF Next
  <2>3. QED
    BY <2>1, <2>2
<1>6. QED
  BY <1>5 DEF HandlerLeft

(* While Server::Shutdown waits every handler's step brings its return       *)
(* nearer, no step puts one off, and nobody who is awake sleeps any more.   *)
THEOREM DrainAdvances ==
  Spec => [][ui = "draining" =>
               \A s \in Subscribers :
                 /\ HandlerLeft(s)' <= HandlerLeft(s)
                 /\ Handler(s) => HandlerLeft(s)' < HandlerLeft(s)
                 /\ pc[s] \notin {"deciding", "asleep"}
                      => pc'[s] \notin {"deciding", "asleep"}]_vars
<1>1. IInv /\ FlagInv /\ [Next]_vars =>
        (ui = "draining" =>
           \A s \in Subscribers :
             /\ HandlerLeft(s)' <= HandlerLeft(s)
             /\ Handler(s) => HandlerLeft(s)' < HandlerLeft(s)
             /\ pc[s] \notin {"deciding", "asleep"} => pc'[s] \notin {"deciding", "asleep"})
  BY DrainingStep DEF IInv
<1>2. QED
  BY <1>1, Invariance, FlagInvariance, PTL DEF Spec

(* StreamFrames call s waits for somebody else: for a notification of cv_    *)
(* (SetShuttingDown's may have been missed), or for a client that has        *)
(* neither cancelled nor read what Write sends.                              *)
HeldByOthers(s) ==
  \/ pc[s] = "asleep"
  \/ pc[s] = "writing" /\ ~cancelled[s]

(* While Server::Shutdown waits, all StreamFrames calls have returned, or a  *)
(* handler goes on by itself, or every one that is left waits for somebody   *)
(* else: what can hold StopGrpcServer for ever is a lost notification or a   *)
(* client that stays without reading, since Shutdown sets no deadline.       *)
(* (SendControl handlers, which Shutdown awaits too, are AppLifecycle's.)    *)
THEOREM WhatHoldsTheStop ==
  Spec => [](ui = "draining" => \/ CallsReturned
                                \/ \E s \in Subscribers : HandlerRuns(s)
                                \/ \A s \in Subscribers : pc[s] = "off" \/ HeldByOthers(s))
<1>1. IInv /\ FlagInv =>
        (ui = "draining" => \/ CallsReturned
                            \/ \E s \in Subscribers : HandlerRuns(s)
                            \/ \A s \in Subscribers : pc[s] = "off" \/ HeldByOthers(s))
  <2> SUFFICES ASSUME IInv, FlagInv, ui = "draining",
                      NEW s \in Subscribers, pc[s] # "off", ~HeldByOthers(s),
                      \A t \in Subscribers : ~HandlerRuns(t)
               PROVE  FALSE
    OBVIOUS
  <2>1. pc[s] \in {"off", "enter", "deciding", "asleep", "writing"} /\ shuttingDown
    BY DEF IInv, TypeOK, FlagInv
  <2>2. MutexFree
    BY DEF HandlerRuns, MutexFree
  <2>3. pc[s] # "deciding" /\ pc[s] # "enter"
    BY <2>1, <2>2 DEF HandlerRuns, MustLeave
  <2>4. pc[s] # "writing"
    BY DEF HandlerRuns, HeldByOthers
  <2>5. pc[s] # "asleep"
    BY DEF HeldByOthers
  <2>6. QED
    BY <2>1, <2>3, <2>4, <2>5
<1>2. QED
  BY <1>1, Invariance, FlagInvariance, PTL
=============================================================================
