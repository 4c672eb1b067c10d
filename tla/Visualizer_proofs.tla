-------------------------- MODULE Visualizer_proofs --------------------------
(***************************************************************************)
(* Proofs about Visualizer for any number of poses, any depth of the topics *)
(* and any bound on the trajectory.                                        *)
(***************************************************************************)
EXTENDS Visualizer, SequenceTheorems, TLAPS

Kinds == {"bad", "empty", "overhead", "good"}
Pair  == [pose : 1..MaxPose, kind : Kinds]
Snap  == [esdf : Cloud, cloud : Cloud, traj : Seq(1..MaxPose), camera : 0..MaxPose,
          from : 0..MaxPose, view : Cloud]

-----------------------------------------------------------------------------
(* A queue that drops its oldest message still ends with the newest.       *)

LEMMA PutProperties ==
  ASSUME NEW S, NEW q \in Seq(S), NEW m \in S, NEW n \in Nat
  PROVE  /\ Put(q, m, n) \in Seq(S)
         /\ Put(q, m, n) # <<>> => Put(q, m, n)[Len(Put(q, m, n))] = m
<1> DEFINE a == Append(q, m)
<1>1. a \in Seq(S) /\ Len(a) = Len(q) + 1 /\ a[Len(a)] = m /\ Len(q) \in Nat
  BY AppendProperties
<1>2. a # <<>>
  BY <1>1
<1>3. Tail(a) \in Seq(S) /\ Len(Tail(a)) = Len(a) - 1
      /\ \A i \in 1..Len(Tail(a)) : Tail(a)[i] = a[i+1]
  BY <1>1, <1>2, HeadTailProperties
<1>4. Tail(a) # <<>> => Tail(a)[Len(Tail(a))] = m
  <2>1. SUFFICES ASSUME Tail(a) # <<>> PROVE Tail(a)[Len(Tail(a))] = m
    OBVIOUS
  <2>2. Len(Tail(a)) # 0 /\ Len(Tail(a)) \in Nat
    BY <1>3, <2>1, EmptySeq, LenProperties
  <2>3. Len(Tail(a)) \in 1..Len(Tail(a)) /\ Len(Tail(a)) + 1 = Len(a)
    BY <1>1, <1>3, <2>2
  <2>4. QED
    BY <1>1, <1>3, <2>3
<1>5. Put(q, m, n) = a \/ Put(q, m, n) = Tail(a)
  BY DEF Put
<1> HIDE DEF a
<1>6. QED
  BY <1>1, <1>3, <1>4, <1>5

LEMMA HeadAndTail ==
  ASSUME NEW S, NEW q \in Seq(S), q # <<>>
  PROVE  Head(q) \in S /\ Tail(q) \in Seq(S)
BY HeadTailProperties

-----------------------------------------------------------------------------
(* The inductive invariant.                                                *)

(* Before there is an origin there is no trajectory; afterwards it ends     *)
(* with the camera, and every cloud is as it came or shifted by the origin. *)
OriginInv ==
  /\ traj # <<>> => origin # 0 /\ camera = traj[Len(traj)]
  /\ esdf.from \in {0, origin}
  /\ cloud.from \in {0, origin}

(* The same of the snapshot, whose origin has not changed since, if it had  *)
(* one at all.                                                             *)
SnapInv ==
  /\ snap.traj # <<>> => /\ snap.from # 0
                         /\ snap.camera = snap.traj[Len(snap.traj)]
                         /\ snap.view.of \in {0, snap.camera}
  /\ snap.from \in {0, origin}
  /\ snap.esdf.from \in {0, snap.from}
  /\ snap.cloud.from \in {0, snap.from}

IInv == TypeOK /\ OriginInv /\ SnapInv

LEMMA InitIInv == Init => IInv
<1> SUFFICES ASSUME Init PROVE IInv
  OBVIOUS
<1>1. 0 \in 0..MaxPose
  BY VisualizerAssumption
<1>2. NoCloud \in Cloud
  BY <1>1 DEF NoCloud, Cloud
<1>3. <<>> \in Seq(1..MaxPose) /\ <<>> \in Seq(0..MaxPose) /\ <<>> \in Seq(Pair)
  OBVIOUS
<1>4. snap \in Snap
  BY <1>1, <1>2, <1>3 DEF Init, Snap
<1>5. TypeOK
  BY <1>1, <1>2, <1>3, <1>4 DEF Init, TypeOK, Snap, Pair, Kinds
<1>6. OriginInv /\ SnapInv
  BY DEF Init, OriginInv, SnapInv, NoCloud
<1>7. QED
  BY <1>5, <1>6 DEF IInv

-----------------------------------------------------------------------------
(* The nodes and the topics: they leave what the visualizer keeps alone.   *)

LEMMA RobotStep ==
  ASSUME IInv, Publish \/ OnSyncedPoseDepth \/ OnTimer
  PROVE  IInv'
<1>1. /\ posed \in 0..MaxPose /\ integrated \in 0..MaxPose /\ pairs \in Seq(Pair)
      /\ poseTopic \in Seq(1..MaxPose) /\ esdfTopic \in Seq(0..MaxPose)
      /\ cloudTopic \in Seq(1..MaxPose)
  BY DEF IInv, TypeOK, Pair, Kinds
<1>2. UNCHANGED <<viewVars, drawVars>>
  BY DEF Publish, OnSyncedPoseDepth, OnTimer
<1>3. OriginInv' /\ SnapInv'
  BY <1>2 DEF IInv, OriginInv, SnapInv, viewVars, drawVars
<1>4. Depth \in Nat /\ MaxPose \in Nat
  BY VisualizerAssumption
<1>5. ASSUME posed' \in 0..MaxPose, integrated' \in 0..MaxPose, pairs' \in Seq(Pair),
             poseTopic' \in Seq(1..MaxPose), esdfTopic' \in Seq(0..MaxPose),
             cloudTopic' \in Seq(1..MaxPose)
      PROVE  TypeOK'
  BY <1>2, <1>5 DEF IInv, TypeOK, Pair, Kinds, viewVars, drawVars
<1>6. CASE Publish
  <2>1. posed' \in 1..MaxPose /\ posed' \in 0..MaxPose
    BY <1>1, <1>4, <1>6 DEF Publish
  <2>2. poseTopic' \in Seq(1..MaxPose)
    BY <1>1, <1>4, <1>6, <2>1, PutProperties DEF Publish
  <2>3. pairs' \in Seq(Pair)
    <3>1. CASE UNCHANGED pairs
      BY <1>1, <3>1
    <3>2. ASSUME NEW kind \in Kinds, pairs' = Put(pairs, [pose |-> posed', kind |-> kind], Depth)
          PROVE  pairs' \in Seq(Pair)
      <4>1. [pose |-> posed', kind |-> kind] \in Pair
        BY <2>1 DEF Pair
      <4>2. QED
        BY <1>1, <1>4, <3>2, <4>1, PutProperties
    <3>3. QED
      BY <1>6, <3>1, <3>2 DEF Publish, Kinds
  <2>4. UNCHANGED <<integrated, esdfTopic, cloudTopic>>
    BY <1>6 DEF Publish
  <2>5. TypeOK'
    BY <1>1, <1>5, <2>1, <2>2, <2>3, <2>4
  <2>6. QED
    BY <1>3, <2>5 DEF IInv
<1>7. CASE OnSyncedPoseDepth
  <2>1. Head(pairs) \in Pair /\ Tail(pairs) \in Seq(Pair)
    BY <1>1, <1>7, HeadAndTail DEF OnSyncedPoseDepth
  <2>2. Head(pairs).pose \in 1..MaxPose /\ Head(pairs).pose \in 0..MaxPose
    BY <1>4, <2>1 DEF Pair
  <2>3. integrated' \in 0..MaxPose
    BY <1>1, <1>7, <2>2 DEF OnSyncedPoseDepth
  <2>4. cloudTopic' \in Seq(1..MaxPose)
    <3>1. Put(cloudTopic, Head(pairs).pose, Depth) \in Seq(1..MaxPose)
      BY <1>1, <1>4, <2>2, PutProperties
    <3>2. QED
      BY <1>1, <1>7, <3>1 DEF OnSyncedPoseDepth
  <2>5. UNCHANGED <<posed, poseTopic, esdfTopic>> /\ pairs' = Tail(pairs)
    BY <1>7 DEF OnSyncedPoseDepth, robotVars
  <2>6. TypeOK'
    BY <1>1, <1>5, <2>1, <2>3, <2>4, <2>5
  <2>7. QED
    BY <1>3, <2>6 DEF IInv
<1>8. CASE OnTimer
  <2>1. esdfTopic' \in Seq(0..MaxPose)
    BY <1>1, <1>4, <1>8, PutProperties DEF OnTimer
  <2>2. UNCHANGED <<posed, poseTopic, pairs, integrated, cloudTopic>>
    BY <1>8 DEF OnTimer, robotVars, nodeVars
  <2>3. TypeOK'
    BY <1>1, <1>5, <2>1, <2>2
  <2>4. QED
    BY <1>3, <2>3 DEF IInv
<1>9. QED
  BY <1>6, <1>7, <1>8

-----------------------------------------------------------------------------
(* The subscriptions of the visualizer.                                    *)

LEMMA PoseStep == ASSUME IInv, OnPose PROVE IInv'
<1>1. /\ poseTopic \in Seq(1..MaxPose) /\ traj \in Seq(1..MaxPose)
      /\ origin \in 0..MaxPose /\ MaxPose \in Nat /\ MaxTraj \in Nat
  BY VisualizerAssumption DEF IInv, TypeOK
<1>2. Head(poseTopic) \in 1..MaxPose /\ Tail(poseTopic) \in Seq(1..MaxPose)
  BY <1>1, HeadAndTail DEF OnPose
<1>3. /\ camera' = Head(poseTopic) /\ poseTopic' = Tail(poseTopic)
      /\ origin' = IF origin = 0 THEN Head(poseTopic) ELSE origin
      /\ traj' = Put(traj, Head(poseTopic), MaxTraj)
      /\ UNCHANGED <<posed, nodeVars, esdfTopic, cloudTopic, esdf, cloud, drawVars>>
  BY DEF OnPose
<1>4. origin' \in 1..MaxPose /\ (origin = 0 \/ origin' = origin)
  BY <1>1, <1>2, <1>3
<1>5. traj' \in Seq(1..MaxPose) /\ (traj' # <<>> => traj'[Len(traj')] = camera')
  BY <1>1, <1>2, <1>3, PutProperties
<1>6. origin' \in 0..MaxPose /\ camera' \in 0..MaxPose
  BY <1>1, <1>2, <1>3, <1>4
<1>7. TypeOK'
  BY <1>2, <1>3, <1>5, <1>6 DEF IInv, TypeOK, nodeVars, drawVars
<1>8. OriginInv'
  <2>1. esdf.from \in {0, origin} /\ cloud.from \in {0, origin} /\ UNCHANGED <<esdf, cloud>>
    BY <1>3 DEF IInv, OriginInv
  <2>2. origin' # 0
    BY <1>1, <1>4
  <2>3. QED
    BY <1>4, <1>5, <2>1, <2>2 DEF OriginInv
<1>9. SnapInv'
  <2>1. snap' = snap /\ SnapInv
    BY <1>3 DEF drawVars, IInv
  <2>2. snap.from \in {0, origin'}
    BY <1>4, <2>1 DEF SnapInv
  <2>3. QED
    BY <2>1, <2>2 DEF SnapInv
<1>10. QED
  BY <1>7, <1>8, <1>9 DEF IInv

LEMMA CloudStep == ASSUME IInv, OnEsdf \/ OnDepthCloud PROVE IInv'
<1>1. /\ esdfTopic \in Seq(0..MaxPose) /\ cloudTopic \in Seq(1..MaxPose)
      /\ esdf \in Cloud /\ cloud \in Cloud /\ origin \in 0..MaxPose /\ MaxPose \in Nat
  BY VisualizerAssumption DEF IInv, TypeOK
<1>2. UNCHANGED <<origin, camera, traj, drawVars>>
  BY DEF OnEsdf, OnDepthCloud
<1>3. CASE OnEsdf
  <2>1. Head(esdfTopic) \in 0..MaxPose /\ Tail(esdfTopic) \in Seq(0..MaxPose)
    BY <1>1, <1>3, HeadAndTail DEF OnEsdf
  <2>2. /\ esdf' = [of |-> Head(esdfTopic), from |-> origin] /\ esdfTopic' = Tail(esdfTopic)
        /\ UNCHANGED <<robotVars, nodeVars, cloudTopic, cloud>>
    BY <1>3 DEF OnEsdf
  <2>3. esdf' \in Cloud /\ esdf'.from = origin
    BY <1>1, <2>1, <2>2 DEF Cloud
  <2>4. TypeOK'
    BY <1>2, <2>1, <2>2, <2>3 DEF IInv, TypeOK, robotVars, nodeVars, drawVars
  <2>5. OriginInv' /\ SnapInv'
    BY <1>2, <2>2, <2>3 DEF IInv, OriginInv, SnapInv, drawVars
  <2>6. QED
    BY <2>4, <2>5 DEF IInv
<1>4. CASE OnDepthCloud
  <2>1. Head(cloudTopic) \in 1..MaxPose /\ Tail(cloudTopic) \in Seq(1..MaxPose)
    BY <1>1, <1>4, HeadAndTail DEF OnDepthCloud
  <2>2. /\ cloud' = [of |-> Head(cloudTopic), from |-> origin] /\ cloudTopic' = Tail(cloudTopic)
        /\ UNCHANGED <<robotVars, nodeVars, esdfTopic, esdf>>
    BY <1>4 DEF OnDepthCloud
  <2>3. Head(cloudTopic) \in 0..MaxPose
    BY <1>1, <2>1
  <2>4. cloud' \in Cloud /\ cloud'.from = origin
    BY <1>1, <2>2, <2>3 DEF Cloud
  <2>5. TypeOK'
    BY <1>2, <2>1, <2>2, <2>4 DEF IInv, TypeOK, robotVars, nodeVars, drawVars
  <2>6. OriginInv' /\ SnapInv'
    BY <1>2, <2>2, <2>4 DEF IInv, OriginInv, SnapInv, drawVars
  <2>7. QED
    BY <2>5, <2>6 DEF IInv
<1>5. QED
  BY <1>3, <1>4

(* The viewer.                                                             *)
LEMMA ViewerStep == ASSUME IInv, TakeSnapshot \/ FinishFrame PROVE IInv'
<1>1. UNCHANGED <<robotVars, nodeVars, esdfTopic, cloudTopic, viewVars>>
  BY DEF TakeSnapshot, FinishFrame
<1>2. OriginInv'
  BY <1>1 DEF IInv, OriginInv, viewVars
<1>3. CASE TakeSnapshot
  <2>1. PICK view \in {NoCloud, Follow} : snap' = Snapshot(view)
    BY <1>3 DEF TakeSnapshot
  <2>2. /\ snap'.traj = traj /\ snap'.from = origin /\ snap'.camera = camera
        /\ snap'.esdf = esdf /\ snap'.cloud = cloud /\ snap'.view = view
    BY <2>1 DEF Snapshot
  <2>3. snap' \in Snap
    <3>1. view \in Cloud
      <4>1. NoCloud \in Cloud
        BY VisualizerAssumption DEF NoCloud, Cloud
      <4>2. traj # <<>> => traj[Len(traj)] \in 0..MaxPose
        <5>1. traj \in Seq(1..MaxPose) /\ MaxPose \in Nat
          BY VisualizerAssumption DEF IInv, TypeOK
        <5>2. traj # <<>> => Len(traj) \in 1..Len(traj)
          BY <5>1, EmptySeq, LenProperties
        <5>3. QED
          BY <5>1, <5>2, ElementOfSeq
      <4>3. Follow \in Cloud
        BY <4>1, <4>2, VisualizerAssumption DEF Follow, Cloud
      <4>4. QED
        BY <4>1, <4>3
    <3>2. QED
      BY <2>1, <3>1 DEF Snapshot, Snap, IInv, TypeOK
  <2>7. drawing' = TRUE /\ view.of \in {0, IF traj = <<>> THEN 0 ELSE traj[Len(traj)]}
    BY <1>3 DEF TakeSnapshot, Follow, NoCloud
  <2>4. TypeOK'
    BY <1>1, <2>3, <2>7 DEF IInv, TypeOK, Snap, robotVars, nodeVars, viewVars
  <2>5. SnapInv'
    BY <1>1, <2>2, <2>7 DEF IInv, OriginInv, SnapInv, viewVars
  <2>6. QED
    BY <1>2, <2>4, <2>5 DEF IInv
<1>4. CASE FinishFrame
  <2>1. snap' = snap /\ drawing' = FALSE
    BY <1>4 DEF FinishFrame
  <2>2. TypeOK'
    BY <1>1, <2>1 DEF IInv, TypeOK, robotVars, nodeVars, viewVars
  <2>3. SnapInv'
    BY <1>1, <2>1 DEF IInv, SnapInv, viewVars
  <2>4. QED
    BY <1>2, <2>2, <2>3 DEF IInv
<1>5. QED
  BY <1>3, <1>4

-----------------------------------------------------------------------------

(* The inductive invariant of the two nodes.                               *)
THEOREM Invariance == Spec => []IInv
<1>1. IInv /\ UNCHANGED vars => IInv'
  BY DEF vars, robotVars, nodeVars, viewVars, drawVars, IInv, TypeOK, OriginInv, SnapInv
<1>2. IInv /\ [Next]_vars => IInv'
  BY <1>1, RobotStep, PoseStep, CloudStep, ViewerStep DEF Next
<1>3. QED
  BY <1>2, InitIInv, PTL DEF Spec

(* The types of the topics and of the visualizer's members.                *)
THEOREM TypeCorrect == Spec => []TypeOK
<1>1. IInv => TypeOK
  BY DEF IInv
<1>2. QED
  BY <1>1, Invariance, PTL

(* What a frame shows is drawn from one origin, although RunViewer reads    *)
(* the trajectory's outside of the lock, and the camera it shows, and may    *)
(* look from, is the end of the trajectory it shows.  (That viewpoint itself *)
(* is not shifted by the origin.)                                           *)
THEOREM OneOrigin == Spec => []DrawnFromOneOrigin
<1>1. IInv => DrawnFromOneOrigin
  <2> SUFFICES ASSUME IInv, Len(snap.traj) > 1
               PROVE  /\ snap.from = origin
                      /\ snap.esdf.from \in {0, origin}
                      /\ snap.cloud.from \in {0, origin}
                      /\ snap.camera = snap.traj[Len(snap.traj)]
                      /\ snap.view.of \in {0, snap.camera}
    BY DEF DrawnFromOneOrigin
  <2>1. snap.traj # <<>>
    OBVIOUS
  <2>2. QED
    BY <2>1 DEF IInv, SnapInv
<1>2. QED
  BY <1>1, Invariance, PTL
=============================================================================
