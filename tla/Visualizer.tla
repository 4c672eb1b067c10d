----------------------------- MODULE Visualizer -----------------------------
(***************************************************************************)
(* The two ROS nodes: VoxbloxRosNode, which turns poses and depth images   *)
(* into clouds, and PangolinVisualizerNode, whose spin thread keeps the    *)
(* latest of everything and whose main thread draws it.                    *)
(*                                                                         *)
(* The robot's k-th pose is its k-th position; the visualizer draws from   *)
(* the first position it was told of.  Topics keep their last messages and *)
(* are not ordered with each other.                                        *)
(***************************************************************************)
EXTENDS Integers, Sequences

CONSTANTS
  MaxPose,    \* bound: the robot's poses
  Depth,      \* a topic keeps that many messages
  MaxTraj     \* max_traj_points

ASSUME VisualizerAssumption ==
  MaxPose \in Nat /\ Depth \in Nat \ {0} /\ MaxTraj \in Nat

VARIABLES
  posed,       \* how many poses the robot has published
  pairs,       \* sync_: the pairs that wait for OnSyncedPoseDepth
  integrated,  \* the frames in voxblox_
  poseTopic, esdfTopic, cloudTopic,  \* what waits for the visualizer
  origin,      \* origin_t_, 0 before there is one (has_origin_)
  camera,      \* cam_t_
  traj,        \* traj_
  esdf, cloud, \* latest_esdf_, latest_depth_cloud_: their frame and their origin
  drawing,     \* the main thread is between its snapshot and the end of the frame
  snap         \* its snapshot

robotVars == <<posed, poseTopic>>
nodeVars  == <<pairs, integrated>>
viewVars  == <<origin, camera, traj, esdf, cloud>>
drawVars  == <<drawing, snap>>
vars == <<robotVars, nodeVars, esdfTopic, cloudTopic, viewVars, drawVars>>

NoCloud == [of |-> 0, from |-> 0]

\* A message is added, and the oldest dropped when there are too many.
Put(queue, m, n) ==
  LET q == Append(queue, m) IN IF Len(q) > n THEN Tail(q) ELSE q

\* Where the frame is looked at from, if Follow Camera is on: at the last of traj_, as
\* the robot sent it.  Else the user's mouse decides.
Follow ==
  IF traj = <<>> THEN NoCloud ELSE [of |-> traj[Len(traj)], from |-> 0]

Snapshot(view) ==
  [esdf |-> esdf, cloud |-> cloud, traj |-> traj, camera |-> camera, from |-> origin,
   view |-> view]

Init ==
  /\ posed = 0 /\ integrated = 0
  /\ pairs = <<>> /\ poseTopic = <<>> /\ esdfTopic = <<>> /\ cloudTopic = <<>>
  /\ origin = 0 /\ camera = 0
  /\ traj = <<>>
  /\ esdf = NoCloud /\ cloud = NoCloud
  /\ drawing = FALSE
  /\ snap = [esdf |-> NoCloud, cloud |-> NoCloud, traj |-> <<>>, camera |-> 0, from |-> 0,
             view |-> NoCloud]

-----------------------------------------------------------------------------
(* The robot: a pose, with a depth image or without; the synchronizer pairs *)
(* what it gets and may lose it.  bad: an encoding no node reads; empty: no *)
(* pixel in range; overhead: all of its points are filtered.               *)

Publish ==
  /\ posed < MaxPose
  /\ posed' = posed + 1
  /\ poseTopic' = Put(poseTopic, posed', Depth)
  /\ \/ UNCHANGED pairs
     \/ \E kind \in {"bad", "empty", "overhead", "good"} :
          /\ pairs' = Put(pairs, [pose |-> posed', kind |-> kind], Depth)
  /\ UNCHANGED <<integrated, esdfTopic, cloudTopic, viewVars, drawVars>>

-----------------------------------------------------------------------------
(* VoxbloxRosNode, on one thread.                                          *)

\* The cloud is published although every point of it was filtered away.
OnSyncedPoseDepth ==
  /\ pairs # <<>>
  /\ LET m == Head(pairs)
     IN /\ integrated' = IF m.kind = "good" THEN m.pose ELSE integrated
        /\ cloudTopic' = IF m.kind \in {"good", "overhead"}
                         THEN Put(cloudTopic, m.pose, Depth) ELSE cloudTopic
  /\ pairs' = Tail(pairs)
  /\ UNCHANGED <<robotVars, esdfTopic, viewVars, drawVars>>

OnTimer ==
  /\ esdfTopic' = Put(esdfTopic, integrated, Depth)
  /\ UNCHANGED <<robotVars, nodeVars, cloudTopic, viewVars, drawVars>>

-----------------------------------------------------------------------------
(* PangolinVisualizerNode: its spin thread.                                *)

\* Mutant of OnPose: the origin follows the camera.
OnPoseRebased ==
  /\ poseTopic # <<>>
  /\ camera' = Head(poseTopic)
  /\ origin' = camera'
  /\ traj' = Put(traj, camera', MaxTraj)
  /\ poseTopic' = Tail(poseTopic)
  /\ UNCHANGED <<posed, nodeVars, esdfTopic, cloudTopic, esdf, cloud,
                 drawVars>>

OnPose ==
  /\ poseTopic # <<>>
  /\ camera' = Head(poseTopic)
  /\ origin' = IF origin = 0 THEN camera' ELSE origin
  /\ traj' = Put(traj, camera', MaxTraj)
  /\ poseTopic' = Tail(poseTopic)
  /\ UNCHANGED <<posed, nodeVars, esdfTopic, cloudTopic, esdf, cloud,
                 drawVars>>

\* Mutant of OnEsdf: a cloud from before the origin is not replaced.
OnEsdfOnce ==
  /\ esdfTopic # <<>>
  /\ esdf' = IF esdf = NoCloud THEN [of |-> Head(esdfTopic), from |-> origin] ELSE esdf
  /\ esdfTopic' = Tail(esdfTopic)
  /\ UNCHANGED <<robotVars, nodeVars, cloudTopic, origin, camera, traj, cloud, drawVars>>

\* A cloud is shifted when it arrives, by the origin there is then.
OnEsdf ==
  /\ esdfTopic # <<>>
  /\ esdf' = [of |-> Head(esdfTopic), from |-> origin]
  /\ esdfTopic' = Tail(esdfTopic)
  /\ UNCHANGED <<robotVars, nodeVars, cloudTopic, origin, camera, traj, cloud, drawVars>>

OnDepthCloud ==
  /\ cloudTopic # <<>>
  /\ cloud' = [of |-> Head(cloudTopic), from |-> origin]
  /\ cloudTopic' = Tail(cloudTopic)
  /\ UNCHANGED <<robotVars, nodeVars, esdfTopic, origin, camera, traj, esdf, drawVars>>

-----------------------------------------------------------------------------
(* RunViewer.                                                              *)

\* Everything that is drawn is copied under mu_, and the viewpoint is taken from the
\* copy...
TakeSnapshot ==
  /\ ~drawing
  /\ drawing' = TRUE
  /\ \E view \in {NoCloud, Follow} : snap' = Snapshot(view)
  /\ UNCHANGED <<robotVars, nodeVars, esdfTopic, cloudTopic, viewVars>>

\* ... but the origin of the trajectory, which is read while it is drawn.
FinishFrame ==
  /\ drawing
  /\ drawing' = FALSE
  /\ UNCHANGED <<robotVars, nodeVars, esdfTopic, cloudTopic, viewVars, snap>>

Next ==
  \/ Publish \/ OnSyncedPoseDepth \/ OnTimer
  \/ OnPose \/ OnEsdf \/ OnDepthCloud
  \/ TakeSnapshot \/ FinishFrame

Spec == Init /\ [][Next]_vars

\* The timer fires, and an executor serves every subscription that has messages.
FairSpec ==
  Spec /\ WF_vars(OnTimer) /\ SF_vars(OnPose) /\ SF_vars(OnEsdf)

-----------------------------------------------------------------------------
(* Properties.                                                             *)

Cloud == [of : 0..MaxPose, from : 0..MaxPose]

TypeOK ==
  /\ posed \in 0..MaxPose /\ integrated \in 0..MaxPose
  /\ poseTopic \in Seq(1..MaxPose) /\ esdfTopic \in Seq(0..MaxPose)
  /\ cloudTopic \in Seq(1..MaxPose)
  /\ pairs \in Seq([pose : 1..MaxPose, kind : {"bad", "empty", "overhead", "good"}])
  /\ origin \in 0..MaxPose /\ camera \in 0..MaxPose
  /\ traj \in Seq(1..MaxPose)
  /\ esdf \in Cloud /\ cloud \in Cloud
  /\ drawing \in BOOLEAN
  /\ snap \in [esdf : Cloud, cloud : Cloud, traj : Seq(1..MaxPose), camera : 0..MaxPose,
              from : 0..MaxPose, view : Cloud]

\* What a frame shows is drawn from one origin: the trajectory, whose origin is read
\* outside of the lock, and the camera and the clouds of the snapshot; only a cloud
\* that came before the first pose is still where it was sent.  This is not so of
\* where it is looked at from: Follow Camera looks from the camera's pose, but leaves
\* the origin out (view.from is 0).
DrawnFromOneOrigin ==
  drawing /\ Len(snap.traj) > 1 =>
    /\ snap.from = origin
    /\ snap.esdf.from \in {0, origin}
    /\ snap.cloud.from \in {0, origin}
    /\ snap.camera = snap.traj[Len(snap.traj)]
    /\ snap.view.of \in {0, snap.camera}

\* Whatever arrived first, the map ends up in the coordinates of the trajectory.
EsdfGetsShifted == origin # 0 ~> esdf.from = origin
=============================================================================
