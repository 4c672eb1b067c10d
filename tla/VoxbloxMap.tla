----------------------------- MODULE VoxbloxMap -----------------------------
(***************************************************************************)
(* VoxbloxProcessor of mapping/voxblox: the map's blocks and the cache of  *)
(* their visible points, which is brought up to date near the last pose    *)
(* only.  Blocks and poses are positions on a line; a block's content is   *)
(* the number of the frame that last hit it.                               *)
(*                                                                         *)
(* MaxRange is the reach of an integration: the farthest centre of a block *)
(* whose visible points a ray can change, so max_ray_length_m and the      *)
(* surface band and half a block's diagonal.  Nothing relates it to the    *)
(* radius of a refresh: 9.6 m for the client, whose --max_depth_m the      *)
(* documentation sets to 12.  How far the camera moves between two         *)
(* refreshes is not bounded either.  What a refresh cannot reach is        *)
(* therefore in the model, and a history variable, missed, says which      *)
(* frames it came from.                                                    *)
(***************************************************************************)
EXTENDS Integers

CONSTANTS
  MaxPos,     \* blocks and poses are 0..MaxPos
  MaxRange,   \* the reach of an integration
  VisRadius   \* esdf_vis_update_radius_m

Blocks == 0..MaxPos

ASSUME RangeAssumption == MaxPos \in Nat /\ MaxRange \in Nat /\ VisRadius \in Nat

VARIABLES
  pose,    \* latest_pose_t
  frames,  \* integrated_frames
  map,     \* the frame that last hit a block, 0 for an unallocated one
  cache,   \* esdf_block_cache
  missed   \* history: the poses of the frames that no refresh has reached yet

mapVars == <<pose, frames, map, cache, missed>>

Near(b, p, r) == b - p <= r /\ p - b <= r

MapInit ==
  /\ pose = 0
  /\ frames = 0
  /\ map = [b \in Blocks |-> 0]
  /\ cache = [b \in Blocks |-> 0]
  /\ missed = {}

\* IntegratePointCloud.
Integrate(p, hit) ==
  /\ hit # {} /\ \A b \in hit : Near(b, p, MaxRange)
  /\ frames' = frames + 1
  /\ map' = [b \in Blocks |-> IF b \in hit THEN frames + 1 ELSE map[b]]
  /\ pose' = p
  /\ missed' = missed \cup {p}
  /\ UNCHANGED cache

\* Mutant of Refreshed: a radius that leaves no room for the camera's movement.
RefreshedTight(m, p) ==
  [b \in Blocks |-> IF m[b] > 0 /\ Near(b, p, MaxRange) THEN m[b] ELSE cache[b]]

\* RefreshNearbyEsdfBlocks: only blocks near the pose are copied.
Refreshed(m, p) ==
  [b \in Blocks |-> IF m[b] > 0 /\ Near(b, p, VisRadius) THEN m[b] ELSE cache[b]]

\* Everything a ray of a frame taken at p can change is within the radius.
Reaches(p) == Near(p, pose, VisRadius - MaxRange)

\* GetEsdfVisualization(points, false); max_esdf_viz_points, which would cut the
\* list short, is off by default and left out.
Visualize ==
  /\ cache' = IF frames > 0 THEN Refreshed(map, pose) ELSE cache
  /\ missed' = {p \in missed : ~Reaches(p)}
  /\ UNCHANGED <<pose, frames, map>>

MapNext ==
  \/ Visualize
  \/ \E p \in Blocks, hit \in SUBSET Blocks : Integrate(p, hit)

MapSpec == MapInit /\ [][MapNext]_mapVars

-----------------------------------------------------------------------------
(* Properties.                                                             *)

MapTypeOK ==
  /\ pose \in Blocks
  /\ frames \in Nat
  /\ map \in [Blocks -> Nat]
  /\ cache \in [Blocks -> Nat]
  /\ missed \subseteq Blocks

\* A visualization looks at the blocks around the last pose only, and yet shows
\* the map as it is, but for blocks in reach of a frame that neither this refresh nor
\* one before it has reached: nothing else changed out of the radius and was left
\* there before it was copied.
SurfaceIsShown ==
  [][Visualize =>
       \A b \in Blocks : \/ cache'[b] = map'[b]
                        \/ \E p \in missed' : Near(b, p, MaxRange)]_mapVars
=============================================================================
