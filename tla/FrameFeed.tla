------------------------------ MODULE FrameFeed ------------------------------
(***************************************************************************)
(* What the frame server promises, without threads, locks or buffers: a    *)
(* feed that grows, subscribers that each jump to its newest frame, and a  *)
(* single offer of a depth image that a later frame may carry, once.       *)
(*                                                                         *)
(* mapmind_vlp_api.h: "Publish one full VLP2 payload to current            *)
(* subscribers", "Depth will be attached once to a subsequent frame        *)
(* payload when available".                                                *)
(***************************************************************************)
EXTENDS Integers, Sequences

CONSTANTS
  Subscribers,
  Frames,    \* the payloads; f.depth is the depth a payload carries, 0 for none
  NoFrame    \* what a subscriber holds before its first frame

VARIABLES
  feed,      \* the frames published, in order
  offer,     \* the depth on offer, 0 for none
  cursor,    \* how much of the feed each subscriber is past
  view       \* the frame each subscriber was handed last

vars == <<feed, offer, cursor, view>>

Init ==
  /\ feed = <<>>
  /\ offer = 0
  /\ cursor = [s \in Subscribers |-> 0]
  /\ view = [s \in Subscribers |-> NoFrame]

(* A new depth replaces the one on offer; it is newer than any sent. *)
Offer ==
  /\ offer' \in Nat
  /\ offer' > offer
  /\ \A i \in DOMAIN feed : feed[i].depth < offer'
  /\ UNCHANGED <<feed, cursor, view>>

(* The next frame carries the depth on offer, or none. *)
Publish ==
  /\ \E f \in Frames :
       /\ f.depth \in {0, offer}
       /\ feed' = Append(feed, f)
       /\ offer' = IF f.depth = 0 THEN offer ELSE 0
  /\ UNCHANGED <<cursor, view>>

(* A subscriber that is behind is handed the newest frame, whole. *)
Deliver(s) ==
  /\ cursor[s] < Len(feed)
  /\ cursor' = [cursor EXCEPT ![s] = Len(feed)]
  /\ view' = [view EXCEPT ![s] = feed[Len(feed)]]
  /\ UNCHANGED <<feed, offer>>

(* A subscriber joins, or joins again: it will be handed the newest frame. *)
Join(s) ==
  /\ cursor' = [cursor EXCEPT ![s] = 0]
  /\ view' = [view EXCEPT ![s] = NoFrame]
  /\ UNCHANGED <<feed, offer>>

(* The server is stopped: the next one starts from nothing. *)
Restart ==
  /\ feed' = <<>>
  /\ offer' = 0
  /\ cursor' = [s \in Subscribers |-> 0]
  /\ view' = [s \in Subscribers |-> NoFrame]

Next == Offer \/ Publish \/ Restart \/ \E s \in Subscribers : Deliver(s) \/ Join(s)

Spec == Init /\ [][Next]_vars

(* Depths are sent in the order they were offered, none of them twice.     *)
(* This is the once of "Depth will be attached once to a subsequent frame  *)
(* payload when available" (mapmind_vlp_api.h).                            *)
DepthSentOnce ==
  \A i, j \in DOMAIN feed :
    i < j /\ feed[i].depth # 0 /\ feed[j].depth # 0 => feed[i].depth < feed[j].depth

(* What a subscriber holds is a frame of the feed, at the place it says:   *)
(* no payload is mixed with another's sequence number.                     *)
ViewIsAFrame ==
  \A s \in Subscribers :
    /\ cursor[s] <= Len(feed)
    /\ cursor[s] > 0 => view[s] = feed[cursor[s]]
=============================================================================
