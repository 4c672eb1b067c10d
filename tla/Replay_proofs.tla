---------------------------- MODULE Replay_proofs ----------------------------
(***************************************************************************)
(* Proofs about the replay loop, its map and its server, for any recording *)
(* and any way it was damaged, any browsers, and any ranges and movement   *)
(* of the camera.  The map and the server are proved on their own, and the *)
(* composition is shown to implement both.                                 *)
(***************************************************************************)
EXTENDS Replay, SessionLog_proofs, TLAPS

-----------------------------------------------------------------------------
(* The map.                                                                *)

(* Where the cache is behind the map: nowhere while nothing was integrated, *)
(* and later in reach of frames that no refresh has reached yet.            *)
InReach(b, poses) == \E p \in poses : Near(b, p, MaxRange)

BehindInv ==
  /\ frames = 0 => \A b \in Blocks : map[b] = 0
  /\ \A b \in Blocks : cache[b] # map[b] => map[b] > 0 /\ InReach(b, missed)

MapInv == MapTypeOK /\ BehindInv

LEMMA BlocksAreIntegers == Blocks \subseteq Int /\ 0 \in Blocks
BY RangeAssumption DEF Blocks

LEMMA MapInitInv == MapInit => MapInv
<1> SUFFICES ASSUME MapInit PROVE MapInv
  OBVIOUS
<1>1. map = cache /\ \A b \in Blocks : map[b] = 0
  BY DEF MapInit
<1>2. MapTypeOK
  BY BlocksAreIntegers DEF MapInit, MapTypeOK
<1>3. QED
  BY <1>1, <1>2 DEF MapInv, BehindInv

(* What a frame changes is in reach of its pose, which joins those no       *)
(* refresh has reached; wherever the camera was before.                        *)
LEMMA IntegrateInv ==
  ASSUME MapInv, NEW p \in Blocks, NEW hit \in SUBSET Blocks, Integrate(p, hit)
  PROVE  MapInv'
<1>1. /\ frames \in Nat /\ pose \in Blocks /\ missed \subseteq Blocks
      /\ map \in [Blocks -> Nat] /\ cache \in [Blocks -> Nat]
  BY DEF MapInv, MapTypeOK
<1>2. map' = [b \in Blocks |-> IF b \in hit THEN frames + 1 ELSE map[b]]
  BY DEF Integrate
<1>3. frames' = frames + 1 /\ pose' = p /\ cache' = cache
      /\ missed' = missed \cup {p}
  BY DEF Integrate
<1>4. map' \in [Blocks -> Nat]
  BY <1>1, <1>2
<1>5. MapTypeOK'
  BY <1>1, <1>3, <1>4 DEF MapTypeOK
<1>6. frames' # 0
  BY <1>1, <1>3
<1>7. ASSUME NEW b \in Blocks, cache'[b] # map'[b]
      PROVE  map'[b] > 0 /\ InReach(b, missed')
  <2>1. CASE b \in hit
    <3>1. map'[b] > 0
      BY <1>1, <1>2, <2>1
    <3>2. Near(b, p, MaxRange)
      BY <2>1 DEF Integrate
    <3>3. QED
      BY <1>3, <3>1, <3>2 DEF InReach
  <2>2. CASE b \notin hit
    <3>1. map'[b] = map[b]
      BY <1>2, <2>2
    <3>2. map[b] > 0 /\ InReach(b, missed)
      BY <1>3, <1>7, <3>1 DEF MapInv, BehindInv
    <3>3. QED
      BY <1>3, <3>1, <3>2 DEF InReach
  <2>3. QED
    BY <2>1, <2>2
<1>8. QED
  BY <1>5, <1>6, <1>7 DEF MapInv, BehindInv

(* What is in reach of a pose that a refresh reaches is within its radius.  *)
LEMMA ReachedIsNear ==
  ASSUME MapInv, NEW b \in Blocks, NEW p \in Blocks, Near(b, p, MaxRange), Reaches(p)
  PROVE  Near(b, pose, VisRadius)
<1>1. b \in Int /\ p \in Int /\ pose \in Int
  BY BlocksAreIntegers DEF MapInv, MapTypeOK
<1>2. MaxRange \in Int /\ VisRadius \in Int
  BY RangeAssumption
<1>3. QED
  BY <1>1, <1>2 DEF Near, Reaches

(* A refresh copies every block the cache is behind on, but for what frames *)
(* it does not reach may have changed.                                      *)
LEMMA VisualizeShows ==
  ASSUME MapInv, Visualize, NEW b \in Blocks, cache'[b] # map'[b]
  PROVE  map'[b] > 0 /\ InReach(b, missed')
<1>1. /\ frames \in Nat /\ missed \subseteq Blocks
      /\ map \in [Blocks -> Nat] /\ cache \in [Blocks -> Nat]
  BY DEF MapInv, MapTypeOK
<1>2. map' = map /\ missed' = {p \in missed : ~Reaches(p)}
  BY DEF Visualize
<1>3. cache[b] # map[b]
  <2>1. cache' = cache \/ cache' = Refreshed(map, pose)
    BY DEF Visualize
  <2>2. cache'[b] \in {map[b], cache[b]}
    BY <2>1 DEF Refreshed
  <2>3. QED
    BY <1>2, <2>2
<1>4. map[b] > 0 /\ InReach(b, missed)
  BY <1>3 DEF MapInv, BehindInv
<1>5. frames > 0
  BY <1>1, <1>4 DEF MapInv, BehindInv
<1>6. ~Near(b, pose, VisRadius)
  <2>1. cache' = Refreshed(map, pose)
    BY <1>5 DEF Visualize
  <2>2. QED
    BY <1>2, <1>4, <2>1 DEF Refreshed
<1>7. PICK p \in missed : Near(b, p, MaxRange)
  BY <1>4 DEF InReach
<1>8. ~Reaches(p)
  BY <1>1, <1>6, <1>7, ReachedIsNear
<1>9. p \in missed'
  BY <1>2, <1>7, <1>8
<1>10. QED
  BY <1>2, <1>4, <1>7, <1>9 DEF InReach

LEMMA MapStepInv == MapInv /\ [MapNext]_mapVars => MapInv'
<1> SUFFICES ASSUME MapInv, [MapNext]_mapVars PROVE MapInv'
  OBVIOUS
<1>1. CASE Visualize
  <2>1. /\ map' = map /\ frames' = frames /\ pose' = pose
        /\ missed' = {p \in missed : ~Reaches(p)}
    BY <1>1 DEF Visualize
  <2>2. /\ map \in [Blocks -> Nat] /\ cache \in [Blocks -> Nat]
        /\ frames \in Nat /\ pose \in Blocks
        /\ missed \subseteq Blocks
    BY DEF MapInv, MapTypeOK
  <2>3. cache' \in [Blocks -> Nat]
    BY <1>1, <2>2 DEF Visualize, Refreshed
  <2>4. MapTypeOK'
    BY <2>1, <2>2, <2>3 DEF MapTypeOK
  <2>5. ASSUME NEW b \in Blocks, cache'[b] # map'[b]
        PROVE  map'[b] > 0 /\ InReach(b, missed')
    BY <1>1, <2>5, VisualizeShows
  <2>6. frames' = 0 => \A b \in Blocks : map'[b] = 0
    BY <2>1 DEF MapInv, BehindInv
  <2>7. QED
    BY <2>4, <2>5, <2>6 DEF MapInv, BehindInv
<1>2. CASE \E p \in Blocks, hit \in SUBSET Blocks : Integrate(p, hit)
  BY <1>2, IntegrateInv
<1>3. CASE UNCHANGED mapVars
  BY <1>3 DEF mapVars, MapInv, MapTypeOK, BehindInv, InReach, Near
<1>4. QED
  BY <1>1, <1>2, <1>3 DEF MapNext

(* However the camera moves and however far it sees, the cache is behind    *)
(* the map only in reach of frames that no refresh has reached yet.         *)
THEOREM MapInvariance == MapSpec => []MapInv
BY MapInitInv, MapStepInv, PTL DEF MapSpec

(* GetEsdfVisualization shows the map as it is, but for what frames may     *)
(* have changed that no refresh has reached yet.                            *)
THEOREM MapIsShown == MapSpec => SurfaceIsShown
<1>1. MapInv => [Visualize =>
         \A b \in Blocks : \/ cache'[b] = map'[b]
                          \/ \E p \in missed' : Near(b, p, MaxRange)]_mapVars
  BY VisualizeShows DEF InReach
<1>2. QED
  BY <1>1, MapInvariance, PTL DEF SurfaceIsShown, MapSpec

-----------------------------------------------------------------------------
(* The server.                                                             *)

(* Who answers for a descriptor: the list, or Loop while it talks to it.    *)
HeldInv ==
  /\ Held \subseteq clients \cup {cur}
  /\ cur # NoConn <=> loop \in {"recv", "push"}

(* How far the owner has come, and what it found.                          *)
ExitInv ==
  /\ owner \in {"joined", "done"} => loop = "done"
  /\ owner = "done" => clients = {} /\ Queued = {} /\ listenFd \notin {"open", "unbound"}

WsInv == WsTypeOK /\ HeldInv /\ ExitInv

LEMMA WsInitInv == WsInit => WsInv
<1> SUFFICES ASSUME WsInit PROVE WsInv
  OBVIOUS
<1>1. WsTypeOK
  BY DEF WsInit, WsTypeOK
<1>2. Held = {} /\ cur = NoConn
  BY DEF WsInit, Held
<1>3. owner = "running" /\ loop = "starting"
  BY DEF WsInit
<1>4. QED
  BY <1>1, <1>2, <1>3 DEF WsInv, HeldInv, ExitInv

(* Closing a set of connections leaves the others as they are.             *)
LEMMA ClosedLinks ==
  ASSUME WsTypeOK, NEW cs \in SUBSET Conns
  PROVE  /\ Closed(cs) \in [Conns -> {"away", "queued", "up", "stuck", "gone", "left"}]
         /\ \A c \in Conns : Closed(cs)[c] = IF c \in cs THEN "away" ELSE link[c]
BY DEF WsTypeOK, Closed

LEMMA ClosedFewer ==
  ASSUME WsTypeOK, NEW cs \in SUBSET Conns, link' = Closed(cs)
  PROVE  Held' \subseteq Held \ cs /\ Queued' = Queued \ cs
<1>1. \A c \in Conns : link'[c] = IF c \in cs THEN "away" ELSE link[c]
  BY ClosedLinks
<1>2. Held' = {c \in Conns : link'[c] \in {"up", "stuck", "gone"}}
  BY DEF Held
<1>3. Queued' = {c \in Conns : link'[c] = "queued"}
  BY DEF Queued
<1>4. Held' \subseteq Held \ cs
  BY <1>1, <1>2 DEF Held
<1>5. Queued' = Queued \ cs
  BY <1>1, <1>3 DEF Queued
<1>6. QED
  BY <1>4, <1>5

LEMMA SubsetsOfConns == Held \subseteq Conns /\ Queued \subseteq Conns
BY DEF Held, Queued

(* Loop: what it accepts it holds until it has closed it or put it on the   *)
(* list.                                                                   *)
LEMMA LoopInv == ASSUME WsInv, LoopStep PROVE WsInv'
<1> USE ConnAssumption
<1>1. /\ owner \in {"running", "sending", "flagged", "cleared", "joined", "done"}
      /\ clients \subseteq Conns /\ cur \in Conns \cup {NoConn}
      /\ Held \subseteq clients \cup {cur}
      /\ cur # NoConn <=> loop \in {"recv", "push"}
  BY DEF WsInv, WsTypeOK, HeldInv
<1>2. loop # "done"
  BY DEF LoopStep, LoopStart, LoopCheck, Accept, RecvAndClose, RecvUpgrade, Push
<1>3. owner' = owner /\ owner \notin {"joined", "done"}
  BY <1>2 DEF WsInv, ExitInv, LoopStep, LoopStart, LoopCheck, Accept, RecvAndClose,
     RecvUpgrade, Push
<1>4. ExitInv'
  BY <1>3 DEF ExitInv
<1>5. CASE LoopStart \/ LoopCheck \/ RecvUpgrade \/ Push
  <2>1. link' = link /\ Held' = Held
    BY <1>5 DEF LoopStart, LoopCheck, RecvUpgrade, Push, Held
  <2>2. WsTypeOK'
    BY <1>1, <1>5, <2>1 DEF WsInv, WsTypeOK, LoopStart, LoopCheck, RecvUpgrade, Push
  <2>3. HeldInv'
    BY <1>1, <1>5, <2>1 DEF HeldInv, LoopStart, LoopCheck, RecvUpgrade, Push
  <2>4. QED
    BY <1>4, <2>2, <2>3 DEF WsInv
<1>6. CASE RecvAndClose
  <2>1. cur \in Conns
    BY <1>6, <1>1 DEF RecvAndClose, WsInv, WsTypeOK
  <2>2. Held' \subseteq Held \ {cur}
    BY <1>6, <2>1, ClosedFewer DEF RecvAndClose, WsInv
  <2>3. HeldInv'
    BY <1>1, <1>6, <2>2 DEF RecvAndClose, HeldInv
  <2>4. WsTypeOK'
    BY <1>6, <2>1, ClosedLinks DEF RecvAndClose, WsInv, WsTypeOK
  <2>5. QED
    BY <1>4, <2>3, <2>4 DEF WsInv
<1>7. ASSUME NEW c \in Conns, Accept(c) PROVE WsInv'
  <2>1. cur = NoConn /\ cur' = c /\ loop' = "recv" /\ clients' = clients
    BY <1>1, <1>7 DEF Accept
  <2>2. PICK cs \in SUBSET Conns : link' = [Closed(cs) EXCEPT ![c] = "up"]
    <3>1. Closed({}) = link
      BY DEF Closed, WsInv, WsTypeOK
    <3>2. QED
      BY <1>7, <3>1, SubsetsOfConns DEF Accept
  <2>3. /\ Closed(cs) \in [Conns -> {"away", "queued", "up", "stuck", "gone", "left"}]
        /\ \A d \in Conns : Closed(cs)[d] = IF d \in cs THEN "away" ELSE link[d]
    BY ClosedLinks DEF WsInv
  <2>4. \A d \in Conns : link'[d] = IF d = c THEN "up" ELSE Closed(cs)[d]
    BY <2>2, <2>3
  <2>5. Held' = {d \in Conns : link'[d] \in {"up", "stuck", "gone"}}
    BY DEF Held
  <2>6. Held' \subseteq Held \cup {c}
    BY <2>3, <2>4, <2>5 DEF Held
  <2>7. HeldInv'
    BY <1>1, <2>1, <2>6, SubsetsOfConns DEF HeldInv
  <2>8. link' \in [Conns -> {"away", "queued", "up", "stuck", "gone", "left"}]
    BY <2>2, <2>3
  <2>9. WsTypeOK'
    BY <1>7, <2>1, <2>8 DEF WsInv, WsTypeOK, Accept
  <2>10. QED
    BY <1>4, <2>7, <2>9 DEF WsInv
<1>8. QED
  BY <1>5, <1>6, <1>7 DEF LoopStep

(* The owner: Stop, and the second Stop of the destructor.                 *)
LEMMA OwnerInv == ASSUME WsInv, OwnerStep PROVE WsInv'
<1> USE ConnAssumption
<1>1. /\ clients \subseteq Conns /\ cur \in Conns \cup {NoConn}
      /\ listenFd \in {"none", "unbound", "open", "closed"}
      /\ Held \subseteq clients \cup {cur}
      /\ cur # NoConn <=> loop \in {"recv", "push"}
  BY DEF WsInv, WsTypeOK, HeldInv
<1>2. ListenClosed \in {"none", "closed"}
  BY <1>1 DEF ListenClosed
<1>3. loop' = loop /\ cur' = cur
  BY DEF OwnerStep, BroadcastBegin, BroadcastEnd, StopFlag, StopClear, StopJoin, Destroy
<1>4. CASE BroadcastBegin \/ StopJoin
  <2>1. link' = link /\ clients' = clients /\ listenFd' = listenFd /\ stopping' = stopping
    BY <1>4 DEF BroadcastBegin, StopJoin
  <2>2. owner' = "sending" \/ (owner' = "joined" /\ loop = "done")
    BY <1>4 DEF BroadcastBegin, StopJoin
  <2>3. Held' = Held
    BY <2>1 DEF Held
  <2>4. WsTypeOK'
    BY <1>3, <2>1, <2>2 DEF WsInv, WsTypeOK
  <2>5. HeldInv' /\ ExitInv'
    BY <1>1, <1>3, <2>1, <2>2, <2>3 DEF HeldInv, ExitInv
  <2>6. QED
    BY <2>4, <2>5 DEF WsInv
<1>5. CASE BroadcastEnd
  <2>1. PICK bad \in SUBSET {c \in clients : link[c] = "gone"} :
           clients' = clients \ bad /\ link' = Closed(bad)
    BY <1>5 DEF BroadcastEnd
  <2>2. bad \in SUBSET Conns
    BY <1>1, <2>1
  <2>3. Held' \subseteq Held \ bad
    BY <2>1, <2>2, ClosedFewer DEF WsInv
  <2>4. link' \in [Conns -> {"away", "queued", "up", "stuck", "gone", "left"}]
    BY <2>1, <2>2, ClosedLinks DEF WsInv
  <2>5. owner' = "running" /\ listenFd' = listenFd /\ stopping' = stopping
    BY <1>5 DEF BroadcastEnd
  <2>6. WsTypeOK'
    BY <1>1, <1>3, <2>1, <2>4, <2>5 DEF WsInv, WsTypeOK
  <2>7. HeldInv' /\ ExitInv'
    BY <1>1, <1>3, <2>1, <2>3, <2>5 DEF HeldInv, ExitInv
  <2>8. QED
    BY <2>6, <2>7 DEF WsInv
<1>6. CASE StopFlag
  <2>1. PICK cs \in SUBSET Conns : link' = Closed(cs)
    <3>1. Closed({}) = link
      BY DEF Closed, WsInv, WsTypeOK
    <3>2. QED
      BY <1>6, <3>1, SubsetsOfConns DEF StopFlag
  <2>2. Held' \subseteq Held
    BY <2>1, ClosedFewer DEF WsInv
  <2>3. link' \in [Conns -> {"away", "queued", "up", "stuck", "gone", "left"}]
    BY <2>1, ClosedLinks DEF WsInv
  <2>4. owner' = "flagged" /\ stopping' = TRUE /\ clients' = clients /\ listenFd' = ListenClosed
    BY <1>6 DEF StopFlag
  <2>5. WsTypeOK'
    BY <1>1, <1>2, <1>3, <2>3, <2>4 DEF WsInv, WsTypeOK
  <2>6. HeldInv' /\ ExitInv'
    BY <1>1, <1>3, <2>2, <2>4 DEF HeldInv, ExitInv
  <2>7. QED
    BY <2>5, <2>6 DEF WsInv
<1>7. CASE StopClear
  <2>1. link' = Closed(clients) /\ clients' = {} /\ owner' = "cleared"
        /\ listenFd' = listenFd /\ stopping' = stopping
    BY <1>7 DEF StopClear
  <2>2. Held' \subseteq Held \ clients
    BY <1>1, <2>1, ClosedFewer DEF WsInv
  <2>3. link' \in [Conns -> {"away", "queued", "up", "stuck", "gone", "left"}]
    BY <1>1, <2>1, ClosedLinks DEF WsInv
  <2>4. WsTypeOK'
    BY <1>1, <1>3, <2>1, <2>3 DEF WsInv, WsTypeOK
  <2>5. HeldInv' /\ ExitInv'
    BY <1>1, <1>3, <2>1, <2>2 DEF HeldInv, ExitInv
  <2>6. QED
    BY <2>4, <2>5 DEF WsInv
<1>8. CASE Destroy
  <2>1. link' = Closed(clients \cup Queued) /\ clients' = {} /\ owner' = "done"
        /\ listenFd' = ListenClosed /\ stopping' = stopping
    BY <1>8 DEF Destroy
  <2>2. clients \cup Queued \in SUBSET Conns
    BY <1>1, SubsetsOfConns
  <2>3. Held' \subseteq Held \ (clients \cup Queued) /\ Queued' = Queued \ (clients \cup Queued)
    BY <2>1, <2>2, ClosedFewer DEF WsInv
  <2>4. link' \in [Conns -> {"away", "queued", "up", "stuck", "gone", "left"}]
    BY <2>1, <2>2, ClosedLinks DEF WsInv
  <2>5. loop = "done"
    BY <1>8 DEF Destroy, WsInv, ExitInv
  <2>6. WsTypeOK'
    BY <1>1, <1>2, <1>3, <2>1, <2>4 DEF WsInv, WsTypeOK
  <2>7. HeldInv'
    BY <1>1, <1>3, <2>1, <2>3 DEF HeldInv
  <2>8. Queued' = {}
    BY <2>3
  <2>9. ExitInv'
    BY <1>2, <1>3, <2>1, <2>5, <2>8 DEF ExitInv
  <2>10. QED
    BY <2>6, <2>7, <2>9 DEF WsInv
<1>9. QED
  BY <1>4, <1>5, <1>6, <1>7, <1>8 DEF OwnerStep

(* The browsers: nobody gets into the backlog of a server that is gone.     *)
LEMMA BrowserInv == ASSUME WsInv, BrowserStep PROVE WsInv'
<1>1. /\ Held \subseteq clients \cup {cur}
      /\ link \in [Conns -> {"away", "queued", "up", "stuck", "gone", "left"}]
  BY DEF WsInv, WsTypeOK, HeldInv
<1>2. UNCHANGED <<owner, listenFd, stopping, loop, cur, clients>>
  BY DEF BrowserStep, Connect, PeerChanges
<1>3. PICK c \in Conns : Connect(c) \/ PeerChanges(c)
  BY DEF BrowserStep
<1>4. /\ link' \in [Conns -> {"away", "queued", "up", "stuck", "gone", "left"}]
      /\ \A d \in Conns : d # c => link'[d] = link[d]
  BY <1>1, <1>3 DEF Connect, PeerChanges
<1>5. c \in Held' => c \in Held
  BY <1>1, <1>3 DEF Connect, PeerChanges, Held
<1>6. Held' \subseteq Held
  <2>1. Held' = {d \in Conns : link'[d] \in {"up", "stuck", "gone"}}
    BY DEF Held
  <2>2. QED
    BY <1>4, <1>5, <2>1 DEF Held
<1>7. WsTypeOK'
  BY <1>2, <1>4 DEF WsInv, WsTypeOK
<1>8. HeldInv'
  BY <1>1, <1>2, <1>6 DEF WsInv, HeldInv
<1>9. ASSUME owner = "done" PROVE Queued' = {}
  <2>1. ~Listening /\ Queued = {}
    BY <1>9 DEF WsInv, ExitInv, Listening
  <2>2. link'[c] # "queued"
    BY <1>1, <1>3, <2>1 DEF Connect, PeerChanges
  <2>3. \A d \in Conns : link'[d] # "queued"
    BY <1>4, <2>1, <2>2 DEF Queued
  <2>4. QED
    BY <2>3 DEF Queued
<1>10. ExitInv'
  BY <1>2, <1>9 DEF WsInv, ExitInv
<1>11. QED
  BY <1>7, <1>8, <1>10 DEF WsInv

LEMMA WsStepInv == WsInv /\ [WsNext]_wsVars => WsInv'
<1>1. WsInv /\ UNCHANGED wsVars => WsInv'
  BY DEF wsVars, WsInv, WsTypeOK, HeldInv, ExitInv, Held, Queued
<1>2. QED
  BY <1>1, LoopInv, OwnerInv, BrowserInv DEF WsNext

(* The types of the server, who answers for each descriptor, and what the   *)
(* second Stop finds.                                                      *)
THEOREM WsInvariance == WsSpec => []WsInv
BY WsInitInv, WsStepInv, PTL DEF WsSpec

(* SimpleWebsocketServer leaves no descriptor behind, of a client or of its *)
(* own, whatever Loop did while Stop ran.                                  *)
THEOREM ServerLeavesNothing == WsSpec => []AllClosedAtExit
<1>1. WsInv => AllClosedAtExit
  <2> SUFFICES ASSUME WsInv, owner = "done"
               PROVE  Held = {} /\ Queued = {} /\ listenFd \notin {"open", "unbound"}
    BY DEF AllClosedAtExit
  <2>1. clients = {} /\ Queued = {} /\ listenFd \notin {"open", "unbound"} /\ loop = "done"
    BY DEF WsInv, ExitInv
  <2>2. cur = NoConn
    BY <2>1 DEF WsInv, HeldInv
  <2>3. Held = {}
    BY <2>1, <2>2, SubsetsOfConns, ConnAssumption DEF WsInv, HeldInv
  <2>4. QED
    BY <2>1, <2>3
<1>2. QED
  BY <1>1, WsInvariance, PTL

(* What StopReturnsWithPage rests on: while Stop waits for Loop ...         *)
Stopping == owner \in {"flagged", "cleared"}

(* ... that has so much left to do: a blocked accept has one connection to   *)
(* take before it looks at stopping_, and no other is taken after it.       *)
LoopLeft ==
  CASE loop = "accept" -> 4 [] loop = "recv" -> 3 [] loop \in {"starting", "push"} -> 2
    [] loop = "check" -> 1 [] OTHER -> 0

(* Loop sees the flag, can be connected to, or works on a connection; what   *)
(* it needs mu_ for does not wait for Stop.                                 *)
LoopGoesOn ==
  \/ loop \in {"starting", "check", "done"}
  \/ loop = "accept" /\ Listening
  \/ loop = "recv" /\ cur \in Conns
  \/ loop = "push" /\ MutexFree

FlagInv == owner \notin {"running", "sending"} => stopping

LEMMA FlagStep == FlagInv /\ [WsNext]_wsVars => FlagInv'
BY DEF FlagInv, WsNext, LoopStep, LoopStart, LoopCheck, Accept, RecvAndClose, RecvUpgrade, Push,
   OwnerStep, BroadcastBegin, BroadcastEnd, StopFlag, StopClear, StopJoin, Destroy,
   BrowserStep, Connect, PeerChanges, wsVars

LEMMA StoppingStep ==
  ASSUME FlagInv, Stopping, [WsNext]_wsVars
  PROVE  /\ LoopLeft \in Nat /\ LoopLeft' <= LoopLeft
         /\ LoopStep => LoopLeft' < LoopLeft
<1>1. stopping
  BY DEF FlagInv, Stopping
<1>2. CASE LoopStep
  <2>1. \/ loop = "starting" /\ loop' \in {"done", "check"}
        \/ loop = "check" /\ loop' = "done"
        \/ loop = "accept" /\ loop' = "recv"
        \/ loop = "recv" /\ loop' \in {"check", "push"}
        \/ loop = "push" /\ loop' = "check"
    BY <1>1, <1>2 DEF LoopStep, LoopStart, LoopCheck, Accept, RecvAndClose, RecvUpgrade, Push
  <2>2. QED
    BY <2>1 DEF LoopLeft
<1>3. CASE ~LoopStep
  <2>1. loop' = loop
    BY <1>3 DEF WsNext, OwnerStep, BroadcastBegin, BroadcastEnd, StopFlag, StopClear,
       StopJoin, Destroy, BrowserStep, Connect, PeerChanges, wsVars
  <2>2. QED
    BY <1>3, <2>1 DEF LoopLeft
<1>4. QED
  BY <1>2, <1>3

(* While Stop waits, every step of Loop brings its end nearer and nobody     *)
(* puts it off; in particular it accepts one more connection at the most.   *)
THEOREM StopAdvances ==
  WsSpec => [][Stopping => /\ LoopLeft \in Nat /\ LoopLeft' <= LoopLeft
                           /\ LoopStep => LoopLeft' < LoopLeft]_wsVars
<1>1. FlagInv /\ [WsNext]_wsVars =>
        (Stopping => /\ LoopLeft \in Nat /\ LoopLeft' <= LoopLeft
                     /\ LoopStep => LoopLeft' < LoopLeft)
  BY StoppingStep
<1>2. WsInit => FlagInv
  BY DEF WsInit, FlagInv
<1>3. QED
  BY <1>1, <1>2, FlagStep, PTL DEF WsSpec

(* While Stop waits, Loop waits for nothing but a browser, which can reach   *)
(* it, and never for the mutex or for the descriptor Stop has closed.       *)
THEOREM StopIsNotInTheWay == WsSpec => [](Stopping => LoopGoesOn)
<1>1. WsInv => (Stopping => LoopGoesOn)
  BY DEF WsInv, WsTypeOK, HeldInv, Stopping, LoopGoesOn, Listening, MutexFree
<1>2. QED
  BY <1>1, WsInvariance, PTL

-----------------------------------------------------------------------------
(* The composition.                                                        *)

(* Every step of the replay is a step of its map, or leaves the map alone;  *)
(* so what MapSpec promises the replay has.                                *)
THEOREM MapRefinement == Spec => MapSpec
<1>1. Init => MapInit
  BY DEF Init
<1>2. [Next]_vars => [MapNext]_mapVars
  <2> SUFFICES ASSUME [Next]_vars PROVE [MapNext]_mapVars
    OBVIOUS
  <2>1. CASE ReadFrame
    BY <2>1 DEF ReadFrame, MapNext
  <2>2. CASE UpdateViews
    BY <2>2 DEF UpdateViews, MapNext
  <2>3. CASE SkipSend \/ Send \/ Sent \/ Reopen \/ Finish \/ Shutdown \/ Others
    BY <2>3 DEF SkipSend, Send, Sent, Reopen, Finish, Shutdown, Others
  <2>4. CASE UNCHANGED vars
    BY <2>4 DEF vars
  <2>5. QED
    BY <2>1, <2>2, <2>3, <2>4 DEF Next, Main
<1>3. QED
  BY <1>1, <1>2, PTL DEF Spec, MapSpec

(* The main loop is a well-behaved owner of the server.                    *)
THEOREM WsRefinement == Spec => WsSpec
<1>1. Init => WsInit
  BY DEF Init
<1>2. [Next]_vars => [WsNext]_wsVars
  <2> SUFFICES ASSUME [Next]_vars PROVE [WsNext]_wsVars
    OBVIOUS
  <2>1. CASE ReadFrame \/ UpdateViews \/ SkipSend \/ Reopen
    BY <2>1 DEF ReadFrame, UpdateViews, SkipSend, Reopen
  <2>2. CASE Send \/ Sent \/ Finish \/ Shutdown
    BY <2>2 DEF Send, Sent, Finish, Shutdown, WsNext, OwnerStep
  <2>3. CASE Others
    BY <2>3 DEF Others, WsNext
  <2>4. CASE UNCHANGED vars
    BY <2>4 DEF vars
  <2>5. QED
    BY <2>1, <2>2, <2>3, <2>4 DEF Next, Main
<1>3. QED
  BY <1>1, <1>2, PTL DEF Spec, WsSpec

(* What the browsers are sent after an update is the map as it is.         *)
THEOREM ReplayShowsMap == Spec => SurfaceIsShown
BY MapRefinement, MapIsShown, PTL

(* The replay ends without a descriptor.                                   *)
THEOREM ReplayClosesAll == Spec => []AllClosedAtExit
BY WsRefinement, ServerLeavesNothing, PTL

-----------------------------------------------------------------------------
(* The reader.                                                              *)

whole == WholeRecords(Frames, crash[1])

(* The file has its header, and it does not change.                         *)
CrashInv == crash[1] \in 2..Len(Recording(Frames)) /\ crash[2] \in Nat

(* The reader stands after the whole records it has returned, or after all  *)
(* of them and the torn one, where there is nothing any more.               *)
ReadInv ==
  /\ read \in Seq(Int) /\ pos \in 1..Len(File) + 1
  /\ \A k \in 1..whole : k <= Len(read) => read[k] = Frames[k].ts
  /\ \/ Len(read) <= whole /\ pos = Start(Frames, Len(read))
     \/ Len(read) = whole + 1 /\ ~Entry.found

FileInv == CrashInv /\ ReadInv

LEMMA FileIsRemains == File = Remains(Frames, crash[1], crash[2])
BY DEF File, Remains

LEMMA FramesType == Frames \in Seq(Frame)
BY ReplayAssumption

(* Where the reader stands after whole records is a position of the file.   *)
LEMMA StartsInFile ==
  ASSUME CrashInv, NEW k \in 0..whole
  PROVE  Start(Frames, k) \in 1..Len(File) + 1
<1>1. whole \in Nat
  BY FramesType, WholeDef DEF CrashInv, whole
<1>2. CASE k \in 0..whole - 1
  BY <1>2, FramesType, FileIsRemains, WholeRecordsAreRead DEF CrashInv, whole
<1>3. CASE k = whole
  BY <1>3, FramesType, FileIsRemains, TornRecordEndsTheFile DEF CrashInv, whole
<1>4. QED
  BY <1>1, <1>2, <1>3

LEMMA FileInitInv == Init => FileInv
<1> SUFFICES ASSUME Init PROVE FileInv
  OBVIOUS
<1>1. crash \in Crashes /\ Open(File) # 0 /\ pos = Open(File) /\ read = <<>>
  BY DEF Init
<1>2. crash[1] \in Nat /\ crash[2] \in Nat /\ crash[1] <= Len(Recording(Frames))
  BY <1>1, ReplayAssumption
<1>3. Recording(Frames) \in Seq(Int)
  BY FramesType, RecordingWords
<1>4. crash[1] \in 0..Len(Recording(Frames))
  BY <1>2, <1>3
<1>5. CrashInv
  BY <1>1, <1>2, <1>4, FramesType, FileIsRemains, OpensWithHeader DEF CrashInv
<1>6. whole \in Nat
  BY <1>5, FramesType, WholeDef DEF CrashInv, whole
<1>7. /\ pos = Start(Frames, 0) /\ pos = 3
      /\ Len(File) = crash[1] + crash[2]
  BY <1>1, <1>5, FramesType, FileIsRemains, RemainsWords DEF CrashInv
<1>inFile. pos \in 1..Len(File) + 1
  BY <1>5, <1>7 DEF CrashInv
<1>8. read \in Seq(Int) /\ Len(read) = 0
  BY <1>1
<1>9. QED
  BY <1>5, <1>6, <1>7, <1>inFile, <1>8 DEF FileInv, ReadInv

(* A frame that was read is the next whole record, or the torn one.         *)
LEMMA ReadFrameInv ==
  ASSUME FileInv, ReadFrame
  PROVE  FileInv'
<1> DEFINE k == Len(read)
<1>1. /\ Entry.found /\ pos' = Entry.pos /\ read' = Append(read, Entry.ts)
      /\ crash' = crash
  BY DEF ReadFrame
<1>2. whole' = whole /\ File' = File /\ CrashInv'
  BY <1>1 DEF whole, File, CrashInv, FileInv
<1>3. whole \in 0..Len(Frames) /\ whole \in Nat
  BY FramesType, WholeDef DEF FileInv, CrashInv, whole
<1>4. read \in Seq(Int) /\ k \in Nat
  BY DEF FileInv, ReadInv
<1>5. k <= whole /\ pos = Start(Frames, k)
  BY <1>1 DEF FileInv, ReadInv
<1>6. \A i \in 1..whole : i <= k => read[i] = Frames[i].ts
  BY DEF FileInv, ReadInv
<1>7. Entry'= NextEntry(File, pos')
  BY <1>2 DEF Entry
<1>inFile. pos' \in 1..Len(File') + 1
  <2>1. CASE k < whole
    <3>1. Entry.pos = Start(Frames, k + 1) /\ k + 1 \in 0..whole
      <4>1. k \in 0..whole - 1 /\ k + 1 \in 0..whole
        BY <1>3, <1>4, <2>1
      <4>2. Entry = [found |-> TRUE, pos |-> Start(Frames, k + 1), ts |-> Frames[k + 1].ts,
                     jpeg |-> TRUE, image |-> TRUE, depth |-> Frames[k + 1].depth]
        BY <1>5, <4>1, FramesType, FileIsRemains, WholeRecordsAreRead
           DEF Entry, FileInv, CrashInv, whole
      <4> HIDE DEF Entry, k
      <4>3. QED
        BY <4>1, <4>2
    <3>2. QED
      BY <1>1, <1>2, <3>1, StartsInFile DEF FileInv
  <2>2. CASE k = whole
    BY <1>1, <1>2, <1>5, <2>2, FramesType, FileIsRemains, TornRecordEndsTheFile
       DEF Entry, FileInv, CrashInv, whole
  <2>3. QED
    BY <1>3, <1>4, <1>5, <2>1, <2>2
<1>8. CASE k < whole
  <2>1. k \in 0..whole - 1
    BY <1>3, <1>4, <1>8
  <2>2. Entry.pos = Start(Frames, k + 1) /\ Entry.ts = Frames[k + 1].ts
    <3>1. Entry = [found |-> TRUE, pos |-> Start(Frames, k + 1), ts |-> Frames[k + 1].ts,
                   jpeg |-> TRUE, image |-> TRUE, depth |-> Frames[k + 1].depth]
      BY <1>5, <2>1, FramesType, FileIsRemains, WholeRecordsAreRead
         DEF Entry, FileInv, CrashInv, whole
    <3> HIDE DEF Entry, k
    <3>2. QED
      BY <3>1
  <2>3. Entry.ts \in Int
    <3>1. k + 1 \in 1..Len(Frames)
      BY <1>3, <2>1
    <3>2. Frames[k + 1] \in Frame
      BY <3>1, FramesType
    <3>3. QED
      BY <2>2, <3>2 DEF Frame
  <2>4. /\ read' \in Seq(Int) /\ Len(read') = k + 1
        /\ \A i \in 1..k : read'[i] = read[i]
        /\ read'[k + 1] = Entry.ts
    BY <1>1, <1>4, <2>3, AppendProperties
  <2>5. pos' = Start(Frames, Len(read')) /\ Len(read') <= whole
    BY <1>1, <1>3, <1>4, <1>8, <2>2, <2>4
  <2>6. \A i \in 1..whole : i <= k + 1 => read'[i] = Frames[i].ts
    <3> HIDE DEF k
    <3>1. \A i \in 1..whole : i <= k + 1 => i \in 1..k \/ i = k + 1
      BY <1>3, <1>4
    <3>2. QED
      BY <1>6, <2>2, <2>4, <3>1
  <2>7. QED
    BY <1>2, <1>inFile, <2>4, <2>5, <2>6 DEF FileInv, ReadInv
<1>9. CASE k = whole
  <2>1. /\ ~NextEntry(File, Entry.pos).found
        /\ Entry.ts \in Int
    BY <1>1, <1>5, <1>9, FramesType, FileIsRemains, TornRecordEndsTheFile
       DEF Entry, FileInv, CrashInv, whole
  <2>2. /\ read' \in Seq(Int) /\ Len(read') = k + 1
        /\ \A i \in 1..k : read'[i] = read[i]
    BY <1>1, <1>4, <2>1, AppendProperties
  <2>3. \A i \in 1..whole : read'[i] = Frames[i].ts
    BY <1>3, <1>4, <1>6, <1>9, <2>2
  <2>4. ~(Entry').found
    BY <1>1, <1>7, <2>1
  <2>5. Len(read') = whole + 1
    BY <1>9, <2>2
  <2>6. QED
    BY <1>2, <1>inFile, <2>2, <2>3, <2>4, <2>5 DEF FileInv, ReadInv
<1>10. QED
  BY <1>3, <1>4, <1>5, <1>8, <1>9

LEMMA FileStepInv == FileInv /\ [Next]_vars => FileInv'
<1> SUFFICES ASSUME FileInv, [Next]_vars PROVE FileInv'
  OBVIOUS
<1>1. CASE ReadFrame
  BY <1>1, ReadFrameInv
<1>2. CASE Reopen
  <2>1. crash' = crash /\ pos' = Open(File) /\ read' = <<>>
    BY <1>2 DEF Reopen
  <2>2. File' = File /\ CrashInv'
    BY <2>1 DEF File, CrashInv, FileInv
  <2>3. pos' = Start(Frames, 0) /\ whole' = whole
    BY <2>1, FramesType, FileIsRemains, RemainsWords DEF FileInv, CrashInv, whole
  <2>4. whole \in Nat
    BY FramesType, WholeDef DEF FileInv, CrashInv, whole
  <2>5. read' \in Seq(Int) /\ Len(read') = 0
    BY <2>1
  <2>6. pos' \in 1..Len(File') + 1
    BY <2>2, <2>3, <2>4, StartsInFile DEF FileInv
  <2>7. QED
    BY <2>2, <2>3, <2>4, <2>5, <2>6 DEF FileInv, ReadInv
<1>3. CASE UpdateViews \/ SkipSend \/ Send \/ Sent \/ Finish \/ Shutdown \/ Others
           \/ UNCHANGED vars
  <2>1. UNCHANGED <<crash, pos, read>>
    BY <1>3 DEF UpdateViews, SkipSend, Send, Sent, Finish, Shutdown, Others, vars, playVars
  <2>2. QED
    BY <2>1 DEF FileInv, CrashInv, ReadInv, whole, File, Entry
<1>4. QED
  BY <1>1, <1>2, <1>3 DEF Next, Main

(* Where the reader stands, whatever was left of the file.                  *)
THEOREM FileInvariance == Spec => []FileInv
BY FileInitInv, FileStepInv, PTL DEF Spec

-----------------------------------------------------------------------------
(* The loop's own state.                                                   *)

MessageType == [points : BOOLEAN, slice : BOOLEAN, cells : Nat]

(* A slice is only made from a map that has a frame, and goes with its flag. *)
SliceInv ==
  /\ pc = "visualize" => frames > 0
  /\ PendingSliceIsWhole

PlayInv == TypeOK /\ MapInv /\ WsInv /\ SliceInv

LEMMA PlayInitInv == Init => PlayInv
<1> SUFFICES ASSUME Init PROVE PlayInv
  OBVIOUS
<1>1. MapInv /\ WsInv /\ FileInv
  BY MapInitInv, WsInitInv, FileInitInv DEF Init
<1>2. passes \in 1..MaxPasses
  BY ReplayAssumption DEF Init
<1>3. TypeOK
  BY <1>1, <1>2 DEF TypeOK, MapInv, WsInv, FileInv, ReadInv, Init, NoMessage
<1>4. SliceInv
  BY DEF SliceInv, PendingSliceIsWhole, Init, NoMessage
<1>5. QED
  BY <1>1, <1>3, <1>4 DEF PlayInv

(* The loop's steps, given that map, server and reader keep their own.     *)
LEMMA PlayStepInv ==
  ASSUME PlayInv, [Next]_vars, MapInv', WsInv', FileInv'
  PROVE  PlayInv'
<1>1. /\ crash \in Crashes /\ pc \in {"next", "visualize", "send", "closing"}
      /\ passes \in 1..MaxPasses
      /\ pointsUpdated \in BOOLEAN /\ sliceUpdated \in BOOLEAN
      /\ slice \in Nat /\ message \in MessageType /\ frames \in Nat
  BY DEF PlayInv, TypeOK, MapInv, MapTypeOK, MessageType
<1>2. /\ MapTypeOK' /\ WsTypeOK'
      /\ pos' \in 1..Len(File') + 1 /\ read' \in Seq(Int)
  BY DEF MapInv, WsInv, FileInv, ReadInv
<1>3. SliceInv
  BY DEF PlayInv
<1>4. CASE ReadFrame
  <2>1. pc' \in {"next", "visualize", "send", "closing"}
    BY <1>4 DEF ReadFrame
  <2>2. pc' = "visualize" => frames' > 0
    BY <1>1, <1>4 DEF ReadFrame, Integrate
  <2>3. UNCHANGED <<crash, passes, pointsUpdated, sliceUpdated, slice, message>>
    BY <1>4 DEF ReadFrame
  <2>4. TypeOK'
    BY <1>1, <1>2, <2>1, <2>3 DEF TypeOK, MessageType
  <2>5. SliceInv'
    BY <1>3, <2>2, <2>3 DEF SliceInv, PendingSliceIsWhole
  <2>6. QED
    BY <2>4, <2>5 DEF PlayInv
<1>5. CASE UpdateViews
  <2>1. frames > 0
    BY <1>3, <1>5 DEF UpdateViews, SliceInv
  <2>2. PICK ok \in BOOLEAN : sliceUpdated' = ok /\ slice' = IF ok THEN frames ELSE 0
    BY <1>5 DEF UpdateViews
  <2>3. UNCHANGED <<crash, passes, message>> /\ pointsUpdated' = TRUE /\ pc' = "send"
    BY <1>5 DEF UpdateViews
  <2>4. slice' \in Nat /\ sliceUpdated' \in BOOLEAN
    BY <1>1, <2>2
  <2>5. TypeOK'
    BY <1>1, <1>2, <2>3, <2>4 DEF TypeOK, MessageType
  <2>6. sliceUpdated' => slice' > 0
    BY <2>1, <2>2
  <2>7. SliceInv'
    BY <1>3, <2>3, <2>6 DEF SliceInv, PendingSliceIsWhole
  <2>8. QED
    BY <2>5, <2>7 DEF PlayInv
<1>6. CASE Send
  <2> DEFINE cells == IF sliceUpdated THEN slice ELSE 0
  <2>1. message' = [points |-> pointsUpdated, slice |-> sliceUpdated, cells |-> cells]
    BY <1>6 DEF Send
  <2>2. cells \in Nat /\ (sliceUpdated => cells > 0)
    BY <1>1, <1>3 DEF SliceInv, PendingSliceIsWhole
  <2> HIDE DEF cells
  <2>3. message' \in MessageType /\ message'.slice = sliceUpdated /\ message'.cells = cells
    BY <1>1, <2>1, <2>2 DEF MessageType
  <2>4. /\ UNCHANGED <<crash, pc, passes, slice>> /\ pc = "send"
        /\ pointsUpdated' = FALSE /\ sliceUpdated' = FALSE
    BY <1>6 DEF Send
  <2>5. TypeOK'
    BY <1>1, <1>2, <2>3, <2>4 DEF TypeOK, MessageType
  <2>6. SliceInv'
    BY <2>2, <2>3, <2>4 DEF SliceInv, PendingSliceIsWhole
  <2>7. QED
    BY <2>5, <2>6 DEF PlayInv
<1>7. CASE Sent
  <2>1. UNCHANGED <<crash, passes, pointsUpdated, sliceUpdated, slice>> /\ pc' = "next"
    BY <1>7 DEF Sent
  <2>2. message' \in MessageType /\ ~message'.slice
    BY <1>7 DEF Sent, NoMessage, MessageType
  <2>3. TypeOK'
    BY <1>1, <1>2, <2>1, <2>2 DEF TypeOK, MessageType
  <2>4. SliceInv'
    BY <1>3, <2>1, <2>2 DEF SliceInv, PendingSliceIsWhole
  <2>5. QED
    BY <2>3, <2>4 DEF PlayInv
<1>8. CASE Reopen
  <2>1. passes' \in 1..MaxPasses
    BY <1>1, <1>8, ReplayAssumption DEF Reopen
  <2>2. UNCHANGED <<crash, pc, pointsUpdated, sliceUpdated, slice, message, frames>>
    BY <1>8 DEF Reopen, mapVars
  <2>3. TypeOK'
    BY <1>1, <1>2, <2>1, <2>2 DEF TypeOK, MessageType
  <2>4. SliceInv'
    BY <1>3, <2>2 DEF SliceInv, PendingSliceIsWhole
  <2>5. QED
    BY <2>3, <2>4 DEF PlayInv
<1>9. CASE SkipSend \/ Finish \/ Shutdown \/ Others \/ UNCHANGED vars
  <2>1. UNCHANGED <<crash, passes, pointsUpdated, sliceUpdated, slice, message, frames>>
    BY <1>9 DEF SkipSend, Finish, Shutdown, Others, vars, playVars, mapVars
  <2>2. pc' = pc \/ pc' \in {"next", "closing"}
    BY <1>9 DEF SkipSend, Finish, Shutdown, Others, vars, playVars
  <2>3. TypeOK'
    BY <1>1, <1>2, <2>1, <2>2 DEF TypeOK, MessageType
  <2>4. SliceInv'
    BY <1>3, <2>1, <2>2 DEF SliceInv, PendingSliceIsWhole
  <2>5. QED
    BY <2>3, <2>4 DEF PlayInv
<1>10. QED
  BY <1>4, <1>5, <1>6, <1>7, <1>8, <1>9 DEF Next, Main

(* The invariant of the whole replay.                                      *)
THEOREM PlayInvariance == Spec => []PlayInv
<1>1. PlayInv /\ [Next]_vars /\ MapInv' /\ WsInv' /\ FileInv' => PlayInv'
  BY PlayStepInv
<1>2. Spec => [](MapInv /\ WsInv /\ FileInv)
  BY MapRefinement, WsRefinement, MapInvariance, WsInvariance, FileInvariance, PTL
<1>3. QED
  BY <1>1, <1>2, PlayInitInv, PTL DEF Spec

(* The types of the replay loop, its map and its server.                   *)
THEOREM TypeCorrect == Spec => []TypeOK
<1>1. PlayInv => TypeOK
  BY DEF PlayInv
<1>2. QED
  BY <1>1, PlayInvariance, PTL

(* A slice that waits, or is on its way, has cells: one that failed         *)
(* meanwhile has taken the flag back.                                      *)
THEOREM SlicesAreWhole == Spec => []PendingSliceIsWhole
<1>1. PlayInv => PendingSliceIsWhole
  BY DEF PlayInv, SliceInv
<1>2. QED
  BY <1>1, PlayInvariance, PTL

-----------------------------------------------------------------------------
(* What a crash leaves of a recording is read back, by both readers: every  *)
(* whole record, in order, and at the most one more.                        *)
THEOREM CrashedRecordingsAreRead == Spec => []RecordsRecovered
<1>1. FileInv => RecordsRecovered
  <2> SUFFICES ASSUME FileInv, ~Entry.found
               PROVE  /\ Len(read) \in whole..whole + 1
                      /\ \A k \in 1..whole : read[k] = Frames[k].ts
                      /\ Len(PythonFrames(File)) \in whole..whole + 1
                      /\ \A k \in 1..whole : PythonFrames(File)[k] = Frames[k].ts
    BY DEF RecordsRecovered, whole
  <2>1. whole \in Nat
    BY FramesType, WholeDef DEF FileInv, CrashInv, whole
  <2>2. read \in Seq(Int) /\ Len(read) \in Nat
    BY DEF FileInv, ReadInv
  <2>3. ~(Len(read) < whole)
    <3> SUFFICES ASSUME Len(read) < whole PROVE FALSE
      OBVIOUS
    <3>1. Len(read) \in 0..whole - 1 /\ pos = Start(Frames, Len(read))
      BY <2>1, <2>2 DEF FileInv, ReadInv
    <3> DEFINE k == Len(read)
    <3>2. Entry = [found |-> TRUE, pos |-> Start(Frames, k + 1), ts |-> Frames[k + 1].ts,
                   jpeg |-> TRUE, image |-> TRUE, depth |-> Frames[k + 1].depth]
      BY <3>1, FramesType, FileIsRemains, WholeRecordsAreRead
         DEF Entry, FileInv, CrashInv, whole
    <3> HIDE DEF k, Entry
    <3>3. QED
      BY <3>2
  <2>4. Len(read) \in whole..whole + 1
    BY <2>1, <2>2, <2>3 DEF FileInv, ReadInv
  <2>5. \A k \in 1..whole : read[k] = Frames[k].ts
    BY <2>1, <2>2, <2>4 DEF FileInv, ReadInv
  <2>6. /\ Len(PythonFrames(File)) \in whole..whole + 1
        /\ \A k \in 1..whole : PythonFrames(File)[k] = Frames[k].ts
    BY FramesType, FileIsRemains, PythonGetsWholeRecords DEF FileInv, CrashInv, whole
  <2>7. QED
    BY <2>4, <2>5, <2>6
<1>2. QED
  BY <1>1, FileInvariance, PTL
=============================================================================
