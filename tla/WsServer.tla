------------------------------ MODULE WsServer ------------------------------
(***************************************************************************)
(* SimpleWebsocketServer of mapping/backend: an accept loop on a thread of *)
(* its own, the thread that owns the object and broadcasts, and the        *)
(* browsers.  Pages run web_client.html, which connects again whenever its *)
(* socket closes; Strangers connect and may never say anything.            *)
(*                                                                         *)
(* Stop closes the listening descriptor while Loop may be blocked in       *)
(* accept: the blocked call keeps the socket, so that one more connection  *)
(* still completes it, and nothing else does.                              *)
(***************************************************************************)
EXTENDS Naturals

CONSTANTS Pages, Strangers, NoConn

Conns == Pages \cup Strangers

ASSUME ConnAssumption == NoConn \notin Conns /\ Pages \cap Strangers = {}

VARIABLES
  owner,     \* the owning thread: running, sending, flagged, cleared, joined, done
  listenFd,  \* listen_fd_: none, unbound (bind or listen failed), open, closed
  stopping,  \* stopping_
  loop,      \* where Loop is
  cur,       \* the connection Loop has accepted
  clients,   \* clients_
  link       \* each browser's connection

wsVars == <<owner, listenFd, stopping, loop, cur, clients, link>>

\* The server holds a descriptor of it; at the other end the peer may be gone,
\* or not read what it is sent.
Held == {c \in Conns : link[c] \in {"up", "stuck", "gone"}}

\* mu_: BroadcastText holds it while it sends.
MutexFree == owner # "sending"

\* What is left of listen_fd_ after `if (listen_fd_ >= 0) close(listen_fd_)`.
ListenClosed == IF listenFd \in {"open", "unbound"} THEN "closed" ELSE listenFd

\* What a peer sees when the server closes, or loses, its end.
Closed(cs) == [c \in Conns |-> IF c \in cs THEN "away" ELSE link[c]]

Queued == {c \in Conns : link[c] = "queued"}

WsInit ==
  /\ owner = "running"
  /\ listenFd = "none"
  /\ stopping = FALSE
  /\ loop = "starting"
  /\ cur = NoConn
  /\ clients = {}
  /\ link = [c \in Conns |-> "away"]

-----------------------------------------------------------------------------
(* Loop.                                                                   *)

\* socket, bind and listen; the last two may fail and leave the descriptor.
LoopStart ==
  /\ loop = "starting"
  /\ \/ listenFd' = "none" /\ loop' = "done"
     \/ listenFd' = "unbound" /\ loop' = "done"
     \/ listenFd' = "open" /\ loop' = "check"
  /\ UNCHANGED <<owner, stopping, cur, clients, link>>

\* The loop's condition and the call of accept: a descriptor closed in between
\* fails the call, with the same result as a condition evaluated later.
LoopCheck ==
  /\ loop = "check"
  /\ loop' = IF stopping THEN "done" ELSE "accept"
  /\ UNCHANGED <<owner, listenFd, stopping, cur, clients, link>>

\* The returning call gives up the socket if Stop has closed the descriptor.
Accept(c) ==
  /\ loop = "accept"
  /\ link[c] = "queued"
  /\ loop' = "recv"
  /\ cur' = c
  /\ link' = IF listenFd = "open" THEN [link EXCEPT ![c] = "up"]
             ELSE [Closed(Queued) EXCEPT ![c] = "up"]
  /\ UNCHANGED <<owner, listenFd, stopping, clients>>

\* A request for a page, an error, or an end of file: answered and closed.
RecvAndClose ==
  /\ loop = "recv"
  /\ loop' = "check"
  /\ cur' = NoConn
  /\ link' = Closed({cur})
  /\ UNCHANGED <<owner, listenFd, stopping, clients>>

\* A WebSocket upgrade; Handshake's answer is sent before the client is added.
RecvUpgrade ==
  /\ loop = "recv"
  /\ cur \in Pages
  /\ loop' = "push"
  /\ UNCHANGED <<owner, listenFd, stopping, cur, clients, link>>

Push ==
  /\ loop = "push"
  /\ MutexFree
  /\ clients' = clients \cup {cur}
  /\ cur' = NoConn
  /\ loop' = "check"
  /\ UNCHANGED <<owner, listenFd, stopping, link>>

-----------------------------------------------------------------------------
(* The owning thread.                                                      *)

BroadcastBegin ==
  /\ owner = "running"
  /\ owner' = "sending"
  /\ UNCHANGED <<listenFd, stopping, loop, cur, clients, link>>

\* send blocks on a peer that does not read; a failed send closes the client.
BroadcastEnd ==
  /\ owner = "sending"
  /\ \A c \in clients : link[c] # "stuck"
  /\ \E bad \in SUBSET {c \in clients : link[c] = "gone"} :
       /\ clients' = clients \ bad
       /\ link' = Closed(bad)
  /\ owner' = "running"
  /\ UNCHANGED <<listenFd, stopping, loop, cur>>

\* Mutant of StopFlag: stopping_ is not set.
StopFlagNotSet ==
  /\ owner = "running"
  /\ owner' = "flagged"
  /\ listenFd' = ListenClosed
  /\ link' = IF listenFd = "open" /\ loop # "accept" THEN Closed(Queued) ELSE link
  /\ UNCHANGED <<stopping, loop, cur, clients>>

\* Stop: the flag and the listening descriptor.  Whoever waits in the backlog
\* is reset, unless a blocked accept still holds the socket.
StopFlag ==
  /\ owner = "running"
  /\ owner' = "flagged"
  /\ stopping' = TRUE
  /\ listenFd' = ListenClosed
  /\ link' = IF listenFd = "open" /\ loop # "accept" THEN Closed(Queued) ELSE link
  /\ UNCHANGED <<loop, cur, clients>>

StopClear ==
  /\ owner = "flagged"
  /\ owner' = "cleared"
  /\ link' = Closed(clients)
  /\ clients' = {}
  /\ UNCHANGED <<listenFd, stopping, loop, cur>>

StopJoin ==
  /\ owner = "cleared"
  /\ loop = "done"
  /\ owner' = "joined"
  /\ UNCHANGED <<listenFd, stopping, loop, cur, clients, link>>

\* Mutant of Destroy: a destructor that does not call Stop again.
DestroyOnly ==
  /\ owner = "joined"
  /\ owner' = "done"
  /\ UNCHANGED <<listenFd, stopping, loop, cur, clients, link>>

\* ~SimpleWebsocketServer calls Stop once more: what Loop opened or added after
\* the first one is closed now.
Destroy ==
  /\ owner = "joined"
  /\ owner' = "done"
  /\ listenFd' = ListenClosed
  /\ link' = Closed(clients \cup Queued)
  /\ clients' = {}
  /\ UNCHANGED <<stopping, loop, cur>>

-----------------------------------------------------------------------------
(* The browsers.                                                           *)

\* Somebody listens: the descriptor is open, or a blocked accept keeps it.
Listening == listenFd = "open" \/ loop = "accept"

Connect(c) ==
  /\ link[c] = "away"
  /\ Listening
  /\ link' = [link EXCEPT ![c] = "queued"]
  /\ UNCHANGED <<owner, listenFd, stopping, loop, cur, clients>>

\* A peer hangs up, stops reading, reads again, or never comes back.
PeerChanges(c) ==
  /\ \/ link[c] \in {"up", "stuck"} /\ link' = [link EXCEPT ![c] = "gone"]
     \/ link[c] = "away" /\ link' = [link EXCEPT ![c] = "left"]
     \/ link[c] = "up" /\ c \in Pages /\ link' = [link EXCEPT ![c] = "stuck"]
     \/ link[c] = "stuck" /\ link' = [link EXCEPT ![c] = "up"]
  /\ UNCHANGED <<owner, listenFd, stopping, loop, cur, clients>>

LoopStep ==
  \/ LoopStart \/ LoopCheck \/ RecvAndClose \/ RecvUpgrade \/ Push
  \/ \E c \in Conns : Accept(c)

BrowserStep == \E c \in Conns : Connect(c) \/ PeerChanges(c)

OwnerStep ==
  \/ BroadcastBegin \/ BroadcastEnd \/ StopFlag \/ StopClear \/ StopJoin \/ Destroy

WsNext == LoopStep \/ BrowserStep \/ OwnerStep

WsSpec == WsInit /\ [][WsNext]_wsVars

-----------------------------------------------------------------------------
(* Properties.                                                             *)

WsTypeOK ==
  /\ owner \in {"running", "sending", "flagged", "cleared", "joined", "done"}
  /\ listenFd \in {"none", "unbound", "open", "closed"}
  /\ stopping \in BOOLEAN
  /\ loop \in {"starting", "check", "accept", "recv", "push", "done"}
  /\ cur \in Conns \cup {NoConn}
  /\ clients \subseteq Conns
  /\ link \in [Conns -> {"away", "queued", "up", "stuck", "gone", "left"}]

\* When the owner is gone no descriptor is left: neither of a client that Loop
\* added after Stop had cleared the list, nor of a listening socket it opened
\* after Stop had looked for one.
AllClosedAtExit ==
  owner = "done" => Held = {} /\ Queued = {} /\ listenFd \notin {"open", "unbound"}

\* Stop waits for Loop, which only a connection wakes from accept: it returns as
\* long as there is a page left to connect again, unless a stranger who says
\* nothing holds Loop in recv.
StopReturnsWithPage ==
  owner = "flagged" ~> \/ owner = "done"
                       \/ loop = "recv" /\ cur \in Strangers
                       \/ \A c \in Pages : link[c] = "left"
=============================================================================
