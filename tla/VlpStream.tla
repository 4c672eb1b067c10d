------------------------------ MODULE VlpStream ------------------------------
(***************************************************************************)
(* The frame server and recorder of the phone app                          *)
(* (mapping/export/mapmind_vlp_api.cc): one StreamState shared by          *)
(*                                                                         *)
(*   - the GL thread, which offers depth images and publishes frames,      *)
(*   - the UI thread, which starts and stops the recording and the server, *)
(*   - one handler thread per StreamFrames call, which waits on cv_.       *)
(*                                                                         *)
(* mutex_ is held across two steps in one place only: a handler that has   *)
(* evaluated the predicate of cv_.wait to FALSE still holds it until it is *)
(* on the wait list ("deciding").  Every other critical section is one     *)
(* step, enabled while no handler is deciding.  SetShuttingDown takes no   *)
(* mutex, so its two statements are two steps with no such guard.          *)
(*                                                                         *)
(* A payload is abstracted to its timestamp and the depth block it carries *)
(* (the depth_seq of the block, 0 for none).                               *)
(***************************************************************************)
EXTENDS Integers, Sequences

CONSTANTS
  Subscribers,   \* clients of StreamFrames; each has at most one open call
  Paths,         \* files the UI may record to
  NoPath,        \* record_ofs_ == nullptr
  MaxTs,         \* bound: timestamps are 1..MaxTs
  MaxFrames,     \* bound: frames published by one server
  MaxDepths,     \* bound: depth updates of one server
  MaxCalls,      \* bound: StreamFrames calls accepted by one server
  MaxServers     \* bound: servers started in the life of the process

ASSUME NoPathAssumption == NoPath \notin Paths

ASSUME BoundsAssumption ==
  /\ MaxTs \in Nat
  /\ MaxFrames \in Nat
  /\ MaxDepths \in Nat
  /\ MaxCalls \in Nat
  /\ MaxServers \in Nat

VARIABLES
  server,        \* g.running: "down" or "up"
  servers,       \* servers started so far (bounds restarts)
  ui,            \* progress of StopGrpcServer on the UI thread
  shuttingDown,  \* shutting_down_
  gl,            \* PushFrameYuvNv21 on the GL thread: idle, or a built frame
  frameSeq,      \* frame_seq_
  latest,        \* latest_payload_
  published,     \* history: every payload published by this server
  pending,       \* pending_depth_
  calls,         \* StreamFrames calls accepted so far (bounds reconnects)
  pc,            \* where each StreamFrames handler stands
  cancelled,     \* context->IsCancelled() of each call
  seen,          \* seen_seq of each handler
  payload,       \* the copy each handler took out of the critical section
  delivered,     \* history: sequence numbers each call has written to its peer
  recPath,       \* the file behind record_ofs_, NoPath when it is null
  recording,     \* recording_
  startTs,       \* record_start_ts_ns_
  recFrom,       \* history: frame_seq_ when the recording was started
  files          \* what each file holds

serverVars == <<server, servers, ui, shuttingDown>>
depthVars  == <<pending>>
feedVars   == <<frameSeq, latest, published>>
callVars   == <<calls, pc, cancelled, seen, payload, delivered>>
recVars    == <<recPath, recording, startTs, recFrom, files>>
vars == <<serverVars, gl, depthVars, feedVars, callVars, recVars>>

NoFrame == [ts |-> 0, depth |-> 0, depthTs |-> 0]

Idle == [at |-> "idle", frame |-> NoFrame]

\* Mutant of NoPending: a timestamp of -1 for none, as record_start_ts_ns_ has.
NoPendingMinusOne == [seq |-> 0, ts |-> -1, published |-> TRUE]

\* PendingDepth's member initialisers: nothing to publish.
NoPending == [seq |-> 0, ts |-> 0, published |-> TRUE]

EmptyFile == [header |-> FALSE, records |-> <<>>]

\* Mutant of MutexFree: the predicate is evaluated before mutex_ is taken.
MutexNotHeld == TRUE

\* cv_.wait's predicate is FALSE and the handler has not released mutex_ yet.
MutexFree == \A s \in Subscribers : pc[s] # "deciding"

\* Mutant of Notified: notify_one instead of notify_all.
NotifiedOne ==
  LET sleepers == {s \in Subscribers : pc[s] = "asleep"}
  IN IF sleepers = {} THEN pc ELSE [pc EXCEPT ![CHOOSE s \in sleepers : TRUE] = "enter"]

\* cv_.notify_all(): whoever is on the wait list has to take mutex_ again.
Notified == [s \in Subscribers |-> IF pc[s] = "asleep" THEN "enter" ELSE pc[s]]

\* The app is drawing or may draw: onDestroy holds the activity's monitor while
\* it stops the server, so the GL thread never meets a server that is stopping.
AppRunning == server = "up" /\ ui = "idle"

-----------------------------------------------------------------------------
(* A fresh StreamState. *)

FreshStream ==
  /\ shuttingDown' = FALSE
  /\ frameSeq' = 0
  /\ latest' = NoFrame
  /\ published' = <<>>
  /\ pending' = NoPending
  /\ calls' = 0
  /\ seen' = [s \in Subscribers |-> 0]
  /\ payload' = [s \in Subscribers |-> NoFrame]
  /\ delivered' = [s \in Subscribers |-> <<>>]
  /\ cancelled' = [s \in Subscribers |-> FALSE]
  /\ recPath' = NoPath
  /\ recording' = FALSE
  /\ startTs' = -1
  /\ recFrom' = 0

Init ==
  /\ server = "down"
  /\ servers = 0
  /\ ui = "idle"
  /\ shuttingDown = FALSE
  /\ gl = Idle
  /\ frameSeq = 0
  /\ latest = NoFrame
  /\ published = <<>>
  /\ pending = NoPending
  /\ calls = 0
  /\ pc = [s \in Subscribers |-> "off"]
  /\ cancelled = [s \in Subscribers |-> FALSE]
  /\ seen = [s \in Subscribers |-> 0]
  /\ payload = [s \in Subscribers |-> NoFrame]
  /\ delivered = [s \in Subscribers |-> <<>>]
  /\ recPath = NoPath
  /\ recording = FALSE
  /\ startTs = -1
  /\ recFrom = 0
  /\ files = [p \in Paths |-> EmptyFile]

(* StartGrpcServer; a server that is running, or a port that cannot be     *)
(* bound, leaves the state as it was.                                      *)
StartGrpcServer ==
  /\ server = "down"
  /\ servers < MaxServers
  /\ server' = "up"
  /\ servers' = servers + 1
  /\ FreshStream
  /\ UNCHANGED <<ui, gl, pc, files>>

-----------------------------------------------------------------------------
(* The GL thread. *)

(* UpdateDepth overwrites the single slot, published or not. *)
UpdateDepth(ts) ==
  /\ AppRunning
  /\ gl.at = "idle"
  /\ MutexFree
  /\ pending.seq < MaxDepths
  /\ pending' = [seq |-> pending.seq + 1, ts |-> ts, published |-> FALSE]
  /\ UNCHANGED <<serverVars, gl, feedVars, callVars, recVars>>

\* Mutant of DepthReady: the published flag is not looked at.
DepthReadyAgain(ts) == pending.seq > 0 /\ ts >= pending.ts

\* Mutant of DepthReady: the timestamps are not compared.
DepthReadyAnyTime(ts) == pending.seq > 0 /\ ~pending.published

(* ConsumeDepthForFrame's conditions. *)
DepthReady(ts) ==
  /\ pending.seq > 0
  /\ ~pending.published
  /\ ts >= pending.ts

Built(ts, depth, depthTs) ==
  gl' = [at |-> "built", frame |-> [ts |-> ts, depth |-> depth, depthTs |-> depthTs]]

\* Mutant of ConsumeDepth: the image is encoded after the depth was taken, and
\* the failure returns.
ConsumeDepthThenFail(ts) ==
  /\ DepthReady(ts)
  /\ pending' = [pending EXCEPT !.published = TRUE]
  /\ gl' = Idle

(* ConsumeDepthForFrame returns TRUE: its block goes into the payload. *)
ConsumeDepth(ts) ==
  /\ DepthReady(ts)
  /\ pending' = [pending EXCEPT !.published = TRUE]
  /\ Built(ts, pending.seq, pending.ts)

(* PushFrameYuvNv21 up to its call of PushFramePayload: the image has been *)
(* encoded (a failure returns before the depth is touched) and the pending *)
(* depth is taken, in a critical section of its own.  The camera's         *)
(* timestamps never go backwards.                                          *)
BuildFrame(ts) ==
  /\ AppRunning
  /\ gl.at = "idle"
  /\ MutexFree
  /\ frameSeq < MaxFrames
  /\ ts >= latest.ts
  /\ \/ ConsumeDepth(ts)
     \/ ~DepthReady(ts) /\ Built(ts, 0, 0) /\ UNCHANGED pending
  /\ UNCHANGED <<serverVars, feedVars, callVars, recVars>>

(* StopRecordingLocked: close the file if there is one, forget the rest. *)
StopRecordingLocked ==
  /\ recording' = FALSE
  /\ startTs' = -1
  /\ recPath' = NoPath

\* Mutant of RecordStart: every frame sets the start of the recording.
RecordStartEachFrame(ts) == ts

(* The moment the recording counts from: that of its first frame. *)
RecordStart(ts) == IF startTs < 0 THEN ts ELSE startTs

\* Mutant of AfterWrite: the state of the ofstream is not looked at.
AfterWriteUnchecked(good, start) == startTs' = start /\ UNCHANGED <<recPath, recording>>

(* A write that failed ends the recording. *)
AfterWrite(good, start) ==
  \/ good /\ startTs' = start /\ UNCHANGED <<recPath, recording>>
  \/ ~good /\ StopRecordingLocked

(* MaybeRecordLocked for frame f, the n-th of the server.  good is what    *)
(* the ofstream reports after the writes; a failed one has left a part of  *)
(* the record in the file and ends the recording.                          *)
MaybeRecordLocked(f, n, good) ==
  IF ~recording \/ recPath = NoPath
  THEN UNCHANGED <<recPath, recording, startTs, files>>
  ELSE LET start == RecordStart(f.ts)
           rel   == IF f.ts > start THEN f.ts - start ELSE 0
           rec   == [rel |-> rel, seq |-> n, whole |-> good]
       IN /\ files' = [files EXCEPT ![recPath].records = Append(@, rec)]
          /\ AfterWrite(good, start)

(* PushFramePayload / PublishFrame. *)
PublishFrame(good) ==
  /\ AppRunning
  /\ gl.at = "built"
  /\ MutexFree
  /\ latest' = gl.frame
  /\ frameSeq' = frameSeq + 1
  /\ published' = Append(published, gl.frame)
  /\ MaybeRecordLocked(gl.frame, frameSeq + 1, good)
  /\ pc' = Notified
  /\ gl' = Idle
  /\ UNCHANGED <<serverVars, depthVars, calls, cancelled, seen, payload, delivered, recFrom>>

-----------------------------------------------------------------------------
(* The UI thread. *)

(* StartRecording ends the running recording first, whatever comes of the  *)
(* new one: the file cannot be opened, its header cannot be written, or    *)
(* the recording runs.                                                     *)
StartRecording(p, outcome) ==
  /\ AppRunning
  /\ MutexFree
  /\ \/ /\ outcome = "open failed"
        /\ StopRecordingLocked
        /\ UNCHANGED <<recFrom, files>>
     \/ /\ outcome = "header failed"
        /\ StopRecordingLocked
        /\ files' = [files EXCEPT ![p] = EmptyFile]
        /\ UNCHANGED recFrom
     \/ /\ outcome = "started"
        /\ recording' = TRUE
        /\ recPath' = p
        /\ startTs' = -1
        /\ recFrom' = frameSeq
        /\ files' = [files EXCEPT ![p] = [header |-> TRUE, records |-> <<>>]]
  /\ UNCHANGED <<serverVars, gl, depthVars, feedVars, callVars>>

StopRecording ==
  /\ AppRunning
  /\ MutexFree
  /\ recPath # NoPath
  /\ StopRecordingLocked
  /\ UNCHANGED <<serverVars, gl, depthVars, feedVars, callVars, recFrom, files>>

(* StopGrpcServer, first statement of SetShuttingDown: the atomic store.   *)
(* The GL thread is outside onDrawFrame.                                   *)
StopSetFlag ==
  /\ AppRunning
  /\ gl.at = "idle"
  /\ shuttingDown' = TRUE
  /\ ui' = "flagged"
  /\ UNCHANGED <<server, servers, gl, depthVars, feedVars, callVars, recVars>>

(* Second statement of SetShuttingDown: notify_all without mutex_, which a *)
(* deciding handler does not hear.                                         *)
StopNotify ==
  /\ ui = "flagged"
  /\ pc' = Notified
  /\ ui' = "notified"
  /\ UNCHANGED <<server, servers, shuttingDown, gl, depthVars, feedVars,
                 calls, cancelled, seen, payload, delivered, recVars>>

(* Server::Shutdown() without a deadline: no new calls from here on. *)
StopShutdown ==
  /\ ui = "notified"
  /\ ui' = "draining"
  /\ UNCHANGED <<server, servers, shuttingDown, gl, depthVars, feedVars, callVars, recVars>>

CallsReturned == \A s \in Subscribers : pc[s] = "off"

(* Shutdown and Wait return when every handler has; then the service and   *)
(* the StreamState, whose destructor closes the recording, go.             *)
StopDone ==
  /\ ui = "draining"
  /\ CallsReturned
  /\ ui' = "idle"
  /\ server' = "down"
  /\ FreshStream
  /\ UNCHANGED <<servers, gl, pc, files>>

-----------------------------------------------------------------------------
(* A StreamFrames call and its client. *)

Connect(s) ==
  /\ server = "up"
  /\ ui # "draining"
  /\ pc[s] = "off"
  /\ calls < MaxCalls
  /\ calls' = calls + 1
  /\ pc' = [pc EXCEPT ![s] = "enter"]
  /\ cancelled' = [cancelled EXCEPT ![s] = FALSE]
  /\ seen' = [seen EXCEPT ![s] = 0]
  /\ payload' = [payload EXCEPT ![s] = NoFrame]
  /\ delivered' = [delivered EXCEPT ![s] = <<>>]
  /\ UNCHANGED <<serverVars, gl, depthVars, feedVars, recVars>>

(* The client cancels or its connection breaks.  Nothing notifies cv_. *)
Cancel(s) ==
  /\ pc[s] # "off"
  /\ ~cancelled[s]
  /\ cancelled' = [cancelled EXCEPT ![s] = TRUE]
  /\ UNCHANGED <<serverVars, gl, depthVars, feedVars, calls, pc, seen, payload, delivered, recVars>>

MovesTo(s, from, to) ==
  /\ pc[s] = from
  /\ pc' = [pc EXCEPT ![s] = to]

\* Mutants of MustLeave: one of the two conditions is forgotten.
MustLeaveCancelled(s) == cancelled[s]
MustLeaveShutdown(s) == shuttingDown

\* Why StreamFrames returns, whether or not there is a frame to send.
MustLeave(s) == shuttingDown \/ cancelled[s]

(* The handler finds itself shut down or cancelled and returns OK. *)
Leave(s) ==
  /\ MutexFree
  /\ MustLeave(s)
  /\ MovesTo(s, "enter", "off")
  /\ UNCHANGED <<serverVars, gl, depthVars, feedVars, calls, cancelled, seen, payload, delivered, recVars>>

\* Mutant of Take: the handler counts the frames instead of jumping to the newest.
TakeCounting(s) ==
  /\ MutexFree
  /\ ~MustLeave(s)
  /\ frameSeq > seen[s]
  /\ MovesTo(s, "enter", "writing")
  /\ seen' = [seen EXCEPT ![s] = @ + 1]
  /\ payload' = [payload EXCEPT ![s] = latest]
  /\ UNCHANGED <<serverVars, gl, depthVars, feedVars, calls, cancelled, delivered, recVars>>

(* A frame it has not seen: remember the sequence number, copy the payload, *)
(* release mutex_ and write.                                                *)
Take(s) ==
  /\ MutexFree
  /\ ~MustLeave(s)
  /\ frameSeq > seen[s]
  /\ MovesTo(s, "enter", "writing")
  /\ seen' = [seen EXCEPT ![s] = frameSeq]
  /\ payload' = [payload EXCEPT ![s] = latest]
  /\ UNCHANGED <<serverVars, gl, depthVars, feedVars, calls, cancelled, delivered, recVars>>

(* The predicate is FALSE; mutex_ is still held. *)
Decide(s) ==
  /\ MutexFree
  /\ ~MustLeave(s)
  /\ frameSeq <= seen[s]
  /\ MovesTo(s, "enter", "deciding")
  /\ UNCHANGED <<serverVars, gl, depthVars, feedVars, calls, cancelled, seen, payload, delivered, recVars>>

(* cv_.wait puts the handler on the wait list and releases mutex_. *)
Sleep(s) ==
  /\ MovesTo(s, "deciding", "asleep")
  /\ UNCHANGED <<serverVars, gl, depthVars, feedVars, calls, cancelled, seen, payload, delivered, recVars>>

SpuriousWakeup(s) ==
  /\ MovesTo(s, "asleep", "enter")
  /\ UNCHANGED <<serverVars, gl, depthVars, feedVars, calls, cancelled, seen, payload, delivered, recVars>>

(* writer->Write returns TRUE: the payload is on its way to the peer.  It  *)
(* blocks while a peer that is connected does not read.                     *)
WriteDone(s) ==
  /\ MovesTo(s, "writing", "enter")
  /\ delivered' = [delivered EXCEPT ![s] = Append(@, seen[s])]
  /\ UNCHANGED <<serverVars, gl, depthVars, feedVars, calls, cancelled, seen, payload, recVars>>

(* writer->Write returns FALSE: the peer has gone. *)
WriteFailed(s) ==
  /\ cancelled[s]
  /\ MovesTo(s, "writing", "off")
  /\ UNCHANGED <<serverVars, gl, depthVars, feedVars, calls, cancelled, seen, payload, delivered, recVars>>

-----------------------------------------------------------------------------

RecordOutcomes == {"open failed", "header failed", "started"}

GlThread ==
  \/ \E ts \in 1..MaxTs : UpdateDepth(ts) \/ BuildFrame(ts)
  \/ \E good \in BOOLEAN : PublishFrame(good)

StopStep == StopSetFlag \/ StopNotify \/ StopShutdown \/ StopDone

UiThread ==
  \/ StartGrpcServer
  \/ \E p \in Paths, outcome \in RecordOutcomes : StartRecording(p, outcome)
  \/ StopRecording
  \/ StopStep

\* What the handler does whether or not its client reads, and without luck.
HandlerAlone(s) == Leave(s) \/ Take(s) \/ Decide(s) \/ Sleep(s) \/ WriteFailed(s)

Handler(s) == HandlerAlone(s) \/ WriteDone(s)

Call(s) == Connect(s) \/ Cancel(s) \/ Handler(s) \/ SpuriousWakeup(s)

Next == GlThread \/ UiThread \/ \E s \in Subscribers : Call(s)

(* Threads that can run do run: a started PushFrameYuvNv21 or               *)
(* StopGrpcServer goes on, and so does a handler that neither sleeps nor    *)
(* writes to a client that is there.  Nobody is obliged to draw, connect,   *)
(* cancel, stop or, as a client, to read: WriteDone has no fairness.        *)
(* Fairness is strong where mutex_ is needed: a thread that finds it free   *)
(* again and again takes it in the end.                                     *)
Fairness ==
  /\ SF_vars(\E good \in BOOLEAN : PublishFrame(good))
  /\ WF_vars(StopNotify \/ StopShutdown \/ StopDone)
  /\ \A s \in Subscribers : SF_vars(HandlerAlone(s))

Spec == Init /\ [][Next]_vars

FairSpec == Spec /\ Fairness

-----------------------------------------------------------------------------
(* What should hold. *)

FrameType == [ts : 0..MaxTs, depth : 0..MaxDepths, depthTs : 0..MaxTs]

RecordType == [rel : Nat, seq : Nat, whole : BOOLEAN]

(* The state has the types of StreamState's members. *)
TypeOK ==
  /\ server \in {"down", "up"}
  /\ servers \in Nat
  /\ ui \in {"idle", "flagged", "notified", "draining"}
  /\ shuttingDown \in BOOLEAN
  /\ gl \in [at : {"idle", "built"}, frame : FrameType]
  /\ frameSeq \in Nat
  /\ latest \in FrameType
  /\ published \in Seq(FrameType)
  /\ pending \in [seq : 0..MaxDepths, ts : 0..MaxTs, published : BOOLEAN]
  /\ calls \in Nat
  /\ pc \in [Subscribers -> {"off", "enter", "deciding", "asleep", "writing"}]
  /\ cancelled \in [Subscribers -> BOOLEAN]
  /\ seen \in [Subscribers -> Nat]
  /\ payload \in [Subscribers -> FrameType]
  /\ delivered \in [Subscribers -> Seq(Nat)]
  /\ recPath \in Paths \cup {NoPath}
  /\ recording \in BOOLEAN
  /\ startTs \in Nat \cup {-1}
  /\ recFrom \in Nat
  /\ files \in [Paths -> [header : BOOLEAN, records : Seq(RecordType)]]

(* What a call writes is a frame that was published, under its own number, *)
(* and the numbers it writes only grow: the copy StreamFrames takes out of *)
(* the critical section is never older than, newer than or mixed with the  *)
(* sequence number it remembers.                                           *)
DeliversRealFramesInOrder ==
  \A s \in Subscribers :
    /\ seen[s] \in 0..Len(published)
    /\ seen[s] > 0 => payload[s] = published[seen[s]]
    /\ \A i, j \in DOMAIN delivered[s] : i < j => delivered[s][i] < delivered[s][j]

(* A handler on cv_'s wait list has seen every frame: a publication never  *)
(* slips in between the handler's last look at the predicate and its going *)
(* to sleep, so no frame waits for a later one to be noticed.              *)
NoSleeperMissesAFrame ==
  \A s \in Subscribers : pc[s] \in {"deciding", "asleep"} => seen[s] = frameSeq

(* Each depth update rides on at most one frame, in the order of the       *)
(* updates ("each depth publish once", ConsumeDepthForFrame).              *)
DepthAttachedOnce ==
  \A i, j \in DOMAIN published :
    i < j /\ published[i].depth # 0 /\ published[j].depth # 0
      => published[i].depth < published[j].depth

(* No frame carries a depth image of a later moment than its own.          *)
DepthNotAhead ==
  \A i \in DOMAIN published : published[i].depthTs <= published[i].ts

(* A depth that was taken from the slot is on a frame, or on the one the   *)
(* GL thread is about to publish: taking it and publishing are two critical *)
(* sections, and none of the early returns of PushFrameYuvNv21 and          *)
(* PushFramePayload between them loses it.                                  *)
ConsumedDepthIsSent ==
  pending.seq > 0 /\ pending.published =>
    \/ gl.at = "built" /\ gl.frame.depth = pending.seq
    \/ \E i \in DOMAIN published : published[i].depth = pending.seq

(* While the recorder runs, its file is the stream: a header and then one   *)
(* whole record of every frame published since StartRecording, without gap  *)
(* or repetition ("Record raw payload stream in VLPREC1 format").           *)
RecordingIsTheStream ==
  recording =>
    /\ recPath \in Paths
    /\ files[recPath].header
    /\ Len(files[recPath].records) = frameSeq - recFrom
    /\ \A i \in DOMAIN files[recPath].records :
         LET r == files[recPath].records[i]
         IN /\ r.seq = recFrom + i
            /\ r.whole
            /\ r.rel = published[r.seq].ts - published[recFrom + 1].ts

(* Whatever ended a recording, the file it left can be replayed: records    *)
(* follow a header, their frames are consecutive, their times start at 0    *)
(* and never go back, and only the last one may be cut short.               *)
FilesCanBeReplayed ==
  \A p \in Paths :
    LET recs == files[p].records
    IN /\ recs # <<>> => files[p].header /\ recs[1].rel = 0
       /\ \A i \in 1..(Len(recs) - 1) :
            /\ recs[i].whole
            /\ recs[i + 1].seq = recs[i].seq + 1
            /\ recs[i + 1].rel >= recs[i].rel

(* The server implements the abstract feed: the depth on offer is the one   *)
(* the GL thread holds, else the one in the slot.                           *)
DepthOnOffer ==
  IF gl.at = "built" /\ gl.frame.depth # 0 THEN gl.frame.depth
  ELSE IF pending.published THEN 0 ELSE pending.seq

Feed == INSTANCE FrameFeed
          WITH Frames <- FrameType, feed <- published, offer <- DepthOnOffer,
               cursor <- seen, view <- payload

ImplementsFeed == Feed!Spec

(* writer->Write of call s does not block for ever: its client reads, or it *)
(* cancels or goes away.  The code gives no call a deadline, so where a     *)
(* property needs this it is its hypothesis, not a fairness of the server.  *)
WritesReturn(s) == []<>(pc[s] # "writing")

(* A frame that an open call has not seen reaches its handler, unless the   *)
(* call ends or its client stops reading: PublishFrame wakes every handler  *)
(* on the wait list.  A client that stops reading delays no other.          *)
FramesReachCalls ==
  \A s \in Subscribers :
    WritesReturn(s) =>
      (pc[s] # "off" /\ seen[s] < frameSeq ~> pc[s] = "off" \/ seen[s] = frameSeq)

(* Once Shutdown refuses new calls and no handler is asleep or about to be, *)
(* StopGrpcServer returns if the clients read or leave: every handler that  *)
(* is awake finds the flag.                                                 *)
StopReturnsWhenAwake ==
  (\A s \in Subscribers : WritesReturn(s)) =>
    (ui = "draining" /\ (\A s \in Subscribers : pc[s] \notin {"deciding", "asleep"})
       ~> server = "down")

(* A cancelled call whose handler is awake ends without another frame, even *)
(* out of a Write that its client has left.                                 *)
CancelledCallEnds ==
  \A s \in Subscribers :
    cancelled[s] /\ pc[s] \in {"enter", "writing"} ~> pc[s] = "off"

(* StopGrpcServer returns ("Start/stop a gRPC server", mapmind_vlp_api.h)   *)
(* if the clients read or leave.                                            *)
StopReturns ==
  (\A s \in Subscribers : WritesReturn(s)) => (ui = "flagged" ~> server = "down")
=============================================================================
