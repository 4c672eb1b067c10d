------------------------------- MODULE Replay -------------------------------
(***************************************************************************)
(* mono_vio_ws_stream_client: the main loop that reads a recording, feeds  *)
(* it to the map and pushes what it has to the browsers.  It composes      *)
(* SessionLog (the file, whole or as a crash of the phone left it),        *)
(* VoxbloxMap and WsServer, whose owning thread the loop is.               *)
(***************************************************************************)
EXTENDS SessionLog, WsServer, VoxbloxMap

CONSTANTS
  Frames,      \* the frames that were recorded
  Crashes,     \* <<n, zeros>>: what the phone may leave of the file, see Damaged
  EveryN,      \* esdf_update_every_n
  MaxPasses    \* bound: how often loop_session opens the file

ASSUME ReplayAssumption ==
  /\ EveryN \in Nat \ {0} /\ MaxPasses \in Nat \ {0}
  /\ Frames \in Seq(Frame)
  /\ Crashes \subseteq Nat \X Nat
  /\ \A c \in Crashes : c[1] <= Len(Recording(Frames))

VARIABLES
  crash,          \* the member of Crashes that happened
  pc,             \* the main loop: next, visualize, send, closing
  pos,            \* the reader's position in the file
  read,           \* the timestamps Next has returned in this pass
  passes,
  pointsUpdated,  \* esdf_points_updated
  sliceUpdated,   \* esdf2d_updated
  slice,          \* the frame esdf2d_slice was made from, 0 when it has no cells
  message         \* the parts of the message that is being sent

playVars == <<crash, pc, pos, read, passes, pointsUpdated, sliceUpdated, slice, message>>

vars == <<playVars, mapVars, wsVars>>

File == Damaged(Recording(Frames), crash[1], crash[2])

NoMessage == [points |-> FALSE, slice |-> FALSE, cells |-> 0]

\* main returns before there is a map or a server when the file does not open.
Init ==
  /\ MapInit
  /\ WsInit
  /\ crash \in Crashes
  /\ Open(File) # 0
  /\ pc = "next"
  /\ pos = Open(File)
  /\ read = <<>>
  /\ passes = 1
  /\ pointsUpdated = FALSE
  /\ sliceUpdated = FALSE
  /\ slice = 0
  /\ message = NoMessage

-----------------------------------------------------------------------------
(* The main loop.                                                          *)

Entry == NextEntry(File, pos)

\* A frame whose image decodes; a depth image with no usable point is rejected,
\* and a JPEG that lost its tail may or may not decode.
ReadFrame ==
  /\ owner = "running" /\ pc = "next"
  /\ Entry.found
  /\ pos' = Entry.pos
  /\ read' = Append(read, Entry.ts)
  /\ \/ ~Entry.jpeg /\ pc' = "next" /\ UNCHANGED mapVars
     \/ Entry.image /\ pc' = "send" /\ UNCHANGED mapVars
     \/ /\ Entry.image /\ Entry.depth
        /\ \E p \in Blocks, hit \in SUBSET Blocks : Integrate(p, hit)
        /\ pc' = IF frames' % EveryN = 0 THEN "visualize" ELSE "send"
  /\ UNCHANGED <<crash, passes, pointsUpdated, sliceUpdated, slice, message, wsVars>>

\* Mutant of UpdateViews: the slice's flag is set like the points' one.
UpdateViewsAlways ==
  /\ owner = "running" /\ pc = "visualize"
  /\ Visualize
  /\ pointsUpdated' = TRUE
  /\ sliceUpdated' = TRUE
  /\ slice' \in {0, frames}
  /\ pc' = "send"
  /\ UNCHANGED <<crash, pos, read, passes, message, wsVars>>

\* GetEsdfVisualization and GetEsdfPlaneSlice2D, which clears the slice first
\* and fails when the plane has no sample or too many cells.
UpdateViews ==
  /\ owner = "running" /\ pc = "visualize"
  /\ Visualize
  /\ pointsUpdated' = TRUE
  /\ \E ok \in BOOLEAN : /\ sliceUpdated' = ok
                         /\ slice' = IF ok THEN frames ELSE 0
  /\ pc' = "send"
  /\ UNCHANGED <<crash, pos, read, passes, message, wsVars>>

\* web_send_hz: not this frame.
SkipSend ==
  /\ owner = "running" /\ pc = "send"
  /\ pc' = "next"
  /\ UNCHANGED <<crash, pos, read, passes, pointsUpdated, sliceUpdated, slice, message,
                 mapVars, wsVars>>

\* The message is built, which clears the flags, and BroadcastText is called.
Send ==
  /\ pc = "send"
  /\ BroadcastBegin
  /\ message' = [points |-> pointsUpdated, slice |-> sliceUpdated,
                 cells |-> IF sliceUpdated THEN slice ELSE 0]
  /\ pointsUpdated' = FALSE
  /\ sliceUpdated' = FALSE
  /\ UNCHANGED <<crash, pc, pos, read, passes, slice, mapVars>>

Sent ==
  /\ BroadcastEnd
  /\ pc' = "next"
  /\ message' = NoMessage
  /\ UNCHANGED <<crash, pos, read, passes, pointsUpdated, sliceUpdated, slice, mapVars>>

\* loop_session: the file is opened again, and the map, the views and the flags
\* stay.
Reopen ==
  /\ owner = "running" /\ pc = "next"
  /\ ~Entry.found
  /\ passes < MaxPasses
  /\ passes' = passes + 1
  /\ pos' = Open(File)
  /\ read' = <<>>
  /\ UNCHANGED <<crash, pc, pointsUpdated, sliceUpdated, slice, message, mapVars, wsVars>>

Finish ==
  /\ pc = "next" /\ ~Entry.found
  /\ StopFlag
  /\ pc' = "closing"
  /\ UNCHANGED <<crash, pos, read, passes, pointsUpdated, sliceUpdated, slice, message, mapVars>>

Shutdown ==
  /\ StopClear \/ StopJoin \/ Destroy
  /\ UNCHANGED <<playVars, mapVars>>

Main == ReadFrame \/ UpdateViews \/ SkipSend \/ Send \/ Sent \/ Reopen \/ Finish \/ Shutdown

Others == (LoopStep \/ BrowserStep) /\ UNCHANGED <<playVars, mapVars>>

Next == Main \/ Others

Spec == Init /\ [][Next]_vars

-----------------------------------------------------------------------------
(* Fairness.                                                               *)

Answered == (RecvAndClose \/ RecvUpgrade) /\ cur \in Pages

LoopRuns == LoopStart \/ LoopCheck \/ Push \/ Answered \/ \E c \in Conns : Accept(c)

FairSpec ==
  /\ Spec
  /\ WF_vars(Shutdown)
  /\ WF_vars(LoopRuns /\ UNCHANGED <<playVars, mapVars>>)
  /\ \A c \in Pages : WF_vars(Connect(c) /\ UNCHANGED <<playVars, mapVars>>)

-----------------------------------------------------------------------------
(* Properties.                                                             *)

\* The reader stands at a position of the file, where Entry is defined, whatever
\* sizes the words it has read were.
TypeOK ==
  /\ MapTypeOK /\ WsTypeOK
  /\ crash \in Crashes
  /\ pc \in {"next", "visualize", "send", "closing"}
  /\ passes \in 1..MaxPasses
  /\ pos \in 1..Len(File) + 1 /\ read \in Seq(Int)
  /\ pointsUpdated \in BOOLEAN /\ sliceUpdated \in BOOLEAN
  /\ slice \in Nat
  /\ message \in [points : BOOLEAN, slice : BOOLEAN, cells : Nat]

\* What a crash leaves of a recording is read back: at the end of the file, in
\* every pass, Next has returned every record that was written whole, in order,
\* and at most one record after them, the one the crash tore; the Python reader
\* gets the same whole records.
RecordsRecovered ==
  LET whole == WholeRecords(Frames, crash[1])
      Recovers(times) == /\ Len(times) \in whole..whole + 1
                         /\ \A k \in 1..whole : times[k] = Frames[k].ts
  IN pc = "next" /\ ~Entry.found => Recovers(read) /\ Recovers(PythonFrames(File))

\* The slice that waits to be sent has cells: a later one that failed, and that
\* emptied esdf2d_slice on the way, takes the flag back.
PendingSliceIsWhole ==
  (sliceUpdated => slice > 0) /\ (message.slice => message.cells > 0)
=============================================================================
