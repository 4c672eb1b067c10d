----------------------------- MODULE ControlPath -----------------------------
(***************************************************************************)
(* How a control command gets from a gRPC client to the robot's client:    *)
(* SendControl's handler calls back into the activity, which posts it to   *)
(* the UI thread.  The client sends one command after the other, but gives *)
(* up on a call after a while, and then sends the next while the handler   *)
(* of the last may still be on its way.                                    *)
(*                                                                         *)
(* Commands are numbered as they are sent.  AppLifecycle says when there   *)
(* is a server, a callback, and a UI thread that is free.                  *)
(***************************************************************************)
EXTENDS Naturals, Sequences

CONSTANT MaxCommands  \* bound: commands that are sent

ASSUME CommandAssumption == MaxCommands \in Nat

VARIABLES
  callback,   \* control_callback_ is set, and with it g_control_activity_ref
  issued,     \* how many commands were sent
  waiting,    \* the command whose answer the client waits for, 0 for none
  calling,    \* commands whose handlers run
  copied,     \* those of them that have copied the callback
  late,       \* commands whose calls the client gave up on
  posted,     \* commands that wait for the UI thread
  given       \* history: what the UI thread gave to this activity's bleServerManager

pathVars == <<issued, waiting, calling, copied, late, posted, given>>

PathInit ==
  /\ callback = FALSE
  /\ issued = 0 /\ waiting = 0
  /\ calling = {} /\ copied = {} /\ late = {}
  /\ posted = <<>> /\ given = <<>>

\* Mutant of SendCommand: the call is answered before the callback is called.
SendCommandDetached ==
  /\ waiting = 0 /\ issued < MaxCommands
  /\ issued' = issued + 1
  /\ calling' = calling \cup {issued'}
  /\ UNCHANGED <<waiting, copied, late, posted, given>>

\* send_control, and a handler for it.
SendCommand ==
  /\ waiting = 0 /\ issued < MaxCommands
  /\ issued' = issued + 1
  /\ waiting' = issued'
  /\ calling' = calling \cup {issued'}
  /\ UNCHANGED <<copied, late, posted, given>>

\* The client's deadline; SendControl does not look at it.
CommandTimesOut ==
  /\ waiting # 0
  /\ waiting' = 0
  /\ late' = late \cup {waiting}
  /\ UNCHANGED <<issued, calling, copied, posted, given>>

\* The handler of c returns and the client, if it still waits, has its answer, which
\* is the same whether or not anything was posted.
Answer(c) ==
  /\ calling' = calling \ {c}
  /\ copied' = copied \ {c}
  /\ waiting' = IF waiting = c THEN 0 ELSE waiting

\* PublishControlCommand copies the callback under the mutex; there may be none.
CopyCallback(c) ==
  /\ c \in calling \ copied
  /\ \/ /\ callback
        /\ copied' = copied \cup {c}
        /\ UNCHANGED <<calling, waiting>>
     \/ ~callback /\ Answer(c)
  /\ UNCHANGED <<issued, late, posted, given>>

\* Without the mutex it calls OnGrpcControlCommand, which looks at the activity's
\* reference again; onNativeGrpcControlCommand posts.
CallCallback(c) ==
  /\ c \in copied
  /\ posted' = IF callback THEN Append(posted, c) ELSE posted
  /\ Answer(c)
  /\ UNCHANGED <<issued, late, given>>

\* What was posted runs; without the Bluetooth permission there is no
\* bleServerManager, and the command is dropped.
GiveCommand ==
  /\ posted # <<>>
  /\ given' \in {given, Append(given, Head(posted))}
  /\ posted' = Tail(posted)
  /\ UNCHANGED <<issued, waiting, calling, copied, late>>

\* A new activity makes a bleServerManager of its own; what was posted to the old
\* one has run, and late calls that have returned are not told apart any more.
NewManager ==
  /\ posted = <<>>
  /\ given' = <<>>
  /\ late' = late \cap calling
  /\ UNCHANGED <<issued, waiting, calling, copied, posted>>

\* The activity registers the callback, or takes it back.
CallbackChanges ==
  /\ callback' \in BOOLEAN
  /\ UNCHANGED pathVars

PathStep ==
  \/ SendCommand \/ CommandTimesOut \/ GiveCommand \/ NewManager
  \/ \E c \in calling : CopyCallback(c) \/ CallCallback(c)

PathNext == CallbackChanges \/ (PathStep /\ UNCHANGED callback)

\* The path by itself, for any activity and any server above it.
PathSpec == PathInit /\ [][PathNext]_<<callback, pathVars>>

-----------------------------------------------------------------------------
(* Properties.                                                             *)

PathTypeOK ==
  /\ callback \in BOOLEAN
  /\ issued \in 0..MaxCommands /\ waiting \in 0..issued
  /\ calling \subseteq 1..issued /\ copied \subseteq calling /\ late \subseteq 1..issued
  /\ posted \in Seq(1..issued) /\ given \in Seq(1..issued)

\* A STOP is not overtaken by the MOVE that was sent before it: commands reach the
\* robot's client once at most, and after every earlier one that reaches it, unless
\* the client of gRPC had given up on the earlier one.
CommandsInOrder ==
  \A i, j \in DOMAIN given :
    i < j => given[i] # given[j] /\ (given[i] < given[j] \/ given[j] \in late)
=============================================================================
