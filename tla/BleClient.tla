------------------------------ MODULE BleClient ------------------------------
(***************************************************************************)
(* BleServerManager, the Bluetooth client that passes commands to a robot: *)
(* the scan, the reconnect loop, the gatt callbacks, the writes with their *)
(* retries, and shutdown.                                                  *)
(*                                                                         *)
(*   - The main thread takes one message of its looper at a time: the      *)
(*     buttons, runnables of the two handlers, scan results, shutdown.     *)
(*   - The callbacks of a gatt run on a binder thread, one at a time for   *)
(*     each gatt, at the same time as the main thread.                     *)
(* Nothing is locked, so a main-thread message or a callback that touches  *)
(* the fields of both threads (isReconnecting, reconnectAttempts,          *)
(* characteristic) more than once is split into steps between which the    *)
(* other thread may run.                                                   *)
(*                                                                         *)
(* The Bluetooth stack is external: a callback starts only while its gatt  *)
(* is not closed, and one that has started goes on when it is.             *)
(***************************************************************************)
EXTENDS Integers, FiniteSets

CONSTANTS
  Conns,        \* BluetoothGatt objects; one that nothing refers to is used again
  NoConn,       \* null
  MaxAttempts,  \* MAX_RECONNECT_ATTEMPTS
  MaxRetries,   \* WRITE_MAX_RETRIES
  MaxScans,     \* bound: scans begun
  MaxCmds,      \* bound: commands given
  MaxPosted     \* bound: callbacks post no further loop runnable beyond this

ASSUME BleAssumption ==
  /\ NoConn \notin Conns
  /\ MaxAttempts \in Nat \ {0}
  /\ {MaxRetries, MaxScans, MaxCmds, MaxPosted} \subseteq Nat

VARIABLES
  main,           \* main thread: idle, or where in its message it is
  down,           \* shutdown has run
  late,           \* history: what shutdown cannot cancel was under way when it ran
  reconnecting,   \* isReconnecting
  attempts,       \* reconnectAttempts
  read,           \* the value of reconnectAttempts that ++ has read
  posted,         \* loop runnables waiting in reconnectHandler
  target,         \* targetDevice is set
  gatt,           \* gatt
  characteristic, \* the gatt whose characteristic the field holds
  link,           \* state of each gatt object
  cb,             \* callback of each gatt: idle, or where in it the thread is
  scanning,       \* isScanning
  scans,          \* number of the scan begun last
  found,          \* scans with foundAny set
  results,        \* scans with a result waiting in the looper
  timeouts,       \* scan timeouts waiting in stopScanHandler
  issued,         \* commands given so far
  writing,        \* the command writeInternal was called with
  retries,        \* retries waiting in reconnectHandler
  sent            \* history: commands a gatt has accepted

mainVars == <<main, down, late>>
loopVars == <<reconnecting, attempts, read, posted>>
gattVars == <<gatt, characteristic, link>>
scanVars == <<target, scanning, scans, found, results, timeouts>>
writeVars == <<issued, writing, retries, sent>>
vars == <<mainVars, loopVars, gattVars, cb, scanVars, writeVars>>

(* writeInternal is not running. *)
NoWrite == [cmd |-> 0, attempt |-> 0]

(* setupRobotPanel has built the manager and called startClient. *)
Init ==
  /\ main = "check"
  /\ down = FALSE
  /\ late = FALSE
  /\ reconnecting = FALSE
  /\ attempts = 0
  /\ read = 0
  /\ posted = 0
  /\ target = FALSE
  /\ gatt = NoConn
  /\ characteristic = NoConn
  /\ link = [c \in Conns |-> "closed"]
  /\ cb = [c \in Conns |-> "idle"]
  /\ scanning = FALSE
  /\ scans = 0
  /\ found = {}
  /\ results = {}
  /\ timeouts = 0
  /\ issued = 0
  /\ writing = NoWrite
  /\ retries = {}
  /\ sent = {}

(* An exception on the main thread ends the process. *)
Alive == main # "crashed"

-----------------------------------------------------------------------------
(* scheduleReconnect, on the main thread. *)

ScheduleCheck ==
  /\ main = "check"
  /\ main' = IF reconnecting THEN "idle" ELSE "set"
  /\ UNCHANGED <<down, late, loopVars, gattVars, cb, scanVars, writeVars>>

ScheduleSet ==
  /\ main = "set"
  /\ reconnecting' = TRUE
  /\ main' = "reset"
  /\ UNCHANGED <<down, late, attempts, read, posted, gattVars, cb, scanVars, writeVars>>

ScheduleReset ==
  /\ main = "reset"
  /\ attempts' = 0
  /\ main' = "post"
  /\ UNCHANGED <<down, late, reconnecting, read, posted, gattVars, cb, scanVars, writeVars>>

SchedulePost ==
  /\ main = "post"
  /\ posted' = posted + 1
  /\ main' = "idle"
  /\ UNCHANGED <<down, late, reconnecting, attempts, read, gattVars, cb, scanVars, writeVars>>

-----------------------------------------------------------------------------
(* The loop: the runnable scheduleReconnect posts. *)

LoopStart ==
  /\ main = "idle"
  /\ posted > 0
  /\ posted' = posted - 1
  /\ main' = IF reconnecting THEN "connect" ELSE "idle"
  /\ UNCHANGED <<down, late, reconnecting, attempts, read, gattVars, cb, scanVars, writeVars>>

\* Mutant of AfterClose: the old gatt is only forgotten.
AfterCloseForgotten == link

(* gatt.close(), if there is a gatt. *)
AfterClose == [c \in Conns |-> IF c = gatt THEN "closed" ELSE link[c]]

\* characteristic is cleared with gatt; without a gatt it is left.
CharacteristicKept == IF gatt = NoConn THEN characteristic ELSE NoConn

\* Mutant of LoopWait: the runnable is not posted again.
LoopWaitNoMore ==
  /\ main = "connect"
  /\ ~target
  /\ link' = AfterClose
  /\ gatt' = NoConn
  /\ characteristic' = CharacteristicKept
  /\ main' = "idle"
  /\ UNCHANGED <<down, late, loopVars, cb, scanVars, writeVars>>

(* Without a target the runnable only posts itself again. *)
LoopWait ==
  /\ main = "connect"
  /\ ~target
  /\ link' = AfterClose
  /\ gatt' = NoConn
  /\ characteristic' = CharacteristicKept
  /\ posted' = posted + 1
  /\ main' = "idle"
  /\ UNCHANGED <<down, late, reconnecting, attempts, read, cb, scanVars, writeVars>>

(* The old gatt is closed, then connectGatt makes a new one. *)
LoopConnect(c) ==
  /\ main = "connect"
  /\ target
  /\ AfterClose[c] = "closed" /\ cb[c] = "idle" /\ c # CharacteristicKept
  /\ link' = [AfterClose EXCEPT ![c] = "connecting"]
  /\ gatt' = c
  /\ characteristic' = CharacteristicKept
  /\ main' = "read"
  /\ UNCHANGED <<down, late, loopVars, cb, scanVars, writeVars>>

(* connectGatt returns null: the attempt counts, and there is no gatt. *)
LoopConnectNull ==
  /\ main = "connect"
  /\ target
  /\ link' = AfterClose
  /\ gatt' = NoConn
  /\ characteristic' = CharacteristicKept
  /\ main' = "read"
  /\ UNCHANGED <<down, late, loopVars, cb, scanVars, writeVars>>

(* connectGatt throws: the permission is missing. *)
LoopDenied ==
  /\ main = "connect"
  /\ target
  /\ link' = AfterClose
  /\ gatt' = NoConn
  /\ characteristic' = CharacteristicKept
  /\ main' = "giveUp"
  /\ UNCHANGED <<down, late, loopVars, cb, scanVars, writeVars>>

(* reconnectAttempts++ reads and writes the field. *)
LoopRead ==
  /\ main = "read"
  /\ read' = attempts
  /\ main' = "count"
  /\ UNCHANGED <<down, late, reconnecting, attempts, posted, gattVars, cb, scanVars, writeVars>>

\* Mutant of Counted: the attempt is not counted.
CountedNever == read

(* Counts beyond MaxAttempts, which a reset between read and write makes   *)
(* possible, are not told apart.                                           *)
Counted == IF read < MaxAttempts THEN read + 1 ELSE read

LoopCount ==
  /\ main = "count"
  /\ attempts' = Counted
  /\ main' = "decide"
  /\ UNCHANGED <<down, late, reconnecting, read, posted, gattVars, cb, scanVars, writeVars>>

LoopDecide ==
  /\ main = "decide"
  /\ IF attempts < MaxAttempts /\ reconnecting
     THEN posted' = posted + 1 /\ main' = "idle"
     ELSE main' = "giveUp" /\ UNCHANGED posted
  /\ UNCHANGED <<down, late, reconnecting, attempts, read, gattVars, cb, scanVars, writeVars>>

LoopGiveUp ==
  /\ main = "giveUp"
  /\ reconnecting' = FALSE
  /\ main' = "idle"
  /\ UNCHANGED <<down, late, attempts, read, posted, gattVars, cb, scanVars, writeVars>>

-----------------------------------------------------------------------------
(* The callbacks of gatt c, on its binder thread. *)

ConnectedBegin(c) ==
  /\ Alive
  /\ link[c] = "connecting"
  /\ cb[c] = "idle"
  /\ link' = [link EXCEPT ![c] = "up"]
  /\ cb' = [cb EXCEPT ![c] = "connected"]
  /\ UNCHANGED <<mainVars, loopVars, gatt, characteristic, scanVars, writeVars>>

ConnectedEnd(c) ==
  /\ Alive
  /\ cb[c] = "connected"
  /\ reconnecting' = FALSE
  /\ cb' = [cb EXCEPT ![c] = "idle"]
  /\ UNCHANGED <<mainVars, attempts, read, posted, gattVars, scanVars, writeVars>>

DiscoveredBegin(c) ==
  /\ Alive
  /\ link[c] = "up"
  /\ cb[c] = "idle"
  /\ cb' = [cb EXCEPT ![c] = "discovered"]
  /\ UNCHANGED <<mainVars, loopVars, gattVars, scanVars, writeVars>>

(* The characteristic is there or missing; or the discovery failed or the  *)
(* service is missing, and nothing is changed.  (That the field may be     *)
(* cleared before the callback reads it again changes no state: the stack  *)
(* catches what a callback throws.)                                        *)
DiscoveredEnd(c) ==
  /\ Alive
  /\ cb[c] = "discovered"
  /\ characteristic' \in {c, NoConn, characteristic}
  /\ cb' = [cb EXCEPT ![c] = "idle"]
  /\ UNCHANGED <<mainVars, loopVars, gatt, link, scanVars, writeVars>>

DisconnectedBegin(c) ==
  /\ Alive
  /\ link[c] \in {"connecting", "up"}
  /\ cb[c] = "idle"
  /\ link' = [link EXCEPT ![c] = "down"]
  /\ cb' = [cb EXCEPT ![c] = "close"]
  /\ UNCHANGED <<mainVars, loopVars, gatt, characteristic, scanVars, writeVars>>

(* It closes the gatt it is called with, and leaves the field gatt. *)
DisconnectedClose(c) ==
  /\ Alive
  /\ cb[c] = "close"
  /\ link' = [link EXCEPT ![c] = "closed"]
  /\ cb' = [cb EXCEPT ![c] = "clear"]
  /\ UNCHANGED <<mainVars, loopVars, gatt, characteristic, scanVars, writeVars>>

DisconnectedClear(c) ==
  /\ Alive
  /\ cb[c] = "clear"
  /\ characteristic' = NoConn
  /\ cb' = [cb EXCEPT ![c] = "check"]
  /\ UNCHANGED <<mainVars, loopVars, gatt, link, scanVars, writeVars>>

(* scheduleReconnect, on the binder thread. *)
CallbackCheck(c) ==
  /\ Alive
  /\ cb[c] = "check"
  /\ cb' = [cb EXCEPT ![c] = IF reconnecting THEN "idle" ELSE "set"]
  /\ UNCHANGED <<mainVars, loopVars, gattVars, scanVars, writeVars>>

CallbackSet(c) ==
  /\ Alive
  /\ cb[c] = "set"
  /\ reconnecting' = TRUE
  /\ cb' = [cb EXCEPT ![c] = "reset"]
  /\ UNCHANGED <<mainVars, attempts, read, posted, gattVars, scanVars, writeVars>>

CallbackReset(c) ==
  /\ Alive
  /\ cb[c] = "reset"
  /\ attempts' = 0
  /\ cb' = [cb EXCEPT ![c] = "post"]
  /\ UNCHANGED <<mainVars, reconnecting, read, posted, gattVars, scanVars, writeVars>>

CallbackPost(c) ==
  /\ Alive
  /\ cb[c] = "post"
  /\ posted < MaxPosted
  /\ posted' = posted + 1
  /\ cb' = [cb EXCEPT ![c] = "idle"]
  /\ UNCHANGED <<mainVars, reconnecting, attempts, read, gattVars, scanVars, writeVars>>

-----------------------------------------------------------------------------
(* The scan, all on the main thread. *)

\* Mutant of TimeoutPosted: no timeout is posted for a scan.
TimeoutPostedNever == timeouts

TimeoutPosted == timeouts + 1

(* A scan that cannot be started leaves everything as it was. *)
Scan ==
  /\ main = "idle"
  /\ ~down
  /\ ~scanning
  /\ scans < MaxScans
  /\ scanning' = TRUE
  /\ scans' = scans + 1
  /\ timeouts' = TimeoutPosted
  /\ UNCHANGED <<mainVars, loopVars, gattVars, cb, target, found, results, writeVars>>

(* External: the stack posts a result of the scan that is on.  (After      *)
(* onScanFailed there is none, but isScanning stays set.)                  *)
ScanFinds ==
  /\ Alive
  /\ scanning
  /\ results' = results \cup {scans}
  /\ UNCHANGED <<mainVars, loopVars, gattVars, cb>>
  /\ UNCHANGED <<target, scanning, scans, found, timeouts, writeVars>>

(* onScanResult for a device with the right name: the first one of its     *)
(* scan becomes the target, and ends whatever scan is on.  It may come     *)
(* after that scan has ended, and after shutdown.                          *)
ScanResult(s) ==
  /\ main = "idle"
  /\ s \in results
  /\ results' = results \ {s}
  /\ IF s \in found
     THEN UNCHANGED <<main, found, target, scanning>>
     ELSE /\ found' = found \cup {s}
          /\ target' = TRUE
          /\ scanning' = FALSE
          /\ main' = "check"
  /\ UNCHANGED <<down, late, loopVars, gattVars, cb, scans, timeouts, writeVars>>

(* The timeout of any scan ends the scan that is on. *)
ScanTimeout ==
  /\ main = "idle"
  /\ timeouts > 0
  /\ timeouts' = timeouts - 1
  /\ scanning' = FALSE
  /\ UNCHANGED <<mainVars, loopVars, gattVars, cb, target, scans, found, results, writeVars>>

-----------------------------------------------------------------------------
(* Commands. *)

Ready == characteristic # NoConn /\ gatt # NoConn

(* sendStringMessage, sendUint32Message and the checks of writeInternal. *)
Send ==
  /\ main = "idle"
  /\ issued < MaxCmds
  /\ issued' = issued + 1
  /\ IF Ready
     THEN main' = "write" /\ writing' = [cmd |-> issued + 1, attempt |-> 0]
     ELSE UNCHANGED <<main, writing>>
  /\ UNCHANGED <<down, late, loopVars, gattVars, cb, scanVars, retries, sent>>

Retry(r) ==
  /\ main = "idle"
  /\ r \in retries
  /\ retries' = retries \ {r}
  /\ IF Ready
     THEN main' = "write" /\ writing' = r
     ELSE UNCHANGED <<main, writing>>
  /\ UNCHANGED <<down, late, loopVars, gattVars, cb, scanVars, issued, sent>>

\* Mutant of RetryAfter: the attempts are compared with > and not >=.
RetryAfterOneMore(ok) ==
  IF ok \/ writing.attempt > MaxRetries
  THEN retries
  ELSE retries \cup {[writing EXCEPT !.attempt = @ + 1]}

\* Mutant of RetryAfter: a write that was accepted is tried again as well.
RetryAfterAll(ok) ==
  IF writing.attempt >= MaxRetries
  THEN retries
  ELSE retries \cup {[writing EXCEPT !.attempt = @ + 1]}

(* What writeInternal posts: a retry after a failed write, so many times. *)
RetryAfter(ok) ==
  IF ok \/ writing.attempt >= MaxRetries
  THEN retries
  ELSE retries \cup {[writing EXCEPT !.attempt = @ + 1]}

(* writeCharacteristic accepts only over a connection that is up. *)
Write(ok) ==
  /\ main = "write"
  /\ characteristic # NoConn
  /\ ok => link[gatt] = "up"
  /\ sent' = IF ok THEN sent \cup {writing.cmd} ELSE sent
  /\ retries' = RetryAfter(ok)
  /\ writing' = NoWrite
  /\ main' = "idle"
  /\ UNCHANGED <<down, late, loopVars, gattVars, cb, scanVars, issued>>

(* writeCharacteristic throws: the permission is missing, no retry. *)
WriteDenied ==
  /\ main = "write"
  /\ characteristic # NoConn
  /\ writing' = NoWrite
  /\ main' = "idle"
  /\ UNCHANGED <<down, late, loopVars, gattVars, cb, scanVars, issued, retries, sent>>

(* A callback has cleared the field since it was checked. *)
WriteNull ==
  /\ main = "write"
  /\ characteristic = NoConn
  /\ main' = "crashed"
  /\ UNCHANGED <<down, late, loopVars, gattVars, cb, scanVars, writeVars>>

-----------------------------------------------------------------------------
(* shutdown, from onDestroy. *)

ShutdownFlag ==
  /\ main = "idle"
  /\ ~down
  /\ reconnecting' = FALSE
  /\ main' = "shutdown"
  /\ UNCHANGED <<down, late, attempts, read, posted, gattVars, cb, scanVars, writeVars>>

(* Callbacks on their way to scheduleReconnect and results already in the  *)
(* looper are out of shutdown's reach.                                     *)
OutOfReach ==
  \/ results # {}
  \/ \E c \in Conns : cb[c] \in {"close", "clear", "check", "set", "reset", "post"}

\* Mutant of PostedAfterShutdown: removeCallbacksAndMessages is forgotten.
PostedAfterShutdownAll == posted

PostedAfterShutdown == 0

ShutdownRest ==
  /\ main = "shutdown"
  /\ posted' = PostedAfterShutdown
  /\ retries' = {}
  /\ timeouts' = 0
  /\ scanning' = FALSE
  /\ link' = AfterClose
  /\ gatt' = NoConn
  /\ characteristic' = NoConn
  /\ down' = TRUE
  /\ late' = OutOfReach
  /\ main' = "idle"
  /\ UNCHANGED <<reconnecting, attempts, read, cb, target, scans, found, results>>
  /\ UNCHANGED <<issued, writing, sent>>

-----------------------------------------------------------------------------

Schedule == ScheduleCheck \/ ScheduleSet \/ ScheduleReset \/ SchedulePost

(* A message of the main thread that has begun goes on. *)
MainStep ==
  \/ Schedule
  \/ LoopWait
  \/ \E c \in Conns : LoopConnect(c)
  \/ LoopConnectNull \/ LoopDenied
  \/ LoopRead \/ LoopCount \/ LoopDecide \/ LoopGiveUp
  \/ \E ok \in BOOLEAN : Write(ok)
  \/ WriteDenied \/ WriteNull
  \/ ShutdownRest

Reported(c) == ConnectedBegin(c) \/ DiscoveredBegin(c) \/ DisconnectedBegin(c)

CallbackStep(c) ==
  \/ ConnectedEnd(c) \/ DiscoveredEnd(c)
  \/ DisconnectedClose(c) \/ DisconnectedClear(c)
  \/ CallbackCheck(c) \/ CallbackSet(c) \/ CallbackReset(c) \/ CallbackPost(c)

Next ==
  \/ MainStep
  \/ LoopStart
  \/ \E c \in Conns : Reported(c) \/ CallbackStep(c)
  \/ Scan \/ ScanFinds \/ ScanTimeout
  \/ \E s \in results : ScanResult(s)
  \/ Send
  \/ \E r \in retries : Retry(r)
  \/ ShutdownFlag

Spec == Init /\ [][Next]_vars

(* The looper handles every message that is due, however busy it is with   *)
(* others; a message or callback that has begun goes on.  Nobody needs to  *)
(* scan, send or shut down, and the robot need not answer.                 *)
Fairness ==
  /\ WF_vars(MainStep)
  /\ SF_vars(LoopStart)
  /\ SF_vars(ScanTimeout)
  /\ \A c \in Conns : SF_vars(CallbackStep(c))

FairSpec == Spec /\ Fairness

-----------------------------------------------------------------------------
(* What should hold. *)

MainPlaces ==
  {"idle", "check", "set", "reset", "post", "connect", "read", "count", "decide", "giveUp",
   "write", "shutdown", "crashed"}

CallbackPlaces ==
  {"idle", "connected", "discovered", "close", "clear", "check", "set", "reset", "post"}

WriteType == [cmd : 0..MaxCmds, attempt : 0..MaxRetries]

(* The state has the types of the members it stands for; no write is tried *)
(* more often than WRITE_MAX_RETRIES allows.                               *)
TypeOK ==
  /\ main \in MainPlaces
  /\ down \in BOOLEAN
  /\ late \in BOOLEAN
  /\ reconnecting \in BOOLEAN
  /\ attempts \in 0..MaxAttempts
  /\ read \in 0..MaxAttempts
  /\ posted \in Nat
  /\ target \in BOOLEAN
  /\ gatt \in Conns \cup {NoConn}
  /\ characteristic \in Conns \cup {NoConn}
  /\ link \in [Conns -> {"closed", "connecting", "up", "down"}]
  /\ cb \in [Conns -> CallbackPlaces]
  /\ scanning \in BOOLEAN
  /\ scans \in 0..MaxScans
  /\ found \subseteq 0..MaxScans
  /\ results \subseteq 0..MaxScans
  /\ timeouts \in Nat
  /\ issued \in 0..MaxCmds
  /\ writing \in WriteType
  /\ retries \subseteq WriteType
  /\ sent \subseteq 0..MaxCmds

(* No gatt is left open behind a new one: whatever callbacks and loops      *)
(* come together, the field gatt is the only one that is not closed (the    *)
(* stack has few client slots and gives none back before close).           *)
OneConnectionOpen == \A c \in Conns : link[c] # "closed" => gatt = c

(* While isReconnecting is set, which keeps scheduleReconnect from doing    *)
(* anything, a loop is there that will try again or clear it.              *)
SomeLoopIsAlive ==
  reconnecting /\ ~down =>
    \/ posted > 0
    \/ main \in {"reset", "post", "connect", "read", "count", "decide", "giveUp", "crashed"}
    \/ \E c \in Conns : cb[c] \in {"reset", "post"}

(* Shutdown is final, except for what it could not reach when it ran: no    *)
(* timer is left to fire, nothing is open and nothing is opened again.      *)
ShutdownIsFinal ==
  down /\ ~late =>
    /\ posted = 0 /\ retries = {}
    /\ gatt = NoConn /\ \A c \in Conns : link[c] = "closed"

(* A command the gatt has accepted is not tried again, whatever happens to  *)
(* the connection while a retry of it or of others is waiting.             *)
SentOnce ==
  /\ main = "write" => writing.cmd \notin sent
  /\ \A r \in retries : r.cmd \notin sent

(* With a target the loop ends: it connects, gives up after so many         *)
(* attempts or is shut down, although callbacks and scans start it anew.    *)
LoopEnds == reconnecting ~> ~reconnecting \/ ~target \/ down \/ ~Alive

(* While a scan is on a timeout waits that will end it, also when the stack *)
(* has failed the scan and when earlier timeouts were spent on later scans. *)
ScanHasTimeout == scanning => timeouts > 0
=============================================================================
