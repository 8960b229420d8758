------------------------------ MODULE HidMac -------------------------------
(***************************************************************************)
(* The Mac HIDAPI backend, hidapi/mac/hid.c: one open device, its read     *)
(* thread with a run loop, the removal callback, and the client threads    *)
(* that open, read and close.                                              *)
(*                                                                         *)
(* A section under dev->mutex, device_list_mutex or the mutex of a barrier *)
(* is one action.  The flags disconnected and shutdown_thread are tested   *)
(* outside these mutexes, so every test of the read thread and of          *)
(* hid_close() is an action of its own.                                    *)
(*                                                                         *)
(* IOKit and CoreFoundation are external.  CFRunLoopStop() ends the run in *)
(* progress and is lost when there is none; a signalled source stays       *)
(* signalled until a run performs it.  The removal callback runs on the    *)
(* thread that runs the loop of the HID manager, the main thread.          *)
(***************************************************************************)
EXTENDS Integers, Sequences, FiniteSets

CONSTANTS
  Readers,       \* client threads that call hid_read_timeout()
  QueueLimit,    \* the limit hid_report_callback() tests      (30 in the code)
  MaxReports,    \* bound: reports the device sends
  FaultSets      \* the sets of faults the environment may have

\* close_during_read  a client closes while another thread reads
\* spurious_wakeups   pthread_cond_wait() in a barrier returns unprompted
\* off_main           the device is opened and closed off the main thread
\* other_device       another device of the process is closed
AllFaults == {"close_during_read", "spurious_wakeups", "off_main",
              "other_device"}

ASSUME HidMacAssumption ==
  /\ QueueLimit \in Nat
  /\ MaxReports \in Nat
  /\ FaultSets \subseteq SUBSET AllFaults
  /\ IsFiniteSet(Readers)

VARIABLES
  faults,            \* the faults this environment has, fixed
  plugged,           \* the device is connected
  owner,             \* the thread that opens and closes: where it is
  io,                \* read_thread(): where it is
  barrier,           \* dev->barrier.count
  shutdown_barrier,  \* dev->shutdown_barrier.count
  run_loop,          \* dev->run_loop and dev->source are set
  signalled,         \* dev->source is signalled
  stopped,           \* the run in progress has been told to stop
  listening,         \* reports are dispatched to hid_report_callback()
  watching,          \* the removal callback is registered
  disconnected, shutdown_thread,      \* fields of the device
  input_reports,     \* dev->input_reports, reports numbered as they arrive
  arrived,           \* history: number of reports that arrived
  lastRead,          \* history: the report returned last
  reader             \* hid_read_timeout() per client thread

environment == <<faults, plugged>>
threads     == <<owner, io, barrier, shutdown_barrier>>
loop        == <<run_loop, signalled, stopped>>
callbacks   == <<listening, watching>>
flags       == <<disconnected, shutdown_thread>>
queue       == <<input_reports, arrived, lastRead>>
vars == <<environment, threads, loop, callbacks, flags, queue, reader>>

OwnerSteps == {"closed", "opening", "meeting", "open", "flag", "signal",
               "arrive", "parting", "join", "handle", "os_close", "free",
               "freed"}
IoSteps == {"none", "start", "arrive", "meeting", "test", "enter", "running",
            "broadcast", "handle", "os_close", "leave", "parting", "done"}
ReaderSteps == {"idle", "blocking", "timed", "woken", "woken_timed",
                "timedout"}
Asleep == {r \in Readers : reader[r] \in {"blocking", "timed"}}
Woken  == {r \in Readers : reader[r] \in {"woken", "woken_timed"}}

TypeOK ==
  /\ faults \in FaultSets /\ plugged \in BOOLEAN
  /\ owner \in OwnerSteps /\ io \in IoSteps
  /\ barrier \in 0 .. 1 /\ shutdown_barrier \in 0 .. 1
  /\ run_loop \in BOOLEAN /\ signalled \in BOOLEAN /\ stopped \in BOOLEAN
  /\ listening \in BOOLEAN /\ watching \in BOOLEAN
  /\ disconnected \in BOOLEAN /\ shutdown_thread \in BOOLEAN
  /\ arrived \in 0 .. MaxReports
  /\ input_reports \in Seq(1 .. MaxReports)
  /\ lastRead \in 0 .. arrived
  /\ reader \in [Readers -> ReaderSteps]

Init ==
  /\ faults \in FaultSets /\ plugged = TRUE
  /\ owner = "closed" /\ io = "none"
  /\ barrier = 0 /\ shutdown_barrier = 0
  /\ run_loop = FALSE /\ signalled = FALSE /\ stopped = FALSE
  /\ listening = FALSE /\ watching = FALSE
  /\ disconnected = FALSE /\ shutdown_thread = FALSE
  /\ input_reports = <<>> /\ arrived = 0 /\ lastRead = 0
  /\ reader = [r \in Readers |-> "idle"]

-----------------------------------------------------------------------------
(* pthread_barrier_wait() of hid.c, for two threads: the first to arrive   *)
(* waits once on the condition variable, the second releases it.           *)

\* The owner arrives at the barrier where the read thread waits in step
\* "waiting" before it goes on to "next"; and the reverse.
OwnerArrives(count, ownWaiting, ownNext, ioWaiting, ioNext) ==
  IF count = 0 THEN owner' = ownWaiting /\ UNCHANGED io
  ELSE /\ owner' = ownNext
       /\ io' = IF io = ioWaiting THEN ioNext ELSE io

ThreadArrives(count, ioWaiting, ioNext, ownWaiting, ownNext) ==
  IF count = 0 THEN io' = ioWaiting /\ UNCHANGED owner
  ELSE /\ io' = ioNext
       /\ owner' = IF owner = ownWaiting THEN ownNext ELSE owner

\* The wait is not in a loop: an unprompted return passes the barrier.
SpuriousPass ==
  /\ "spurious_wakeups" \in faults
  /\ \/ owner = "meeting" /\ owner' = "open" /\ UNCHANGED io
     \/ owner = "parting" /\ owner' = "join" /\ UNCHANGED io
     \/ io = "meeting" /\ io' = "test" /\ UNCHANGED owner
     \/ io = "parting" /\ io' = "done" /\ UNCHANGED owner
  /\ UNCHANGED <<environment, barrier, shutdown_barrier, loop, callbacks,
                 flags, queue, reader>>

-----------------------------------------------------------------------------
(* The device and its removal.                                             *)

Unplug ==
  /\ plugged
  /\ plugged' = FALSE
  /\ UNCHANGED <<faults, threads, loop, callbacks, flags, queue, reader>>

\* hid_device_removal_callback(): the device is in device_list.
Removal ==
  /\ ~plugged /\ watching /\ ~disconnected
  /\ owner \notin {"closed", "freed"}
  /\ owner = "open" \/ "off_main" \in faults
  /\ disconnected' = TRUE
  /\ stopped' = (stopped \/ io = "running")
  /\ UNCHANGED <<environment, threads, run_loop, signalled, callbacks,
                 shutdown_thread, queue, reader>>

\* hid_close() of another device unregisters the callback of the manager.
OtherDeviceCloses ==
  /\ "other_device" \in faults
  /\ watching' = FALSE
  /\ UNCHANGED <<environment, threads, loop, listening, flags, queue, reader>>

-----------------------------------------------------------------------------
(* hid_open_path(), from the moment the device is open.                    *)

Open ==
  /\ owner = "closed"
  /\ listening' = TRUE /\ watching' = TRUE
  /\ owner' = "opening" /\ io' = "start"
  /\ UNCHANGED <<environment, barrier, shutdown_barrier, loop, flags, queue,
                 reader>>

\* Mutant of OpenArrives: hid_open_path() does not wait for the thread.
OpenDoesNotWait ==
  /\ owner = "opening"
  /\ barrier' = 0
  /\ owner' = "open"
  /\ UNCHANGED <<environment, io, shutdown_barrier, loop, callbacks, flags,
                 queue, reader>>

OpenArrives ==
  /\ owner = "opening"
  /\ barrier' = 1 - barrier
  /\ OwnerArrives(barrier, "meeting", "open", "meeting", "test")
  /\ UNCHANGED <<environment, shutdown_barrier, loop, callbacks, flags, queue,
                 reader>>

-----------------------------------------------------------------------------
(* read_thread()                                                           *)

\* Schedule the device, create the source, store the run loop.
Prepare ==
  /\ io = "start"
  /\ run_loop' = TRUE
  /\ io' = "arrive"
  /\ UNCHANGED <<environment, owner, barrier, shutdown_barrier, signalled,
                 stopped, callbacks, flags, queue, reader>>

ThreadMeets ==
  /\ io = "arrive"
  /\ barrier' = 1 - barrier
  /\ ThreadArrives(barrier, "meeting", "test", "meeting", "open")
  /\ UNCHANGED <<environment, shutdown_barrier, loop, callbacks, flags, queue,
                 reader>>

TestLoop ==
  /\ io = "test"
  /\ io' = IF shutdown_thread \/ disconnected THEN "broadcast" ELSE "enter"
  /\ UNCHANGED <<environment, owner, barrier, shutdown_barrier, loop,
                 callbacks, flags, queue, reader>>

\* CFRunLoopRunInMode() begins a run of its own.
EnterRun ==
  /\ io = "enter"
  /\ io' = "running" /\ stopped' = FALSE
  /\ UNCHANGED <<environment, owner, barrier, shutdown_barrier, run_loop,
                 signalled, callbacks, flags, queue, reader>>

\* The run was stopped, by the removal callback or by
\* perform_signal_callback(): any such result sets shutdown_thread.
RunStops ==
  /\ io = "running" /\ (stopped \/ signalled)
  /\ signalled' = FALSE
  /\ shutdown_thread' = TRUE
  /\ io' = "broadcast"
  /\ UNCHANGED <<environment, owner, barrier, shutdown_barrier, run_loop,
                 stopped, callbacks, disconnected, queue, reader>>

\* 1000 seconds have passed.
RunTimesOut ==
  /\ io = "running"
  /\ io' = "test"
  /\ UNCHANGED <<environment, owner, barrier, shutdown_barrier, loop,
                 callbacks, flags, queue, reader>>

\* kCFRunLoopRunFinished: the device is gone.
RunFinishes ==
  /\ io = "running" /\ ~plugged
  /\ disconnected' = TRUE
  /\ io' = "broadcast"
  /\ UNCHANGED <<environment, owner, barrier, shutdown_barrier, loop,
                 callbacks, shutdown_thread, queue, reader>>

Wake(step) == IF step = "blocking" THEN "woken"
              ELSE IF step = "timed" THEN "woken_timed" ELSE step

\* Mutant of WakeAll: the read thread ends without waking anyone.
WakeNone == UNCHANGED reader
WakeAll == reader' = [r \in Readers |-> Wake(reader[r])]

Broadcast ==
  /\ io = "broadcast"
  /\ WakeAll
  /\ io' = "handle"
  /\ UNCHANGED <<environment, owner, barrier, shutdown_barrier, loop,
                 callbacks, flags, queue>>

\* Mutant of HandleStep: the handle is closed whether or not it is gone.
AlwaysClose(next) == "os_close"

\* The handle is closed unless the device is known to be gone.
HandleStep(next) == IF disconnected THEN next ELSE "os_close"

ThreadTestsHandle ==
  /\ io = "handle"
  /\ io' = HandleStep("leave")
  /\ UNCHANGED <<environment, owner, barrier, shutdown_barrier, loop,
                 callbacks, flags, queue, reader>>

ThreadClosesHandle ==
  /\ io = "os_close"
  /\ io' = "leave"
  /\ UNCHANGED <<environment, owner, barrier, shutdown_barrier, loop,
                 callbacks, flags, queue, reader>>

\* Mutant of ThreadParts: the thread does not wait for hid_close().
ThreadJustEnds ==
  /\ io = "leave"
  /\ shutdown_barrier' = 0
  /\ io' = "done"
  /\ owner' = IF owner = "parting" THEN "join" ELSE owner
  /\ UNCHANGED <<environment, barrier, loop, callbacks, flags, queue, reader>>

ThreadParts ==
  /\ io = "leave"
  /\ shutdown_barrier' = 1 - shutdown_barrier
  /\ ThreadArrives(shutdown_barrier, "parting", "done", "parting", "join")
  /\ UNCHANGED <<environment, barrier, loop, callbacks, flags, queue, reader>>

-----------------------------------------------------------------------------
(* hid_report_callback(), called by the run loop                           *)

TooLong == Len(input_reports) - 1 > QueueLimit

\* Mutant of Queued: a full queue loses the newest report.
QueuedUnlessFull ==
  IF TooLong THEN input_reports ELSE Append(input_reports, arrived + 1)

Queued ==
  Append(IF TooLong THEN Tail(input_reports) ELSE input_reports, arrived + 1)

\* Mutant of Signal: as on Linux, only the first report is announced.
SignalFirst ==
  IF Asleep = {} \/ input_reports # <<>> THEN UNCHANGED reader
  ELSE \E r \in Asleep : reader' = [reader EXCEPT ![r] = Wake(@)]

\* pthread_cond_signal(), for every report.
Signal ==
  IF Asleep = {} THEN UNCHANGED reader
  ELSE \E r \in Asleep : reader' = [reader EXCEPT ![r] = Wake(@)]

Report ==
  /\ io = "running" /\ listening /\ plugged
  /\ arrived < MaxReports
  /\ arrived' = arrived + 1
  /\ input_reports' = Queued
  /\ Signal
  /\ UNCHANGED <<environment, threads, loop, callbacks, flags, lastRead>>

-----------------------------------------------------------------------------
(* hid_read_timeout(), cond_wait(), cond_timedwait()                       *)

TakeReport(r) ==
  /\ input_reports # <<>>
  /\ input_reports' = Tail(input_reports)
  /\ lastRead' = Head(input_reports)
  /\ reader' = [reader EXCEPT ![r] = "idle"]
  /\ UNCHANGED arrived

Return(r) == reader' = [reader EXCEPT ![r] = "idle"] /\ UNCHANGED queue

Sleep(r, step) == reader' = [reader EXCEPT ![r] = step] /\ UNCHANGED queue

Stopping == disconnected \/ shutdown_thread

ReadBegin(r) ==
  /\ owner = "open" /\ reader[r] = "idle"
  /\ \/ TakeReport(r)
     \/ input_reports = <<>> /\ Stopping /\ Return(r)
     \/ /\ input_reports = <<>> /\ ~Stopping
        /\ Sleep(r, "blocking") \/ Sleep(r, "timed") \/ Return(r)
  /\ UNCHANGED <<environment, threads, loop, callbacks, flags>>

SpuriousWake(r) ==
  /\ r \in Asleep
  /\ reader' = [reader EXCEPT ![r] = Wake(@)]
  /\ UNCHANGED <<environment, threads, loop, callbacks, flags, queue>>

TimeOut(r) ==
  /\ reader[r] = "timed"
  /\ reader' = [reader EXCEPT ![r] = "timedout"]
  /\ UNCHANGED <<environment, threads, loop, callbacks, flags, queue>>

\* After a wait the flags are tested before the queue, unlike on entry.
ReadResume(r) ==
  /\ \/ r \in Woken /\ Stopping /\ Return(r)
     \/ r \in Woken /\ ~Stopping /\ TakeReport(r)
     \/ /\ r \in Woken /\ ~Stopping /\ input_reports = <<>>
        /\ Sleep(r, IF reader[r] = "woken" THEN "blocking" ELSE "timed")
     \/ reader[r] = "timedout" /\ Return(r)
  /\ UNCHANGED <<environment, threads, loop, callbacks, flags>>

-----------------------------------------------------------------------------
(* hid_close()                                                             *)

\* Disconnect the callbacks, unless the device is known to be gone.
CloseBegin ==
  /\ owner = "open"
  /\ "close_during_read" \in faults \/ \A r \in Readers : reader[r] = "idle"
  /\ owner' = "flag"
  /\ listening' = (listening /\ disconnected)
  /\ watching' = (watching /\ disconnected)
  /\ UNCHANGED <<environment, io, barrier, shutdown_barrier, loop, flags,
                 queue, reader>>

CloseFlag ==
  /\ owner = "flag"
  /\ shutdown_thread' = TRUE
  /\ owner' = "signal"
  /\ UNCHANGED <<environment, io, barrier, shutdown_barrier, loop, callbacks,
                 disconnected, queue, reader>>

\* Mutant of CloseSignal: the source is not signalled.
CloseWithoutSignal ==
  /\ owner = "signal"
  /\ owner' = "arrive"
  /\ UNCHANGED <<environment, io, barrier, shutdown_barrier, loop, callbacks,
                 flags, queue, reader>>

\* CFRunLoopSourceSignal() and CFRunLoopWakeUp().
CloseSignal ==
  /\ owner = "signal"
  /\ signalled' = TRUE
  /\ owner' = "arrive"
  /\ UNCHANGED <<environment, io, barrier, shutdown_barrier, run_loop, stopped,
                 callbacks, flags, queue, reader>>

CloseParts ==
  /\ owner = "arrive"
  /\ shutdown_barrier' = 1 - shutdown_barrier
  /\ OwnerArrives(shutdown_barrier, "parting", "join", "parting", "done")
  /\ UNCHANGED <<environment, barrier, loop, callbacks, flags, queue, reader>>

\* Mutant of CloseJoin: the read thread is not waited for.
CloseWithoutJoin ==
  /\ owner = "join"
  /\ owner' = HandleStep("free")
  /\ UNCHANGED <<environment, io, barrier, shutdown_barrier, loop, callbacks,
                 flags, queue, reader>>

\* pthread_join(), and the test of the handle.
CloseJoin ==
  /\ owner = "join" /\ io = "done"
  /\ owner' = HandleStep("free")
  /\ UNCHANGED <<environment, io, barrier, shutdown_barrier, loop, callbacks,
                 flags, queue, reader>>

CloseHandle ==
  /\ owner = "os_close"
  /\ owner' = "free"
  /\ UNCHANGED <<environment, io, barrier, shutdown_barrier, loop, callbacks,
                 flags, queue, reader>>

CloseFree ==
  /\ owner = "free"
  /\ input_reports' = <<>>
  /\ owner' = "freed"
  /\ UNCHANGED <<environment, io, barrier, shutdown_barrier, loop, callbacks,
                 flags, arrived, lastRead, reader>>

-----------------------------------------------------------------------------
ReadThread ==
  \/ Prepare \/ ThreadMeets \/ TestLoop \/ EnterRun \/ RunStops
  \/ Broadcast \/ ThreadTestsHandle \/ ThreadClosesHandle \/ ThreadParts
OpenClose ==
  \/ OpenArrives
  \/ CloseFlag \/ CloseSignal \/ CloseParts \/ CloseJoin \/ CloseHandle
  \/ CloseFree

Next ==
  \/ Unplug \/ Removal \/ OtherDeviceCloses \/ SpuriousPass
  \/ Open \/ CloseBegin \/ OpenClose
  \/ ReadThread \/ RunTimesOut \/ RunFinishes \/ Report
  \/ \E r \in Readers :
       ReadBegin(r) \/ SpuriousWake(r) \/ TimeOut(r) \/ ReadResume(r)

Spec == Init /\ [][Next]_vars

\* The scheduler runs every thread, a run of the run loop ends after its 1000
\* seconds, and pthread_cond_timedwait() ends.  Nothing is assumed about the
\* device or about the main run loop, which a client need not run.
Fairness ==
  /\ WF_vars(ReadThread) /\ WF_vars(RunTimesOut) /\ WF_vars(OpenClose)
  /\ \A r \in Readers : WF_vars(TimeOut(r)) /\ WF_vars(ReadResume(r))

FairSpec == Spec /\ Fairness

-----------------------------------------------------------------------------
(* Safety.                                                                 *)

\* The threads, the run loop and the overflow of hid_report_callback()
\* implement the queue that a client may count on.
Queue == INSTANCE ReportQueue WITH
  queue <- input_reports, Capacity <- QueueLimit + 2

ImplementsQueue == Queue!Spec

\* While readers sleep, enough others are awake to take every queued report:
\* hid_report_callback() signals for each report.
NoLostWakeup ==
  Asleep # {} /\ ~Stopping => Len(input_reports) <= Cardinality(Woken)

\* The barrier is not passed early, as long as its wait is not interrupted.
BarriersHold == "spurious_wakeups" \notin faults

\* Whoever has the device open, and the removal callback, find the run loop
\* that read_thread() stores, and hid_close() wakes the run loop of a live
\* thread: "This thread still needs to be valid when that function is called
\* on the other thread."
RunLoopValid ==
  BarriersHold =>
    /\ owner \notin {"closed", "opening", "meeting"} => run_loop
    /\ disconnected /\ "off_main" \notin faults => run_loop
    /\ owner = "signal" => io # "done"

\* "If it's been unplugged, then calling IOHIDDeviceClose() will crash": the
\* handle is not closed once the device is known to be gone.
NoCloseWhenGone ==
  "off_main" \notin faults /\ (io = "os_close" \/ owner = "os_close")
  => ~disconnected

\* No thread uses the device structure after hid_close() has freed it, unless
\* the client closed the device during a read.
NoUseAfterFree ==
  owner = "freed" =>
    /\ io = "done"
    /\ "close_during_read" \notin faults =>
         \A r \in Readers : reader[r] = "idle"

-----------------------------------------------------------------------------
(* Liveness.                                                               *)

\* hid_close() returns.
CloseReturns == owner = "flag" ~> owner = "freed"

\* Once the device is marked as disconnected every read in progress ends, even
\* a blocking one, and even if CFRunLoopStop() found no run to stop.
DisconnectEndsReads ==
  \A r \in Readers : disconnected /\ reader[r] # "idle" ~> reader[r] = "idle"
=============================================================================
