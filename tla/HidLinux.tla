----------------------------- MODULE HidLinux ------------------------------
(***************************************************************************)
(* The Linux HIDAPI backend, hidapi/linux/hid-libusb.c: one open device,   *)
(* its read thread, the libusb transfer that carries input reports, the    *)
(* queue of input reports, and the client threads that read and close.     *)
(*                                                                         *)
(* A section of code under dev->mutex is one action.  dev->shutdown_thread *)
(* is written without the mutex, so each access to it is in an action of   *)
(* its own, except the reader's test before it goes to sleep: a write      *)
(* between the test and the sleep cannot be told from one after it,        *)
(* because the broadcast that follows the write takes the mutex.           *)
(*                                                                         *)
(* libusb and the kernel are external: a submitted transfer completes with *)
(* a report, a timeout, an error, or because the device is gone; cancelling*)
(* a transfer in flight makes it complete with status CANCELLED.           *)
(***************************************************************************)
EXTENDS Integers, Sequences

CONSTANTS
  Readers,       \* client threads that call hid_read_timeout()
  QueueLimit,    \* the limit read_callback() tests            (30 in the code)
  MaxReports,    \* bound: reports the device sends
  FaultSets      \* the sets of faults the environment may have

\* close_during_read  a client closes while another thread reads
\* unplug_anytime     the device goes while no transfer is submitted
\* event_errors       libusb_handle_events() can fail
\* cancel_refused     cancelling a transfer that is finished or cancelled, but
\*                    whose callback has not run, returns NOT_FOUND
\* shared_context     another device's read thread handles events too
AllFaults == {"close_during_read", "unplug_anytime", "event_errors",
              "cancel_refused", "shared_context"}

ASSUME HidLinuxAssumption ==
  /\ QueueLimit \in Nat
  /\ MaxReports \in Nat
  /\ FaultSets \subseteq SUBSET AllFaults

VARIABLES
  faults,           \* the faults this environment has, fixed
  owner,            \* the thread that opens and closes: where it is
  io,               \* read_thread(): where it is
  cb, cbThread,     \* read_callback(): where it is, and on which thread
  transfer,         \* the state of dev->transfer
  transferFreed,    \* hid_close() has freed dev->transfer
  plugged,          \* the device is connected
  shutdown_thread,  \* dev->shutdown_thread
  input_reports,    \* dev->input_reports, reports numbered as they arrive
  arrived,          \* history: number of reports that arrived
  lastRead,         \* history: the report returned last
  reader, result    \* hid_read_timeout() per client thread, and its result

environment == <<faults, plugged>>
ioVars     == <<io, cb, cbThread>>
queueVars  == <<input_reports, arrived, lastRead>>
readerVars == <<reader, result>>
vars == <<environment, owner, ioVars, transfer, transferFreed,
          shutdown_thread, queueVars, readerVars>>

Finished == {"completed", "timed_out", "failed", "no_device", "cancelled"}
\* libusb owns the transfer.
InFlight == transfer = "submitted" \/ transfer \in Finished

OwnerSteps  == {"closed", "opening", "open", "cancel", "join", "free", "freed"}
IoSteps     == {"none", "start", "barrier", "loop", "events", "cancel",
                "drain", "broadcast", "done"}
ReaderSteps == {"idle", "blocking", "timed", "woken", "woken_timed",
                "timedout"}
Asleep      == {r \in Readers : reader[r] \in {"blocking", "timed"}}

TypeOK ==
  /\ faults \in FaultSets
  /\ owner \in OwnerSteps
  /\ io \in IoSteps
  /\ cb \in {"none", "enqueue", "resubmit"}
  /\ cbThread \in {"io", "other"}
  /\ transfer \in {"none", "idle", "submitted"} \cup Finished
  /\ transferFreed \in BOOLEAN
  /\ plugged \in BOOLEAN
  /\ shutdown_thread \in BOOLEAN
  /\ arrived \in 0 .. MaxReports
  /\ input_reports \in Seq(1 .. MaxReports)
  /\ lastRead \in 0 .. arrived
  /\ reader \in [Readers -> ReaderSteps]
  /\ result \in [Readers -> {"none", "data", "empty", "error"}]

Init ==
  /\ faults \in FaultSets
  /\ owner = "closed" /\ io = "none"
  /\ cb = "none" /\ cbThread = "io"
  /\ transfer = "none" /\ transferFreed = FALSE
  /\ plugged = TRUE
  /\ shutdown_thread = FALSE
  /\ input_reports = <<>> /\ arrived = 0 /\ lastRead = 0
  /\ reader = [r \in Readers |-> "idle"]
  /\ result = [r \in Readers |-> "none"]

-----------------------------------------------------------------------------
(* libusb, the kernel and the device (external).                           *)

\* libusb_submit_transfer(): fails, and is not looked at, without a device.
SubmitTransfer == transfer' = IF plugged THEN "submitted" ELSE "idle"

CompleteTransfer ==
  /\ transfer = "submitted" /\ plugged
  /\ \/ arrived < MaxReports /\ transfer' = "completed"
     \/ transfer' \in {"timed_out", "failed"}
  /\ UNCHANGED <<owner, ioVars, transferFreed, environment,
                 shutdown_thread, queueVars, readerVars>>

Unplug ==
  /\ plugged
  /\ "unplug_anytime" \in faults \/ transfer = "submitted"
  /\ plugged' = FALSE
  /\ UNCHANGED <<faults, owner, ioVars, transfer, transferFreed,
                 shutdown_thread, queueVars, readerVars>>

LoseDevice ==
  /\ transfer = "submitted" /\ ~plugged
  /\ transfer' = "no_device"
  /\ UNCHANGED <<owner, ioVars, transferFreed, environment,
                 shutdown_thread, queueVars, readerVars>>

\* libusb_cancel_transfer(): whether it returns 0, and what it does.
CancelSucceeds ==
  \/ transfer = "submitted"
  \/ transfer \in Finished /\ "cancel_refused" \notin faults
CancelTransfer == transfer' = IF InFlight THEN "cancelled" ELSE transfer

-----------------------------------------------------------------------------
(* hid_open_path(), from the moment the device is open: create the read    *)
(* thread and meet it at the barrier.                                      *)

Open ==
  /\ owner = "closed"
  /\ owner' = "opening" /\ io' = "start"
  /\ UNCHANGED <<cb, cbThread, transfer, transferFreed, environment,
                 shutdown_thread, queueVars, readerVars>>

\* Mutant of MeetAtBarrier: hid_open_path() does not wait for the thread.
OpenWithoutBarrier ==
  /\ owner = "opening"
  /\ owner' = "open"
  /\ io' = IF io = "barrier" THEN "loop" ELSE io
  /\ UNCHANGED <<cb, cbThread, transfer, transferFreed, environment,
                 shutdown_thread, queueVars, readerVars>>

MeetAtBarrier ==
  /\ owner = "opening" /\ io = "barrier"
  /\ owner' = "open" /\ io' = "loop"
  /\ UNCHANGED <<cb, cbThread, transfer, transferFreed, environment,
                 shutdown_thread, queueVars, readerVars>>

-----------------------------------------------------------------------------
(* read_thread()                                                           *)

StartTransfer ==
  /\ io = "start"
  /\ SubmitTransfer
  /\ io' = "barrier"
  /\ UNCHANGED <<owner, cb, cbThread, transferFreed, environment,
                 shutdown_thread, queueVars, readerVars>>

TestShutdown ==
  /\ io = "loop"
  /\ io' = IF shutdown_thread THEN "cancel" ELSE "events"
  /\ UNCHANGED <<owner, cb, cbThread, transfer, transferFreed, environment,
                 shutdown_thread, queueVars, readerVars>>

\* The read thread is not inside a callback.
NoOwnCallback == cb = "none" \/ cbThread = "other"

\* libusb_handle_events() returns 0 without having run the callback: it leaves
\* a finished transfer of this device aside only when it serves another device
\* of the context as well.
EventsReturn ==
  /\ NoOwnCallback
  /\ transfer \notin Finished \/ "shared_context" \in faults
  /\ \/ io = "events" /\ io' = "loop"
     \/ io = "drain" /\ io' = "broadcast"
  /\ UNCHANGED <<owner, cb, cbThread, transfer, transferFreed, environment,
                 shutdown_thread, queueVars, readerVars>>

\* libusb_handle_events() returns an error: the loop ends, and the call that
\* waits for the cancellation is not looked at.
EventsFail ==
  /\ "event_errors" \in faults
  /\ NoOwnCallback
  /\ \/ io = "events" /\ io' = "cancel"
     \/ io = "drain" /\ io' = "broadcast"
  /\ UNCHANGED <<owner, cb, cbThread, transfer, transferFreed, environment,
                 shutdown_thread, queueVars, readerVars>>

CancelPending ==
  /\ io = "cancel"
  /\ CancelTransfer
  /\ io' = IF CancelSucceeds THEN "drain" ELSE "broadcast"
  /\ UNCHANGED <<owner, cb, cbThread, transferFreed, environment,
                 shutdown_thread, queueVars, readerVars>>

\* Mutant of WakeAll: the read thread ends without waking anyone.
WakeNone == UNCHANGED reader

WakeAll ==
  reader' = [r \in Readers |-> CASE reader[r] = "blocking" -> "woken"
                                 [] reader[r] = "timed"    -> "woken_timed"
                                 [] OTHER                  -> reader[r]]

Broadcast ==
  /\ io = "broadcast"
  /\ WakeAll
  /\ io' = "done"
  /\ UNCHANGED <<owner, cb, cbThread, transfer, transferFreed, environment,
                 shutdown_thread, queueVars, result>>

-----------------------------------------------------------------------------
(* read_callback(), called by libusb_handle_events()                       *)

CallbackReturns(th) ==
  io' = IF th = "other" THEN io
        ELSE IF io = "events" THEN "loop" ELSE "broadcast"

\* Mutant of StopsReading: only a cancellation stops the read thread.
StopsOnlyWhenCancelled == transfer = "cancelled"

\* The status after which read_callback() does not submit the transfer again.
StopsReading == transfer \in {"cancelled", "no_device"}

RunCallback(th) ==
  /\ cb = "none" /\ transfer \in Finished
  /\ IF th = "io" THEN io \in {"events", "drain"}
                  ELSE "shared_context" \in faults
  /\ transfer' = "idle"
  /\ cbThread' = th
  /\ \/ /\ StopsReading
        /\ shutdown_thread' = TRUE
        /\ CallbackReturns(th)
        /\ UNCHANGED cb
     \/ /\ transfer = "completed"
        /\ cb' = "enqueue"
        /\ UNCHANGED <<io, shutdown_thread>>
     \/ /\ transfer # "completed" /\ ~StopsReading
        /\ cb' = "resubmit"
        /\ UNCHANGED <<io, shutdown_thread>>
  /\ UNCHANGED <<owner, transferFreed, environment, queueVars, readerVars>>

\* Mutant of Signal: nobody is told of the first report.
NoSignal == UNCHANGED reader

\* pthread_cond_signal(): some sleeping thread, if any, wakes.
Signal ==
  IF Asleep = {} THEN UNCHANGED reader
  ELSE \E r \in Asleep :
         reader' = [reader EXCEPT ![r] =
                      IF @ = "blocking" THEN "woken" ELSE "woken_timed"]

\* Mutant of TooLong: off by one.
TooLongEarly == Len(input_reports) - 1 >= QueueLimit

\* num_queued: the reports that were queued, less the first.
TooLong == Len(input_reports) - 1 > QueueLimit

\* The list once the new report is attached.
Queued ==
  Append(IF TooLong THEN Tail(input_reports) ELSE input_reports, arrived + 1)

Enqueue ==
  /\ cb = "enqueue"
  /\ arrived' = arrived + 1
  /\ input_reports' = Queued
  /\ IF input_reports = <<>> THEN Signal ELSE UNCHANGED reader
  /\ cb' = "resubmit"
  /\ UNCHANGED <<owner, io, cbThread, transfer, transferFreed, environment,
                 shutdown_thread, lastRead, result>>

Resubmit ==
  /\ cb = "resubmit"
  /\ SubmitTransfer
  /\ cb' = "none"
  /\ CallbackReturns(cbThread)
  /\ UNCHANGED <<owner, cbThread, transferFreed, environment,
                 shutdown_thread, queueVars, readerVars>>

-----------------------------------------------------------------------------
(* hid_read_timeout()                                                      *)

Return(r, value) ==
  /\ reader' = [reader EXCEPT ![r] = "idle"]
  /\ result' = [result EXCEPT ![r] = value]

\* return_data()
TakeReport(r) ==
  /\ input_reports # <<>>
  /\ input_reports' = Tail(input_reports)
  /\ lastRead' = Head(input_reports)
  /\ Return(r, "data")
  /\ UNCHANGED arrived

Disconnected(r) ==
  /\ input_reports = <<>> /\ shutdown_thread
  /\ Return(r, "error")
  /\ UNCHANGED queueVars

Sleep(r, step) ==
  /\ input_reports = <<>> /\ ~shutdown_thread
  /\ reader' = [reader EXCEPT ![r] = step]
  /\ UNCHANGED <<queueVars, result>>

ReadBegin(r) ==
  /\ owner = "open" /\ reader[r] = "idle"
  /\ \/ TakeReport(r)
     \/ Disconnected(r)
     \/ Sleep(r, "blocking")                         \* milliseconds = -1
     \/ Sleep(r, "timed")                            \* milliseconds > 0
     \/ /\ input_reports = <<>> /\ ~shutdown_thread  \* otherwise
        /\ Return(r, "empty")
        /\ UNCHANGED queueVars
  /\ UNCHANGED <<owner, ioVars, transfer, transferFreed, environment,
                 shutdown_thread>>

\* pthread_cond_wait() and pthread_cond_timedwait() may return unprompted.
SpuriousWake(r) ==
  /\ r \in Asleep
  /\ reader' = [reader EXCEPT ![r] =
                  IF @ = "blocking" THEN "woken" ELSE "woken_timed"]
  /\ UNCHANGED <<owner, ioVars, transfer, transferFreed, environment,
                 shutdown_thread, queueVars, result>>

TimeOut(r) ==
  /\ reader[r] = "timed"
  /\ reader' = [reader EXCEPT ![r] = "timedout"]
  /\ UNCHANGED <<owner, ioVars, transfer, transferFreed, environment,
                 shutdown_thread, queueVars, result>>

\* A wait returned: the mutex is held again and the loop goes round.
ReadResume(r) ==
  /\ \/ /\ reader[r] = "woken"
        /\ TakeReport(r) \/ Disconnected(r) \/ Sleep(r, "blocking")
     \/ /\ reader[r] = "woken_timed"
        /\ TakeReport(r) \/ Disconnected(r) \/ Sleep(r, "timed")
     \/ /\ reader[r] = "timedout"
        /\ Return(r, "empty")
        /\ UNCHANGED queueVars
  /\ UNCHANGED <<owner, ioVars, transfer, transferFreed, environment,
                 shutdown_thread>>

-----------------------------------------------------------------------------
(* hid_close()                                                             *)

CloseBegin ==
  /\ owner = "open"
  /\ "close_during_read" \in faults \/ \A r \in Readers : reader[r] = "idle"
  /\ shutdown_thread' = TRUE
  /\ owner' = "cancel"
  /\ UNCHANGED <<ioVars, transfer, transferFreed, environment, queueVars,
                 readerVars>>

\* Mutant of CloseCancel: the transfer is not cancelled.
CloseWithoutCancel ==
  /\ owner = "cancel"
  /\ owner' = "join"
  /\ UNCHANGED <<ioVars, transfer, transferFreed, environment,
                 shutdown_thread, queueVars, readerVars>>

CloseCancel ==
  /\ owner = "cancel"
  /\ CancelTransfer
  /\ owner' = "join"
  /\ UNCHANGED <<ioVars, transferFreed, environment, shutdown_thread,
                 queueVars, readerVars>>

\* Mutant of CloseJoin: the read thread is not waited for.
CloseWithoutJoin ==
  /\ owner = "join"
  /\ transferFreed' = TRUE
  /\ owner' = "free"
  /\ UNCHANGED <<ioVars, transfer, environment, shutdown_thread,
                 queueVars, readerVars>>

CloseJoin ==
  /\ owner = "join" /\ io = "done"
  /\ transferFreed' = TRUE
  /\ owner' = "free"
  /\ UNCHANGED <<ioVars, transfer, environment, shutdown_thread,
                 queueVars, readerVars>>

CloseFree ==
  /\ owner = "free"
  /\ input_reports' = <<>>
  /\ owner' = "freed"
  /\ UNCHANGED <<ioVars, transfer, transferFreed, environment, shutdown_thread,
                 arrived, lastRead, readerVars>>

-----------------------------------------------------------------------------
ReadThread == StartTransfer \/ TestShutdown \/ CancelPending \/ Broadcast
Callback   == RunCallback("io") \/ RunCallback("other") \/ Enqueue \/ Resubmit
CloseSteps == CloseCancel \/ CloseJoin \/ CloseFree

Next ==
  \/ CompleteTransfer \/ Unplug \/ LoseDevice
  \/ Open \/ MeetAtBarrier
  \/ ReadThread \/ EventsReturn \/ EventsFail \/ Callback
  \/ CloseBegin \/ CloseSteps
  \/ \E r \in Readers :
       ReadBegin(r) \/ SpuriousWake(r) \/ TimeOut(r) \/ ReadResume(r)

Spec == Init /\ [][Next]_vars

\* The scheduler runs every thread, libusb reports what happened to a
\* transfer, and pthread_cond_timedwait() ends.  Nothing is assumed about
\* reports, and a client need not read, open or close.
Fairness ==
  /\ WF_vars(ReadThread) /\ WF_vars(Callback) /\ WF_vars(MeetAtBarrier)
  /\ WF_vars(LoseDevice) /\ WF_vars(CloseSteps)
  /\ \A r \in Readers : WF_vars(TimeOut(r)) /\ WF_vars(ReadResume(r))

FairSpec == Spec /\ Fairness

-----------------------------------------------------------------------------
(* Safety.                                                                 *)

\* The queue holds the newest reports, without a gap and in order of arrival,
\* whatever interleaving of the callback, the readers and the overflow.
QueueIsLatest ==
  \A i \in 1 .. Len(input_reports) :
    input_reports[i] = arrived - Len(input_reports) + i

\* The queue never outgrows the test of read_callback(), which looks at the
\* reports already queued behind the first: two more than the limit.
QueueBounded == Len(input_reports) <= QueueLimit + 2

\* Both: at any time the queue is the most recent part of what arrived.
QueueKeepsLatest == QueueIsLatest /\ QueueBounded

\* No reader sleeps beside a queued report, although read_callback() signals
\* only when it finds the queue empty.
NoLostWakeup == input_reports # <<>> => Asleep = {}

\* libusb runs this device's callback on its own read thread, handles events
\* without errors, and accepts the cancellation of read_thread().  hid_close()
\* relies on all three.
LibusbAsAssumed ==
  faults \cap {"event_errors", "cancel_refused", "shared_context"} = {}

\* hid_close() frees the transfer only when libusb is done with it and no
\* callback is running on it.
TransferFreedIdle ==
  LibusbAsAssumed /\ transferFreed => ~InFlight /\ cb = "none"

\* No thread uses the device structure after hid_close() has freed it, unless
\* the client closed the device during a read.
NoUseAfterFree ==
  owner = "freed" =>
    /\ io = "done"
    /\ LibusbAsAssumed => cb = "none"
    /\ "close_during_read" \notin faults =>
         \A r \in Readers : reader[r] = "idle"

\* hid_open_path() returns with the transfer in place, so that hid_close()
\* never cancels a transfer that read_thread() has yet to allocate.
OpenHasTransfer == owner \notin {"closed", "opening"} => transfer # "none"

(* Action properties.                                                      *)

\* The threads, the condition variable and the overflow of read_callback()
\* implement the queue that a client may count on.
Queue == INSTANCE ReportQueue WITH
  queue <- input_reports, Capacity <- QueueLimit + 2

ImplementsQueue == Queue!Spec

\* A report leaves the queue unread only to make room in a queue that exceeds
\* the limit, or when the device is closed.
UnreadDropsOnlyWhenFull ==
  [][ \A i \in 1 .. Len(input_reports) :
        LET rpt == input_reports[i] IN
        rpt \notin {input_reports'[j] : j \in 1 .. Len(input_reports')}
        => \/ lastRead' = rpt
           \/ Len(input_reports) > QueueLimit + 1
           \/ owner' = "freed" ]_vars

\* Reports reach the client in order of arrival, none twice.
ReadsInOrder == [][lastRead' # lastRead => lastRead' > lastRead]_vars

(* Liveness.                                                               *)

\* What happens to the transfer is reported, and to the read thread: it is
\* submitted when the device goes, and no other thread runs its callback.
\* Otherwise the read thread may sleep on in libusb_handle_events(), whose
\* time limit of a minute is not counted on here.
ThreadIsTold == faults \cap {"unplug_anytime", "shared_context"} = {}

\* hid_close() returns.
CloseReturns == ThreadIsTold /\ owner = "cancel" ~> owner = "freed"

\* Once the device is gone every read in progress ends, even a blocking one.
DisconnectEndsReads ==
  \A r \in Readers :
    /\ ThreadIsTold /\ "event_errors" \notin faults
    /\ ~plugged /\ reader[r] # "idle"
    ~> reader[r] = "idle"

\* When the device goes with a transfer in flight, and events are handled, the
\* state that every read tests is eventually set.
DisconnectNoticed ==
  /\ faults \cap {"unplug_anytime", "event_errors"} = {}
  /\ ~plugged /\ owner = "open"
  ~> shutdown_thread
=============================================================================
