-------------------------- MODULE HidLinuxProofs ---------------------------
(* Theorems about the Linux backend, for every queue limit (the code has   *)
(* 30), every number of readers and reports, and every set of faults.      *)
EXTENDS HidLinux, SequenceTheorems, TLAPS

-----------------------------------------------------------------------------
(* The inductive invariant.                                                *)

\* The reports handed out or dropped are older than those in the queue.
ReadBehind == lastRead + Len(input_reports) <= arrived

\* A callback has the transfer to itself, and one that brings a report has
\* room below the bound of the model.
CallbackOwnsTransfer ==
  /\ cb # "none" => transfer = "idle"
  /\ transfer = "completed" \/ cb = "enqueue" => arrived < MaxReports
  /\ cb # "none" /\ cbThread = "io" => io \in {"events", "drain"}

\* The steps of the opening thread and of the read thread before the barrier.
Startup ==
  /\ io \in {"none", "start"} <=> transfer = "none"
  /\ owner = "closed" <=> io = "none"
  /\ owner = "opening" <=> io \in {"start", "barrier"}

\* The read thread waits for its cancellation, and is done with the transfer
\* when it ends.
Shutdown ==
  LibusbAsAssumed =>
    /\ cb # "none" => cbThread = "io"
    /\ io = "drain" => transfer = "cancelled" /\ cb = "none"
    /\ io \in {"broadcast", "done"} => ~InFlight /\ cb = "none"

Closing ==
  /\ transferFreed => owner \in {"free", "freed"}
  /\ owner \in {"free", "freed"} => io = "done"

\* A client that closes only between reads leaves no reader inside.
ClosedBetweenReads ==
  "close_during_read" \notin faults /\ owner # "open" =>
    \A r \in Readers : reader[r] = "idle"

IInv ==
  /\ TypeOK
  /\ QueueIsLatest /\ QueueBounded /\ ReadBehind
  /\ CallbackOwnsTransfer /\ Startup /\ Shutdown /\ Closing
  /\ ClosedBetweenReads

-----------------------------------------------------------------------------
(* The queue of input reports.                                             *)

\* The invariants of the queue alone.
QueueInv ==
  /\ input_reports \in Seq(1 .. MaxReports)
  /\ arrived \in 0 .. MaxReports /\ lastRead \in 0 .. arrived
  /\ QueueIsLatest /\ QueueBounded /\ ReadBehind

\* What a step may do to the queue.
QueueStep ==
  \/ UNCHANGED queueVars
  \/ /\ arrived < MaxReports
     /\ arrived' = arrived + 1 /\ input_reports' = Queued
     /\ UNCHANGED lastRead
  \/ /\ input_reports # <<>>
     /\ input_reports' = Tail(input_reports)
     /\ lastRead' = Head(input_reports)
     /\ UNCHANGED arrived
  \/ /\ owner' = "freed"
     /\ input_reports' = <<>> /\ UNCHANGED <<arrived, lastRead>>

\* A queue of reports without its oldest one.
LEMMA TailOfReports ==
  ASSUME NEW s \in Seq(1 .. MaxReports), s # <<>>
  PROVE  /\ Tail(s) \in Seq(1 .. MaxReports)
         /\ Len(s) \in Nat \ {0} /\ Len(Tail(s)) = Len(s) - 1
         /\ Head(s) = s[1] /\ Head(s) \in 1 .. MaxReports
         /\ \A i \in 1 .. Len(Tail(s)) : Tail(s)[i] = s[i + 1]
<1>1. Len(s) \in Nat \ {0}
  BY EmptySeq
<1>2. Head(s) = s[1] /\ s[1] \in 1 .. MaxReports
  <2>1. 1 \in 1 .. Len(s)
    BY <1>1
  <2>2. s[1] \in 1 .. MaxReports
    BY <2>1, ElementOfSeq
  <2>3. Head(s) = s[1]
    OBVIOUS
  <2> QED
    BY <2>2, <2>3
<1>3. /\ Tail(s) \in Seq(1 .. MaxReports)
      /\ Len(Tail(s)) = Len(s) - 1
      /\ \A i \in 1 .. Len(Tail(s)) : Tail(s)[i] = s[i + 1]
  BY HeadTailProperties
<1> QED
  BY <1>1, <1>2, <1>3

\* A queue of reports with one more at the end.
LEMMA AppendReport ==
  ASSUME NEW s \in Seq(1 .. MaxReports), NEW e \in 1 .. MaxReports
  PROVE  /\ Append(s, e) \in Seq(1 .. MaxReports)
         /\ Len(s) \in Nat /\ Len(Append(s, e)) = Len(s) + 1
         /\ \A i \in 1 .. Len(s) : Append(s, e)[i] = s[i]
         /\ Append(s, e)[Len(s) + 1] = e
BY AppendProperties, LenProperties

\* Taking the first report keeps the newest ones.
LEMMA TailIsLatest ==
  ASSUME QueueInv, input_reports # <<>>
  PROVE  LET q == Tail(input_reports) IN
         /\ q \in Seq(1 .. MaxReports)
         /\ Len(q) \in Nat /\ Len(input_reports) \in Nat
         /\ Len(q) = Len(input_reports) - 1
         /\ \A i \in 1 .. Len(q) : q[i] = arrived - Len(q) + i
         /\ Head(input_reports) = arrived - Len(input_reports) + 1
<1> DEFINE q == Tail(input_reports)
<1>1. /\ q \in Seq(1 .. MaxReports)
      /\ Len(input_reports) \in Nat \ {0} /\ Len(q) = Len(input_reports) - 1
      /\ Head(input_reports) = input_reports[1]
      /\ \A i \in 1 .. Len(q) : q[i] = input_reports[i + 1]
  BY TailOfReports DEF QueueInv
<1>2. arrived \in Nat
  BY HidLinuxAssumption DEF QueueInv
<1>3. \A i \in 1 .. Len(input_reports) :
        input_reports[i] = arrived - Len(input_reports) + i
  BY DEF QueueInv, QueueIsLatest
<1>4. ASSUME NEW i \in 1 .. Len(q) PROVE q[i] = arrived - Len(q) + i
  <2>1. i + 1 \in 1 .. Len(input_reports)
    BY <1>1
  <2>2. q[i] = arrived - Len(input_reports) + (i + 1)
    BY <1>1, <1>3, <2>1
  <2> QED
    BY <1>1, <1>2, <2>2
<1>5. Head(input_reports) = arrived - Len(input_reports) + 1
  BY <1>1, <1>3
<1> QED
  BY <1>1, <1>4, <1>5

\* Each way to change the queue keeps what is known of it.
LEMMA QueueStepInv == ASSUME QueueInv, QueueStep PROVE QueueInv'
<1>1. /\ arrived \in Nat /\ MaxReports \in Nat /\ QueueLimit \in Nat
      /\ lastRead \in Nat /\ lastRead + Len(input_reports) <= arrived
      /\ input_reports \in Seq(1 .. MaxReports) /\ Len(input_reports) \in Nat
      /\ Len(input_reports) <= QueueLimit + 2
      /\ arrived <= MaxReports
  BY HidLinuxAssumption, LenProperties DEF QueueInv, ReadBehind, QueueBounded
<1>2. CASE UNCHANGED queueVars
  BY <1>2 DEF QueueInv, QueueIsLatest, QueueBounded, ReadBehind, queueVars
<1>3. CASE /\ arrived < MaxReports
           /\ arrived' = arrived + 1 /\ input_reports' = Queued
           /\ UNCHANGED lastRead
  <2> DEFINE kept == IF TooLong THEN Tail(input_reports) ELSE input_reports
  <2>1. TooLong => input_reports # <<>>
    BY <1>1 DEF TooLong
  <2>2. /\ kept \in Seq(1 .. MaxReports) /\ Len(kept) \in Nat
        /\ Len(kept) <= Len(input_reports) /\ Len(kept) <= QueueLimit + 1
        /\ \A i \in 1 .. Len(kept) : kept[i] = arrived - Len(kept) + i
    <3>1. CASE TooLong
      BY <1>1, <2>1, <3>1, TailIsLatest
    <3>2. CASE ~TooLong
      BY <1>1, <3>2 DEF TooLong, QueueInv, QueueIsLatest
    <3> QED
      BY <3>1, <3>2
  <2> HIDE DEF kept
  <2>3. input_reports' = Append(kept, arrived + 1)
    BY <1>3 DEF Queued, kept
  <2>4. /\ input_reports' \in Seq(1 .. MaxReports)
        /\ Len(input_reports') = Len(kept) + 1
        /\ \A i \in 1 .. Len(kept) : input_reports'[i] = kept[i]
        /\ input_reports'[Len(kept) + 1] = arrived + 1
    BY <1>1, <1>3, <2>2, <2>3, AppendReport
  <2>5. QueueIsLatest'
    <3> SUFFICES ASSUME NEW i \in 1 .. Len(input_reports')
                 PROVE  input_reports'[i] = arrived' - Len(input_reports') + i
      BY DEF QueueIsLatest
    <3>1. CASE i = Len(kept) + 1
      BY <1>1, <1>3, <2>2, <2>4, <3>1
    <3>2. CASE i # Len(kept) + 1
      <4>1. i \in 1 .. Len(kept)
        BY <2>2, <2>4, <3>2
      <4>2. input_reports'[i] = arrived - Len(kept) + i
        BY <2>2, <2>4, <4>1
      <4> QED
        BY <1>1, <1>3, <2>2, <2>4, <4>1, <4>2
    <3> QED
      BY <3>1, <3>2
  <2> QED
    BY <1>1, <1>3, <2>2, <2>4, <2>5 DEF QueueInv, QueueBounded, ReadBehind
<1>4. CASE /\ input_reports # <<>>
           /\ input_reports' = Tail(input_reports)
           /\ lastRead' = Head(input_reports)
           /\ UNCHANGED arrived
  <2>1. QueueIsLatest'
    BY <1>4, TailIsLatest DEF QueueIsLatest
  <2> QED
    BY <1>1, <1>4, <2>1, TailIsLatest DEF QueueInv, QueueBounded, ReadBehind
<1>5. CASE input_reports' = <<>> /\ UNCHANGED <<arrived, lastRead>>
  <2>1. input_reports' \in Seq(1 .. MaxReports) /\ Len(input_reports') = 0
    BY <1>5, EmptySeq
  <2> QED
    BY <1>1, <1>5, <2>1 DEF QueueInv, QueueIsLatest, QueueBounded, ReadBehind
<1> QED
  BY <1>2, <1>3, <1>4, <1>5 DEF QueueStep

\* Every step of the backend is one of those, or leaves the queue alone.
LEMMA NextQueueStep ==
  ASSUME CallbackOwnsTransfer, [Next]_vars
  PROVE  QueueStep
<1> USE DEF QueueStep, queueVars
<1>1. CASE Enqueue
  BY <1>1 DEF Enqueue, CallbackOwnsTransfer
<1>2. CASE \E r \in Readers : ReadBegin(r) \/ ReadResume(r)
  BY <1>2 DEF ReadBegin, ReadResume, TakeReport, Disconnected, Sleep
<1>3. CASE CloseFree
  BY <1>3 DEF CloseFree
<1>4. CASE CompleteTransfer \/ Unplug \/ LoseDevice \/ Open \/ MeetAtBarrier
           \/ CloseBegin \/ CloseCancel \/ CloseJoin
  BY <1>4 DEF CompleteTransfer, Unplug, LoseDevice, Open, MeetAtBarrier,
              CloseBegin, CloseCancel, CloseJoin
<1>5. CASE ReadThread \/ EventsReturn \/ EventsFail
  BY <1>5 DEF ReadThread, StartTransfer, TestShutdown, CancelPending,
              Broadcast, EventsReturn, EventsFail
<1>6. CASE RunCallback("io") \/ RunCallback("other") \/ Resubmit
  BY <1>6 DEF RunCallback, Resubmit
<1>7. CASE \E r \in Readers : SpuriousWake(r) \/ TimeOut(r)
  BY <1>7 DEF SpuriousWake, TimeOut
<1>8. CASE UNCHANGED vars
  BY <1>8 DEF vars
<1> QED
  BY <1>1, <1>2, <1>3, <1>4, <1>5, <1>6, <1>7, <1>8
     DEF Next, Callback, CloseSteps

-----------------------------------------------------------------------------
(* The threads and the transfer.                                           *)

\* The types of what is not in the queue.
ControlTypes ==
  /\ faults \in FaultSets
  /\ owner \in OwnerSteps /\ io \in IoSteps
  /\ cb \in {"none", "enqueue", "resubmit"} /\ cbThread \in {"io", "other"}
  /\ transfer \in {"none", "idle", "submitted"} \cup Finished
  /\ transferFreed \in BOOLEAN /\ plugged \in BOOLEAN
  /\ shutdown_thread \in BOOLEAN
  /\ reader \in [Readers -> ReaderSteps]
  /\ result \in [Readers -> {"none", "data", "empty", "error"}]

ControlInv ==
  /\ ControlTypes
  /\ CallbackOwnsTransfer /\ Startup /\ Shutdown /\ Closing
  /\ ClosedBetweenReads

\* The invariant of the queue and that of the threads make up IInv.
LEMMA IInvParts == IInv <=> QueueInv /\ ControlInv
BY DEF IInv, TypeOK, QueueInv, ControlInv, ControlTypes

\* libusb and the device.
LEMMA EnvironmentInv ==
  ASSUME ControlInv, CompleteTransfer \/ Unplug \/ LoseDevice
  PROVE  ControlInv'
<1> USE DEF ControlInv, ControlTypes, CallbackOwnsTransfer, Startup, Shutdown,
            Closing, ClosedBetweenReads, LibusbAsAssumed, InFlight, Finished,
            environment, ioVars, queueVars, readerVars
<1>1. CASE CompleteTransfer
  BY <1>1 DEF CompleteTransfer
<1>2. CASE Unplug
  BY <1>2 DEF Unplug
<1>3. CASE LoseDevice
  BY <1>3 DEF LoseDevice
<1> QED
  BY <1>1, <1>2, <1>3

\* hid_open_path() and read_thread() up to the barrier.
LEMMA StartupInv ==
  ASSUME ControlInv, Open \/ MeetAtBarrier \/ StartTransfer
  PROVE  ControlInv'
<1> USE DEF ControlInv, ControlTypes, CallbackOwnsTransfer, Startup, Shutdown,
            Closing, ClosedBetweenReads, LibusbAsAssumed, InFlight, Finished,
            OwnerSteps, IoSteps, environment, ioVars, queueVars, readerVars
<1>1. CASE Open
  BY <1>1 DEF Open
<1>2. CASE MeetAtBarrier
  BY <1>2 DEF MeetAtBarrier
<1>3. CASE StartTransfer
  BY <1>3 DEF StartTransfer, SubmitTransfer
<1> QED
  BY <1>1, <1>2, <1>3

\* read_thread() behind the barrier.
LEMMA ReadThreadInv ==
  ASSUME ControlInv,
         TestShutdown \/ EventsReturn \/ EventsFail \/ CancelPending
  PROVE  ControlInv'
<1> USE DEF ControlInv, ControlTypes, CallbackOwnsTransfer, Startup, Shutdown,
            Closing, ClosedBetweenReads, LibusbAsAssumed, InFlight, Finished,
            IoSteps, NoOwnCallback, environment, ioVars, queueVars, readerVars
<1>1. CASE TestShutdown
  BY <1>1 DEF TestShutdown
<1>2. CASE EventsReturn
  BY <1>2 DEF EventsReturn
<1>3. CASE EventsFail
  BY <1>3 DEF EventsFail
<1>4. CASE CancelPending
  BY <1>4 DEF CancelPending, CancelSucceeds, CancelTransfer
<1> QED
  BY <1>1, <1>2, <1>3, <1>4

\* read_callback()
LEMMA CallbackInv ==
  ASSUME ControlInv, RunCallback("io") \/ RunCallback("other") \/ Resubmit
  PROVE  ControlInv'
<1> USE DEF ControlInv, ControlTypes, CallbackOwnsTransfer, Startup, Shutdown,
            Closing, ClosedBetweenReads, LibusbAsAssumed, InFlight, Finished,
            IoSteps, environment, ioVars, queueVars, readerVars
<1>1. CASE RunCallback("io")
  BY <1>1 DEF RunCallback, CallbackReturns, StopsReading
<1>2. CASE RunCallback("other")
  BY <1>2 DEF RunCallback, CallbackReturns, StopsReading
<1>3. CASE Resubmit
  BY <1>3 DEF Resubmit, SubmitTransfer, CallbackReturns
<1> QED
  BY <1>1, <1>2, <1>3

\* hid_close()
LEMMA CloseInv ==
  ASSUME ControlInv, CloseBegin \/ CloseCancel \/ CloseJoin \/ CloseFree
  PROVE  ControlInv'
<1> USE DEF ControlInv, ControlTypes, CallbackOwnsTransfer, Startup, Shutdown,
            Closing, ClosedBetweenReads, LibusbAsAssumed, InFlight, Finished,
            OwnerSteps, environment, ioVars, queueVars, readerVars
<1>1. CASE CloseBegin
  BY <1>1 DEF CloseBegin
<1>2. CASE CloseCancel
  BY <1>2 DEF CloseCancel, CancelTransfer
<1>3. CASE CloseJoin
  BY <1>3 DEF CloseJoin
<1>4. CASE CloseFree
  BY <1>4 DEF CloseFree
<1> QED
  BY <1>1, <1>2, <1>3, <1>4

\* Steps that change the readers wake sleepers only, or follow a reader that
\* is inside while the device is open.
LEMMA ReaderInv ==
  ASSUME ControlInv,
         \E r \in Readers :
           ReadBegin(r) \/ SpuriousWake(r) \/ TimeOut(r) \/ ReadResume(r)
  PROVE  ControlInv'
<1>1. PICK r \in Readers :
        ReadBegin(r) \/ SpuriousWake(r) \/ TimeOut(r) \/ ReadResume(r)
  OBVIOUS
<1>2. /\ UNCHANGED <<owner, ioVars, transfer, transferFreed, environment,
                     shutdown_thread, arrived>>
      /\ owner = "open" \/ reader[r] # "idle"
  BY <1>1 DEF ReadBegin, SpuriousWake, TimeOut, ReadResume, TakeReport,
              Disconnected, Sleep, Asleep, queueVars
<1>3. /\ reader' \in [Readers -> ReaderSteps]
      /\ result' \in [Readers -> {"none", "data", "empty", "error"}]
  <2> USE DEF ControlInv, ControlTypes, ReaderSteps
  <2>1. CASE ReadBegin(r)
    BY <2>1 DEF ReadBegin, TakeReport, Disconnected, Sleep, Return
  <2>2. CASE SpuriousWake(r)
    BY <2>2 DEF SpuriousWake
  <2>3. CASE TimeOut(r)
    BY <2>3 DEF TimeOut
  <2>4. CASE ReadResume(r)
    BY <2>4 DEF ReadResume, TakeReport, Disconnected, Sleep, Return
  <2> QED
    BY <1>1, <2>1, <2>2, <2>3, <2>4
<1>4. ClosedBetweenReads'
  BY <1>2 DEF ControlInv, ClosedBetweenReads, environment
<1> QED
  BY <1>2, <1>3, <1>4
     DEF ControlInv, ControlTypes, CallbackOwnsTransfer, Startup, Shutdown,
         Closing, LibusbAsAssumed, InFlight, environment, ioVars

\* Whoever is inside stays inside when it is woken.
LEMMA WakingInv ==
  ASSUME ControlInv, Broadcast \/ Enqueue
  PROVE  ControlInv'
<1> USE DEF ControlInv, ControlTypes
<1>1. /\ reader' \in [Readers -> ReaderSteps]
      /\ \A r \in Readers : reader[r] = "idle" => reader'[r] = "idle"
  <2>1. CASE Broadcast
    BY <2>1 DEF Broadcast, WakeAll, ReaderSteps
  <2>2. CASE Enqueue
    BY <2>2 DEF Enqueue, Signal, Asleep, ReaderSteps
  <2> QED
    BY <2>1, <2>2
<1>2. CASE Broadcast
  BY <1>1, <1>2
     DEF Broadcast, CallbackOwnsTransfer, Startup, Shutdown, Closing,
         ClosedBetweenReads, LibusbAsAssumed, InFlight, IoSteps, environment,
         queueVars
<1>3. CASE Enqueue
  BY <1>1, <1>3
     DEF Enqueue, CallbackOwnsTransfer, Startup, Shutdown, Closing,
         ClosedBetweenReads, LibusbAsAssumed, InFlight, environment
<1> QED
  BY <1>2, <1>3

\* A device that hid_open_path() has just allocated satisfies both.
LEMMA InitIInv == Init => IInv
<1> SUFFICES ASSUME Init PROVE QueueInv /\ ControlInv
  BY IInvParts
<1> USE HidLinuxAssumption DEF Init
<1>1. QueueInv
  BY EmptySeq DEF QueueInv, QueueIsLatest, QueueBounded, ReadBehind
<1>2. ControlInv
  BY DEF ControlInv, ControlTypes, CallbackOwnsTransfer, Startup, Shutdown,
         Closing, ClosedBetweenReads, InFlight, Finished, OwnerSteps, IoSteps,
         ReaderSteps
<1> QED
  BY <1>1, <1>2

\* Every step keeps both.
LEMMA NextIInv == IInv /\ [Next]_vars => IInv'
<1> SUFFICES ASSUME QueueInv, ControlInv, [Next]_vars
             PROVE  QueueInv' /\ ControlInv'
  BY DEF IInv, TypeOK, QueueInv, ControlInv, ControlTypes
<1>1. QueueInv'
  BY NextQueueStep, QueueStepInv DEF ControlInv
<1>2. ControlInv'
  <2>1. CASE CompleteTransfer \/ Unplug \/ LoseDevice
    BY <2>1, EnvironmentInv
  <2>2. CASE Open \/ MeetAtBarrier \/ StartTransfer
    BY <2>2, StartupInv
  <2>3. CASE TestShutdown \/ EventsReturn \/ EventsFail \/ CancelPending
    BY <2>3, ReadThreadInv
  <2>4. CASE RunCallback("io") \/ RunCallback("other") \/ Resubmit
    BY <2>4, CallbackInv
  <2>5. CASE Broadcast \/ Enqueue
    BY <2>5, WakingInv
  <2>6. CASE CloseBegin \/ CloseCancel \/ CloseJoin \/ CloseFree
    BY <2>6, CloseInv
  <2>7. CASE \E r \in Readers :
               ReadBegin(r) \/ SpuriousWake(r) \/ TimeOut(r) \/ ReadResume(r)
    BY <2>7, ReaderInv
  <2>8. CASE UNCHANGED vars
    BY <2>8 DEF vars, environment, ioVars, queueVars, readerVars, ControlInv,
                ControlTypes, CallbackOwnsTransfer, Startup, Shutdown, Closing,
                ClosedBetweenReads, LibusbAsAssumed, InFlight
  <2> QED
    BY <2>1, <2>2, <2>3, <2>4, <2>5, <2>6, <2>7, <2>8
       DEF Next, ReadThread, Callback, CloseSteps
<1> QED
  BY <1>1, <1>2

-----------------------------------------------------------------------------
(* The theorems.                                                           *)

\* The inductive invariant holds in every reachable state of the backend:
\* hid_open_path(), read_thread(), read_callback(), hid_read_timeout() and
\* hid_close() in every interleaving.
THEOREM Invariance == Spec => []IInv
<1>1. QED
  BY InitIInv, NextIInv, PTL DEF Spec

\* Every variable of the backend keeps its type.
THEOREM TypeCorrect == Spec => []TypeOK
<1>1. IInv => TypeOK
  BY DEF IInv
<1> QED
  BY <1>1, Invariance, PTL

\* The queue of read_callback() holds the most recent reports, in order and
\* without a gap, and never more than two above its limit, 32 in the code.
THEOREM QueueKeepsLatestHolds == Spec => []QueueKeepsLatest
<1>1. IInv => QueueKeepsLatest
  BY DEF IInv, QueueKeepsLatest
<1> QED
  BY <1>1, Invariance, PTL

\* hid_close() frees the transfer only when libusb is done with it, under the
\* assumptions hid_close() makes of libusb.
THEOREM TransferFreedIdleHolds == Spec => []TransferFreedIdle
<1>1. IInv => TransferFreedIdle
  BY DEF IInv, Closing, Shutdown, TransferFreedIdle
<1> QED
  BY <1>1, Invariance, PTL

\* hid_close() frees the device only when no thread is inside it any more.
THEOREM NoUseAfterFreeHolds == Spec => []NoUseAfterFree
<1>1. IInv => NoUseAfterFree
  BY DEF IInv, Closing, Shutdown, ClosedBetweenReads, NoUseAfterFree
<1> QED
  BY <1>1, Invariance, PTL

\* The barrier of hid_open_path() is enough: whoever has the device open finds
\* the transfer that read_thread() allocates.
THEOREM OpenHasTransferHolds == Spec => []OpenHasTransfer
<1>1. IInv => OpenHasTransfer
  BY DEF IInv, Startup, OpenHasTransfer
<1> QED
  BY <1>1, Invariance, PTL

\* hid_read_timeout() returns reports in order of arrival, none twice.
THEOREM ReadsInOrderHolds == Spec => ReadsInOrder
<1>1. ASSUME IInv, [Next]_vars
      PROVE  lastRead' # lastRead => lastRead' > lastRead
  <2>1. QueueInv /\ QueueStep
    BY <1>1, IInvParts, NextQueueStep DEF ControlInv
  <2>2. lastRead \in Nat /\ arrived \in Nat
        /\ lastRead + Len(input_reports) <= arrived
    BY <2>1, HidLinuxAssumption DEF QueueInv, ReadBehind
  <2>3. ASSUME input_reports # <<>>
        PROVE  /\ Head(input_reports) = arrived - Len(input_reports) + 1
               /\ Len(input_reports) \in Nat
    BY <2>1, <2>3, TailIsLatest
  <2> QED
    BY <2>1, <2>2, <2>3 DEF QueueStep, queueVars
<1> QED
  BY <1>1, Invariance, PTL DEF Spec, ReadsInOrder

\* A report leaves the queue unread only when read_callback() makes room for a
\* newer one in a full queue, or hid_close() empties it.
THEOREM UnreadDropsHolds == Spec => UnreadDropsOnlyWhenFull
<1> DEFINE Drop(rpt) ==
             /\ rpt \notin {input_reports'[j] : j \in 1 .. Len(input_reports')}
             /\ lastRead' # rpt
             /\ ~(Len(input_reports) > QueueLimit + 1)
             /\ owner' # "freed"
<1>1. ASSUME IInv, [Next]_vars, NEW i \in 1 .. Len(input_reports),
             Drop(input_reports[i])
      PROVE  FALSE
  <2>1. QueueInv /\ QueueStep
    BY <1>1, IInvParts, NextQueueStep DEF ControlInv
  <2>2. /\ input_reports \in Seq(1 .. MaxReports) /\ Len(input_reports) \in Nat
        /\ QueueLimit \in Nat /\ arrived \in 0 .. MaxReports /\ i \in Nat
    BY <2>1, HidLinuxAssumption, LenProperties DEF QueueInv
  <2>3. \A j \in 1 .. Len(input_reports') :
          input_reports'[j] # input_reports[i]
    BY <1>1
  <2>4. CASE UNCHANGED queueVars
    BY <2>3, <2>4 DEF queueVars
  <2>5. CASE arrived < MaxReports /\ input_reports' = Queued
    <3>1. ~TooLong
      BY <1>1, <2>2 DEF TooLong
    <3>2. input_reports' = Append(input_reports, arrived + 1)
      BY <2>5, <3>1 DEF Queued
    <3>3. /\ Len(input_reports') = Len(input_reports) + 1
          /\ input_reports'[i] = input_reports[i]
      BY <2>2, <2>5, <3>2, AppendReport
    <3> QED
      BY <2>2, <2>3, <3>3
  <2>6. CASE /\ input_reports # <<>>
             /\ input_reports' = Tail(input_reports)
             /\ lastRead' = Head(input_reports)
    <3>1. /\ Head(input_reports) = input_reports[1]
          /\ Len(input_reports') = Len(input_reports) - 1
          /\ \A j \in 1 .. Len(input_reports') :
               input_reports'[j] = input_reports[j + 1]
      BY <2>2, <2>6, TailOfReports
    <3>2. CASE i = 1
      BY <1>1, <2>6, <3>1, <3>2
    <3>3. CASE i # 1
      <4>1. i - 1 \in 1 .. Len(input_reports')
        BY <2>2, <3>1, <3>3
      <4>2. input_reports'[i - 1] = input_reports[i]
        BY <2>2, <3>1, <4>1
      <4> QED
        BY <2>3, <4>1, <4>2
    <3> QED
      BY <3>2, <3>3
  <2> QED
    BY <1>1, <2>1, <2>4, <2>5, <2>6 DEF QueueStep
<1>2. IInv /\ [Next]_vars =>
        [\A i \in 1 .. Len(input_reports) :
           LET rpt == input_reports[i] IN
           rpt \notin {input_reports'[j] : j \in 1 .. Len(input_reports')}
           => \/ lastRead' = rpt
              \/ Len(input_reports) > QueueLimit + 1
              \/ owner' = "freed"]_vars
  BY <1>1
<1> QED
  BY <1>2, Invariance, PTL DEF Spec, UnreadDropsOnlyWhenFull

\* The read thread, its callback, the readers and hid_close() implement the
\* bounded queue of ReportQueue, in every interleaving and under every fault:
\* each step is a step of that queue or leaves it alone.
THEOREM ImplementsQueueHolds == Spec => ImplementsQueue
<1>1. Init => Queue!Init
  BY DEF Init, Queue!Init
<1>2. ASSUME IInv, [Next]_vars
      PROVE  [Queue!Next]_<<input_reports, arrived, lastRead>>
  <2>1. QueueInv /\ QueueStep
    BY <1>2, IInvParts, NextQueueStep DEF ControlInv
  <2>2. CASE UNCHANGED queueVars
    BY <2>2 DEF queueVars
  <2>3. CASE /\ arrived' = arrived + 1 /\ input_reports' = Queued
             /\ UNCHANGED lastRead
    <3>1. /\ Len(input_reports) \in Nat /\ QueueLimit \in Nat
          /\ Len(input_reports) <= QueueLimit + 2
      BY <2>1, HidLinuxAssumption, LenProperties DEF QueueInv, QueueBounded
    <3>2. IF TooLong THEN Len(input_reports) = QueueLimit + 2
                     ELSE Len(input_reports) < QueueLimit + 2
      BY <3>1 DEF TooLong
    <3>3. Queue!Arrive
      BY <2>3, <3>2 DEF Queued, Queue!Arrive
    <3> QED
      BY <3>3 DEF Queue!Next
  <2>4. CASE /\ input_reports # <<>>
             /\ input_reports' = Tail(input_reports)
             /\ lastRead' = Head(input_reports)
             /\ UNCHANGED arrived
    BY <2>4 DEF Queue!Next, Queue!Take
  <2>5. CASE input_reports' = <<>> /\ UNCHANGED <<arrived, lastRead>>
    BY <2>5 DEF Queue!Next, Queue!Discard
  <2> QED
    BY <2>1, <2>2, <2>3, <2>4, <2>5 DEF QueueStep
<1> QED
  BY <1>1, <1>2, Invariance, PTL DEF Spec, ImplementsQueue, Queue!Spec

\* With a single reading thread pthread_cond_signal() on an empty queue is
\* enough: a reader never sleeps beside a queued report.
THEOREM NoLostWakeupHolds ==
  ASSUME NEW only, Readers = {only}
  PROVE  Spec => []NoLostWakeup
<1>1. Init => NoLostWakeup
  BY DEF Init, NoLostWakeup
<1>2. ASSUME IInv, NoLostWakeup, [Next]_vars
      PROVE  NoLostWakeup'
  <2>1. reader \in [Readers -> ReaderSteps]
    BY <1>2 DEF IInv, TypeOK
  <2> USE <1>2 DEF NoLostWakeup, Asleep
  <2>2. CASE Enqueue
    <3>1. CASE input_reports = <<>>
      BY <2>1, <2>2, <3>1 DEF Enqueue, Signal
    <3>2. CASE input_reports # <<>>
      BY <2>2, <3>2 DEF Enqueue
    <3> QED
      BY <3>1, <3>2
  <2>3. CASE \E r \in Readers : ReadBegin(r) \/ ReadResume(r)
    BY <2>1, <2>3
       DEF ReadBegin, ReadResume, TakeReport, Disconnected, Sleep, Return,
           queueVars
  <2>4. CASE Broadcast
    BY <2>1, <2>4 DEF Broadcast, WakeAll, queueVars
  <2>5. CASE \E r \in Readers : SpuriousWake(r) \/ TimeOut(r)
    BY <2>1, <2>5 DEF SpuriousWake, TimeOut, queueVars
  <2>6. CASE CloseFree
    BY <2>6 DEF CloseFree
  <2>7. CASE UNCHANGED <<input_reports, reader>>
    BY <2>7
  <2>8. UNCHANGED <<input_reports, reader>>
        \/ Enqueue \/ Broadcast \/ CloseFree
        \/ \E r \in Readers : ReadBegin(r) \/ ReadResume(r)
                              \/ SpuriousWake(r) \/ TimeOut(r)
    BY DEF Next, ReadThread, Callback, CloseSteps, CompleteTransfer, Unplug,
           LoseDevice, Open, MeetAtBarrier, StartTransfer, TestShutdown,
           CancelPending, EventsReturn, EventsFail, RunCallback, Resubmit,
           CloseBegin, CloseCancel, CloseJoin, vars, queueVars, readerVars
  <2> QED
    BY <2>2, <2>3, <2>4, <2>5, <2>6, <2>7, <2>8
<1> QED
  BY <1>1, <1>2, Invariance, PTL DEF Spec
=============================================================================
