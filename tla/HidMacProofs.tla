---------------------------- MODULE HidMacProofs ---------------------------
(* Theorems about the Mac backend, for every queue limit (the code has     *)
(* 30), every number of readers and reports, and every set of faults.      *)
EXTENDS HidMac, SequenceTheorems, FiniteSetTheorems, TLAPS

-----------------------------------------------------------------------------
(* The inductive invariant.                                                *)

\* The queue holds the newest reports, in order and without a gap.
QueueIsLatest ==
  \A i \in 1 .. Len(input_reports) :
    input_reports[i] = arrived - Len(input_reports) + i

QueueBounded == Len(input_reports) <= QueueLimit + 2
ReadBehind == lastRead + Len(input_reports) <= arrived

\* How far the two threads are with each barrier, whether or not its wait is
\* interrupted.
OwnerMet == owner \notin {"closed", "opening"}
IoMet == io \notin {"none", "start", "arrive"}
OwnerParted == owner \in {"parting", "join", "os_close", "free", "freed"}
IoParted == io \in {"parting", "done"}

\* A barrier counts one while one of the two has arrived, who waits for the
\* other; without interruptions they go on together.
Meeting ==
  /\ barrier = 1 <=> OwnerMet # IoMet
  /\ owner = "meeting" => ~IoMet
  /\ io = "meeting" => ~OwnerMet
  /\ io = "none" <=> owner = "closed"
  /\ BarriersHold =>
       (owner \in {"closed", "opening", "meeting"}
        <=> io \in {"none", "start", "arrive", "meeting"})

Parting ==
  /\ shutdown_barrier = 1 <=> OwnerParted # IoParted
  /\ owner = "parting" => ~IoParted
  /\ io = "parting" => ~OwnerParted
  /\ owner \in {"os_close", "free", "freed"} => io = "done"
  /\ BarriersHold =>
       (owner \in {"join", "os_close", "free", "freed"} <=> io = "done")

\* The run loop is set before anyone needs it.
RunLoopSet ==
  /\ run_loop <=> io \notin {"none", "start"}
  /\ BarriersHold /\ disconnected /\ "off_main" \notin faults => run_loop

\* Until hid_close() begins, the read thread ends only on a device that is
\* known to be gone.
NotYetClosing == owner \in {"closed", "opening", "meeting", "open"}
Ending ==
  /\ stopped => disconnected
  /\ NotYetClosing =>
       /\ ~signalled
       /\ shutdown_thread => disconnected
       /\ io \in {"broadcast", "handle", "os_close", "leave", "parting",
                  "done"} => disconnected

\* A client that closes between reads has no thread inside then.
ClosedBetweenReads ==
  "close_during_read" \notin faults /\ owner # "open"
  => \A r \in Readers : reader[r] = "idle"

IInv ==
  /\ TypeOK
  /\ QueueIsLatest /\ QueueBounded /\ ReadBehind
  /\ Meeting /\ Parting /\ RunLoopSet /\ Ending /\ NoCloseWhenGone
  /\ ClosedBetweenReads /\ NoLostWakeup

-----------------------------------------------------------------------------
(* The queue of input reports.                                             *)

\* The invariants of the queue alone.
QueueInv ==
  /\ input_reports \in Seq(1 .. MaxReports)
  /\ arrived \in 0 .. MaxReports /\ lastRead \in 0 .. arrived
  /\ QueueIsLatest /\ QueueBounded /\ ReadBehind

\* What a step may do to the queue.
QueueStep ==
  \/ UNCHANGED queue
  \/ /\ arrived < MaxReports
     /\ arrived' = arrived + 1 /\ input_reports' = Queued
     /\ UNCHANGED lastRead
  \/ /\ input_reports # <<>>
     /\ input_reports' = Tail(input_reports)
     /\ lastRead' = Head(input_reports)
     /\ UNCHANGED arrived
  \/ /\ input_reports' = <<>> /\ UNCHANGED <<arrived, lastRead>>

\* Taking the first report of a sequence.
LEMMA TailOfReports ==
  ASSUME NEW s \in Seq(1 .. MaxReports), s # <<>>
  PROVE  /\ Tail(s) \in Seq(1 .. MaxReports)
         /\ Len(s) \in Nat \ {0} /\ Len(Tail(s)) = Len(s) - 1
         /\ Head(s) = s[1] /\ Head(s) \in 1 .. MaxReports
         /\ \A i \in 1 .. Len(Tail(s)) : Tail(s)[i] = s[i + 1]
<1>1. Len(s) \in Nat \ {0}
  BY EmptySeq
<1>2. Head(s) = s[1] /\ s[1] \in 1 .. MaxReports
  <2>1. 1 \in 1 .. Len(s)
    BY <1>1
  <2>2. s[1] \in 1 .. MaxReports
    BY <2>1, ElementOfSeq
  <2>3. Head(s) = s[1]
    OBVIOUS
  <2> QED
    BY <2>2, <2>3
<1>3. /\ Tail(s) \in Seq(1 .. MaxReports)
      /\ Len(Tail(s)) = Len(s) - 1
      /\ \A i \in 1 .. Len(Tail(s)) : Tail(s)[i] = s[i + 1]
  BY HeadTailProperties
<1> QED
  BY <1>1, <1>2, <1>3

\* Adding a report at the end of a sequence.
LEMMA AppendReport ==
  ASSUME NEW s \in Seq(1 .. MaxReports), NEW e \in 1 .. MaxReports
  PROVE  /\ Append(s, e) \in Seq(1 .. MaxReports)
         /\ Len(s) \in Nat /\ Len(Append(s, e)) = Len(s) + 1
         /\ \A i \in 1 .. Len(s) : Append(s, e)[i] = s[i]
         /\ Append(s, e)[Len(s) + 1] = e
BY AppendProperties, LenProperties

\* Taking the first report keeps the newest ones.
LEMMA TailIsLatest ==
  ASSUME QueueInv, input_reports # <<>>
  PROVE  LET q == Tail(input_reports) IN
         /\ q \in Seq(1 .. MaxReports)
         /\ Len(q) \in Nat /\ Len(input_reports) \in Nat
         /\ Len(q) = Len(input_reports) - 1
         /\ \A i \in 1 .. Len(q) : q[i] = arrived - Len(q) + i
         /\ Head(input_reports) = arrived - Len(input_reports) + 1
<1> DEFINE q == Tail(input_reports)
<1>1. /\ q \in Seq(1 .. MaxReports)
      /\ Len(input_reports) \in Nat \ {0} /\ Len(q) = Len(input_reports) - 1
      /\ Head(input_reports) = input_reports[1]
      /\ \A i \in 1 .. Len(q) : q[i] = input_reports[i + 1]
  BY TailOfReports DEF QueueInv
<1>2. arrived \in Nat
  BY HidMacAssumption DEF QueueInv
<1>3. \A i \in 1 .. Len(input_reports) :
        input_reports[i] = arrived - Len(input_reports) + i
  BY DEF QueueInv, QueueIsLatest
<1>4. ASSUME NEW i \in 1 .. Len(q) PROVE q[i] = arrived - Len(q) + i
  <2>1. i + 1 \in 1 .. Len(input_reports)
    BY <1>1
  <2>2. q[i] = arrived - Len(input_reports) + (i + 1)
    BY <1>1, <1>3, <2>1
  <2> QED
    BY <1>1, <1>2, <2>2
<1>5. Head(input_reports) = arrived - Len(input_reports) + 1
  BY <1>1, <1>3
<1> QED
  BY <1>1, <1>4, <1>5

\* Every such step leaves the newest reports in the queue.
LEMMA QueueStepInv == ASSUME QueueInv, QueueStep PROVE QueueInv'
<1>1. /\ arrived \in Nat /\ MaxReports \in Nat /\ QueueLimit \in Nat
      /\ lastRead \in Nat /\ lastRead + Len(input_reports) <= arrived
      /\ input_reports \in Seq(1 .. MaxReports) /\ Len(input_reports) \in Nat
      /\ Len(input_reports) <= QueueLimit + 2
      /\ arrived <= MaxReports
  BY HidMacAssumption, LenProperties DEF QueueInv, ReadBehind, QueueBounded
<1>2. CASE UNCHANGED queue
  BY <1>2 DEF QueueInv, QueueIsLatest, QueueBounded, ReadBehind, queue
<1>3. CASE /\ arrived < MaxReports
           /\ arrived' = arrived + 1 /\ input_reports' = Queued
           /\ UNCHANGED lastRead
  <2> DEFINE kept == IF TooLong THEN Tail(input_reports) ELSE input_reports
  <2>1. TooLong => input_reports # <<>>
    BY <1>1 DEF TooLong
  <2>2. /\ kept \in Seq(1 .. MaxReports) /\ Len(kept) \in Nat
        /\ Len(kept) <= Len(input_reports) /\ Len(kept) <= QueueLimit + 1
        /\ \A i \in 1 .. Len(kept) : kept[i] = arrived - Len(kept) + i
    <3>1. CASE TooLong
      BY <1>1, <2>1, <3>1, TailIsLatest
    <3>2. CASE ~TooLong
      BY <1>1, <3>2 DEF TooLong, QueueInv, QueueIsLatest
    <3> QED
      BY <3>1, <3>2
  <2> HIDE DEF kept
  <2>3. input_reports' = Append(kept, arrived + 1)
    BY <1>3 DEF Queued, kept
  <2>4. /\ input_reports' \in Seq(1 .. MaxReports)
        /\ Len(input_reports') = Len(kept) + 1
        /\ \A i \in 1 .. Len(kept) : input_reports'[i] = kept[i]
        /\ input_reports'[Len(kept) + 1] = arrived + 1
    BY <1>1, <1>3, <2>2, <2>3, AppendReport
  <2>5. QueueIsLatest'
    <3> SUFFICES ASSUME NEW i \in 1 .. Len(input_reports')
                 PROVE  input_reports'[i] = arrived' - Len(input_reports') + i
      BY DEF QueueIsLatest
    <3>1. CASE i = Len(kept) + 1
      BY <1>1, <1>3, <2>2, <2>4, <3>1
    <3>2. CASE i # Len(kept) + 1
      <4>1. i \in 1 .. Len(kept)
        BY <2>2, <2>4, <3>2
      <4>2. input_reports'[i] = arrived - Len(kept) + i
        BY <2>2, <2>4, <4>1
      <4> QED
        BY <1>1, <1>3, <2>2, <2>4, <4>1, <4>2
    <3> QED
      BY <3>1, <3>2
  <2> QED
    BY <1>1, <1>3, <2>2, <2>4, <2>5 DEF QueueInv, QueueBounded, ReadBehind
<1>4. CASE /\ input_reports # <<>>
           /\ input_reports' = Tail(input_reports)
           /\ lastRead' = Head(input_reports)
           /\ UNCHANGED arrived
  <2>1. QueueIsLatest'
    BY <1>4, TailIsLatest DEF QueueIsLatest
  <2> QED
    BY <1>1, <1>4, <2>1, TailIsLatest DEF QueueInv, QueueBounded, ReadBehind
<1>5. CASE input_reports' = <<>> /\ UNCHANGED <<arrived, lastRead>>
  <2>1. input_reports' \in Seq(1 .. MaxReports) /\ Len(input_reports') = 0
    BY <1>5, EmptySeq
  <2> QED
    BY <1>1, <1>5, <2>1 DEF QueueInv, QueueIsLatest, QueueBounded, ReadBehind
<1> QED
  BY <1>2, <1>3, <1>4, <1>5 DEF QueueStep

\* Every step of the backend is one of these.
LEMMA NextQueueStep ==
  ASSUME [Next]_vars
  PROVE  QueueStep
<1> USE DEF QueueStep, queue
<1>1. CASE Report
  BY <1>1 DEF Report
<1>2. CASE \E r \in Readers : ReadBegin(r) \/ ReadResume(r)
  BY <1>2 DEF ReadBegin, ReadResume, TakeReport, Return, Sleep
<1>3. CASE CloseFree
  BY <1>3 DEF CloseFree
<1>4. CASE Unplug \/ Removal \/ OtherDeviceCloses \/ SpuriousPass \/ Open
           \/ CloseBegin
  BY <1>4 DEF Unplug, Removal, OtherDeviceCloses, SpuriousPass, Open,
              CloseBegin
<1>5. CASE OpenArrives \/ CloseFlag \/ CloseSignal \/ CloseParts
           \/ CloseJoin \/ CloseHandle
  BY <1>5 DEF OpenArrives, CloseFlag, CloseSignal, CloseParts, CloseJoin,
              CloseHandle
<1>6. CASE ReadThread
  BY <1>6 DEF ReadThread, Prepare, ThreadMeets, TestLoop, EnterRun, RunStops,
              Broadcast, ThreadTestsHandle, ThreadClosesHandle, ThreadParts
<1>7. CASE RunTimesOut \/ RunFinishes
  BY <1>7 DEF RunTimesOut, RunFinishes
<1>8. CASE \E r \in Readers : SpuriousWake(r) \/ TimeOut(r)
  BY <1>8 DEF SpuriousWake, TimeOut
<1>9. CASE UNCHANGED vars
  BY <1>9 DEF vars
<1> QED
  BY <1>1, <1>2, <1>3, <1>4, <1>5, <1>6, <1>7, <1>8, <1>9
     DEF Next, OpenClose

-----------------------------------------------------------------------------
(* The threads, the barriers, the run loop and the handle.                 *)

\* The types of what is not in the queue, but for the readers.
ControlTypes ==
  /\ faults \in FaultSets /\ plugged \in BOOLEAN
  /\ owner \in OwnerSteps /\ io \in IoSteps
  /\ barrier \in 0 .. 1 /\ shutdown_barrier \in 0 .. 1
  /\ run_loop \in BOOLEAN /\ signalled \in BOOLEAN /\ stopped \in BOOLEAN
  /\ listening \in BOOLEAN /\ watching \in BOOLEAN
  /\ disconnected \in BOOLEAN /\ shutdown_thread \in BOOLEAN

ControlInv ==
  /\ ControlTypes
  /\ Meeting /\ Parting /\ RunLoopSet /\ Ending /\ NoCloseWhenGone

\* The variables of ControlInv that differ from step to step.
control == <<faults, threads, run_loop, signalled, stopped, flags>>

\* The steps that leave them alone.
Elsewhere ==
  \/ Unplug \/ OtherDeviceCloses \/ Report
  \/ \E r \in Readers :
       ReadBegin(r) \/ SpuriousWake(r) \/ TimeOut(r) \/ ReadResume(r)
  \/ UNCHANGED vars

\* The steps outside the barriers and the run loop leave the control alone.
LEMMA ElsewhereKeepsControl ==
  ASSUME Elsewhere
  PROVE  UNCHANGED control
<1> USE DEF control, environment, threads, loop, flags
<1>1. CASE Unplug
  BY <1>1 DEF Unplug
<1>2. CASE OtherDeviceCloses
  BY <1>2 DEF OtherDeviceCloses
<1>3. CASE Report
  BY <1>3 DEF Report
<1>4. CASE \E r \in Readers :
             ReadBegin(r) \/ SpuriousWake(r) \/ TimeOut(r) \/ ReadResume(r)
  BY <1>4 DEF ReadBegin, SpuriousWake, TimeOut, ReadResume
<1>5. CASE UNCHANGED vars
  BY <1>5 DEF vars
<1> QED
  BY <1>1, <1>2, <1>3, <1>4, <1>5 DEF Elsewhere

\* The steps of read_thread() between the barriers change its place only, but
\* for the run loop and the flags.
LoopSteps == TestLoop \/ EnterRun \/ RunStops \/ RunTimesOut \/ RunFinishes
             \/ Broadcast \/ ThreadTestsHandle \/ ThreadClosesHandle

\* Every step keeps the types of the control.
LEMMA ControlTypesKept ==
  ASSUME ControlTypes, [Next]_vars
  PROVE  ControlTypes'
<1> USE DEF ControlTypes, OwnerSteps, IoSteps, environment, threads, loop,
        callbacks, flags
<1>1. CASE Elsewhere
  <2>1. plugged' \in BOOLEAN /\ listening' \in BOOLEAN /\ watching' \in BOOLEAN
    BY <1>1 DEF Elsewhere, Unplug, OtherDeviceCloses, Report, ReadBegin,
       SpuriousWake, TimeOut, ReadResume, vars
  <2> QED
    BY <1>1, <2>1, ElsewhereKeepsControl DEF control
<1>2. CASE Removal
  BY <1>2 DEF Removal
<1>3. CASE SpuriousPass
  BY <1>3 DEF SpuriousPass
<1>4. CASE Open \/ CloseBegin
  BY <1>4 DEF Open, CloseBegin
<1>5. CASE CloseFlag \/ CloseSignal
  BY <1>5 DEF CloseFlag, CloseSignal
<1>6. CASE CloseJoin \/ CloseHandle \/ CloseFree
  BY <1>6 DEF CloseJoin, HandleStep, CloseHandle, CloseFree
<1>7. 1 - barrier \in 0 .. 1 /\ 1 - shutdown_barrier \in 0 .. 1
  OBVIOUS
<1>8. CASE OpenArrives
  BY <1>7, <1>8 DEF OpenArrives, OwnerArrives
<1>9. CASE CloseParts
  BY <1>7, <1>9 DEF CloseParts, OwnerArrives
<1>10. CASE ThreadMeets
  BY <1>7, <1>10 DEF ThreadMeets, ThreadArrives
<1>11. CASE ThreadParts
  BY <1>7, <1>11 DEF ThreadParts, ThreadArrives
<1>12. CASE Prepare \/ TestLoop \/ EnterRun
  BY <1>12 DEF Prepare, TestLoop, EnterRun
<1>13. CASE RunTimesOut \/ RunStops \/ RunFinishes
  BY <1>13 DEF RunTimesOut, RunStops, RunFinishes
<1>14. CASE Broadcast \/ ThreadTestsHandle \/ ThreadClosesHandle
  BY <1>14 DEF Broadcast, ThreadTestsHandle, HandleStep, ThreadClosesHandle
<1> QED
  BY <1>1, <1>2, <1>3, <1>4, <1>5, <1>6, <1>8, <1>9, <1>10, <1>11, <1>12,
     <1>13, <1>14 DEF Next, OpenClose, ReadThread, Elsewhere

\* The barriers: each is passed when both have arrived.
LEMMA BarriersKept ==
  ASSUME ControlInv, [Next]_vars
  PROVE  Meeting' /\ Parting'
<1> USE DEF ControlInv, ControlTypes, Meeting, Parting, OwnerMet, IoMet,
        OwnerParted, IoParted, BarriersHold, environment, threads
<1>1. CASE Elsewhere
  BY <1>1, ElsewhereKeepsControl DEF control
<1>2. CASE Removal
  BY <1>2 DEF Removal
<1>3. CASE SpuriousPass
  BY <1>3 DEF SpuriousPass
<1>4. CASE Open
  BY <1>4 DEF Open
<1>5. CASE OpenArrives
  BY <1>5 DEF OpenArrives, OwnerArrives
<1>6. CASE CloseBegin \/ CloseFlag \/ CloseSignal
  BY <1>6 DEF CloseBegin, CloseFlag, CloseSignal
<1>7. CASE CloseParts
  BY <1>7 DEF CloseParts, OwnerArrives
<1>8. CASE CloseJoin
  BY <1>8 DEF CloseJoin, HandleStep
<1>9. CASE CloseHandle \/ CloseFree
  BY <1>9 DEF CloseHandle, CloseFree
<1>10. CASE Prepare
  BY <1>10 DEF Prepare
<1>11. CASE ThreadMeets
  BY <1>11 DEF ThreadMeets, ThreadArrives
<1>12. CASE ThreadParts
  BY <1>12 DEF ThreadParts, ThreadArrives
<1>13. CASE LoopSteps
  <2>1. /\ UNCHANGED <<faults, owner, barrier, shutdown_barrier>>
        /\ io \notin {"none", "start", "arrive", "meeting", "parting", "done"}
        /\ io' \notin {"none", "start", "arrive", "meeting", "parting", "done"}
    BY <1>13 DEF LoopSteps, TestLoop, EnterRun, RunStops, RunTimesOut,
       RunFinishes, Broadcast, ThreadTestsHandle, HandleStep,
       ThreadClosesHandle
  <2> QED
    BY <2>1
<1> QED
  BY <1>1, <1>2, <1>3, <1>4, <1>5, <1>6, <1>7, <1>8, <1>9, <1>10, <1>11,
     <1>12, <1>13 DEF Next, OpenClose, ReadThread, Elsewhere, LoopSteps

\* read_thread() stores the run loop before it meets the client.
LEMMA RunLoopKept ==
  ASSUME ControlInv, [Next]_vars
  PROVE  RunLoopSet'
<1> USE DEF ControlInv, RunLoopSet, BarriersHold, environment, threads, loop,
        flags
<1>1. CASE Elsewhere
  BY <1>1, ElsewhereKeepsControl DEF control
<1>2. CASE Removal
  BY <1>2 DEF Removal, Meeting
<1>3. CASE SpuriousPass
  BY <1>3 DEF SpuriousPass
<1>4. CASE Open
  BY <1>4 DEF Open, Meeting
<1>5. CASE OpenArrives \/ CloseParts
  BY <1>5 DEF OpenArrives, CloseParts, OwnerArrives
<1>6. CASE CloseBegin \/ CloseFlag \/ CloseSignal
  BY <1>6 DEF CloseBegin, CloseFlag, CloseSignal
<1>7. CASE CloseJoin \/ CloseHandle \/ CloseFree
  BY <1>7 DEF CloseJoin, CloseHandle, CloseFree
<1>8. CASE Prepare
  BY <1>8 DEF Prepare
<1>9. CASE ThreadMeets \/ ThreadParts
  BY <1>9 DEF ThreadMeets, ThreadParts, ThreadArrives
<1>10. CASE LoopSteps
  <2>1. /\ UNCHANGED <<faults, run_loop>>
        /\ io \notin {"none", "start"} /\ io' \notin {"none", "start"}
    BY <1>10 DEF LoopSteps, TestLoop, EnterRun, RunStops, RunTimesOut,
       RunFinishes, Broadcast, ThreadTestsHandle, HandleStep,
       ThreadClosesHandle
  <2> QED
    BY <2>1
<1> QED
  BY <1>1, <1>2, <1>3, <1>4, <1>5, <1>6, <1>7, <1>8, <1>9, <1>10
     DEF Next, OpenClose, ReadThread, Elsewhere, LoopSteps

\* Until hid_close() begins, the read thread leaves its loop only when the
\* device is gone, so the two that test disconnected before they close the
\* handle test it when it cannot change any more.
LEMMA EndingKept ==
  ASSUME ControlInv, [Next]_vars
  PROVE  Ending' /\ NoCloseWhenGone'
<1> USE DEF ControlInv, ControlTypes, Ending, NoCloseWhenGone, NotYetClosing,
        environment, threads, loop, flags
<1>1. CASE Elsewhere
  BY <1>1, ElsewhereKeepsControl DEF control
<1>2. CASE Removal
  BY <1>2 DEF Removal
<1>3. CASE SpuriousPass
  BY <1>3 DEF SpuriousPass
<1>4. CASE Open
  BY <1>4 DEF Open
<1>5. CASE OpenArrives \/ ThreadMeets
  BY <1>5 DEF OpenArrives, OwnerArrives, ThreadMeets, ThreadArrives
<1>6. CASE CloseBegin \/ CloseFlag \/ CloseSignal
  BY <1>6 DEF CloseBegin, CloseFlag, CloseSignal
<1>7. CASE CloseParts
  BY <1>7 DEF CloseParts, OwnerArrives
<1>8. CASE CloseJoin \/ CloseHandle \/ CloseFree
  BY <1>8 DEF CloseJoin, HandleStep, CloseHandle, CloseFree
<1>9. CASE Prepare \/ EnterRun \/ RunTimesOut
  BY <1>9 DEF Prepare, EnterRun, RunTimesOut
<1>10. CASE TestLoop
  BY <1>10 DEF TestLoop
<1>11. CASE RunStops
  BY <1>11 DEF RunStops
<1>12. CASE RunFinishes
  BY <1>12 DEF RunFinishes, Parting
<1>13. CASE Broadcast
  BY <1>13 DEF Broadcast
<1>14. CASE ThreadTestsHandle
  BY <1>14 DEF ThreadTestsHandle, HandleStep
<1>15. CASE ThreadClosesHandle
  BY <1>15 DEF ThreadClosesHandle
<1>16. CASE ThreadParts
  BY <1>16 DEF ThreadParts, ThreadArrives
<1> QED
  BY <1>1, <1>2, <1>3, <1>4, <1>5, <1>6, <1>7, <1>8, <1>9, <1>10, <1>11,
     <1>12, <1>13, <1>14, <1>15, <1>16
     DEF Next, OpenClose, ReadThread, Elsewhere

-----------------------------------------------------------------------------
(* The readers.                                                            *)

ReaderTypes == reader \in [Readers -> ReaderSteps]

\* What a step may do to the readers, and to the queue beside them.
NobodyMoves == UNCHANGED <<reader, input_reports>>
QueueEmptied == UNCHANGED reader /\ input_reports' = <<>>
AllWake == WakeAll /\ UNCHANGED input_reports
ReportWakesOne == Signal /\ input_reports' = Queued
ReaderMoves(r) ==
  ReadBegin(r) \/ SpuriousWake(r) \/ TimeOut(r) \/ ReadResume(r)

\* The steps, as far as queue and readers are concerned.
LEMMA NextReaderStep ==
  ASSUME [Next]_vars
  PROVE  \/ NobodyMoves \/ QueueEmptied \/ AllWake \/ ReportWakesOne
         \/ \E r \in Readers : ReaderMoves(r)
<1> USE DEF NobodyMoves, queue
<1>1. CASE Unplug \/ Removal \/ OtherDeviceCloses \/ SpuriousPass
  BY <1>1 DEF Unplug, Removal, OtherDeviceCloses, SpuriousPass
<1>2. CASE Open \/ OpenArrives \/ CloseBegin \/ CloseFlag \/ CloseSignal
  BY <1>2 DEF Open, OpenArrives, CloseBegin, CloseFlag, CloseSignal
<1>3. CASE CloseParts \/ CloseJoin \/ CloseHandle
  BY <1>3 DEF CloseParts, CloseJoin, CloseHandle
<1>4. CASE CloseFree
  BY <1>4 DEF CloseFree, QueueEmptied
<1>5. CASE Prepare \/ ThreadMeets \/ TestLoop \/ EnterRun \/ RunStops
           \/ RunTimesOut \/ RunFinishes
  BY <1>5 DEF Prepare, ThreadMeets, TestLoop, EnterRun, RunStops, RunTimesOut,
     RunFinishes
<1>6. CASE Broadcast
  BY <1>6 DEF Broadcast, AllWake
<1>7. CASE ThreadTestsHandle \/ ThreadClosesHandle \/ ThreadParts
  BY <1>7 DEF ThreadTestsHandle, ThreadClosesHandle, ThreadParts
<1>8. CASE Report
  BY <1>8 DEF Report, ReportWakesOne
<1>9. CASE UNCHANGED vars
  BY <1>9 DEF vars
<1> QED
  BY <1>1, <1>2, <1>3, <1>4, <1>5, <1>6, <1>7, <1>8, <1>9
     DEF Next, OpenClose, ReadThread, ReaderMoves

\* Every step keeps the types of queue and readers.
LEMMA ReaderTypesKept ==
  ASSUME ReaderTypes, [Next]_vars
  PROVE  /\ ReaderTypes'
         /\ \/ \A r \in Readers : reader[r] = "idle" => reader'[r] = "idle"
            \/ owner = "open" /\ owner' = owner
            \/ \E r \in Readers :
                 reader[r] # "idle" /\ UNCHANGED <<owner, faults>>
<1> USE DEF ReaderTypes, ReaderSteps
<1>1. CASE NobodyMoves \/ QueueEmptied
  BY <1>1 DEF NobodyMoves, QueueEmptied
<1>2. CASE AllWake
  BY <1>2 DEF AllWake, WakeAll, Wake
<1>3. CASE ReportWakesOne
  BY <1>3 DEF ReportWakesOne, Signal, Asleep, Wake
<1>4. ASSUME NEW r \in Readers, ReaderMoves(r)
      PROVE  /\ ReaderTypes'
             /\ owner = "open" \/ reader[r] # "idle"
             /\ UNCHANGED <<owner, faults>>
  <2> USE DEF environment, threads
  <2>1. CASE ReadBegin(r)
    BY <2>1 DEF ReadBegin, TakeReport, Return, Sleep
  <2>2. CASE SpuriousWake(r)
    BY <2>2 DEF SpuriousWake, Asleep, Wake
  <2>3. CASE TimeOut(r)
    BY <2>3 DEF TimeOut
  <2>4. CASE ReadResume(r)
    BY <2>4 DEF ReadResume, Woken, TakeReport, Return, Sleep
  <2> QED
    BY <1>4, <2>1, <2>2, <2>3, <2>4 DEF ReaderMoves
<1> QED
  BY <1>1, <1>2, <1>3, <1>4, NextReaderStep

\* The client leaves "open" by closing, the flags are never reset.
LEMMA OwnerAndFlags ==
  ASSUME [Next]_vars
  PROVE  /\ faults' = faults
         /\ owner = "open" => owner' = "open" \/ CloseBegin
         /\ Stopping => Stopping'
<1> USE DEF Stopping, environment, threads, flags
<1>1. CASE Elsewhere
  BY <1>1, ElsewhereKeepsControl DEF control
<1>2. CASE Removal \/ SpuriousPass \/ Open \/ OpenArrives
  BY <1>2 DEF Removal, SpuriousPass, Open, OpenArrives, OwnerArrives
<1>3. CASE CloseBegin \/ CloseFlag \/ CloseSignal \/ CloseParts
  BY <1>3 DEF CloseBegin, CloseFlag, CloseSignal, CloseParts
<1>4. CASE CloseJoin \/ CloseHandle \/ CloseFree
  BY <1>4 DEF CloseJoin, CloseHandle, CloseFree
<1>5. CASE Prepare \/ ThreadMeets \/ ThreadParts
  BY <1>5 DEF Prepare, ThreadMeets, ThreadParts, ThreadArrives
<1>6. CASE LoopSteps
  BY <1>6 DEF LoopSteps, TestLoop, EnterRun, RunStops, RunTimesOut,
     RunFinishes, Broadcast, ThreadTestsHandle, ThreadClosesHandle
<1> QED
  BY <1>1, <1>2, <1>3, <1>4, <1>5, <1>6
     DEF Next, OpenClose, ReadThread, Elsewhere, LoopSteps

\* Every step keeps the readers out of the device once it is being closed.
LEMMA ClosedBetweenReadsKept ==
  ASSUME ReaderTypes, ClosedBetweenReads, [Next]_vars
  PROVE  ClosedBetweenReads'
<1> SUFFICES ASSUME "close_during_read" \notin faults, owner' # "open"
             PROVE  \A r \in Readers : reader'[r] = "idle"
  BY OwnerAndFlags DEF ClosedBetweenReads
<1>1. CASE owner # "open"
  BY <1>1, ReaderTypesKept DEF ClosedBetweenReads
<1>2. CASE owner = "open"
  <2>1. CloseBegin
    BY <1>2, OwnerAndFlags
  <2> QED
    BY <2>1 DEF CloseBegin
<1> QED
  BY <1>1, <1>2

\* How the woken readers are counted.
LEMMA CountWoken ==
  /\ IsFiniteSet(Woken) /\ Cardinality(Woken) \in Nat
  /\ \A r : r \notin Woken =>
       Cardinality(Woken \cup {r}) = Cardinality(Woken) + 1
  /\ \A r \in Woken : Cardinality(Woken \ {r}) = Cardinality(Woken) - 1
<1>1. IsFiniteSet(Woken)
  BY HidMacAssumption, FS_Subset DEF Woken
<1> QED
  BY <1>1, FS_CardinalityType, FS_AddElement, FS_RemoveElement

\* A signal moves one sleeper to those who are woken.
LEMMA WakingOne ==
  ASSUME ReaderTypes, NEW r \in Asleep,
         reader' = [reader EXCEPT ![r] = Wake(@)]
  PROVE  Cardinality(Woken') = Cardinality(Woken) + 1
<1>1. r \notin Woken /\ Woken' = Woken \cup {r}
  BY DEF ReaderTypes, Asleep, Woken, Wake
<1> QED
  BY <1>1, CountWoken

\* The reports a queue may hold after another one.
LEMMA QueuedLength ==
  ASSUME QueueInv
  PROVE  /\ Len(input_reports) \in Nat /\ Len(Queued) \in Nat
         /\ Len(Queued) <= Len(input_reports) + 1
<1>1. /\ input_reports \in Seq(1 .. MaxReports) /\ Len(input_reports) \in Nat
      /\ QueueLimit \in Nat
  BY HidMacAssumption, LenProperties DEF QueueInv
<1>2. CASE TooLong
  <2>1. input_reports # <<>>
    BY <1>1, <1>2, EmptySeq DEF TooLong
  <2>2. /\ Tail(input_reports) \in Seq(1 .. MaxReports)
        /\ Len(Tail(input_reports)) = Len(input_reports) - 1
    BY <1>1, <2>1, TailOfReports
  <2>3. Queued = Append(Tail(input_reports), arrived + 1)
    BY <1>2 DEF Queued
  <2> QED
    BY <1>1, <2>2, <2>3
<1>3. CASE ~TooLong
  <2>1. Queued = Append(input_reports, arrived + 1)
    BY <1>3 DEF Queued
  <2> QED
    BY <1>1, <2>1
<1> QED
  BY <1>2, <1>3

\* No report waits for a sleeper: hid_report_callback() signals for each one.
LEMMA NoLostWakeupKept ==
  ASSUME QueueInv, ReaderTypes, NoLostWakeup, [Next]_vars
  PROVE  NoLostWakeup'
<1> SUFFICES ASSUME Asleep' # {}, ~Stopping'
             PROVE  Len(input_reports') <= Cardinality(Woken')
  BY DEF NoLostWakeup
<1>1. ~Stopping
  BY OwnerAndFlags
<1>2. Len(input_reports) \in Nat /\ Cardinality(Woken) \in Nat
  BY QueuedLength, CountWoken
<1>3. Asleep # {} => Len(input_reports) <= Cardinality(Woken)
  BY <1>1 DEF NoLostWakeup
<1>4. CASE NobodyMoves
  BY <1>3, <1>4 DEF NobodyMoves, Asleep, Woken
<1>5. Cardinality(Woken') \in Nat
  <2>1. IsFiniteSet(Woken')
    BY HidMacAssumption, FS_Subset DEF Woken
  <2> QED
    BY <2>1, FS_CardinalityType
<1>6. CASE input_reports' = <<>>
  BY <1>5, <1>6, EmptySeq
<1>7. CASE AllWake
  BY <1>7 DEF AllWake, WakeAll, Wake, Asleep
<1>8. CASE ReportWakesOne
  <2>1. Asleep # {}
    BY <1>8 DEF ReportWakesOne, Signal, Asleep
  <2>2. PICK r \in Asleep : reader' = [reader EXCEPT ![r] = Wake(@)]
    BY <1>8, <2>1 DEF ReportWakesOne, Signal
  <2>3. Cardinality(Woken') = Cardinality(Woken) + 1
    BY <2>2, WakingOne
  <2> QED
    BY <1>2, <1>3, <1>8, <2>1, <2>3, QueuedLength DEF ReportWakesOne
<1>9. ASSUME NEW r \in Readers, SpuriousWake(r)
      PROVE  Len(input_reports') <= Cardinality(Woken')
  <2>1. r \in Asleep /\ input_reports' = input_reports
    BY <1>9 DEF SpuriousWake, queue
  <2>2. Cardinality(Woken') = Cardinality(Woken) + 1
    BY <1>9, <2>1, WakingOne DEF SpuriousWake
  <2> QED
    BY <1>2, <1>3, <2>1, <2>2
<1>10. ASSUME NEW r \in Readers, reader[r] \in {"timed", "timedout"},
              reader' = [reader EXCEPT ![r] = "timedout"]
              \/ reader' = [reader EXCEPT ![r] = "idle"],
              input_reports' = input_reports
       PROVE  Len(input_reports') <= Cardinality(Woken')
  <2>1. Woken' = Woken /\ Asleep' \subseteq Asleep
    BY <1>10 DEF ReaderTypes, ReaderSteps, Woken, Asleep
  <2> QED
    BY <1>3, <1>10, <2>1
<1>11. ASSUME NEW r \in Readers, reader[r] = "idle" \/ r \in Woken,
              TakeReport(r)
       PROVE  Len(input_reports') <= Cardinality(Woken')
  <2>1. /\ Asleep' = Asleep
        /\ \/ Woken' = Woken
           \/ r \in Woken /\ Woken' = Woken \ {r}
    BY <1>11 DEF TakeReport, ReaderTypes, Woken, Asleep
  <2>2. Cardinality(Woken') >= Cardinality(Woken) - 1
    <3>1. CASE Woken' = Woken
      BY <1>2, <3>1
    <3>2. CASE r \in Woken /\ Woken' = Woken \ {r}
      <4>1. Cardinality(Woken') = Cardinality(Woken) - 1
        BY <3>2, CountWoken
      <4> QED
        BY <1>2, <4>1
    <3> QED
      BY <2>1, <3>1, <3>2
  <2>3. Len(input_reports') = Len(input_reports) - 1
    BY <1>11, TailOfReports DEF TakeReport, QueueInv
  <2> QED
    BY <1>2, <1>3, <1>5, <2>1, <2>2, <2>3
<1>12. ASSUME NEW r \in Readers, ReadBegin(r)
       PROVE  Len(input_reports') <= Cardinality(Woken')
  <2>1. CASE TakeReport(r)
    BY <1>11, <1>12, <2>1 DEF ReadBegin
  <2>2. CASE ~TakeReport(r)
    BY <1>1, <1>6, <1>12, <2>2 DEF ReadBegin, Sleep, Return, queue
  <2> QED
    BY <2>1, <2>2
<1>13. ASSUME NEW r \in Readers, ReadResume(r)
       PROVE  Len(input_reports') <= Cardinality(Woken')
  <2>1. CASE r \in Woken /\ TakeReport(r)
    BY <1>11, <2>1
  <2>2. CASE reader[r] = "timedout" /\ Return(r)
    BY <1>10, <2>2 DEF Return, queue
  <2>3. CASE r \in Woken /\ input_reports = <<>> /\ UNCHANGED input_reports
    BY <1>6, <2>3
  <2> QED
    BY <1>1, <1>13, <2>1, <2>2, <2>3 DEF ReadResume, Sleep, queue
<1>14. ASSUME NEW r \in Readers, TimeOut(r)
       PROVE  Len(input_reports') <= Cardinality(Woken')
  BY <1>10, <1>14 DEF TimeOut, queue
<1> QED
  BY <1>4, <1>6, <1>7, <1>8, <1>9, <1>12, <1>13, <1>14, NextReaderStep
     DEF QueueEmptied, ReaderMoves

-----------------------------------------------------------------------------
(* The theorems.                                                           *)

\* A device that hid_open_path() has just allocated satisfies the invariant.
LEMMA InitIInv ==
  ASSUME Init
  PROVE  IInv
<1> USE DEF Init
<1>1. QueueInv
  BY HidMacAssumption, EmptySeq
     DEF QueueInv, QueueIsLatest, QueueBounded, ReadBehind
<1>2. ControlTypes /\ ReaderTypes
  <2>1. ControlTypes
    <3>1. barrier \in 0 .. 1 /\ shutdown_barrier \in 0 .. 1
      OBVIOUS
    <3>2. owner \in OwnerSteps /\ io \in IoSteps
      BY DEF OwnerSteps, IoSteps
    <3> QED
      BY <3>1, <3>2 DEF ControlTypes
  <2>2. ReaderTypes
    BY DEF ReaderTypes, ReaderSteps
  <2> QED
    BY <2>1, <2>2
<1>3. Meeting /\ Parting
  BY DEF Meeting, Parting, OwnerMet, IoMet, OwnerParted, IoParted
<1>4. RunLoopSet /\ Ending /\ NoCloseWhenGone
  BY DEF RunLoopSet, Ending, NoCloseWhenGone
<1>5. ClosedBetweenReads /\ NoLostWakeup
  BY DEF ClosedBetweenReads, NoLostWakeup, Asleep
<1> QED
  BY <1>1, <1>2, <1>3, <1>4, <1>5
     DEF IInv, TypeOK, QueueInv, ControlTypes, ReaderTypes

\* Every step keeps it, part by part.
LEMMA NextIInv ==
  ASSUME IInv, [Next]_vars
  PROVE  IInv'
<1>1. QueueInv /\ ControlInv /\ ReaderTypes
  BY DEF IInv, TypeOK, QueueInv, ControlInv, ControlTypes, ReaderTypes
<1>2. QueueInv'
  BY <1>1, NextQueueStep, QueueStepInv
<1>3. ControlTypes'
  BY <1>1, ControlTypesKept DEF ControlInv
<1>4. Meeting' /\ Parting' /\ RunLoopSet' /\ Ending' /\ NoCloseWhenGone'
  BY <1>1, BarriersKept, RunLoopKept, EndingKept
<1>5. ReaderTypes'
  BY <1>1, ReaderTypesKept
<1>6. ClosedBetweenReads' /\ NoLostWakeup'
  BY <1>1, ClosedBetweenReadsKept, NoLostWakeupKept DEF IInv
<1>7. TypeOK'
  BY <1>2, <1>3, <1>5 DEF TypeOK, QueueInv, ControlTypes, ReaderTypes
<1> QED
  BY <1>2, <1>4, <1>6, <1>7 DEF IInv, QueueInv

\* The inductive invariant holds in every reachable state of the backend, in
\* every interleaving of the client, the read thread, the removal callback and
\* the readers.
THEOREM Invariance == Spec => []IInv
<1>1. Init => IInv
  BY InitIInv
<1>2. IInv /\ [Next]_vars => IInv'
  BY NextIInv
<1> QED
  BY <1>1, <1>2, PTL DEF Spec

\* Every variable of the backend keeps its type.
THEOREM TypeCorrect == Spec => []TypeOK
<1>1. IInv => TypeOK
  BY DEF IInv
<1> QED
  BY <1>1, Invariance, PTL

\* Any number of readers: while some sleep, enough others are awake to take
\* every queued report, because hid_report_callback() signals for each one.
THEOREM NoLostWakeupHolds == Spec => []NoLostWakeup
<1>1. IInv => NoLostWakeup
  BY DEF IInv
<1> QED
  BY <1>1, Invariance, PTL

\* The barrier of hid_open_path() and the one of hid_close() are enough: the
\* client, the removal callback and hid_close() find the run loop that
\* read_thread() stores, and hid_close() wakes it while the thread lives.
THEOREM RunLoopValidHolds == Spec => []RunLoopValid
<1>1. IInv => RunLoopValid
  <2> SUFFICES ASSUME IInv, BarriersHold
               PROVE  /\ owner \notin {"closed", "opening", "meeting"}
                         => run_loop
                      /\ disconnected /\ "off_main" \notin faults => run_loop
                      /\ owner = "signal" => io # "done"
    BY DEF RunLoopValid
  <2>1. Meeting /\ Parting /\ RunLoopSet /\ owner \in OwnerSteps
    BY DEF IInv, TypeOK
  <2> QED
    BY <2>1 DEF Meeting, Parting, RunLoopSet, OwnerSteps
<1> QED
  BY <1>1, Invariance, PTL

\* Neither the read thread nor hid_close() closes the handle of a device that
\* is known to be gone, although both test the flag outside every mutex.
THEOREM NoCloseWhenGoneHolds == Spec => []NoCloseWhenGone
<1>1. IInv => NoCloseWhenGone
  BY DEF IInv
<1> QED
  BY <1>1, Invariance, PTL

\* hid_close() frees the device only when the read thread has ended, even if
\* the waits of the barriers are interrupted.
THEOREM NoUseAfterFreeHolds == Spec => []NoUseAfterFree
<1>1. IInv => NoUseAfterFree
  BY DEF IInv, Parting, ClosedBetweenReads, NoUseAfterFree
<1> QED
  BY <1>1, Invariance, PTL

\* The threads, the run loop, the readers and hid_close() implement the bounded
\* queue of ReportQueue, in every interleaving and under every fault: each step
\* is a step of that queue or leaves it alone.
THEOREM ImplementsQueueHolds == Spec => ImplementsQueue
<1>1. Init => Queue!Init
  BY DEF Init, Queue!Init
<1>2. ASSUME IInv, [Next]_vars
      PROVE  [Queue!Next]_<<input_reports, arrived, lastRead>>
  <2>1. QueueInv /\ QueueStep
    BY <1>2, NextQueueStep DEF IInv, TypeOK, QueueInv
  <2>2. CASE UNCHANGED queue
    BY <2>2 DEF queue
  <2>3. CASE /\ arrived' = arrived + 1 /\ input_reports' = Queued
             /\ UNCHANGED lastRead
    <3>1. /\ Len(input_reports) \in Nat /\ QueueLimit \in Nat
          /\ Len(input_reports) <= QueueLimit + 2
      BY <2>1, HidMacAssumption, LenProperties DEF QueueInv, QueueBounded
    <3>2. IF TooLong THEN Len(input_reports) = QueueLimit + 2
                     ELSE Len(input_reports) < QueueLimit + 2
      BY <3>1 DEF TooLong
    <3>3. Queue!Arrive
      BY <2>3, <3>2 DEF Queued, Queue!Arrive
    <3> QED
      BY <3>3 DEF Queue!Next
  <2>4. CASE /\ input_reports # <<>>
             /\ input_reports' = Tail(input_reports)
             /\ lastRead' = Head(input_reports)
             /\ UNCHANGED arrived
    BY <2>4 DEF Queue!Next, Queue!Take
  <2>5. CASE input_reports' = <<>> /\ UNCHANGED <<arrived, lastRead>>
    BY <2>5 DEF Queue!Next, Queue!Discard
  <2> QED
    BY <2>1, <2>2, <2>3, <2>4, <2>5 DEF QueueStep
<1> QED
  BY <1>1, <1>2, Invariance, PTL DEF Spec, ImplementsQueue, Queue!Spec
=============================================================================
