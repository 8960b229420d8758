-------------------------- MODULE HidWindowsProofs --------------------------
(* Theorems about the Windows backend, for every ring of the class driver, *)
(* every number of reports and every set of faults.                        *)
EXTENDS HidWindows, SequenceTheorems, TLAPS

-----------------------------------------------------------------------------
(* The inductive invariant.                                                *)

DeviceParts == {"dev", "event", "device", "read_buf"}

\* What the device structure owns, by the step of its owner; a message may have
\* been registered at any time.
HeldByStep ==
  LET things == held \ {"error_str"} IN
  /\ owner \in {"closed", "freed"} => held = {}
  /\ owner = "create_file" => things = {"dev", "event"}
  /\ owner = "preparsed" => things = {"dev", "event", "device"}
  /\ owner \in {"caps", "err_pp_data"} =>
       things = {"dev", "event", "device", "pp_data"}
  /\ owner = "err" =>
       things \in {{"dev", "event"}, {"dev", "event", "device"}}
  /\ owner = "failed" => things = {"event"}
  /\ owner \in {"open", "close_event"} => things = DeviceParts
  /\ owner = "close_device" => things = DeviceParts \ {"event"}
  /\ owner = "free" => things = {"dev", "read_buf"}

\* A call has a request, and the event is set when it has ended.  A blocking
\* call may leave the event set behind: the next request resets it.
CallsTracked ==
  /\ call # "idle" => owner = "open" /\ read_pending
  /\ owner \in OpeningSteps => ~read_pending
  /\ owner \notin ClosingSteps =>
       /\ read_pending <=> request # "none"
       /\ request # "cancelling"
       /\ event => request \in {"none", "done", "failed"}
  /\ call = "timed_result" => request \in {"done", "failed"}

\* CancelIo() has ended the request of the thread that closes.
Cancelled ==
  /\ owner \in ClosingSteps /\ issuer = "client"
  /\ "slow_cancel" \notin faults
  => request \notin {"pending", "cancelling"}

\* Reports are older in what was returned than in the buffer, and older there
\* than in the ring, which is empty while a request waits for a report.
ReportsInOrder ==
  /\ request = "pending" => ring = <<>>
  /\ \A i, j \in 1 .. Len(returned) : i < j => returned[i] < returned[j]
  /\ \A i, j \in 1 .. Len(ring) : i < j => ring[i] < ring[j]
  /\ \A i \in 1 .. Len(returned), j \in 1 .. Len(ring) :
       returned[i] < ring[j]
  /\ request = "done" =>
       /\ read_buf # 0
       /\ \A i \in 1 .. Len(returned) : returned[i] < read_buf
       /\ \A j \in 1 .. Len(ring) : read_buf < ring[j]

\* Every report that has arrived is in one of these places, or was discarded.
ReportsSomewhere ==
  \A n \in 1 .. MaxReports :
    n <= arrived <=>
      \/ n \in dropped
      \/ \E i \in 1 .. Len(returned) : returned[i] = n
      \/ request = "done" /\ read_buf = n
      \/ \E j \in 1 .. Len(ring) : ring[j] = n

IInv ==
  /\ TypeOK /\ HeldByStep /\ CallsTracked /\ Cancelled
  /\ ReportsInOrder /\ ReportsSomewhere

-----------------------------------------------------------------------------
(* Sequences of reports.                                                   *)

\* Taking the first report of a sequence.
LEMMA TailOfReports ==
  ASSUME NEW s \in Seq(1 .. MaxReports), s # <<>>
  PROVE  /\ Tail(s) \in Seq(1 .. MaxReports)
         /\ Len(s) \in Nat \ {0} /\ Len(Tail(s)) = Len(s) - 1
         /\ Head(s) = s[1] /\ Head(s) \in 1 .. MaxReports
         /\ \A i \in 1 .. Len(Tail(s)) :
              i + 1 \in 1 .. Len(s) /\ Tail(s)[i] = s[i + 1]
<1>1. Len(s) \in Nat \ {0}
  BY EmptySeq
<1>2. 1 \in 1 .. Len(s)
  BY <1>1
<1>3. Head(s) = s[1] /\ s[1] \in 1 .. MaxReports
  <2>1. s[1] \in 1 .. MaxReports
    BY <1>2, ElementOfSeq
  <2>2. Head(s) = s[1]
    OBVIOUS
  <2> QED
    BY <2>1, <2>2
<1>4. /\ Tail(s) \in Seq(1 .. MaxReports)
      /\ Len(Tail(s)) = Len(s) - 1
      /\ \A i \in 1 .. Len(Tail(s)) : Tail(s)[i] = s[i + 1]
  BY HeadTailProperties
<1>5. \A i \in 1 .. Len(Tail(s)) : i + 1 \in 1 .. Len(s)
  BY <1>1, <1>4
<1> QED
  BY <1>1, <1>3, <1>4, <1>5

\* Adding a report at the end of a sequence.
LEMMA AppendReport ==
  ASSUME NEW s \in Seq(1 .. MaxReports), NEW e \in 1 .. MaxReports
  PROVE  /\ Append(s, e) \in Seq(1 .. MaxReports)
         /\ Len(s) \in Nat /\ Len(Append(s, e)) = Len(s) + 1
         /\ \A i \in 1 .. Len(s) : Append(s, e)[i] = s[i]
         /\ Append(s, e)[Len(s) + 1] = e
         /\ \A i \in 1 .. Len(Append(s, e)) :
              i \in 1 .. Len(s) \/ i = Len(s) + 1
<1>1. Len(s) \in Nat
  BY LenProperties
<1>2. /\ Append(s, e) \in Seq(1 .. MaxReports)
      /\ Len(Append(s, e)) = Len(s) + 1
      /\ \A i \in 1 .. Len(s) : Append(s, e)[i] = s[i]
      /\ Append(s, e)[Len(s) + 1] = e
  BY AppendProperties
<1>3. \A i \in 1 .. Len(Append(s, e)) : i \in 1 .. Len(s) \/ i = Len(s) + 1
  BY <1>1, <1>2
<1> QED
  BY <1>1, <1>2, <1>3

\* It holds the reports of before and the new one.
LEMMA ReportsAfterAppend ==
  ASSUME NEW s \in Seq(1 .. MaxReports), NEW e \in 1 .. MaxReports, NEW n
  PROVE  (\E i \in 1 .. Len(Append(s, e)) : Append(s, e)[i] = n)
         <=> n = e \/ \E i \in 1 .. Len(s) : s[i] = n
<1> DEFINE longer == Append(s, e)
<1>1. /\ Len(s) \in Nat /\ Len(longer) = Len(s) + 1
      /\ \A i \in 1 .. Len(s) : longer[i] = s[i]
      /\ longer[Len(s) + 1] = e
      /\ \A i \in 1 .. Len(longer) : i \in 1 .. Len(s) \/ i = Len(s) + 1
  BY AppendReport
<1> HIDE DEF longer
<1>2. /\ Len(s) + 1 \in 1 .. Len(longer)
      /\ \A i \in 1 .. Len(s) : i \in 1 .. Len(longer)
  BY <1>1
<1>3. ASSUME NEW i \in 1 .. Len(longer), longer[i] = n, n # e
      PROVE  \E k \in 1 .. Len(s) : s[k] = n
  BY <1>1, <1>3
<1>4. ASSUME NEW i \in 1 .. Len(s), s[i] = n
      PROVE  \E k \in 1 .. Len(longer) : longer[k] = n
  BY <1>1, <1>2, <1>4
<1>5. ASSUME n = e
      PROVE  \E k \in 1 .. Len(longer) : longer[k] = n
  BY <1>1, <1>2, <1>5
<1>6. (\E i \in 1 .. Len(longer) : longer[i] = n)
      <=> n = e \/ \E i \in 1 .. Len(s) : s[i] = n
  BY <1>3, <1>4, <1>5
<1> QED
  BY <1>6 DEF longer

Increasing(s) == \A i, j \in 1 .. Len(s) : i < j => s[i] < s[j]

\* One sequence of reports after another: the order, and what they hold.
LEMMA ConcatReports ==
  ASSUME NEW s \in Seq(1 .. MaxReports), NEW t \in Seq(1 .. MaxReports),
         Increasing(s), Increasing(t),
         \A i \in 1 .. Len(s), j \in 1 .. Len(t) : s[i] < t[j]
  PROVE  /\ s \o t \in Seq(1 .. MaxReports)
         /\ Increasing(s \o t)
         /\ \A n : (\E i \in 1 .. Len(s \o t) : (s \o t)[i] = n)
                   <=> \/ \E i \in 1 .. Len(s) : s[i] = n
                       \/ \E j \in 1 .. Len(t) : t[j] = n
<1> DEFINE both == s \o t
<1>1. /\ both \in Seq(1 .. MaxReports)
      /\ Len(s) \in Nat /\ Len(t) \in Nat /\ Len(both) = Len(s) + Len(t)
      /\ \A i \in 1 .. Len(both) :
           both[i] = IF i <= Len(s) THEN s[i] ELSE t[i - Len(s)]
  BY LenProperties, ConcatProperties
<1> HIDE DEF both
<1>2. \A i \in 1 .. Len(s) : i \in 1 .. Len(both) /\ both[i] = s[i]
  BY <1>1
<1>3. \A j \in 1 .. Len(t) :
        Len(s) + j \in 1 .. Len(both) /\ both[Len(s) + j] = t[j]
  <2> SUFFICES ASSUME NEW j \in 1 .. Len(t)
               PROVE  Len(s) + j \in 1 .. Len(both) /\ both[Len(s) + j] = t[j]
    OBVIOUS
  <2>1. /\ Len(s) + j \in 1 .. Len(both) /\ ~(Len(s) + j <= Len(s))
        /\ (Len(s) + j) - Len(s) = j
    BY <1>1
  <2> QED
    BY <1>1, <2>1
<1>4. ASSUME NEW i \in 1 .. Len(both), i > Len(s)
      PROVE  i - Len(s) \in 1 .. Len(t) /\ both[i] = t[i - Len(s)]
  BY <1>1, <1>4
<1>5. ASSUME NEW i \in 1 .. Len(both), NEW j \in 1 .. Len(both), i < j
      PROVE  both[i] < both[j]
  <2>1. CASE j <= Len(s)
    <3>1. i \in 1 .. Len(s) /\ j \in 1 .. Len(s)
      BY <1>1, <1>5, <2>1
    <3> QED
      BY <1>2, <1>5, <3>1 DEF Increasing
  <2>2. CASE i <= Len(s) /\ j > Len(s)
    <3>1. i \in 1 .. Len(s)
      BY <1>1, <2>2
    <3> QED
      BY <1>2, <1>4, <2>2, <3>1
  <2>3. CASE i > Len(s)
    <3>1. i - Len(s) < j - Len(s) /\ j > Len(s)
      BY <1>1, <1>5, <2>3
    <3> QED
      BY <1>4, <2>3, <3>1 DEF Increasing
  <2> QED
    BY <1>1, <1>5, <2>1, <2>2, <2>3
<1>6. ASSUME NEW n
      PROVE  (\E i \in 1 .. Len(both) : both[i] = n)
             <=> \/ \E i \in 1 .. Len(s) : s[i] = n
                 \/ \E j \in 1 .. Len(t) : t[j] = n
  <2>1. ASSUME NEW i \in 1 .. Len(both), both[i] = n
        PROVE  \/ \E k \in 1 .. Len(s) : s[k] = n
               \/ \E j \in 1 .. Len(t) : t[j] = n
    <3>1. CASE i <= Len(s)
      <4>1. i \in 1 .. Len(s)
        BY <1>1, <3>1
      <4> QED
        BY <1>2, <2>1, <4>1
    <3>2. CASE i > Len(s)
      BY <1>4, <2>1, <3>2
    <3> QED
      BY <1>1, <3>1, <3>2
  <2> QED
    BY <1>2, <1>3, <2>1
<1>7. Increasing(both)
  BY <1>5 DEF Increasing
<1> QED
  BY <1>1, <1>6, <1>7 DEF both

-----------------------------------------------------------------------------
(* What a step may do to the reports.                                      *)

\* Nothing arrives and nothing is returned.  A request that begins or ends
\* holds no report.
NoReportMoves ==
  /\ UNCHANGED <<ring, arrived, dropped, returned>>
  /\ \/ UNCHANGED <<request, read_buf>>
     \/ /\ request # "done" /\ request' # "done"
        /\ request' = "pending" => ring = <<>>
        /\ UNCHANGED read_buf

ReportFillsRequest ==
  /\ request = "pending" /\ request' = "done"
  /\ arrived < MaxReports
  /\ arrived' = arrived + 1 /\ read_buf' = arrived + 1
  /\ UNCHANGED <<ring, dropped, returned>>

ReportWaits ==
  /\ arrived < MaxReports /\ arrived' = arrived + 1
  /\ request # "pending"
  /\ ring' = Append(ring, arrived + 1)
  /\ UNCHANGED <<request, read_buf, dropped, returned>>

ReportReplacesOldest ==
  /\ arrived < MaxReports /\ arrived' = arrived + 1
  /\ request # "pending" /\ Len(ring) = RingSize
  /\ ring' = Append(Tail(ring), arrived + 1)
  /\ dropped' = dropped \cup {Head(ring)}
  /\ UNCHANGED <<request, read_buf, returned>>

RingVanishes ==
  /\ ring' = <<>> /\ dropped' = dropped \cup {ring[i] : i \in DOMAIN ring}
  /\ UNCHANGED <<request, read_buf, arrived, returned>>

RequestTakesOldest ==
  /\ request = "none" /\ request' = "done" /\ ring # <<>>
  /\ read_buf' = Head(ring) /\ ring' = Tail(ring)
  /\ UNCHANGED <<arrived, dropped, returned>>

ReportReturned ==
  /\ request = "done" /\ request' = "none"
  /\ returned' = Append(returned, read_buf)
  /\ UNCHANGED <<ring, read_buf, arrived, dropped>>

ReportStep ==
  \/ NoReportMoves \/ ReportFillsRequest \/ ReportWaits
  \/ ReportReplacesOldest \/ RingVanishes \/ RequestTakesOldest
  \/ ReportReturned

\* Every step of the backend, the kernel and the device is one of these.
LEMMA NextReportStep ==
  ASSUME TypeOK, CallsTracked, [Next]_vars
  PROVE  ReportStep
<1> USE DEF ReportStep, kernel, driver
<1>1. CASE Open \/ CloseEvent \/ CloseFree
  BY <1>1 DEF Open, NewDevice, CreateFile, GetPreparsedData, GetCaps,
     err_pp_data, err, CloseEvent, CloseFree, OwnerStep, NoReportMoves
<1>2. CASE ReadAgain \/ ReadFails \/ WaitEnds \/ TimeOut \/ TransferFails
  BY <1>2 DEF ReadAgain, ReadFails, WaitEnds, TimeOut, TransferFails,
     NoReportMoves
<1>3. CASE ReadStarts
  <2>1. request = "none"
    BY <1>3 DEF ReadStarts, MayCall, CallsTracked, ClosingSteps
  <2> QED
    BY <1>3, <2>1 DEF ReadStarts, NoReportMoves, RequestTakesOldest
<1>4. CASE Collect
  <2>1. request = "failed" \/ request = "done"
    BY <1>4 DEF Collect, Finished
  <2> QED
    BY <1>4, <2>1 DEF Collect, NoReportMoves, ReportReturned
<1>5. CASE CloseCancel \/ CloseDevice
  BY <1>5 DEF CloseCancel, AfterCancelIo, CloseDevice, NoReportMoves
<1>6. CASE Report
  BY <1>6 DEF Report, ReportFillsRequest, ReportWaits, ReportReplacesOldest
<1>7. CASE Unplug
  BY <1>7 DEF Unplug, RingVanishes
<1>8. CASE RequestFails
  BY <1>8 DEF RequestFails, NoReportMoves
<1>9. CASE UNCHANGED vars
  BY <1>9 DEF vars, NoReportMoves
<1> QED
  BY <1>1, <1>2, <1>3, <1>4, <1>5, <1>6, <1>7, <1>8, <1>9
     DEF Next, Read, Close

\* The types of what these steps change.
ReportTypes ==
  /\ arrived \in 0 .. MaxReports /\ read_buf \in 0 .. arrived
  /\ ring \in Seq(1 .. MaxReports) /\ returned \in Seq(1 .. MaxReports)
  /\ dropped \subseteq 1 .. arrived

\* Whatever is kept or was returned has arrived.
LEMMA OnlyArrived ==
  ASSUME ReportTypes, ReportsSomewhere
  PROVE  /\ arrived \in Nat /\ MaxReports \in Nat /\ arrived <= MaxReports
         /\ Len(ring) \in Nat /\ Len(returned) \in Nat
         /\ \A i \in 1 .. Len(returned) : returned[i] \in 1 .. arrived
         /\ \A j \in 1 .. Len(ring) : ring[j] \in 1 .. arrived
<1>1. /\ arrived \in Nat /\ MaxReports \in Nat /\ arrived <= MaxReports
      /\ Len(ring) \in Nat /\ Len(returned) \in Nat
  BY HidWindowsAssumption, LenProperties DEF ReportTypes
<1>2. \A i \in 1 .. Len(returned) : returned[i] \in 1 .. MaxReports
  BY ElementOfSeq DEF ReportTypes
<1>3. \A j \in 1 .. Len(ring) : ring[j] \in 1 .. MaxReports
  BY ElementOfSeq DEF ReportTypes
<1>4. \A i \in 1 .. Len(returned) : returned[i] <= arrived
  BY <1>2 DEF ReportsSomewhere
<1>5. \A j \in 1 .. Len(ring) : ring[j] <= arrived
  BY <1>3 DEF ReportsSomewhere
<1> QED
  BY <1>1, <1>2, <1>3, <1>4, <1>5

\* Every way to move a report keeps the types.
LEMMA ReportTypesKept ==
  ASSUME ReportTypes, ReportsInOrder, ReportsSomewhere, ReportStep
  PROVE  ReportTypes'
<1>1. /\ arrived \in Nat /\ MaxReports \in Nat /\ arrived <= MaxReports
      /\ \A j \in 1 .. Len(ring) : ring[j] \in 1 .. arrived
  BY OnlyArrived
<1>2. read_buf \in 0 .. arrived /\ dropped \subseteq 1 .. arrived
      /\ ring \in Seq(1 .. MaxReports) /\ returned \in Seq(1 .. MaxReports)
  BY DEF ReportTypes
<1>3. ring # <<>> =>
        /\ Tail(ring) \in Seq(1 .. MaxReports) /\ Head(ring) \in 1 .. arrived
  <2> SUFFICES ASSUME ring # <<>>
               PROVE  /\ Tail(ring) \in Seq(1 .. MaxReports)
                      /\ Head(ring) \in 1 .. arrived
    OBVIOUS
  <2>1. /\ Tail(ring) \in Seq(1 .. MaxReports)
        /\ Len(ring) \in Nat \ {0} /\ Head(ring) = ring[1]
    BY <1>2, TailOfReports
  <2>2. 1 \in 1 .. Len(ring)
    BY <2>1
  <2> QED
    BY <1>1, <2>1, <2>2
<1>4. CASE NoReportMoves
  BY <1>4 DEF NoReportMoves, ReportTypes
<1>5. CASE ReportFillsRequest
  BY <1>1, <1>2, <1>5 DEF ReportFillsRequest, ReportTypes
<1>6. CASE ReportWaits
  <2>1. ring' \in Seq(1 .. MaxReports)
    BY <1>1, <1>2, <1>6, AppendReport DEF ReportWaits
  <2> QED
    BY <1>1, <1>2, <1>6, <2>1 DEF ReportWaits, ReportTypes
<1>7. CASE ReportReplacesOldest
  <2>1. ring # <<>>
    BY <1>7, HidWindowsAssumption, EmptySeq DEF ReportReplacesOldest
  <2>2. ring' \in Seq(1 .. MaxReports)
    BY <1>1, <1>3, <1>7, <2>1, AppendReport DEF ReportReplacesOldest
  <2>3. dropped' \subseteq 1 .. arrived'
    <3>1. dropped \cup {Head(ring)} \subseteq 1 .. arrived
      BY <1>2, <1>3, <2>1
    <3>2. 1 .. arrived \subseteq 1 .. arrived + 1
      BY <1>1
    <3> QED
      BY <1>7, <3>1, <3>2 DEF ReportReplacesOldest
  <2>4. arrived' \in 0 .. MaxReports /\ read_buf' \in 0 .. arrived'
    BY <1>1, <1>2, <1>7 DEF ReportReplacesOldest
  <2> QED
    BY <1>2, <1>7, <2>2, <2>3, <2>4 DEF ReportReplacesOldest, ReportTypes
<1>8. CASE RingVanishes
  <2>1. DOMAIN ring = 1 .. Len(ring) /\ ring' \in Seq(1 .. MaxReports)
    BY <1>2, <1>8, LenProperties, EmptySeq DEF RingVanishes
  <2> QED
    BY <1>1, <1>2, <1>8, <2>1 DEF RingVanishes, ReportTypes
<1>9. CASE RequestTakesOldest
  BY <1>1, <1>2, <1>3, <1>9 DEF RequestTakesOldest, ReportTypes
<1>10. CASE ReportReturned
  <2>1. read_buf \in 1 .. MaxReports
    BY <1>1, <1>2, <1>10 DEF ReportReturned, ReportsInOrder
  <2>2. returned' \in Seq(1 .. MaxReports)
    BY <1>2, <1>10, <2>1, AppendReport DEF ReportReturned
  <2> QED
    BY <1>2, <1>10, <2>2 DEF ReportReturned, ReportTypes
<1> QED
  BY <1>4, <1>5, <1>6, <1>7, <1>8, <1>9, <1>10 DEF ReportStep

\* The first report of the ring is its oldest, and the others stay in order.
LEMMA OldestFirst ==
  ASSUME ReportTypes, ReportsInOrder, ReportsSomewhere, ring # <<>>
  PROVE  LET rest == Tail(ring) IN
         /\ rest \in Seq(1 .. MaxReports)
         /\ Len(rest) \in Nat /\ Len(ring) \in Nat
         /\ Head(ring) \in 1 .. arrived /\ 1 \in 1 .. Len(ring)
         /\ Head(ring) = ring[1]
         /\ \A j \in 1 .. Len(rest) :
              j + 1 \in 1 .. Len(ring) /\ rest[j] = ring[j + 1]
              /\ Head(ring) < rest[j]
         /\ \A i, j \in 1 .. Len(rest) : i < j => rest[i] < rest[j]
         /\ \A j \in 1 .. Len(ring) :
              \/ ring[j] = Head(ring)
              \/ \E k \in 1 .. Len(rest) : ring[j] = rest[k]
<1> DEFINE rest == Tail(ring)
<1>1. /\ rest \in Seq(1 .. MaxReports)
      /\ Len(ring) \in Nat \ {0} /\ Len(rest) = Len(ring) - 1
      /\ Head(ring) = ring[1]
      /\ \A i \in 1 .. Len(rest) :
           i + 1 \in 1 .. Len(ring) /\ rest[i] = ring[i + 1]
  BY TailOfReports DEF ReportTypes
<1>2. 1 \in 1 .. Len(ring) /\ Len(rest) \in Nat
  BY <1>1
<1>3. Head(ring) \in 1 .. arrived
  BY <1>1, <1>2, OnlyArrived
<1>4. \A i, j \in 1 .. Len(ring) : i < j => ring[i] < ring[j]
  BY DEF ReportsInOrder
<1>5. ASSUME NEW j \in 1 .. Len(rest) PROVE Head(ring) < rest[j]
  <2>1. ring[1] < ring[j + 1]
    BY <1>1, <1>2, <1>4
  <2> QED
    BY <1>1, <2>1
<1>6. ASSUME NEW i \in 1 .. Len(rest), NEW j \in 1 .. Len(rest), i < j
      PROVE  rest[i] < rest[j]
  <2>1. ring[i + 1] < ring[j + 1]
    BY <1>1, <1>2, <1>4, <1>6
  <2> QED
    BY <1>1, <2>1
<1>7. ASSUME NEW j \in 1 .. Len(ring), ring[j] # Head(ring)
      PROVE  \E k \in 1 .. Len(rest) : ring[j] = rest[k]
  <2>1. j - 1 \in 1 .. Len(rest) /\ (j - 1) + 1 = j
    BY <1>1, <1>7
  <2> QED
    BY <1>1, <2>1
<1> QED
  BY <1>1, <1>2, <1>3, <1>5, <1>6, <1>7

\* The order of the reports.
LEMMA ReportsInOrderKept ==
  ASSUME ReportTypes, ReportsInOrder, ReportsSomewhere, ReportStep
  PROVE  ReportsInOrder'
<1>1. /\ arrived \in Nat /\ arrived <= MaxReports /\ MaxReports \in Nat
      /\ Len(ring) \in Nat /\ Len(returned) \in Nat
      /\ \A i \in 1 .. Len(returned) : returned[i] \in 1 .. arrived
      /\ \A j \in 1 .. Len(ring) : ring[j] \in 1 .. arrived
      /\ read_buf \in 0 .. arrived
      /\ ring \in Seq(1 .. MaxReports) /\ returned \in Seq(1 .. MaxReports)
  BY OnlyArrived DEF ReportTypes
<1>2. CASE NoReportMoves
  BY <1>2 DEF NoReportMoves, ReportsInOrder
<1>3. CASE ReportFillsRequest
  <2>1. ring = <<>> /\ ring' = ring /\ Len(ring) = 0
    BY <1>3, EmptySeq DEF ReportFillsRequest, ReportsInOrder
  <2> QED
    BY <1>1, <1>3, <2>1 DEF ReportFillsRequest, ReportsInOrder
<1>4. CASE ReportWaits
  <2>1. /\ Len(ring') = Len(ring) + 1 /\ ring'[Len(ring) + 1] = arrived + 1
        /\ \A i \in 1 .. Len(ring) : ring'[i] = ring[i]
        /\ \A i \in 1 .. Len(ring') : i \in 1 .. Len(ring) \/ i = Len(ring) + 1
    BY <1>1, <1>4, AppendReport DEF ReportWaits
  <2> QED
    BY <1>1, <1>4, <2>1 DEF ReportWaits, ReportsInOrder
<1>5. CASE ReportReplacesOldest
  <2> DEFINE rest == Tail(ring)
  <2>1. ring # <<>>
    BY <1>5, HidWindowsAssumption, EmptySeq DEF ReportReplacesOldest
  <2>2. /\ rest \in Seq(1 .. MaxReports) /\ Len(rest) \in Nat
        /\ \A j \in 1 .. Len(rest) :
             j + 1 \in 1 .. Len(ring) /\ rest[j] = ring[j + 1]
        /\ \A i, j \in 1 .. Len(rest) : i < j => rest[i] < rest[j]
    BY <2>1, OldestFirst
  <2>3. /\ Len(ring') = Len(rest) + 1 /\ ring'[Len(rest) + 1] = arrived + 1
        /\ \A i \in 1 .. Len(rest) : ring'[i] = rest[i]
        /\ \A i \in 1 .. Len(ring') : i \in 1 .. Len(rest) \/ i = Len(rest) + 1
    BY <1>1, <1>5, <2>2, AppendReport DEF ReportReplacesOldest
  <2>4. \A j \in 1 .. Len(rest) : rest[j] \in 1 .. arrived
    BY <1>1, <2>2
  <2>5. /\ \A i \in 1 .. Len(returned), j \in 1 .. Len(rest) :
             returned[i] < rest[j]
        /\ request = "done" => \A j \in 1 .. Len(rest) : read_buf < rest[j]
    BY <2>2 DEF ReportsInOrder
  <2> HIDE DEF rest
  <2>6. /\ returned' = returned /\ read_buf' = read_buf /\ request' = request
        /\ request # "pending"
    BY <1>5 DEF ReportReplacesOldest
  <2>7. ASSUME NEW i \in 1 .. Len(ring'), NEW j \in 1 .. Len(ring'), i < j
        PROVE  ring'[i] < ring'[j]
    <3>1. i \in 1 .. Len(rest) /\ ring'[i] = rest[i]
      BY <2>2, <2>3, <2>7
    <3>2. CASE j \in 1 .. Len(rest)
      BY <2>2, <2>3, <2>7, <3>1, <3>2
    <3>3. CASE j = Len(rest) + 1
      <4>1. rest[i] \in 1 .. arrived /\ ring'[j] = arrived + 1
        BY <2>3, <2>4, <3>1, <3>3
      <4> QED
        BY <1>1, <3>1, <4>1
    <3> QED
      BY <2>3, <3>2, <3>3
  <2>8. ASSUME NEW i \in 1 .. Len(returned), NEW j \in 1 .. Len(ring')
        PROVE  returned[i] < ring'[j]
    <3>1. CASE j \in 1 .. Len(rest)
      BY <2>3, <2>5, <3>1
    <3>2. CASE j = Len(rest) + 1
      <4>1. returned[i] \in 1 .. arrived /\ ring'[j] = arrived + 1
        BY <1>1, <2>3, <3>2
      <4> QED
        BY <1>1, <4>1
    <3> QED
      BY <2>3, <3>1, <3>2
  <2>9. ASSUME request = "done", NEW j \in 1 .. Len(ring')
        PROVE  read_buf < ring'[j]
    <3>1. CASE j \in 1 .. Len(rest)
      BY <2>3, <2>5, <2>9, <3>1
    <3>2. CASE j = Len(rest) + 1
      <4>1. ring'[j] = arrived + 1
        BY <2>3, <3>2
      <4> QED
        BY <1>1, <4>1
    <3> QED
      BY <2>3, <3>1, <3>2
  <2> QED
    BY <2>6, <2>7, <2>8, <2>9 DEF ReportsInOrder
<1>6. CASE RingVanishes
  <2>1. ring' = <<>> /\ Len(ring') = 0
    BY <1>6, EmptySeq DEF RingVanishes
  <2> QED
    BY <1>1, <1>6, <2>1 DEF RingVanishes, ReportsInOrder
<1>7. CASE RequestTakesOldest
  <2> DEFINE rest == Tail(ring)
  <2>1. /\ Head(ring) \in 1 .. arrived /\ 1 \in 1 .. Len(ring)
        /\ Head(ring) = ring[1]
        /\ \A j \in 1 .. Len(rest) :
             j + 1 \in 1 .. Len(ring) /\ rest[j] = ring[j + 1]
             /\ Head(ring) < rest[j]
        /\ \A i, j \in 1 .. Len(rest) : i < j => rest[i] < rest[j]
    BY <1>7, OldestFirst DEF RequestTakesOldest
  <2>2. /\ ring' = rest /\ read_buf' = Head(ring) /\ returned' = returned
        /\ request' = "done"
    BY <1>7 DEF RequestTakesOldest
  <2> HIDE DEF rest
  <2> QED
    BY <1>1, <2>1, <2>2 DEF ReportsInOrder
<1>8. CASE ReportReturned
  <2>1. /\ read_buf \in 1 .. MaxReports
        /\ \A i \in 1 .. Len(returned) : returned[i] < read_buf
        /\ \A j \in 1 .. Len(ring) : read_buf < ring[j]
    BY <1>1, <1>8 DEF ReportReturned, ReportsInOrder
  <2>2. /\ Len(returned') = Len(returned) + 1
        /\ returned'[Len(returned) + 1] = read_buf
        /\ \A i \in 1 .. Len(returned) : returned'[i] = returned[i]
        /\ \A i \in 1 .. Len(returned') :
             i \in 1 .. Len(returned) \/ i = Len(returned) + 1
    BY <1>1, <1>8, <2>1, AppendReport DEF ReportReturned
  <2> QED
    BY <1>1, <1>8, <2>1, <2>2 DEF ReportReturned, ReportsInOrder
<1> QED
  BY <1>2, <1>3, <1>4, <1>5, <1>6, <1>7, <1>8 DEF ReportStep

\* No report is lost unseen.
LEMMA ReportsSomewhereKept ==
  ASSUME ReportTypes, ReportsInOrder, ReportsSomewhere, ReportStep
  PROVE  ReportsSomewhere'
<1>1. /\ arrived \in Nat /\ arrived <= MaxReports /\ MaxReports \in Nat
      /\ Len(ring) \in Nat /\ Len(returned) \in Nat
      /\ ring \in Seq(1 .. MaxReports) /\ returned \in Seq(1 .. MaxReports)
      /\ read_buf \in 0 .. arrived /\ dropped \subseteq 1 .. arrived
  BY OnlyArrived DEF ReportTypes
<1> SUFFICES ASSUME NEW n \in 1 .. MaxReports
             PROVE  (n <= arrived <=>
                       \/ n \in dropped
                       \/ \E i \in 1 .. Len(returned) : returned[i] = n
                       \/ request = "done" /\ read_buf = n
                       \/ \E j \in 1 .. Len(ring) : ring[j] = n)'
  BY DEF ReportsSomewhere
<1>2. n <= arrived <=>
        \/ n \in dropped
        \/ \E i \in 1 .. Len(returned) : returned[i] = n
        \/ request = "done" /\ read_buf = n
        \/ \E j \in 1 .. Len(ring) : ring[j] = n
  BY DEF ReportsSomewhere
<1>3. CASE NoReportMoves
  BY <1>2, <1>3 DEF NoReportMoves
<1>4. CASE ReportFillsRequest
  BY <1>1, <1>2, <1>4 DEF ReportFillsRequest
<1>5. CASE ReportWaits
  <2>1. (\E j \in 1 .. Len(ring') : ring'[j] = n) <=>
          n = arrived + 1 \/ \E j \in 1 .. Len(ring) : ring[j] = n
    <3>1. arrived + 1 \in 1 .. MaxReports /\ ring' = Append(ring, arrived + 1)
      BY <1>1, <1>5 DEF ReportWaits
    <3>2. ring \in Seq(1 .. MaxReports)
      BY <1>1 DEF ReportTypes
    <3>3. (\E j \in 1 .. Len(Append(ring, arrived + 1)) :
             Append(ring, arrived + 1)[j] = n)
          <=> n = arrived + 1 \/ \E j \in 1 .. Len(ring) : ring[j] = n
      BY <3>1, <3>2, ReportsAfterAppend
    <3> QED
      BY <3>1, <3>3
  <2> QED
    BY <1>1, <1>2, <1>5, <2>1 DEF ReportWaits
<1>6. CASE ReportReplacesOldest
  <2> DEFINE rest == Tail(ring)
  <2>1. ring # <<>>
    BY <1>6, HidWindowsAssumption, EmptySeq DEF ReportReplacesOldest
  <2>2. /\ rest \in Seq(1 .. MaxReports) /\ Len(rest) \in Nat
        /\ 1 \in 1 .. Len(ring) /\ Head(ring) = ring[1]
        /\ \A j \in 1 .. Len(rest) :
             j + 1 \in 1 .. Len(ring) /\ rest[j] = ring[j + 1]
        /\ \A j \in 1 .. Len(ring) :
             \/ ring[j] = Head(ring)
             \/ \E k \in 1 .. Len(rest) : ring[j] = rest[k]
    BY <2>1, OldestFirst
  <2>3. arrived + 1 \in 1 .. MaxReports /\ ring' = Append(rest, arrived + 1)
    BY <1>1, <1>6 DEF ReportReplacesOldest
  <2> HIDE DEF rest
  <2>4. (\E j \in 1 .. Len(ring') : ring'[j] = n) <=>
          n = arrived + 1 \/ \E k \in 1 .. Len(rest) : rest[k] = n
    <3>1. (\E j \in 1 .. Len(Append(rest, arrived + 1)) :
             Append(rest, arrived + 1)[j] = n)
          <=> n = arrived + 1 \/ \E k \in 1 .. Len(rest) : rest[k] = n
      BY <2>2, <2>3, ReportsAfterAppend
    <3> QED
      BY <2>3, <3>1
  <2>5. (\E j \in 1 .. Len(ring) : ring[j] = n) <=>
          n = Head(ring) \/ \E k \in 1 .. Len(rest) : rest[k] = n
    BY <2>2
  <2> QED
    BY <1>1, <1>2, <1>6, <2>4, <2>5 DEF ReportReplacesOldest
<1>7. CASE RingVanishes
  <2>1. DOMAIN ring = 1 .. Len(ring) /\ Len(ring') = 0
    BY <1>1, <1>7, LenProperties, EmptySeq DEF RingVanishes
  <2>2. ~ \E j \in 1 .. Len(ring') : ring'[j] = n
    BY <2>1
  <2>3. n \in dropped' <=>
          n \in dropped \/ \E j \in 1 .. Len(ring) : ring[j] = n
    BY <1>7, <2>1 DEF RingVanishes
  <2> QED
    BY <1>2, <1>7, <2>2, <2>3 DEF RingVanishes
<1>8. CASE RequestTakesOldest
  <2> DEFINE rest == Tail(ring)
  <2>1. /\ 1 \in 1 .. Len(ring) /\ Head(ring) = ring[1]
        /\ \A j \in 1 .. Len(rest) :
             j + 1 \in 1 .. Len(ring) /\ rest[j] = ring[j + 1]
        /\ \A j \in 1 .. Len(ring) :
             \/ ring[j] = Head(ring)
             \/ \E k \in 1 .. Len(rest) : ring[j] = rest[k]
    BY <1>8, OldestFirst DEF RequestTakesOldest
  <2> HIDE DEF rest
  <2>2. (\E j \in 1 .. Len(ring) : ring[j] = n) <=>
          n = Head(ring) \/ \E k \in 1 .. Len(rest) : rest[k] = n
    BY <2>1
  <2>3. ring' = rest
    BY <1>8 DEF RequestTakesOldest, rest
  <2> QED
    BY <1>2, <1>8, <2>2, <2>3 DEF RequestTakesOldest
<1>9. CASE ReportReturned
  <2>1. read_buf \in 1 .. MaxReports
    BY <1>1, <1>9 DEF ReportReturned, ReportsInOrder
  <2>2. (\E i \in 1 .. Len(returned') : returned'[i] = n) <=>
          n = read_buf \/ \E i \in 1 .. Len(returned) : returned[i] = n
    <3>1. returned' = Append(returned, read_buf)
      BY <1>9 DEF ReportReturned
    <3>2. returned \in Seq(1 .. MaxReports)
      BY <1>1 DEF ReportTypes
    <3>3. (\E i \in 1 .. Len(Append(returned, read_buf)) :
             Append(returned, read_buf)[i] = n)
          <=> n = read_buf \/ \E i \in 1 .. Len(returned) : returned[i] = n
      BY <2>1, <3>2, ReportsAfterAppend
    <3> QED
      BY <3>1, <3>3
  <2> QED
    BY <1>2, <1>9, <2>2 DEF ReportReturned
<1> QED
  BY <1>3, <1>4, <1>5, <1>6, <1>7, <1>8, <1>9 DEF ReportStep

-----------------------------------------------------------------------------
(* The steps of the owner, of the calls and of the request.                *)

ControlTypes ==
  /\ faults \in FaultSets /\ plugged \in BOOLEAN
  /\ owner \in OpeningSteps \cup {"open"} \cup ClosingSteps
  /\ held \subseteq Resources
  /\ call \in {"idle", "wait", "timed_result", "result"}
  /\ read_pending \in BOOLEAN /\ event \in BOOLEAN
  /\ request \in {"none", "pending", "done", "failed", "cancelling"}
  /\ issuer \in Threads

\* So does every step of the owner, of a call and of the request.
LEMMA ControlTypesKept ==
  ASSUME TypeOK, [Next]_vars
  PROVE  ControlTypes'
<1>1. ControlTypes
  BY DEF TypeOK, ControlTypes
<1> USE <1>1 DEF ControlTypes, Resources, OpeningSteps, ClosingSteps, Threads,
        environment, kernel, driver
<1>2. CASE NewDevice \/ CreateFile \/ GetPreparsedData
  BY <1>2 DEF NewDevice, CreateFile, GetPreparsedData, OwnerStep
<1>3. CASE GetCaps \/ err_pp_data \/ err
  BY <1>3 DEF GetCaps, err_pp_data, err, OwnerStep
<1>4. CASE ReadAgain \/ WaitEnds \/ TimeOut
  BY <1>4 DEF ReadAgain, EnterWait, WaitEnds, TimeOut
<1>5. CASE ReadStarts
  BY <1>5 DEF ReadStarts, EnterWait
<1>6. CASE ReadFails \/ TransferFails
  BY <1>6 DEF ReadFails, TransferFails, RegisterError
<1>7. CASE Collect
  BY <1>7 DEF Collect, RegisterError
<1>8. CASE CloseCancel
  BY <1>8 DEF CloseCancel, AfterCancelIo
<1>9. CASE CloseEvent \/ CloseDevice \/ CloseFree
  BY <1>9 DEF CloseEvent, CloseDevice, CloseFree, OwnerStep
<1>10. CASE Report \/ Unplug \/ RequestFails
  BY <1>10 DEF Report, Unplug, RequestFails
<1>11. CASE UNCHANGED vars
  BY <1>11 DEF vars
<1> QED
  BY <1>2, <1>3, <1>4, <1>5, <1>6, <1>7, <1>8, <1>9, <1>10, <1>11
     DEF Next, Open, Read, Close

\* What the device structure owns follows the steps of its owner.
LEMMA HeldByStepKept ==
  ASSUME TypeOK, HeldByStep, CallsTracked, [Next]_vars
  PROVE  HeldByStep'
<1> USE DEF HeldByStep, DeviceParts
<1>1. CASE NewDevice
  BY <1>1 DEF NewDevice, OwnerStep
<1>2. CASE CreateFile
  BY <1>2 DEF CreateFile, OwnerStep
<1>3. CASE GetPreparsedData
  BY <1>3 DEF GetPreparsedData, OwnerStep
<1>4. CASE GetCaps
  BY <1>4 DEF GetCaps, OwnerStep
<1>5. CASE err_pp_data
  BY <1>5 DEF err_pp_data, OwnerStep
<1>6. CASE err
  BY <1>6 DEF err, OwnerStep
<1>7. CASE UNCHANGED <<owner, held>>
  BY <1>7
<1>8. CASE owner = "open" /\ owner' = owner /\ RegisterError
  BY <1>8 DEF RegisterError
<1>9. CASE CloseCancel
  BY <1>9 DEF CloseCancel, MayCall
<1>10. CASE CloseEvent
  BY <1>10 DEF CloseEvent, OwnerStep
<1>11. CASE CloseDevice
  BY <1>11 DEF CloseDevice
<1>12. CASE CloseFree
  BY <1>12 DEF CloseFree, OwnerStep
<1>13. CASE Read \/ TransferFails
  <2>1. CASE ReadAgain \/ ReadStarts \/ WaitEnds \/ TimeOut
    BY <1>7, <2>1 DEF ReadAgain, ReadStarts, WaitEnds, TimeOut
  <2>2. CASE ReadFails \/ TransferFails
    BY <1>8, <2>2 DEF ReadFails, TransferFails, MayCall
  <2>3. CASE Collect
    <3>1. owner = "open"
      BY <2>3 DEF Collect, CallsTracked
    <3> QED
      BY <1>7, <1>8, <2>3, <3>1 DEF Collect
  <2> QED
    BY <1>13, <2>1, <2>2, <2>3 DEF Read
<1>14. CASE Report \/ Unplug \/ RequestFails \/ UNCHANGED vars
  BY <1>7, <1>14 DEF Report, Unplug, RequestFails, vars
<1> QED
  BY <1>1, <1>2, <1>3, <1>4, <1>5, <1>6, <1>9, <1>10, <1>11, <1>12, <1>13,
     <1>14 DEF Next, Open, Close

\* read_pending, the event and the request agree.
LEMMA CallsTrackedKept ==
  ASSUME TypeOK, CallsTracked, [Next]_vars
  PROVE  CallsTracked'
<1>1. CallsTracked /\ ControlTypes
  BY DEF TypeOK, ControlTypes
<1> USE <1>1 DEF CallsTracked, ControlTypes, OpeningSteps, ClosingSteps, kernel
<1>2. CASE Open
  BY <1>2 DEF Open, NewDevice, CreateFile, GetPreparsedData, GetCaps,
     err_pp_data, err, OwnerStep
<1>3. CASE ReadAgain
  BY <1>3 DEF ReadAgain, MayCall, EnterWait
<1>4. CASE ReadStarts
  BY <1>4 DEF ReadStarts, MayCall, EnterWait
<1>5. CASE ReadFails
  BY <1>5 DEF ReadFails, MayCall
<1>6. CASE WaitEnds
  BY <1>6 DEF WaitEnds
<1>7. CASE TimeOut
  BY <1>7 DEF TimeOut
<1>8. CASE Collect
  BY <1>8 DEF Collect
<1>9. CASE CloseCancel
  BY <1>9 DEF CloseCancel, AfterCancelIo, MayCall
<1>10. CASE CloseEvent \/ CloseDevice \/ CloseFree
  BY <1>10 DEF CloseEvent, CloseDevice, CloseFree, OwnerStep
<1>11. CASE Report
  BY <1>11 DEF Report
<1>12. CASE RequestFails
  BY <1>12 DEF RequestFails
<1>13. CASE TransferFails \/ Unplug \/ UNCHANGED vars
  BY <1>13 DEF TransferFails, Unplug, vars
<1> QED
  BY <1>2, <1>3, <1>4, <1>5, <1>6, <1>7, <1>8, <1>9, <1>10, <1>11, <1>12,
     <1>13 DEF Next, Read, Close

\* The thread that closes leaves no request of its own behind.
LEMMA CancelledKept ==
  ASSUME TypeOK, CallsTracked, Cancelled, [Next]_vars
  PROVE  Cancelled'
<1>1. ControlTypes
  BY DEF TypeOK, ControlTypes
<1> USE <1>1 DEF Cancelled, ControlTypes, OpeningSteps, ClosingSteps, kernel,
        environment
<1>2. CASE Open
  BY <1>2 DEF Open, NewDevice, CreateFile, GetPreparsedData, GetCaps,
     err_pp_data, err, OwnerStep
<1>3. CASE Read
  BY <1>3 DEF Read, ReadAgain, ReadStarts, ReadFails, WaitEnds, TimeOut,
     Collect, MayCall, CallsTracked
<1>4. CASE CloseCancel
  <2>1. request # "cancelling"
    BY <1>4 DEF CloseCancel, MayCall, CallsTracked
  <2> QED
    BY <1>4, <2>1 DEF CloseCancel, AfterCancelIo
<1>5. CASE CloseEvent \/ CloseDevice \/ CloseFree
  BY <1>5 DEF CloseEvent, CloseDevice, CloseFree, OwnerStep
<1>6. CASE Report \/ RequestFails
  BY <1>6 DEF Report, RequestFails
<1>7. CASE TransferFails \/ Unplug \/ UNCHANGED vars
  BY <1>7 DEF TransferFails, Unplug, vars
<1> QED
  BY <1>2, <1>3, <1>4, <1>5, <1>6, <1>7 DEF Next, Close

-----------------------------------------------------------------------------
(* The invariant, and what follows from it.                                *)

\* Before the device is opened nothing is held and no report has arrived.
LEMMA InitIInv ==
  ASSUME Init
  PROVE  IInv
<1> USE DEF Init, OpeningSteps, ClosingSteps
<1>1. MaxReports \in Nat
  BY HidWindowsAssumption
<1>2. Len(ring) = 0 /\ Len(returned) = 0
  BY EmptySeq
<1>3. ring \in Seq(1 .. MaxReports) /\ returned \in Seq(1 .. MaxReports)
  BY EmptySeq
<1>4. TypeOK
  <2>1. ControlTypes
    BY DEF ControlTypes, Threads, Resources
  <2>2. ReportTypes
    <3>1. arrived \in 0 .. MaxReports /\ read_buf \in 0 .. arrived
      BY <1>1
    <3> QED
      BY <1>3, <3>1 DEF ReportTypes
  <2> QED
    BY <2>1, <2>2 DEF TypeOK, ControlTypes, ReportTypes
<1>5. HeldByStep /\ CallsTracked /\ Cancelled
  BY DEF HeldByStep, CallsTracked, Cancelled
<1>6. ReportsInOrder
  BY <1>2 DEF ReportsInOrder
<1>7. ReportsSomewhere
  BY <1>1, <1>2 DEF ReportsSomewhere
<1> QED
  BY <1>4, <1>5, <1>6, <1>7 DEF IInv

\* Every step keeps the invariant, part by part.
LEMMA NextIInv ==
  ASSUME IInv, [Next]_vars
  PROVE  IInv'
<1>1. ReportStep
  BY NextReportStep DEF IInv
<1>2. ReportTypes /\ ReportsInOrder /\ ReportsSomewhere
  BY DEF IInv, TypeOK, ReportTypes
<1>3. ReportTypes' /\ ReportsInOrder' /\ ReportsSomewhere'
  BY <1>1, <1>2, ReportTypesKept, ReportsInOrderKept, ReportsSomewhereKept
<1>4. ControlTypes'
  BY ControlTypesKept DEF IInv
<1>5. TypeOK'
  BY <1>3, <1>4 DEF ReportTypes, ControlTypes, TypeOK
<1>6. HeldByStep' /\ CallsTracked' /\ Cancelled'
  BY HeldByStepKept, CallsTrackedKept, CancelledKept DEF IInv
<1> QED
  BY <1>3, <1>5, <1>6 DEF IInv

\* The invariant holds in every state the backend can reach.
THEOREM Invariance == Spec => []IInv
<1>1. Init => IInv
  BY InitIInv
<1>2. IInv /\ [Next]_vars => IInv'
  BY NextIInv
<1> QED
  BY <1>1, <1>2, PTL DEF Spec

\* Every variable keeps its type.
THEOREM TypeCorrect == Spec => []TypeOK
<1>1. IInv => TypeOK
  BY DEF IInv
<1> QED
  BY <1>1, Invariance, PTL

\* hid_close() releases everything; a failed hid_open_path() leaves no more
\* than the event and the message behind.
THEOREM ReleasesHolds == Spec => []Releases
<1>1. IInv => Releases
  <2> SUFFICES ASSUME IInv PROVE Releases
    OBVIOUS
  <2>1. HeldByStep
    BY DEF IInv
  <2> QED
    BY <2>1 DEF HeldByStep, Releases
<1> QED
  BY <1>1, Invariance, PTL

\* read_pending says between two calls whether there is a request, and a call
\* whose wait ended finds its own request ended.
THEOREM RequestTrackedHolds == Spec => []RequestTracked
<1>1. IInv => RequestTracked
  BY DEF IInv, CallsTracked, RequestTracked, MayCall, ClosingSteps
<1> QED
  BY <1>1, Invariance, PTL

\* No request of the closing thread is running when its buffer is freed,
\* provided CancelIo() ends it at once.
THEOREM NothingPendingWhenFreedHolds == Spec => []NothingPendingWhenFreed
<1>1. IInv => NothingPendingWhenFreed
  BY DEF IInv, Cancelled, NothingPendingWhenFreed, ClosingSteps
<1> QED
  BY <1>1, Invariance, PTL

\* What was returned, then the buffer, then the ring: in the order of arrival,
\* and with what was discarded everything that arrived.
LEMMA SeenInOrder ==
  ASSUME ReportTypes, ReportsInOrder, ReportsSomewhere
  PROVE  LET seen == returned \o Outstanding
         IN  /\ seen \in Seq(1 .. MaxReports) /\ Increasing(seen)
             /\ \A n \in 1 .. MaxReports :
                  n <= arrived <=>
                    n \in dropped \/ \E i \in 1 .. Len(seen) : seen[i] = n
<1> DEFINE buffer == IF request = "done" THEN <<read_buf>> ELSE <<>>
           seen == returned \o Outstanding
<1>1. /\ ring \in Seq(1 .. MaxReports) /\ returned \in Seq(1 .. MaxReports)
      /\ Increasing(ring) /\ Increasing(returned)
      /\ \A i \in 1 .. Len(returned), j \in 1 .. Len(ring) :
           returned[i] < ring[j]
  BY DEF ReportTypes, ReportsInOrder, Increasing
<1>2. /\ buffer \in Seq(1 .. MaxReports) /\ Increasing(buffer)
      /\ \A i \in 1 .. Len(buffer), j \in 1 .. Len(ring) :
           buffer[i] < ring[j]
      /\ \A i \in 1 .. Len(returned), j \in 1 .. Len(buffer) :
           returned[i] < buffer[j]
      /\ \A n : (\E i \in 1 .. Len(buffer) : buffer[i] = n)
                <=> request = "done" /\ read_buf = n
  <2>1. CASE request = "done"
    <3>1. read_buf \in 1 .. MaxReports
      BY <2>1, OnlyArrived DEF ReportTypes, ReportsInOrder
    <3>2. /\ buffer = <<read_buf>> /\ Len(buffer) = 1
          /\ buffer[1] = read_buf /\ 1 .. Len(buffer) = {1}
          /\ buffer \in Seq(1 .. MaxReports)
      BY <2>1, <3>1
    <3> HIDE DEF buffer
    <3> QED
      BY <2>1, <3>2 DEF ReportsInOrder, Increasing
  <2>2. CASE request # "done"
    <3>1. /\ Len(buffer) = 0 /\ 1 .. Len(buffer) = {}
          /\ buffer \in Seq(1 .. MaxReports)
      BY <2>2, EmptySeq
    <3> HIDE DEF buffer
    <3> QED
      BY <2>2, <3>1 DEF Increasing
  <2> QED
    BY <2>1, <2>2
<1> HIDE DEF buffer
<1>3. /\ buffer \o ring \in Seq(1 .. MaxReports) /\ Increasing(buffer \o ring)
      /\ \A n : (\E i \in 1 .. Len(buffer \o ring) : (buffer \o ring)[i] = n)
                <=> \/ \E i \in 1 .. Len(buffer) : buffer[i] = n
                    \/ \E j \in 1 .. Len(ring) : ring[j] = n
  BY <1>1, <1>2, ConcatReports
<1> DEFINE later == buffer \o ring
<1>4. seen = returned \o later
  BY DEF Outstanding, buffer
<1> HIDE DEF later, seen
<1>5. later \in Seq(1 .. MaxReports) /\ Increasing(later)
  BY <1>3 DEF later
<1>6. \A n : (\E i \in 1 .. Len(later) : later[i] = n)
            <=> \/ request = "done" /\ read_buf = n
                \/ \E j \in 1 .. Len(ring) : ring[j] = n
  BY <1>2, <1>3 DEF later
<1>7. ASSUME NEW i \in 1 .. Len(returned), NEW j \in 1 .. Len(later)
      PROVE  returned[i] < later[j]
  <2>1. \/ request = "done" /\ read_buf = later[j]
        \/ \E k \in 1 .. Len(ring) : ring[k] = later[j]
    BY <1>6
  <2> QED
    BY <1>1, <2>1 DEF ReportsInOrder
<1>8. /\ seen \in Seq(1 .. MaxReports) /\ Increasing(seen)
      /\ \A n : (\E i \in 1 .. Len(seen) : seen[i] = n)
                <=> \/ \E i \in 1 .. Len(returned) : returned[i] = n
                    \/ \E j \in 1 .. Len(later) : later[j] = n
  BY <1>1, <1>4, <1>5, <1>7, ConcatReports
<1>9. ASSUME NEW n \in 1 .. MaxReports
      PROVE  n <= arrived <=>
               n \in dropped \/ \E i \in 1 .. Len(seen) : seen[i] = n
  BY <1>6, <1>8 DEF ReportsSomewhere
<1> QED
  BY <1>8, <1>9 DEF seen

\* However calls time out, every report that arrives is returned once and in
\* the order of arrival, unless the class driver discards it.
THEOREM EachReportOnceHolds == Spec => []EachReportOnce
<1>1. IInv => EachReportOnce
  <2> SUFFICES ASSUME IInv PROVE EachReportOnce
    OBVIOUS
  <2> DEFINE seen == returned \o Outstanding
  <2>1. ReportTypes /\ ReportsInOrder /\ ReportsSomewhere
    BY DEF IInv, TypeOK, ReportTypes
  <2>2. arrived \in Nat /\ MaxReports \in Nat /\ arrived <= MaxReports
        /\ dropped \subseteq 1 .. arrived
    BY <2>1, OnlyArrived DEF ReportTypes
  <2>3. /\ seen \in Seq(1 .. MaxReports) /\ Increasing(seen)
        /\ \A n \in 1 .. MaxReports :
             n <= arrived <=>
               n \in dropped \/ \E i \in 1 .. Len(seen) : seen[i] = n
    BY <2>1, SeenInOrder
  <2> HIDE DEF seen
  <2>4. DOMAIN seen = 1 .. Len(seen)
        /\ \A i \in 1 .. Len(seen) : seen[i] \in 1 .. MaxReports
    BY <2>3, LenProperties, ElementOfSeq
  <2>5. \A i, j \in DOMAIN seen : i < j => seen[i] < seen[j]
    BY <2>3, <2>4 DEF Increasing
  <2>6. ASSUME NEW n \in 1 .. arrived
        PROVE  n \in {seen[i] : i \in DOMAIN seen} \cup dropped
    <3>1. n \in 1 .. MaxReports /\ n <= arrived
      BY <2>2
    <3> QED
      BY <2>3, <2>4, <3>1
  <2>7. ASSUME NEW i \in DOMAIN seen
        PROVE  seen[i] \in 1 .. arrived
    <3>1. seen[i] \in 1 .. MaxReports /\ seen[i] <= arrived
      BY <2>3, <2>4
    <3> QED
      BY <2>2, <3>1
  <2>8. {seen[i] : i \in DOMAIN seen} \cup dropped = 1 .. arrived
    BY <2>2, <2>6, <2>7
  <2> QED
    BY <2>5, <2>8 DEF EachReportOnce, seen
<1> QED
  BY <1>1, Invariance, PTL
=============================================================================
