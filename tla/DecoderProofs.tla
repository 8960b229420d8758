--------------------------- MODULE DecoderProofs ---------------------------
(* Theorems about the decoder, for every image size, grey scale, set of    *)
(* timestamps and length byte the assumptions of Decoder allow; the code's *)
(* values (181, 15, 3, 255, 7, 256) satisfy them.                          *)
EXTENDS Decoder, TLAPS

-----------------------------------------------------------------------------
(* The inductive invariant: every nybble advances the decoder, so the      *)
(* position in the report is bounded by the progress in the image.         *)

Pending  == IF next_is_run_encoded THEN 1 ELSE 0
Odd      == IF half = "high" THEN 1 ELSE 0
Progress == buf_index + Pending
Consumed == 2 * t + Odd

ConsumedBound == InReport => Consumed <= Progress
HalfInReport  == half = "high" => InReport
PairwiseRun   == half = "low" /\ buf_index = 0 => ~next_is_run_encoded
OneOrigin     == /\ origins \subseteq {timestamp_in_progress}
                 /\ buf_index = 0 /\ ~next_is_run_encoded => origins = {}

IInv ==
  /\ TypeOK
  /\ ConsumedBound
  /\ HalfInReport
  /\ PairwiseRun
  /\ OneOrigin
  /\ SingleTimestamp

-----------------------------------------------------------------------------
\* An image without a touch is an image.
LEMMA BlankIsImage == Blank \in [Index -> Pixel]
<1>1. 0 \in Pixel
  BY DecoderAssumption DEF Pixel
<1> QED
  BY <1>1 DEF Blank

\* The summands of Progress and Consumed are natural numbers.
LEMMA ZeroOrOneMore ==
  ASSUME NEW k \in Nat, NEW b
  PROVE  k + (IF b THEN 1 ELSE 0) \in Nat
<1>1. CASE b
  BY <1>1
<1>2. CASE ~b
  BY <1>2
<1> QED
  BY <1>1, <1>2

\* A decoder that touchmouse_open() allocated satisfies the invariant.
LEMMA InitIInv == Init => IInv
<1> SUFFICES ASSUME Init PROVE IInv
  OBVIOUS
<1> USE DecoderAssumption DEF Init
<1>1. TypeOK
  <2>1. /\ buf_index \in Index
        /\ length \in 0 .. MaxLength /\ t \in 0 .. MaxLength
    BY DEF Index
  <2>2. callback \in [image : [Index -> Pixel], timestamp : Timestamps,
                     origins : SUBSET Timestamps]
    BY BlankIsImage DEF NoCallback
  <2> QED
    BY <2>1, <2>2, BlankIsImage DEF TypeOK
<1>2. ConsumedBound /\ HalfInReport /\ PairwiseRun
  BY DEF ConsumedBound, HalfInReport, PairwiseRun, InReport
<1>3. OneOrigin /\ SingleTimestamp
  BY DEF OneOrigin, SingleTimestamp, NoCallback
<1> QED
  BY <1>1, <1>2, <1>3 DEF IInv

\* The header of a report keeps it, whether it resets the decoder or not.
LEMMA BeginReportIInv ==
  ASSUME IInv, NEW ts \in Timestamps, NEW len \in 0 .. MaxLength,
         BeginReport(ts, len)
  PROVE  IInv'
<1> USE DecoderAssumption DEF BeginReport, IInv
<1>1. TypeOK'
  <2>1. 0 \in Index
    BY DEF Index
  <2>2. /\ buf_index' \in Index /\ next_is_run_encoded' \in BOOLEAN
        /\ partial_image' \in [Index -> Pixel] /\ origins' \subseteq Timestamps
    BY <2>1, BlankIsImage DEF TypeOK, reset_decoder, decoderVars
  <2>3. t' \in 0 .. MaxLength
    OBVIOUS
  <2> QED
    BY <2>2, <2>3 DEF TypeOK
<1>2. ConsumedBound'
  BY DEF ConsumedBound, Consumed, Odd, Progress, Pending, TypeOK,
         reset_decoder, decoderVars, Index
<1>3. HalfInReport'
  BY DEF HalfInReport
<1>4. half = "low"
  BY DEF HalfInReport, TypeOK
<1>5. PairwiseRun'
  BY <1>4 DEF PairwiseRun, reset_decoder, decoderVars
<1>6. OneOrigin'
  BY <1>4 DEF OneOrigin, PairwiseRun, StaleFrame, reset_decoder, decoderVars
<1>7. SingleTimestamp'
  BY DEF SingleTimestamp
<1> QED
  BY <1>1, <1>2, <1>3, <1>5, <1>6, <1>7

\* A run that fits, or a raw pixel, keeps the decoder inside the image.
LEMMA NextIndexInImage ==
  ASSUME TypeOK, NEW n \in Nybble, ~Overruns(n)
  PROVE  /\ NextIndex(n) \in 0 .. ImageLen
         /\ NextPixels(n) \in [Index -> Pixel]
<1> USE DecoderAssumption
         DEF TypeOK, Nybble, Overruns, NextIndex, RunEnd, Index, Pixel
<1>1. NextIndex(n) \in 0 .. ImageLen
  OBVIOUS
<1>2. ASSUME NEW i \in Index, i \in buf_index .. NextIndex(n) - 1,
             ~next_is_run_encoded
      PROVE  n \in Pixel
  BY <1>2
<1>3. 0 \in Pixel
  OBVIOUS
<1>4. NextPixels(n) \in [Index -> Pixel]
  BY <1>2, <1>3 DEF NextPixels
<1> QED
  BY <1>1, <1>4

\* Every nybble that is not rejected moves the decoder forward, and one that
\* moves it to the same pixel leaves a run mark pending.
LEMMA NybbleAdvances ==
  ASSUME TypeOK, NEW n \in Nybble, DecodeProgress(n)
  PROVE  /\ Progress' >= Progress + 1
         /\ buf_index' = 0 => buf_index = 0 /\ next_is_run_encoded'
<1>1. /\ buf_index \in Nat /\ n \in Nat /\ MinRun \in Nat /\ MinRun >= 2
      /\ buf_index' = NextIndex(n)
      /\ next_is_run_encoded' = (~next_is_run_encoded /\ n = RunMark)
  BY DecoderAssumption DEF TypeOK, DecodeProgress, Nybble, Index
<1>2. CASE next_is_run_encoded
  <2>1. buf_index' = buf_index + n + MinRun
    BY <1>1, <1>2 DEF NextIndex, RunEnd
  <2>2. Pending = 1 /\ Pending' = 0
    BY <1>1, <1>2, Zenon DEF Pending
  <2> QED
    BY <1>1, <2>1, <2>2 DEF Progress
<1>3. CASE ~next_is_run_encoded /\ n = RunMark
  <2>1. buf_index' = buf_index /\ next_is_run_encoded'
    BY <1>1, <1>3, Zenon DEF NextIndex
  <2>2. Pending = 0 /\ Pending' = 1
    BY <1>3, <2>1, Zenon DEF Pending
  <2>3. Progress' >= Progress + 1
    BY <1>1, <2>1, <2>2 DEF Progress
  <2> QED
    BY <2>1, <2>3, Zenon
<1>4. CASE ~next_is_run_encoded /\ n # RunMark
  <2>1. buf_index' = buf_index + 1
    BY <1>1, <1>4, Zenon DEF NextIndex
  <2>2. Pending = 0 /\ Pending' = 0
    BY <1>1, <1>4, Zenon DEF Pending
  <2> QED
    BY <1>1, <2>1, <2>2 DEF Progress
<1> QED
  BY <1>2, <1>3, <1>4

\* A rejected run leaves a decoder that has been reset.
LEMMA DecodeErrorIInv ==
  ASSUME IInv, NEW n \in Nybble, DecodeError(n)
  PROVE  IInv'
<1> USE DecoderAssumption DEF DecodeError, IInv, reset_decoder, LeaveReport
<1>1. TypeOK'
  <2>1. 0 \in Index /\ 0 \in 0 .. MaxLength
    BY DEF Index
  <2> QED
    BY <2>1, BlankIsImage DEF TypeOK
<1>2. ConsumedBound' /\ HalfInReport' /\ PairwiseRun'
  BY DEF ConsumedBound, HalfInReport, PairwiseRun, InReport
<1>3. OneOrigin' /\ SingleTimestamp'
  BY DEF OneOrigin, SingleTimestamp
<1> QED
  BY <1>1, <1>2, <1>3

\* So does a complete image, whose origins are those collected.
LEMMA DecodeCompleteIInv ==
  ASSUME IInv, NEW n \in Nybble, DecodeComplete(n)
  PROVE  IInv'
<1> USE DecoderAssumption DEF DecodeComplete, IInv, reset_decoder, LeaveReport
<1>1. TypeOK'
  <2>1. 0 \in Index /\ 0 \in 0 .. MaxLength
    BY DEF Index
  <2>2. NextPixels(n) \in [Index -> Pixel]
    BY NextIndexInImage
  <2>3. callback' \in [image : [Index -> Pixel], timestamp : Timestamps,
                      origins : SUBSET Timestamps]
    BY <2>2 DEF TypeOK
  <2> QED
    BY <2>1, <2>3, BlankIsImage DEF TypeOK
<1>2. ConsumedBound' /\ HalfInReport' /\ PairwiseRun'
  BY DEF ConsumedBound, HalfInReport, PairwiseRun, InReport
<1>3. OneOrigin'
  BY DEF OneOrigin
<1>4. SingleTimestamp'
  BY DEF SingleTimestamp, OneOrigin
<1> QED
  BY <1>1, <1>2, <1>3, <1>4

\* A nybble of an image under way moves decoder and loop alike.
LEMMA DecodeProgressIInv ==
  ASSUME IInv, NEW n \in Nybble, DecodeProgress(n)
  PROVE  IInv'
<1> USE DecoderAssumption DEF IInv
<1>1. TypeOK'
  <2>1. NextIndex(n) \in Index /\ NextPixels(n) \in [Index -> Pixel]
    BY NextIndexInImage DEF DecodeProgress, Index
  <2>2. t' \in 0 .. MaxLength /\ length' \in 0 .. MaxLength
        /\ half' \in {"low", "high"}
    BY DEF TypeOK, DecodeProgress, NextNybble, InReport
  <2> QED
    BY <2>1, <2>2 DEF TypeOK, DecodeProgress
<1>2. /\ Progress' >= Progress + 1
      /\ buf_index' = 0 => buf_index = 0 /\ next_is_run_encoded'
  BY NybbleAdvances
<1>3. Consumed' = Consumed + 1 /\ Consumed <= Progress
  <2>1. Consumed' = Consumed + 1
    BY DEF DecodeProgress, Consumed, Odd, NextNybble, TypeOK
  <2> QED
    BY <2>1 DEF DecodeProgress, ConsumedBound
<1>4. Progress \in Nat /\ Progress' \in Nat /\ Consumed \in Nat
  <2>1. buf_index \in Nat /\ buf_index' \in Nat /\ t \in Nat
    BY <1>1 DEF TypeOK, Index
  <2>2. Progress \in Nat
    BY <2>1, Zenon, ZeroOrOneMore DEF Progress, Pending
  <2>3. Progress' \in Nat
    BY <2>1, Zenon, ZeroOrOneMore DEF Progress, Pending
  <2>4. Consumed \in Nat
    BY <2>1 DEF Consumed, Odd
  <2> QED
    BY <2>2, <2>3, <2>4
<1>5. ConsumedBound'
  BY <1>2, <1>3, <1>4 DEF ConsumedBound
<1>6. HalfInReport'
  BY DEF HalfInReport, DecodeProgress, NextNybble, InReport, TypeOK
<1>7. PairwiseRun'
  <2> SUFFICES ASSUME half' = "low", buf_index' = 0, next_is_run_encoded'
               PROVE  FALSE
    BY DEF PairwiseRun
  <2>1. half = "high" /\ t \in Nat
    BY DEF DecodeProgress, NextNybble, TypeOK
  <2>2. buf_index = 0 /\ ~next_is_run_encoded
    BY <1>2 DEF DecodeProgress, TypeOK
  <2>3. Consumed >= 1 /\ Progress = 0
    BY <2>1, <2>2 DEF Consumed, Odd, Progress, Pending
  <2> QED
    BY <1>3, <1>4, <2>3
<1>8. OneOrigin'
  BY <1>2 DEF OneOrigin, DecodeProgress
<1>9. SingleTimestamp'
  BY DEF SingleTimestamp, DecodeProgress
<1> QED
  BY <1>1, <1>5, <1>6, <1>7, <1>8, <1>9

\* Every step of the decoder keeps the invariant.
LEMMA StepIInv == IInv /\ [Next]_vars => IInv'
<1> SUFFICES ASSUME IInv, [Next]_vars PROVE IInv'
  OBVIOUS
<1>1. ASSUME NEW ts \in Timestamps, NEW len \in 0 .. MaxLength,
             BeginReport(ts, len)
      PROVE  IInv'
  BY <1>1, BeginReportIInv
<1>2. ASSUME NEW n \in Nybble, DecodeError(n) PROVE IInv'
  BY <1>2, DecodeErrorIInv
<1>3. ASSUME NEW n \in Nybble, DecodeComplete(n) PROVE IInv'
  BY <1>3, DecodeCompleteIInv
<1>4. ASSUME NEW n \in Nybble, DecodeProgress(n) PROVE IInv'
  BY <1>4, DecodeProgressIInv
<1>5. CASE UNCHANGED vars
  BY <1>5 DEF vars, decoderVars, loopVars, IInv, TypeOK, ConsumedBound,
              HalfInReport, PairwiseRun, OneOrigin, SingleTimestamp,
              Consumed, Odd, Progress, Pending, InReport
<1> QED
  BY <1>1, <1>2, <1>3, <1>4, <1>5 DEF Next

\* The inductive invariant holds in every reachable state.
THEOREM Invariance == Spec => []IInv
  BY InitIInv, StepIInv, PTL DEF Spec

\* Type correctness: in particular the write index stays inside partial_image
\* and every stored pixel is an index of decoder_table.
THEOREM TypeCorrect == Spec => []TypeOK
<1>1. IInv => TypeOK
  BY DEF IInv
<1> QED
  BY <1>1, Invariance, PTL

\* No frame with another timestamp inherits a pending run mark.
THEOREM NoDanglingRunMarkHolds == Spec => []NoDanglingRunMark
<1>1. IInv => NoDanglingRunMark
  BY DEF IInv, NoDanglingRunMark, HalfInReport, PairwiseRun, TypeOK
<1> QED
  BY <1>1, Invariance, PTL

\* An image is never assembled from reports with different timestamps.
THEOREM SingleTimestampHolds == Spec => []SingleTimestamp
<1>1. IInv => SingleTimestamp
  BY DEF IInv
<1> QED
  BY <1>1, Invariance, PTL

\* The decoding loop never reads past the receive buffer.
THEOREM ReadInBufferHolds == Spec => []ReadInBuffer
<1>1. IInv => ReadInBuffer
  <2> SUFFICES ASSUME IInv, InReport PROVE HeaderBytes + t < BufferBytes
    BY DEF ReadInBuffer
  <2>1. Consumed <= Progress
    BY DEF IInv, ConsumedBound
  <2>2. Progress <= ImageLen
    BY DecoderAssumption DEF IInv, TypeOK, Progress, Pending, Index
  <2>3. 2 * t <= ImageLen
    BY <2>1, <2>2, DecoderAssumption
       DEF IInv, TypeOK, Consumed, Odd, Progress, Pending, Index
  <2> QED
    BY <2>3, DecoderAssumption, BufferAssumption DEF IInv, TypeOK
<1> QED
  BY <1>1, Invariance, PTL
=============================================================================
