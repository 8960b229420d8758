------------------------------ MODULE Decoder ------------------------------
(***************************************************************************)
(* The touch image decoder of src/touchmouse.c: process_nybble(),          *)
(* reset_decoder() and the part of touchmouse_process_events_timeout()     *)
(* that feeds one HID report, nybble by nybble, to the decoder and calls   *)
(* the client back when an image is complete.                              *)
(*                                                                         *)
(* A frame is a stream of nybbles.  A nybble below RunMark (0xF) is the    *)
(* raw value of the next pixel; RunMark followed by n stands for           *)
(* n + MinRun zero pixels.  A frame is spread over several reports that    *)
(* carry the same timestamp.                                               *)
(*                                                                         *)
(* The nybbles are the inputs: each is read exactly once, so it is chosen  *)
(* at the step that reads it.  This covers every report content, and also  *)
(* whatever the receive buffer holds after the 25 data bytes when the      *)
(* length byte of the report is larger than the report.                    *)
(***************************************************************************)
EXTENDS Integers

CONSTANTS
  ImageLen,     \* pixels of a compressed image (181 in the code)
  RunMark,      \* the escape nybble, also the number of grey levels (0xF = 15)
  MinRun,       \* the shortest run a run code can express (3 in the code)
  Timestamps,   \* values of the 8-bit report timestamp
  MaxLength,    \* largest value of the 8-bit length field (255 in the code)
  HeaderBytes,  \* offset of data[] in a report (7 in the code)
  BufferBytes   \* size of the receive buffer (256 in the code)

ASSUME DecoderAssumption ==
  /\ ImageLen \in Nat \ {0}
  /\ RunMark \in Nat \ {0}
  /\ MinRun \in Nat \ {0, 1}         \* a run is longer than its mark
  /\ MaxLength \in Nat
  /\ HeaderBytes \in Nat
  /\ BufferBytes \in Nat
  /\ 0 \in Timestamps               \* the structure is allocated zeroed

\* Reading a whole image's worth of nybbles stays inside the receive buffer.
ASSUME BufferAssumption == 2 * (BufferBytes - HeaderBytes) > ImageLen

Nybble == 0 .. RunMark
Pixel  == 0 .. RunMark - 1          \* the indices of decoder_table[15]
Index  == 0 .. ImageLen - 1

VARIABLES
  \* fields of touchmouse_device
  buf_index, next_is_run_encoded, partial_image,
  timestamp_in_progress, timestamp_last_completed,
  \* locals of touchmouse_process_events_timeout: r->length, the loop index
  \* t over the data bytes, and which nybble of data[t] is processed next
  length, t, half,
  \* history: the timestamps of the reports whose nybbles the decoder holds,
  \* and the argument of the latest callback
  origins, callback

decoderVars == <<buf_index, next_is_run_encoded, partial_image>>
loopVars    == <<length, t, half>>
vars == <<decoderVars, loopVars, timestamp_in_progress,
          timestamp_last_completed, origins, callback>>

Blank      == [i \in Index |-> 0]
NoCallback == [image |-> Blank, timestamp |-> 0, origins |-> {0}]

\* The loop over the data bytes of a report has not ended.
InReport == t < length - 1

TypeOK ==
  /\ buf_index \in Index
  /\ next_is_run_encoded \in BOOLEAN
  /\ partial_image \in [Index -> Pixel]
  /\ timestamp_in_progress \in Timestamps
  /\ timestamp_last_completed \in Timestamps
  /\ length \in 0 .. MaxLength
  /\ t \in 0 .. MaxLength
  /\ half \in {"low", "high"}
  /\ origins \subseteq Timestamps
  /\ callback \in [image : [Index -> Pixel], timestamp : Timestamps,
                   origins : SUBSET Timestamps]

-----------------------------------------------------------------------------
(* The state of a device that touchmouse_open() has just allocated.        *)
Init ==
  /\ buf_index = 0
  /\ next_is_run_encoded = FALSE
  /\ partial_image = Blank
  /\ timestamp_in_progress = 0
  /\ timestamp_last_completed = 0
  /\ length = 0 /\ t = 0 /\ half = "low"
  /\ origins = {}
  /\ callback = NoCallback

\* Mutant of reset_decoder: the pending run mark survives the reset.
resetKeepsRunMark ==
  /\ buf_index' = 0
  /\ UNCHANGED next_is_run_encoded
  /\ partial_image' = Blank
  /\ origins' = {}

(* reset_decoder(): the image buffer it also clears is abstracted, it is   *)
(* rewritten as a whole by every completed decode.                         *)
reset_decoder ==
  /\ buf_index' = 0
  /\ next_is_run_encoded' = FALSE
  /\ partial_image' = Blank
  /\ origins' = {}

\* Mutant of StaleFrame: compares with the frame delivered last.
StaleAgainstCompleted(ts) == buf_index # 0 /\ ts # timestamp_last_completed

\* A frame is under way and the arriving report does not belong to it.
StaleFrame(ts) == buf_index # 0 /\ ts # timestamp_in_progress

(* A 32-byte report with ID 0x27 arrives: drop a frame it does not belong  *)
(* to, note its timestamp, and enter the loop over its data.               *)
BeginReport(ts, len) ==
  /\ ~InReport
  /\ IF StaleFrame(ts) THEN reset_decoder
                       ELSE UNCHANGED <<decoderVars, origins>>
  /\ timestamp_in_progress' = ts
  /\ length' = len /\ t' = 0 /\ half' = "low"
  /\ UNCHANGED <<timestamp_last_completed, callback>>

-----------------------------------------------------------------------------
(* process_nybble()                                                        *)

\* Mutant of RunEnd: the run comes out one pixel short.
RunEndShort(n) == buf_index + n + MinRun - 1

RunEnd(n) == buf_index + n + MinRun

\* Mutant of Overruns: off by one.
OverrunsLate(n) == next_is_run_encoded /\ RunEnd(n) > ImageLen + 1

\* Completing this run would overrun partial_image.
Overruns(n) == next_is_run_encoded /\ RunEnd(n) > ImageLen

NextIndex(n) ==
  IF next_is_run_encoded THEN RunEnd(n)
  ELSE IF n = RunMark THEN buf_index ELSE buf_index + 1

NextPixels(n) ==
  [i \in Index |->
     IF i \notin buf_index .. NextIndex(n) - 1 THEN partial_image[i]
     ELSE IF next_is_run_encoded THEN 0 ELSE n]

\* The loop moves from the low nybble to the high one, then to the next byte.
NextNybble ==
  IF half = "low" THEN half' = "high" /\ UNCHANGED <<t, length>>
                  ELSE half' = "low" /\ t' = t + 1 /\ UNCHANGED length

\* The function returns: the rest of the report is not looked at.
LeaveReport == length' = 0 /\ t' = 0 /\ half' = "low"

\* Mutant of DecodeError: the decoder is reset but the report goes on.
ErrorGoesOn(n) ==
  /\ InReport
  /\ Overruns(n)
  /\ reset_decoder
  /\ NextNybble
  /\ UNCHANGED <<timestamp_in_progress, timestamp_last_completed, callback>>

(* DECODER_ERROR: reset the decoder and return -1.                         *)
DecodeError(n) ==
  /\ InReport
  /\ Overruns(n)
  /\ reset_decoder
  /\ LeaveReport
  /\ UNCHANGED <<timestamp_in_progress, timestamp_last_completed, callback>>

(* DECODER_COMPLETE: call the client back with the image, reset the        *)
(* decoder and return 0.                                                   *)
DecodeComplete(n) ==
  /\ InReport
  /\ ~Overruns(n)
  /\ NextIndex(n) = ImageLen
  /\ timestamp_last_completed' = timestamp_in_progress
  /\ callback' = [image     |-> NextPixels(n),
                  timestamp |-> timestamp_in_progress,
                  origins   |-> origins \cup {timestamp_in_progress}]
  /\ reset_decoder
  /\ LeaveReport
  /\ UNCHANGED timestamp_in_progress

(* DECODER_IN_PROGRESS: store the pixels the nybble stands for, or         *)
(* remember that the next nybble is a run length.                          *)
DecodeProgress(n) ==
  /\ InReport
  /\ ~Overruns(n)
  /\ NextIndex(n) # ImageLen
  /\ buf_index' = NextIndex(n)
  /\ next_is_run_encoded' = (~next_is_run_encoded /\ n = RunMark)
  /\ partial_image' = NextPixels(n)
  /\ origins' = origins \cup {timestamp_in_progress}
  /\ NextNybble
  /\ UNCHANGED <<timestamp_in_progress, timestamp_last_completed, callback>>

ProcessNybble(n) == DecodeError(n) \/ DecodeComplete(n) \/ DecodeProgress(n)

Next ==
  \/ \E ts \in Timestamps, len \in 0 .. MaxLength : BeginReport(ts, len)
  \/ \E n \in Nybble : DecodeError(n)
  \/ \E n \in Nybble : DecodeComplete(n)
  \/ \E n \in Nybble : DecodeProgress(n)

Spec == Init /\ [][Next]_vars

-----------------------------------------------------------------------------
(* Safety.                                                                 *)

\* A report boundary never falls between a run mark and its length while the
\* frame has no pixel yet.  The timestamp check of the code looks at buf_index
\* alone, so a pending run mark with buf_index = 0 would leak into the next
\* frame; it cannot happen because the loop consumes nybbles in pairs.
NoDanglingRunMark == ~InReport /\ buf_index = 0 => ~next_is_run_encoded

\* All nybbles of an image handed to the callback come from reports that carry
\* the timestamp handed to the callback: two frames with different timestamps
\* are never merged, whatever reports are lost, truncated or malformed.
SingleTimestamp == callback.origins = {callback.timestamp}

\* The loop never reads past the receive buffer, even when the length byte of
\* a report exceeds the report: an image is complete, or a run overflows it,
\* before ImageLen + 2 nybbles are consumed.
ReadInBuffer == InReport => HeaderBytes + t < BufferBytes
=============================================================================
