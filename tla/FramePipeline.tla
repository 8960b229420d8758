--------------------------- MODULE FramePipeline ---------------------------
(***************************************************************************)
(* The path of a touch image from the mouse to the client's callback: the  *)
(* mouse compresses a frame and splits it into reports, HIDAPI queues the  *)
(* reports in order, and the decoder of touchmouse.c puts the frame        *)
(* together again.                                                         *)
(*                                                                         *)
(* The firmware is not in the repository.  It is modelled by every         *)
(* encoding the comment above reset_decoder() describes: a zero run may be *)
(* written as a run code or pixel by pixel, bytes may be split anywhere    *)
(* into reports, and the last high nybble of an odd encoding is arbitrary. *)
(* Reports may be lost, because the Linux and Mac backends drop the oldest *)
(* report of a queue that is too long and because the radio link may fail. *)
(***************************************************************************)
EXTENDS Decoder, Sequences

CONSTANTS
  Images,      \* images the mouse captures, a subset of [Index -> Pixel]
  MaxData,     \* data bytes that fit in a report              (25 in the code)
  MaxFrames,   \* bound: frames captured in a behaviour
  MaxLost      \* bound: reports lost in a behaviour

ASSUME PipelineAssumption ==
  /\ Images \subseteq [Index -> Pixel]
  /\ MaxData \in 1 .. MaxLength - 1
  /\ MaxFrames \in Nat
  /\ MaxLost \in Nat

VARIABLES
  channel,     \* reports on their way to the decoder, oldest first
  report,      \* the report the decoder is working on
  captured,    \* history: [image, ts] of every frame, in order
  delivered,   \* history: [image, frames] of every callback, in order
  held,        \* history: frames whose nybbles the decoder holds
  lost         \* history: <<frame, position>> of every lost report

pipeVars == <<channel, report, captured, delivered, held, lost>>
allVars  == <<vars, pipeVars>>

NoReport == [frame |-> 0, ts |-> 0, data |-> <<>>, part |-> 0]

-----------------------------------------------------------------------------
(* The mouse.                                                              *)

\* Lengths of the zero runs of img that start at pixel i and have a code.
CodedRuns(img, i) ==
  {k \in MinRun .. MinRun + RunMark :
     i + k <= ImageLen /\ \A j \in i .. i + k - 1 : img[j] = 0}

\* Nybble sequences that stand for the last r pixels, made from those that
\* stand for fewer.
EncodingsOfLast(img, fewer, r) ==
  IF r = 0 THEN {<<>>}
  ELSE {<<img[ImageLen - r]>> \o s : s \in fewer[r - 1]} \cup
       UNION {{<<RunMark, k - MinRun>> \o s : s \in fewer[r - k]} :
                k \in CodedRuns(img, ImageLen - r)}

\* For every r, all nybble sequences that stand for the last r pixels of img.
Codes(img) ==
  LET last[r \in 0 .. ImageLen] == EncodingsOfLast(img, last, r)
  IN  last

Encodings(img) == Codes(img)[ImageLen]

WholeBytes(s) ==
  IF Len(s) % 2 = 0 THEN {s} ELSE {Append(s, pad) : pad \in Nybble}

\* Ways to cut the first b bytes into the data of reports: the last report
\* takes k of them.
CutsOfFirst(s, shorter, b) ==
  IF b = 0 THEN {<<>>}
  ELSE UNION {{Append(c, SubSeq(s, 2 * (b - k) + 1, 2 * b)) :
                 c \in shorter[b - k]} :
                k \in {j \in 1 .. MaxData : j <= b}}

\* All ways to cut a sequence of whole bytes.
Cuts(s) ==
  LET upTo[b \in 0 .. Len(s) \div 2] == CutsOfFirst(s, upTo, b)
  IN  upTo[Len(s) \div 2]

Transmissions(img) ==
  UNION {Cuts(s) : s \in UNION {WholeBytes(e) : e \in Encodings(img)}}

Capture(img, ts) ==
  /\ Len(captured) < MaxFrames
  /\ captured' = Append(captured, [image |-> img, ts |-> ts])
  /\ \E parts \in Transmissions(img) :
       channel' = channel \o [p \in 1 .. Len(parts) |->
                    [frame |-> Len(captured) + 1, ts |-> ts,
                     data |-> parts[p], part |-> p]]
  /\ UNCHANGED <<vars, report, delivered, held, lost>>

-----------------------------------------------------------------------------
(* The channel loses the oldest report.                                    *)
Lose ==
  /\ channel # <<>>
  /\ Len(lost) < MaxLost
  /\ lost' = Append(lost, <<Head(channel).frame, Head(channel).part>>)
  /\ channel' = Tail(channel)
  /\ UNCHANGED <<vars, report, captured, delivered, held>>

-----------------------------------------------------------------------------
(* The host: hid_read_timeout() returns the oldest report, and             *)
(* touchmouse_process_events_timeout() decodes it.                         *)

Receive ==
  /\ channel # <<>>
  /\ report' = Head(channel)
  /\ channel' = Tail(channel)
  /\ BeginReport(report'.ts, Len(report'.data) \div 2 + 1)
  /\ held' = IF StaleFrame(report'.ts) THEN {} ELSE held
  /\ UNCHANGED <<captured, delivered, lost>>

\* The nybble of the report that is decoded next, the low one of a byte first.
NextInReport == report.data[2 * t + (IF half = "low" THEN 1 ELSE 2)]

DecodeStep ==
  /\ InReport
  /\ \/ /\ DecodeError(NextInReport)
        /\ held' = {}
        /\ UNCHANGED delivered
     \/ /\ DecodeComplete(NextInReport)
        /\ held' = {}
        /\ delivered' = Append(delivered,
             [image |-> callback'.image, frames |-> held \cup {report.frame}])
     \/ /\ DecodeProgress(NextInReport)
        /\ held' = held \cup {report.frame}
        /\ UNCHANGED delivered
  /\ UNCHANGED <<channel, report, captured, lost>>

-----------------------------------------------------------------------------
PipeInit ==
  /\ Init
  /\ channel = <<>> /\ report = NoReport
  /\ captured = <<>> /\ delivered = <<>>
  /\ held = {} /\ lost = <<>>

PipeNext ==
  \/ \E img \in Images, ts \in Timestamps : Capture(img, ts)
  \/ Lose
  \/ Receive
  \/ DecodeStep

PipeSpec == PipeInit /\ [][PipeNext]_allVars

\* The client keeps calling touchmouse_process_events_timeout().
FairPipeSpec ==
  PipeSpec /\ WF_allVars(Receive) /\ WF_allVars(DecodeStep)

-----------------------------------------------------------------------------
(* Properties.                                                             *)

\* The nybbles of whole bytes that fit in a report.
ReportData == UNION {[1 .. 2 * n -> Nybble] : n \in 1 .. MaxData}

Report == [frame : Nat, ts : Timestamps, data : ReportData, part : Nat]

PipeTypeOK ==
  /\ channel \in Seq(Report) /\ report \in Report \cup {NoReport}
  /\ captured \in Seq([image : Images, ts : Timestamps])
  /\ delivered \in Seq([image : [Index -> Pixel], frames : SUBSET Nat])
  /\ held \subseteq 1 .. Len(captured)
  /\ lost \in Seq(Nat \X Nat)

\* Without loss every captured image reaches the callback once, unchanged and
\* in order, whichever encoding and split the mouse chose and even when
\* consecutive frames carry the same timestamp.
Delivery == INSTANCE FrameDelivery WITH
  captured  <- [f \in 1 .. Len(captured)  |-> captured[f].image],
  delivered <- [d \in 1 .. Len(delivered) |-> delivered[d].image]

ImplementsDelivery == Delivery!FairSpec

\* Frames with different timestamps are never merged into one image, whatever
\* reports are lost.  Frames whose 8-bit timestamps coincide can be merged.
OnlyEqualStampsMerge ==
  \A d \in 1 .. Len(delivered) : \A f, g \in delivered[d].frames :
    captured[f].ts = captured[g].ts

LostFrames == {lost[l][1] : l \in 1 .. Len(lost)}

\* No report of frame f is waiting or being decoded.
Settled(f) ==
  /\ \A r \in 1 .. Len(channel) : channel[r].frame # f
  /\ ~(InReport /\ report.frame = f)

\* Frame f lost no report, and no earlier one with its timestamp did.
Intact(f) ==
  /\ f \notin LostFrames
  /\ \A g \in LostFrames : g < f => captured[g].ts # captured[f].ts

\* Frame f came out unchanged in an image made of nothing else, and in no
\* other image.
Arrived(f) ==
  \E d \in 1 .. Len(delivered) :
    /\ delivered[d] = [image |-> captured[f].image, frames |-> {f}]
    /\ \A e \in 1 .. Len(delivered) : f \in delivered[e].frames => e = d

\* The decoder recovers from loss: a frame that arrives whole is delivered
\* once and unchanged, in an image made of nothing else, unless an earlier
\* frame with the same timestamp lost a report.
IntactFrameDelivered ==
  \A f \in 1 .. Len(captured) : Settled(f) /\ Intact(f) => Arrived(f)
=============================================================================
