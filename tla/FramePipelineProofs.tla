------------------------ MODULE FramePipelineProofs ------------------------
(***************************************************************************)
(* Theorems about the path of an image from the mouse to the callback, for *)
(* every image size, grey scale, set of images, report size and number of  *)
(* frames and losses: the decoder behaves as Decoder says whatever the     *)
(* encodings and the losses are, it merges frames only when their          *)
(* timestamps coincide, it delivers every frame that arrives whole, and    *)
(* while nothing is lost it delivers what was captured, in order.          *)
(***************************************************************************)
EXTENDS FramePipeline, DecoderProofs, SequenceTheorems, WellFoundedInduction

-----------------------------------------------------------------------------
(* The inductive invariant.  Its first part needs nothing of what a frame  *)
(* looks like.                                                             *)

\* A report carries the timestamp of the frame it is from.
FromFrame(r) ==
  r.frame \in 1 .. Len(captured) /\ captured[r.frame].ts = r.ts

Stamped == \A r \in 1 .. Len(channel) : FromFrame(channel[r])

\* The loop runs over the data of the report received last.
Decoding ==
  InReport =>
    /\ report \in Report /\ FromFrame(report)
    /\ report.ts = timestamp_in_progress
    /\ length = Len(report.data) \div 2 + 1

\* What the decoder holds is from frames of one timestamp; it holds nothing
\* exactly when it has neither a pixel nor a run mark.
HeldTogether ==
  /\ \A f \in held : captured[f].ts = timestamp_in_progress
  /\ held = {} <=> buf_index = 0 /\ ~next_is_run_encoded

DeliveredCaptured ==
  \A d \in 1 .. Len(delivered) :
    delivered[d].frames \subseteq 1 .. Len(captured)

PipeIInv ==
  /\ PipeTypeOK /\ Stamped /\ Decoding /\ HeldTogether
  /\ DeliveredCaptured /\ OnlyEqualStampsMerge

(* Its second part follows each intact frame: the nybbles of it that are   *)
(* still to be decoded complete what is decoded of it to its image.        *)

\* Nybble sequences that complete img after i pixels, or after i pixels and a
\* run mark.
Completions(img, i, marked) ==
  IF marked
  THEN UNION {{<<k - MinRun>> \o s : s \in Codes(img)[ImageLen - i - k]} :
                k \in CodedRuns(img, i)}
  ELSE Codes(img)[ImageLen - i]

\* The last high nybble may be one without a meaning.
Padded(u, e) == u = e \/ \E pad \in Nybble : u = Append(e, pad)

\* The reports of frame f in queue carry the nybbles u, all but the first now
\* of them; after[p] bytes are in reports from p on.
Laid(f, queue, u, now, after) ==
  /\ after[Len(queue) + 1] = 0
  /\ Len(u) = now + 2 * after[1]
  /\ \A p \in 1 .. Len(queue) :
       IF queue[p].frame = f
       THEN /\ Len(queue[p].data) = 2 * (after[p] - after[p + 1])
            /\ \A j \in 1 .. Len(queue[p].data) :
                 queue[p].data[j] = u[Len(u) - 2 * after[p] + j]
       ELSE after[p] = after[p + 1]

Queued(f, queue, u, now) ==
  \E after \in [1 .. Len(queue) + 1 -> Nat] : Laid(f, queue, u, now, after)

\* How many nybbles of frame f the report in progress still has.
Due(f) ==
  IF InReport /\ report.frame = f THEN Len(report.data) - Consumed ELSE 0

\* The nybbles u of frame f, in the report in progress and in the channel, are
\* still to be decoded.
Remaining(f, u) ==
  /\ Queued(f, channel, u, Due(f))
  /\ \A j \in 1 .. Due(f) : u[j] = report.data[Consumed + j]

\* The decoder holds the image of frame f so far, or nothing of it yet.
Underway(f) ==
  /\ f \in held =>
       /\ held = {f} /\ report.frame = f
       /\ \A i \in 0 .. buf_index - 1 : partial_image[i] = captured[f].image[i]
  /\ InReport /\ report.frame = f /\ f \notin held => held = {}

ToCome(f) ==
  IF f \in held
  THEN Completions(captured[f].image, buf_index, next_is_run_encoded)
  ELSE Completions(captured[f].image, 0, FALSE)

\* Nothing of frame f has been delivered.
Fresh(f) == \A d \in 1 .. Len(delivered) : f \notin delivered[d].frames

Coming(f) ==
  /\ Fresh(f) /\ Underway(f)
  /\ \E u \in Seq(Nybble) :
       Remaining(f, u) /\ \E e \in ToCome(f) : Padded(u, e)

Done(f) == Settled(f) /\ f \notin held /\ Arrived(f)

Followed == \A f \in 1 .. Len(captured) : Intact(f) => Done(f) \/ Coming(f)

\* Frames leave the channel in the order of capture.
InSequence ==
  /\ \A p, q \in 1 .. Len(channel) :
       p < q => channel[p].frame <= channel[q].frame
  /\ \A p \in 1 .. Len(channel) : report.frame <= channel[p].frame
  /\ \A f \in held : f <= report.frame
  /\ report.frame <= Len(captured)

LostCaptured == LostFrames \subseteq 1 .. Len(captured)

\* Until a report is lost the callbacks are the frames in order, and the frames
\* that are on their way are later ones.
InOrder ==
  lost = <<>> =>
    /\ Len(delivered) <= Len(captured)
    /\ \A d \in 1 .. Len(delivered) :
         delivered[d] = [image |-> captured[d].image, frames |-> {d}]
    /\ \A p \in 1 .. Len(channel) : Len(delivered) < channel[p].frame
    /\ InReport => Len(delivered) < report.frame

FrameIInv == InSequence /\ LostCaptured /\ Followed /\ InOrder

-----------------------------------------------------------------------------
(* Recursive functions on 0 .. N.  The arguments that go from the smaller  *)
(* numbers to n are by way of the least number for which they fail.        *)

\* A set that holds each n of 0 .. N when it holds those below n.
LEMMA EveryNumber ==
  ASSUME NEW N \in Nat, NEW T,
         \A n \in 0 .. N : (\A k \in 0 .. N : k < n => k \in T) => n \in T
  PROVE  0 .. N \subseteq T
<1> DEFINE U == {n \in 0 .. N : n \notin T}
           R == {ss \in Nat \X Nat : ss[1] < ss[2]}
<1> SUFFICES ASSUME U # {} PROVE FALSE
  OBVIOUS
<1>1. IsWellFoundedOn(R, Nat)
  BY NatLessThanWellFounded DEF OpToRel
<1>2. \A x, y \in Nat : y < x => <<y, x>> \in R
  OBVIOUS
<1>3. U \subseteq Nat
  OBVIOUS
<1> HIDE DEF R
<1>4. PICK n \in U : \A k \in U : <<k, n>> \notin R
  BY <1>1, <1>3, WFMin
<1>5. \A k \in 0 .. N : k < n => k \in T
  BY <1>2, <1>3, <1>4
<1> QED
  BY <1>4, <1>5

\* F makes of an approximation of a function the next one; at n that depends
\* on the values below n only.
Recursive(N, V, F) ==
  /\ F \in [[0 .. N -> V] -> [0 .. N -> V]]
  /\ \A f, g \in [0 .. N -> V], n \in 0 .. N :
       (\A k \in 0 .. N : k < n => f[k] = g[k]) => F[f][n] = F[g][n]

\* A definition of f[n] by the f[k] for k < n defines a function.
LEMMA FixedPoint ==
  ASSUME NEW N \in Nat, NEW V, V # {}, NEW F, Recursive(N, V, F)
  PROVE  \E f \in [0 .. N -> V] : F[f] = f
<1> DEFINE A == [0 .. N -> V]
           Right(m, f) == \A n \in 0 .. N : n < m => F[f][n] = f[n]
           T == {m \in 0 .. N + 1 : \E f \in A : Right(m, f)}
<1>0. /\ F \in [A -> A]
      /\ \A f, g \in A, n \in 0 .. N :
           (\A k \in 0 .. N : k < n => f[k] = g[k]) => F[f][n] = F[g][n]
  BY DEF Recursive
<1>1. ASSUME NEW m \in 0 .. N + 1, \A k \in 0 .. N + 1 : k < m => k \in T
      PROVE  m \in T
  <2>1. CASE m = 0
    <3>1. PICK v \in V : TRUE
      OBVIOUS
    <3>2. [n \in 0 .. N |-> v] \in A
      OBVIOUS
    <3>3. Right(0, [n \in 0 .. N |-> v])
      OBVIOUS
    <3> QED
      BY <2>1, <3>2, <3>3
  <2>2. CASE m # 0
    <3>1. m - 1 \in 0 .. N + 1 /\ m - 1 < m
      BY <2>2
    <3>2. PICK f \in A : Right(m - 1, f)
      BY <1>1, <3>1
    <3>3. F[f] \in A
      BY <1>0
    <3>4. ASSUME NEW n \in 0 .. N, n < m
          PROVE  F[F[f]][n] = F[f][n]
      <4>1. \A k \in 0 .. N : k < n => F[f][k] = f[k]
        BY <3>2, <3>4
      <4> QED
        BY <1>0, <3>3, <4>1
    <3> QED
      BY <3>3, <3>4
  <2> QED
    BY <2>1, <2>2
<1>2. N + 1 \in T
  <2> HIDE DEF T
  <2>1. N + 1 \in Nat
    OBVIOUS
  <2>2. 0 .. N + 1 \subseteq T
    BY <1>1, <2>1, EveryNumber
  <2> QED
    BY <2>1, <2>2
<1>3. PICK f \in A : Right(N + 1, f)
  BY <1>2
<1>4. F[f] \in A /\ \A n \in 0 .. N : F[f][n] = f[n]
  BY <1>0, <1>3
<1>5. F[f] = f
  BY <1>4
<1> QED
  BY <1>5

-----------------------------------------------------------------------------
(* What the mouse sends.                                                   *)

\* An encoding of r pixels starts with a pixel or with a run.
StartsRight(img, fewer, r, e) ==
  \/ \E s \in fewer[r - 1] : e = <<img[ImageLen - r]>> \o s
  \/ \E k \in CodedRuns(img, ImageLen - r) :
       \E s \in fewer[r - k] : e = <<RunMark, k - MinRun>> \o s

\* The encodings of r pixels, spelled out.
LEMMA LastEncoded ==
  ASSUME NEW img, NEW fewer, NEW r, r # 0, NEW e
  PROVE  e \in EncodingsOfLast(img, fewer, r)
         <=> StartsRight(img, fewer, r, e)
<1> DEFINE Start == {<<img[ImageLen - r]>> \o s : s \in fewer[r - 1]}
           Run(k) == {<<RunMark, k - MinRun>> \o s : s \in fewer[r - k]}
           Runs == {Run(k) : k \in CodedRuns(img, ImageLen - r)}
<1>1. EncodingsOfLast(img, fewer, r) = Start \cup UNION Runs
  BY Zenon DEF EncodingsOfLast
<1>2. e \in Start <=> \E s \in fewer[r - 1] : e = <<img[ImageLen - r]>> \o s
  BY Zenon
<1>3. ASSUME NEW k
      PROVE  e \in Run(k)
             <=> \E s \in fewer[r - k] : e = <<RunMark, k - MinRun>> \o s
  BY Zenon
<1> HIDE DEF Run, Start
<1>4. e \in UNION Runs
      <=> \E k \in CodedRuns(img, ImageLen - r) : e \in Run(k)
  OBVIOUS
<1> HIDE DEF Runs
<1> QED
  BY <1>1, <1>2, <1>3, <1>4, Zenon DEF StartsRight

\* One more pixel or run in front: encodings stay sequences of nybbles.
LEMMA LongerEncodings ==
  ASSUME NEW img \in [Index -> Pixel], NEW r \in 0 .. ImageLen, NEW fewer,
         \A j \in 0 .. ImageLen : j < r => fewer[j] \subseteq Seq(Nybble)
  PROVE  EncodingsOfLast(img, fewer, r) \subseteq Seq(Nybble)
<1> SUFFICES ASSUME NEW e \in EncodingsOfLast(img, fewer, r)
             PROVE  e \in Seq(Nybble)
  OBVIOUS
<1>1. ImageLen \in Nat /\ RunMark \in Nat /\ MinRun \in Nat \ {0}
  BY DecoderAssumption
<1>2. CASE r = 0
  BY <1>2, EmptySeq DEF EncodingsOfLast
<1>3. CASE r # 0 /\ \E s \in fewer[r - 1] : e = <<img[ImageLen - r]>> \o s
  <2>1. PICK s \in fewer[r - 1] : e = <<img[ImageLen - r]>> \o s
    BY <1>3
  <2>2. r - 1 \in 0 .. ImageLen /\ r - 1 < r /\ ImageLen - r \in Index
    BY <1>1, <1>3 DEF Index
  <2>3. img[ImageLen - r] \in Nybble
    BY <1>1, <2>2 DEF Pixel, Nybble
  <2>4. s \in Seq(Nybble) /\ <<img[ImageLen - r]>> \in Seq(Nybble)
    BY <2>2, <2>3
  <2> QED
    BY <2>1, <2>4, ConcatProperties
<1>4. CASE r # 0 /\ \E k \in CodedRuns(img, ImageLen - r) :
             \E s \in fewer[r - k] : e = <<RunMark, k - MinRun>> \o s
  <2>0. PICK k \in CodedRuns(img, ImageLen - r) :
          \E s \in fewer[r - k] : e = <<RunMark, k - MinRun>> \o s
    BY <1>4
  <2>1. PICK s \in fewer[r - k] : e = <<RunMark, k - MinRun>> \o s
    BY <2>0
  <2>2. k \in MinRun .. MinRun + RunMark /\ (ImageLen - r) + k <= ImageLen
    BY <2>1 DEF CodedRuns
  <2>3. r - k \in 0 .. ImageLen /\ r - k < r
    BY <1>1, <2>2
  <2>4. RunMark \in Nybble /\ k - MinRun \in Nybble
    BY <1>1, <2>2 DEF Nybble
  <2>5. s \in Seq(Nybble) /\ <<RunMark, k - MinRun>> \in Seq(Nybble)
    BY <2>1, <2>3, <2>4
  <2> QED
    BY <2>1, <2>5, ConcatProperties
<1> QED
  <2>1. r # 0 => StartsRight(img, fewer, r, e)
    BY LastEncoded
  <2> QED
    BY <1>2, <1>3, <1>4, <2>1, Zenon DEF StartsRight

\* Only what is known of shorter encodings matters.
LEMMA EncodingsFromFewer ==
  ASSUME NEW img \in [Index -> Pixel], NEW r \in 0 .. ImageLen, NEW f, NEW g,
         \A j \in 0 .. ImageLen : j < r => f[j] = g[j]
  PROVE  EncodingsOfLast(img, f, r) = EncodingsOfLast(img, g, r)
<1>1. ImageLen \in Nat /\ RunMark \in Nat /\ MinRun \in Nat \ {0}
  BY DecoderAssumption
<1>2. CASE r = 0
  BY <1>2 DEF EncodingsOfLast
<1>3. CASE r # 0
  <2>1. f[r - 1] = g[r - 1]
    <3>1. r - 1 \in 0 .. ImageLen /\ r - 1 < r
      BY <1>1, <1>3
    <3> QED
      BY <3>1
  <2>2. ASSUME NEW k \in CodedRuns(img, ImageLen - r)
        PROVE  f[r - k] = g[r - k]
    <3>1. k \in MinRun .. MinRun + RunMark /\ (ImageLen - r) + k <= ImageLen
      BY DEF CodedRuns
    <3>2. r - k \in 0 .. ImageLen /\ r - k < r
      BY <1>1, <3>1
    <3> QED
      BY <3>2
  <2>3. ASSUME NEW e
        PROVE  e \in EncodingsOfLast(img, f, r)
               <=> e \in EncodingsOfLast(img, g, r)
    <3>1. e \in EncodingsOfLast(img, f, r)
            <=> StartsRight(img, f, r, e)
      BY <1>3, LastEncoded
    <3>2. e \in EncodingsOfLast(img, g, r)
            <=> StartsRight(img, g, r, e)
      BY <1>3, LastEncoded
    <3> QED
      BY <2>1, <2>2, <3>1, <3>2, Zenon DEF StartsRight
  <2> QED
    BY <2>3
<1> QED
  BY <1>2, <1>3

\* The recursive definition of the encodings has a solution.
LEMMA CodesRecursive ==
  ASSUME NEW img \in [Index -> Pixel]
  PROVE  Codes(img) =
           [r \in 0 .. ImageLen |-> EncodingsOfLast(img, Codes(img), r)]
<1> DEFINE V == SUBSET Seq(Nybble)
           A == [0 .. ImageLen -> V]
           F == [f \in A |->
                   [r \in 0 .. ImageLen |-> EncodingsOfLast(img, f, r)]]
           Fits(f) == f = [r \in 0 .. ImageLen |-> EncodingsOfLast(img, f, r)]
           last == CHOOSE f : Fits(f)
<1>1. ImageLen \in Nat
  BY DecoderAssumption
<1>2. ASSUME NEW f \in A, NEW r \in 0 .. ImageLen
      PROVE  EncodingsOfLast(img, f, r) \in V
  <2>1. \A j \in 0 .. ImageLen : j < r => f[j] \subseteq Seq(Nybble)
    OBVIOUS
  <2> QED
    BY <2>1, LongerEncodings
<1>3. F \in [A -> A]
  BY <1>2
<1>4. \A f, g \in A, r \in 0 .. ImageLen :
        (\A j \in 0 .. ImageLen : j < r => f[j] = g[j]) => F[f][r] = F[g][r]
  <2> SUFFICES ASSUME NEW f \in A, NEW g \in A, NEW r \in 0 .. ImageLen,
                      \A j \in 0 .. ImageLen : j < r => f[j] = g[j]
               PROVE  F[f][r] = F[g][r]
    BY Zenon
  <2>1. EncodingsOfLast(img, f, r) = EncodingsOfLast(img, g, r)
    BY EncodingsFromFewer
  <2> QED
    BY <2>1, Zenon
<1>5. \E f \in A : F[f] = f
  <2>1. V # {}
    OBVIOUS
  <2>2. Recursive(ImageLen, V, F)
    BY <1>3, <1>4, Zenon DEF Recursive
  <2> HIDE DEF V, F
  <2> QED
    BY <1>1, <2>1, <2>2, FixedPoint
<1>6. Fits(last)
  BY <1>5
<1>7. Codes(img) = last
  BY DEF Codes
<1> QED
  BY <1>6, <1>7

\* Every encoding of pixels is a sequence of nybbles.
LEMMA CodesTyped ==
  ASSUME NEW img \in [Index -> Pixel], NEW r \in 0 .. ImageLen
  PROVE  /\ Codes(img)[r] = EncodingsOfLast(img, Codes(img), r)
         /\ Codes(img)[r] \subseteq Seq(Nybble)
<1> DEFINE T == {n \in 0 .. ImageLen : Codes(img)[n] \subseteq Seq(Nybble)}
<1>1. ImageLen \in Nat
  BY DecoderAssumption
<1>2. \A n \in 0 .. ImageLen :
        Codes(img)[n] = EncodingsOfLast(img, Codes(img), n)
  BY CodesRecursive
<1>3. ASSUME NEW n \in 0 .. ImageLen,
             \A k \in 0 .. ImageLen : k < n => k \in T
      PROVE  n \in T
  BY <1>2, <1>3, LongerEncodings
<1>4. 0 .. ImageLen \subseteq T
  <2> HIDE DEF T
  <2> QED
    BY <1>1, <1>3, EveryNumber
<1> QED
  BY <1>2, <1>4

\* Every encoding of an image is a sequence of nybbles.
LEMMA EncodingsTyped ==
  ASSUME NEW img \in [Index -> Pixel]
  PROVE  Encodings(img) \subseteq Seq(Nybble)
<1>1. ImageLen \in 0 .. ImageLen
  BY DecoderAssumption
<1> QED
  BY <1>1, CodesTyped DEF Encodings

\* A last high nybble without a meaning makes the bytes whole.
LEMMA WholeBytesTyped ==
  ASSUME NEW s \in Seq(Nybble), NEW w \in WholeBytes(s)
  PROVE  w \in Seq(Nybble)
BY AppendProperties DEF WholeBytes

\* The last report of a cut carries the last bytes.
EndsRight(s, shorter, b, parts) ==
  \E k \in 1 .. MaxData : k <= b /\ \E c \in shorter[b - k] :
    parts = Append(c, SubSeq(s, 2 * (b - k) + 1, 2 * b))

\* A cut is a shorter cut and a last report.
LEMMA LastCut ==
  ASSUME NEW s, NEW shorter, NEW b, b # 0, NEW parts
  PROVE  parts \in CutsOfFirst(s, shorter, b)
         <=> EndsRight(s, shorter, b, parts)
<1> DEFINE Last(k) == {Append(c, SubSeq(s, 2 * (b - k) + 1, 2 * b)) :
                         c \in shorter[b - k]}
           Lasts == {Last(k) : k \in {j \in 1 .. MaxData : j <= b}}
<1>1. CutsOfFirst(s, shorter, b) = UNION Lasts
  BY Zenon DEF CutsOfFirst
<1>2. ASSUME NEW k
      PROVE  parts \in Last(k) <=> \E c \in shorter[b - k] :
               parts = Append(c, SubSeq(s, 2 * (b - k) + 1, 2 * b))
  BY Zenon
<1> HIDE DEF Last
<1>3. parts \in UNION Lasts
      <=> \E k \in 1 .. MaxData : k <= b /\ parts \in Last(k)
  OBVIOUS
<1> HIDE DEF Lasts
<1> QED
  BY <1>1, <1>2, <1>3, Zenon DEF EndsRight

\* One more report at the end: cuts stay sequences of report data.
LEMMA LongerCuts ==
  ASSUME NEW s \in Seq(Nybble), NEW b \in 0 .. Len(s) \div 2, NEW shorter,
         \A j \in 0 .. Len(s) \div 2 :
           j < b => shorter[j] \subseteq Seq(ReportData)
  PROVE  CutsOfFirst(s, shorter, b) \subseteq Seq(ReportData)
<1> SUFFICES ASSUME NEW parts \in CutsOfFirst(s, shorter, b)
             PROVE  parts \in Seq(ReportData)
  OBVIOUS
<1>1. Len(s) \in Nat /\ Len(s) \div 2 \in Nat /\ 2 * (Len(s) \div 2) <= Len(s)
  <2>1. Len(s) \in Nat
    BY LenProperties
  <2> QED
    BY <2>1
<1>2. CASE b = 0
  BY <1>2, EmptySeq DEF CutsOfFirst
<1>3. CASE b # 0
  <2>1. EndsRight(s, shorter, b, parts)
    BY <1>3, LastCut
  <2>2. PICK k \in 1 .. MaxData :
          k <= b /\ \E c \in shorter[b - k] :
            parts = Append(c, SubSeq(s, 2 * (b - k) + 1, 2 * b))
    BY <2>1 DEF EndsRight
  <2>3. PICK c \in shorter[b - k] :
          parts = Append(c, SubSeq(s, 2 * (b - k) + 1, 2 * b))
    BY <2>2
  <2> DEFINE first == 2 * (b - k) + 1
             data == SubSeq(s, first, 2 * b)
  <2>4. /\ k \in Nat \ {0} /\ b - k \in 0 .. Len(s) \div 2 /\ b - k < b
        /\ first \in 1 .. 2 * b /\ 2 * b \in 1 .. Len(s)
        /\ 2 * b - first + 1 = 2 * k
    <3>1. PICK whole \in Nat : whole = Len(s) \div 2 /\ 2 * whole <= Len(s)
      BY <1>1
    <3>2. b \in 0 .. whole /\ k \in Nat \ {0} /\ k <= b
      BY <2>2, <3>1
    <3>3. b - k \in 0 .. whole /\ b - k < b /\ 2 * b <= Len(s)
      BY <1>1, <3>1, <3>2
    <3>4. first \in 1 .. 2 * b /\ 2 * b - first + 1 = 2 * k
      BY <3>2
    <3> QED
      BY <1>1, <3>1, <3>2, <3>3, <3>4
  <2>5. c \in Seq(ReportData)
    BY <2>3, <2>4
  <2>6. data \in [1 .. 2 * k -> Nybble]
    <3>1. \A i \in first .. 2 * b : s[i] \in Nybble
      <4> SUFFICES ASSUME NEW i \in first .. 2 * b PROVE s[i] \in Nybble
        OBVIOUS
      <4>1. i \in 1 .. Len(s)
        BY <1>1, <2>4
      <4> QED
        BY <4>1, ElementOfSeq
    <3>2. first \in Int /\ 2 * b \in Int /\ first <= 2 * b
      BY <2>4
    <3> HIDE DEF first
    <3>3. data \in Seq(Nybble) /\ Len(data) = 2 * b - first + 1
      BY <3>1, <3>2, SubSeqProperties
    <3>4. Len(data) = 2 * k
      BY <2>4, <3>3
    <3> HIDE DEF data
    <3> QED
      BY <3>3, <3>4, LenProperties
  <2>7. data \in ReportData
    BY <2>6 DEF ReportData
  <2> HIDE DEF data
  <2>8. Append(c, data) \in Seq(ReportData)
    BY <2>5, <2>7, AppendProperties
  <2> QED
    BY <2>3, <2>8 DEF data
<1> QED
  BY <1>2, <1>3

\* Only what is known of shorter cuts matters.
LEMMA CutsFromShorter ==
  ASSUME NEW s \in Seq(Nybble), NEW b \in 0 .. Len(s) \div 2, NEW f, NEW g,
         \A j \in 0 .. Len(s) \div 2 : j < b => f[j] = g[j]
  PROVE  CutsOfFirst(s, f, b) = CutsOfFirst(s, g, b)
<1>1. Len(s) \div 2 \in Nat
  <2>1. Len(s) \in Nat
    BY LenProperties
  <2> QED
    BY <2>1
<1>2. CASE b = 0
  BY <1>2 DEF CutsOfFirst
<1>3. CASE b # 0
  <2>1. ASSUME NEW k \in 1 .. MaxData, k <= b
        PROVE  f[b - k] = g[b - k]
    <3>1. b - k \in 0 .. Len(s) \div 2 /\ b - k < b
      BY <1>1, <2>1
    <3> QED
      BY <3>1
  <2>2. ASSUME NEW parts
        PROVE  parts \in CutsOfFirst(s, f, b)
               <=> parts \in CutsOfFirst(s, g, b)
    <3>1. parts \in CutsOfFirst(s, f, b) <=> EndsRight(s, f, b, parts)
      BY <1>3, LastCut
    <3>2. parts \in CutsOfFirst(s, g, b) <=> EndsRight(s, g, b, parts)
      BY <1>3, LastCut
    <3> QED
      BY <2>1, <3>1, <3>2, Zenon DEF EndsRight
  <2> QED
    BY <2>2
<1> QED
  BY <1>2, <1>3

\* The recursive definition of the cuts has a solution, of data that fits in
\* reports.
LEMMA CutsRecursive ==
  ASSUME NEW s \in Seq(Nybble)
  PROVE  \E upTo : /\ Cuts(s) = upTo[Len(s) \div 2]
                   /\ \A b \in 0 .. Len(s) \div 2 :
                        /\ upTo[b] = CutsOfFirst(s, upTo, b)
                        /\ upTo[b] \subseteq Seq(ReportData)
<1> DEFINE N == Len(s) \div 2
           V == SUBSET Seq(ReportData)
           A == [0 .. N -> V]
           F == [f \in A |-> [b \in 0 .. N |-> CutsOfFirst(s, f, b)]]
           Fits(f) == f = [b \in 0 .. N |-> CutsOfFirst(s, f, b)]
           upTo == CHOOSE f : Fits(f)
<1>1. N \in Nat
  <2>1. Len(s) \in Nat
    BY LenProperties
  <2> QED
    BY <2>1
<1>2. ASSUME NEW f \in A, NEW b \in 0 .. N
      PROVE  CutsOfFirst(s, f, b) \in V
  <2>1. \A j \in 0 .. N : j < b => f[j] \subseteq Seq(ReportData)
    OBVIOUS
  <2> QED
    BY <2>1, LongerCuts
<1>3. F \in [A -> A]
  BY <1>2
<1>4. \A f, g \in A, b \in 0 .. N :
        (\A j \in 0 .. N : j < b => f[j] = g[j]) => F[f][b] = F[g][b]
  <2> SUFFICES ASSUME NEW f \in A, NEW g \in A, NEW b \in 0 .. N,
                      \A j \in 0 .. N : j < b => f[j] = g[j]
               PROVE  F[f][b] = F[g][b]
    BY Zenon
  <2>1. CutsOfFirst(s, f, b) = CutsOfFirst(s, g, b)
    BY CutsFromShorter
  <2> QED
    BY <2>1, Zenon
<1>5. \E f \in A : F[f] = f
  <2>1. V # {}
    OBVIOUS
  <2>2. Recursive(N, V, F)
    BY <1>3, <1>4, Zenon DEF Recursive
  <2> HIDE DEF N, V, F
  <2> QED
    BY <1>1, <2>1, <2>2, FixedPoint
<1>6. Fits(upTo)
  BY <1>5
<1> DEFINE T == {b \in 0 .. N : upTo[b] \subseteq Seq(ReportData)}
<1>7. ASSUME NEW b \in 0 .. N, \A j \in 0 .. N : j < b => j \in T
      PROVE  b \in T
  <2> HIDE DEF upTo
  <2>1. upTo[b] = CutsOfFirst(s, upTo, b)
    BY <1>6
  <2> QED
    BY <1>7, <2>1, LongerCuts
<1>8. 0 .. N \subseteq T
  <2> HIDE DEF T, N
  <2> QED
    BY <1>1, <1>7, EveryNumber
<1>9. Cuts(s) = upTo[N]
  BY DEF Cuts
<1> HIDE DEF upTo
<1> QED
  BY <1>6, <1>8, <1>9

\* Every cut of a sequence of nybbles is into data that fits in reports.
LEMMA CutsTyped ==
  ASSUME NEW s \in Seq(Nybble)
  PROVE  Cuts(s) \subseteq Seq(ReportData)
<1>1. Len(s) \in Nat
  BY LenProperties
<1>2. Len(s) \div 2 \in 0 .. Len(s) \div 2
  BY <1>1
<1> QED
  BY <1>2, CutsRecursive

\* What the mouse sends for an image is a sequence of report data.
LEMMA TransmissionsTyped ==
  ASSUME NEW img \in Images
  PROVE  Transmissions(img) \subseteq Seq(ReportData)
<1> SUFFICES ASSUME NEW parts \in Transmissions(img)
             PROVE  parts \in Seq(ReportData)
  OBVIOUS
<1>1. PICK s \in UNION {WholeBytes(e) : e \in Encodings(img)} :
        parts \in Cuts(s)
  BY Zenon DEF Transmissions
<1>2. PICK e \in Encodings(img) : s \in WholeBytes(e)
  BY <1>1, Zenon
<1>3. img \in [Index -> Pixel]
  BY PipelineAssumption
<1>4. e \in Seq(Nybble)
  BY <1>2, <1>3, EncodingsTyped
<1>5. s \in Seq(Nybble)
  BY <1>2, <1>4, WholeBytesTyped
<1> QED
  BY <1>1, <1>5, CutsTyped

\* The length byte of a report with data is in range, and its loop goes over
\* the nybbles of that data.
LEMMA DataFits ==
  ASSUME NEW data \in ReportData
  PROVE  /\ Len(data) \div 2 \in Nat
         /\ Len(data) \div 2 + 1 \in 0 .. MaxLength
         /\ \A i \in 0 .. Len(data) \div 2 - 1 :
              data[2 * i + 1] \in Nybble /\ data[2 * i + 2] \in Nybble
<1>1. PICK n \in 1 .. MaxData : data \in [1 .. 2 * n -> Nybble]
  BY DEF ReportData
<1>2. n \in Nat /\ n + 1 <= MaxLength /\ MaxLength \in Nat
  BY PipelineAssumption, DecoderAssumption
<1>3. Len(data) = 2 * n
  <2>1. 2 * n \in Nat
    BY <1>2
  <2> QED
    BY <1>1, <2>1
<1>4. Len(data) \div 2 = n
  BY <1>2, <1>3
<1>5. ASSUME NEW i \in 0 .. n - 1
      PROVE  data[2 * i + 1] \in Nybble /\ data[2 * i + 2] \in Nybble
  <2>1. 2 * i + 1 \in 1 .. 2 * n /\ 2 * i + 2 \in 1 .. 2 * n
    BY <1>2
  <2> QED
    BY <1>1, <2>1
<1> QED
  BY <1>2, <1>4, <1>5

-----------------------------------------------------------------------------
(* What completes an image, nybble by nybble.                              *)

\* One nybble in front of a sequence.
LEMMA InFront ==
  ASSUME NEW x \in Nybble, NEW s \in Seq(Nybble)
  PROVE  /\ <<x>> \o s \in Seq(Nybble) /\ <<x>> \o s # <<>>
         /\ (<<x>> \o s)[1] = x /\ Tail(<<x>> \o s) = s
<1>1. <<x>> \in Seq(Nybble) /\ Len(<<x>>) = 1 /\ <<x>>[1] = x
  OBVIOUS
<1> DEFINE c == <<x>> \o s
<1>2. /\ c \in Seq(Nybble) /\ Len(c) = 1 + Len(s)
      /\ \A i \in 1 .. 1 + Len(s) : c[i] = IF i <= 1 THEN x ELSE s[i - 1]
  BY <1>1, ConcatProperties
<1>3. Len(s) \in Nat
  BY LenProperties
<1> HIDE DEF c
<1>4. c # <<>>
  BY <1>2, <1>3, EmptySeq
<1>5. /\ Tail(c) \in Seq(Nybble) /\ Len(Tail(c)) = Len(s)
      /\ \A i \in 1 .. Len(Tail(c)) : Tail(c)[i] = c[i + 1]
  BY <1>2, <1>3, <1>4, HeadTailProperties
<1>6. \A i \in 1 .. Len(Tail(c)) : Tail(c)[i] = s[i]
  BY <1>2, <1>3, <1>5
<1>7. Tail(c) = s
  BY <1>5, <1>6, SeqEqual
<1>8. c[1] = x
  BY <1>2, <1>3
<1> QED
  BY <1>2, <1>4, <1>7, <1>8 DEF c

\* A run mark and a length in front of a sequence.
LEMMA TwoInFront ==
  ASSUME NEW x \in Nybble, NEW y \in Nybble, NEW s \in Seq(Nybble)
  PROVE  <<x, y>> \o s = <<x>> \o (<<y>> \o s)
<1>1. <<x>> \in Seq(Nybble) /\ <<y>> \in Seq(Nybble)
  OBVIOUS
<1>2. <<x>> \o <<y>> = <<x, y>>
  <2>1. Append(<<x>>, y) = <<x>> \o <<y>>
    BY <1>1, AppendIsConcat
  <2> DEFINE a == Append(<<x>>, y)
             b == <<x, y>>
  <2>2. b \in Seq(Nybble) /\ Len(b) = 2 /\ b[1] = x /\ b[2] = y
    OBVIOUS
  <2>3. Len(<<x>>) = 1 /\ <<x>>[1] = x
    OBVIOUS
  <2>4. a \in Seq(Nybble) /\ Len(a) = 2 /\ a[1] = x /\ a[2] = y
    BY <1>1, <2>3, AppendProperties
  <2> HIDE DEF a, b
  <2>5. \A i \in 1 .. Len(a) : a[i] = b[i]
    BY <2>2, <2>4
  <2>6. a = b
    BY <2>2, <2>4, <2>5, SeqEqual
  <2> QED
    BY <2>1, <2>6 DEF a, b
<1>3. (<<x>> \o <<y>>) \o s = <<x>> \o (<<y>> \o s)
  BY <1>1, ConcatAssociative
<1> QED
  BY <1>2, <1>3

\* A completion of an image that is not complete starts with the next pixel, a
\* run mark, or the length of the run that is marked; the rest completes what
\* the decoder has then.
LEMMA FirstOfCompletion ==
  ASSUME NEW img \in [Index -> Pixel], NEW i \in Index, NEW marked \in BOOLEAN,
         NEW e \in Completions(img, i, marked)
  PROVE  /\ e \in Seq(Nybble) /\ e # <<>>
         /\ marked =>
              \E k \in CodedRuns(img, i) :
                e[1] = k - MinRun /\ Tail(e) \in Completions(img, i + k, FALSE)
         /\ ~marked =>
              \/ e[1] = img[i] /\ Tail(e) \in Completions(img, i + 1, FALSE)
              \/ e[1] = RunMark /\ Tail(e) \in Completions(img, i, TRUE)
<1>1. ImageLen \in Nat /\ RunMark \in Nat /\ MinRun \in Nat \ {0}
  BY DecoderAssumption
<1>2. /\ i \in Nat /\ ImageLen - i \in 0 .. ImageLen /\ ImageLen - i # 0
      /\ ImageLen - (ImageLen - i) = i /\ ImageLen - i - 1 \in 0 .. ImageLen
      /\ ImageLen - (i + 1) = ImageLen - i - 1
  BY <1>1 DEF Index
<1>3. ASSUME NEW k \in CodedRuns(img, i)
      PROVE  /\ k - MinRun \in Nybble /\ ImageLen - i - k \in 0 .. ImageLen
             /\ ImageLen - (i + k) = ImageLen - i - k
  <2>1. k \in MinRun .. MinRun + RunMark /\ i + k <= ImageLen
    BY DEF CodedRuns
  <2> QED
    BY <1>1, <1>2, <2>1 DEF Nybble
<1>4. RunMark \in Nybble /\ img[i] \in Nybble
  BY <1>1 DEF Nybble, Pixel
<1>5. CASE marked
  <2>1. PICK k \in CodedRuns(img, i) :
          e \in {<<k - MinRun>> \o s : s \in Codes(img)[ImageLen - i - k]}
    BY <1>5, Zenon DEF Completions
  <2>2. PICK s \in Codes(img)[ImageLen - i - k] : e = <<k - MinRun>> \o s
    BY <2>1
  <2>3. s \in Seq(Nybble)
    BY <1>3, <2>2, CodesTyped
  <2>4. s \in Completions(img, i + k, FALSE)
    BY <1>3, <2>2 DEF Completions
  <2>5. k - MinRun \in Nybble
    BY <1>3
  <2>6. /\ e \in Seq(Nybble) /\ e # <<>>
        /\ e[1] = k - MinRun /\ Tail(e) = s
    BY <2>2, <2>3, <2>5, InFront
  <2> QED
    BY <1>5, <2>4, <2>6
<1>6. CASE ~marked
  <2>1. e \in EncodingsOfLast(img, Codes(img), ImageLen - i)
    BY <1>2, <1>6, CodesTyped DEF Completions
  <2>2. StartsRight(img, Codes(img), ImageLen - i, e)
    BY <1>2, <2>1, LastEncoded
  <2>3. CASE \E s \in Codes(img)[ImageLen - i - 1] : e = <<img[i]>> \o s
    <3>1. PICK s \in Codes(img)[ImageLen - i - 1] : e = <<img[i]>> \o s
      BY <2>3
    <3>2. s \in Seq(Nybble)
      BY <1>2, <3>1, CodesTyped
    <3>3. s \in Completions(img, i + 1, FALSE)
      BY <1>2, <3>1 DEF Completions
    <3>4. /\ e \in Seq(Nybble) /\ e # <<>>
          /\ e[1] = img[i] /\ Tail(e) = s
      BY <1>4, <3>1, <3>2, InFront
    <3> QED
      BY <1>6, <3>3, <3>4
  <2>4. CASE \E k \in CodedRuns(img, i) :
               \E s \in Codes(img)[ImageLen - i - k] :
                 e = <<RunMark, k - MinRun>> \o s
    <3>1. PICK k \in CodedRuns(img, i) :
            \E s \in Codes(img)[ImageLen - i - k] :
              e = <<RunMark, k - MinRun>> \o s
      BY <2>4
    <3>2. PICK s \in Codes(img)[ImageLen - i - k] :
            e = <<RunMark, k - MinRun>> \o s
      BY <3>1
    <3>3. s \in Seq(Nybble)
      BY <1>3, <3>2, CodesTyped
    <3> DEFINE r == <<k - MinRun>> \o s
    <3>4. r \in Completions(img, i, TRUE)
      <4>1. r \in {<<k - MinRun>> \o z : z \in Codes(img)[ImageLen - i - k]}
        BY <3>2
      <4> QED
        BY <4>1, Zenon DEF Completions
    <3>5. k - MinRun \in Nybble
      BY <1>3
    <3>6. r \in Seq(Nybble) /\ e = <<RunMark>> \o r
      <4>1. r \in Seq(Nybble)
        BY <3>3, <3>5, InFront
      <4>2. e = <<RunMark>> \o r
        BY <1>4, <3>2, <3>3, <3>5, TwoInFront
      <4> QED
        BY <4>1, <4>2
    <3> HIDE DEF r
    <3>7. e # <<>> /\ e[1] = RunMark /\ Tail(e) = r /\ e \in Seq(Nybble)
      BY <1>4, <3>6, InFront
    <3> QED
      BY <1>6, <3>4, <3>7
  <2> QED
    BY <1>2, <2>2, <2>3, <2>4, Zenon DEF StartsRight
<1> QED
  BY <1>5, <1>6

\* Nothing completes an image that is complete.
LEMMA NothingCompletes ==
  ASSUME NEW img \in [Index -> Pixel]
  PROVE  Completions(img, ImageLen, FALSE) = {<<>>}
<1>1. ImageLen \in Nat /\ ImageLen - ImageLen = 0 /\ 0 \in 0 .. ImageLen
  BY DecoderAssumption
<1> QED
  BY <1>1, CodesTyped DEF Completions, EncodingsOfLast

\* Padding does not change the first nybble, nor that the rest is padded.
LEMMA FirstOfPadded ==
  ASSUME NEW e \in Seq(Nybble), e # <<>>, NEW u \in Seq(Nybble), Padded(u, e)
  PROVE  u # <<>> /\ u[1] = e[1] /\ Padded(Tail(u), Tail(e))
<1>1. CASE u = e
  BY <1>1 DEF Padded
<1>2. CASE \E pad \in Nybble : u = Append(e, pad)
  <2>1. PICK pad \in Nybble : u = Append(e, pad)
    BY <1>2
  <2>2. u # <<>> /\ u[1] = e[1]
    <3>1. Len(e) \in Nat \ {0}
      BY EmptySeq
    <3> QED
      BY <2>1, <3>1, AppendProperties
  <2>3. Tail(u) = Append(Tail(e), pad)
    BY <2>1, HeadTailAppend
  <2> QED
    BY <2>2, <2>3 DEF Padded
<1> QED
  BY <1>1, <1>2 DEF Padded

\* A padded completion of a complete image is at most one nybble.
LEMMA PaddedNothing ==
  ASSUME NEW u, Padded(u, <<>>)
  PROVE  Len(u) \in {0, 1}
BY DEF Padded

-----------------------------------------------------------------------------
(* The reports of a frame in a queue.                                      *)

\* A report carries at least one whole byte.
LEMMA DataLength ==
  ASSUME NEW data \in ReportData
  PROVE  \E n \in Nat \ {0} :
           Len(data) = 2 * n /\ data \in [1 .. 2 * n -> Nybble]
<1>1. PICK n \in 1 .. MaxData : data \in [1 .. 2 * n -> Nybble]
  BY DEF ReportData
<1>2. n \in Nat \ {0} /\ 2 * n \in Nat
  BY <1>1, PipelineAssumption, DecoderAssumption
<1> QED
  BY <1>1, <1>2

\* What a report of frame f in a queue is, with the numbers as integers.
LEMMA LaidAt ==
  ASSUME NEW f, NEW queue \in Seq(Report), NEW u \in Seq(Nybble),
         NEW now \in Nat, NEW after \in [1 .. Len(queue) + 1 -> Nat],
         Laid(f, queue, u, now, after), NEW p \in 1 .. Len(queue)
  PROVE  /\ after[p] \in Nat /\ after[p + 1] \in Nat
         /\ after[p + 1] <= after[p]
         /\ queue[p].frame = f => after[p + 1] < after[p]
<1>1. Len(queue) \in Nat
  BY LenProperties
<1>2. p \in 1 .. Len(queue) + 1 /\ p + 1 \in 1 .. Len(queue) + 1
  BY <1>1
<1>3. after[p] \in Nat /\ after[p + 1] \in Nat
  BY <1>2
<1>4. queue[p].data \in ReportData
  <2>1. queue[p] \in Report
    BY ElementOfSeq
  <2> QED
    BY <2>1 DEF Report
<1>5. CASE queue[p].frame = f
  <2>1. Len(queue[p].data) = 2 * (after[p] - after[p + 1])
    BY <1>5 DEF Laid
  <2>2. PICK n \in Nat \ {0} : Len(queue[p].data) = 2 * n
    BY <1>4, DataLength
  <2> QED
    BY <1>3, <2>1, <2>2
<1>6. CASE queue[p].frame # f
  BY <1>3, <1>6 DEF Laid
<1> QED
  BY <1>3, <1>5, <1>6

\* Further back in a queue there is less to come.
LEMMA LessBehind ==
  ASSUME NEW f, NEW queue \in Seq(Report), NEW u \in Seq(Nybble),
         NEW now \in Nat, NEW after \in [1 .. Len(queue) + 1 -> Nat],
         Laid(f, queue, u, now, after), NEW p \in 1 .. Len(queue) + 1
  PROVE  after[p] <= after[1]
<1> DEFINE N == Len(queue)
           T == {n \in 0 .. N : after[n + 1] <= after[1]}
<1>1. N \in Nat
  BY LenProperties
<1>2. ASSUME NEW n \in 0 .. N, \A k \in 0 .. N : k < n => k \in T
      PROVE  n \in T
  <2>1. CASE n = 0
    <3>1. after[1] \in Nat
      BY <1>1
    <3> QED
      BY <2>1, <3>1
  <2>2. CASE n # 0
    <3>1. /\ n - 1 \in 0 .. N /\ n - 1 < n /\ n \in 1 .. N
          /\ (n - 1) + 1 = n
      BY <1>1, <2>2
    <3>2. after[n] <= after[1]
      BY <1>2, <3>1
    <3>3. after[n] \in Nat /\ after[n + 1] \in Nat /\ after[n + 1] <= after[n]
      BY <3>1, LaidAt
    <3>4. after[1] \in Nat
      BY <1>1
    <3> QED
      BY <3>2, <3>3, <3>4
  <2> QED
    BY <2>1, <2>2
<1>3. 0 .. N \subseteq T
  <2> HIDE DEF T
  <2> QED
    BY <1>1, <1>2, EveryNumber
<1>4. p - 1 \in 0 .. N /\ (p - 1) + 1 = p
  BY <1>1
<1> QED
  BY <1>3, <1>4

\* Without a report of the frame, nothing of it is queued.
LEMMA NoneQueued ==
  ASSUME NEW f, NEW queue \in Seq(Report), NEW u \in Seq(Nybble),
         NEW now \in Nat, Queued(f, queue, u, now),
         \A p \in 1 .. Len(queue) : queue[p].frame # f
  PROVE  Len(u) = now
<1> DEFINE N == Len(queue)
<1>1. PICK after \in [1 .. N + 1 -> Nat] : Laid(f, queue, u, now, after)
  BY DEF Queued
<1> DEFINE T == {n \in 0 .. N : after[n + 1] = after[1]}
<1>2. N \in Nat
  BY LenProperties
<1>3. ASSUME NEW n \in 0 .. N, \A k \in 0 .. N : k < n => k \in T
      PROVE  n \in T
  <2>1. CASE n = 0
    BY <2>1
  <2>2. CASE n # 0
    <3>1. /\ n - 1 \in 0 .. N /\ n - 1 < n /\ n \in 1 .. N
          /\ (n - 1) + 1 = n
      BY <1>2, <2>2
    <3>2. after[n] = after[1]
      BY <1>3, <3>1
    <3>3. after[n] = after[n + 1]
      BY <1>1, <3>1 DEF Laid
    <3> QED
      BY <3>2, <3>3
  <2> QED
    BY <2>1, <2>2
<1>4. 0 .. N \subseteq T
  <2> HIDE DEF T, N
  <2> QED
    BY <1>2, <1>3, EveryNumber
<1>5. N \in 0 .. N
  BY <1>2
<1>6. after[N + 1] = after[1]
  BY <1>4, <1>5
<1> QED
  BY <1>1, <1>6 DEF Laid

\* When less than a byte is to come after now, no report of the frame is.
LEMMA AllReceived ==
  ASSUME NEW f, NEW queue \in Seq(Report), NEW u \in Seq(Nybble),
         NEW now \in Nat, Queued(f, queue, u, now), Len(u) < now + 2,
         NEW p \in 1 .. Len(queue)
  PROVE  queue[p].frame # f
<1>1. PICK after \in [1 .. Len(queue) + 1 -> Nat] :
        Laid(f, queue, u, now, after)
  BY DEF Queued
<1>2. Len(queue) \in Nat
  BY LenProperties
<1>3. after[1] \in Nat /\ Len(u) = now + 2 * after[1]
  BY <1>1, <1>2 DEF Laid
<1>4. after[1] = 0
  BY <1>3
<1>5. p \in 1 .. Len(queue) + 1
  BY <1>2
<1>6. after[p] <= after[1]
  BY <1>1, <1>5, LessBehind
<1> QED
  BY <1>1, <1>4, <1>6, LaidAt

\* A nybble before those in the queue is decoded.
LEMMA OneDecoded ==
  ASSUME NEW f, NEW queue \in Seq(Report), NEW u \in Seq(Nybble), u # <<>>,
         NEW now \in Nat \ {0}, Queued(f, queue, u, now)
  PROVE  Queued(f, queue, Tail(u), now - 1)
<1>1. PICK after \in [1 .. Len(queue) + 1 -> Nat] :
        Laid(f, queue, u, now, after)
  BY DEF Queued
<1>2. Len(queue) \in Nat /\ Len(u) \in Nat
  BY LenProperties
<1>3. after[1] \in Nat /\ Len(u) = now + 2 * after[1]
  BY <1>1, <1>2 DEF Laid
<1>4. /\ Len(Tail(u)) = Len(u) - 1
      /\ \A i \in 1 .. Len(u) - 1 : Tail(u)[i] = u[i + 1]
  BY HeadTailProperties
<1>5. ASSUME NEW p \in 1 .. Len(queue), queue[p].frame = f,
             NEW j \in 1 .. Len(queue[p].data)
      PROVE  queue[p].data[j] = Tail(u)[Len(Tail(u)) - 2 * after[p] + j]
  <2>1. /\ Len(queue[p].data) = 2 * (after[p] - after[p + 1])
        /\ queue[p].data[j] = u[Len(u) - 2 * after[p] + j]
    BY <1>1, <1>5 DEF Laid
  <2>2. after[p] \in Nat /\ after[p + 1] \in Nat
    BY <1>1, LaidAt
  <2>3. after[p] <= after[1]
    <3>1. p \in 1 .. Len(queue) + 1
      BY <1>2
    <3> QED
      BY <1>1, <3>1, LessBehind
  <2> DEFINE i == Len(Tail(u)) - 2 * after[p] + j
  <2>4. i \in 1 .. Len(u) - 1 /\ i + 1 = Len(u) - 2 * after[p] + j
    <3>1. PICK a \in Nat, b \in Nat, c \in Nat, n \in Nat :
            a = after[p] /\ b = after[1] /\ c = after[p + 1] /\ n = Len(u)
      BY <1>2, <1>3, <2>2
    <3>2. i = n - 1 - 2 * a + j /\ j \in 1 .. 2 * (a - c)
      BY <1>4, <1>5, <2>1, <3>1
    <3>3. a <= b /\ n = now + 2 * b
      BY <1>3, <2>3, <3>1
    <3>4. i \in 1 .. n - 1 /\ i + 1 = n - 2 * a + j
      <4> HIDE DEF i
      <4> QED
        BY <3>2, <3>3
    <3> HIDE DEF i
    <3> QED
      BY <3>1, <3>4
  <2> HIDE DEF i
  <2>5. Tail(u)[i] = queue[p].data[j]
    BY <1>4, <2>1, <2>4
  <2> QED
    BY <2>5 DEF i
<1>6. Len(Tail(u)) = (now - 1) + 2 * after[1]
  BY <1>3, <1>4
<1>7. Laid(f, queue, Tail(u), now - 1, after)
  BY <1>1, <1>5, <1>6 DEF Laid
<1> QED
  BY <1>7 DEF Queued

\* The oldest report leaves the queue.
LEMMA OldestOut ==
  ASSUME NEW f, NEW queue \in Seq(Report), queue # <<>>,
         NEW u \in Seq(Nybble), NEW now \in Nat, Queued(f, queue, u, now)
  PROVE  IF Head(queue).frame = f
         THEN /\ Queued(f, Tail(queue), u, now + Len(Head(queue).data))
              /\ \A j \in 1 .. Len(Head(queue).data) :
                   u[now + j] = Head(queue).data[j]
         ELSE Queued(f, Tail(queue), u, now)
<1> DEFINE N == Len(queue)
           rest == Tail(queue)
<1>1. PICK after \in [1 .. N + 1 -> Nat] : Laid(f, queue, u, now, after)
  BY DEF Queued
<1>2. N \in Nat \ {0} /\ Head(queue) = queue[1] /\ 1 \in 1 .. N
  BY EmptySeq
<1>3. /\ rest \in Seq(Report) /\ Len(rest) = N - 1
      /\ \A p \in 1 .. Len(rest) : rest[p] = queue[p + 1]
  BY HeadTailProperties
<1> DEFINE later == [p \in 1 .. Len(rest) + 1 |-> after[p + 1]]
<1>4. later \in [1 .. Len(rest) + 1 -> Nat]
  <2>1. \A p \in 1 .. Len(rest) + 1 : p + 1 \in 1 .. N + 1
    BY <1>2, <1>3
  <2> QED
    BY <2>1
<1>5. \A p \in 1 .. Len(rest) :
        later[p] = after[p + 1] /\ later[p + 1] = after[(p + 1) + 1]
  BY <1>2, <1>3
<1>6. later[1] = after[2] /\ later[Len(rest) + 1] = 0
  <2>1. after[N + 1] = 0
    BY <1>1 DEF Laid
  <2> QED
    BY <1>2, <1>3, <2>1
<1> HIDE DEF later, rest, N
<1>7. ASSUME NEW p \in 1 .. Len(rest)
      PROVE  IF rest[p].frame = f
             THEN /\ Len(rest[p].data) = 2 * (later[p] - later[p + 1])
                  /\ \A j \in 1 .. Len(rest[p].data) :
                       rest[p].data[j] = u[Len(u) - 2 * later[p] + j]
             ELSE later[p] = later[p + 1]
  <2>1. p + 1 \in 1 .. Len(queue) /\ rest[p] = queue[p + 1]
    BY <1>2, <1>3 DEF N
  <2> QED
    BY <1>1, <1>5, <2>1 DEF Laid
<1>8. /\ after[1] \in Nat /\ after[2] \in Nat /\ Len(u) = now + 2 * after[1]
      /\ Len(u) \in Nat
  <2>1. 1 \in 1 .. N + 1 /\ 2 \in 1 .. N + 1
    BY <1>2
  <2> QED
    BY <1>1, <2>1, LenProperties DEF Laid
<1>9. CASE Head(queue).frame = f
  <2>1. /\ Len(queue[1].data) = 2 * (after[1] - after[1 + 1])
        /\ \A j \in 1 .. Len(queue[1].data) :
             queue[1].data[j] = u[Len(u) - 2 * after[1] + j]
    BY <1>1, <1>2, <1>9 DEF Laid, N
  <2>2. Len(queue[1].data) = 2 * (after[1] - after[2])
    BY <2>1
  <2>3. Len(u) - 2 * after[1] = now
    BY <1>8
  <2>4. \A j \in 1 .. Len(queue[1].data) : u[now + j] = queue[1].data[j]
    BY <2>1, <2>3
  <2>5. Len(u) = (now + Len(queue[1].data)) + 2 * later[1]
    BY <1>6, <1>8, <2>2
  <2>6. Laid(f, rest, u, now + Len(queue[1].data), later)
    BY <1>6, <1>7, <2>5 DEF Laid
  <2> QED
    BY <1>2, <1>4, <1>9, <2>4, <2>6 DEF Queued, rest
<1>10. CASE Head(queue).frame # f
  <2>1. after[1] = after[1 + 1]
    BY <1>1, <1>2, <1>10 DEF Laid, N
  <2>2. Len(u) = now + 2 * later[1]
    BY <1>6, <1>8, <2>1
  <2>3. Laid(f, rest, u, now, later)
    BY <1>6, <1>7, <2>2 DEF Laid
  <2> QED
    BY <1>4, <1>10, <2>3 DEF Queued, rest
<1> QED
  BY <1>9, <1>10

\* Reports join the queue.
LEMMA OthersJoin ==
  ASSUME NEW f, NEW queue \in Seq(Report), NEW new \in Seq(Report),
         NEW u \in Seq(Nybble), NEW now \in Nat, Queued(f, queue, u, now),
         \A p \in 1 .. Len(new) : new[p].frame # f
  PROVE  Queued(f, queue \o new, u, now)
<1> DEFINE N == Len(queue)
           all == queue \o new
<1>1. PICK after \in [1 .. N + 1 -> Nat] : Laid(f, queue, u, now, after)
  BY DEF Queued
<1>2. N \in Nat /\ Len(new) \in Nat
  BY LenProperties
<1>3. /\ Len(all) = N + Len(new)
      /\ \A p \in 1 .. N + Len(new) :
           all[p] = IF p <= N THEN queue[p] ELSE new[p - N]
  BY ConcatProperties
<1> DEFINE more == [p \in 1 .. Len(all) + 1 |-> IF p <= N THEN after[p] ELSE 0]
<1>4. more \in [1 .. Len(all) + 1 -> Nat]
  BY <1>2
<1>5. after[N + 1] = 0
  BY <1>1 DEF Laid
<1>6. /\ \A p \in 1 .. N + 1 : more[p] = after[p]
      /\ \A p \in N + 1 .. Len(all) + 1 : more[p] = 0
  BY <1>2, <1>3, <1>5
<1> HIDE DEF more, all, N
<1>7. ASSUME NEW p \in 1 .. Len(all)
      PROVE  IF all[p].frame = f
             THEN /\ Len(all[p].data) = 2 * (more[p] - more[p + 1])
                  /\ \A j \in 1 .. Len(all[p].data) :
                       all[p].data[j] = u[Len(u) - 2 * more[p] + j]
             ELSE more[p] = more[p + 1]
  <2>1. CASE p <= N
    <3>1. /\ p \in 1 .. N /\ all[p] = queue[p]
          /\ more[p] = after[p] /\ more[p + 1] = after[p + 1]
      BY <1>2, <1>3, <1>6, <2>1
    <3> QED
      BY <1>1, <3>1 DEF Laid, N
  <2>2. CASE ~(p <= N)
    <3>1. /\ p - N \in 1 .. Len(new) /\ all[p] = new[p - N]
          /\ more[p] = 0 /\ more[p + 1] = 0
      BY <1>2, <1>3, <1>6, <2>2
    <3> QED
      BY <3>1
  <2> QED
    BY <2>1, <2>2
<1>8. more[1] = after[1] /\ more[Len(all) + 1] = 0
  BY <1>2, <1>3, <1>6
<1>9. Laid(f, all, u, now, more)
  BY <1>1, <1>7, <1>8 DEF Laid
<1> QED
  BY <1>4, <1>9 DEF Queued, all

\* A frame joins the queue.
LEMMA FrameJoins ==
  ASSUME NEW f, NEW queue \in Seq(Report), NEW new \in Seq(Report),
         NEW u \in Seq(Nybble), Queued(f, new, u, 0),
         \A p \in 1 .. Len(queue) : queue[p].frame # f
  PROVE  Queued(f, queue \o new, u, 0)
<1> DEFINE N == Len(queue)
           all == queue \o new
<1>1. PICK after \in [1 .. Len(new) + 1 -> Nat] : Laid(f, new, u, 0, after)
  BY DEF Queued
<1>2. N \in Nat /\ Len(new) \in Nat
  BY LenProperties
<1>3. /\ Len(all) = N + Len(new)
      /\ \A p \in 1 .. N + Len(new) :
           all[p] = IF p <= N THEN queue[p] ELSE new[p - N]
  BY ConcatProperties
<1> DEFINE more == [p \in 1 .. Len(all) + 1 |->
                      IF p <= N THEN after[1] ELSE after[p - N]]
<1>4. more \in [1 .. Len(all) + 1 -> Nat]
  <2>1. ASSUME NEW p \in 1 .. Len(all) + 1
        PROVE  (IF p <= N THEN after[1] ELSE after[p - N]) \in Nat
    <3>1. 1 \in 1 .. Len(new) + 1
      BY <1>2
    <3>2. ~(p <= N) => p - N \in 1 .. Len(new) + 1
      BY <1>2, <1>3
    <3> QED
      BY <3>1, <3>2
  <2> QED
    BY <2>1
<1>5. /\ \A p \in 1 .. N + 1 : more[p] = after[1]
      /\ \A p \in N + 1 .. Len(all) + 1 : more[p] = after[p - N]
  <2>1. (N + 1) - N = 1
    BY <1>2
  <2> QED
    BY <1>2, <1>3, <2>1
<1> HIDE DEF more, all, N
<1>6. ASSUME NEW p \in 1 .. Len(all)
      PROVE  IF all[p].frame = f
             THEN /\ Len(all[p].data) = 2 * (more[p] - more[p + 1])
                  /\ \A j \in 1 .. Len(all[p].data) :
                       all[p].data[j] = u[Len(u) - 2 * more[p] + j]
             ELSE more[p] = more[p + 1]
  <2>1. CASE p <= N
    <3>1. /\ p \in 1 .. N /\ all[p] = queue[p]
          /\ more[p] = more[p + 1]
      BY <1>2, <1>3, <1>5, <2>1
    <3> QED
      BY <3>1 DEF N
  <2>2. CASE ~(p <= N)
    <3>1. /\ p - N \in 1 .. Len(new) /\ all[p] = new[p - N]
          /\ more[p] = after[p - N] /\ more[p + 1] = after[(p - N) + 1]
      <4>1. (p + 1) - N = (p - N) + 1
        BY <1>2
      <4>2. /\ p - N \in 1 .. Len(new)
            /\ p \in N + 1 .. Len(all) + 1 /\ p + 1 \in N + 1 .. Len(all) + 1
        BY <1>2, <1>3, <2>2
      <4>3. more[p] = after[p - N] /\ more[p + 1] = after[(p + 1) - N]
        BY <1>5, <4>2
      <4> QED
        BY <1>3, <2>2, <4>1, <4>2, <4>3
    <3> QED
      BY <1>1, <3>1 DEF Laid
  <2> QED
    BY <2>1, <2>2
<1>7. more[1] = after[1] /\ more[Len(all) + 1] = 0
  <2>1. after[Len(new) + 1] = 0 /\ (Len(all) + 1) - N = Len(new) + 1
    BY <1>1, <1>2, <1>3 DEF Laid
  <2> QED
    BY <1>2, <1>3, <1>5, <2>1
<1>8. Laid(f, all, u, 0, more)
  BY <1>1, <1>6, <1>7 DEF Laid
<1> QED
  BY <1>4, <1>8 DEF Queued, all

\* The data in parts is the first b bytes of s in order; before[p] bytes are in
\* the parts in front of p.
Marks(s, parts, b, before) ==
  /\ before[1] = 0 /\ before[Len(parts) + 1] = b
  /\ \A p \in 1 .. Len(parts) :
       /\ Len(parts[p]) = 2 * (before[p + 1] - before[p])
       /\ \A j \in 1 .. Len(parts[p]) : parts[p][j] = s[2 * before[p] + j]

Covers(s, parts, b) ==
  \E before \in [1 .. Len(parts) + 1 -> Nat] : Marks(s, parts, b, before)

\* One more report at the end covers the next bytes.
LEMMA NextCovered ==
  ASSUME NEW s \in Seq(Nybble), NEW b \in Nat, 2 * b <= Len(s),
         NEW k \in Nat \ {0}, k <= b,
         NEW c \in Seq(ReportData), Covers(s, c, b - k),
         NEW data \in ReportData, data = SubSeq(s, 2 * (b - k) + 1, 2 * b)
  PROVE  Covers(s, Append(c, data), b)
<1> DEFINE N == Len(c)
           parts == Append(c, data)
<1>1. PICK before \in [1 .. N + 1 -> Nat] : Marks(s, c, b - k, before)
  BY DEF Covers
<1>2. /\ N \in Nat /\ Len(parts) = N + 1
      /\ parts[N + 1] = data /\ \A p \in 1 .. N : parts[p] = c[p]
  BY AppendProperties, LenProperties
<1> DEFINE more == [p \in 1 .. N + 2 |-> IF p = N + 2 THEN b ELSE before[p]]
<1>3. more \in [1 .. N + 2 -> Nat]
  BY <1>2
<1>4. /\ \A p \in 1 .. N + 1 : more[p] = before[p]
      /\ more[N + 2] = b /\ more[1] = 0 /\ more[N + 1] = b - k
  <2>1. before[1] = 0 /\ before[N + 1] = b - k
    BY <1>1 DEF Marks
  <2>2. 1 \in 1 .. N + 2 /\ N + 1 \in 1 .. N + 2 /\ N + 2 \in 1 .. N + 2
        /\ 1 # N + 2 /\ N + 1 # N + 2
    BY <1>2
  <2>3. \A p \in 1 .. N + 1 : more[p] = before[p]
    BY <1>2
  <2> QED
    BY <2>1, <2>2, <2>3
<1>5. /\ Len(data) = 2 * (b - (b - k))
      /\ \A j \in 1 .. Len(data) : data[j] = s[2 * (b - k) + j]
  <2> DEFINE m == 2 * (b - k) + 1
             n == 2 * b
  <2>1. m \in Int /\ n \in Int /\ m <= n /\ 1 <= m /\ n <= Len(s)
        /\ n - m + 1 = 2 * k /\ Len(s) \in Nat
    BY LenProperties
  <2>2. \A i \in m .. n : s[i] \in Nybble
    <3> SUFFICES ASSUME NEW i \in m .. n PROVE s[i] \in Nybble
      OBVIOUS
    <3>1. i \in 1 .. Len(s)
      BY <2>1
    <3> QED
      BY <3>1, ElementOfSeq
  <2>3. data = SubSeq(s, m, n)
    OBVIOUS
  <2> HIDE DEF m, n
  <2>4. /\ Len(data) = n - m + 1
        /\ \A i \in 1 .. n - m + 1 : data[i] = s[m + i - 1]
    BY <2>1, <2>2, <2>3, SubSeqProperties
  <2>5. Len(data) = 2 * k /\ \A j \in 1 .. 2 * k : data[j] = s[m + j - 1]
    BY <2>1, <2>4
  <2>6. \A j \in 1 .. 2 * k : m + j - 1 = 2 * (b - k) + j
    BY DEF m
  <2>7. b - (b - k) = k
    OBVIOUS
  <2> QED
    BY <2>5, <2>6, <2>7
<1> HIDE DEF more, parts, N
<1>6. ASSUME NEW p \in 1 .. Len(parts)
      PROVE  /\ Len(parts[p]) = 2 * (more[p + 1] - more[p])
             /\ \A j \in 1 .. Len(parts[p]) : parts[p][j] = s[2 * more[p] + j]
  <2>1. CASE p = N + 1
    <3>1. /\ parts[p] = data /\ more[p + 1] = b /\ more[p] = b - k
      BY <1>2, <1>4, <2>1
    <3> QED
      BY <1>5, <3>1
  <2>2. CASE p # N + 1
    <3>1. /\ p \in 1 .. N /\ parts[p] = c[p]
          /\ more[p] = before[p] /\ more[p + 1] = before[p + 1]
      <4>1. p \in 1 .. N /\ p \in 1 .. N + 1 /\ p + 1 \in 1 .. N + 1
        BY <1>2, <2>2
      <4> QED
        BY <1>2, <1>4, <4>1
    <3> QED
      BY <1>1, <3>1 DEF Marks, N
  <2> QED
    BY <2>1, <2>2
<1>7. more[1] = 0 /\ more[Len(parts) + 1] = b /\ Len(parts) + 1 = N + 2
  BY <1>2, <1>4
<1>8. Marks(s, parts, b, more)
  BY <1>6, <1>7 DEF Marks
<1> QED
  BY <1>3, <1>7, <1>8 DEF Covers, parts

\* A cut covers the sequence.
LEMMA CutsCover ==
  ASSUME NEW s \in Seq(Nybble), NEW parts \in Cuts(s)
  PROVE  Covers(s, parts, Len(s) \div 2)
<1> DEFINE N == Len(s) \div 2
<1>1. PICK upTo : /\ Cuts(s) = upTo[N]
                  /\ \A b \in 0 .. N :
                       /\ upTo[b] = CutsOfFirst(s, upTo, b)
                       /\ upTo[b] \subseteq Seq(ReportData)
  BY CutsRecursive, Zenon
<1>2. Len(s) \in Nat /\ N \in Nat /\ 2 * N <= Len(s)
  <2>1. Len(s) \in Nat
    BY LenProperties
  <2> QED
    BY <2>1
<1> DEFINE T == {b \in 0 .. N : \A c \in upTo[b] : Covers(s, c, b)}
<1> HIDE DEF N
<1>3. ASSUME NEW b \in 0 .. N, \A i \in 0 .. N : i < b => i \in T,
             NEW c \in upTo[b]
      PROVE  Covers(s, c, b)
  <2>1. CASE b = 0
    <3>1. c = <<>> /\ Len(c) = 0
      BY <1>1, <2>1, EmptySeq DEF CutsOfFirst
    <3> DEFINE before == [p \in 1 .. Len(c) + 1 |-> 0]
    <3>2. before \in [1 .. Len(c) + 1 -> Nat] /\ before[1] = 0
          /\ before[Len(c) + 1] = 0 /\ 1 .. Len(c) = {}
      BY <3>1
    <3> HIDE DEF before
    <3>3. Marks(s, c, b, before)
      BY <2>1, <3>2 DEF Marks
    <3> QED
      BY <3>2, <3>3 DEF Covers
  <2>2. CASE b # 0
    <3>1. EndsRight(s, upTo, b, c)
      BY <1>1, <2>2, LastCut
    <3>2. PICK k \in 1 .. MaxData :
            k <= b /\ \E d \in upTo[b - k] :
              c = Append(d, SubSeq(s, 2 * (b - k) + 1, 2 * b))
      BY <3>1 DEF EndsRight
    <3>3. PICK d \in upTo[b - k] :
            c = Append(d, SubSeq(s, 2 * (b - k) + 1, 2 * b))
      BY <3>2
    <3> DEFINE data == SubSeq(s, 2 * (b - k) + 1, 2 * b)
    <3>4. /\ k \in Nat \ {0} /\ b \in Nat /\ b - k \in 0 .. N /\ b - k < b
          /\ 2 * b <= Len(s)
      BY <1>2, <3>2
    <3>5. d \in Seq(ReportData) /\ c \in Seq(ReportData) /\ b - k \in T
      BY <1>1, <1>3, <3>4
    <3>6. data \in ReportData
      <4>1. Len(c) = Len(d) + 1 /\ c[Len(d) + 1] = data /\ Len(d) \in Nat
        BY <3>3, <3>5, LenProperties
      <4>2. Len(d) + 1 \in 1 .. Len(c)
        BY <4>1
      <4> HIDE DEF data
      <4> QED
        BY <3>5, <4>1, <4>2, ElementOfSeq
    <3>7. Covers(s, d, b - k)
      BY <3>3, <3>5
    <3> QED
      BY <3>2, <3>3, <3>4, <3>5, <3>6, <3>7, NextCovered
  <2> QED
    BY <2>1, <2>2
<1>4. 0 .. N \subseteq T
  <2>1. \A b \in 0 .. N : (\A i \in 0 .. N : i < b => i \in T) => b \in T
    BY <1>3
  <2> HIDE DEF T
  <2> QED
    BY <1>2, <2>1, EveryNumber
<1>5. N \in 0 .. N
  BY <1>2
<1> QED
  BY <1>1, <1>4, <1>5 DEF N

\* The reports of a frame that has just been captured carry a completion of an
\* image of which nothing is decoded.
LEMMA TransmissionQueued ==
  ASSUME NEW img \in Images, NEW parts \in Transmissions(img),
         NEW f \in Nat, NEW new \in Seq(Report), Len(new) = Len(parts),
         \A p \in 1 .. Len(new) : new[p].frame = f /\ new[p].data = parts[p]
  PROVE  \E u \in Seq(Nybble) :
           /\ Queued(f, new, u, 0)
           /\ \E e \in Completions(img, 0, FALSE) : Padded(u, e)
<1>1. PICK u \in UNION {WholeBytes(e) : e \in Encodings(img)} :
        parts \in Cuts(u)
  BY Zenon DEF Transmissions
<1>2. PICK e \in Encodings(img) : u \in WholeBytes(e)
  BY <1>1, Zenon
<1>3. img \in [Index -> Pixel]
  BY PipelineAssumption
<1>4. e \in Seq(Nybble)
  BY <1>2, <1>3, EncodingsTyped
<1>5. u \in Seq(Nybble)
  BY <1>2, <1>4, WholeBytesTyped
<1>6. Padded(u, e)
  BY <1>2 DEF WholeBytes, Padded
<1>7. e \in Completions(img, 0, FALSE)
  <2>1. ImageLen - 0 = ImageLen
    BY DecoderAssumption
  <2> QED
    BY <1>2, <2>1 DEF Completions, Encodings
<1>8. PICK half_u \in Nat : half_u = Len(u) \div 2 /\ Len(u) = 2 * half_u
  <2>1. Len(e) \in Nat /\ Len(u) \in Nat
    BY <1>4, <1>5, LenProperties
  <2>2. Len(u) % 2 = 0
    <3>1. CASE Len(e) % 2 = 0
      BY <1>2, <3>1 DEF WholeBytes
    <3>2. CASE Len(e) % 2 # 0
      <4>1. PICK pad \in Nybble : u = Append(e, pad)
        BY <1>2, <3>2 DEF WholeBytes
      <4>2. Len(u) = Len(e) + 1
        BY <1>4, <4>1, AppendProperties
      <4> QED
        BY <2>1, <3>2, <4>2
    <3> QED
      BY <3>1, <3>2
  <2> QED
    BY <2>1, <2>2
<1>9. Covers(u, parts, half_u)
  BY <1>1, <1>5, <1>8, CutsCover
<1>10. PICK before \in [1 .. Len(parts) + 1 -> Nat] :
         Marks(u, parts, half_u, before)
  BY <1>9 DEF Covers
<1> DEFINE N == Len(new)
<1>11. N \in Nat
  BY LenProperties
<1>12. \A p \in 1 .. N + 1 : before[p] <= half_u /\ before[p] \in Nat
  <2> DEFINE T == {n \in 0 .. N : before[N + 1 - n] <= half_u}
  <2>1. ASSUME NEW n \in 0 .. N, \A i \in 0 .. N : i < n => i \in T
        PROVE  n \in T
    <3>1. CASE n = 0
      <4>1. before[N + 1] = half_u /\ N + 1 - n = N + 1
        BY <1>10, <1>11, <3>1 DEF Marks
      <4> QED
        BY <4>1
    <3>2. CASE n # 0
      <4>1. /\ n - 1 \in 0 .. N /\ n - 1 < n
            /\ N + 1 - (n - 1) = (N + 1 - n) + 1
            /\ N + 1 - n \in 1 .. N
        BY <1>11, <3>2
      <4> DEFINE p == N + 1 - n
      <4>2. before[p + 1] <= half_u
        BY <2>1, <4>1
      <4>3. Len(parts[p]) = 2 * (before[p + 1] - before[p])
        BY <1>10, <4>1 DEF Marks
      <4>4. parts[p] \in ReportData
        <5>1. new[p] \in Report /\ new[p].data = parts[p]
          BY <4>1, ElementOfSeq
        <5> QED
          BY <5>1 DEF Report
      <4>5. PICK m \in Nat \ {0} : Len(parts[p]) = 2 * m
        BY <4>4, DataLength
      <4>6. p \in 1 .. N + 1 /\ p + 1 \in 1 .. N + 1
        BY <1>11, <4>1
      <4> HIDE DEF p
      <4>7. before[p] \in Nat /\ before[p + 1] \in Nat
        BY <4>6
      <4>8. before[p] <= half_u
        BY <4>2, <4>3, <4>5, <4>7
      <4> QED
        BY <4>8 DEF p
    <3> QED
      BY <3>1, <3>2
  <2>2. 0 .. N \subseteq T
    <3> HIDE DEF T, N
    <3> QED
      BY <1>11, <2>1, EveryNumber
  <2>3. ASSUME NEW p \in 1 .. N + 1
        PROVE  before[p] <= half_u /\ before[p] \in Nat
    <3>1. N + 1 - p \in 0 .. N /\ N + 1 - (N + 1 - p) = p
      BY <1>11
    <3>2. before[N + 1 - (N + 1 - p)] <= half_u
      BY <2>2, <3>1
    <3> QED
      BY <3>1, <3>2
  <2> QED
    BY <2>3
<1> DEFINE after == [p \in 1 .. N + 1 |-> half_u - before[p]]
<1>13. after \in [1 .. N + 1 -> Nat]
  BY <1>12
<1>14. Laid(f, new, u, 0, after)
  <2>1. after[1] = half_u /\ after[N + 1] = 0
    <3>1. 1 \in 1 .. N + 1 /\ N + 1 \in 1 .. N + 1
      BY <1>11
    <3>2. before[1] = 0 /\ before[N + 1] = half_u
      BY <1>10 DEF Marks
    <3> QED
      BY <3>1, <3>2
  <2>2. ASSUME NEW p \in 1 .. N
        PROVE  /\ Len(new[p].data) = 2 * (after[p] - after[p + 1])
               /\ \A j \in 1 .. Len(new[p].data) :
                    new[p].data[j] = u[Len(u) - 2 * after[p] + j]
    <3>1. p \in 1 .. N + 1 /\ p + 1 \in 1 .. N + 1
      BY <1>11
    <3>2. PICK x \in Nat, y \in Nat :
            x = before[p] /\ y = before[p + 1] /\ x <= half_u /\ y <= half_u
      BY <1>12, <3>1
    <3>3. after[p] = half_u - x /\ after[p + 1] = half_u - y
      BY <3>1, <3>2
    <3>4. /\ Len(new[p].data) = 2 * (y - x)
          /\ \A j \in 1 .. Len(new[p].data) : new[p].data[j] = u[2 * x + j]
      <4>1. /\ Len(parts[p]) = 2 * (before[p + 1] - before[p])
            /\ \A j \in 1 .. Len(parts[p]) :
                 parts[p][j] = u[2 * before[p] + j]
        BY <1>10 DEF Marks
      <4>2. new[p].data = parts[p]
        OBVIOUS
      <4> QED
        BY <3>2, <4>1, <4>2
    <3> HIDE DEF after
    <3>5. 2 * (after[p] - after[p + 1]) = 2 * (y - x)
          /\ Len(u) - 2 * after[p] = 2 * x
      <4>1. PICK a \in Int, c \in Int :
              a = after[p] /\ c = after[p + 1] /\ a = half_u - x
              /\ c = half_u - y
        BY <3>2, <3>3
      <4>2. 2 * (a - c) = 2 * (y - x) /\ 2 * half_u - 2 * a = 2 * x
        BY <4>1
      <4> QED
        BY <1>8, <4>1, <4>2
    <3> QED
      BY <3>4, <3>5
  <2>3. Len(u) = 0 + 2 * after[1]
    BY <1>8, <2>1
  <2>4. \A p \in 1 .. Len(new) : new[p].frame = f
    OBVIOUS
  <2> HIDE DEF after
  <2> QED
    BY <2>1, <2>2, <2>3, <2>4 DEF Laid
<1>15. Queued(f, new, u, 0)
  BY <1>13, <1>14 DEF Queued
<1> QED
  BY <1>5, <1>6, <1>7, <1>15

-----------------------------------------------------------------------------
(* The inductive invariant of the pipeline.                                *)

\* Before the first frame nothing is on its way.
LEMMA PipeInitIInv == PipeInit => PipeIInv
<1> SUFFICES ASSUME PipeInit PROVE PipeIInv
  OBVIOUS
<1>1. channel = <<>> /\ captured = <<>> /\ delivered = <<>> /\ held = {}
      /\ length = 0 /\ t = 0 /\ lost = <<>> /\ report = NoReport
      /\ buf_index = 0 /\ ~next_is_run_encoded
  BY DEF PipeInit, Init
<1>2. PipeTypeOK
  BY <1>1, EmptySeq DEF PipeTypeOK
<1> QED
  BY <1>1, <1>2
  DEF PipeIInv, Stamped, Decoding, InReport, HeldTogether, DeliveredCaptured,
      OnlyEqualStampsMerge

\* A frame is captured: what is known of the earlier ones stays true, and its
\* own reports carry its timestamp.
LEMMA CaptureKeeps ==
  ASSUME PipeIInv, NEW img \in Images, NEW ts \in Timestamps, Capture(img, ts)
  PROVE  PipeIInv'
<1> DEFINE L == Len(captured)
           frame == [image |-> img, ts |-> ts]
           sent(parts) == [p \in 1 .. Len(parts) |->
                             [frame |-> L + 1, ts |-> ts,
                              data |-> parts[p], part |-> p]]
<1>1. PICK parts \in Transmissions(img) : channel' = channel \o sent(parts)
  BY DEF Capture
<1>2. /\ UNCHANGED <<vars, report, delivered, held, lost>>
      /\ captured' = Append(captured, frame)
  BY DEF Capture
<1>3. L \in Nat /\ frame \in [image : Images, ts : Timestamps]
  BY LenProperties DEF PipeIInv, PipeTypeOK
<1>4. /\ captured' \in Seq([image : Images, ts : Timestamps])
      /\ Len(captured') = L + 1
      /\ \A f \in 1 .. L : captured'[f] = captured[f]
      /\ captured'[L + 1] = frame
  BY <1>2, <1>3, AppendProperties DEF PipeIInv, PipeTypeOK
<1> DEFINE new == sent(parts)
<1>5. /\ new \in Seq(Report) /\ Len(new) \in Nat
      /\ \A p \in 1 .. Len(new) : new[p].frame = L + 1 /\ new[p].ts = ts
  <2>1. parts \in Seq(ReportData)
    BY TransmissionsTyped
  <2>2. /\ Len(parts) \in Nat
        /\ \A p \in 1 .. Len(parts) : parts[p] \in ReportData
    BY <2>1, LenProperties, ElementOfSeq
  <2>3. new \in [1 .. Len(parts) -> Report]
    BY <1>3, <2>2 DEF Report
  <2>4. new \in Seq(Report) /\ Len(new) = Len(parts)
    BY <2>2, <2>3
  <2> QED
    BY <2>2, <2>4
<1> HIDE DEF new, sent
<1>6. /\ channel' \in Seq(Report)
      /\ Len(channel) \in Nat /\ Len(channel') = Len(channel) + Len(new)
      /\ \A r \in 1 .. Len(channel') : channel'[r] =
           IF r <= Len(channel) THEN channel[r] ELSE new[r - Len(channel)]
  BY <1>1, <1>5, ConcatProperties, LenProperties
  DEF PipeIInv, PipeTypeOK, new
<1>7. 1 .. L \subseteq 1 .. L + 1
  BY <1>3
<1>8. PipeTypeOK'
  BY <1>2, <1>4, <1>6, <1>7 DEF PipeIInv, PipeTypeOK
<1>10. Stamped'
  <2> SUFFICES ASSUME NEW r \in 1 .. Len(channel')
               PROVE  /\ channel'[r].frame \in 1 .. Len(captured')
                      /\ captured'[channel'[r].frame].ts = channel'[r].ts
    BY DEF Stamped, FromFrame
  <2>1. CASE r <= Len(channel)
    <3>1. r \in 1 .. Len(channel) /\ channel'[r] = channel[r]
      BY <1>6, <2>1
    <3>2. FromFrame(channel[r])
      BY <3>1 DEF PipeIInv, Stamped
    <3> QED
      BY <1>4, <1>7, <3>1, <3>2 DEF FromFrame
  <2>2. CASE ~(r <= Len(channel))
    <3>1. /\ r - Len(channel) \in 1 .. Len(new)
          /\ channel'[r] = new[r - Len(channel)]
      BY <1>5, <1>6, <2>2
    <3>2. channel'[r].frame = L + 1 /\ channel'[r].ts = ts
      BY <1>5, <3>1
    <3> QED
      BY <1>3, <1>4, <3>2 DEF FromFrame
  <2> QED
    BY <2>1, <2>2
<1>11. Decoding'
  BY <1>2, <1>4, <1>7
  DEF PipeIInv, Decoding, InReport, FromFrame, vars, loopVars
<1>12. HeldTogether'
  BY <1>2, <1>4 DEF PipeIInv, PipeTypeOK, HeldTogether, vars, decoderVars
<1>13. DeliveredCaptured'
  BY <1>2, <1>4, <1>7 DEF PipeIInv, DeliveredCaptured
<1>14. OnlyEqualStampsMerge'
  <2> SUFFICES ASSUME NEW d \in 1 .. Len(delivered),
                      NEW f \in delivered[d].frames,
                      NEW g \in delivered[d].frames
               PROVE  captured'[f].ts = captured'[g].ts
    BY <1>2 DEF OnlyEqualStampsMerge
  <2>1. f \in 1 .. L /\ g \in 1 .. L /\ captured[f].ts = captured[g].ts
    BY DEF PipeIInv, DeliveredCaptured, OnlyEqualStampsMerge
  <2> QED
    BY <1>4, <2>1
<1> QED
  BY <1>8, <1>10, <1>11, <1>12, <1>13, <1>14 DEF PipeIInv

\* The oldest report leaves the channel: the others are still known.
LEMMA OldestLeaves ==
  ASSUME PipeIInv, channel # <<>>
  PROVE  /\ Head(channel) \in Report /\ FromFrame(Head(channel))
         /\ Tail(channel) \in Seq(Report)
         /\ \A r \in 1 .. Len(Tail(channel)) : FromFrame(Tail(channel)[r])
<1>1. channel \in Seq(Report)
  BY DEF PipeIInv, PipeTypeOK
<1>2. /\ Head(channel) \in Report /\ Tail(channel) \in Seq(Report)
      /\ Len(Tail(channel)) = Len(channel) - 1
      /\ \A r \in 1 .. Len(Tail(channel)) : Tail(channel)[r] = channel[r + 1]
  BY <1>1, HeadTailProperties
<1>3. Len(channel) \in Nat \ {0} /\ Head(channel) = channel[1]
  BY <1>1, EmptySeq
<1>4. 1 \in 1 .. Len(channel)
      /\ \A r \in 1 .. Len(Tail(channel)) : r + 1 \in 1 .. Len(channel)
  BY <1>2, <1>3
<1> QED
  BY <1>2, <1>3, <1>4 DEF PipeIInv, Stamped

\* A report is lost.
LEMMA LoseKeeps ==
  ASSUME PipeIInv, Lose
  PROVE  PipeIInv'
<1>1. /\ channel' = Tail(channel) /\ channel # <<>>
      /\ UNCHANGED <<vars, report, captured, delivered, held>>
  BY DEF Lose
<1>2. lost' \in Seq(Nat \X Nat)
  <2>1. lost' = Append(lost, <<Head(channel).frame, Head(channel).part>>)
    BY DEF Lose
  <2>2. <<Head(channel).frame, Head(channel).part>> \in Nat \X Nat
    BY <1>1, OldestLeaves DEF Report
  <2> QED
    BY <2>1, <2>2, AppendProperties DEF PipeIInv, PipeTypeOK
<1>5. PipeTypeOK' /\ Stamped'
  BY <1>1, <1>2, OldestLeaves
  DEF PipeIInv, PipeTypeOK, Stamped, FromFrame, NoReport
<1>3. Decoding'
  BY <1>1 DEF PipeIInv, Decoding, InReport, FromFrame, vars, loopVars
<1>4. HeldTogether' /\ DeliveredCaptured' /\ OnlyEqualStampsMerge'
  BY <1>1 DEF PipeIInv, HeldTogether, DeliveredCaptured,
              OnlyEqualStampsMerge, vars, decoderVars
<1> QED
  BY <1>3, <1>4, <1>5 DEF PipeIInv

\* A report is received: a decoder that holds something of a frame with
\* another timestamp drops it.
LEMMA ReceiveKeeps ==
  ASSUME IInv, PipeIInv, Receive
  PROVE  PipeIInv'
<1>1. /\ channel # <<>> /\ channel' = Tail(channel) /\ report' = Head(channel)
      /\ UNCHANGED <<captured, delivered, lost>>
      /\ held' = IF StaleFrame(report'.ts) THEN {} ELSE held
      /\ BeginReport(report'.ts, Len(report'.data) \div 2 + 1)
  BY DEF Receive
<1>2. /\ report' \in Report /\ FromFrame(report')
      /\ channel' \in Seq(Report)
      /\ \A r \in 1 .. Len(channel') : FromFrame(channel'[r])
  BY <1>1, OldestLeaves
<1>3. PipeTypeOK' /\ Stamped'
  BY <1>1, <1>2 DEF PipeIInv, PipeTypeOK, Stamped, FromFrame
<1>4. Decoding'
  BY <1>1, <1>2 DEF BeginReport, Decoding, FromFrame
<1>5. HeldTogether'
  <2>1. CASE StaleFrame(report'.ts)
    BY <1>1, <2>1 DEF HeldTogether, BeginReport, reset_decoder
  <2>2. CASE ~StaleFrame(report'.ts)
    <3>1. /\ held' = held
          /\ UNCHANGED <<buf_index, next_is_run_encoded>>
          /\ timestamp_in_progress' = report'.ts
      BY <1>1, <2>2 DEF BeginReport, decoderVars
    <3>2. half = "low"
      BY <1>1 DEF BeginReport, IInv, HalfInReport, TypeOK
    <3>3. held # {} => buf_index # 0
      BY <3>2 DEF IInv, PairwiseRun, PipeIInv, HeldTogether
    <3>4. held # {} => timestamp_in_progress' = timestamp_in_progress
      BY <2>2, <3>1, <3>3 DEF StaleFrame
    <3> QED
      BY <1>1, <3>1, <3>4 DEF HeldTogether, PipeIInv
  <2> QED
    BY <2>1, <2>2
<1>6. DeliveredCaptured' /\ OnlyEqualStampsMerge'
  BY <1>1 DEF PipeIInv, DeliveredCaptured, OnlyEqualStampsMerge
<1> QED
  BY <1>3, <1>4, <1>5, <1>6 DEF PipeIInv

\* The nybble that is decoded next is one of the report.
LEMMA NextIsNybble ==
  ASSUME IInv, PipeIInv, InReport
  PROVE  NextInReport \in Nybble
<1>1. report.data \in ReportData /\ length = Len(report.data) \div 2 + 1
  BY DEF PipeIInv, Decoding, Report
<1>2. t \in Nat /\ length \in Nat /\ t < length - 1
  BY DecoderAssumption DEF IInv, TypeOK, InReport
<1>3. t \in 0 .. Len(report.data) \div 2 - 1
  <2>1. PICK n \in Nat : n = Len(report.data) \div 2
    BY <1>1, DataFits
  <2>2. length - 1 = n
    BY <1>1, <2>1
  <2>3. t \in 0 .. n - 1
    BY <1>2, <2>2
  <2> QED
    BY <2>1, <2>3
<1>4. report.data[2 * t + 1] \in Nybble /\ report.data[2 * t + 2] \in Nybble
  BY <1>1, <1>3, DataFits
<1> QED
  BY <1>4 DEF NextInReport

\* The image of a completed decode joins those delivered.
LEMMA CallbackAppends ==
  ASSUME IInv, PipeIInv, DecodeComplete(NextInReport),
         delivered' = Append(delivered,
           [image |-> callback'.image, frames |-> held \cup {report.frame}])
  PROVE  /\ Len(delivered) \in Nat /\ Len(delivered') = Len(delivered) + 1
         /\ delivered' \in Seq([image : [Index -> Pixel],
                                frames : SUBSET Nat])
         /\ \A d \in 1 .. Len(delivered) : delivered'[d] = delivered[d]
         /\ delivered'[Len(delivered) + 1] =
              [image |-> callback'.image, frames |-> held \cup {report.frame}]
<1> DEFINE image == [image  |-> callback'.image,
                     frames |-> held \cup {report.frame}]
<1>1. InReport /\ NextInReport \in Nybble
  BY NextIsNybble DEF DecodeComplete
<1>2. callback'.image \in [Index -> Pixel]
  <2>1. NextPixels(NextInReport) \in [Index -> Pixel]
    BY <1>1, NextIndexInImage DEF IInv, DecodeComplete
  <2> QED
    BY <2>1 DEF DecodeComplete
<1>3. held \cup {report.frame} \subseteq Nat
  <2>1. report.frame \in Nat
    BY DEF PipeIInv, PipeTypeOK, Report, NoReport
  <2>2. held \subseteq Nat
    BY DEF PipeIInv, PipeTypeOK
  <2> QED
    BY <2>1, <2>2
<1>4. image \in [image : [Index -> Pixel], frames : SUBSET Nat]
  BY <1>2, <1>3
<1>5. delivered' = Append(delivered, image)
  OBVIOUS
<1> HIDE DEF image
<1>6. /\ Len(delivered) \in Nat
      /\ delivered' \in Seq([image : [Index -> Pixel], frames : SUBSET Nat])
      /\ Len(delivered') = Len(delivered) + 1
      /\ \A d \in 1 .. Len(delivered) : delivered'[d] = delivered[d]
      /\ delivered'[Len(delivered) + 1] = image
  BY <1>4, <1>5, AppendProperties, LenProperties DEF PipeIInv, PipeTypeOK
<1> QED
  BY <1>6 DEF image

\* A nybble is decoded: only from the report in progress, whose timestamp is
\* that of all that is held.
LEMMA DecodeKeeps ==
  ASSUME IInv, PipeIInv, DecodeStep
  PROVE  PipeIInv'
<1> DEFINE n == NextInReport
<1>1. /\ InReport /\ UNCHANGED <<channel, report, captured, lost>>
      /\ n \in Nybble
  BY NextIsNybble DEF DecodeStep
<1>2. /\ report \in Report /\ FromFrame(report)
      /\ report.ts = timestamp_in_progress
      /\ length = Len(report.data) \div 2 + 1
  BY <1>1 DEF PipeIInv, Decoding
<1>3. held \cup {report.frame} \subseteq 1 .. Len(captured)
      /\ \A f \in held \cup {report.frame} :
           captured[f].ts = timestamp_in_progress
  BY <1>2 DEF PipeIInv, PipeTypeOK, HeldTogether, FromFrame
<1>4. Stamped'
  BY <1>1 DEF PipeIInv, Stamped, FromFrame
<1> HIDE DEF n
<1>5. CASE DecodeError(n) /\ held' = {} /\ UNCHANGED delivered
  <2>1. ~InReport'
    BY <1>5, DecoderAssumption DEF DecodeError, LeaveReport, InReport
  <2>2. PipeTypeOK' /\ HeldTogether'
    BY <1>1, <1>5
    DEF PipeIInv, PipeTypeOK, HeldTogether, DecodeError, reset_decoder
  <2>3. DeliveredCaptured' /\ OnlyEqualStampsMerge'
    BY <1>1, <1>5 DEF PipeIInv, DeliveredCaptured, OnlyEqualStampsMerge
  <2> QED
    BY <1>4, <2>1, <2>2, <2>3 DEF PipeIInv, Decoding
<1>6. CASE /\ DecodeComplete(n) /\ held' = {}
           /\ delivered' = Append(delivered,
                [image  |-> callback'.image,
                 frames |-> held \cup {report.frame}])
  <2> DEFINE image == [image |-> callback'.image,
                       frames |-> held \cup {report.frame}]
  <2>1. ~InReport'
    BY <1>6, DecoderAssumption DEF DecodeComplete, LeaveReport, InReport
  <2>5. /\ Len(delivered) \in Nat
        /\ delivered' \in Seq([image : [Index -> Pixel], frames : SUBSET Nat])
        /\ Len(delivered') = Len(delivered) + 1
        /\ \A d \in 1 .. Len(delivered) : delivered'[d] = delivered[d]
        /\ delivered'[Len(delivered) + 1] = image
    BY <1>6, CallbackAppends DEF n
  <2>6. ASSUME NEW d \in 1 .. Len(delivered')
        PROVE  d \in 1 .. Len(delivered) \/ d = Len(delivered) + 1
    BY <2>5
  <2>7. image.frames = held \cup {report.frame}
    OBVIOUS
  <2> HIDE DEF image
  <2>8. PipeTypeOK' /\ HeldTogether'
    BY <1>1, <1>6, <2>5
    DEF PipeIInv, PipeTypeOK, HeldTogether, DecodeComplete, reset_decoder
  <2>9. DeliveredCaptured'
    BY <1>1, <1>3, <2>5, <2>6, <2>7 DEF PipeIInv, DeliveredCaptured
  <2>10. OnlyEqualStampsMerge'
    <3> SUFFICES ASSUME NEW d \in 1 .. Len(delivered'),
                        NEW f \in delivered'[d].frames,
                        NEW g \in delivered'[d].frames
                 PROVE  captured[f].ts = captured[g].ts
      BY <1>1 DEF OnlyEqualStampsMerge
    <3>1. CASE d \in 1 .. Len(delivered)
      BY <2>5, <3>1 DEF PipeIInv, OnlyEqualStampsMerge
    <3>2. CASE d = Len(delivered) + 1
      BY <1>3, <2>5, <2>7, <3>2
    <3> QED
      BY <2>6, <3>1, <3>2
  <2> QED
    BY <1>4, <2>1, <2>8, <2>9, <2>10 DEF PipeIInv, Decoding
<1>7. CASE /\ DecodeProgress(n) /\ UNCHANGED delivered
           /\ held' = held \cup {report.frame}
  <2>1. /\ UNCHANGED timestamp_in_progress /\ length' = length
    BY <1>7 DEF DecodeProgress, NextNybble
  <2>2. buf_index' = 0 => next_is_run_encoded'
    BY <1>1, <1>7, NybbleAdvances DEF IInv
  <2>3. PipeTypeOK'
    BY <1>1, <1>3, <1>7 DEF PipeIInv, PipeTypeOK
  <2>4. HeldTogether'
    BY <1>1, <1>3, <1>7, <2>1, <2>2 DEF HeldTogether
  <2>5. Decoding'
    BY <1>1, <1>2, <2>1 DEF Decoding, FromFrame
  <2>6. DeliveredCaptured' /\ OnlyEqualStampsMerge'
    BY <1>1, <1>7 DEF PipeIInv, DeliveredCaptured, OnlyEqualStampsMerge
  <2> QED
    BY <1>4, <2>3, <2>4, <2>5, <2>6 DEF PipeIInv
<1> QED
  BY <1>5, <1>6, <1>7 DEF DecodeStep, n

\* Every step of the pipeline is a step of the decoder or leaves it alone.
LEMMA DecoderSteps ==
  ASSUME IInv, PipeIInv, [PipeNext]_allVars
  PROVE  [Next]_vars
<1>1. CASE \E img \in Images, ts \in Timestamps : Capture(img, ts)
  BY <1>1 DEF Capture
<1>2. CASE Lose
  BY <1>2 DEF Lose
<1>3. CASE Receive
  <2>1. report' \in Report
    BY <1>3, OldestLeaves DEF Receive
  <2>2. report'.ts \in Timestamps /\ report'.data \in ReportData
    BY <2>1 DEF Report
  <2>3. Len(report'.data) \div 2 + 1 \in 0 .. MaxLength
    BY <2>2, DataFits
  <2>4. BeginReport(report'.ts, Len(report'.data) \div 2 + 1)
    BY <1>3 DEF Receive
  <2> QED
    BY <2>2, <2>3, <2>4 DEF Next
<1>4. CASE DecodeStep
  <2>1. NextInReport \in Nybble
    BY <1>4, NextIsNybble DEF DecodeStep
  <2>2. \/ DecodeError(NextInReport) \/ DecodeComplete(NextInReport)
        \/ DecodeProgress(NextInReport)
    BY <1>4 DEF DecodeStep
  <2> QED
    BY <2>1, <2>2 DEF Next
<1>5. CASE UNCHANGED allVars
  BY <1>5 DEF allVars
<1> QED
  BY <1>1, <1>2, <1>3, <1>4, <1>5 DEF PipeNext

\* A step of the pipeline keeps its invariant and that of the decoder.
LEMMA PipeNextIInv ==
  ASSUME IInv, PipeIInv, [PipeNext]_allVars
  PROVE  IInv' /\ PipeIInv'
<1>1. IInv'
  BY DecoderSteps, StepIInv
<1>2. CASE UNCHANGED allVars
  <2>1. UNCHANGED <<vars, channel, report, captured, delivered, held, lost>>
    BY <1>2 DEF allVars, pipeVars
  <2>2. PipeTypeOK' /\ Stamped' /\ Decoding'
    BY <2>1 DEF PipeIInv, PipeTypeOK, Stamped, Decoding, FromFrame, InReport,
                vars, loopVars
  <2>3. HeldTogether' /\ DeliveredCaptured' /\ OnlyEqualStampsMerge'
    BY <2>1 DEF PipeIInv, HeldTogether, DeliveredCaptured,
                OnlyEqualStampsMerge, vars, decoderVars
  <2> QED
    BY <1>1, <2>2, <2>3 DEF PipeIInv
<1> QED
  BY <1>1, <1>2, CaptureKeeps, LoseKeeps, ReceiveKeeps, DecodeKeeps
  DEF PipeNext

-----------------------------------------------------------------------------
(* Intact frames are followed through the channel and the decoder.         *)

\* The image of a captured frame.
LEMMA CapturedImage ==
  ASSUME PipeIInv, NEW f \in 1 .. Len(captured)
  PROVE  /\ captured[f].image \in [Index -> Pixel]
         /\ captured[f].image \in Images
<1>1. captured[f] \in [image : Images, ts : Timestamps]
  BY ElementOfSeq DEF PipeIInv, PipeTypeOK
<1> QED
  BY <1>1, PipelineAssumption

\* How far the loop is in the report in progress.
LEMMA InProgress ==
  ASSUME IInv, PipeIInv, InReport
  PROVE  \E n \in Nat \ {0} :
           /\ Len(report.data) = 2 * n /\ length = n + 1
           /\ t \in 0 .. n - 1 /\ Consumed \in 0 .. 2 * n - 1
           /\ NextInReport = report.data[Consumed + 1]
<1>1. report.data \in ReportData /\ length = Len(report.data) \div 2 + 1
  BY DEF PipeIInv, Decoding, Report
<1>2. PICK n \in Nat \ {0} : Len(report.data) = 2 * n
  BY <1>1, DataLength
<1>3. length = n + 1 /\ t \in 0 .. n - 1
  <2>1. t \in Nat /\ t < length - 1
    BY DecoderAssumption DEF IInv, TypeOK, InReport
  <2> QED
    BY <1>1, <1>2, <2>1
<1>4. CASE half = "low"
  <2>1. Consumed = 2 * t
    BY <1>3, <1>4 DEF Consumed, Odd
  <2>2. NextInReport = report.data[2 * t + 1]
    BY <1>4 DEF NextInReport
  <2> QED
    BY <1>2, <1>3, <2>1, <2>2
<1>5. CASE half = "high"
  <2>1. Consumed = 2 * t + 1
    BY <1>5 DEF Consumed, Odd
  <2>2. NextInReport = report.data[2 * t + 2]
    BY <1>5 DEF NextInReport
  <2>3. (2 * t + 1) + 1 = 2 * t + 2
    BY <1>3
  <2> QED
    BY <1>2, <1>3, <2>1, <2>2, <2>3
<1> QED
  BY <1>4, <1>5 DEF IInv, TypeOK

\* The report in progress has a nybble left.
LEMMA DueTyped ==
  ASSUME IInv, PipeIInv, NEW f
  PROVE  /\ Due(f) \in Nat
         /\ InReport /\ report.frame = f => Due(f) # 0
<1>1. CASE InReport /\ report.frame = f
  <2>1. PICK n \in Nat \ {0} :
          Len(report.data) = 2 * n /\ Consumed \in 0 .. 2 * n - 1
    BY <1>1, InProgress
  <2>2. Due(f) = 2 * n - Consumed
    BY <1>1, <2>1 DEF Due
  <2> QED
    BY <2>1, <2>2
<1>2. CASE ~(InReport /\ report.frame = f)
  BY <1>2 DEF Due
<1> QED
  BY <1>1, <1>2

\* Something is to come of a frame that is not delivered.
LEMMA SomethingToCome ==
  ASSUME IInv, PipeIInv, NEW f \in 1 .. Len(captured),
         NEW e \in ToCome(f), NEW u \in Seq(Nybble), Padded(u, e)
  PROVE  u # <<>>
<1> DEFINE img == captured[f].image
<1>1. img \in [Index -> Pixel]
  BY CapturedImage
<1>2. \E i \in Index, m \in BOOLEAN : e \in Completions(img, i, m)
  <2>1. CASE f \in held
    <3>1. e \in Completions(img, buf_index, next_is_run_encoded)
      BY <2>1 DEF ToCome
    <3> QED
      BY <3>1 DEF IInv, TypeOK
  <2>2. CASE f \notin held
    <3>1. e \in Completions(img, 0, FALSE)
      BY <2>2 DEF ToCome
    <3>2. 0 \in Index
      BY DecoderAssumption DEF Index
    <3> QED
      BY <3>1, <3>2
  <2> QED
    BY <2>1, <2>2
<1> HIDE DEF img
<1>3. e \in Seq(Nybble) /\ e # <<>>
  BY <1>1, <1>2, FirstOfCompletion
<1> QED
  BY <1>3, FirstOfPadded

\* If it is not in the report in progress, it is in the channel.
LEMMA ComingWaits ==
  ASSUME IInv, PipeIInv, NEW f \in 1 .. Len(captured), Coming(f),
         ~(InReport /\ report.frame = f)
  PROVE  \E p \in 1 .. Len(channel) : channel[p].frame = f
<1> SUFFICES ASSUME \A p \in 1 .. Len(channel) : channel[p].frame # f
             PROVE  FALSE
  OBVIOUS
<1>1. PICK u \in Seq(Nybble) :
        Remaining(f, u) /\ \E e \in ToCome(f) : Padded(u, e)
  BY DEF Coming
<1>2. u # <<>>
  BY <1>1, SomethingToCome
<1>3. Queued(f, channel, u, 0)
  BY <1>1 DEF Remaining, Due
<1>4. channel \in Seq(Report)
  BY DEF PipeIInv, PipeTypeOK
<1>5. Len(u) = 0
  BY <1>3, <1>4, NoneQueued
<1> QED
  BY <1>2, <1>5, EmptySeq

\* What moves in the channel or the decoder without touching frame f leaves it
\* coming.
LEMMA StaysComing ==
  ASSUME NEW f, Coming(f), Fresh(f)', Underway(f)', ToCome(f)' = ToCome(f),
         Due(f)' = Due(f), Due(f) = 0 \/ UNCHANGED <<report, loopVars>>,
         \A u \in Seq(Nybble) : Queued(f, channel, u, Due(f))
                                => Queued(f, channel', u, Due(f))
  PROVE  Coming(f)'
<1>1. PICK u \in Seq(Nybble) :
        Remaining(f, u) /\ \E e \in ToCome(f) : Padded(u, e)
  BY DEF Coming
<1>2. Queued(f, channel', u, Due(f))
  BY <1>1 DEF Remaining
<1>3. Queued(f, channel', u, Due(f)')
  BY <1>2
<1>4. \A j \in 1 .. Due(f)' : u[j] = report'.data[Consumed' + j]
  <2>1. CASE Due(f) = 0
    <3>1. Due(f)' = 0
      BY <2>1
    <3> HIDE DEF Due
    <3>2. 1 .. Due(f)' = {}
      BY <3>1
    <3> QED
      BY <3>2
  <2>2. CASE UNCHANGED <<report, loopVars>>
    <3>1. Consumed' = Consumed /\ report' = report
      BY <2>2 DEF Consumed, Odd, loopVars
    <3>2. \A j \in 1 .. Due(f) : u[j] = report.data[Consumed + j]
      BY <1>1 DEF Remaining
    <3>3. Due(f)' = Due(f)
      OBVIOUS
    <3> HIDE DEF Due
    <3> QED
      BY <3>1, <3>2, <3>3
  <2> QED
    BY <2>1, <2>2
<1>5. \E e \in ToCome(f)' : Padded(u, e)
  BY <1>1
<1> QED
  BY <1>3, <1>4, <1>5 DEF Coming, Remaining

\* What was intact before a step that loses at most reports of other frames.
LEMMA WasIntact ==
  ASSUME NEW f \in 1 .. Len(captured), Intact(f)',
         LostFrames \subseteq LostFrames',
         LostFrames \subseteq 1 .. Len(captured),
         \A g \in 1 .. Len(captured) : captured'[g] = captured[g]
  PROVE  Intact(f)
<1>1. captured'[f] = captured[f]
  OBVIOUS
<1>2. f \notin LostFrames'
      /\ \A g \in LostFrames' : g < f => captured'[g].ts # captured'[f].ts
  BY DEF Intact
<1> QED
  BY <1>1, <1>2 DEF Intact

\* A frame that is done stays done when no report of it appears.
LEMMA StaysDone ==
  ASSUME NEW f, Done(f), Settled(f)', f \notin held',
         captured'[f] = captured[f],
         \A d \in 1 .. Len(delivered) :
           d \in 1 .. Len(delivered') /\ delivered'[d] = delivered[d],
         \A d \in 1 .. Len(delivered') :
           d \in 1 .. Len(delivered) \/ f \notin delivered'[d].frames
  PROVE  Done(f)'
<1>1. PICK d \in 1 .. Len(delivered) :
        /\ delivered[d] = [image |-> captured[f].image, frames |-> {f}]
        /\ \A e \in 1 .. Len(delivered) : f \in delivered[e].frames => e = d
  BY DEF Done, Arrived
<1>2. /\ d \in 1 .. Len(delivered')
      /\ delivered'[d] = [image |-> captured'[f].image, frames |-> {f}]
      /\ \A e \in 1 .. Len(delivered') : f \in delivered'[e].frames => e = d
  BY <1>1
<1> QED
  BY <1>2 DEF Done, Arrived

\* The channel behind its oldest report.
LEMMA BehindOldest ==
  ASSUME PipeIInv, channel # <<>>
  PROVE  /\ channel \in Seq(Report) /\ Len(channel) \in Nat \ {0}
         /\ Head(channel) = channel[1] /\ 1 \in 1 .. Len(channel)
         /\ Len(Tail(channel)) = Len(channel) - 1
         /\ \A p \in 1 .. Len(Tail(channel)) :
              p + 1 \in 1 .. Len(channel) /\ Tail(channel)[p] = channel[p + 1]
<1>1. channel \in Seq(Report)
  BY DEF PipeIInv, PipeTypeOK
<1>2. Len(channel) \in Nat \ {0} /\ Head(channel) = channel[1]
  BY <1>1, EmptySeq
<1>3. /\ Len(Tail(channel)) = Len(channel) - 1
      /\ \A p \in 1 .. Len(Tail(channel)) : Tail(channel)[p] = channel[p + 1]
  BY <1>1, HeadTailProperties
<1> QED
  BY <1>1, <1>2, <1>3

\* Frames in the channel and in the report in progress.
LEMMA FrameNumbers ==
  ASSUME PipeIInv
  PROVE  /\ Len(captured) \in Nat /\ report.frame \in Nat
         /\ held \subseteq 1 .. Len(captured)
         /\ \A p \in 1 .. Len(channel) :
              channel[p].frame \in 1 .. Len(captured)
<1>1. Len(captured) \in Nat
  BY LenProperties DEF PipeIInv, PipeTypeOK
<1>2. report.frame \in Nat
  BY DEF PipeIInv, PipeTypeOK, Report, NoReport
<1> QED
  BY <1>1, <1>2 DEF PipeIInv, PipeTypeOK, Stamped, FromFrame

\* The oldest report is lost: its frame is no longer intact, the others wait
\* as before.
LEMMA LoseFollows ==
  ASSUME IInv, PipeIInv, FrameIInv, Lose
  PROVE  FrameIInv'
<1>1. /\ channel # <<>> /\ channel' = Tail(channel)
      /\ lost' = Append(lost, <<Head(channel).frame, Head(channel).part>>)
      /\ UNCHANGED <<vars, report, captured, delivered, held>>
  BY DEF Lose
<1>2. UNCHANGED <<buf_index, next_is_run_encoded, partial_image, length, t,
                  half, loopVars>>
  BY <1>1 DEF vars, decoderVars, loopVars
<1> DEFINE head == Head(channel)
<1>3. /\ channel \in Seq(Report) /\ Len(channel) \in Nat \ {0}
      /\ head = channel[1] /\ 1 \in 1 .. Len(channel)
      /\ Len(channel') = Len(channel) - 1
      /\ \A p \in 1 .. Len(channel') :
           p + 1 \in 1 .. Len(channel) /\ channel'[p] = channel[p + 1]
  BY <1>1, BehindOldest
<1>4. LostFrames' = LostFrames \cup {head.frame} /\ lost' # <<>>
  <2>1. <<head.frame, head.part>> \in Nat \X Nat
    BY <1>1, OldestLeaves DEF Report
  <2>2. /\ Len(lost) \in Nat /\ Len(lost') = Len(lost) + 1 /\ lost' # <<>>
        /\ \A l \in 1 .. Len(lost) : lost'[l] = lost[l]
        /\ lost'[Len(lost) + 1] = <<head.frame, head.part>>
    <3> DEFINE x == <<head.frame, head.part>>
    <3>1. lost \in Seq(Nat \X Nat) /\ lost' = Append(lost, x)
      BY <1>1 DEF PipeIInv, PipeTypeOK
    <3> HIDE DEF x
    <3>2. /\ Len(lost) \in Nat /\ Len(lost') = Len(lost) + 1 /\ lost' # <<>>
          /\ \A l \in 1 .. Len(lost) : lost'[l] = lost[l]
          /\ lost'[Len(lost) + 1] = x
      BY <2>1, <3>1, AppendProperties, LenProperties DEF x
    <3> QED
      BY <3>2 DEF x
  <2> HIDE DEF head
  <2>3. \A x : x \in LostFrames' <=> \E l \in 1 .. Len(lost') : lost'[l][1] = x
    BY DEF LostFrames
  <2>4. \A x : x \in LostFrames <=> \E l \in 1 .. Len(lost) : lost[l][1] = x
    BY DEF LostFrames
  <2>5. \A l \in 1 .. Len(lost') :
          l \in 1 .. Len(lost) \/ l = Len(lost) + 1
    BY <2>2
  <2>6. \A l \in 1 .. Len(lost) : l \in 1 .. Len(lost')
    BY <2>2
  <2>7. Len(lost) + 1 \in 1 .. Len(lost')
    BY <2>2
  <2>8. lost'[Len(lost) + 1][1] = head.frame
    BY <2>2
  <2>9. \A x : x \in LostFrames' <=> x \in LostFrames \cup {head.frame}
    BY <2>2, <2>3, <2>4, <2>5, <2>6, <2>7, <2>8
  <2> QED
    BY <2>2, <2>9
<1>5. head.frame \in 1 .. Len(captured)
  BY <1>3, FrameNumbers
<1> HIDE DEF head
<1>6. InSequence'
  <2>1. \A p, q \in 1 .. Len(channel') :
          p < q => channel'[p].frame <= channel'[q].frame
    <3> SUFFICES ASSUME NEW p \in 1 .. Len(channel'),
                        NEW q \in 1 .. Len(channel'), p < q
                 PROVE  channel'[p].frame <= channel'[q].frame
      OBVIOUS
    <3>1. p + 1 < q + 1
      BY <1>3
    <3> QED
      BY <1>3, <3>1 DEF FrameIInv, InSequence
  <2> QED
    BY <1>1, <1>3, <2>1 DEF FrameIInv, InSequence
<1>7. LostCaptured' /\ InOrder'
  BY <1>1, <1>4, <1>5 DEF FrameIInv, LostCaptured, InOrder
<1>8. ASSUME NEW f \in 1 .. Len(captured), Intact(f)'
      PROVE  Done(f)' \/ Coming(f)'
  <2>1. Intact(f) /\ head.frame # f
    <3>1. f \notin LostFrames'
      BY <1>8 DEF Intact
    <3> QED
      BY <1>1, <1>4, <1>8, <3>1, WasIntact DEF FrameIInv, LostCaptured
  <2>2. CASE Done(f)
    <3>1. Settled(f)'
      BY <1>1, <1>2, <1>3, <2>2 DEF Done, Settled, InReport
    <3> QED
      BY <1>1, <2>2, <3>1, StaysDone DEF Done
  <2>3. CASE Coming(f)
    <3>1. Underway(f)' /\ Fresh(f)'
      BY <1>1, <1>2, <2>3 DEF Coming, Underway, InReport, Fresh
    <3>2. ToCome(f)' = ToCome(f) /\ Due(f)' = Due(f)
      BY <1>1, <1>2 DEF ToCome, Due, InReport, Consumed, Odd
    <3>3. \A u \in Seq(Nybble) : Queued(f, channel, u, Due(f))
                                 => Queued(f, channel', u, Due(f))
      <4>1. Due(f) \in Nat
        BY DueTyped
      <4> HIDE DEF Due
      <4> QED
        BY <1>1, <1>3, <2>1, <4>1, OldestOut DEF head
    <3> QED
      BY <1>1, <1>2, <2>3, <3>1, <3>2, <3>3, StaysComing
  <2> QED
    BY <1>8, <2>1, <2>2, <2>3 DEF FrameIInv, Followed
<1>9. Followed'
  BY <1>1, <1>8 DEF Followed
<1> QED
  BY <1>6, <1>7, <1>9 DEF FrameIInv

\* Between two reports a frame that is held goes on with the oldest report.
LEMMA HeldContinues ==
  ASSUME IInv, PipeIInv, InSequence, ~InReport,
         NEW f \in 1 .. Len(captured), f \in held, Coming(f),
         channel # <<>>
  PROVE  channel[1].frame = f /\ report.frame = f
<1>1. report.frame = f
  BY DEF Coming, Underway
<1>2. PICK p \in 1 .. Len(channel) : channel[p].frame = f
  BY ComingWaits
<1>3. 1 \in 1 .. Len(channel) /\ Len(channel) \in Nat
  BY BehindOldest
<1>4. channel[1].frame \in Nat /\ f \in Nat
  BY <1>3, FrameNumbers
<1>5. f <= channel[1].frame
  BY <1>1, <1>3 DEF InSequence
<1>6. channel[1].frame <= f
  <2>1. CASE p = 1
    BY <1>2, <1>4, <2>1
  <2>2. CASE p # 1
    <3>1. 1 < p
      BY <1>3, <2>2
    <3> QED
      BY <1>2, <1>3, <3>1 DEF InSequence
  <2> QED
    BY <2>1, <2>2
<1> QED
  BY <1>1, <1>4, <1>5, <1>6

\* The first report of an intact frame finds the decoder empty: what it held
\* was of another timestamp.
LEMMA NothingHeld ==
  ASSUME IInv, PipeIInv, InSequence, LostCaptured, Followed, Receive,
         NEW f \in 1 .. Len(captured), Intact(f), Head(channel).frame = f,
         f \notin held
  PROVE  held' = {}
<1>1. /\ channel # <<>> /\ report' = Head(channel) /\ ~InReport
      /\ held' = IF StaleFrame(report'.ts) THEN {} ELSE held
  BY DEF Receive, BeginReport
<1> SUFFICES ASSUME held # {}, ~StaleFrame(report'.ts)
             PROVE  FALSE
  BY <1>1
<1>2. report'.ts = captured[f].ts
  BY <1>1, OldestLeaves DEF FromFrame
<1>3. buf_index # 0
  <2>1. half = "low"
    BY <1>1 DEF IInv, HalfInReport, TypeOK
  <2> QED
    BY <2>1 DEF IInv, PairwiseRun, PipeIInv, HeldTogether
<1>4. timestamp_in_progress = captured[f].ts
  BY <1>2, <1>3 DEF StaleFrame
<1>5. PICK g \in held : TRUE
  OBVIOUS
<1>6. /\ g \in 1 .. Len(captured) /\ captured[g].ts = captured[f].ts
      /\ g \in Nat /\ f \in Nat
  BY <1>4, <1>5, FrameNumbers DEF PipeIInv, HeldTogether
<1>7. channel[1].frame = f
  BY <1>1, BehindOldest
<1>8. g < f
  <2>1. g <= report.frame /\ report.frame <= f /\ report.frame \in Nat
    BY <1>1, <1>5, <1>7, BehindOldest, FrameNumbers DEF InSequence
  <2> QED
    BY <1>5, <1>6, <2>1
<1>9. Intact(g)
  <2>1. g \notin LostFrames
    BY <1>6, <1>8 DEF Intact
  <2>2. ASSUME NEW h \in LostFrames, h < g
        PROVE  captured[h].ts # captured[g].ts
    <3>1. h \in Nat
      BY FrameNumbers DEF LostCaptured
    <3>2. h < f
      BY <1>6, <1>8, <2>2, <3>1
    <3> QED
      BY <1>6, <3>2 DEF Intact
  <2> QED
    BY <2>1, <2>2 DEF Intact
<1>10. Coming(g)
  BY <1>5, <1>6, <1>9 DEF Followed, Done
<1>11. channel[1].frame = g
  BY <1>1, <1>5, <1>6, <1>10, HeldContinues
<1> QED
  BY <1>6, <1>7, <1>8, <1>11

\* The oldest report of an intact frame is received: its nybbles are due.
LEMMA OwnReceived ==
  ASSUME IInv, PipeIInv, InSequence, LostCaptured, Followed, Receive,
         NEW f \in 1 .. Len(captured), Intact(f), Head(channel).frame = f
  PROVE  Coming(f)'
<1> DEFINE img == captured[f].image
           data == report'.data
<1>1. /\ channel # <<>> /\ channel' = Tail(channel) /\ report' = Head(channel)
      /\ UNCHANGED <<captured, delivered, lost>>
      /\ held' = IF StaleFrame(report'.ts) THEN {} ELSE held
      /\ ~InReport /\ t' = 0 /\ half' = "low"
      /\ length' = Len(data) \div 2 + 1
  BY DEF Receive, BeginReport
<1>2. /\ channel \in Seq(Report) /\ Head(channel) = channel[1]
      /\ 1 \in 1 .. Len(channel)
  BY <1>1, BehindOldest
<1>3. Coming(f)
  <2>1. ~Settled(f)
    BY <1>2 DEF Settled
  <2> QED
    BY <2>1 DEF Followed, Done
<1>4. report' \in Report /\ report'.frame = f /\ report'.ts = captured[f].ts
  BY <1>1, OldestLeaves DEF FromFrame
<1>5. PICK n \in Nat \ {0} : Len(data) = 2 * n
  <2>1. data \in ReportData
    BY <1>4 DEF Report
  <2> QED
    BY <2>1, DataLength
<1>6. InReport' /\ Consumed' = 0 /\ Due(f)' = 2 * n
  <2>1. length' = n + 1
    <3>1. length' = Len(data) \div 2 + 1
      BY <1>1
    <3> HIDE DEF data
    <3>2. Len(data) \div 2 = n
      BY <1>5
    <3> QED
      BY <3>1, <3>2
  <2>2. InReport'
    <3>1. 0 < (n + 1) - 1
      OBVIOUS
    <3>2. t' = 0 /\ length' = n + 1
      BY <1>1, <2>1
    <3> QED
      BY <3>1, <3>2 DEF InReport
  <2>3. Consumed' = 0
    BY <1>1 DEF Consumed, Odd
  <2>4. Due(f)' = Len(data) - 0
    BY <1>4, <2>2, <2>3 DEF Due
  <2> QED
    BY <1>5, <2>2, <2>3, <2>4
<1>7. PICK u \in Seq(Nybble) :
        Remaining(f, u) /\ \E e \in ToCome(f) : Padded(u, e)
  BY <1>3 DEF Coming
<1>8. Queued(f, channel, u, 0)
  BY <1>1, <1>7 DEF Remaining, Due
<1>9. /\ Queued(f, channel', u, 0 + Len(data))
      /\ \A j \in 1 .. Len(data) : u[0 + j] = data[j]
  <2>1. /\ Queued(f, Tail(channel), u, 0 + Len(Head(channel).data))
        /\ \A j \in 1 .. Len(Head(channel).data) :
             u[0 + j] = Head(channel).data[j]
    <3> DEFINE now == 0
    <3>1. /\ now \in Nat /\ Queued(f, channel, u, now)
          /\ channel \in Seq(Report) /\ channel # <<>>
          /\ u \in Seq(Nybble)
      BY <1>1, <1>2, <1>7, <1>8
    <3> HIDE DEF now
    <3>2. /\ Queued(f, Tail(channel), u, now + Len(Head(channel).data))
          /\ \A j \in 1 .. Len(Head(channel).data) :
               u[now + j] = Head(channel).data[j]
      BY <3>1, OldestOut
    <3> QED
      BY <3>2 DEF now
  <2>2. data = Head(channel).data /\ channel' = Tail(channel)
    BY <1>1
  <2> HIDE DEF data
  <2> QED
    BY <2>1, <2>2
<1>10. Remaining(f, u)'
  <2>1. 0 + Len(data) = 2 * n
    BY <1>5
  <2>2. Queued(f, channel', u, Due(f)')
    BY <1>6, <1>9, <2>1
  <2>3. \A j \in 1 .. Due(f)' : u[j] = report'.data[Consumed' + j]
    <3> SUFFICES ASSUME NEW j \in 1 .. 2 * n PROVE u[j] = data[0 + j]
      BY <1>6
    <3>1. 0 + j = j /\ j \in 1 .. Len(data)
      BY <1>5
    <3> QED
      BY <1>9, <3>1
  <2> QED
    BY <2>2, <2>3 DEF Remaining
<1>11. Fresh(f)'
  BY <1>1, <1>3 DEF Coming, Fresh
<1>12. CASE f \in held
  <2>1. captured[f].ts = timestamp_in_progress
    BY <1>12 DEF PipeIInv, HeldTogether
  <2>2. ~StaleFrame(report'.ts)
    BY <1>4, <2>1 DEF StaleFrame
  <2>3. held' = held /\ UNCHANGED <<buf_index, next_is_run_encoded,
                                    partial_image>>
    BY <1>1, <1>4, <2>2 DEF Receive, BeginReport, decoderVars
  <2>4. Underway(f)'
    BY <1>1, <1>3, <1>4, <1>12, <2>3 DEF Coming, Underway
  <2>5. ToCome(f)' = ToCome(f)
    BY <1>1, <2>3 DEF ToCome
  <2> QED
    BY <1>7, <1>10, <1>11, <2>4, <2>5 DEF Coming
<1>13. CASE f \notin held
  <2>1. held' = {}
    BY <1>13, NothingHeld
  <2>2. Underway(f)'
    BY <2>1 DEF Underway
  <2>3. ToCome(f)' = ToCome(f)
    BY <1>1, <1>13, <2>1 DEF ToCome
  <2> QED
    BY <1>7, <1>10, <1>11, <2>2, <2>3 DEF Coming
<1> QED
  BY <1>12, <1>13

\* The oldest report is received: a frame that is held is the frame of it.
LEMMA ReceiveFollows ==
  ASSUME IInv, PipeIInv, FrameIInv, Receive
  PROVE  FrameIInv'
<1>1. /\ channel # <<>> /\ channel' = Tail(channel) /\ report' = Head(channel)
      /\ UNCHANGED <<captured, delivered, lost>>
      /\ held' \subseteq held /\ ~InReport
  BY DEF Receive, BeginReport
<1>2. /\ channel \in Seq(Report) /\ Len(channel) \in Nat \ {0}
      /\ report' = channel[1] /\ 1 \in 1 .. Len(channel)
      /\ Len(channel') = Len(channel) - 1
      /\ \A p \in 1 .. Len(channel') :
           p + 1 \in 1 .. Len(channel) /\ channel'[p] = channel[p + 1]
  BY <1>1, BehindOldest
<1>3. /\ report'.frame \in 1 .. Len(captured) /\ Len(captured) \in Nat
      /\ report.frame \in Nat /\ held \subseteq 1 .. Len(captured)
      /\ \A p \in 1 .. Len(channel) : channel[p].frame \in Nat
  BY <1>2, FrameNumbers
<1>4. InSequence'
  <2>1. \A p, q \in 1 .. Len(channel') :
          p < q => channel'[p].frame <= channel'[q].frame
    <3> SUFFICES ASSUME NEW p \in 1 .. Len(channel'),
                        NEW q \in 1 .. Len(channel'), p < q
                 PROVE  channel'[p].frame <= channel'[q].frame
      OBVIOUS
    <3>1. p + 1 < q + 1
      BY <1>2
    <3> QED
      BY <1>2, <3>1 DEF FrameIInv, InSequence
  <2>2. ASSUME NEW p \in 1 .. Len(channel')
        PROVE  report'.frame <= channel'[p].frame
    <3>1. 1 < p + 1
      BY <1>2
    <3> QED
      BY <1>2, <3>1 DEF FrameIInv, InSequence
  <2>3. ASSUME NEW f \in held'
        PROVE  f <= report'.frame
    <3>1. f <= report.frame /\ report.frame <= report'.frame
      BY <1>1, <1>2 DEF FrameIInv, InSequence
    <3>2. f \in Nat /\ report'.frame \in Nat
      BY <1>1, <1>3
    <3> QED
      BY <1>3, <3>1, <3>2
  <2>4. report'.frame <= Len(captured')
    BY <1>1, <1>3
  <2> QED
    BY <2>1, <2>2, <2>3, <2>4 DEF InSequence
<1>5. LostCaptured'
  BY <1>1 DEF FrameIInv, LostCaptured, LostFrames
<1>6. InOrder'
  BY <1>1, <1>2 DEF FrameIInv, InOrder
<1>7. ASSUME NEW f \in 1 .. Len(captured), Intact(f)'
      PROVE  Done(f)' \/ Coming(f)'
  <2>1. Intact(f)
    BY <1>1, <1>7 DEF Intact, LostFrames
  <2>2. CASE report'.frame = f
    BY <1>1, <2>1, <2>2, OwnReceived DEF FrameIInv
  <2>3. CASE report'.frame # f
    <3>1. f \notin held
      <4> SUFFICES ASSUME f \in held PROVE FALSE
        OBVIOUS
      <4>1. Coming(f)
        BY <2>1 DEF FrameIInv, Followed, Done
      <4> QED
        BY <1>1, <1>2, <2>3, <4>1, HeldContinues DEF FrameIInv
    <3>2. f \notin held'
      BY <1>1, <3>1
    <3>3. CASE Done(f)
      <4>1. Settled(f)'
        BY <1>2, <2>3, <3>3 DEF Done, Settled
      <4> QED
        BY <1>1, <3>2, <3>3, <4>1, StaysDone
    <3>4. CASE Coming(f)
      <4>1. Underway(f)' /\ ToCome(f)' = ToCome(f)
        BY <1>1, <2>3, <3>1, <3>2 DEF Underway, ToCome
      <4>2. Due(f)' = 0 /\ Due(f) = 0
        BY <1>1, <2>3 DEF Due
      <4>3. \A u \in Seq(Nybble) : Queued(f, channel, u, 0)
                                   => Queued(f, channel', u, 0)
        BY <1>1, <1>2, <2>3, OldestOut
      <4>4. Fresh(f)'
        BY <1>1, <3>4 DEF Coming, Fresh
      <4> HIDE DEF Due
      <4>5. \A u \in Seq(Nybble) : Queued(f, channel, u, Due(f))
                                   => Queued(f, channel', u, Due(f))
        BY <4>2, <4>3
      <4> QED
        BY <3>4, <4>1, <4>2, <4>5, <4>4, StaysComing
    <3> QED
      BY <2>1, <3>3, <3>4 DEF FrameIInv, Followed
  <2> QED
    BY <2>2, <2>3
<1>8. Followed'
  BY <1>1, <1>7 DEF Followed
<1> QED
  BY <1>4, <1>5, <1>6, <1>8 DEF FrameIInv

\* The next nybble of a completion of the image does not overrun it, and what
\* the decoder stores is the image.
LEMMA NybbleFits ==
  ASSUME TypeOK, NEW img \in [Index -> Pixel],
         NEW e \in Completions(img, buf_index, next_is_run_encoded),
         \A j \in 0 .. buf_index - 1 : partial_image[j] = img[j],
         NEW n, e # <<>> => n = e[1]
  PROVE  /\ e \in Seq(Nybble) /\ e # <<>> /\ ~Overruns(n)
         /\ \A j \in 0 .. NextIndex(n) - 1 : NextPixels(n)[j] = img[j]
         /\ Tail(e) \in Completions(img, NextIndex(n),
                                    ~next_is_run_encoded /\ n = RunMark)
         /\ NextIndex(n) = ImageLen => ~(~next_is_run_encoded /\ n = RunMark)
<1> DEFINE i == buf_index
           marked == next_is_run_encoded
<1>1. /\ i \in Index /\ marked \in BOOLEAN
      /\ partial_image \in [Index -> Pixel]
  BY DEF TypeOK
<1>2. /\ ImageLen \in Nat /\ RunMark \in Nat /\ MinRun \in Nat \ {0}
      /\ i \in Nat /\ i < ImageLen
  BY <1>1, DecoderAssumption DEF Index
<1>3. /\ e \in Seq(Nybble) /\ e # <<>>
      /\ marked =>
           \E k \in CodedRuns(img, i) :
             e[1] = k - MinRun /\ Tail(e) \in Completions(img, i + k, FALSE)
      /\ ~marked =>
           \/ e[1] = img[i] /\ Tail(e) \in Completions(img, i + 1, FALSE)
           \/ e[1] = RunMark /\ Tail(e) \in Completions(img, i, TRUE)
  BY <1>1, FirstOfCompletion
<1>4. CASE marked
  <2>1. PICK k \in CodedRuns(img, i) :
          n = k - MinRun /\ Tail(e) \in Completions(img, i + k, FALSE)
    BY <1>3, <1>4
  <2>2. /\ k \in MinRun .. MinRun + RunMark /\ i + k <= ImageLen
        /\ \A j \in i .. i + k - 1 : img[j] = 0
    BY DEF CodedRuns
  <2>3. NextIndex(n) = i + k /\ RunEnd(n) = i + k
    BY <1>2, <1>4, <2>1, <2>2 DEF NextIndex, RunEnd
  <2>4. ~Overruns(n)
    BY <1>2, <2>2, <2>3 DEF Overruns
  <2>5. ASSUME NEW j \in 0 .. NextIndex(n) - 1
        PROVE  NextPixels(n)[j] = img[j]
    <3>1. j \in Index /\ j \in 0 .. i + k - 1
      BY <1>2, <2>2, <2>3 DEF Index
    <3>2. NextPixels(n)[j] = IF j \notin i .. i + k - 1
                             THEN partial_image[j] ELSE 0
      BY <1>4, <2>3, <3>1 DEF NextPixels
    <3>3. j \notin i .. i + k - 1 => j \in 0 .. i - 1
      BY <1>2, <2>2, <3>1
    <3> QED
      BY <2>2, <3>2, <3>3
  <2> QED
    BY <1>3, <1>4, <2>1, <2>3, <2>4, <2>5
<1>5. CASE ~marked /\ n = img[i] /\ Tail(e) \in Completions(img, i + 1, FALSE)
  <2>1. n # RunMark
    BY <1>1, <1>2, <1>5 DEF Pixel
  <2>2. NextIndex(n) = i + 1
    BY <1>5, <2>1 DEF NextIndex
  <2>3. ~Overruns(n)
    BY <1>5 DEF Overruns
  <2>4. ASSUME NEW j \in 0 .. NextIndex(n) - 1
        PROVE  NextPixels(n)[j] = img[j]
    <3>1. j \in Index /\ j \in 0 .. i
      BY <1>2, <2>2 DEF Index
    <3>2. NextPixels(n)[j] = IF j \notin i .. (i + 1) - 1
                             THEN partial_image[j] ELSE n
      BY <1>5, <2>2, <3>1 DEF NextPixels
    <3>3. CASE j = i
      BY <1>2, <1>5, <3>2, <3>3
    <3>4. CASE j # i
      <4>1. j \in 0 .. i - 1 /\ j \notin i .. (i + 1) - 1
        BY <1>2, <3>1, <3>4
      <4> QED
        BY <3>2, <4>1
    <3> QED
      BY <3>3, <3>4
  <2> QED
    BY <1>3, <1>5, <2>1, <2>2, <2>3, <2>4
<1>6. CASE ~marked /\ n = RunMark /\ Tail(e) \in Completions(img, i, TRUE)
  <2>1. NextIndex(n) = i
    BY <1>6 DEF NextIndex
  <2>2. ~Overruns(n)
    BY <1>6 DEF Overruns
  <2>3. ASSUME NEW j \in 0 .. NextIndex(n) - 1
        PROVE  NextPixels(n)[j] = img[j]
    <3>1. j \in Index /\ j \in 0 .. i - 1 /\ j \notin i .. i - 1
      BY <1>2, <2>1 DEF Index
    <3>2. NextPixels(n)[j] = IF j \notin i .. i - 1
                             THEN partial_image[j] ELSE n
      BY <1>6, <2>1, <3>1 DEF NextPixels
    <3> QED
      BY <3>1, <3>2
  <2>4. NextIndex(n) # ImageLen
    BY <1>2, <2>1
  <2> QED
    BY <1>3, <1>6, <2>1, <2>2, <2>3, <2>4
<1> QED
  BY <1>3, <1>4, <1>5, <1>6

\* What is known of the frame whose report is decoded, when it is coming.
LEMMA NextOfFrame ==
  ASSUME IInv, PipeIInv, InReport, NEW f \in 1 .. Len(captured),
         report.frame = f, Coming(f)
  PROVE  /\ held \subseteq {f} /\ ~Overruns(NextInReport)
         /\ \A j \in 0 .. NextIndex(NextInReport) - 1 :
              NextPixels(NextInReport)[j] = captured[f].image[j]
         /\ NextIndex(NextInReport) = ImageLen
              => ~(~next_is_run_encoded /\ NextInReport = RunMark)
         /\ Due(f) \in Nat \ {0}
         /\ \E u \in Seq(Nybble) :
              /\ Queued(f, channel, u, Due(f) - 1)
              /\ \A j \in 1 .. Due(f) - 1 :
                   u[j] = report.data[Consumed + 1 + j]
              /\ \E e \in Completions(captured[f].image,
                            NextIndex(NextInReport),
                            ~next_is_run_encoded /\ NextInReport = RunMark) :
                   Padded(u, e)
<1> DEFINE n == NextInReport
           img == captured[f].image
           left == Due(f)
<1>1. PICK u \in Seq(Nybble), e \in ToCome(f) : Remaining(f, u) /\ Padded(u, e)
  BY DEF Coming
<1>2. /\ e \in Completions(img, buf_index, next_is_run_encoded)
      /\ \A j \in 0 .. buf_index - 1 : partial_image[j] = img[j]
      /\ held \subseteq {f}
  <2>1. CASE f \in held
    BY <1>1, <2>1 DEF ToCome, Coming, Underway
  <2>2. CASE f \notin held
    <3>1. held = {}
      BY <2>2 DEF Coming, Underway
    <3>2. buf_index = 0 /\ next_is_run_encoded = FALSE
      BY <3>1 DEF PipeIInv, HeldTogether, IInv, TypeOK
    <3>3. 0 .. buf_index - 1 = {}
      BY <3>2
    <3> QED
      BY <1>1, <2>2, <3>1, <3>2, <3>3 DEF ToCome
  <2> QED
    BY <2>1, <2>2
<1>3. img \in [Index -> Pixel]
  BY CapturedImage
<1>4. channel \in Seq(Report)
  BY DEF PipeIInv, PipeTypeOK
<1>5. left \in Nat \ {0}
  BY DueTyped
<1>6. u # <<>>
  BY <1>1, SomethingToCome
<1>7. PICK m \in Nat \ {0} :
        Consumed \in 0 .. 2 * m - 1 /\ n = report.data[Consumed + 1]
  BY InProgress
<1>8. /\ Queued(f, channel, u, left)
      /\ \A j \in 1 .. left : u[j] = report.data[Consumed + j]
  BY <1>1 DEF Remaining
<1>9. u[1] = n
  <2>1. 1 \in 1 .. left
    BY <1>5
  <2> HIDE DEF left, n
  <2> QED
    BY <1>7, <1>8, <2>1
<1> HIDE DEF n, img, left
<1>10. e \in Seq(Nybble) /\ e # <<>>
  <2>1. buf_index \in Index /\ next_is_run_encoded \in BOOLEAN
    BY DEF IInv, TypeOK
  <2> QED
    BY <1>2, <1>3, <2>1, FirstOfCompletion
<1>11. u[1] = e[1] /\ Padded(Tail(u), Tail(e))
  BY <1>1, <1>10, FirstOfPadded
<1>12. /\ ~Overruns(n)
       /\ \A j \in 0 .. NextIndex(n) - 1 : NextPixels(n)[j] = img[j]
       /\ Tail(e) \in Completions(img, NextIndex(n),
                                  ~next_is_run_encoded /\ n = RunMark)
       /\ NextIndex(n) = ImageLen => ~(~next_is_run_encoded /\ n = RunMark)
  <2>1. e[1] = n
    BY <1>9, <1>11
  <2> QED
    BY <1>2, <1>3, <2>1, NybbleFits DEF IInv
<1>13. /\ Tail(u) \in Seq(Nybble) /\ Len(Tail(u)) = Len(u) - 1
       /\ \A j \in 1 .. Len(Tail(u)) : Tail(u)[j] = u[j + 1]
  BY <1>6, HeadTailProperties
<1>14. Queued(f, channel, Tail(u), left - 1)
  BY <1>4, <1>5, <1>6, <1>8, OneDecoded
<1>15. left <= Len(u) /\ Len(u) \in Nat
  <2>1. PICK after \in [1 .. Len(channel) + 1 -> Nat] :
          Laid(f, channel, u, left, after)
    BY <1>8 DEF Queued
  <2>2. Len(channel) \in Nat /\ Len(u) \in Nat
    BY <1>4, LenProperties
  <2>3. after[1] \in Nat /\ Len(u) = left + 2 * after[1]
    BY <2>1, <2>2 DEF Laid
  <2> QED
    BY <1>5, <2>2, <2>3
<1>16. ASSUME NEW j \in 1 .. left - 1
       PROVE  Tail(u)[j] = report.data[Consumed + 1 + j]
  <2>1. j \in 1 .. Len(Tail(u)) /\ j + 1 \in 1 .. left
    BY <1>5, <1>13, <1>15
  <2>2. Consumed + (j + 1) = Consumed + 1 + j
    BY <1>7
  <2> QED
    BY <1>8, <1>13, <2>1, <2>2
<1> QED
  BY <1>2, <1>5, <1>11, <1>12, <1>13, <1>14, <1>16 DEF n, img, left

\* A nybble of a coming frame does not complete it: the rest is coming.
LEMMA OwnProgress ==
  ASSUME IInv, PipeIInv, InReport, NEW f \in 1 .. Len(captured),
         report.frame = f, Coming(f), DecodeProgress(NextInReport),
         held' = held \cup {report.frame},
         UNCHANGED <<channel, report, captured, delivered>>
  PROVE  Coming(f)'
<1> DEFINE n == NextInReport
           img == captured[f].image
<1>1. /\ buf_index' = NextIndex(n) /\ partial_image' = NextPixels(n)
      /\ next_is_run_encoded' = (~next_is_run_encoded /\ n = RunMark)
      /\ NextNybble
  BY DEF DecodeProgress
<1>2. /\ held \subseteq {f} /\ Due(f) \in Nat \ {0}
      /\ \A j \in 0 .. NextIndex(n) - 1 : NextPixels(n)[j] = img[j]
  BY NextOfFrame
<1>3. PICK u \in Seq(Nybble) :
        /\ Queued(f, channel, u, Due(f) - 1)
        /\ \A j \in 1 .. Due(f) - 1 : u[j] = report.data[Consumed + 1 + j]
        /\ \E e \in Completions(img, NextIndex(n),
                                ~next_is_run_encoded /\ n = RunMark) :
             Padded(u, e)
  BY NextOfFrame
<1>4. held' = {f}
  BY <1>2
<1>5. Underway(f)'
  BY <1>1, <1>2, <1>4 DEF Underway
<1>6. ToCome(f)' = Completions(img, NextIndex(n),
                               ~next_is_run_encoded /\ n = RunMark)
  BY <1>1, <1>4 DEF ToCome
<1>7. Consumed' = Consumed + 1 /\ Due(f)' = Due(f) - 1
  <2>1. PICK m \in Nat \ {0} :
          /\ Len(report.data) = 2 * m /\ length = m + 1 /\ t \in 0 .. m - 1
          /\ Consumed \in 0 .. 2 * m - 1
    BY InProgress
  <2>2. Due(f) = 2 * m - Consumed
    BY <2>1 DEF Due
  <2>3. length' = length
    BY <1>1 DEF NextNybble
  <2>4. CASE half = "low"
    <3>1. t' = t /\ half' = "high"
      BY <1>1, <2>4 DEF NextNybble
    <3>2. Consumed = 2 * t /\ Consumed' = 2 * t + 1
      BY <2>1, <2>4, <3>1 DEF Consumed, Odd
    <3>3. InReport'
      BY <2>3, <3>1 DEF InReport
    <3>4. Due(f)' = 2 * m - Consumed'
      BY <2>1, <3>3 DEF Due
    <3> QED
      BY <2>1, <2>2, <3>2, <3>4
  <2>5. CASE half = "high"
    <3>1. t' = t + 1 /\ half' = "low"
      BY <1>1, <2>5 DEF NextNybble
    <3>2. Consumed = 2 * t + 1 /\ Consumed' = 2 * (t + 1)
      BY <2>1, <2>5, <3>1 DEF Consumed, Odd
    <3>3. CASE t + 1 < m
      <4>1. InReport'
        BY <2>1, <2>3, <3>1, <3>3 DEF InReport
      <4>2. Due(f)' = 2 * m - Consumed'
        BY <2>1, <4>1 DEF Due
      <4> QED
        BY <2>1, <2>2, <3>2, <4>2
    <3>4. CASE t + 1 = m
      <4>1. ~InReport'
        BY <2>1, <2>3, <3>1, <3>4 DEF InReport
      <4>2. Due(f)' = 0
        BY <4>1 DEF Due
      <4> QED
        BY <2>1, <2>2, <3>2, <3>4, <4>2
    <3> QED
      BY <2>1, <3>3, <3>4
  <2> QED
    BY <2>4, <2>5 DEF IInv, TypeOK
<1>8. Remaining(f, u)'
  <2>1. Queued(f, channel', u, Due(f)')
    BY <1>3, <1>7
  <2>2. \A j \in 1 .. Due(f)' : u[j] = report'.data[Consumed' + j]
    BY <1>3, <1>7
  <2> QED
    BY <2>1, <2>2 DEF Remaining
<1>9. \E e \in ToCome(f)' : Padded(u, e)
  BY <1>3, <1>6
<1>10. Fresh(f)'
  BY DEF Coming, Fresh
<1> QED
  BY <1>3, <1>5, <1>8, <1>9, <1>10 DEF Coming

\* The last nybble of a coming frame: the callback receives its image, and
\* nothing of it is left.
LEMMA OwnComplete ==
  ASSUME IInv, PipeIInv, InReport, NEW f \in 1 .. Len(captured),
         report.frame = f, Coming(f), DecodeComplete(NextInReport)
  PROVE  /\ callback'.image = captured[f].image
         /\ held \cup {report.frame} = {f}
         /\ \A p \in 1 .. Len(channel) : channel[p].frame # f
<1> DEFINE n == NextInReport
           img == captured[f].image
<1>1. NextIndex(n) = ImageLen /\ callback'.image = NextPixels(n)
  BY DEF DecodeComplete
<1>2. /\ held \subseteq {f} /\ Due(f) \in Nat \ {0}
      /\ \A j \in 0 .. NextIndex(n) - 1 : NextPixels(n)[j] = img[j]
      /\ ~(~next_is_run_encoded /\ n = RunMark)
  BY <1>1, NextOfFrame
<1>3. img \in [Index -> Pixel]
  BY CapturedImage
<1>4. NextPixels(n) = img
  <2>1. \A j \in Index : NextPixels(n)[j] = img[j]
    BY <1>1, <1>2 DEF Index
  <2>2. /\ NextPixels(n) = [j \in Index |-> NextPixels(n)[j]]
        /\ img = [j \in Index |-> img[j]]
    BY <1>3 DEF NextPixels
  <2> QED
    BY <2>1, <2>2
<1>5. PICK u \in Seq(Nybble) :
        /\ Queued(f, channel, u, Due(f) - 1)
        /\ \E e \in Completions(img, NextIndex(n),
                                ~next_is_run_encoded /\ n = RunMark) :
             Padded(u, e)
  BY NextOfFrame
<1>6. Padded(u, <<>>)
  <2>1. (~next_is_run_encoded /\ n = RunMark) = FALSE
    BY <1>2
  <2>2. PICK e \in Completions(img, ImageLen, FALSE) : Padded(u, e)
    BY <1>1, <1>5, <2>1
  <2> QED
    BY <1>3, <2>2, NothingCompletes
<1>7. Len(u) \in {0, 1}
  BY <1>6, PaddedNothing
<1>8. \A p \in 1 .. Len(channel) : channel[p].frame # f
  <2>1. channel \in Seq(Report)
    BY DEF PipeIInv, PipeTypeOK
  <2> DEFINE now == Due(f) - 1
  <2>2. now \in Nat
    BY <1>2
  <2> HIDE DEF now
  <2>3. Len(u) < now + 2
    <3>1. 0 < now + 2 /\ 1 < now + 2
      BY <2>2
    <3> QED
      BY <1>7, <3>1
  <2>4. Queued(f, channel, u, now)
    BY <1>5 DEF now
  <2> QED
    BY <1>5, <2>1, <2>2, <2>3, <2>4, AllReceived
<1> QED
  BY <1>1, <1>2, <1>4, <1>8

\* Before a report is lost, the report in progress is of the next frame.
LEMMA NextInOrder ==
  ASSUME IInv, PipeIInv, FrameIInv, InReport, lost = <<>>
  PROVE  /\ Intact(report.frame)
         /\ report.frame = Len(delivered) + 1
<1> DEFINE D == Len(delivered)
<1>1. /\ D \in Nat /\ report.frame \in 1 .. Len(captured)
      /\ Len(captured) \in Nat /\ D < report.frame
  BY LenProperties, FrameNumbers
  DEF PipeIInv, PipeTypeOK, Decoding, FromFrame, FrameIInv, InOrder
<1>2. \A g : Intact(g)
  BY DEF Intact, LostFrames
<1>3. CASE D + 1 < report.frame
  <2> DEFINE g == D + 1
  <2>1. g \in 1 .. Len(captured) /\ g < report.frame
    BY <1>1, <1>3
  <2>2. CASE Done(g)
    <3>1. PICK d \in 1 .. D :
            delivered[d] = [image |-> captured[g].image, frames |-> {g}]
      BY <2>2 DEF Done, Arrived
    <3>2. delivered[d] = [image |-> captured[d].image, frames |-> {d}]
      BY DEF FrameIInv, InOrder
    <3>3. {g} = {d}
      BY <3>1, <3>2
    <3>4. g = d
      BY <3>3
    <3> QED
      BY <1>1, <3>4
  <2>3. CASE Coming(g)
    <3>1. report.frame # g /\ g \in Nat
      BY <1>1, <2>1
    <3>2. PICK p \in 1 .. Len(channel) : channel[p].frame = g
      BY <2>1, <2>3, <3>1, ComingWaits
    <3>3. report.frame <= g
      BY <3>2 DEF FrameIInv, InSequence
    <3> QED
      BY <1>1, <2>1, <3>1, <3>3
  <2> QED
    BY <1>2, <2>1, <2>2, <2>3 DEF FrameIInv, Followed
<1> QED
  BY <1>1, <1>2, <1>3

\* A nybble is decoded: it takes the frame it is of further, to the callback at
\* the end, and leaves the others alone.
LEMMA DecodeFollows ==
  ASSUME IInv, PipeIInv, FrameIInv, DecodeStep
  PROVE  FrameIInv'
<1> DEFINE n == NextInReport
           r == report.frame
           Failed == DecodeError(n) /\ held' = {} /\ UNCHANGED delivered
           Completed == /\ DecodeComplete(n) /\ held' = {}
                        /\ delivered' = Append(delivered,
                             [image  |-> callback'.image,
                              frames |-> held \cup {report.frame}])
           Advanced == /\ DecodeProgress(n) /\ UNCHANGED delivered
                       /\ held' = held \cup {report.frame}
<1>1. /\ InReport /\ UNCHANGED <<channel, report, captured, lost>>
      /\ Failed \/ Completed \/ Advanced
  BY DEF DecodeStep
<1>2. /\ r \in 1 .. Len(captured) /\ Len(captured) \in Nat
      /\ held \subseteq 1 .. Len(captured)
      /\ channel \in Seq(Report)
  BY <1>1, FrameNumbers
  DEF PipeIInv, PipeTypeOK, Decoding, FromFrame
<1>3. Failed \/ Completed => ~InReport'
  BY DecoderAssumption
  DEF DecodeError, DecodeComplete, LeaveReport, InReport
<1>4. Completed =>
        /\ Len(delivered) \in Nat /\ Len(delivered') = Len(delivered) + 1
        /\ \A d \in 1 .. Len(delivered) : delivered'[d] = delivered[d]
        /\ delivered'[Len(delivered) + 1] =
             [image |-> callback'.image, frames |-> held \cup {r}]
  BY CallbackAppends
<1>5. \A d \in 1 .. Len(delivered) :
        d \in 1 .. Len(delivered') /\ delivered'[d] = delivered[d]
  <2>1. CASE Completed
    BY <1>4, <2>1
  <2> QED
    BY <1>1, <2>1
<1>6. /\ held' \subseteq held \cup {r}
      /\ \A d \in 1 .. Len(delivered') :
           \/ d \in 1 .. Len(delivered)
           \/ delivered'[d].frames \subseteq held \cup {r}
  <2>1. CASE Completed
    BY <1>4, <2>1
  <2> QED
    BY <1>1, <2>1
<1>7. InSequence'
  <2>1. \A f \in held' : f <= r
    BY <1>2, <1>6 DEF FrameIInv, InSequence
  <2> QED
    BY <1>1, <2>1 DEF FrameIInv, InSequence
<1>8. LostCaptured'
  BY <1>1 DEF FrameIInv, LostCaptured, LostFrames
<1>9. Intact(r) => Coming(r)
  <2>1. ~Settled(r)
    BY <1>1 DEF Settled
  <2> QED
    BY <1>2, <2>1 DEF FrameIInv, Followed, Done
<1> HIDE DEF Failed, Completed, Advanced
<1>10. ASSUME NEW f \in 1 .. Len(captured), Intact(f), f # r
       PROVE  Done(f)' \/ Coming(f)'
  <2>1. f \notin held
    <3> SUFFICES ASSUME f \in held PROVE FALSE
      OBVIOUS
    <3>1. Coming(f)
      BY <1>10 DEF FrameIInv, Followed, Done
    <3> QED
      BY <1>10, <3>1 DEF Coming, Underway
  <2>2. f \notin held'
    BY <1>6, <1>10, <2>1
  <2>3. \A d \in 1 .. Len(delivered') :
          d \in 1 .. Len(delivered) \/ f \notin delivered'[d].frames
    BY <1>6, <1>10, <2>1
  <2>4. CASE Done(f)
    <3>1. Settled(f)'
      BY <1>1, <1>10, <2>4 DEF Done, Settled
    <3> QED
      BY <1>1, <1>5, <2>2, <2>3, <2>4, <3>1, StaysDone
  <2>5. CASE Coming(f)
    <3>1. Underway(f)' /\ ToCome(f)' = ToCome(f)
      BY <1>1, <1>10, <2>1, <2>2 DEF Underway, ToCome
    <3>2. Due(f)' = 0 /\ Due(f) = 0
      BY <1>1, <1>10 DEF Due
    <3>3. \A u \in Seq(Nybble) : Queued(f, channel, u, Due(f))
                                 => Queued(f, channel', u, Due(f))
      BY <1>1
    <3>4. Fresh(f)'
      BY <1>5, <2>3, <2>5 DEF Coming, Fresh
    <3> QED
      BY <2>5, <3>1, <3>2, <3>3, <3>4, StaysComing
  <2> QED
    BY <1>10, <2>4, <2>5 DEF FrameIInv, Followed
<1>11. ASSUME Intact(r)
       PROVE  Done(r)' \/ Coming(r)'
  <2>1. CASE Failed
    BY <1>1, <1>2, <1>9, <1>11, <2>1, NextOfFrame DEF Failed, DecodeError
  <2>2. CASE Completed
    <3>1. /\ callback'.image = captured[r].image /\ held \cup {r} = {r}
          /\ \A p \in 1 .. Len(channel) : channel[p].frame # r
      BY <1>1, <1>2, <1>9, <1>11, <2>2, OwnComplete DEF Completed
    <3>2. Settled(r)'
      BY <1>1, <1>3, <2>2, <3>1 DEF Settled
    <3>3. Arrived(r)'
      <4>1. Len(delivered) + 1 \in 1 .. Len(delivered')
        BY <1>4, <2>2
      <4>2. delivered'[Len(delivered) + 1] =
              [image |-> captured'[r].image, frames |-> {r}]
        BY <1>1, <1>4, <2>2, <3>1
      <4>3. ASSUME NEW d \in 1 .. Len(delivered'), r \in delivered'[d].frames
            PROVE  d = Len(delivered) + 1
        <5>1. d \notin 1 .. Len(delivered)
          BY <1>5, <1>9, <1>11, <4>3 DEF Coming, Fresh
        <5> QED
          BY <1>4, <2>2, <5>1
      <4> QED
        BY <1>1, <4>1, <4>2, <4>3 DEF Arrived
    <3>4. r \notin held'
      BY <2>2 DEF Completed
    <3> QED
      BY <1>1, <3>2, <3>3, <3>4 DEF Done
  <2>3. CASE Advanced
    <3>1. Coming(r)'
      BY <1>1, <1>2, <1>9, <1>11, <2>3, OwnProgress DEF Advanced
    <3> QED
      BY <3>1
  <2> QED
    BY <1>1, <2>1, <2>2, <2>3
<1>12. Followed'
  <2> SUFFICES ASSUME NEW f \in 1 .. Len(captured), Intact(f)'
               PROVE  Done(f)' \/ Coming(f)'
    BY <1>1 DEF Followed
  <2>1. Intact(f)
    BY <1>1 DEF Intact, LostFrames
  <2>2. CASE f = r
    BY <1>1, <1>11, <2>1, <2>2
  <2> QED
    BY <1>10, <2>1, <2>2
<1>13. InOrder'
  <2> SUFFICES ASSUME lost = <<>> PROVE InOrder'
    BY <1>1 DEF InOrder
  <2>1. CASE Failed
    BY <1>1, <1>3, <2>1 DEF Failed, FrameIInv, InOrder
  <2>2. CASE Advanced
    BY <1>1, <2>2 DEF Advanced, FrameIInv, InOrder
  <2>3. CASE Completed
    <3>1. Intact(r) /\ r = Len(delivered) + 1
      BY <1>1, NextInOrder
    <3>2. /\ callback'.image = captured[r].image /\ held \cup {r} = {r}
          /\ \A p \in 1 .. Len(channel) : channel[p].frame # r
      BY <1>1, <1>2, <1>9, <2>3, <3>1, OwnComplete DEF Completed
    <3>3. Len(delivered') = r /\ Len(delivered') <= Len(captured)
      BY <1>2, <1>4, <2>3, <3>1
    <3>4. ASSUME NEW d \in 1 .. Len(delivered')
          PROVE  delivered'[d] = [image |-> captured[d].image, frames |-> {d}]
      <4>1. CASE d = r
        BY <1>4, <2>3, <3>1, <3>2, <4>1
      <4>2. CASE d # r
        <5>1. d \in 1 .. Len(delivered)
          BY <1>4, <2>3, <3>1, <3>3, <4>2
        <5> QED
          BY <1>5, <5>1 DEF FrameIInv, InOrder
      <4> QED
        BY <4>1, <4>2
    <3>5. ASSUME NEW p \in 1 .. Len(channel)
          PROVE  Len(delivered') < channel[p].frame
      <4>1. r <= channel[p].frame /\ channel[p].frame # r
        BY <3>2 DEF FrameIInv, InSequence
      <4>2. channel[p].frame \in Nat
        BY FrameNumbers
      <4> QED
        BY <1>2, <3>3, <4>1, <4>2
    <3> QED
      BY <1>1, <1>3, <2>3, <3>3, <3>4, <3>5 DEF InOrder
  <2> QED
    BY <1>1, <2>1, <2>2, <2>3
<1> QED
  BY <1>7, <1>8, <1>12, <1>13 DEF FrameIInv

\* A frame is captured: its reports wait behind those of the earlier frames.
LEMMA CaptureFollows ==
  ASSUME IInv, PipeIInv, FrameIInv,
         NEW img \in Images, NEW ts \in Timestamps, Capture(img, ts)
  PROVE  FrameIInv'
<1> DEFINE L == Len(captured)
           frame == [image |-> img, ts |-> ts]
           sent(parts) == [p \in 1 .. Len(parts) |->
                             [frame |-> L + 1, ts |-> ts,
                              data |-> parts[p], part |-> p]]
<1>1. PICK parts \in Transmissions(img) : channel' = channel \o sent(parts)
  BY DEF Capture
<1>2. /\ UNCHANGED <<vars, report, delivered, held, lost>>
      /\ captured' = Append(captured, frame)
  BY DEF Capture
<1>3. UNCHANGED <<buf_index, next_is_run_encoded, partial_image, length, t,
                  half, loopVars>>
  BY <1>2 DEF vars, decoderVars, loopVars
<1>4. L \in Nat /\ frame \in [image : Images, ts : Timestamps]
  BY FrameNumbers
<1>5. /\ Len(captured') = L + 1
      /\ \A f \in 1 .. L : captured'[f] = captured[f]
      /\ captured'[L + 1] = frame
  BY <1>2, <1>4, AppendProperties DEF PipeIInv, PipeTypeOK
<1> DEFINE new == sent(parts)
<1>6. /\ new \in Seq(Report) /\ Len(new) \in Nat /\ Len(new) = Len(parts)
      /\ \A p \in 1 .. Len(new) :
           new[p].frame = L + 1 /\ new[p].data = parts[p]
  <2>1. parts \in Seq(ReportData)
    BY TransmissionsTyped
  <2>2. /\ Len(parts) \in Nat
        /\ \A p \in 1 .. Len(parts) : parts[p] \in ReportData
    BY <2>1, LenProperties, ElementOfSeq
  <2>3. new \in [1 .. Len(parts) -> Report]
    BY <1>4, <2>2 DEF Report
  <2>4. new \in Seq(Report) /\ Len(new) = Len(parts)
    BY <2>2, <2>3
  <2> QED
    BY <2>2, <2>4
<1>7. channel \in Seq(Report) /\ channel' = channel \o new
  BY <1>1 DEF PipeIInv, PipeTypeOK
<1> HIDE DEF new, sent, L
<1>8. /\ Len(channel) \in Nat /\ Len(channel') = Len(channel) + Len(new)
      /\ \A p \in 1 .. Len(channel') :
           \/ p \in 1 .. Len(channel) /\ channel'[p] = channel[p]
           \/ p \notin 1 .. Len(channel) /\ channel'[p].frame = L + 1
  <2>1. /\ Len(channel) \in Nat /\ Len(channel') = Len(channel) + Len(new)
        /\ \A p \in 1 .. Len(channel') : channel'[p] =
             IF p <= Len(channel) THEN channel[p] ELSE new[p - Len(channel)]
    BY <1>6, <1>7, ConcatProperties, LenProperties
  <2>2. ASSUME NEW p \in 1 .. Len(channel'), ~(p <= Len(channel))
        PROVE  p - Len(channel) \in 1 .. Len(new)
    BY <1>6, <2>1, <2>2
  <2>3. ASSUME NEW p \in 1 .. Len(channel'), p <= Len(channel)
        PROVE  p \in 1 .. Len(channel)
    BY <2>1, <2>3
  <2> QED
    BY <1>6, <2>1, <2>2, <2>3
<1>9. /\ report.frame \in Nat /\ report.frame <= L
      /\ held \subseteq 1 .. L
      /\ \A p \in 1 .. Len(channel) : channel[p].frame \in 1 .. L
  BY FrameNumbers DEF FrameIInv, InSequence, L
<1>10. LostFrames' = LostFrames /\ LostFrames \subseteq 1 .. L
  BY <1>2 DEF FrameIInv, LostCaptured, LostFrames, L
<1>11. InSequence'
  <2>1. ASSUME NEW p \in 1 .. Len(channel'), NEW q \in 1 .. Len(channel'),
               p < q
        PROVE  channel'[p].frame <= channel'[q].frame
    <3>1. CASE q \in 1 .. Len(channel)
      <4>1. p \in 1 .. Len(channel)
        BY <1>8, <2>1, <3>1
      <4> QED
        BY <1>8, <2>1, <3>1, <4>1 DEF FrameIInv, InSequence
    <3>2. CASE q \notin 1 .. Len(channel)
      <4>1. channel'[q].frame = L + 1
        BY <1>8, <3>2
      <4>2. channel'[p].frame \in 1 .. L + 1
        BY <1>4, <1>8, <1>9 DEF L
      <4> QED
        BY <1>4, <4>1, <4>2 DEF L
    <3> QED
      BY <3>1, <3>2
  <2>2. ASSUME NEW p \in 1 .. Len(channel')
        PROVE  report.frame <= channel'[p].frame
    <3>1. CASE p \in 1 .. Len(channel)
      BY <1>8, <3>1 DEF FrameIInv, InSequence
    <3>2. CASE p \notin 1 .. Len(channel)
      <4>1. channel'[p].frame = L + 1
        BY <1>8, <3>2
      <4> QED
        BY <1>4, <1>9, <4>1 DEF L
    <3> QED
      BY <3>1, <3>2
  <2>3. report.frame <= L + 1
    BY <1>4, <1>9 DEF L
  <2> QED
    BY <1>2, <1>5, <2>1, <2>2, <2>3 DEF FrameIInv, InSequence
<1>12. LostCaptured'
  BY <1>4, <1>5, <1>10 DEF LostCaptured, L
<1>13. InOrder'
  <2> SUFFICES ASSUME lost = <<>> PROVE InOrder'
    BY <1>2 DEF InOrder
  <2>1. Len(delivered) \in Nat /\ Len(delivered) <= L
    BY LenProperties DEF PipeIInv, PipeTypeOK, FrameIInv, InOrder, L
  <2>2. Len(delivered) < L + 1 /\ Len(delivered) <= L + 1
    BY <1>4, <2>1 DEF L
  <2>3. \A p \in 1 .. Len(channel') : Len(delivered) < channel'[p].frame
    BY <1>8, <2>2 DEF FrameIInv, InOrder
  <2>4. ASSUME NEW d \in 1 .. Len(delivered)
        PROVE  delivered[d] = [image |-> captured'[d].image, frames |-> {d}]
    <3>1. d \in 1 .. L
      BY <1>4, <2>1 DEF L
    <3> QED
      BY <1>5, <3>1 DEF FrameIInv, InOrder
  <2>5. InReport' => Len(delivered) < report.frame
    BY <1>3 DEF FrameIInv, InOrder, InReport
  <2> QED
    BY <1>2, <1>5, <2>2, <2>3, <2>4, <2>5 DEF InOrder
<1>14. ASSUME NEW f \in 1 .. L, Intact(f)'
       PROVE  Done(f)' \/ Coming(f)'
  <2>1. Intact(f)
    BY <1>5, <1>10, <1>14, WasIntact DEF L
  <2>2. f # L + 1 /\ captured'[f] = captured[f]
    BY <1>4, <1>5 DEF L
  <2>3. CASE Done(f)
    <3>1. Settled(f)'
      <4>1. \A p \in 1 .. Len(channel') : channel'[p].frame # f
        BY <1>8, <2>2, <2>3 DEF Done, Settled
      <4> QED
        BY <1>2, <1>3, <2>3, <4>1 DEF Done, Settled, InReport
    <3> QED
      BY <1>2, <2>2, <2>3, <3>1, StaysDone DEF Done
  <2>4. CASE Coming(f)
    <3>1. Underway(f)' /\ Fresh(f)'
      BY <1>2, <1>3, <2>2, <2>4 DEF Coming, Underway, InReport, Fresh
    <3>2. ToCome(f)' = ToCome(f) /\ Due(f)' = Due(f)
      BY <1>2, <1>3, <2>2 DEF ToCome, Due, InReport, Consumed, Odd
    <3>3. Due(f) \in Nat
      BY DueTyped
    <3>4. \A p \in 1 .. Len(new) : new[p].frame # f
      BY <1>6, <2>2
    <3> HIDE DEF Due
    <3>5. \A u \in Seq(Nybble) : Queued(f, channel, u, Due(f))
                                 => Queued(f, channel', u, Due(f))
      BY <1>6, <1>7, <3>3, <3>4, OthersJoin
    <3> QED
      BY <1>2, <1>3, <2>4, <3>1, <3>2, <3>5, StaysComing
  <2> QED
    BY <2>1, <2>3, <2>4 DEF FrameIInv, Followed, L
<1>15. ASSUME NEW f \in Nat, f = L + 1
       PROVE  Coming(f)'
  <2>1. f \in Nat /\ f \notin 1 .. L
    BY <1>4, <1>15 DEF L
  <2>2. f \notin held /\ ~(report.frame = f)
    <3>1. f \notin held
      BY <1>9, <2>1
    <3>2. L \in Nat
      BY <1>4 DEF L
    <3>3. report.frame # f
      BY <1>9, <1>15, <3>2
    <3> QED
      BY <3>1, <3>3
  <2>3. PICK u \in Seq(Nybble) :
          /\ Queued(f, new, u, 0)
          /\ \E e \in Completions(img, 0, FALSE) : Padded(u, e)
    <3>1. \A p \in 1 .. Len(new) : new[p].frame = f /\ new[p].data = parts[p]
      BY <1>6, <1>15
    <3> QED
      BY <1>6, <2>1, <3>1, TransmissionQueued
  <2>4. \A p \in 1 .. Len(channel) : channel[p].frame # f
    BY <1>9, <2>1
  <2>5. Queued(f, channel', u, 0)
    BY <1>6, <1>7, <2>3, <2>4, FrameJoins
  <2>6. Due(f)' = 0
    BY <1>2, <2>2 DEF Due
  <2>7. Underway(f)'
    BY <1>2, <2>2 DEF Underway
  <2>8. captured'[f].image = img
    BY <1>5, <1>15
  <2>9. ToCome(f)' = Completions(img, 0, FALSE)
    BY <1>2, <2>2, <2>8 DEF ToCome
  <2>10. Remaining(f, u)'
    <3>1. Queued(f, channel', u, Due(f)')
      BY <2>5, <2>6
    <3>2. 1 .. Due(f)' = {}
      BY <2>6
    <3> QED
      BY <3>1, <3>2 DEF Remaining
  <2>11. Fresh(f)'
    BY <1>2, <2>1 DEF Fresh, PipeIInv, DeliveredCaptured, L
  <2> QED
    BY <2>3, <2>7, <2>9, <2>10, <2>11 DEF Coming
<1>16. Followed'
  <2> SUFFICES ASSUME NEW f \in 1 .. L + 1, Intact(f)'
               PROVE  Done(f)' \/ Coming(f)'
    BY <1>5 DEF Followed
  <2>1. CASE f = L + 1
    BY <1>4, <1>15, <2>1
  <2>2. CASE f # L + 1
    <3>1. f \in 1 .. L
      BY <1>4, <2>2 DEF L
    <3> QED
      BY <1>14, <3>1
  <2> QED
    BY <2>1, <2>2
<1> QED
  BY <1>11, <1>12, <1>13, <1>16 DEF FrameIInv

\* Before the first frame there is none to follow.
LEMMA PipeInitFrameIInv == PipeInit => FrameIInv
<1> SUFFICES ASSUME PipeInit PROVE FrameIInv
  OBVIOUS
<1>1. channel = <<>> /\ captured = <<>> /\ delivered = <<>> /\ held = {}
      /\ length = 0 /\ t = 0 /\ lost = <<>> /\ report = NoReport
  BY DEF PipeInit, Init
<1>2. InSequence
  BY <1>1 DEF InSequence, NoReport
<1>3. LostCaptured /\ Followed
  BY <1>1 DEF LostCaptured, LostFrames, Followed
<1>4. InOrder
  BY <1>1 DEF InOrder, InReport
<1> QED
  BY <1>2, <1>3, <1>4 DEF FrameIInv

\* Nothing moves.
LEMMA FramesRest ==
  ASSUME FrameIInv, UNCHANGED allVars
  PROVE  FrameIInv'
<1>1. UNCHANGED <<channel, report, captured, delivered, held, lost,
                  buf_index, next_is_run_encoded, partial_image, length, t,
                  half, loopVars>>
  BY DEF allVars, pipeVars, vars, decoderVars, loopVars
<1>2. InSequence' /\ LostCaptured' /\ InOrder'
  BY <1>1
  DEF FrameIInv, InSequence, LostCaptured, LostFrames, InOrder, InReport
<1>3. ASSUME NEW f \in 1 .. Len(captured), Intact(f)'
      PROVE  Done(f)' \/ Coming(f)'
  <2>1. Intact(f)
    BY <1>1, <1>3 DEF Intact, LostFrames
  <2>2. CASE Done(f)
    <3>1. Settled(f)'
      BY <1>1, <2>2 DEF Done, Settled, InReport
    <3> QED
      BY <1>1, <2>2, <3>1, StaysDone DEF Done
  <2>3. CASE Coming(f)
    <3>1. Underway(f)' /\ Fresh(f)'
      BY <1>1, <2>3 DEF Coming, Underway, InReport, Fresh
    <3>2. ToCome(f)' = ToCome(f) /\ Due(f)' = Due(f)
      BY <1>1 DEF ToCome, Due, InReport, Consumed, Odd
    <3>3. \A u \in Seq(Nybble) : Queued(f, channel, u, Due(f))
                                 => Queued(f, channel', u, Due(f))
      BY <1>1
    <3> QED
      BY <1>1, <2>3, <3>1, <3>2, <3>3, StaysComing
  <2> QED
    BY <1>3, <2>1, <2>2, <2>3 DEF FrameIInv, Followed
<1>4. Followed'
  BY <1>1, <1>3 DEF Followed
<1> QED
  BY <1>2, <1>4 DEF FrameIInv

\* A step of the pipeline follows the frames.
LEMMA PipeNextFrameIInv ==
  ASSUME IInv, PipeIInv, FrameIInv, [PipeNext]_allVars
  PROVE  FrameIInv'
BY CaptureFollows, LoseFollows, ReceiveFollows, DecodeFollows, FramesRest
DEF PipeNext

\* The invariants hold of every behaviour of the pipeline.
THEOREM PipeInvariance == PipeSpec => [](IInv /\ PipeIInv)
<1>1. PipeInit => IInv /\ PipeIInv
  BY InitIInv, PipeInitIInv DEF PipeInit
<1>2. IInv /\ PipeIInv /\ [PipeNext]_allVars => IInv' /\ PipeIInv'
  BY PipeNextIInv
<1> QED
  BY <1>1, <1>2, PTL DEF PipeSpec

\* Every variable keeps its type: what the decoder reads of a report is a
\* nybble the mouse sent, in the loop of the report it belongs to.
THEOREM PipeTypeCorrect == PipeSpec => []PipeTypeOK
<1>1. PipeIInv => PipeTypeOK
  BY DEF PipeIInv
<1> QED
  BY <1>1, PipeInvariance, PTL

\* Behind the channel the decoder behaves as Decoder says, so that what is
\* proved of Decoder for every report content holds of it.
THEOREM ImplementsDecoder == PipeSpec => Spec
<1>1. PipeInit => Init
  BY DEF PipeInit
<1>2. IInv /\ PipeIInv /\ [PipeNext]_allVars => [Next]_vars
  BY DecoderSteps
<1> QED
  BY <1>1, <1>2, PipeInvariance, PTL DEF PipeSpec, Spec

\* process_nybble() and the timestamp check merge frames into one image only
\* if they carry the same 8-bit timestamp, whatever reports are lost.
THEOREM OnlyEqualStampsMergeHolds == PipeSpec => []OnlyEqualStampsMerge
<1>1. PipeIInv => OnlyEqualStampsMerge
  BY DEF PipeIInv
<1> QED
  BY <1>1, PipeInvariance, PTL

\* The frames are followed in every behaviour of the pipeline.
THEOREM FrameInvariance == PipeSpec => []FrameIInv
<1>1. PipeInit => FrameIInv
  BY PipeInitFrameIInv
<1>2. IInv /\ PipeIInv /\ FrameIInv /\ [PipeNext]_allVars => FrameIInv'
  BY PipeNextFrameIInv
<1> QED
  BY <1>1, <1>2, PipeInvariance, PTL DEF PipeSpec

\* The decoder recovers from loss: touchmouse_process_events_timeout() calls
\* back once with every frame whose reports all arrive, unchanged and made of
\* nothing else, unless an earlier frame with the same timestamp lost one.
THEOREM IntactFrameDeliveredHolds == PipeSpec => []IntactFrameDelivered
<1>1. IInv /\ PipeIInv /\ FrameIInv => IntactFrameDelivered
  <2> SUFFICES ASSUME IInv, PipeIInv, FrameIInv, NEW f \in 1 .. Len(captured),
                      Settled(f), Intact(f)
               PROVE  Arrived(f)
    BY DEF IntactFrameDelivered
  <2>1. CASE Done(f)
    BY <2>1 DEF Done
  <2>2. CASE Coming(f)
    <3>1. ~(InReport /\ report.frame = f)
          /\ \A p \in 1 .. Len(channel) : channel[p].frame # f
      BY DEF Settled
    <3> QED
      BY <2>2, <3>1, ComingWaits
  <2> QED
    BY <2>1, <2>2 DEF FrameIInv, Followed
<1> QED
  BY <1>1, PipeInvariance, FrameInvariance, PTL

\* However many reports are lost later: until the first is, the callbacks are
\* the captured frames, each alone in its image, without a gap and in order.
THEOREM InOrderUntilLoss == PipeSpec => []InOrder
<1>1. FrameIInv => InOrder
  BY DEF FrameIInv
<1> QED
  BY <1>1, FrameInvariance, PTL

\* What the decoder completes is the image of the next frame.
LEMMA CompleteDelivers ==
  ASSUME IInv, PipeIInv, FrameIInv, lost = <<>>, DecodeStep,
         delivered' # delivered
  PROVE  /\ Len(delivered) \in Nat /\ Len(delivered) < Len(captured)
         /\ Len(delivered') = Len(delivered) + 1
         /\ \A d \in 1 .. Len(delivered) : delivered'[d] = delivered[d]
         /\ delivered'[Len(delivered) + 1].image =
              captured[Len(delivered) + 1].image
<1>1. /\ InReport /\ DecodeComplete(NextInReport)
      /\ delivered' = Append(delivered,
           [image |-> callback'.image, frames |-> held \cup {report.frame}])
      /\ UNCHANGED <<captured, lost>>
  BY DEF DecodeStep
<1>2. /\ Len(delivered) \in Nat /\ Len(delivered') = Len(delivered) + 1
      /\ \A d \in 1 .. Len(delivered) : delivered'[d] = delivered[d]
  BY <1>1, CallbackAppends
<1>3. InOrder'
  BY DecodeFollows DEF FrameIInv
<1>4. Len(delivered) + 1 \in 1 .. Len(delivered')
  BY <1>2
<1>5. delivered'[Len(delivered) + 1] =
        [image  |-> captured[Len(delivered) + 1].image,
         frames |-> {Len(delivered) + 1}]
  BY <1>1, <1>3, <1>4 DEF InOrder
<1>6. Len(delivered) < Len(captured)
  <2>1. Len(delivered') <= Len(captured)
    BY <1>1, <1>3 DEF InOrder
  <2> QED
    BY <1>2, <2>1, FrameNumbers
<1> QED
  BY <1>2, <1>5, <1>6

\* The images of a sequence of records, when one is appended.
LEMMA ImagesAppended ==
  ASSUME NEW S, NEW s \in Seq(S), NEW z \in Seq(S), Len(z) = Len(s) + 1,
         \A i \in 1 .. Len(s) : z[i] = s[i]
  PROVE  [i \in 1 .. Len(z) |-> z[i].image] =
           Append([i \in 1 .. Len(s) |-> s[i].image],
                  z[Len(s) + 1].image)
<1> DEFINE V == {x.image : x \in S}
           N == Len(s)
           a == [i \in 1 .. N |-> s[i].image]
           b == [i \in 1 .. N + 1 |-> z[i].image]
           last == z[N + 1].image
<1>1. N \in Nat /\ N + 1 \in 1 .. Len(z)
  BY LenProperties
<1>2. \A i \in 1 .. N : s[i] \in S
  BY ElementOfSeq
<1>3. \A i \in 1 .. N + 1 : z[i] \in S
  BY ElementOfSeq
<1>4. a \in [1 .. N -> V] /\ b \in [1 .. N + 1 -> V] /\ last \in V
  BY <1>1, <1>2, <1>3
<1>5. /\ a \in Seq(V) /\ Len(a) = N
      /\ b \in Seq(V) /\ Len(b) = N + 1
  <2> HIDE DEF a, b, V
  <2> QED
    BY <1>1, <1>4
<1>6. \A i \in 1 .. N : a[i] = s[i].image
  OBVIOUS
<1>7. \A i \in 1 .. N + 1 : b[i] = z[i].image
  OBVIOUS
<1>8. \A i \in 1 .. N : b[i] = a[i]
  BY <1>1, <1>6, <1>7
<1>9. b[N + 1] = last
  BY <1>1, <1>7
<1> DEFINE c == Append(a, last)
<1> HIDE DEF a, b, V, last, N
<1>10. /\ c \in Seq(V) /\ Len(c) = N + 1 /\ c[N + 1] = last
       /\ \A i \in 1 .. N : c[i] = a[i]
  BY <1>4, <1>5, AppendProperties
<1> HIDE DEF c
<1>11. \A i \in 1 .. Len(b) : b[i] = c[i]
  <2> SUFFICES ASSUME NEW i \in 1 .. Len(b) PROVE b[i] = c[i]
    OBVIOUS
  <2>1. i \in 1 .. N \/ i = N + 1
    BY <1>1, <1>5
  <2> QED
    BY <1>8, <1>9, <1>10, <2>1
<1>12. b = c
  BY <1>5, <1>10, <1>11, SeqEqual
<1> QED
  BY <1>12 DEF a, b, c, last, N

\* While the channel loses nothing, the client receives the captured images,
\* each once, unchanged and in order, even when consecutive frames carry the
\* same timestamp: the safety part of the refinement ImplementsDelivery.
THEOREM DeliveryHolds ==
  ASSUME MaxLost = 0
  PROVE  PipeSpec => Delivery!Spec
<1> DEFINE NothingLost == lost = <<>>
           A == IInv /\ PipeIInv /\ FrameIInv /\ NothingLost
           images == [f \in 1 .. Len(captured) |-> captured[f].image]
           out == [d \in 1 .. Len(delivered) |-> delivered[d].image]
<1>1. PipeInit => NothingLost /\ Delivery!Init
  BY DEF PipeInit, Delivery!Init
<1>2. ASSUME PipeIInv, NothingLost, [PipeNext]_allVars
      PROVE  ~Lose /\ NothingLost'
  <2>1. ~Lose
    BY <1>2 DEF Lose
  <2> QED
    BY <1>2, <2>1
    DEF PipeNext, Capture, Receive, DecodeStep, allVars, pipeVars
<1>3. ASSUME A, [PipeNext]_allVars
      PROVE  [Delivery!Next]_<<images, out>>
  <2>1. CASE \E img \in Images, ts \in Timestamps : Capture(img, ts)
    <3>1. PICK img \in Images, ts \in Timestamps : Capture(img, ts)
      BY <2>1
    <3> DEFINE frame == [image |-> img, ts |-> ts]
               S == [image : Images, ts : Timestamps]
    <3>2. captured' = Append(captured, frame) /\ delivered' = delivered
      BY <3>1 DEF Capture
    <3>3. captured \in Seq(S) /\ frame \in S
      BY <1>3 DEF PipeIInv, PipeTypeOK
    <3>4. /\ captured' \in Seq(S) /\ Len(captured') = Len(captured) + 1
          /\ \A f \in 1 .. Len(captured) : captured'[f] = captured[f]
          /\ captured'[Len(captured) + 1] = frame
      <4> HIDE DEF frame, S
      <4> QED
        BY <3>2, <3>3, AppendProperties
    <3>5. images' = Append(images, captured'[Len(captured) + 1].image)
      <4> HIDE DEF frame, S
      <4> QED
        BY <3>3, <3>4, ImagesAppended
    <3>6. images' = Append(images, img)
      BY <3>4, <3>5
    <3>7. out' = out
      BY <3>2
    <3>8. Delivery!Capture(img)
      BY <3>6, <3>7 DEF Delivery!Capture
    <3> QED
      BY <3>8 DEF Delivery!Next
  <2>2. CASE DecodeStep /\ delivered' # delivered
    <3> DEFINE S == [image : [Index -> Pixel], frames : SUBSET Nat]
    <3>1. /\ Len(delivered) \in Nat /\ Len(delivered) < Len(captured)
          /\ Len(delivered') = Len(delivered) + 1
          /\ \A d \in 1 .. Len(delivered) : delivered'[d] = delivered[d]
          /\ delivered'[Len(delivered) + 1].image =
               captured[Len(delivered) + 1].image
      BY <1>3, <2>2, CompleteDelivers
    <3>2. delivered \in Seq(S) /\ delivered' \in Seq(S)
      BY <1>3, <2>2, PipeNextIInv DEF PipeIInv, PipeTypeOK, PipeNext
    <3>3. out' = Append(out, delivered'[Len(delivered) + 1].image)
      <4> HIDE DEF S
      <4> QED
        BY <3>1, <3>2, ImagesAppended
    <3>4. images' = images
      BY <2>2 DEF DecodeStep
    <3>5. /\ Len(out) = Len(delivered) /\ Len(images) = Len(captured)
          /\ images[Len(out) + 1] = captured[Len(delivered) + 1].image
      <4>1. Len(captured) \in Nat
        BY <1>3, FrameNumbers
      <4>2. Len(out) = Len(delivered) /\ Len(images) = Len(captured)
        BY <3>1, <4>1
      <4>3. Len(delivered) + 1 \in 1 .. Len(captured)
        BY <3>1, <4>1
      <4> QED
        BY <4>2, <4>3
    <3> HIDE DEF images, out
    <3>6. Delivery!Deliver
      BY <3>1, <3>3, <3>4, <3>5 DEF Delivery!Deliver, images, out
    <3> QED
      BY <3>6 DEF Delivery!Next
  <2>3. CASE UNCHANGED <<captured, delivered>>
    BY <2>3
  <2>4. \/ \E img \in Images, ts \in Timestamps : Capture(img, ts)
        \/ DecodeStep /\ delivered' # delivered
        \/ UNCHANGED <<captured, delivered>>
    BY <1>2, <1>3 DEF PipeNext, Receive, DecodeStep, allVars, pipeVars
  <2> QED
    BY <2>1, <2>2, <2>3, <2>4
<1>4. A /\ [PipeNext]_allVars => [Delivery!Next]_<<images, out>>
  BY <1>3
<1>5. PipeIInv /\ NothingLost /\ [PipeNext]_allVars => NothingLost'
  BY <1>2
<1> HIDE DEF NothingLost, images, out
<1>6. PipeSpec => []NothingLost
  BY <1>1, <1>5, PipeInvariance, PTL DEF PipeSpec
<1>7. PipeSpec => [][Delivery!Next]_<<images, out>>
  BY <1>4, <1>6, PipeInvariance, FrameInvariance, PTL DEF PipeSpec
<1> QED
  BY <1>1, <1>7, PTL DEF PipeSpec, Delivery!Spec, images, out
=============================================================================
