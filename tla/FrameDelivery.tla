--------------------------- MODULE FrameDelivery ---------------------------
(***************************************************************************)
(* What the touch image path promises the client of libtouchmouse: the     *)
(* callback receives the images the mouse captured, each once, unchanged   *)
(* and in the order of capture.                                            *)
(***************************************************************************)
EXTENDS Naturals, Sequences

CONSTANT Images            \* the images the mouse can capture

VARIABLES captured,        \* the images captured so far
          delivered        \* the images passed to the callback so far

Init == captured = <<>> /\ delivered = <<>>

Capture(img) == captured' = Append(captured, img) /\ UNCHANGED delivered

Deliver ==
  /\ Len(delivered) < Len(captured)
  /\ delivered' = Append(delivered, captured[Len(delivered) + 1])
  /\ UNCHANGED captured

Next == Deliver \/ \E img \in Images : Capture(img)

Spec == Init /\ [][Next]_<<captured, delivered>>

FairSpec == Spec /\ WF_<<captured, delivered>>(Deliver)
=============================================================================
