----------------------------- MODULE MCDecoder -----------------------------
(* Decoder on a small instance: a five-pixel image, two grey levels, runs  *)
(* of 3 to 5 zeros (so a run can fill the image at once or overflow it),   *)
(* two timestamps, and a length byte that points past the receive buffer,  *)
(* which has room for 3 data bytes.                                        *)
EXTENDS Decoder
=============================================================================
