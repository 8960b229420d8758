------------------------- MODULE MCTimeoutOverflow -------------------------
(* ProcessEvents at the same scale, with timeouts out of range.  As in the *)
(* code, the product overflows above some timeout (5 ms; 2147 ms in the    *)
(* code), and the unbounded deadline, divided down, does not fit int: it   *)
(* becomes a number below -1 at first and a positive one later (10 ms of   *)
(* uptime; 23 days in the code).                                           *)
EXTENDS ProcessEvents

OverflowingCalls == {"linux"} \X {6, 12}

OneDivisor == [b \in Platforms |-> 1]
=============================================================================
