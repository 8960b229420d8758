-------------------------- MODULE MCClockOverflow --------------------------
(* ProcessEvents at the same scale, with a call on Windows that is in      *)
(* range, one of GoodCalls in MCProcessEvents, and begins shortly before   *)
(* the product of mono_timer_nanos() no longer fits its signed type: at    *)
(* time 64 here, after a quarter of an hour where the counter runs at      *)
(* 10 MHz.                                                                 *)
EXTENDS ProcessEvents

WindowsCalls == {"windows"} \X {1}

WindowsDivisors == [b \in Platforms |-> 8]
=============================================================================
