-------------------------- MODULE MCProcessEvents --------------------------
(* ProcessEvents with a 6-bit int, a 10-bit clock and 6 nanoseconds to a   *)
(* millisecond, and calls that keep their promise: products that fit int,  *)
(* negative timeouts, and on Windows no timeout shorter than the time      *)
(* between two clock readings.                                             *)
EXTENDS ProcessEvents

GoodCalls ==
  ({"linux", "mac"} \X {-1, 0, 1, 5}) \cup ({"windows"} \X {-1, 1, 5})

\* The timer of Windows jumps at time 64 and wraps at 128, that of Mac wraps at
\* 128.
SomeDivisors == [linux |-> 1, mac |-> 8, windows |-> 8]

\* The hypothesis of the theorems about calls with a timeout.
ASSUME GoodCallsInRange == CallsInRange
=============================================================================
