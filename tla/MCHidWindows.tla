---------------------------- MODULE MCHidWindows ---------------------------
(* HidWindows with a ring of two reports, which the reports overflow.      *)
EXTENDS HidWindows

AnyFaults == SUBSET AllFaults
=============================================================================
