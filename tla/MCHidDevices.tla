---------------------------- MODULE MCHidDevices ---------------------------
(* HidDevices with two threads and two devices, in any circumstances.      *)
EXTENDS HidDevices, TLC

AnyCircumstances == SUBSET AllCircumstances
SamePaths        == Permutations(Paths)
=============================================================================
