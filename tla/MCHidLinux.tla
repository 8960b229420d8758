---------------------------- MODULE MCHidLinux -----------------------------
(* HidLinux with one reader, a queue limit of 1, so at most three queued   *)
(* reports, and enough reports to overflow it.                             *)
EXTENDS HidLinux

\* No fault, each fault alone, and all of them.
AnyFaults == {{}, AllFaults} \cup {{f} : f \in AllFaults}
=============================================================================
