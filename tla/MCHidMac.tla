----------------------------- MODULE MCHidMac ------------------------------
(* HidMac with two readers and a queue limit of 0, so at most two queued   *)
(* reports, and enough reports to overflow it.                             *)
EXTENDS HidMac

\* No fault, each fault alone, and all of them.
AnyFaults == {{}, AllFaults} \cup {{f} : f \in AllFaults}
=============================================================================
