----------------------------- MODULE ReportQueue ----------------------------
(***************************************************************************)
(* What a backend of HIDAPI promises of the input reports of one open      *)
(* device, whatever its threads do: reports come out in the order in which *)
(* they arrived, none twice; a report is lost only by being the oldest of  *)
(* a full queue when a new one arrives, or when the device is closed.      *)
(*                                                                         *)
(* Reports are numbered as they arrive.                                    *)
(***************************************************************************)
EXTENDS Naturals, Sequences

CONSTANT Capacity      \* the reports that may wait

VARIABLES
  queue,       \* the reports that wait, oldest first
  arrived,     \* the number of reports that have arrived
  lastRead     \* the report the client has read last, 0 for none

Init == queue = <<>> /\ arrived = 0 /\ lastRead = 0

\* A report arrives; it is never itself the one that is lost.
Arrive ==
  /\ arrived' = arrived + 1
  /\ \/ Len(queue) < Capacity /\ queue' = Append(queue, arrived')
     \/ Len(queue) = Capacity /\ queue' = Append(Tail(queue), arrived')
  /\ UNCHANGED lastRead

\* The client reads the oldest report.
Take ==
  /\ queue # <<>>
  /\ lastRead' = Head(queue)
  /\ queue' = Tail(queue)
  /\ UNCHANGED arrived

\* The device is closed.
Discard ==
  /\ queue' = <<>>
  /\ UNCHANGED <<arrived, lastRead>>

Next == Arrive \/ Take \/ Discard

Spec == Init /\ [][Next]_<<queue, arrived, lastRead>>
=============================================================================
