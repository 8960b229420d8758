----------------------------- MODULE HidWindows ----------------------------
(***************************************************************************)
(* The Windows HIDAPI backend, hidapi/windows/hid.c: opening a device,     *)
(* the overlapped read that stays pending when a call times out and is     *)
(* collected by a later call, synchronous transfers, and closing.          *)
(*                                                                         *)
(* The backend has no lock and no thread of its own: the calls on a device *)
(* do not overlap.  What runs concurrently is the kernel, which completes  *)
(* the request, fills dev->read_buf and signals the auto-reset event.      *)
(*                                                                         *)
(* Win32 and the HID class driver are external.  ReadFile() resets the     *)
(* event; CancelIo() cancels the requests of the calling thread only, and  *)
(* does not promise that they have ended when it returns.                  *)
(***************************************************************************)
EXTENDS Integers, Sequences, FiniteSets

CONSTANTS
  RingSize,      \* reports the class driver keeps for a handle
  MaxReports,    \* bound: reports the device sends
  FaultSets      \* the sets of faults the environment may have

\* slow_cancel    a cancelled request ends some time after CancelIo()
\* other_thread   reads are also made by a thread that does not close
AllFaults == {"slow_cancel", "other_thread"}

ASSUME HidWindowsAssumption ==
  /\ RingSize \in Nat \ {0}
  /\ MaxReports \in Nat
  /\ FaultSets \subseteq SUBSET AllFaults

VARIABLES
  faults,        \* the faults this environment has, fixed
  plugged,       \* the device is connected
  owner,         \* where the client is in hid_open_path() or hid_close()
  held,          \* what the device structure owns, itself included
  call,          \* where the client is in hid_read_timeout()
  read_pending,  \* dev->read_pending
  event,         \* dev->ol.hEvent is signalled
  request,       \* the overlapped read, as the kernel sees it
  issuer,        \* the thread that issued it
  read_buf,      \* the report in dev->read_buf, 0 before the first
  ring,          \* reports the class driver holds
  arrived,       \* history: number of reports that arrived
  returned,      \* history: reports hid_read_timeout() returned
  dropped        \* history: reports the class driver discarded

environment == <<faults, plugged>>
kernel      == <<event, request, issuer, read_buf>>
driver      == <<ring, arrived, dropped>>
vars == <<environment, owner, held, call, read_pending, kernel, driver,
          returned>>

Threads == {"client", "other"}
Resources == {"dev", "event", "device", "pp_data", "read_buf", "error_str"}
OpeningSteps == {"closed", "create_file", "preparsed", "caps", "err_pp_data",
                 "err", "failed"}
ClosingSteps == {"close_event", "close_device", "free", "freed"}

TypeOK ==
  /\ faults \in FaultSets /\ plugged \in BOOLEAN
  /\ owner \in OpeningSteps \cup {"open"} \cup ClosingSteps
  /\ held \subseteq Resources
  /\ call \in {"idle", "wait", "timed_result", "result"}
  /\ read_pending \in BOOLEAN /\ event \in BOOLEAN
  /\ request \in {"none", "pending", "done", "failed", "cancelling"}
  /\ issuer \in Threads
  /\ arrived \in 0 .. MaxReports /\ read_buf \in 0 .. arrived
  /\ ring \in Seq(1 .. MaxReports) /\ returned \in Seq(1 .. MaxReports)
  /\ dropped \subseteq 1 .. arrived

Init ==
  /\ faults \in FaultSets /\ plugged = TRUE
  /\ owner = "closed" /\ held = {}
  /\ call = "idle" /\ read_pending = FALSE
  /\ event = FALSE /\ request = "none" /\ issuer = "client" /\ read_buf = 0
  /\ ring = <<>> /\ arrived = 0 /\ dropped = {} /\ returned = <<>>

-----------------------------------------------------------------------------
(* The kernel, the class driver and the device.                            *)

\* A pending request takes the report, otherwise it goes to the ring of the
\* open handle, which discards its oldest report when it is full.
Report ==
  /\ plugged /\ "device" \in held
  /\ arrived < MaxReports
  /\ arrived' = arrived + 1
  /\ \/ /\ request = "pending"
        /\ request' = "done" /\ read_buf' = arrived + 1 /\ event' = TRUE
        /\ UNCHANGED <<issuer, ring, dropped>>
     \/ /\ request # "pending" /\ Len(ring) < RingSize
        /\ ring' = Append(ring, arrived + 1)
        /\ UNCHANGED <<kernel, dropped>>
     \/ /\ request # "pending" /\ Len(ring) = RingSize
        /\ ring' = Append(Tail(ring), arrived + 1)
        /\ dropped' = dropped \cup {Head(ring)}
        /\ UNCHANGED kernel
  /\ UNCHANGED <<environment, owner, held, call, read_pending, returned>>

Unplug ==
  /\ plugged
  /\ plugged' = FALSE
  /\ ring' = <<>>
  /\ dropped' = dropped \cup {ring[i] : i \in DOMAIN ring}
  /\ UNCHANGED <<faults, owner, held, call, read_pending, kernel, arrived,
                 returned>>

\* A request ends without a report: the device is gone, or it is cancelled.
RequestFails ==
  /\ (request = "pending" /\ ~plugged) \/ request = "cancelling"
  /\ request' = "failed" /\ event' = TRUE
  /\ UNCHANGED <<environment, owner, held, call, read_pending, issuer,
                 read_buf, driver, returned>>

-----------------------------------------------------------------------------
\* register_error(): the message replaces the one before.
RegisterError == held' = held \cup {"error_str"}

-----------------------------------------------------------------------------
(* hid_open_path(): every call of Win32 may fail.                          *)

\* Go on to a step with some resources more and some less.
OwnerStep(from, to, gained, lost) ==
  /\ owner = from
  /\ owner' = to
  /\ held' = (held \cup gained) \ lost
  /\ UNCHANGED <<environment, call, read_pending, kernel, driver, returned>>

NewDevice == OwnerStep("closed", "create_file", {"dev", "event"}, {})

CreateFile ==
  \/ OwnerStep("create_file", "preparsed", {"device"}, {})
  \/ OwnerStep("create_file", "err", {"error_str"}, {})

GetPreparsedData ==
  \/ OwnerStep("preparsed", "caps", {"pp_data"}, {})
  \/ OwnerStep("preparsed", "err", {"error_str"}, {})

GetCaps ==
  \/ OwnerStep("caps", "open", {"read_buf"}, {"pp_data"})
  \/ OwnerStep("caps", "err_pp_data", {"error_str"}, {})

\* Mutant of err_pp_data: the preparsed data is forgotten.
err_keeps_pp_data == OwnerStep("err_pp_data", "err", {}, {})
err_pp_data == OwnerStep("err_pp_data", "err", {}, {"pp_data"})

err == OwnerStep("err", "failed", {}, {"device", "dev"})

-----------------------------------------------------------------------------
(* hid_write(), hid_get_feature_report(), hid_send_feature_report()        *)

\* They have a request of their own and wait for it; a failure leaves its
\* message in the device.
TransferFails ==
  /\ owner = "open" /\ call = "idle"
  /\ RegisterError
  /\ UNCHANGED <<environment, owner, call, read_pending, kernel, driver,
                 returned>>

-----------------------------------------------------------------------------
(* hid_read_timeout()                                                      *)

\* A timeout of 0 or more waits for the event, a negative one does not.
EnterWait == call' \in {"wait", "result"}

MayCall == owner = "open" /\ call = "idle"

\* An earlier call left its request running.
ReadAgain ==
  /\ MayCall /\ read_pending
  /\ EnterWait
  /\ UNCHANGED <<environment, owner, held, read_pending, kernel, driver,
                 returned>>

\* ReadFile() succeeds at once, or the request is pending.
ReadStarts ==
  /\ MayCall /\ ~read_pending /\ plugged
  /\ read_pending' = TRUE
  /\ issuer' \in (IF "other_thread" \in faults THEN Threads ELSE {"client"})
  /\ \/ /\ ring = <<>>
        /\ request' = "pending" /\ event' = FALSE
        /\ UNCHANGED <<read_buf, ring>>
     \/ /\ ring # <<>>
        /\ request' = "done" /\ event' = TRUE
        /\ read_buf' = Head(ring) /\ ring' = Tail(ring)
  /\ EnterWait
  /\ UNCHANGED <<environment, owner, held, arrived, dropped, returned>>

\* Mutant of ReadFails: the flag stays set.
ReadFailsPending ==
  /\ MayCall /\ ~read_pending
  /\ event' = FALSE /\ read_pending' = TRUE
  /\ RegisterError
  /\ UNCHANGED <<environment, owner, call, request, issuer, read_buf, driver,
                 returned>>

\* ReadFile() fails: there is no request, and the call returns -1.
ReadFails ==
  /\ MayCall /\ ~read_pending
  /\ event' = FALSE /\ read_pending' = FALSE
  /\ RegisterError
  /\ UNCHANGED <<environment, owner, call, request, issuer, read_buf, driver,
                 returned>>

\* WaitForSingleObject() consumes the signal.
WaitEnds ==
  /\ call = "wait" /\ event
  /\ event' = FALSE
  /\ call' = "timed_result"
  /\ UNCHANGED <<environment, owner, held, read_pending, request, issuer,
                 read_buf, driver, returned>>

\* Mutants of TimeOut: the running request is forgotten; the result is
\* collected although the wait timed out.
TimeOutForgets ==
  /\ call = "wait" /\ ~event
  /\ call' = "idle" /\ read_pending' = FALSE
  /\ UNCHANGED <<environment, owner, held, kernel, driver, returned>>

TimeOutCollects ==
  /\ call = "wait" /\ ~event
  /\ call' = "timed_result"
  /\ UNCHANGED <<environment, owner, held, read_pending, kernel, driver,
                 returned>>

\* The call returns 0 and leaves the request running.
TimeOut ==
  /\ call = "wait" /\ ~event
  /\ call' = "idle"
  /\ UNCHANGED <<environment, owner, held, read_pending, kernel, driver,
                 returned>>

Finished == request \in {"done", "failed"}

\* GetOverlappedResult() waits for the request.  It consumes the event only if
\* it had to wait for it.
Collect ==
  /\ call \in {"timed_result", "result"} /\ Finished
  /\ call' = "idle" /\ read_pending' = FALSE
  /\ request' = "none" /\ event' \in {event, FALSE}
  /\ \/ /\ request = "failed"
        /\ RegisterError /\ UNCHANGED returned
     \/ /\ request # "failed"
        /\ returned' = Append(returned, read_buf) /\ UNCHANGED held
  /\ UNCHANGED <<environment, owner, issuer, read_buf, driver>>

-----------------------------------------------------------------------------
(* hid_close()                                                             *)

\* What CancelIo() leaves of the request, called by the client.
AfterCancelIo ==
  IF request # "pending" \/ issuer # "client" THEN request
  ELSE IF "slow_cancel" \in faults THEN "cancelling" ELSE "failed"

\* Mutant of CloseCancel: the request is left to CloseHandle().
CloseWithoutCancel ==
  /\ MayCall
  /\ owner' = "close_event"
  /\ UNCHANGED <<environment, held, call, read_pending, kernel, driver,
                 returned>>

CloseCancel ==
  /\ MayCall
  /\ owner' = "close_event"
  /\ request' = AfterCancelIo
  /\ UNCHANGED <<environment, held, call, read_pending, event, issuer,
                 read_buf, driver, returned>>

CloseEvent == OwnerStep("close_event", "close_device", {}, {"event"})

\* The last handle of a device cancels what is still pending on it.
CloseDevice ==
  /\ owner = "close_device"
  /\ owner' = "free"
  /\ held' = held \ {"device"}
  /\ request' = IF request = "pending" THEN "cancelling" ELSE request
  /\ UNCHANGED <<environment, call, read_pending, event, issuer, read_buf,
                 driver, returned>>

CloseFree == OwnerStep("free", "freed", {}, {"error_str", "read_buf", "dev"})

-----------------------------------------------------------------------------
Open == NewDevice \/ CreateFile \/ GetPreparsedData \/ GetCaps \/ err_pp_data
        \/ err
Read == ReadAgain \/ ReadStarts \/ ReadFails \/ WaitEnds \/ TimeOut \/ Collect
Close == CloseCancel \/ CloseEvent \/ CloseDevice \/ CloseFree

Next == Open \/ Read \/ TransferFails \/ Close
        \/ Report \/ Unplug \/ RequestFails

Spec == Init /\ [][Next]_vars

\* The kernel ends the requests of a device that is gone, and a call that has
\* something to do goes on.  Nothing is assumed about the device, and a client
\* need not call.
Fairness == WF_vars(RequestFails) /\ WF_vars(WaitEnds) /\ WF_vars(TimeOut)
            /\ WF_vars(Collect)

FairSpec == Spec /\ Fairness

-----------------------------------------------------------------------------
(* Safety.                                                                 *)

\* hid_close() releases everything, and hid_open_path() everything but the
\* event and the error message when it fails half way.
Releases ==
  /\ owner = "freed" => held = {}
  /\ owner = "failed" => held \subseteq {"event", "error_str"}

\* read_pending and the event tell the truth about the request.  Between two
\* calls read_pending says whether there is one: no call starts a second one
\* with the same buffer, or waits for none.  A call with a timeout does not
\* block in GetOverlappedResult(): the event that ended its wait was the end of
\* this request, not of an earlier one.
RequestTracked ==
  /\ MayCall => (read_pending <=> request # "none")
  /\ call = "timed_result" => request \in {"done", "failed"}

Outstanding == (IF request = "done" THEN <<read_buf>> ELSE <<>>) \o ring

\* However calls time out, every report that arrives is returned once, in order
\* of arrival, unless the class driver discards it.
EachReportOnce ==
  owner = "open" =>
    LET seen == returned \o Outstanding
    IN  /\ \A i, j \in DOMAIN seen : i < j => seen[i] < seen[j]
        /\ {seen[i] : i \in DOMAIN seen} \cup dropped = 1 .. arrived

\* hid_close() frees the buffer when the kernel is done with it, if the thread
\* that closes issued the read and CancelIo() ends it.
NothingPendingWhenFreed ==
  owner = "freed" /\ issuer = "client" /\ "slow_cancel" \notin faults
  => request \notin {"pending", "cancelling"}

(* Liveness.                                                               *)

\* A read of a device that is gone returns, a blocking one included.
UnplugEndsReads == ~plugged /\ call # "idle" ~> call = "idle"
=============================================================================
