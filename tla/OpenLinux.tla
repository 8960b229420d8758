----------------------------- MODULE OpenLinux -----------------------------
(***************************************************************************)
(* Enumerating, opening and closing devices in hidapi/linux/hid-libusb.c.  *)
(* hid_open_path() does not end its search when it has opened a device: it *)
(* visits every alternate setting of HID class, all under the same path.   *)
(*                                                                         *)
(* libusb and the kernel are external.  An interface is claimed through    *)
(* one handle at a time.  The read thread is that of HidLinux; here it     *)
(* runs or not.                                                            *)
(***************************************************************************)
EXTENDS DeviceAccess

VARIABLES
  driver,      \* paths whose interface the kernel driver has
  settings,    \* per client: alternate settings the search has yet to visit
  good_open    \* per client: good_open in hid_open_path()

linuxVars == <<driver, settings, good_open>>
search    == <<settings, good_open>>

LinuxInit ==
  /\ driver = Paths
  /\ settings = [c \in Clients |-> 0]
  /\ good_open = [c \in Clients |-> FALSE]

Remaining(c, n) == settings' = [settings EXCEPT ![c] = n]
GoodOpen(c, b) == good_open' = [good_open EXCEPT ![c] = b]

\* libusb returns the devices of the moment; the strings change nothing.
LinuxEnumerate(c) ==
  /\ Goto(c, "listing", "idle")
  /\ list' = [list EXCEPT ![c] = Present]
  /\ UNCHANGED <<fixed, bus, path, held, linuxVars>>

LinuxBeginOpen(c) == BeginOpen(c, {"device"}) /\ UNCHANGED linuxVars

\* The search finds the path, or not; a device that has no configuration is
\* listed but passed over.
LinuxSearch(c) ==
  /\ Step(c, "opening", "search", held[c])
  /\ \/ Remaining(c, 0)
     \/ path[c] \in Present /\ Remaining(c, 1)
     \/ /\ path[c] \in Present /\ "alternate_settings" \in circumstances
        /\ Remaining(c, 2)
  /\ GoodOpen(c, FALSE)
  /\ UNCHANGED driver

\* A second alternate setting overwrites the handle of the first.
LinuxOpenHandle(c) ==
  /\ settings[c] > 0 /\ path[c] \in Present
  /\ Step(c, "search", "detach",
          held[c] \cup {"handle"} \cup
          (IF "handle" \in held[c] THEN {"lost_handle"} ELSE {}))
  /\ GoodOpen(c, TRUE)
  /\ UNCHANGED <<driver, settings>>

\* The handle cannot be opened: the search ends, good_open stays.
LinuxOpenHandleFails(c) ==
  /\ settings[c] > 0
  /\ Step(c, "search", "search", held[c])
  /\ Remaining(c, 0)
  /\ UNCHANGED <<driver, good_open>>

LinuxDetach(c) ==
  /\ Step(c, "detach", "claim", held[c])
  /\ driver' = driver \ {path[c]}
  /\ UNCHANGED search

\* The handle is closed and the search of this interface ends.
GiveUp(c, from) ==
  /\ Step(c, from, "search", held[c] \ {"handle"})
  /\ Remaining(c, 0) /\ GoodOpen(c, FALSE)
  /\ UNCHANGED driver

LinuxDetachFails(c) == path[c] \in driver /\ GiveUp(c, "detach")

Claimed(p) == \E c \in Clients : path[c] = p /\ "claim" \in held[c]

LinuxClaim(c) ==
  /\ path[c] \in Present /\ ~Claimed(path[c])
  /\ Step(c, "claim", "start", held[c] \cup {"claim"})
  /\ UNCHANGED linuxVars

\* Mutant of LinuxClaimFails: the handle stays open.
LinuxClaimFailsKeepsHandle(c) ==
  /\ Step(c, "claim", "search", held[c])
  /\ Remaining(c, 0) /\ GoodOpen(c, FALSE)
  /\ UNCHANGED driver

LinuxClaimFails(c) == GiveUp(c, "claim")

\* Create the read thread and go on searching.
LinuxStartThread(c) ==
  /\ Step(c, "start", "search", held[c] \cup {"thread"})
  /\ Remaining(c, settings[c] - 1)
  /\ UNCHANGED <<driver, good_open>>

LinuxOpenReturns(c) ==
  /\ settings[c] = 0
  /\ IF good_open[c] THEN Step(c, "search", "open", held[c])
                     ELSE Leave(c, "search", held[c] \ {"device"})
  /\ UNCHANGED linuxVars

\* hid_close(): cancel and join the read thread.
LinuxCloseThread(c) ==
  /\ MayCall(c)
  /\ Step(c, "open", "release", held[c] \ {"thread"})
  /\ UNCHANGED linuxVars

LinuxCloseRelease(c) ==
  /\ Step(c, "release", "close", held[c] \ {"claim"})
  /\ UNCHANGED linuxVars

LinuxCloseHandle(c) ==
  /\ Leave(c, "close", held[c] \ {"handle", "device"})
  /\ UNCHANGED linuxVars

LinuxStep(c) ==
  \/ LinuxEnumerate(c) \/ LinuxBeginOpen(c) \/ LinuxSearch(c)
  \/ LinuxOpenHandle(c) \/ LinuxOpenHandleFails(c)
  \/ LinuxDetach(c) \/ LinuxDetachFails(c) \/ LinuxClaim(c)
  \/ LinuxClaimFails(c) \/ LinuxStartThread(c) \/ LinuxOpenReturns(c)
  \/ LinuxCloseThread(c) \/ LinuxCloseRelease(c) \/ LinuxCloseHandle(c)
=============================================================================
