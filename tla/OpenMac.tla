------------------------------ MODULE OpenMac ------------------------------
(***************************************************************************)
(* Enumerating, opening and closing devices in hidapi/mac/hid.c, and the   *)
(* removal callback, which finds the structures of a device in device_list.*)
(*                                                                         *)
(* IOKit is external.  IOHIDDeviceOpen() is asked for no exclusive access. *)
(* The callback runs on the main thread, in no call of a client unless     *)
(* other threads make calls.  The read thread is that of HidMac; that its  *)
(* run loop may also end when the device goes is left to HidMac.           *)
(***************************************************************************)
EXTENDS DeviceAccess

VARIABLES
  watching,      \* the manager has the removal callback
  unreported,    \* devices that are gone and not yet reported to it
  disconnected,  \* per client: disconnected of its hid_device
  disturbed      \* history, per client: another hid_close() since its open

macVars == <<watching, unreported, disconnected, disturbed>>
marks   == <<disconnected, disturbed>>

MacInit ==
  /\ watching = FALSE /\ unreported = {}
  /\ disconnected = [c \in Clients |-> FALSE]
  /\ disturbed = [c \in Clients |-> FALSE]

\* The manager has the devices of the moment.
MacEnumerate(c) ==
  /\ Goto(c, "listing", "idle")
  /\ list' = [list EXCEPT ![c] = Present]
  /\ UNCHANGED <<fixed, bus, path, held, macVars>>

\* new_hid_device() puts the structure into device_list.
MacBeginOpen(c) ==
  /\ BeginOpen(c, {"device", "linked"})
  /\ disconnected' = [disconnected EXCEPT ![c] = FALSE]
  /\ UNCHANGED <<watching, unreported, disturbed>>

MacOpenHandle(c) ==
  /\ path[c] \in Present
  /\ Step(c, "opening", "register", held[c] \cup {"handle"})
  /\ UNCHANGED macVars

\* The device is not found, or not opened; free_hid_device() unlinks.
MacOpenHandleFails(c) ==
  /\ Leave(c, "opening", held[c] \ {"device", "linked"})
  /\ UNCHANGED macVars

\* Register both callbacks, create the read thread.
MacRegister(c) ==
  /\ Step(c, "register", "open", held[c] \cup {"thread"})
  /\ watching' = TRUE
  /\ disturbed' = [disturbed EXCEPT ![c] = FALSE]
  /\ UNCHANGED <<unreported, disconnected>>

\* The structures in device_list that have the handle of the device.
OfDevice(p) ==
  {c \in Clients : path[c] = p /\ {"linked", "handle"} \subseteq held[c]}

\* Mutant of Marked: the search of device_list ends with the first structure.
MarkedFirst(p) ==
  IF OfDevice(p) = {} THEN {} ELSE {CHOOSE c \in OfDevice(p) : TRUE}

\* Those the callback marks.
Marked(p) == OfDevice(p)

\* hid_device_removal_callback(), if it is registered.
MacRemoval(p) ==
  /\ p \in unreported
  /\ "concurrent_calls" \in circumstances \/ \A c \in Clients : Resting(c)
  /\ unreported' = unreported \ {p}
  /\ disconnected' = [c \in Clients |->
                        disconnected[c] \/ (watching /\ c \in Marked(p))]
  /\ UNCHANGED <<fixed, bus, client, watching, disturbed>>

\* hid_close() unregisters the callbacks, of all devices, unless the device is
\* known to be gone.
MacCloseUnregister(c) ==
  /\ MayCall(c)
  /\ Step(c, "open", "join", held[c])
  /\ IF disconnected[c] THEN UNCHANGED <<watching, disturbed>>
     ELSE /\ watching' = FALSE
          /\ disturbed' = [d \in Clients |-> disturbed[d] \/ d # c]
  /\ UNCHANGED <<unreported, disconnected>>

MacCloseThread(c) ==
  /\ Step(c, "join", "close", held[c] \ {"thread"})
  /\ UNCHANGED macVars

\* A handle whose device is known to be gone is not closed.
MacCloseHandle(c) ==
  /\ Step(c, "close", "free",
          IF disconnected[c] THEN held[c] ELSE held[c] \ {"handle"})
  /\ UNCHANGED macVars

\* A handle goes with its device.
MacCloseFree(c) ==
  /\ Leave(c, "free", held[c] \ ({"device", "linked"} \cup
             (IF path[c] \in Present THEN {} ELSE {"handle"})))
  /\ UNCHANGED macVars

MacStep(c) ==
  \/ MacEnumerate(c) \/ MacBeginOpen(c) \/ MacOpenHandle(c)
  \/ MacOpenHandleFails(c) \/ MacRegister(c) \/ MacCloseUnregister(c)
  \/ MacCloseThread(c) \/ MacCloseHandle(c) \/ MacCloseFree(c)
=============================================================================
