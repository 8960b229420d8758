----------------------------- MODULE HidDevices ----------------------------
(***************************************************************************)
(* Devices that come and go, and client threads that enumerate, open and   *)
(* close them through one of the three backends of HIDAPI.                 *)
(***************************************************************************)
EXTENDS OpenLinux, OpenMac, OpenWindows

vars == <<fixed, bus, client, linuxVars, macVars, windowsVars>>

TypeOK ==
  /\ backend \in Backends /\ circumstances \in CircumstanceSets
  /\ status \in [Paths -> {"come", "present", "gone"}]
  /\ attached \in [Clients -> SUBSET Paths]
  /\ pc \in [Clients ->
       {"idle", "listing", "opening", "open", "close",
        "search", "detach", "claim", "start", "release",
        "register", "join", "free",
        "scan", "scan_shared", "record", "open_shared", "caps"}]
  /\ list \in [Clients -> SUBSET Paths]
  /\ path \in [Clients -> Paths \cup {None}]
  /\ held \in [Clients ->
       SUBSET {"device", "linked", "handle", "lost_handle", "claim", "thread",
               "exclusive", "shared"}]
  /\ driver \subseteq Paths /\ settings \in [Clients -> 0 .. 2]
  /\ good_open \in [Clients -> BOOLEAN]
  /\ watching \in BOOLEAN /\ unreported \subseteq Paths
  /\ {disconnected, disturbed} \subseteq [Clients -> BOOLEAN]
  /\ todo \in [Clients -> SUBSET Paths]
  /\ scanned \in [Clients -> Paths \cup {None}]
  /\ elsewhere \subseteq Paths

Init == AccessInit /\ LinuxInit /\ MacInit /\ WindowsInit

\* What the clients do in the same way on every backend.
Common ==
  /\ \/ \E p \in Paths : Plug(p)
     \/ \E c \in Clients : BeginEnumeration(c) \/ FreeEnumeration(c)
  /\ UNCHANGED <<linuxVars, macVars, windowsVars>>

\* The manager of the Mac backend is to report that the device has gone.
DeviceGoes ==
  \E p \in Paths :
    /\ Unplug(p)
    /\ unreported' = IF backend = "mac" THEN unreported \cup {p} ELSE {}
    /\ UNCHANGED <<linuxVars, watching, marks, windowsVars>>

Linux ==
  /\ backend = "linux"
  /\ \E c \in Clients : LinuxStep(c)
  /\ UNCHANGED <<macVars, windowsVars>>

Mac ==
  /\ backend = "mac"
  /\ \/ \E c \in Clients : MacStep(c)
     \/ \E p \in Paths : MacRemoval(p)
  /\ UNCHANGED <<linuxVars, windowsVars>>

Windows ==
  /\ backend = "windows"
  /\ \/ \E c \in Clients : WindowsStep(c)
     \/ \E p \in Paths : ElsewhereOpens(p) \/ ElsewhereCloses(p)
  /\ UNCHANGED <<linuxVars, macVars>>

Next == Common \/ DeviceGoes \/ Linux \/ Mac \/ Windows

Spec == Init /\ [][Next]_vars

-----------------------------------------------------------------------------
(* Safety.                                                                 *)

\* What an open device consists of.
Complete(things) ==
  CASE backend = "linux"   -> things = {"device", "handle", "claim", "thread"}
    [] backend = "mac"     -> things = {"device", "linked", "handle", "thread"}
    [] backend = "windows" -> things \in {{"device", h} : h \in Handles}

\* hid_open_path() returns a complete device or, whichever of its steps fails,
\* leaves no handle, claim, thread or list entry behind; nor does hid_close().
\* On Linux, an interface with two alternate settings makes a NULL that leaves
\* the first of them open.
AllOrNothing ==
  \A c \in Clients :
    /\ pc[c] = "open" => Complete(held[c])
    /\ pc[c] = "idle" =>
         \/ held[c] = {}
         \/ backend = "linux" /\ "alternate_settings" \in circumstances

\* "This will make it so that a HID device can only be opened once.  This is
\* to be consistent with the behavior on the other platforms."  On Windows it
\* can when another program shares the device or while another thread has it
\* open for a moment; on Mac it can at any time.
OpenedOnce ==
  \/ backend = "mac"
  \/ /\ backend = "windows"
     /\ circumstances \cap {"shared_elsewhere", "concurrent_calls"} # {}
  \/ \A c, d \in Clients :
       pc[c] = "open" /\ pc[d] = "open" /\ path[c] = path[d] => c = d

\* Every device that is attached throughout an enumeration is in its list.  On
\* Windows those are missing that the program has open, or that another thread
\* opens at the same time; devices that other programs share are found.
ListsAttached ==
  [][ \A c \in Clients :
        pc[c] \in {"listing", "scan"} /\ pc'[c] = "idle" =>
        \A p \in attached[c] \ list'[c] :
          /\ backend = "windows"
          /\ \/ "concurrent_calls" \in circumstances
             \/ \E d \in Clients : path[d] = p ]_vars

\* On Mac every structure of a device that has gone is marked once the removal
\* callback has been due, whichever thread opened it and when, unless another
\* hid_close() has unregistered the callback in between: "This way when a
\* device gets disconnected, its hid_device structure can be marked".
RemovalMarked ==
  backend = "mac" /\ "concurrent_calls" \notin circumstances =>
    \A c \in Clients :
      /\ pc[c] = "open" /\ ~disturbed[c]
      /\ status[path[c]] = "gone" /\ path[c] \notin unreported
      => disconnected[c]
=============================================================================
