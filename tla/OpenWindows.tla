---------------------------- MODULE OpenWindows ----------------------------
(***************************************************************************)
(* Enumerating, opening and closing devices in hidapi/windows/hid.c.  The  *)
(* enumeration opens every device in turn, because only a handle tells its *)
(* IDs; open_device() tries twice, without sharing and then with it.       *)
(*                                                                         *)
(* Win32 is external: a handle that is not shared excludes all others.     *)
(* What else an open device holds is in HidWindows.                        *)
(***************************************************************************)
EXTENDS DeviceAccess

VARIABLES
  todo,       \* per client: the paths its enumeration has yet to open
  scanned,    \* per client: the path its enumeration opens
  elsewhere   \* devices other programs have open, sharing them

windowsVars == <<todo, scanned, elsewhere>>

WindowsInit ==
  /\ todo = [c \in Clients |-> {}]
  /\ scanned = [c \in Clients |-> None]
  /\ elsewhere = {}

-----------------------------------------------------------------------------
(* Handles and sharing (external).                                         *)

Handles == {"exclusive", "shared"}

\* The handles of this program on a device, in calls and open.
On(c, p) == p = (IF scanned[c] # None THEN scanned[c] ELSE path[c])
OpenAs(p) == UNION {held[c] \cap Handles : c \in {d \in Clients : On(d, p)}}

MayOpenExclusive(p) == p \in Present /\ OpenAs(p) = {} /\ p \notin elsewhere
MayOpenShared(p)    == p \in Present /\ "exclusive" \notin OpenAs(p)

ElsewhereOpens(p) ==
  /\ "shared_elsewhere" \in circumstances
  /\ MayOpenShared(p)
  /\ elsewhere' = elsewhere \cup {p}
  /\ UNCHANGED <<fixed, bus, client, todo, scanned>>

ElsewhereCloses(p) ==
  /\ p \in elsewhere
  /\ elsewhere' = elsewhere \ {p}
  /\ UNCHANGED <<fixed, bus, client, todo, scanned>>

\* Mutant of CreateExclusive: the first attempt shares the device.
CreateSharing(c, p, from, to, otherwise) ==
  IF MayOpenShared(p) THEN Step(c, from, to, held[c] \cup {"shared"})
                      ELSE Step(c, from, otherwise, held[c])

\* open_device(): the first attempt.
CreateExclusive(c, p, from, to, otherwise) ==
  IF MayOpenExclusive(p) THEN Step(c, from, to, held[c] \cup {"exclusive"})
                         ELSE Step(c, from, otherwise, held[c])

-----------------------------------------------------------------------------
(* hid_enumerate()                                                         *)

WindowsEnumerate(c) ==
  /\ Step(c, "listing", "scan", held[c])
  /\ todo' = [todo EXCEPT ![c] = Present]
  /\ UNCHANGED <<scanned, elsewhere>>

ScanExclusive(c) ==
  /\ \E p \in todo[c] :
       /\ CreateExclusive(c, p, "scan", "record", "scan_shared")
       /\ todo' = [todo EXCEPT ![c] = @ \ {p}]
       /\ scanned' = [scanned EXCEPT ![c] = p]
  /\ UNCHANGED elsewhere

\* Mutant of ScanShared: there is no second attempt.
ScanGivesUp(c) ==
  /\ Step(c, "scan_shared", "scan", held[c])
  /\ scanned' = [scanned EXCEPT ![c] = None]
  /\ UNCHANGED <<todo, elsewhere>>

\* A device that cannot be opened is left out of the list.
ScanShared(c) ==
  /\ IF MayOpenShared(scanned[c])
     THEN /\ Step(c, "scan_shared", "record", held[c] \cup {"shared"})
          /\ UNCHANGED scanned
     ELSE /\ Step(c, "scan_shared", "scan", held[c])
          /\ scanned' = [scanned EXCEPT ![c] = None]
  /\ UNCHANGED <<todo, elsewhere>>

ScanRecord(c) ==
  /\ Goto(c, "record", "scan")
  /\ list' = [list EXCEPT ![c] = @ \cup {scanned[c]}]
  /\ Holds(c, held[c] \ Handles)
  /\ scanned' = [scanned EXCEPT ![c] = None]
  /\ UNCHANGED <<fixed, bus, path, todo, elsewhere>>

ScanEnds(c) ==
  /\ todo[c] = {}
  /\ Step(c, "scan", "idle", held[c])
  /\ UNCHANGED windowsVars

-----------------------------------------------------------------------------
(* hid_open_path(), hid_close()                                            *)

WindowsBeginOpen(c) == BeginOpen(c, {"device"}) /\ UNCHANGED windowsVars

WindowsOpenExclusive(c) ==
  /\ CreateExclusive(c, path[c], "opening", "caps", "open_shared")
  /\ UNCHANGED windowsVars

WindowsOpenShared(c) ==
  /\ IF MayOpenShared(path[c])
     THEN Step(c, "open_shared", "caps", held[c] \cup {"shared"})
     ELSE Leave(c, "open_shared", held[c] \ {"device"})
  /\ UNCHANGED windowsVars

\* The preparsed data and the capabilities are read, or one of them is not.
WindowsGetCaps(c) ==
  /\ \/ path[c] \in Present /\ Step(c, "caps", "open", held[c])
     \/ Leave(c, "caps", held[c] \ ({"device"} \cup Handles))
  /\ UNCHANGED windowsVars

WindowsClose(c) ==
  /\ MayCall(c)
  /\ Leave(c, "open", held[c] \ ({"device"} \cup Handles))
  /\ UNCHANGED windowsVars

WindowsStep(c) ==
  \/ WindowsEnumerate(c) \/ ScanExclusive(c) \/ ScanShared(c) \/ ScanRecord(c)
  \/ ScanEnds(c) \/ WindowsBeginOpen(c) \/ WindowsOpenExclusive(c)
  \/ WindowsOpenShared(c) \/ WindowsGetCaps(c) \/ WindowsClose(c)
=============================================================================
