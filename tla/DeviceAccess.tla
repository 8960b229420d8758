---------------------------- MODULE DeviceAccess ---------------------------
(***************************************************************************)
(* What the three backends of HIDAPI have in common when devices are       *)
(* enumerated, opened and closed: the devices, which come and go, and the  *)
(* client threads with the list and the hid_device each of them has.       *)
(*                                                                         *)
(* A device has one path for as long as it is plugged in and another one   *)
(* when it returns, so devices are named by their paths.  hid_open() is a  *)
(* client that enumerates, opens a path of its list and frees the list.    *)
(***************************************************************************)
EXTENDS Naturals, FiniteSets

CONSTANTS
  Clients,           \* threads that call HIDAPI
  Paths,             \* bound: the paths devices get
  None,              \* no path
  Backends,          \* the backends the library may be built with
  CircumstanceSets   \* the sets of circumstances it may run in

\* concurrent_calls    two threads are inside HIDAPI at the same time
\* alternate_settings  an interface has two alternate settings of HID class
\* shared_elsewhere    other programs open devices, and share them
AllCircumstances ==
  {"concurrent_calls", "alternate_settings", "shared_elsewhere"}

ASSUME DeviceAccessAssumption ==
  /\ None \notin Paths
  /\ Backends \subseteq {"linux", "mac", "windows"}
  /\ CircumstanceSets \subseteq SUBSET AllCircumstances

VARIABLES
  backend, circumstances,     \* fixed
  status,      \* of the device at each path: to "come", "present" or "gone"
  attached,    \* history: present since the client's enumeration began
  pc,          \* per client: the step it is at
  list,        \* per client: the paths in the list it has
  path,        \* per client: the path it opens, or has open
  held         \* per client: what its hid_device, or a call of it, holds

fixed  == <<backend, circumstances>>
bus     == <<status, attached>>
client  == <<pc, list, path, held>>

Present == {p \in Paths : status[p] = "present"}

AccessInit ==
  /\ backend \in Backends /\ circumstances \in CircumstanceSets
  /\ status = [p \in Paths |-> "come"]
  /\ attached = [c \in Clients |-> {}]
  /\ pc = [c \in Clients |-> "idle"]
  /\ list = [c \in Clients |-> {}]
  /\ path = [c \in Clients |-> None]
  /\ held = [c \in Clients |-> {}]

-----------------------------------------------------------------------------
(* Devices come and go.                                                    *)

Plug(p) ==
  /\ status[p] = "come"
  /\ status' = [status EXCEPT ![p] = "present"]
  /\ UNCHANGED <<fixed, attached, client>>

Unplug(p) ==
  /\ status[p] = "present"
  /\ status' = [status EXCEPT ![p] = "gone"]
  /\ attached' = [c \in Clients |-> attached[c] \ {p}]
  /\ UNCHANGED <<fixed, client>>

-----------------------------------------------------------------------------
(* Steps of a client.                                                      *)

\* Outside HIDAPI.
Resting(c) == pc[c] \in {"idle", "open"}

\* A call begins while no other thread is inside, or in any case.
MayCall(c) ==
  "concurrent_calls" \in circumstances \/ \A d \in Clients \ {c} : Resting(d)

Goto(c, from, to) == pc[c] = from /\ pc' = [pc EXCEPT ![c] = to]

Holds(c, things) == held' = [held EXCEPT ![c] = things]

BeginEnumeration(c) ==
  /\ MayCall(c) /\ list[c] = {}
  /\ Goto(c, "idle", "listing")
  /\ attached' = [attached EXCEPT ![c] = Present]
  /\ UNCHANGED <<fixed, status, list, path, held>>

\* hid_free_enumeration()
FreeEnumeration(c) ==
  /\ MayCall(c) /\ Goto(c, "idle", "idle")
  /\ list' = [list EXCEPT ![c] = {}]
  /\ UNCHANGED <<fixed, bus, path, held>>

\* A client that has no device, or hid_open(), opens a path of its list; the
\* backend allocates the structure.
BeginOpen(c, structure) ==
  /\ MayCall(c) /\ held[c] = {}
  /\ Goto(c, "idle", "opening")
  /\ \E p \in list[c] : path' = [path EXCEPT ![c] = p]
  /\ Holds(c, structure)
  /\ UNCHANGED <<fixed, bus, list>>

\* hid_open_path() returns NULL, or hid_close() returns; the things given are
\* left behind.
Leave(c, from, leaks) ==
  /\ Goto(c, from, "idle")
  /\ path' = [path EXCEPT ![c] = IF leaks = {} THEN None ELSE @]
  /\ Holds(c, leaks)
  /\ UNCHANGED <<fixed, bus, list>>

\* A step inside a call, after which the client holds the things given.
Step(c, from, to, things) ==
  /\ Goto(c, from, to)
  /\ Holds(c, things)
  /\ UNCHANGED <<fixed, bus, list, path>>
=============================================================================
