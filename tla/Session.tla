------------------------------- MODULE Session -----------------------------
(***************************************************************************)
(* The calls of libtouchmouse around the event processing: enumerating the *)
(* mice, opening one, setting its mode and closing it, as operators that   *)
(* the programs of module Clients are made of.                             *)
(*                                                                         *)
(* HIDAPI and the mouse are external.  A HID call may fail at any time,    *)
(* and fails for certain when the mouse is gone; a mode that was written   *)
(* may have reached the mouse although the call reports a failure.         *)
(***************************************************************************)
EXTENDS Naturals, Sequences, FiniteSets

CONSTANT MaxInterfaces      \* bound: HID interfaces hid_enumerate() finds

ASSUME SessionAssumption == MaxInterfaces \in Nat

VARIABLES
  interfaces,  \* what hid_enumerate() finds: "touch" or "other" interfaces
  plugged,     \* the opened mouse is connected
  mode,        \* byte 4 of its feature report 0x22
  settings,    \* the other bytes of it: "own" unless they were overwritten
  hid_list,    \* the list hid_enumerate() returned
  infos,       \* the device infos: the list elements they point to
  device,      \* the handle of the client
  opened,      \* the list element whose path was opened, 0 for none
  data,        \* what those bytes are in the buffer of set_device_mode()
  failed       \* history: a HID call has failed

mouse   == <<interfaces, plugged, mode, settings>>
lists   == <<hid_list, infos>>
handle  == <<device, opened>>
session == <<mouse, lists, handle, data, failed>>

Modes == {"default", "raw"}

SessionInit ==
  /\ interfaces \in UNION {[1 .. n -> {"touch", "other"}] :
                             n \in 0 .. MaxInterfaces}
  /\ plugged = TRUE /\ mode = "default" /\ settings = "own"
  /\ hid_list = "none" /\ infos = <<>>
  /\ device = "none" /\ opened = 0 /\ data = "zeros"
  /\ failed = FALSE

Unplug ==
  /\ plugged /\ device = "open"
  /\ plugged' = FALSE
  /\ UNCHANGED <<interfaces, mode, settings, lists, handle, data, failed>>

-----------------------------------------------------------------------------
(* touchmouse_enumerate_devices(), touchmouse_free_enumeration()           *)

\* Mutant of TouchMice: every info points to the first interface.
FirstInterface ==
  [i \in 1 .. Cardinality({j \in DOMAIN interfaces : interfaces[j] = "touch"})
     |-> 1]

\* The loop over the list: the interfaces among its first n that the library
\* takes for a Touch Mouse, each appended behind those before.
MiceAmong[n \in 0 .. Len(interfaces)] ==
  IF n = 0 THEN <<>>
  ELSE IF interfaces[n] = "touch" THEN Append(MiceAmong[n - 1], n)
  ELSE MiceAmong[n - 1]

TouchMice == MiceAmong[Len(interfaces)]

\* Mutant of EnumerateDevices: a list without a mouse is not freed.
EnumerateKeepsList ==
  /\ infos' = TouchMice
  /\ hid_list' = "allocated"
  /\ UNCHANGED <<mouse, handle, data, failed>>

\* Every info shares the whole list; without an info it is freed at once.
EnumerateDevices ==
  /\ infos' = TouchMice
  /\ hid_list' = IF TouchMice = <<>> THEN "freed" ELSE "allocated"
  /\ UNCHANGED <<mouse, handle, data, failed>>

FreeEnumeration ==
  /\ infos' = <<>>
  /\ hid_list' = IF infos # <<>> THEN "freed" ELSE hid_list
  /\ UNCHANGED <<mouse, handle, data, failed>>

-----------------------------------------------------------------------------
(* touchmouse_open(), touchmouse_close()                                   *)

Fails == failed' = TRUE

Open(n) ==
  /\ \/ device' = "open" /\ opened' = infos[n] /\ UNCHANGED failed
     \/ Fails /\ UNCHANGED handle
  /\ UNCHANGED <<mouse, lists, data>>

CloseDevice ==
  /\ device' = "closed"
  /\ UNCHANGED <<mouse, lists, opened, data, failed>>

-----------------------------------------------------------------------------
(* touchmouse_set_device_mode(): feature report 0x22 is read into a buffer  *)
(* of zeros, byte 4 of the buffer is set, and the buffer is written back.  *)

\* Mutant of ReadMode: whatever arrived is good enough.
ReadModeAnything ==
  /\ plugged
  /\ data' \in {settings, "part"}
  /\ UNCHANGED <<mouse, lists, handle, failed>>

\* All 27 bytes have arrived.
ReadMode ==
  /\ plugged
  /\ data' = settings
  /\ UNCHANGED <<mouse, lists, handle, failed>>

\* Nothing or a part of them has, which is a failure.
ReadModeFails ==
  /\ Fails
  /\ data' \in (IF plugged THEN {"zeros", "part"} ELSE {"zeros"})
  /\ UNCHANGED <<mouse, lists, handle>>

WriteMode(m) ==
  /\ plugged
  /\ mode' = m /\ settings' = data
  /\ UNCHANGED <<interfaces, plugged, lists, handle, data, failed>>

WriteModeFails(m) ==
  /\ Fails
  /\ \/ plugged /\ mode' = m /\ settings' = data
     \/ UNCHANGED <<mode, settings>>
  /\ UNCHANGED <<interfaces, plugged, lists, handle, data>>
=============================================================================
