-------------------------- MODULE HidDevicesProofs -------------------------
(* Theorems about opening and closing devices, for any number of client    *)
(* threads and devices, every backend and every set of circumstances.      *)
EXTENDS HidDevices, TLAPS

-----------------------------------------------------------------------------
(* The inductive invariant.                                                *)

Alternates == "alternate_settings" \in circumstances

LinuxDevice == {"device", "handle", "claim", "thread"}

\* What a client of the Linux backend holds, by the step it is at: the visit of
\* a second setting adds a lost handle, and ends in a leak.
LinuxHeld(c) ==
  /\ pc[c] \in {"idle", "listing"} => held[c] = {} \/ Alternates
  /\ pc[c] = "opening" => held[c] = {"device"}
  /\ pc[c] = "search" =>
       \/ held[c] = {"device"} /\ ~good_open[c]
       \/ held[c] = LinuxDevice /\ good_open[c]
          /\ (settings[c] = 0 \/ Alternates)
       \/ Alternates /\ ~good_open[c] /\ settings[c] = 0
  /\ pc[c] \in {"detach", "claim"} =>
       \/ held[c] = {"device", "handle"}
       \/ held[c] = LinuxDevice \cup {"lost_handle"} /\ Alternates
  /\ pc[c] = "start" => held[c] = {"device", "handle", "claim"}
  /\ pc[c] \in {"detach", "claim", "start"} => good_open[c] /\ settings[c] > 0
  /\ pc[c] = "open" => held[c] = LinuxDevice
  /\ pc[c] = "release" => held[c] = {"device", "handle", "claim"}
  /\ pc[c] = "close" => held[c] = {"device", "handle"}
  /\ pc[c] \in {"search", "detach", "claim", "start"} /\ ~Alternates =>
       settings[c] \in 0 .. 1
  /\ pc[c] \in {"idle", "listing", "opening", "search", "detach", "claim",
                "start", "open", "release", "close"}

MacDevice == {"device", "linked", "handle", "thread"}

\* The same for Mac; what is left of a handle belongs to a device that is gone.
MacHeld(c) ==
  /\ pc[c] \in {"idle", "listing"} => held[c] = {}
  /\ pc[c] = "opening" => held[c] = {"device", "linked"}
  /\ pc[c] = "register" => held[c] = {"device", "linked", "handle"}
  /\ pc[c] \in {"open", "join"} => held[c] = MacDevice
  /\ pc[c] = "close" => held[c] = {"device", "linked", "handle"}
  /\ pc[c] = "free" =>
       \/ held[c] = {"device", "linked"}
       \/ held[c] = {"device", "linked", "handle"} /\ disconnected[c]
  /\ pc[c] \notin {"idle", "listing"} =>
       path[c] \in Paths /\ (disconnected[c] => status[path[c]] = "gone")
  /\ pc[c] \in {"idle", "listing", "opening", "register", "open", "join",
                "close", "free"}

\* The same for Windows.
WindowsHeld(c) ==
  /\ pc[c] \in {"idle", "listing", "scan", "scan_shared"} => held[c] = {}
  /\ pc[c] = "record" => \E h \in Handles : held[c] = {h}
  /\ pc[c] \in {"scan_shared", "record"} <=> scanned[c] # None
  /\ pc[c] \in {"opening", "open_shared"} => held[c] = {"device"}
  /\ pc[c] \in {"caps", "open"} => \E h \in Handles : held[c] = {"device", h}
  /\ pc[c] \in {"idle", "listing", "scan", "scan_shared", "record", "opening",
                "open_shared", "caps", "open"}

HeldByStep ==
  /\ backend = "linux" => \A c \in Clients : LinuxHeld(c)
  /\ backend = "mac" =>
       /\ \A c \in Clients : MacHeld(c)
       /\ \A p \in unreported : status[p] = "gone"
  /\ backend = "windows" => \A c \in Clients : WindowsHeld(c)

\* libusb lets one client at a time have the claim of an interface.
ClaimedOnce ==
  backend = "linux" =>
    \A c, d \in Clients :
      "claim" \in held[c] \cap held[d] /\ path[c] = path[d] => c = d

\* Without concurrent calls one client at most is inside HIDAPI.
TakeTurns ==
  "concurrent_calls" \notin circumstances =>
    \A c, d \in Clients : c = d \/ Resting(c) \/ Resting(d)

\* The manager tells the removal callback of every device that was opened,
\* until another client unregisters it.
Watched ==
  backend = "mac" /\ "concurrent_calls" \notin circumstances =>
    \A c \in Clients :
      /\ pc[c] = "open" /\ ~disturbed[c] => watching
      /\ pc[c] = "register" /\ status[path[c]] = "gone" =>
           path[c] \in unreported

\* An enumeration of Windows has listed each device that was attached all the
\* time, has it in hand or before it, or has found it open.
Found ==
  /\ \A c \in Clients : attached[c] \subseteq Present
  /\ backend = "windows" /\ "concurrent_calls" \notin circumstances =>
       \A c \in Clients :
         pc[c] \in {"scan", "scan_shared", "record"} =>
           attached[c] \subseteq list[c] \cup todo[c] \cup {scanned[c]}
                               \cup {path[d] : d \in Clients}

\* The paths a client of the Windows backend has met.
Met(c) == list[c] \cup todo[c] \cup ({scanned[c], path[c]} \ {None})

\* With one thread at a time and no other program, a second attempt of
\* open_device() fails as the first one did, so that no handle is ever shared:
\* either the device is gone, or another client has it open for itself.
ExclusiveAlone ==
  /\ elsewhere = {}
  /\ \A c \in Clients :
       /\ "shared" \notin held[c]
       /\ pc[c] = "scan_shared" => ~MayOpenShared(scanned[c])
       /\ pc[c] = "open_shared" => ~MayOpenShared(path[c])
       /\ \A p \in Met(c) : p \in Paths /\ status[p] # "come"
  /\ \A c, d \in Clients : \A p \in Paths \cup {None} :
       On(c, p) /\ On(d, p) /\ "exclusive" \in held[c] \cap held[d] => c = d

OneByOne ==
  backend = "windows"
  /\ circumstances \cap {"shared_elsewhere", "concurrent_calls"} = {}

IInv ==
  /\ TypeOK /\ HeldByStep /\ ClaimedOnce
  /\ TakeTurns /\ Watched /\ RemovalMarked /\ Found
  /\ OneByOne => ExclusiveAlone

-----------------------------------------------------------------------------
(* Linux.                                                                  *)

\* The count of settings left never falls below 0: only a visit that found one
\* counts down.
LEMMA LinuxTypeOK ==
  ASSUME TypeOK, NEW c \in Clients, LinuxStep(c),
         UNCHANGED <<macVars, windowsVars>>,
         \A d \in Clients : LinuxHeld(d)
  PROVE  TypeOK'
<1> USE DEF TypeOK, Goto, Holds, Step, Leave, BeginOpen, fixed, bus,
            client, linuxVars, search, macVars, marks, windowsVars, Present
<1>1. CASE LinuxEnumerate(c)
  BY <1>1 DEF LinuxEnumerate
<1>2. CASE LinuxBeginOpen(c)
  BY <1>2 DEF LinuxBeginOpen
<1>3. CASE LinuxSearch(c)
  BY <1>3 DEF LinuxSearch, Remaining, GoodOpen
<1>4. CASE LinuxOpenHandle(c)
  BY <1>4 DEF LinuxOpenHandle, GoodOpen
<1>5. CASE LinuxOpenHandleFails(c)
  BY <1>5 DEF LinuxOpenHandleFails, Remaining
<1>6. CASE LinuxDetach(c)
  BY <1>6 DEF LinuxDetach
<1>7. CASE LinuxDetachFails(c)
  BY <1>7 DEF LinuxDetachFails, GiveUp, Remaining, GoodOpen
<1>8. CASE LinuxClaim(c)
  BY <1>8 DEF LinuxClaim
<1>9. CASE LinuxClaimFails(c)
  BY <1>9 DEF LinuxClaimFails, GiveUp, Remaining, GoodOpen
<1>10. CASE LinuxStartThread(c)
  BY <1>10 DEF LinuxStartThread, Remaining, LinuxHeld
<1>11. CASE LinuxOpenReturns(c)
  BY <1>11 DEF LinuxOpenReturns
<1>12. CASE LinuxCloseThread(c)
  BY <1>12 DEF LinuxCloseThread
<1>13. CASE LinuxCloseRelease(c)
  BY <1>13 DEF LinuxCloseRelease
<1>14. CASE LinuxCloseHandle(c)
  BY <1>14 DEF LinuxCloseHandle
<1> QED
  BY <1>1, <1>2, <1>3, <1>4, <1>5, <1>6, <1>7, <1>8, <1>9, <1>10, <1>11,
     <1>12, <1>13, <1>14 DEF LinuxStep

\* Each step leads to what the next step expects to be held.
LEMMA LinuxHeldKept ==
  ASSUME backend = "linux", TypeOK, NEW c \in Clients, LinuxStep(c),
         UNCHANGED <<macVars, windowsVars>>,
         \A d \in Clients : LinuxHeld(d)
  PROVE  \A d \in Clients : LinuxHeld(d)'
<1> USE DEF TypeOK, Goto, Holds, Step, Leave, BeginOpen, fixed, bus,
            client, linuxVars, search, macVars, marks, windowsVars,
            Present, LinuxHeld, Alternates, LinuxDevice
<1>1. CASE LinuxEnumerate(c)
  BY <1>1 DEF LinuxEnumerate
<1>2. CASE LinuxBeginOpen(c)
  BY <1>2 DEF LinuxBeginOpen
<1>3. CASE LinuxSearch(c)
  BY <1>3 DEF LinuxSearch, Remaining, GoodOpen
<1>4. CASE LinuxOpenHandle(c)
  BY <1>4 DEF LinuxOpenHandle, GoodOpen
<1>5. CASE LinuxOpenHandleFails(c)
  BY <1>5 DEF LinuxOpenHandleFails, Remaining
<1>6. CASE LinuxDetach(c)
  BY <1>6 DEF LinuxDetach
<1>7. CASE LinuxDetachFails(c)
  BY <1>7 DEF LinuxDetachFails, GiveUp, Remaining, GoodOpen
<1>8. CASE LinuxClaim(c)
  BY <1>8 DEF LinuxClaim, Claimed
<1>9. CASE LinuxClaimFails(c)
  BY <1>9 DEF LinuxClaimFails, GiveUp, Remaining, GoodOpen
<1>10. CASE LinuxStartThread(c)
  BY <1>10 DEF LinuxStartThread, Remaining, LinuxHeld
<1>11. CASE LinuxOpenReturns(c)
  BY <1>11 DEF LinuxOpenReturns
<1>12. CASE LinuxCloseThread(c)
  BY <1>12 DEF LinuxCloseThread
<1>13. CASE LinuxCloseRelease(c)
  BY <1>13 DEF LinuxCloseRelease
<1>14. CASE LinuxCloseHandle(c)
  BY <1>14 DEF LinuxCloseHandle
<1> QED
  BY <1>1, <1>2, <1>3, <1>4, <1>5, <1>6, <1>7, <1>8, <1>9, <1>10, <1>11,
     <1>12, <1>13, <1>14 DEF LinuxStep

\* A claim is refused while another client has it, and given up before the path
\* is.
LEMMA ClaimedOnceKept ==
  ASSUME ClaimedOnce, TypeOK, NEW c \in Clients, LinuxStep(c),
         UNCHANGED <<macVars, windowsVars>>,
         \A d \in Clients : LinuxHeld(d)
  PROVE  ClaimedOnce'
<1> USE DEF TypeOK, Goto, Holds, Step, Leave, BeginOpen, fixed, bus,
            client, linuxVars, search, macVars, marks, windowsVars,
            Present, ClaimedOnce, LinuxHeld, LinuxDevice
<1>1. CASE LinuxEnumerate(c)
  BY <1>1 DEF LinuxEnumerate
<1>2. CASE LinuxBeginOpen(c)
  BY <1>2 DEF LinuxBeginOpen
<1>3. CASE LinuxSearch(c)
  BY <1>3 DEF LinuxSearch, Remaining, GoodOpen
<1>4. CASE LinuxOpenHandle(c)
  BY <1>4 DEF LinuxOpenHandle, GoodOpen
<1>5. CASE LinuxOpenHandleFails(c)
  BY <1>5 DEF LinuxOpenHandleFails, Remaining
<1>6. CASE LinuxDetach(c)
  BY <1>6 DEF LinuxDetach
<1>7. CASE LinuxDetachFails(c)
  BY <1>7 DEF LinuxDetachFails, GiveUp, Remaining, GoodOpen
<1>8. CASE LinuxClaim(c)
  BY <1>8 DEF LinuxClaim, Claimed
<1>9. CASE LinuxClaimFails(c)
  BY <1>9 DEF LinuxClaimFails, GiveUp, Remaining, GoodOpen
<1>10. CASE LinuxStartThread(c)
  BY <1>10 DEF LinuxStartThread, Remaining, LinuxHeld
<1>11. CASE LinuxOpenReturns(c)
  BY <1>11 DEF LinuxOpenReturns
<1>12. CASE LinuxCloseThread(c)
  BY <1>12 DEF LinuxCloseThread
<1>13. CASE LinuxCloseRelease(c)
  BY <1>13 DEF LinuxCloseRelease
<1>14. CASE LinuxCloseHandle(c)
  BY <1>14 DEF LinuxCloseHandle
<1> QED
  BY <1>1, <1>2, <1>3, <1>4, <1>5, <1>6, <1>7, <1>8, <1>9, <1>10, <1>11,
     <1>12, <1>13, <1>14 DEF LinuxStep

-----------------------------------------------------------------------------
(* Mac.                                                                    *)

\* The history and the marks stay Boolean.
LEMMA MacTypeOK ==
  ASSUME TypeOK, NEW c \in Clients, MacStep(c),
         UNCHANGED <<linuxVars, windowsVars>>,
         \A d \in Clients : MacHeld(d)
  PROVE  TypeOK'
<1> USE DEF TypeOK, Goto, Holds, Step, Leave, BeginOpen, fixed, bus,
            client, linuxVars, search, macVars, marks, windowsVars, Present
<1>1. CASE MacEnumerate(c)
  BY <1>1 DEF MacEnumerate
<1>2. CASE MacBeginOpen(c)
  BY <1>2 DEF MacBeginOpen
<1>3. CASE MacOpenHandle(c)
  BY <1>3 DEF MacOpenHandle
<1>4. CASE MacOpenHandleFails(c)
  BY <1>4 DEF MacOpenHandleFails
<1>5. CASE MacRegister(c)
  BY <1>5 DEF MacRegister
<1>6. CASE MacCloseUnregister(c)
  <2>1. /\ watching' \in BOOLEAN
        /\ disturbed' \in [Clients -> BOOLEAN]
    <3>1. CASE disconnected[c]
      BY <1>6, <3>1 DEF MacCloseUnregister
    <3>2. CASE ~disconnected[c]
      BY <1>6, <3>2, Zenon DEF MacCloseUnregister
    <3> QED
      BY <3>1, <3>2
  <2> QED
    BY <1>6, <2>1 DEF MacCloseUnregister
<1>7. CASE MacCloseThread(c)
  BY <1>7 DEF MacCloseThread
<1>8. CASE MacCloseHandle(c)
  BY <1>8 DEF MacCloseHandle
<1>9. CASE MacCloseFree(c)
  BY <1>9 DEF MacCloseFree
<1> QED
  BY <1>1, <1>2, <1>3, <1>4, <1>5, <1>6, <1>7, <1>8, <1>9 DEF MacStep

\* A handle is left to its device only when the device has gone.
LEMMA MacHeldKept ==
  ASSUME backend = "mac", TypeOK, NEW c \in Clients, MacStep(c),
         UNCHANGED <<linuxVars, windowsVars>>,
         \A d \in Clients : MacHeld(d)
  PROVE  \A d \in Clients : MacHeld(d)'
<1> USE DEF TypeOK, Goto, Holds, Step, Leave, BeginOpen, fixed, bus,
            client, linuxVars, search, macVars, marks, windowsVars,
            Present, MacHeld, MacDevice
<1>1. CASE MacEnumerate(c)
  BY <1>1 DEF MacEnumerate
<1>2. CASE MacBeginOpen(c)
  BY <1>2 DEF MacBeginOpen
<1>3. CASE MacOpenHandle(c)
  BY <1>3 DEF MacOpenHandle
<1>4. CASE MacOpenHandleFails(c)
  BY <1>4 DEF MacOpenHandleFails
<1>5. CASE MacRegister(c)
  BY <1>5 DEF MacRegister
<1>6. CASE MacCloseUnregister(c)
  BY <1>6 DEF MacCloseUnregister
<1>7. CASE MacCloseThread(c)
  BY <1>7 DEF MacCloseThread
<1>8. CASE MacCloseHandle(c)
  BY <1>8 DEF MacCloseHandle
<1>9. CASE MacCloseFree(c)
  BY <1>9 DEF MacCloseFree
<1> QED
  BY <1>1, <1>2, <1>3, <1>4, <1>5, <1>6, <1>7, <1>8, <1>9 DEF MacStep

\* The callback is registered with the device and told of it once it is open;
\* who unregisters it disturbs all others.
LEMMA WatchedKept ==
  ASSUME backend = "mac", "concurrent_calls" \notin circumstances, Watched,
         RemovalMarked, TypeOK, NEW c \in Clients, MacStep(c),
         UNCHANGED <<linuxVars, windowsVars>>,
         \A d \in Clients : MacHeld(d)
  PROVE  Watched' /\ RemovalMarked'
<1> USE DEF TypeOK, Goto, Holds, Step, Leave, BeginOpen, fixed, bus,
            client, linuxVars, search, macVars, marks, windowsVars,
            Present, Watched, RemovalMarked, MacHeld, MacDevice
<1>1. CASE MacEnumerate(c)
  BY <1>1 DEF MacEnumerate
<1>2. CASE MacBeginOpen(c)
  BY <1>2 DEF MacBeginOpen
<1>3. CASE MacOpenHandle(c)
  BY <1>3 DEF MacOpenHandle
<1>4. CASE MacOpenHandleFails(c)
  BY <1>4 DEF MacOpenHandleFails
<1>5. CASE MacRegister(c)
  BY <1>5 DEF MacRegister
<1>6. CASE MacCloseUnregister(c)
  BY <1>6 DEF MacCloseUnregister
<1>7. CASE MacCloseThread(c)
  BY <1>7 DEF MacCloseThread
<1>8. CASE MacCloseHandle(c)
  BY <1>8 DEF MacCloseHandle
<1>9. CASE MacCloseFree(c)
  BY <1>9 DEF MacCloseFree
<1> QED
  BY <1>1, <1>2, <1>3, <1>4, <1>5, <1>6, <1>7, <1>8, <1>9 DEF MacStep

\* The removal callback marks structures of the device that has gone.
LEMMA RemovalKept ==
  ASSUME TypeOK, backend = "mac", \A d \in Clients : MacHeld(d),
         \A q \in unreported : status[q] = "gone",
         NEW p \in Paths, MacRemoval(p), UNCHANGED <<linuxVars, windowsVars>>
  PROVE  /\ TypeOK'
         /\ \A d \in Clients : MacHeld(d)'
         /\ \A q \in unreported' : status'[q] = "gone"
<1> USE DEF MacRemoval, fixed, bus, client, linuxVars, windowsVars
<1>1. disconnected' \in [Clients -> BOOLEAN]
  BY Zenon
<1>2. TypeOK'
  BY <1>1 DEF TypeOK
<1>3. \A d \in Clients :
        disconnected'[d] => disconnected[d] \/ path[d] = p
  BY DEF Marked, OfDevice, TypeOK
<1>4. \A d \in Clients : disconnected[d] => disconnected'[d]
  BY DEF TypeOK
<1>5. \A d \in Clients : MacHeld(d)'
  BY <1>3, <1>4 DEF MacHeld
<1> QED
  BY <1>2, <1>5

-----------------------------------------------------------------------------
(* Windows.                                                                *)

\* An enumeration has a path in hand whenever it lists one.
LEMMA WindowsTypeOK ==
  ASSUME TypeOK, NEW c \in Clients, WindowsStep(c),
         UNCHANGED <<linuxVars, macVars>>,
         \A d \in Clients : WindowsHeld(d)
  PROVE  TypeOK'
<1> USE DEF TypeOK, Goto, Holds, Step, Leave, BeginOpen, fixed, bus,
            client, linuxVars, search, macVars, marks, windowsVars, Present
<1>1. CASE WindowsEnumerate(c)
  BY <1>1 DEF WindowsEnumerate
<1>2. CASE ScanExclusive(c)
  BY <1>2 DEF ScanExclusive, CreateExclusive
<1>3. CASE ScanShared(c)
  BY <1>3 DEF ScanShared
<1>4. CASE ScanRecord(c)
  BY <1>4 DEF ScanRecord, Handles, WindowsHeld
<1>5. CASE ScanEnds(c)
  BY <1>5 DEF ScanEnds
<1>6. CASE WindowsBeginOpen(c)
  BY <1>6 DEF WindowsBeginOpen
<1>7. CASE WindowsOpenExclusive(c)
  BY <1>7 DEF WindowsOpenExclusive, CreateExclusive
<1>8. CASE WindowsOpenShared(c)
  BY <1>8 DEF WindowsOpenShared
<1>9. CASE WindowsGetCaps(c)
  BY <1>9 DEF WindowsGetCaps, Handles
<1>10. CASE WindowsClose(c)
  BY <1>10 DEF WindowsClose, Handles
<1> QED
  BY <1>1, <1>2, <1>3, <1>4, <1>5, <1>6, <1>7, <1>8, <1>9, <1>10 DEF
     WindowsStep

\* A call holds at most one handle, and only between its attempts and its end.
LEMMA WindowsHeldKept ==
  ASSUME backend = "windows", TypeOK, NEW c \in Clients, WindowsStep(c),
         UNCHANGED <<linuxVars, macVars>>,
         \A d \in Clients : WindowsHeld(d)
  PROVE  \A d \in Clients : WindowsHeld(d)'
<1> USE DEF TypeOK, Goto, Holds, Step, Leave, BeginOpen, fixed, bus,
            client, linuxVars, search, macVars, marks, windowsVars,
            Present, WindowsHeld, Handles
<1>1. CASE WindowsEnumerate(c)
  BY <1>1 DEF WindowsEnumerate
<1>2. CASE ScanExclusive(c)
  <2>1. PICK p \in todo[c] :
          /\ CreateExclusive(c, p, "scan", "record", "scan_shared")
          /\ scanned' = [scanned EXCEPT ![c] = p]
    BY <1>2 DEF ScanExclusive
  <2>2. CASE MayOpenExclusive(p)
    BY <2>1, <2>2, DeviceAccessAssumption DEF CreateExclusive
  <2>3. CASE ~MayOpenExclusive(p)
    BY <2>1, <2>3, DeviceAccessAssumption DEF CreateExclusive
  <2> QED
    BY <2>2, <2>3
<1>3. CASE ScanShared(c)
  BY <1>3 DEF ScanShared
<1>4. CASE ScanRecord(c)
  BY <1>4 DEF ScanRecord, Handles, WindowsHeld
<1>5. CASE ScanEnds(c)
  BY <1>5 DEF ScanEnds
<1>6. CASE WindowsBeginOpen(c)
  BY <1>6 DEF WindowsBeginOpen
<1>7. CASE WindowsOpenExclusive(c)
  BY <1>7 DEF WindowsOpenExclusive, CreateExclusive
<1>8. CASE WindowsOpenShared(c)
  BY <1>8 DEF WindowsOpenShared
<1>9. CASE WindowsGetCaps(c)
  <2>1. PICK h \in Handles : held[c] = {"device", h}
    BY <1>9 DEF WindowsGetCaps
  <2>2. CASE Step(c, "caps", "open", held[c])
    BY <1>9, <2>1, <2>2 DEF WindowsGetCaps
  <2>3. CASE Leave(c, "caps", held[c] \ ({"device"} \cup Handles))
    BY <1>9, <2>1, <2>3 DEF WindowsGetCaps
  <2> QED
    BY <1>9, <2>2, <2>3 DEF WindowsGetCaps
<1>10. CASE WindowsClose(c)
  BY <1>10 DEF WindowsClose, Handles
<1> QED
  BY <1>1, <1>2, <1>3, <1>4, <1>5, <1>6, <1>7, <1>8, <1>9, <1>10 DEF
     WindowsStep

\* An enumeration that opens a device finds no handle on it; one that cannot
\* leaves nothing for its second attempt to share.
LEMMA ScanExclusiveKept ==
  ASSUME TypeOK, OneByOne, ExclusiveAlone,
         \A d, e \in Clients : d = e \/ Resting(d) \/ Resting(e),
         \A d \in Clients : WindowsHeld(d), NEW c \in Clients, ScanExclusive(c)
  PROVE  ExclusiveAlone'
<1>1. PICK p \in todo[c] :
        /\ CreateExclusive(c, p, "scan", "record", "scan_shared")
        /\ todo' = [todo EXCEPT ![c] = @ \ {p}]
        /\ scanned' = [scanned EXCEPT ![c] = p]
        /\ elsewhere' = elsewhere
  BY DEF ScanExclusive
<1>2. pc[c] = "scan" /\ held[c] = {}
  BY <1>1 DEF CreateExclusive, Step, Goto, WindowsHeld
<1>3. p \in Paths /\ p # None /\ elsewhere = {}
  BY <1>1, DeviceAccessAssumption DEF ExclusiveAlone, Met
<1>4. \A d \in Clients \ {c} :
        Resting(d) /\ pc[d] \notin {"scan_shared", "open_shared", "record"}
  BY <1>2 DEF Resting
<1>5. status' = status /\ list' = list /\ path' = path
  BY <1>1 DEF CreateExclusive, Step, bus
<1>6. \A d \in Clients \ {c} :
        pc'[d] = pc[d] /\ held'[d] = held[d] /\ scanned'[d] = scanned[d]
  BY <1>1 DEF CreateExclusive, Step, Goto, Holds, TypeOK
<1>7. scanned'[c] = p
  BY <1>1 DEF TypeOK
<1>8. /\ \A q : On(c, q)' <=> q = p
      /\ \A d \in Clients \ {c} : \A q : On(d, q)' <=> On(d, q)
  BY <1>3, <1>5, <1>6, <1>7 DEF On
<1>9. MayOpenExclusive(p) => held'[c] = {"exclusive"} /\ pc'[c] = "record"
  BY <1>1, <1>2 DEF CreateExclusive, Step, Goto, Holds, TypeOK
<1>10. ~MayOpenExclusive(p) => held'[c] = {} /\ pc'[c] = "scan_shared"
  BY <1>1, <1>2 DEF CreateExclusive, Step, Goto, Holds, TypeOK
<1>11. \A d \in Clients : \A q \in Met(d)' : q \in Paths /\ status'[q] # "come"
  BY <1>1, <1>5, <1>3 DEF Met, ExclusiveAlone, TypeOK
<1>12. \A d \in Clients : "shared" \notin held'[d]
  BY <1>6, <1>9, <1>10 DEF ExclusiveAlone
<1>13. \A d, e \in Clients : \A q \in Paths \cup {None} :
         On(d, q)' /\ On(e, q)' /\ "exclusive" \in held'[d] \cap held'[e]
         => d = e
  <2>1. CASE MayOpenExclusive(p)
    <3>1. \A d \in Clients : On(d, p) => "exclusive" \notin held[d]
      BY <2>1 DEF MayOpenExclusive, OpenAs, Handles
    <3> QED
      BY <3>1, <1>6, <1>8 DEF ExclusiveAlone
  <2>2. CASE ~MayOpenExclusive(p)
    BY <2>2, <1>6, <1>8, <1>10 DEF ExclusiveAlone
  <2> QED
    BY <2>1, <2>2
<1>14. ~MayOpenExclusive(p) => ~MayOpenShared(p)'
  <2>1. SUFFICES ASSUME OpenAs(p) # {}, ~MayOpenExclusive(p)
                 PROVE  "exclusive" \in OpenAs(p)'
    BY <1>3, <1>5 DEF MayOpenExclusive, MayOpenShared, Present
  <2>2. PICK d \in Clients : On(d, p) /\ "exclusive" \in held[d]
    BY <2>1 DEF OpenAs, Handles, ExclusiveAlone
  <2>3. d # c /\ On(d, p)' /\ "exclusive" \in held'[d]
    BY <2>2, <1>2, <1>6, <1>8
  <2> QED
    BY <2>3 DEF OpenAs, Handles
<1>15. \A d \in Clients :
         /\ pc'[d] = "scan_shared" => ~MayOpenShared(scanned[d])'
         /\ pc'[d] = "open_shared" => ~MayOpenShared(path[d])'
  BY <1>3, <1>4, <1>6, <1>7, <1>9, <1>10, <1>14
     DEF ExclusiveAlone, MayOpenShared
<1> QED
  BY <1>1, <1>3, <1>11, <1>12, <1>13, <1>15 DEF ExclusiveAlone

\* A step of Windows by one client leaves the others, and what is attached, as
\* they are; a client outside a call enters one only when it may.
LEMMA WindowsMoves ==
  ASSUME TypeOK, NEW c \in Clients, WindowsStep(c)
  PROVE  /\ MayCall(c) \/ ~Resting(c)
         /\ UNCHANGED <<status, elsewhere>>
         /\ \A d \in Clients \ {c} :
              /\ pc'[d] = pc[d] /\ held'[d] = held[d] /\ path'[d] = path[d]
              /\ list'[d] = list[d] /\ todo'[d] = todo[d]
              /\ scanned'[d] = scanned[d]
<1> USE DEF Goto, Holds, Step, Leave, BeginOpen, bus, windowsVars, Resting,
            TypeOK
<1>1. CASE WindowsEnumerate(c) \/ WindowsBeginOpen(c) \/ WindowsClose(c)
  BY <1>1 DEF WindowsEnumerate, WindowsBeginOpen, WindowsClose
<1>2. CASE ScanExclusive(c)
  BY <1>2 DEF ScanExclusive, CreateExclusive
<1>3. CASE ScanShared(c) \/ ScanRecord(c) \/ ScanEnds(c)
  BY <1>3 DEF ScanShared, ScanRecord, ScanEnds
<1>4. CASE WindowsOpenExclusive(c)
  BY <1>4 DEF WindowsOpenExclusive, CreateExclusive
<1>5. CASE WindowsOpenShared(c) \/ WindowsGetCaps(c)
  BY <1>5 DEF WindowsOpenShared, WindowsGetCaps
<1> QED
  BY <1>1, <1>2, <1>3, <1>4, <1>5 DEF WindowsStep

\* What the client of a step has to keep while the others rest: that it meets
\* attached devices only, waits for no second attempt, shares nothing, and has
\* no exclusive handle it did not have on the same device.
LEMMA AloneStep ==
  ASSUME ExclusiveAlone, NEW c \in Clients,
         \A d \in Clients \ {c} : Resting(d),
         UNCHANGED <<status, elsewhere>>,
         \A d \in Clients \ {c} :
           /\ pc'[d] = pc[d] /\ held'[d] = held[d] /\ path'[d] = path[d]
           /\ list'[d] = list[d] /\ todo'[d] = todo[d]
           /\ scanned'[d] = scanned[d],
         \A p \in Met(c)' : p \in Paths /\ status[p] # "come",
         pc'[c] \notin {"scan_shared", "open_shared"},
         "shared" \notin held'[c],
         "exclusive" \in held'[c] =>
           /\ "exclusive" \in held[c]
           /\ \A p \in Paths \cup {None} : On(c, p)' => On(c, p)
  PROVE  ExclusiveAlone'
<1>1. \A d \in Clients \ {c} : \A p : On(d, p)' <=> On(d, p)
  BY DEF On
<1>2. \A d \in Clients \ {c} : Met(d)' = Met(d)
  BY DEF Met
<1>3. \A d \in Clients : pc'[d] \notin {"scan_shared", "open_shared"}
  BY DEF Resting
<1>4. \A d \in Clients : "shared" \notin held'[d]
  BY DEF ExclusiveAlone
<1>5. \A d \in Clients : \A p \in Met(d)' : p \in Paths /\ status'[p] # "come"
  BY <1>2 DEF ExclusiveAlone
<1>6. ASSUME NEW d \in Clients, NEW e \in Clients, NEW p \in Paths \cup {None},
             On(d, p)', On(e, p)', "exclusive" \in held'[d] \cap held'[e]
      PROVE  d = e
  <2>1. On(d, p) /\ "exclusive" \in held[d]
    BY <1>1, <1>6
  <2>2. On(e, p) /\ "exclusive" \in held[e]
    BY <1>1, <1>6
  <2> QED
    BY <2>1, <2>2 DEF ExclusiveAlone
<1>7. elsewhere' = {}
  BY DEF ExclusiveAlone
<1> QED
  BY <1>3, <1>4, <1>5, <1>6, <1>7 DEF ExclusiveAlone

\* The first attempt of hid_open_path() is like that of an enumeration.
LEMMA OpenExclusiveKept ==
  ASSUME TypeOK, OneByOne, ExclusiveAlone, NEW c \in Clients,
         \A d \in Clients \ {c} : Resting(d),
         WindowsHeld(c), WindowsOpenExclusive(c)
  PROVE  ExclusiveAlone'
<1>1. /\ CreateExclusive(c, path[c], "opening", "caps", "open_shared")
      /\ UNCHANGED windowsVars
  BY DEF WindowsOpenExclusive
<1>2. pc[c] = "opening" /\ held[c] = {"device"} /\ scanned[c] = None
  BY <1>1 DEF CreateExclusive, Step, Goto, WindowsHeld
<1>3. /\ status' = status /\ list' = list /\ path' = path
      /\ todo' = todo /\ scanned' = scanned /\ elsewhere' = elsewhere
  BY <1>1 DEF CreateExclusive, Step, bus, windowsVars
<1>4. \A d \in Clients : (Met(d)' = Met(d)) /\ \A p : On(d, p)' <=> On(d, p)
  BY <1>3 DEF Met, On
<1>5. \A d \in Clients \ {c} : pc'[d] = pc[d] /\ held'[d] = held[d]
  BY <1>1 DEF CreateExclusive, Step, Goto, Holds, TypeOK
<1>6. On(c, path[c]) /\ \A p : On(c, p) => p = path[c]
  BY <1>2 DEF On
<1>7. CASE MayOpenExclusive(path[c])
  <2>1. held'[c] = {"device", "exclusive"} /\ pc'[c] = "caps"
    BY <1>1, <1>2, <1>7 DEF CreateExclusive, Step, Goto, Holds, TypeOK
  <2>2. \A d \in Clients : On(d, path[c]) => "exclusive" \notin held[d]
    BY <1>7 DEF MayOpenExclusive, OpenAs, Handles
  <2>3. \A d, e \in Clients : \A p \in Paths \cup {None} :
          On(d, p)' /\ On(e, p)' /\ "exclusive" \in held'[d] \cap held'[e]
          => d = e
    BY <2>2, <1>4, <1>5, <1>6 DEF ExclusiveAlone
  <2>4. \A d \in Clients :
          /\ "shared" \notin held'[d]
          /\ pc'[d] \notin {"scan_shared", "open_shared"}
    BY <2>1, <1>5 DEF ExclusiveAlone, Resting
  <2> QED
    BY <1>3, <1>4, <2>3, <2>4 DEF ExclusiveAlone
<1>8. CASE ~MayOpenExclusive(path[c])
  <2>1. held'[c] = {"device"} /\ pc'[c] = "open_shared"
    BY <1>1, <1>2, <1>8 DEF CreateExclusive, Step, Goto, Holds, TypeOK
  <2>2. \A d \in Clients : held'[d] = held[d]
    BY <2>1, <1>2, <1>5
  <2>3. ~MayOpenShared(path[c])'
    BY <2>2, <1>3, <1>4, <1>8
       DEF MayOpenShared, MayOpenExclusive, OpenAs, Handles, Present,
           ExclusiveAlone
  <2>4. \A d \in Clients :
          /\ pc'[d] # "scan_shared"
          /\ pc'[d] = "open_shared" => d = c
    BY <2>1, <1>5 DEF Resting
  <2> QED
    BY <1>3, <1>4, <2>2, <2>3, <2>4 DEF ExclusiveAlone
<1> QED
  BY <1>7, <1>8

\* A first attempt succeeds where there is no handle, and one that fails leaves
\* nothing for the second to share.
LEMMA ExclusiveAloneKept ==
  ASSUME OneByOne, ExclusiveAlone,
         \A d, e \in Clients : d = e \/ Resting(d) \/ Resting(e), TypeOK,
         NEW c \in Clients, WindowsStep(c),
         \A d \in Clients : WindowsHeld(d)
  PROVE  ExclusiveAlone'
<1>1. \A d \in Clients \ {c} : Resting(d)
  BY WindowsMoves DEF MayCall, OneByOne
<1>2. \A p \in Met(c) : p \in Paths /\ p # None /\ status[p] # "come"
  BY DeviceAccessAssumption DEF ExclusiveAlone
<1>3. "shared" \notin held[c]
  BY DEF ExclusiveAlone
<1>4. CASE WindowsEnumerate(c)
  <2>1. /\ pc[c] = "listing" /\ pc'[c] = "scan" /\ held'[c] = held[c]
        /\ UNCHANGED <<list, path, scanned>> /\ todo'[c] = Present
    BY <1>4 DEF WindowsEnumerate, Step, Goto, Holds, TypeOK
  <2>2. \A p \in Met(c)' : p \in Paths /\ status[p] # "come"
    BY <2>1, <1>2 DEF Met, Present
  <2>3. \A p : On(c, p)' => On(c, p)
    BY <2>1 DEF On
  <2> QED
    BY <1>1, <1>3, <2>1, <2>2, <2>3, AloneStep, WindowsMoves
<1>5. CASE ScanExclusive(c)
  BY <1>5, ScanExclusiveKept
<1>6. CASE ScanShared(c)
  <2>1. ~MayOpenShared(scanned[c])
    BY <1>6 DEF ScanShared, Step, Goto, ExclusiveAlone
  <2>2. /\ pc'[c] = "scan" /\ held'[c] = held[c] /\ held[c] = {}
        /\ UNCHANGED <<list, path, todo>> /\ scanned'[c] = None
    BY <1>6, <2>1 DEF ScanShared, Step, Goto, Holds, TypeOK, WindowsHeld
  <2>3. \A p \in Met(c)' : p \in Paths /\ status[p] # "come"
    BY <2>2, <1>2 DEF Met
  <2> QED
    BY <1>1, <1>3, <2>2, <2>3, AloneStep, WindowsMoves
<1>7. CASE ScanRecord(c)
  <2>1. /\ pc[c] = "record" /\ pc'[c] = "scan"
        /\ list'[c] = list[c] \cup {scanned[c]} /\ UNCHANGED <<path, todo>>
        /\ held'[c] = held[c] \ Handles /\ scanned'[c] = None
    BY <1>7 DEF ScanRecord, Goto, Holds, TypeOK
  <2>2. "exclusive" \notin held'[c] /\ "shared" \notin held'[c]
    BY <2>1 DEF Handles
  <2>3. Met(c)' \subseteq Met(c)
    BY <2>1 DEF Met, WindowsHeld
  <2> QED
    BY <1>1, <1>2, <2>1, <2>2, <2>3, AloneStep, WindowsMoves
<1>8. CASE ScanEnds(c)
  <2>1. /\ pc'[c] = "idle" /\ held'[c] = held[c]
        /\ UNCHANGED <<list, path, todo, scanned>>
    BY <1>8 DEF ScanEnds, Step, Goto, Holds, TypeOK, windowsVars
  <2>2. Met(c)' = Met(c) /\ \A p : On(c, p)' => On(c, p)
    BY <2>1 DEF Met, On
  <2> QED
    BY <1>1, <1>2, <1>3, <2>1, <2>2, AloneStep, WindowsMoves
<1>9. CASE WindowsBeginOpen(c)
  <2>1. PICK p \in list[c] : path' = [path EXCEPT ![c] = p]
    BY <1>9 DEF WindowsBeginOpen, BeginOpen
  <2>2. /\ pc'[c] = "opening" /\ held'[c] = {"device"} /\ path'[c] = p
        /\ UNCHANGED <<list, todo, scanned>>
    BY <1>9, <2>1
       DEF WindowsBeginOpen, BeginOpen, Goto, Holds, TypeOK, windowsVars
  <2>3. Met(c)' \subseteq Met(c)
    BY <2>1, <2>2 DEF Met
  <2> QED
    BY <1>1, <1>2, <2>2, <2>3, AloneStep, WindowsMoves
<1>10. CASE WindowsOpenExclusive(c)
  BY <1>1, <1>10, OpenExclusiveKept
<1>11. CASE WindowsOpenShared(c) \/ WindowsGetCaps(c) \/ WindowsClose(c)
  <2>1. /\ UNCHANGED <<list, todo, scanned>>
        /\ pc'[c] \in {"idle", "open"}
        /\ held'[c] \subseteq held[c]
        /\ \/ path'[c] = path[c]
           \/ path'[c] = None /\ "exclusive" \notin held'[c]
    <3>1. CASE WindowsOpenShared(c)
      <4>1. Leave(c, "open_shared", held[c] \ {"device"})
        BY <3>1 DEF WindowsOpenShared, Step, Goto, ExclusiveAlone
      <4>2. held[c] \ {"device"} = {}
        BY <4>1 DEF Leave, Goto, WindowsHeld
      <4> QED
        BY <3>1, <4>1, <4>2
           DEF WindowsOpenShared, Leave, Goto, Holds, TypeOK, windowsVars
    <3>2. CASE Leave(c, pc[c], held[c] \ ({"device"} \cup Handles))
               /\ UNCHANGED windowsVars
      BY <3>2 DEF Leave, Goto, Holds, TypeOK, windowsVars, Handles
    <3>3. CASE Step(c, "caps", "open", held[c]) /\ UNCHANGED windowsVars
      BY <3>3 DEF Step, Goto, Holds, TypeOK, windowsVars
    <3> QED
      BY <1>11, <3>1, <3>2, <3>3
         DEF WindowsGetCaps, WindowsClose, Leave, Goto
  <2>2. Met(c)' \subseteq Met(c)
    BY <2>1 DEF Met
  <2>3. "exclusive" \in held'[c] =>
          "exclusive" \in held[c] /\ \A p : On(c, p)' => On(c, p)
    BY <2>1 DEF On
  <2> QED
    BY <1>1, <1>2, <1>3, <2>1, <2>2, <2>3, AloneStep, WindowsMoves
<1> QED
  BY <1>4, <1>5, <1>6, <1>7, <1>8, <1>9, <1>10, <1>11 DEF WindowsStep

\* An enumeration gives up a device only if another client has it open.
LEMMA FoundKept ==
  ASSUME backend = "windows", "concurrent_calls" \notin circumstances,
         Found, \A d, e \in Clients : d = e \/ Resting(d) \/ Resting(e),
         TypeOK, NEW c \in Clients, WindowsStep(c),
         UNCHANGED <<linuxVars, macVars>>,
         \A d \in Clients : WindowsHeld(d)
  PROVE  Found'
<1> USE DEF TypeOK, Goto, Holds, Step, Leave, BeginOpen, fixed, bus,
            client, linuxVars, search, macVars, marks, windowsVars,
            Present, Found, WindowsHeld, Handles, On, OpenAs,
            MayOpenShared, Resting, MayCall
<1>1. CASE WindowsEnumerate(c)
  BY <1>1 DEF WindowsEnumerate
<1>2. CASE ScanExclusive(c)
  BY <1>2, DeviceAccessAssumption DEF ScanExclusive, CreateExclusive
<1>3. CASE ScanShared(c)
  BY <1>3 DEF ScanShared
<1>4. CASE ScanRecord(c)
  BY <1>4 DEF ScanRecord, Handles, WindowsHeld
<1>5. CASE ScanEnds(c)
  BY <1>5 DEF ScanEnds
<1>6. CASE WindowsBeginOpen(c)
  BY <1>6 DEF WindowsBeginOpen
<1>7. CASE WindowsOpenExclusive(c)
  BY <1>7 DEF WindowsOpenExclusive, CreateExclusive
<1>8. CASE WindowsOpenShared(c)
  BY <1>8 DEF WindowsOpenShared
<1>9. CASE WindowsGetCaps(c)
  BY <1>9 DEF WindowsGetCaps, Handles
<1>10. CASE WindowsClose(c)
  BY <1>10 DEF WindowsClose, Handles
<1> QED
  BY <1>1, <1>2, <1>3, <1>4, <1>5, <1>6, <1>7, <1>8, <1>9, <1>10 DEF
     WindowsStep

-----------------------------------------------------------------------------
(* All steps.                                                              *)

\* The backend and the circumstances are what they were at the start.
LEMMA BackendFixed ==
  ASSUME NEW c \in Clients, LinuxStep(c) \/ MacStep(c) \/ WindowsStep(c)
  PROVE  UNCHANGED fixed /\ backend' = backend
<1> USE DEF Step, Leave, BeginOpen, fixed
<1>1. CASE LinuxStep(c)
  BY <1>1 DEF LinuxStep, LinuxEnumerate, LinuxBeginOpen, LinuxSearch,
     LinuxOpenHandle, LinuxOpenHandleFails, LinuxDetach, LinuxDetachFails,
     LinuxClaim, LinuxClaimFails, LinuxStartThread, LinuxOpenReturns,
     LinuxCloseThread, LinuxCloseRelease, LinuxCloseHandle, GiveUp
<1>2. CASE MacStep(c)
  BY <1>2 DEF MacStep, MacEnumerate, MacBeginOpen, MacOpenHandle,
     MacOpenHandleFails, MacRegister, MacCloseUnregister, MacCloseThread,
     MacCloseHandle, MacCloseFree
<1>3. CASE WindowsStep(c)
  BY <1>3 DEF WindowsStep, WindowsEnumerate, ScanExclusive, ScanShared,
     ScanRecord, ScanEnds, WindowsBeginOpen, WindowsOpenExclusive,
     WindowsOpenShared, WindowsGetCaps, WindowsClose, CreateExclusive
<1> QED
  BY <1>1, <1>2, <1>3

\* No client of the Mac backend reports a device, and none returns.
LEMMA MacKeepsReports ==
  ASSUME NEW c \in Clients, MacStep(c)
  PROVE  UNCHANGED <<unreported, status, attached>>
BY DEF MacStep, MacEnumerate, MacBeginOpen, MacOpenHandle, MacOpenHandleFails,
   MacRegister, MacCloseUnregister, MacCloseThread, MacCloseHandle,
   MacCloseFree, Step, Leave, BeginOpen, bus, macVars, marks

\* A client step leaves the other clients where they are, and enters a call
\* only when it may.
LEMMA OthersRest ==
  ASSUME TypeOK, TakeTurns, NEW c \in Clients,
         LinuxStep(c) \/ MacStep(c) \/ WindowsStep(c)
  PROVE  TakeTurns'
<1> USE DEF Goto, Step, Leave, BeginOpen
<1>1. /\ \E to : pc' = [pc EXCEPT ![c] = to]
      /\ MayCall(c) \/ ~Resting(c)
  <2>1. CASE LinuxStep(c)
    BY <2>1 DEF LinuxStep, LinuxEnumerate, LinuxBeginOpen, LinuxSearch,
       LinuxOpenHandle, LinuxOpenHandleFails, LinuxDetach, LinuxDetachFails,
       LinuxClaim, LinuxClaimFails, LinuxStartThread, LinuxOpenReturns,
       LinuxCloseThread, LinuxCloseRelease, LinuxCloseHandle, GiveUp, Resting
  <2>2. CASE MacStep(c)
    BY <2>2 DEF MacStep, MacEnumerate, MacBeginOpen, MacOpenHandle,
       MacOpenHandleFails, MacRegister, MacCloseUnregister, MacCloseThread,
       MacCloseHandle, MacCloseFree, Resting
  <2>3. CASE WindowsStep(c)
    BY <2>3 DEF WindowsStep, WindowsEnumerate, ScanExclusive, ScanShared,
       ScanRecord, ScanEnds, WindowsBeginOpen, WindowsOpenExclusive,
       WindowsOpenShared, WindowsGetCaps, WindowsClose, CreateExclusive,
       Resting
  <2> QED
    BY <2>1, <2>2, <2>3
<1>2. UNCHANGED circumstances
  BY BackendFixed DEF fixed
<1> QED
  BY <1>1, <1>2 DEF TakeTurns, MayCall, Resting, TypeOK

\* Nor does one of Linux change what is attached.
LEMMA LinuxKeepsBus ==
  ASSUME NEW c \in Clients, LinuxStep(c)
  PROVE  UNCHANGED bus
BY DEF LinuxStep, LinuxEnumerate, LinuxBeginOpen, LinuxSearch,
   LinuxOpenHandle, LinuxOpenHandleFails, LinuxDetach, LinuxDetachFails,
   LinuxClaim, LinuxClaimFails, LinuxStartThread, LinuxOpenReturns,
   LinuxCloseThread, LinuxCloseRelease, LinuxCloseHandle, GiveUp, Step, Leave,
   BeginOpen

\* Nor does one of Windows.
LEMMA WindowsKeepsBus ==
  ASSUME NEW c \in Clients, WindowsStep(c)
  PROVE  UNCHANGED bus
BY DEF WindowsStep, WindowsEnumerate, ScanExclusive, ScanShared, ScanRecord,
   ScanEnds, WindowsBeginOpen, WindowsOpenExclusive, WindowsOpenShared,
   WindowsGetCaps, WindowsClose, CreateExclusive, Step, Leave, BeginOpen

\* How an enumeration ends on each backend.
LEMMA LinuxLists ==
  ASSUME TypeOK, NEW c \in Clients, NEW d \in Clients, LinuxStep(d),
         LinuxHeld(c), pc[c] \in {"listing", "scan"}, pc'[c] = "idle"
  PROVE  list'[c] = Present
BY DEF LinuxStep, LinuxEnumerate, LinuxBeginOpen, LinuxSearch,
   LinuxOpenHandle, LinuxOpenHandleFails, LinuxDetach,
   LinuxDetachFails, LinuxClaim, LinuxClaimFails, LinuxStartThread,
   LinuxOpenReturns, LinuxCloseThread, LinuxCloseRelease,
   LinuxCloseHandle, LinuxHeld, GiveUp, Goto, Step, Leave, BeginOpen,
   TypeOK

\* On Mac as on Linux, in one step.
LEMMA MacLists ==
  ASSUME TypeOK, NEW c \in Clients, NEW d \in Clients, MacStep(d),
         MacHeld(c), pc[c] \in {"listing", "scan"}, pc'[c] = "idle"
  PROVE  list'[c] = Present
BY DEF MacStep, MacEnumerate, MacBeginOpen, MacOpenHandle,
   MacOpenHandleFails, MacRegister, MacCloseUnregister,
   MacCloseThread, MacCloseHandle, MacCloseFree, MacHeld, Goto, Step,
   Leave, BeginOpen, TypeOK

\* On Windows with the last device.
LEMMA WindowsLists ==
  ASSUME TypeOK, NEW c \in Clients, NEW d \in Clients, WindowsStep(d),
         WindowsHeld(c), pc[c] \in {"listing", "scan"}, pc'[c] = "idle"
  PROVE  /\ pc[c] = "scan" /\ todo[c] = {} /\ scanned[c] = None
         /\ list'[c] = list[c]
BY DEF WindowsStep, WindowsEnumerate, ScanExclusive, ScanShared,
   ScanRecord, ScanEnds, WindowsBeginOpen, WindowsOpenExclusive,
   WindowsOpenShared, WindowsGetCaps, WindowsClose, WindowsHeld,
   CreateExclusive, Goto, Step, Leave, BeginOpen, TypeOK

\* At the start nothing is listed, held or open.
LEMMA InitIInv == Init => IInv
<1> SUFFICES ASSUME Init
             PROVE  IInv
  OBVIOUS
<1> USE DEF Init, AccessInit, LinuxInit, MacInit, WindowsInit
<1>1. TypeOK
  <2>1. {good_open, disconnected, disturbed} \subseteq [Clients -> BOOLEAN]
    BY Zenon
  <2>2. /\ status \in [Paths -> {"come", "present", "gone"}]
        /\ attached \in [Clients -> SUBSET Paths]
        /\ list \in [Clients -> SUBSET Paths]
        /\ path \in [Clients -> Paths \cup {None}]
    OBVIOUS
  <2>3. /\ settings \in [Clients -> 0 .. 2]
        /\ todo \in [Clients -> SUBSET Paths]
        /\ scanned \in [Clients -> Paths \cup {None}]
    OBVIOUS
  <2> QED
    BY <2>1, <2>2, <2>3 DEF TypeOK
<1>2. HeldByStep /\ ClaimedOnce
  BY DEF HeldByStep, LinuxHeld, MacHeld, WindowsHeld, ClaimedOnce
<1>3. ExclusiveAlone
  BY DeviceAccessAssumption
     DEF ExclusiveAlone, Resting, Met
<1>4. TakeTurns /\ Watched /\ RemovalMarked /\ Found
  BY DEF TakeTurns, Resting, Watched, RemovalMarked, Found
<1> QED
  BY <1>1, <1>2, <1>3, <1>4 DEF IInv

\* Plugging in, and the calls that are the same on every backend, touch neither
\* what is held nor a path in use.
LEMMA CommonKept ==
  ASSUME IInv, Common
  PROVE  IInv'
<1> USE DEF IInv, Common, TypeOK, HeldByStep, ClaimedOnce,
            LinuxHeld, MacHeld, WindowsHeld, linuxVars, macVars, windowsVars,
            fixed, bus, client, Present, Goto, MayCall, Resting
<1>1. CASE \E p \in Paths : Plug(p)
  <2>1. PICK p \in Paths : Plug(p)
    BY <1>1
  <2>2. TypeOK'
    BY <2>1 DEF Plug
  <2>3. HeldByStep' /\ ClaimedOnce'
    BY <2>1 DEF Plug, Alternates
  <2>4. ASSUME OneByOne
        PROVE  ExclusiveAlone'
    <3>1. \A c \in Clients : \A q \in Met(c) : q # p
      BY <2>1, <2>4 DEF Plug, ExclusiveAlone
    <3>2. \A c \in Clients : Met(c)' = Met(c)
      BY <2>1 DEF Plug, Met
    <3>3. \A q \in (Paths \cup {None}) \ {p} :
            MayOpenShared(q)' => MayOpenShared(q)
      BY <2>1 DEF Plug, MayOpenShared, OpenAs, On
    <3>4. \A c \in Clients :
            /\ pc[c] = "scan_shared" => scanned[c] # p
            /\ pc[c] = "open_shared" => path[c] # p
      BY <3>1, DeviceAccessAssumption DEF Met
    <3> QED
      BY <2>1, <2>4, <3>1, <3>2, <3>3, <3>4 DEF Plug, ExclusiveAlone, On
  <2>5. TakeTurns' /\ Watched' /\ RemovalMarked' /\ Found'
    BY <2>1 DEF Plug, TakeTurns, Watched, RemovalMarked, Found
  <2> QED
    BY <2>1, <2>2, <2>3, <2>4, <2>5 DEF Plug, OneByOne
<1>2. CASE \E c \in Clients : BeginEnumeration(c)
  <2>1. TypeOK' /\ HeldByStep' /\ ClaimedOnce'
    BY <1>2 DEF BeginEnumeration, Alternates
  <2>2. OneByOne' => ExclusiveAlone'
    BY <1>2 DEF BeginEnumeration, OneByOne, ExclusiveAlone, Met, On, OpenAs,
                MayOpenShared
  <2>3. TakeTurns' /\ Watched' /\ RemovalMarked'
    BY <1>2 DEF BeginEnumeration, TakeTurns, Watched, RemovalMarked
  <2>4. Found'
    BY <1>2 DEF BeginEnumeration, Found
  <2> QED
    BY <2>1, <2>2, <2>3, <2>4
<1>3. CASE \E c \in Clients : FreeEnumeration(c)
  <2>1. TypeOK'
    BY <1>3 DEF FreeEnumeration
  <2>2. HeldByStep' /\ ClaimedOnce'
    BY <1>3 DEF FreeEnumeration, Alternates
  <2>3. OneByOne' => ExclusiveAlone'
    BY <1>3 DEF FreeEnumeration, OneByOne, ExclusiveAlone, Met, On, OpenAs,
                MayOpenShared
  <2>4. TakeTurns' /\ Watched' /\ RemovalMarked' /\ Found'
    BY <1>3 DEF FreeEnumeration, TakeTurns, Watched, RemovalMarked, Found
  <2> QED
    BY <2>1, <2>2, <2>3, <2>4
<1> QED
  BY <1>1, <1>2, <1>3

\* A device that goes closes no handle and makes no attempt succeed.
LEMMA DeviceGoesKept ==
  ASSUME IInv, DeviceGoes
  PROVE  IInv'
<1> USE DEF IInv, DeviceGoes, Unplug, TypeOK, HeldByStep,
            ClaimedOnce, LinuxHeld, MacHeld, WindowsHeld, linuxVars, macVars,
            marks, windowsVars, fixed, bus, client, Present
<1>1. PICK p \in Paths :
        /\ Unplug(p)
        /\ unreported' = IF backend = "mac" THEN unreported \cup {p} ELSE {}
        /\ UNCHANGED <<linuxVars, watching, marks, windowsVars>>
  OBVIOUS
<1>2. TypeOK'
  BY <1>1
<1>3. HeldByStep' /\ ClaimedOnce'
  <2>1. \A q \in Paths : status[q] = "gone" => status'[q] = "gone"
    BY <1>1
  <2> QED
    BY <1>1, <2>1 DEF Alternates
<1>4. OneByOne' => ExclusiveAlone'
  BY DEF OneByOne, ExclusiveAlone, Met, On, OpenAs, MayOpenShared, Resting
<1>5. TakeTurns' /\ Watched' /\ RemovalMarked' /\ Found'
  BY <1>1 DEF TakeTurns, Resting, Watched, RemovalMarked, Found
<1> QED
  BY <1>2, <1>3, <1>4, <1>5

\* Other programs share devices only in the circumstances named for it.
LEMMA ElsewhereKept ==
  ASSUME IInv, NEW p \in Paths, backend = "windows",
         ElsewhereOpens(p) \/ ElsewhereCloses(p),
         UNCHANGED <<linuxVars, macVars>>
  PROVE  IInv'
<1> USE DEF IInv, ElsewhereOpens, ElsewhereCloses, linuxVars,
            macVars, fixed, bus, client
<1>1. TypeOK'
  BY DEF TypeOK
<1>2. HeldByStep' /\ ClaimedOnce'
  BY DEF HeldByStep, WindowsHeld, ClaimedOnce
<1>3. OneByOne' => ExclusiveAlone'
  BY DEF OneByOne, ExclusiveAlone
<1>4. TakeTurns' /\ Watched' /\ RemovalMarked' /\ Found'
  BY DEF TakeTurns, Resting, Watched, RemovalMarked, Found, Present
<1> QED
  BY <1>1, <1>2, <1>3, <1>4

\* Every step keeps the invariant: each backend by its lemmas above, and what
\* is said of the other two for lack of them.
LEMMA NextIInv ==
  ASSUME IInv, [Next]_vars
  PROVE  IInv'
<1>1. CASE Common
  BY <1>1, CommonKept
<1>2. CASE DeviceGoes
  BY <1>2, DeviceGoesKept
<1>3. CASE Linux
  <2>1. PICK c \in Clients : LinuxStep(c)
    BY <1>3 DEF Linux
  <2>2. /\ backend = "linux" /\ UNCHANGED <<macVars, windowsVars>>
        /\ \A d \in Clients : LinuxHeld(d)
    BY <1>3 DEF Linux, IInv, HeldByStep
  <2>3. TypeOK' /\ ClaimedOnce' /\ \A d \in Clients : LinuxHeld(d)'
    BY <2>1, <2>2, LinuxTypeOK, LinuxHeldKept, ClaimedOnceKept DEF IInv
  <2>4. backend' = "linux" /\ TakeTurns'
    BY <2>1, <2>2, BackendFixed, OthersRest DEF IInv
  <2>5. Found'
    BY <2>1, <2>4, LinuxKeepsBus DEF IInv, Found, bus, Present
  <2> QED
    BY <2>3, <2>4, <2>5
       DEF IInv, HeldByStep, OneByOne, Watched, RemovalMarked
<1>4. CASE Mac
  <2>1. /\ backend = "mac" /\ UNCHANGED <<linuxVars, windowsVars>>
        /\ \A d \in Clients : MacHeld(d)
        /\ \A q \in unreported : status[q] = "gone"
        /\ TypeOK
    BY <1>4 DEF Mac, IInv, HeldByStep
  <2>2. ASSUME NEW c \in Clients, MacStep(c)
        PROVE  IInv'
    <3>1. TypeOK' /\ \A d \in Clients : MacHeld(d)'
      BY <2>1, <2>2, MacTypeOK, MacHeldKept
    <3>2. UNCHANGED <<fixed, unreported, status, attached>> /\ TakeTurns'
      BY <2>2, BackendFixed, MacKeepsReports, OthersRest DEF IInv
    <3>3. Watched' /\ RemovalMarked'
      <4>1. CASE "concurrent_calls" \in circumstances
        BY <3>2, <4>1 DEF fixed, Watched, RemovalMarked
      <4>2. CASE "concurrent_calls" \notin circumstances
        BY <2>1, <2>2, <4>2, WatchedKept DEF IInv
      <4> QED
        BY <4>1, <4>2
    <3>4. Found'
      BY <2>1, <3>2 DEF IInv, Found, fixed, Present
    <3> QED
      BY <2>1, <3>1, <3>2, <3>3, <3>4
         DEF IInv, HeldByStep, ClaimedOnce, OneByOne, fixed
  <2>3. ASSUME NEW p \in Paths, MacRemoval(p)
        PROVE  IInv'
    <3>1. /\ TypeOK' /\ \A d \in Clients : MacHeld(d)'
          /\ \A q \in unreported' : status'[q] = "gone"
      BY <2>1, <2>3, RemovalKept
    <3>2. UNCHANGED <<fixed, bus, client>>
      BY <2>3 DEF MacRemoval
    <3>3. Watched' /\ RemovalMarked'
      BY <2>1, <2>3 DEF IInv, MacRemoval, Marked, OfDevice, MacHeld,
         MacDevice, Resting, Watched, RemovalMarked, fixed, bus, client,
         TypeOK
    <3>4. TakeTurns' /\ Found'
      BY <2>1, <3>2
         DEF IInv, TakeTurns, Resting, Found, fixed, bus, client, Present
    <3> QED
      BY <2>1, <3>1, <3>2, <3>3, <3>4
         DEF IInv, HeldByStep, ClaimedOnce, OneByOne, fixed
  <2> QED
    BY <1>4, <2>2, <2>3 DEF Mac
<1>5. CASE Windows
  <2>1. /\ backend = "windows" /\ UNCHANGED <<linuxVars, macVars>>
        /\ \A d \in Clients : WindowsHeld(d)
        /\ TypeOK
    BY <1>5 DEF Windows, IInv, HeldByStep
  <2>2. ASSUME NEW c \in Clients, WindowsStep(c)
        PROVE  IInv'
    <3>1. TypeOK' /\ \A d \in Clients : WindowsHeld(d)'
      BY <2>1, <2>2, WindowsTypeOK, WindowsHeldKept
    <3>2. UNCHANGED fixed /\ TakeTurns'
      BY <2>2, BackendFixed, OthersRest DEF IInv
    <3>3. ASSUME OneByOne
          PROVE  ExclusiveAlone'
      <4>1. \A d, e \in Clients : d = e \/ Resting(d) \/ Resting(e)
        BY <3>3 DEF IInv, OneByOne, TakeTurns
      <4> QED
        BY <2>1, <2>2, <3>3, <4>1, ExclusiveAloneKept DEF IInv
    <3>4. Found'
      <4>1. CASE "concurrent_calls" \in circumstances
        BY <2>2, <3>2, <4>1, WindowsKeepsBus DEF IInv, Found, fixed, bus,
           Present
      <4>2. CASE "concurrent_calls" \notin circumstances
        <5>1. \A d, e \in Clients : d = e \/ Resting(d) \/ Resting(e)
          BY <4>2 DEF IInv, TakeTurns
        <5> QED
          BY <2>1, <2>2, <4>2, <5>1, FoundKept DEF IInv
      <4> QED
        BY <4>1, <4>2
    <3> QED
      BY <2>1, <3>1, <3>2, <3>3, <3>4
         DEF IInv, HeldByStep, ClaimedOnce, OneByOne, fixed, Watched,
             RemovalMarked
  <2>3. ASSUME NEW p \in Paths, ElsewhereOpens(p) \/ ElsewhereCloses(p)
        PROVE  IInv'
    BY <2>1, <2>3, ElsewhereKept
  <2> QED
    BY <1>5, <2>2, <2>3 DEF Windows
<1>6. CASE UNCHANGED vars
  BY <1>6 DEF vars, fixed, bus, client, linuxVars, macVars, marks, windowsVars,
     IInv, TypeOK, HeldByStep, ClaimedOnce, LinuxHeld, MacHeld, WindowsHeld,
     OneByOne, ExclusiveAlone, Met, On, OpenAs, MayOpenShared, Present,
     Resting, Alternates, TakeTurns, Watched, RemovalMarked, Found
<1> QED
  BY <1>1, <1>2, <1>3, <1>4, <1>5, <1>6 DEF Next

-----------------------------------------------------------------------------
(* Theorems.                                                               *)

\* The inductive invariant: what each client holds is what its step needs, a
\* claim of Linux has one owner, and handles of Windows exclude each other.
THEOREM Invariance == Spec => []IInv
<1>1. Init => IInv
  BY InitIInv
<1>2. IInv /\ [Next]_vars => IInv'
  BY NextIInv
<1> QED
  BY <1>1, <1>2, PTL DEF Spec

\* The variables keep their types.
THEOREM TypeCorrect == Spec => []TypeOK
BY Invariance, PTL DEF IInv

\* Whichever step of hid_open_path() fails, on any backend, with any number of
\* threads and with devices going at any time, it returns a complete device or
\* leaves nothing behind; nor does hid_close().
THEOREM AllOrNothingHolds == Spec => []AllOrNothing
<1>1. IInv => AllOrNothing
  <2> SUFFICES ASSUME IInv, NEW c \in Clients
               PROVE  /\ pc[c] = "open" => Complete(held[c])
                      /\ pc[c] = "idle" =>
                           \/ held[c] = {}
                           \/ /\ backend = "linux"
                              /\ "alternate_settings" \in circumstances
    BY DEF AllOrNothing
  <2>1. backend \in {"linux", "mac", "windows"}
    BY DeviceAccessAssumption DEF IInv, TypeOK
  <2>2. CASE backend = "linux"
    BY <2>2 DEF IInv, HeldByStep, LinuxHeld, LinuxDevice,
                Alternates, Complete
  <2>3. CASE backend = "mac"
    BY <2>3 DEF IInv, HeldByStep, MacHeld, MacDevice, Complete
  <2>4. CASE backend = "windows"
    BY <2>4 DEF IInv, HeldByStep, WindowsHeld, Complete
  <2> QED
    BY <2>1, <2>2, <2>3, <2>4
<1> QED
  BY <1>1, Invariance, PTL

\* No two clients have the same device open: on Linux in any circumstances, on
\* Windows when threads take turns and no other program shares the device.
THEOREM OpenedOnceHolds == Spec => []OpenedOnce
<1>1. IInv => OpenedOnce
  <2> SUFFICES ASSUME IInv, NEW c \in Clients, NEW d \in Clients,
                      pc[c] = "open", pc[d] = "open", path[c] = path[d],
                      backend = "linux" \/ OneByOne
               PROVE  c = d
    BY DeviceAccessAssumption DEF OpenedOnce, OneByOne, IInv,
                                  TypeOK
  <2>1. CASE backend = "linux"
    BY <2>1 DEF IInv, HeldByStep, LinuxHeld, LinuxDevice,
                ClaimedOnce
  <2>2. CASE OneByOne
    BY <2>2 DEF IInv, HeldByStep, WindowsHeld, Handles,
                ExclusiveAlone, OneByOne, On, Met, TypeOK
  <2> QED
    BY <2>1, <2>2
<1> QED
  BY <1>1, Invariance, PTL

\* Every open device of the Mac backend is marked once its removal has been
\* due, unless threads call at the same time or another one closed in between.
THEOREM RemovalMarkedHolds == Spec => []RemovalMarked
BY Invariance, PTL DEF IInv

\* What is attached throughout an enumeration is listed, with the exceptions of
\* Windows.
THEOREM ListsAttachedHolds == Spec => ListsAttached
<1> DEFINE Lists ==
      \A c \in Clients :
        pc[c] \in {"listing", "scan"} /\ pc'[c] = "idle" =>
        \A p \in attached[c] \ list'[c] :
          /\ backend = "windows"
          /\ \/ "concurrent_calls" \in circumstances
             \/ \E d \in Clients : path[d] = p
<1>1. ASSUME IInv, Next, NEW c \in Clients,
             pc[c] \in {"listing", "scan"}, pc'[c] = "idle"
      PROVE  \A p \in attached[c] \ list'[c] :
               /\ backend = "windows"
               /\ \/ "concurrent_calls" \in circumstances
                  \/ \E d \in Clients : path[d] = p
  <2>1. TypeOK /\ attached[c] \subseteq Present
    BY <1>1 DEF IInv, Found
  <2>2. CASE Common \/ DeviceGoes
    BY <1>1, <2>1, <2>2 DEF Common, DeviceGoes, Plug, Unplug,
       BeginEnumeration, FreeEnumeration, Goto, client, TypeOK
  <2>3. CASE Linux
    BY <1>1, <2>1, <2>3, LinuxLists DEF Linux, IInv, HeldByStep
  <2>4. CASE Mac
    <3>1. ASSUME NEW p \in Paths, MacRemoval(p)
          PROVE  FALSE
      BY <1>1, <3>1 DEF MacRemoval, client
    <3> QED
      BY <1>1, <2>1, <2>4, <3>1, MacLists DEF Mac, IInv, HeldByStep
  <2>5. CASE Windows
    <3>1. ASSUME NEW p \in Paths, ElsewhereOpens(p) \/ ElsewhereCloses(p)
          PROVE  FALSE
      BY <1>1, <3>1 DEF ElsewhereOpens, ElsewhereCloses, client
    <3>2. PICK d \in Clients : WindowsStep(d)
      BY <2>5, <3>1 DEF Windows
    <3>3. todo[c] = {} /\ scanned[c] = None /\ pc[c] = "scan"
          /\ list'[c] = list[c] /\ backend = "windows"
      BY <1>1, <2>1, <2>5, <3>2, WindowsLists DEF Windows, IInv, HeldByStep
    <3>4. None \notin attached[c]
      BY <2>1, DeviceAccessAssumption DEF Present
    <3> QED
      BY <1>1, <3>3, <3>4 DEF IInv, Found
  <2> QED
    BY <1>1, <2>2, <2>3, <2>4, <2>5 DEF Next
<1>2. IInv /\ [Next]_vars => [Lists]_vars
  BY <1>1
<1> QED
  BY <1>2, Invariance, PTL DEF Spec, ListsAttached
=============================================================================
