------------------------------- MODULE Clients -----------------------------
(***************************************************************************)
(* The two programs of the repository, examples/consoledemo and            *)
(* examples/qtview, over the calls of module Session: which of their steps *)
(* run after which failure.                                                *)
(*                                                                         *)
(* consoledemo opens the first mouse, polls it a fixed number of times,    *)
(* restores its mode and closes it.  qtview opens the mouse with its index *)
(* and polls it from a timer until its window closes.  What a poll does is *)
(* the subject of ProcessEvents; here it may fail for good or not.         *)
(***************************************************************************)
EXTENDS Session

CONSTANT Indexes    \* the indices qtview may be constructed with

ASSUME ClientsAssumption == Indexes \subseteq Nat

VARIABLES
  program,          \* the program that runs, fixed
  index,            \* the index of the mouse it opens, fixed
  pc,               \* the step it is at
  touchmouse_okay,  \* MousePoller::touchmouse_okay
  timer             \* MousePoller::timer is active

client == <<program, index, pc, touchmouse_okay, timer>>
vars == <<session, client>>

Programs == {"consoledemo", "qtview"}
ConsoleSteps == {"init", "enumerate", "open", "free_list", "read_raw",
                 "write_raw", "poll", "read_default", "write_default", "close",
                 "ended"}
QtSteps == {"init", "enumerate", "open", "crashed", "free_list", "constructed",
            "read_raw", "write_raw", "running", "read_default",
            "write_default", "ended"}

TypeOK ==
  /\ interfaces \in Seq({"touch", "other"})
  /\ plugged \in BOOLEAN /\ mode \in Modes
  /\ settings \in {"own", "zeros", "part"} /\ data \in {"own", "zeros", "part"}
  /\ hid_list \in {"none", "allocated", "freed"}
  /\ infos \in Seq(1 .. Len(interfaces)) /\ opened \in 0 .. Len(interfaces)
  /\ device \in {"none", "open", "closed"} /\ failed \in BOOLEAN
  /\ program \in Programs /\ index \in Nat
  /\ pc \in (IF program = "consoledemo" THEN ConsoleSteps ELSE QtSteps)
  /\ touchmouse_okay \in BOOLEAN /\ timer \in BOOLEAN

Init ==
  /\ SessionInit
  /\ \/ program = "consoledemo" /\ index = 0
     \/ program = "qtview" /\ index \in Indexes
  /\ pc = "init"
  /\ touchmouse_okay = FALSE /\ timer = FALSE

\* A step of one program; of either, which continues somewhere else.
Step(prog, from, to) ==
  /\ program = prog /\ pc = from /\ pc' = to
  /\ UNCHANGED <<program, index>>
Console(from, to) ==
  Step("consoledemo", from, to) /\ UNCHANGED <<touchmouse_okay, timer>>
Qt(from, to) == Step("qtview", from, to)
KeepQt == UNCHANGED <<touchmouse_okay, timer>>
QtGivesUp == touchmouse_okay' = FALSE /\ UNCHANGED timer

-----------------------------------------------------------------------------
(* main() of consoledemo: every failure ends the program.                  *)

ConsoleInit ==
  \/ Console("init", "enumerate") /\ UNCHANGED session
  \/ /\ Console("init", "ended") /\ Fails
     /\ UNCHANGED <<mouse, lists, handle, data>>

ConsoleEnumerate ==
  /\ EnumerateDevices
  /\ Console("enumerate", IF infos' = <<>> THEN "ended" ELSE "open")

ConsoleOpen == Console("open", "free_list") /\ Open(1)

ConsoleFree ==
  /\ Console("free_list", IF device = "open" THEN "read_raw" ELSE "ended")
  /\ FreeEnumeration

ConsoleSetRaw ==
  \/ Console("read_raw", "write_raw") /\ ReadMode
  \/ Console("read_raw", "ended") /\ ReadModeFails
  \/ Console("write_raw", "poll") /\ WriteMode("raw")
  \/ Console("write_raw", "ended") /\ WriteModeFails("raw")

\* The result of a poll is ignored.
ConsolePolls ==
  \/ Console("poll", "read_default") /\ UNCHANGED session
  \/ Console("poll", "poll") /\ ~plugged /\ Fails
     /\ UNCHANGED <<mouse, lists, handle, data>>

ConsoleRestore ==
  \/ Console("read_default", "write_default") /\ ReadMode
  \/ Console("read_default", "ended") /\ ReadModeFails
  \/ Console("write_default", "close") /\ WriteMode("default")
  \/ Console("write_default", "ended") /\ WriteModeFails("default")

ConsoleClose == Console("close", "ended") /\ CloseDevice

ConsoleDemo ==
  ConsoleInit \/ ConsoleEnumerate \/ ConsoleOpen \/ ConsoleFree
  \/ ConsoleSetRaw \/ ConsolePolls \/ ConsoleRestore \/ ConsoleClose

-----------------------------------------------------------------------------
(* MousePoller::MousePoller()                                              *)

\* A failure of touchmouse_init() is only reported.
QtInit == Qt("init", "enumerate") /\ KeepQt /\ UNCHANGED session

\* The test lets the index equal the number of mice pass.
QtEnumerate ==
  /\ EnumerateDevices
  /\ Qt("enumerate", IF Len(infos') < index THEN "free_list" ELSE "open")
  /\ KeepQt

\* touchmouse_open() with a null pointer.
QtOpensNull ==
  /\ Len(infos) = index /\ Qt("open", "crashed")
  /\ KeepQt /\ UNCHANGED session

QtOpen ==
  /\ Len(infos) > index /\ Qt("open", "free_list")
  /\ KeepQt /\ Open(index + 1)

QtFree ==
  /\ Qt("free_list", "constructed")
  /\ touchmouse_okay' = (device = "open")
  /\ UNCHANGED timer
  /\ FreeEnumeration

(* MousePoller::startPolling(), pollMouse(), stopPolling() and main()      *)

QtStart ==
  /\ Qt("constructed", IF touchmouse_okay THEN "read_raw" ELSE "running")
  /\ KeepQt /\ UNCHANGED session

QtSetRaw ==
  \/ Qt("read_raw", "write_raw") /\ KeepQt /\ ReadMode
  \/ Qt("read_raw", "running") /\ QtGivesUp /\ ReadModeFails
  \/ /\ Qt("write_raw", "running") /\ WriteMode("raw")
     /\ timer' = TRUE /\ UNCHANGED touchmouse_okay
  \/ Qt("write_raw", "running") /\ QtGivesUp /\ WriteModeFails("raw")

\* A poll that fails for good; the timer goes on.
QtPollFails ==
  /\ timer /\ ~plugged
  /\ Qt("running", "running") /\ QtGivesUp
  /\ Fails /\ UNCHANGED <<mouse, lists, handle, data>>

\* The window has been closed.
QtStop ==
  /\ Qt("running", IF touchmouse_okay THEN "read_default" ELSE "ended")
  /\ KeepQt /\ UNCHANGED session

QtRestore ==
  \/ Qt("read_default", "write_default") /\ KeepQt /\ ReadMode
  \/ Qt("read_default", "ended") /\ QtGivesUp /\ ReadModeFails
  \/ /\ Qt("write_default", "ended") /\ WriteMode("default")
     /\ timer' = FALSE /\ UNCHANGED touchmouse_okay
  \/ Qt("write_default", "ended") /\ QtGivesUp /\ WriteModeFails("default")

QtView ==
  QtInit \/ QtEnumerate \/ QtOpensNull \/ QtOpen \/ QtFree \/ QtStart
  \/ QtSetRaw \/ QtPollFails \/ QtStop \/ QtRestore

-----------------------------------------------------------------------------
Next == ConsoleDemo \/ QtView \/ (Unplug /\ UNCHANGED client)

Spec == Init /\ [][Next]_vars

-----------------------------------------------------------------------------
(* Safety.                                                                 *)

\* Whoever holds device infos holds a live HID list behind them; without an
\* info, when nobody could free it any more, there is no list.  A program opens
\* a path in a live list, but for qtview without a mouse, and ends without one.
InfosOwnList ==
  /\ infos # <<>> <=> hid_list = "allocated"
  /\ pc = "open" /\ infos = <<>> => program = "qtview" /\ index = 0
  /\ pc = "ended" => infos = <<>>

\* The mouse that is opened is the one with the index asked for, counting only
\* the interfaces that carry touch images.
OpensRequestedMouse ==
  opened # 0 =>
    /\ interfaces[opened] = "touch"
    /\ Cardinality({i \in 1 .. opened - 1 : interfaces[i] = "touch"}) = index

\* Setting the mode never touches the other settings of the mouse, although it
\* writes all of them, and whichever of its calls fails or falls short.  A
\* mouse is left in raw mode, or by consoledemo open, only if a call failed.
ModeRestored ==
  /\ settings = "own"
  /\ pc = "ended" /\ ~failed =>
       /\ mode = "default"
       /\ program = "consoledemo" => device # "open"
=============================================================================
