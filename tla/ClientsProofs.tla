---------------------------- MODULE ClientsProofs --------------------------
(* Theorems about the programs of the repository and the calls of          *)
(* libtouchmouse they make, for any number of HID interfaces.              *)
EXTENDS Clients, Integers, SequenceTheorems, FiniteSetTheorems,
        WellFoundedInduction, TLAPS

-----------------------------------------------------------------------------
(* The inductive invariant.                                                *)

\* From the enumeration to the end of the list the infos are the mice found;
\* a program goes on to open one only if it may have found enough.
ListByStep ==
  /\ infos # <<>> <=> hid_list = "allocated"
  /\ infos # <<>> => pc \in {"open", "free_list", "crashed"}
  /\ pc = "open" =>
       /\ infos = TouchMice
       /\ IF program = "consoledemo" THEN infos # <<>> ELSE Len(infos) >= index

\* The mouse that is opened comes from the place asked for.
OpenedFromList ==
  /\ program = "consoledemo" => index = 0
  /\ opened # 0 =>
       index + 1 \in 1 .. Len(TouchMice) /\ opened = TouchMice[index + 1]

\* What is written is what was read.
SettingsKept ==
  /\ settings = "own"
  /\ pc \in {"write_raw", "write_default"} => data = "own"

\* As long as no call fails, the mode follows the steps of the program, and
\* qtview polls what it has opened.
ModeByStep ==
  ~failed =>
    /\ pc \notin {"poll", "running", "read_default", "write_default"}
       => mode = "default"
    /\ program = "qtview" /\ pc = "running" /\ ~touchmouse_okay
       => mode = "default"
    /\ program = "qtview" /\ pc \in {"read_raw", "write_raw"}
       => touchmouse_okay
    /\ program = "consoledemo" /\ pc \in {"init", "enumerate", "ended"}
       => device # "open"

IInv == TypeOK /\ ListByStep /\ OpenedFromList /\ SettingsKept /\ ModeByStep

-----------------------------------------------------------------------------
(* The loop of touchmouse_enumerate_devices().  Induction over its passes  *)
(* is by way of the least pass that would go wrong.                        *)

\* Among natural numbers there is a least one.
LEMMA LeastNumber ==
  ASSUME NEW T \in SUBSET Nat, T # {}
  PROVE  \E m \in T : \A k \in T : m <= k
<1> DEFINE R == {ss \in Nat \X Nat : ss[1] < ss[2]}
<1>1. IsWellFoundedOn(R, Nat)
  BY NatLessThanWellFounded DEF OpToRel
<1>2. \A x, y \in Nat : y < x => <<y, x>> \in R
  OBVIOUS
<1> HIDE DEF R
<1>3. PICK x \in T : \A y \in T : <<y, x>> \notin R
  BY <1>1, WFMin
<1>4. \A y \in T : ~(y < x)
  BY <1>2, <1>3
<1> QED
  BY <1>4

\* A set that holds the first numbers and with each one the next.
LEMMA UpToBound ==
  ASSUME NEW L \in Nat, NEW T, 0 \in T,
         \A n \in 0 .. L - 1 : n \in T => n + 1 \in T
  PROVE  0 .. L \subseteq T
<1> DEFINE U == {n \in 0 .. L : n \notin T}
<1> SUFFICES ASSUME U # {} PROVE FALSE
  OBVIOUS
<1>1. U \in SUBSET Nat
  OBVIOUS
<1>2. PICK m \in U : \A k \in U : m <= k
  BY <1>1, LeastNumber
<1>3. m \in 0 .. L /\ m \notin T /\ m # 0
  BY <1>2
<1>4. m - 1 \in 0 .. L - 1 /\ (m - 1) + 1 = m
  BY <1>3
<1>5. m - 1 \notin U
  BY <1>2, <1>3
<1>6. m - 1 \in T
  BY <1>4, <1>5
<1> QED
  BY <1>3, <1>4, <1>6

\* What one pass of the loop makes of the list so far.
Pass(list, n) == IF interfaces[n] = "touch" THEN Append(list, n) ELSE list

\* The list after each pass follows from the one before.
LEMMA PassByPass ==
  ASSUME interfaces \in Seq({"touch", "other"})
  PROVE  /\ MiceAmong[0] = <<>>
         /\ \A n \in 1 .. Len(interfaces) :
              MiceAmong[n] = Pass(MiceAmong[n - 1], n)
<1> DEFINE L == Len(interfaces)
           Body(f, n) == IF n = 0 THEN <<>> ELSE Pass(f[n - 1], n)
           Runs(m, f) == f = [n \in 0 .. m |-> Body(f, n)]
           T == {m \in Nat : \E f : Runs(m, f)}
<1>1. L \in Nat
  BY LenProperties
<1>2. 0 \in T
  <2>1. Runs(0, [n \in {0} |-> <<>>])
    OBVIOUS
  <2> QED
    BY <2>1
<1>3. ASSUME NEW m \in 0 .. L - 1, m \in T
      PROVE  m + 1 \in T
  <2>1. PICK f : Runs(m, f)
    BY <1>3
  <2> DEFINE g == [n \in 0 .. m + 1 |->
                     IF n = m + 1 THEN Pass(f[m], m + 1) ELSE f[n]]
  <2>2. ASSUME NEW n \in 0 .. m + 1
        PROVE  g[n] = Body(g, n)
    <3>1. CASE n = m + 1
      <4>1. m \in 0 .. m + 1 /\ m # m + 1 /\ n # 0 /\ n - 1 = m
        BY <1>3, <3>1
      <4>2. g[m] = f[m] /\ g[n] = Pass(f[m], m + 1)
        BY <3>1, <4>1
      <4> QED
        BY <3>1, <4>1, <4>2
    <3>2. CASE n # m + 1
      <4>1. n \in 0 .. m
        BY <1>3, <2>2, <3>2
      <4>2. g[n] = f[n] /\ f[n] = Body(f, n)
        BY <2>1, <3>2, <4>1
      <4>3. n # 0 => g[n - 1] = f[n - 1]
        <5> SUFFICES ASSUME n # 0 PROVE g[n - 1] = f[n - 1]
          OBVIOUS
        <5>1. n - 1 \in 0 .. m + 1 /\ n - 1 # m + 1
          BY <1>3, <4>1
        <5> QED
          BY <5>1
      <4> QED
        BY <4>2, <4>3
    <3> QED
      BY <3>1, <3>2
  <2>3. Runs(m + 1, g)
    BY <2>2
  <2>4. m + 1 \in Nat
    BY <1>3
  <2> QED
    BY <2>3, <2>4
<1>4. L \in T
  <2> HIDE DEF T
  <2>1. 0 .. L \subseteq T
    BY <1>1, <1>2, <1>3, UpToBound
  <2> QED
    BY <1>1, <2>1
<1>5. PICK f : Runs(L, f)
  BY <1>4
<1>6. Runs(L, MiceAmong)
  BY <1>5 DEF MiceAmong, Pass
<1>7. 0 \in 0 .. L /\ \A n \in 1 .. L : n \in 0 .. L /\ n # 0
  BY <1>1
<1>8. MiceAmong[0] = <<>>
  BY <1>6, <1>7
<1>9. \A n \in 1 .. L : MiceAmong[n] = Pass(MiceAmong[n - 1], n)
  BY <1>6, <1>7
<1> QED
  BY <1>8, <1>9

Touch(n) == {i \in 1 .. n : interfaces[i] = "touch"}

\* After n passes the list holds the touch interfaces among the first n, each
\* at the place that counts those before it.
MiceInPlace(n) ==
  LET list == MiceAmong[n] IN
  /\ list \in Seq(1 .. n)
  /\ Len(list) = Cardinality(Touch(n))
  /\ \A k \in 1 .. Len(list) :
       /\ interfaces[list[k]] = "touch"
       /\ Cardinality(Touch(list[k] - 1)) = k - 1

\* The touch interfaces among the first n are finitely many.
LEMMA FiniteTouch ==
  ASSUME NEW n \in Nat
  PROVE  IsFiniteSet(Touch(n)) /\ Cardinality(Touch(n)) \in Nat
<1>1. IsFiniteSet(1 .. n)
  BY FS_Interval
<1>2. IsFiniteSet(Touch(n))
  BY <1>1, FS_Subset DEF Touch
<1> QED
  BY <1>2, FS_CardinalityType

\* One more pass keeps every mouse at its place in the list.
LEMMA MiceInPlaceAfter ==
  ASSUME interfaces \in Seq({"touch", "other"}),
         NEW n \in 0 .. Len(interfaces) - 1, MiceInPlace(n)
  PROVE  MiceInPlace(n + 1)
<1> DEFINE list == MiceAmong[n]
           next == MiceAmong[n + 1]
<1>1. Len(interfaces) \in Nat /\ n \in Nat /\ n + 1 \in 1 .. Len(interfaces)
      /\ (n + 1) - 1 = n
  BY LenProperties
<1>2. next = Pass(list, n + 1)
  BY <1>1, PassByPass
<1>3. /\ list \in Seq(1 .. n) /\ Len(list) = Cardinality(Touch(n))
      /\ \A k \in 1 .. Len(list) :
           /\ interfaces[list[k]] = "touch"
           /\ Cardinality(Touch(list[k] - 1)) = k - 1
  BY DEF MiceInPlace
<1>4. 1 .. n \subseteq 1 .. n + 1
  BY <1>1
<1>5. list \in Seq(1 .. n + 1) /\ Len(list) \in Nat
  BY <1>3, <1>4, SeqMonotonic, LenProperties
<1> HIDE DEF list, next
<1>6. CASE interfaces[n + 1] = "touch"
  <2>1. next = Append(list, n + 1)
    BY <1>2, <1>6 DEF Pass
  <2>2. n + 1 \in 1 .. n + 1
    BY <1>1
  <2>3. /\ next \in Seq(1 .. n + 1) /\ Len(next) = Len(list) + 1
        /\ \A k \in 1 .. Len(list) : next[k] = list[k]
        /\ next[Len(list) + 1] = n + 1
    BY <1>5, <2>1, <2>2, AppendProperties
  <2>4. Cardinality(Touch(n + 1)) = Cardinality(Touch(n)) + 1
    <3>1. Touch(n + 1) = Touch(n) \cup {n + 1} /\ n + 1 \notin Touch(n)
      BY <1>1, <1>6 DEF Touch
    <3> QED
      BY <1>1, <3>1, FiniteTouch, FS_AddElement
  <2>5. ASSUME NEW k \in 1 .. Len(next)
        PROVE  /\ interfaces[next[k]] = "touch"
               /\ Cardinality(Touch(next[k] - 1)) = k - 1
    <3>1. CASE k = Len(list) + 1
      <4>1. next[k] = n + 1 /\ k - 1 = Cardinality(Touch(n))
        BY <1>3, <1>5, <2>3, <3>1
      <4> QED
        BY <1>1, <1>6, <4>1
    <3>2. CASE k # Len(list) + 1
      <4>1. k \in 1 .. Len(list)
        BY <1>5, <2>3, <3>2
      <4> QED
        BY <1>3, <2>3, <4>1
    <3> QED
      BY <3>1, <3>2
  <2>6. Len(next) = Cardinality(Touch(n + 1))
    BY <1>3, <2>3, <2>4
  <2> QED
    BY <2>3, <2>5, <2>6 DEF MiceInPlace, next
<1>7. CASE interfaces[n + 1] # "touch"
  <2>1. next = list
    BY <1>2, <1>7 DEF Pass
  <2>2. Touch(n + 1) = Touch(n)
    BY <1>1, <1>7 DEF Touch
  <2> QED
    BY <1>3, <1>5, <2>1, <2>2 DEF MiceInPlace, next
<1> QED
  BY <1>6, <1>7

\* The list of the mice: the place of each counts the mice before it.
LEMMA TouchMiceInPlace ==
  ASSUME interfaces \in Seq({"touch", "other"})
  PROVE  /\ TouchMice \in Seq(1 .. Len(interfaces))
         /\ \A k \in 1 .. Len(TouchMice) :
              /\ interfaces[TouchMice[k]] = "touch"
              /\ Cardinality(Touch(TouchMice[k] - 1)) = k - 1
<1> DEFINE L == Len(interfaces)
           T == {n \in 0 .. L : MiceInPlace(n)}
<1>1. L \in Nat
  BY LenProperties
<1>2. MiceInPlace(0)
  <2>1. MiceAmong[0] = <<>>
    BY PassByPass
  <2>2. Touch(0) = {} /\ Cardinality(Touch(0)) = 0
    BY FS_EmptySet DEF Touch
  <2>3. <<>> \in Seq(1 .. 0) /\ Len(<<>>) = 0
    BY EmptySeq
  <2>4. 1 .. Len(<<>>) = {}
    BY <2>3
  <2> QED
    BY <2>1, <2>2, <2>3, <2>4 DEF MiceInPlace
<1>3. 0 \in T
  BY <1>1, <1>2
<1>4. ASSUME NEW n \in 0 .. L - 1, n \in T
      PROVE  n + 1 \in T
  <2>1. MiceInPlace(n + 1)
    BY <1>4, MiceInPlaceAfter
  <2>2. n + 1 \in 0 .. L
    BY <1>1
  <2> QED
    BY <2>1, <2>2
<1> HIDE DEF T
<1>5. L \in T
  <2>1. 0 .. L \subseteq T
    BY <1>1, <1>3, <1>4, UpToBound
  <2> QED
    BY <1>1, <2>1
<1>6. MiceInPlace(L)
  BY <1>5 DEF T
<1> QED
  BY <1>6 DEF MiceInPlace, TouchMice

-----------------------------------------------------------------------------
(* The steps of the programs.                                              *)

\* The types of the variables that are no lists.
SimpleTypes ==
  /\ plugged \in BOOLEAN /\ mode \in Modes
  /\ settings \in {"own", "zeros", "part"} /\ data \in {"own", "zeros", "part"}
  /\ hid_list \in {"none", "allocated", "freed"}
  /\ device \in {"none", "open", "closed"} /\ failed \in BOOLEAN
  /\ program \in Programs /\ index \in Nat
  /\ pc \in (IF program = "consoledemo" THEN ConsoleSteps ELSE QtSteps)
  /\ touchmouse_okay \in BOOLEAN /\ timer \in BOOLEAN

\* The variables that only hold a step, a choice or a flag keep their types.
LEMMA SimpleTypesKept ==
  ASSUME SimpleTypes, [Next]_vars
  PROVE  SimpleTypes'
<1> USE DEF SimpleTypes, Programs, ConsoleSteps, QtSteps, Modes, mouse, lists,
        handle, session, client
<1>1. CASE ConsoleDemo
  <2> USE DEF Console, Step
  <2>1. CASE ConsoleInit \/ ConsolePolls \/ ConsoleClose
    BY <2>1 DEF ConsoleInit, ConsolePolls, ConsoleClose, Fails, CloseDevice
  <2>2. CASE ConsoleEnumerate \/ ConsoleOpen \/ ConsoleFree
    BY <2>2 DEF ConsoleEnumerate, EnumerateDevices, ConsoleOpen, Open, Fails,
       ConsoleFree, FreeEnumeration
  <2>3. CASE ConsoleSetRaw
    BY <2>3 DEF ConsoleSetRaw, ReadMode, ReadModeFails, WriteMode,
       WriteModeFails, Fails
  <2>4. CASE ConsoleRestore
    BY <2>4 DEF ConsoleRestore, ReadMode, ReadModeFails, WriteMode,
       WriteModeFails, Fails
  <2> QED
    BY <1>1, <2>1, <2>2, <2>3, <2>4 DEF ConsoleDemo
<1>2. CASE QtView
  <2> USE DEF Qt, Step, KeepQt, QtGivesUp
  <2>1. CASE QtInit \/ QtOpensNull \/ QtStart \/ QtStop
    BY <2>1 DEF QtInit, QtOpensNull, QtStart, QtStop
  <2>2. CASE QtEnumerate \/ QtOpen \/ QtFree
    BY <2>2 DEF QtEnumerate, EnumerateDevices, QtOpen, Open, Fails, QtFree,
       FreeEnumeration
  <2>3. CASE QtSetRaw
    BY <2>3 DEF QtSetRaw, ReadMode, ReadModeFails, WriteMode, WriteModeFails,
       Fails
  <2>4. CASE QtPollFails
    BY <2>4 DEF QtPollFails, Fails
  <2>5. CASE QtRestore
    BY <2>5 DEF QtRestore, ReadMode, ReadModeFails, WriteMode, WriteModeFails,
       Fails
  <2> QED
    BY <1>2, <2>1, <2>2, <2>3, <2>4, <2>5 DEF QtView
<1>3. CASE Unplug /\ UNCHANGED client
  BY <1>3 DEF Unplug
<1>4. CASE UNCHANGED vars
  BY <1>4 DEF vars
<1> QED
  BY <1>1, <1>2, <1>3, <1>4 DEF Next

\* What a step may do to the lists and to what is opened.  The interfaces and
\* the program stay.
ListStep ==
  /\ UNCHANGED <<interfaces, program, index>>
  /\ \/ /\ UNCHANGED <<lists, opened>>
        /\ pc' \in {"open", "free_list"} => pc' = pc
        /\ pc \in {"open", "free_list", "crashed"} => pc' \in {pc, "crashed"}
     \/ /\ pc = "enumerate" /\ EnumerateDevices
        /\ pc' = "open" =>
             IF program = "consoledemo" THEN infos' # <<>>
             ELSE Len(infos') >= index
        /\ pc' # "open" => infos' = <<>> \/ pc' = "free_list"
     \/ /\ pc = "open" /\ pc' = "free_list" /\ UNCHANGED lists
        /\ opened' = opened \/ opened' = infos[index + 1]
        /\ program = "qtview" => Len(infos) > index
     \/ /\ pc = "free_list" /\ pc' \notin {"open", "free_list"}
        /\ FreeEnumeration /\ UNCHANGED opened

\* The steps of both programs, as far as the lists are concerned.
LEMMA NextListStep ==
  ASSUME SimpleTypes, OpenedFromList, [Next]_vars
  PROVE  ListStep
<1> USE DEF ListStep, SimpleTypes, Programs, mouse, lists, handle, session,
        client
<1>1. CASE ConsoleDemo
  <2> USE DEF Console, Step
  <2>1. CASE ConsoleInit \/ ConsolePolls \/ ConsoleClose
    BY <2>1 DEF ConsoleInit, ConsolePolls, ConsoleClose, CloseDevice
  <2>2. CASE ConsoleEnumerate
    BY <2>2 DEF ConsoleEnumerate, EnumerateDevices
  <2>3. CASE ConsoleOpen
    BY <2>3 DEF ConsoleOpen, Open, OpenedFromList
  <2>4. CASE ConsoleFree
    BY <2>4 DEF ConsoleFree, FreeEnumeration
  <2>5. CASE ConsoleSetRaw \/ ConsoleRestore
    BY <2>5 DEF ConsoleSetRaw, ConsoleRestore, ReadMode, ReadModeFails,
       WriteMode, WriteModeFails
  <2> QED
    BY <1>1, <2>1, <2>2, <2>3, <2>4, <2>5 DEF ConsoleDemo
<1>2. CASE QtView
  <2> USE DEF Qt, Step
  <2>1. CASE QtInit \/ QtOpensNull \/ QtStart \/ QtPollFails \/ QtStop
    BY <2>1 DEF QtInit, QtOpensNull, QtStart, QtPollFails, QtStop
  <2>2. CASE QtEnumerate
    BY <2>2 DEF QtEnumerate, EnumerateDevices
  <2>3. CASE QtOpen
    BY <2>3 DEF QtOpen, Open
  <2>4. CASE QtFree
    BY <2>4 DEF QtFree, FreeEnumeration
  <2>5. CASE QtSetRaw \/ QtRestore
    BY <2>5 DEF QtSetRaw, QtRestore, ReadMode, ReadModeFails, WriteMode,
       WriteModeFails
  <2> QED
    BY <1>2, <2>1, <2>2, <2>3, <2>4, <2>5 DEF QtView
<1>3. CASE Unplug /\ UNCHANGED client
  BY <1>3 DEF Unplug
<1>4. CASE UNCHANGED vars
  BY <1>4 DEF vars
<1> QED
  BY <1>1, <1>2, <1>3, <1>4 DEF Next

\* The lists, their types included.
ListInv ==
  /\ interfaces \in Seq({"touch", "other"})
  /\ infos \in Seq(1 .. Len(interfaces)) /\ opened \in 0 .. Len(interfaces)
  /\ program \in Programs /\ index \in Nat
  /\ ListByStep /\ OpenedFromList

\* The list found depends on the interfaces alone.
LEMMA SameTouchMice ==
  ASSUME interfaces' = interfaces
  PROVE  TouchMice' = TouchMice
BY DEF TouchMice, MiceAmong

\* Every step of a program keeps what is known of the lists.
LEMMA ListInvKept ==
  ASSUME ListInv, ListStep
  PROVE  ListInv'
<1>1. /\ UNCHANGED <<interfaces, program, index>> /\ TouchMice' = TouchMice
      /\ index \in Nat /\ Len(interfaces) \in Nat
      /\ TouchMice \in Seq(1 .. Len(interfaces)) /\ Len(TouchMice) \in Nat
  BY TouchMiceInPlace, LenProperties, SameTouchMice DEF ListInv, ListStep
<1>2. CASE /\ UNCHANGED <<lists, opened>>
           /\ pc' \in {"open", "free_list"} => pc' = pc
           /\ pc \in {"open", "free_list", "crashed"}
              => pc' \in {pc, "crashed"}
  <2>1. infos # <<>> => pc' \in {"open", "free_list", "crashed"}
    BY <1>2 DEF ListInv, ListByStep
  <2> QED
    BY <1>1, <1>2, <2>1 DEF ListInv, ListByStep, OpenedFromList, lists
<1>3. CASE /\ pc = "enumerate" /\ EnumerateDevices
           /\ pc' = "open" =>
                IF program = "consoledemo" THEN infos' # <<>>
                ELSE Len(infos') >= index
           /\ pc' # "open" => infos' = <<>> \/ pc' = "free_list"
  <2>1. /\ infos' = TouchMice /\ opened' = opened
        /\ infos' # <<>> <=> hid_list' = "allocated"
    BY <1>3 DEF EnumerateDevices, handle
  <2> QED
    BY <1>1, <1>3, <2>1 DEF ListInv, ListByStep, OpenedFromList
<1>4. CASE /\ pc = "open" /\ pc' = "free_list" /\ UNCHANGED lists
           /\ opened' = opened \/ opened' = infos[index + 1]
           /\ program = "qtview" => Len(infos) > index
  <2>1. infos = TouchMice
    BY <1>4 DEF ListInv, ListByStep
  <2>2. index + 1 \in 1 .. Len(TouchMice)
    <3>1. CASE program = "qtview"
      BY <1>1, <1>4, <2>1, <3>1
    <3>2. CASE program = "consoledemo"
      <4>1. index = 0 /\ infos # <<>>
        BY <1>4, <3>2 DEF ListInv, ListByStep, OpenedFromList
      <4>2. Len(TouchMice) # 0
        BY <1>1, <2>1, <4>1, EmptySeq
      <4> QED
        BY <1>1, <4>1, <4>2
    <3> QED
      BY <3>1, <3>2 DEF ListInv, Programs
  <2>3. TouchMice[index + 1] \in 1 .. Len(interfaces)
    BY <1>1, <2>2, ElementOfSeq
  <2>4. opened' \in 0 .. Len(interfaces)
    BY <1>1, <1>4, <2>1, <2>3 DEF ListInv
  <2>5. OpenedFromList'
    BY <1>1, <1>4, <2>1, <2>2 DEF ListInv, OpenedFromList
  <2> QED
    BY <1>1, <1>4, <2>4, <2>5 DEF ListInv, ListByStep, lists
<1>5. CASE /\ pc = "free_list" /\ pc' \notin {"open", "free_list"}
           /\ FreeEnumeration /\ UNCHANGED opened
  <2>1. /\ infos' = <<>> /\ hid_list' # "allocated"
        /\ <<>> \in Seq(1 .. Len(interfaces))
    BY <1>5, EmptySeq DEF ListInv, ListByStep, FreeEnumeration
  <2> QED
    BY <1>1, <1>5, <2>1 DEF ListInv, ListByStep, OpenedFromList
<1> QED
  BY <1>2, <1>3, <1>4, <1>5 DEF ListStep

\* The mode and the settings.
ModeInv == SimpleTypes /\ SettingsKept /\ ModeByStep

\* Every step keeps what is known of the settings of the mouse.
LEMMA ModeInvKept ==
  ASSUME ModeInv, [Next]_vars
  PROVE  SettingsKept' /\ ModeByStep'
<1> USE DEF ModeInv, SimpleTypes, SettingsKept, ModeByStep, Programs,
        ConsoleSteps, QtSteps, mouse, lists, handle, session, client
<1>1. CASE ConsoleDemo
  <2> USE DEF Console, Step
  <2>1. CASE ConsoleInit \/ ConsolePolls \/ ConsoleClose
    BY <2>1 DEF ConsoleInit, ConsolePolls, ConsoleClose, Fails, CloseDevice
  <2>2. CASE ConsoleEnumerate
    BY <2>2 DEF ConsoleEnumerate, EnumerateDevices
  <2>3. CASE ConsoleOpen
    BY <2>3 DEF ConsoleOpen, Open, Fails
  <2>4. CASE ConsoleFree
    BY <2>4 DEF ConsoleFree, FreeEnumeration
  <2>5. CASE ConsoleSetRaw
    BY <2>5 DEF ConsoleSetRaw, ReadMode, ReadModeFails, WriteMode,
       WriteModeFails, Fails
  <2>6. CASE ConsoleRestore
    BY <2>6 DEF ConsoleRestore, ReadMode, ReadModeFails, WriteMode,
       WriteModeFails, Fails
  <2> QED
    BY <1>1, <2>1, <2>2, <2>3, <2>4, <2>5, <2>6 DEF ConsoleDemo
<1>2. CASE QtView
  <2> USE DEF Qt, Step, KeepQt, QtGivesUp
  <2>1. CASE QtInit \/ QtOpensNull
    BY <2>1 DEF QtInit, QtOpensNull
  <2>2. CASE QtEnumerate
    BY <2>2 DEF QtEnumerate, EnumerateDevices
  <2>3. CASE QtOpen
    BY <2>3 DEF QtOpen, Open, Fails
  <2>4. CASE QtFree
    BY <2>4 DEF QtFree, FreeEnumeration
  <2>5. CASE QtStart \/ QtStop
    BY <2>5 DEF QtStart, QtStop
  <2>6. CASE QtSetRaw
    BY <2>6 DEF QtSetRaw, ReadMode, ReadModeFails, WriteMode, WriteModeFails,
       Fails
  <2>7. CASE QtPollFails
    BY <2>7 DEF QtPollFails, Fails
  <2>8. CASE QtRestore
    BY <2>8 DEF QtRestore, ReadMode, ReadModeFails, WriteMode, WriteModeFails,
       Fails
  <2> QED
    BY <1>2, <2>1, <2>2, <2>3, <2>4, <2>5, <2>6, <2>7, <2>8 DEF QtView
<1>3. CASE Unplug /\ UNCHANGED client
  BY <1>3 DEF Unplug
<1>4. CASE UNCHANGED vars
  BY <1>4 DEF vars
<1> QED
  BY <1>1, <1>2, <1>3, <1>4 DEF Next

-----------------------------------------------------------------------------
(* The theorems.                                                           *)

\* The invariant of the lists and that of the settings make up IInv.
LEMMA IInvParts == IInv <=> ListInv /\ ModeInv
BY DEF IInv, TypeOK, ListInv, ModeInv, SimpleTypes

\* When a program starts it has no list and has changed no setting.
LEMMA InitIInv ==
  ASSUME Init
  PROVE  ListInv /\ ModeInv
<1> USE DEF Init, SessionInit
<1>1. interfaces \in Seq({"touch", "other"})
  <2>1. PICK n \in 0 .. MaxInterfaces :
          interfaces \in [1 .. n -> {"touch", "other"}]
    OBVIOUS
  <2>2. n \in Nat
    BY SessionAssumption
  <2> QED
    BY <2>1, <2>2, SeqDef
<1>2. Len(interfaces) \in Nat /\ infos \in Seq(1 .. Len(interfaces))
  BY <1>1, LenProperties, EmptySeq
<1>3. program \in Programs /\ index \in Nat
  <2>1. CASE program = "consoledemo" /\ index = 0
    BY <2>1 DEF Programs
  <2>2. CASE program = "qtview" /\ index \in Indexes
    BY <2>2, ClientsAssumption DEF Programs
  <2> QED
    BY <2>1, <2>2
<1>4. ListInv
  <2>1. opened \in 0 .. Len(interfaces)
    BY <1>2
  <2>2. ListByStep /\ OpenedFromList
    BY DEF ListByStep, OpenedFromList
  <2> QED
    BY <1>1, <1>2, <1>3, <2>1, <2>2 DEF ListInv
<1>5. ModeInv
  <2>1. SimpleTypes
    BY <1>3 DEF SimpleTypes, Modes, ConsoleSteps, QtSteps
  <2> QED
    BY <2>1 DEF ModeInv, SettingsKept, ModeByStep
<1> QED
  BY <1>4, <1>5

\* The invariant holds in every state the programs can reach.
THEOREM Invariance == Spec => []IInv
<1>1. Init => IInv
  BY InitIInv, IInvParts
<1>2. IInv /\ [Next]_vars => IInv'
  <2> SUFFICES ASSUME IInv, [Next]_vars PROVE IInv'
    OBVIOUS
  <2>1. ListInv /\ ModeInv
    BY IInvParts
  <2>2. ListInv'
    BY <2>1, NextListStep, ListInvKept DEF ListInv, ModeInv
  <2>3. ModeInv'
    BY <2>1, SimpleTypesKept, ModeInvKept DEF ModeInv
  <2> QED
    BY <2>2, <2>3 DEF IInv, TypeOK, ListInv, ModeInv, SimpleTypes
<1> QED
  BY <1>1, <1>2, PTL DEF Spec

\* Every variable keeps its type.
THEOREM TypeCorrect == Spec => []TypeOK
<1>1. IInv => TypeOK
  BY DEF IInv
<1> QED
  BY <1>1, Invariance, PTL

\* touchmouse_enumerate_devices() and touchmouse_free_enumeration() share the
\* list of HIDAPI so that it lives as long as the device infos, and the
\* programs free it on every path.
THEOREM InfosOwnListHolds == Spec => []InfosOwnList
<1>1. IInv => InfosOwnList
  <2> SUFFICES ASSUME IInv PROVE InfosOwnList
    OBVIOUS
  <2>1. ListInv
    BY IInvParts
  <2>2. pc = "open" /\ infos = <<>> => program = "qtview" /\ index = 0
    BY <2>1, EmptySeq DEF ListInv, ListByStep, Programs
  <2> QED
    BY <2>1, <2>2 DEF ListInv, ListByStep, InfosOwnList
<1> QED
  BY <1>1, Invariance, PTL

\* Of any list of interfaces the mouse that is opened is the one with the index
\* asked for, counting touch interfaces only.
THEOREM OpensRequestedMouseHolds == Spec => []OpensRequestedMouse
<1>1. IInv => OpensRequestedMouse
  <2> SUFFICES ASSUME IInv, opened # 0
               PROVE  /\ interfaces[opened] = "touch"
                      /\ Cardinality(Touch(opened - 1)) = index
    BY DEF OpensRequestedMouse, Touch
  <2>1. /\ interfaces \in Seq({"touch", "other"}) /\ index \in Nat
        /\ index + 1 \in 1 .. Len(TouchMice)
        /\ opened = TouchMice[index + 1]
    BY IInvParts DEF ListInv, OpenedFromList
  <2>2. /\ interfaces[opened] = "touch"
        /\ Cardinality(Touch(opened - 1)) = (index + 1) - 1
    BY <2>1, TouchMiceInPlace
  <2> QED
    BY <2>1, <2>2
<1> QED
  BY <1>1, Invariance, PTL

\* touchmouse_set_device_mode() writes back the other settings of the mouse as
\* they were, whatever fails; without a failure the programs leave the mouse in
\* its default mode, and consoledemo closes it.
THEOREM ModeRestoredHolds == Spec => []ModeRestored
<1>1. IInv => ModeRestored
  BY DEF IInv, SettingsKept, ModeByStep, ModeRestored
<1> QED
  BY <1>1, Invariance, PTL
=============================================================================
