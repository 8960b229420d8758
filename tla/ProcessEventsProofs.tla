------------------------ MODULE ProcessEventsProofs ------------------------
(***************************************************************************)
(* Proofs about the timing of touchmouse_process_events_timeout(), for     *)
(* every width of int and of the clock, every unit, every set of calls,    *)
(* and every timer: how often it overflows is a parameter of each platform.*)
(*                                                                         *)
(* What a call without a timeout returns needs no hypothesis.  The bounds  *)
(* on a call with a timeout hold for calls in range, which CallsInRange    *)
(* states and MCProcessEvents checks of the calls of its run, and for a    *)
(* call during which the timer neither fails nor overflows.                *)
(***************************************************************************)
EXTENDS ProcessEvents, TLAPS

-----------------------------------------------------------------------------
(* The inductive invariants.                                               *)

\* A call is one of Calls and has not returned; a report that is to be
\* interpreted is there; nothing has failed before the first reading.
Underway ==
  /\ pc # "idle" => <<backend, milliseconds>> \in Calls /\ result = "none"
  /\ pc = "report" => queued > 0
  /\ pc = "deadline" => ~failed

\* Without a timeout the deadline is the largest value of the clock, and the
\* call returns empty only on a reading of that value.
Unlimited ==
  ~Timed => /\ pc \in {"first"} \cup Reading => deadline = U64Mod - 1
            /\ Returned("ok") => Nanos(backend, now) = U64Mod - 1

\* How far the timer is ahead of the time when the call is made.
Lead == Nanos(backend, called) - called

\* A timed call while the timer works: where the deadline lies after the
\* call, how far the time may be at each step, and that readings are times
\* ahead by Lead.
Punctual ==
  /\ pc # "idle" => CallInRange(backend, milliseconds)
  /\ pc = "deadline" => now = called
  /\ pc \in {"first"} \cup Reading =>
       /\ called + Timeout <= deadline - Lead
       /\ deadline - Lead <= called + Timeout + MaxDelay
  /\ pc = "first" => deadline - Lead = now + Timeout
  /\ pc = "first" => called <= now /\ now <= called + MaxDelay
  /\ pc \in Reading =>
       /\ called <= nanos - Lead /\ nanos - Lead <= now
       /\ deadline <= nanos + Timeout
       /\ \/ nanos <= deadline
          \/ backend # "windows" /\ nanos <= deadline + MaxDelay
  /\ pc = "read" => now = nanos - Lead
  /\ pc = "waiting" =>
       until # Never /\ until <= deadline - Lead + MaxDelay
  /\ pc \in {"waiting", "report", "test"} =>
       now <= deadline - Lead + 2 * MaxDelay
  /\ pc = "idle" => now <= called + Timeout + 4 * MaxDelay
  /\ Returned("ok") => called + Timeout <= now

OnTime == Timed /\ ClockWorks => Punctual

IInv == TypeOK /\ Underway /\ Unlimited

-----------------------------------------------------------------------------
(* Arithmetic.                                                             *)

\* Below the modulus % changes nothing.
LEMMA ModSmall ==
  ASSUME NEW m \in Nat \ {0}, NEW x \in 0 .. m - 1
  PROVE  x % m = x
BY SMT

\* A remainder is below the modulus, that of a negative number too.
LEMMA ModRange ==
  ASSUME NEW m \in Nat \ {0}, NEW x \in Int
  PROVE  x % m \in 0 .. m - 1
BY SMT

\* An unsigned difference wraps.
LEMMA ModNegative ==
  ASSUME NEW m \in Nat \ {0}, NEW x \in 1 .. m - 1
  PROVE  (-x) % m = m - x
BY SMT

\* Division rounds down: multiplying back does not exceed the dividend.
LEMMA DivMul ==
  ASSUME NEW d \in Nat \ {0}, NEW x \in Nat
  PROVE  /\ x \div d \in Nat
         /\ (x \div d) * d <= x
         /\ x \div d <= x
BY SMT

\* A product of natural numbers is one.
LEMMA TimesNat ==
  ASSUME NEW a \in Nat, NEW b \in Nat
  PROVE  a * b \in Nat
BY SMT

\* A conversion to int is an integer.
LEMMA AsIntInt ==
  ASSUME NEW x \in Int
  PROVE  AsInt(x) \in Int
<1>1. IntMod \in Nat \ {0}
  BY ProcessEventsAssumption
<1>2. x % IntMod \in 0 .. IntMod - 1
  BY <1>1, ModRange
<1> QED
  BY <1>1, <1>2 DEF AsInt

\* A conversion to int keeps what fits.
LEMMA AsIntSmall ==
  ASSUME NEW x \in Nat, x < IntMod \div 2
  PROVE  AsInt(x) = x
<1>1. IntMod \in Nat \ {0} /\ IntMod \div 2 <= IntMod
  BY ProcessEventsAssumption
<1>2. x % IntMod = x
  BY <1>1, ModSmall
<1> QED
  BY <1>1, <1>2 DEF AsInt

\* The constants as integers.
LEMMA Constants ==
  /\ U64Mod \in Nat \ {0, 1} /\ NsPerMs \in Nat \ {0} /\ MaxNow \in Nat
  /\ MaxDelay \in Nat
  /\ FrameReports \in Nat \ {0} /\ MaxQueued \in Nat \ {0}
  /\ StartTimes \subseteq 1 .. MaxNow
BY ProcessEventsAssumption

\* A timeout is a pair's second component, and an int.
LEMMA CallTyped ==
  ASSUME NEW b, NEW ms, <<b, ms>> \in Calls
  PROVE  b \in Platforms /\ ms \in Int
<1>1. <<b, ms>> \in Platforms \X (-(IntMod \div 2) .. IntMod \div 2 - 1)
  BY ProcessEventsAssumption
<1>2. IntMod \div 2 \in Int
  BY ProcessEventsAssumption
<1> QED
  BY <1>1, <1>2

\* The timeout of a read is an integer.
LEMMA ReadTimeoutInt ==
  ASSUME TypeOK
  PROVE  ReadTimeout \in Int
<1>1. U64Mod \in Nat \ {0} /\ NsPerMs \in Nat \ {0} /\ deadline - nanos \in Int
  BY ProcessEventsAssumption DEF TypeOK
<1>2. (deadline - nanos) % U64Mod \in Nat
  BY <1>1, ModRange
<1>3. ((deadline - nanos) % U64Mod) \div NsPerMs \in Int
  BY <1>1, <1>2, DivMul
<1> QED
  BY <1>3, AsIntInt DEF ReadTimeout

\* mono_timer_nanos() returns a uint64_t, whatever overflows in it.
LEMMA NanosTyped ==
  ASSUME NEW b \in Platforms, NEW time \in Nat
  PROVE  Nanos(b, time) \in 0 .. U64Mod - 1
<1> DEFINE d == Divisors[b]
           product == (time * d) % U64Mod
<1>1. d \in Nat \ {0} /\ U64Mod \in Nat \ {0}
  BY ProcessEventsAssumption
<1>2. product \in 0 .. U64Mod - 1
  <2>1. d \in Nat
    BY <1>1
  <2> HIDE DEF d
  <2>2. time * d \in Int
    BY <2>1, TimesNat
  <2> QED
    BY <1>1, <2>2, ModRange
<1>3. U64Mod - product \in Nat
  BY <1>1, <1>2
<1> HIDE DEF product, d
<1>4. product \div d \in 0 .. U64Mod - 1
  BY <1>1, <1>2, DivMul
<1>5. -((U64Mod - product) \div d) \in Int
  BY <1>1, <1>3, DivMul
<1>6. (-((U64Mod - product) \div d)) % U64Mod \in 0 .. U64Mod - 1
  BY <1>1, <1>5, ModRange
<1> QED
  BY <1>4, <1>6 DEF Nanos, product, d

-----------------------------------------------------------------------------
(* The invariant that needs no hypothesis.                                 *)

\* Time moves on, within its bound.
LEMMA ElapseTyped ==
  ASSUME TypeOK, Elapse
  PROVE  /\ now' \in 1 .. MaxNow + MaxDelay
         /\ now <= now' /\ now' <= now + MaxDelay
BY Constants DEF TypeOK, Elapse

\* The next time, by name: the provers do arithmetic on names.
LEMMA ReadingNamed ==
  ASSUME TypeOK, Elapse
  PROVE  \E time \in 1 .. MaxNow + MaxDelay :
           now' = time /\ now <= time /\ time <= now + MaxDelay
BY ElapseTyped

\* A reading of the timer is a uint64_t.
LEMMA ClockTyped ==
  ASSUME TypeOK, Elapse, NEW fails \in Failures
  PROVE  Clock(fails) \in 0 .. U64Mod - 1
<1>1. now' \in Nat
  BY ElapseTyped, Constants
<1>2. backend \in Platforms
  BY DEF TypeOK
<1>3. Nanos(backend, now') \in 0 .. U64Mod - 1
  BY <1>1, <1>2, NanosTyped
<1> QED
  BY <1>3, Constants DEF Clock

\* Before any call nothing is under way.
LEMMA InitIInv == Init => IInv
<1> SUFFICES ASSUME Init PROVE IInv
  OBVIOUS
<1>1. backend \in Platforms
  <2>1. PICK c \in Calls : backend = c[1]
    BY DEF Init
  <2> QED
    BY <2>1, ProcessEventsAssumption
<1>2. TypeOK
  <2>1. failed \in BOOLEAN
    BY DEF Init
  <2> QED
    BY <1>1, <2>1, Constants DEF Init, TypeOK
<1> QED
  BY <1>2 DEF Init, IInv, Underway, Unlimited, Reading, Timed

\* Every step of the call keeps the types, and what it knows of its locals.
LEMMA NextIInv ==
  ASSUME IInv, [Next]_vars
  PROVE  IInv'
<1> USE Constants DEF IInv
<1>1. CASE UNCHANGED vars
  BY <1>1 DEF vars, call, TypeOK, Underway, Unlimited, Reading, Timed, Returned
<1>2. CASE Tick
  <2>1. now + 1 \in 1 .. MaxNow + MaxDelay
    BY <1>2 DEF Tick, TypeOK
  <2> QED
    BY <1>2, <2>1 DEF Tick, call, TypeOK, Underway, Unlimited, Reading, Timed,
                      Returned
<1>3. CASE Arrive
  BY <1>3 DEF Arrive, call, TypeOK, Underway, Unlimited, Reading, Timed,
              Returned
<1>4. CASE \E ms \in {c[2] : c \in Calls} : Call(ms)
  <2>1. PICK ms : Call(ms)
    BY <1>4
  <2>2. ms \in Int
    BY <2>1, CallTyped DEF Call
  <2>3. TypeOK'
    BY <2>1, <2>2 DEF Call, TypeOK, Reading
  <2> QED
    BY <2>1, <2>3 DEF Call, Underway, Unlimited, Reading, Timed, Returned
<1>5. CASE SetDeadline
  <2>1. now' \in 1 .. MaxNow + MaxDelay
    BY <1>5, ElapseTyped DEF SetDeadline
  <2>2. deadline' \in 0 .. U64Mod - 1 /\ failed' \in BOOLEAN
    <3>1. CASE milliseconds < 0
      BY <1>5, <3>1 DEF SetDeadline, TypeOK
    <3>2. CASE ~(milliseconds < 0)
      <4>1. PICK fails \in Failures, product \in Products(milliseconds) :
              /\ deadline' = (Clock(fails) + product) % U64Mod
              /\ failed' = fails
        BY <1>5, <3>2 DEF SetDeadline
      <4>2. milliseconds * NsPerMs \in Int
        BY DEF TypeOK
      <4>3. product \in Int
        BY <4>1, <4>2, AsIntInt DEF Products
      <4>4. Clock(fails) \in Int
        BY <1>5, ClockTyped DEF SetDeadline
      <4>5. U64Mod \in Nat \ {0} /\ Clock(fails) + product \in Int
        BY <4>3, <4>4
      <4>6. (Clock(fails) + product) % U64Mod \in 0 .. U64Mod - 1
        BY <4>5, ModRange
      <4> QED
        BY <4>1, <4>6 DEF Failures
    <3> QED
      BY <3>1, <3>2
  <2>3. TypeOK'
    BY <1>5, <2>1, <2>2 DEF SetDeadline, call, TypeOK
  <2> QED
    BY <1>5, <2>3 DEF SetDeadline, call, Underway, Unlimited, Reading, Timed,
                      TypeOK, Returned
<1>6. CASE FirstReading
  <2>1. now' \in 1 .. MaxNow + MaxDelay
    BY <1>6, ElapseTyped DEF FirstReading
  <2>2. PICK fails \in Failures :
          IF Clock(fails) = 0 \/ deadline = 0
          THEN Return("error")
          ELSE Goto("read") /\ nanos' = Clock(fails)
    BY <1>6 DEF FirstReading
  <2>3. Clock(fails) \in 0 .. U64Mod - 1
    BY <1>6, ClockTyped DEF FirstReading
  <2>4. CASE Return("error")
    BY <1>6, <2>1, <2>4 DEF FirstReading, Return, call, Underway, Unlimited,
                            Reading, Timed, TypeOK, Returned
  <2>5. CASE Goto("read") /\ nanos' = Clock(fails)
    BY <1>6, <2>1, <2>3, <2>5 DEF FirstReading, Goto, call, Underway,
                                  Unlimited, Reading, Timed, TypeOK, Returned
  <2> QED
    BY <2>2, <2>4, <2>5
<1>7. CASE StartRead
  <2>1. now' \in 1 .. MaxNow + MaxDelay /\ now <= now'
    BY <1>7, ElapseTyped DEF StartRead
  <2>2. until' \in Nat \cup {Never}
    <3>1. CASE pc' = "waiting" /\ queued = 0 /\ ~Polls(ReadTimeout)
               /\ ~Blocks(ReadTimeout)
      <4>1. ReadTimeout \in Nat
        BY <3>1, ReadTimeoutInt DEF Polls
      <4>2. ReadTimeout * NsPerMs \in Nat
        BY <4>1, TimesNat
      <4>3. until' = now' + ReadTimeout * NsPerMs
        BY <1>7, <3>1 DEF StartRead
      <4> QED
        BY <2>1, <4>2, <4>3
    <3> QED
      BY <1>7, <3>1 DEF StartRead, TypeOK
  <2>3. TypeOK'
    BY <1>7, <2>1, <2>2 DEF StartRead, call, TypeOK, Reading
  <2> QED
    BY <1>7, <2>1, <2>3 DEF StartRead, call, Underway, Unlimited, Reading,
                            Timed, TypeOK, Returned
<1>8. CASE ReadFails
  BY <1>8 DEF ReadFails, Return, call, TypeOK, Underway, Unlimited, Reading,
              Timed, Returned
<1>9. CASE WakeUp
  BY <1>9 DEF WakeUp, call, TypeOK, Underway, Unlimited, Reading, Timed,
              Returned
<1>10. CASE \E kind \in ReportKinds : Interpret(kind)
  <2>1. PICK kind \in ReportKinds : Interpret(kind)
    BY <1>10
  <2>2. queued' \in 0 .. MaxQueued
    BY <2>1 DEF Interpret, TypeOK, Underway
  <2>3. needed' \in 1 .. FrameReports
    BY <2>1 DEF Interpret, ResetFrame, TypeOK
  <2>4. TypeOK'
    BY <2>1, <2>2, <2>3 DEF Interpret, Goto, Return, call, TypeOK, Reading
  <2> QED
    BY <2>1, <2>4 DEF Interpret, Goto, Return, call, Underway, Unlimited,
                      Reading, Timed, Returned
<1>11. CASE TestDeadline
  <2>1. now' \in 1 .. MaxNow + MaxDelay
    BY <1>11, ElapseTyped DEF TestDeadline
  <2>2. PICK fails \in Failures :
          /\ failed' = (failed \/ fails)
          /\ IF BeforeDeadline(Clock(fails))
             THEN Goto("read") /\ nanos' = Clock(fails)
             ELSE Return("ok")
    BY <1>11 DEF TestDeadline
  <2>3. Clock(fails) \in 0 .. U64Mod - 1
    BY <1>11, ClockTyped DEF TestDeadline
  <2>4. failed' \in BOOLEAN
    BY <2>2
  <2>5. CASE Goto("read") /\ nanos' = Clock(fails)
    BY <1>11, <2>1, <2>3, <2>4, <2>5
    DEF TestDeadline, Goto, call, Underway, Unlimited, Reading, Timed, TypeOK,
        Returned
  <2>6. CASE ~BeforeDeadline(Clock(fails)) /\ Return("ok")
    <3>1. TypeOK' /\ Underway'
      BY <1>11, <2>1, <2>4, <2>6 DEF TestDeadline, Return, call, Underway,
                                     Reading, TypeOK
    <3>2. ~Timed' => Nanos(backend, now)' = U64Mod - 1
      <4> SUFFICES ASSUME ~Timed' PROVE Nanos(backend, now') = U64Mod - 1
        BY <1>11 DEF TestDeadline, call
      <4>1. deadline = U64Mod - 1
        BY <1>11 DEF TestDeadline, call, Timed, Unlimited, Reading
      <4>2. Clock(fails) = U64Mod - 1
        BY <2>3, <2>6, <4>1 DEF BeforeDeadline
      <4> QED
        BY <4>2 DEF Clock
    <3> QED
      BY <2>6, <3>1, <3>2 DEF Unlimited, Return, Reading
  <2> QED
    BY <2>2, <2>5, <2>6
<1> QED
  BY <1>1, <1>2, <1>3, <1>4, <1>5, <1>6, <1>7, <1>8, <1>9, <1>10, <1>11
  DEF Next

\* The inductive invariant holds of every behaviour.
THEOREM Invariance == Spec => []IInv
BY InitIInv, NextIInv, PTL DEF Spec

\* Every variable keeps its type: the deadline and the reading fit uint64_t
\* whatever the timeout and the timer, and no read takes a report that is not
\* there.
THEOREM TypeCorrect == Spec => []TypeOK
BY Invariance, PTL DEF IInv

\* touchmouse_process_events_timeout() with a negative timeout returns only
\* with an image or an error, whatever the reports do and however the timer
\* fails or overflows, unless the timer reads the very deadline.
THEOREM EndsWithImageHolds == Spec => []EndsWithImage
<1>1. IInv => EndsWithImage
  BY DEF IInv, Unlimited, EndsWithImage, Returned
<1> QED
  BY <1>1, Invariance, PTL

-----------------------------------------------------------------------------
(* Calls in range, while the timer works.                                  *)

\* The timeout of a call in range, as the code computes it: no overflow.
LEMMA ProductExact ==
  ASSUME NEW b, NEW ms \in Int, ms >= 0, CallInRange(b, ms),
         NEW product \in Products(ms)
  PROVE  /\ ms * NsPerMs \in Nat
         /\ product = ms * NsPerMs
<1>1. ms * NsPerMs \in Nat
  BY Constants, TimesNat
<1>2. AsInt(ms * NsPerMs) = ms * NsPerMs
  BY <1>1, AsIntSmall DEF CallInRange
<1> QED
  BY <1>1, <1>2 DEF Products

\* A read that starts before the deadline is given at most the time left.
LEMMA TimeLeft ==
  ASSUME TypeOK, nanos <= deadline, deadline - nanos < IntMod \div 2
  PROVE  /\ ReadTimeout \in Nat
         /\ ReadTimeout * NsPerMs \in Nat
         /\ ReadTimeout * NsPerMs <= deadline - nanos
<1> DEFINE left == deadline - nanos
<1>1. left \in 0 .. U64Mod - 1 /\ U64Mod \in Nat \ {0}
  BY Constants DEF TypeOK
<1>2. left % U64Mod = left
  BY <1>1, ModSmall
<1>3. /\ left \div NsPerMs \in Nat /\ (left \div NsPerMs) * NsPerMs <= left
      /\ left \div NsPerMs <= left
  BY <1>1, Constants, DivMul
<1>4. left \div NsPerMs < IntMod \div 2
  BY <1>1, <1>3, ProcessEventsAssumption
<1>5. ReadTimeout = left \div NsPerMs
  BY <1>2, <1>3, <1>4, AsIntSmall DEF ReadTimeout
<1> QED
  BY <1>3, <1>5, Constants, TimesNat

\* A read that starts late, by no more than the code itself takes, does not
\* wait on Linux and Mac.
LEMMA LateReadPolls ==
  ASSUME TypeOK, CallsInRange, backend # "windows",
         deadline < nanos, nanos <= deadline + MaxDelay
  PROVE  Polls(ReadTimeout)
<1> DEFINE late == nanos - deadline
<1>1. late \in 1 .. MaxDelay /\ late \in 1 .. U64Mod - 1
  BY Constants DEF TypeOK
<1>2. (-late) % U64Mod = U64Mod - late
  BY <1>1, Constants, ModNegative
<1>3. deadline - nanos = -late
  BY DEF TypeOK
<1>4. ReadTimeout < -1
  BY <1>1, <1>2, <1>3 DEF ReadTimeout, CallsInRange, LateReadsPoll
<1>5. ReadTimeout \in Int
  BY ReadTimeoutInt
<1> QED
  BY <1>4, <1>5 DEF Polls, Blocks

\* The timeout of a call with one is a natural number.
LEMMA TimeoutNat ==
  ASSUME TypeOK, Timed
  PROVE  Timeout \in Nat
BY Constants, TimesNat DEF TypeOK, Timed, Timeout

\* The timer may be ahead of the time, or behind it.
LEMMA LeadInt ==
  ASSUME TypeOK
  PROVE  Lead \in Int
<1>1. called \in Nat /\ backend \in Platforms
  BY Constants DEF TypeOK
<1> QED
  BY <1>1, NanosTyped DEF Lead

\* During the call the timer stays as far ahead as it was at first.
LEMMA TimeRead ==
  ASSUME TypeOK, Timed, ClockKeepsTime,
         NEW time \in Nat, called <= time,
         time <= called + Timeout + 4 * MaxDelay
  PROVE  /\ Nanos(backend, time) = time + Lead
         /\ time + Lead \in 0 .. U64Mod - 1
<1> DEFINE passed == time - called
<1>1. called \in Nat /\ backend \in Platforms /\ MaxDelay \in Nat
  BY Constants DEF TypeOK
<1>2. Timeout \in Nat
  BY TimeoutNat
<1>3. /\ Nanos(backend, called) \in 0 .. U64Mod - 1
      /\ Nanos(backend, time) \in 0 .. U64Mod - 1
  BY <1>1, NanosTyped
<1>4. passed \in 0 .. Timeout + 4 * MaxDelay /\ called + passed = time
  BY <1>1, <1>2
<1>5. Nanos(backend, called + passed) = Nanos(backend, called) + passed
  BY <1>4 DEF ClockKeepsTime
<1> QED
  BY <1>1, <1>3, <1>4, <1>5 DEF Lead

\* What belongs to the call stays the same during it.
LEMMA SameCall ==
  ASSUME UNCHANGED call
  PROVE  /\ UNCHANGED <<backend, milliseconds, called, Timeout, Lead>>
         /\ Timed' <=> Timed
         /\ ClockKeepsTime' <=> ClockKeepsTime
         /\ CallInRange(backend, milliseconds)'
              <=> CallInRange(backend, milliseconds)
<1>1. UNCHANGED <<backend, milliseconds, called>>
  BY DEF call
<1> QED
  BY <1>1 DEF Timeout, Lead, Timed, ClockKeepsTime, CallInRange, Nanos

\* At first no time has passed.
LEMMA InitOnTime == Init => OnTime
<1> SUFFICES ASSUME Init PROVE OnTime
  OBVIOUS
<1>1. Timeout = 0 /\ now \in Nat /\ MaxDelay \in Nat
  BY Constants DEF Init, Timeout
<1> QED
  BY <1>1 DEF Init, OnTime, Punctual, Reading, Returned

\* SetDeadline puts the deadline a timeout after its reading of the timer.
LEMMA DeadlineSet ==
  ASSUME IInv, Punctual, SetDeadline, Timed, ClockWorks, ~failed',
         CallsInRange
  PROVE  Punctual'
<1>0. PICK time \in 1 .. MaxNow + MaxDelay :
        now' = time /\ now <= time /\ time <= now + MaxDelay
  BY ReadingNamed DEF IInv, SetDeadline
<1>1. /\ CallInRange(backend, milliseconds) /\ now = called
      /\ pc' = "first"
  BY DEF SetDeadline, Punctual
<1>2. Timeout \in Nat /\ Lead \in Int
  BY TimeoutNat, LeadInt DEF IInv
<1>3. time \in Nat /\ MaxDelay \in Nat /\ called \in Nat
  BY <1>0, <1>1, Constants DEF IInv, TypeOK
<1>4. UNCHANGED <<backend, milliseconds, called, Timeout, Lead>>
      /\ CallInRange(backend, milliseconds)'
  BY <1>1, SameCall DEF SetDeadline
<1>5. deadline' = time + Lead + Timeout
  <2>1. PICK fails \in Failures, product \in Products(milliseconds) :
          /\ deadline' = (Clock(fails) + product) % U64Mod
          /\ failed' = fails
    BY DEF SetDeadline, Timed, IInv, TypeOK
  <2>2. Clock(fails) = Nanos(backend, time)
    BY <1>0, <2>1 DEF Clock
  <2>3. Nanos(backend, time) = time + Lead
    BY <1>0, <1>1, <1>2, <1>3, TimeRead DEF IInv, ClockWorks
  <2>4. product = Timeout
    BY <1>1, <2>1, ProductExact DEF Timeout, Timed, IInv, TypeOK
  <2>5. /\ time + Timeout \in Nat /\ called <= time + Timeout
        /\ time + Timeout <= called + Timeout + 4 * MaxDelay
    BY <1>0, <1>1, <1>2, <1>3
  <2>6. (time + Timeout) + Lead \in 0 .. U64Mod - 1
    BY <2>5, TimeRead DEF IInv, ClockWorks
  <2>7. deadline' = (time + Lead + Timeout) % U64Mod
    BY <2>1, <2>2, <2>3, <2>4
  <2>8. time + Lead + Timeout \in 0 .. U64Mod - 1
    BY <1>2, <1>3, <2>6
  <2> QED
    BY <2>7, <2>8, Constants, ModSmall
<1> QED
  BY <1>0, <1>1, <1>2, <1>3, <1>4, <1>5 DEF Punctual, Reading, Returned

\* The first reading of the timer is not after the deadline, or by no more
\* than the code takes where a late read polls.
LEMMA FirstReadingOnTime ==
  ASSUME IInv, Punctual, FirstReading, Timed, ClockWorks
  PROVE  Punctual'
<1>0. PICK time \in 1 .. MaxNow + MaxDelay :
        now' = time /\ now <= time /\ time <= now + MaxDelay
  BY ReadingNamed DEF IInv, FirstReading
<1>1. /\ CallInRange(backend, milliseconds)
      /\ called <= now /\ now <= called + MaxDelay
      /\ called + Timeout <= deadline - Lead
      /\ deadline - Lead <= called + Timeout + MaxDelay
      /\ deadline - Lead = now + Timeout
  BY DEF FirstReading, Punctual
<1>2. Timeout \in Nat /\ Lead \in Int
  BY TimeoutNat, LeadInt DEF IInv
<1>3. /\ time \in Nat /\ now \in Nat /\ MaxDelay \in Nat /\ called \in Nat
      /\ deadline \in Nat
  BY <1>0, Constants DEF IInv, TypeOK
<1>4. UNCHANGED <<backend, milliseconds, called, Timeout, Lead>>
      /\ CallInRange(backend, milliseconds)'
  BY <1>1, SameCall DEF FirstReading
<1>5. PICK fails \in Failures :
        IF Clock(fails) = 0 \/ deadline = 0
        THEN Return("error")
        ELSE Goto("read") /\ nanos' = Clock(fails)
  BY DEF FirstReading
<1>6. CASE Return("error")
  <2>1. now' <= called' + Timeout' + 4 * MaxDelay
    BY <1>0, <1>1, <1>2, <1>3, <1>4
  <2> QED
    BY <1>6, <2>1 DEF Punctual, Return, Reading, Returned
<1>7. CASE /\ ~(Clock(fails) = 0 \/ deadline = 0)
           /\ Goto("read") /\ nanos' = Clock(fails)
  <2>1. Clock(fails) = Nanos(backend, time)
    BY <1>0, <1>7 DEF Clock
  <2>2. called <= time /\ time <= called + Timeout + 4 * MaxDelay
    BY <1>0, <1>1, <1>2, <1>3
  <2>3. Nanos(backend, time) = time + Lead
    BY <1>3, <2>2, TimeRead DEF IInv, ClockWorks
  <2>4. nanos' = time + Lead /\ pc' = "read" /\ deadline' = deadline
    BY <1>7, <2>1, <2>3 DEF Goto
  <2>5. backend = "windows" => MaxDelay <= Timeout
    BY <1>1 DEF CallInRange, Timed, Timeout
  <2>6. /\ deadline' <= nanos' + Timeout'
        /\ \/ nanos' <= deadline'
           \/ backend' # "windows" /\ nanos' <= deadline' + MaxDelay
        /\ now' = nanos' - Lead' /\ called' <= nanos' - Lead'
        /\ called' + Timeout' <= deadline' - Lead'
        /\ deadline' - Lead' <= called' + Timeout' + MaxDelay
    BY <1>0, <1>1, <1>2, <1>3, <1>4, <2>2, <2>4, <2>5
  <2>7. nanos' - Lead' <= now'
    BY <1>0, <1>2, <1>3, <1>4, <2>4
  <2> QED
    BY <1>4, <2>4, <2>6, <2>7 DEF Punctual, Reading, Returned
<1> QED
  BY <1>5, <1>6, <1>7

\* A read times out at the deadline, or after it by no more than the code
\* takes.
LEMMA ReadOnTime ==
  ASSUME IInv, Punctual, StartRead, Timed, CallsInRange
  PROVE  Punctual'
<1>0. PICK time \in 1 .. MaxNow + MaxDelay :
        now' = time /\ now <= time /\ time <= now + MaxDelay
  BY ReadingNamed DEF IInv, StartRead
<1>1. /\ CallInRange(backend, milliseconds) /\ now = nanos - Lead
      /\ called + Timeout <= deadline - Lead
      /\ deadline - Lead <= called + Timeout + MaxDelay
      /\ called <= nanos - Lead
      /\ deadline <= nanos + Timeout
      /\ \/ nanos <= deadline
         \/ backend # "windows" /\ nanos <= deadline + MaxDelay
  BY DEF StartRead, Punctual, Reading
<1>2. Timeout \in Nat /\ Lead \in Int
  BY TimeoutNat, LeadInt DEF IInv
<1>3. /\ time \in Nat /\ now \in Nat /\ MaxDelay \in Nat /\ called \in Nat
      /\ deadline \in Nat /\ nanos \in Nat
  BY <1>0, Constants DEF IInv, TypeOK
<1>4. UNCHANGED <<backend, milliseconds, called, Timeout, Lead>>
      /\ CallInRange(backend, milliseconds)'
  BY <1>1, SameCall DEF StartRead
<1>5. /\ deadline' = deadline /\ nanos' = nanos
      /\ pc' \in {"report", "test", "waiting"}
  BY DEF StartRead
<1>6. ASSUME pc' = "waiting"
      PROVE  until' # Never /\ until' <= deadline - Lead + MaxDelay
  <2>1. /\ ~Polls(ReadTimeout)
        /\ until' = IF Blocks(ReadTimeout) THEN Never
                    ELSE now' + ReadTimeout * NsPerMs
    BY <1>6 DEF StartRead
  <2>2. nanos <= deadline
    BY <1>1, <1>3, <2>1, LateReadPolls DEF IInv
  <2>3. Timeout < IntMod \div 2
    BY <1>1 DEF CallInRange, Timed, Timeout
  <2>4. deadline - nanos < IntMod \div 2
    BY <1>1, <1>2, <1>3, <2>3, ProcessEventsAssumption
  <2>5. /\ ReadTimeout \in Nat /\ ReadTimeout * NsPerMs \in Nat
        /\ ReadTimeout * NsPerMs <= deadline - nanos
    BY <2>2, <2>4, TimeLeft DEF IInv
  <2>6. ~Blocks(ReadTimeout)
    BY <2>5 DEF Blocks
  <2>7. until' = time + ReadTimeout * NsPerMs
    BY <1>0, <2>1, <2>6
  <2> DEFINE wait == ReadTimeout * NsPerMs
  <2>8. until' = time + wait /\ wait \in Nat /\ wait <= deadline - nanos
    BY <2>5, <2>7
  <2> HIDE DEF wait
  <2> QED
    BY <1>0, <1>1, <1>2, <1>3, <2>8 DEF Never
<1>7. /\ time <= deadline - Lead + 2 * MaxDelay
      /\ nanos - Lead <= time
  BY <1>0, <1>1, <1>2, <1>3
<1> QED
  BY <1>0, <1>1, <1>4, <1>5, <1>6, <1>7 DEF Punctual, Reading, Returned

\* At the test of the deadline a call ends, or reads again before it.
LEMMA TestOnTime ==
  ASSUME IInv, Punctual, TestDeadline, Timed, ClockWorks, ~failed'
  PROVE  Punctual'
<1>0. PICK time \in 1 .. MaxNow + MaxDelay :
        now' = time /\ now <= time /\ time <= now + MaxDelay
  BY ReadingNamed DEF IInv, TestDeadline
<1>1. /\ CallInRange(backend, milliseconds)
      /\ called + Timeout <= deadline - Lead
      /\ deadline - Lead <= called + Timeout + MaxDelay
      /\ called <= nanos - Lead /\ nanos - Lead <= now
      /\ deadline <= nanos + Timeout
      /\ now <= deadline - Lead + 2 * MaxDelay
  BY DEF TestDeadline, Punctual, Reading
<1>2. Timeout \in Nat /\ Lead \in Int
  BY TimeoutNat, LeadInt DEF IInv
<1>3. /\ time \in Nat /\ now \in Nat /\ MaxDelay \in Nat /\ called \in Nat
      /\ deadline \in Nat /\ nanos \in Nat
  BY <1>0, Constants DEF IInv, TypeOK
<1>4. UNCHANGED <<backend, milliseconds, called, Timeout, Lead>>
      /\ CallInRange(backend, milliseconds)'
  BY <1>1, SameCall DEF TestDeadline
<1>5. PICK fails \in Failures :
        /\ failed' = (failed \/ fails)
        /\ IF BeforeDeadline(Clock(fails))
           THEN Goto("read") /\ nanos' = Clock(fails)
           ELSE Return("ok")
  BY DEF TestDeadline
<1>6. called <= time /\ time <= called + Timeout + 4 * MaxDelay
  BY <1>0, <1>1, <1>2, <1>3
<1>7. Clock(fails) = time + Lead
  <2>1. Clock(fails) = Nanos(backend, time)
    BY <1>0, <1>5 DEF Clock
  <2> QED
    BY <1>3, <1>6, <2>1, TimeRead DEF IInv, ClockWorks
<1>8. CASE time + Lead < deadline
  <2>1. pc' = "read" /\ nanos' = time + Lead /\ deadline' = deadline
    BY <1>5, <1>7, <1>8 DEF BeforeDeadline, Goto
  <2>2. /\ deadline' <= nanos' + Timeout' /\ nanos' <= deadline'
        /\ now' = nanos' - Lead' /\ called' <= nanos' - Lead'
        /\ nanos' - Lead' <= now'
        /\ called' + Timeout' <= deadline' - Lead'
        /\ deadline' - Lead' <= called' + Timeout' + MaxDelay
    BY <1>0, <1>1, <1>2, <1>3, <1>4, <1>6, <1>8, <2>1
  <2> QED
    BY <1>4, <2>1, <2>2 DEF Punctual, Reading, Returned
<1>9. CASE ~(time + Lead < deadline)
  <2>1. pc' = "idle" /\ result' = "ok"
    BY <1>5, <1>7, <1>9 DEF BeforeDeadline, Return
  <2>2. called' + Timeout' <= now' /\ now' <= called' + Timeout' + 4 * MaxDelay
    BY <1>0, <1>1, <1>2, <1>3, <1>4, <1>6, <1>9
  <2> QED
    BY <2>1, <2>2 DEF Punctual, Reading, Returned
<1> QED
  BY <1>8, <1>9

\* The other steps of a call leave the deadline and, but for the passing of
\* time while it waits, the time alone.
LEMMA RestOnTime ==
  ASSUME IInv, Punctual, Timed,
         Tick \/ Arrive \/ ReadFails \/ WakeUp \/ UNCHANGED vars
           \/ \E kind \in ReportKinds : Interpret(kind)
  PROVE  Punctual'
<1>1. /\ MaxDelay \in Nat /\ Timeout \in Nat /\ Lead \in Int
      /\ now \in Nat /\ called \in Nat /\ deadline \in Nat /\ nanos \in Nat
      /\ until \in Nat \cup {Never}
  BY Constants, TimeoutNat, LeadInt DEF IInv, TypeOK
<1>2. UNCHANGED call
  BY DEF Tick, Arrive, ReadFails, WakeUp, Interpret, vars
<1>3. UNCHANGED <<backend, milliseconds, called, Timeout, Lead>>
      /\ (CallInRange(backend, milliseconds)'
           <=> CallInRange(backend, milliseconds))
  BY <1>2, SameCall
<1>4. CASE Arrive \/ UNCHANGED vars
  BY <1>1, <1>3, <1>4 DEF Arrive, vars, Punctual, Reading, Returned
<1>5. CASE Tick
  <2>1. /\ pc = "waiting" /\ now' = now + 1 /\ until # Never /\ now < until
        /\ UNCHANGED <<pc, deadline, nanos, until>>
    BY <1>5 DEF Tick, Punctual
  <2>2. nanos' - Lead' <= now' /\ now' <= deadline' - Lead' + 2 * MaxDelay
    BY <1>1, <1>3, <2>1 DEF Punctual, Reading, Never
  <2> QED
    BY <1>1, <1>3, <2>1, <2>2 DEF Punctual, Reading, Returned
<1>6. CASE WakeUp
  BY <1>1, <1>3, <1>6 DEF WakeUp, Punctual, Reading, Returned
<1>7. ASSUME pc \in Reading, pc' = "idle", result' # "ok", now' = now
      PROVE  Punctual'
  <2>1. now <= called + Timeout + 4 * MaxDelay
    BY <1>1, <1>7 DEF Punctual, Reading
  <2> QED
    BY <1>3, <1>7, <2>1 DEF Punctual, Reading, Returned
<1>8. CASE ReadFails
  BY <1>7, <1>8 DEF ReadFails, Return, Reading
<1>9. CASE \E kind \in ReportKinds : Interpret(kind)
  <2>1. PICK kind \in ReportKinds : Interpret(kind)
    BY <1>9
  <2>2. CASE Goto("test") /\ nanos' = nanos
    BY <1>1, <1>3, <2>1, <2>2
    DEF Interpret, Goto, Punctual, Reading, Returned
  <2>3. CASE Return("callback") \/ Return("error")
    BY <1>7, <2>1, <2>3 DEF Interpret, Return, Reading
  <2> QED
    BY <2>1, <2>2, <2>3 DEF Interpret
<1> QED
  BY <1>4, <1>5, <1>6, <1>8, <1>9

\* Steps within a call do not mend its timer.
LEMMA WorkedBefore ==
  ASSUME IInv, [Next]_vars, Timed', ClockWorks',
         ~ \E ms \in {c[2] : c \in Calls} : Call(ms)
  PROVE  Timed /\ ClockWorks
<1>1. UNCHANGED call
  BY DEF Next, Tick, Arrive, SetDeadline, FirstReading, StartRead, ReadFails,
         WakeUp, Interpret, TestDeadline, vars
<1>2. Timed /\ ClockKeepsTime
  BY <1>1, SameCall DEF ClockWorks
<1>3. ~failed'
  BY DEF ClockWorks
<1>4. CASE SetDeadline
  BY <1>2, <1>4 DEF SetDeadline, IInv, Underway, ClockWorks
<1>5. CASE TestDeadline
  BY <1>2, <1>3, <1>5 DEF TestDeadline, ClockWorks
<1>6. CASE UNCHANGED failed
  BY <1>2, <1>3, <1>6 DEF ClockWorks
<1> QED
  BY <1>4, <1>5, <1>6 DEF Next, Tick, Arrive, FirstReading, StartRead,
                          ReadFails, WakeUp, Interpret, vars

\* Every step keeps a call on time, or its timer has failed.
LEMMA NextOnTime ==
  ASSUME IInv, OnTime, [Next]_vars, CallsInRange
  PROVE  OnTime'
<1> SUFFICES ASSUME Timed', ClockWorks' PROVE Punctual'
  BY DEF OnTime
<1>1. CASE \E ms \in {c[2] : c \in Calls} : Call(ms)
  <2>1. PICK ms : Call(ms)
    BY <1>1
  <2>2. CallInRange(backend, ms)
    BY <2>1 DEF Call, CallsInRange
  <2>3. CallInRange(backend, milliseconds)'
    BY <2>1, <2>2 DEF Call, CallInRange
  <2> QED
    BY <2>1, <2>3 DEF Call, Punctual, Reading, Returned
<1>2. CASE ~ \E ms \in {c[2] : c \in Calls} : Call(ms)
  <2>1. Timed /\ ClockWorks /\ ~failed'
    BY <1>2, WorkedBefore DEF ClockWorks
  <2>2. Punctual
    BY <2>1 DEF OnTime
  <2> QED
    BY <1>2, <2>1, <2>2, DeadlineSet, FirstReadingOnTime, ReadOnTime,
       TestOnTime, RestOnTime DEF Next
<1> QED
  BY <1>1, <1>2

\* Every call in range keeps to its deadline, step by step, while the timer
\* works.
THEOREM TimedInvariance ==
  ASSUME CallsInRange
  PROVE  Spec => []OnTime
<1>1. Init => OnTime
  BY InitOnTime
<1>2. IInv /\ OnTime /\ [Next]_vars => OnTime'
  BY NextOnTime
<1> QED
  BY <1>1, <1>2, Invariance, PTL DEF Spec

\* touchmouse_process_events_timeout() returns within its timeout and the
\* time its own steps take, however many reports arrive meanwhile, if the
\* timer neither fails nor overflows during the call.
THEOREM InTimeHolds ==
  ASSUME CallsInRange
  PROVE  Spec => []InTime
<1>1. IInv /\ OnTime => InTime
  <2> SUFFICES ASSUME IInv, Punctual, Timed
               PROVE  now <= called + Timeout + 4 * MaxDelay
    BY DEF InTime, WithinTimeout, ClockWorks, OnTime
  <2>1. /\ Timeout \in Nat /\ Lead \in Int /\ MaxDelay \in Nat
        /\ called \in Nat /\ deadline \in Nat /\ nanos \in Nat /\ now \in Nat
        /\ pc \in {"idle", "deadline", "first"} \cup Reading
    BY Constants, TimeoutNat, LeadInt DEF IInv, TypeOK
  <2> QED
    BY <2>1 DEF Punctual, Reading
<1> QED
  BY <1>1, Invariance, TimedInvariance, PTL

\* It does not return for lack of an image before its timeout, if the timer
\* neither fails nor overflows during the call.
THEOREM NotEarlyHolds ==
  ASSUME CallsInRange
  PROVE  Spec => []NotEarly
<1>1. IInv /\ OnTime => NotEarly
  <2> SUFFICES ASSUME IInv, Punctual, Timed, Returned("ok")
               PROVE  now >= called + Timeout
    BY DEF NotEarly, OnTime
  <2>1. Timeout \in Nat /\ called \in Nat /\ now \in Nat
    BY Constants, TimeoutNat DEF IInv, TypeOK
  <2> QED
    BY <2>1 DEF Punctual
<1> QED
  BY <1>1, Invariance, TimedInvariance, PTL

\* With a timeout it never sleeps in hid_read_timeout() without a bound, if
\* the timer neither fails nor overflows during the call.
THEOREM NonblockingReturnsHolds ==
  ASSUME CallsInRange
  PROVE  Spec => []NonblockingReturns
<1>1. OnTime => NonblockingReturns
  BY DEF OnTime, Punctual, NonblockingReturns
<1> QED
  BY <1>1, TimedInvariance, PTL
=============================================================================
