--------------------------- MODULE ProcessEvents ---------------------------
(***************************************************************************)
(* The timing of touchmouse_process_events_timeout() in src/touchmouse.c:  *)
(* the deadline, the timeout given to each hid_read_timeout(), and when    *)
(* the call returns.  Decoding is reduced to what a report does to the     *)
(* frame: it adds to it, completes it, breaks it, or is not a touch report.*)
(*                                                                         *)
(* Time is counted in nanoseconds since the start of the machine; what     *)
(* mono_timer_nanos() makes of it is a matter of its own.  The arithmetic  *)
(* is that of the code at a smaller scale: int has IntMod values and       *)
(* uint64_t U64Mod, NsPerMs stands for 1000000.                            *)
(***************************************************************************)
EXTENDS Integers

CONSTANTS
  IntMod, U64Mod, NsPerMs,
  Divisors,      \* by which mono_timer_nanos() divides, on each platform
  Calls,         \* pairs of a platform and a timeout clients pass there
  StartTimes,    \* times at which a client may call
  MaxNow,        \* bound: time stops here
  MaxDelay,      \* bound: time between two steps of the running code
  FrameReports,  \* touch reports that make up an image
  MaxQueued,     \* bound: reports waiting in HIDAPI
  ReportKinds    \* what arrives, a subset of {"touch", "other", "broken"}

Platforms == {"linux", "mac", "windows"}

ASSUME ProcessEventsAssumption ==
  /\ IntMod \in Nat \ {0} /\ U64Mod \in Nat \ {0, 1} /\ NsPerMs \in Nat \ {0}
  /\ Divisors \in [Platforms -> Nat \ {0}]
  /\ FrameReports \in Nat \ {0} /\ MaxQueued \in Nat \ {0}
  /\ IntMod % 2 = 0
  /\ MaxNow \in Nat /\ MaxDelay \in Nat
  /\ Calls \subseteq Platforms \X (-(IntMod \div 2) .. IntMod \div 2 - 1)
  /\ StartTimes \subseteq 1 .. MaxNow
  /\ ReportKinds \subseteq {"touch", "other", "broken"}

VARIABLES
  backend,        \* the platform: its HIDAPI backend and its timer
  pc,             \* the step the call is at
  milliseconds, deadline, nanos,      \* parameter and locals of the call
  until,          \* when the read in progress times out
  needed,         \* touch reports the frame still needs
  queued,         \* reports waiting in HIDAPI
  now,            \* time
  result,         \* how the last call returned
  called,         \* history: when the call was made
  failed          \* history: the call uses a reading of the timer that failed

call == <<backend, milliseconds, called>>
vars == <<pc, deadline, nanos, until, needed, queued, now, result, call,
          failed>>

Never == -1                           \* when a read without a limit times out

Reading == {"read", "waiting", "report", "test"}   \* the steps of the loop

TypeOK ==
  /\ backend \in Platforms /\ failed \in BOOLEAN
  /\ pc \in {"idle", "deadline", "first"} \cup Reading
  /\ milliseconds \in Int
  /\ deadline \in 0 .. U64Mod - 1 /\ nanos \in 0 .. U64Mod - 1
  /\ until \in Nat \cup {Never}
  /\ needed \in 1 .. FrameReports /\ queued \in 0 .. MaxQueued
  /\ now \in 1 .. MaxNow + MaxDelay /\ called \in StartTimes
  /\ result \in {"none", "ok", "callback", "error", "fatal"}

Init ==
  /\ backend \in {c[1] : c \in Calls}
  /\ pc = "idle" /\ result = "none"
  /\ milliseconds = 0 /\ deadline = 0 /\ nanos = 0 /\ until = 0
  /\ needed \in 1 .. FrameReports /\ queued \in 0 .. MaxQueued
  /\ now \in StartTimes
  /\ called = now /\ failed = FALSE

-----------------------------------------------------------------------------
(* Machine arithmetic.                                                     *)

\* Conversion to int: wraps.
AsInt(x) == LET y == x % IntMod IN IF y < IntMod \div 2 THEN y ELSE y - IntMod

\* milliseconds * 1000000 in type int.  An overflow is undefined: compilers
\* wrap the product, or keep the wide product of a 64-bit multiplication.
Products(ms) == {AsInt(ms * NsPerMs), ms * NsPerMs}

\* Mutant of ReadTimeout: every read gets the whole timeout.
WholeTimeout == AsInt(milliseconds)

\* The timeout argument: (deadline - nanos) / 1000000, converted to int.
ReadTimeout == AsInt(((deadline - nanos) % U64Mod) \div NsPerMs)

-----------------------------------------------------------------------------
(* Time and the timer.                                                     *)

\* The running code takes some time, less at the bound of time.
Elapse == now' \in now .. (IF now < MaxNow THEN now + MaxDelay ELSE now)

\* What mono_timer_nanos() makes of a time: the counter of the platform is
\* multiplied so that the product is time * Divisors[b], which has 64 bits, and
\* divided by Divisors[b].  On Windows the product is signed: its overflow is
\* undefined in C, and the multiplication wraps; the division then rounds
\* towards 0, and the cast makes a large number of a negative quotient.
Nanos(b, time) ==
  LET product == (time * Divisors[b]) % U64Mod
  IN  IF b = "windows" /\ product >= U64Mod \div 2
      THEN (-((U64Mod - product) \div Divisors[b])) % U64Mod
      ELSE product \div Divisors[b]

\* Whether a reading of the timer fails: any of Linux and Windows may.
Failures == IF backend = "mac" THEN {FALSE} ELSE BOOLEAN

\* mono_timer_nanos(), which returns 0 when it fails.
Clock(fails) == IF fails THEN 0 ELSE Nanos(backend, now')

\* Time passes while the call sleeps.
Tick ==
  /\ pc = "waiting" /\ (until = Never \/ now < until)
  /\ now < MaxNow
  /\ now' = now + 1
  /\ UNCHANGED <<pc, deadline, nanos, until, needed, queued, result, call,
                 failed>>

Arrive ==
  /\ queued < MaxQueued
  /\ queued' = queued + 1
  /\ UNCHANGED <<pc, deadline, nanos, until, needed, now, result, call,
                 failed>>

-----------------------------------------------------------------------------
(* touchmouse_process_events_timeout()                                     *)

Call(ms) ==
  /\ pc = "idle" /\ now \in StartTimes /\ <<backend, ms>> \in Calls
  /\ pc' = "deadline" /\ result' = "none"
  /\ milliseconds' = ms
  /\ called' = now /\ failed' = FALSE
  /\ UNCHANGED <<backend, deadline, nanos, until, needed, queued, now>>

\* The locals of the call die with it.
Return(value) ==
  /\ pc' = "idle" /\ result' = value
  /\ deadline' = 0 /\ nanos' = 0 /\ until' = 0
Goto(step) == pc' = step /\ UNCHANGED <<result, deadline, until>>

\* Mutant of SetDeadline: negative timeouts are not singled out.
SetDeadlineAlways ==
  /\ pc = "deadline"
  /\ Elapse
  /\ \E fails \in Failures, product \in Products(milliseconds) :
       /\ deadline' = (Clock(fails) + product) % U64Mod
       /\ failed' = fails
  /\ pc' = "first"
  /\ UNCHANGED <<nanos, until, needed, queued, result, call>>

SetDeadline ==
  /\ pc = "deadline"
  /\ Elapse
  /\ IF milliseconds < 0
     THEN deadline' = U64Mod - 1 /\ UNCHANGED failed
     ELSE \E fails \in Failures, product \in Products(milliseconds) :
            /\ deadline' = (Clock(fails) + product) % U64Mod
            /\ failed' = fails
  /\ pc' = "first"
  /\ UNCHANGED <<nanos, until, needed, queued, result, call>>

\* A reading of 0 ends the call; that of SetDeadline does so with the timeout 0
\* only, since it is the deadline that is compared.
FirstReading ==
  /\ pc = "first"
  /\ Elapse
  /\ \E fails \in Failures :
       IF Clock(fails) = 0 \/ deadline = 0
       THEN Return("error")
       ELSE Goto("read") /\ nanos' = Clock(fails)
  /\ UNCHANGED <<needed, queued, call, failed>>

\* hid_read_timeout() without a queued report: -1 blocks on Linux and Mac,
\* every negative timeout blocks on Windows.
Blocks(timeout) == IF backend = "windows" THEN timeout < 0 ELSE timeout = -1
Polls(timeout)  == ~Blocks(timeout) /\ timeout <= 0

StartRead ==
  /\ pc = "read"
  /\ Elapse
  /\ \/ queued > 0 /\ pc' = "report" /\ UNCHANGED until
     \/ queued = 0 /\ Polls(ReadTimeout) /\ pc' = "test" /\ UNCHANGED until
     \/ /\ queued = 0 /\ ~Polls(ReadTimeout)
        /\ pc' = "waiting"
        /\ until' = IF Blocks(ReadTimeout) THEN Never
                    ELSE now' + ReadTimeout * NsPerMs
  /\ UNCHANGED <<deadline, nanos, needed, queued, result, call, failed>>

ReadFails ==
  /\ pc \in {"read", "waiting"}
  /\ Return("fatal")
  /\ UNCHANGED <<needed, queued, now, call, failed>>

WakeUp ==
  /\ pc = "waiting"
  /\ \/ queued > 0 /\ pc' = "report"
     \/ until # Never /\ now >= until /\ pc' = "test"
  /\ UNCHANGED <<deadline, nanos, until, needed, queued, now, result, call,
                 failed>>

\* reset_decoder(); its mutant forgets the reset after an image.
KeepFrame == needed' = needed - 1
ResetFrame == needed' = FrameReports

Interpret(kind) ==
  /\ pc = "report"
  /\ queued' = queued - 1
  /\ \/ /\ kind = "other"
        /\ Goto("test") /\ UNCHANGED <<nanos, needed>>
     \/ /\ kind = "touch" /\ needed > 1
        /\ needed' = needed - 1
        /\ Goto("test") /\ UNCHANGED nanos
     \/ /\ kind = "touch" /\ needed = 1
        /\ ResetFrame
        /\ Return("callback")
     \/ /\ kind = "broken"
        /\ ResetFrame
        /\ Return("error")
  /\ UNCHANGED <<now, call, failed>>

\* Mutants of BeforeDeadline: off by a millisecond, either way.
AlmostDeadline(time) == time + NsPerMs < deadline
AroundDeadline(time) == time < deadline + NsPerMs

BeforeDeadline(time) == time < deadline

TestDeadline ==
  /\ pc = "test"
  /\ Elapse
  /\ \E fails \in Failures :
       /\ failed' = (failed \/ fails)
       /\ IF BeforeDeadline(Clock(fails))
          THEN Goto("read") /\ nanos' = Clock(fails)
          ELSE Return("ok")
  /\ UNCHANGED <<needed, queued, call>>

Next ==
  \/ Tick \/ Arrive
  \/ \E ms \in {c[2] : c \in Calls} : Call(ms)
  \/ SetDeadline \/ FirstReading
  \/ StartRead \/ ReadFails \/ WakeUp
  \/ \E kind \in ReportKinds : Interpret(kind)
  \/ TestDeadline

Spec == Init /\ [][Next]_vars

-----------------------------------------------------------------------------
(* Properties.                                                             *)

Returned(value) == pc = "idle" /\ result = value
Timed == milliseconds >= 0
Timeout == milliseconds * NsPerMs

\* The timer neither jumps nor wraps from the call to its last reading.
ClockKeepsTime ==
  \A passed \in 0 .. Timeout + 4 * MaxDelay :
    Nanos(backend, called + passed) = Nanos(backend, called) + passed

\* No reading on which the call relies failed, or fell on the far side of an
\* overflow of mono_timer_nanos().
ClockWorks == ~failed /\ ClockKeepsTime

\* A positive timeout is a maximum, up to the time the code itself takes around
\* one read, unless a reading of the timer failed.
WithinTimeout ==
  Timed /\ ~failed => now <= called + Timeout + 4 * MaxDelay

\* A call with a timeout is late only if a reading failed or the timer jumped
\* or wrapped, however many unrelated or partial reports arrive.
InTime == WithinTimeout \/ ~ClockKeepsTime

\* A call does not give up before its timeout while the timer works: it
\* returns early only with an image or an error.
NotEarly ==
  Timed /\ Returned("ok") /\ ClockWorks => now >= called + Timeout

\* A call with a negative timeout ends with an image or an error, whatever the
\* timer does.  It is empty only if the last reading was the largest number
\* there is, which is its deadline; on Windows that happens.
EndsWithImage ==
  ~Timed /\ Returned("ok") => Nanos(backend, now) = U64Mod - 1

\* A timed or nonblocking call sleeps without a bound only if the timer does
\* not work.
NonblockingReturns ==
  Timed /\ pc = "waiting" /\ until = Never => ~ClockWorks

-----------------------------------------------------------------------------
(* What a client must keep to for its timeouts to mean what they say.      *)

\* The product fits int; on Windows, where every negative timeout blocks, the
\* deadline is not over at the first reading.
CallInRange(b, ms) ==
  ms >= 0 =>
    /\ ms * NsPerMs < IntMod \div 2
    /\ b = "windows" => ms * NsPerMs >= MaxDelay

\* The timeout of a read that is late for its deadline, a wrapped difference,
\* is below -1 as an int: on Linux and Mac such a read polls.
LateReadsPoll ==
  \A late \in 1 .. MaxDelay : AsInt((U64Mod - late) \div NsPerMs) < -1

CallsInRange == LateReadsPoll /\ \A c \in Calls : CallInRange(c[1], c[2])
=============================================================================
