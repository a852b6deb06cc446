------------------------------ MODULE AlutSleep ------------------------------
(***************************************************************************)
(* alutSleep (src/alutUtil.c), on each of the three systems it is written  *)
(* for: with nanosleep, with usleep, and with the Sleep of Windows.        *)
(*                                                                         *)
(* Time is counted in small units, of which the system's own granule (a    *)
(* microsecond or a millisecond) has several, so that what a conversion    *)
(* cuts off can be seen.  While the thread is asleep, time passes unit by  *)
(* unit, and a signal may come at any moment, any number of times.         *)
(***************************************************************************)
EXTENDS Integers, AlutErrors

CONSTANTS
  Micro, Milli, Second,  \* their lengths in units of time
  UIntMod,               \* ALuint counts modulo UIntMod
  Durations              \* arguments of alutSleep, in units of time

\* A second fits into an ALuint of microseconds.  An ALfloat too large for an
\* ALuint has no fraction.
ASSUME SleepAssumption ==
  /\ Micro \in Nat \ {0} /\ Milli \in Nat \ {0} /\ Second \in Nat \ {0}
  /\ UIntMod \in Nat /\ UIntMod * Micro > Second /\ UIntMod * Milli > Second
  /\ Durations \subseteq Int
  /\ \A d \in Durations : d >= UIntMod * Second => d % Second = 0

VARIABLES
  platform,
  duration,   \* the argument
  pc,
  t,          \* what is asked for next, whole seconds and a part: struct
              \* timespec t, or the variables seconds and rest
  left,       \* what is left of the time the system was asked for
  asleep,     \* time spent asleep in this call
  want,       \* the time the arguments of the system calls add up to
  signalled,  \* has a signal come?
  err,
  result      \* "pending", then "AL_TRUE" or "AL_FALSE"

args == <<platform, duration>>
vars == <<args, pc, t, left, asleep, want, signalled, err, result>>

Platforms == {"nanosleep", "usleep", "Sleep"}

Time(seconds, rest) == [sec |-> seconds, rest |-> rest]

Length(time) == time.sec * Second + time.rest

Init ==
  /\ platform \in Platforms
  /\ duration \in Durations
  /\ pc = "called"
  /\ t = Time(0, 0)
  /\ left = 0 /\ asleep = 0 /\ want = 0
  /\ signalled = FALSE
  /\ err = NoError
  /\ result = "pending"

-----------------------------------------------------------------------------
(* The conversions *)

Granule == IF platform = "Sleep" THEN Milli ELSE Micro

\* A number the ALuint can hold is converted to itself.  The others have no
\* conversion in C: a build wraps around, or stops at the largest number.
UInt(n) == IF n < UIntMod THEN {n} ELSE {n % UIntMod, UIntMod - 1}

\* The whole seconds are not taken off the rest.
Split_AllIsRest(d) == {Time(s, d) : s \in UInt(d \div Second)}

\* The whole seconds of the duration and what is left of it.  The largest
\* ALuint is converted back to an ALfloat one larger.
Split(d) ==
  LET s == d \div Second IN
  IF s < UIntMod THEN {Time(s, d % Second)}
  ELSE { Time(s % UIntMod, d - (s % UIntMod) * Second),
         Time(UIntMod - 1, d - UIntMod * Second) }

\* The granules in the rest: they are cut off behind the point, but the product
\* that they are taken of is rounded to an ALfloat before.
Granules(rest) ==
  LET n == rest \div Granule IN
  UNION {UInt(m) : m \in {n} \cup
    (IF rest % Granule # 0 /\ (n + 1) * Granule < Second THEN {n + 1} ELSE {})}

-----------------------------------------------------------------------------
(* The call *)

Returns(res) == pc' = "returned" /\ result' = res

RefuseNegative ==
  /\ pc = "called" /\ duration < 0
  /\ err' = SetError(err, "INVALID_VALUE")
  /\ Returns("AL_FALSE")
  /\ UNCHANGED <<args, t, left, asleep, want, signalled>>

\* seconds, rest and microSecs are computed.
Convert ==
  /\ pc = "called" /\ duration >= 0
  /\ \E s \in Split(duration) : \E n \in Granules(s.rest) :
       t' = Time(s.sec, n * Granule)
  /\ want' = Length(t')
  /\ pc' = "request"
  /\ UNCHANGED <<args, left, asleep, signalled, err, result>>

\* nanosleep wants a fraction of a second, and fails with EINVAL for more.
InvalidTime == platform = "nanosleep" /\ t.rest >= Second

\* Whatever the error is, the call is made once more.
RequestFails_TryAgain ==
  /\ pc = "request" /\ InvalidTime
  /\ UNCHANGED vars

\* An error other than EINTR ends the call, and none is recorded.
RequestFails ==
  /\ pc = "request" /\ InvalidTime
  /\ Returns("AL_FALSE")
  /\ UNCHANGED <<args, t, left, asleep, want, signalled, err>>

\* The thread is suspended: for all of the time, or, where the system takes
\* less than a second, for one second after the other and then for the rest.
Request ==
  /\ pc = "request" /\ ~InvalidTime
  /\ left' = IF platform = "nanosleep" THEN Length(t)
             ELSE IF t.sec > 0 THEN Second ELSE t.rest
  /\ pc' = "asleep"
  /\ UNCHANGED <<args, t, asleep, want, signalled, err, result>>

\* The rest is left out.
AfterSleep_NoRest ==
  IF platform # "nanosleep" /\ t.sec > 1
  THEN /\ t' = [t EXCEPT !.sec = @ - 1]
       /\ pc' = "request"
       /\ UNCHANGED result
  ELSE Returns("AL_TRUE") /\ UNCHANGED t

\* The system call has returned and is not made again: on to the next second,
\* or back to the caller.
AfterSleep ==
  IF platform # "nanosleep" /\ t.sec > 0
  THEN /\ t' = [t EXCEPT !.sec = @ - 1]
       /\ pc' = "request"
       /\ UNCHANGED result
  ELSE Returns("AL_TRUE") /\ UNCHANGED t

Wake ==
  /\ pc = "asleep" /\ left = 0
  /\ AfterSleep
  /\ UNCHANGED <<args, left, asleep, want, signalled, err>>

\* The time is asked for again from the start.
TryAgain_SameTime ==
  /\ pc = "interrupted"
  /\ pc' = "request"
  /\ UNCHANGED <<args, t, left, asleep, want, signalled, err, result>>

\* After EINTR, with the remaining time.
TryAgain ==
  /\ pc = "interrupted"
  /\ t' = Time(left \div Second, left % Second)
  /\ pc' = "request"
  /\ UNCHANGED <<args, left, asleep, want, signalled, err, result>>

-----------------------------------------------------------------------------
(* The system *)

TimePasses ==
  /\ pc = "asleep" /\ left > 0
  /\ left' = left - 1
  /\ asleep' = asleep + 1
  /\ UNCHANGED <<args, pc, t, want, signalled, err, result>>

\* A signal ends the system call: nanosleep says what remains of it (left, put
\* into remainingTime), usleep does not.  There are none on Windows.
Signal ==
  /\ pc = "asleep" /\ left > 0 /\ platform # "Sleep"
  /\ signalled' = TRUE
  /\ IF platform = "nanosleep"
     THEN pc' = "interrupted" /\ UNCHANGED <<t, left, result>>
     ELSE AfterSleep /\ left' = 0
  /\ UNCHANGED <<args, asleep, want, err>>

Returned == pc = "returned" /\ UNCHANGED vars

Code == RefuseNegative \/ Convert \/ RequestFails \/ Request \/ Wake \/ TryAgain

Next == Code \/ TimePasses \/ Signal \/ Returned

\* The thread runs when it is not asleep.  Time cannot be kept from passing:
\* however often signals wake the thread, it has slept a little in between.
Fairness == WF_vars(Code) /\ SF_vars(TimePasses)

Spec == Init /\ [][Next]_vars /\ Fairness

-----------------------------------------------------------------------------
(* Properties *)

TypeOK ==
  /\ platform \in Platforms /\ duration \in Durations
  /\ pc \in {"called", "request", "asleep", "interrupted", "returned"}
  /\ t \in [sec : Nat, rest : Nat]
  /\ left \in Nat /\ asleep \in Nat /\ want \in Nat
  /\ signalled \in BOOLEAN
  /\ err \in {NoError, "INVALID_VALUE"}
  /\ result \in {"pending", "AL_TRUE", "AL_FALSE"}

\* Durations an ALuint of seconds can hold.
InRange == duration >= 0 /\ duration < UIntMod * Second

\* However often nanosleep is interrupted, the pieces add up to the time that
\* was wanted: nothing is slept twice, and nothing is left out.
PiecesAddUp ==
  platform = "nanosleep" =>
    /\ pc \in {"asleep", "interrupted"} => asleep + left = want
    /\ pc = "request" => asleep + Length(t) = want
    /\ pc = "returned" /\ result = "AL_TRUE" => asleep = want

\* usleep does not say what a signal has left of its time.
CutShort == platform = "usleep" /\ signalled

\* On every system, a call with a duration in range returns AL_TRUE after at
\* least that time, less than a granule cut off (doc/alut.html:1373 says "at least
\* the given amount of seconds"); only usleep is cut short by a signal.  And no
\* call sleeps a granule longer, whatever the signals.
SleepsAsLongAsAsked ==
  InRange =>
    /\ asleep < duration + Granule
    /\ pc = "returned" /\ ~CutShort =>
         result = "AL_TRUE" /\ asleep > duration - Granule

\* A call fails for a negative duration, with an error, or for one an ALuint
\* cannot hold, with none (doc/alut.html:1382 says that it "will always succeed
\* if the duration is non-negative").
FailsOnlyOutOfRange ==
  result = "AL_FALSE" => ~InRange /\ (duration < 0 <=> err = "INVALID_VALUE")

\* alutSleep returns, even when signals never cease: each piece is shorter than
\* the one before.
SleepReturns == <>(pc = "returned")

=============================================================================
