--------------------------- MODULE AlutSleep_proofs ---------------------------
(***************************************************************************)
(* How long alutSleep sleeps, for every duration, every granule and every  *)
(* size of an ALuint, and however many signals come.                       *)
(***************************************************************************)
EXTENDS AlutSleep, TLAPS

-----------------------------------------------------------------------------
(* Arithmetic of the conversions *)

\* A number is its whole parts and what is left of it.
LEMMA DivMod ==
  ASSUME NEW n \in Nat, NEW g \in Nat \ {0}
  PROVE  /\ n \div g \in Nat /\ n % g \in Nat
         /\ n = ((n \div g) * g) + (n % g)
         /\ n % g < g
OBVIOUS

\* A second of granules fits into an ALuint on every system.
LEMMA GranuleType ==
  ASSUME platform \in Platforms
  PROVE  Granule \in Nat \ {0} /\ UIntMod * Granule > Second
BY SleepAssumption DEF Granule, Platforms

\* An ALuint has at least one value.
LEMMA UIntModPositive == UIntMod \in Nat \ {0}
BY SleepAssumption

\* What a conversion to ALuint makes of a number is a number, and that number
\* when it fits.
LEMMA UIntType ==
  ASSUME NEW n \in Nat
  PROVE  UInt(n) \subseteq Nat /\ (n < UIntMod => UInt(n) = {n})
BY UIntModPositive, DivMod DEF UInt

\* A product grows with its factor.
LEMMA Monotone ==
  ASSUME NEW a \in Nat, NEW b \in Nat, NEW g \in Nat, a >= b
  PROVE  a * g >= b * g
<1>1. (a - b) * g >= 0
  OBVIOUS
<1> QED BY <1>1

\* When the product is less, so is the factor.
LEMMA Smaller ==
  ASSUME NEW a \in Nat, NEW b \in Nat, NEW g \in Nat, a * g < b * g
  PROVE  a < b
BY Monotone

\* A duration is taken apart into numbers, and when the ALuint can hold its
\* seconds, nothing is lost.
LEMMA SplitType ==
  ASSUME NEW d \in Durations, d >= 0, NEW time \in Split(d)
  PROVE  /\ time \in [sec : Nat, rest : Nat]
         /\ d < UIntMod * Second => time.rest < Second /\ Length(time) = d
<1> DEFINE s == d \div Second
<1>0. d \in Nat /\ Second \in Nat \ {0} /\ UIntMod \in Nat \ {0}
  BY SleepAssumption, UIntModPositive
<1>1. /\ s \in Nat /\ d % Second \in Nat /\ d % Second < Second
      /\ d = (s * Second) + (d % Second)
  BY <1>0, DivMod
<1>2. CASE s < UIntMod
  <2>1. time = Time(s, d % Second)
    BY <1>2 DEF Split
  <2> QED BY <1>0, <1>1, <2>1 DEF Time, Length
<1>3. CASE ~(s < UIntMod)
  <2>1. ~(d < UIntMod * Second)
    <3>1. s * Second >= UIntMod * Second
      BY <1>0, <1>1, <1>3, Monotone
    <3> HIDE DEF s
    <3> QED BY <1>0, <1>1, <3>1
  <2>2. s % UIntMod \in Nat /\ s % UIntMod <= s
    BY <1>0, <1>1, <1>3, DivMod
  <2>3. (s % UIntMod) * Second <= s * Second
    BY <1>0, <1>1, <2>2, Monotone
  <2>4. /\ d - (s % UIntMod) * Second \in Nat
        /\ d - UIntMod * Second \in Nat
    <3> HIDE DEF s
    <3> QED BY <1>0, <1>1, <2>1, <2>2, <2>3
  <2>5. \/ time = Time(s % UIntMod, d - (s % UIntMod) * Second)
        \/ time = Time(UIntMod - 1, d - UIntMod * Second)
    BY <1>3 DEF Split
  <2> QED BY <1>0, <2>1, <2>2, <2>4, <2>5 DEF Time
<1> QED BY <1>2, <1>3

\* The rest of a second is given to the system with less than a granule too
\* little or too much, and is still less than a second.
LEMMA GranulesType ==
  ASSUME platform \in Platforms, NEW rest \in Nat, NEW n \in Granules(rest)
  PROVE  /\ n \in Nat
         /\ rest < Second =>
              /\ n * Granule < Second
              /\ n * Granule > rest - Granule
              /\ n * Granule < rest + Granule
<1> DEFINE m == rest \div Granule
<1>0. /\ Granule \in Nat \ {0} /\ Second \in Nat /\ UIntMod \in Nat
      /\ Second < UIntMod * Granule
  BY GranuleType, SleepAssumption
<1>1. /\ m \in Nat /\ rest % Granule \in Nat /\ rest % Granule < Granule
      /\ rest = (m * Granule) + (rest % Granule)
  BY <1>0, DivMod
<1>2. \/ n \in UInt(m)
      \/ n \in UInt(m + 1) /\ rest % Granule # 0 /\ (m + 1) * Granule < Second
  BY DEF Granules
<1>3. n \in Nat
  BY <1>1, <1>2, UIntType
<1>4. ASSUME rest < Second
      PROVE  n = m \/ (n = m + 1 /\ rest % Granule # 0 /\ (m + 1) * Granule < Second)
  <2> HIDE DEF m
  <2>1. m * Granule < UIntMod * Granule
    BY <1>0, <1>1, <1>4
  <2>2. m < UIntMod
    BY <1>0, <1>1, <2>1, Smaller
  <2>3. (m + 1) * Granule < Second => m + 1 < UIntMod
    <3> SUFFICES ASSUME (m + 1) * Granule < Second
                 PROVE  m + 1 < UIntMod
      OBVIOUS
    <3>1. (m + 1) * Granule < UIntMod * Granule
      BY <1>0, <1>1
    <3> QED BY <1>0, <1>1, <3>1, Smaller
  <2> QED BY <1>1, <1>2, <2>2, <2>3, UIntType
<1>5. (m + 1) * Granule = m * Granule + Granule
  BY <1>0, <1>1
<1> HIDE DEF m
<1> QED BY <1>0, <1>1, <1>3, <1>4, <1>5

-----------------------------------------------------------------------------
(* Types *)

\* Every reachable state is well typed: no conversion of the duration and no
\* subtraction of a second goes below zero.
THEOREM TypeCorrect == Spec => []TypeOK
<1> USE DEF TypeOK, NoError
<1>1. Init => TypeOK
  <2> SUFFICES ASSUME Init
               PROVE  TypeOK
    OBVIOUS
  <2>1. t \in [sec : Nat, rest : Nat]
    BY DEF Init, Time
  <2> QED BY <2>1 DEF Init
<1>2. TypeOK /\ [Next]_vars => TypeOK'
  <2> SUFFICES ASSUME TypeOK, [Next]_vars
               PROVE  TypeOK'
    OBVIOUS
  <2>0. ASSUME AfterSleep
        PROVE  /\ t' \in [sec : Nat, rest : Nat]
               /\ pc' \in {"request", "returned"}
               /\ result' \in {"pending", "AL_TRUE"} \cup {result}
    BY <2>0 DEF AfterSleep, Returns
  <2>1. CASE RefuseNegative
    BY <2>1 DEF RefuseNegative, Returns, SetError, args
  <2>2. CASE Convert
    <3>0. PICK s \in Split(duration) : \E n \in Granules(s.rest) :
            t' = Time(s.sec, n * Granule)
      BY <2>2 DEF Convert
    <3>1. PICK n \in Granules(s.rest) : t' = Time(s.sec, n * Granule)
      BY <3>0
    <3>2. s \in [sec : Nat, rest : Nat] /\ n \in Nat /\ Granule \in Nat
      BY <2>2, <3>1, SplitType, GranulesType, GranuleType DEF Convert
    <3>3. t' \in [sec : Nat, rest : Nat]
      BY <3>1, <3>2 DEF Time
    <3>4. Length(t') \in Nat
      BY <3>3, SleepAssumption DEF Length
    <3> QED BY <2>2, <3>3, <3>4 DEF Convert, args
  <2>3. CASE RequestFails
    BY <2>3 DEF RequestFails, Returns, args
  <2>4. CASE Request
    BY <2>4, SleepAssumption DEF Request, Length, args
  <2>5. CASE Wake
    BY <2>0, <2>5 DEF Wake, args
  <2>6. CASE TryAgain
    <3>1. left \div Second \in Nat /\ left % Second \in Nat
      BY DivMod, SleepAssumption
    <3> QED BY <2>6, <3>1 DEF TryAgain, Time, args
  <2>7. CASE TimePasses
    BY <2>7 DEF TimePasses, args
  <2>8. CASE Signal
    BY <2>0, <2>8 DEF Signal, args
  <2>9. CASE UNCHANGED vars
    BY <2>9 DEF vars, args
  <2> QED BY <2>1, <2>2, <2>3, <2>4, <2>5, <2>6, <2>7, <2>8, <2>9
          DEF Next, Code, Returned
<1> QED BY <1>1, <1>2, PTL DEF Spec

-----------------------------------------------------------------------------
(* The inductive invariant *)

\* What is still to be slept after the piece the system is asked for.
Later == IF platform = "nanosleep" \/ t.sec = 0 THEN 0 ELSE Length(t) - Second

\* What is still to be slept.
Due ==
  CASE pc = "request" -> Length(t)
    [] pc = "asleep" -> left + Later
    [] pc = "interrupted" -> left
    [] OTHER -> 0

\* What was slept and what is due are what was wanted, or less after a signal
\* has ended a usleep.
Balanced ==
  /\ asleep + Due <= want
  /\ ~CutShort /\ result # "AL_FALSE" => asleep + Due = want
  /\ pc = "interrupted" => platform = "nanosleep"

\* What is wanted is the duration, up to a granule, and can be asked for.
Wanted ==
  /\ pc = "called" => want = 0
  /\ InRange => t.rest < Second
  /\ InRange /\ pc # "called" =>
       want > duration - Granule /\ want < duration + Granule

Outcome ==
  /\ pc = "returned" <=> result # "pending"
  /\ result # "AL_FALSE" => err = NoError
  /\ pc \notin {"called", "returned"} => duration >= 0
  /\ FailsOnlyOutOfRange

SleepInv == TypeOK /\ Balanced /\ Wanted /\ Outcome

\* A second less to sleep is a whole second less of time.
LEMMA SecondOff ==
  ASSUME NEW sec \in Nat, NEW rest \in Nat
  PROVE  /\ Length([sec |-> sec, rest |-> rest]) \in Nat
         /\ sec > 0 => Length([sec |-> sec - 1, rest |-> rest]) =
                        Length([sec |-> sec, rest |-> rest]) - Second
         /\ sec > 0 => Length([sec |-> sec, rest |-> rest]) >= Second
         /\ sec = 0 => Length([sec |-> sec, rest |-> rest]) = rest
<1>0. Second \in Nat
  BY SleepAssumption
<1>1. sec * Second \in Nat /\ (sec - 1) * Second = (sec * Second) - Second
  BY <1>0
<1>2. sec > 0 => sec * Second >= 1 * Second
  BY <1>0, Monotone
<1>3. sec = 0 => sec * Second = 0
  BY <1>0
<1> QED BY <1>0, <1>1, <1>2, <1>3 DEF Length

\* The time after the next piece is never negative.
LEMMA LaterType ==
  ASSUME TypeOK
  PROVE  /\ Later \in Nat /\ Length(t) \in Nat
         /\ platform # "nanosleep" /\ t.sec = 0 => Length(t) = t.rest
<1>1. t = [sec |-> t.sec, rest |-> t.rest] /\ t.sec \in Nat /\ t.rest \in Nat
  BY DEF TypeOK
<1>2. Second \in Nat
  BY SleepAssumption
<1>3. /\ Length(t) \in Nat
      /\ t.sec > 0 => Length(t) >= Second
      /\ t.sec = 0 => Length(t) = t.rest
  <2> DEFINE sec == t.sec
             rest == t.rest
  <2>1. sec \in Nat /\ rest \in Nat /\ t = [sec |-> sec, rest |-> rest]
    BY <1>1
  <2> HIDE DEF sec, rest
  <2>2. /\ Length([sec |-> sec, rest |-> rest]) \in Nat
        /\ sec > 0 => Length([sec |-> sec, rest |-> rest]) >= Second
        /\ sec = 0 => Length([sec |-> sec, rest |-> rest]) = rest
    BY <2>1, SecondOff
  <2> QED BY <2>1, <2>2 DEF sec, rest
<1> QED BY <1>1, <1>2, <1>3 DEF Later

\* When a piece is over, what is still to be slept is the time after it.
LEMMA AfterPiece ==
  ASSUME TypeOK, AfterSleep, platform' = platform, pc = "asleep"
  PROVE  /\ Due' = Later
         /\ t'.rest = t.rest
         /\ pc' # "interrupted" /\ pc' # "called"
         /\ \/ pc' = "returned" /\ result' = "AL_TRUE"
            \/ pc' = "request" /\ result' = result
<1>1. /\ t = [sec |-> t.sec, rest |-> t.rest]
      /\ t.sec \in Nat /\ t.rest \in Nat
  BY DEF TypeOK
<1>2. CASE platform # "nanosleep" /\ t.sec > 0
  <2>1. t' = [sec |-> t.sec - 1, rest |-> t.rest] /\ pc' = "request"
    BY <1>1, <1>2 DEF AfterSleep
  <2>2. Length(t') = Length(t) - Second
    BY <1>1, <1>2, <2>1, SecondOff
  <2> QED BY <1>1, <1>2, <2>1, <2>2 DEF AfterSleep, Due, Later
<1>3. CASE ~(platform # "nanosleep" /\ t.sec > 0)
  BY <1>1, <1>3 DEF AfterSleep, Due, Later, Returns
<1> QED BY <1>2, <1>3

\* The invariant holds in every reachable state; the properties follow from it.
THEOREM Inductive == Spec => []SleepInv
<1>1. Init => SleepInv
  <2> SUFFICES ASSUME Init
               PROVE  SleepInv
    OBVIOUS
  <2>1. TypeOK
    BY SleepAssumption DEF Init, TypeOK, Time, NoError
  <2>2. Balanced
    BY DEF Init, Balanced, Due
  <2>3. Wanted
    BY SleepAssumption DEF Init, Wanted, Time
  <2>4. Outcome
    BY DEF Init, Outcome, FailsOnlyOutOfRange
  <2> QED BY <2>1, <2>2, <2>3, <2>4 DEF SleepInv
<1>2. SleepInv /\ TypeOK' /\ [Next]_vars => SleepInv'
  <2> SUFFICES ASSUME SleepInv, TypeOK', [Next]_vars
               PROVE  Balanced' /\ Wanted' /\ Outcome'
    BY DEF SleepInv
  <2> USE DEF TypeOK
  <2>0. TypeOK /\ Balanced /\ Wanted /\ Outcome /\ duration \in Int
    BY SleepAssumption DEF SleepInv
  <2>1. CASE RefuseNegative
    <3>1. /\ pc = "called" /\ duration < 0 /\ pc' = "returned"
          /\ result' = "AL_FALSE" /\ err' = "INVALID_VALUE"
          /\ asleep' = asleep /\ want' = want /\ duration' = duration
      BY <2>0, <2>1 DEF RefuseNegative, Returns, args, SetError, Outcome
    <3>2. Balanced'
      BY <2>0, <3>1 DEF Balanced, Due
    <3>3. Wanted'
      BY <2>0, <3>1 DEF Wanted, InRange
    <3>4. Outcome'
      BY <2>0, <3>1 DEF Outcome, FailsOnlyOutOfRange, InRange
    <3> QED BY <3>2, <3>3, <3>4
  <2>2. CASE Convert
    <3>0. PICK s \in Split(duration) : \E n \in Granules(s.rest) :
            t' = Time(s.sec, n * Granule)
      BY <2>2 DEF Convert
    <3>1. PICK n \in Granules(s.rest) : t' = Time(s.sec, n * Granule)
      BY <3>0
    <3>2. /\ pc = "called" /\ duration >= 0 /\ pc' = "request"
          /\ want' = Length(t') /\ asleep' = asleep /\ result' = result
          /\ err' = err /\ duration' = duration /\ platform' = platform
      BY <2>2 DEF Convert, args
    <3>3. /\ s \in [sec : Nat, rest : Nat] /\ n \in Nat
          /\ Granule \in Nat \ {0} /\ Granule' = Granule
      BY <2>0, <3>0, <3>1, <3>2, SplitType, GranulesType, GranuleType DEF Granule
    <3>4. InRange => s.rest < Second /\ Length(s) = duration
      BY <2>0, <3>0, <3>2, SplitType DEF InRange
    <3>5. asleep = 0 /\ result = "pending" /\ err = NoError
      <4>1. Due = 0 /\ want = 0
        BY <2>0, <3>2 DEF Due, Wanted
      <4> QED BY <2>0, <3>2, <4>1 DEF Balanced, Outcome
    <3>6. Balanced'
      BY <2>0, <3>2, <3>5 DEF Balanced, Due
    <3>7. Wanted'
      <4>1. InRange' = InRange
        BY <3>2 DEF InRange
      <4>2. ASSUME InRange
            PROVE  /\ t'.rest < Second
                   /\ Length(t') > duration - Granule
                   /\ Length(t') < duration + Granule
        <5>1. /\ n * Granule < Second
              /\ n * Granule > s.rest - Granule
              /\ n * Granule < s.rest + Granule
          BY <2>0, <3>1, <3>3, <3>4, <4>2, GranulesType
        <5>2. n * Granule \in Nat /\ s.sec * Second \in Nat
          BY <3>3, SleepAssumption
        <5>3. Length(t') = (s.sec * Second) + (n * Granule)
          BY <3>1 DEF Time, Length
        <5>4. duration = (s.sec * Second) + s.rest
          BY <3>4, <4>2 DEF Length
        <5> QED BY <3>1, <3>3, <5>1, <5>2, <5>3, <5>4 DEF Time
      <4> QED BY <3>2, <3>3, <4>1, <4>2 DEF Wanted
    <3>8. Outcome'
      BY <3>2, <3>5 DEF Outcome, FailsOnlyOutOfRange
    <3> QED BY <3>6, <3>7, <3>8
  <2>3. CASE RequestFails
    <3>1. /\ pc = "request" /\ t.rest >= Second /\ pc' = "returned"
          /\ result' = "AL_FALSE" /\ UNCHANGED <<args, t, asleep, want, err, signalled>>
      BY <2>3 DEF RequestFails, InvalidTime, Returns
    <3>2. ~InRange /\ duration >= 0 /\ err = NoError
      BY <2>0, <3>1, SleepAssumption DEF Wanted, Outcome
    <3>3. Balanced'
      BY <2>0, <3>1, LaterType DEF Balanced, Due, args
    <3>4. Wanted'
      BY <3>1, <3>2 DEF Wanted, InRange, args
    <3>5. Outcome'
      BY <2>0, <3>1, <3>2 DEF Outcome, FailsOnlyOutOfRange, InRange, args, NoError
    <3> QED BY <3>3, <3>4, <3>5
  <2>4. CASE Request
    <3>1. /\ pc = "request" /\ pc' = "asleep"
          /\ UNCHANGED <<args, t, asleep, want, signalled, err, result>>
          /\ left' = IF platform = "nanosleep" THEN Length(t)
                     ELSE IF t.sec > 0 THEN Second ELSE t.rest
      BY <2>4 DEF Request
    <3>2. left' + Later' = Length(t)
      <4>1. Later' = Later
        BY <3>1 DEF Later, args
      <4>2. Length(t) \in Nat /\ Second \in Nat
        BY <2>0, LaterType, SleepAssumption
      <4>3. platform # "nanosleep" /\ t.sec = 0 => Length(t) = t.rest
        BY <2>0, LaterType
      <4> QED BY <2>0, <3>1, <4>1, <4>2, <4>3 DEF Later
    <3>3. Due' = Due /\ CutShort' = CutShort
      BY <3>1, <3>2 DEF Due, CutShort, args
    <3>4. Balanced'
      BY <2>0, <3>1, <3>3 DEF Balanced, args
    <3>5. Wanted'
      BY <2>0, <3>1 DEF Wanted, InRange, Granule, args
    <3>6. Outcome'
      BY <2>0, <3>1 DEF Outcome, FailsOnlyOutOfRange, InRange, args
    <3> QED BY <3>4, <3>5, <3>6
  <2>5. CASE Wake
    <3>1. /\ pc = "asleep" /\ left = 0 /\ AfterSleep
          /\ UNCHANGED <<args, asleep, want, signalled, err>>
      BY <2>5 DEF Wake
    <3>2. /\ Due' = Due /\ t'.rest = t.rest
          /\ pc' # "interrupted" /\ pc' # "called"
          /\ \/ pc' = "returned" /\ result' = "AL_TRUE"
             \/ pc' = "request" /\ result' = result
      BY <2>0, <3>1, AfterPiece, LaterType DEF Due, args
    <3>3. result = "pending" /\ duration >= 0
      BY <2>0, <3>1 DEF Outcome
    <3>4. Balanced'
      BY <2>0, <3>1, <3>2, <3>3 DEF Balanced, CutShort, args
    <3>5. Wanted'
      BY <2>0, <3>1, <3>2 DEF Wanted, InRange, Granule, args
    <3>6. Outcome'
      BY <2>0, <3>1, <3>2, <3>3 DEF Outcome, FailsOnlyOutOfRange, InRange, args
    <3> QED BY <3>4, <3>5, <3>6
  <2>6. CASE TryAgain
    <3>1. /\ pc = "interrupted" /\ pc' = "request"
          /\ t' = Time(left \div Second, left % Second)
          /\ UNCHANGED <<args, asleep, want, signalled, err, result>>
      BY <2>6 DEF TryAgain
    <3>2. /\ left \div Second \in Nat /\ left % Second \in Nat
          /\ left = ((left \div Second) * Second) + (left % Second)
          /\ left % Second < Second
      BY <2>0, SleepAssumption, DivMod
    <3>3. Length(t') = left /\ t'.rest < Second
      BY <3>1, <3>2 DEF Time, Length
    <3>4. Balanced'
      BY <2>0, <3>1, <3>3 DEF Balanced, Due, CutShort, args
    <3>5. Wanted'
      BY <2>0, <3>1, <3>3 DEF Wanted, InRange, Granule, args
    <3>6. Outcome'
      BY <2>0, <3>1 DEF Outcome, FailsOnlyOutOfRange, InRange, args
    <3> QED BY <3>4, <3>5, <3>6
  <2>7. CASE TimePasses
    <3>1. /\ pc = "asleep" /\ left > 0
          /\ left' = left - 1 /\ asleep' = asleep + 1
          /\ UNCHANGED <<args, pc, t, want, signalled, err, result>>
      BY <2>7 DEF TimePasses
    <3>2. asleep' + Due' = asleep + Due
      <4>1. Later' = Later /\ Later \in Nat
        BY <2>0, <3>1, LaterType DEF Later, args
      <4> QED BY <2>0, <3>1, <4>1 DEF Due
    <3>3. Balanced'
      BY <2>0, <3>1, <3>2 DEF Balanced, CutShort, args
    <3>4. Wanted'
      BY <2>0, <3>1 DEF Wanted, InRange, Granule, args
    <3>5. Outcome'
      BY <2>0, <3>1 DEF Outcome, FailsOnlyOutOfRange, InRange, args
    <3> QED BY <3>3, <3>4, <3>5
  <2>8. CASE Signal
    <3>1. /\ pc = "asleep" /\ left > 0 /\ signalled'
          /\ platform # "Sleep" /\ UNCHANGED <<args, asleep, want, err>>
      BY <2>8 DEF Signal
    <3>2. result = "pending" /\ duration >= 0 /\ Later \in Nat
      BY <2>0, <3>1, LaterType DEF Outcome
    <3>3. CASE platform = "nanosleep"
      <4>1. pc' = "interrupted" /\ UNCHANGED <<t, left, result>>
        BY <2>8, <3>3 DEF Signal
      <4>2. Due' = Due
        BY <2>0, <3>1, <3>3, <4>1 DEF Due, Later
      <4>3. Balanced'
        BY <2>0, <3>1, <3>2, <3>3, <4>1, <4>2 DEF Balanced, CutShort, args
      <4>4. Wanted'
        BY <2>0, <3>1, <4>1 DEF Wanted, InRange, Granule, args
      <4>5. Outcome'
        BY <2>0, <3>1, <3>2, <4>1 DEF Outcome, FailsOnlyOutOfRange, InRange, args
      <4> QED BY <4>3, <4>4, <4>5
    <3>4. CASE platform # "nanosleep"
      <4>1. AfterSleep /\ platform = "usleep"
        BY <2>0, <2>8, <3>1, <3>4 DEF Signal, Platforms
      <4>2. /\ Due' = Later /\ t'.rest = t.rest
            /\ pc' # "interrupted" /\ pc' # "called"
            /\ \/ pc' = "returned" /\ result' = "AL_TRUE"
               \/ pc' = "request" /\ result' = result
        BY <2>0, <3>1, <4>1, AfterPiece DEF args
      <4>3. asleep + Later <= want
        BY <2>0, <3>1, <3>2 DEF Balanced, Due
      <4>4. Balanced'
        BY <3>1, <4>1, <4>2, <4>3 DEF Balanced, CutShort, args
      <4>5. Wanted'
        BY <2>0, <3>1, <4>2 DEF Wanted, InRange, Granule, args
      <4>6. Outcome'
        BY <2>0, <3>1, <3>2, <4>2 DEF Outcome, FailsOnlyOutOfRange, InRange, args
      <4> QED BY <4>4, <4>5, <4>6
    <3> QED BY <3>3, <3>4
  <2>9. CASE UNCHANGED vars
    <3>1. Balanced'
      BY <2>0, <2>9 DEF Balanced, Due, Later, CutShort, vars, args
    <3>2. Wanted'
      BY <2>0, <2>9 DEF Wanted, InRange, Granule, vars, args
    <3>3. Outcome'
      BY <2>0, <2>9 DEF Outcome, FailsOnlyOutOfRange, InRange, vars, args
    <3> QED BY <3>1, <3>2, <3>3
  <2> QED BY <2>1, <2>2, <2>3, <2>4, <2>5, <2>6, <2>7, <2>8, <2>9
          DEF Next, Code, Returned
<1> QED BY <1>1, <1>2, TypeCorrect, PTL DEF Spec

-----------------------------------------------------------------------------
(* The properties *)

\* However often a signal wakes nanosleep, the pieces add up to the time that
\* was wanted: the account is part of the invariant.
THEOREM PiecesAlwaysAddUp == Spec => []PiecesAddUp
<1>1. SleepInv => PiecesAddUp
  <2> SUFFICES ASSUME SleepInv, platform = "nanosleep"
               PROVE  /\ pc \in {"asleep", "interrupted"} => asleep + left = want
                      /\ pc = "request" => asleep + Length(t) = want
                      /\ pc = "returned" /\ result = "AL_TRUE" => asleep = want
    BY DEF PiecesAddUp
  <2>1. left \in Nat /\ asleep \in Nat
    BY DEF SleepInv, TypeOK
  <2>2. Balanced /\ Outcome /\ ~CutShort
    BY DEF SleepInv, CutShort
  <2>3. pc # "returned" => result = "pending"
    BY <2>2 DEF Outcome
  <2> QED BY <2>1, <2>2, <2>3 DEF Balanced, Due, Later
<1> QED BY <1>1, Inductive, PTL

\* No call with a duration in range sleeps a granule longer, on any system.
LEMMA NoLonger ==
  ASSUME SleepInv, InRange
  PROVE  asleep < duration + Granule
<1>1. /\ asleep \in Nat /\ want \in Nat /\ duration \in Int
      /\ Granule \in Nat \ {0} /\ duration >= 0
  BY GranuleType, SleepAssumption DEF SleepInv, TypeOK, InRange
<1>2. Due \in Nat
  BY LaterType DEF SleepInv, Due, TypeOK
<1>3. asleep <= want
  BY <1>1, <1>2 DEF SleepInv, Balanced
<1>4. pc = "called" => want = 0
  BY DEF SleepInv, Wanted
<1>5. pc # "called" => want < duration + Granule
  BY DEF SleepInv, Wanted
<1> QED BY <1>1, <1>3, <1>4, <1>5

\* A call with a duration in range returns AL_TRUE, after that time up to a
\* granule, unless a signal ends a usleep.
LEMMA LongEnough ==
  ASSUME SleepInv, InRange, pc = "returned", ~CutShort
  PROVE  result = "AL_TRUE" /\ asleep > duration - Granule
<1>1. asleep \in Nat
  BY DEF SleepInv, TypeOK
<1>2. result = "AL_TRUE"
  BY DEF SleepInv, TypeOK, Outcome, FailsOnlyOutOfRange
<1>3. asleep = want
  BY <1>1, <1>2 DEF SleepInv, Balanced, Due
<1> QED BY <1>2, <1>3 DEF SleepInv, Wanted

\* So a call sleeps as long as it was asked to, for any duration in range, any
\* granule, and signals at any moment.
THEOREM AsLongAsAsked == Spec => []SleepsAsLongAsAsked
<1>1. SleepInv => SleepsAsLongAsAsked
  BY NoLonger, LongEnough DEF SleepsAsLongAsAsked
<1> QED BY <1>1, Inductive, PTL

\* A call fails for a negative duration, with an error, or for one that is too
\* large, and for no other reason.
THEOREM FailureIsOutOfRange == Spec => []FailsOnlyOutOfRange
<1>1. SleepInv => FailsOnlyOutOfRange
  BY DEF SleepInv, Outcome
<1> QED BY <1>1, Inductive, PTL

-----------------------------------------------------------------------------
(* Termination *)

\* The system calls after the next one, two steps each.
Pieces == IF platform = "nanosleep" THEN 0 ELSE 2 * t.sec

\* The steps that are left, if no signal comes: those of the code, and a unit of
\* time each for what is still to be slept.
StepsLeft ==
  CASE pc = "request" -> Length(t) + Pieces + 2
    [] pc = "asleep" -> left + Later + Pieces + 1
    [] pc = "interrupted" -> left + 3
    [] pc = "returned" -> 0

Nearer == StepsLeft \in Nat /\ StepsLeft' \in Nat /\ StepsLeft' < StepsLeft

\* Once the duration is converted, only a signal that interrupts nanosleep can
\* keep the call from its end: every other step gets nearer to it, for every
\* duration and on every system.
THEOREM OnlySignalsDelay ==
  Spec => [][pc = "called" \/ (Signal /\ platform = "nanosleep") \/ Nearer]_vars
<1>1. ASSUME SleepInv, SleepInv', [Next]_vars, pc # "called",
             ~(Signal /\ platform = "nanosleep")
      PROVE  [Nearer]_vars
  <2>0. /\ TypeOK /\ TypeOK' /\ left \in Nat /\ t.sec \in Nat /\ t.rest \in Nat
        /\ Length(t) \in Nat /\ Later \in Nat /\ Pieces \in Nat
        /\ platform # "nanosleep" /\ t.sec = 0 => Length(t) = t.rest
    <3>1. TypeOK /\ TypeOK' /\ left \in Nat /\ t.sec \in Nat /\ t.rest \in Nat
      BY <1>1 DEF SleepInv, TypeOK
    <3>2. Pieces \in Nat
      BY <3>1 DEF Pieces
    <3> QED BY <3>1, <3>2, LaterType
  <2>1. ASSUME AfterSleep, pc = "asleep", platform' = platform
        PROVE  Nearer
    <3>1. StepsLeft = left + Later + Pieces + 1
      BY <2>1 DEF StepsLeft
    <3>2. CASE platform # "nanosleep" /\ t.sec > 0
      <4>1. pc' = "request" /\ t' = [t EXCEPT !.sec = t.sec - 1]
        BY <2>1, <3>2 DEF AfterSleep
      <4>2. Length(t') = Later
        BY <1>1, <2>0, <2>1, <4>1, AfterPiece DEF Due
      <4>3. Pieces' = Pieces - 2
        <5>1. t'.sec = t.sec - 1
          BY <2>0, <4>1 DEF TypeOK
        <5> QED BY <2>0, <2>1, <3>2, <5>1 DEF Pieces
      <4>4. StepsLeft' = Length(t') + Pieces' + 2
        BY <4>1 DEF StepsLeft
      <4>5. StepsLeft' = Later + (Pieces - 2) + 2
        BY <4>2, <4>3, <4>4
      <4>6. Pieces >= 2
        BY <2>0, <3>2 DEF Pieces
      <4>7. StepsLeft \in Nat /\ StepsLeft' \in Nat /\ StepsLeft' < StepsLeft
        BY <2>0, <3>1, <4>5, <4>6
      <4> QED BY <4>7 DEF Nearer
    <3>3. CASE ~(platform # "nanosleep" /\ t.sec > 0)
      <4>1. pc' = "returned"
        BY <2>1, <3>3 DEF AfterSleep, Returns
      <4>2. StepsLeft' = 0
        BY <4>1 DEF StepsLeft
      <4> QED BY <2>0, <3>1, <4>2 DEF Nearer
    <3> QED BY <3>2, <3>3
  <2>2. CASE RequestFails
    <3>1. pc = "request" /\ pc' = "returned"
      BY <2>2 DEF RequestFails, Returns
    <3>2. StepsLeft = Length(t) + Pieces + 2 /\ StepsLeft' = 0
      BY <3>1 DEF StepsLeft
    <3> QED BY <2>0, <3>2 DEF Nearer
  <2>3. CASE Request
    <3>1. /\ pc = "request" /\ pc' = "asleep" /\ UNCHANGED <<args, t>>
          /\ left' = IF platform = "nanosleep" THEN Length(t)
                     ELSE IF t.sec > 0 THEN Second ELSE t.rest
      BY <2>3 DEF Request
    <3>2. Later' = Later /\ Pieces' = Pieces
      BY <3>1 DEF Later, Pieces, args
    <3>3. left' + Later = Length(t) /\ left' \in Nat
      <4>1. left' \in Nat /\ Second \in Nat
        BY <2>0, SleepAssumption DEF TypeOK
      <4> QED BY <2>0, <3>1, <4>1 DEF Later
    <3>4. StepsLeft = Length(t) + Pieces + 2
      BY <3>1 DEF StepsLeft
    <3>5. StepsLeft' = left' + Later' + Pieces' + 1
      BY <3>1 DEF StepsLeft
    <3>6. StepsLeft' = Length(t) + Pieces + 1
      BY <2>0, <3>2, <3>3, <3>5
    <3> QED BY <2>0, <3>4, <3>6 DEF Nearer
  <2>4. CASE Wake
    BY <2>1, <2>4 DEF Wake, args
  <2>5. CASE TryAgain
    <3>1. /\ pc = "interrupted" /\ pc' = "request" /\ platform' = platform
          /\ t' = Time(left \div Second, left % Second)
      BY <2>5 DEF TryAgain, args
    <3>2. Length(t') = left
      <4>1. /\ left \div Second \in Nat /\ left % Second \in Nat
            /\ left = ((left \div Second) * Second) + (left % Second)
        BY <2>0, SleepAssumption, DivMod
      <4> QED BY <3>1, <4>1 DEF Time, Length
    <3>3. Pieces' = 0
      BY <1>1, <3>1 DEF Pieces, SleepInv, Balanced
    <3>4. StepsLeft = left + 3
      BY <3>1 DEF StepsLeft
    <3>5. StepsLeft' = Length(t') + Pieces' + 2
      BY <3>1 DEF StepsLeft
    <3> QED BY <2>0, <3>2, <3>3, <3>4, <3>5 DEF Nearer
  <2>6. CASE TimePasses
    <3>1. /\ pc = "asleep" /\ pc' = "asleep" /\ left' = left - 1 /\ left > 0
          /\ Later' = Later /\ Pieces' = Pieces
      BY <2>6 DEF TimePasses, Later, Pieces, args
    <3>2. StepsLeft = left + Later + Pieces + 1
      BY <3>1 DEF StepsLeft
    <3>3. StepsLeft' = left' + Later' + Pieces' + 1
      BY <3>1 DEF StepsLeft
    <3> QED BY <2>0, <3>1, <3>2, <3>3 DEF Nearer
  <2>7. CASE Signal
    BY <1>1, <2>1, <2>7 DEF Signal, args
  <2>8. CASE UNCHANGED vars
    BY <2>8
  <2>9. ~ RefuseNegative /\ ~ Convert
    BY <1>1 DEF RefuseNegative, Convert
  <2> QED BY <1>1, <2>2, <2>3, <2>4, <2>5, <2>6, <2>7, <2>8, <2>9
          DEF Next, Code, Returned
<1>2. SleepInv /\ SleepInv' /\ [Next]_vars =>
        [pc = "called" \/ (Signal /\ platform = "nanosleep") \/ Nearer]_vars
  BY <1>1
<1> QED BY <1>2, Inductive, PTL DEF Spec

=============================================================================
