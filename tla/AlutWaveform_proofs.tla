------------------------- MODULE AlutWaveform_proofs -------------------------
(***************************************************************************)
(* The sound generateWaveform returns, for every sample frequency, every   *)
(* frequency, phase and duration, and every outcome of random().           *)
(***************************************************************************)
EXTENDS AlutWaveform, TLAPS

-----------------------------------------------------------------------------
(* Arithmetic *)

\* A number is its whole parts and what is left of it.
LEMMA DivMod ==
  ASSUME NEW n \in Int, NEW g \in Nat \ {0}
  PROVE  /\ n \div g \in Int /\ n % g \in 0 .. g - 1
         /\ n = ((n \div g) * g) + (n % g)
OBVIOUS

\* A product of numbers of which one is greater is greater.
LEMMA Monotone ==
  ASSUME NEW a \in Int, NEW b \in Int, NEW g \in Nat, a >= b
  PROVE  a * g >= b * g
<1>1. (a - b) * g >= 0
  OBVIOUS
<1> QED BY <1>1

\* The quotient is the one number whose multiple is next below.
LEMMA QuotientIs ==
  ASSUME NEW n \in Int, NEW g \in Nat \ {0}, NEW w \in Int,
         w * g <= n, n < (w + 1) * g
  PROVE  n \div g = w
<1> DEFINE v == n \div g
<1>1. /\ v \in Int /\ v * g <= n /\ n < (v + 1) * g
  <2>1. /\ v \in Int /\ n % g \in 0 .. g - 1 /\ n = (v * g) + (n % g)
    BY DivMod
  <2>2. (v + 1) * g = (v * g) + g
    BY <2>1
  <2> HIDE DEF v
  <2> QED BY <2>1, <2>2
<1> HIDE DEF v
<1>2. ~ v >= w + 1
  <2>1. v >= w + 1 => v * g >= (w + 1) * g
    BY <1>1, Monotone
  <2>2. v * g \in Int /\ (w + 1) * g \in Int
    BY <1>1
  <2> QED BY <1>1, <2>1, <2>2
<1>3. ~ w >= v + 1
  <2>1. w >= v + 1 => w * g >= (v + 1) * g
    BY <1>1, Monotone
  <2>2. w * g \in Int /\ (v + 1) * g \in Int
    BY <1>1
  <2> QED BY <1>1, <2>1, <2>2
<1>4. v = w
  BY <1>1, <1>2, <1>3
<1> QED BY <1>4 DEF v

\* A cycle is a number of units.
LEMMA CycleType ==
  /\ SampleFrequency \in Nat \ {0} /\ DurationUnits \in Nat \ {0}
  /\ Cycle \in Nat \ {0} /\ Cycle = 180 * SampleFrequency
BY WaveformAssumption DEF Cycle

\* The number of cycles is the nearest one, and is none when there is no time.
LEMMA CyclesType ==
  ASSUME NEW f \in Int, NEW t \in Int, f > 0, t >= 0
  PROVE  /\ Cycles(f, t) \in Nat
         /\ 2 * (Cycles(f, t) * DurationUnits - f * t)
              \in -DurationUnits .. DurationUnits
<1> DEFINE x == f * t
           u == DurationUnits
           c == (2 * x + u) \div (2 * u)
<1>1. x \in Nat /\ u \in Nat \ {0}
  BY CycleType
<1>2. Cycles(f, t) = c
  <2>1. 2 * f * t = 2 * x
    OBVIOUS
  <2> QED BY <2>1 DEF Cycles
<1> HIDE DEF x, u
<1>3. /\ c \in Int /\ (2 * x + u) % (2 * u) \in 0 .. (2 * u) - 1
      /\ 2 * x + u = (c * (2 * u)) + ((2 * x + u) % (2 * u))
  <2>1. 2 * x + u \in Int /\ 2 * u \in Nat \ {0}
    BY <1>1
  <2> QED BY <2>1, DivMod
<1> HIDE DEF c
<1>4. c * (2 * u) = 2 * (c * u) /\ c * u \in Int
  BY <1>1, <1>3
<1>5. 2 * (c * u - x) \in -u .. u
  BY <1>1, <1>3, <1>4
<1>6. c >= 0
  <2>1. c < 0 => (-1) * u >= c * u
    <3>1. c < 0 => -1 >= c
      BY <1>3
    <3> QED BY <3>1, <1>1, <1>3, Monotone
  <2>2. (-1) * u = -u
    BY <1>1
  <2> QED BY <2>1, <2>2, <1>1, <1>3, <1>4, <1>5
<1> QED BY <1>2, <1>3, <1>5, <1>6 DEF x, u

\* The samples are those of the cycles, less at most one.
LEMMA SampleCountsType ==
  ASSUME NEW f \in Int, NEW t \in Int, f > 0, t >= 0, NEW n \in SampleCounts(f, t)
  PROVE  /\ n \in Nat
         /\ Cycles(f, t) * SampleFrequency - n * f \in 0 .. f
<1> DEFINE total == Cycles(f, t) * SampleFrequency
           m == total \div f
<1>1. total \in Nat
  <2>1. Cycles(f, t) \in Nat /\ SampleFrequency \in Nat
    BY CyclesType, CycleType
  <2> QED BY <2>1
<1>2. n = m \/ (m > 0 /\ m * f = total /\ n = m - 1)
  BY DEF SampleCounts
<1> HIDE DEF total
<1>3. m \in Int /\ total % f \in 0 .. f - 1 /\ total = (m * f) + (total % f)
  <2> HIDE DEF m
  <2>1. f \in Nat \ {0} /\ total \in Int
    BY <1>1
  <2> QED BY <2>1, DivMod DEF m
<1> HIDE DEF m
<1>4. m >= 0
  <2>1. m < 0 => (-1) * f >= m * f
    <3>1. m < 0 => -1 >= m
      BY <1>3
    <3> QED BY <3>1, <1>3, Monotone
  <2>2. (-1) * f = -f /\ m * f \in Int
    BY <1>3
  <2> QED BY <2>1, <2>2, <1>1, <1>3
<1>5. (m - 1) * f = (m * f) - f /\ m * f \in Int
  BY <1>3
<1>6. n \in Nat /\ total - (n * f) \in 0 .. f
  <2>1. CASE n = m
    BY <2>1, <1>1, <1>3, <1>4, <1>5
  <2>2. CASE m > 0 /\ m * f = total /\ n = m - 1
    <3>1. n * f = (m * f) - f
      BY <2>2, <1>5
    <3> QED BY <2>2, <3>1, <1>1, <1>3, <1>5
  <2> QED BY <1>2, <2>1, <2>2
<1> QED BY <1>6 DEF total

\* The samples are no more than the cycles have.
LEMMA CyclesSamples ==
  ASSUME NEW f \in Int, NEW t \in Int, f > 0, t >= 0
  PROVE  /\ (Cycles(f, t) * SampleFrequency) \div f \in Nat
         /\ \A n \in SampleCounts(f, t) :
              n \in Nat /\ n <= (Cycles(f, t) * SampleFrequency) \div f
<1> DEFINE q == (Cycles(f, t) * SampleFrequency) \div f
<1>1. q \in SampleCounts(f, t)
  BY DEF SampleCounts
<1>2. q \in Nat
  BY <1>1, SampleCountsType
<1>3. \A n \in SampleCounts(f, t) : n \in Nat
  BY SampleCountsType
<1>4. \A n \in SampleCounts(f, t) : n \in {q, q - 1}
  BY DEF SampleCounts
<1> HIDE DEF q
<1>5. \A n \in SampleCounts(f, t) : n \in Nat /\ n <= q
  BY <1>2, <1>3, <1>4
<1> QED BY <1>2, <1>5 DEF q

\* A phase is a part of a cycle.
LEMMA PhaseAtType ==
  ASSUME phase \in Int, frequency \in Int, NEW k \in Int
  PROVE  PhaseAt(k) \in 0 .. Cycle - 1
<1>1. phase * SampleFrequency + 180 * frequency * k \in Int
  BY CycleType
<1> QED BY <1>1, CycleType, DivMod DEF PhaseAt

\* A part of a number of cycles is less than that number.
LEMMA PartOf ==
  ASSUME NEW x \in Nat, NEW g \in Nat \ {0}, NEW w \in Nat, x <= w * g
  PROVE  x \div g \in 0 .. w
<1> DEFINE v == x \div g
<1>1. v \in Int /\ x % g \in 0 .. g - 1 /\ x = (v * g) + (x % g)
  <2>1. x \in Int
    OBVIOUS
  <2> QED BY <2>1, DivMod
<1> HIDE DEF v
<1>2. v >= w + 1 => v * g >= (w + 1) * g
  BY <1>1, Monotone
<1>3. -1 >= v => (-1) * g >= v * g
  BY <1>1, Monotone
<1>4. (w + 1) * g = (w * g) + g /\ (-1) * g = -g /\ v * g \in Int /\ w * g \in Int
  BY <1>1
<1>5. v \in 0 .. w
  BY <1>1, <1>2, <1>3, <1>4
<1> QED BY <1>5 DEF v

\* Every waveform stays within full scale.
LEMMA AmplitudesType ==
  ASSUME NEW last \in Int, NEW p \in 0 .. Cycle - 1, shape \in Shapes,
         NEW a \in Amplitudes(last, p)
  PROVE  a \in Int /\ a >= -FullScale /\ a <= FullScale
<1>0. FullScale = 32767
  BY DEF FullScale
<1>1. CASE shape = "SINE"
  <2>1. a = Sin[p]
    BY <1>1 DEF Amplitudes
  <2>2. p \in 0 .. 180 * SampleFrequency - 1
    BY CycleType
  <2>3. Sin[p] \in Int /\ Sin[p] >= -32767 /\ Sin[p] <= 32767
    BY <2>2, WaveformAssumption
  <2> QED BY <1>0, <2>1, <2>2, <2>3
<1>2. CASE shape = "SQUARE"
  <2>1. a = -FullScale \/ a = FullScale
    BY <1>2 DEF Amplitudes
  <2> QED BY <1>0, <2>1
<1>3. CASE shape = "SAWTOOTH"
  <2> DEFINE n == (2 * p - Cycle) * FullScale
  <2>1. Cycle \in Nat \ {0} /\ FullScale \in Nat
    BY CycleType, <1>0
  <2>2. n \in Int /\ n <= FullScale * Cycle /\ -n <= FullScale * Cycle
    BY <2>1, <1>0
  <2>3. a = Truncate(n, Cycle)
    BY <1>3 DEF Amplitudes
  <2> HIDE DEF n
  <2>4. CASE n >= 0
    <3> DEFINE v == n \div Cycle
    <3>1. v \in 0 .. FullScale
      <4>1. n \in Nat
        BY <2>2, <2>4
      <4> QED BY <4>1, <2>1, <2>2, PartOf
    <3>2. a = v
      BY <2>3, <2>4 DEF Truncate
    <3> HIDE DEF v
    <3> QED BY <2>1, <3>1, <3>2
  <2>5. CASE n < 0
    <3> DEFINE v == (-n) \div Cycle
    <3>1. v \in 0 .. FullScale
      <4>1. -n \in Nat
        BY <2>2, <2>5
      <4> QED BY <4>1, <2>1, <2>2, PartOf
    <3>2. a = -v
      BY <2>2, <2>3, <2>5 DEF Truncate
    <3> HIDE DEF v
    <3> QED BY <2>1, <3>1, <3>2
  <2> QED BY <2>2, <2>4, <2>5
<1>4. CASE shape = "WHITENOISE"
  <2>1. a \in NoiseLevels
    BY <1>4 DEF Amplitudes
  <2> QED BY <1>0, <2>1, WaveformAssumption
<1>5. CASE shape = "IMPULSE"
  <2>1. a = FullScale \/ a = 0
    BY <1>5 DEF Amplitudes
  <2> QED BY <1>0, <2>1
<1> QED BY <1>1, <1>2, <1>3, <1>4, <1>5 DEF Shapes

-----------------------------------------------------------------------------
(* The stream *)

\* What has been decided about the sound stays true of it.
Arguments ==
  /\ shape \in Shapes \cup {"unknown"}
  /\ frequency \in Frequencies /\ phase \in Phases /\ duration \in Durations
  /\ pc # "check" /\ result # "fail" =>
       /\ ArgumentsOk
       /\ numSamples \in SampleCounts(frequency, duration)
       /\ maximumLength = HeaderSize + 2 * numSamples

\* The stream is open between its construction and the return, and nobody else
\* holds anything.
Open ==
  /\ pc \in {"check", "header", "samples", "returned"}
  /\ pc = "returned" <=> result # "pending"
  /\ result \in {"pending", "ok", "fail"}
  /\ err \in ErrorCodes \cup {NoError} /\ err # "IO_ERROR"
  /\ heap = IF pc = "check" \/ result = "fail" THEN {} ELSE {"stream", "data"}

\* How far the writing has come.
Written ==
  /\ header \in Seq(Int) /\ Len(header) <= 6 /\ i \in Nat
  /\ pc = "check" => header = <<>> /\ position = 0
  /\ \A k \in DOMAIN header : header[k] = HeaderFields[k]
  /\ pc \in {"check", "header"} => i = 0 /\ position = 4 * Len(header)
  /\ pc = "samples" \/ result = "ok" =>
       /\ Len(header) = 6
       /\ i <= numSamples
       /\ position = HeaderSize + 2 * i
  /\ result = "ok" => i = numSamples

StreamInv == Arguments /\ Open /\ Written

\* The arguments are numbers.
LEMMA ArgumentTypes ==
  ASSUME Arguments
  PROVE  frequency \in Int /\ phase \in Int /\ duration \in Int
BY WaveformAssumption DEF Arguments

\* The fields of the header are numbers.
LEMMA Sixfold ==
  ASSUME NEW a, NEW b, NEW c, NEW d, NEW e, NEW f, NEW k \in 1 .. 6
  PROVE  <<a, b, c, d, e, f>>[k] \in {a, b, c, d, e, f}
OBVIOUS

\* The numbers of 32 bits.
Int32 == {n \in Int : n >= -Int32Max - 1 /\ n <= Int32Max}

\* A conversion to 32 bits gives a number of 32 bits, that same number if it is
\* one, and another one if it is not.
LEMMA Converted32 ==
  ASSUME NEW n \in Int
  PROVE  ToInt32(n) \in Int32 /\ (ToInt32(n) = n <=> n \in Int32)
<1>1. ToInt32(n) \in Int32
  BY SMT DEF ToInt32, ToInt16, Int32, Int32Max
<1>2. n \in Int32 => ToInt32(n) = n
  BY SMT DEF ToInt32, ToInt16, Int32, Int32Max
<1> QED BY <1>1, <1>2

\* A number of 32 bits is read as it was written.
LEMMA ReadBack32 ==
  ASSUME NEW n \in Int32
  PROVE  ReadInt32BE(Int32BE(n)) = n
BY SMT DEF ReadInt32BE, Int32BE, ToInt8, Int32, Int32Max

\* A number of 16 bits too, whatever the byte order of the reader's host.
LEMMA ReadBack16 ==
  ASSUME NEW v \in Int16
  PROVE  /\ Load16("big", Int16BE(v)) = v
         /\ SwapBytes(Load16("little", Int16BE(v))) = v
BY SMT DEF Load16, Int16BE, SwapBytes, ToInt16, Int16

LEMMA HeaderFieldsType ==
  ASSUME numSamples \in Nat
  PROVE  /\ \A k \in 1 .. 6 : HeaderFields[k] \in Int32 /\ HeaderFields[k] \in Int
         /\ HeaderFields[2] = HeaderSize
         /\ HeaderFields[3] = ToInt32(2 * numSamples)
<1> DEFINE magic == 779316836
           size == ToInt32(2 * numSamples)
<1>1. /\ magic \in Int32 /\ HeaderSize \in Int32 /\ PCM16 \in Int32 /\ 1 \in Int32
      /\ SampleFrequency \in Int32
  BY SMT, WaveformAssumption DEF HeaderSize, PCM16, Int32, Int32Max
<1>2. size \in Int32
  <2>1. 2 * numSamples \in Int
    OBVIOUS
  <2> QED BY <2>1, Converted32
<1>3. HeaderFields = <<magic, HeaderSize, size, PCM16, SampleFrequency, 1>>
  BY DEF HeaderFields
<1> HIDE DEF magic, size
<1>4. \A k \in 1 .. 6 : HeaderFields[k] \in Int32
  BY <1>1, <1>2, <1>3, Sixfold
<1>5. \A n \in Int32 : n \in Int
  BY SMT DEF Int32, Int32Max
<1> QED BY <1>3, <1>4, <1>5 DEF size

\* A number of bytes is one of 32 bits up to the largest of them.
LEMMA SizeOf32Bits ==
  ASSUME NEW n \in Nat
  PROVE  2 * n <= Int32Max <=> ToInt32(2 * n) = 2 * n
<1>1. 2 * n \in Int /\ (2 * n \in Int32 <=> 2 * n <= Int32Max)
  BY SMT DEF Int32, Int32Max
<1> QED BY <1>1, Converted32

LEMMA StreamInit == Init => StreamInv
BY DEF Init, StreamInv, Arguments, Open, Written, NoError, ErrorCodes

\* The header is that of the number of samples.
LEMMA SameHeader ==
  ASSUME UNCHANGED numSamples
  PROVE  HeaderFields' = HeaderFields
BY DEF HeaderFields

\* Once there are samples to write, there is a number of them.
LEMMA StreamTypes ==
  ASSUME StreamInv
  PROVE  /\ frequency \in Int /\ phase \in Int /\ duration \in Int
         /\ pc # "check" /\ result # "fail" => numSamples \in Nat
<1>1. frequency \in Int /\ phase \in Int /\ duration \in Int
  BY ArgumentTypes DEF StreamInv
<1> QED BY <1>1, SampleCountsType DEF StreamInv, Arguments, ArgumentsOk

LEMMA StreamStep == StreamInv /\ [Next]_vars => StreamInv'
<1> SUFFICES ASSUME StreamInv, [Next]_vars PROVE StreamInv'
  OBVIOUS
<1> USE DEF StreamInv
<1>0. /\ frequency \in Int /\ phase \in Int /\ duration \in Int
      /\ pc # "check" /\ result # "fail" => numSamples \in Nat
  BY StreamTypes
<1>1. CASE UnknownShape
  BY <1>1 DEF UnknownShape, Fails, args, sizes, signal, Arguments, Open, Written,
     HeaderFields, SetError, ErrorCodes, NoError, ArgumentsOk
<1>2. CASE BadValue
  BY <1>2 DEF BadValue, Fails, args, sizes, signal, Arguments, Open, Written,
     HeaderFields, SetError, ErrorCodes, NoError, ArgumentsOk
<1>3. CASE ConstructFails
  BY <1>3 DEF ConstructFails, Fails, args, sizes, signal, Arguments, Open,
     Written, HeaderFields, SetError, ErrorCodes, NoError, ArgumentsOk
<1>4. CASE Construct
  <2>1. Arguments'
    BY <1>4 DEF Construct, Arguments, args, ArgumentsOk, Open
  <2>2. Open'
    BY <1>4 DEF Construct, Open
  <2>3. Written'
    BY <1>4 DEF Construct, Written, Open, signal, HeaderFields
  <2> QED BY <2>1, <2>2, <2>3
<1>5. CASE WriteHeader
  <2>0. /\ pc = "header" /\ Len(header) < 6 /\ result = "pending"
        /\ header' = Append(header, HeaderFields[Len(header) + 1])
        /\ UNCHANGED <<args, sizes, signal>>
        /\ StreamWrite(4, "header")
    BY <1>5 DEF WriteHeader, Open
  <2>1. /\ maximumLength = 24 + 2 * numSamples /\ numSamples \in Nat
        /\ Len(header) \in Nat /\ position = 4 * Len(header)
    BY <2>0, <1>0 DEF Arguments, Written, HeaderSize
  <2>2. /\ position' = position + 4 /\ pc' = "header"
        /\ UNCHANGED <<heap, err, result>>
    BY <2>0, <2>1 DEF StreamWrite
  <2>3. Arguments'
    BY <2>0, <2>2 DEF Arguments, args, sizes, ArgumentsOk
  <2>4. Open'
    BY <2>0, <2>2 DEF Open
  <2>5. Written'
    <3>1. \A k \in 1 .. 6 : HeaderFields[k] \in Int
      BY <2>1, HeaderFieldsType
    <3>2. HeaderFields[Len(header) + 1] \in Int
      <4>1. Len(header) + 1 \in 1 .. 6
        BY <2>0, <2>1
      <4> QED BY <3>1, <4>1
    <3>3. /\ header' \in Seq(Int) /\ Len(header') = Len(header) + 1
          /\ \A k \in DOMAIN header' : header'[k] = HeaderFields[k]
      <4>1. /\ header \in Seq(Int)
            /\ \A k \in 1 .. Len(header) : header[k] = HeaderFields[k]
        BY DEF Written
      <4>2. /\ header' \in Seq(Int) /\ Len(header') = Len(header) + 1
            /\ \A k \in 1 .. Len(header) : header'[k] = header[k]
            /\ header'[Len(header) + 1] = HeaderFields[Len(header) + 1]
        BY <2>0, <2>1, <3>2, <4>1
      <4>3. ASSUME NEW k \in 1 .. Len(header) + 1
            PROVE  header'[k] = HeaderFields[k]
        <5>1. k \in 1 .. Len(header) \/ k = Len(header) + 1
          BY <2>1
        <5> QED BY <4>1, <4>2, <5>1
      <4>4. DOMAIN header' = 1 .. Len(header) + 1
        BY <2>1, <4>2
      <4> QED BY <4>2, <4>3, <4>4
    <3>4. HeaderFields' = HeaderFields
      BY <2>0, SameHeader DEF sizes
    <3>5. i' = 0 /\ position' = 4 * Len(header')
      BY <2>0, <2>1, <2>2, <3>3 DEF Written, signal
    <3> QED BY <2>0, <2>1, <2>2, <3>3, <3>4, <3>5 DEF Written
  <2> QED BY <2>3, <2>4, <2>5
<1>6. CASE StartSamples
  <2>1. Arguments'
    BY <1>6 DEF StartSamples, Arguments, args, sizes, ArgumentsOk
  <2>2. Open'
    BY <1>6 DEF StartSamples, Open
  <2>3. Written'
    <3>1. /\ pc = "header" /\ Len(header) = 6 /\ pc' = "samples"
          /\ UNCHANGED <<position, header, i, result, numSamples>>
          /\ result = "pending" /\ numSamples \in Nat
      BY <1>6, <1>0 DEF StartSamples, sizes, Open
    <3>2. HeaderFields' = HeaderFields
      BY <3>1, SameHeader
    <3>3. \A k \in DOMAIN header' : header'[k] = HeaderFields'[k]
      BY <3>1, <3>2 DEF Written
    <3>4. i' = 0 /\ position' = HeaderSize + 2 * i'
      BY <3>1 DEF Written, HeaderSize
    <3>5. header' \in Seq(Int) /\ Len(header') = 6
      BY <3>1 DEF Written
    <3>6. numSamples' \in Nat /\ pc' = "samples" /\ result' = "pending"
      BY <3>1
    <3> QED BY <3>3, <3>4, <3>5, <3>6 DEF Written
  <2> QED BY <2>1, <2>2, <2>3
<1>7. CASE WriteSample
  <2>0. /\ pc = "samples" /\ i < numSamples /\ result = "pending"
        /\ i' = i + 1
        /\ UNCHANGED <<args, sizes, header>>
        /\ StreamWrite(2, "samples")
    BY <1>7 DEF WriteSample, Open
  <2>1. /\ maximumLength = 24 + 2 * numSamples /\ numSamples \in Nat
        /\ i \in Nat /\ position = 24 + 2 * i
    BY <2>0, <1>0 DEF Arguments, Written, HeaderSize
  <2>2. /\ position' = position + 2 /\ pc' = "samples"
        /\ UNCHANGED <<heap, err, result>>
    BY <2>0, <2>1 DEF StreamWrite
  <2>3. Arguments'
    BY <2>0, <2>2 DEF Arguments, args, sizes, ArgumentsOk
  <2>4. Open'
    BY <2>0, <2>2 DEF Open
  <2>5. Written'
    BY <2>0, <2>1, <2>2, SameHeader DEF Written, sizes, HeaderSize
  <2> QED BY <2>3, <2>4, <2>5
<1>8. CASE Return
  <2>1. Arguments'
    BY <1>8 DEF Return, Arguments, Open, args, sizes, ArgumentsOk
  <2>2. Open'
    BY <1>8 DEF Return, Open
  <2>3. Written'
    BY <1>8, SameHeader DEF Return, Written, sizes, signal
  <2> QED BY <2>1, <2>2, <2>3
<1>9. CASE UNCHANGED vars
  <2>1. Arguments'
    BY <1>9 DEF vars, args, sizes, Arguments, ArgumentsOk
  <2>2. Open'
    BY <1>9 DEF vars, Open
  <2>3. Written'
    BY <1>9, SameHeader DEF vars, sizes, signal, Written
  <2> QED BY <2>1, <2>2, <2>3
<1> QED BY <1>1, <1>2, <1>3, <1>4, <1>5, <1>6, <1>7, <1>8, <1>9 DEF Next, Returned

\* The inductive invariant of the writing of the stream.
THEOREM StreamInductive == Spec => []StreamInv
BY StreamInit, StreamStep, PTL DEF Spec

\* The stream is as long as what is written to it, for every number of samples:
\* the error of alutOutputStream.c:61 never happens, and the header says how much
\* sound there is.
THEOREM StreamNeverOverflows == Spec => []StreamExactlyFilled
<1>1. ASSUME StreamInv PROVE StreamExactlyFilled
  <2>1. err # "IO_ERROR"
    BY <1>1 DEF StreamInv, Open
  <2>2. ASSUME result = "ok"
        PROVE  /\ position = maximumLength
               /\ 2 * numSamples <= Int32Max => position = header[2] + header[3]
    <3>1. /\ pc # "check" /\ result # "fail"
      BY <1>1, <2>2 DEF StreamInv, Open
    <3>2. /\ position = HeaderSize + 2 * numSamples
          /\ Len(header) = 6 /\ header \in Seq(Int)
          /\ \A k \in DOMAIN header : header[k] = HeaderFields[k]
      BY <1>1, <2>2 DEF StreamInv, Written
    <3>3. numSamples \in Nat
      BY <1>1, <3>1, StreamTypes
    <3>4. header[2] = HeaderSize /\ header[3] = ToInt32(2 * numSamples)
      <4>1. /\ HeaderFields[2] = HeaderSize
            /\ HeaderFields[3] = ToInt32(2 * numSamples)
        BY <3>3, HeaderFieldsType
      <4>2. 2 \in DOMAIN header /\ 3 \in DOMAIN header
        BY <3>2
      <4> QED BY <3>2, <4>1, <4>2
    <3>5. 2 * numSamples <= Int32Max => ToInt32(2 * numSamples) = 2 * numSamples
      BY <3>3, SizeOf32Bits
    <3> QED BY <1>1, <3>1, <3>2, <3>4, <3>5 DEF StreamInv, Arguments
  <2>3. pc = "returned" =>
          heap = IF result = "ok" THEN {"stream", "data"} ELSE {}
    BY <1>1 DEF StreamInv, Open
  <2> QED BY <2>1, <2>2, <2>3 DEF StreamExactlyFilled
<1> QED BY <1>1, StreamInductive, PTL

\* The header is right about the number of bytes of sound only up to 2147483647 of
\* them: nothing in generateWaveform keeps a sound from being longer.
THEOREM TheSizeIsOf32Bits ==
  Spec => [](result = "ok" =>
               (header[3] = 2 * numSamples <=> 2 * numSamples <= Int32Max))
<1>1. ASSUME StreamInv, result = "ok"
      PROVE  header[3] = 2 * numSamples <=> 2 * numSamples <= Int32Max
  <2>1. /\ pc # "check" /\ result # "fail" /\ Len(header) = 6
        /\ header \in Seq(Int)
        /\ \A k \in DOMAIN header : header[k] = HeaderFields[k]
    BY <1>1 DEF StreamInv, Open, Written
  <2>2. numSamples \in Nat
    BY <1>1, <2>1, StreamTypes
  <2>3. 3 \in DOMAIN header
    BY <2>1
  <2>4. header[3] = ToInt32(2 * numSamples)
    BY <2>1, <2>2, <2>3, HeaderFieldsType
  <2> QED BY <2>2, <2>4, SizeOf32Bits
<1> QED BY <1>1, StreamInductive, PTL

\* The sound is a whole number of cycles, less a sample, and that number is the
\* nearest to the duration, for every frequency and duration.
THEOREM EndsWhereItBegins == Spec => []EndsWithACycle
<1>1. ASSUME StreamInv PROVE EndsWithACycle
  <2> SUFFICES ASSUME result = "ok" PROVE
        /\ Cycles(frequency, duration) * SampleFrequency - numSamples * frequency
             \in 0 .. frequency
        /\ 2 * (Cycles(frequency, duration) * DurationUnits - frequency * duration)
             \in -DurationUnits .. DurationUnits
    BY DEF EndsWithACycle
  <2>1. /\ frequency \in Int /\ frequency > 0 /\ duration \in Int /\ duration >= 0
        /\ numSamples \in SampleCounts(frequency, duration)
    <3>1. pc # "check" /\ result # "fail"
      BY <1>1 DEF StreamInv, Open
    <3> QED BY <1>1, <3>1, ArgumentTypes DEF StreamInv, Arguments, ArgumentsOk
  <2> QED BY <2>1, SampleCountsType, CyclesType
<1> QED BY <1>1, StreamInductive, PTL

-----------------------------------------------------------------------------
(* The signal *)

\* Cycles completed before sample k, counted from the start of the waveform.
Wraps(k) == (phase * SampleFrequency + 180 * frequency * k) \div Cycle

\* The phase before the next sample is known, and there has been an impulse for
\* every cycle begun.
Signal ==
  /\ numSamples \in Nat /\ maximumLength \in Nat /\ position \in Nat
  /\ i <= numSamples
  /\ lastPhase \in 0 .. Cycle - 1
  /\ sample \in Int /\ sample >= -FullScale /\ sample <= FullScale
  /\ impulses \in Nat /\ impulses <= i
  /\ pc \in {"check", "header"} => impulses = 0
  /\ pc = "samples" => lastPhase = PhaseAt(i - 1)
  /\ /\ pc = "samples" \/ result = "ok"
     /\ shape = "IMPULSE" /\ 2 * frequency <= SampleFrequency
     => impulses = Wraps(i - 1) - Wraps(-1)

\* A step of less than a cycle goes down just when a cycle is completed.
LEMMA WrapStep ==
  ASSUME phase \in Int, frequency \in Int, frequency > 0,
         2 * frequency <= SampleFrequency, NEW k \in Int
  PROVE  /\ Wraps(k) \in Int /\ Wraps(k - 1) \in Int
         /\ Wraps(k) = Wraps(k - 1) + IF PhaseAt(k - 1) > PhaseAt(k) THEN 1 ELSE 0
<1> DEFINE a == phase * SampleFrequency + 180 * frequency * (k - 1)
           b == phase * SampleFrequency + 180 * frequency * k
           s == 180 * frequency
<1>1. a \in Int /\ b \in Int /\ s \in Nat /\ b = a + s /\ 0 < s /\ s < Cycle
  <2>1. phase * SampleFrequency \in Int /\ s \in Int
    BY CycleType
  <2>2. s * k = (s * (k - 1)) + s /\ s * k \in Int /\ s * (k - 1) \in Int
    BY <2>1
  <2>3. 180 * frequency * k = s * k /\ 180 * frequency * (k - 1) = s * (k - 1)
    OBVIOUS
  <2> QED BY <2>1, <2>2, <2>3, CycleType
<1>2. /\ Wraps(k) = b \div Cycle /\ Wraps(k - 1) = a \div Cycle
      /\ PhaseAt(k) = b % Cycle /\ PhaseAt(k - 1) = a % Cycle
  BY DEF Wraps, PhaseAt
<1> HIDE DEF a, b, s
<1> DEFINE v == a \div Cycle
           w == b \div Cycle
           x == a % Cycle
           y == b % Cycle
<1>3. /\ v \in Int /\ x \in 0 .. Cycle - 1 /\ a = (v * Cycle) + x
      /\ w \in Int /\ y \in 0 .. Cycle - 1 /\ b = (w * Cycle) + y
  <2>1. Cycle \in Nat \ {0}
    BY CycleType
  <2>2. v \in Int /\ x \in 0 .. Cycle - 1 /\ a = (v * Cycle) + x
    BY <1>1, <2>1, DivMod
  <2>3. w \in Int /\ y \in 0 .. Cycle - 1 /\ b = (w * Cycle) + y
    BY <1>1, <2>1, DivMod
  <2> QED BY <2>2, <2>3
<1> HIDE DEF v, w, x, y
<1>4. Cycle \in Nat \ {0} /\ v * Cycle \in Int /\ w * Cycle \in Int
  BY <1>3, CycleType
<1>5. (v + 1) * Cycle = (v * Cycle) + Cycle
      /\ (v + 2) * Cycle = (v * Cycle) + Cycle + Cycle
  BY <1>3, <1>4
<1>6. w = IF x > y THEN v + 1 ELSE v
  <2>1. w >= v + 2 => w * Cycle >= (v + 2) * Cycle
    BY <1>3, <1>4, Monotone
  <2>2. v >= w + 1 => v * Cycle >= (w + 1) * Cycle
    BY <1>3, <1>4, Monotone
  <2>3. (w + 1) * Cycle = (w * Cycle) + Cycle
    BY <1>3, <1>4
  <2>4. w = v \/ w = v + 1
    BY <1>1, <1>3, <1>4, <1>5, <2>1, <2>2, <2>3
  <2> QED BY <1>1, <1>3, <1>4, <1>5, <2>4
<1> QED BY <1>2, <1>3, <1>6 DEF v, w, x, y

\* A file has a size.
LEMMA SizeType ==
  ASSUME NEW n \in Nat
  PROVE  HeaderSize + 2 * n \in Nat
BY DEF HeaderSize

LEMMA SignalInit == Init => Signal
BY CycleType DEF Init, Signal, FullScale

LEMMA SignalStep == StreamInv /\ Signal /\ [Next]_vars => Signal'
<1> SUFFICES ASSUME StreamInv, Signal, [Next]_vars PROVE Signal'
  OBVIOUS
<1>0. /\ frequency \in Int /\ phase \in Int /\ duration \in Int /\ i \in Nat
      /\ Cycle \in Nat \ {0} /\ SampleFrequency \in Nat /\ DurationUnits \in Nat
  BY StreamTypes, CycleType DEF StreamInv, Written
<1>1. CASE UnknownShape \/ BadValue
  BY <1>1 DEF UnknownShape, BadValue, Fails, args, sizes, signal, Signal, Wraps
<1>2. CASE ConstructFails \/ Construct
  <2>1. /\ numSamples' \in SampleCounts(frequency, duration)
        /\ ArgumentsOk /\ pc = "check"
        /\ UNCHANGED <<args, position, header, signal>>
        /\ pc' \in {"header", "returned"} /\ result' \in {"fail", result}
        /\ maximumLength' \in {maximumLength, HeaderSize + 2 * numSamples'}
    BY <1>2 DEF ConstructFails, Construct, Fails
  <2>2. numSamples' \in Nat
    BY <1>0, <2>1, SampleCountsType DEF ArgumentsOk
  <2>3. maximumLength' \in Nat
    <3>1. maximumLength \in Nat
      BY DEF Signal
    <3>2. HeaderSize + 2 * numSamples' \in Nat
      BY <2>2, SizeType
    <3> QED BY <2>1, <3>1, <3>2
  <2>4. i' = 0 /\ impulses' = 0 /\ result' # "ok"
    BY <2>1 DEF signal, Signal, StreamInv, Written, Open
  <2> QED BY <2>1, <2>2, <2>3, <2>4 DEF Signal, signal
<1>3. CASE WriteHeader
  <2>1. /\ pc = "header" /\ pc' \in {"header", "returned"}
        /\ UNCHANGED <<args, sizes, signal>>
        /\ position' \in {position, position + 4}
        /\ result' \in {"fail", result} /\ result # "ok"
    BY <1>3 DEF WriteHeader, StreamWrite, Fails, StreamInv, Open
  <2> QED BY <2>1 DEF Signal, sizes, signal
<1>4. CASE StartSamples
  <2>1. /\ pc = "header" /\ pc' = "samples" /\ lastPhase' = PhaseAt(-1)
        /\ UNCHANGED <<args, sizes, position, i, sample, impulses, result>>
        /\ i = 0 /\ impulses = 0 /\ result # "ok"
    BY <1>4 DEF StartSamples, StreamInv, Open, Written, Signal
  <2>2. PhaseAt(-1) \in 0 .. Cycle - 1 /\ Wraps(-1) \in Int
    <3>1. phase * SampleFrequency + 180 * frequency * (-1) \in Int
      BY <1>0
    <3> QED BY <1>0, <3>1, PhaseAtType, DivMod DEF Wraps
  <2>3. PhaseAt(-1)' = PhaseAt(-1) /\ Wraps(-1)' = Wraps(-1)
    BY <2>1 DEF PhaseAt, Wraps, args
  <2>4. i - 1 = -1 /\ i' - 1 = -1
    BY <2>1
  <2> QED BY <2>1, <2>2, <2>3, <2>4 DEF Signal, sizes
<1>5. CASE WriteSample
  <2>1. /\ pc = "samples" /\ i < numSamples /\ i' = i + 1
        /\ sample' \in Amplitudes(lastPhase, PhaseAt(i))
        /\ impulses' = impulses + IF shape = "IMPULSE" /\ sample' # 0 THEN 1 ELSE 0
        /\ lastPhase' = PhaseAt(i)
        /\ pc' \in {"samples", "returned"} /\ result' \in {"fail", result}
        /\ result # "ok"
        /\ position' \in {position, position + 2}
        /\ UNCHANGED <<args, sizes, header>>
    BY <1>5 DEF WriteSample, StreamWrite, Fails, StreamInv, Open
  <2>2. PhaseAt(i) \in 0 .. Cycle - 1 /\ lastPhase \in Int
    <3>1. PhaseAt(i) \in 0 .. Cycle - 1
      BY <1>0, PhaseAtType
    <3>2. lastPhase \in 0 .. Cycle - 1
      BY DEF Signal
    <3> QED BY <1>0, <3>1, <3>2
  <2>3. /\ shape \in Shapes /\ frequency > 0
    BY <2>1 DEF StreamInv, Arguments, Open, ArgumentsOk
  <2>4. sample' \in Int /\ sample' >= -FullScale /\ sample' <= FullScale
    BY <2>1, <2>2, <2>3, AmplitudesType
  <2>5. lastPhase' = PhaseAt(i - 1)'
    <3>1. i' - 1 = i
      BY <1>0, <2>1
    <3> QED BY <2>1, <3>1 DEF PhaseAt, args
  <2>6. ASSUME shape = "IMPULSE", 2 * frequency <= SampleFrequency
        PROVE  impulses' = Wraps(i - 1)' - Wraps(-1)'
    <3>1. /\ impulses = Wraps(i - 1) - Wraps(-1) /\ lastPhase = PhaseAt(i - 1)
      BY <2>1, <2>6 DEF Signal
    <3>2. sample' # 0 <=> PhaseAt(i - 1) > PhaseAt(i)
      BY <2>1, <2>6, <3>1 DEF Amplitudes, FullScale
    <3>3. /\ Wraps(i) \in Int /\ Wraps(i - 1) \in Int
          /\ Wraps(i) = Wraps(i - 1) + IF PhaseAt(i - 1) > PhaseAt(i) THEN 1 ELSE 0
      BY <1>0, <2>3, <2>6, WrapStep
    <3>4. Wraps(i - 1)' = Wraps(i) /\ Wraps(-1)' = Wraps(-1)
      <4>1. i' - 1 = i
        BY <1>0, <2>1
      <4> QED BY <2>1, <4>1 DEF Wraps, args
    <3>5. Wraps(-1) \in Int
      <4>1. phase * SampleFrequency + 180 * frequency * (-1) \in Int
        BY <1>0
      <4> QED BY <1>0, <4>1, DivMod DEF Wraps
    <3> QED BY <2>1, <2>6, <3>1, <3>2, <3>3, <3>4, <3>5
  <2> QED BY <1>0, <2>1, <2>2, <2>4, <2>5, <2>6 DEF Signal, sizes, args
<1>6. CASE Return
  <2>1. /\ UNCHANGED <<args, sizes, position, signal>>
        /\ pc = "samples" /\ pc' = "returned"
    BY <1>6 DEF Return
  <2>2. Wraps(i - 1)' = Wraps(i - 1) /\ Wraps(-1)' = Wraps(-1)
    BY <2>1 DEF Wraps, args, signal
  <2> QED BY <2>1, <2>2 DEF Signal, sizes, signal, args
<1>7. CASE UNCHANGED vars
  BY <1>7 DEF vars, args, sizes, signal, Signal, Wraps, PhaseAt
<1> QED BY <1>1, <1>2, <1>3, <1>4, <1>5, <1>6, <1>7 DEF Next, Returned

\* The inductive invariant of the samples.
THEOREM SignalInductive == Spec => [](StreamInv /\ Signal)
BY StreamInit, StreamStep, SignalInit, SignalStep, PTL DEF Spec

\* Types, among them the ranges of alutWaveform.c:12 for phases and amplitudes.
THEOREM TypeCorrect == Spec => []TypeOK
<1>1. ASSUME StreamInv, Signal PROVE TypeOK
  <2>1. i \in 0 .. numSamples /\ impulses \in 0 .. i
    BY <1>1 DEF StreamInv, Written, Signal
  <2>2. sample \in -FullScale .. FullScale
    <3>1. /\ FullScale \in Int
          /\ sample \in Int /\ sample >= -FullScale /\ sample <= FullScale
      BY <1>1 DEF Signal, FullScale
    <3> QED BY <3>1
  <2>3. heap \subseteq {"stream", "data"}
    BY <1>1 DEF StreamInv, Open
  <2> QED BY <1>1, <2>1, <2>2, <2>3
    DEF StreamInv, Arguments, Open, Written, Signal, TypeOK
<1> QED BY <1>1, SignalInductive, PTL

\* The AU reader and its codec get back every number of the header and every
\* sample, on a host of either byte order.
THEOREM WhatIsWrittenIsRead == Spec => []ReadsBack
<1>1. ASSUME StreamInv, Signal PROVE ReadsBack
  <2>1. ASSUME NEW k \in DOMAIN header
        PROVE  ReadInt32BE(Int32BE(header[k])) = header[k]
    <3>1. /\ header \in Seq(Int) /\ Len(header) <= 6
          /\ header[k] = HeaderFields[k] /\ numSamples \in Nat
      BY <1>1 DEF StreamInv, Written, Signal
    <3>2. k \in 1 .. 6
      <4> DEFINE n == Len(header)
      <4>1. n \in Nat /\ n <= 6 /\ k \in 1 .. n
        BY <3>1
      <4> HIDE DEF n
      <4> QED BY <4>1
    <3>3. HeaderFields[k] \in Int32
      BY <3>1, <3>2, HeaderFieldsType
    <3> QED BY <3>1, <3>3, ReadBack32
  <2>2. sample \in Int16
    BY SMT, <1>1 DEF Signal, FullScale, Int16
  <2> QED BY <2>1, <2>2, ReadBack16 DEF ReadsBack
<1> QED BY <1>1, SignalInductive, PTL

\* In a number c of cycles less a remainder of at most a sample, there are c
\* steps to a new cycle, or one less when the first phase is before the middle of
\* its cycle by less than the remainder.
LEMMA WrapsOfCycles ==
  ASSUME NEW x \in Int, NEW c \in Int, NEW rest \in Nat, NEW g \in Nat \ {0},
         2 * rest <= g
  PROVE  /\ (x + ((c * g) - rest)) \div g - (x \div g) \in {c, c - 1}
         /\ x % g >= rest => (x + ((c * g) - rest)) \div g - (x \div g) = c
<1> DEFINE v == x \div g
           r == x % g
           b == x + ((c * g) - rest)
<1>1. v \in Int /\ r \in 0 .. g - 1 /\ x = (v * g) + r
  BY DivMod
<1> HIDE DEF v, r
<1>2. c * g \in Int /\ v * g \in Int /\ b \in Int
  BY <1>1
<1>3. /\ (v + c) * g = (v * g) + (c * g)
      /\ (v + c + 1) * g = (v * g) + (c * g) + g
      /\ (v + c - 1) * g = (v * g) + (c * g) - g
      /\ (v + c - 1 + 1) * g = (v * g) + (c * g)
  BY <1>1
<1>4. CASE r >= rest
  <2>1. (v + c) * g <= b /\ b < (v + c + 1) * g
    BY <1>1, <1>2, <1>3, <1>4
  <2>2. v + c \in Int
    BY <1>1
  <2> HIDE DEF b
  <2>3. b \div g = v + c
    BY <1>2, <2>1, <2>2, QuotientIs
  <2>4. b \div g - v = c
    BY <1>1, <2>3
  <2> QED BY <2>4 DEF b, v
<1>5. CASE r < rest
  <2>1. (v + c - 1) * g <= b /\ b < (v + c - 1 + 1) * g
    BY <1>1, <1>2, <1>3, <1>5
  <2>2. v + c - 1 \in Int
    BY <1>1
  <2> HIDE DEF b
  <2>3. b \div g = v + c - 1
    BY <1>2, <2>1, <2>2, QuotientIs
  <2>4. b \div g - v = c - 1
    BY <1>1, <2>3
  <2> QED BY <1>1, <1>5, <2>4 DEF b, v, r
<1> QED BY <1>1, <1>4, <1>5

\* With a phase of half turns, the first sample begins a cycle: the phase before
\* it is a step before the end of one.
LEMMA HalfTurns ==
  ASSUME NEW ph \in Int, ph % 180 = 0, NEW s \in Nat \ {0}, s <= Cycle
  PROVE  (ph * SampleFrequency - s) % Cycle = Cycle - s
<1> DEFINE m == ph \div 180
           n == ph * SampleFrequency - s
<1>1. m \in Int /\ ph = m * 180
  <2>1. /\ m \in Int /\ ph = (m * 180) + (ph % 180)
    BY DivMod
  <2> HIDE DEF m
  <2> QED BY <2>1
<1> HIDE DEF m
<1>2. /\ Cycle \in Nat \ {0} /\ SampleFrequency \in Int
      /\ Cycle = 180 * SampleFrequency
  BY CycleType
<1>3. ph * SampleFrequency = m * Cycle /\ m * Cycle \in Int
  <2>1. (m * 180) * SampleFrequency = m * (180 * SampleFrequency)
    BY <1>1, <1>2
  <2>2. m * (180 * SampleFrequency) \in Int
    BY <1>1, <1>2
  <2> QED BY <1>1, <1>2, <2>1, <2>2
<1>4. (m - 1) * Cycle = (m * Cycle) - Cycle /\ (m - 1 + 1) * Cycle = m * Cycle
  BY <1>1, <1>2
<1>5. n \in Int /\ n = (m * Cycle) - s
  BY <1>3
<1> HIDE DEF n
<1>6. n \div Cycle = m - 1
  <2>1. m - 1 \in Int /\ (m - 1) * Cycle <= n /\ n < (m - 1 + 1) * Cycle
    <3> DEFINE p == m * Cycle
    <3>1. p \in Int
      BY <1>3
    <3>2. (m - 1) * Cycle = p - Cycle /\ (m - 1 + 1) * Cycle = p /\ n = p - s
      BY <1>4, <1>5
    <3> HIDE DEF p
    <3>3. p - Cycle <= p - s /\ p - s < p
      BY <1>2, <3>1
    <3> QED BY <1>1, <3>2, <3>3
  <2> QED BY <1>2, <1>5, <2>1, QuotientIs
<1>7. n = ((m - 1) * Cycle) + (n % Cycle) /\ n % Cycle \in 0 .. Cycle - 1
  <2>1. n = ((n \div Cycle) * Cycle) + (n % Cycle) /\ n % Cycle \in 0 .. Cycle - 1
    <3>1. n \in Int /\ Cycle \in Nat \ {0}
      BY <1>2, <1>5
    <3> QED BY <3>1, DivMod
  <2> QED BY <1>6, <2>1
<1>8. n % Cycle = Cycle - s
  BY <1>2, <1>3, <1>4, <1>5, <1>7
<1> QED BY <1>8 DEF n

\* An impulse waveform has an impulse in every cycle, for every frequency up to
\* half the sample frequency, every duration and every phase; only one at the end
\* may fall behind the last sample, and none does when the phase is half turns.
THEOREM AnImpulseForEveryCycle == Spec => []OneImpulsePerCycle
<1>1. ASSUME StreamInv, Signal PROVE OneImpulsePerCycle
  <2> SUFFICES ASSUME result = "ok", shape = "IMPULSE",
                      2 * frequency <= SampleFrequency
               PROVE  \/ impulses = Cycles(frequency, duration)
                      \/ /\ phase % 180 # 0
                         /\ impulses = Cycles(frequency, duration) - 1
    BY DEF OneImpulsePerCycle
  <2> DEFINE c == Cycles(frequency, duration)
             s == 180 * frequency
             x == phase * SampleFrequency - s
             rest == 180 * (c * SampleFrequency - numSamples * frequency)
  <2>1. /\ frequency \in Int /\ frequency > 0 /\ phase \in Int
        /\ duration \in Int /\ duration >= 0
        /\ numSamples \in SampleCounts(frequency, duration)
        /\ i = numSamples /\ numSamples \in Nat
    <3>1. pc # "check" /\ result # "fail"
      BY <1>1 DEF StreamInv, Open
    <3> QED BY <1>1, <3>1, StreamTypes
      DEF StreamInv, Arguments, Written, ArgumentsOk
  <2>2. /\ c \in Nat
        /\ c * SampleFrequency - numSamples * frequency \in 0 .. frequency
    BY <2>1, CyclesType, SampleCountsType
  <2>3. impulses = Wraps(numSamples - 1) - Wraps(-1)
    BY <1>1, <2>1 DEF Signal
  <2> HIDE DEF c
  <2>4. /\ Cycle \in Nat \ {0} /\ SampleFrequency \in Nat \ {0}
        /\ Cycle = 180 * SampleFrequency
    BY CycleType
  <2>5. /\ s \in Nat \ {0} /\ 2 * s <= Cycle /\ rest \in Nat /\ rest <= s
        /\ phase * SampleFrequency \in Int /\ x \in Int
    <3>1. phase * SampleFrequency \in Int
      BY <2>1, <2>4
    <3>2. s \in Nat \ {0} /\ 2 * s <= Cycle
      BY <2>1, <2>4
    <3>3. rest \in Nat /\ rest <= s
      <4> DEFINE y == c * SampleFrequency - numSamples * frequency
      <4>1. y \in 0 .. frequency
        BY <2>2
      <4> HIDE DEF y
      <4>2. 180 * y \in Nat /\ 180 * y <= 180 * frequency
        BY <2>1, <4>1
      <4> QED BY <4>2 DEF y
    <3> QED BY <3>1, <3>2, <3>3
  <2>6. Wraps(-1) = x \div Cycle
    <3>1. phase * SampleFrequency + 180 * frequency * (-1) = x
      BY <2>1, <2>5
    <3> QED BY <3>1 DEF Wraps
  <2>7. Wraps(numSamples - 1) = (x + ((c * Cycle) - rest)) \div Cycle
    <3>1. /\ numSamples * frequency \in Int /\ c * SampleFrequency \in Int
          /\ 180 * (c * SampleFrequency) = c * Cycle /\ c * Cycle \in Int
          /\ 180 * frequency * (numSamples - 1) = (180 * (numSamples * frequency)) - s
      BY <2>1, <2>2, <2>4
    <3>2. rest = (c * Cycle) - (180 * (numSamples * frequency))
      BY <3>1
    <3> HIDE DEF rest
    <3>3. phase * SampleFrequency + 180 * frequency * (numSamples - 1)
            = x + ((c * Cycle) - rest)
      BY <2>5, <3>1, <3>2
    <3> QED BY <3>3 DEF Wraps
  <2>8. phase % 180 = 0 => x % Cycle >= rest
    <3>1. phase % 180 = 0 => x % Cycle = Cycle - s
      <4> HIDE DEF s
      <4>1. s <= Cycle
        BY <2>4, <2>5
      <4> QED BY <2>1, <2>5, <4>1, HalfTurns
    <3> QED BY <2>4, <2>5, <3>1
  <2> HIDE DEF x, rest, s
  <2>9. 2 * rest <= Cycle
    BY <2>4, <2>5
  <2>10. /\ impulses \in {c, c - 1}
         /\ x % Cycle >= rest => impulses = c
    <3>1. /\ (x + ((c * Cycle) - rest)) \div Cycle - (x \div Cycle) \in {c, c - 1}
          /\ x % Cycle >= rest =>
               (x + ((c * Cycle) - rest)) \div Cycle - (x \div Cycle) = c
      <4>1. /\ x \in Int /\ c \in Int /\ rest \in Nat /\ Cycle \in Nat \ {0}
            /\ 2 * rest <= Cycle
        BY <2>2, <2>4, <2>5, <2>9
      <4> QED BY <4>1, WrapsOfCycles
    <3> QED BY <2>3, <2>6, <2>7, <3>1
  <2> QED BY <2>8, <2>10 DEF c
<1> QED BY <1>1, SignalInductive, PTL

-----------------------------------------------------------------------------
(* What a phase of half a turn does *)

\* Whole multiples of the divisor leave the remainder as it is.
LEMMA RemainderOfSum ==
  ASSUME NEW n \in Int, NEW m \in Int, NEW g \in Nat \ {0}
  PROVE  ((n * g) + m) % g = m % g
<1> DEFINE q == m \div g
           r == m % g
           s == (n * g) + m
<1>1. q \in Int /\ r \in 0 .. g - 1 /\ m = (q * g) + r
  BY DivMod
<1> HIDE DEF q, r
<1>2. n * g \in Int /\ q * g \in Int /\ s \in Int /\ n + q \in Int
  BY <1>1
<1>3. (n + q) * g = (n * g) + (q * g) /\ (n + q + 1) * g = (n * g) + (q * g) + g
  BY <1>1
<1>4. s = ((n + q) * g) + r
  BY <1>1, <1>2, <1>3
<1>5. (n + q) * g <= s /\ s < (n + q + 1) * g
  BY <1>1, <1>2, <1>3, <1>4
<1> HIDE DEF s
<1>6. s \div g = n + q
  BY <1>2, <1>5, QuotientIs
<1>7. s = ((s \div g) * g) + (s % g) /\ s % g \in Int
  <2>1. s \in Int /\ g \in Nat \ {0}
    BY <1>2
  <2>2. s = ((s \div g) * g) + (s % g) /\ s % g \in 0 .. g - 1
    BY <2>1, DivMod
  <2> QED BY <2>1, <2>2
<1>8. s % g = r
  BY <1>1, <1>2, <1>3, <1>4, <1>6, <1>7
<1> QED BY <1>8 DEF r, s

\* The phase is divided by 180 and not by 360, so that every half turn is a whole
\* cycle: a waveform with a phase of 180 degrees, for which doc/alut.html:851 gives
\* "-180 to +180", has the phases of one with no phase at all.
THEOREM HalfATurnIsACycle ==
  ASSUME NEW n \in Int, phase = 180 * n, frequency \in Int, NEW k \in Int
  PROVE  PhaseAt(k) = (180 * frequency * k) % Cycle
<1> DEFINE m == 180 * frequency * k
<1>1. m \in Int
  OBVIOUS
<1>2. phase * SampleFrequency = n * Cycle /\ Cycle \in Nat \ {0}
  <2>1. (180 * n) * SampleFrequency = n * (180 * SampleFrequency)
    BY CycleType
  <2> QED BY <2>1, CycleType
<1>3. PhaseAt(k) = ((n * Cycle) + m) % Cycle
  BY <1>2 DEF PhaseAt
<1> HIDE DEF m
<1>4. ((n * Cycle) + m) % Cycle = m % Cycle
  BY <1>1, <1>2, RemainderOfSum
<1> QED BY <1>3, <1>4 DEF m

\* The first sample of a square wave that is shifted by half turns.
FirstOfSquare ==
  shape = "SQUARE" /\ phase % 180 = 0 /\ i = 1 => sample = FullScale

\* So a square wave is never inverted: whatever number of half turns it is
\* shifted by, it begins at the top.
THEOREM HalfATurnInvertsNothing == Spec => []FirstOfSquare
<1>1. Init => FirstOfSquare
  BY DEF Init, FirstOfSquare
<1>2. ASSUME StreamInv, Signal, FirstOfSquare, [Next]_vars
      PROVE  FirstOfSquare'
  <2>1. CASE UNCHANGED <<args, signal>>
    BY <1>2, <2>1 DEF FirstOfSquare, args, signal
  <2>2. CASE StartSamples
    BY <1>2, <2>2 DEF FirstOfSquare, StartSamples, args
  <2>3. CASE WriteSample
    <3> SUFFICES ASSUME shape = "SQUARE", phase % 180 = 0, i' = 1
                 PROVE  sample' = FullScale
      BY <2>3 DEF FirstOfSquare, WriteSample, args
    <3>1. i = 0 /\ sample' \in Amplitudes(lastPhase, PhaseAt(0))
      BY <1>2, <2>3 DEF WriteSample, StreamInv, Written
    <3>2. phase \in Int /\ frequency \in Int
      BY <1>2, StreamTypes
    <3>3. PhaseAt(0) = 0
      <4>1. PICK n \in Int : phase = 180 * n
        <5> DEFINE q == phase \div 180
        <5>1. q \in Int /\ phase = (q * 180) + (phase % 180)
          BY <3>2, DivMod
        <5> HIDE DEF q
        <5> QED BY <5>1
      <4>2. PhaseAt(0) = (180 * frequency * 0) % Cycle
        BY <3>2, <4>1, HalfATurnIsACycle
      <4> QED BY <3>2, <4>2, CycleType
    <3> QED BY <3>1, <3>3, CycleType DEF Amplitudes
  <2> QED
    BY <1>2, <2>1, <2>2, <2>3 DEF Next, UnknownShape, BadValue, ConstructFails,
       Construct, WriteHeader, Return, Returned, vars
<1> QED BY <1>1, <1>2, SignalInductive, PTL DEF Spec

-----------------------------------------------------------------------------
(* Termination *)

\* How many steps are left at most: as many as there are numbers to write, and
\* the arguments bound those.
StepsLeft ==
  CASE pc = "check"    -> IF ArgumentsOk
                          THEN (Cycles(frequency, duration) * SampleFrequency)
                                 \div frequency + 9
                          ELSE 1
    [] pc = "header"   -> numSamples + 8 - Len(header)
    [] pc = "samples"  -> numSamples + 1 - i
    [] pc = "returned" -> 0

Nearer == StepsLeft \in Nat /\ StepsLeft' \in Nat /\ StepsLeft' < StepsLeft

\* Every step of generateWaveform gets nearer to its return: neither of its loops
\* goes on for ever, whatever the arguments are.  That there is a step to take
\* while it has not returned, and that it is taken, is not part of this.
THEOREM EveryStepIsNearerToTheReturn == Spec => [][Nearer]_vars
<1>1. ASSUME StreamInv, Signal, [Next]_vars PROVE [Nearer]_vars
  <2>0. /\ numSamples \in Nat /\ i \in Nat /\ header \in Seq(Int)
        /\ Len(header) \in Nat /\ Len(header) <= 6
        /\ frequency \in Int /\ duration \in Int
    <3>1. frequency \in Int /\ duration \in Int
      BY <1>1, StreamTypes
    <3>2. /\ numSamples \in Nat /\ i \in Nat /\ header \in Seq(Int)
          /\ Len(header) <= 6
      BY <1>1 DEF StreamInv, Written, Signal
    <3>3. Len(header) \in Nat
      BY <3>2
    <3> QED BY <3>1, <3>2, <3>3
  <2>1. ASSUME pc = "check" PROVE StepsLeft \in Nat /\ StepsLeft >= 1
    <3>1. CASE ArgumentsOk
      <4> DEFINE n == (Cycles(frequency, duration) * SampleFrequency) \div frequency
      <4>1. n \in Nat
        BY <2>0, <3>1, CyclesSamples DEF ArgumentsOk
      <4>2. StepsLeft = n + 9
        BY <2>1, <3>1 DEF StepsLeft
      <4> HIDE DEF n
      <4> QED BY <4>1, <4>2
    <3>2. CASE ~ ArgumentsOk
      BY <2>1, <3>2 DEF StepsLeft
    <3> QED BY <3>1, <3>2
  <2>2. CASE UnknownShape \/ BadValue \/ ConstructFails
    <3>1. pc = "check" /\ pc' = "returned"
      BY <2>2 DEF UnknownShape, BadValue, ConstructFails, Fails
    <3>2. StepsLeft' = 0
      BY <3>1 DEF StepsLeft
    <3> QED BY <2>1, <3>1, <3>2 DEF Nearer
  <2>3. CASE Construct
    <3> DEFINE n == (Cycles(frequency, duration) * SampleFrequency) \div frequency
    <3>1. /\ pc = "check" /\ pc' = "header" /\ ArgumentsOk
          /\ numSamples' \in SampleCounts(frequency, duration)
          /\ header' = header
      BY <2>3 DEF Construct
    <3>2. n \in Nat /\ numSamples' \in Nat /\ numSamples' <= n
      BY <2>0, <3>1, CyclesSamples DEF ArgumentsOk
    <3>3. StepsLeft = n + 9 /\ StepsLeft' = numSamples' + 8 - Len(header)
      BY <3>1 DEF StepsLeft
    <3> HIDE DEF n
    <3>4. /\ StepsLeft \in Nat /\ StepsLeft' \in Nat
          /\ StepsLeft' < StepsLeft
      BY <2>0, <3>2, <3>3
    <3> QED BY <3>4 DEF Nearer
  <2>4. CASE WriteHeader
    <3>1. /\ pc = "header" /\ Len(header) < 6 /\ pc' \in {"header", "returned"}
          /\ Len(header') = Len(header) + 1 /\ numSamples' = numSamples
      BY <2>0, <2>4 DEF WriteHeader, StreamWrite, Fails, sizes
    <3>2. /\ StepsLeft = numSamples + 8 - Len(header)
          /\ StepsLeft' \in {0, numSamples + 8 - (Len(header) + 1)}
      BY <3>1 DEF StepsLeft
    <3> QED BY <2>0, <3>1, <3>2 DEF Nearer
  <2>5. CASE StartSamples
    <3>1. /\ pc = "header" /\ Len(header) = 6 /\ pc' = "samples"
          /\ UNCHANGED <<numSamples, i>> /\ i = 0
      BY <1>1, <2>5 DEF StartSamples, sizes, StreamInv, Written
    <3>2. StepsLeft = numSamples + 2 /\ StepsLeft' = numSamples + 1
      BY <2>0, <3>1 DEF StepsLeft
    <3> QED BY <2>0, <3>2 DEF Nearer
  <2>6. CASE WriteSample
    <3>1. /\ pc = "samples" /\ i < numSamples /\ pc' \in {"samples", "returned"}
          /\ i' = i + 1 /\ numSamples' = numSamples
      BY <2>6 DEF WriteSample, StreamWrite, Fails, sizes
    <3>2. /\ StepsLeft = numSamples + 1 - i
          /\ StepsLeft' \in {0, numSamples + 1 - (i + 1)}
      BY <3>1 DEF StepsLeft
    <3> QED BY <2>0, <3>1, <3>2 DEF Nearer
  <2>7. CASE Return
    <3>1. pc = "samples" /\ i = numSamples /\ pc' = "returned"
      BY <2>7 DEF Return
    <3>2. StepsLeft = 1 /\ StepsLeft' = 0
      BY <2>0, <3>1 DEF StepsLeft
    <3> QED BY <3>2 DEF Nearer
  <2>8. CASE UNCHANGED vars
    BY <2>8
  <2> QED
    BY <1>1, <2>2, <2>3, <2>4, <2>5, <2>6, <2>7, <2>8 DEF Next, Returned
<1> QED BY <1>1, SignalInductive, PTL DEF Spec

-----------------------------------------------------------------------------
(* What AlutLoader takes a generated waveform for *)

\* The call ends with an open stream of so many bytes, whose header is the one
\* the loader knows of a waveform, or with one of three errors and nothing else.
AsTheLoaderTakesIt ==
  pc = "returned" =>
    \/ /\ result = "ok" /\ err = NoError
       /\ heap = {"stream", "data"}
       /\ numSamples \in Nat /\ position = 24 + 2 * numSamples
       /\ header[2] = 24 /\ header[4] = 3 /\ header[5] = SampleFrequency
       /\ header[6] = 1
       /\ 2 * numSamples <= Int32Max => header[3] = position - 24
    \/ /\ result = "fail" /\ heap = {}
       /\ err \in {"INVALID_ENUM", "INVALID_VALUE", "OUT_OF_MEMORY"}

\* The error is that of the way out.
FailsAsTheLoaderKnows ==
  err \in IF result = "fail" THEN {"INVALID_ENUM", "INVALID_VALUE", "OUT_OF_MEMORY"}
          ELSE {NoError}

LEMMA FailsStep ==
  StreamInv /\ FailsAsTheLoaderKnows /\ StreamInv' /\ [Next]_vars
    => FailsAsTheLoaderKnows'
<1> SUFFICES ASSUME StreamInv, FailsAsTheLoaderKnows, StreamInv', [Next]_vars
             PROVE  FailsAsTheLoaderKnows'
  OBVIOUS
<1> USE DEF FailsAsTheLoaderKnows
<1>1. CASE UNCHANGED <<err, result>>
  BY <1>1
<1>2. ASSUME NEW e \in {"INVALID_ENUM", "INVALID_VALUE", "OUT_OF_MEMORY"},
             Fails(e, "returned"), pc = "check"
      PROVE  FailsAsTheLoaderKnows'
  <2>1. err = NoError
    BY <1>2 DEF StreamInv, Open
  <2> QED BY <1>2, <2>1 DEF Fails, SetError
<1>3. CASE WriteHeader \/ WriteSample
  <2>1. UNCHANGED <<err, result>> \/ Fails("IO_ERROR", "returned")
    BY <1>3 DEF WriteHeader, WriteSample, StreamWrite
  <2>2. pc # "returned" /\ err = NoError
    BY <1>3 DEF WriteHeader, WriteSample, StreamInv, Open
  <2>3. ~ Fails("IO_ERROR", "returned")
    BY <2>2 DEF Fails, SetError, StreamInv, Open
  <2> QED BY <1>1, <2>1, <2>3
<1>4. CASE Return
  <2>1. pc = "samples" /\ result' = "ok" /\ err' = err
    BY <1>4 DEF Return
  <2> QED BY <2>1 DEF StreamInv, Open
<1> QED BY <1>1, <1>2, <1>3, <1>4
        DEF Next, UnknownShape, BadValue, ConstructFails, Construct, StartSamples,
            Returned, vars

\* generateWaveform is to its caller what the steps Generate and GenerateFails of
\* AlutLoader are: an AU file of 24 bytes and two for each sample, with the offset,
\* encoding and channels AlutLoader has the parser find, or one of three errors
\* and nothing to free.
THEOREM GeneratesWhatTheLoaderExpects == Spec => []AsTheLoaderTakesIt
<1>1. ASSUME StreamInv, FailsAsTheLoaderKnows PROVE AsTheLoaderTakesIt
  <2> SUFFICES ASSUME pc = "returned" PROVE AsTheLoaderTakesIt
    BY DEF AsTheLoaderTakesIt
  <2>1. result \in {"ok", "fail"}
    BY <1>1 DEF StreamInv, Open
  <2>2. CASE result = "fail"
    BY <1>1, <2>2 DEF StreamInv, Open, FailsAsTheLoaderKnows, AsTheLoaderTakesIt
  <2>3. CASE result = "ok"
    <3>1. err = NoError /\ heap = {"stream", "data"}
      BY <1>1, <2>3 DEF StreamInv, Open, FailsAsTheLoaderKnows
    <3>2. /\ position = HeaderSize + 2 * i /\ i = numSamples
          /\ Len(header) = 6 /\ header \in Seq(Int)
          /\ \A k \in DOMAIN header : header[k] = HeaderFields[k]
      BY <1>1, <2>3 DEF StreamInv, Written
    <3>3. numSamples \in Nat
      BY <1>1, <2>3, StreamTypes
    <3>4. \A k \in 1 .. 6 : header[k] = HeaderFields[k]
      BY <3>2
    <3>5. /\ header[2] = 24 /\ header[4] = 3 /\ header[5] = SampleFrequency
          /\ header[6] = 1 /\ header[3] = ToInt32(2 * numSamples)
      BY <3>4 DEF HeaderFields, HeaderSize, PCM16
    <3>6. 2 * numSamples <= Int32Max => ToInt32(2 * numSamples) = 2 * numSamples
      BY <3>3, SizeOf32Bits
    <3>7. position = 24 + 2 * numSamples /\ position - 24 = 2 * numSamples
      BY <3>2, <3>3 DEF HeaderSize
    <3> QED BY <2>3, <3>1, <3>3, <3>5, <3>6, <3>7 DEF AsTheLoaderTakesIt
  <2> QED BY <2>1, <2>2, <2>3
<1>2. Init => FailsAsTheLoaderKnows
  BY DEF Init, FailsAsTheLoaderKnows
<1> QED BY <1>1, <1>2, FailsStep, StreamInductive, PTL DEF Spec

=============================================================================
