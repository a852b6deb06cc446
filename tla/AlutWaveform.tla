----------------------------- MODULE AlutWaveform -----------------------------
(***************************************************************************)
(* generateWaveform (src/alutWaveform.c): one call, from the checks of its *)
(* arguments to the output stream it returns (src/alutOutputStream.c),     *)
(* which holds the image of an AU file.                                    *)
(*                                                                         *)
(* A frequency and a phase are whole numbers of Hertz and degrees, a       *)
(* duration a number of DurationUnits to the second.  A phase of the       *)
(* waveform is a fraction of a cycle; it is counted in units of 1/Cycle,   *)
(* in which everything the code adds is a whole number.  With phases of a  *)
(* multiple of 45 degrees the comparisons the code makes come out as with  *)
(* exact numbers, but for the number of samples (SampleCounts).  The       *)
(* samples already written are left out, but for the last of them and the  *)
(* number of impulses.                                                     *)
(***************************************************************************)
EXTENDS AlutBytes, AlutErrors, Sequences

CONSTANTS
  SampleFrequency,  \* samples per second; 44100 in the code
  DurationUnits,
  Frequencies, Phases, Durations,
  Sin,              \* Sin[p]: sin(phase * pi) at full scale
  NoiseLevels       \* values random() can lead to

ASSUME WaveformAssumption ==
  /\ SampleFrequency \in Nat \ {0} /\ SampleFrequency <= Int32Max
  /\ DurationUnits \in Nat \ {0}
  /\ Frequencies \subseteq Int /\ Phases \subseteq Int /\ Durations \subseteq Int
  /\ Sin \in [0 .. 180 * SampleFrequency - 1 -> Int]
  /\ NoiseLevels \subseteq Int
  /\ \A x \in {Sin[p] : p \in DOMAIN Sin} \cup NoiseLevels : x >= -32767 /\ x <= 32767

VARIABLES
  shape, frequency, phase, duration,  \* the arguments
  pc,
  numSamples,
  maximumLength,  \* of the stream
  position,       \* current - data in the stream
  header,         \* the numbers written before the samples
  i,
  lastPhase,
  sample,         \* the sample written last
  impulses,       \* samples of full scale in an impulse waveform so far
  heap,           \* the stream and its data
  err,
  result          \* "pending", then "ok" or "fail"

args == <<shape, frequency, phase, duration>>
sizes == <<numSamples, maximumLength>>
signal == <<i, lastPhase, sample, impulses>>
vars == <<args, pc, sizes, position, header, signal, heap, err, result>>

Shapes == {"SINE", "SQUARE", "SAWTOOTH", "WHITENOISE", "IMPULSE"}

HeaderSize == 24

PCM16 == 3

FullScale == 32767

Cycle == 180 * SampleFrequency

Init ==
  /\ shape \in Shapes \cup {"unknown"}
  /\ frequency \in Frequencies /\ phase \in Phases /\ duration \in Durations
  /\ pc = "check"
  /\ numSamples = 0 /\ maximumLength = 0
  /\ position = 0
  /\ header = <<>>
  /\ i = 0 /\ lastPhase = 0 /\ sample = 0 /\ impulses = 0
  /\ heap = {}
  /\ err = NoError
  /\ result = "pending"

-----------------------------------------------------------------------------
(* The arithmetic *)

\* floor ((frequency * duration) + 0.5)
Cycles(f, d) == (2 * f * d + DurationUnits) \div (2 * DurationUnits)

\* The duration is taken as it is.
SampleCounts_NotRounded(f, d) == {(d * SampleFrequency) \div DurationUnits}

\* The whole samples in that many cycles.  The quotient with the frequency is
\* rounded, and may be a little less than it should be: then one sample is lost
\* where they come out even.
SampleCounts(f, d) ==
  LET n == (Cycles(f, d) * SampleFrequency) \div f IN
  {n} \cup (IF n > 0 /\ n * f = Cycles(f, d) * SampleFrequency
            THEN {n - 1} ELSE {})

\* The phase of sample k: it is normalised from degrees by 180, and the time
\* since the start is added.
PhaseAt(k) == (phase * SampleFrequency + 180 * frequency * k) % Cycle

\* A conversion to an integer truncates towards zero.
Truncate(n, d) == IF n >= 0 THEN n \div d ELSE -((-n) \div d)

\* waveformSine, ...Square, ...Sawtooth, ...Whitenoise, ...Impulse, times 32767
Amplitudes(last, p) ==
  CASE shape = "SINE"       -> {Sin[p]}
    [] shape = "SQUARE"     -> {IF 2 * p >= Cycle THEN -FullScale ELSE FullScale}
    [] shape = "SAWTOOTH"   -> {Truncate((2 * p - Cycle) * FullScale, Cycle)}
    [] shape = "WHITENOISE" -> NoiseLevels
    [] shape = "IMPULSE"    -> {IF last > p THEN FullScale ELSE 0}

-----------------------------------------------------------------------------
(* Steps *)

Fails(e, next) ==
  /\ err' = SetError(err, e)
  /\ result' = "fail"
  /\ pc' = next

\* getWaveformFunction knows no such shape.
UnknownShape ==
  /\ pc = "check" /\ shape \notin Shapes
  /\ Fails("INVALID_ENUM", "returned")
  /\ UNCHANGED <<args, sizes, position, header, signal, heap>>

BadValue ==
  /\ pc = "check" /\ shape \in Shapes
  /\ frequency <= 0 \/ duration < 0
  /\ Fails("INVALID_VALUE", "returned")
  /\ UNCHANGED <<args, sizes, position, header, signal, heap>>

ArgumentsOk == shape \in Shapes /\ frequency > 0 /\ duration >= 0

\* No memory for the stream, or for its data, and then the first is freed.
ConstructFails ==
  /\ pc = "check" /\ ArgumentsOk
  /\ \E n \in SampleCounts(frequency, duration) : numSamples' = n
  /\ Fails("OUT_OF_MEMORY", "returned")
  /\ UNCHANGED <<args, maximumLength, position, header, signal, heap>>

\* The header is forgotten.
Construct_OnlySamples ==
  /\ pc = "check" /\ ArgumentsOk
  /\ \E n \in SampleCounts(frequency, duration) : numSamples' = n
  /\ maximumLength' = 2 * numSamples'
  /\ heap' = {"stream", "data"}
  /\ pc' = "header"
  /\ UNCHANGED <<args, position, header, signal, err, result>>

\* _alutOutputStreamConstruct
Construct ==
  /\ pc = "check" /\ ArgumentsOk
  /\ \E n \in SampleCounts(frequency, duration) : numSamples' = n
  /\ maximumLength' = HeaderSize + 2 * numSamples'
  /\ heap' = {"stream", "data"}
  /\ pc' = "header"
  /\ UNCHANGED <<args, position, header, signal, err, result>>

\* streamWrite of n bytes.  When there is no room for them, an error is
\* recorded and generateWaveform destroys the stream.
StreamWrite(n, next) ==
  IF maximumLength - position < n
  THEN /\ Fails("IO_ERROR", "returned")
       /\ heap' = {}
       /\ UNCHANGED position
  ELSE /\ position' = position + n
       /\ pc' = next
       /\ UNCHANGED <<heap, err, result>>

\* ".snd", the size of the header, the number of bytes of sound, the encoding,
\* the sample frequency and the number of channels.  The size is converted to 32
\* bits.
HeaderFields ==
  <<779316836, HeaderSize, ToInt32(2 * numSamples), PCM16, SampleFrequency, 1>>

\* The six numbers, one after the other.
WriteHeader ==
  /\ pc = "header" /\ Len(header) < 6
  /\ StreamWrite(4, "header")
  /\ header' = Append(header, HeaderFields[Len(header) + 1])
  /\ UNCHANGED <<args, sizes, signal>>

\* The phase before the first sample is taken for that of the first sample.
StartSamples_SamePhase ==
  /\ pc = "header" /\ Len(header) = 6
  /\ lastPhase' = PhaseAt(0)
  /\ pc' = "samples"
  /\ UNCHANGED <<args, sizes, position, header, i, sample, impulses, heap, err,
                 result>>

\* It may be less than zero.
StartSamples_NoFloor ==
  /\ pc = "header" /\ Len(header) = 6
  /\ lastPhase' = phase * SampleFrequency - 180 * frequency
  /\ pc' = "samples"
  /\ UNCHANGED <<args, sizes, position, header, i, sample, impulses, heap, err,
                 result>>

\* lastPhase starts as the value for i = -1.
StartSamples ==
  /\ pc = "header" /\ Len(header) = 6
  /\ lastPhase' = PhaseAt(-1)
  /\ pc' = "samples"
  /\ UNCHANGED <<args, sizes, position, header, i, sample, impulses, heap, err,
                 result>>

WriteSample ==
  /\ pc = "samples" /\ i < numSamples
  /\ sample' \in Amplitudes(lastPhase, PhaseAt(i))
  /\ StreamWrite(2, "samples")
  /\ impulses' = impulses + IF shape = "IMPULSE" /\ sample' # 0 THEN 1 ELSE 0
  /\ lastPhase' = PhaseAt(i)
  /\ i' = i + 1
  /\ UNCHANGED <<args, sizes, header>>

Return ==
  /\ pc = "samples" /\ i = numSamples
  /\ pc' = "returned"
  /\ result' = "ok"
  /\ UNCHANGED <<args, sizes, position, header, signal, heap, err>>

Returned == pc = "returned" /\ UNCHANGED vars

Next ==
  \/ UnknownShape \/ BadValue \/ ConstructFails \/ Construct
  \/ WriteHeader \/ StartSamples \/ WriteSample \/ Return
  \/ Returned

Spec == Init /\ [][Next]_vars

-----------------------------------------------------------------------------
(* Properties *)

\* Types, among them "both in the range [0..+1)" of the comment at
\* alutWaveform.c:12 for the phases, and "in the range [-1..+1]" for amplitudes.
TypeOK ==
  /\ shape \in Shapes \cup {"unknown"}
  /\ frequency \in Frequencies /\ phase \in Phases /\ duration \in Durations
  /\ pc \in {"check", "header", "samples", "returned"}
  /\ numSamples \in Nat /\ maximumLength \in Nat /\ position \in Nat
  /\ header \in Seq(Int)
  /\ i \in 0 .. numSamples
  /\ lastPhase \in 0 .. Cycle - 1
  /\ sample \in -FullScale .. FullScale
  /\ impulses \in 0 .. i
  /\ heap \subseteq {"stream", "data"}
  /\ err \in ErrorCodes \cup {NoError}
  /\ result \in {"pending", "ok", "fail"}

\* "This should never happen within our library" (alutOutputStream.c:61): the
\* stream never runs out of room, and it is full exactly when the samples end,
\* so that the length its reader is given, position, is what the header says.  A
\* stream is returned with its data, or nothing is kept.
StreamExactlyFilled ==
  /\ err # "IO_ERROR"
  /\ result = "ok" =>
       /\ position = maximumLength
       /\ 2 * numSamples <= Int32Max => position = header[2] + header[3]
  /\ pc = "returned" => heap = IF result = "ok" THEN {"stream", "data"} ELSE {}

\* The sound ends where it can begin again: less than a sample is missing at
\* the end of its last cycle, or a whole one when the quotient was rounded down.
\* Of the numbers of cycles it is the one nearest to the duration
\* (doc/alut.html:863 says that the duration is "rounded up").
EndsWithACycle ==
  result = "ok" =>
    /\ Cycles(frequency, duration) * SampleFrequency - numSamples * frequency
         \in 0 .. frequency
    /\ 2 * (Cycles(frequency, duration) * DurationUnits - frequency * duration)
         \in -DurationUnits .. DurationUnits

\* An impulse waveform that is sampled often enough has one impulse in every
\* cycle: with no phase the first is at the first sample, with another phase
\* the one at the end may fall behind the last sample.
OneImpulsePerCycle ==
  result = "ok" /\ shape = "IMPULSE" /\ 2 * frequency <= SampleFrequency =>
    \/ impulses = Cycles(frequency, duration)
    \/ phase % 180 # 0 /\ impulses = Cycles(frequency, duration) - 1

\* What is written as the header and as a sample is what the AU reader and, on
\* a host of either byte order, its codec for 16 bits get back.
ReadsBack ==
  /\ \A k \in DOMAIN header : ReadInt32BE(Int32BE(header[k])) = header[k]
  /\ Load16("big", Int16BE(sample)) = sample
  /\ SwapBytes(Load16("little", Int16BE(sample))) = sample

-----------------------------------------------------------------------------
(* Claims of the reference that the code does not keep *)

\* doc/alut.html:851: the sound has "the specified waveshape" at the phase given
\* "in degrees: -180 to +180"; so half a turn inverts a square wave.
PhaseIsInDegrees ==
  shape = "SQUARE" /\ phase = 180 /\ i = 1 => sample = -FullScale

=============================================================================
