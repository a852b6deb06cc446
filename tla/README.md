# freealut in TLA+

freealut is the OpenAL Utility Toolkit: a C library that opens an OpenAL device
and context for an application, loads sound (from a file, from memory, a
built-in sample, a generated waveform) into an AL buffer or into memory, and
reports errors the way OpenGL does, through one global error state. This
directory holds TLA+ models of it, TLC instances of the models, and theorems
about them that TLAPS checks. Every definition is translated from the C source;
`PROJECT.json` names the lines each one stands for.

Check a module with `tlc -config X.cfg MCmodule`, a proof with
`tlapm Module_proofs.tla`.

## Inventory

| Component | Source | State it keeps | Operations | Correct when |
|---|---|---|---|---|
| Error state | `src/alutError.c` | `lastError` | `_alutSetError`, `alutGetError`, `alutGetErrorString` | the first failure since the last `alutGetError` is the one reported |
| Initialisation, exit | `src/alutInit.c` | `initialisationState`, `alutContext` | `alutInit`, `alutInitWithoutContext`, `alutExit` | ALUT releases what it opened, all of it, once, and nothing else |
| Sanity check | `src/alutInit.c` | none; consumes AL and ALC errors | `_alutSanityCheck` | an error of the application is never taken for one of the call |
| Input stream | `src/alutInputStream.c` | file or memory, remaining length | construct, destroy, read, skip, EOF | no read beyond the end, nothing leaked, lengths agree |
| Loader | `src/alutLoader.c` | locals of one call | `loadFile` and the eight entry points, `alutLoadWAV...`, `alutUnloadWAV`, `alutGetMIMETypes` | the format delivered is what the file says; every way out frees what it must and writes nothing it must not |
| BufferData | `src/alutBufferData.c` | data, length, format | construct, detach, destroy, `_alutPassBufferData` | one owner of the sound at any time |
| Codecs | `src/alutCodec.c` | none | Linear, PCM8s, PCM16, u-law, A-law, IMA4 | each sample has the value the format gives it, in its place, and nothing is read or written outside the memory: so for five of them, but not for IMA4 blocks that are not whole |
| Waveform generator | `src/alutWaveform.c` | locals of one call | `generateWaveform`, two entry points | the samples fill the stream exactly and end with a cycle |
| Built-in sound | `src/alutWaveform.c` | a constant AU image | two entry points | it is a legal AU image |
| Output stream | `src/alutOutputStream.c` | data, write pointer, bound | construct, destroy, write | never full before the waveform ends |
| Utilities | `src/alutUtil.c` | none | `_alutMalloc`, `_alutFormatConstruct` | failure is recorded |
| Sleep | `src/alutUtil.c` | the remaining time | `alutSleep` | sleeps as long as it was asked to, whatever signals come, and returns |
| Examples | `examples/playfile.c`, `examples/hello_world.c` | a source that plays | the program | ends, having played the sound and released everything, or says that it failed |
| Version, tests, build files | | | | no behaviour to model |

How they interact. All calls are synchronous, on the caller's thread; there are no
callbacks and no threads in the library, and its static variables have no lock,
so calls from several threads are outside its contract and are not modelled.
What is concurrent is the *application*: between two ALUT calls it uses the same
OpenAL objects. Two things happen *during* a program's calls: time and signals, while
`alutSleep` has the thread suspended, and the end of a sound that OpenAL plays. It makes other contexts current, creates contexts on
ALUT's device, raises AL and ALC errors that stay pending. Each of the checked
calls starts with the sanity check, which consumes such errors. A loader
constructs an input stream, whose memory the output stream of a waveform may
own, hands bytes to a codec that takes them over, gets a BufferData back, and
passes it to OpenAL or detaches its memory for the caller.

The hard behaviours are therefore sequences of calls in an order nobody
tested (initialise, exit halfway, initialise again), the many ways out of a call
that has acquired half of what it needs, sticky error states read at one
place and used at another, and the arithmetic of lengths at the edges of a
file. `PROJECT.json` lists each at its line (`hazards`).

## Modules

    AlutErrors          error codes and _alutSetError
    AlutApi             what initialisation and exit promise, without OpenAL
    OpenAL              the OpenAL implementation and the application (external)
    AlutLifecycle       init, exit, sanity check, error state; loaders by outcome
    AlutPlayer          the two example programs on top of AlutLifecycle
    AlutInputStream     streams, allocation, the memory a call holds
    AlutLoader          one loader call, step by step, and alutUnloadWAV
    AlutLoadCall        what a loader call promises, as one step
    AlutBytes           bytes, signed numbers of 8 and 16 bits, both byte orders
    AlutWaveform        generateWaveform and the output stream
    AlutCodec           the codecs that take one sample at a time, down to the bytes
    AlutIMA4            the IMA4 codec, one nibble at a time
    AlutSleep           alutSleep on three systems, with time and signals
    X_proofs            theorems about X, for AlutLifecycle, AlutApi, AlutPlayer,
                        AlutLoader, AlutWaveform, AlutCodec, AlutIMA4, AlutSleep
    MCX                 instances for TLC

`AlutLifecycle` extends `OpenAL` and `AlutErrors`, and instantiates `AlutApi` with a
refinement mapping; `AlutPlayer` extends `AlutLifecycle` and uses its actions as the
calls of the programs. `AlutLoader` extends `AlutInputStream`, and instantiates
`AlutLoadCall` with a refinement mapping. The three modules that compute
something (`AlutWaveform`, `AlutCodec`, `AlutIMA4`) extend `AlutBytes`; in `AlutLoader`
their calls are single steps, with the lengths, the memory and the failures they have there.
Operators with a suffix (`SanityError_OnlyAL`, `Exit_NotChecked`) are not part of the
model: each is an action or operator with one plausible mistake in it, kept
to show that a property notices that mistake (`mutants` in `PROJECT.json`).

### OpenAL and AlutLifecycle

A device is closed, the application's or ALUT's; a context has an owner and a
device; there is a current context; a context can have a pending AL error, a
device a pending ALC error; a buffer lives on a device. An ALUT call is one
step: it runs to completion before the application does anything else. Its
disjuncts are the ways out of its handler (`AlutInitOpenFails`,
`AlutInitCreateFails`, ...), each with everything that was done and undone on
the way; what an OpenAL call answers is nondeterministic. `ret` is a history
variable: the operation of the last step, its result, and the error it
recorded. `lost` collects AL buffers that were generated and never handed out.

Assumptions about OpenAL, all in `OpenAL.tla` or its use:

- Handles are validated: destroying a handle that names no context raises an
  error on the NULL device and changes nothing. This is what OpenAL
  implementations with handle lists do; nothing is claimed for others.
- Destroying a valid context that is not current does not fail by itself.
- Closing a device that still holds contexts or buffers may be refused or may
  take them with it; closing an empty one succeeds.
- The application behaves: it destroys only contexts of its own, never the
  current one, and closes only devices of its own that it has emptied. It does not
  call `alcDestroyContext` on ALUT's context.
- `HandleReuse`: whether the address of a context that ALUT destroyed, and still
  holds in `alutContext` after a half-finished exit, can be given to a new context.
  An allocator may do that. The passing run and the theorems that rest on `IInv` assume it
  does not; the run `lifecycle_handle_reuse` shows what happens when it does.

`AlutApi` is the same seen without OpenAL: four modes (closed, own, external, half), one
step for each of opening, closing, failing, and failing halfway. `ImplementsApi` says that
every step of `AlutLifecycle` is one of those or none, with the mode computed from
`initialisationState` and the devices ALUT holds.

Properties: `OwnershipMatchesState` (ALUT's devices and contexts are exactly
those its state accounts for), `NoDanglingHandles`, `AlutSparesApp` (what the
application opened survives every ALUT call), `HalfExitIsPermanent` (an
`alutExit` that failed after it destroyed the context is never repaired; the
device stays open and `alutInit` is refused for ever), `ReleasedOnlyBySuccess`,
`CheckedCallsStartClean` and `EntryErrorIsConsumed` (the sanity check),
`FirstErrorSticks`.

### AlutInputStream and AlutLoader

One call of a loader, from its first statement to its return. `call` says which
entry point, on a host of which byte order, and with which error already in the
error state. `pc` names the place in the code; a step runs from one operation that can
fail to the next. `heap` is the set of things the call holds (the stream, its
`FILE`, the encoded and the decoded sound, ...), `sound` is what the headers said,
`written` the caller's variables written so far.

A stream is two numbers: the bytes it can deliver and the `remainingLength` it
believes in. For a file they may differ, because `stat` comes before
`fopen` and the file may change. `size_t` is counted modulo `SizeMod`, and
`malloc` can succeed up to `MaxAlloc` bytes. Contents are not modelled: every
byte is read once, so each value read is a choice from a small set. Reads that follow
each other without a decision in between are one read; a short read of the group
records the same error as a short read of its part. What a codec does to a
sample is left to `AlutCodec` and `AlutIMA4`; how many bytes it takes and gives, what it
frees and which byte order it delivers is kept. After an `alutLoadWAV...` that has
returned the caller may call `alutUnloadWAV` (`Unload`); it need not.

Three ways out of the IMA4 codec are ends of progress: a block size of zero
divides by it (`trap`), no channels at all make its loop over a block spin
(`spin`), and with `ImaLeavesItsMemory` an access to memory that is not there may stop the
program (`trap` again), or not. They are stopping states of their own, and `CallReturns` names them.

Properties: `HeapAccounts` (what a call holds when it has returned, for each way
out, and that `alutUnloadWAV` leaves nothing; the leaks the code has are listed there,
each with the failure that causes it), `NothingUsedAfterFree`, `SilentFailureOnlyForIMA4`, `ErrorStateKept`,
`OutputsOnlyOnSuccess`, `ErrorsAreDocumented` (against the error lists of the
reference manual), `ChunksAligned`, `SoundIsStandard`, `CallReturns`, and
`ImplementsLoadCall`: seen from outside a call is the one step of
`AlutLoadCall`. `AlutLifecycle` treats loaders as such steps, with one difference: it
knows the current context, and so on which device a lost buffer stays.

### AlutPlayer

`playfile.c` and `hello_world.c`, one step per call; `program` says which, `at` where it is.
A call of the library is the action of `AlutLifecycle`, with its whole effect, and
the program goes on according to the result it looks at. There is no other
application. `sound` is the state of the source: OpenAL plays it meanwhile (`SoundEnds`), and
cuts it off when its context goes. Any call of AL to make the source may fail and
leave its error pending.

Properties: `PlaysToTheEnd` (playfile never cuts its sound off), `SuccessIsTrue` (an exit
status of `EXIT_SUCCESS` means that the sound was played, everything was released and no
error is left), `ExitIsNotRefused` (its `alutExit` is never refused for a pending
error), `Ends`. hello_world checks nothing, and only `Ends` is claimed for it.

### AlutWaveform

One call of `generateWaveform`: the checks of the arguments, the construction of the output
stream, the six numbers of the header, one step per sample, the return.
Frequencies and phases are whole numbers of Hertz and degrees, durations numbers
of `DurationUnits` to the second, and a phase of the waveform is counted in units of
1/`Cycle` of a cycle, in which all the code adds is a whole number. Where the code computes
with `double` and then takes the floor, both neighbours are outcomes (`SampleCounts`): the quotient
may fall short of the whole number it should be. `Sin` is a constant, and
what `random` leads to is any member of `NoiseLevels`. The number of bytes is converted to the
32 bits that the header has for it (`ToInt32`). A stream is its `maximumLength` and
its `position`; of the samples, the last one and the number of impulses are kept.

Properties: `StreamExactlyFilled` ("this should never happen", `alutOutputStream.c:61`; and that the
header is right about a sound of up to 2147483647 bytes),
`EndsWithACycle`, `OneImpulsePerCycle`, `ReadsBack` (what the writers of the output stream
store, the readers of the input stream and the codec for 16 bits get back, on
hosts of both byte orders).

### AlutCodec

From the choice a loader makes for an encoding, a container and a host to the
memory that becomes the data of the AL buffer, in bytes and one sample at a time, in place where
the code works in place. The one property, `SameValue`, compares that memory, read as
OpenAL reads it, with the contents of the file, read as its format says: for u-law
and A-law the formulas of ITU-T G.711, written independently of the
tables and shifts of the code.

### AlutIMA4

`_alutCodecIMA4`, one nibble at a time, with the loops over blocks, groups, channels and
nibbles, and the pointers of the code. The buffer holds, for each sample, the byte and
the half of it that it came from. `predictor` and `index` are computed as an `int16_t` and an
`int8_t`, with what their arithmetic does at their limits; the step is looked up with the
index of the header before that is limited, and what lies beyond the table is
any of `BeyondStepTable`. The block size is any number but zero: `blockAlign` comes from the
file and nothing asks for whole groups (`alutLoader.c:121`), while the loops finish every group that
has begun (`alutCodec.c:222-245`). So a block is taken to have `Stride` bytes, `Missing`
of which are not its own. `SizeMod` and `MaxAlloc` are those of `AlutLoader`: `Wanted` is the size computed without a
limit, `PassedOn` the `size_t` that it becomes. When the next access is outside
of the data or the new memory the program may stop there (`Trap`), or go on with any value. A block size of zero
and no channels at all are in `AlutLoader`.

Properties: `Interleaved` (every sample in its place), `LeavesItsMemory` (below), `DecodesUpToTheTail` (what
has been decoded at the end, and by how much the length passed on exceeds it),
`MovesByTheStep` (against the formula of the format), `TypeOK` (the index is in its
table again after the first nibble).

`LeavesItsMemory` says exactly when the decoder does not stay in its memory, which the
code does not prevent:

- It writes behind the memory it asked for with two channels and a block size of 9, 17, 25, ...
  (`OneByteTooMany`). A group of 16 samples takes 32 bytes, and each block has four
  too few: for a block of 9 bytes, 28 are allocated and 32 written. With every such file that
  has a block the new memory is overrun by the end. It can also happen, with any block size, when the
  size wanted is not a `size_t`.
- It goes behind the data when the blocks miss more bytes than there are behind the last of
  them: with a file of blocks that are not whole and no bytes after them, always.
- Otherwise it does neither; for files of whole blocks whose size is a `size_t`, that is the
  theorem `WholeBlocksStayInTheirMemory`.

### AlutSleep

`alutSleep` with `nanosleep`, with `usleep`, and with the `Sleep` of Windows. Time is counted in
units of which a microsecond or a millisecond has several, so that what a conversion
cuts off can be seen; what is converted to an `ALuint` that cannot hold it is
any of the outcomes builds have. While the thread is suspended, time passes
unit by unit and a signal may come at any moment, any number of times.

Properties: `PiecesAddUp` (however often `nanosleep` is interrupted and asked again for
what remains), `SleepsAsLongAsAsked`, `FailsOnlyOutOfRange`, `SleepReturns`.

## Runs

| Run | Bounds | Distinct states | Shows |
|---|---|---|---|
| `lifecycle` | 2 devices, 2 contexts, 1 buffer, 1 load error | 361,072 | the properties of `AlutLifecycle`, and that it implements `AlutApi` |
| `lifecycle_handle_reuse` | the same, addresses reused | | `AlutSparesApp` violated |
| `lifecycle_destroy_error` | the same | | `DESTROY_CONTEXT` is reported for a context that was destroyed |
| `loader_wav` | RIFF files of 44 and 60 bytes, chunks of 3, 16, 17 bytes, 0, 1 or 3 channels, block sizes 0 and 5 | 1,160,076 | RIFF parsing, memory, termination, and that a call implements `AlutLoadCall` |
| `loader_au` | files of 3, 23, 24, 28, 76 bytes, offsets below, at and above the minimum, lengths unknown, negative, 0, 4, too long | 348,044 | AU parsing, all four sources, errors and outputs |
| `loader_unknown_length` | the same | | sound of unknown length is cut short |
| `player` | 2 devices, 2 contexts, 2 buffers, 2 load errors | 593 | both programs, with every failure of every call |
| `waveform` | 8 samples per second, frequencies -1 to 8, phases -180 to 180, durations in quarters of a second up to 3 | 49,280 | the stream, the length, the impulses, the bytes |
| `waveform_phase_in_degrees` | the same | | half a turn does not invert a square wave |
| `codec` | every file of one byte, pairs of bytes at the limits, files of 3 and 5 bytes | 15,188 | each sample keeps its value |
| `ima4` | a group from every index and 7 predictors; 1 to 3 channels, blocks of 1 to 25 bytes, 9 lengths up to 72, sizes modulo 256 | 207,667 | layout and values, and when the decoder leaves its memory |
| `sleep` | durations up to 3 seconds, those an `ALuint` can barely or not hold, a second of 8 units | 26,285 | the time slept, whatever signals come, and that the call returns |

Why the bounds are enough. The lifecycle needs two devices (ALUT's and the
application's) and two contexts (ALUT's, and one of the application on either of them);
one buffer is enough to keep a device from being empty. Handles are
interchangeable, so devices and contexts are symmetric. Load errors
are all handled alike, and one stands for them. In the RIFF instance 60 bytes hold a
chunk to skip, the fmt chunk and a data chunk with an odd chunk and its pad byte
among them; 44 bytes end with the header of the data. Three is too short for a fmt chunk,
16 is its least length, 17 leaves a byte to skip and a byte to pad. Zero and three
channels are the two ends of what is refused, and reach both special cases of
IMA4; a block of 5 bytes is not whole, and the data are too short for what it misses, or have no block. In the AU instance the file sizes lie around the header's end, and 76
leaves an unknown length that is positive after the subtraction of the code.
`SizeMod = 256` makes differences wrap within these sizes, and `MaxAlloc = 150`
makes the wrapped ones fail to allocate, as they do in a 64-bit address space.
`WavMemorySize = 53` stands for the 0x7FFFFFFF bytes that `alutLoadWAVMemory` assumes:
an odd size that no other source has. Both instances contain all entry points and all
failures; they differ in which headers vary.

A player makes a context, a buffer and a few errors at most. With eight samples per second
the frequencies lie below, at and above half the sample frequency, and the durations
end within a cycle, at its end, and before the first half of one. The codecs that work
on one byte see every byte; those of 16 bits see all pairs of bytes at which a
sign or a carry changes, files of odd length, and positions after others. For IMA4 one
call has every state a header can give the decoder (all 256 indexes and the
predictors at the limits and around zero), every first nibble, and nibbles after it
that move the index and the predictor in each direction or not; the other calls vary the layout with one,
two or three channels, none, one or more groups in a block, every number of bytes missing from the last
group, and lengths that end within a block, with as many bytes behind the last as are missing, or fewer. Three
of the block sizes have one byte too many for two channels, and `SizeMod = 256` makes the
size wrap with the longest of the data. For the sleep, a microsecond of 2 units and a millisecond of 4 make
both conversions cut something off, and an `ALuint` up to 5 is exceeded by 48 units, 6 seconds.
Nothing in these bounds is special to the theorems, which hold for all values.

Deadlock is checked in every run but `player`: its programs end, and nothing
happens afterwards. The other modules let a call that has returned, or stopped for
ever, stutter explicitly, so a deadlock anywhere else would be found.

Fairness. Liveness is claimed for three things that run on a thread of the caller.
`AlutLoader`: `WF_vars(CallStep)`, a call that has been entered runs on; it need not be
followed by `alutUnloadWAV`. Nothing is assumed about which branch is
taken, so termination may not depend on luck; it does not, because each round of the
chunk loop reads at least eight bytes. `AlutSleep`: weak fairness of the code, and strong fairness of
`TimePasses`: signals may come for ever, but time goes on between them, and
each piece of the sleep is shorter than the one before. Nothing is assumed of
signals. `AlutPlayer`: weak fairness of the program, and of `SoundEnds`, because a sound that
is not looped ends. `alutSleep` is one step there; that it returns is `SleepReturns`.

## Where code and documentation disagree

Four disagreements are runs that TLC ends with a counterexample (`findings` has the
quotations). A counterexample is one case; for each of them a theorem says which cases there are:

1. After an `alutExit` that failed halfway, a second one uses `alutContext`
   although its context is gone; if the address was reused, it destroys a
   context of the application, on the application's device, and goes on to close
   that device (`lifecycle_handle_reuse`). Without the half exit it never does
   (`OnlyTheHalfExitMisleads`).
2. `alutExit` reports an older error of its device as `DESTROY_CONTEXT`, after
   it has destroyed the context, and with that enters the state of item 1. One ALC
   error that the application leaves on ALUT's device while another device's
   context is current is enough (`lifecycle_destroy_error`), and the only way
   (`WronglyReportedErrorsAreOlder`).
3. The data of an AU file of unknown length are cut short by 48 bytes; with fewer
   than that, the file is refused (`loader_unknown_length`; for every file `UnknownLengthIs48Short`).
4. The phase of a waveform is divided by 180 and counted in cycles: 180 degrees are a
   whole cycle (`waveform_phase_in_degrees`; for every half turn `HalfATurnIsACycle`, `HalfATurnInvertsNothing`).

Others were met while modelling. Most are pinned by a property that holds, which says
what the code does instead; a change of the code would show there:

- A pending AL error hides a pending ALC error from the sanity check, so the
  second is not cleared (`doc/alut.html:433`): `EntryErrorIsConsumed`.
- An IMA4 sound with more than two channels fails without an error, and leaks
  both sounds: `SilentFailureOnlyForIMA4`, `HeapAccounts`.
- `alutLoadWAVFile` and `alutLoadWAVMemory` write to `*data` when they fail (`doc/alut.html:260`):
  `OutputsOnlyOnSuccess`.
- A waveform whose duration rounds to no cycle fails with an error the manual
  does not list for it: `ErrorsAreDocumented`.
- A duration is not rounded up to whole cycles (`doc/alut.html:863`) but to the nearest number of
  them, and the sound may end a sample early: `EndsWithACycle`.
- The last twelve bytes for each channel of an IMA4 block are never decoded, yet passed on, because a
  header counts as one byte and not as four: `DecodesUpToTheTail`. With blocks that are not whole groups
the decoder writes behind the memory it asked for, or reads behind the data: `LeavesItsMemory`. The index is used before it is limited,
  and the predictor wraps around: `TypeOK`, `MovesByTheStep`.
- `alutSleep` may sleep up to a granule less than it was asked to, a signal ends a `usleep`
  (`doc/alut.html:1373`), and a duration that an `ALuint` cannot hold may fail without an error
  (`doc/alut.html:1382`): `SleepsAsLongAsAsked`, `FailsOnlyOutOfRange`.
- Not pinned: `alutExit` after `alutInitWithoutContext` does not check for errors on entry; the sine has
  half a period in a cycle; for white noise the frequency is checked and decides
  the length, though it is said to be ignored (`doc/alut.html:864`).

## Proofs

The theorems hold for any values of the constants that satisfy the named
assumptions of the modules (`NoneAssumption`, `LoadErrorsAssumption`, `SleepAssumption`, ...),
which TLC evaluates on the instances. Those that rest on `IInv` (below) while an
application takes steps say so: they have `HandleReuse = FALSE` in their statement, or,
for `OnlyTheHalfExitMisleads`, that no `alutExit` has failed halfway.

| Module | Theorems | Argument |
|---|---|---|
| `AlutLifecycle_proofs` | `TypeCorrect`, `HandlesValid`, `Inductive`, `OwnershipHolds`, `AppIsSpared`, `HalfExitLasts`, `ReleaseIsSuccess`, `FirstErrorIsKept`, `OnlyTheHalfExitMisleads`, `WronglyReportedErrorsAreOlder` | `IInv` (below); the action properties from `IInv` before the step and the effect each group of calls has |
| `AlutApi_proofs` | `LibraryImplementsApi`, `CheckedCallsAreClean`, `EntryErrorsAreConsumed` | under `IInv` the mode the objects show is the one ALUT remembers (`HeldMode`), and each step maps to a step of `AlutApi` or a stutter |
| `AlutPlayer_proofs` | `PlayerInductive`, `SoundIsPlayedToTheEnd`, `SuccessOfPlayfile`, `ExitsAreNotRefused`, `OnlyTheSoundDelays` | `PlayfileInv`: what playfile may rely on at each of its places; `IInv` without assumption on addresses, because there is no application that could get one |
| `AlutLoader_proofs` | `TypeCorrect`, `HeapInductive`, `HeapIsAccountedFor`, `NothingIsUsedAfterFree`, `FailuresAreRecorded`, `ErrorInvInductive`, `ErrorStateIsKept`, `OutputsAreWrittenOnSuccess`, `CallIsOneStep`, `SoundIsAlwaysStandard`, `AlignInductive`, `ChunksAreAligned`, `ErrorsAreAlwaysDocumented`, `EveryStepIsNearerToTheEnd`, `UnknownLengthIs48Short` | `HeapInv`: the contents of the heap at each place, and why; with it `ErrorInv`, `OutputsInv`, `SoundInv`, `AlignInv` (the place in the code and the parity of the position) and `DocInv` are each inductive |
| `AlutWaveform_proofs` | `StreamInductive`, `StreamNeverOverflows`, `TheSizeIsOf32Bits`, `EndsWhereItBegins`, `SignalInductive`, `TypeCorrect`, `WhatIsWrittenIsRead`, `AnImpulseForEveryCycle`, `HalfATurnIsACycle`, `HalfATurnInvertsNothing`, `EveryStepIsNearerToTheReturn`, `GeneratesWhatTheLoaderExpects` | `StreamInv`: what was computed at the start stays true, and `position` is where the loops are; `Signal`: the impulses so far are the cycles wrapped so far, by the quotient of the unreduced phase; lemmas for the bytes of every number of 16 and 32 bits |
| `AlutCodec_proofs` | `CodecInductive`, `SamplesKeepTheirValues`, `LengthIsPassedOn`, `EveryStepIsNearerToTheEnd` | `CodecInv`: before `i` the memory holds decoded samples, from `i` on the bytes of the file; lemmas for every byte of u-law and A-law, and for the two bytes of a sample |
| `AlutIMA4_proofs` | `LayoutInductive`, `SamplesAreInterleaved`, `EverythingBeforeTheTail`, `WhenItLeavesItsMemory`, `WholeBlocksStayInTheirMemory`, `DecoderInductive`, `StepsAreExact`, `TypeCorrect`, `LegalHeadersStayInTheTable`, `EveryStepIsNearerToTheEnd` | `Where`: the pointers as functions of block, group, channel and nibble; `Filled`: which samples are there by then, and that they are the right ones; the memory wanted is that of the samples, and twelve bytes more for each header, and four fewer for each byte missing (`WantedIs`); `Values`: the ranges, and the last step |
| `AlutSleep_proofs` | `TypeCorrect`, `Inductive`, `PiecesAlwaysAddUp`, `AsLongAsAsked`, `FailureIsOutOfRange`, `OnlySignalsDelay` | `SleepInv`: time slept and time due add up to what is wanted, and that is the duration up to a granule |

Why the properties need more than themselves. `OwnershipMatchesState` is not inductive: a
step can only be shown to release
ALUT's device if the context in `alutContext`, when it is live, is ALUT's own
and on that device. `IInv` is types, handles and `Ownership`, which says that
besides; it is what fails when addresses are reused. Likewise `HeapAccounts` speaks of the end of a call
only, and follows from `HeapInv`, which says for each place what has been acquired and
not yet given up. `Interleaved` does not follow from the steps alone: that a nibble overwrites nothing
and leaves nothing out needs the pointers in closed form (`Where`) and the set of samples
behind them (`Covered`). `OneImpulsePerCycle` counts events over the whole call, and
becomes inductive with the number of wraps of the phase that is not reduced (`Wraps`).
`ReadsBack` needs that what is in the header fits in 32 bits, which is so because the
code converts it, and that every sample fits in 16, which is `TypeOK`.

Ends of calls. Liveness is out of the prover's reach, but its safety half is not. For the loader,
the codecs, the IMA4 decoder and `generateWaveform` there is a number (`StepsLeft`) that
every step of the call makes smaller and that is never below zero, whatever the file or the arguments
are; so no loop can go on for ever. For the loader it is the bytes that are left, and
within a round of the chunk loop the place in the code; for the IMA4 decoder it is the
nibbles of the bytes that the blocks would have if they were whole, for any block size; an IMA4 sound that makes
the codec spin is a stopping state of `AlutLoader` already. For `alutSleep` every step is nearer to the end
but a signal that interrupts `nanosleep`, and for the two programs every step but a look
at a source that still plays. What the theorems do not say, and the runs do, is that there is a
step to take and that it is taken: that needs ENABLED and the fairness described
above.

How modules fit together. `LibraryImplementsApi` and `CallIsOneStep` are refinements, step by
step. `GeneratesWhatTheLoaderExpects` is about the border of two modules that do not
extend each other: how a `generateWaveform` of `AlutWaveform` ends, with its length, its
header, its error and its memory, is what the steps `Generate` and `GenerateFails` of `AlutLoader`
and the header its parser then finds take for granted. `LengthIsPassedOn` says of the codecs in
`AlutCodec` that their memory has the length that `AlutLoader` has them pass on.
`LegalHeadersStayInTheTable` says where the reads behind the step table come from: from
headers of blocks alone, never from nibbles.

Model-checked only: liveness (`CallReturns`, `SleepReturns`, `Ends`), and the four claims that do
not hold. No module uses RECURSIVE.

## Not modelled, and why

- Threads: outside the library's contract.
- The texts of errors, the version and the MIME types: constants.
- `hasSuffixIgnoringCase`: a flag decides.
- The samples of the built-in sound: 690 lines of data.
- `_alutFormatGetNumChannels` and `_alutFormatGetBitsPerSample`: they have no caller and change nothing.
- What lies behind memory whose length `alutLoadWAVMemory` does not know: the C standard gives it no
  meaning. `AlutLoader` gives that call a stream with a length of its own.
- What else changes when the IMA4 decoder writes behind its memory and the program goes on: `AlutIMA4`
  records the samples it writes there, but not what they overwrite, and the call goes on
  in `AlutLoader` as if there were none.
- Rounding of `double` and `float` beyond the neighbours named above; phases that are no multiple of 45
  degrees are in the theorems, with exact arithmetic, and not in the runs.
- Tests and build files: no behaviour.

## What is left

The plan is carried out: every operation of the library that changes state is an action of a
module, and every safety property of the passing runs is proved. What could be added is a model of
the arithmetic of `double` for other phases, and an OpenAL whose handles are not validated.
