------------------------------ MODULE AlutLoader ------------------------------
(***************************************************************************)
(* One call of a loader, from its first statement to its return: the four  *)
(* sources (a file, a file image in memory, the built-in sound, a          *)
(* generated waveform) and the three sinks (an AL buffer, new memory, the  *)
(* deprecated alutLoadWAV functions), through src/alutLoader.c,            *)
(* src/alutCodec.c, src/alutBufferData.c and the entry points of           *)
(* src/alutWaveform.c.                                                     *)
(*                                                                         *)
(* Every allocation, read and AL call that can fail does so in some        *)
(* behaviour.  Of the sound, its container, codec, channels, bits, block   *)
(* size, byte order and length are kept, not the samples.  A length that is *)
(* not looked at again is set to zero.                                     *)
(***************************************************************************)
EXTENDS AlutInputStream

CONSTANTS
  Sizes,          \* lengths of files and file images
  WavMemorySize,  \* the length alutLoadWAVMemory assumes of its argument
  HelloLength,    \* bytes of sound in helloWorldSample
  SampleCounts,   \* samples of a generated waveform
  ChunkLengths,   \* lengths of the chunks of a RIFF file
  DataOffsets,    \* data offsets in the header of an AU file
  DataLengths,    \* data lengths there, -1 for "not known"
  ChannelCounts,
  BlockAligns

ASSUME SizesAssumption ==
  /\ Sizes \subseteq 0 .. SizeMod - 1
  /\ WavMemorySize \in 0 .. SizeMod - 1
  /\ HelloLength \in 1 .. MaxAlloc /\ 24 + HelloLength < SizeMod
  /\ SampleCounts \subseteq Nat
  /\ \A n \in SampleCounts : 24 + 2 * n <= MaxAlloc
  /\ ChunkLengths \subseteq Nat
  /\ DataOffsets \subseteq Int /\ DataLengths \subseteq Int
  /\ ChannelCounts \subseteq Nat /\ BlockAligns \subseteq Nat

VARIABLES
  call,       \* which entry point was called, and in which environment
  pc,         \* where in the code the call is
  sound,      \* what is known of the sound
  toSkip,     \* bytes to skip next
  length,     \* length of the current chunk, then of the sound data
  written,    \* the caller's variables the call has written
  result      \* "pending", then "ok" or "fail"

vars == <<stream, heap, lastError, err, call, pc, sound, toSkip, length,
          written, result>>

Sources == {"File", "FileImage", "HelloWorld", "Waveform"}

Calls == ({"CreateBuffer", "LoadMemory"} \X Sources)
           \cup ({"LoadWAV"} \X {"File", "FileImage"})

SanityErrors == { "INVALID_OPERATION", "NO_CURRENT_CONTEXT",
                  "AL_ERROR_ON_ENTRY", "ALC_ERROR_ON_ENTRY" }

Codecs == {"Linear", "PCM8s", "PCM16", "ULaw", "ALaw", "IMA4"}

\* found is found_header; order is the byte order of 16 bit samples.
NoSound == [container |-> "none", codec |-> "none", channels |-> 0, bits |-> 0,
            align |-> 0, order |-> "none", found |-> FALSE]

Init ==
  /\ call \in [entry : Calls, host : {"little", "big"}, raw : BOOLEAN,
               entryError : {NoError, "INVALID_VALUE"}]
  /\ call.raw => call.entry[2] = "File"
  /\ pc = "start"
  /\ lastError = call.entryError
  /\ err = NoError
  /\ total = 0 /\ left = 0 /\ remaining = 0 /\ isFileStream = FALSE
  /\ heap = {}
  /\ sound = NoSound
  /\ toSkip = 0
  /\ length = 0
  /\ written = {}
  /\ result = "pending"

sink == call.entry[1]

source == call.entry[2]

-----------------------------------------------------------------------------
(* Steps *)

Goto(next) == pc' = next /\ UNCHANGED call

\* A step that only reads from the stream and learns something of the sound.
Parses(next) ==
  /\ Goto(next)
  /\ NothingRecorded
  /\ UNCHANGED <<heap, written, result>>

\* A step that fails with one of the errors errs and goes to next.
FailsWith(errs, next) ==
  /\ \E e \in errs : Record(e)
  /\ Goto(next)
  /\ UNCHANGED <<stream, heap, sound, toSkip, length, written, result>>

\* loadFile returns NULL.
LoadFails(errs) == FailsWith(errs, "destroy")

-----------------------------------------------------------------------------
(* Entry points: the sanity check, generateWaveform and the stream *)

\* The deprecated functions do not check.
Start ==
  /\ pc = "start"
  /\ \/ sink # "LoadWAV" /\ FailsWith(SanityErrors, "finish")
     \/ /\ Parses(IF source = "Waveform" THEN "generate" ELSE "construct")
        /\ UNCHANGED <<stream, sound, toSkip, length>>

\* An unknown shape, a bad frequency or duration, or no memory for the output
\* stream or its data (the first is freed when the second is not there).
GenerateFails ==
  /\ pc = "generate"
  /\ FailsWith({"INVALID_ENUM", "INVALID_VALUE", "OUT_OF_MEMORY"}, "finish")

\* An AU file is written: a header of 24 bytes, two bytes for a sample.
Generate ==
  /\ pc = "generate"
  /\ \E n \in SampleCounts : left' = 24 + 2 * n
  /\ total' = left' /\ remaining' = left'
  /\ heap' = heap \cup {"outStream", "outData"}
  /\ Goto("construct")
  /\ NothingRecorded
  /\ UNCHANGED <<isFileStream, sound, toSkip, length, written, result>>

\* No memory, no such file, or it cannot be opened: nothing is kept.
ConstructFails ==
  /\ pc = "construct"
  /\ FailsWith(IF source = "File" THEN {"OUT_OF_MEMORY", "IO_ERROR"}
               ELSE {"OUT_OF_MEMORY"}, "finish")

\* No memory for the copy of the name: the stream is freed, the FILE not closed.
ConstructNameFails ==
  /\ pc = "construct" /\ source = "File"
  /\ Record("OUT_OF_MEMORY")
  /\ heap' = heap \cup {"FILE"}
  /\ Goto("finish")
  /\ UNCHANGED <<stream, sound, toSkip, length, written, result>>

ConstructFromFile ==
  /\ pc = "construct" /\ source = "File"
  /\ left' \in Sizes
  /\ total' = left'
  /\ remaining' \in Sizes
  /\ isFileStream' = TRUE
  /\ heap' = heap \cup {"stream", "FILE", "fileName"}
  /\ Goto("loadFile")
  /\ NothingRecorded
  /\ UNCHANGED <<sound, toSkip, length, written, result>>

ConstructFromMemory ==
  /\ pc = "construct" /\ source # "File"
  /\ \/ source = "HelloWorld" /\ left' = 24 + HelloLength
     \/ source = "Waveform" /\ left' = left
     \/ source = "FileImage" /\ sink = "LoadWAV" /\ left' = WavMemorySize
     \/ source = "FileImage" /\ sink # "LoadWAV" /\ left' \in Sizes
  /\ total' = left' /\ remaining' = left'
  /\ heap' = heap \cup {"stream"}
  /\ Goto("loadFile")
  /\ NothingRecorded
  /\ UNCHANGED <<isFileStream, sound, toSkip, length, written, result>>

-----------------------------------------------------------------------------
(* loadFile *)

Raw == [NoSound EXCEPT !.container = "raw", !.codec = "Linear",
                       !.channels = 1, !.bits = 8]

\* A file named *.raw has no header: all of it is sound.
LoadRawFile ==
  /\ pc = "loadFile" /\ call.raw
  /\ sound' = Raw
  /\ length' = remaining
  /\ Parses("data")
  /\ UNCHANGED <<stream, toSkip>>

\* The magic number decides on the container; the built-in sources are AU.
LoadFile ==
  /\ pc = "loadFile" /\ ~call.raw
  /\ \/ LoadFails(ReadErrors(4))
     \/ /\ CanRead(4)
        /\ source \notin {"HelloWorld", "Waveform"}
        /\ LoadFails({"UNSUPPORTED_FILE_TYPE"})
     \/ /\ CanRead(4)
        /\ Consume(4)
        /\ \/ Parses("au")
           \/ source \notin {"HelloWorld", "Waveform"} /\ Parses("wav")
        /\ UNCHANGED <<sound, toSkip, length>>

\* _alutInputStreamRead, for the data chunk of each container.
ReadData ==
  /\ pc = "data"
  /\ \/ LoadFails(NewReadErrors(length))
     \/ /\ CanRead(length) /\ length <= MaxAlloc
        /\ Consume(length)
        /\ heap' = heap \cup {"data"}
        /\ Goto("codec")
        /\ NothingRecorded
        /\ UNCHANGED <<sound, toSkip, length, written, result>>

-----------------------------------------------------------------------------
(* loadWavFile *)

\* found_header is false and codec is linear when the loop starts.
WavHeader ==
  /\ pc = "wav"
  /\ \/ LoadFails(ReadErrors(8))
     \/ CanRead(8) /\ LoadFails({"UNSUPPORTED_FILE_SUBTYPE"})
     \/ /\ CanRead(8)
        /\ Consume(8)
        /\ sound' = [sound EXCEPT !.container = "wav", !.codec = "Linear"]
        /\ Parses("chunk")
        /\ UNCHANGED <<toSkip, length>>

\* The name and the length of a chunk: what follows is a fmt chunk, the data,
\* which needs a fmt chunk before it, or something to skip.
NextChunk ==
  /\ pc = "chunk"
  /\ \/ LoadFails(ReadErrors(8))
     \/ /\ CanRead(8) /\ ~sound.found
        /\ LoadFails({"CORRUPT_OR_TRUNCATED_DATA"})
     \/ /\ CanRead(8)
        /\ Consume(8)
        /\ length' \in ChunkLengths
        /\ \/ Parses("fmt") /\ UNCHANGED toSkip
           \/ Parses("skip") /\ toSkip' = length'
           \/ sound.found /\ Parses("data") /\ UNCHANGED toSkip
        /\ UNCHANGED sound

\* The codec for the format of a fmt chunk ("none" when there is none) and the
\* bits of what it delivers: PCM is swapped on a host of the other byte order
\* unless it has 8 bits.
WavCodec_NeverSwap(format, bits) ==
  IF format = 1 THEN [codec |-> "Linear", bits |-> bits]
  ELSE IF format = 6 THEN [codec |-> "ALaw", bits |-> 2 * bits]
  ELSE IF format = 7 THEN [codec |-> "ULaw", bits |-> 2 * bits]
  ELSE IF format = 17 THEN [codec |-> "IMA4", bits |-> 4 * bits]
  ELSE [codec |-> "none", bits |-> bits]

WavCodec(format, bits) ==
  IF format = 1
  THEN [codec |-> IF bits = 8 \/ call.host = "little" THEN "Linear" ELSE "PCM16",
        bits |-> bits]
  ELSE IF format = 6 THEN [codec |-> "ALaw", bits |-> 2 * bits]
  ELSE IF format = 7 THEN [codec |-> "ULaw", bits |-> 2 * bits]
  ELSE IF format = 17 THEN [codec |-> "IMA4", bits |-> 4 * bits]
  ELSE [codec |-> "none", bits |-> bits]

\* What a fmt chunk has beyond its 16 bytes is skipped.  A later fmt chunk
\* replaces an earlier one.
FmtChunk ==
  /\ pc = "fmt"
  /\ \/ length < 16 /\ LoadFails({"CORRUPT_OR_TRUNCATED_DATA"})
     \/ length >= 16 /\ LoadFails(ReadErrors(16))
     \/ /\ length >= 16 /\ CanRead(16)
        /\ Consume(16)
        /\ \E format \in {0, 1, 6, 7, 17}, bits \in {4, 8, 16},
              channels \in ChannelCounts, align \in BlockAligns :
             sound' = [container |-> "wav",
                       codec |-> WavCodec(format, bits).codec,
                       channels |-> channels,
                       bits |-> WavCodec(format, bits).bits,
                       align |-> align,
                       order |-> IF format = 1 THEN "little" ELSE "none",
                       found |-> TRUE]
        /\ toSkip' = length - 16
        /\ Parses("skip")
        /\ UNCHANGED length

\* _alutInputStreamSkip, in all the places that call it with a length from the
\* sound; an encoding nobody knows is found out after it.
Skip ==
  /\ pc = "skip"
  /\ \/ LoadFails(SkipErrors(toSkip))
     \/ /\ CanSkip(toSkip) /\ sound.codec = "none"
        /\ LoadFails({"UNSUPPORTED_FILE_SUBTYPE"})
     \/ /\ CanSkip(toSkip) /\ sound.codec # "none"
        /\ Consume(toSkip)
        /\ toSkip' = 0
        /\ Parses(IF sound.container = "wav" THEN "pad" ELSE "data")
        /\ UNCHANGED <<sound, length>>

\* A chunk of odd length is followed by one more byte, unless the stream ends.
NeedsPad_Never == FALSE

NeedsPad == length % 2 = 1 /\ ~EOF

SkipPad ==
  /\ pc = "pad"
  /\ \/ NeedsPad /\ LoadFails(SkipErrors(1))
     \/ /\ IF NeedsPad THEN CanSkip(1) /\ Consume(1) ELSE UNCHANGED stream
        /\ length' = 0
        /\ Parses("chunk")
        /\ UNCHANGED <<sound, toSkip>>

-----------------------------------------------------------------------------
(* loadAUFile *)

\* Encodings 1, 2, 3 and 27.
AuCodec(encoding) ==
  IF encoding = "ULAW_8" THEN [codec |-> "ULaw", bits |-> 16, order |-> "none"]
  ELSE IF encoding = "PCM_8" THEN [codec |-> "PCM8s", bits |-> 8, order |-> "none"]
  ELSE IF encoding = "PCM_16"
  THEN [codec |-> IF call.host = "big" THEN "Linear" ELSE "PCM16",
        bits |-> 16, order |-> "big"]
  ELSE IF encoding = "ALAW_8" THEN [codec |-> "ALaw", bits |-> 16, order |-> "none"]
  ELSE [codec |-> "none", bits |-> 0, order |-> "none"]

AuEncodings == {"ULAW_8", "PCM_8", "PCM_16", "ALAW_8", "FLOAT_32"}

\* The headers a source can have: those of the built-in sources are known.
AuHeaders ==
  IF source \in {"File", "FileImage"}
  THEN [offset : DataOffsets, len : DataLengths, encoding : AuEncodings,
        channels : ChannelCounts, frequencyOk : BOOLEAN]
  ELSE {[offset |-> 24,
         len |-> IF source = "HelloWorld" THEN HelloLength ELSE total - 24,
         encoding |-> IF source = "HelloWorld" THEN "ULAW_8" ELSE "PCM_16",
         channels |-> 1, frequencyOk |-> TRUE]}

\* The length of the data part: of what remains after the header when it is
\* not known, in the arithmetic of size_t.
AuDataLength(h) ==
  IF h.len = -1 THEN SizeT(remaining - 20 - 24 - h.offset) ELSE SizeT(h.len)

AuHeaderOk(h) ==
  h.offset >= 24 /\ AuDataLength(h) > 0 /\ h.frequencyOk /\ h.channels >= 1

AuHeader ==
  /\ pc = "au"
  /\ \/ LoadFails(ReadErrors(20))
     \/ /\ CanRead(20)
        /\ \E h \in AuHeaders : ~AuHeaderOk(h)
        /\ LoadFails({"CORRUPT_OR_TRUNCATED_DATA"})
     \/ /\ CanRead(20)
        /\ Consume(20)
        /\ \E h \in AuHeaders :
             /\ AuHeaderOk(h)
             /\ sound' = [container |-> "au",
                          codec |-> AuCodec(h.encoding).codec,
                          channels |-> h.channels,
                          bits |-> AuCodec(h.encoding).bits,
                          align |-> 1,
                          order |-> AuCodec(h.encoding).order,
                          found |-> FALSE]
             /\ toSkip' = h.offset - 24
             /\ length' = AuDataLength(h)
        /\ Parses("skip")

-----------------------------------------------------------------------------
(* alutCodec.c: the codec owns the data; it returns a BufferData or NULL *)

Swapped(order) ==
  IF order = "little" THEN "big" ELSE IF order = "big" THEN "little" ELSE order

\* Linear, PCM8s and PCM16 work in place.
DecodeInPlace ==
  /\ pc = "codec"
  /\ sound.codec \in {"Linear", "PCM8s", "PCM16"}
  /\ sound' = [sound EXCEPT !.order = IF sound.codec = "PCM16"
                                      THEN Swapped(sound.order) ELSE sound.order]
  /\ Parses("bufferData")
  /\ UNCHANGED <<stream, toSkip, length>>

\* New memory for the decoded sound.  Without it the encoded data is not freed.
DecodeFails(size) == FailsWith(OutOfMemory, "destroy")

\* The new memory is freed instead of the encoded data.
HeapAfterDecoding_WrongFree == heap

\* The decoded sound replaces the encoded one.
HeapAfterDecoding == (heap \ {"data"}) \cup {"decoded"}

\* What is decoded is in the byte order of the host.
Decoded(size) ==
  /\ size <= MaxAlloc
  /\ heap' = HeapAfterDecoding
  /\ sound' = [sound EXCEPT !.order = call.host]
  /\ length' = size
  /\ Goto("bufferData")
  /\ NothingRecorded
  /\ UNCHANGED <<stream, toSkip, written, result>>

\* u-law and A-law: a sample of 16 bits for a byte.
DecodeLaw ==
  /\ pc = "codec"
  /\ sound.codec \in {"ULaw", "ALaw"}
  /\ DecodeFails(SizeT(2 * length)) \/ Decoded(SizeT(2 * length))

\* MAX_IMA_CHANNELS
MaxImaChannels == 2

\* The code asks for this many bytes, and passes them on.
ImaSize ==
  SizeT((sound.align - sound.channels) * (length \div sound.align) * 4)

\* More channels than the decoder has room for: no BufferData, no error, and
\* neither the encoded nor the new memory is freed.
ImaTooManyChannels ==
  /\ ImaSize <= MaxAlloc
  /\ heap' = heap \cup {"decoded"}
  /\ Goto("destroy")
  /\ NothingRecorded
  /\ UNCHANGED <<stream, sound, toSkip, length, written, result>>

\* The division by a block size of zero, the loop over the channels of a block
\* that advances by none of them, and an access to memory that is not there, are
\* the end of the program's progress.
ImaStuck(where) ==
  /\ Goto(where)
  /\ UNCHANGED <<stream, heap, lastError, err, sound, toSkip, length, written,
                 result>>

ImaSpins == sound.channels = 0 /\ length >= sound.align

\* The decoder leaves its memory (AlutIMA4!LeavesItsMemory): blocks that are not
\* whole groups are read on behind the data, or need more room than there is, or
\* the size is not a size_t.  The program may survive that.
ImaLeavesItsMemory ==
  LET blocks  == length \div sound.align
      missing == (-sound.align) % (4 * sound.channels)
  IN /\ sound.channels \in 1 .. MaxImaChannels
     /\ \/ blocks * missing > length - blocks * sound.align
        \/ blocks > 0 /\ sound.channels = 2 /\ sound.align > 8 /\ missing = 7
        \/ (sound.align - sound.channels) * blocks * 4 >= SizeMod

DecodeIMA4 ==
  /\ pc = "codec"
  /\ sound.codec = "IMA4"
  /\ IF sound.align = 0
     THEN ImaStuck("trap")
     ELSE \/ DecodeFails(ImaSize)
          \/ sound.channels > MaxImaChannels /\ ImaTooManyChannels
          \/ ImaSpins /\ ImaSize <= MaxAlloc /\ ImaStuck("spin")
          \/ ImaLeavesItsMemory /\ ImaSize <= MaxAlloc /\ ImaStuck("trap")
          \/ sound.channels <= MaxImaChannels /\ ~ImaSpins /\ Decoded(ImaSize)

\* _alutBufferDataConstruct, the last call of every codec.
ConstructBufferData ==
  /\ pc = "bufferData"
  /\ \/ FailsWith(OutOfMemory, "destroy")
     \/ /\ heap' = heap \cup {"bufferData"}
        /\ Goto("destroy")
        /\ NothingRecorded
        /\ UNCHANGED <<stream, sound, toSkip, length, written, result>>

-----------------------------------------------------------------------------
(* The end of a call *)

\* A step that frees or generates, and decides on the result.
Ends(newHeap, res, next) ==
  /\ heap' = newHeap
  /\ result' = res
  /\ Goto(next)
  /\ UNCHANGED <<stream, sound, toSkip, length>>

StreamRoles == {"stream", "FILE", "fileName"}

\* _alutInputStreamDestroy, after loadFile, whatever that returned.
DestroyStream_OnlyOnSuccess ==
  /\ pc = "destroy"
  /\ Ends(IF "bufferData" \in heap THEN heap \ StreamRoles ELSE heap, result,
          IF "bufferData" \in heap THEN "deliver" ELSE "finish")
  /\ NothingRecorded
  /\ UNCHANGED written

DestroyStream ==
  /\ pc = "destroy"
  /\ Ends(heap \ StreamRoles, result,
          IF "bufferData" \in heap THEN "deliver" ELSE "finish")
  /\ NothingRecorded
  /\ UNCHANGED written

\* _alutBufferDataDestroy frees the structure and what it points to.
BufferDataRoles == {"bufferData", "data", "decoded"}

\* _alutFormatConstruct: mono or stereo, 8 or 16 bits.
StandardFormat == sound.channels \in {1, 2} /\ sound.bits \in {8, 16}

\* Whether the data could be passed is not looked at.
PassBufferData_Unchecked ==
  /\ pc = "deliver" /\ sink = "CreateBuffer"
  /\ Record(IF StandardFormat THEN "BUFFER_DATA" ELSE "UNSUPPORTED_FILE_SUBTYPE")
  /\ Ends((heap \ BufferDataRoles) \cup {"alBuffer"}, "ok", "finish")
  /\ UNCHANGED written

\* _alutPassBufferData: the AL buffer is generated first, and is not deleted
\* when the format is not supported or alBufferData fails.
PassBufferData ==
  /\ pc = "deliver" /\ sink = "CreateBuffer"
  /\ UNCHANGED written
  /\ \/ /\ Record("GEN_BUFFERS")
        /\ Ends(heap \ BufferDataRoles, "fail", "finish")
     \/ /\ Record(IF StandardFormat THEN "BUFFER_DATA"
                  ELSE "UNSUPPORTED_FILE_SUBTYPE")
        /\ Ends((heap \ BufferDataRoles) \cup {"alBuffer"}, "fail", "finish")
     \/ /\ StandardFormat
        /\ NothingRecorded
        /\ Ends((heap \ BufferDataRoles) \cup {"alBuffer"}, "ok", "finish")

\* The size is written before the format is known.
LoadMemory_SizeFirst ==
  /\ pc = "deliver" /\ sink # "CreateBuffer"
  /\ ~StandardFormat
  /\ Record("UNSUPPORTED_FILE_SUBTYPE")
  /\ written' = {"size"}
  /\ Ends(heap \ BufferDataRoles, "fail", "finish")

\* The end of _alutLoadMemoryFromInputStream: the format is found first, then
\* the caller's variables are written, the data is detached and handed over.
LoadMemory ==
  /\ pc = "deliver" /\ sink # "CreateBuffer"
  /\ \/ /\ ~StandardFormat
        /\ Record("UNSUPPORTED_FILE_SUBTYPE")
        /\ Ends(heap \ BufferDataRoles, "fail", "finish")
        /\ UNCHANGED written
     \/ /\ StandardFormat
        /\ NothingRecorded
        /\ written' = {"size", "format"}
             \cup (IF sink = "LoadMemory" THEN {"frequency"} ELSE {})
        /\ Ends(heap \ {"bufferData"}, "ok", "finish")

\* The generated waveform goes after its last reader has gone; alutLoadWAVFile
\* and alutLoadWAVMemory assign the result to *data, be it NULL or not.
Finish ==
  /\ pc = "finish"
  /\ written' = written
       \cup (IF sink = "LoadWAV" THEN {"data"} ELSE {})
       \cup (IF sink = "LoadWAV" /\ result = "ok" THEN {"frequency", "loop"}
             ELSE {})
  /\ Ends(heap \ {"outStream", "outData"},
          IF result = "ok" THEN "ok" ELSE "fail", "done")
  /\ NothingRecorded

\* alutUnloadWAV, which the caller may call with what it has in *data: NULL
\* after a failure.  There is no check of any kind.
Unload ==
  /\ pc = "done" /\ sink = "LoadWAV"
  /\ heap' = IF result = "ok" THEN heap \ {"data", "decoded"} ELSE heap
  /\ Goto("unloaded")
  /\ NothingRecorded
  /\ UNCHANGED <<stream, sound, toSkip, length, written, result>>

Stopped == {"done", "unloaded", "trap", "spin"}

Returned == pc \in Stopped /\ UNCHANGED vars

CallStep ==
  \/ Start \/ GenerateFails \/ Generate
  \/ ConstructFails \/ ConstructNameFails
  \/ ConstructFromFile \/ ConstructFromMemory
  \/ LoadRawFile \/ LoadFile \/ ReadData
  \/ WavHeader \/ NextChunk \/ FmtChunk \/ Skip \/ SkipPad \/ AuHeader
  \/ DecodeInPlace \/ DecodeLaw \/ DecodeIMA4 \/ ConstructBufferData
  \/ DestroyStream \/ PassBufferData \/ LoadMemory \/ Finish

Next == CallStep \/ Unload \/ Returned

\* A call that has been entered runs on.
Spec == Init /\ [][Next]_vars /\ WF_vars(CallStep)

-----------------------------------------------------------------------------
(* Properties *)

Places == { "start", "generate", "construct", "loadFile", "data", "wav", "chunk",
            "fmt", "skip", "pad", "au", "codec", "bufferData", "destroy",
            "deliver", "finish" } \cup Stopped

TypeOK ==
  /\ call \in [entry : Calls, host : {"little", "big"}, raw : BOOLEAN,
                entryError : {NoError, "INVALID_VALUE"}]
  /\ pc \in Places
  /\ lastError \in ErrorCodes \cup {NoError}
  /\ err \in ErrorCodes \cup {NoError}
  /\ total \in 0 .. SizeMod - 1 /\ left \in 0 .. total
  /\ remaining \in 0 .. SizeMod - 1
  /\ isFileStream \in BOOLEAN
  /\ heap \subseteq Roles
  /\ sound \in [container : {"none", "raw", "wav", "au"},
                 codec : Codecs \cup {"none"}, channels : Nat, bits : Nat,
                 align : Nat, order : {"none", "little", "big"}, found : BOOLEAN]
  /\ toSkip \in Nat /\ length \in Nat
  /\ written \subseteq {"format", "size", "frequency", "data", "loop"}
  /\ result \in {"pending", "ok", "fail"}

\* The accounts of a call that has returned.  When it succeeded, the AL buffer,
\* or one block of memory, is the caller's and everything else has been freed:
\* the stream and its file, the BufferData, the encoded sound, the generated
\* waveform.  When it failed, nothing is left, but for what these ways out
\* forget: a FILE or the sound when memory runs out, encoded and decoded sound
\* of an IMA4 file with too many channels, an AL buffer whose data was refused.
\* After alutUnloadWAV nothing is left of a call that succeeded.
HeapAccounts ==
  /\ pc = "done" =>
       IF result = "ok"
       THEN heap \in IF sink = "CreateBuffer" THEN {{"alBuffer"}}
                     ELSE {{"data"}, {"decoded"}}
       ELSE \/ heap = {}
            \/ err = "OUT_OF_MEMORY" /\ heap \in {{"FILE"}, {"data"}, {"decoded"}}
            \/ /\ sound.codec = "IMA4" /\ sound.channels > 2
               /\ heap = {"data", "decoded"}
            \/ /\ err \in {"BUFFER_DATA", "UNSUPPORTED_FILE_SUBTYPE"}
               /\ sink = "CreateBuffer" /\ heap = {"alBuffer"}
  /\ pc = "unloaded" /\ result = "ok" => heap = {}

\* While the stream is read, what it reads from is there: the open file, or the
\* waveform that was generated for it; and what is handed over is still there
\* when it is handed over.
NothingUsedAfterFree ==
  /\ pc \in {"loadFile", "data", "wav", "chunk", "fmt", "skip", "pad", "au"} =>
       "stream" \in heap /\ (isFileStream => "FILE" \in heap)
  /\ "stream" \in heap /\ source = "Waveform" => {"outStream", "outData"} \subseteq heap
  /\ pc \in {"codec", "bufferData", "deliver"} =>
       heap \cap {"data", "decoded"} =
         IF pc # "codec" /\ sound.codec \in {"ULaw", "ALaw", "IMA4"}
         THEN {"decoded"} ELSE {"data"}

\* A call that fails records why ("Any ALUT routine that fails will ... set the
\* global error state", doc/alut.html:277), but for an IMA4 sound with too many
\* channels.
SilentFailureOnlyForIMA4 ==
  pc = "done" /\ result = "fail" /\ err = NoError =>
    sound.codec = "IMA4" /\ sound.channels > MaxImaChannels

\* A call that succeeds records nothing, however many things it tried on the
\* way, and an error recorded before the call is the one that is kept.
ErrorStateKept ==
  pc = "done" =>
    /\ result = "ok" => err = NoError
    /\ lastError = IF call.entryError = NoError THEN err ELSE call.entryError

\* The caller's variables, without the data.
Outputs ==
  IF sink = "LoadMemory" THEN {"format", "size", "frequency"}
  ELSE IF sink = "LoadWAV" THEN {"format", "size", "frequency", "loop"}
  ELSE {}

\* A call writes the caller's variables only when it succeeds, and then all of
\* them ("if a function fails, no data pointed to by pointer arguments has been
\* changed", doc/alut.html:260).  alutLoadWAV... alone sets *data in any case.
OutputsOnlyOnSuccess ==
  pc = "done" =>
    written = (IF sink = "LoadWAV" THEN {"data"} ELSE {}) \cup
              (IF result = "ok" THEN Outputs ELSE {})

\* The errors doc/alut.html:685-1158 lists for a loader.
DocumentedErrors ==
  {NoError, "OUT_OF_MEMORY"} \cup SanityErrors
    \cup (IF sink = "CreateBuffer" THEN {"GEN_BUFFERS", "BUFFER_DATA"} ELSE {})
    \cup (IF source \in {"File", "FileImage"}
          THEN { "UNSUPPORTED_FILE_TYPE", "UNSUPPORTED_FILE_SUBTYPE",
                 "CORRUPT_OR_TRUNCATED_DATA" }
          ELSE {})
    \cup (IF source = "File" THEN {"IO_ERROR"} ELSE {})
    \cup (IF source = "Waveform" THEN {"INVALID_ENUM", "INVALID_VALUE"} ELSE {})

\* A loader records only errors the reference lists for it, although all of
\* them go through the same code; the waveforms have one exception, a waveform
\* without samples.
ErrorsAreDocumented ==
  \/ err \in DocumentedErrors
  \/ /\ source = "Waveform" /\ total = 24
     /\ err = "CORRUPT_OR_TRUNCATED_DATA"

\* A RIFF chunk starts at an even offset: the parser never loses its alignment,
\* whatever the lengths of the chunks before and of what a fmt chunk has beyond
\* its 16 bytes, except behind the last byte.
ChunksAligned == pc = "chunk" => (total - left) % 2 = 0 \/ left = 0

\* What the caller gets is mono or stereo of 8 or 16 bits ("guaranteed to be in
\* one of the four standard OpenAL formats", doc/alut.html:656), and samples of
\* 16 bits are in the byte order of the host, for either host and container.
\* Sound from a RIFF file was decoded with what a fmt chunk said of it.
SoundIsStandard ==
  result = "ok" =>
    /\ StandardFormat
    /\ sound.bits = 16 => sound.order = call.host
    /\ sound.container = "wav" => sound.found

\* Every call returns, except for an IMA4 sound with a block size of zero or with
\* no channels, or one for which the decoder leaves its memory: no order of chunks
\* keeps the parser in its loop.
CallReturns ==
  <>(\/ pc = "done"
     \/ /\ pc \in {"trap", "spin"}
        /\ sound.codec = "IMA4"
        /\ 0 \in {sound.align, sound.channels} \/ ImaLeavesItsMemory)

\* Seen from outside, the call is one step at its return.
LoadCall == INSTANCE AlutLoadCall WITH
  lastError <- IF pc \in {"done", "unloaded"} THEN lastError ELSE call.entryError,
  result <- IF pc \in {"done", "unloaded"} THEN result ELSE "pending",
  lost <- pc = "done" /\ result = "fail" /\ "alBuffer" \in heap

\* A call implements the one-step call that AlutLifecycle takes it for.
ImplementsLoadCall == LoadCall!Spec

-----------------------------------------------------------------------------
(* Claims of the reference and of comments that the code does not keep *)

\* alutLoader.c:192: the data part of an AU file starts at dataOffset, and its
\* length -1 means that it is not known; then it is what remains of the stream
\* after that offset.
UnknownLengthIsTheRest ==
  pc = "au" /\ remaining = left =>
    \A h \in AuHeaders :
      h.len = -1 /\ h.offset >= 24 /\ left >= 20 + (h.offset - 24) =>
        AuDataLength(h) = left - 20 - (h.offset - 24)

=============================================================================
