-------------------------- MODULE AlutLoader_proofs --------------------------
(***************************************************************************)
(* Proofs about AlutLoader, for every length of file, memory and size_t,   *)
(* every chunk and header.                                                 *)
(*                                                                         *)
(* HeapInv is the accounts of the heap at every place in the code: what a  *)
(* call holds there, and why.  With it, ErrorInv (what lastError is made   *)
(* of), OutputsInv (what of the caller's has been written), SoundInv (what *)
(* the chosen codec will do), AlignInv (how the place in the code and the  *)
(* position in the stream go together) and DocInv (what is known of the    *)
(* built-in sounds) are invariant, each by itself; the properties of       *)
(* AlutLoader follow, and that a call is one step of AlutLoadCall.         *)
(***************************************************************************)
EXTENDS AlutLoader, TLAPS

Codes == ErrorCodes \cup {NoError}

Sounds == [container : {"none", "raw", "wav", "au"},
           codec : Codecs \cup {"none"}, channels : Nat, bits : Nat,
           align : Nat, order : {"none", "little", "big"}, found : BOOLEAN]

-----------------------------------------------------------------------------
(* The parts of a step *)

\* Arithmetic of size_t.
LEMMA SizesAreSizes ==
  ASSUME NEW n \in Int
  PROVE  SizeT(n) \in 0 .. SizeMod - 1
BY SizeAssumption DEF SizeT

\* What can go wrong is recorded with a code of alut.h.
LEMMA ErrorSets ==
  ASSUME NEW n
  PROVE  /\ OutOfMemory \subseteq ErrorCodes
         /\ ReadErrors(n) \subseteq ErrorCodes
         /\ NewReadErrors(n) \subseteq ErrorCodes
         /\ SkipErrors(n) \subseteq ErrorCodes
         /\ SanityErrors \subseteq ErrorCodes
BY DEF OutOfMemory, ReadErrors, NewReadErrors, SkipErrors, SanityErrors, ErrorCodes

\* Recording an error leaves the error state a code, and so does a failure.
LEMMA RecordTyped ==
  ASSUME TypeOK, NEW e \in Codes, Record(e)
  PROVE  lastError' \in Codes /\ err' \in Codes
BY DEF TypeOK, Record, SetError, Codes

\* A step that fails.
LEMMA FailTyped ==
  ASSUME TypeOK, NEW errs \in SUBSET ErrorCodes, NEW next \in Places,
         FailsWith(errs, next)
  PROVE  TypeOK'
<1>1. PICK e \in errs : Record(e)
  BY DEF FailsWith
<1>2. lastError' \in Codes /\ err' \in Codes
  BY <1>1, RecordTyped DEF Codes
<1>3. QED
  BY <1>2 DEF TypeOK, FailsWith, Goto, Codes, stream

\* What is read is there, and remainingLength may wrap around.
LEMMA ConsumeTyped ==
  ASSUME TypeOK, NEW n \in Nat, n <= left, Consume(n)
  PROVE  /\ total' = total /\ left' \in 0 .. total /\ isFileStream' = isFileStream
         /\ remaining' \in 0 .. SizeMod - 1
<1>1. remaining - n \in Int /\ left - n \in 0 .. total
  BY SizeAssumption DEF TypeOK
<1>2. QED
  BY <1>1, SizesAreSizes DEF Consume

\* The tables of alutLoader.c and alutCodec.c.
LEMMA Swaps ==
  \A o \in {"none", "little", "big"} : Swapped(o) \in {"none", "little", "big"}
BY DEF Swapped

\* Whatever a fmt chunk says.
LEMMA WavCodecTyped ==
  ASSUME NEW f \in {0, 1, 6, 7, 17}, NEW b \in {4, 8, 16}
  PROVE  WavCodec(f, b).codec \in Codecs \cup {"none"} /\ WavCodec(f,
  b).bits \in Nat
BY DEF WavCodec, Codecs

\* Whatever the header of an AU file says.
LEMMA AuCodecTyped ==
  ASSUME NEW e \in AuEncodings
  PROVE  /\ AuCodec(e).codec \in Codecs \cup {"none"} /\ AuCodec(e).bits \in Nat
         /\ AuCodec(e).order \in {"none", "big"}
BY DEF AuCodec, Codecs, AuEncodings

-----------------------------------------------------------------------------
(* Types *)

\* The state before the call.
LEMMA TypeInit == Init => TypeOK
<1> SUFFICES ASSUME Init PROVE TypeOK
  OBVIOUS
<1>1. 0 \in 0 .. SizeMod - 1
  BY SizeAssumption
<1>2. call.entryError \in {NoError, "INVALID_VALUE"}
  BY DEF Init
<1>3. lastError \in Codes /\ err \in Codes
  BY <1>2 DEF Init, Codes, ErrorCodes
<1>4. NoSound \in Sounds
  BY DEF NoSound, Codecs, Sounds
<1>5. total \in 0 .. SizeMod - 1 /\ left \in 0 .. total /\ remaining \in 0 .. SizeMod - 1
  BY <1>1 DEF Init
<1>6. call \in [entry : Calls, host : {"little", "big"}, raw : BOOLEAN,
                entryError : {NoError, "INVALID_VALUE"}]
  BY DEF Init
<1>7. QED
  BY <1>3, <1>4, <1>5, <1>6 DEF Init, TypeOK, Codes, Sounds, Places

\* A failure.
LEMMA TypeFails ==
  ASSUME TypeOK,
         \/ GenerateFails \/ ConstructFails
  PROVE  TypeOK'
BY FailTyped DEF GenerateFails, ConstructFails, Places, ErrorCodes

\* The sanity check.
LEMMA TypeStart == TypeOK /\ Start => TypeOK'
<1> SUFFICES ASSUME TypeOK, Start PROVE TypeOK'
  OBVIOUS
<1>1. CASE FailsWith(SanityErrors, "finish")
  BY <1>1, ErrorSets, FailTyped DEF Places
<1>2. CASE /\ Parses(IF source = "Waveform" THEN "generate" ELSE "construct")
           /\ UNCHANGED <<stream, sound, toSkip, length>>
  BY <1>2 DEF TypeOK, Parses, Goto, NothingRecorded, stream, Places
<1>3. QED
  BY <1>1, <1>2 DEF Start

\* The waveform and the stream.
LEMMA TypeConstruct ==
  ASSUME TypeOK,
         Generate \/ ConstructNameFails \/ ConstructFromFile \/ ConstructFromMemory
  PROVE  TypeOK'
<1>1. CASE Generate
  <2>1. left' \in 0 .. SizeMod - 1
    BY <1>1, SizeAssumption, SizesAssumption DEF Generate
  <2>2. heap' \subseteq Roles
    BY <1>1 DEF Generate, TypeOK, Roles
  <2>3. QED
    BY <1>1, <2>1, <2>2 DEF Generate, TypeOK, Goto, NothingRecorded, Places
<1>2. CASE ConstructNameFails
  <2>1. lastError' \in Codes /\ err' \in Codes
    BY <1>2, RecordTyped DEF ConstructNameFails, Codes, ErrorCodes
  <2>2. heap' \subseteq Roles
    BY <1>2 DEF ConstructNameFails, TypeOK, Roles
  <2>3. QED
    BY <1>2, <2>1, <2>2 DEF ConstructNameFails, TypeOK, Codes, Goto, stream, Places
<1>3. CASE ConstructFromFile
  <2>1. left' \in 0 .. SizeMod - 1 /\ remaining' \in 0 .. SizeMod - 1
    BY <1>3, SizesAssumption DEF ConstructFromFile
  <2>2. heap' \subseteq Roles
    BY <1>3 DEF ConstructFromFile, TypeOK, Roles
  <2>3. QED
    BY <1>3, <2>1, <2>2 DEF ConstructFromFile, TypeOK, Goto, NothingRecorded, Places
<1>4. CASE ConstructFromMemory
  <2>1. left' \in 0 .. SizeMod - 1
    <3>1. left \in 0 .. SizeMod - 1
      BY SizeAssumption DEF TypeOK
    <3>2. /\ 24 + HelloLength \in 0 .. SizeMod - 1
          /\ WavMemorySize \in 0 .. SizeMod - 1 /\ Sizes \subseteq 0 .. SizeMod - 1
      BY SizeAssumption, SizesAssumption
    <3>3. QED
      BY <1>4, <3>1, <3>2 DEF ConstructFromMemory
  <2>2. heap' \subseteq Roles
    BY <1>4 DEF ConstructFromMemory, TypeOK, Roles
  <2>3. QED
    BY <1>4, <2>1, <2>2
    DEF ConstructFromMemory, TypeOK, Goto, NothingRecorded, Places
<1>5. QED
  BY <1>1, <1>2, <1>3, <1>4

\* The magic number, and the data.
LEMMA TypeLoadFile ==
  ASSUME TypeOK, LoadRawFile \/ LoadFile \/ ReadData
  PROVE  TypeOK'
<1>1. CASE LoadRawFile
  <2>1. length' \in Nat
    BY <1>1 DEF LoadRawFile, TypeOK
  <2>2. Raw \in Sounds
    BY DEF Raw, NoSound, Codecs, Sounds
  <2>3. QED
    BY <1>1, <2>1, <2>2
    DEF LoadRawFile, TypeOK, Sounds, Parses, Goto, NothingRecorded, stream, Places
<1>2. CASE LoadFile
  <2>1. CASE \E errs \in SUBSET ErrorCodes : LoadFails(errs)
    BY <2>1, FailTyped DEF LoadFails, Places
  <2>2. CASE CanRead(4) /\ Consume(4) /\ (Parses("au") \/ Parses("wav"))
             /\ UNCHANGED <<sound, toSkip, length>>
    <3>1. /\ total' = total /\ left' \in 0 .. total /\ isFileStream' = isFileStream
          /\ remaining' \in 0 .. SizeMod - 1
      BY <2>2, ConsumeTyped DEF CanRead
    <3>2. /\ pc' \in Places
          /\ UNCHANGED <<call, sound, toSkip, length, heap, err, lastError,
                         written, result>>
      BY <2>2 DEF Parses, Goto, NothingRecorded, Places
    <3>3. QED
      BY <3>1, <3>2 DEF TypeOK
  <2>3. QED
    BY <1>2, <2>1, <2>2, ErrorSets DEF LoadFile, ErrorCodes
<1>3. CASE ReadData
  <2>1. CASE LoadFails(NewReadErrors(length))
    BY <2>1, ErrorSets, FailTyped DEF LoadFails, Places
  <2>2. CASE /\ CanRead(length) /\ Consume(length)
             /\ heap' = heap \cup {"data"} /\ Goto("codec") /\ NothingRecorded
             /\ UNCHANGED <<sound, toSkip, length, written, result>>
    <3>1. /\ total' = total /\ left' \in 0 .. total /\ isFileStream' = isFileStream
          /\ remaining' \in 0 .. SizeMod - 1
      BY <2>2, ConsumeTyped DEF CanRead, TypeOK
    <3>2. heap' \subseteq Roles
      BY <2>2 DEF TypeOK, Roles
    <3>3. QED
      BY <2>2, <3>1, <3>2 DEF TypeOK, Goto, NothingRecorded, Places
  <2>3. QED
    BY <1>3, <2>1, <2>2 DEF ReadData
<1>4. QED
  BY <1>1, <1>2, <1>3

\* A step that consumes n bytes and learns of a sound.
LEMMA ParseTyped ==
  ASSUME TypeOK, NEW n \in Nat, CanRead(n), Consume(n), NEW next \in Places,
         Parses(next),
         sound' \in Sounds, toSkip' \in Nat, length' \in Nat
  PROVE  TypeOK'
<1>1. /\ total' = total /\ left' \in 0 .. total /\ isFileStream' = isFileStream
      /\ remaining' \in 0 .. SizeMod - 1
  BY ConsumeTyped DEF CanRead
<1>2. QED
  BY <1>1 DEF TypeOK, Parses, Goto, NothingRecorded, Sounds

\* The RIFF parser.
LEMMA TypeWav ==
  ASSUME TypeOK, WavHeader \/ NextChunk \/ FmtChunk
  PROVE  TypeOK'
<1>1. CASE WavHeader
  <2>1. CASE \E errs \in SUBSET ErrorCodes : LoadFails(errs)
    BY <2>1, FailTyped DEF LoadFails, Places
  <2>2. CASE /\ CanRead(8) /\ Consume(8) /\ Parses("chunk")
             /\ sound' = [sound EXCEPT !.container = "wav", !.codec = "Linear"]
             /\ UNCHANGED <<toSkip, length>>
    <3>1. sound' \in Sounds
      BY <2>2 DEF TypeOK, Sounds, Codecs
    <3>2. QED
      BY <2>2, <3>1, ParseTyped DEF TypeOK, Places
  <2>3. QED
    BY <1>1, <2>1, <2>2, ErrorSets DEF WavHeader, ErrorCodes
<1>2. CASE NextChunk
  <2>1. CASE \E errs \in SUBSET ErrorCodes : LoadFails(errs)
    BY <2>1, FailTyped DEF LoadFails, Places
  <2>2. CASE /\ CanRead(8) /\ Consume(8) /\ length' \in ChunkLengths
             /\ \/ Parses("fmt") /\ UNCHANGED toSkip
                \/ Parses("skip") /\ toSkip' = length'
                \/ Parses("data") /\ UNCHANGED toSkip
             /\ UNCHANGED sound
    <3>1. sound' \in Sounds /\ toSkip' \in Nat /\ length' \in Nat
      BY <2>2, SizesAssumption DEF TypeOK, Sounds
    <3>2. QED
      BY <2>2, <3>1, ParseTyped DEF Places
  <2>3. QED
    BY <1>2, <2>1, <2>2, ErrorSets DEF NextChunk, ErrorCodes
<1>3. CASE FmtChunk
  <2>1. CASE \E errs \in SUBSET ErrorCodes : LoadFails(errs)
    BY <2>1, FailTyped DEF LoadFails, Places
  <2>2. ASSUME length >= 16, CanRead(16), Consume(16), toSkip' = length - 16,
               Parses("skip"), UNCHANGED length,
               NEW format \in {0, 1, 6, 7, 17}, NEW bits \in {4, 8, 16},
               NEW channels \in ChannelCounts, NEW align \in BlockAligns,
               sound' = [container |-> "wav",
                         codec |-> WavCodec(format, bits).codec,
                         channels |-> channels,
                         bits |-> WavCodec(format, bits).bits,
                         align |-> align,
                         order |-> IF format = 1 THEN "little" ELSE "none",
                         found |-> TRUE]
        PROVE  TypeOK'
    <3>1. sound' \in Sounds
      BY <2>2, WavCodecTyped, SizesAssumption DEF Sounds
    <3>2. toSkip' \in Nat /\ length' \in Nat
      BY <2>2 DEF TypeOK
    <3>3. QED
      BY <2>2, <3>1, <3>2, ParseTyped DEF Places
  <2>3. QED
    <3>1. CASE length < 16 /\ LoadFails({"CORRUPT_OR_TRUNCATED_DATA"})
      BY <3>1, <2>1 DEF ErrorCodes
    <3>2. CASE LoadFails(ReadErrors(16))
      BY <3>2, <2>1, ErrorSets
    <3>3. CASE ~ (\/ length < 16 /\ LoadFails({"CORRUPT_OR_TRUNCATED_DATA"})
                  \/ LoadFails(ReadErrors(16)))
      <4>1. /\ length >= 16 /\ CanRead(16) /\ Consume(16) /\ toSkip' = length - 16
            /\ Parses("skip") /\ UNCHANGED length
        BY <1>3, <3>3 DEF FmtChunk
      <4>2. PICK format \in {0, 1, 6, 7, 17}, bits \in {4, 8, 16},
                 channels \in ChannelCounts, align \in BlockAligns :
                   sound' = [container |-> "wav",
                             codec |-> WavCodec(format, bits).codec,
                             channels |-> channels,
                             bits |-> WavCodec(format, bits).bits,
                             align |-> align,
                             order |-> IF format = 1 THEN "little" ELSE "none",
                             found |-> TRUE]
        BY <1>3, <3>3 DEF FmtChunk
      <4>3. QED
        BY <2>2, <4>1, <4>2
    <3>4. QED
      BY <3>1, <3>2, <3>3
<1>4. QED
  BY <1>1, <1>2, <1>3

\* What both parsers share.
LEMMA TypeSkip ==
  ASSUME TypeOK, Skip \/ SkipPad \/ AuHeader
  PROVE  TypeOK'
<1>1. CASE Skip
  <2>1. CASE \E errs \in SUBSET ErrorCodes : LoadFails(errs)
    BY <2>1, FailTyped DEF LoadFails, Places
  <2>2. CASE /\ CanSkip(toSkip) /\ Consume(toSkip) /\ toSkip' = 0
             /\ Parses(IF sound.container = "wav" THEN "pad" ELSE "data")
             /\ UNCHANGED <<sound, length>>
    <3>1. CanRead(toSkip) /\ toSkip \in Nat
      BY <2>2 DEF CanSkip, CanRead, TypeOK
    <3>2. QED
      BY <2>2, <3>1, ParseTyped DEF TypeOK, Sounds, Places
  <2>3. QED
    BY <1>1, <2>1, <2>2, ErrorSets DEF Skip, ErrorCodes
<1>2. CASE SkipPad
  <2>1. CASE \E errs \in SUBSET ErrorCodes : LoadFails(errs)
    BY <2>1, FailTyped DEF LoadFails, Places
  <2>2. CASE /\ CanSkip(1) /\ Consume(1) /\ length' = 0
             /\ Parses("chunk") /\ UNCHANGED <<sound, toSkip>>
    BY <2>2, ParseTyped DEF CanSkip, CanRead, TypeOK, Sounds, Places
  <2>3. CASE /\ UNCHANGED stream /\ length' = 0
             /\ Parses("chunk") /\ UNCHANGED <<sound, toSkip>>
    BY <2>3 DEF Parses, Goto, NothingRecorded, stream, TypeOK, Places
  <2>4. QED
    BY <1>2, <2>1, <2>2, <2>3, ErrorSets DEF SkipPad
<1>3. CASE AuHeader
  <2>1. CASE \E errs \in SUBSET ErrorCodes : LoadFails(errs)
    BY <2>1, FailTyped DEF LoadFails, Places
  <2>2. ASSUME CanRead(20), Consume(20), Parses("skip"), NEW h \in AuHeaders,
               AuHeaderOk(h),
               sound' = [container |-> "au",
                         codec |-> AuCodec(h.encoding).codec,
                         channels |-> h.channels,
                         bits |-> AuCodec(h.encoding).bits,
                         align |-> 1,
                         order |-> AuCodec(h.encoding).order,
                         found |-> FALSE],
               toSkip' = h.offset - 24,
               length' = AuDataLength(h)
        PROVE  TypeOK'
    <3>1. /\ h.offset \in Int /\ h.len \in Int /\ h.encoding \in AuEncodings
          /\ h.channels \in Nat
      <4>1. CASE source \in {"File", "FileImage"}
        BY <4>1, SizesAssumption DEF AuHeaders
      <4>2. CASE source \notin {"File", "FileImage"}
        <5>1. HelloLength \in Int /\ total - 24 \in Int
          BY SizesAssumption DEF TypeOK
        <5>2. QED
          BY <4>2, <5>1 DEF AuHeaders, AuEncodings
      <4>3. QED
        BY <4>1, <4>2
    <3>2. sound' \in Sounds
      BY <2>2, <3>1, AuCodecTyped DEF Sounds
    <3>3. toSkip' \in Nat
      BY <2>2, <3>1 DEF AuHeaderOk
    <3>4. length' \in Nat
      <4>1. remaining - 20 - 24 - h.offset \in Int
        BY <3>1 DEF TypeOK
      <4>2. QED
        BY <2>2, <3>1, <4>1, SizesAreSizes DEF AuDataLength
    <3>5. QED
      BY <2>2, <3>2, <3>3, <3>4, ParseTyped DEF Places
  <2>3. QED
    BY <1>3, <2>1, <2>2, ErrorSets DEF AuHeader, ErrorCodes
<1>4. QED
  BY <1>1, <1>2, <1>3

\* The size of a decoded IMA4 sound is a size_t, also where the code computes
\* it from fewer bytes than channels.
LEMMA ImaSizeTyped ==
  ASSUME TypeOK, sound.align # 0
  PROVE  ImaSize \in Nat
<1>1. sound.align \in Nat \ {0} /\ sound.channels \in Nat /\ length \in Nat
  BY DEF TypeOK
<1>2. length \div sound.align \in Int
  BY <1>1
<1>3. (sound.align - sound.channels) * (length \div sound.align) * 4 \in Int
  BY <1>1, <1>2
<1>4. QED
  BY <1>3, SizesAreSizes DEF ImaSize

\* New memory for the decoded sound.
LEMMA DecodedTyped ==
  ASSUME TypeOK, NEW size \in Nat, Decoded(size)
  PROVE  TypeOK'
<1>1. heap' \subseteq Roles
  BY DEF Decoded, HeapAfterDecoding, TypeOK, Roles
<1>2. sound' \in Sounds
  BY DEF Decoded, TypeOK, Sounds
<1>3. QED
  BY <1>1, <1>2 DEF Decoded, TypeOK, Sounds, Goto, NothingRecorded, stream, Places

\* The codecs.
LEMMA TypeDecode ==
  ASSUME TypeOK, DecodeInPlace \/ DecodeLaw \/ DecodeIMA4 \/ ConstructBufferData
  PROVE  TypeOK'
<1>1. CASE DecodeInPlace
  <2>1. sound' \in Sounds
    BY <1>1, Swaps DEF DecodeInPlace, TypeOK, Sounds
  <2>2. QED
    BY <1>1, <2>1
    DEF DecodeInPlace, TypeOK, Sounds, Parses, Goto, NothingRecorded, stream, Places
<1>2. ASSUME NEW size, DecodeFails(size) PROVE TypeOK'
  BY <1>2, ErrorSets, FailTyped DEF DecodeFails, Places
<1>3. CASE DecodeLaw
  <2>1. SizeT(2 * length) \in Nat
    <3>1. 2 * length \in Int
      BY DEF TypeOK
    <3>2. QED
      BY <3>1, SizesAreSizes
  <2>2. QED
    BY <1>2, <1>3, <2>1, DecodedTyped DEF DecodeLaw
<1>4. CASE DecodeIMA4
  <2>1. ASSUME NEW where \in {"trap", "spin"}, ImaStuck(where) PROVE TypeOK'
    BY <2>1 DEF ImaStuck, TypeOK, Goto, stream, Places, Stopped
  <2>2. CASE ImaTooManyChannels
    <3>1. heap' \subseteq Roles
      BY <2>2 DEF ImaTooManyChannels, TypeOK, Roles
    <3>2. QED
      BY <2>2, <3>1
      DEF ImaTooManyChannels, TypeOK, Goto, NothingRecorded, stream, Places
  <2>3. CASE sound.align # 0 /\ Decoded(ImaSize)
    BY <2>3, ImaSizeTyped, DecodedTyped
  <2>4. QED
    BY <1>2, <1>4, <2>1, <2>2, <2>3 DEF DecodeIMA4
<1>5. CASE ConstructBufferData
  <2>1. CASE FailsWith(OutOfMemory, "destroy")
    BY <2>1, ErrorSets, FailTyped DEF Places
  <2>2. CASE /\ heap' = heap \cup {"bufferData"}
             /\ Goto("destroy") /\ NothingRecorded
             /\ UNCHANGED <<stream, sound, toSkip, length, written, result>>
    <3>1. heap' \subseteq Roles
      BY <2>2 DEF TypeOK, Roles
    <3>2. QED
      BY <2>2, <3>1 DEF TypeOK, Goto, NothingRecorded, stream, Places
  <2>3. QED
    BY <1>5, <2>1, <2>2 DEF ConstructBufferData
<1>6. QED
  BY <1>1, <1>3, <1>4, <1>5

\* A step that ends a part of the call.
LEMMA EndTyped ==
  ASSUME TypeOK, NEW h \in SUBSET Roles, NEW res \in {"pending", "ok", "fail"},
         NEW next \in Places, Ends(h, res, next),
         NothingRecorded \/ \E e \in ErrorCodes : Record(e),
         written' \subseteq {"format", "size", "frequency", "data", "loop"}
  PROVE  TypeOK'
<1>1. lastError' \in Codes /\ err' \in Codes
  BY RecordTyped DEF NothingRecorded, Codes, TypeOK
<1>2. QED
  BY <1>1 DEF Ends, Goto, TypeOK, stream, Codes

\* The end of the call.
LEMMA TypeEnd ==
  ASSUME TypeOK, DestroyStream \/ PassBufferData \/ LoadMemory \/ Finish \/ Unload
  PROVE  TypeOK'
<1> heap \in SUBSET Roles /\ result \in {"pending", "ok", "fail"}
    /\ written \subseteq {"format", "size", "frequency", "data", "loop"}
  BY DEF TypeOK
<1>1. CASE DestroyStream
  BY <1>1, EndTyped DEF DestroyStream, Places
<1>2. CASE PassBufferData
  <2>1. (heap \ BufferDataRoles) \cup {"alBuffer"} \in SUBSET Roles
    BY DEF Roles
  <2>2. QED
    BY <1>2, <2>1, EndTyped DEF PassBufferData, Places, ErrorCodes
<1>3. CASE LoadMemory
  BY <1>3, EndTyped DEF LoadMemory, Places, ErrorCodes
<1>4. CASE Finish
  BY <1>4, EndTyped DEF Finish, Places, Stopped
<1>5. CASE Unload
  <2>1. heap' \subseteq Roles
    BY <1>5 DEF Unload
  <2>2. QED
    BY <1>5, <2>1 DEF Unload, TypeOK, Goto, NothingRecorded, stream, Places, Stopped
<1>6. QED
  BY <1>1, <1>2, <1>3, <1>4, <1>5

\* Every reachable state is well typed: remainingLength and the lengths stay
\* within a size_t, and what a call holds is what it can hold.
THEOREM TypeCorrect == Spec => []TypeOK
<1>1. TypeOK /\ [Next]_vars => TypeOK'
  <2> SUFFICES ASSUME TypeOK, [Next]_vars PROVE TypeOK'
    OBVIOUS
  <2>1. CASE CallStep
    BY <2>1, TypeFails, TypeStart, TypeConstruct, TypeLoadFile, TypeWav, TypeSkip,
       TypeDecode, TypeEnd DEF CallStep
  <2>2. CASE Unload
    BY <2>2, TypeEnd
  <2>3. CASE UNCHANGED vars
    BY <2>3 DEF TypeOK, vars, stream
  <2>4. QED
    BY <2>1, <2>2, <2>3 DEF Next, Returned
<1>2. QED
  BY <1>1, TypeInit, PTL DEF Spec

-----------------------------------------------------------------------------
(* The accounts of the heap *)

Reading == {"loadFile", "data", "wav", "chunk", "fmt", "skip", "pad", "au"}

Generated == {"outStream", "outData"}

\* What is not part of the generated waveform, and of it what is not part of
\* the stream.
Kept == heap \ Generated

Rest == Kept \ StreamRoles

SoundMemory == IF sound.codec \in {"ULaw", "ALaw",
"IMA4"} THEN "decoded" ELSE "data"

\* loadFile has failed, and this is left of the sound.
Forgotten(K) ==
  \/ err # NoError /\ K = {}
  \/ err = "OUT_OF_MEMORY" /\ (K = {"data"} \/ K = {"decoded"})
  \/ /\ err = NoError /\ sound.codec = "IMA4" /\ sound.channels > MaxImaChannels
     /\ K = {"data", "decoded"}

Accounted(K) ==
  IF result = "ok"
  THEN /\ err = NoError
       /\ IF sink = "CreateBuffer" THEN K = {"alBuffer"}
          ELSE K = {"data"} \/ K = {"decoded"}
  ELSE \/ Forgotten(K)
       \/ err = "OUT_OF_MEMORY" /\ K = {"FILE"}
       \/ /\ err \in {"BUFFER_DATA", "UNSUPPORTED_FILE_SUBTYPE"}
          /\ sink = "CreateBuffer" /\ K = {"alBuffer"}

\* Nothing has happened yet that a caller could see.
Early ==
  /\ pc \notin {"finish", "done", "unloaded"} => result = "pending"
  /\ pc \notin {"destroy", "finish", "done", "unloaded"} => err = NoError

HeapInv ==
  /\ Early
  /\ isFileStream => source = "File"
  /\ pc \in {"start", "generate"} => heap = {} /\ ~isFileStream
  /\ pc = "construct" => Kept = {} /\ ~isFileStream
  /\ pc \in Reading => /\ Rest = {} /\ "stream" \in heap
                       /\ isFileStream => "FILE" \in heap
  /\ pc = "codec" => Rest = {"data"}
  /\ pc = "bufferData" => Rest = {SoundMemory}
  /\ pc = "destroy" =>
       (Rest = {SoundMemory, "bufferData"} /\ err = NoError) \/ Forgotten(Rest)
  /\ pc = "deliver" => Kept = {SoundMemory, "bufferData"} /\ err = NoError
  /\ pc = "finish" => Accounted(Kept)
  /\ pc = "done" => Accounted(heap)
  /\ pc = "unloaded" => IF result = "ok" THEN heap = {} ELSE Accounted(heap)
  /\ /\ source = "Waveform"
     /\ pc \in {"construct", "codec", "bufferData", "destroy", "trap", "spin"} \cup Reading
     => Generated \subseteq heap

\* A call that has recorded an error knows it.
LEMMA NoErrorIsNone == NoError \notin ErrorCodes
BY DEF NoError, ErrorCodes

\* A step that only reads leaves the accounts as they are.
LEMMA HeapReads ==
  ASSUME HeapInv, pc \in Reading, pc' \in Reading, UNCHANGED <<call, heap,
         isFileStream>>,
         NothingRecorded, UNCHANGED result
  PROVE  HeapInv'
BY DEF HeapInv, Early, Reading, Kept, Rest, Generated, NothingRecorded, source, sink

\* A failure while reading leaves nothing of the sound.
LEMMA HeapLoadFails ==
  ASSUME HeapInv, pc \in Reading, NEW errs \in SUBSET ErrorCodes, LoadFails(errs)
  PROVE  HeapInv'
<1>1. PICK e \in errs : Record(e)
  BY DEF LoadFails, FailsWith
<1>2. err' # NoError
  BY <1>1, NoErrorIsNone DEF Record, SetError, HeapInv, Early, Reading
<1>3. pc' = "destroy" /\ Rest' = {} /\ heap' = heap
  BY DEF LoadFails, FailsWith, Goto, HeapInv, Rest, Kept
<1>4. UNCHANGED <<call, isFileStream, sound, result>>
  BY DEF LoadFails, FailsWith, Goto, stream
<1>5. QED
  BY <1>2, <1>3, <1>4 DEF HeapInv, Early, Reading, Forgotten, source

\* Until there is a stream.
LEMMA HeapStart ==
  ASSUME TypeOK, HeapInv,
         Start \/ GenerateFails \/ Generate \/ ConstructFails \/ ConstructNameFails
  PROVE  HeapInv'
<1> DEFINE Early1 == {"start", "generate", "construct"}
<1>1. pc \in Early1 => Kept = {} /\ err = NoError /\ result = "pending"
  BY DEF HeapInv, Early, Kept
<1>2. ASSUME pc \in Early1, NEW errs \in SUBSET ErrorCodes, FailsWith(errs,
             "finish")
      PROVE  HeapInv'
  <2>1. PICK e \in errs : Record(e)
    BY <1>2 DEF FailsWith
  <2>2. err' # NoError
    BY <1>1, <1>2, <2>1, NoErrorIsNone DEF Record, SetError
  <2>3. /\ pc' = "finish" /\ heap' = heap /\ Kept' = {}
        /\ UNCHANGED <<call, isFileStream, result>>
    BY <1>1, <1>2 DEF FailsWith, Goto, Kept, stream
  <2>4. QED
    BY <1>1, <1>2, <2>2, <2>3
    DEF HeapInv, Early, Reading, Accounted, Forgotten, source
<1>3. CASE Start
  <2>1. CASE FailsWith(SanityErrors, "finish")
    BY <1>2, <1>3, <2>1, ErrorSets DEF Start
  <2>2. CASE Parses(IF source = "Waveform" THEN "generate" ELSE "construct")
             /\ UNCHANGED <<stream, sound, toSkip, length>>
    BY <1>3, <2>2
    DEF Start, Parses, Goto, NothingRecorded, stream, HeapInv, Early, Reading,
        Kept, source
  <2>3. QED
    BY <1>3, <2>1, <2>2 DEF Start
<1>4. CASE GenerateFails
  BY <1>2, <1>4 DEF GenerateFails, ErrorCodes
<1>5. CASE Generate
  <2>1. Kept' = {} /\ Generated \subseteq heap'
    BY <1>1, <1>5 DEF Generate, Kept, Generated
  <2>2. QED
    BY <1>1, <1>5, <2>1
    DEF Generate, Goto, NothingRecorded, HeapInv, Early, Reading, source
<1>6. CASE ConstructFails
  BY <1>2, <1>6 DEF ConstructFails, ErrorCodes
<1>7. CASE ConstructNameFails
  <2>1. Kept' = {"FILE"}
    BY <1>1, <1>7 DEF ConstructNameFails, Kept, Generated
  <2>2. err' = "OUT_OF_MEMORY"
    BY <1>1, <1>7 DEF ConstructNameFails, Record, SetError
  <2>3. QED
    BY <1>1, <1>7, <2>1, <2>2
    DEF ConstructNameFails, Goto, stream, HeapInv, Early, Reading, Accounted, source
<1>8. QED
  BY <1>3, <1>4, <1>5, <1>6, <1>7

\* The stream is constructed with all it needs.
LEMMA HeapConstruct ==
  ASSUME TypeOK, HeapInv, ConstructFromFile \/ ConstructFromMemory
  PROVE  HeapInv'
<1>1. pc = "construct" /\ Kept = {} /\ err = NoError /\ result = "pending" /\ ~isFileStream
  BY DEF HeapInv, Early, ConstructFromFile, ConstructFromMemory
<1>2. CASE ConstructFromFile
  <2>1. Rest' = {} /\ {"stream", "FILE"} \subseteq heap'
    BY <1>1, <1>2 DEF ConstructFromFile, Rest, Kept, Generated, StreamRoles
  <2>2. QED
    BY <1>1, <1>2, <2>1
    DEF ConstructFromFile, Goto, NothingRecorded, HeapInv, Early, Reading, source
<1>3. CASE ConstructFromMemory
  <2>1. Rest' = {} /\ "stream" \in heap' /\ (Generated \subseteq heap => Generated \subseteq heap')
    BY <1>1, <1>3 DEF ConstructFromMemory, Rest, Kept, Generated, StreamRoles
  <2>2. QED
    BY <1>1, <1>3, <2>1
    DEF ConstructFromMemory, Goto, NothingRecorded, HeapInv, Early, Reading, source
<1>4. QED
  BY <1>2, <1>3

\* While it is read.
LEMMA HeapParse ==
  ASSUME TypeOK, HeapInv,
         \/ LoadRawFile \/ LoadFile \/ WavHeader \/ NextChunk \/ FmtChunk
         \/ Skip \/ SkipPad \/ AuHeader
  PROVE  HeapInv'
<1>1. pc \in Reading
  BY DEF LoadRawFile, LoadFile, WavHeader, NextChunk, FmtChunk, Skip, SkipPad,
     AuHeader, Reading
<1>2. CASE \E errs \in SUBSET ErrorCodes : LoadFails(errs)
  BY <1>1, <1>2, HeapLoadFails
<1>3. CASE (\E next \in Reading : Parses(next)) /\ UNCHANGED isFileStream
  BY <1>1, <1>3, HeapReads DEF Parses, Goto
<1>4. CASE LoadRawFile
  BY <1>3, <1>4 DEF LoadRawFile, stream, Reading
<1>5. CASE LoadFile
  BY <1>2, <1>3, <1>5, ErrorSets DEF LoadFile, Consume, Reading, ErrorCodes
<1>6. CASE WavHeader
  BY <1>2, <1>3, <1>6, ErrorSets DEF WavHeader, Consume, Reading, ErrorCodes
<1>7. CASE NextChunk
  BY <1>2, <1>3, <1>7, ErrorSets DEF NextChunk, Consume, Reading, ErrorCodes
<1>8. CASE FmtChunk
  <2>1. CASE LoadFails({"CORRUPT_OR_TRUNCATED_DATA"})
    BY <1>2, <2>1 DEF ErrorCodes
  <2>2. CASE LoadFails(ReadErrors(16))
    BY <1>2, <2>2, ErrorSets
  <2>3. CASE Consume(16) /\ Parses("skip")
    BY <1>3, <2>3 DEF Consume, Reading
  <2>4. QED
    BY <1>8, <2>1, <2>2, <2>3 DEF FmtChunk
<1>9. CASE Skip
  BY <1>2, <1>3, <1>9, ErrorSets DEF Skip, Consume, Reading, ErrorCodes
<1>10. CASE SkipPad
  BY <1>2, <1>3, <1>10, ErrorSets DEF SkipPad, Consume, Reading, stream
<1>11. CASE AuHeader
  BY <1>2, <1>3, <1>11, ErrorSets DEF AuHeader, Consume, Reading, ErrorCodes
<1>12. QED
  BY <1>4, <1>5, <1>6, <1>7, <1>8, <1>9, <1>10, <1>11

\* The data is allocated and read.
LEMMA HeapReadData ==
  ASSUME TypeOK, HeapInv, ReadData
  PROVE  HeapInv'
<1>1. CASE LoadFails(NewReadErrors(length))
  BY <1>1, ErrorSets, HeapLoadFails DEF ReadData, Reading
<1>2. CASE /\ Consume(length) /\ heap' = heap \cup {"data"} /\ Goto("codec")
           /\ NothingRecorded /\ UNCHANGED <<sound, toSkip, length, written, result>>
  <2>1. Rest' = {"data"} /\ (Generated \subseteq heap => Generated \subseteq heap')
    BY <1>2 DEF ReadData, HeapInv, Reading, Rest, Kept, Generated, StreamRoles
  <2>2. QED
    BY <1>2, <2>1
    DEF ReadData, Consume, Goto, NothingRecorded, HeapInv, Early, Reading, source
<1>3. QED
  BY <1>1, <1>2 DEF ReadData

\* alutCodec.c: the codec owns the data.
LEMMA HeapDecode ==
  ASSUME TypeOK, HeapInv, DecodeInPlace \/ DecodeLaw \/ DecodeIMA4
  PROVE  HeapInv'
<1>1. /\ pc = "codec" /\ Rest = {"data"} /\ err = NoError /\ result = "pending"
      /\ source = "Waveform" => Generated \subseteq heap
  BY DEF DecodeInPlace, DecodeLaw, DecodeIMA4, HeapInv, Early
<1>2. ASSUME NEW size, DecodeFails(size) PROVE HeapInv'
  <2>1. /\ pc' = "destroy" /\ heap' = heap /\ Rest' = {"data"} /\ err' = "OUT_OF_MEMORY"
        /\ UNCHANGED <<call, isFileStream, result>>
    BY <1>1, <1>2
    DEF DecodeFails, FailsWith, OutOfMemory, Record, SetError, Goto, stream, Rest,
        Kept
  <2>2. QED
    BY <1>1, <2>1 DEF HeapInv, Early, Reading, Forgotten, source
<1>3. ASSUME NEW size, Decoded(size), sound.codec \in {"ULaw", "ALaw", "IMA4"}
      PROVE  HeapInv'
  <2>1. Rest' = {"decoded"} /\ (Generated \subseteq heap => Generated \subseteq heap')
    BY <1>1, <1>3 DEF Decoded, HeapAfterDecoding, Rest, Kept, Generated, StreamRoles
  <2>2. SoundMemory' = "decoded"
    BY <1>3 DEF Decoded, SoundMemory, TypeOK
  <2>3. QED
    BY <1>1, <1>3, <2>1, <2>2
    DEF Decoded, Goto, NothingRecorded, stream, HeapInv, Early, Reading, source
<1>4. ASSUME NEW where \in {"trap", "spin"}, ImaStuck(where) PROVE HeapInv'
  BY <1>1, <1>4 DEF ImaStuck, Goto, stream, HeapInv, Early, Reading, source
<1>5. CASE sound.codec = "IMA4" /\ sound.channels > MaxImaChannels /\ ImaTooManyChannels
  <2>1. Rest' = {"data", "decoded"} /\ (Generated \subseteq heap => Generated \subseteq heap')
    BY <1>1, <1>5 DEF ImaTooManyChannels, Rest, Kept, Generated, StreamRoles
  <2>2. QED
    BY <1>1, <1>5, <2>1
    DEF ImaTooManyChannels, Goto, NothingRecorded, stream, HeapInv, Early, Reading,
        Forgotten, source
<1>6. CASE DecodeInPlace
  <2>1. Rest' = {"data"} /\ SoundMemory' = "data"
    BY <1>1, <1>6 DEF DecodeInPlace, Parses, Rest, Kept, SoundMemory, TypeOK
  <2>2. QED
    BY <1>1, <1>6, <2>1
    DEF DecodeInPlace, Parses, Goto, NothingRecorded, stream, HeapInv, Early,
        Reading, source
<1>7. CASE DecodeLaw
  BY <1>2, <1>3, <1>7 DEF DecodeLaw
<1>8. CASE DecodeIMA4
  BY <1>2, <1>3, <1>4, <1>5, <1>8 DEF DecodeIMA4
<1>9. QED
  BY <1>6, <1>7, <1>8

\* The BufferData takes what the codec has left, or nobody frees it.
LEMMA HeapBufferData ==
  ASSUME TypeOK, HeapInv, ConstructBufferData
  PROVE  HeapInv'
<1>1. /\ pc = "bufferData" /\ Rest = {SoundMemory} /\ err = NoError /\ result = "pending"
      /\ source = "Waveform" => Generated \subseteq heap
  BY DEF ConstructBufferData, HeapInv, Early
<1>2. SoundMemory \in {"data", "decoded"}
  BY DEF SoundMemory
<1>3. CASE FailsWith(OutOfMemory, "destroy")
  <2>1. /\ pc' = "destroy" /\ heap' = heap /\ Rest' = {SoundMemory} /\ err' = "OUT_OF_MEMORY"
        /\ UNCHANGED <<call, isFileStream, result, sound>>
    BY <1>1, <1>3
    DEF FailsWith, OutOfMemory, Record, SetError, Goto, stream, Rest, Kept
  <2>2. QED
    BY <1>1, <1>2, <2>1 DEF HeapInv, Early, Reading, Forgotten, source
<1>4. CASE /\ heap' = heap \cup {"bufferData"} /\ Goto("destroy") /\ NothingRecorded
           /\ UNCHANGED <<stream, sound, toSkip, length, written, result>>
  <2>1. Rest' = {SoundMemory, "bufferData"} /\ (Generated \subseteq heap => Generated \subseteq heap')
    BY <1>1, <1>4 DEF Rest, Kept, Generated, StreamRoles
  <2>2. SoundMemory' = SoundMemory
    BY <1>4 DEF SoundMemory
  <2>3. QED
    BY <1>1, <1>4, <2>1, <2>2
    DEF Goto, NothingRecorded, stream, HeapInv, Early, Reading, source
<1>5. QED
  BY <1>3, <1>4 DEF ConstructBufferData

\* The stream is destroyed, and the sound is handed over or freed.
LEMMA HeapDestroy ==
  ASSUME TypeOK, HeapInv, DestroyStream
  PROVE  HeapInv'
<1>1. /\ pc = "destroy" /\ result = "pending"
      /\ (Rest = {SoundMemory, "bufferData"} /\ err = NoError) \/ Forgotten(Rest)
  BY DEF DestroyStream, HeapInv, Early
<1>2. /\ heap' = heap \ StreamRoles
      /\ pc' = IF "bufferData" \in heap THEN "deliver" ELSE "finish"
      /\ UNCHANGED <<call, isFileStream, sound, err, result>>
  BY DEF DestroyStream, Ends, Goto, NothingRecorded, stream
<1>3. Kept' = Rest /\ SoundMemory' = SoundMemory
  BY <1>2 DEF Kept, Rest, SoundMemory
<1>4. "bufferData" \in heap <=> "bufferData" \in Rest
  BY DEF Rest, Kept, Generated, StreamRoles
<1>5. CASE Rest = {SoundMemory, "bufferData"} /\ err = NoError
  BY <1>1, <1>2, <1>3, <1>4, <1>5 DEF HeapInv, Early, Reading, source
<1>6. CASE Forgotten(Rest)
  <2>1. "bufferData" \notin Rest
    BY <1>6 DEF Forgotten
  <2>2. QED
    BY <1>1, <1>2, <1>3, <1>4, <1>6, <2>1
    DEF HeapInv, Early, Reading, Forgotten, Accounted, source
<1>7. QED
  BY <1>1, <1>5, <1>6

\* The BufferData goes, with the sound or without.
LEMMA HeapDeliver ==
  ASSUME TypeOK, HeapInv, PassBufferData \/ LoadMemory
  PROVE  HeapInv'
<1>1. /\ pc = "deliver" /\ Kept = {SoundMemory, "bufferData"} /\ err = NoError
      /\ result = "pending"
  BY DEF PassBufferData, LoadMemory, HeapInv, Early
<1>2. SoundMemory \in {"data", "decoded"}
  BY DEF SoundMemory
<1>3. /\ pc' = "finish" /\ UNCHANGED <<call, isFileStream>>
      /\ result' # "pending"
  BY DEF PassBufferData, LoadMemory, Ends, Goto, stream
<1>4. ASSUME NEW e \in ErrorCodes, Record(e), heap' = heap \ BufferDataRoles,
             result' = "fail"
      PROVE  Accounted(Kept)'
  <2>1. Kept' = {}
    BY <1>1, <1>2, <1>4 DEF Kept, BufferDataRoles
  <2>2. err' # NoError
    BY <1>1, <1>4, NoErrorIsNone DEF Record, SetError
  <2>3. QED
    BY <1>4, <2>1, <2>2 DEF Accounted, Forgotten
<1>5. ASSUME heap' = (heap \ BufferDataRoles) \cup {"alBuffer"}
      PROVE  Kept' = {"alBuffer"}
  BY <1>1, <1>2, <1>5 DEF Kept, BufferDataRoles, Generated
<1>6. CASE PassBufferData
  <2>1. ASSUME NEW e \in {"BUFFER_DATA", "UNSUPPORTED_FILE_SUBTYPE"}, Record(e),
               heap' = (heap \ BufferDataRoles) \cup {"alBuffer"}, result' = "fail"
        PROVE  Accounted(Kept)'
    BY <1>1, <1>3, <1>5, <1>6, <2>1
    DEF PassBufferData, Accounted, Record, SetError, sink
  <2>2. ASSUME NothingRecorded,
               heap' = (heap \ BufferDataRoles) \cup {"alBuffer"}, result' = "ok"
        PROVE  Accounted(Kept)'
    BY <1>1, <1>3, <1>5, <1>6, <2>2
    DEF PassBufferData, Accounted, NothingRecorded, sink
  <2>3. Accounted(Kept)'
    BY <1>4, <1>6, <2>1, <2>2 DEF PassBufferData, Ends, ErrorCodes
  <2>4. QED
    BY <1>1, <1>3, <2>3 DEF HeapInv, Early, Reading, source
<1>7. CASE LoadMemory
  <2>1. ASSUME Record("UNSUPPORTED_FILE_SUBTYPE"), heap' = heap \ BufferDataRoles,
               result' = "fail"
        PROVE  Accounted(Kept)'
    BY <1>4, <2>1 DEF ErrorCodes
  <2>2. ASSUME NothingRecorded, heap' = heap \ {"bufferData"}, result' = "ok"
        PROVE  Accounted(Kept)'
    <3>1. Kept' = {SoundMemory}
      BY <1>1, <1>2, <2>2 DEF Kept
    <3>2. QED
      BY <1>1, <1>2, <1>3, <1>7, <2>2, <3>1
      DEF LoadMemory, Accounted, NothingRecorded, sink
  <2>3. Accounted(Kept)'
    BY <1>7, <2>1, <2>2 DEF LoadMemory, Ends
  <2>4. QED
    BY <1>1, <1>3, <2>3 DEF HeapInv, Early, Reading, source
<1>8. QED
  BY <1>6, <1>7

\* The waveform goes, and later what alutUnloadWAV is given.
LEMMA HeapFinish ==
  ASSUME TypeOK, HeapInv, Finish \/ Unload
  PROVE  HeapInv'
<1>1. CASE Finish
  <2>1. /\ Accounted(Kept) /\ heap' = Kept /\ pc' = "done"
        /\ result' = IF result = "ok" THEN "ok" ELSE "fail"
        /\ UNCHANGED <<call, isFileStream, sound, err>>
    BY <1>1
    DEF Finish, Ends, Goto, NothingRecorded, stream, HeapInv, Kept, Generated
  <2>2. Accounted(heap)'
    BY <2>1 DEF Accounted, Forgotten, sink
  <2>3. QED
    BY <1>1, <2>1, <2>2 DEF HeapInv, Early, Reading, source
<1>2. CASE Unload
  <2>1. /\ pc = "done" /\ Accounted(heap) /\ sink = "LoadWAV" /\ pc' = "unloaded"
        /\ heap' = IF result = "ok" THEN heap \ {"data", "decoded"} ELSE heap
        /\ UNCHANGED <<call, isFileStream, sound, err, result>>
    BY <1>2 DEF Unload, Goto, NothingRecorded, stream, HeapInv
  <2>2. IF result = "ok" THEN heap' = {} ELSE Accounted(heap)'
    BY <2>1 DEF Accounted, Forgotten, sink
  <2>3. QED
    BY <2>1, <2>2 DEF HeapInv, Early, Reading, source
<1>3. QED
  BY <1>1, <1>2

\* At every place of the code a call holds what HeapInv says: the stream while it
\* is read (alutInputStream.c), then the data, then the BufferData.
THEOREM HeapInductive == Spec => []HeapInv
<1>1. Init => HeapInv
  BY DEF Init, HeapInv, Early, Reading
<1>2. TypeOK /\ HeapInv /\ [Next]_vars => HeapInv'
  <2> SUFFICES ASSUME TypeOK, HeapInv, [Next]_vars PROVE HeapInv'
    OBVIOUS
  <2>1. CASE CallStep
    BY <2>1, HeapStart, HeapConstruct, HeapParse, HeapReadData, HeapDecode,
       HeapBufferData, HeapDestroy, HeapDeliver, HeapFinish DEF CallStep
  <2>2. CASE Unload
    BY <2>2, HeapFinish
  <2>3. CASE UNCHANGED vars
    BY <2>3 DEF vars, stream, HeapInv, Early, Reading, Rest, Kept, SoundMemory,
                Forgotten, Accounted, source, sink
  <2>4. QED
    BY <2>1, <2>2, <2>3 DEF Next, Returned
<1>3. QED
  BY <1>1, <1>2, TypeCorrect, PTL DEF Spec

\* A call that succeeded leaves what it was asked for and nothing else, and one
\* that failed leaves nothing but in the four ways out named in HeapAccounts.
THEOREM HeapIsAccountedFor == Spec => []HeapAccounts
<1>1. TypeOK /\ HeapInv => HeapAccounts
  BY DEF HeapInv, HeapAccounts, Accounted, Forgotten, MaxImaChannels
<1>2. QED
  BY <1>1, TypeCorrect, HeapInductive, PTL

\* A call that fails records an error, unless it is for the third channel of an
\* IMA4 sound (alutCodec.c:201).
THEOREM FailuresAreRecorded == Spec => []SilentFailureOnlyForIMA4
<1>1. HeapInv => SilentFailureOnlyForIMA4
  BY DEF HeapInv, SilentFailureOnlyForIMA4, Accounted, Forgotten, NoError
<1>2. QED
  BY <1>1, HeapInductive, PTL

\* What the stream reads from outlives it (alutWaveform.c:179 and 216),
\* and the sound that is handed over has not been freed.
THEOREM NothingIsUsedAfterFree == Spec => []NothingUsedAfterFree
<1>1. TypeOK /\ HeapInv => NothingUsedAfterFree
  <2> SUFFICES ASSUME TypeOK, HeapInv PROVE NothingUsedAfterFree
    OBVIOUS
  <2>1. pc \in Reading => "stream" \in heap /\ (isFileStream => "FILE" \in heap)
    BY DEF HeapInv
  <2>2. "stream" \in heap /\ source = "Waveform" => Generated \subseteq heap
    <3>1. SUFFICES ASSUME "stream" \in heap
                   PROVE  pc \in {"construct", "codec", "bufferData", "destroy",
                                  "trap", "spin"} \cup Reading
      BY DEF HeapInv
    <3>2. "stream" \in Kept
      BY <3>1 DEF Kept, Generated
    <3>3. ~Accounted(Kept) /\ ~Accounted(heap)
      BY <3>1, <3>2 DEF Accounted, Forgotten
    <3>4. pc # "deliver"
      BY <3>2 DEF HeapInv, SoundMemory
    <3>5. QED
      BY <3>1, <3>3, <3>4 DEF HeapInv, TypeOK, Places, Stopped, Reading
  <2>3. pc = "codec" => heap \cap {"data", "decoded"} = {"data"}
    <3>1. SUFFICES ASSUME Rest = {"data"} PROVE heap \cap {"data", "decoded"} = {"data"}
      BY DEF HeapInv
    <3>2. QED
      BY <3>1 DEF Rest, Kept, Generated, StreamRoles
  <2>4. pc \in {"bufferData", "deliver"} => heap \cap {"data", "decoded"} = {SoundMemory}
    <3>1. SoundMemory \in {"data", "decoded"}
      BY DEF SoundMemory
    <3>2. CASE Rest = {SoundMemory}
      BY <3>1, <3>2 DEF Rest, Kept, Generated, StreamRoles
    <3>3. CASE Kept = {SoundMemory, "bufferData"}
      BY <3>1, <3>3 DEF Kept, Generated
    <3>4. QED
      BY <3>2, <3>3 DEF HeapInv
  <2>5. QED
    BY <2>1, <2>2, <2>3, <2>4
    DEF NothingUsedAfterFree, Reading, Generated, SoundMemory
<1>2. QED
  BY <1>1, TypeCorrect, HeapInductive, PTL

-----------------------------------------------------------------------------
(* The error state, the caller's variables and the call as one step *)

Over == {"done", "unloaded"}

\* What the steps before the last have in common.
Middle ==
  /\ UNCHANGED call
  /\ pc \notin {"finish"} \cup Over /\ pc' \notin Over
  /\ NothingRecorded \/ \E e \in ErrorCodes : Record(e)

\* A failure is such a step.
LEMMA FailingSteps ==
  ASSUME NEW errs \in SUBSET ErrorCodes, NEW next \in {"destroy", "finish"},
         FailsWith(errs, next), pc \notin {"finish"} \cup Over
  PROVE  Middle /\ UNCHANGED written
BY DEF FailsWith, Goto, Middle, Over

\* So is a step of a parser.
LEMMA ParsingSteps ==
  ASSUME NEW next \in Reading \cup {"generate", "construct", "bufferData"},
         Parses(next),
         pc \notin {"finish"} \cup Over
  PROVE  Middle /\ UNCHANGED written
BY DEF Parses, Goto, Middle, Over, Reading

\* And all others but the last two.
LEMMA MiddleSteps ==
  ASSUME CallStep, ~Finish, ~LoadMemory
  PROVE  Middle /\ UNCHANGED written
<1> USE DEF Over
<1>1. CASE Start
  BY <1>1, ErrorSets, FailingSteps, ParsingSteps DEF Start
<1>2. CASE GenerateFails \/ ConstructFails
  BY <1>2, FailingSteps DEF GenerateFails, ConstructFails, ErrorCodes
<1>3. CASE Generate \/ ConstructFromFile \/ ConstructFromMemory
  BY <1>3 DEF Generate, ConstructFromFile, ConstructFromMemory, Goto, Middle
<1>4. CASE ConstructNameFails
  BY <1>4 DEF ConstructNameFails, Goto, Middle, ErrorCodes
<1>5. ASSUME NEW errs \in SUBSET ErrorCodes, LoadFails(errs), pc \in Reading
      PROVE  Middle /\ UNCHANGED written
  BY <1>5, FailingSteps DEF LoadFails, Reading
<1>6. ASSUME NEW next \in Reading, Parses(next), pc \in Reading
      PROVE  Middle /\ UNCHANGED written
  BY <1>6, ParsingSteps DEF Reading
<1>7. CASE LoadRawFile
  BY <1>6, <1>7 DEF LoadRawFile, Reading
<1>8. CASE LoadFile
  BY <1>5, <1>6, <1>8, ErrorSets DEF LoadFile, Reading, ErrorCodes
<1>9. CASE ReadData
  <2>1. CASE LoadFails(NewReadErrors(length))
    BY <1>5, <1>9, <2>1, ErrorSets DEF ReadData, Reading
  <2>2. CASE Goto("codec") /\ NothingRecorded /\ UNCHANGED written
    BY <1>9, <2>2 DEF ReadData, Goto, Middle
  <2>3. QED
    BY <1>9, <2>1, <2>2 DEF ReadData
<1>10. CASE WavHeader
  BY <1>5, <1>6, <1>10, ErrorSets DEF WavHeader, Reading, ErrorCodes
<1>11. CASE NextChunk
  BY <1>5, <1>6, <1>11, ErrorSets DEF NextChunk, Reading, ErrorCodes
<1>12. CASE FmtChunk
  <2>1. CASE LoadFails({"CORRUPT_OR_TRUNCATED_DATA"}) \/ LoadFails(ReadErrors(16))
    BY <1>5, <1>12, <2>1, ErrorSets DEF FmtChunk, Reading, ErrorCodes
  <2>2. CASE Parses("skip")
    BY <1>6, <1>12, <2>2 DEF FmtChunk, Reading
  <2>3. QED
    BY <1>12, <2>1, <2>2 DEF FmtChunk
<1>13. CASE Skip
  BY <1>5, <1>6, <1>13, ErrorSets DEF Skip, Reading, ErrorCodes
<1>14. CASE SkipPad
  BY <1>5, <1>6, <1>14, ErrorSets DEF SkipPad, Reading
<1>15. CASE AuHeader
  BY <1>5, <1>6, <1>15, ErrorSets DEF AuHeader, Reading, ErrorCodes
<1>16. CASE DecodeInPlace
  BY <1>16, ParsingSteps DEF DecodeInPlace
<1>17. ASSUME NEW size, DecodeFails(size), pc = "codec"
       PROVE  Middle /\ UNCHANGED written
  BY <1>17, ErrorSets, FailingSteps DEF DecodeFails
<1>18. CASE DecodeLaw
  BY <1>17, <1>18 DEF DecodeLaw, Decoded, Goto, Middle
<1>19. CASE DecodeIMA4
  <2>1. ASSUME NEW where \in {"trap", "spin"}, ImaStuck(where), pc = "codec"
        PROVE  Middle /\ UNCHANGED written
    BY <2>1 DEF ImaStuck, Goto, Middle, NothingRecorded
  <2>2. QED
    BY <1>17, <1>19, <2>1 DEF DecodeIMA4, ImaTooManyChannels, Decoded, Goto, Middle
<1>20. CASE ConstructBufferData
  <2>1. CASE FailsWith(OutOfMemory, "destroy")
    BY <1>20, <2>1, ErrorSets, FailingSteps DEF ConstructBufferData
  <2>2. CASE Goto("destroy") /\ NothingRecorded /\ UNCHANGED written
    BY <1>20, <2>2 DEF ConstructBufferData, Goto, Middle
  <2>3. QED
    BY <1>20, <2>1, <2>2 DEF ConstructBufferData
<1>21. CASE DestroyStream
  BY <1>21 DEF DestroyStream, Ends, Goto, Middle
<1>22. CASE PassBufferData
  BY <1>22 DEF PassBufferData, Ends, Goto, Middle, ErrorCodes
<1>23. QED
  BY <1>1, <1>2, <1>3, <1>4, <1>7, <1>8, <1>9, <1>10, <1>11, <1>12, <1>13, <1>14,
     <1>15,
     <1>16, <1>18, <1>19, <1>20, <1>21, <1>22 DEF CallStep

\* Handing the sound over writes the caller's variables and is otherwise the same.
LEMMA DeliveryIsMiddle ==
  ASSUME LoadMemory
  PROVE  Middle
BY DEF LoadMemory, Ends, Goto, Middle, Over, ErrorCodes

ErrorInv == lastError = IF call.entryError = NoError THEN err ELSE call.entryError

\* alutLoadWAV... writes the frequency itself, and what it takes for the loop.
Handed == Outputs \ (IF sink = "LoadWAV" THEN {"frequency", "loop"} ELSE {})

OutputsInv ==
  /\ pc \notin {"finish"} \cup Over => written = {}
  /\ pc = "finish" => written = IF result = "ok" THEN Handed ELSE {}
  /\ pc = "done" => OutputsOnlyOnSuccess

\* The error state is what it was before the call, or what this call recorded
\* first (alutError.c:14).
THEOREM ErrorInvInductive == Spec => []ErrorInv
<1>1. Init => ErrorInv
  BY DEF Init, ErrorInv
<1>2. ErrorInv /\ [Next]_vars => ErrorInv'
  <2> SUFFICES ASSUME ErrorInv, [Next]_vars PROVE ErrorInv'
    OBVIOUS
  <2>1. UNCHANGED call /\ (NothingRecorded \/ \E e \in ErrorCodes : Record(e))
    <3>1. CASE CallStep /\ ~Finish
      BY <3>1, MiddleSteps, DeliveryIsMiddle DEF Middle
    <3>2. CASE Finish
      BY <3>2 DEF Finish, Ends, Goto
    <3>3. CASE Unload
      BY <3>3 DEF Unload, Goto
    <3>4. CASE UNCHANGED vars
      BY <3>4 DEF vars, NothingRecorded
    <3>5. QED
      BY <3>1, <3>2, <3>3, <3>4 DEF Next, Returned
  <2>2. CASE NothingRecorded
    BY <2>1, <2>2 DEF NothingRecorded, ErrorInv
  <2>3. CASE \E e \in ErrorCodes : Record(e)
    BY <2>1, <2>3 DEF Record, SetError, ErrorInv
  <2>4. QED
    BY <2>1, <2>2, <2>3
<1>3. QED
  BY <1>1, <1>2, PTL DEF Spec

\* A call that succeeds records nothing, and the error of an earlier call is
\* kept.
THEOREM ErrorStateIsKept == Spec => []ErrorStateKept
<1>1. HeapInv /\ ErrorInv => ErrorStateKept
  BY DEF HeapInv, Accounted, ErrorInv, ErrorStateKept
<1>2. QED
  BY <1>1, HeapInductive, ErrorInvInductive, PTL

\* The caller's variables are written in two places.
LEMMA OutputsStep ==
  ASSUME TypeOK, HeapInv, HeapInv', OutputsInv, [Next]_vars
  PROVE  OutputsInv'
<1>1. CASE CallStep /\ ~Finish /\ ~LoadMemory
  <2>1. Middle /\ written' = written /\ written = {}
    BY <1>1, MiddleSteps DEF Middle, OutputsInv
  <2>2. ASSUME pc' = "finish", result' = "ok" PROVE Handed' = {}
    <3>1. CASE PassBufferData
      BY <3>1 DEF PassBufferData, Ends, Goto, Handed, Outputs, sink
    <3>2. CASE ~PassBufferData
      <4>1. result = "pending"
        BY <2>1 DEF Middle, Over, HeapInv, Early
      <4>2. result' = result
        BY <1>1, <3>2 DEF CallStep, Start, GenerateFails, Generate, ConstructFails,
           ConstructNameFails, ConstructFromFile, ConstructFromMemory, LoadRawFile,
           LoadFile,
           ReadData, WavHeader, NextChunk, FmtChunk, Skip, SkipPad, AuHeader,
           DecodeInPlace,
           DecodeLaw, DecodeIMA4, ConstructBufferData, DestroyStream, Parses,
           FailsWith,
           LoadFails, DecodeFails, Decoded, ImaTooManyChannels, ImaStuck, Ends
      <4>3. QED
        BY <2>2, <4>1, <4>2
    <3>3. QED
      BY <3>1, <3>2
  <2>3. QED
    BY <2>1, <2>2 DEF Middle, Over, OutputsInv
<1>2. CASE LoadMemory
  <2>1. sink \in {"LoadMemory", "LoadWAV"} /\ sink' = sink
    BY <1>2 DEF LoadMemory, Ends, Goto, TypeOK, Calls, sink
  <2>2. CASE result' = "ok"
    <3>1. /\ pc' = "finish"
          /\ written' = {"size", "format"}
               \cup (IF sink = "LoadMemory" THEN {"frequency"} ELSE {})
      BY <1>2, <2>2 DEF LoadMemory, Ends, Goto
    <3>2. Handed' = IF sink = "LoadMemory" THEN {"format", "size", "frequency"}
                    ELSE {"format", "size", "frequency", "loop"} \ {"frequency",
                    "loop"}
      BY <2>1 DEF Handed, Outputs
    <3>3. CASE sink = "LoadMemory"
      <4>1. written' = Handed'
        BY <3>1, <3>2, <3>3
      <4>2. QED
        BY <2>2, <3>1, <4>1 DEF OutputsInv, Over
    <3>4. CASE sink = "LoadWAV"
      <4>1. written' = Handed'
        BY <3>1, <3>2, <3>4
      <4>2. QED
        BY <2>2, <3>1, <4>1 DEF OutputsInv, Over
    <3>5. QED
      BY <2>1, <3>3, <3>4
  <2>3. CASE result' = "fail" /\ written' = {}
    BY <1>2, <2>3 DEF LoadMemory, Ends, Goto, OutputsInv, Over
  <2>4. QED
    BY <1>2, <2>2, <2>3 DEF LoadMemory, Ends, OutputsInv, Over
<1>3. CASE Finish
  <2>1. /\ pc' = "done" /\ UNCHANGED call
        /\ result' = IF result = "ok" THEN "ok" ELSE "fail"
        /\ written = IF result = "ok" THEN Handed ELSE {}
        /\ written' = written
             \cup (IF sink = "LoadWAV" THEN {"data"} ELSE {})
             \cup (IF sink = "LoadWAV" /\ result = "ok" THEN {"frequency",
             "loop"} ELSE {})
    BY <1>3 DEF Finish, Ends, Goto, OutputsInv
  <2>2. QED
    BY <2>1 DEF OutputsInv, OutputsOnlyOnSuccess, Handed, Outputs, Over, sink
<1>4. CASE Unload
  BY <1>4 DEF Unload, Goto, OutputsInv, Over
<1>5. CASE UNCHANGED vars
  BY <1>5 DEF vars, OutputsInv, OutputsOnlyOnSuccess, Handed, Outputs, Over, sink
<1>6. QED
  BY <1>1, <1>2, <1>3, <1>4, <1>5 DEF Next, Returned

\* The caller's variables are written when the call succeeds, all of them, and
\* otherwise none but the *data of alutLoadWAV... (alutLoader.c:380-500).
THEOREM OutputsAreWrittenOnSuccess == Spec => []OutputsOnlyOnSuccess
<1>1. Init => OutputsInv
  BY DEF Init, OutputsInv, Over
<1>2. TypeOK /\ HeapInv /\ HeapInv' /\ OutputsInv /\ [Next]_vars => OutputsInv'
  BY OutputsStep
<1>3. OutputsInv => OutputsOnlyOnSuccess
  BY DEF OutputsInv, OutputsOnlyOnSuccess
<1>4. QED
  BY <1>1, <1>2, <1>3, TypeCorrect, HeapInductive, PTL DEF Spec

\* Seen from outside, the many steps of a call are one step at its return: the
\* loaders keep what AlutLifecycle takes them for.
THEOREM CallIsOneStep == Spec => ImplementsLoadCall
<1>1. Init => LoadCall!Init
  BY DEF Init, LoadCall!Init, LoadCall!NoError, LoadCall!ErrorCodes, NoError
<1>2. TypeOK' /\ HeapInv /\ HeapInv' /\ ErrorInv /\ ErrorInv' /\ [Next]_vars
        => [LoadCall!Succeed \/ LoadCall!Fail]_LoadCall!vars
  <2> SUFFICES ASSUME TypeOK', HeapInv, HeapInv', ErrorInv, ErrorInv', [Next]_vars
               PROVE  [LoadCall!Succeed \/ LoadCall!Fail]_LoadCall!vars
    OBVIOUS
  <2>1. CASE CallStep /\ ~Finish
    <3>1. Middle
      BY <2>1, MiddleSteps, DeliveryIsMiddle
    <3>2. QED
      BY <3>1 DEF Middle, Over, LoadCall!vars
  <2>2. CASE Finish
    <3>1. /\ pc = "finish" /\ pc' = "done" /\ UNCHANGED <<call, err, lastError>>
          /\ result' = IF result = "ok" THEN "ok" ELSE "fail"
      BY <2>2 DEF Finish, Ends, Goto, NothingRecorded
    <3>2. Accounted(heap)'
      BY <3>1 DEF HeapInv
    <3>3. CASE result' = "ok"
      <4>1. lastError' = call.entryError
        BY <3>1, <3>2, <3>3 DEF Accounted, ErrorInv
      <4>2. QED
        BY <3>1, <3>3, <4>1 DEF LoadCall!Succeed
    <3>4. CASE result' = "fail"
      <4>1. lastError' = SetError(call.entryError, err')
        BY <3>1 DEF ErrorInv, SetError, NoError
      <4>2. err' \in ErrorCodes \cup {NoError}
        BY DEF TypeOK
      <4>3. "alBuffer" \in heap' => err' \in {"UNSUPPORTED_FILE_SUBTYPE", "BUFFER_DATA"}
        BY <3>2, <3>4 DEF Accounted, Forgotten
      <4>4. LoadCall!SetError(call.entryError, err') = SetError(call.entryError, err')
        BY DEF LoadCall!SetError, SetError, LoadCall!NoError, NoError
      <4>5. QED
        BY <3>1, <3>4, <4>1, <4>2, <4>3, <4>4
        DEF LoadCall!Fail, LoadCall!ErrorCodes, ErrorCodes, LoadCall!NoError,
            NoError
    <3>5. QED
      BY <3>1, <3>3, <3>4
  <2>3. CASE Unload
    <3>1. pc = "done" /\ Accounted(heap) /\ sink = "LoadWAV"
      BY <2>3 DEF Unload, HeapInv
    <3>2. ~(result = "fail" /\ "alBuffer" \in heap)
      BY <3>1 DEF Accounted, Forgotten
    <3>3. QED
      BY <2>3, <3>1, <3>2 DEF Unload, Goto, NothingRecorded, LoadCall!vars
  <2>4. CASE UNCHANGED vars
    BY <2>4 DEF vars, LoadCall!vars
  <2>5. QED
    BY <2>1, <2>2, <2>3, <2>4 DEF Next, Returned
<1>3. QED
  BY <1>1, <1>2, TypeCorrect, HeapInductive, ErrorInvInductive, PTL
  DEF Spec, ImplementsLoadCall, LoadCall!Spec

-----------------------------------------------------------------------------
(* The sound *)

\* The codec that was chosen will leave samples of 16 bits in the byte order of
\* the host, and has.
WillBeHostOrder ==
  sound.bits = 16 =>
    \/ sound.codec = "Linear" /\ sound.order = call.host
    \/ sound.codec = "PCM16" /\ Swapped(sound.order) = call.host
    \/ sound.codec \in {"ULaw", "ALaw", "IMA4", "none"}

IsHostOrder == sound.bits = 16 => sound.order = call.host

Described == sound.container = "wav" => sound.found

SoundInv ==
  /\ pc \in {"start", "generate", "construct", "loadFile", "wav", "au"} => sound = NoSound
  /\ pc \in Reading \cup {"codec"} => WillBeHostOrder
  /\ pc \in {"data", "codec", "bufferData", "deliver"} => Described
  /\ pc \in {"bufferData", "deliver"} => IsHostOrder
  /\ pc = "destroy" /\ "bufferData" \in heap => Described /\ IsHostOrder
  /\ result = "ok" => StandardFormat /\ Described /\ IsHostOrder

Unbuffered == {"start", "generate", "construct", "codec", "bufferData"} \cup Reading

\* Before the last call of a codec there is no BufferData.
LEMMA NoBufferDataYet ==
  ASSUME HeapInv, pc \in Unbuffered
  PROVE  "bufferData" \notin heap
<1>1. SoundMemory # "bufferData"
  BY DEF SoundMemory
<1>2. "bufferData" \notin Rest \/ heap = {} \/ Kept = {}
  BY <1>1 DEF HeapInv, Unbuffered
<1>3. QED
  BY <1>2 DEF Rest, Kept, Generated, StreamRoles

\* A call that fails before that, or stops.
LEMMA SoundFails ==
  ASSUME HeapInv, pc \in Unbuffered, heap' \subseteq heap \cup {"FILE", "decoded"},
         result' = result, pc' \in {"destroy", "finish", "trap", "spin"}
  PROVE  SoundInv'
<1>1. "bufferData" \notin heap'
  BY NoBufferDataYet
<1>2. result' = "pending"
  BY DEF HeapInv, Early, Unbuffered, Reading
<1>3. QED
  BY <1>1, <1>2 DEF SoundInv, Reading

\* The same for a failure with an error.
LEMMA SoundFailsWith ==
  ASSUME HeapInv, pc \in Unbuffered, NEW errs, NEW next \in {"destroy", "finish"},
         FailsWith(errs, next)
  PROVE  SoundInv'
BY SoundFails DEF FailsWith, Goto

\* Nothing is known of the sound before its header.
LEMMA SoundStart ==
  ASSUME HeapInv, SoundInv,
         \/ Start \/ GenerateFails \/ Generate \/ ConstructFails \/ ConstructNameFails
         \/ ConstructFromFile \/ ConstructFromMemory
  PROVE  SoundInv'
<1>1. pc \in {"start", "generate", "construct"} /\ sound = NoSound /\ result = "pending"
  BY DEF Start, GenerateFails, Generate, ConstructFails, ConstructNameFails,
         ConstructFromFile, ConstructFromMemory, SoundInv, HeapInv, Early
<1>2. ASSUME pc' \in {"generate", "construct", "loadFile"}, UNCHANGED <<sound,
             result>>
      PROVE  SoundInv'
  BY <1>1, <1>2 DEF SoundInv, WillBeHostOrder, NoSound
<1>3. CASE Start
  BY <1>1, <1>2, <1>3, SoundFailsWith DEF Start, Parses, Goto, Unbuffered
<1>4. CASE GenerateFails
  BY <1>4, SoundFailsWith DEF GenerateFails, Unbuffered
<1>5. CASE ConstructFails
  BY <1>5, SoundFailsWith DEF ConstructFails, Unbuffered
<1>6. CASE ConstructNameFails
  BY <1>6, SoundFails DEF ConstructNameFails, Goto, Unbuffered
<1>7. CASE Generate \/ ConstructFromFile \/ ConstructFromMemory
  BY <1>2, <1>7 DEF Generate, ConstructFromFile, ConstructFromMemory, Goto
<1>8. QED
  BY <1>3, <1>4, <1>5, <1>6, <1>7

\* The codec is chosen.
LEMMA SoundParse ==
  ASSUME TypeOK, HeapInv, SoundInv,
         \/ LoadRawFile \/ LoadFile \/ ReadData \/ WavHeader \/ NextChunk \/ FmtChunk
         \/ Skip \/ SkipPad \/ AuHeader
  PROVE  SoundInv'
<1>1. pc \in Reading /\ pc \in Unbuffered /\ result = "pending"
  BY DEF LoadRawFile, LoadFile, ReadData, WavHeader, NextChunk, FmtChunk, Skip,
     SkipPad,
         AuHeader, HeapInv, Early, Reading, Unbuffered
<1>2. ASSUME NEW errs, LoadFails(errs) PROVE SoundInv'
  BY <1>1, <1>2, SoundFailsWith DEF LoadFails
\* The sound is as it was, or new.
<1>3. ASSUME pc' \in {"chunk", "fmt", "skip", "pad", "data", "codec"},
             WillBeHostOrder', result' = result, pc' \in {"data",
             "codec"} => Described'
      PROVE  SoundInv'
  BY <1>1, <1>3 DEF SoundInv, Reading
<1>4. WillBeHostOrder /\ (UNCHANGED <<sound, call>> => WillBeHostOrder')
  BY <1>1 DEF SoundInv, WillBeHostOrder
<1>5. CASE LoadRawFile
  BY <1>3, <1>5
  DEF LoadRawFile, Parses, Goto, Raw, NoSound, WillBeHostOrder, Described
<1>6. CASE LoadFile
  <2>1. CASE (Parses("au") \/ Parses("wav")) /\ UNCHANGED sound
    BY <1>1, <1>6, <2>1
    DEF LoadFile, Parses, Goto, SoundInv, WillBeHostOrder, NoSound
  <2>2. QED
    BY <1>2, <1>6, <2>1 DEF LoadFile
<1>7. CASE ReadData
  <2>1. CASE Goto("codec") /\ UNCHANGED <<sound, result>>
    BY <1>3, <1>4, <1>7, <2>1 DEF ReadData, Goto, SoundInv, Described
  <2>2. QED
    BY <1>2, <1>7, <2>1 DEF ReadData
<1>8. CASE WavHeader
  <2>1. CASE sound' = [sound EXCEPT !.container = "wav", !.codec = "Linear"] /\ Parses("chunk")
    <3>1. sound'.bits = 0
      BY <1>8, <2>1 DEF WavHeader, SoundInv, NoSound
    <3>2. QED
      BY <1>3, <2>1, <3>1 DEF Parses, Goto, WillBeHostOrder
  <2>2. QED
    BY <1>2, <1>8, <2>1 DEF WavHeader
<1>9. CASE NextChunk
  <2>1. CASE UNCHANGED sound /\ (Parses("fmt") \/ Parses("skip") \/ (sound.found /\ Parses("data")))
    BY <1>3, <1>4, <2>1 DEF Parses, Goto, Described
  <2>2. QED
    BY <1>2, <1>9, <2>1 DEF NextChunk
<1>10. CASE FmtChunk
  <2>1. ASSUME NEW format \in {0, 1, 6, 7, 17}, NEW bits \in {4, 8, 16},
               NEW channels \in ChannelCounts, NEW align \in BlockAligns,
               sound' = [container |-> "wav",
                         codec |-> WavCodec(format, bits).codec,
                         channels |-> channels,
                         bits |-> WavCodec(format, bits).bits,
                         align |-> align,
                         order |-> IF format = 1 THEN "little" ELSE "none",
                         found |-> TRUE],
               Parses("skip")
        PROVE  SoundInv'
    <3>1. call.host \in {"little", "big"} /\ call' = call
      BY <2>1 DEF TypeOK, Parses, Goto
    <3>2. CASE format = 1
      <4>1. /\ sound'.codec = IF bits = 8 \/ call.host = "little" THEN "Linear" ELSE "PCM16"
            /\ sound'.bits = bits /\ sound'.order = "little"
        BY <2>1, <3>2 DEF WavCodec
      <4>2. WillBeHostOrder'
        BY <3>1, <4>1 DEF WillBeHostOrder, Swapped
      <4>3. QED
        BY <1>3, <2>1, <4>2 DEF Parses, Goto
    <3>3. CASE format # 1
      <4>1. sound'.codec \in {"ULaw", "ALaw", "IMA4", "none"}
        BY <2>1, <3>3 DEF WavCodec
      <4>2. QED
        BY <1>3, <2>1, <4>1 DEF WillBeHostOrder, Parses, Goto
    <3>4. QED
      BY <3>2, <3>3
  <2>2. QED
    BY <1>2, <1>10, <2>1 DEF FmtChunk
<1>11. CASE Skip
  <2>1. CASE UNCHANGED sound /\ Parses(IF sound.container = "wav" THEN "pad" ELSE "data")
    BY <1>3, <1>4, <2>1 DEF Parses, Goto, Described
  <2>2. QED
    BY <1>2, <1>11, <2>1 DEF Skip
<1>12. CASE SkipPad
  BY <1>2, <1>3, <1>4, <1>12 DEF SkipPad, Parses, Goto
<1>13. CASE AuHeader
  <2>1. ASSUME NEW h \in AuHeaders,
               sound' = [container |-> "au",
                         codec |-> AuCodec(h.encoding).codec,
                         channels |-> h.channels,
                         bits |-> AuCodec(h.encoding).bits,
                         align |-> 1,
                         order |-> AuCodec(h.encoding).order,
                         found |-> FALSE],
               Parses("skip")
        PROVE  SoundInv'
    <3>1. call.host \in {"little", "big"} /\ call' = call
      BY <2>1 DEF TypeOK, Parses, Goto
    <3>2. WillBeHostOrder'
      BY <2>1, <3>1 DEF WillBeHostOrder, Swapped, AuCodec
    <3>3. QED
      BY <1>3, <2>1, <3>2 DEF Parses, Goto
  <2>2. QED
    BY <1>2, <1>13, <2>1 DEF AuHeader
<1>14. QED
  BY <1>5, <1>6, <1>7, <1>8, <1>9, <1>10, <1>11, <1>12, <1>13

\* The codec does what was expected of it.
LEMMA SoundDecode ==
  ASSUME TypeOK, HeapInv, SoundInv,
         DecodeInPlace \/ DecodeLaw \/ DecodeIMA4 \/ ConstructBufferData
  PROVE  SoundInv'
<1>1. /\ pc \in {"codec", "bufferData"} /\ pc \in Unbuffered /\ result = "pending"
      /\ Described /\ (pc = "codec" => WillBeHostOrder)
  BY DEF DecodeInPlace, DecodeLaw, DecodeIMA4, ConstructBufferData, SoundInv,
     HeapInv, Early,
         Unbuffered
<1>2. ASSUME NEW size, DecodeFails(size) PROVE SoundInv'
  BY <1>1, <1>2, SoundFailsWith DEF DecodeFails
<1>3. ASSUME NEW size, Decoded(size) PROVE SoundInv'
  <2>1. /\ sound'.container = sound.container /\ sound'.found = sound.found
        /\ sound'.order = call'.host
    BY <1>3 DEF Decoded, TypeOK, Goto
  <2>2. QED
    BY <1>1, <1>3, <2>1 DEF Decoded, Goto, SoundInv, Reading, Described, IsHostOrder
<1>4. CASE DecodeInPlace
  <2>1. /\ sound'.container = sound.container /\ sound'.found = sound.found
        /\ sound'.bits = sound.bits
        /\ sound'.order = IF sound.codec = "PCM16" THEN Swapped(sound.order) ELSE sound.order
    BY <1>4 DEF DecodeInPlace, TypeOK
  <2>2. IsHostOrder' /\ Described'
    BY <1>1, <1>4, <2>1
    DEF DecodeInPlace, Parses, Goto, WillBeHostOrder, IsHostOrder, Described
  <2>3. QED
    BY <1>1, <1>4, <2>2 DEF DecodeInPlace, Parses, Goto, SoundInv, Reading
<1>5. CASE DecodeLaw
  BY <1>2, <1>3, <1>5 DEF DecodeLaw
<1>6. CASE DecodeIMA4
  <2>1. ASSUME NEW where \in {"trap", "spin"}, ImaStuck(where) PROVE SoundInv'
    BY <1>1, <2>1, SoundFails DEF ImaStuck, Goto
  <2>2. CASE ImaTooManyChannels
    BY <1>1, <2>2, SoundFails DEF ImaTooManyChannels, Goto
  <2>3. QED
    BY <1>2, <1>3, <1>6, <2>1, <2>2 DEF DecodeIMA4
<1>7. CASE ConstructBufferData
  <2>1. CASE Goto("destroy") /\ UNCHANGED <<sound, result>>
    BY <1>1, <1>7, <2>1
    DEF ConstructBufferData, Goto, SoundInv, Reading, Described, IsHostOrder
  <2>2. QED
    BY <1>1, <1>7, <2>1, SoundFailsWith DEF ConstructBufferData
<1>8. QED
  BY <1>4, <1>5, <1>6, <1>7

\* The sound stays as it is.
LEMMA SoundEnd ==
  ASSUME TypeOK, HeapInv, SoundInv,
         DestroyStream \/ PassBufferData \/ LoadMemory \/ Finish \/ Unload
  PROVE  SoundInv'
<1>1. UNCHANGED <<call, sound>>
  BY DEF DestroyStream, PassBufferData, LoadMemory, Finish, Unload, Ends, Goto
<1>2. UNCHANGED <<Described, IsHostOrder, StandardFormat>>
  BY <1>1 DEF Described, IsHostOrder, StandardFormat
<1>3. CASE DestroyStream
  <2>1. result' = "pending"
    BY <1>3 DEF DestroyStream, Ends, HeapInv, Early
  <2>2. pc' = IF "bufferData" \in heap THEN "deliver" ELSE "finish"
    BY <1>3 DEF DestroyStream, Ends, Goto
  <2>3. QED
    BY <1>2, <1>3, <2>1, <2>2 DEF DestroyStream, SoundInv, Reading
<1>4. CASE PassBufferData
  BY <1>2, <1>4 DEF PassBufferData, Ends, Goto, SoundInv, Reading
<1>5. CASE LoadMemory
  BY <1>2, <1>5 DEF LoadMemory, Ends, Goto, SoundInv, Reading
<1>6. CASE Finish
  BY <1>2, <1>6 DEF Finish, Ends, Goto, SoundInv, Reading
<1>7. CASE Unload
  BY <1>2, <1>7 DEF Unload, Goto, SoundInv, Reading
<1>8. QED
  BY <1>3, <1>4, <1>5, <1>6, <1>7

\* What a caller gets is in one of the four formats of OpenAL and in the byte
\* order of the host, whatever the order and number of the chunks and for either
\* container (alutLoader.c:132-154 and 228-250).
THEOREM SoundIsAlwaysStandard == Spec => []SoundIsStandard
<1>1. Init => SoundInv
  BY DEF Init, SoundInv, Reading
<1>2. TypeOK /\ HeapInv /\ SoundInv /\ [Next]_vars => SoundInv'
  <2> SUFFICES ASSUME TypeOK, HeapInv, SoundInv, [Next]_vars PROVE SoundInv'
    OBVIOUS
  <2>1. CASE CallStep
    BY <2>1, SoundStart, SoundParse, SoundDecode, SoundEnd DEF CallStep
  <2>2. CASE Unload
    BY <2>2, SoundEnd
  <2>3. CASE UNCHANGED vars
    BY <2>3
    DEF vars, SoundInv, WillBeHostOrder, IsHostOrder, Described, StandardFormat
  <2>4. QED
    BY <2>1, <2>2, <2>3 DEF Next, Returned
<1>3. SoundInv => SoundIsStandard
  BY DEF SoundInv, SoundIsStandard, Described, IsHostOrder
<1>4. QED
  BY <1>1, <1>2, <1>3, TypeCorrect, HeapInductive, PTL DEF Spec

-----------------------------------------------------------------------------
(* The position in the stream *)

AlignInv ==
  /\ ~isFileStream => remaining = left
  /\ pc = "loadFile" => left = total
  /\ pc \in {"wav", "au"} => total - left = 4
  /\ pc = "chunk" => (total - left) % 2 = 0 \/ left = 0
  /\ pc = "fmt" => (total - left) % 2 = 0
  /\ pc = "skip" /\ sound.container = "wav" => (total - left + toSkip + length) % 2 = 0
  /\ pc = "pad" => (total - left + length) % 2 = 0

\* A chunk that is skipped with its byte of padding keeps the parity.
LEMMA EvenPlusTwice ==
  ASSUME NEW x \in Int, NEW y \in Int, x % 2 = 0
  PROVE  (x + y + y) % 2 = 0
OBVIOUS

\* A length that fits is not changed by the arithmetic of size_t, so a stream in
\* memory knows what it has left.
LEMMA SizeTIsIdentity ==
  ASSUME NEW n \in 0 .. SizeMod - 1
  PROVE  SizeT(n) = n
BY SizeAssumption DEF SizeT

\* Reading keeps what a stream in memory believes and what it has in step.
LEMMA ConsumeInStep ==
  ASSUME TypeOK, ~isFileStream => remaining = left, NEW n \in Nat, n <= left,
         Consume(n)
  PROVE  /\ left' = left - n /\ total' = total /\ isFileStream' = isFileStream
         /\ ~isFileStream' => remaining' = left'
<1>1. left - n \in 0 .. SizeMod - 1
  BY SizeAssumption DEF TypeOK
<1>2. SizeT(left - n) = left - n
  BY <1>1, SizeTIsIdentity
<1>3. QED
  BY <1>2 DEF Consume

\* Elsewhere the position does not matter.
LEMMA AlignElsewhere ==
  ASSUME AlignInv, UNCHANGED stream,
         pc' \notin {"loadFile", "wav", "au", "chunk", "fmt", "skip", "pad"}
  PROVE  AlignInv'
BY DEF AlignInv, stream

\* A failure ends the reading.
LEMMA AlignFails ==
  ASSUME AlignInv, NEW errs, NEW next \in {"destroy", "finish"}, FailsWith(errs,
         next)
  PROVE  AlignInv'
BY AlignElsewhere DEF FailsWith, Goto

\* The steps before the parsers.
LEMMA AlignStart ==
  ASSUME TypeOK, HeapInv, AlignInv,
         \/ Start \/ GenerateFails \/ Generate \/ ConstructFails \/ ConstructNameFails
         \/ ConstructFromFile \/ ConstructFromMemory
  PROVE  AlignInv'
<1>1. CASE Start
  BY <1>1, AlignElsewhere, AlignFails DEF Start, Parses, Goto
<1>2. CASE GenerateFails \/ ConstructFails
  BY <1>2, AlignFails DEF GenerateFails, ConstructFails
<1>3. CASE Generate
  BY <1>3 DEF Generate, Goto, AlignInv
<1>4. CASE ConstructNameFails
  BY <1>4, AlignElsewhere DEF ConstructNameFails, Goto
<1>5. CASE ConstructFromFile
  BY <1>5 DEF ConstructFromFile, Goto, AlignInv
<1>6. CASE ConstructFromMemory
  BY <1>6 DEF ConstructFromMemory, Goto, AlignInv
<1>7. QED
  BY <1>1, <1>2, <1>3, <1>4, <1>5, <1>6

\* The parsers.
LEMMA AlignParse ==
  ASSUME TypeOK, AlignInv,
         \/ LoadRawFile \/ LoadFile \/ ReadData \/ WavHeader \/ NextChunk \/ FmtChunk
         \/ Skip \/ SkipPad \/ AuHeader
  PROVE  AlignInv'
<1>1. ASSUME NEW errs, LoadFails(errs) PROVE AlignInv'
  BY <1>1, AlignFails DEF LoadFails
<1>2. ASSUME NEW n \in Nat, n <= left, Consume(n)
      PROVE  /\ left' = left - n /\ total' = total
             /\ ~isFileStream' => remaining' = left'
  BY <1>2, ConsumeInStep DEF AlignInv
<1>3. /\ total \in Nat /\ left \in 0 .. total /\ toSkip \in Nat /\ length \in Nat
      /\ total - left \in Nat
  BY DEF TypeOK
<1>4. CASE LoadRawFile
  BY <1>4, AlignElsewhere DEF LoadRawFile, Parses, Goto
<1>5. CASE LoadFile
  <2>1. CASE CanRead(4) /\ Consume(4) /\ (Parses("au") \/ Parses("wav"))
    BY <1>2, <1>3, <1>5, <2>1 DEF LoadFile, CanRead, Parses, Goto, AlignInv
  <2>2. QED
    BY <1>1, <1>5, <2>1 DEF LoadFile
<1>6. CASE ReadData
  <2>1. CASE CanRead(length) /\ Consume(length) /\ Goto("codec")
    BY <1>2, <1>3, <2>1 DEF CanRead, Goto, AlignInv
  <2>2. QED
    BY <1>1, <1>6, <2>1 DEF ReadData
<1>7. CASE WavHeader
  <2>1. CASE CanRead(8) /\ Consume(8) /\ Parses("chunk")
    BY <1>2, <1>3, <1>7, <2>1 DEF WavHeader, CanRead, Parses, Goto, AlignInv
  <2>2. QED
    BY <1>1, <1>7, <2>1 DEF WavHeader
<1>8. CASE NextChunk
  <2>1. CASE CanRead(8) /\ Consume(8) /\ length' \in ChunkLengths
             /\ (Parses("fmt") \/ (Parses("skip") /\ toSkip' = length') \/ Parses("data"))
    <3>1. /\ left' = left - 8 /\ total' = total /\ (total - left) % 2 = 0
          /\ ~isFileStream' => remaining' = left'
      BY <1>2, <1>3, <1>8, <2>1 DEF NextChunk, CanRead, AlignInv
    <3>2. (total' - left') % 2 = 0
      BY <1>3, <3>1
    <3>3. length' \in Nat
      BY <2>1, SizesAssumption
    <3>4. (total' - left' + length' + length') % 2 = 0
      <4>1. total' - left' \in Int
        BY <1>3, <3>1
      <4>2. QED
        BY <3>2, <3>3, <4>1, EvenPlusTwice
    <3>5. QED
      BY <2>1, <3>1, <3>2, <3>4 DEF Parses, Goto, AlignInv
  <2>2. QED
    BY <1>1, <1>8, <2>1 DEF NextChunk
<1>9. CASE FmtChunk
  <2>1. CASE /\ length >= 16 /\ CanRead(16) /\ Consume(16) /\ toSkip' = length - 16
             /\ Parses("skip") /\ UNCHANGED length
    <3>1. /\ left' = left - 16 /\ total' = total /\ (total - left) % 2 = 0
          /\ ~isFileStream' => remaining' = left'
      BY <1>2, <1>3, <1>9, <2>1 DEF FmtChunk, CanRead, AlignInv
    <3>2. (total' - left' + toSkip' + length') % 2 = 0
      BY <1>3, <2>1, <3>1
    <3>3. QED
      BY <2>1, <3>1, <3>2 DEF Parses, Goto, AlignInv
  <2>2. QED
    BY <1>1, <1>9, <2>1 DEF FmtChunk
<1>10. CASE Skip
  <2>1. CASE /\ CanSkip(toSkip) /\ Consume(toSkip)
             /\ Parses(IF sound.container = "wav" THEN "pad" ELSE "data")
             /\ UNCHANGED <<sound, length>>
    <3>1. toSkip <= left
      BY <1>3, <2>1 DEF CanSkip
    <3>2. /\ left' = left - toSkip /\ total' = total
          /\ ~isFileStream' => remaining' = left'
      BY <1>2, <1>3, <2>1, <3>1
    <3>3. CASE sound.container = "wav"
      <4>1. (total - left + toSkip + length) % 2 = 0
        BY <1>10, <3>3 DEF Skip, AlignInv
      <4>2. (total' - left' + length') % 2 = 0
        BY <1>3, <2>1, <3>2, <4>1
      <4>3. QED
        BY <2>1, <3>2, <3>3, <4>2 DEF Parses, Goto, AlignInv
    <3>4. CASE sound.container # "wav"
      BY <2>1, <3>2, <3>4 DEF Parses, Goto, AlignInv
    <3>5. QED
      BY <3>3, <3>4
  <2>2. QED
    BY <1>1, <1>10, <2>1 DEF Skip
<1>11. CASE SkipPad
  <2>1. (total - left + length) % 2 = 0
    BY <1>11 DEF SkipPad, AlignInv
  <2>2. CASE NeedsPad /\ CanSkip(1) /\ Consume(1) /\ Parses("chunk")
    <3>1. /\ left' = left - 1 /\ total' = total
          /\ ~isFileStream' => remaining' = left'
      BY <1>2, <1>3, <2>2 DEF CanSkip
    <3>2. (total' - left') % 2 = 0
      BY <1>3, <2>1, <2>2, <3>1 DEF NeedsPad
    <3>3. QED
      BY <2>2, <3>1, <3>2 DEF Parses, Goto, AlignInv
  <2>3. CASE ~NeedsPad /\ UNCHANGED stream /\ Parses("chunk")
    <3>1. (total - left) % 2 = 0 \/ left = 0
      BY <1>3, <2>1, <2>3 DEF NeedsPad, EOF, AlignInv
    <3>2. QED
      BY <2>3, <3>1 DEF stream, Parses, Goto, AlignInv
  <2>4. QED
    BY <1>1, <1>11, <2>2, <2>3 DEF SkipPad
<1>12. CASE AuHeader
  <2>1. CASE /\ CanRead(20) /\ Consume(20) /\ Parses("skip")
             /\ \E h \in AuHeaders :
                  sound' = [container |-> "au",
                            codec |-> AuCodec(h.encoding).codec,
                            channels |-> h.channels,
                            bits |-> AuCodec(h.encoding).bits,
                            align |-> 1,
                            order |-> AuCodec(h.encoding).order,
                            found |-> FALSE]
    <3>1. sound'.container = "au"
      BY <2>1
    <3>2. QED
      BY <1>2, <1>3, <2>1, <3>1 DEF CanRead, Parses, Goto, AlignInv
  <2>2. QED
    BY <1>1, <1>12, <2>1 DEF AuHeader
<1>13. QED
  BY <1>4, <1>5, <1>6, <1>7, <1>8, <1>9, <1>10, <1>11, <1>12

\* The steps after them.
LEMMA AlignEnd ==
  ASSUME AlignInv,
         \/ DecodeInPlace \/ DecodeLaw \/ DecodeIMA4 \/ ConstructBufferData
         \/ DestroyStream \/ PassBufferData \/ LoadMemory \/ Finish \/ Unload
  PROVE  AlignInv'
<1>1. CASE DecodeInPlace
  BY <1>1, AlignElsewhere DEF DecodeInPlace, Parses, Goto
<1>2. ASSUME NEW size, DecodeFails(size) \/ Decoded(size) PROVE AlignInv'
  BY <1>2, AlignElsewhere, AlignFails DEF DecodeFails, Decoded, Goto
<1>3. CASE DecodeLaw
  BY <1>2, <1>3 DEF DecodeLaw
<1>4. CASE DecodeIMA4
  <2>1. ASSUME NEW where \in {"trap", "spin"}, ImaStuck(where) PROVE AlignInv'
    BY <2>1, AlignElsewhere DEF ImaStuck, Goto
  <2>2. CASE ImaTooManyChannels
    BY <2>2, AlignElsewhere DEF ImaTooManyChannels, Goto
  <2>3. QED
    BY <1>2, <1>4, <2>1, <2>2 DEF DecodeIMA4
<1>5. CASE ConstructBufferData
  BY <1>5, AlignElsewhere, AlignFails DEF ConstructBufferData, Goto
<1>6. CASE DestroyStream
  BY <1>6, AlignElsewhere DEF DestroyStream, Ends, Goto
<1>7. CASE PassBufferData \/ LoadMemory \/ Finish
  BY <1>7, AlignElsewhere DEF PassBufferData, LoadMemory, Finish, Ends, Goto
<1>8. CASE Unload
  BY <1>8, AlignElsewhere DEF Unload, Goto
<1>9. QED
  BY <1>1, <1>3, <1>4, <1>5, <1>6, <1>7, <1>8

\* The position in the stream fits the place in the code at every step.
THEOREM AlignInductive == Spec => []AlignInv
<1>1. Init => AlignInv
  BY DEF Init, AlignInv
<1>2. TypeOK /\ HeapInv /\ AlignInv /\ [Next]_vars => AlignInv'
  <2> SUFFICES ASSUME TypeOK, HeapInv, AlignInv, [Next]_vars PROVE AlignInv'
    OBVIOUS
  <2>1. CASE CallStep
    BY <2>1, AlignStart, AlignParse, AlignEnd DEF CallStep
  <2>2. CASE Unload
    BY <2>2, AlignEnd
  <2>3. CASE UNCHANGED vars
    BY <2>3 DEF vars, stream, AlignInv
  <2>4. QED
    BY <2>1, <2>2, <2>3 DEF Next, Returned
<1>3. QED
  BY <1>1, <1>2, TypeCorrect, HeapInductive, PTL DEF Spec

\* loadWavFile never loses the alignment of the chunks, whatever their lengths
\* (alutLoader.c:127 and 181).
THEOREM ChunksAreAligned == Spec => []ChunksAligned
<1>1. AlignInv => ChunksAligned
  BY DEF AlignInv, ChunksAligned
<1>2. QED
  BY <1>1, AlignInductive, PTL

-----------------------------------------------------------------------------
(* The errors of the built-in sounds *)

BuiltIn == source \in {"HelloWorld", "Waveform"}

\* Mono, 16 bits, and known.
BuiltInSound ==
  /\ sound.channels = 1 /\ sound.bits = 16 /\ sound.codec \in {"ULaw", "Linear", "PCM16"}
  /\ sound.container = "au"

\* A built-in sound is all there, and its header says so.
BuiltInLength ==
  total - 24 \in 0 .. MaxAlloc /\ (source = "HelloWorld" => total = 24 + HelloLength)

BuiltInInv ==
  /\ call.raw => source = "File"
  /\ pc = "generate" => source = "Waveform"
  /\ pc = "construct" /\ source = "Waveform" => left - 24 \in 0 .. MaxAlloc
  /\ BuiltIn =>
       /\ pc \notin {"wav", "chunk", "fmt", "pad"}
       /\ pc \in {"loadFile", "au", "skip", "data"} => BuiltInLength
       /\ pc \in {"skip", "data"} => left = total - 24 /\ length = total - 24
       /\ pc = "skip" => toSkip = 0
       /\ pc \in {"skip", "data", "codec", "bufferData", "deliver"} => BuiltInSound
       /\ pc = "destroy" /\ "bufferData" \in heap => BuiltInSound

DocInv == BuiltInInv /\ ErrorsAreDocumented

\* What is documented for a call depends on the call alone.
LEMMA NoErrorDocumented == NoError \in DocumentedErrors
BY DEF DocumentedErrors

\* The call does not change.
LEMMA DocumentedStays ==
  ASSUME call' = call
  PROVE  DocumentedErrors' = DocumentedErrors /\ source' = source /\ BuiltIn' = BuiltIn
BY DEF DocumentedErrors, BuiltIn, source, sink

\* A call that fails for a documented reason.
LEMMA DocStops ==
  ASSUME HeapInv, DocInv, pc \in Unbuffered, call' = call,
         heap' \subseteq heap \cup {"FILE", "decoded"},
         pc' \in {"destroy", "finish", "trap", "spin"}, ErrorsAreDocumented'
  PROVE  DocInv'
<1>1. "bufferData" \notin heap'
  BY NoBufferDataYet
<1>2. QED
  BY <1>1, DocumentedStays DEF DocInv, BuiltInInv

\* The same for one error of several.
LEMMA DocFailsWith ==
  ASSUME HeapInv, DocInv, pc \in Unbuffered, NEW next \in {"destroy", "finish"},
         NEW errs \in SUBSET DocumentedErrors, FailsWith(errs, next)
  PROVE  DocInv'
<1>1. PICK e \in errs : Record(e)
  BY DEF FailsWith
<1>2. err = NoError
  BY DEF HeapInv, Early, Unbuffered, Reading
<1>3. err' \in DocumentedErrors'
  BY <1>1, <1>2, DocumentedStays DEF Record, SetError, FailsWith, Goto
<1>4. QED
  BY <1>3, DocStops DEF FailsWith, Goto, ErrorsAreDocumented

\* Other steps record nothing.
LEMMA DocNothing ==
  ASSUME DocInv, call' = call, NothingRecorded, total' = total \/ err = NoError
  PROVE  ErrorsAreDocumented'
BY DocumentedStays, NoErrorDocumented
DEF DocInv, ErrorsAreDocumented, NothingRecorded

\* The waveform is generated, and the stream constructed.
LEMMA DocStart ==
  ASSUME TypeOK, HeapInv, DocInv,
         \/ Start \/ GenerateFails \/ Generate \/ ConstructFails \/ ConstructNameFails
         \/ ConstructFromFile \/ ConstructFromMemory
  PROVE  DocInv'
<1>1. pc \in {"start", "generate", "construct"} /\ pc \in Unbuffered /\ err = NoError
  BY DEF Start, GenerateFails, Generate, ConstructFails, ConstructNameFails,
         ConstructFromFile, ConstructFromMemory, HeapInv, Early, Unbuffered
<1>2. CASE Start
  <2>1. CASE FailsWith(SanityErrors, "finish")
    BY <1>1, <2>1, DocFailsWith DEF DocumentedErrors
  <2>2. CASE Parses(IF source = "Waveform" THEN "generate" ELSE "construct")
    BY <1>1, <2>2, DocNothing, DocumentedStays DEF Parses, Goto, DocInv, BuiltInInv
  <2>3. QED
    BY <1>2, <2>1, <2>2 DEF Start
<1>3. CASE GenerateFails
  <2>1. source = "Waveform"
    BY <1>3 DEF GenerateFails, DocInv, BuiltInInv
  <2>2. {"INVALID_ENUM", "INVALID_VALUE", "OUT_OF_MEMORY"} \subseteq DocumentedErrors
    BY <2>1 DEF DocumentedErrors
  <2>3. QED
    BY <1>1, <1>3, <2>2, DocFailsWith DEF GenerateFails
<1>4. CASE Generate
  <2>1. left' - 24 \in 0 .. MaxAlloc
    BY <1>4, SizeAssumption, SizesAssumption DEF Generate
  <2>2. QED
    BY <1>1, <1>4, <2>1, DocNothing, DocumentedStays
    DEF Generate, Goto, DocInv, BuiltInInv
<1>5. CASE ConstructFails
  BY <1>1, <1>5, DocFailsWith DEF ConstructFails, DocumentedErrors
<1>6. CASE ConstructNameFails
  <2>1. err' = "OUT_OF_MEMORY"
    BY <1>1, <1>6 DEF ConstructNameFails, Record, SetError
  <2>2. ErrorsAreDocumented'
    BY <2>1 DEF ErrorsAreDocumented, DocumentedErrors
  <2>3. QED
    BY <1>1, <1>6, <2>2, DocStops DEF ConstructNameFails, Goto
<1>7. CASE ConstructFromFile
  BY <1>1, <1>7, DocNothing, DocumentedStays
  DEF ConstructFromFile, Goto, DocInv, BuiltInInv, BuiltIn
<1>8. CASE ConstructFromMemory
  <2>1. BuiltIn => BuiltInLength'
    <3>1. CASE source = "HelloWorld"
      BY <1>8, <3>1, SizeAssumption, SizesAssumption, DocumentedStays
      DEF ConstructFromMemory, Goto, BuiltInLength
    <3>2. CASE source = "Waveform"
      BY <1>8, <3>2, DocumentedStays
      DEF ConstructFromMemory, Goto, BuiltInLength, DocInv, BuiltInInv
    <3>3. QED
      BY <3>1, <3>2 DEF BuiltIn
  <2>2. QED
    BY <1>1, <1>8, <2>1, DocNothing, DocumentedStays
    DEF ConstructFromMemory, Goto, DocInv, BuiltInInv
<1>9. QED
  BY <1>2, <1>3, <1>4, <1>5, <1>6, <1>7, <1>8

\* The call is one of those that exist.
LEMMA SourceTyped ==
  ASSUME TypeOK
  PROVE  source \in Sources /\ sink \in {"CreateBuffer", "LoadMemory", "LoadWAV"}
<1>1. call.entry \in Calls
  BY DEF TypeOK
<1>2. QED
  BY <1>1 DEF Calls, Sources, source, sink

\* What a file or its image may have wrong with it is documented for both.
LEMMA FileErrors ==
  ASSUME TypeOK, HeapInv, ~BuiltIn, NEW n
  PROVE  /\ ReadErrors(n) \subseteq DocumentedErrors
         /\ NewReadErrors(n) \subseteq DocumentedErrors
         /\ SkipErrors(n) \subseteq DocumentedErrors
         /\ { "UNSUPPORTED_FILE_TYPE", "UNSUPPORTED_FILE_SUBTYPE",
              "CORRUPT_OR_TRUNCATED_DATA" } \subseteq DocumentedErrors
<1>1. source \in {"File", "FileImage"} /\ (isFileStream => source = "File")
  BY SourceTyped DEF BuiltIn, Sources, HeapInv
<1>2. ReadErrors(n) \subseteq DocumentedErrors
  BY <1>1 DEF ReadErrors, DocumentedErrors
<1>3. NewReadErrors(n) \subseteq DocumentedErrors
  BY <1>2 DEF NewReadErrors, OutOfMemory, DocumentedErrors
<1>4. QED
  BY <1>1, <1>2, <1>3 DEF SkipErrors, DocumentedErrors

\* The parsers, for a file; what follows is for the built-in sounds.
LEMMA DocParseFile ==
  ASSUME TypeOK, HeapInv, DocInv, ~BuiltIn,
         \/ LoadRawFile \/ LoadFile \/ ReadData \/ WavHeader \/ NextChunk \/ FmtChunk
         \/ Skip \/ SkipPad \/ AuHeader
  PROVE  DocInv'
<1>1. pc \in Unbuffered
  BY DEF LoadRawFile, LoadFile, ReadData, WavHeader, NextChunk, FmtChunk, Skip,
     SkipPad,
         AuHeader, Reading, Unbuffered
<1>2. ASSUME NEW errs \in SUBSET DocumentedErrors, LoadFails(errs) PROVE DocInv'
  BY <1>1, <1>2, DocFailsWith DEF LoadFails
<1>3. ASSUME call' = call, NothingRecorded, total' = total, pc' \notin {"generate",
             "construct"}
      PROVE  DocInv'
  BY <1>3, DocNothing, DocumentedStays DEF DocInv, BuiltInInv
<1>4. CASE LoadRawFile
  BY <1>3, <1>4 DEF LoadRawFile, Parses, Goto, stream
<1>5. CASE LoadFile
  BY <1>2, <1>3, <1>5, FileErrors DEF LoadFile, Parses, Goto, Consume
<1>6. CASE ReadData
  BY <1>2, <1>3, <1>6, FileErrors DEF ReadData, Goto, Consume
<1>7. CASE WavHeader
  BY <1>2, <1>3, <1>7, FileErrors DEF WavHeader, Parses, Goto, Consume
<1>8. CASE NextChunk
  BY <1>2, <1>3, <1>8, FileErrors DEF NextChunk, Parses, Goto, Consume
<1>9. CASE FmtChunk
  <2>1. CASE LoadFails({"CORRUPT_OR_TRUNCATED_DATA"}) \/ LoadFails(ReadErrors(16))
    BY <1>2, <2>1, FileErrors
  <2>2. CASE Consume(16) /\ Parses("skip")
    BY <1>3, <2>2 DEF Parses, Goto, Consume
  <2>3. QED
    BY <1>9, <2>1, <2>2 DEF FmtChunk
<1>10. CASE Skip
  BY <1>2, <1>3, <1>10, FileErrors DEF Skip, Parses, Goto, Consume
<1>11. CASE SkipPad
  BY <1>2, <1>3, <1>11, FileErrors DEF SkipPad, Parses, Goto, Consume, stream
<1>12. CASE AuHeader
  BY <1>2, <1>3, <1>12, FileErrors DEF AuHeader, Parses, Goto, Consume
<1>13. QED
  BY <1>4, <1>5, <1>6, <1>7, <1>8, <1>9, <1>10, <1>11, <1>12

\* The length in the header of a built-in sound.
LEMMA BuiltInHeader ==
  ASSUME TypeOK, BuiltIn, BuiltInLength, NEW h \in AuHeaders
  PROVE  /\ h.offset = 24 /\ h.channels = 1 /\ h.frequencyOk = TRUE
         /\ h.encoding \in {"ULAW_8", "PCM_16"}
         /\ AuDataLength(h) = total - 24
<1>1. /\ h.offset = 24 /\ h.channels = 1 /\ h.frequencyOk = TRUE
      /\ h.encoding \in {"ULAW_8", "PCM_16"}
      /\ h.len = IF source = "HelloWorld" THEN HelloLength ELSE total - 24
  BY DEF AuHeaders, BuiltIn
<1>2. h.len = total - 24
  BY <1>1, SizesAssumption DEF BuiltInLength, TypeOK
<1>3. total - 24 \in 0 .. SizeMod - 1
  BY SizeAssumption DEF BuiltInLength, TypeOK
<1>4. QED
  BY <1>1, <1>2, <1>3, SizeTIsIdentity DEF AuDataLength

\* No read of a built-in sound fails, and its header is one that is supported.
LEMMA DocParseBuiltIn ==
  ASSUME TypeOK, HeapInv, AlignInv, DocInv, BuiltIn,
         \/ LoadRawFile \/ LoadFile \/ ReadData \/ WavHeader \/ NextChunk \/ FmtChunk
         \/ Skip \/ SkipPad \/ AuHeader
  PROVE  DocInv'
<1>1. pc \in {"loadFile", "data", "skip", "au"} /\ pc \in Unbuffered /\ ~call.raw
      /\ ~isFileStream /\ BuiltInLength /\ err = NoError
  BY DEF LoadRawFile, LoadFile, ReadData, WavHeader, NextChunk, FmtChunk, Skip,
     SkipPad,
         AuHeader, Reading, Unbuffered, BuiltIn, DocInv, BuiltInInv, HeapInv, Early
<1>2. total \in Nat /\ total >= 24 /\ total - 24 <= MaxAlloc
  BY <1>1, SizeAssumption DEF BuiltInLength, TypeOK
<1>3. ASSUME NEW n \in Nat, n <= left PROVE ReadErrors(n) = {}
  <2>1. ~(left < n)
    BY <1>3 DEF TypeOK
  <2>2. QED
    BY <1>1, <2>1 DEF ReadErrors
<1>4. ASSUME NEW errs, errs = {} PROVE ~LoadFails(errs)
  BY <1>4 DEF LoadFails, FailsWith
<1>5. CASE LoadRawFile
  BY <1>1, <1>5 DEF LoadRawFile
<1>6. CASE LoadFile
  <2>1. left = total
    BY <1>6 DEF LoadFile, AlignInv
  <2>2. ~LoadFails(ReadErrors(4))
    BY <1>2, <1>3, <1>4, <2>1
  <2>3. /\ call' = call /\ NothingRecorded /\ total' = total /\ pc' = "au"
    BY <1>6, <2>2 DEF LoadFile, BuiltIn, Consume, Parses, Goto
  <2>4. QED
    BY <1>1, <2>3, DocNothing, DocumentedStays DEF DocInv, BuiltInInv, BuiltInLength
<1>7. CASE ReadData
  <2>1. left = total - 24 /\ length = total - 24 /\ BuiltInSound
    BY <1>7 DEF ReadData, DocInv, BuiltInInv
  <2>2. NewReadErrors(length) \subseteq DocumentedErrors
    <3>1. ReadErrors(length) = {}
      BY <1>2, <1>3, <2>1
    <3>2. QED
      BY <3>1 DEF NewReadErrors, OutOfMemory, DocumentedErrors
  <2>3. CASE LoadFails(NewReadErrors(length))
    BY <1>1, <2>2, <2>3, DocFailsWith DEF LoadFails
  <2>4. CASE Consume(length) /\ Goto("codec") /\ NothingRecorded /\ UNCHANGED sound
    BY <1>1, <2>1, <2>4, DocNothing, DocumentedStays
    DEF Consume, Goto, DocInv, BuiltInInv, BuiltInSound
  <2>5. QED
    BY <1>7, <2>3, <2>4 DEF ReadData
<1>8. CASE Skip
  <2>1. left = total - 24 /\ length = total - 24 /\ toSkip = 0 /\ BuiltInSound
    BY <1>8 DEF Skip, DocInv, BuiltInInv
  <2>2. ~LoadFails(SkipErrors(toSkip))
    BY <1>4, <2>1 DEF SkipErrors
  <2>3. /\ Consume(0) /\ Parses("data") /\ UNCHANGED <<sound, length>>
    BY <1>8, <2>1, <2>2 DEF Skip, BuiltInSound
  <2>4. left' = left /\ total' = total
    BY <2>3 DEF Consume, TypeOK
  <2>5. QED
    BY <1>1, <2>1, <2>3, <2>4, DocNothing, DocumentedStays
    DEF Parses, Goto, DocInv, BuiltInInv, BuiltInSound, BuiltInLength
<1>9. CASE AuHeader
  <2>1. left = total - 4
    BY <1>2, <1>9 DEF AuHeader, AlignInv, TypeOK
  <2>2. ~LoadFails(ReadErrors(20))
    BY <1>2, <1>3, <1>4, <2>1
  <2>3. CASE (\E h \in AuHeaders : ~AuHeaderOk(h)) /\ LoadFails({"CORRUPT_OR_TRUNCATED_DATA"})
    <3>1. ~(total - 24 > 0)
      <4>1. PICK h \in AuHeaders : ~AuHeaderOk(h)
        BY <2>3
      <4>2. /\ h.offset = 24 /\ h.channels = 1 /\ h.frequencyOk = TRUE
            /\ AuDataLength(h) = total - 24
        BY <1>1, BuiltInHeader
      <4>3. QED
        BY <4>1, <4>2 DEF AuHeaderOk
    <3>2. total = 24 /\ source = "Waveform"
      BY <1>1, <1>2, <3>1, SizesAssumption DEF BuiltInLength, BuiltIn
    <3>3. err' = "CORRUPT_OR_TRUNCATED_DATA" /\ total' = total /\ call' = call
      BY <1>1, <2>3 DEF LoadFails, FailsWith, Record, SetError, Goto, stream
    <3>4. ErrorsAreDocumented'
      BY <3>2, <3>3, DocumentedStays DEF ErrorsAreDocumented
    <3>5. QED
      BY <1>1, <2>3, <3>4, DocStops DEF LoadFails, FailsWith, Goto
  <2>4. ASSUME Consume(20), Parses("skip"), NEW h \in AuHeaders,
               sound' = [container |-> "au",
                         codec |-> AuCodec(h.encoding).codec,
                         channels |-> h.channels,
                         bits |-> AuCodec(h.encoding).bits,
                         align |-> 1,
                         order |-> AuCodec(h.encoding).order,
                         found |-> FALSE],
               toSkip' = h.offset - 24,
               length' = AuDataLength(h)
        PROVE  DocInv'
    <3>1. BuiltInSound'
      BY <1>1, <2>4, BuiltInHeader DEF BuiltInSound, AuCodec
    <3>2. toSkip' = 0 /\ length' = total - 24
      <4>1. h.offset = 24 /\ AuDataLength(h) = total - 24
        BY <1>1, BuiltInHeader
      <4>2. QED
        BY <2>4, <4>1
    <3>3. left' = total - 24 /\ total' = total
      BY <1>2, <2>1, <2>4 DEF Consume
    <3>4. QED
      BY <1>1, <2>4, <3>1, <3>2, <3>3, DocNothing, DocumentedStays
      DEF Parses, Goto, DocInv, BuiltInInv, BuiltInLength
  <2>5. QED
    BY <1>9, <2>2, <2>3, <2>4 DEF AuHeader
<1>10. QED
  BY <1>1, <1>5, <1>6, <1>7, <1>8, <1>9
  DEF WavHeader, NextChunk, FmtChunk, SkipPad

\* The rest of the call.
LEMMA DocDecode ==
  ASSUME TypeOK, HeapInv, DocInv,
         DecodeInPlace \/ DecodeLaw \/ DecodeIMA4 \/ ConstructBufferData
  PROVE  DocInv'
<1>1. pc \in {"codec", "bufferData"} /\ pc \in Unbuffered /\ (BuiltIn => BuiltInSound)
  BY DEF DecodeInPlace, DecodeLaw, DecodeIMA4, ConstructBufferData, DocInv,
     BuiltInInv,
         Unbuffered
<1>2. OutOfMemory \subseteq DocumentedErrors
  BY DEF OutOfMemory, DocumentedErrors
\* The channels, the bits and the codec stay.
<1>3. ASSUME call' = call, NothingRecorded, total' = total, pc' \in {"bufferData",
             "destroy"},
             /\ sound'.channels = sound.channels /\ sound'.bits = sound.bits
             /\ sound'.codec = sound.codec /\ sound'.container = sound.container
      PROVE  DocInv'
  BY <1>1, <1>3, DocNothing, DocumentedStays DEF DocInv, BuiltInInv, BuiltInSound
<1>4. ASSUME NEW size, DecodeFails(size) PROVE DocInv'
  BY <1>1, <1>2, <1>4, DocFailsWith DEF DecodeFails
<1>5. ASSUME NEW size, Decoded(size) PROVE DocInv'
  BY <1>3, <1>5 DEF Decoded, Goto, stream, TypeOK
<1>6. CASE DecodeInPlace
  BY <1>3, <1>6 DEF DecodeInPlace, Parses, Goto, stream, TypeOK
<1>7. CASE DecodeLaw
  BY <1>4, <1>5, <1>7 DEF DecodeLaw
<1>8. CASE DecodeIMA4
  <2>1. ASSUME NEW where \in {"trap", "spin"}, ImaStuck(where) PROVE DocInv'
    BY <1>1, <2>1, DocNothing, DocStops DEF ImaStuck, Goto, stream, NothingRecorded
  <2>2. CASE ImaTooManyChannels
    BY <1>1, <2>2, DocNothing, DocStops DEF ImaTooManyChannels, Goto, stream
  <2>3. QED
    BY <1>4, <1>5, <1>8, <2>1, <2>2 DEF DecodeIMA4
<1>9. CASE ConstructBufferData
  <2>1. CASE FailsWith(OutOfMemory, "destroy")
    BY <1>1, <1>2, <2>1, DocFailsWith
  <2>2. CASE Goto("destroy") /\ NothingRecorded /\ UNCHANGED <<stream, sound>>
    BY <1>3, <2>2 DEF Goto, stream
  <2>3. QED
    BY <1>9, <2>1, <2>2 DEF ConstructBufferData
<1>10. QED
  BY <1>6, <1>7, <1>8, <1>9

\* A built-in sound has a format of OpenAL.
LEMMA DocEnd ==
  ASSUME TypeOK, HeapInv, DocInv,
         DestroyStream \/ PassBufferData \/ LoadMemory \/ Finish \/ Unload
  PROVE  DocInv'
<1>1. UNCHANGED <<call, sound, total>>
  BY DEF DestroyStream, PassBufferData, LoadMemory, Finish, Unload, Ends, Goto,
     stream
<1>2. ASSUME pc' \in {"finish", "done", "unloaded"},
             ErrorsAreDocumented' PROVE DocInv'
  BY <1>1, <1>2, DocumentedStays DEF DocInv, BuiltInInv
<1>3. NothingRecorded => ErrorsAreDocumented'
  BY <1>1, DocNothing
<1>4. ASSUME pc = "deliver", NEW e \in DocumentedErrors,
             Record(e) PROVE ErrorsAreDocumented'
  <2>1. err = NoError
    BY <1>4 DEF HeapInv, Early
  <2>2. QED
    BY <1>1, <1>4, <2>1, DocumentedStays DEF Record, SetError, ErrorsAreDocumented
<1>5. pc = "deliver" /\ ~StandardFormat => "UNSUPPORTED_FILE_SUBTYPE" \in DocumentedErrors
  BY SourceTyped
  DEF DocInv, BuiltInInv, BuiltIn, BuiltInSound, StandardFormat, DocumentedErrors,
      Sources
<1>6. CASE DestroyStream
  BY <1>1, <1>3, <1>6, DocumentedStays
  DEF DestroyStream, Ends, Goto, DocInv, BuiltInInv, BuiltInSound
<1>7. CASE PassBufferData
  <2>1. pc = "deliver" /\ {"GEN_BUFFERS", "BUFFER_DATA"} \subseteq DocumentedErrors
    BY <1>7 DEF PassBufferData, DocumentedErrors
  <2>2. ErrorsAreDocumented'
    BY <1>3, <1>4, <1>5, <1>7, <2>1 DEF PassBufferData
  <2>3. QED
    BY <1>2, <1>7, <2>2 DEF PassBufferData, Ends, Goto
<1>8. CASE LoadMemory
  <2>1. ErrorsAreDocumented'
    BY <1>3, <1>4, <1>5, <1>8 DEF LoadMemory
  <2>2. QED
    BY <1>2, <1>8, <2>1 DEF LoadMemory, Ends, Goto
<1>9. CASE Finish \/ Unload
  BY <1>2, <1>3, <1>9 DEF Finish, Unload, Ends, Goto
<1>10. QED
  BY <1>6, <1>7, <1>8, <1>9

\* A loader records only errors the reference lists for it: the built-in sounds
\* cannot fail as files do, although they go through the same parser, but for
\* the waveform without samples (alutWaveform.c:97, alutLoader.c:215).
THEOREM ErrorsAreAlwaysDocumented == Spec => []ErrorsAreDocumented
<1>1. Init => DocInv
  <2> SUFFICES ASSUME Init PROVE DocInv
    OBVIOUS
  <2>1. ErrorsAreDocumented
    BY NoErrorDocumented DEF Init, ErrorsAreDocumented
  <2>2. BuiltInInv
    BY DEF Init, BuiltInInv, source
  <2>3. QED
    BY <2>1, <2>2 DEF DocInv
<1>2. TypeOK /\ HeapInv /\ AlignInv /\ DocInv /\ [Next]_vars => DocInv'
  <2> SUFFICES ASSUME TypeOK, HeapInv, AlignInv, DocInv, [Next]_vars PROVE DocInv'
    OBVIOUS
  <2>1. CASE CallStep
    BY <2>1, DocStart, DocParseFile, DocParseBuiltIn, DocDecode, DocEnd DEF CallStep
  <2>2. CASE Unload
    BY <2>2, DocEnd
  <2>3. CASE UNCHANGED vars
    <3>1. ErrorsAreDocumented'
      BY <2>3, DocNothing DEF vars, stream, NothingRecorded
    <3>2. BuiltInInv'
      BY <2>3, DocumentedStays
      DEF vars, stream, DocInv, BuiltInInv, BuiltInSound, BuiltInLength
    <3>3. QED
      BY <3>1, <3>2 DEF DocInv
  <2>4. QED
    BY <2>1, <2>2, <2>3 DEF Next, Returned
<1>3. DocInv => ErrorsAreDocumented
  BY DEF DocInv
<1>4. QED
  BY <1>1, <1>2, <1>3, TypeCorrect, HeapInductive, AlignInductive, PTL DEF Spec

-----------------------------------------------------------------------------
(* Termination *)

\* Before there is a stream.
Opening == {"start", "generate", "construct"}

\* The order of the code, but for the loop over the chunks, which goes back from
\* "pad" to "chunk" and on from "chunk" to "fmt" and "skip".
Rank(p) ==
  CASE p = "start" -> 17 [] p = "generate" -> 16 [] p = "construct" -> 15
    [] p = "loadFile" -> 14 [] p = "wav" -> 13 [] p = "au" -> 13
    [] p = "fmt" -> 12 [] p = "skip" -> 11 [] p = "pad" -> 10 [] p = "chunk" -> 9
    [] p = "data" -> 8 [] p = "codec" -> 7 [] p = "bufferData" -> 6
    [] p = "destroy" -> 5 [] p = "deliver" -> 4 [] p = "finish" -> 3
    [] p = "done" -> 1 [] p = "unloaded" -> 0 [] p = "trap" -> 0 [] p = "spin" -> 0

\* The steps that are left at most: a round of the loop takes four of them and
\* reads eight bytes or more.
StepsLeft == (IF pc \in Opening THEN SizeMod ELSE left) * 4 + Rank(pc)

LEMMA RankTyped == ASSUME NEW p \in Places PROVE Rank(p) \in 0 .. 17
BY DEF Places, Stopped, Rank

\* What a step does to the place in the code and to the bytes that are left.
MovesOn ==
  \/ /\ pc \in Opening /\ Rank(pc') < Rank(pc)
  \/ /\ pc \notin Opening /\ pc' \notin Opening
     /\ \/ left' <= left /\ Rank(pc') < Rank(pc)
        \/ left' <= left - 8

\* A failure goes to the end of the call.
LEMMA FailingMovesOn ==
  ASSUME TypeOK, NEW errs, NEW next \in {"destroy", "finish"},
         FailsWith(errs, next), pc \in Reading \cup {"codec", "bufferData"} \cup Opening
  PROVE  next = "finish" \/ pc \notin Opening => MovesOn
<1>1. pc' = next /\ left' = left /\ left \in Int
  BY DEF FailsWith, Goto, stream, TypeOK
<1>2. Rank(pc') < Rank(pc)
  BY <1>1 DEF Rank, Reading, Opening
<1> QED BY <1>1, <1>2 DEF MovesOn, Opening

\* The steps before there is a stream.
LEMMA OpeningMovesOn ==
  ASSUME TypeOK,
         \/ Start \/ GenerateFails \/ Generate \/ ConstructFails
         \/ ConstructNameFails \/ ConstructFromFile \/ ConstructFromMemory
  PROVE  MovesOn
<1>1. pc \in Opening /\ Rank(pc') < Rank(pc)
  BY DEF Start, GenerateFails, Generate, ConstructFails, ConstructNameFails,
     ConstructFromFile, ConstructFromMemory, FailsWith, Parses, Goto, Opening, Rank
<1> QED BY <1>1 DEF MovesOn

\* Reading n bytes leaves fewer.
LEMMA ConsumeMovesOn ==
  ASSUME TypeOK, NEW n \in Nat, Consume(n)
  PROVE  left \in Int /\ left' \in Int /\ left' = left - n /\ left' <= left
BY DEF Consume, TypeOK

LEMMA ReadingMovesOn ==
  ASSUME TypeOK,
         \/ LoadRawFile \/ LoadFile \/ ReadData \/ WavHeader \/ NextChunk
         \/ FmtChunk \/ Skip \/ SkipPad \/ AuHeader
  PROVE  MovesOn
<1>0. left \in Int /\ length \in Nat /\ toSkip \in Nat
  BY DEF TypeOK
<1>1. ASSUME NEW errs, LoadFails(errs), pc \in Reading
      PROVE  MovesOn
  BY <1>1, FailingMovesOn DEF LoadFails, Reading, Opening
<1>2. ASSUME NEW n \in Nat, Consume(n) \/ UNCHANGED stream,
             pc \in Reading, pc' \notin Opening, Rank(pc') < Rank(pc)
      PROVE  MovesOn
  <2>1. left' <= left
    BY <1>0, <1>2, ConsumeMovesOn DEF stream
  <2>2. pc \notin Opening
    BY <1>2 DEF Reading, Opening
  <2> QED BY <1>2, <2>1, <2>2 DEF MovesOn
<1>3. CASE LoadRawFile
  <2>1. pc = "loadFile" /\ pc' = "data" /\ UNCHANGED stream
    BY <1>3 DEF LoadRawFile, Parses, Goto
  <2>2. pc \in Reading /\ pc' \notin Opening /\ Rank(pc') < Rank(pc)
    BY <2>1 DEF Reading, Opening, Rank
  <2> QED BY <1>2, <2>1, <2>2
<1>4. CASE LoadFile
  <2>1. pc = "loadFile"
    BY <1>4 DEF LoadFile
  <2>2. CASE Consume(4) /\ (Parses("au") \/ Parses("wav"))
    <3>1. pc' \in {"au", "wav"}
      BY <2>2 DEF Parses, Goto
    <3>2. pc \in Reading /\ pc' \notin Opening /\ Rank(pc') < Rank(pc)
      BY <2>1, <3>1 DEF Reading, Opening, Rank
    <3> QED BY <1>2, <2>2, <3>2
  <2> QED BY <1>1, <1>4, <2>1, <2>2 DEF LoadFile, Reading
<1>5. CASE ReadData
  <2>1. pc = "data"
    BY <1>5 DEF ReadData
  <2>2. CASE Consume(length) /\ Goto("codec")
    <3>1. pc \in Reading /\ pc' \notin Opening /\ Rank(pc') < Rank(pc)
      BY <2>1, <2>2 DEF Goto, Reading, Opening, Rank
    <3> QED BY <1>0, <1>2, <2>2, <3>1
  <2> QED BY <1>1, <1>5, <2>1, <2>2 DEF ReadData, Reading
<1>6. CASE WavHeader
  <2>1. pc = "wav"
    BY <1>6 DEF WavHeader
  <2>2. CASE Consume(8) /\ Parses("chunk")
    <3>1. pc \in Reading /\ pc' \notin Opening /\ Rank(pc') < Rank(pc)
      BY <2>1, <2>2 DEF Parses, Goto, Reading, Opening, Rank
    <3> QED BY <1>2, <2>2, <3>1
  <2> QED BY <1>1, <1>6, <2>1, <2>2 DEF WavHeader, Reading
<1>7. CASE NextChunk
  <2>1. pc = "chunk"
    BY <1>7 DEF NextChunk
  <2>2. CASE Consume(8) /\ (Parses("fmt") \/ Parses("skip") \/ Parses("data"))
    <3>1. left' <= left - 8
      BY <2>2, ConsumeMovesOn
    <3>2. pc \notin Opening /\ pc' \notin Opening
      BY <2>1, <2>2 DEF Parses, Goto, Opening
    <3> QED BY <3>1, <3>2 DEF MovesOn
  <2> QED BY <1>1, <1>7, <2>1, <2>2 DEF NextChunk, Reading
<1>8. CASE FmtChunk
  <2>1. pc = "fmt"
    BY <1>8 DEF FmtChunk
  <2>2. CASE Consume(16) /\ Parses("skip")
    <3>1. pc \in Reading /\ pc' \notin Opening /\ Rank(pc') < Rank(pc)
      BY <2>1, <2>2 DEF Parses, Goto, Reading, Opening, Rank
    <3> QED BY <1>2, <2>2, <3>1
  <2> QED BY <1>1, <1>8, <2>1, <2>2 DEF FmtChunk, Reading
<1>9. CASE Skip
  <2>1. pc = "skip"
    BY <1>9 DEF Skip
  <2>2. CASE /\ Consume(toSkip)
             /\ Parses(IF sound.container = "wav" THEN "pad" ELSE "data")
    <3>1. pc' \in {"pad", "data"}
      BY <2>2 DEF Parses, Goto
    <3>2. pc \in Reading /\ pc' \notin Opening /\ Rank(pc') < Rank(pc)
      BY <2>1, <3>1 DEF Reading, Opening, Rank
    <3> QED BY <1>0, <1>2, <2>2, <3>2
  <2> QED BY <1>1, <1>9, <2>1, <2>2 DEF Skip, Reading
<1>10. CASE SkipPad
  <2>1. pc = "pad"
    BY <1>10 DEF SkipPad
  <2>2. CASE (Consume(1) \/ UNCHANGED stream) /\ Parses("chunk")
    <3>1. pc \in Reading /\ pc' \notin Opening /\ Rank(pc') < Rank(pc)
      BY <2>1, <2>2 DEF Parses, Goto, Reading, Opening, Rank
    <3> QED BY <1>2, <2>2, <3>1
  <2> QED BY <1>1, <1>10, <2>1, <2>2 DEF SkipPad, Reading
<1>11. CASE AuHeader
  <2>1. pc = "au"
    BY <1>11 DEF AuHeader
  <2>2. CASE Consume(20) /\ Parses("skip")
    <3>1. pc \in Reading /\ pc' \notin Opening /\ Rank(pc') < Rank(pc)
      BY <2>1, <2>2 DEF Parses, Goto, Reading, Opening, Rank
    <3> QED BY <1>2, <2>2, <3>1
  <2> QED BY <1>1, <1>11, <2>1, <2>2 DEF AuHeader, Reading
<1> QED BY <1>3, <1>4, <1>5, <1>6, <1>7, <1>8, <1>9, <1>10, <1>11

\* The codecs and what comes after them.
LEMMA EndMovesOn ==
  ASSUME TypeOK,
         \/ DecodeInPlace \/ DecodeLaw \/ DecodeIMA4 \/ ConstructBufferData
         \/ DestroyStream \/ PassBufferData \/ LoadMemory \/ Finish \/ Unload
  PROVE  MovesOn
<1>1. left' = left /\ left \in Int
  BY DEF TypeOK, DecodeInPlace, DecodeLaw, DecodeIMA4, ConstructBufferData,
     DestroyStream, PassBufferData, LoadMemory, Finish, Unload, DecodeFails,
     FailsWith, Decoded, ImaTooManyChannels, ImaStuck, Ends, stream
<1>2. \/ pc = "codec" /\ pc' \in {"bufferData", "destroy", "trap", "spin"}
      \/ pc = "bufferData" /\ pc' = "destroy"
      \/ pc = "destroy" /\ pc' \in {"deliver", "finish"}
      \/ pc = "deliver" /\ pc' = "finish"
      \/ pc = "finish" /\ pc' = "done"
      \/ pc = "done" /\ pc' = "unloaded"
  BY DEF DecodeInPlace, DecodeLaw, DecodeIMA4, ConstructBufferData,
     DestroyStream, PassBufferData, LoadMemory, Finish, Unload, DecodeFails,
     FailsWith, Decoded, ImaTooManyChannels, ImaStuck, Ends, Parses, Goto
<1>3. pc \notin Opening /\ pc' \notin Opening /\ Rank(pc') < Rank(pc)
  BY <1>2 DEF Opening, Rank
<1> QED BY <1>1, <1>3 DEF MovesOn

Nearer == StepsLeft \in Nat /\ StepsLeft' \in Nat /\ StepsLeft' < StepsLeft

\* Every step of a call gets nearer to its end, whatever is in the file: no
\* order and no lengths of chunks keep the loop of alutLoader.c:99 going, and when
\* the stream is open, there are at most four steps for each of its bytes and 14
\* more.  That there is a step to take before the end is not part of this.
THEOREM EveryStepIsNearerToTheEnd == Spec => [][Nearer]_vars
<1>1. ASSUME TypeOK, TypeOK', [Next]_vars PROVE [Nearer]_vars
  <2>1. UNCHANGED vars \/ MovesOn
    BY <1>1, OpeningMovesOn, ReadingMovesOn, EndMovesOn
    DEF Next, CallStep, Returned
  <2>2. ASSUME MovesOn PROVE Nearer
    <3> DEFINE r == Rank(pc)
               s == Rank(pc')
               from == IF pc \in Opening THEN SizeMod ELSE left
               to == IF pc' \in Opening THEN SizeMod ELSE left'
    <3>1. r \in 0 .. 17 /\ s \in 0 .. 17
      BY <1>1, RankTyped DEF TypeOK
    <3>2. /\ left \in Nat /\ left' \in Nat /\ SizeMod \in Nat
          /\ left <= SizeMod /\ left' <= SizeMod
      BY <1>1, SizeAssumption DEF TypeOK
    <3>3. from \in Nat /\ to \in Nat
      BY <3>2
    <3>4. (to <= from /\ s < r) \/ to <= from - 8
      BY <2>2, <3>2 DEF MovesOn
    <3>5. StepsLeft = from * 4 + r /\ StepsLeft' = to * 4 + s
      BY DEF StepsLeft
    <3> HIDE DEF r, s, from, to
    <3>6. /\ StepsLeft \in Nat /\ StepsLeft' \in Nat
          /\ StepsLeft' < StepsLeft
      BY <3>1, <3>3, <3>4, <3>5
    <3> QED BY <3>6 DEF Nearer
  <2> QED BY <2>1, <2>2
<1> QED BY <1>1, TypeCorrect, PTL DEF Spec

-----------------------------------------------------------------------------
(* The AU files that do not know how long they are *)

\* A number below zero becomes one that is greater by SizeMod at least.
LEMMA SizeTOfNegative ==
  ASSUME NEW n \in Int, n < 0
  PROVE  SizeT(n) \in Int /\ SizeT(n) >= n + SizeMod
<1> DEFINE g == SizeMod
           v == n \div g
           x == n % g
<1>1. g \in Nat /\ g > 0
  BY SizeAssumption
<1> HIDE DEF g
<1>2. v \in Int /\ x \in 0 .. g - 1 /\ n = (v * g) + x
  <2>1. g \in Nat \ {0}
    BY <1>1
  <2> QED BY <2>1
<1> HIDE DEF v, x
<1>3. ~ v >= 0
  <2>1. v >= 0 => v * g >= 0
    BY <1>1, <1>2
  <2> QED BY <1>1, <1>2, <2>1
<1>4. (v + 1) * g <= 0
  <2>1. -(v + 1) \in Nat /\ (-(v + 1)) * g >= 0
    BY <1>1, <1>2, <1>3
  <2> QED BY <1>1, <1>2, <2>1
<1>5. (v + 1) * g = (v * g) + g /\ v * g \in Int
  BY <1>1, <1>2
<1>6. x \in Int /\ x >= n + g
  BY <1>1, <1>2, <1>4, <1>5
<1> QED BY <1>6 DEF SizeT, g, x

\* What remains of a stream in front of the data part that begins at offset.
RestAfter(offset) == left - 20 - (offset - 24)

\* What becomes of a header that does not know the length.
ShortOf48(h) ==
  h.len = -1 /\ h.offset >= 24 /\ RestAfter(h.offset) >= 0 =>
    /\ RestAfter(h.offset) >= 48 => AuDataLength(h) = RestAfter(h.offset) - 48
    /\ RestAfter(h.offset) < 48 /\ SizeMod > 48 =>
         AuDataLength(h) > RestAfter(h.offset)

\* When the length of an AU file is said not to be known, the loader takes away
\* the header, which it has read, two more times (alutLoader.c:211-213): a sound
\* is 48 bytes shorter than what there is of it, and one of less than 48 bytes
\* gets a length that no stream has, so that reading it fails.
\* UnknownLengthIsTheRest never holds of such a file.
THEOREM UnknownLengthIs48Short ==
  Spec => [](pc = "au" /\ remaining = left => \A h \in AuHeaders : ShortOf48(h))
<1>1. ASSUME TypeOK, remaining = left, NEW h \in AuHeaders,
             h.len = -1, h.offset >= 24, RestAfter(h.offset) >= 0
      PROVE  /\ RestAfter(h.offset) >= 48 =>
                  AuDataLength(h) = RestAfter(h.offset) - 48
             /\ RestAfter(h.offset) < 48 /\ SizeMod > 48 =>
                  AuDataLength(h) > RestAfter(h.offset)
  <2> DEFINE rest == RestAfter(h.offset)
  <2>1. left \in Int /\ SizeMod \in Int /\ left <= SizeMod - 1
    BY <1>1, SizeAssumption DEF TypeOK
  <2>2. h.offset \in Int
    <3>1. CASE source \in {"File", "FileImage"}
      <4>1. h.offset \in DataOffsets
        BY <3>1 DEF AuHeaders
      <4> QED BY <4>1, SizesAssumption
    <3>2. CASE source \notin {"File", "FileImage"}
      <4>1. h.offset = 24
        BY <3>2 DEF AuHeaders
      <4> QED BY <4>1
    <3> QED BY <3>1, <3>2
  <2>3. rest \in Int /\ rest <= left
    BY <1>1, <2>1, <2>2 DEF RestAfter
  <2>4. AuDataLength(h) = SizeT(rest - 48)
    <3>1. remaining - 20 - 24 - h.offset = rest - 48
      BY <1>1, <2>1, <2>2 DEF RestAfter
    <3> QED BY <1>1, <3>1 DEF AuDataLength
  <2> HIDE DEF rest
  <2>5. rest >= 48 => SizeT(rest - 48) = rest - 48
    <3>1. rest >= 48 => rest - 48 \in 0 .. SizeMod - 1
      BY <2>1, <2>3
    <3> QED BY <3>1, SizeTIsIdentity
  <2>6. rest < 48 /\ SizeMod > 48 => SizeT(rest - 48) > rest
    <3>1. rest < 48 => /\ SizeT(rest - 48) \in Int
                       /\ SizeT(rest - 48) >= rest - 48 + SizeMod
      <4>1. rest - 48 \in Int /\ (rest < 48 => rest - 48 < 0)
        BY <2>3
      <4> QED BY <4>1, SizeTOfNegative
    <3> QED BY <2>1, <2>3, <3>1
  <2> QED BY <2>4, <2>5, <2>6 DEF rest
<1>2. TypeOK => (pc = "au" /\ remaining = left => \A h \in AuHeaders : ShortOf48(h))
  BY <1>1 DEF ShortOf48
<1> QED BY <1>2, TypeCorrect, PTL

=============================================================================
