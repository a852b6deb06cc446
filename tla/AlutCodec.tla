------------------------------ MODULE AlutCodec ------------------------------
(***************************************************************************)
(* The codecs of src/alutCodec.c that work on one sample at a time, down   *)
(* to the bytes: what a loader of src/alutLoader.c chooses for an encoding *)
(* and a host, and what the codec leaves in the memory that becomes the    *)
(* data of an AL buffer.  What happens to that memory when something fails *)
(* is in AlutLoader, and the IMA4 codec is in AlutIMA4.                    *)
(***************************************************************************)
EXTENDS AlutBytes, Sequences

CONSTANT Files  \* contents of the data part of a sound file

ASSUME FilesAssumption == Files \subseteq Seq(Byte)

VARIABLES
  encoding, host, file,  \* what is read, and where
  codec,                 \* "none" until the loader has chosen
  data,                  \* the memory the codec is given
  buf,                   \* the memory of the u-law and A-law codecs
  i,                     \* samples decoded
  pc

vars == <<encoding, host, file, codec, data, buf, i, pc>>

\* Of WAV files U8, S16LE, ULAW, ALAW; of AU files S8, S16BE, ULAW, ALAW.
Encodings == {"U8", "S8", "S16LE", "S16BE", "ULAW", "ALAW"}

Init ==
  /\ encoding \in Encodings /\ host \in {"little", "big"} /\ file \in Files
  /\ codec = "none"
  /\ data = file
  /\ buf = <<>>
  /\ i = 0
  /\ pc = "choose"

-----------------------------------------------------------------------------
(* The decoding of a byte *)

\* Bits are cut out of a byte by division.
ExpLut == <<0, 132, 396, 924, 1980, 4092, 8316, 16764>>

\* The byte is taken without its bits inverted.
mulaw2linear_NotInverted(mulawbyte) ==
  LET exponent == (mulawbyte \div 16) % 8
      sample == ExpLut[exponent + 1] + (mulawbyte % 16) * 2 ^ (exponent + 3)
  IN IF mulawbyte >= 128 THEN -sample ELSE sample

mulaw2linear(mulawbyte) ==
  LET inverted == 255 - mulawbyte
      exponent == (inverted \div 16) % 8
      sample == ExpLut[exponent + 1] + (inverted % 16) * 2 ^ (exponent + 3)
  IN IF inverted >= 128 THEN -sample ELSE sample

\* b ^ 0x55: every other bit is inverted.
Xor55(b) ==
  b + (1 - 2 * (b % 2)) + 4 * (1 - 2 * ((b \div 4) % 2))
    + 16 * (1 - 2 * ((b \div 16) % 2)) + 64 * (1 - 2 * ((b \div 64) % 2))

alaw2linear(a_val) ==
  LET v == Xor55(a_val)
      seg == (v \div 16) % 8
      t == IF seg = 0 THEN (v % 16) * 16 + 8
           ELSE ((v % 16) * 16 + 264) * 2 ^ (seg - 1)
  IN IF v >= 128 THEN t ELSE -t

-----------------------------------------------------------------------------
(* Steps *)

\* 16 bits are swapped on the hosts that need no swapping.
Codec_WrongHost(enc, h) ==
  CASE enc = "U8"    -> "Linear"
    [] enc = "S8"    -> "PCM8s"
    [] enc = "S16LE" -> IF h = "little" THEN "PCM16" ELSE "Linear"
    [] enc = "S16BE" -> IF h = "big" THEN "PCM16" ELSE "Linear"
    [] enc = "ULAW"  -> "ULaw"
    [] enc = "ALAW"  -> "ALaw"

\* The switches of loadWavFile and loadAUFile.
Codec(enc, h) ==
  CASE enc = "U8"    -> "Linear"
    [] enc = "S8"    -> "PCM8s"
    [] enc = "S16LE" -> IF h = "little" THEN "Linear" ELSE "PCM16"
    [] enc = "S16BE" -> IF h = "big" THEN "Linear" ELSE "PCM16"
    [] enc = "ULAW"  -> "ULaw"
    [] enc = "ALAW"  -> "ALaw"

Choose ==
  /\ pc = "choose"
  /\ codec' = Codec(encoding, host)
  /\ pc' = "decode"
  /\ UNCHANGED <<encoding, host, file, data, buf, i>>

\* d[i] += (int8_t) 128
PCM8s ==
  /\ pc = "decode" /\ codec = "PCM8s" /\ i < Len(data)
  /\ data' = [data EXCEPT ![i + 1] = ToInt8(ToInt8(@) - 128) % 256]
  /\ i' = i + 1
  /\ UNCHANGED <<encoding, host, file, codec, buf, pc>>

\* int16_t x = d[i]; d[i] = x with its bytes swapped
PCM16 ==
  /\ pc = "decode" /\ codec = "PCM16" /\ i < Len(data) \div 2
  /\ LET x == Load16(host, <<data[2 * i + 1], data[2 * i + 2]>>)
         d == Store16(host, SwapBytes(x))
     IN data' = [data EXCEPT ![2 * i + 1] = d[1], ![2 * i + 2] = d[2]]
  /\ i' = i + 1
  /\ UNCHANGED <<encoding, host, file, codec, buf, pc>>

\* The bodies of the loops of _alutCodecULaw and _alutCodecALaw.
StoreSample(sample) ==
  /\ buf' = buf \o Store16(host, sample)
  /\ i' = i + 1
  /\ UNCHANGED <<encoding, host, file, codec, data, pc>>

ULaw ==
  /\ pc = "decode" /\ codec = "ULaw" /\ i < Len(data)
  /\ StoreSample(mulaw2linear(data[i + 1]))

ALaw ==
  /\ pc = "decode" /\ codec = "ALaw" /\ i < Len(data)
  /\ StoreSample(alaw2linear(data[i + 1]))

\* The loop is at its end, and _alutBufferDataConstruct gets data or buf.
Finish ==
  /\ pc = "decode"
  /\ \/ codec = "Linear"
     \/ codec = "PCM16" /\ i >= Len(data) \div 2
     \/ codec \in {"PCM8s", "ULaw", "ALaw"} /\ i >= Len(data)
  /\ pc' = "done"
  /\ UNCHANGED <<encoding, host, file, codec, data, buf, i>>

Done == pc = "done" /\ UNCHANGED vars

Next == Choose \/ PCM8s \/ PCM16 \/ ULaw \/ ALaw \/ Finish \/ Done

Spec == Init /\ [][Next]_vars

-----------------------------------------------------------------------------
(* What the bytes of a file stand for *)

\* Whole samples in the file.
NumSamples ==
  IF encoding \in {"S16LE", "S16BE"} THEN Len(file) \div 2 ELSE Len(file)

\* u-law and A-law after ITU-T G.711, which has 14 and 13 bits: the sign, the
\* segment and the step in it; the samples are aligned with those of 16 bits.
G711ULaw(b) ==
  LET s == ((255 - b) \div 16) % 8
      m == (255 - b) % 16
      magnitude == 4 * ((2 * m + 33) * 2 ^ s - 33)
  IN IF b < 128 THEN -magnitude ELSE magnitude

\* In A-law the bits with an even number are inverted.  A number of four bits
\* with the two of them inverted:
Inverted(n) == <<5, 4, 7, 6, 1, 0, 3, 2, 13, 12, 15, 14, 9, 8, 11, 10>>[n + 1]

G711ALaw(b) ==
  LET s == Inverted(b \div 16) % 8
      m == Inverted(b % 16)
      magnitude == IF s = 0 THEN 8 * (2 * m + 1)
                   ELSE 8 * (2 * m + 33) * 2 ^ (s - 1)
  IN IF b < 128 THEN -magnitude ELSE magnitude

\* Sample k of the file.
InFile(k) ==
  CASE encoding = "U8"    -> file[k] - 128
    [] encoding = "S8"    -> ToInt8(file[k])
    [] encoding = "S16LE" -> ToInt16(file[2 * k - 1] + 256 * file[2 * k])
    [] encoding = "S16BE" -> ToInt16(256 * file[2 * k - 1] + file[2 * k])
    [] encoding = "ULAW"  -> G711ULaw(file[k])
    [] encoding = "ALAW"  -> G711ALaw(file[k])

\* The memory that is passed on, and sample k in it as OpenAL takes it: 8 bits
\* without a sign, or an int16_t of the host.
Memory == IF codec \in {"ULaw", "ALaw"} THEN buf ELSE data

InBuffer(k) ==
  IF encoding \in {"U8", "S8"} THEN Memory[k] - 128
  ELSE Load16(host, <<Memory[2 * k - 1], Memory[2 * k]>>)

-----------------------------------------------------------------------------
(* Properties *)

\* A sample has the same value in the AL buffer as in the file, whatever the
\* encoding, the container and the byte order of the host (the choice in
\* alutLoader.c:132-154 and 228-250, and the codec it leads to).
SameValue == pc = "done" => \A k \in 1 .. NumSamples : InBuffer(k) = InFile(k)

=============================================================================
