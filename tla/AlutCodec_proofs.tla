-------------------------- MODULE AlutCodec_proofs --------------------------
(***************************************************************************)
(* The samples that reach OpenAL have the values they have in the file,    *)
(* for every file, every encoding and both byte orders of the host.        *)
(***************************************************************************)
EXTENDS AlutCodec, SequenceTheorems, TLAPS

-----------------------------------------------------------------------------
(* The decoding of a byte *)

\* The powers of two that occur.
LEMMA Powers ==
  /\ 2 ^ 0 = 1 /\ 2 ^ 1 = 2 /\ 2 ^ 2 = 4 /\ 2 ^ 3 = 8 /\ 2 ^ 4 = 16 /\ 2 ^ 5 = 32
  /\ 2 ^ 6 = 64 /\ 2 ^ 7 = 128 /\ 2 ^ 8 = 256 /\ 2 ^ 9 = 512 /\ 2 ^ 10 = 1024
OBVIOUS

\* The bounds of 16 bits with a sign.
LEMMA Int16Is ==
  ASSUME NEW r
  PROVE  r \in Int16 <=> r \in Int /\ r >= -32768 /\ r <= 32767
<1>1. 2 ^ 15 = 32768
  OBVIOUS
<1> QED BY <1>1 DEF Int16

\* The table and the shift of mulaw2linear are the formula of G.711.
LEMMA ULawValue ==
  ASSUME NEW b \in Byte
  PROVE  mulaw2linear(b) = G711ULaw(b) /\ mulaw2linear(b) \in Int16
<1> DEFINE n == 255 - b
           s == (n \div 16) % 8
           m == n % 16
<1>1. n \in 0 .. 255 /\ s \in 0 .. 7 /\ m \in 0 .. 15
  BY DEF Byte
<1> DEFINE power == 2 ^ (s + 3)
           x == ExpLut[s + 1] + m * power
           y == 4 * ((2 * m + 33) * 2 ^ s - 33)
<1>2. x = y /\ x \in Nat /\ x <= 32767
  <2> HIDE DEF s, m
  <2>1. s \in {0, 1, 2, 3, 4, 5, 6, 7}
    BY <1>1
  <2>2. CASE s = 0
    BY <1>1, <2>2, Powers DEF ExpLut
  <2>3. CASE s = 1
    BY <1>1, <2>3, Powers DEF ExpLut
  <2>4. CASE s = 2
    BY <1>1, <2>4, Powers DEF ExpLut
  <2>5. CASE s = 3
    BY <1>1, <2>5, Powers DEF ExpLut
  <2>6. CASE s = 4
    BY <1>1, <2>6, Powers DEF ExpLut
  <2>7. CASE s = 5
    BY <1>1, <2>7, Powers DEF ExpLut
  <2>8. CASE s = 6
    BY <1>1, <2>8, Powers DEF ExpLut
  <2>9. CASE s = 7
    BY <1>1, <2>9, Powers DEF ExpLut
  <2> HIDE DEF x, y
  <2> QED BY <2>1, <2>2, <2>3, <2>4, <2>5, <2>6, <2>7, <2>8, <2>9
<1>3. /\ mulaw2linear(b) = IF n >= 128 THEN -x ELSE x
      /\ G711ULaw(b) = IF b < 128 THEN -y ELSE y
  BY DEF mulaw2linear, G711ULaw
<1>4. n >= 128 <=> b < 128
  BY DEF Byte
<1> HIDE DEF x, y, n
<1>5. mulaw2linear(b) = G711ULaw(b) /\ mulaw2linear(b) \in {x, -x}
  BY <1>2, <1>3, <1>4 DEF Byte
<1> QED BY <1>2, <1>5, Int16Is

\* Inverting every other bit of a byte inverts those of its halves.
LEMMA XorHalves ==
  ASSUME NEW b \in Byte
  PROVE  /\ Xor55(b) \in Byte
         /\ Xor55(b) % 16 = Inverted(b % 16) /\ Inverted(b % 16) \in 0 .. 15
         /\ (Xor55(b) \div 16) % 8 = Inverted(b \div 16) % 8
         /\ Xor55(b) >= 128 <=> b >= 128
<1>1. Xor55(b) \in Byte /\ (Xor55(b) >= 128 <=> b >= 128)
  BY DEF Xor55, Byte
<1>2. Xor55(b) % 16 = Inverted(b % 16) /\ Inverted(b % 16) \in 0 .. 15
  BY DEF Xor55, Byte, Inverted
<1>3. (Xor55(b) \div 16) % 8 = Inverted(b \div 16) % 8
  BY DEF Xor55, Byte, Inverted
<1> QED BY <1>1, <1>2, <1>3

\* The shifts of alaw2linear are the formula of G.711.
LEMMA ALawValue ==
  ASSUME NEW b \in Byte
  PROVE  alaw2linear(b) = G711ALaw(b) /\ alaw2linear(b) \in Int16
<1> DEFINE v == Xor55(b)
           s == (v \div 16) % 8
           m == v % 16
           x == IF s = 0 THEN m * 16 + 8 ELSE (m * 16 + 264) * 2 ^ (s - 1)
           y == IF s = 0 THEN 8 * (2 * m + 1) ELSE 8 * (2 * m + 33) * 2 ^ (s - 1)
<1>1. v \in 0 .. 255 /\ s \in 0 .. 7 /\ m \in 0 .. 15
  <2>1. v \in 0 .. 255
    BY XorHalves DEF Byte
  <2> HIDE DEF v
  <2> QED BY <2>1
<1>2. x = y /\ x \in Nat /\ x <= 32767
  <2> HIDE DEF s, m
  <2>1. s \in {0, 1, 2, 3, 4, 5, 6, 7}
    BY <1>1
  <2>2. CASE s = 0
    BY <1>1, <2>2
  <2>3. CASE s = 1
    BY <1>1, <2>3, Powers
  <2>4. CASE s = 2
    BY <1>1, <2>4, Powers
  <2>5. CASE s = 3
    BY <1>1, <2>5, Powers
  <2>6. CASE s = 4
    BY <1>1, <2>6, Powers
  <2>7. CASE s = 5
    BY <1>1, <2>7, Powers
  <2>8. CASE s = 6
    BY <1>1, <2>8, Powers
  <2>9. CASE s = 7
    BY <1>1, <2>9, Powers
  <2> HIDE DEF x, y
  <2> QED BY <2>1, <2>2, <2>3, <2>4, <2>5, <2>6, <2>7, <2>8, <2>9
<1>3. /\ alaw2linear(b) = IF v >= 128 THEN x ELSE -x
      /\ G711ALaw(b) = IF b < 128 THEN -y ELSE y
  BY XorHalves DEF alaw2linear, G711ALaw
<1>4. v >= 128 <=> b >= 128
  BY XorHalves
<1> HIDE DEF x, y, v
<1>5. alaw2linear(b) = G711ALaw(b) /\ alaw2linear(b) \in {x, -x}
  BY <1>2, <1>3, <1>4 DEF Byte
<1> QED BY <1>2, <1>5, Int16Is

\* Taking away 128 in eight bits makes of a number with a sign one without.
LEMMA SignRemoved ==
  ASSUME NEW b \in Byte
  PROVE  /\ ToInt8(ToInt8(b) - 128) % 256 \in Byte
         /\ (ToInt8(ToInt8(b) - 128) % 256) - 128 = ToInt8(b)
BY DEF Byte, ToInt8

\* A number of 16 bits is its two bytes.
LEMMA Halves ==
  ASSUME NEW v \in Int16
  PROVE  /\ (v \div 256) % 256 \in Byte /\ v % 256 \in Byte
         /\ ToInt16(((v \div 256) % 256) * 256 + (v % 256)) = v
<1>1. v \in Int /\ v >= -32768 /\ v <= 32767
  BY Int16Is
<1> QED BY <1>1 DEF Byte, ToInt16

\* And two bytes are those of a number of 16 bits.
LEMMA Joined ==
  ASSUME NEW a \in Byte, NEW b \in Byte
  PROVE  /\ ToInt16(a * 256 + b) \in Int16
         /\ ToInt16(a * 256 + b) % 256 = b
         /\ (ToInt16(a * 256 + b) \div 256) % 256 = a
<1>1. ToInt16(a * 256 + b) % 256 = b
  BY DEF Byte, ToInt16
<1>2. (ToInt16(a * 256 + b) \div 256) % 256 = a
  BY DEF Byte, ToInt16
<1>3. /\ ToInt16(a * 256 + b) \in Int
      /\ ToInt16(a * 256 + b) >= -32768 /\ ToInt16(a * 256 + b) <= 32767
  BY DEF Byte, ToInt16
<1> QED BY <1>1, <1>2, <1>3, Int16Is

\* What a host stores it loads.
LEMMA StoreThenLoad ==
  ASSUME NEW v \in Int16, NEW h \in {"little", "big"}
  PROVE  /\ Store16(h, v)[1] \in Byte /\ Store16(h, v)[2] \in Byte
         /\ Len(Store16(h, v)) = 2
         /\ Load16(h, <<Store16(h, v)[1], Store16(h, v)[2]>>) = v
<1> DEFINE a == (v \div 256) % 256
           b == v % 256
<1>1. a \in Byte /\ b \in Byte /\ ToInt16(a * 256 + b) = v
  BY Halves
<1>2. Store16(h, v) = IF h = "big" THEN <<a, b>> ELSE <<b, a>>
  BY DEF Store16
<1> HIDE DEF a, b
<1>3. CASE h = "little"
  BY <1>1, <1>2, <1>3 DEF Load16
<1>4. CASE h = "big"
  BY <1>1, <1>2, <1>4 DEF Load16
<1> QED BY <1>3, <1>4

\* The bytes of a number change places.
LEMMA Swapped ==
  ASSUME NEW a \in Byte, NEW b \in Byte
  PROVE  SwapBytes(ToInt16(a * 256 + b)) = ToInt16(b * 256 + a)
<1> DEFINE x == ToInt16(a * 256 + b)
<1>1. x \in Int /\ x % 256 = b /\ (x \div 256) % 256 = a
  BY Joined, Int16Is
<1> HIDE DEF x
<1>2. (x * 256) % 65536 = (x % 256) * 256
  BY <1>1
<1>3. SwapBytes(x) = ToInt16(((x * 256) % 65536) + ((x \div 256) % 256))
  BY DEF SwapBytes
<1>4. SwapBytes(x) = ToInt16(b * 256 + a)
  BY <1>1, <1>2, <1>3
<1> QED BY <1>4 DEF x

\* A stored number is a pair of bytes.
LEMMA StoreType ==
  ASSUME NEW v \in Int16, NEW h \in {"little", "big"}
  PROVE  /\ Store16(h, v)[1] \in Byte /\ Store16(h, v)[2] \in Byte
         /\ Store16(h, v) = <<Store16(h, v)[1], Store16(h, v)[2]>>
<1> DEFINE a == (v \div 256) % 256
           b == v % 256
<1>1. a \in Byte /\ b \in Byte
  BY Halves
<1>2. Store16(h, v) = IF h = "big" THEN <<a, b>> ELSE <<b, a>>
  BY DEF Store16
<1> HIDE DEF a, b
<1>3. CASE h = "little"
  BY <1>1, <1>2, <1>3
<1>4. CASE h = "big"
  BY <1>1, <1>2, <1>4
<1> QED BY <1>3, <1>4

\* What PCM16 leaves on one kind of host is what the other kind loads.
LEMMA SwapThenLoad ==
  ASSUME NEW a \in Byte, NEW b \in Byte
  PROVE  /\ SwapBytes(Load16("little", <<a, b>>)) = Load16("big", <<a, b>>)
         /\ SwapBytes(Load16("big", <<a, b>>)) = Load16("little", <<a, b>>)
         /\ Load16("little", <<a, b>>) = ToInt16(b * 256 + a)
         /\ Load16("big", <<a, b>>) = ToInt16(a * 256 + b)
         /\ Load16("little", <<a, b>>) \in Int16 /\ Load16("big", <<a, b>>) \in Int16
<1>1. /\ Load16("little", <<a, b>>) = ToInt16(b * 256 + a)
      /\ Load16("big", <<a, b>>) = ToInt16(a * 256 + b)
  BY DEF Load16
<1> QED BY <1>1, Joined, Swapped

\* Both orders of two bytes, as the two kinds of hosts load them.
LEMMA BothOrders ==
  ASSUME NEW a \in Byte, NEW b \in Byte
  PROVE  /\ Load16("little", <<a, b>>) = ToInt16(a + 256 * b)
         /\ Load16("big", <<a, b>>) = ToInt16(256 * a + b)
         /\ SwapBytes(Load16("little", <<a, b>>)) = ToInt16(256 * a + b)
         /\ SwapBytes(Load16("big", <<a, b>>)) = ToInt16(a + 256 * b)
<1>1. b * 256 + a = a + 256 * b /\ a * 256 + b = 256 * a + b
  BY DEF Byte
<1> QED BY <1>1, SwapThenLoad

-----------------------------------------------------------------------------
(* The loops *)

\* What PCM8s makes of a byte, and the samples of the codecs with a table.
Unsigned(b) == ToInt8(ToInt8(b) - 128) % 256

Linear16(b) == IF codec = "ULaw" THEN mulaw2linear(b) ELSE alaw2linear(b)

\* Two bytes of one sample, before PCM16 has come to it and after.
Swap(a, b) == Store16(host, SwapBytes(Load16(host, <<a, b>>)))

Types ==
  /\ encoding \in Encodings /\ host \in {"little", "big"}
  /\ file \in Seq(Byte) /\ data \in Seq(Byte) /\ buf \in Seq(Byte)
  /\ Len(data) = Len(file) /\ i \in Nat
  /\ pc \in {"choose", "decode", "done"}
  /\ codec = IF pc = "choose" THEN "none" ELSE Codec(encoding, host)
  /\ pc = "choose" => i = 0 /\ data = file /\ buf = <<>>

\* At any time a codec that works in place has decoded the samples before i and
\* has not touched those after them.
InPlace ==
  /\ codec \in {"Linear", "ULaw", "ALaw"} => data = file
  /\ codec = "PCM8s" =>
       \A k \in 1 .. Len(file) :
         data[k] = IF k <= i THEN Unsigned(file[k]) ELSE file[k]
  /\ codec = "PCM16" =>
       \A k \in 1 .. Len(file) \div 2 :
         /\ k <= i => << data[2 * k - 1], data[2 * k] >>
                        = Swap(file[2 * k - 1], file[2 * k])
         /\ k > i => data[2 * k - 1] = file[2 * k - 1] /\ data[2 * k] = file[2 * k]

\* The others have put the samples before i into memory of their own.
InBuf ==
  codec \in {"ULaw", "ALaw"} =>
    /\ Len(buf) = 2 * i /\ i <= Len(file)
    /\ \A k \in 1 .. i :
         << buf[2 * k - 1], buf[2 * k] >> = Store16(host, Linear16(file[k]))

AtEnd ==
  pc = "done" =>
    \/ codec = "Linear"
    \/ codec = "PCM16" /\ i >= Len(file) \div 2
    \/ codec \in {"PCM8s", "ULaw", "ALaw"} /\ i >= Len(file)

CodecInv == Types /\ InPlace /\ InBuf /\ AtEnd

\* A swapped sample is a pair of bytes.
LEMMA SwapType ==
  ASSUME NEW a \in Byte, NEW b \in Byte, host \in {"little", "big"}
  PROVE  /\ Swap(a, b)[1] \in Byte /\ Swap(a, b)[2] \in Byte
         /\ Swap(a, b) = <<Swap(a, b)[1], Swap(a, b)[2]>>
<1>1. SwapBytes(Load16(host, <<a, b>>)) \in Int16
  BY SwapThenLoad
<1> QED BY <1>1, StoreType DEF Swap

\* Two bytes after others.
LEMMA TwoMore ==
  ASSUME NEW s \in Seq(Byte), NEW n \in Nat, Len(s) = n,
         NEW c \in Byte, NEW e \in Byte
  PROVE  /\ s \o <<c, e>> \in Seq(Byte) /\ Len(s \o <<c, e>>) = n + 2
         /\ (s \o <<c, e>>)[n + 1] = c /\ (s \o <<c, e>>)[n + 2] = e
         /\ \A k \in 1 .. n : (s \o <<c, e>>)[k] = s[k]
<1> DEFINE t == <<c, e>>
           u == s \o t
<1>1. t \in Seq(Byte) /\ Len(t) = 2 /\ t[1] = c /\ t[2] = e
  OBVIOUS
<1> HIDE DEF t
<1>2. /\ u \in Seq(Byte) /\ Len(u) = Len(s) + Len(t)
      /\ \A k \in 1 .. Len(s) + Len(t) :
           u[k] = IF k <= Len(s) THEN s[k] ELSE t[k - Len(s)]
  BY <1>1, ConcatProperties
<1> HIDE DEF u
<1>3. /\ Len(u) = n + 2
      /\ \A k \in 1 .. n + 2 : u[k] = IF k <= n THEN s[k] ELSE t[k - n]
  BY <1>1, <1>2
<1>4. u[n + 1] = t[1] /\ u[n + 2] = t[2]
  <2>1. /\ n + 1 - n = 1 /\ n + 2 - n = 2
        /\ n + 1 \in 1 .. n + 2 /\ n + 2 \in 1 .. n + 2
        /\ ~ n + 1 <= n /\ ~ n + 2 <= n
    OBVIOUS
  <2> QED BY <1>3, <2>1
<1>5. \A k \in 1 .. n : u[k] = s[k]
  BY <1>3
<1> QED BY <1>1, <1>2, <1>3, <1>4, <1>5 DEF u, t

LEMMA CodecInit == Init => CodecInv
<1> SUFFICES ASSUME Init PROVE CodecInv
  OBVIOUS
<1>1. file \in Seq(Byte)
  BY FilesAssumption DEF Init
<1> QED BY <1>1 DEF Init, CodecInv, Types, InPlace, InBuf, AtEnd

\* A codec is chosen for every encoding.
LEMMA CodecType ==
  ASSUME encoding \in Encodings, host \in {"little", "big"}
  PROVE  Codec(encoding, host) \in {"Linear", "PCM8s", "PCM16", "ULaw", "ALaw"}
BY DEF Encodings, Codec

LEMMA CodecStep == CodecInv /\ [Next]_vars => CodecInv'
<1> SUFFICES ASSUME CodecInv, [Next]_vars PROVE CodecInv'
  OBVIOUS
<1> USE DEF CodecInv
<1>1. CASE Choose
  <2>1. Types'
    BY <1>1 DEF Choose, Types
  <2>2. /\ i' = 0 /\ data' = file' /\ buf' = <<>> /\ file' \in Seq(Byte)
        /\ pc' = "decode"
    BY <1>1 DEF Choose, Types
  <2>3. InPlace'
    BY <2>2 DEF InPlace
  <2>4. InBuf' /\ AtEnd'
    BY <2>2 DEF InBuf, AtEnd
  <2> QED BY <2>1, <2>3, <2>4
<1>2. CASE PCM8s
  <2>0. /\ pc = "decode" /\ codec = "PCM8s" /\ i < Len(data) /\ i' = i + 1
        /\ data' = [data EXCEPT ![i + 1] = Unsigned(data[i + 1])]
        /\ UNCHANGED <<encoding, host, file, codec, buf, pc>>
    BY <1>2 DEF PCM8s, Unsigned
  <2>1. /\ data \in Seq(Byte) /\ file \in Seq(Byte) /\ Len(data) = Len(file)
        /\ i \in Nat /\ i + 1 \in 1 .. Len(data)
    BY <2>0 DEF Types
  <2>2. data[i + 1] \in Byte /\ Unsigned(data[i + 1]) \in Byte
    BY <2>1, SignRemoved DEF Unsigned
  <2>3. /\ data' \in Seq(Byte) /\ Len(data') = Len(data)
        /\ \A k \in 1 .. Len(data) :
             data'[k] = IF k = i + 1 THEN Unsigned(data[i + 1]) ELSE data[k]
    BY <2>0, <2>1, <2>2
  <2>4. Types'
    BY <2>0, <2>1, <2>3 DEF Types
  <2>5. InPlace'
    <3>1. \A k \in 1 .. Len(file) :
            data[k] = IF k <= i THEN Unsigned(file[k]) ELSE file[k]
      BY <2>0 DEF InPlace
    <3>2. ASSUME NEW k \in 1 .. Len(file)
          PROVE  data'[k] = IF k <= i + 1 THEN Unsigned(file[k]) ELSE file[k]
      BY <2>1, <2>3, <3>1
    <3> QED BY <2>0, <3>2 DEF InPlace, Unsigned
  <2>6. InBuf' /\ AtEnd'
    BY <2>0 DEF InBuf, AtEnd
  <2> QED BY <2>4, <2>5, <2>6
<1>3. CASE PCM16
  <2> DEFINE a == data[2 * i + 1]
             b == data[2 * i + 2]
             w == Swap(a, b)
  <2>0. /\ pc = "decode" /\ codec = "PCM16" /\ i < Len(data) \div 2 /\ i' = i + 1
        /\ data' = [data EXCEPT ![2 * i + 1] = w[1], ![2 * i + 2] = w[2]]
        /\ UNCHANGED <<encoding, host, file, codec, buf, pc>>
    BY <1>3 DEF PCM16, Swap
  <2>1. /\ data \in Seq(Byte) /\ file \in Seq(Byte) /\ Len(data) = Len(file)
        /\ Len(data) \in Nat
        /\ i \in Nat /\ 2 * i + 1 \in 1 .. Len(data) /\ 2 * i + 2 \in 1 .. Len(data)
    BY <2>0 DEF Types
  <2>2. a \in Byte /\ b \in Byte
    BY <2>1
  <2>3. w[1] \in Byte /\ w[2] \in Byte /\ w = <<w[1], w[2]>>
    BY <2>2, SwapType DEF Types
  <2>4. /\ data' \in Seq(Byte) /\ Len(data') = Len(data)
        /\ data'[2 * i + 1] = w[1] /\ data'[2 * i + 2] = w[2]
        /\ \A k \in 1 .. Len(data) :
             k # 2 * i + 1 /\ k # 2 * i + 2 => data'[k] = data[k]
    <3> HIDE DEF w
    <3> QED BY <2>0, <2>1, <2>3
  <2>5. Types'
    BY <2>0, <2>1, <2>4 DEF Types
  <2>6. InPlace'
    <3>1. \A k \in 1 .. Len(file) \div 2 :
            /\ k <= i => << data[2 * k - 1], data[2 * k] >>
                           = Swap(file[2 * k - 1], file[2 * k])
            /\ k > i => /\ data[2 * k - 1] = file[2 * k - 1]
                        /\ data[2 * k] = file[2 * k]
      BY <2>0 DEF InPlace
    <3>2. ASSUME NEW k \in 1 .. Len(file) \div 2
          PROVE  /\ k <= i + 1 => << data'[2 * k - 1], data'[2 * k] >>
                                    = Swap(file[2 * k - 1], file[2 * k])
                 /\ k > i + 1 => /\ data'[2 * k - 1] = file[2 * k - 1]
                                 /\ data'[2 * k] = file[2 * k]
      <4>1. 2 * k - 1 \in 1 .. Len(data) /\ 2 * k \in 1 .. Len(data)
        BY <2>1
      <4>2. CASE k = i + 1
        <5>1. 2 * k - 1 = 2 * i + 1 /\ 2 * k = 2 * i + 2 /\ k > i
          BY <2>1, <4>2
        <5>2. a = file[2 * k - 1] /\ b = file[2 * k]
          BY <3>1, <5>1
        <5>3. << data'[2 * k - 1], data'[2 * k] >> = w
          BY <2>3, <2>4, <5>1
        <5> QED BY <2>1, <4>2, <5>2, <5>3
      <4>3. CASE k # i + 1
        <5>1. /\ 2 * k - 1 # 2 * i + 1 /\ 2 * k - 1 # 2 * i + 2
              /\ 2 * k # 2 * i + 1 /\ 2 * k # 2 * i + 2
          BY <2>1, <4>3
        <5>2. data'[2 * k - 1] = data[2 * k - 1] /\ data'[2 * k] = data[2 * k]
          BY <2>4, <4>1, <5>1
        <5>3. (k <= i + 1 => k <= i) /\ (k > i + 1 => k > i)
          BY <2>1, <4>3
        <5> QED BY <3>1, <5>2, <5>3
      <4> QED BY <4>2, <4>3
    <3> QED BY <2>0, <3>2 DEF InPlace, Swap
  <2>7. InBuf' /\ AtEnd'
    BY <2>0 DEF InBuf, AtEnd
  <2> QED BY <2>5, <2>6, <2>7
<1>4. CASE ULaw \/ ALaw
  <2> DEFINE x == Linear16(data[i + 1])
             w == Store16(host, x)
  <2>0. /\ pc = "decode" /\ codec \in {"ULaw", "ALaw"} /\ i < Len(data)
        /\ i' = i + 1 /\ buf' = buf \o w
        /\ UNCHANGED <<encoding, host, file, codec, data, pc>>
    BY <1>4 DEF ULaw, ALaw, StoreSample, Linear16
  <2>1. /\ data = file /\ file \in Seq(Byte) /\ buf \in Seq(Byte)
        /\ i \in Nat /\ i + 1 \in 1 .. Len(file) /\ Len(buf) = 2 * i
    BY <2>0 DEF Types, InPlace, InBuf
  <2>2. x \in Int16
    <3>1. data[i + 1] \in Byte
      BY <2>1
    <3> QED BY <3>1, ULawValue, ALawValue DEF Linear16
  <2>3. w[1] \in Byte /\ w[2] \in Byte /\ w = <<w[1], w[2]>>
    <3> HIDE DEF x
    <3> QED BY <2>2, StoreType DEF Types
  <2>4. /\ buf' \in Seq(Byte) /\ Len(buf') = 2 * i + 2
        /\ buf'[2 * i + 1] = w[1] /\ buf'[2 * i + 2] = w[2]
        /\ \A k \in 1 .. 2 * i : buf'[k] = buf[k]
    <3> HIDE DEF w
    <3> DEFINE c == w[1]
               e == w[2]
    <3>1. c \in Byte /\ e \in Byte /\ buf' = buf \o <<c, e>>
      BY <2>0, <2>3
    <3> HIDE DEF c, e
    <3>2. /\ buf' \in Seq(Byte) /\ Len(buf') = 2 * i + 2
          /\ buf'[2 * i + 1] = c /\ buf'[2 * i + 2] = e
          /\ \A k \in 1 .. 2 * i : buf'[k] = buf[k]
      <4>1. 2 * i \in Nat
        BY <2>1
      <4> QED BY <2>1, <3>1, <4>1, TwoMore
    <3> QED BY <3>2 DEF c, e
  <2>5. Types'
    BY <2>0, <2>1, <2>4 DEF Types
  <2>6. InPlace' /\ AtEnd'
    BY <2>0, <2>1 DEF InPlace, AtEnd
  <2>7. InBuf'
    <3>1. \A k \in 1 .. i :
            << buf[2 * k - 1], buf[2 * k] >> = Store16(host, Linear16(file[k]))
      BY <2>0 DEF InBuf
    <3>2. ASSUME NEW k \in 1 .. i + 1
          PROVE  << buf'[2 * k - 1], buf'[2 * k] >> = Store16(host, Linear16(file[k]))
      <4>1. CASE k = i + 1
        <5>1. 2 * k - 1 = 2 * i + 1 /\ 2 * k = 2 * i + 2
          BY <2>1, <4>1
        <5>2. << buf'[2 * k - 1], buf'[2 * k] >> = w
          BY <2>3, <2>4, <5>1
        <5> QED BY <2>1, <4>1, <5>2
      <4>2. CASE k \in 1 .. i
        <5>1. 2 * k - 1 \in 1 .. 2 * i /\ 2 * k \in 1 .. 2 * i
          BY <2>1, <4>2
        <5> QED BY <2>4, <3>1, <4>2, <5>1
      <4> QED BY <2>1, <4>1, <4>2
    <3>3. Len(buf') = 2 * i' /\ i' <= Len(file)
      BY <2>0, <2>1, <2>4
    <3> QED BY <2>0, <3>2, <3>3 DEF InBuf, Linear16
  <2> QED BY <2>5, <2>6, <2>7
<1>5. CASE Finish
  <2>1. /\ pc' = "done" /\ pc = "decode"
        /\ UNCHANGED <<encoding, host, file, codec, data, buf, i>>
    BY <1>5 DEF Finish
  <2>2. Types'
    BY <2>1 DEF Types
  <2>3. InPlace'
    BY <2>1 DEF InPlace, Swap
  <2>4. InBuf'
    BY <2>1 DEF InBuf, Linear16
  <2>5. AtEnd'
    BY <1>5, <2>1 DEF AtEnd, Finish, Types
  <2> QED BY <2>2, <2>3, <2>4, <2>5
<1>6. CASE UNCHANGED vars
  BY <1>6 DEF vars, Types, InPlace, InBuf, AtEnd, Swap, Linear16
<1> QED BY <1>1, <1>2, <1>3, <1>4, <1>5, <1>6 DEF Next, Done

\* The invariant of the loops of the codecs.
THEOREM CodecInductive == Spec => []CodecInv
BY CodecInit, CodecStep, PTL DEF Spec

\* A sample has the same value in the AL buffer as in the file, for every file,
\* whatever the encoding, the container and the byte order of the host.
THEOREM SamplesKeepTheirValues == Spec => []SameValue
<1>1. ASSUME CodecInv PROVE SameValue
  <2> SUFFICES ASSUME pc = "done", NEW k \in 1 .. NumSamples
               PROVE  InBuffer(k) = InFile(k)
    BY DEF SameValue
  <2> USE <1>1 DEF CodecInv
  <2>0. /\ encoding \in Encodings /\ host \in {"little", "big"}
        /\ file \in Seq(Byte) /\ Len(file) \in Nat /\ i \in Nat
        /\ codec = Codec(encoding, host)
    BY DEF Types
  <2>1. CASE encoding = "U8"
    <3>1. codec = "Linear" /\ data = file
      BY <2>0, <2>1 DEF Codec, InPlace
    <3> QED BY <2>1, <3>1 DEF InBuffer, InFile, Memory
  <2>2. CASE encoding = "S8"
    <3>1. codec = "PCM8s" /\ k \in 1 .. Len(file)
      BY <2>0, <2>2 DEF Codec, NumSamples
    <3>2. data[k] = Unsigned(file[k]) /\ file[k] \in Byte
      BY <2>0, <3>1 DEF InPlace, AtEnd
    <3>3. Unsigned(file[k]) - 128 = ToInt8(file[k])
      BY <3>2, SignRemoved DEF Unsigned
    <3> QED BY <2>2, <3>1, <3>2, <3>3 DEF InBuffer, InFile, Memory
  <2>3. CASE encoding \in {"S16LE", "S16BE"}
    <3> DEFINE a == file[2 * k - 1]
               b == file[2 * k]
    <3>1. /\ k \in 1 .. Len(file) \div 2
          /\ 2 * k - 1 \in 1 .. Len(file) /\ 2 * k \in 1 .. Len(file)
      BY <2>0, <2>3 DEF NumSamples
    <3>2. a \in Byte /\ b \in Byte
      BY <2>0, <3>1
    <3>3. CASE codec = "Linear"
      <4>1. Memory = file
        BY <3>3 DEF InPlace, Memory
      <4>2. InBuffer(k) = Load16(host, <<a, b>>)
        BY <2>3, <4>1 DEF InBuffer
      <4> QED BY <2>0, <2>3, <3>2, <3>3, <4>2, BothOrders DEF InFile, Codec
    <3>4. CASE codec = "PCM16"
      <4>1. << data[2 * k - 1], data[2 * k] >> = Swap(a, b)
        BY <2>0, <3>1, <3>4 DEF InPlace, AtEnd
      <4>2. InBuffer(k) = Load16(host, Swap(a, b))
        BY <2>3, <3>4, <4>1 DEF InBuffer, Memory
      <4>3. Load16(host, Swap(a, b)) = SwapBytes(Load16(host, <<a, b>>))
        BY <2>0, <3>2, SwapThenLoad, StoreThenLoad, StoreType DEF Swap
      <4> QED BY <2>0, <2>3, <3>2, <3>4, <4>2, <4>3, BothOrders DEF InFile, Codec
    <3> QED BY <2>0, <2>3, <3>3, <3>4 DEF Codec
  <2>4. CASE encoding \in {"ULAW", "ALAW"}
    <3>1. /\ codec = (IF encoding = "ULAW" THEN "ULaw" ELSE "ALaw")
          /\ k \in 1 .. Len(file)
      BY <2>0, <2>4 DEF Codec, NumSamples
    <3>2. /\ << buf[2 * k - 1], buf[2 * k] >> = Store16(host, Linear16(file[k]))
          /\ file[k] \in Byte
      BY <2>0, <3>1, <2>4 DEF InBuf, AtEnd
    <3>3. Linear16(file[k]) = InFile(k) /\ Linear16(file[k]) \in Int16
      BY <2>4, <3>1, <3>2, ULawValue, ALawValue DEF Linear16, InFile
    <3>4. InBuffer(k) = Load16(host, Store16(host, Linear16(file[k])))
      BY <2>4, <3>1, <3>2 DEF InBuffer, Memory
    <3>5. Load16(host, Store16(host, Linear16(file[k]))) = Linear16(file[k])
      BY <2>0, <3>3, StoreThenLoad, StoreType
    <3> QED BY <3>3, <3>4, <3>5
  <2> QED BY <2>0, <2>1, <2>2, <2>3, <2>4 DEF Encodings
<1> QED BY <1>1, CodecInductive, PTL

-----------------------------------------------------------------------------
(* What the loaders rely on *)

\* The loops stay in the data, so that what is left of them can be counted.
InBounds == i <= Len(file)

LEMMA InBoundsStep == CodecInv /\ InBounds /\ [Next]_vars => InBounds'
<1> SUFFICES ASSUME CodecInv, InBounds, [Next]_vars PROVE InBounds'
  OBVIOUS
<1>1. i \in Nat /\ Len(file) \in Nat /\ Len(data) = Len(file)
  BY DEF CodecInv, Types
<1>2. UNCHANGED <<file, i>> \/ (i < Len(data) /\ i' = i + 1 /\ UNCHANGED file)
  BY <1>1 DEF Next, Choose, PCM8s, PCM16, ULaw, ALaw, StoreSample, Finish, Done, vars
<1> QED BY <1>1, <1>2 DEF InBounds

LEMMA InBoundsInductive == Spec => [](CodecInv /\ InBounds)
<1>1. Init => InBounds
  <2>1. Init => i = 0 /\ Len(file) \in Nat
    BY FilesAssumption DEF Init
  <2> QED BY <2>1 DEF InBounds
<1> QED BY <1>1, CodecInit, CodecStep, InBoundsStep, PTL DEF Spec

\* A codec with memory of its own has filled the two bytes for each byte of the
\* file that it asked for, and the others leave as many bytes as they were given:
\* the length passed on (alutCodec.c:29, 43, 63, 107, 135) is that of the memory.
THEOREM LengthIsPassedOn ==
  Spec => [](pc = "done" =>
               Len(Memory) = IF encoding \in {"ULAW", "ALAW"}
                             THEN 2 * Len(file) ELSE Len(file))
<1>1. ASSUME CodecInv, InBounds, pc = "done"
      PROVE  Len(Memory) = IF encoding \in {"ULAW", "ALAW"}
                           THEN 2 * Len(file) ELSE Len(file)
  <2>1. /\ encoding \in Encodings /\ codec = Codec(encoding, host)
        /\ Len(data) = Len(file) /\ i \in Nat /\ Len(file) \in Nat
        /\ host \in {"little", "big"}
    BY <1>1 DEF CodecInv, Types
  <2>2. codec \in {"ULaw", "ALaw"} <=> encoding \in {"ULAW", "ALAW"}
    BY <2>1 DEF Encodings, Codec
  <2>3. codec \in {"ULaw", "ALaw"} => Len(buf) = 2 * Len(file)
    BY <1>1, <2>1 DEF CodecInv, InBuf, AtEnd, InBounds
  <2> QED BY <2>1, <2>2, <2>3 DEF Memory
<1> QED BY <1>1, InBoundsInductive, PTL

\* What is left to do: the choice, a sample after the other, and the end.
StepsLeft ==
  IF pc = "choose" THEN Len(file) + 2
  ELSE IF pc = "decode" THEN Len(file) - i + 1 ELSE 0

Nearer == StepsLeft \in Nat /\ StepsLeft' \in Nat /\ StepsLeft' < StepsLeft

\* Every step of every codec is one nearer to the end: whatever the file is, no
\* loop of src/alutCodec.c:43-135 goes on for ever or begins again.
THEOREM EveryStepIsNearerToTheEnd == Spec => [][Nearer]_vars
<1>1. CodecInv /\ InBounds /\ (CodecInv /\ InBounds)' /\ [Next]_vars => [Nearer]_vars
  <2> SUFFICES ASSUME CodecInv, InBounds, Next PROVE Nearer \/ UNCHANGED vars
    OBVIOUS
  <2>1. i \in Nat /\ Len(file) \in Nat /\ Len(data) = Len(file) /\ i <= Len(file)
    BY DEF CodecInv, Types, InBounds
  <2>2. pc = "choose" => i = 0
    BY DEF CodecInv, Types
  <2>3. CASE Choose \/ Finish
    BY <2>1, <2>2, <2>3 DEF Choose, Finish, Nearer, StepsLeft
  <2>4. CASE PCM8s \/ PCM16 \/ ULaw \/ ALaw
    <3>1. /\ pc = "decode" /\ pc' = "decode" /\ file' = file
          /\ i' = i + 1 /\ i < Len(file)
      BY <2>1, <2>4 DEF PCM8s, PCM16, ULaw, ALaw, StoreSample
    <3> QED BY <2>1, <3>1 DEF Nearer, StepsLeft
  <2> QED BY <2>3, <2>4 DEF Next, Done
<1> QED BY <1>1, InBoundsInductive, PTL DEF Spec

=============================================================================
