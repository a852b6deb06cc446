------------------------------- MODULE AlutIMA4 -------------------------------
(***************************************************************************)
(* _alutCodecIMA4 (src/alutCodec.c:137-249), one nibble at a time.         *)
(*                                                                         *)
(* Of a decoded sample the buffer holds where it came from: the byte and   *)
(* the half of it.  The values are those of the state of the decoder,      *)
(* predictor and index, and of the step made last.  Who owns the memory    *)
(* afterwards, and the calls with no block size or no channels, are in     *)
(* AlutLoader.                                                             *)
(*                                                                         *)
(* Block sizes are those of a file, any number that is not zero: nothing   *)
(* in the code asks for whole groups.  An access outside of the data or of *)
(* the new memory may stop the program (Trap); if it does not, what is     *)
(* read there is like what is read anywhere, and the decoder goes on.      *)
(***************************************************************************)
EXTENDS AlutBytes, Sequences

CONSTANTS
  Calls,           \* the channels, blockAlign and length of a call
  Predictors,      \* Predictors[c]: in the headers of the blocks of call c
  Indexes,         \* Indexes[c]: the step indexes there
  Nibbles,         \* Nibbles[c][n]: for nibble n of a channel in a group of eight
  BeyondStepTable, \* what is read there
  SizeMod,         \* size_t counts modulo SizeMod
  MaxAlloc         \* malloc can succeed for this many bytes, and for no more

\* The data are in memory already.
ASSUME IMA4Assumption ==
  /\ SizeMod \in Nat /\ MaxAlloc \in Nat /\ MaxAlloc < SizeMod
  /\ \A c \in Calls :
       /\ c.channels \in Nat \ {0} /\ c.align \in Nat \ {0}
       /\ c.length \in 0 .. MaxAlloc
       /\ Predictors[c] \subseteq Int16 /\ Indexes[c] \subseteq Byte
       /\ \A n \in 1 .. 8 : Nibbles[c][n] \subseteq 0 .. 15
  /\ BeyondStepTable \subseteq Int16

VARIABLES
  call,
  pc,
  block,            \* i in the code
  j,                \* place in the block, counted as the code does
  chn, q,           \* channel, and nibbles of it done in the group
  d,                \* bytes read
  ptr,              \* samples of whole groups written
  predictor, index, \* of each channel
  buf,              \* where the samples written came from
  last              \* the step made last

place == <<block, j, chn, q, d, ptr>>
vars == <<call, pc, place, predictor, index, buf, last>>

Channels == 0 .. call.channels - 1

\* An incomplete block counts as one.
blocks_RoundedUp == (call.length + call.align - 1) \div call.align

blocks == call.length \div call.align

\* Two bytes for each byte, as if it held one sample.
PassedOn_OneSampleAByte == ((call.align - call.channels) * blocks * 2) % SizeMod

\* Four bytes for each byte of a block but one for each channel.
Wanted == (call.align - call.channels) * blocks * 4

\* The size of the memory asked for, and the length passed on with it.
PassedOn == Wanted % SizeMod

Init ==
  /\ call \in Calls
  /\ pc = "allocate"
  /\ block = 0 /\ j = 0 /\ chn = 0 /\ q = 0 /\ d = 0 /\ ptr = 0
  /\ predictor = [c \in Channels |-> 0] /\ index = [c \in Channels |-> 0]
  /\ buf = <<>>
  /\ last = [nibble |-> 0, step |-> 0, from |-> 0, to |-> 0]

-----------------------------------------------------------------------------
(* ima2linear *)

IndexTable == <<-1, -1, -1, -1, 2, 4, 6, 8>>

StepTable ==
  << 7, 8, 9, 10, 11, 12, 13, 14, 16, 17,
     19, 21, 23, 25, 28, 31, 34, 37, 41, 45,
     50, 55, 60, 66, 73, 80, 88, 97, 107, 118,
     130, 143, 157, 173, 190, 209, 230, 253, 279, 307,
     337, 371, 408, 449, 494, 544, 598, 658, 724, 796,
     876, 963, 1060, 1166, 1282, 1411, 1552, 1707, 1878, 2066,
     2272, 2499, 2749, 3024, 3327, 3660, 4026, 4428, 4871, 5358,
     5894, 6484, 7132, 7845, 8630, 9493, 10442, 11487, 12635, 13899,
     15289, 16818, 18500, 20350, 22385, 24623, 27086, 29794, 32767 >>

\* The index is an int8_t; it is not limited before it is used.
Steps(idx) ==
  IF ToInt8(idx) \in 0 .. 88 THEN {StepTable[idx + 1]} ELSE BeyondStepTable

\* Only the upper limit is kept.
NextIndex_NoFloor(nibble, idx) ==
  LET n == ToInt8(ToInt8(idx) + IndexTable[(nibble % 8) + 1])
  IN (IF n > 88 THEN 88 ELSE n) % 256

NextIndex(nibble, idx) ==
  LET n == ToInt8(ToInt8(idx) + IndexTable[(nibble % 8) + 1])
  IN IF n < 0 THEN 0 ELSE IF n > 88 THEN 88 ELSE n

\* The step is not halved for the second bit.
Diff_WholeStep(nibble, step) ==
  LET bit(b) == (nibble \div b) % 2
  IN ToInt16(step \div 8 + bit(4) * step + bit(2) * step + bit(1) * (step \div 4))

\* Bits 4, 2 and 1 of the nibble add the step, a half and a quarter of it.
Diff(nibble, step) ==
  LET bit(b) == (nibble \div b) % 2
  IN ToInt16(step \div 8 + bit(4) * step + bit(2) * (step \div 2)
                         + bit(1) * (step \div 4))

\* The sum wraps around.
NextPredictor(nibble, step, from) ==
  ToInt16(IF nibble >= 8 THEN from - Diff(nibble, step)
          ELSE from + Diff(nibble, step))

-----------------------------------------------------------------------------
(* Steps *)

\* There is no memory, or there are more channels than MAX_IMA_CHANNELS.
Refuse ==
  /\ pc = "allocate"
  /\ pc' = "refused"
  /\ UNCHANGED <<call, place, predictor, index, buf, last>>

\* A block in which there is no group is over with its header.
AtBlock(b) == IF b < blocks THEN "header" ELSE "done"

Allocate ==
  /\ pc = "allocate" /\ call.channels <= 2 /\ PassedOn <= MaxAlloc
  /\ pc' = AtBlock(0)
  /\ UNCHANGED <<call, place, predictor, index, buf, last>>

\* Two bytes of predictor, one of index, and one that is not looked at.
Header ==
  /\ pc = "header"
  /\ \E p \in Predictors[call] : predictor' = [predictor EXCEPT ![chn] = p]
  /\ \E x \in Indexes[call] : index' = [index EXCEPT ![chn] = x]
  /\ d' = d + 4
  /\ IF chn + 1 < call.channels
     THEN chn' = chn + 1 /\ UNCHANGED <<pc, block, j>>
     ELSE /\ chn' = 0
          /\ j' = 4 * call.channels
          /\ IF j' < call.align
             THEN pc' = "group" /\ UNCHANGED block
             ELSE block' = block + 1 /\ pc' = AtBlock(block + 1)
  /\ UNCHANGED <<call, q, ptr, buf, last>>

\* The samples of a channel are written next to each other.
Place_NotInterleaved == ptr + 8 * chn + q

\* Samples of the channels take turns: ptr + chn, and on by numChannels.
Place == ptr + chn + q * call.channels

\* The lower half of a byte first, then the upper, and on to the next byte.
Nibble ==
  /\ pc = "group"
  /\ \E n \in Nibbles[call][q + 1] : \E s \in Steps(index[chn]) :
       LET p == NextPredictor(n, s, predictor[chn]) IN
       /\ predictor' = [predictor EXCEPT ![chn] = p]
       /\ index' = [index EXCEPT ![chn] = NextIndex(n, index[chn])]
       /\ last' = [nibble |-> n, step |-> s, from |-> predictor[chn], to |-> p]
  /\ buf' = [k \in DOMAIN buf \cup {Place} |->
               IF k = Place THEN <<d, q % 2>> ELSE buf[k]]
  /\ d' = d + (q % 2)
  /\ \/ q < 7 /\ q' = q + 1 /\ UNCHANGED <<pc, block, j, chn, ptr>>
     \/ /\ q = 7 /\ chn + 1 < call.channels
        /\ q' = 0 /\ chn' = chn + 1
        /\ UNCHANGED <<pc, block, j, ptr>>
     \/ /\ q = 7 /\ chn + 1 = call.channels
        /\ q' = 0 /\ chn' = 0
        /\ j' = j + 4 * call.channels
        /\ ptr' = ptr + 8 * call.channels
        /\ IF j' < call.align THEN UNCHANGED <<pc, block>>
           ELSE block' = block + 1 /\ pc' = AtBlock(block + 1)
  /\ UNCHANGED call

\* The next byte of the data is read, or the next sample written, where there is
\* none.  The last byte of a header is passed over.
Trap ==
  /\ \/ pc = "header" /\ d + 3 > call.length
     \/ pc = "group" /\ (d >= call.length \/ 2 * Place + 2 > PassedOn)
  /\ pc' = "trapped"
  /\ UNCHANGED <<call, place, predictor, index, buf, last>>

Returned == pc \in {"done", "refused", "trapped"} /\ UNCHANGED vars

Next == Refuse \/ Allocate \/ Header \/ Nibble \/ Trap \/ Returned

Spec == Init /\ [][Next]_vars

-----------------------------------------------------------------------------
(* Properties *)

\* The groups of four bytes for each channel that the loops take a block to have:
\* a group that has begun is finished (alutCodec.c:222-245).
Groups == (call.align - 1) \div (4 * call.channels)

\* The bytes they take for a block, and how many of them it does not have.  A file
\* as the format has it is one with Missing = 0.
Stride == 4 * call.channels * (Groups + 1)

Missing == Stride - call.align

\* Types; once a nibble has been decoded, the index is one of the table again,
\* whatever the header said (alutCodec.c:168-170).
TypeOK ==
  /\ call \in Calls
  /\ pc \in {"allocate", "header", "group", "done", "refused", "trapped"}
  /\ block \in 0 .. blocks /\ j \in 0 .. Stride
  /\ chn \in Channels /\ q \in 0 .. 7
  /\ d \in 0 .. blocks * Stride /\ ptr \in Nat
  /\ predictor \in [Channels -> Int16] /\ index \in [Channels -> Byte]
  /\ pc = "group" /\ q > 0 => index[chn] \in 0 .. 88
  /\ \A k \in DOMAIN buf : k \in Nat

\* Where sample k of the sound is in the file: the blocks follow each other; a
\* block is a header of four bytes for each channel and groups, and a group is
\* four bytes of each channel, eight samples of it.  The code takes the blocks to
\* be whole: one that is not borrows from the next, and all after it are shifted.
Source(k) ==
  LET c == k % call.channels
      n == k \div call.channels
      perBlock == (2 * (Stride - 4 * call.channels)) \div call.channels
      m == n % perBlock
      group == 1 + (m \div 8)
  IN << (n \div perBlock) * Stride + 4 * call.channels * group + 4 * c
          + ((m % 8) \div 2),
        m % 2 >>

\* Every sample written is the one that belongs there, with the samples of two
\* channels taking turns (alutCodec.c:222-244).
Interleaved == \A k \in DOMAIN buf : buf[k] = Source(k)

\* At the end everything before ptr is decoded and nothing after it; only an
\* incomplete block at the end of the data is dropped.  Of the bytes passed on
\* the last twelve for each channel of a block are not decoded, because the code
\* counts the header of a channel as one byte and not as four (alutCodec.c:200,
\* 247), less four for each byte that is missing from a block.
DecodesUpToTheTail ==
  pc = "done" =>
    /\ DOMAIN buf = 0 .. ptr - 1
    /\ d = blocks * Stride
    /\ call.length - blocks * call.align \in 0 .. call.align - 1
    /\ Wanted \in 0 .. SizeMod - 1 =>
         PassedOn - 2 * ptr = (12 * call.channels - 4 * Missing) * blocks

\* The samples written behind the memory that was asked for.
Behind == {k \in DOMAIN buf : 2 * k + 2 > PassedOn}

\* The blocks of two channels that end with the first byte of a group: the group
\* needs 32 bytes, and four are asked for, with the 24 that are always too many.
OneByteTooMany == call.channels = 2 /\ call.align % 8 = 1 /\ call.align > 8

\* The decoder does not check that a block is whole (alutLoader.c:121,
\* alutCodec.c:199-245), and leaves its memory in these cases and in no other.  It
\* writes behind the new memory when blocks have OneByteTooMany, or when the size
\* wanted is not a size_t.  It goes behind the data (at the very end by no more
\* than the byte of a header that it passes over) when the blocks miss more bytes
\* than there are behind the last of them.
LeavesItsMemory ==
  /\ Behind # {} => OneByteTooMany \/ Wanted >= SizeMod
  /\ d > call.length => blocks * Missing > call.length - blocks * call.align
  /\ pc = "done" =>
       /\ OneByteTooMany /\ blocks > 0 => Behind # {}
       /\ blocks * Missing > call.length - blocks * call.align => d > call.length

\* A step is the middle of the eight the nibble divides the range of the table
\* into, (2 * delta + 1) / 8 of the step, less what the shifts cut off; and the
\* sample moves by it in the direction of the sign, except that neither is
\* limited to 16 bits: both wrap around (alutCodec.c:172-183).
MovesByTheStep ==
  LET exact == (2 * (last.nibble % 8) + 1) * last.step
      moved == IF last.nibble >= 8 THEN last.from - last.to
               ELSE last.to - last.from
  IN last.step >= 0 =>
       \E wrap \in {-65536, 0, 65536} :
         /\ exact - 8 * (moved + wrap) \in 0 .. 31
         /\ wrap # 0 => \/ last.from + exact \div 8 > 32767
                        \/ last.from - exact \div 8 < -32768
                        \/ exact \div 8 > 32767

=============================================================================
