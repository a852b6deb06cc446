-------------------------- MODULE AlutIMA4_proofs ---------------------------
(***************************************************************************)
(* The IMA4 decoder for every length, every size of a block, whole or not, *)
(* and whatever the blocks contain: where the samples come from, how many  *)
(* there are, when the decoder leaves its memory, and how far a step moves.*)
(***************************************************************************)
EXTENDS AlutIMA4, TLAPS

-----------------------------------------------------------------------------
(* Arithmetic *)

\* A number is its whole parts and what is left of it.
LEMMA DivMod ==
  ASSUME NEW n \in Int, NEW g \in Nat \ {0}
  PROVE  /\ n \div g \in Int /\ n % g \in 0 .. g - 1
         /\ n = ((n \div g) * g) + (n % g)
OBVIOUS

\* A product of numbers of which one is greater is greater.
LEMMA Monotone ==
  ASSUME NEW a \in Int, NEW b \in Int, NEW g \in Nat, a >= b
  PROVE  a * g >= b * g
<1>1. (a - b) * g >= 0
  OBVIOUS
<1> QED BY <1>1

\* The quotient and the rest are the only ones.
LEMMA QuotientIs ==
  ASSUME NEW n \in Int, NEW g \in Nat \ {0}, NEW w \in Int, NEW r \in 0 .. g - 1,
         n = (w * g) + r
  PROVE  n \div g = w /\ n % g = r
<1> DEFINE v == n \div g
           x == n % g
<1>1. v \in Int /\ x \in 0 .. g - 1 /\ n = (v * g) + x
  BY DivMod
<1> HIDE DEF v, x
<1>2. v * g \in Int /\ w * g \in Int
  BY <1>1
<1>3. ~ v >= w + 1
  <2>1. v >= w + 1 => v * g >= (w + 1) * g
    BY <1>1, Monotone
  <2>2. (w + 1) * g = (w * g) + g
    OBVIOUS
  <2> QED BY <1>1, <1>2, <2>1, <2>2
<1>4. ~ w >= v + 1
  <2>1. w >= v + 1 => w * g >= (v + 1) * g
    BY <1>1, Monotone
  <2>2. (v + 1) * g = (v * g) + g
    BY <1>1
  <2> QED BY <1>1, <1>2, <2>1, <2>2
<1>5. v = w
  BY <1>1, <1>3, <1>4
<1>6. x = r
  BY <1>1, <1>2, <1>5
<1> QED BY <1>5, <1>6 DEF v, x

\* The bounds of 16 bits with a sign.
LEMMA Int16Is ==
  ASSUME NEW r
  PROVE  r \in Int16 <=> r \in Int /\ r >= -32768 /\ r <= 32767
<1>1. 2 ^ 15 = 32768
  OBVIOUS
<1> QED BY <1>1 DEF Int16

\* A conversion to int16_t leads to one of the values it has.
LEMMA ToInt16Type ==
  ASSUME NEW n \in Int
  PROVE  ToInt16(n) \in Int16
<1>1. /\ ToInt16(n) \in Int /\ ToInt16(n) >= -32768 /\ ToInt16(n) <= 32767
  BY DEF ToInt16
<1> QED BY <1>1, Int16Is

-----------------------------------------------------------------------------
(* Blocks *)

\* The group of eight samples that j is at.
Group == (j \div (4 * call.channels)) - 1

\* A block is taken to have whole groups, of which there may be none, and has at
\* least the header and the groups before the last.
LEMMA CallTypes ==
  ASSUME call \in Calls
  PROVE  /\ call.channels \in Nat \ {0} /\ call.length \in Nat
         /\ call.align \in Nat \ {0} /\ Groups \in Nat /\ Stride \in Nat \ {0}
         /\ Stride = 4 * call.channels * (Groups + 1)
         /\ Missing \in 0 .. 4 * call.channels - 1
         /\ call.align = Stride - Missing
<1> DEFINE c == call.channels
           a == call.align
           w == 4 * c
           e == a - 1
           x == e \div w
           r == e % w
<1>1. /\ c \in Nat \ {0} /\ a \in Nat \ {0} /\ call.length \in Nat
  <2>1. MaxAlloc \in Nat /\ call.length \in 0 .. MaxAlloc
    BY IMA4Assumption
  <2> QED BY <2>1, IMA4Assumption
<1>2. w \in Nat \ {0} /\ e \in Nat /\ a = e + 1
  BY <1>1
<1>3. /\ Groups = x /\ Stride = w * (Groups + 1) /\ Missing = Stride - a
  BY DEF Groups, Stride, Missing
<1>b. 4 * call.channels = w
  OBVIOUS
<1> HIDE DEF c, a, w, e
<1>4. x \in Int /\ r \in 0 .. w - 1 /\ e = (x * w) + r
  BY <1>2, DivMod
<1> HIDE DEF x, r
<1>5. x >= 0
  <2>1. -1 >= x => (-1) * w >= x * w
    BY <1>2, <1>4, Monotone
  <2>2. (-1) * w = -w /\ x * w \in Int
    BY <1>2, <1>4
  <2> QED BY <1>2, <1>4, <2>1, <2>2
<1>6. w * (x + 1) = (x * w) + w /\ x * w \in Nat
  BY <1>2, <1>4, <1>5
<1>7. Stride \in Nat \ {0} /\ Missing = w - 1 - r
  <2> DEFINE v == x * w
  <2>1. Stride = v + w /\ e = v + r /\ v \in Nat
    BY <1>3, <1>4, <1>6
  <2> HIDE DEF v
  <2> QED BY <1>1, <1>2, <1>3, <1>4, <2>1
<1>8. Missing \in 0 .. w - 1 /\ a = Stride - Missing /\ Groups \in Nat
  BY <1>1, <1>2, <1>3, <1>4, <1>5, <1>7
<1> QED BY <1>1, <1>3, <1>7, <1>8, <1>b DEF c, a

\* The loop over a block goes on exactly as long as there are groups in it.
LEMMA GroupsEnd ==
  ASSUME call \in Calls, call.channels \in {1, 2}, NEW g \in Nat
  PROVE  4 * call.channels * (g + 1) < call.align <=> g < Groups
<1>1. /\ Groups \in Nat /\ call.align = (4 * call.channels * (Groups + 1)) - Missing
      /\ Missing \in 0 .. 4 * call.channels - 1
  BY CallTypes
<1>2. CASE call.channels = 1
  BY <1>1, <1>2
<1>3. CASE call.channels = 2
  BY <1>1, <1>3
<1> QED BY <1>2, <1>3

\* The whole blocks of the data.
LEMMA BlocksType ==
  ASSUME call \in Calls
  PROVE  /\ blocks \in Nat
         /\ call.length - blocks * call.align \in 0 .. call.align - 1
<1> DEFINE l == call.length
           a == call.align
           n == l \div a
<1>1. l \in Nat /\ a \in Nat \ {0}
  BY CallTypes
<1> HIDE DEF l, a
<1>2. n \in Int /\ l % a \in 0 .. a - 1 /\ l = (n * a) + (l % a)
  BY <1>1, DivMod
<1> HIDE DEF n
<1>3. n >= 0
  <2>1. -1 >= n => (-1) * a >= n * a
    BY <1>1, <1>2, Monotone
  <2>2. (-1) * a = -a /\ n * a \in Int
    BY <1>1, <1>2
  <2> QED BY <1>1, <1>2, <2>1, <2>2
<1>4. n * a \in Int
  BY <1>1, <1>2
<1>5. n \in Nat /\ l - n * a \in 0 .. a - 1
  BY <1>1, <1>2, <1>3, <1>4
<1> QED BY <1>5 DEF n, l, a, blocks

\* What the decoder is at: before a block is read, at the header of a channel, in
\* a group, or at the end.
Where ==
  /\ call \in Calls
  /\ pc \in {"allocate", "header", "group", "done", "refused", "trapped"}
  /\ pc \in {"header", "group", "done"} => call.channels \in {1, 2}
  /\ block \in Nat /\ chn \in Channels /\ q \in 0 .. 7
  /\ j \in 0 .. Stride
  /\ pc \notin {"header", "group", "trapped"} => chn = 0 /\ q = 0
  /\ pc \in {"allocate", "refused"} => block = 0 /\ d = 0 /\ ptr = 0
  /\ pc = "header" => /\ block < blocks /\ q = 0
                      /\ d = block * Stride + 4 * chn
                      /\ ptr = 8 * call.channels * (block * Groups)
  /\ pc = "group" => /\ block < blocks
                     /\ Group \in 0 .. Groups - 1
                     /\ j = 4 * call.channels * (Group + 1)
                     /\ d = block * Stride + j + 4 * chn + q \div 2
                     /\ ptr = 8 * call.channels * (block * Groups + Group)
  /\ pc = "done" => /\ block = blocks
                    /\ d = block * Stride
                    /\ ptr = 8 * call.channels * (block * Groups)
  /\ pc = "trapped" => /\ block <= blocks /\ d \in 0 .. blocks * Stride
                       /\ ptr \in Nat

\* The samples written: those of whole groups, and of the group at hand those of
\* the channels done and the first q of the present one.
Covered ==
  {k \in Nat :
     \/ k < ptr
     \/ /\ pc = "group"
        /\ k >= ptr /\ k < ptr + 8 * call.channels
        /\ \/ (k - ptr) % call.channels < chn
           \/ /\ (k - ptr) % call.channels = chn
              /\ (k - ptr) \div call.channels < q}

Filled ==
  /\ pc # "trapped" => DOMAIN buf = Covered
  /\ DOMAIN buf \subseteq Nat
  /\ Interleaved

\* The next block begins where the last one ended.
LEMMA NextBlock ==
  ASSUME NEW b \in Nat, NEW g \in Nat
  PROVE  b * g \in Nat /\ (b + 1) * g \in Nat /\ (b + 1) * g = (b * g) + g
OBVIOUS

LEMMA WhereInit == Init => Where /\ Filled
<1> SUFFICES ASSUME Init PROVE Where /\ Filled
  OBVIOUS
<1>1. call \in Calls
  BY DEF Init
<1>2. call.channels \in Nat \ {0} /\ Stride \in Nat
  BY <1>1, CallTypes
<1>3. Where
  BY <1>1, <1>2 DEF Init, Where, Channels
<1>4. DOMAIN buf = {}
  BY DEF Init
<1>5. Covered = {}
  BY DEF Init, Covered
<1> QED BY <1>3, <1>4, <1>5 DEF Filled, Interleaved

\* Where a sample of a group comes from.
LEMMA SourceOfPlace ==
  ASSUME Where, pc = "group"
  PROVE  Source(Place) = <<d, q % 2>>
<1> DEFINE c == call.channels
           g == Group
           n == (8 * (block * Groups + g)) + q
           perBlock == (2 * (Stride - 4 * c)) \div c
<1>1. /\ call \in Calls /\ c \in {1, 2} /\ block \in Nat /\ chn \in 0 .. c - 1
      /\ q \in 0 .. 7 /\ g \in 0 .. Groups - 1
      /\ d = block * Stride + (4 * c * (g + 1)) + 4 * chn + q \div 2
      /\ ptr = 8 * c * (block * Groups + g)
  BY DEF Where, Channels
<1>2. Groups \in Nat /\ Stride \in Nat /\ Stride = 4 * c * (Groups + 1)
  BY <1>1, CallTypes
<1>3. block * Groups \in Nat /\ block * Stride \in Nat
  BY <1>1, <1>2
<1> HIDE DEF g
<1>4. perBlock = 8 * Groups
  <2>1. CASE c = 1
    BY <1>2, <2>1
  <2>2. CASE c = 2
    BY <1>2, <2>2
  <2> QED BY <1>1, <2>1, <2>2
<1>5. n \in Nat /\ Place % c = chn /\ Place \div c = n
  <2>1. Place = ptr + chn + q * c
    BY DEF Place
  <2>2. block * Groups + g \in Nat
    BY <1>1, <1>2, <1>3
  <2>3. n \in Nat /\ Place = n * c + chn
    <3> DEFINE m == block * Groups + g
    <3>1. /\ m \in Nat /\ ptr = 8 * c * m /\ n = 8 * m + q
          /\ c \in {1, 2} /\ chn \in Int /\ q \in Nat
      BY <1>1, <2>2
    <3> HIDE DEF m, n, c
    <3>2. CASE c = 1
      BY <2>1, <3>1, <3>2
    <3>3. CASE c = 2
      BY <2>1, <3>1, <3>3
    <3> QED BY <3>1, <3>2, <3>3
  <2> HIDE DEF n
  <2>4. Place \in Int /\ c \in Nat \ {0} /\ chn \in 0 .. c - 1 /\ n \in Int
    BY <1>1, <2>3
  <2> QED BY <2>3, <2>4, QuotientIs
<1>6. n \div perBlock = block /\ n % perBlock = 8 * g + q
  <2> DEFINE w == 8 * Groups
             r == 8 * g + q
  <2>1. w \in Nat \ {0} /\ r \in 0 .. w - 1 /\ block \in Int /\ n \in Int
    BY <1>1, <1>2, <1>5
  <2>2. n = (block * w) + r
    <3>1. block * (8 * Groups) = 8 * (block * Groups)
      BY <1>1, <1>2
    <3> QED BY <1>1, <1>3, <3>1
  <2> HIDE DEF w, r, n
  <2>3. n \div w = block /\ n % w = r
    BY <2>1, <2>2, QuotientIs
  <2> QED BY <1>4, <2>3 DEF w, r
<1>7. /\ (8 * g + q) \div 8 = g /\ (8 * g + q) % 8 = q /\ (8 * g + q) % 2 = q % 2
  BY <1>1
<1> HIDE DEF n, perBlock
<1>8. Source(Place) = << block * Stride + 4 * c * (1 + g) + 4 * chn + q \div 2,
                         q % 2 >>
  BY <1>5, <1>6, <1>7 DEF Source, perBlock
<1>9. 4 * c * (1 + g) = 4 * c * (g + 1)
  BY <1>1
<1> QED BY <1>1, <1>8, <1>9

\* What a call has stays the same.
LEMMA SameCall ==
  ASSUME UNCHANGED call
  PROVE  /\ blocks' = blocks /\ Groups' = Groups /\ Channels' = Channels
         /\ Stride' = Stride /\ Missing' = Missing
         /\ Wanted' = Wanted /\ PassedOn' = PassedOn
         /\ OneByteTooMany' = OneByteTooMany
         /\ \A k : Source(k)' = Source(k)
BY DEF blocks, Groups, Channels, Source, Stride, Missing, Wanted, PassedOn,
       OneByteTooMany

\* At the end of a block, or before the first, the next header follows or nothing.
LEMMA BlockStep ==
  ASSUME Where, UNCHANGED call, call.channels \in {1, 2},
         NEW b \in Nat, block' = b, b <= blocks, pc' = AtBlock(b),
         chn' = 0, q' = 0, j' \in 0 .. Stride,
         d' = b * Stride, ptr' = 8 * call.channels * (b * Groups)
  PROVE  Where'
<1>1. /\ call \in Calls /\ blocks \in Nat
      /\ blocks' = blocks /\ Groups' = Groups /\ Channels' = Channels
      /\ Stride' = Stride
  BY SameCall, BlocksType DEF Where
<1>2. 0 \in Channels /\ b * Stride \in Nat
  <2>1. Stride \in Nat
    BY <1>1, CallTypes
  <2> QED BY <2>1 DEF Channels
<1>3. CASE b < blocks
  BY <1>1, <1>2, <1>3 DEF Where, AtBlock
<1>4. CASE b = blocks
  BY <1>1, <1>2, <1>4 DEF Where, AtBlock
<1> QED BY <1>1, <1>3, <1>4

LEMMA AllocateStep ==
  ASSUME Where, Filled, Allocate
  PROVE  Where' /\ Filled'
<1>1. /\ pc = "allocate" /\ call.channels <= 2 /\ pc' = AtBlock(0)
      /\ UNCHANGED <<call, block, j, chn, q, d, ptr, buf>>
  BY DEF Allocate, place
<1>2. /\ call \in Calls /\ block = 0 /\ d = 0 /\ ptr = 0 /\ chn = 0 /\ q = 0
      /\ j \in 0 .. Stride
  BY <1>1 DEF Where
<1>3. /\ call.channels \in {1, 2} /\ blocks \in Nat /\ Groups \in Nat
      /\ Stride \in Nat
  <2>1. call.channels \in Nat \ {0}
    BY <1>2, CallTypes
  <2>2. call.channels \in {1, 2}
    BY <1>1, <2>1
  <2> QED BY <1>2, <2>2, CallTypes, BlocksType
<1>4. 0 * Stride = 0 /\ 0 * Groups = 0
  BY <1>3
<1>5. Where'
  BY <1>1, <1>2, <1>3, <1>4, BlockStep
<1>6. Covered' = Covered
  <2>1. pc' # "group" /\ pc # "group"
    BY <1>1 DEF AtBlock
  <2> QED BY <1>1, <2>1 DEF Covered
<1> QED BY <1>1, <1>5, <1>6, SameCall DEF Filled, Interleaved

LEMMA HeaderStep ==
  ASSUME Where, Filled, Header
  PROVE  Where' /\ Filled'
<1> DEFINE c == call.channels
<1>1. /\ pc = "header" /\ d' = d + 4
      /\ UNCHANGED <<call, q, ptr, buf>>
  BY DEF Header
<1>2. /\ call \in Calls /\ c \in {1, 2} /\ block \in Nat /\ block < blocks /\ q = 0
      /\ chn \in 0 .. c - 1 /\ j \in 0 .. Stride
      /\ d = block * Stride + 4 * chn /\ ptr = 8 * c * (block * Groups)
  BY <1>1 DEF Where, Channels
<1>3. /\ blocks \in Nat /\ Groups \in Nat /\ Stride \in Nat
      /\ Stride = 4 * c * (Groups + 1)
      /\ block * Stride \in Nat /\ block * Groups \in Nat
  BY <1>2, CallTypes, BlocksType
<1>4. /\ blocks' = blocks /\ Groups' = Groups /\ Channels' = 0 .. c - 1
      /\ Stride' = Stride
  BY <1>1, SameCall DEF Channels
<1>a. 4 * c < call.align <=> 0 < Groups
  <2>1. 4 * c * (0 + 1) = 4 * c
    BY <1>2
  <2> QED BY <1>2, <2>1, GroupsEnd
<1>5. CASE chn + 1 < c
  <2>1. pc' = "header" /\ chn' = chn + 1 /\ UNCHANGED <<block, j>>
    BY <1>1, <1>5 DEF Header
  <2>2. chn' \in 0 .. c - 1 /\ d' = block * Stride + 4 * chn'
    BY <1>1, <1>2, <1>3, <1>5, <2>1
  <2>3. Where'
    BY <1>1, <1>2, <1>4, <2>1, <2>2 DEF Where
  <2>4. Covered' = Covered
    BY <1>1, <2>1 DEF Covered
  <2> QED BY <1>1, <2>3, <2>4, SameCall DEF Filled, Interleaved
<1>6. CASE ~ chn + 1 < c /\ 4 * c < call.align
  <2>1. pc' = "group" /\ chn' = 0 /\ j' = 4 * c /\ UNCHANGED block
    BY <1>6 DEF Header
  <2>2. chn = c - 1 /\ d' = block * Stride + 4 * c
    BY <1>1, <1>2, <1>3, <1>6
  <2>3. Group' = 0 /\ Groups >= 1 /\ 4 * c <= Stride
    <3>1. CASE c = 1
      BY <1>1, <1>3, <1>6, <1>a, <2>1, <3>1 DEF Group
    <3>2. CASE c = 2
      BY <1>1, <1>3, <1>6, <1>a, <2>1, <3>2 DEF Group
    <3> QED BY <1>2, <3>1, <3>2
  <2>4. Where'
    <3>1. /\ j' = 4 * c * (0 + 1) /\ j' \in 0 .. Stride
          /\ ptr' = 8 * c * (block * Groups + 0)
          /\ d' = block * Stride + j' + 4 * 0 + 0 \div 2
      <4>1. 4 * c * (0 + 1) = 4 * c /\ 0 \div 2 = 0 /\ 4 * c \in Nat
        BY <1>2
      <4>2. block * Groups + 0 = block * Groups
        BY <1>3
      <4>3. j' \in 0 .. Stride
        BY <1>3, <2>1, <2>3, <4>1
      <4>4. d' = block * Stride + j' + 4 * 0 + 0 \div 2
        BY <1>3, <2>1, <2>2, <4>1
      <4> QED BY <1>1, <1>2, <2>1, <4>1, <4>2, <4>3, <4>4
    <3>2. q' = 0 /\ 0 \in 0 .. Groups - 1 /\ 0 \in 0 .. c - 1
      BY <1>1, <1>2, <1>3, <2>3
    <3> QED BY <1>1, <1>2, <1>4, <2>1, <2>3, <3>1, <3>2 DEF Where
  <2>5. Covered' = Covered
    <3>1. ASSUME NEW k \in Nat, k >= ptr, k < ptr + 8 * c
          PROVE  (k - ptr) % c >= 0 /\ (k - ptr) \div c >= 0
      <4>1. CASE c = 1
        BY <1>2, <1>3, <3>1, <4>1
      <4>2. CASE c = 2
        BY <1>2, <1>3, <3>1, <4>2
      <4> QED BY <1>2, <4>1, <4>2
    <3>2. ASSUME NEW k \in Nat, k >= ptr, k < ptr + 8 * c
          PROVE  ~ \/ (k - ptr) % c < 0
                   \/ (k - ptr) % c = 0 /\ (k - ptr) \div c < 0
      <4>1. (k - ptr) % c \in Int /\ (k - ptr) \div c \in Int
        BY <1>2, <1>3, <3>2
      <4> QED BY <3>1, <3>2, <4>1
    <3> QED BY <1>1, <1>2, <2>1, <3>2 DEF Covered
  <2> QED BY <1>1, <2>4, <2>5, SameCall DEF Filled, Interleaved
<1>7. CASE ~ chn + 1 < c /\ ~ 4 * c < call.align
  <2>1. /\ chn' = 0 /\ j' = 4 * c /\ block' = block + 1 /\ pc' = AtBlock(block + 1)
    BY <1>7 DEF Header
  <2>2. chn = c - 1 /\ Stride = 4 * c /\ Groups = 0
    BY <1>2, <1>3, <1>7, <1>a
  <2>3. (block + 1) * Stride = (block * Stride) + Stride
    BY <1>2, <1>3, NextBlock
  <2>4. d' = (block + 1) * Stride
    BY <1>1, <1>2, <1>3, <2>2, <2>3
  <2>5. ptr' = 8 * c * ((block + 1) * Groups)
    BY <1>1, <1>2, <2>2
  <2>6. block + 1 \in Nat /\ block + 1 <= blocks /\ j' \in 0 .. Stride /\ q' = 0
    BY <1>1, <1>2, <1>3, <2>1, <2>2
  <2>7. Where'
    BY <1>1, <1>2, <2>1, <2>4, <2>5, <2>6, BlockStep
  <2>8. Covered' = Covered
    <3>1. pc' # "group" /\ pc # "group"
      BY <1>1, <2>1 DEF AtBlock
    <3> QED BY <1>1, <3>1 DEF Covered
  <2> QED BY <1>1, <2>7, <2>8, SameCall DEF Filled, Interleaved
<1> QED BY <1>5, <1>6, <1>7

\* The samples of a group are written one at a time, each at its own place.
LEMMA CoveredStep ==
  ASSUME NEW c \in {1, 2}, NEW p \in Nat, NEW h \in 0 .. c - 1, NEW n \in 0 .. 7,
         NEW k \in Nat, k >= p, k < p + 8 * c
  PROVE  /\ k = p + h + n * c <=> (k - p) % c = h /\ (k - p) \div c = n
         /\ (k - p) % c \in 0 .. c - 1 /\ (k - p) \div c \in 0 .. 7
         /\ p + h + n * c \in Nat /\ p + h + n * c >= p /\ p + h + n * c < p + 8 * c
<1>1. CASE c = 1
  BY <1>1
<1>2. CASE c = 2
  <2> DEFINE r == k - p
  <2>1. r \in Nat /\ r < 16 /\ (k = p + h + n * 2 <=> r = h + n * 2)
    BY <1>2
  <2> HIDE DEF r
  <2>2. /\ r = h + n * 2 <=> r % 2 = h /\ r \div 2 = n
        /\ r % 2 \in 0 .. 1 /\ r \div 2 \in 0 .. 7
    BY <1>2, <2>1
  <2>3. /\ p + h + n * 2 \in Nat /\ p + h + n * 2 >= p /\ p + h + n * 2 < p + 16
    BY <1>2
  <2> QED BY <1>2, <2>1, <2>2, <2>3 DEF r
<1> QED BY <1>1, <1>2

\* The place of a sample is in its group.
LEMMA PlaceType ==
  ASSUME NEW c \in {1, 2}, NEW p \in Nat, NEW h \in 0 .. c - 1, NEW n \in 0 .. 7
  PROVE  /\ p + h + n * c \in Nat
         /\ p + h + n * c >= p /\ p + h + n * c < p + 8 * c
<1>1. CASE c = 1
  BY <1>1
<1>2. CASE c = 2
  BY <1>2
<1> QED BY <1>1, <1>2

LEMMA NibbleStep ==
  ASSUME Where, Filled, Nibble
  PROVE  Where' /\ Filled'
<1> DEFINE c == call.channels
           b == block * Groups
<1>1. /\ pc = "group" /\ d' = d + (q % 2)
      /\ buf' = [k \in DOMAIN buf \cup {Place} |->
                   IF k = Place THEN <<d, q % 2>> ELSE buf[k]]
      /\ UNCHANGED call
  BY DEF Nibble
<1>2. /\ call \in Calls /\ c \in {1, 2} /\ block \in Nat /\ block < blocks
      /\ q \in 0 .. 7 /\ chn \in 0 .. c - 1 /\ j \in 0 .. Stride
      /\ Group \in 0 .. Groups - 1 /\ j = 4 * c * (Group + 1)
      /\ d = block * Stride + j + 4 * chn + q \div 2
      /\ ptr = 8 * c * (b + Group)
  BY <1>1 DEF Where, Channels
<1>3. /\ blocks \in Nat /\ Groups \in Nat /\ Stride \in Nat
      /\ Stride = 4 * c * (Groups + 1)
      /\ block * Stride \in Nat /\ b \in Nat
  BY <1>2, CallTypes, BlocksType
<1>4. /\ blocks' = blocks /\ Groups' = Groups /\ Channels' = 0 .. c - 1
      /\ Stride' = Stride
  BY <1>1, SameCall DEF Channels
<1>5. Interleaved'
  <2>1. Source(Place) = <<d, q % 2>>
    BY <1>1, SourceOfPlace
  <2>2. \A k \in DOMAIN buf : buf[k] = Source(k)
    BY DEF Filled, Interleaved
  <2>3. \A k \in DOMAIN buf' : buf'[k] = Source(k)
    BY <1>1, <2>1, <2>2
  <2> QED BY <1>1, <2>3, SameCall DEF Interleaved
<1>6. /\ DOMAIN buf' = Covered \cup {Place} /\ Place = ptr + chn + q * c
      /\ ptr \in Nat /\ DOMAIN buf' \subseteq Nat
  <2>1. ptr \in Nat
    <3>1. b + Group \in Nat
      BY <1>2, <1>3
    <3> QED BY <1>2, <3>1
  <2>2. DOMAIN buf' = Covered \cup {Place} /\ Place = ptr + chn + q * c
    BY <1>1 DEF Filled, Place
  <2>3. Place \in Nat /\ Covered \subseteq Nat
    <3> HIDE DEF c, b
    <3>1. ptr + chn + q * c \in Nat
      BY <1>2, <2>1, PlaceType
    <3> QED BY <2>2, <3>1 DEF Covered
  <2> QED BY <2>1, <2>2, <2>3
<1> HIDE DEF b
<1>7. ASSUME NEW k \in Nat, k >= ptr, k < ptr + 8 * c
       PROVE  /\ k = Place <=> (k - ptr) % c = chn /\ (k - ptr) \div c = q
              /\ (k - ptr) \div c \in 0 .. 7 /\ (k - ptr) % c \in 0 .. c - 1
  <2>1. /\ c \in {1, 2} /\ ptr \in Nat /\ chn \in 0 .. c - 1 /\ q \in 0 .. 7
    BY <1>2, <1>6
  <2> HIDE DEF c
  <2>2. /\ k = ptr + chn + q * c <=> (k - ptr) % c = chn /\ (k - ptr) \div c = q
        /\ (k - ptr) % c \in 0 .. c - 1 /\ (k - ptr) \div c \in 0 .. 7
    BY <2>1, <1>7, CoveredStep
  <2> QED BY <1>6, <2>2
<1>8. CASE q < 7
  <2>1. q' = q + 1 /\ UNCHANGED <<pc, block, j, chn, ptr>>
    BY <1>2, <1>8 DEF Nibble
  <2>2. Where'
    <3>1. Group' = Group
      BY <1>1, <2>1 DEF Group
    <3>2. d' = block * Stride + j + 4 * chn + q' \div 2 /\ q' \in 0 .. 7
      BY <1>1, <1>2, <1>3, <1>8, <2>1
    <3> QED BY <1>1, <1>2, <1>4, <2>1, <3>1, <3>2 DEF Where, b
  <2>3. Covered' = Covered \cup {Place}
    <3>1. ASSUME NEW k \in Nat
          PROVE  k \in Covered' <=> k \in Covered \/ k = Place
      <4>1. CASE k >= ptr /\ k < ptr + 8 * c
        <5>1. /\ k = Place <=> (k - ptr) % c = chn /\ (k - ptr) \div c = q
              /\ (k - ptr) \div c \in 0 .. 7
          BY <1>7, <4>1
        <5>2. (k - ptr) \div c < q + 1
                <=> (k - ptr) \div c < q \/ (k - ptr) \div c = q
          BY <1>2, <5>1
        <5> QED BY <1>1, <1>6, <2>1, <4>1, <5>1, <5>2 DEF Covered
      <4>2. CASE k < ptr
        BY <1>1, <1>6, <2>1, <4>2 DEF Covered
      <4>3. CASE ~ k < ptr + 8 * c
        <5>1. k # Place
          BY <1>2, <1>6, <4>3, PlaceType
        <5> QED BY <1>1, <1>2, <1>6, <2>1, <4>3, <5>1 DEF Covered
      <4> QED BY <1>6, <4>1, <4>2, <4>3
    <3>2. Place \in Nat /\ Covered \subseteq Nat /\ Covered' \subseteq Nat
      BY <1>2, <1>6, PlaceType DEF Covered
    <3> QED BY <3>1, <3>2
  <2> QED BY <1>5, <1>6, <2>2, <2>3 DEF Filled
<1>9. CASE q = 7 /\ chn + 1 < c
  <2>1. q' = 0 /\ chn' = chn + 1 /\ UNCHANGED <<pc, block, j, ptr>>
    BY <1>2, <1>9 DEF Nibble
  <2>2. Where'
    <3>1. Group' = Group
      BY <1>1, <2>1 DEF Group
    <3>2. d' = block * Stride + j + 4 * chn' + q' \div 2 /\ chn' \in 0 .. c - 1
      <4> DEFINE x == block * Stride
      <4>1. /\ x \in Nat /\ j \in Int /\ chn \in Nat /\ c \in Nat
            /\ d = x + j + 4 * chn + 3 /\ d' = d + 1 /\ q' \div 2 = 0
        <5>1. /\ x \in Nat /\ c \in Nat /\ q = 7 /\ chn \in Nat /\ j \in Int
              /\ d = x + j + 4 * chn + q \div 2
          BY <1>2, <1>3, <1>9
        <5>2. d' = d + (q % 2) /\ q' = 0
          BY <1>1, <2>1
        <5> HIDE DEF x, c
        <5>3. q \div 2 = 3 /\ q % 2 = 1 /\ q' \div 2 = 0
          BY <5>1, <5>2
        <5> QED BY <5>1, <5>2, <5>3
      <4> HIDE DEF x, c
      <4>2. d' = x + j + 4 * chn' + q' \div 2 /\ chn' \in 0 .. c - 1
        BY <1>9, <2>1, <4>1
      <4> QED BY <4>2 DEF x
    <3> QED BY <1>1, <1>2, <1>4, <2>1, <3>1, <3>2 DEF Where, b
  <2>3. Covered' = Covered \cup {Place}
    <3>1. ASSUME NEW k \in Nat
          PROVE  k \in Covered' <=> k \in Covered \/ k = Place
      <4>1. CASE k >= ptr /\ k < ptr + 8 * c
        <5>1. /\ k = Place <=> (k - ptr) % c = chn /\ (k - ptr) \div c = q
              /\ (k - ptr) \div c \in 0 .. 7 /\ (k - ptr) % c \in 0 .. c - 1
          BY <1>7, <4>1
        <5>2. /\ (k - ptr) \div c < q \/ (k - ptr) \div c = q
              /\ ~ (k - ptr) \div c < 0
              /\ (k - ptr) % c < chn + 1
                   <=> (k - ptr) % c < chn \/ (k - ptr) % c = chn
          BY <1>2, <1>9, <5>1
        <5> QED BY <1>1, <1>6, <2>1, <4>1, <5>1, <5>2 DEF Covered
      <4>2. CASE k < ptr
        BY <1>1, <1>6, <2>1, <4>2 DEF Covered
      <4>3. CASE ~ k < ptr + 8 * c
        <5>1. k # Place
          BY <1>2, <1>6, <4>3, PlaceType
        <5> QED BY <1>1, <1>2, <1>6, <2>1, <4>3, <5>1 DEF Covered
      <4> QED BY <1>6, <4>1, <4>2, <4>3
    <3>2. Place \in Nat /\ Covered \subseteq Nat /\ Covered' \subseteq Nat
      BY <1>2, <1>6, PlaceType DEF Covered
    <3> QED BY <3>1, <3>2
  <2> QED BY <1>5, <1>6, <2>2, <2>3 DEF Filled
<1>10. CASE q = 7 /\ ~ chn + 1 < c
  <2>1. /\ chn = c - 1 /\ chn + 1 = c
    BY <1>2, <1>10
  <2>2. /\ q' = 0 /\ chn' = 0 /\ j' = j + 4 * c /\ ptr' = ptr + 8 * c
        /\ IF j' < call.align THEN UNCHANGED <<pc, block>>
           ELSE block' = block + 1 /\ pc' = AtBlock(block + 1)
    BY <1>2, <1>10, <2>1 DEF Nibble
  <2>3. Covered' = Covered \cup {Place}
    <3>1. ASSUME NEW k \in Nat
          PROVE  k \in Covered' <=> k \in Covered \/ k = Place
      <4>1. CASE k >= ptr /\ k < ptr + 8 * c
        <5>1. /\ k = Place <=> (k - ptr) % c = chn /\ (k - ptr) \div c = q
              /\ (k - ptr) \div c \in 0 .. 7 /\ (k - ptr) % c \in 0 .. c - 1
          BY <1>7, <4>1
        <5>2. /\ (k - ptr) \div c < q \/ (k - ptr) \div c = q
              /\ (k - ptr) % c < chn \/ (k - ptr) % c = chn
          BY <1>2, <1>10, <2>1, <5>1
        <5>3. k \in Covered \/ k = Place
          BY <1>1, <1>6, <4>1, <5>1, <5>2 DEF Covered
        <5>4. k < ptr'
          BY <1>2, <2>2, <4>1
        <5> QED BY <5>3, <5>4 DEF Covered
      <4>2. CASE k < ptr
        <5>1. k < ptr'
          BY <1>2, <1>6, <2>2, <4>2
        <5> QED BY <4>2, <5>1 DEF Covered
      <4>3. CASE ~ k < ptr + 8 * c
        <5>1. k # Place /\ ~ k < ptr' /\ ~ k < ptr
          BY <1>2, <1>6, <2>2, <4>3, PlaceType
        <5>2. k \notin Covered
          BY <4>3, <5>1 DEF Covered
        <5>3. ~ /\ k >= ptr' /\ k < ptr' + 8 * c
                /\ \/ (k - ptr') % c < 0
                   \/ (k - ptr') % c = 0 /\ (k - ptr') \div c < 0
          <6>1. ptr' \in Nat
            BY <1>2, <1>6, <2>2
          <6>2. ASSUME k >= ptr', k < ptr' + 8 * c
                PROVE  (k - ptr') % c \in 0 .. c - 1 /\ (k - ptr') \div c \in 0 .. 7
            BY <1>2, <6>1, <6>2, CoveredStep
          <6>3. ASSUME NEW x \in 0 .. c - 1, NEW y \in 0 .. 7
                PROVE  ~ x < 0 /\ ~ y < 0
            BY <1>2
          <6> QED BY <6>2, <6>3
        <5>4. k \notin Covered'
          BY <1>1, <2>2, <5>1, <5>3 DEF Covered
        <5> QED BY <5>1, <5>2, <5>4
      <4> QED BY <1>6, <4>1, <4>2, <4>3
    <3>2. Place \in Nat /\ Covered \subseteq Nat /\ Covered' \subseteq Nat
      BY <1>2, <1>6, PlaceType DEF Covered
    <3> QED BY <3>1, <3>2
  <2>4. d' = block * Stride + j + 4 * c
    BY <1>1, <1>2, <1>3, <1>10, <2>1
  <2>5. ptr' = 8 * c * (b + (Group + 1))
    <3>1. CASE c = 1
      BY <1>2, <1>3, <2>2, <3>1
    <3>2. CASE c = 2
      BY <1>2, <1>3, <2>2, <3>2
    <3> QED BY <1>2, <3>1, <3>2
  <2>a. /\ j' = 4 * c * (Group + 1 + 1) /\ Group + 1 \in Nat
        /\ j' < call.align <=> Group + 1 < Groups
    <3>1. j' = 4 * c * (Group + 1 + 1) /\ Group + 1 \in Nat
      <4>1. CASE c = 1
        BY <1>2, <1>3, <2>2, <4>1
      <4>2. CASE c = 2
        BY <1>2, <1>3, <2>2, <4>2
      <4> QED BY <1>2, <4>1, <4>2
    <3> QED BY <1>2, <3>1, GroupsEnd
  <2>6. CASE j' < call.align
    <3>1. /\ Group' = Group + 1 /\ Group + 1 \in 0 .. Groups - 1
          /\ j' = 4 * c * (Group + 1 + 1)
      <4>1. CASE c = 1
        BY <1>1, <1>2, <1>3, <2>a, <2>6, <4>1 DEF Group
      <4>2. CASE c = 2
        BY <1>1, <1>2, <1>3, <2>a, <2>6, <4>2 DEF Group
      <4> QED BY <1>2, <4>1, <4>2
    <3>2. /\ d' = block * Stride + j' + 4 * 0 + 0 \div 2
          /\ j' \in 0 .. Stride /\ 0 \in 0 .. c - 1 /\ 0 \in 0 .. 7
      <4>1. CASE c = 1
        BY <1>2, <1>3, <2>2, <2>4, <3>1, <4>1
      <4>2. CASE c = 2
        BY <1>2, <1>3, <2>2, <2>4, <3>1, <4>2
      <4> QED BY <1>2, <4>1, <4>2
    <3>3. Where'
      BY <1>1, <1>2, <1>4, <2>2, <2>5, <2>6, <3>1, <3>2 DEF Where, b
    <3> QED BY <1>5, <1>6, <2>3, <3>3 DEF Filled
  <2>7. CASE ~ j' < call.align
    <3>1. Group + 1 = Groups /\ j' = Stride
      <4>1. CASE c = 1
        BY <1>2, <1>3, <2>a, <2>7, <4>1
      <4>2. CASE c = 2
        BY <1>2, <1>3, <2>a, <2>7, <4>2
      <4> QED BY <1>2, <4>1, <4>2
    <3>2. /\ (block + 1) * Stride = (block * Stride) + Stride
          /\ (block + 1) * Groups = b + Groups
      BY <1>2, <1>3, NextBlock DEF b
    <3>3. d' = (block + 1) * Stride
      BY <1>2, <1>3, <2>2, <2>4, <3>1, <3>2
    <3>4. ptr' = 8 * c * ((block + 1) * Groups)
      BY <2>5, <3>1, <3>2
    <3>5. block + 1 \in Nat /\ block + 1 <= blocks /\ j' \in 0 .. Stride
      BY <1>2, <1>3, <3>1
    <3>6. Where'
      BY <1>1, <1>2, <2>2, <2>7, <3>3, <3>4, <3>5, BlockStep
    <3> QED BY <1>5, <1>6, <2>3, <3>6 DEF Filled
  <2> QED BY <2>6, <2>7
<1> QED BY <1>2, <1>8, <1>9, <1>10

\* Where the decoder can be.
LEMMA Bounded ==
  ASSUME Where
  PROVE  /\ block \in 0 .. blocks /\ blocks \in Nat
         /\ d \in 0 .. blocks * Stride /\ ptr \in Nat
<1> DEFINE c == call.channels
           x == block * Stride
           z == blocks * Stride
<1>1. /\ call \in Calls /\ block \in Nat /\ blocks \in Nat
      /\ Groups \in Nat /\ Stride \in Nat /\ Stride = 4 * c * (Groups + 1)
  BY CallTypes, BlocksType DEF Where
<1>2. x \in Nat /\ z \in Nat /\ block * Groups \in Nat
  BY <1>1
<1>3. block < blocks => x + Stride <= z
  <2>1. block < blocks => z >= (block + 1) * Stride
    <3>1. block < blocks => blocks >= block + 1
      BY <1>1
    <3> QED BY <1>1, <3>1, Monotone
  <2>2. (block + 1) * Stride = x + Stride
    BY <1>1, NextBlock
  <2> QED BY <2>1, <2>2
<1>4. block \in 0 .. blocks
  BY <1>1 DEF Where
<1>5. CASE pc \in {"allocate", "refused", "trapped"}
  BY <1>1, <1>2, <1>4, <1>5 DEF Where
<1>6. CASE pc = "header"
  <2>1. /\ d = x + 4 * chn /\ block < blocks /\ chn \in 0 .. c - 1
        /\ ptr = 8 * c * (block * Groups) /\ c \in {1, 2}
    BY <1>6 DEF Where, Channels
  <2> HIDE DEF x, z
  <2>2. 4 * chn < Stride
    <3>1. CASE c = 1
      BY <1>1, <2>1, <3>1
    <3>2. CASE c = 2
      BY <1>1, <2>1, <3>2
    <3> QED BY <2>1, <3>1, <3>2
  <2>3. d \in 0 .. z /\ ptr \in Nat
    BY <1>1, <1>2, <1>3, <2>1, <2>2
  <2> QED BY <1>1, <1>4, <2>3 DEF z
<1>7. CASE pc = "group"
  <2>1. /\ d = x + j + 4 * chn + q \div 2 /\ j = 4 * c * (Group + 1)
        /\ block < blocks /\ chn \in 0 .. c - 1 /\ q \in 0 .. 7
        /\ Group \in 0 .. Groups - 1
        /\ ptr = 8 * c * (block * Groups + Group) /\ c \in {1, 2}
    BY <1>7 DEF Where, Channels
  <2>2. /\ j + 4 * chn + q \div 2 \in Nat
        /\ j + 4 * chn + q \div 2 <= Stride
    <3>1. CASE c = 1
      BY <1>1, <2>1, <3>1
    <3>2. CASE c = 2
      BY <1>1, <2>1, <3>2
    <3> QED BY <2>1, <3>1, <3>2
  <2>3. ptr \in Nat
    <3>1. block * Groups + Group \in Nat
      BY <1>1, <1>2, <2>1
    <3> QED BY <2>1, <3>1
  <2>4. d = x + (j + 4 * chn + q \div 2)
    <3>1. j \in Int /\ chn \in Int
      BY <1>1, <2>1
    <3> HIDE DEF x, z
    <3> QED BY <1>2, <2>1, <3>1
  <2> HIDE DEF x, z
  <2>5. d \in 0 .. z
    BY <1>1, <1>2, <1>3, <2>1, <2>2, <2>4
  <2> QED BY <1>1, <1>4, <2>3, <2>5 DEF z
<1>8. CASE pc = "done"
  <2>1. d = z /\ ptr = 8 * c * (block * Groups) /\ c \in {1, 2}
    BY <1>8 DEF Where
  <2> HIDE DEF z
  <2>2. d \in 0 .. z /\ ptr \in Nat
    BY <1>2, <2>1
  <2> QED BY <1>1, <1>4, <2>2 DEF z
<1> QED BY <1>5, <1>6, <1>7, <1>8 DEF Where

LEMMA WhereStep == Where /\ Filled /\ [Next]_vars => (Where /\ Filled)'
<1> SUFFICES ASSUME Where, Filled, [Next]_vars PROVE Where' /\ Filled'
  OBVIOUS
<1>1. CASE Refuse
  <2>1. /\ pc = "allocate" /\ pc' = "refused"
        /\ UNCHANGED <<call, block, j, chn, q, d, ptr, buf>>
    BY <1>1 DEF Refuse, place
  <2>2. Where'
    BY <2>1, SameCall DEF Where
  <2>3. Covered' = Covered
    BY <2>1 DEF Covered
  <2> QED BY <2>1, <2>2, <2>3, SameCall DEF Filled, Interleaved
<1>2. CASE Returned \/ UNCHANGED vars
  <2>1. UNCHANGED <<call, pc, block, j, chn, q, d, ptr, buf>>
    BY <1>2 DEF Returned, vars, place
  <2>2. Where'
    <3>1. Group' = Group
      BY <2>1 DEF Group
    <3> QED BY <2>1, <3>1, SameCall DEF Where
  <2>3. Covered' = Covered
    BY <2>1 DEF Covered
  <2> QED BY <2>1, <2>2, <2>3, SameCall DEF Filled, Interleaved
<1>3. CASE Trap
  <2>1. /\ pc \in {"header", "group"} /\ pc' = "trapped"
        /\ UNCHANGED <<call, block, j, chn, q, d, ptr, buf>>
    BY <1>3 DEF Trap, place
  <2>2. Where'
    BY <2>1, Bounded, SameCall DEF Where
  <2> QED BY <2>1, <2>2, SameCall DEF Filled, Interleaved
<1> QED BY <1>1, <1>2, <1>3, AllocateStep, HeaderStep, NibbleStep DEF Next

\* Where the decoder is and what it has written, for every call.
THEOREM LayoutInductive == Spec => [](Where /\ Filled)
BY WhereInit, WhereStep, PTL DEF Spec

\* The samples of every block and channel go where they belong, for blocks of any
\* number of groups and data of any length.
THEOREM SamplesAreInterleaved == Spec => []Interleaved
<1>1. Filled => Interleaved
  BY DEF Filled
<1> QED BY <1>1, LayoutInductive, PTL

\* The memory wanted is that of the samples and twelve bytes for every header, less
\* four for every byte that a block does not have; and there is as much of it, if
\* that is a size_t.
LEMMA WantedIs ==
  ASSUME call \in Calls, call.channels \in {1, 2}
  PROVE  /\ blocks * Groups \in Nat /\ blocks * Missing \in Nat
         /\ Wanted = 16 * call.channels * (blocks * Groups)
                       + 12 * call.channels * blocks - 4 * (blocks * Missing)
         /\ PassedOn \in Nat
         /\ Wanted >= 0 => PassedOn <= Wanted
         /\ Wanted \in 0 .. SizeMod - 1 => PassedOn = Wanted
<1> DEFINE n == blocks
           g == Groups
           e == Missing
           x == n * g
           y == n * e
           w == Wanted
<1>1. /\ n \in Nat /\ g \in Nat /\ e \in Nat
      /\ call.align = 4 * call.channels * (g + 1) - e
  BY CallTypes, BlocksType
<1>2. Wanted = (call.align - call.channels) * n * 4
  BY DEF Wanted
<1> HIDE DEF n, g, e
<1>3. x \in Nat /\ y \in Nat
  BY <1>1
<1>4. Wanted = 16 * call.channels * x + 12 * call.channels * n - 4 * y
  <2>1. CASE call.channels = 1
    <3>1. call.align - call.channels = 4 * g + 3 - e
      BY <1>1, <2>1
    <3>2. (4 * g + 3 - e) * n = 4 * x + 3 * n - y
      BY <1>1
    <3> HIDE DEF x, y
    <3> QED BY <1>1, <1>2, <1>3, <2>1, <3>1, <3>2
  <2>2. CASE call.channels = 2
    <3>1. call.align - call.channels = 8 * g + 6 - e
      BY <1>1, <2>2
    <3>2. (8 * g + 6 - e) * n = 8 * x + 6 * n - y
      BY <1>1
    <3> HIDE DEF x, y
    <3> QED BY <1>1, <1>2, <1>3, <2>2, <3>1, <3>2
  <2> QED BY <2>1, <2>2
<1>5. w \in Int
  <2> HIDE DEF x, y
  <2>1. CASE call.channels = 1
    BY <1>1, <1>3, <1>4, <2>1
  <2>2. CASE call.channels = 2
    BY <1>1, <1>3, <1>4, <2>2
  <2> QED BY <2>1, <2>2
<1>6. SizeMod \in Nat \ {0} /\ PassedOn = w % SizeMod
  BY IMA4Assumption DEF PassedOn
<1> HIDE DEF w
<1>7. /\ PassedOn \in Nat
      /\ w >= 0 => PassedOn <= w
      /\ w \in 0 .. SizeMod - 1 => PassedOn = w
  <2>1. PassedOn \in 0 .. SizeMod - 1
    BY <1>5, <1>6, DivMod
  <2>2. w \in 0 .. SizeMod - 1 => PassedOn = w
    <3>1. w = (0 * SizeMod) + w
      BY <1>5, <1>6
    <3> QED BY <1>5, <1>6, <3>1, QuotientIs
  <2>3. w >= SizeMod => PassedOn <= w
    BY <1>5, <1>6, <2>1
  <2> QED BY <1>5, <1>6, <2>1, <2>2, <2>3
<1> QED BY <1>3, <1>4, <1>7 DEF w, x, y, n, g, e

\* Only an incomplete block is dropped, and what is passed on has a tail of twelve
\* bytes for each channel of a block that are never written, less four for every
\* byte that the block does not have, for every call.
THEOREM EverythingBeforeTheTail == Spec => []DecodesUpToTheTail
<1>1. ASSUME Where, Filled PROVE DecodesUpToTheTail
  <2> SUFFICES ASSUME pc = "done"
               PROVE  /\ DOMAIN buf = 0 .. ptr - 1
                      /\ d = blocks * Stride
                      /\ call.length - blocks * call.align \in 0 .. call.align - 1
                      /\ Wanted \in 0 .. SizeMod - 1 =>
                           PassedOn - 2 * ptr
                             = (12 * call.channels - 4 * Missing) * blocks
    BY DEF DecodesUpToTheTail
  <2>1. /\ call \in Calls /\ call.channels \in {1, 2} /\ block = blocks
        /\ d = blocks * Stride
        /\ ptr = 8 * call.channels * (blocks * Groups)
    BY <1>1 DEF Where
  <2> DEFINE x == blocks * Groups
             y == blocks * Missing
             n == blocks
             e == Missing
  <2>2. /\ x \in Nat /\ y \in Nat /\ n \in Nat /\ e \in Nat
        /\ Wanted \in 0 .. SizeMod - 1 =>
             PassedOn = 16 * call.channels * x + 12 * call.channels * n - 4 * y
        /\ ptr = 8 * call.channels * x
    BY <2>1, WantedIs, CallTypes, BlocksType
  <2>3. (12 * call.channels - 4 * e) * n = 12 * call.channels * n - 4 * y
    <3> HIDE DEF n, e
    <3>0. y = n * e
      BY DEF n, e
    <3>1. CASE call.channels = 1
      BY <2>2, <3>0, <3>1
    <3>2. CASE call.channels = 2
      BY <2>2, <3>0, <3>2
    <3> QED BY <2>1, <3>1, <3>2
  <2> HIDE DEF x, y
  <2>4. /\ Wanted \in 0 .. SizeMod - 1 =>
             PassedOn - 2 * ptr = 12 * call.channels * n - 4 * y
        /\ ptr \in Nat
    <3> HIDE DEF n
    <3>1. CASE call.channels = 1
      BY <2>2, <3>1
    <3>2. CASE call.channels = 2
      BY <2>2, <3>2
    <3> QED BY <2>1, <3>1, <3>2
  <2>5. DOMAIN buf = 0 .. ptr - 1
    <3>1. DOMAIN buf = {k \in Nat : k < ptr}
      BY <1>1 DEF Filled, Covered
    <3> QED BY <2>4, <3>1
  <2> QED BY <2>1, <2>3, <2>4, <2>5, BlocksType
<1> QED BY <1>1, LayoutInductive, PTL

\* The samples written are those of the groups of the blocks, and no more.
LEMMA CoveredIsBelow ==
  ASSUME Where, NEW k \in Covered, pc # "trapped"
  PROVE  /\ call.channels \in {1, 2} /\ blocks > 0 /\ Groups > 0
         /\ 2 * k + 2 <= 16 * call.channels * (blocks * Groups)
<1>1. call \in Calls
  BY DEF Where
<1>2. pc \in {"header", "group", "done"}
  <2>1. pc \in {"allocate", "refused"} => ptr = 0
    BY DEF Where
  <2>2. k \in Nat /\ (pc # "group" => k < ptr)
    BY DEF Covered
  <2> QED BY <2>1, <2>2 DEF Where
<1> DEFINE c == call.channels
           x == block * Groups
           z == blocks * Groups
<1>3. /\ c \in {1, 2} /\ block \in Nat /\ blocks \in Nat /\ Groups \in Nat
      /\ block <= blocks
  BY <1>1, <1>2, CallTypes, BlocksType DEF Where
<1>4. /\ x \in Nat /\ z \in Nat
      /\ block < blocks => x + Groups <= z
      /\ block = blocks => x = z
  <2>1. block < blocks => blocks * Groups >= (block + 1) * Groups
    <3>1. block < blocks => blocks >= block + 1
      BY <1>3
    <3> QED BY <1>3, <3>1, Monotone
  <2>2. (block + 1) * Groups = x + Groups /\ x \in Nat
    BY <1>3, NextBlock
  <2>3. z \in Nat
    BY <1>3, NextBlock
  <2> QED BY <1>3, <2>1, <2>2, <2>3
<1>5. /\ k \in Nat
      /\ pc # "group" => k < ptr /\ ptr = 8 * c * x /\ block <= blocks
      /\ pc = "group" => /\ k < ptr + 8 * c
                         /\ ptr = 8 * c * (x + Group)
                         /\ Group \in 0 .. Groups - 1 /\ block < blocks
  <2>1. k \in Nat /\ (k < ptr \/ (pc = "group" /\ k < ptr + 8 * c))
    BY DEF Covered
  <2>2. pc = "group" => /\ ptr = 8 * c * (x + Group)
                        /\ Group \in 0 .. Groups - 1 /\ block < blocks
    BY DEF Where
  <2>3. pc # "group" => ptr = 8 * c * x
    BY <1>2 DEF Where
  <2>4. pc = "group" => ptr \in Nat
    BY <1>3, <1>4, <2>2
  <2>5. pc = "group" => k < ptr + 8 * c
    BY <1>3, <2>1, <2>4
  <2> QED BY <1>3, <2>1, <2>2, <2>3, <2>5
<1> HIDE DEF x, z
<1>6. x <= z
  BY <1>3, <1>4
<1>7. 2 * k + 2 <= 16 * c * z /\ z > 0
  <2>1. CASE c = 1
    BY <1>3, <1>4, <1>5, <1>6, <2>1
  <2>2. CASE c = 2
    BY <1>3, <1>4, <1>5, <1>6, <2>2
  <2> QED BY <1>3, <2>1, <2>2
<1>8. blocks > 0 /\ Groups > 0
  <2>1. blocks = 0 => z = 0
    BY <1>3 DEF z
  <2>2. Groups = 0 => z = 0
    BY <1>3 DEF z
  <2> QED BY <1>3, <1>7, <2>1, <2>2
<1> QED BY <1>3, <1>7, <1>8 DEF z

\* A block misses seven bytes, and so more than the twelve bytes of each header
\* make up for, exactly when it has two channels and one byte too many.
LEMMA MissingIs ==
  ASSUME call \in Calls, call.channels \in {1, 2}, Groups > 0
  PROVE  /\ OneByteTooMany => call.channels = 2 /\ Missing = 7
         /\ ~ OneByteTooMany => Missing <= 3 * call.channels
<1>1. /\ Groups \in Nat /\ Missing \in 0 .. 4 * call.channels - 1
      /\ call.align = 4 * call.channels * (Groups + 1) - Missing
  BY CallTypes
<1>2. CASE call.channels = 1
  BY <1>1, <1>2 DEF OneByteTooMany
<1>3. CASE call.channels = 2
  <2> DEFINE a == call.align
             g == Groups
             e == Missing
  <2>1. a = 8 * g + 8 - e /\ e \in 0 .. 7 /\ g \in Nat /\ g > 0
    BY <1>1, <1>3
  <2>2. OneByteTooMany <=> a % 8 = 1 /\ a > 8
    BY <1>3 DEF OneByteTooMany
  <2> HIDE DEF a, g, e
  <2>3. a > 8 /\ (a % 8 = 1 <=> e = 7)
    BY <2>1
  <2> QED BY <1>3, <2>1, <2>2, <2>3 DEF e
<1> QED BY <1>2, <1>3

\* The samples are written behind the memory only if blocks have one byte too many
\* or the size wanted is not a size_t; the first part of LeavesItsMemory.
BehindOnlyIf == Behind # {} => OneByteTooMany \/ Wanted >= SizeMod

LEMMA NothingBehindOtherwise ==
  ASSUME Where, Filled, pc # "trapped"
  PROVE  BehindOnlyIf
<1> SUFFICES ASSUME NEW k \in DOMAIN buf, ~ OneByteTooMany, ~ Wanted >= SizeMod
             PROVE  ~ 2 * k + 2 > PassedOn
  BY DEF BehindOnlyIf, Behind
<1> DEFINE c == call.channels
           n == blocks
           e == Missing
           z == blocks * Groups
           y == blocks * Missing
<1>1. k \in Covered /\ k \in Nat /\ call \in Calls
  BY DEF Filled, Where
<1>2. /\ c \in {1, 2} /\ n > 0 /\ Groups > 0
      /\ 2 * k + 2 <= 16 * c * z
  BY <1>1, CoveredIsBelow
<1>3. n \in Nat /\ e \in Nat /\ e <= 3 * c /\ SizeMod \in Nat
  BY <1>1, <1>2, MissingIs, CallTypes, BlocksType, IMA4Assumption
<1>4. /\ z \in Nat /\ y \in Nat
      /\ Wanted = 16 * c * z + 12 * c * n - 4 * y
      /\ Wanted \in 0 .. SizeMod - 1 => PassedOn = Wanted
  BY <1>1, <1>2, WantedIs
<1>5. y <= 3 * c * n
  <2> HIDE DEF n, e
  <2>1. (3 * c) * n >= e * n
    <3>1. 3 * c \in Int
      BY <1>2
    <3> HIDE DEF c
    <3> QED BY <1>3, <3>1, Monotone
  <2>2. y = e * n
    BY <1>3 DEF n, e
  <2>3. (3 * c) * n = 3 * c * n
    BY <1>2
  <2> QED BY <2>1, <2>2, <2>3
<1> HIDE DEF n, z, y
<1>6. Wanted >= 16 * c * z /\ Wanted \in Nat /\ 16 * c * z \in Nat
  <2>1. CASE c = 1
    BY <1>3, <1>4, <1>5, <2>1
  <2>2. CASE c = 2
    BY <1>3, <1>4, <1>5, <2>2
  <2> QED BY <1>2, <2>1, <2>2
<1> HIDE DEF c
<1>7. PassedOn = Wanted
  BY <1>3, <1>4, <1>6
<1> QED BY <1>1, <1>2, <1>6, <1>7

LEMMA BehindStep ==
  BehindOnlyIf /\ [Next]_vars => BehindOnlyIf' \/ (pc # "trapped")'
<1> SUFFICES ASSUME BehindOnlyIf, [Next]_vars, pc' = "trapped"
             PROVE  BehindOnlyIf'
  OBVIOUS
<1>1. UNCHANGED <<call, buf>>
  <2>1. CASE Header
    BY <2>1 DEF Header, AtBlock
  <2>2. CASE Nibble
    BY <2>2 DEF Nibble, AtBlock
  <2> QED BY <2>1, <2>2 DEF Next, Refuse, Allocate, Trap, Returned, vars, AtBlock
<1> QED BY <1>1, SameCall DEF BehindOnlyIf, Behind

\* The decoder leaves the memory that it has in the cases of LeavesItsMemory and in
\* no other, for every call: with blocks of two channels that have one byte too many
\* it writes behind what it asked for, and with blocks that are not whole it reads
\* on behind the data, unless there are enough bytes behind the last block.
THEOREM WhenItLeavesItsMemory == Spec => []LeavesItsMemory
<1>1. Init => BehindOnlyIf
  BY DEF Init, BehindOnlyIf, Behind
<1>2. ASSUME Where, Filled, BehindOnlyIf PROVE LeavesItsMemory
  <2> DEFINE a == call.align
             l == call.length
             n == blocks
             e == Missing
             y == blocks * Missing
             s == blocks * Stride
             v == blocks * call.align
  <2>0. /\ call \in Calls /\ n \in Nat /\ e \in Nat /\ a \in Nat /\ l \in Nat
        /\ a = Stride - e /\ Stride \in Nat
    BY <1>2, CallTypes, BlocksType DEF Where
  <2>1. s = v + y /\ v \in Nat /\ y \in Nat
    <3>1. s = n * Stride /\ v = n * a /\ y = n * e
      OBVIOUS
    <3> HIDE DEF a, n, e, s, v, y
    <3> QED BY <2>0, <3>1
  <2>2. d \in 0 .. s
    BY <1>2, Bounded
  <2>3. pc = "done" => d = s
    BY <1>2 DEF Where
  <2>4. d > l => y > l - v
    <3> HIDE DEF l, s, v, y
    <3> QED BY <2>0, <2>1, <2>2
  <2>5. pc = "done" /\ y > l - v => d > l
    <3> HIDE DEF l, s, v, y
    <3> QED BY <2>0, <2>1, <2>3
  <2>6. ASSUME pc = "done", OneByteTooMany, n > 0 PROVE Behind # {}
    <3> DEFINE z == blocks * Groups
               k == 16 * z - 1
    <3>1. call.channels = 2 /\ ptr = 8 * call.channels * z
      BY <1>2, <2>6 DEF OneByteTooMany, Where
    <3>2. Groups \in Nat /\ Groups > 0
      <4>1. /\ Groups \in Nat /\ e \in 0 .. 7 /\ a = 8 * (Groups + 1) - e
            /\ a > 8
        BY <2>0, <2>6, <3>1, CallTypes DEF OneByteTooMany
      <4> QED BY <4>1
    <3>3. e = 7
      BY <2>0, <2>6, <3>1, <3>2, MissingIs
    <3>4. /\ z \in Nat /\ PassedOn \in Nat
          /\ Wanted = 32 * z + 24 * n - 4 * y
          /\ Wanted >= 0 => PassedOn <= Wanted
      <4>1. /\ z \in Nat /\ PassedOn \in Nat
            /\ Wanted >= 0 => PassedOn <= Wanted
            /\ Wanted = 16 * call.channels * z + 12 * call.channels * n - 4 * y
        BY <2>0, <3>1, WantedIs
      <4>2. 16 * call.channels = 32 /\ 12 * call.channels = 24
        BY <3>1
      <4> HIDE DEF z, n, y
      <4>3. Wanted = 32 * z + 24 * n - 4 * y
        BY <4>1, <4>2
      <4> QED BY <4>1, <4>3
    <3>5. z >= n
      <4>1. Groups * n >= 1 * n
        BY <2>0, <3>2, Monotone
      <4>2. Groups * n = z /\ 1 * n = n
        BY <2>0, <3>2
      <4> QED BY <4>1, <4>2
    <3>6. y = 7 * n
      <4>1. y = n * e
        OBVIOUS
      <4> HIDE DEF n, e, y
      <4> QED BY <2>0, <3>3, <4>1
    <3> HIDE DEF n, y, z
    <3>7. Wanted \in Nat /\ Wanted < 32 * z
      BY <2>0, <2>6, <3>4, <3>5, <3>6
    <3>8. k \in Nat /\ k < ptr /\ 2 * k + 2 > PassedOn
      BY <2>0, <2>6, <3>1, <3>4, <3>5, <3>7
    <3>9. k \in DOMAIN buf
      BY <1>2, <2>6, <3>8 DEF Filled, Covered
    <3> QED BY <3>8, <3>9 DEF Behind
  <2> QED BY <1>2, <2>4, <2>5, <2>6 DEF LeavesItsMemory, BehindOnlyIf
<1>3. Where /\ Filled /\ pc # "trapped" => BehindOnlyIf
  BY NothingBehindOtherwise
<1>4. Where /\ Filled /\ BehindOnlyIf => LeavesItsMemory
  BY <1>2
<1> QED BY <1>1, <1>3, <1>4, LayoutInductive, BehindStep, PTL DEF Spec

\* A file as the format has it, with whole blocks, is decoded within the memory,
\* however long it is, as long as the size of that memory is a size_t.
THEOREM WholeBlocksStayInTheirMemory ==
  Spec => [](Missing = 0 /\ Wanted < SizeMod => Behind = {} /\ d <= call.length)
<1>1. Where /\ LeavesItsMemory =>
        (Missing = 0 /\ Wanted < SizeMod => Behind = {} /\ d <= call.length)
  <2> SUFFICES ASSUME Where, LeavesItsMemory, Missing = 0, Wanted < SizeMod
               PROVE  Behind = {} /\ d <= call.length
    OBVIOUS
  <2> DEFINE v == blocks * call.align
             s == blocks * Stride
  <2>1. /\ call \in Calls /\ blocks \in Nat /\ call.length \in Nat
        /\ call.align \in Nat \ {0}
        /\ call.length - v \in 0 .. call.align - 1 /\ d \in 0 .. s
    BY Bounded, CallTypes, BlocksType DEF Where
  <2>2. blocks * Missing = 0 /\ v \in Nat
    BY <2>1
  <2>3. s \in Nat
    BY <2>1, CallTypes
  <2> HIDE DEF v, s
  <2>4. d \in Int /\ call.length - v >= 0
    BY <2>1, <2>2, <2>3
  <2>5. ~ d > call.length
    <3>1. d > call.length => blocks * Missing > call.length - v
      BY DEF LeavesItsMemory, v
    <3> QED BY <2>1, <2>2, <2>4, <3>1
  <2>6. ~ OneByteTooMany
    <3>1. CASE call.channels = 2
      <4> DEFINE g == Groups
      <4>1. call.align = 8 * (g + 1) /\ g \in Nat
        <5>1. /\ g \in Nat /\ call.align = Stride - Missing
              /\ Stride = 4 * call.channels * (g + 1) /\ Stride \in Nat
          BY <2>1, CallTypes
        <5> HIDE DEF g
        <5> QED BY <3>1, <5>1
      <4> HIDE DEF g
      <4> QED BY <4>1 DEF OneByteTooMany
    <3> QED BY <3>1 DEF OneByteTooMany
  <2>7. ~ Wanted >= SizeMod
    <3>1. Wanted \in Int /\ SizeMod \in Nat
      <4>1. /\ call.channels \in Nat /\ call.align \in Nat /\ blocks \in Nat
            /\ SizeMod \in Nat
        BY <2>1, CallTypes, IMA4Assumption
      <4> QED BY <4>1 DEF Wanted
    <3> QED BY <3>1
  <2> QED BY <2>1, <2>4, <2>5, <2>6, <2>7 DEF LeavesItsMemory
<1> QED BY <1>1, LayoutInductive, WhenItLeavesItsMemory, PTL

-----------------------------------------------------------------------------
(* The values *)

\* The steps of the table are numbers of 15 bits.
LEMMA StepTableType ==
  \A k \in 1 .. 89 : StepTable[k] \in Int /\ StepTable[k] >= 7 /\ StepTable[k] <= 32767
BY DEF StepTable

\* A step index whatever it is leads to a step.
LEMMA StepsType ==
  ASSUME NEW x \in Byte, NEW s \in Steps(x)
  PROVE  s \in Int16
<1>1. CASE ToInt8(x) \in 0 .. 88
  <2>1. x \in 0 .. 88
    BY <1>1 DEF Byte, ToInt8
  <2>2. s = StepTable[x + 1]
    BY <1>1 DEF Steps
  <2>3. x + 1 \in 1 .. 89
    BY <2>1
  <2>4. s \in Int /\ s >= 7 /\ s <= 32767
    BY <2>2, <2>3, StepTableType
  <2> QED BY <2>4, Int16Is
<1>2. CASE ToInt8(x) \notin 0 .. 88
  BY <1>2, IMA4Assumption DEF Steps
<1> QED BY <1>1, <1>2

\* After a nibble the index is one of the table.
LEMMA NextIndexType ==
  ASSUME NEW n \in 0 .. 15, NEW x \in Byte
  PROVE  NextIndex(n, x) \in 0 .. 88
<1> DEFINE t == IndexTable[(n % 8) + 1]
           y == ToInt8(ToInt8(x) + t)
<1>1. t \in Int
  <2>1. \A k \in 1 .. 8 : IndexTable[k] \in Int
    BY DEF IndexTable
  <2> QED BY <2>1
<1> HIDE DEF t
<1>2. y \in Int
  BY <1>1 DEF ToInt8, Byte
<1>3. NextIndex(n, x) = IF y < 0 THEN 0 ELSE IF y > 88 THEN 88 ELSE y
  BY DEF NextIndex, t
<1> HIDE DEF y
<1> QED BY <1>2, <1>3

\* The sum of the parts is eight times less than exact, but for what the shifts
\* cut off.
LEMMA PartsOfStep ==
  ASSUME NEW n \in 0 .. 15, NEW s \in Nat
  PROVE  \E raw \in Nat :
           /\ Diff(n, s) = ToInt16(raw)
           /\ (2 * (n % 8) + 1) * s - 8 * raw \in 0 .. 31
           /\ raw <= 2 * s
<1> DEFINE a == (n \div 4) % 2
           b == (n \div 2) % 2
           c == (n \div 1) % 2
           raw == s \div 8 + a * s + b * (s \div 2) + c * (s \div 4)
<1>1. a \in {0, 1} /\ b \in {0, 1} /\ c \in {0, 1} /\ n % 8 = 4 * a + 2 * b + c
  OBVIOUS
<1>2. Diff(n, s) = ToInt16(raw)
  BY DEF Diff
<1> HIDE DEF a, b, c
<1>3. /\ a * s \in {0, s} /\ b * (s \div 2) \in {0, s \div 2}
      /\ c * (s \div 4) \in {0, s \div 4}
  BY <1>1
<1>4. raw \in Nat /\ raw <= 2 * s
  BY <1>3
<1>5. (2 * (n % 8) + 1) * s - 8 * raw \in 0 .. 31
  <2>1. CASE a = 0
    <3>1. CASE b = 0
      BY <1>1, <2>1, <3>1
    <3>2. CASE b = 1
      BY <1>1, <2>1, <3>2
    <3> QED BY <1>1, <3>1, <3>2
  <2>2. CASE a = 1
    <3>1. CASE b = 0
      BY <1>1, <2>2, <3>1
    <3>2. CASE b = 1
      BY <1>1, <2>2, <3>2
    <3> QED BY <1>1, <3>1, <3>2
  <2> QED BY <1>1, <2>1, <2>2
<1> QED BY <1>2, <1>4, <1>5

\* What MovesByTheStep says of a step.
Moves(n, s, from, to) ==
  LET exact == (2 * (n % 8) + 1) * s
      moved == IF n >= 8 THEN from - to ELSE to - from
  IN s >= 0 =>
       \E wrap \in {-65536, 0, 65536} :
         /\ exact - 8 * (moved + wrap) \in 0 .. 31
         /\ wrap # 0 => \/ from + exact \div 8 > 32767
                        \/ from - exact \div 8 < -32768
                        \/ exact \div 8 > 32767

LEMMA StepMoves ==
  ASSUME NEW n \in 0 .. 15, NEW s \in Int16, NEW from \in Int16
  PROVE  /\ NextPredictor(n, s, from) \in Int16
         /\ Moves(n, s, from, NextPredictor(n, s, from))
<1>0. /\ s \in Int /\ s >= -32768 /\ s <= 32767
      /\ from \in Int /\ from >= -32768 /\ from <= 32767
  BY Int16Is
<1> DEFINE diff == Diff(n, s)
           to == NextPredictor(n, s, from)
<1>1. diff \in Int16
  <2> DEFINE raw == s \div 8 + ((n \div 4) % 2) * s + ((n \div 2) % 2) * (s \div 2)
                      + ((n \div 1) % 2) * (s \div 4)
  <2>1. diff = ToInt16(raw)
    BY DEF Diff
  <2>2. raw \in Int
    BY <1>0
  <2> HIDE DEF raw
  <2> QED BY <2>1, <2>2, ToInt16Type
<1>2. /\ to = ToInt16(IF n >= 8 THEN from - diff ELSE from + diff)
      /\ diff \in Int
  BY <1>1, Int16Is DEF NextPredictor
<1> HIDE DEF diff
<1>3. to \in Int16
  BY <1>0, <1>2, ToInt16Type
<1>4. ASSUME s >= 0 PROVE Moves(n, s, from, to)
  <2>1. PICK raw \in Nat : /\ diff = ToInt16(raw)
                           /\ (2 * (n % 8) + 1) * s - 8 * raw \in 0 .. 31
                           /\ raw <= 2 * s
    <3>1. s \in Nat
      BY <1>0, <1>4
    <3> QED BY <3>1, PartsOfStep DEF diff
  <2> DEFINE exact == (2 * (n % 8) + 1) * s
             moved == IF n >= 8 THEN from - to ELSE to - from
  <2>2. exact \in Nat
    BY <1>0, <1>4
  <2> HIDE DEF to
  <2>3. exact \in Nat /\ exact - 8 * raw \in 0 .. 31 /\ raw <= 65534
        /\ exact \div 8 >= raw
    <3>1. exact - 8 * raw \in 0 .. 31
      BY <2>1
    <3> HIDE DEF exact
    <3> QED BY <1>0, <2>1, <2>2, <3>1
  <2> HIDE DEF exact
  <2>4. diff = raw \/ (raw > 32767 /\ diff = raw - 65536)
    BY <2>1, <2>3 DEF ToInt16
  <2>5. \E wrap \in {-65536, 0, 65536} :
          /\ moved + wrap = raw
          /\ wrap # 0 => \/ from + raw > 32767
                         \/ from - raw < -32768
                         \/ raw > 32767
    <3>1. CASE n >= 8
      BY <1>0, <1>2, <2>3, <2>4, <3>1 DEF ToInt16
    <3>2. CASE n < 8
      BY <1>0, <1>2, <2>3, <2>4, <3>2 DEF ToInt16
    <3> QED BY <3>1, <3>2
  <2>6. PICK wrap \in {-65536, 0, 65536} :
          /\ moved + wrap = raw
          /\ wrap # 0 => \/ from + raw > 32767
                         \/ from - raw < -32768
                         \/ raw > 32767
    BY <2>5
  <2> HIDE DEF moved
  <2>7. /\ exact - 8 * (moved + wrap) \in 0 .. 31
        /\ wrap # 0 => \/ from + exact \div 8 > 32767
                       \/ from - exact \div 8 < -32768
                       \/ exact \div 8 > 32767
    BY <1>0, <2>3, <2>6
  <2> QED BY <2>7 DEF Moves, exact, moved
<1>5. ~ s >= 0 => Moves(n, s, from, to)
  BY DEF Moves
<1> QED BY <1>3, <1>4, <1>5

\* The state of the decoder, and the step it made last.
Values ==
  /\ predictor \in [Channels -> Int16] /\ index \in [Channels -> Byte]
  /\ pc = "group" /\ q > 0 => index[chn] \in 0 .. 88
  /\ Moves(last.nibble, last.step, last.from, last.to)

LEMMA ValuesInit == Init => Values
<1> SUFFICES ASSUME Init PROVE Values
  OBVIOUS
<1>1. 0 \in Int16 /\ 0 \in Byte
  BY Int16Is DEF Byte
<1>2. Moves(0, 0, 0, 0)
  <2>1. NextPredictor(0, 0, 0) = 0
    BY DEF NextPredictor, Diff, ToInt16
  <2>2. Moves(0, 0, 0, NextPredictor(0, 0, 0))
    BY <1>1, StepMoves
  <2> QED BY <2>1, <2>2
<1>3. /\ predictor \in [Channels -> Int16] /\ index \in [Channels -> Byte]
      /\ pc = "allocate"
      /\ last.nibble = 0 /\ last.step = 0 /\ last.from = 0 /\ last.to = 0
  BY <1>1 DEF Init
<1> QED BY <1>2, <1>3 DEF Values

LEMMA ValuesStep == Where /\ Values /\ [Next]_vars => Values'
<1> SUFFICES ASSUME Where, Values, [Next]_vars PROVE Values'
  OBVIOUS
<1>1. CASE Refuse \/ Allocate \/ Trap \/ Returned \/ UNCHANGED vars
  <2>1. /\ UNCHANGED <<call, q, chn, predictor, index, last>>
        /\ pc' = "group" => pc = "group"
    BY <1>1 DEF Refuse, Allocate, Trap, Returned, vars, place, AtBlock
  <2> QED BY <2>1, SameCall DEF Values
<1>2. CASE Header
  <2>1. /\ UNCHANGED <<call, q, last>> /\ q = 0 /\ call \in Calls
    BY <1>2 DEF Header, Where
  <2>2. PICK p \in Predictors[call] : predictor' = [predictor EXCEPT ![chn] = p]
    BY <1>2 DEF Header
  <2>3. PICK x \in Indexes[call] : index' = [index EXCEPT ![chn] = x]
    BY <1>2 DEF Header
  <2>4. p \in Int16 /\ x \in Byte
    BY <2>1, IMA4Assumption
  <2>5. Channels' = Channels
    BY <2>1, SameCall
  <2>6. predictor' \in [Channels -> Int16] /\ index' \in [Channels -> Byte]
    BY <2>2, <2>3, <2>4 DEF Values
  <2>7. Moves(last'.nibble, last'.step, last'.from, last'.to) /\ ~ q' > 0
    BY <2>1 DEF Values
  <2> QED BY <2>5, <2>6, <2>7 DEF Values
<1>3. CASE Nibble
  <2>0. /\ call \in Calls /\ q \in 0 .. 7 /\ chn \in Channels
        /\ UNCHANGED call /\ pc = "group"
    BY <1>3 DEF Nibble, Where
  <2>1. PICK n \in Nibbles[call][q + 1] : \E s \in Steps(index[chn]) :
          LET p == NextPredictor(n, s, predictor[chn]) IN
          /\ predictor' = [predictor EXCEPT ![chn] = p]
          /\ index' = [index EXCEPT ![chn] = NextIndex(n, index[chn])]
          /\ last' = [nibble |-> n, step |-> s, from |-> predictor[chn], to |-> p]
    BY <1>3 DEF Nibble
  <2>2. PICK s \in Steps(index[chn]) :
          LET p == NextPredictor(n, s, predictor[chn]) IN
          /\ predictor' = [predictor EXCEPT ![chn] = p]
          /\ index' = [index EXCEPT ![chn] = NextIndex(n, index[chn])]
          /\ last' = [nibble |-> n, step |-> s, from |-> predictor[chn], to |-> p]
    BY <2>1
  <2>3. predictor[chn] \in Int16 /\ index[chn] \in Byte
    BY <2>0 DEF Values
  <2>4. n \in 0 .. 15
    <3>1. q + 1 \in 1 .. 8
      BY <2>0
    <3> QED BY <2>0, <3>1, IMA4Assumption
  <2>5. s \in Int16
    BY <2>3, StepsType
  <2> DEFINE p == NextPredictor(n, s, predictor[chn])
             x == NextIndex(n, index[chn])
  <2>6. p \in Int16 /\ Moves(n, s, predictor[chn], p)
    BY <2>3, <2>4, <2>5, StepMoves
  <2>7. x \in 0 .. 88 /\ x \in Byte
    <3>1. x \in 0 .. 88
      BY <2>3, <2>4, NextIndexType
    <3> HIDE DEF x
    <3> QED BY <3>1 DEF Byte
  <2>8. /\ predictor' = [predictor EXCEPT ![chn] = p]
        /\ index' = [index EXCEPT ![chn] = x]
        /\ last' = [nibble |-> n, step |-> s, from |-> predictor[chn], to |-> p]
    BY <2>2
  <2> HIDE DEF p, x
  <2>9. predictor' \in [Channels -> Int16] /\ index' \in [Channels -> Byte]
    BY <2>0, <2>6, <2>7, <2>8 DEF Values
  <2>10. Moves(last'.nibble, last'.step, last'.from, last'.to)
    BY <2>6, <2>8
  <2>11. q' > 0 => index'[chn'] \in 0 .. 88
    <3>1. q' > 0 => chn' = chn
      BY <1>3, <2>0 DEF Nibble
    <3> QED BY <2>0, <2>7, <2>8, <3>1 DEF Values
  <2> QED BY <2>0, <2>9, <2>10, <2>11, SameCall DEF Values
<1> QED BY <1>1, <1>2, <1>3 DEF Next

\* The layout and the values together.
THEOREM DecoderInductive == Spec => [](Where /\ Filled /\ Values)
BY WhereInit, WhereStep, ValuesInit, ValuesStep, PTL DEF Spec

\* Every step moves the sample by the step, in the direction of the sign, but for
\* wrapping around, from every state of the decoder and with every nibble.
THEOREM StepsAreExact == Spec => []MovesByTheStep
<1>1. Values => MovesByTheStep
  BY DEF Values, Moves, MovesByTheStep
<1> QED BY <1>1, DecoderInductive, PTL

\* Types, with what is read within the bytes that the blocks are taken to have, for
\* calls of any block size, whole or not.
THEOREM TypeCorrect == Spec => []TypeOK
<1>1. ASSUME Where, Filled, Values PROVE TypeOK
  <2>1. \A k \in DOMAIN buf : k \in Nat
    BY <1>1 DEF Filled
  <2>2. /\ call \in Calls /\ j \in 0 .. Stride /\ chn \in Channels /\ q \in 0 .. 7
        /\ pc \in {"allocate", "header", "group", "done", "refused", "trapped"}
    BY <1>1 DEF Where
  <2> QED BY <1>1, <2>1, <2>2, Bounded DEF Values, TypeOK
<1> QED BY <1>1, DecoderInductive, PTL

-----------------------------------------------------------------------------
(* Files as the format has them, and the end *)

\* The step index is one of the table, and so is the step made last, if there is
\* one.
InTable ==
  /\ index \in [Channels -> 0 .. 88]
  /\ last.step \in {0} \cup {StepTable[k] : k \in 1 .. 89}

\* When what is read as the headers of blocks has step indexes of the table, nothing
\* outside of the table is read, although the code looks at an index only after it
\* has used it: what is read behind the table (alutCodec.c:168) comes of headers
\* alone and never of nibbles, however many there are.
THEOREM LegalHeadersStayInTheTable ==
  ASSUME \A c \in Calls : Indexes[c] \subseteq 0 .. 88
  PROVE  Spec => []InTable
<1>1. Init => InTable
  <2>1. 0 \in 0 .. 88
    OBVIOUS
  <2> QED BY <2>1 DEF Init, InTable
<1>2. Where /\ Values /\ InTable /\ [Next]_vars => InTable'
  <2> SUFFICES ASSUME Where, Values, InTable, [Next]_vars PROVE InTable'
    OBVIOUS
  <2>1. CASE Refuse \/ Allocate \/ Trap \/ Returned \/ UNCHANGED vars
    <3>1. UNCHANGED <<call, index, last>>
      BY <2>1 DEF Refuse, Allocate, Trap, Returned, vars
    <3> QED BY <3>1, SameCall DEF InTable
  <2>2. CASE Header
    <3>1. UNCHANGED <<call, last>> /\ call \in Calls
      BY <2>2 DEF Header, Where
    <3>2. PICK x \in Indexes[call] : index' = [index EXCEPT ![chn] = x]
      BY <2>2 DEF Header
    <3>3. x \in 0 .. 88
      BY <3>1
    <3> QED BY <3>1, <3>2, <3>3, SameCall DEF InTable
  <2>3. CASE Nibble
    <3>0. /\ call \in Calls /\ q \in 0 .. 7 /\ chn \in Channels /\ UNCHANGED call
      BY <2>3 DEF Nibble, Where
    <3>1. PICK n \in Nibbles[call][q + 1] : \E s \in Steps(index[chn]) :
            LET p == NextPredictor(n, s, predictor[chn]) IN
            /\ predictor' = [predictor EXCEPT ![chn] = p]
            /\ index' = [index EXCEPT ![chn] = NextIndex(n, index[chn])]
            /\ last' = [nibble |-> n, step |-> s, from |-> predictor[chn], to |-> p]
      BY <2>3 DEF Nibble
    <3>2. PICK s \in Steps(index[chn]) :
            LET p == NextPredictor(n, s, predictor[chn]) IN
            /\ predictor' = [predictor EXCEPT ![chn] = p]
            /\ index' = [index EXCEPT ![chn] = NextIndex(n, index[chn])]
            /\ last' = [nibble |-> n, step |-> s, from |-> predictor[chn], to |-> p]
      BY <3>1
    <3>3. index' = [index EXCEPT ![chn] = NextIndex(n, index[chn])] /\ last'.step = s
      BY <3>2
    <3> DEFINE x == index[chn]
    <3>4. x \in 0 .. 88 /\ x \in Byte
      BY <3>0 DEF InTable, Values
    <3>5. n \in 0 .. 15
      <4>1. q + 1 \in 1 .. 8
        BY <3>0
      <4> QED BY <3>0, <4>1, IMA4Assumption
    <3> HIDE DEF x
    <3>6. s \in {StepTable[k] : k \in 1 .. 89}
      <4>1. ToInt8(x) \in 0 .. 88 /\ x + 1 \in 1 .. 89
        BY <3>4 DEF ToInt8
      <4>2. s = StepTable[x + 1]
        BY <3>2, <4>1 DEF Steps, x
      <4> QED BY <4>1, <4>2
    <3>7. NextIndex(n, x) \in 0 .. 88
      BY <3>4, <3>5, NextIndexType
    <3> QED BY <3>0, <3>3, <3>6, <3>7, SameCall DEF InTable, x
  <2> QED BY <2>1, <2>2, <2>3 DEF Next
<1> QED BY <1>1, <1>2, DecoderInductive, PTL DEF Spec

\* The nibbles left in the bytes that the blocks are taken to have, and the memory
\* that is asked for first.
StepsLeft ==
  IF pc = "trapped" THEN 0
  ELSE 2 * (blocks * Stride - d) - (q % 2) + (IF pc = "allocate" THEN 3 ELSE 2)

Nearer == StepsLeft \in Nat /\ StepsLeft' \in Nat /\ StepsLeft' < StepsLeft

\* Every step of the decoder reads on, and not beyond as many bytes as the blocks
\* would have if they were whole: whatever the blocks contain, and however long
\* they are, the loops of alutCodec.c:206-246 are over after as many steps as
\* there are nibbles in these.
THEOREM EveryStepIsNearerToTheEnd == Spec => [][Nearer]_vars
<1>1. TypeOK /\ Where /\ (TypeOK /\ Where)' /\ [Next]_vars => [Nearer]_vars
  <2> SUFFICES ASSUME TypeOK, Where, TypeOK', Where', Next
               PROVE  Nearer \/ UNCHANGED vars
    OBVIOUS
  <2> DEFINE l == blocks * Stride
  <2>1. /\ l \in Nat /\ d \in 0 .. l /\ q \in 0 .. 7 /\ d' \in 0 .. l' /\ q' \in 0 .. 7
        /\ UNCHANGED call => l' = l
    <3>1. blocks \in Nat /\ Stride \in Nat
      BY CallTypes, BlocksType DEF TypeOK
    <3>2. l \in Nat
      BY <3>1
    <3>3. UNCHANGED call => blocks' = blocks /\ Stride' = Stride
      BY SameCall
    <3> QED BY <3>2, <3>3 DEF TypeOK
  <2>2. StepsLeft = IF pc = "trapped" THEN 0
                    ELSE 2 * (l - d) - (q % 2) + (IF pc = "allocate" THEN 3 ELSE 2)
    BY DEF StepsLeft
  <2>3. StepsLeft' = IF pc' = "trapped" THEN 0
                     ELSE 2 * (l' - d') - (q' % 2)
                            + (IF pc' = "allocate" THEN 3 ELSE 2)
    BY DEF StepsLeft
  <2> HIDE DEF l
  <2>4. CASE Refuse \/ Allocate
    <3>1. /\ pc = "allocate" /\ pc' \notin {"allocate", "trapped"}
          /\ UNCHANGED <<call, d, q>>
      BY <2>4 DEF Refuse, Allocate, AtBlock, place
    <3> QED BY <2>1, <2>2, <2>3, <3>1 DEF Nearer
  <2>5. CASE Header
    <3>1. /\ pc = "header" /\ d' = d + 4 /\ UNCHANGED <<call, q>>
          /\ pc' \notin {"allocate", "trapped"}
      BY <2>5 DEF Header, AtBlock
    <3> QED BY <2>1, <2>2, <2>3, <3>1 DEF Nearer
  <2>6. CASE Nibble
    <3>1. /\ pc = "group" /\ d' = d + (q % 2) /\ UNCHANGED call
          /\ pc' \notin {"allocate", "trapped"}
          /\ (q < 7 /\ q' = q + 1) \/ (q = 7 /\ q' = 0)
      BY <2>6 DEF Nibble, AtBlock
    <3>2. (q' % 2) = 1 - (q % 2)
      BY <2>1, <3>1
    <3> QED BY <2>1, <2>2, <2>3, <3>1, <3>2 DEF Nearer
  <2>7. CASE Trap
    <3>1. pc \in {"header", "group"} /\ pc' = "trapped"
      BY <2>7 DEF Trap
    <3> QED BY <2>1, <2>2, <2>3, <3>1 DEF Nearer
  <2> QED BY <2>4, <2>5, <2>6, <2>7 DEF Next, Returned
<1> QED BY <1>1, DecoderInductive, TypeCorrect, PTL DEF Spec

=============================================================================
