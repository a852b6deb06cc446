------------------------------ MODULE MCAlutIMA4 ------------------------------
(***************************************************************************)
(* An instance of AlutIMA4 for TLC, with two kinds of calls: one for the   *)
(* values, which decodes a word of a single channel from every state the   *)
(* header of a block can give the decoder, and many for the layout, with   *)
(* blocks of every size up to three groups and a byte, whole or not.       *)
(***************************************************************************)
EXTENDS AlutIMA4

OneGroup == [channels |-> 1, align |-> 8, length |-> 8]

Layouts ==
  {[channels |-> c, align |-> a, length |-> l] :
     c \in 1 .. 3, a \in 1 .. 25, l \in {0, 4, 9, 16, 17, 31, 48, 50, 72}}

AllCalls == {OneGroup} \cup Layouts

ForOneGroup(values, others) ==
  [c \in AllCalls |-> IF c = OneGroup THEN values ELSE others]

AllPredictors == ForOneGroup({-32768, -32767, -1, 0, 1, 32766, 32767}, {0})

AllIndexes == ForOneGroup(Byte, {0})

\* The first nibble is any, the second goes up, down or stays, and the others
\* go on up or down.
AllNibbles ==
  ForOneGroup(<<0 .. 15, {0, 7, 15}, {7}, {7}, {15}, {3}, {4}, {7}>>,
              [n \in 1 .. 8 |-> {1}])

SomeBeyond == {-1, 0, 32767}

=============================================================================
