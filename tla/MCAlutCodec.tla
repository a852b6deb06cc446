----------------------------- MODULE MCAlutCodec -----------------------------
(***************************************************************************)
(* Instances of AlutCodec for TLC: every byte on its own, pairs of bytes   *)
(* at the limits of the sign and the carry, and longer files of odd and    *)
(* even lengths.                                                           *)
(***************************************************************************)
EXTENDS AlutCodec

Limits == {0, 1, 127, 128, 255}

SomeFiles ==
  {<<>>} \cup {<<b>> : b \in Byte}
    \cup {<<h, l>> : h \in Limits, l \in Limits}
    \cup {<<1, h, l>> : h \in Limits, l \in Limits}
    \cup {<<h, 2, l, 128, 7>> : h \in Limits, l \in Limits}

=============================================================================
