----------------------------- MODULE MCAlutLoader -----------------------------
(***************************************************************************)
(* Instances of AlutLoader for TLC.  A RIFF header takes 12 bytes, a fmt   *)
(* chunk 24 and the header of the data 8; an AU header takes 24.           *)
(***************************************************************************)
EXTENDS AlutLoader

\* Around the end of a RIFF file with one fmt chunk, with room for a few bytes
\* of sound, for another chunk, or for none of them.
WavSizes == {44, 60}

\* Around the end of an AU header, and long enough for an unknown length.
AuSizes == {3, 23, 24, 28, 76}

\* Not known, negative, none, some, too many.
AuDataLengths == {-1, -2, 0, 4, 200}

=============================================================================
