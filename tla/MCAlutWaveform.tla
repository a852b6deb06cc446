---------------------------- MODULE MCAlutWaveform ----------------------------
(***************************************************************************)
(* Instances of AlutWaveform for TLC: eight samples per second, so that a  *)
(* phase is a multiple of an eighth of a cycle.                            *)
(***************************************************************************)
EXTENDS AlutWaveform

\* sin(0), sin(pi/8), ... at full scale; no other phases occur.
Sines ==
  [p \in 0 .. 180 * 8 - 1 |->
    <<0, 12539, 23169, 30272, 32767, 30272, 23169, 12539>>[p \div 180 + 1]]

\* Not positive, slow, at and above half the sample frequency.
SomeFrequencies == {-1, 0, 1, 2, 3, 4, 5, 8}

\* In quarters of a second.
SomeDurations == {-1, 0, 1, 2, 3, 4, 5, 7, 12}

\* 2 * r / prime - 1 for the least r, one in the middle and the largest.
SomeNoise == {-32767, 0, 32766}

SomePhases == {-180, -45, 0, 90, 180}

=============================================================================
