----------------------------- MODULE MCAlutSleep -----------------------------
(***************************************************************************)
(* Instances of AlutSleep for TLC: a microsecond of two units, a           *)
(* millisecond of four, a second of eight, and an ALuint up to 5.          *)
(***************************************************************************)
EXTENDS AlutSleep

\* Below zero, every length up to three seconds, the largest in range, and
\* what an ALuint cannot hold.
AllDurations == {-1} \cup 0 .. 25 \cup {47} \cup {48, 56, 104}

=============================================================================
