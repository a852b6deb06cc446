--------------------------- MODULE MCAlutLifecycle ---------------------------
(***************************************************************************)
(* Instances of AlutLifecycle for TLC.                                     *)
(***************************************************************************)
EXTENDS AlutLifecycle, TLC

\* Handles of one kind are interchangeable.
Symmetry == Permutations(Devices) \cup Permutations(Contexts)

=============================================================================
