----------------------------- MODULE MCAlutPlayer -----------------------------
(***************************************************************************)
(* An instance of AlutPlayer for TLC.                                      *)
(***************************************************************************)
EXTENDS AlutPlayer

=============================================================================
