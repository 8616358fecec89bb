----------------------------- MODULE EjrArgsMC -----------------------------
(***************************************************************************)
(* Small instances of EjrArgs for TLC.                                      *)
(***************************************************************************)
EXTENDS EjrArgs, TLC

Symmetry == Permutations(Args) \cup Permutations(Lists)

=============================================================================
