----------------------------- MODULE EjrHandleMC -----------------------------
(* Small instances of EjrHandle for TLC. *)
EXTENDS EjrHandle, TLC

\* The cells are interchangeable, and no property names one.
Symmetry == Permutations(Objects)

=============================================================================
