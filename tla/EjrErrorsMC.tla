----------------------------- MODULE EjrErrorsMC -----------------------------
(* Small instances of EjrErrors for TLC. *)
EXTENDS EjrErrors, TLC

AnyReason == Permutations(Reasons)

=============================================================================
