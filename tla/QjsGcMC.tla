------------------------------- MODULE QjsGcMC -------------------------------
(* A small instance of QjsGc for TLC. *)
EXTENDS QjsGc

CONSTANTS a, b, c, v

=============================================================================
