---------------------------- MODULE EjrPromisesMC ----------------------------
(* A small instance of EjrPromises for TLC. *)
EXTENDS EjrPromises

CONSTANTS undefined, error

MCValues == {undefined, error}

=============================================================================
