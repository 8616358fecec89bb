---------------------------- MODULE EjrModulesMC ----------------------------
(***************************************************************************)
(* Small instances of EjrModules for TLC.  Module a's method b_c and module *)
(* a_b's method c share the key __a_b_c; module a::x is split into a.  One  *)
(* host keeps every rule, the other none.                                   *)
(***************************************************************************)
EXTENDS EjrModules, TLC

MCMangledKey ==
  [a    |-> [c |-> "__a_c",    b_c |-> "__a_b_c"],
   a_b  |-> [c |-> "__a_b_c",  b_c |-> "__a_b_b_c"],
   ax   |-> [c |-> "__a::x_c", b_c |-> "__a::x_b_c"]]

MCRealName == [n \in {"a", "a_b", "ax"} |-> IF n = "ax" THEN "a" ELSE n]

MCHosts == {AllRules, {}}

Symmetry == Permutations(Fns) \cup Permutations(Defs)

=============================================================================
