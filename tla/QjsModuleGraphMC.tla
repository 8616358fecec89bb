-------------------------- MODULE QjsModuleGraphMC --------------------------
(***************************************************************************)
(* Instances of QjsModuleGraph for TLC: every graph of three modules that  *)
(* import up to two others, one of each set that renaming makes equal, and  *)
(* a module that imports itself.                                           *)
(***************************************************************************)
EXTENDS QjsModuleGraph

CONSTANTS a, b, c

Graph3 ==
  [Modules -> {s \in UNION {[1..n -> Modules] : n \in 0..2} :
                 \A i, j \in DOMAIN s : i # j => s[i] # s[j]}]
NoSelf == {g \in Graph3 : \A m \in Modules : m \notin ToSet(g[m])}

Renamed(g, p) ==
  [m \in Modules |-> LET o == CHOOSE o \in Modules : p[o] = m
                     IN  [i \in DOMAIN g[o] |-> p[g[o][i]]]]
UpToNames(G) == {CHOOSE h \in {Renamed(g, p) : p \in Permutations(Modules)} : TRUE : g \in G}

MCGraphs ==
  UpToNames(NoSelf) \cup {[m \in Modules |-> CASE m = a -> <<b, a>> [] m = b -> <<c>> [] OTHER -> <<c>>]}

\* One module that another imports.
TwoModules == {[m \in Modules |-> IF m = a THEN <<b>> ELSE <<>>]}
=============================================================================
