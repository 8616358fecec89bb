------------------------------- MODULE QjsHeap -------------------------------
(***************************************************************************)
(* What the engine's heap promises to the code that runs on it: objects may *)
(* disappear at any time, but only in sets that neither the program nor a   *)
(* living object outside the set refers to.                                 *)
(***************************************************************************)
CONSTANT Objects

VARIABLES
  live,  \* objects that exist
  held,  \* objects the program has a handle of
  refs   \* refs[o]: the objects a living o refers to

vars == <<live, held, refs>>

Init ==
  /\ live = {}
  /\ held = {}
  /\ refs = [o \in Objects |-> {}]

\* The program comes to hold h and to have written r, and some garbage goes.
Becomes(h, r) ==
  \E dead \in SUBSET live :
    /\ h \cap dead = {}
    /\ \A o \in live \ dead : r[o] \cap dead = {}
    /\ live' = live \ dead
    /\ held' = h
    /\ refs' = [o \in Objects |-> IF o \in dead THEN {} ELSE r[o]]

\* A new object, held by the program or part of an object it holds.
New(o) ==
  /\ o \notin live
  /\ live' = live \cup {o}
  /\ \/ held' = held \cup {o} /\ UNCHANGED refs
     \/ \E a \in held : refs' = [refs EXCEPT ![a] = @ \cup {o}] /\ UNCHANGED held

\* The program may hold whatever lives: it reads a property, or a weak reference.
Hold(o)     == o \in live /\ Becomes(held \cup {o}, refs)
LetGo(o)    == Becomes(held \ {o}, refs)
Write(o, S) == o \in live /\ S \subseteq live /\ Becomes(held, [refs EXCEPT ![o] = S])
Collect     == Becomes(held, refs)

Next ==
  \/ \E o \in Objects : New(o) \/ Hold(o) \/ LetGo(o)
  \/ \E o \in Objects, S \in SUBSET Objects : Write(o, S)
  \/ Collect

Spec == Init /\ [][Next]_vars

=============================================================================
