-------------------------------- MODULE QjsGc --------------------------------
(***************************************************************************)
(* The memory of the QuickJS runtime a handle owns: reference counts, the   *)
(* list of objects about to be freed, the cycle collector, and the          *)
(* structures weak references keep.                                         *)
(*                                                                          *)
(* Values are objects, functions and modules, freed through                 *)
(* gc_zero_ref_count_list.  Parts are variable references and shapes, freed *)
(* on the spot with the last object that has them.  The runtime's lists are *)
(* told apart by the place of an object; their order is left open, so the   *)
(* collector visits the objects of a list in any order.                     *)
(***************************************************************************)
EXTENDS Integers, FiniteSets

CONSTANTS
  Values,      \* places for objects JavaScript can name
  Parts,       \* places for variable references and shapes
  None,        \* no weak target
  MaxHandles,  \* bound: references the program holds to one object
  MaxRefs      \* bound: references between objects

Objects == Values \cup Parts

ASSUME PlacesAssumption ==
  /\ IsFiniteSet(Values) /\ IsFiniteSet(Parts)
  /\ Values \cap Parts = {} /\ None \notin Objects
ASSUME BoundsAssumption == MaxHandles \in Nat /\ MaxRefs \in Nat

VARIABLES
  place,          \* "free", "gc" (gc_obj_list), "tmp" (tmp_obj_list), "zero"
                  \* (gc_zero_ref_count_list), or "kept" for weak references only
  handles,        \* references from the host, the stack and the runtime itself
  refs,           \* refs[o]: the objects o refers to
  weak,           \* weak[o]: the target of the weak reference o is, or None
  ref_count,
  weakref_count,
  mark,
  gc_phase,       \* "none", "decref", "remove_cycles"
  pc,             \* the loop the engine is in, "idle" when JavaScript runs
  left            \* objects the loop has yet to visit

vars == <<place, handles, refs, weak, ref_count, weakref_count, mark, gc_phase, pc, left>>

Init ==
  /\ place = [o \in Objects |-> "free"]
  /\ handles = [o \in Objects |-> 0]
  /\ refs = [o \in Objects |-> {}]
  /\ weak = [o \in Objects |-> None]
  /\ ref_count = [o \in Objects |-> 0]
  /\ weakref_count = [o \in Objects |-> 0]
  /\ mark = [o \in Objects |-> 0]
  /\ gc_phase = "none"
  /\ pc = "idle"
  /\ left = {}

In(where)        == {o \in Objects : place[o] = where}
Referrers(o, S)  == {q \in S : o \in refs[q]}
TotalRefs        == Cardinality({e \in Objects \X Objects : e[2] \in refs[e[1]]})
Held             == {o \in Objects : handles[o] > 0}
B(cond)          == IF cond THEN 1 ELSE 0

-----------------------------------------------------------------------------
(* Giving up references *)

\* MUTANT of Dying: parts wait for the next collection like values.
DyingLater(K) == {v \in Parts \cap K : ref_count[v] < 0}

\* Parts whose last reference goes with one reference to each object of K.
Dying(K) == {v \in Parts \cap K : ref_count[v] = 1}

\* JS_FreeValueRT, free_var_ref and js_free_shape on each object of K: a part
\* that dies gives up its own references at once.
AfterFreeing(K) ==
  [o \in Objects |-> ref_count[o] - B(o \in K) - Cardinality(Referrers(o, Dying(K)))]

\* Values that lose their last reference this way.
Dropped(K) == {o \in Values : ref_count[o] > 0 /\ AfterFreeing(K)[o] = 0}

\* MUTANT of WeakFreed: the mark is not tested.
WeakFreedUnmarked(o, strong, w, m) == strong = 0 /\ w = 0

\* js_weakref_free frees the structure of a dead target with the last weak
\* reference, unless a mark says that somebody else is about to.
WeakFreed(o, strong, w, m) == strong = 0 /\ w = 0 /\ m = 0

\* __JS_FreeValueRT outside a collection, for the references to K that the
\* program gives up: the values dropped go to the list that free_zero_refcount
\* empties.
FreeValues(K) ==
  /\ place' = [o \in Objects |-> IF o \in Dropped(K) THEN "zero"
                                 ELSE IF o \in Dying(K) THEN "free" ELSE place[o]]
  /\ mark' = [o \in Objects |-> IF o \in Dropped(K) THEN 1 ELSE mark[o]]
  /\ pc' = IF Dropped(K) = {} THEN "idle" ELSE "zero"
  /\ gc_phase' = IF Dropped(K) = {} THEN "none" ELSE "decref"
  /\ UNCHANGED <<weak, weakref_count, left>>

-----------------------------------------------------------------------------
(* The program, between two calls of the collector *)

Idle == pc = "idle"

Allocate(o, h, target) ==
  /\ place[o] = "free"
  /\ place' = [place EXCEPT ![o] = "gc"]
  /\ handles' = [handles EXCEPT ![o] = h]
  /\ ref_count' = [ref_count EXCEPT ![o] = 1]
  /\ mark' = [mark EXCEPT ![o] = 0]
  /\ weak' = [weak EXCEPT ![o] = target]
  /\ weakref_count' = [t \in Objects |-> weakref_count[t] + B(t = target)]
  /\ UNCHANGED <<gc_phase, pc, left>>

\* JS_NewObjectFromShape; js_weakref_constructor when there is a target.
NewValue(o, target) ==
  /\ Idle /\ MaxHandles > 0
  /\ o \in Values /\ target \in Held \cup {None}
  /\ Allocate(o, 1, target)
  /\ UNCHANGED refs

\* js_closure2: a function gets a variable reference of its own, or one that
\* another function has.
NewPart(a, v) ==
  /\ Idle /\ TotalRefs < MaxRefs
  /\ a \in Held /\ v \in Parts
  /\ Allocate(v, 0, None)
  /\ refs' = [refs EXCEPT ![a] = @ \cup {v}]

Reads(a) == UNION {refs[q] : q \in {a} \cup (refs[a] \cap Parts)}

\* JS_DupValue of a property or of a variable's value.
Get(a, b) ==
  /\ Idle
  /\ a \in Held /\ b \in Reads(a) \cap Values /\ handles[b] < MaxHandles
  /\ handles' = [handles EXCEPT ![b] = @ + 1]
  /\ ref_count' = [ref_count EXCEPT ![b] = @ + 1]
  /\ UNCHANGED <<place, refs, weak, weakref_count, mark, gc_phase, pc, left>>

\* MUTANT of Deref: the target is handed out dead or alive.
DerefAny(w) ==
  LET t == weak[w]
  IN  /\ Idle
      /\ w \in Held /\ t # None
      /\ handles[t] < MaxHandles
      /\ handles' = [handles EXCEPT ![t] = @ + 1]
      /\ ref_count' = [ref_count EXCEPT ![t] = @ + 1]
      /\ UNCHANGED <<place, refs, weak, weakref_count, mark, gc_phase, pc, left>>

\* js_weakref_deref on a target that is live, that is, counted.
Deref(w) ==
  LET t == weak[w]
  IN  /\ Idle
      /\ w \in Held /\ t # None
      /\ ref_count[t] # 0 /\ handles[t] < MaxHandles
      /\ handles' = [handles EXCEPT ![t] = @ + 1]
      /\ ref_count' = [ref_count EXCEPT ![t] = @ + 1]
      /\ UNCHANGED <<place, refs, weak, weakref_count, mark, gc_phase, pc, left>>

\* A property is added, or a closure shares a variable reference.
Put(a, b) ==
  /\ Idle /\ TotalRefs < MaxRefs
  /\ a \in Held /\ b \in Held \cup (Parts \cap UNION {refs[q] : q \in Held})
  /\ b \notin refs[a]
  /\ refs' = [refs EXCEPT ![a] = @ \cup {b}]
  /\ ref_count' = [ref_count EXCEPT ![b] = @ + 1]
  /\ UNCHANGED <<place, handles, weak, weakref_count, mark, gc_phase, pc, left>>

\* A property is deleted.
Delete(a, b) ==
  /\ Idle
  /\ a \in Held /\ b \in refs[a]
  /\ refs' = [o \in Objects |-> IF o \in Dying({b}) THEN {}
                                ELSE IF o = a THEN refs[a] \ {b} ELSE refs[o]]
  /\ ref_count' = AfterFreeing({b})
  /\ FreeValues({b})
  /\ UNCHANGED handles

\* set_value on a captured variable: the new value is stored before the old one
\* is freed.
SetVariable(a, v, b) ==
  /\ Idle /\ TotalRefs < MaxRefs
  /\ a \in Held /\ v \in refs[a] \cap Parts /\ b \in Held \ refs[v]
  /\ refs' = [refs EXCEPT ![v] = {b}]
  /\ ref_count' = [AfterFreeing(refs[v]) EXCEPT ![b] = @ + 1]
  /\ FreeValues(refs[v])
  /\ UNCHANGED handles

\* JS_FreeValue of a handle.
Release(o) ==
  /\ Idle
  /\ o \in Held
  /\ handles' = [handles EXCEPT ![o] = @ - 1]
  /\ refs' = refs
  /\ ref_count' = AfterFreeing({o})
  /\ FreeValues({o})

-----------------------------------------------------------------------------
(* The engine *)

\* The weak reference that o may be is given up; the memory of its target with
\* it, when that was all that kept it.
WeakCountsWithout(S) ==
  [t \in Objects |-> weakref_count[t] - Cardinality({w \in S : weak[w] = t})]

\* MUTANT of FreeZero: a structure with weak references stays in the list, as in a
\* collection.
FreeZeroListed(p) ==
  /\ pc = "zero" /\ place[p] = "zero"
  /\ ref_count' = AfterFreeing(refs[p])
  /\ weakref_count' = WeakCountsWithout({p})
  /\ mark' = [o \in Objects |-> IF o = p THEN 0
                                ELSE IF o \in Dropped(refs[p]) THEN 1 ELSE mark[o]]
  /\ place' = [o \in Objects |->
       IF o = p THEN IF weakref_count'[p] = 0 THEN "free" ELSE "zero"
       ELSE IF o \in Dropped(refs[p]) THEN "zero"
       ELSE IF o \in Dying(refs[p]) THEN "free"
       ELSE IF o = weak[p] /\ WeakFreed(o, ref_count'[o], weakref_count'[o], mark[o])
       THEN "free" ELSE place[o]]
  /\ refs' = [o \in Objects |-> IF o \in Dying(refs[p]) \cup {p} THEN {} ELSE refs[o]]
  /\ weak' = [weak EXCEPT ![p] = None]
  /\ pc' = IF \E o \in Objects : place'[o] = "zero" THEN "zero" ELSE "idle"
  /\ gc_phase' = IF pc' = "idle" THEN "none" ELSE gc_phase
  /\ UNCHANGED <<handles, left>>

\* free_zero_refcount: free_object on one object of the list.
FreeZero(p) ==
  /\ pc = "zero" /\ place[p] = "zero"
  /\ ref_count' = AfterFreeing(refs[p])
  /\ weakref_count' = WeakCountsWithout({p})
  /\ mark' = [o \in Objects |-> IF o = p THEN 0
                                ELSE IF o \in Dropped(refs[p]) THEN 1 ELSE mark[o]]
  /\ place' = [o \in Objects |->
       IF o = p THEN IF weakref_count'[p] = 0 THEN "free" ELSE "kept"
       ELSE IF o \in Dropped(refs[p]) THEN "zero"
       ELSE IF o \in Dying(refs[p]) THEN "free"
       ELSE IF o = weak[p] /\ WeakFreed(o, ref_count'[o], weakref_count'[o], mark[o])
       THEN "free" ELSE place[o]]
  /\ refs' = [o \in Objects |-> IF o \in Dying(refs[p]) \cup {p} THEN {} ELSE refs[o]]
  /\ weak' = [weak EXCEPT ![p] = None]
  /\ pc' = IF \E o \in Objects : place'[o] = "zero" THEN "zero" ELSE "idle"
  /\ gc_phase' = IF pc' = "idle" THEN "none" ELSE gc_phase
  /\ UNCHANGED <<handles, left>>

\* JS_RunGC, and JS_FreeRuntime's collection, which leaves weak references alone:
\* gc_remove_weak_objects, and the start of gc_decref.
RunGC(remove_weak_objects) ==
  LET cleared == IF remove_weak_objects
                 THEN {w \in In("gc") : weak[w] # None /\ ref_count[weak[w]] = 0} ELSE {}
  IN  /\ Idle
      /\ weak' = [o \in Objects |-> IF o \in cleared THEN None ELSE weak[o]]
      /\ weakref_count' = WeakCountsWithout(cleared)
      /\ place' = [o \in Objects |->
           IF /\ \E w \in cleared : weak[w] = o
              /\ WeakFreed(o, ref_count[o], weakref_count'[o], mark[o])
           THEN "free" ELSE place[o]]
      /\ pc' = "decref"
      /\ left' = In("gc")
      /\ UNCHANGED <<handles, refs, ref_count, mark, gc_phase>>

\* gc_decref on one object: its children lose its references, and whoever was
\* visited and has none left waits in tmp_obj_list.
GcDecref(p) ==
  /\ pc = "decref" /\ p \in left
  /\ ref_count' = [o \in Objects |-> ref_count[o] - B(o \in refs[p])]
  /\ mark' = [mark EXCEPT ![p] = 1]
  /\ place' = [o \in Objects |->
       IF ref_count'[o] = 0 /\ (o = p \/ (o \in refs[p] /\ mark[o] = 1)) THEN "tmp" ELSE place[o]]
  /\ left' = left \ {p}
  /\ UNCHANGED <<handles, refs, weak, weakref_count, gc_phase, pc>>

\* MUTANT of GcScan: the objects brought back are not scanned in turn.
GcScanShallow(p) ==
  LET back == {o \in refs[p] : ref_count[o] = 0}
  IN  /\ pc = "scan" /\ p \in left
      /\ ref_count' = [o \in Objects |-> ref_count[o] + B(o \in refs[p])]
      /\ place' = [o \in Objects |-> IF o \in back THEN "gc" ELSE place[o]]
      /\ mark' = [o \in Objects |-> IF o \in back \cup {p} THEN 0 ELSE mark[o]]
      /\ left' = left \ {p}
      /\ UNCHANGED <<handles, refs, weak, weakref_count, gc_phase, pc>>

\* gc_scan on one object that is kept: its children get their references back,
\* and those that had none are kept too.
GcScan(p) ==
  LET back == {o \in refs[p] : ref_count[o] = 0}
  IN  /\ pc = "scan" /\ p \in left
      /\ ref_count' = [o \in Objects |-> ref_count[o] + B(o \in refs[p])]
      /\ place' = [o \in Objects |-> IF o \in back THEN "gc" ELSE place[o]]
      /\ mark' = [o \in Objects |-> IF o \in back \cup {p} THEN 0 ELSE mark[o]]
      /\ left' = (left \ {p}) \cup back
      /\ UNCHANGED <<handles, refs, weak, weakref_count, gc_phase, pc>>

\* gc_scan, second loop: the counts of the garbage are restored too.
GcRestore(p) ==
  /\ pc = "restore" /\ p \in left
  /\ ref_count' = [o \in Objects |-> ref_count[o] + B(o \in refs[p])]
  /\ left' = left \ {p}
  /\ UNCHANGED <<place, handles, refs, weak, weakref_count, mark, gc_phase, pc>>

\* One loop ends and the next begins.
NextLoop ==
  /\ pc \in {"decref", "scan", "restore"} /\ left = {}
  /\ \/ pc = "decref"  /\ pc' = "scan"    /\ left' = In("gc")  /\ UNCHANGED gc_phase
     \/ pc = "scan"    /\ pc' = "restore" /\ left' = In("tmp") /\ UNCHANGED gc_phase
     \/ pc = "restore" /\ pc' = "free"    /\ left' = {}  /\ gc_phase' = "remove_cycles"
  /\ UNCHANGED <<place, handles, refs, weak, ref_count, weakref_count, mark>>

\* gc_free_cycles: free_object on one value of tmp_obj_list.  Its structure
\* stays in the zero list while anything refers to it; what loses its last
\* reference is in one of the two lists already.
GcFreeCycles(p) ==
  /\ pc = "free" /\ place[p] = "tmp" /\ p \in Values
  /\ ref_count' = AfterFreeing(refs[p])
  /\ weakref_count' = WeakCountsWithout({p})
  /\ place' = [o \in Objects |->
       IF o = p THEN IF ref_count'[p] = 0 /\ weakref_count'[p] = 0 THEN "free" ELSE "zero"
       ELSE IF o \in Dying(refs[p]) THEN "free"
       ELSE IF o = weak[p] /\ WeakFreed(o, ref_count'[o], weakref_count'[o], mark[o])
       THEN "free" ELSE place[o]]
  /\ refs' = [o \in Objects |-> IF o \in Dying(refs[p]) \cup {p} THEN {} ELSE refs[o]]
  /\ weak' = [weak EXCEPT ![p] = None]
  /\ mark' = [o \in Objects |-> IF place'[o] = "free" THEN 0 ELSE mark[o]]
  /\ UNCHANGED <<handles, gc_phase, pc, left>>

\* gc_free_cycles: a part is set aside, to die with the values that have it.
GcSetAside(v) ==
  /\ pc = "free" /\ place[v] = "tmp" /\ v \in Parts
  /\ place' = [place EXCEPT ![v] = "zero"]
  /\ UNCHANGED <<handles, refs, weak, ref_count, weakref_count, mark, gc_phase, pc, left>>

\* MUTANT of GcSweep: the marks of the structures that stay are not reset.
GcSweepMarked ==
  /\ pc = "free" /\ In("tmp") = {}
  /\ place' = [o \in Objects |->
       IF place[o] # "zero" THEN place[o]
       ELSE IF o \in Values /\ weakref_count[o] # 0 THEN "kept" ELSE "free"]
  /\ mark' = [o \in Objects |-> IF place'[o] = "free" THEN 0 ELSE mark[o]]
  /\ pc' = "idle"
  /\ gc_phase' = "none"
  /\ UNCHANGED <<handles, refs, weak, ref_count, weakref_count, left>>

\* gc_free_cycles, second loop: the structures go, but for those with weak
\* references.
GcSweep ==
  /\ pc = "free" /\ In("tmp") = {}
  /\ place' = [o \in Objects |->
       IF place[o] # "zero" THEN place[o]
       ELSE IF o \in Values /\ weakref_count[o] # 0 THEN "kept" ELSE "free"]
  /\ mark' = [o \in Objects |-> IF place[o] = "zero" THEN 0 ELSE mark[o]]
  /\ pc' = "idle"
  /\ gc_phase' = "none"
  /\ UNCHANGED <<handles, refs, weak, ref_count, weakref_count, left>>

Program ==
  \/ \E o \in Values, t \in Values \cup {None} : NewValue(o, t)
  \/ \E a \in Values, v \in Parts : NewPart(a, v)
  \/ \E a, b \in Objects : Get(a, b) \/ Put(a, b) \/ Delete(a, b)
  \/ \E a, b \in Values, v \in Parts : SetVariable(a, v, b)
  \/ \E w \in Values : Deref(w)
  \/ \E o \in Values : Release(o)

Engine ==
  \/ \E p \in Objects : \/ FreeZero(p) \/ GcDecref(p) \/ GcScan(p) \/ GcRestore(p)
                         \/ GcFreeCycles(p) \/ GcSetAside(p)
  \/ NextLoop
  \/ GcSweep

Next ==
  \/ Program
  \/ Engine
  \/ \E remove_weak_objects \in BOOLEAN : RunGC(remove_weak_objects)

Spec == Init /\ [][Next]_vars

\* The engine's loops run to their end before any JavaScript does.
FairSpec == Spec /\ WF_vars(Engine)

-----------------------------------------------------------------------------
(* Properties *)

\* The types, a part of CountsExact.
TypeOK ==
  /\ place \in [Objects -> {"free", "gc", "tmp", "zero", "kept"}]
  /\ handles \in [Objects -> 0 .. MaxHandles]
  /\ refs \in [Objects -> SUBSET Objects]
  /\ weak \in [Objects -> Values \cup {None}]
  /\ ref_count \in [Objects -> Nat]
  /\ weakref_count \in [Objects -> Nat]
  /\ mark \in [Objects -> {0, 1}]
  /\ gc_phase \in {"none", "decref", "remove_cycles"}
  /\ gc_phase = "decref" <=> pc = "zero"
  /\ gc_phase = "remove_cycles" <=> pc = "free"
  /\ pc \in {"idle", "zero", "decref", "scan", "restore", "free"}
  /\ left \subseteq Objects

\* The objects whose references the counts include at this point of a collection.
Counted ==
  {o \in Objects : /\ pc = "decref"  => o \in left
                   /\ pc = "scan"    => o \in In("gc") \ left
                   /\ pc = "restore" => o \in In("gc") \cup (In("tmp") \ left)}

\* The counts, which the collector takes apart and puts together again, are
\* exact: the references of the program and of the objects counted so far.  When
\* the engine rests, what is counted lives, the marks are reset, and a structure
\* without its object is only kept for weak references.
CountsExact ==
  /\ TypeOK
  /\ \A o \in Objects : ref_count[o] = handles[o] + Cardinality(Referrers(o, Counted))
  /\ \A o \in Objects : weakref_count[o] = Cardinality({w \in Objects : weak[w] = o})
  /\ pc = "idle" => \A o \in Objects :
       /\ mark[o] = 0
       /\ (ref_count[o] > 0) = (place[o] = "gc")
       /\ place[o] \in {"gc", "kept", "free"}
       /\ place[o] = "kept" => weakref_count[o] > 0

\* An object is freed, or kept as an empty structure, only when nothing refers
\* to it and it has given up what it referred to; its memory goes only when no
\* weak reference is left either.
NoDangling ==
  \A o \in Objects :
    /\ handles[o] > 0 \/ (\E q \in Objects : o \in refs[q]) => place[o] \notin {"free", "kept"}
    /\ (\E w \in Objects : weak[w] = o) => place[o] # "free"
    /\ place[o] \in {"free", "kept"} => refs[o] = {} /\ weak[o] = None

\* What the program can reach, by the least closed set.
Reachable ==
  {o \in Objects :
     \A C \in SUBSET Objects : Held \subseteq C /\ (\A q \in C : refs[q] \subseteq C) => o \in C}

\* Nothing reachable leaves the list of living objects, and a collection keeps
\* nothing else.
OnlyGarbageGoes ==
  /\ pc \in {"idle", "zero", "restore", "free"} => Reachable \subseteq In("gc")
  /\ pc \in {"restore", "free"} => In("gc") \subseteq Reachable

\* The assertions of gc_decref_child, gc_decref, gc_scan, free_zero_refcount and
\* gc_free_cycles.
AssertsHold ==
  /\ pc = "decref" => \A p \in left : mark[p] = 0 /\ \A o \in refs[p] : ref_count[o] > 0
  /\ pc = "scan" => \A p \in left : ref_count[p] > 0
  /\ pc = "zero" => \A p \in In("zero") : ref_count[p] = 0
  /\ pc = "free" /\ In("tmp") = {} => In("zero") \subseteq Values

\* The abstract heap: what lives is in gc_obj_list, or not judged yet.
Live == In("gc") \cup IF pc \in {"decref", "scan", "restore"} THEN In("tmp") ELSE {}
Heap == INSTANCE QjsHeap WITH
          live <- Live,
          held <- Held,
          refs <- [o \in Objects |-> IF o \in Live THEN refs[o] ELSE {}]
ImplementsHeap == Heap!Spec

\* A collection, or a cascade of frees, ends.
EngineEnds == (pc # "idle") ~> (pc = "idle")

=============================================================================
