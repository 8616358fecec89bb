----------------------------- MODULE QjsGcProofs -----------------------------
(***************************************************************************)
(* Proofs about QjsGc, for any number of places for values and for parts,   *)
(* and any bounds.                                                          *)
(***************************************************************************)
EXTENDS QjsGc, FiniteSetTheorems, TLAPS

-----------------------------------------------------------------------------
(* Counting *)

\* How many objects of S refer to o, when q refers to r[q].
N(r, o, S) == Cardinality({q \in S : o \in r[q]})

\* How many objects of S are weak references to o.
W(w, o, S) == Cardinality({q \in S : w[q] = o})

\* B is 0 or 1.
LEMMA BType ==
  ASSUME NEW c \in BOOLEAN
  PROVE  B(c) \in Nat /\ (c => B(c) = 1) /\ (~c => B(c) = 0)
BY DEF B

\* There are finitely many places.
LEMMA ObjectsFinite == IsFiniteSet(Objects)
BY PlacesAssumption, FS_Union DEF Objects

\* A count is a number, and is 0 when nobody refers.
LEMMA NType ==
  ASSUME NEW r, NEW o, NEW S \in SUBSET Objects
  PROVE  /\ N(r, o, S) \in Nat
         /\ N(r, o, S) = 0 <=> \A q \in S : o \notin r[q]
<1> DEFINE R == {q \in S : o \in r[q]}
<1>1. IsFiniteSet(S)
  BY ObjectsFinite, FS_Subset
<1>2. IsFiniteSet(R)
  BY <1>1, FS_Subset
<1>3. Cardinality(R) \in Nat /\ (Cardinality(R) = 0 <=> R = {})
  BY <1>2, FS_CardinalityType, FS_EmptySet
<1>4. R = {} <=> \A q \in S : o \notin r[q]
  OBVIOUS
<1> QED
  BY <1>3, <1>4 DEF N

\* As for N.
LEMMA WType ==
  ASSUME NEW w, NEW o, NEW S \in SUBSET Objects
  PROVE  /\ W(w, o, S) \in Nat
         /\ W(w, o, S) = 0 <=> \A q \in S : w[q] # o
<1> DEFINE R == {q \in S : w[q] = o}
<1>1. IsFiniteSet(S)
  BY ObjectsFinite, FS_Subset
<1>2. IsFiniteSet(R)
  BY <1>1, FS_Subset
<1>3. Cardinality(R) \in Nat /\ (Cardinality(R) = 0 <=> R = {})
  BY <1>2, FS_CardinalityType, FS_EmptySet
<1>4. R = {} <=> \A q \in S : w[q] # o
  OBVIOUS
<1> QED
  BY <1>3, <1>4 DEF W

\* A part of a finite set is counted apart.
LEMMA SplitCount ==
  ASSUME NEW S, IsFiniteSet(S), NEW T \in SUBSET S
  PROVE  /\ Cardinality(S) \in Nat /\ Cardinality(T) \in Nat
         /\ Cardinality(S \ T) = Cardinality(S) - Cardinality(T)
<1>1. S \cap T = T
  OBVIOUS
<1>2. IsFiniteSet(T)
  BY FS_Subset
<1>3. Cardinality(S \ T) = Cardinality(S) - Cardinality(S \cap T)
  BY FS_Difference
<1> QED
  BY <1>1, <1>2, <1>3, FS_CardinalityType

\* One more object whose references count.
LEMMA NOneMore ==
  ASSUME NEW r, NEW o, NEW S \in SUBSET Objects, NEW p \in Objects, p \notin S
  PROVE  N(r, o, S \cup {p}) = N(r, o, S) + B(o \in r[p])
<1> DEFINE R == {q \in S : o \in r[q]}
           T == {q \in S \cup {p} : o \in r[q]}
<1>1. IsFiniteSet(R)
  <2>1. IsFiniteSet(S)
    BY ObjectsFinite, FS_Subset
  <2> QED
    BY <2>1, FS_Subset
<1>2. CASE o \in r[p]
  <2>1. T = R \cup {p} /\ p \notin R
    BY <1>2
  <2>2. Cardinality(R \cup {p}) = Cardinality(R) + 1
    BY <1>1, <2>1, FS_AddElement
  <2>3. B(o \in r[p]) = 1
    BY <1>2 DEF B
  <2>4. N(r, o, S \cup {p}) = N(r, o, S) + 1
    BY <2>1, <2>2 DEF N
  <2> QED
    BY <2>3, <2>4
<1>3. CASE o \notin r[p]
  <2>1. T = R
    BY <1>3
  <2>2. Cardinality(R) \in Nat
    BY <1>1, FS_CardinalityType
  <2>3. B(o \in r[p]) = 0
    BY <1>3 DEF B
  <2>4. N(r, o, S \cup {p}) = N(r, o, S) /\ N(r, o, S) \in Nat
    BY <2>1, <2>2 DEF N
  <2> QED
    BY <2>3, <2>4
<1> QED
  BY <1>2, <1>3

\* Only the references of the objects that count matter.
LEMMA NSame ==
  ASSUME NEW r, NEW s, NEW o, NEW S, NEW T,
         \A q \in S : o \in r[q] => q \in T /\ o \in s[q],
         \A q \in T : o \in s[q] => q \in S /\ o \in r[q]
  PROVE  N(s, o, T) = N(r, o, S)
<1>1. {q \in T : o \in s[q]} = {q \in S : o \in r[q]}
  OBVIOUS
<1> QED
  BY <1>1 DEF N

\* From r to s, a gives up one reference to each object of K, and the objects of
\* D give up all they have.
GivesUp(r, s, a, K, D) ==
  \A q \in Objects : s[q] = IF q \in D THEN {} ELSE IF q = a THEN r[a] \ K ELSE r[q]

\* Each object of K loses one reference, and each object one for every object of D
\* that referred to it.
LEMMA NGivesUp ==
  ASSUME NEW r, NEW s, NEW a \in Objects, NEW D \in SUBSET Objects, a \notin D,
         NEW K \in SUBSET r[a], GivesUp(r, s, a, K, D), NEW o
  PROVE  N(s, o, Objects) = N(r, o, Objects) - B(o \in K) - N(r, o, D)
<1> DEFINE R == {q \in Objects : o \in r[q]}
           E == {q \in D : o \in r[q]}
           T == {q \in Objects : o \in s[q]}
<1>1. IsFiniteSet(R) /\ E \in SUBSET R /\ IsFiniteSet(R \ E)
  BY ObjectsFinite, FS_Subset
<1>2. /\ Cardinality(R) \in Nat /\ Cardinality(E) \in Nat
      /\ Cardinality(R \ E) = Cardinality(R) - Cardinality(E)
      /\ N(r, o, Objects) \in Nat /\ N(r, o, D) \in Nat
  BY <1>1, SplitCount, NType
<1>3. CASE o \in K
  <2>1. T = (R \ E) \ {a} /\ a \in R \ E
    <3>1. a \in R \ E
      BY <1>3
    <3>2. \A q \in Objects : o \in s[q] <=> o \in r[q] /\ q \notin D /\ q # a
      BY <1>3 DEF GivesUp
    <3>3. T = (R \ E) \ {a}
      BY <3>2
    <3> QED
      BY <3>1, <3>3
  <2>2. Cardinality((R \ E) \ {a}) = Cardinality(R \ E) - 1
    BY <1>1, <2>1, FS_RemoveElement
  <2>3. Cardinality(T) = Cardinality(R \ E) - 1
    BY <2>1, <2>2
  <2>4. B(o \in K) = 1
    BY <1>3 DEF B
  <2>5. N(s, o, Objects) = N(r, o, Objects) - 1 - N(r, o, D)
    BY <1>2, <2>3 DEF N
  <2> QED
    BY <1>2, <2>4, <2>5
<1>4. CASE o \notin K
  <2>1. T = R \ E
    BY <1>4 DEF GivesUp
  <2>2. Cardinality(T) = Cardinality(R \ E)
    BY <2>1
  <2>3. B(o \in K) = 0
    BY <1>4 DEF B
  <2>4. N(s, o, Objects) = N(r, o, Objects) - N(r, o, D)
    BY <1>2, <2>2 DEF N
  <2> QED
    BY <1>2, <2>3, <2>4
<1> QED
  BY <1>3, <1>4

\* From r to s, a comes to refer to b.
Adds(r, s, a, b) ==
  /\ b \notin r[a]
  /\ \A q \in Objects : s[q] = IF q = a THEN r[a] \cup {b} ELSE r[q]

\* Only b gains a reference.
LEMMA NAdds ==
  ASSUME NEW r, NEW s, NEW a \in Objects, NEW b, Adds(r, s, a, b), NEW o
  PROVE  N(s, o, Objects) = N(r, o, Objects) + B(o = b)
<1> DEFINE R == {q \in Objects : o \in r[q]}
           T == {q \in Objects : o \in s[q]}
<1>1. IsFiniteSet(R)
  BY ObjectsFinite, FS_Subset
<1>2. CASE o = b
  <2>1. T = R \cup {a} /\ a \notin R
    BY <1>2 DEF Adds
  <2>2. Cardinality(R \cup {a}) = Cardinality(R) + 1
    BY <1>1, <2>1, FS_AddElement
  <2>3. B(o = b) = 1
    BY <1>2 DEF B
  <2>4. N(s, o, Objects) = N(r, o, Objects) + 1
    BY <2>1, <2>2 DEF N
  <2> QED
    BY <2>3, <2>4
<1>3. CASE o # b
  <2>1. T = R
    BY <1>3 DEF Adds
  <2>2. Cardinality(R) \in Nat
    BY <1>1, FS_CardinalityType
  <2>3. B(o = b) = 0
    BY <1>3 DEF B
  <2>4. N(s, o, Objects) = N(r, o, Objects) /\ N(r, o, Objects) \in Nat
    BY <2>1, <2>2 DEF N
  <2> QED
    BY <2>3, <2>4
<1> QED
  BY <1>2, <1>3

\* From w to u, the weak references of S are cleared.
Clears(w, u, S) == \A q \in Objects : u[q] = IF q \in S THEN None ELSE w[q]

\* Each target loses as many weak references as S has of it.
LEMMA WClears ==
  ASSUME NEW w, NEW u, NEW S \in SUBSET Objects, Clears(w, u, S), NEW o, o # None
  PROVE  W(u, o, Objects) = W(w, o, Objects) - W(w, o, S)
<1> DEFINE R == {q \in Objects : w[q] = o}
           E == {q \in S : w[q] = o}
           T == {q \in Objects : u[q] = o}
<1>1. IsFiniteSet(R) /\ E \in SUBSET R
  BY ObjectsFinite, FS_Subset
<1>2. T = R \ E
  BY DEF Clears
<1>3. Cardinality(R \ E) = Cardinality(R) - Cardinality(E)
  BY <1>1, SplitCount
<1> QED
  BY <1>2, <1>3 DEF W

\* From w to u, p becomes a weak reference to t.
Points(w, u, p, t) ==
  /\ w[p] = None
  /\ \A q \in Objects : u[q] = IF q = p THEN t ELSE w[q]

\* Only t gains a weak reference.
LEMMA WAdds ==
  ASSUME NEW w, NEW u, NEW p \in Objects, NEW t, Points(w, u, p, t), NEW o, o # None
  PROVE  W(u, o, Objects) = W(w, o, Objects) + B(o = t)
<1> DEFINE R == {q \in Objects : w[q] = o}
           T == {q \in Objects : u[q] = o}
<1>1. IsFiniteSet(R)
  BY ObjectsFinite, FS_Subset
<1>2. CASE o = t
  <2>1. T = R \cup {p} /\ p \notin R
    BY <1>2 DEF Points
  <2>2. Cardinality(R \cup {p}) = Cardinality(R) + 1
    BY <1>1, <2>1, FS_AddElement
  <2>3. B(o = t) = 1
    BY <1>2 DEF B
  <2>4. W(u, o, Objects) = W(w, o, Objects) + 1
    BY <2>1, <2>2 DEF W
  <2> QED
    BY <2>3, <2>4
<1>3. CASE o # t
  <2>1. T = R
    BY <1>3 DEF Points
  <2>2. Cardinality(R) \in Nat
    BY <1>1, FS_CardinalityType
  <2>3. B(o = t) = 0
    BY <1>3 DEF B
  <2>4. W(u, o, Objects) = W(w, o, Objects) /\ W(w, o, Objects) \in Nat
    BY <2>1, <2>2 DEF W
  <2> QED
    BY <2>3, <2>4
<1> QED
  BY <1>2, <1>3

-----------------------------------------------------------------------------
(* The invariant *)

\* Parts belong to values, and refer to values.
PartsInv == \A x \in Parts : handles[x] = 0 /\ refs[x] \subseteq Values /\ weak[x] = None

\* A freed object has nothing left; its structure stays as long as there are weak
\* references to it, and no longer.
GoneInv ==
  \A o \in Objects :
    /\ place[o] \in {"free", "kept"} => refs[o] = {} /\ weak[o] = None /\ mark[o] = 0
    /\ place[o] = "free" => weakref_count[o] = 0
    /\ place[o] = "kept" => o \in Values /\ weakref_count[o] > 0

HeldInv == Held \subseteq In("gc")

\* The counts include the references of S.
RefCounts(S) == \A o \in Objects : ref_count[o] = handles[o] + N(refs, o, S)
WeakCounts   == \A o \in Objects : weakref_count[o] = W(weak, o, Objects)

\* While objects are freed one by one, what is counted lives, what lives is
\* counted, and the values whose count is 0 wait with a mark.
CascadeInv ==
  /\ left = {}
  /\ \A o \in Objects :
       /\ place[o] \in {"gc", "zero", "kept", "free"}
       /\ refs[o] \subseteq In("gc")
       /\ place[o] = "gc" => ref_count[o] > 0 /\ mark[o] = 0
       /\ place[o] = "zero" => o \in Values /\ ref_count[o] = 0 /\ mark[o] = 1

\* What the three loops of a collection leave alone: every object they look at is
\* referred to by somebody.
LoopInv ==
  \A o \in Objects :
    /\ place[o] \in {"gc", "tmp", "kept", "free"}
    /\ refs[o] \subseteq In("gc") \cup In("tmp")
    /\ place[o] \in {"gc", "tmp"} => handles[o] > 0 \/ \E q \in Objects : o \in refs[q]

\* Visited objects are marked, and wait when nobody not visited refers to them.
DecrefInv ==
  /\ LoopInv
  /\ left \subseteq In("gc")
  /\ \A o \in Objects :
       /\ o \in left => mark[o] = 0
       /\ place[o] = "gc" /\ o \notin left => ref_count[o] > 0 /\ mark[o] = 1
       /\ place[o] = "tmp" => ref_count[o] = 0 /\ mark[o] = 1

\* What was brought back, or never waited, can be reached.
ScanInv ==
  /\ LoopInv
  /\ left \subseteq In("gc")
  /\ In("gc") \subseteq Reachable
  /\ \A o \in Objects :
       /\ place[o] = "gc" => ref_count[o] > 0
       /\ place[o] = "gc" /\ o \notin left => mark[o] = 0
       /\ place[o] = "tmp" => ref_count[o] = 0 /\ mark[o] = 1

\* What is reached is closed: nothing of the garbage is referred to from it.
Separate ==
  /\ In("gc") \subseteq Reachable
  /\ \A o \in In("gc") : refs[o] \subseteq In("gc") /\ ref_count[o] > 0 /\ mark[o] = 0

RestoreInv ==
  /\ LoopInv
  /\ left \subseteq In("tmp")
  /\ Separate
  /\ \A o \in In("tmp") : mark[o] = 1

\* The garbage is freed: a value gives up what it has, a part dies with the last
\* value that has it.
FreeInv ==
  /\ left = {}
  /\ Separate
  /\ \A o \in Objects :
       /\ refs[o] \cap (In("free") \cup In("kept")) = {}
       /\ place[o] \in {"tmp", "zero"} => mark[o] = 1
       /\ place[o] = "zero" /\ o \in Values => refs[o] = {} /\ weak[o] = None
       /\ place[o] \in {"tmp", "zero"} /\ o \in Parts => ref_count[o] > 0

AlwaysInv == TypeOK /\ PartsInv /\ GoneInv /\ HeldInv /\ WeakCounts

\* What holds in each loop of the engine.
PhaseInv ==
  /\ pc = "idle"    => RefCounts(Objects) /\ CascadeInv /\ In("zero") = {}
  /\ pc = "zero"    => RefCounts(Objects) /\ CascadeInv /\ In("zero") # {}
  /\ pc = "decref"  => RefCounts(left) /\ DecrefInv
  /\ pc = "scan"    => RefCounts(In("gc") \ left) /\ ScanInv
  /\ pc = "restore" => RefCounts(In("gc") \cup (In("tmp") \ left)) /\ RestoreInv
  /\ pc = "free"    => RefCounts(Objects) /\ FreeInv

IInv == AlwaysInv /\ PhaseInv

\* It holds at the start.
LEMMA InitIInv == Init => IInv
<1> SUFFICES ASSUME Init
             PROVE  IInv
  OBVIOUS
<1> USE DEF Init
<1>1. TypeOK
  BY BoundsAssumption DEF TypeOK
<1>2. PartsInv /\ GoneInv /\ HeldInv
  BY DEF PartsInv, GoneInv, HeldInv, Held, Objects
<1>3. WeakCounts
  <2>1. \A o \in Objects : W(weak, o, Objects) = 0
    BY WType, PlacesAssumption
  <2> QED
    BY <2>1 DEF WeakCounts
<1>4. RefCounts(Objects)
  <2>1. \A o \in Objects : N(refs, o, Objects) = 0
    BY NType
  <2>2. \A o \in Objects : ref_count[o] = 0 /\ handles[o] = 0
    OBVIOUS
  <2>3. \A o \in Objects : ref_count[o] = handles[o] + N(refs, o, Objects)
    <3> HIDE DEF Init
    <3> QED
      BY <2>1, <2>2
  <2> QED
    BY <2>3 DEF RefCounts
<1>5. CascadeInv /\ In("zero") = {}
  BY DEF CascadeInv, In
<1> QED
  BY <1>1, <1>2, <1>3, <1>4, <1>5 DEF IInv, AlwaysInv, PhaseInv

-----------------------------------------------------------------------------
(* Facts about a state *)

\* Parts and values are objects, and an object is one or the other.
LEMMA Sorts ==
  /\ Values \subseteq Objects /\ Parts \subseteq Objects /\ None \notin Objects
  /\ \A o \in Objects : (o \in Parts) = (o \notin Values)
BY PlacesAssumption DEF Objects

\* Only values are held, and only values have weak references.
LEMMA OnlyValues ==
  ASSUME AlwaysInv
  PROVE  /\ \A o \in Objects : handles[o] > 0 => o \in Values
         /\ \A x \in Parts : weakref_count[x] = 0
<1>1. \A x \in Parts : W(weak, x, Objects) = 0
  <2>1. \A q \in Objects, x \in Parts : weak[q] # x
    BY Sorts DEF AlwaysInv, TypeOK
  <2> QED
    BY <2>1, WType
<1> QED
  BY <1>1, Sorts DEF AlwaysInv, PartsInv, WeakCounts

\* An object nobody counts is neither held nor referred to, and the other way
\* around.
LEMMA Uncounted ==
  ASSUME TypeOK, NEW S \in SUBSET Objects, RefCounts(S), NEW o \in Objects
  PROVE  (ref_count[o] = 0) <=> (handles[o] = 0 /\ \A q \in S : o \notin refs[q])
<1>1. ref_count[o] = handles[o] + N(refs, o, S)
  BY DEF RefCounts
<1>2. handles[o] \in Nat /\ N(refs, o, S) \in Nat
  BY NType DEF TypeOK
<1>3. N(refs, o, S) = 0 <=> \A q \in S : o \notin refs[q]
  BY NType
<1> QED
  BY <1>1, <1>2, <1>3

\* The same after a step.
LEMMA UncountedNext ==
  ASSUME TypeOK', RefCounts(Objects)', NEW o \in Objects
  PROVE  ((ref_count')[o] = 0) <=> ((handles')[o] = 0 /\ \A q \in Objects : o \notin (refs')[q])
<1>1. (ref_count')[o] = (handles')[o] + N(refs', o, Objects)
  BY DEF RefCounts
<1>2. (handles')[o] \in Nat /\ N(refs', o, Objects) \in Nat
  BY NType DEF TypeOK
<1>3. N(refs', o, Objects) = 0 <=> \A q \in Objects : o \notin (refs')[q]
  BY NType
<1> QED
  BY <1>1, <1>2, <1>3

-----------------------------------------------------------------------------
(* Giving up references *)

\* The parts that die refer to no part.
LEMMA DyingParts ==
  ASSUME AlwaysInv, NEW K \in SUBSET Objects
  PROVE  /\ Dying(K) \subseteq Parts \cap K
         /\ \A x \in Parts : AfterFreeing(K)[x] = ref_count[x] - B(x \in K)
<1>1. Dying(K) \subseteq Parts \cap K
  BY DEF Dying
<1>2. ASSUME NEW x \in Parts
      PROVE  AfterFreeing(K)[x] = ref_count[x] - B(x \in K)
  <2>1. \A q \in Dying(K) : x \notin refs[q]
    BY <1>1, Sorts DEF AlwaysInv, PartsInv
  <2>2. N(refs, x, Dying(K)) = 0
    BY <1>1, <2>1, Sorts, NType
  <2>3. AfterFreeing(K)[x] = ref_count[x] - B(x \in K) - N(refs, x, Dying(K))
    BY Sorts DEF AfterFreeing, Referrers, N
  <2>4. ref_count[x] \in Nat /\ B(x \in K) \in Nat
    BY Sorts DEF AlwaysInv, TypeOK, B
  <2> QED
    BY <2>2, <2>3, <2>4
<1> QED
  BY <1>1, <1>2

\* AfterFreeing counts what is left when a value gives up its references to K.
LEMMA AfterGiving ==
  ASSUME AlwaysInv, RefCounts(Objects), NEW a \in Values, NEW K \in SUBSET refs[a], NEW r,
         GivesUp(refs, r, a, K, Dying(K)), NEW o \in Objects
  PROVE  AfterFreeing(K)[o] = handles[o] + N(r, o, Objects)
<1>1. K \in SUBSET Objects /\ a \in Objects
  BY Sorts DEF AlwaysInv, TypeOK
<1>2. Dying(K) \in SUBSET Objects /\ a \notin Dying(K)
  BY <1>1, DyingParts, Sorts
<1>3. N(r, o, Objects) = N(refs, o, Objects) - B(o \in K) - N(refs, o, Dying(K))
  BY <1>1, <1>2, NGivesUp DEF B
<1>4. AfterFreeing(K)[o] = ref_count[o] - B(o \in K) - N(refs, o, Dying(K))
  BY DEF AfterFreeing, Referrers, N
<1>5. ref_count[o] = handles[o] + N(refs, o, Objects)
  BY DEF RefCounts
<1>6. /\ handles[o] \in Nat /\ N(refs, o, Objects) \in Nat
      /\ B(o \in K) \in Nat /\ N(refs, o, Dying(K)) \in Nat
  BY <1>2, NType DEF AlwaysInv, TypeOK, B
<1> QED
  BY <1>3, <1>4, <1>5, <1>6

\* What the new counts say of the objects that lose references: those dropped and
\* the parts that die have none left, the others that were counted still are.
LEMMA Losing ==
  ASSUME AlwaysInv, NEW K \in SUBSET Objects, ref_count' \in [Objects -> Nat],
         \A o \in Objects :
           \/ (ref_count')[o] = AfterFreeing(K)[o]
           \/ o \in Values /\ AfterFreeing(K)[o] > 0 /\ (ref_count')[o] > 0,
         NEW o \in Objects
  PROVE  /\ o \in Dropped(K) => o \in Values /\ ref_count[o] > 0 /\ (ref_count')[o] = 0
         /\ o \in Dying(K) => o \in Parts \cap K /\ ref_count[o] = 1 /\ (ref_count')[o] = 0
         /\ ref_count[o] > 0 /\ o \notin Dropped(K) /\ o \notin Dying(K) => (ref_count')[o] > 0
<1>1. CASE o \in Values
  <2>1. o \notin Dying(K)
    BY <1>1, DyingParts, Sorts
  <2>2. o \in Dropped(K) <=> ref_count[o] > 0 /\ AfterFreeing(K)[o] = 0
    BY <1>1 DEF Dropped
  <2>3. (ref_count')[o] \in Nat
    OBVIOUS
  <2> QED
    BY <1>1, <2>1, <2>2, <2>3
<1>2. CASE o \in Parts
  <2>1. o \notin Values /\ o \notin Dropped(K)
    BY <1>2, Sorts DEF Dropped
  <2>2. (ref_count')[o] = ref_count[o] - B(o \in K)
    BY <1>2, <2>1, DyingParts
  <2>3. o \in Dying(K) <=> o \in K /\ ref_count[o] = 1
    BY <1>2 DEF Dying
  <2>4. ref_count[o] \in Nat
    BY DEF AlwaysInv, TypeOK
  <2>5. CASE o \in K
    <3>1. B(o \in K) = 1
      BY <2>5 DEF B
    <3> QED
      BY <1>2, <2>1, <2>2, <2>3, <2>4, <2>5, <3>1
  <2>6. CASE o \notin K
    <3>1. B(o \in K) = 0
      BY <2>6 DEF B
    <3> QED
      BY <1>2, <2>1, <2>2, <2>3, <2>4, <2>6, <3>1
  <2> QED
    BY <2>5, <2>6
<1> QED
  BY <1>1, <1>2, Sorts

-----------------------------------------------------------------------------
(* What the program can reach *)

\* Reachable is closed, and the least such set.
LEMMA ReachableLeast ==
  ASSUME TypeOK
  PROVE  /\ Reachable \subseteq Objects /\ Held \subseteq Reachable
         /\ \A q \in Reachable : refs[q] \subseteq Reachable
         /\ \A C \in SUBSET Objects :
              Held \subseteq C /\ (\A q \in C : refs[q] \subseteq C) => Reachable \subseteq C
<1>1. Reachable \subseteq Objects /\ Held \subseteq Reachable
  BY DEF Reachable, Held
<1>2. \A q \in Reachable : refs[q] \subseteq Reachable
  <2> SUFFICES ASSUME NEW q \in Reachable, NEW o \in refs[q]
               PROVE  o \in Reachable
    OBVIOUS
  <2>1. q \in Objects /\ o \in Objects
    BY DEF Reachable, TypeOK
  <2>2. ASSUME NEW C \in SUBSET Objects, Held \subseteq C /\ \A x \in C : refs[x] \subseteq C
        PROVE  o \in C
    <3>1. q \in C
      BY <2>2 DEF Reachable
    <3> QED
      BY <2>2, <3>1
  <2> QED
    BY <2>1, <2>2 DEF Reachable
<1>3. \A C \in SUBSET Objects :
        Held \subseteq C /\ (\A q \in C : refs[q] \subseteq C) => Reachable \subseteq C
  BY DEF Reachable
<1> QED
  BY <1>1, <1>2, <1>3

\* What is reached is held, or referred to by something that is reached.
LEMMA ReachableSupported ==
  ASSUME TypeOK, NEW o \in Reachable
  PROVE  handles[o] > 0 \/ \E q \in Reachable : o \in refs[q]
<1> SUFFICES ASSUME ~(handles[o] > 0), \A q \in Reachable : o \notin refs[q]
             PROVE  FALSE
  OBVIOUS
<1> DEFINE C == Reachable \ {o}
<1>1. C \in SUBSET Objects /\ Held \subseteq C
  BY ReachableLeast DEF Held
<1>2. \A q \in C : refs[q] \subseteq C
  BY ReachableLeast
<1>3. Reachable \subseteq C
  BY <1>1, <1>2, ReachableLeast
<1> QED
  BY <1>3

\* A closed set of reachable objects with everything held stays reachable when
\* its objects keep what they refer to.
LEMMA ReachableKept ==
  ASSUME TypeOK, NEW L \in SUBSET Objects, Held \subseteq L, L \subseteq Reachable,
         \A q \in L : refs[q] \subseteq L,
         \A q \in L : (refs')[q] = refs[q], handles' = handles
  PROVE  L \subseteq Reachable'
<1> SUFFICES ASSUME NEW o \in L, NEW C \in SUBSET Objects, Held' \subseteq C,
                    \A q \in C : (refs')[q] \subseteq C
             PROVE  o \in C
  BY DEF Reachable
<1>1. Held' = Held
  BY DEF Held
<1>2. Held \subseteq C \cap L /\ \A q \in C \cap L : refs[q] \subseteq C \cap L
  BY <1>1
<1>3. C \cap L \in SUBSET Objects
  OBVIOUS
<1>4. Reachable \subseteq C \cap L
  BY <1>2, <1>3, ReachableLeast
<1> QED
  BY <1>4

\* In the list of living objects whatever it refers to is in it, so what can be
\* reached is.
LEMMA ReachableLives ==
  ASSUME TypeOK, HeldInv, \A q \in In("gc") : refs[q] \subseteq In("gc")
  PROVE  Reachable \subseteq In("gc")
<1>1. In("gc") \in SUBSET Objects /\ Held \subseteq In("gc")
  BY DEF In, HeldInv
<1> QED
  BY <1>1, ReachableLeast

-----------------------------------------------------------------------------
(* The program's steps keep the invariant *)

\* An object can be allocated where nothing is left and nobody refers to.
LEMMA FreePlaces ==
  ASSUME AlwaysInv, RefCounts(Objects), CascadeInv, NEW o \in Objects, place[o] = "free"
  PROVE  /\ handles[o] = 0 /\ refs[o] = {} /\ weak[o] = None
         /\ weakref_count[o] = 0 /\ ref_count[o] = 0 /\ mark[o] = 0
         /\ \A q \in Objects : o \notin refs[q] /\ weak[q] # o
<1> USE DEF AlwaysInv
<1>1. refs[o] = {} /\ weak[o] = None /\ weakref_count[o] = 0 /\ mark[o] = 0
  BY DEF GoneInv
<1>2. handles[o] = 0
  BY DEF HeldInv, Held, In, TypeOK
<1>3. \A q \in Objects : o \notin refs[q]
  BY DEF CascadeInv, In
<1>4. \A q \in Objects : weak[q] # o
  BY <1>1, WType DEF WeakCounts
<1>5. ref_count[o] = 0
  BY <1>2, <1>3, Uncounted
<1> QED
  BY <1>1, <1>2, <1>3, <1>4, <1>5

\* The other counts when a handle is taken, or a reference added, at b.
LEMMA OneMore ==
  ASSUME AlwaysInv, RefCounts(Objects), CascadeInv, In("zero") = {},
         NEW b \in In("gc"), ref_count' = [ref_count EXCEPT ![b] = @ + 1],
         UNCHANGED <<place, weak, weakref_count, mark, gc_phase, pc, left>>,
         PartsInv', handles' \in [Objects -> 0 .. MaxHandles],
         \A o \in Objects : (handles')[o] > 0 => handles[o] > 0 \/ o = b,
         refs' \in [Objects -> SUBSET Objects],
         \A o \in Objects : /\ (refs')[o] \subseteq In("gc")
                            /\ place[o] # "gc" => (refs')[o] = refs[o],
         RefCounts(Objects)', pc = "idle"
  PROVE  IInv'
<1>1. TypeOK'
  <2>1. b \in Objects /\ ref_count \in [Objects -> Nat]
    BY DEF AlwaysInv, TypeOK, In
  <2>2. ref_count' \in [Objects -> Nat]
    BY <2>1
  <2> QED
    BY <2>2 DEF AlwaysInv, TypeOK
<1>2. GoneInv'
  BY DEF AlwaysInv, GoneInv
<1>3. HeldInv'
  BY DEF AlwaysInv, HeldInv, Held, In
<1>4. WeakCounts'
  BY DEF AlwaysInv, WeakCounts
<1>5. CascadeInv' /\ In("zero")' = {}
  <2>1. b \in Objects /\ place[b] = "gc" /\ ref_count \in [Objects -> Nat]
    BY DEF In, AlwaysInv, TypeOK
  <2>2. \A o \in Objects : (ref_count')[o] = IF o = b THEN ref_count[o] + 1 ELSE ref_count[o]
    BY <2>1
  <2> QED
    BY <2>1, <2>2 DEF CascadeInv, In
<1> QED
  BY <1>1, <1>2, <1>3, <1>4, <1>5 DEF IInv, AlwaysInv, PhaseInv

\* A property that is read lives, and is counted once more.
LEMMA GetStep ==
  ASSUME IInv, NEW a \in Objects, NEW b \in Objects, Get(a, b)
  PROVE  IInv'
<1>1. AlwaysInv /\ RefCounts(Objects) /\ CascadeInv /\ In("zero") = {} /\ pc = "idle"
  BY DEF IInv, PhaseInv, Get, Idle
<1>2. b \in Values /\ b \in In("gc") /\ handles[b] \in Nat /\ handles[b] < MaxHandles
  <2>1. \A q \in Objects : refs[q] \subseteq In("gc")
    BY <1>1 DEF CascadeInv
  <2>2. \A q \in {a} \cup (refs[a] \cap Parts) : q \in Objects
    BY Sorts
  <2>3. b \in In("gc") /\ b \in Values
    BY <2>1, <2>2 DEF Get, Reads
  <2> QED
    BY <1>1, <2>3 DEF Get, AlwaysInv, TypeOK
<1>3. \A o \in Objects : (handles')[o] = IF o = b THEN handles[o] + 1 ELSE handles[o]
  BY <1>1 DEF Get, AlwaysInv, TypeOK
<1>4. handles' \in [Objects -> 0 .. MaxHandles]
  BY <1>1, <1>2, BoundsAssumption DEF Get, AlwaysInv, TypeOK
<1>5. RefCounts(Objects)'
  BY <1>1, <1>2, <1>3, NType DEF Get, RefCounts, AlwaysInv, TypeOK
<1>6. PartsInv'
  BY <1>1, <1>2, <1>3, Sorts DEF Get, PartsInv, AlwaysInv
<1>7. /\ refs' \in [Objects -> SUBSET Objects]
      /\ \A o \in Objects : /\ (refs')[o] \subseteq In("gc")
                            /\ place[o] # "gc" => (refs')[o] = refs[o]
  BY <1>1 DEF Get, AlwaysInv, TypeOK, CascadeInv
<1> QED
  BY <1>1, <1>2, <1>3, <1>4, <1>5, <1>6, <1>7, OneMore DEF Get

\* A target that is counted lives.
LEMMA CountedLives ==
  ASSUME AlwaysInv, RefCounts(Objects), CascadeInv, NEW o \in Objects, place[o] # "zero"
  PROVE  ref_count[o] # 0 <=> place[o] = "gc"
<1>1. CASE place[o] = "gc"
  BY <1>1 DEF CascadeInv
<1>2. CASE place[o] # "gc"
  <2>1. handles[o] = 0
    BY <1>2 DEF AlwaysInv, HeldInv, Held, In, TypeOK
  <2>2. \A q \in Objects : o \notin refs[q]
    BY <1>2 DEF CascadeInv, In
  <2> QED
    BY <1>2, <2>1, <2>2, Uncounted DEF AlwaysInv
<1> QED
  BY <1>1, <1>2

\* A weak reference gives its target only if it lives.
LEMMA DerefStep ==
  ASSUME IInv, NEW w \in Values, Deref(w)
  PROVE  IInv'
<1> DEFINE b == weak[w]
<1>1. AlwaysInv /\ RefCounts(Objects) /\ CascadeInv /\ In("zero") = {} /\ pc = "idle"
  BY DEF IInv, PhaseInv, Deref, Idle
<1>2. b \in Values /\ b \in In("gc") /\ handles[b] \in Nat /\ handles[b] < MaxHandles
  <2>1. b \in Values /\ b \in Objects
    BY <1>1, Sorts DEF Deref, AlwaysInv, TypeOK
  <2>2. place[b] = "gc"
    BY <1>1, <2>1, CountedLives DEF Deref, In
  <2> QED
    BY <1>1, <2>1, <2>2 DEF Deref, AlwaysInv, TypeOK, In
<1>3. \A o \in Objects : (handles')[o] = IF o = b THEN handles[o] + 1 ELSE handles[o]
  BY <1>1 DEF Deref, AlwaysInv, TypeOK
<1>4. handles' \in [Objects -> 0 .. MaxHandles]
  <2>1. handles' = [handles EXCEPT ![b] = @ + 1] /\ handles \in [Objects -> 0 .. MaxHandles]
    BY <1>1 DEF Deref, AlwaysInv, TypeOK
  <2>2. handles[b] + 1 \in 0 .. MaxHandles
    BY <1>2, BoundsAssumption
  <2> HIDE DEF b
  <2> QED
    BY <2>1, <2>2
<1>5. RefCounts(Objects)'
  BY <1>1, <1>2, <1>3, NType DEF Deref, RefCounts, AlwaysInv, TypeOK
<1>6. PartsInv'
  BY <1>1, <1>2, <1>3, Sorts DEF Deref, PartsInv, AlwaysInv
<1>7. /\ refs' \in [Objects -> SUBSET Objects]
      /\ \A o \in Objects : /\ (refs')[o] \subseteq In("gc")
                            /\ place[o] # "gc" => (refs')[o] = refs[o]
  BY <1>1 DEF Deref, AlwaysInv, TypeOK, CascadeInv
<1> QED
  BY <1>1, <1>2, <1>3, <1>4, <1>5, <1>6, <1>7, OneMore DEF Deref

\* The object written has one more reference, and what it gets one more count.
LEMMA PutStep ==
  ASSUME IInv, NEW a \in Objects, NEW b \in Objects, Put(a, b)
  PROVE  IInv'
<1>1. AlwaysInv /\ RefCounts(Objects) /\ CascadeInv /\ In("zero") = {} /\ pc = "idle"
  BY DEF IInv, PhaseInv, Put, Idle
<1>2. a \in Values /\ a \in In("gc") /\ b \in In("gc")
  <2>1. Held \subseteq In("gc") /\ \A q \in Objects : refs[q] \subseteq In("gc")
    BY <1>1 DEF CascadeInv, AlwaysInv, HeldInv
  <2>2. b \in Held \/ \E q \in Held : b \in refs[q]
    BY DEF Put
  <2> QED
    BY <1>1, <2>1, <2>2, OnlyValues DEF Put, Held
<1>3. \A q \in Objects : (refs')[q] = IF q = a THEN refs[a] \cup {b} ELSE refs[q]
  BY <1>1 DEF Put, AlwaysInv, TypeOK
<1>4. RefCounts(Objects)'
  <2> SUFFICES ASSUME NEW o \in Objects
               PROVE  (ref_count')[o] = (handles')[o] + N(refs', o, Objects)
    BY DEF RefCounts
  <2>1. Adds(refs, refs', a, b)
    BY <1>3 DEF Put, Adds
  <2>5. N(refs', o, Objects) = N(refs, o, Objects) + B(o = b)
    BY <2>1, NAdds DEF B
  <2>2. (ref_count')[o] = ref_count[o] + B(o = b)
    BY <1>1, <1>2 DEF Put, B, AlwaysInv, TypeOK
  <2>3. ref_count[o] = handles[o] + N(refs, o, Objects) /\ (handles')[o] = handles[o]
    BY <1>1 DEF Put, RefCounts
  <2>4. handles[o] \in Nat /\ N(refs, o, Objects) \in Nat /\ B(o = b) \in Nat
    BY <1>1, NType DEF B, AlwaysInv, TypeOK
  <2> QED
    BY <2>2, <2>3, <2>4, <2>5
<1>5. PartsInv'
  BY <1>1, <1>2, <1>3, Sorts DEF Put, PartsInv, AlwaysInv
<1>6. /\ refs' \in [Objects -> SUBSET Objects]
      /\ \A o \in Objects : /\ (refs')[o] \subseteq In("gc")
                            /\ place[o] # "gc" => (refs')[o] = refs[o]
  <2>1. \A q \in Objects : refs[q] \subseteq In("gc")
    BY <1>1 DEF CascadeInv
  <2>2. refs' \in [Objects -> SUBSET Objects]
    BY <1>1, <1>2 DEF Put, AlwaysInv, TypeOK
  <2> QED
    BY <1>2, <1>3, <2>1, <2>2 DEF In
<1>7. handles' \in [Objects -> 0 .. MaxHandles] /\ \A o \in Objects : (handles')[o] = handles[o]
  BY <1>1 DEF Put, AlwaysInv, TypeOK
<1> QED
  BY <1>1, <1>2, <1>4, <1>5, <1>6, <1>7, OneMore DEF Put

\* What an allocation in a free place leaves to show.
LEMMA AllocateStep ==
  ASSUME AlwaysInv, RefCounts(Objects), CascadeInv, In("zero") = {}, pc = "idle",
         NEW o \in Objects, NEW h \in {0, 1}, NEW t \in (Values \cap In("gc")) \cup {None},
         Allocate(o, h, t), h <= MaxHandles, o \in Parts => h = 0 /\ t = None,
         refs' \in [Objects -> SUBSET Objects],
         \A q \in Objects : /\ (refs')[q] \subseteq In("gc") \cup {o}
                            /\ place[q] # "gc" => (refs')[q] = refs[q]
                            /\ q \in Parts => (refs')[q] = refs[q],
         \A q \in Objects : N(refs', q, Objects) =
                              IF q = o THEN 1 - h ELSE N(refs, q, Objects)
  PROVE  IInv'
<1> USE DEF AlwaysInv
<1>1. /\ place[o] = "free" /\ o \notin In("gc")
      /\ \A q \in Objects : /\ (place')[q] = IF q = o THEN "gc" ELSE place[q]
                            /\ (handles')[q] = IF q = o THEN h ELSE handles[q]
                            /\ (ref_count')[q] = IF q = o THEN 1 ELSE ref_count[q]
                            /\ (mark')[q] = IF q = o THEN 0 ELSE mark[q]
                            /\ (weak')[q] = IF q = o THEN t ELSE weak[q]
                            /\ (weakref_count')[q] = weakref_count[q] + B(q = t)
  BY DEF Allocate, TypeOK, In
<1>2. /\ refs[o] = {} /\ weak[o] = None /\ weakref_count[o] = 0
      /\ \A q \in Objects : o \notin refs[q]
  BY <1>1, FreePlaces
<1>3. TypeOK'
  <2>1. weakref_count' \in [Objects -> Nat]
    BY DEF Allocate, TypeOK, B
  <2>2. /\ place' \in [Objects -> {"free", "gc", "tmp", "zero", "kept"}]
        /\ handles' \in [Objects -> 0 .. MaxHandles]
        /\ ref_count' \in [Objects -> Nat] /\ mark' \in [Objects -> {0, 1}]
        /\ weak' \in [Objects -> Values \cup {None}]
    BY BoundsAssumption DEF Allocate, TypeOK
  <2> QED
    BY <2>1, <2>2 DEF Allocate, TypeOK
<1>4. PartsInv'
  BY <1>1, Sorts DEF PartsInv
<1>5. GoneInv'
  <2> SUFFICES ASSUME NEW q \in Objects, (place')[q] \in {"free", "kept"}
               PROVE  /\ (refs')[q] = {} /\ (weak')[q] = None /\ (mark')[q] = 0
                      /\ (place')[q] = "free" => (weakref_count')[q] = 0
                      /\ (place')[q] = "kept" => q \in Values /\ (weakref_count')[q] > 0
    BY <1>1 DEF GoneInv
  <2>1. q # o /\ (place')[q] = place[q]
    BY <1>1
  <2>2. /\ refs[q] = {} /\ weak[q] = None /\ mark[q] = 0
        /\ place[q] = "free" => weakref_count[q] = 0
        /\ place[q] = "kept" => q \in Values /\ weakref_count[q] > 0
    BY <2>1 DEF GoneInv
  <2>3. (refs')[q] = refs[q]
    BY <2>1
  <2>4. weakref_count[q] \in Nat
    BY DEF TypeOK
  <2>5. place[q] = "free" => q # t
    BY PlacesAssumption DEF In
  <2> QED
    BY <1>1, <2>1, <2>2, <2>3, <2>4, <2>5 DEF B
<1>6. HeldInv'
  BY <1>1 DEF HeldInv, Held, In
<1>7. WeakCounts'
  <2> SUFFICES ASSUME NEW q \in Objects
               PROVE  (weakref_count')[q] = W(weak', q, Objects)
    BY DEF WeakCounts
  <2>1. q # None
    BY PlacesAssumption
  <2>2. W(weak', q, Objects) = W(weak, q, Objects) + B(q = t)
    <3>1. Points(weak, weak', o, t)
      BY <1>1, <1>2 DEF Points
    <3> QED
      BY <2>1, <3>1, WAdds DEF B
  <2> QED
    BY <1>1, <2>2 DEF WeakCounts
<1>8. RefCounts(Objects)'
  <2>1. \A q \in Objects : N(refs', q, Objects) = IF q = o THEN 1 - h ELSE N(refs, q, Objects)
    OBVIOUS
  <2> QED
    BY <1>1, <2>1 DEF RefCounts
<1>9. CascadeInv' /\ In("zero")' = {}
  BY <1>1, <1>2 DEF CascadeInv, In, Allocate
<1>10. pc' = "idle"
  BY DEF Allocate
<1> QED
  BY <1>3, <1>4, <1>5, <1>6, <1>7, <1>8, <1>9, <1>10 DEF IInv, PhaseInv

\* A new value has the handle it is counted for, and a weak reference its target.
LEMMA NewValueStep ==
  ASSUME IInv, NEW o \in Values, NEW t \in Values \cup {None}, NewValue(o, t)
  PROVE  IInv'
<1>1. AlwaysInv /\ RefCounts(Objects) /\ CascadeInv /\ In("zero") = {} /\ pc = "idle"
  BY DEF IInv, PhaseInv, NewValue, Idle
<1>2. o \in Objects /\ o \notin Parts /\ place[o] = "free"
  BY Sorts DEF NewValue, Allocate
<1>3. t \in (Values \cap In("gc")) \cup {None}
  BY <1>1 DEF NewValue, AlwaysInv, HeldInv
<1>4. \A q \in Objects : /\ refs[q] \subseteq In("gc") \cup {o} /\ (refs')[q] = refs[q]
                         /\ N(refs', q, Objects) =
                              IF q = o THEN 1 - 1 ELSE N(refs, q, Objects)
  <2>1. N(refs, o, Objects) = 0
    BY <1>1, <1>2, FreePlaces, NType
  <2> QED
    BY <1>1, <2>1 DEF NewValue, CascadeInv
<1>5. refs' \in [Objects -> SUBSET Objects]
  BY <1>1 DEF NewValue, AlwaysInv, TypeOK
<1>6. 1 \in {0, 1} /\ 1 <= MaxHandles /\ t \in (Values \cap In("gc")) \cup {None} /\ Allocate(o, 1, t)
  BY <1>3, BoundsAssumption DEF NewValue
<1> QED
  BY <1>1, <1>2, <1>4, <1>5, <1>6, AllocateStep

\* A new part has the reference it is counted for.
LEMMA NewPartStep ==
  ASSUME IInv, NEW a \in Values, NEW o \in Parts, NewPart(a, o)
  PROVE  IInv'
<1>1. AlwaysInv /\ RefCounts(Objects) /\ CascadeInv /\ In("zero") = {} /\ pc = "idle"
  BY DEF IInv, PhaseInv, NewPart, Idle
<1>2. o \in Objects /\ a \in Objects /\ a \notin Parts /\ place[o] = "free" /\ place[a] = "gc"
  BY <1>1, Sorts DEF NewPart, Allocate, AlwaysInv, HeldInv, In
<1>3. \A q \in Objects : (refs')[q] = IF q = a THEN refs[a] \cup {o} ELSE refs[q]
  BY <1>1 DEF NewPart, AlwaysInv, TypeOK
<1>4. o \notin refs[a] /\ N(refs, o, Objects) = 0
  BY <1>1, <1>2, FreePlaces, NType
<1>5. ASSUME NEW q \in Objects
      PROVE  N(refs', q, Objects) = IF q = o THEN 1 - 0 ELSE N(refs, q, Objects)
  <2>1. N(refs', q, Objects) = N(refs, q, Objects) + B(q = o)
    <3>1. Adds(refs, refs', a, o)
      BY <1>3, <1>4 DEF Adds
    <3> QED
      BY <1>2, <3>1, NAdds DEF B
  <2>2. N(refs, q, Objects) \in Nat
    BY NType
  <2> QED
    BY <1>4, <2>1, <2>2 DEF B
<1>6. \A q \in Objects : /\ (refs')[q] \subseteq In("gc") \cup {o}
                         /\ place[q] # "gc" => (refs')[q] = refs[q]
                         /\ q \in Parts => (refs')[q] = refs[q]
  BY <1>1, <1>2, <1>3 DEF CascadeInv
<1>7. refs' \in [Objects -> SUBSET Objects]
  BY <1>1, <1>2 DEF NewPart, AlwaysInv, TypeOK
<1>8. /\ 0 \in {0, 1} /\ 0 <= MaxHandles /\ None \in (Values \cap In("gc")) \cup {None}
      /\ Allocate(o, 0, None)
  BY BoundsAssumption DEF NewPart
<1> QED
  BY <1>1, <1>2, <1>5, <1>6, <1>7, <1>8, AllocateStep

\* The program gives up references: what JS_FreeValue leaves to show.
LEMMA FreeValuesStep ==
  ASSUME AlwaysInv, CascadeInv, In("zero") = {}, pc = "idle",
         NEW K \in SUBSET Objects, FreeValues(K),
         handles' \in [Objects -> 0 .. MaxHandles],
         \A x \in Parts : (handles')[x] = 0 /\ (refs')[x] \subseteq Values,
         refs' \in [Objects -> SUBSET Objects],
         \A q \in Objects : /\ (refs')[q] \subseteq In("gc")
                            /\ place[q] # "gc" \/ q \in Dying(K) => (refs')[q] = {},
         \A o \in Objects : (handles')[o] > 0 => place[o] = "gc",
         ref_count' \in [Objects -> Nat], RefCounts(Objects)',
         \A o \in Objects :
           \/ (ref_count')[o] = AfterFreeing(K)[o]
           \/ o \in Values /\ AfterFreeing(K)[o] > 0 /\ (ref_count')[o] > 0
  PROVE  IInv'
<1> USE DEF AlwaysInv
<1>1. \A o \in Objects :
        /\ o \in Dropped(K) => o \in Values /\ ref_count[o] > 0 /\ (ref_count')[o] = 0
        /\ o \in Dying(K) => o \in Parts \cap K /\ ref_count[o] = 1 /\ (ref_count')[o] = 0
        /\ ref_count[o] > 0 /\ o \notin Dropped(K) /\ o \notin Dying(K) => (ref_count')[o] > 0
  BY Losing
<1>2. \A o \in Objects :
        /\ (place')[o] = IF o \in Dropped(K) THEN "zero"
                         ELSE IF o \in Dying(K) THEN "free" ELSE place[o]
        /\ (mark')[o] = IF o \in Dropped(K) THEN 1 ELSE mark[o]
  BY DEF FreeValues
<1>3. \A o \in Objects : o \in Dropped(K) => o \notin Dying(K)
  BY <1>1, Sorts
<1>4. TypeOK'
  BY DEF FreeValues, TypeOK
<1>5. PartsInv'
  BY DEF PartsInv, FreeValues
<1>6. \A o \in Objects : (ref_count')[o] = 0 =>
        (handles')[o] = 0 /\ \A q \in Objects : o \notin (refs')[q]
  BY <1>4, UncountedNext
<1>7. \A o \in Objects : /\ place[o] = "gc" => ref_count[o] > 0 /\ mark[o] = 0
                         /\ place[o] \in {"gc", "kept", "free"}
  BY DEF CascadeInv, In
<1>8. HeldInv'
  BY <1>1, <1>2, <1>6 DEF HeldInv, Held, In
<1>9. GoneInv'
  <2> SUFFICES ASSUME NEW o \in Objects, (place')[o] \in {"free", "kept"}
               PROVE  /\ (refs')[o] = {} /\ (weak')[o] = None /\ (mark')[o] = 0
                      /\ (place')[o] = "free" => (weakref_count')[o] = 0
                      /\ (place')[o] = "kept" => o \in Values /\ (weakref_count')[o] > 0
    BY <1>2 DEF GoneInv
  <2>1. weak' = weak /\ weakref_count' = weakref_count /\ o \notin Dropped(K)
    BY <1>2 DEF FreeValues
  <2>2. CASE o \in Dying(K)
    <3>1. o \in Parts /\ (place')[o] = "free" /\ (mark')[o] = mark[o]
      BY <1>1, <1>2, <2>1, <2>2
    <3>2. weak[o] = None /\ weakref_count[o] = 0
      BY <3>1, OnlyValues DEF PartsInv
    <3>3. mark[o] = 0
      BY <1>7 DEF GoneInv
    <3> QED
      BY <2>1, <2>2, <3>1, <3>2, <3>3
  <2>3. CASE o \notin Dying(K)
    <3>1. (place')[o] = place[o] /\ (mark')[o] = mark[o]
      BY <1>2, <2>1, <2>3
    <3>2. (refs')[o] = {}
      BY <3>1
    <3> QED
      BY <2>1, <3>1, <3>2 DEF GoneInv
  <2> QED
    BY <2>2, <2>3
<1>10. WeakCounts'
  BY DEF WeakCounts, FreeValues
<1>11. CascadeInv'
  <2>1. ASSUME NEW q \in Objects, NEW o \in (refs')[q]
        PROVE  o \in In("gc")'
    <3>1. o \in Objects /\ place[o] = "gc" /\ (ref_count')[o] # 0
      BY <1>6 DEF In
    <3> QED
      BY <1>1, <1>2, <3>1 DEF In
  <2>2. left' = {}
    BY DEF FreeValues, CascadeInv
  <2>3. \A o \in Objects :
          /\ (place')[o] \in {"gc", "zero", "kept", "free"}
          /\ (place')[o] = "gc" => (ref_count')[o] > 0 /\ (mark')[o] = 0
          /\ (place')[o] = "zero" => o \in Values /\ (ref_count')[o] = 0 /\ (mark')[o] = 1
    BY <1>1, <1>2, <1>7
  <2> QED
    BY <2>1, <2>2, <2>3 DEF CascadeInv
<1>12. /\ Dropped(K) = {} => pc' = "idle" /\ In("zero")' = {}
       /\ Dropped(K) # {} => pc' = "zero" /\ In("zero")' # {}
  <2>1. In("zero")' = Dropped(K)
    <3>1. Dropped(K) \subseteq Objects
      BY Sorts DEF Dropped
    <3> QED
      BY <1>2, <1>7, <3>1 DEF In
  <2> QED
    BY <2>1 DEF FreeValues
<1> QED
  BY <1>4, <1>5, <1>8, <1>9, <1>10, <1>11, <1>12 DEF IInv, PhaseInv

\* The values held, with what they refer to.
LEMMA HeldValues ==
  ASSUME AlwaysInv, CascadeInv, NEW a \in Held
  PROVE  a \in Values /\ a \in Objects /\ place[a] = "gc" /\ refs[a] \subseteq In("gc")
BY OnlyValues DEF Held, AlwaysInv, HeldInv, In, CascadeInv

\* At rest, what does not live has nothing.
LEMMA Emptied ==
  ASSUME AlwaysInv, CascadeInv, In("zero") = {}, NEW o \in Objects, place[o] # "gc"
  PROVE  refs[o] = {} /\ weak[o] = None
<1>1. place[o] \in {"kept", "free"}
  BY DEF CascadeInv, In
<1> QED
  BY <1>1 DEF AlwaysInv, GoneInv

\* A handle goes: only values are held, so no part dies with it.
LEMMA ReleaseStep ==
  ASSUME IInv, NEW o \in Values, Release(o)
  PROVE  IInv'
<1>1. AlwaysInv /\ RefCounts(Objects) /\ CascadeInv /\ In("zero") = {} /\ pc = "idle"
  BY DEF IInv, PhaseInv, Release, Idle
<1> DEFINE K == {o}
<1>2. o \in Objects /\ K \in SUBSET Objects /\ Dying(K) = {}
  BY <1>1, Sorts, DyingParts
<1>3. handles[o] > 0 /\ handles[o] \in 0 .. MaxHandles
  BY <1>1, <1>2 DEF Release, Held, AlwaysInv, TypeOK
<1>4. /\ handles' \in [Objects -> 0 .. MaxHandles]
      /\ \A q \in Objects : (handles')[q] = IF q = o THEN handles[q] - 1 ELSE handles[q]
  BY <1>1, <1>2, <1>3, BoundsAssumption DEF Release, AlwaysInv, TypeOK
<1>5. ASSUME NEW q \in Objects
      PROVE  /\ (ref_count')[q] = AfterFreeing(K)[q]
             /\ (ref_count')[q] = (handles')[q] + N(refs', q, Objects)
             /\ (ref_count')[q] \in Nat
  <2>1. (ref_count')[q] = AfterFreeing(K)[q] /\ refs' = refs
    BY DEF Release
  <2>2. AfterFreeing(K)[q] = ref_count[q] - B(q \in K) - N(refs, q, Dying(K))
    BY DEF AfterFreeing, Referrers, N
  <2>3. N(refs, q, Dying(K)) = 0
    BY <1>2, NType
  <2>4. ref_count[q] = handles[q] + N(refs, q, Objects)
    BY <1>1 DEF RefCounts
  <2>5. handles[q] \in Nat /\ (handles')[q] \in Nat /\ N(refs, q, Objects) \in Nat
    BY <1>1, <1>4, NType DEF AlwaysInv, TypeOK
  <2>6. B(q \in K) = IF q = o THEN 1 ELSE 0
    BY DEF B
  <2> QED
    BY <1>4, <2>1, <2>2, <2>3, <2>4, <2>5, <2>6
<1>6. ref_count' \in [Objects -> Nat] /\ RefCounts(Objects)'
  <2>1. ref_count' = AfterFreeing(K)
    BY DEF Release
  <2>2. ref_count' \in [Objects -> Nat]
    BY <1>5, <2>1 DEF AfterFreeing
  <2> QED
    BY <1>5, <2>2 DEF RefCounts
<1>7. /\ refs' \in [Objects -> SUBSET Objects]
      /\ \A q \in Objects : /\ (refs')[q] \subseteq In("gc")
                            /\ place[q] # "gc" \/ q \in Dying(K) => (refs')[q] = {}
  <2>1. refs' = refs /\ refs \in [Objects -> SUBSET Objects]
    BY <1>1 DEF Release, AlwaysInv, TypeOK
  <2>2. \A q \in Objects : refs[q] \subseteq In("gc") /\ (place[q] # "gc" => refs[q] = {})
    BY <1>1, Emptied DEF CascadeInv
  <2> QED
    BY <1>2, <2>1, <2>2
<1>8. \A x \in Parts : (handles')[x] = 0 /\ (refs')[x] \subseteq Values
  BY <1>1, <1>4, Sorts DEF Release, AlwaysInv, PartsInv
<1>9. \A q \in Objects : (handles')[q] > 0 => place[q] = "gc"
  BY <1>1, <1>3, <1>4 DEF AlwaysInv, HeldInv, Held, In
<1>10. FreeValues(K)
  BY DEF Release
<1> QED
  BY <1>1, <1>2, <1>4, <1>5, <1>6, <1>7, <1>8, <1>9, <1>10, FreeValuesStep

\* A property goes, and with it a part nobody else has.
LEMMA DeleteStep ==
  ASSUME IInv, NEW a \in Objects, NEW b \in Objects, Delete(a, b)
  PROVE  IInv'
<1>1. AlwaysInv /\ RefCounts(Objects) /\ CascadeInv /\ In("zero") = {} /\ pc = "idle"
  BY DEF IInv, PhaseInv, Delete, Idle
<1> DEFINE K == {b}
<1>2. a \in Values /\ place[a] = "gc" /\ K \in SUBSET refs[a] /\ K \in SUBSET Objects
  BY <1>1, HeldValues DEF Delete
<1>3. Dying(K) \subseteq Parts \cap K /\ a \notin Dying(K)
  BY <1>1, <1>2, DyingParts, Sorts
<1>4. /\ handles' = handles /\ handles \in [Objects -> 0 .. MaxHandles]
      /\ refs \in [Objects -> SUBSET Objects]
      /\ \A q \in Objects : (refs')[q] = IF q \in Dying(K) THEN {}
                                         ELSE IF q = a THEN refs[a] \ K ELSE refs[q]
  BY <1>1 DEF Delete, AlwaysInv, TypeOK
<1>5. ASSUME NEW q \in Objects
      PROVE  /\ (ref_count')[q] = AfterFreeing(K)[q]
             /\ (ref_count')[q] = (handles')[q] + N(refs', q, Objects)
             /\ (ref_count')[q] \in Nat
  <2>1. GivesUp(refs, refs', a, K, Dying(K))
    BY <1>4 DEF GivesUp
  <2>2. AfterFreeing(K)[q] = handles[q] + N(refs', q, Objects)
    BY <1>1, <1>2, <2>1, AfterGiving
  <2>3. ref_count' = AfterFreeing(K)
    BY DEF Delete
  <2>4. handles[q] \in Nat /\ N(refs', q, Objects) \in Nat
    BY <1>4, NType
  <2> QED
    BY <1>4, <2>2, <2>3, <2>4
<1>6. ref_count' \in [Objects -> Nat] /\ RefCounts(Objects)'
  <2>1. ref_count' = AfterFreeing(K)
    BY DEF Delete
  <2>2. ref_count' \in [Objects -> Nat]
    BY <1>5, <2>1 DEF AfterFreeing
  <2> QED
    BY <1>5, <2>2 DEF RefCounts
<1>7. /\ refs' \in [Objects -> SUBSET Objects]
      /\ \A q \in Objects : /\ (refs')[q] \subseteq In("gc")
                            /\ place[q] # "gc" \/ q \in Dying(K) => (refs')[q] = {}
  <2>1. \A q \in Objects : refs[q] \subseteq In("gc") /\ (place[q] # "gc" => refs[q] = {})
    BY <1>1, Emptied DEF CascadeInv
  <2>2. refs' \in [Objects -> SUBSET Objects]
    BY <1>2, <1>4 DEF Delete
  <2> QED
    BY <1>2, <1>4, <2>1, <2>2
<1>8. \A x \in Parts : (handles')[x] = 0 /\ (refs')[x] \subseteq Values
  BY <1>1, <1>2, <1>4, Sorts DEF AlwaysInv, PartsInv
<1>9. \A q \in Objects : (handles')[q] > 0 => place[q] = "gc"
  BY <1>1, <1>4 DEF AlwaysInv, HeldInv, Held, In
<1>10. FreeValues(K)
  BY DEF Delete
<1> QED
  BY <1>1, <1>2, <1>4, <1>5, <1>6, <1>7, <1>8, <1>9, <1>10, FreeValuesStep

\* A variable's old value goes and its new one comes; the old one is not the new one.
LEMMA SetVariableStep ==
  ASSUME IInv, NEW a \in Values, NEW b \in Values, NEW x \in Parts, SetVariable(a, x, b)
  PROVE  IInv'
<1>1. AlwaysInv /\ RefCounts(Objects) /\ CascadeInv /\ In("zero") = {} /\ pc = "idle"
  BY DEF IInv, PhaseInv, SetVariable, Idle
<1> DEFINE K == refs[x]
<1>2. /\ x \in Objects /\ place[x] = "gc" /\ b \in Objects /\ place[b] = "gc"
      /\ handles[b] > 0 /\ b \notin K
  <2>1. x \in refs[a] /\ a \in Held /\ b \in Held /\ b \notin K
    BY DEF SetVariable
  <2> QED
    BY <1>1, <2>1, HeldValues DEF In, Held
<1>3. /\ K \in SUBSET Objects /\ K \subseteq Values /\ Dying(K) = {}
  BY <1>1, <1>2, DyingParts, Sorts DEF AlwaysInv, TypeOK, PartsInv
<1>4. /\ handles' = handles /\ handles \in [Objects -> 0 .. MaxHandles]
      /\ refs \in [Objects -> SUBSET Objects]
      /\ ref_count \in [Objects -> Nat]
      /\ refs' = [refs EXCEPT ![x] = {b}]
      /\ ref_count' = [AfterFreeing(K) EXCEPT ![b] = @ + 1]
  BY <1>1 DEF SetVariable, AlwaysInv, TypeOK
<1> DEFINE r == [q \in Objects |-> IF q = x THEN {} ELSE refs[q]]
<1>5. ASSUME NEW q \in Objects
      PROVE  /\ AfterFreeing(K)[q] = ref_count[q] - B(q \in K)
             /\ AfterFreeing(K)[q] = handles[q] + N(r, q, Objects)
             /\ (ref_count')[q] = AfterFreeing(K)[q] + B(q = b)
             /\ N(refs', q, Objects) = N(r, q, Objects) + B(q = b)
  <2>1. GivesUp(refs, r, x, K, {})
    BY <1>2 DEF GivesUp
  <2>2. N(r, q, Objects) = N(refs, q, Objects) - B(q \in K) - N(refs, q, {})
    BY <1>2, <2>1, NGivesUp DEF B
  <2>3. AfterFreeing(K)[q] = ref_count[q] - B(q \in K) - N(refs, q, {})
    BY <1>3 DEF AfterFreeing, Referrers, N
  <2>4. N(refs, q, {}) = 0
    BY NType
  <2>5. ref_count[q] = handles[q] + N(refs, q, Objects)
    BY <1>1 DEF RefCounts
  <2>6. handles[q] \in Nat /\ N(refs, q, Objects) \in Nat /\ B(q \in K) \in Nat
    BY <1>4, NType DEF B
  <2>7. (ref_count')[q] = AfterFreeing(K)[q] + B(q = b)
    <3>1. AfterFreeing(K)[q] \in Int
      BY <2>3, <2>4, <2>5, <2>6
    <3> QED
      BY <1>2, <1>4, <3>1 DEF AfterFreeing, B
  <2>8. Adds(r, refs', x, b)
    BY <1>2, <1>4 DEF Adds
  <2>9. N(refs', q, Objects) = N(r, q, Objects) + B(q = b)
    BY <1>2, <2>8, NAdds DEF B
  <2> HIDE DEF r
  <2> QED
    BY <2>2, <2>3, <2>4, <2>5, <2>6, <2>7, <2>9
<1>6. ASSUME NEW q \in Objects
      PROVE  /\ (ref_count')[q] = (handles')[q] + N(refs', q, Objects)
             /\ (ref_count')[q] \in Nat
             /\ \/ (ref_count')[q] = AfterFreeing(K)[q]
                \/ q \in Values /\ AfterFreeing(K)[q] > 0 /\ (ref_count')[q] > 0
  <2>1. /\ AfterFreeing(K)[q] = handles[q] + N(r, q, Objects)
        /\ (ref_count')[q] = AfterFreeing(K)[q] + B(q = b)
        /\ N(refs', q, Objects) = N(r, q, Objects) + B(q = b)
    BY <1>5
  <2>2. handles[q] \in Nat /\ N(r, q, Objects) \in Nat /\ (handles')[q] = handles[q]
    BY <1>4, NType
  <2>3. B(q = b) = IF q = b THEN 1 ELSE 0
    BY DEF B
  <2> HIDE DEF r, K
  <2> QED
    BY <1>2, <2>1, <2>2, <2>3
<1>7. ref_count' \in [Objects -> Nat] /\ RefCounts(Objects)'
  <2>1. ref_count' = [AfterFreeing(K) EXCEPT ![b] = @ + 1]
    BY DEF SetVariable
  <2>2. ref_count' \in [Objects -> Nat]
    BY <1>6, <2>1 DEF AfterFreeing
  <2> QED
    BY <1>6, <2>2 DEF RefCounts
<1>8. /\ refs' \in [Objects -> SUBSET Objects]
      /\ \A q \in Objects : /\ (refs')[q] \subseteq In("gc")
                            /\ place[q] # "gc" \/ q \in Dying(K) => (refs')[q] = {}
  <2>1. \A q \in Objects : refs[q] \subseteq In("gc") /\ (place[q] # "gc" => refs[q] = {})
    BY <1>1, Emptied DEF CascadeInv
  <2>2. refs' \in [Objects -> SUBSET Objects]
    BY <1>2, <1>4
  <2>3. b \in In("gc")
    BY <1>2 DEF In
  <2> QED
    BY <1>2, <1>3, <1>4, <2>1, <2>2, <2>3
<1>9. \A q \in Parts : (handles')[q] = 0 /\ (refs')[q] \subseteq Values
  BY <1>1, <1>2, <1>4, Sorts DEF AlwaysInv, PartsInv
<1>10. \A q \in Objects : (handles')[q] > 0 => place[q] = "gc"
  BY <1>1, <1>4 DEF AlwaysInv, HeldInv, Held, In
<1>11. FreeValues(K)
  BY DEF SetVariable
<1> HIDE DEF r
<1> QED
  BY <1>1, <1>3, <1>4, <1>6, <1>7, <1>8, <1>9, <1>10, <1>11, FreeValuesStep

-----------------------------------------------------------------------------
(* The engine's steps keep the invariant *)

\* Clearing weak references keeps their counts exact.
LEMMA WeakStep ==
  ASSUME AlwaysInv, NEW S \in SUBSET Objects, Clears(weak, weak', S),
         weakref_count' = WeakCountsWithout(S)
  PROVE  /\ weakref_count' \in [Objects -> Nat] /\ WeakCounts'
         /\ \A t \in Objects :
              /\ weakref_count[t] = 0 => (weakref_count')[t] = 0
              /\ (\A w \in S : weak[w] # t) => (weakref_count')[t] = weakref_count[t]
<1>1. ASSUME NEW t \in Objects
      PROVE  /\ (weakref_count')[t] = W(weak', t, Objects)
             /\ (weakref_count')[t] \in Nat
             /\ weakref_count[t] = 0 => (weakref_count')[t] = 0
             /\ (\A w \in S : weak[w] # t) => (weakref_count')[t] = weakref_count[t]
  <2>1. t # None
    BY PlacesAssumption
  <2>2. W(weak', t, Objects) = W(weak, t, Objects) - W(weak, t, S)
    BY <2>1, WClears
  <2>3. (weakref_count')[t] = weakref_count[t] - W(weak, t, S)
    BY DEF WeakCountsWithout, W
  <2>4. weakref_count[t] = W(weak, t, Objects)
    BY DEF AlwaysInv, WeakCounts
  <2>5. W(weak, t, Objects) \in Nat /\ W(weak, t, S) \in Nat /\ W(weak', t, Objects) \in Nat
    BY WType
  <2>6. (\A w \in S : weak[w] # t) => W(weak, t, S) = 0
    BY WType
  <2> QED
    BY <2>2, <2>3, <2>4, <2>5, <2>6
<1>2. weakref_count' \in [Objects -> Nat]
  BY <1>1 DEF WeakCountsWithout
<1> QED
  BY <1>1, <1>2 DEF WeakCounts

\* A value whose count is 0 gives up what it has: what the actions that free one
\* object have in common.
LEMMA GivingAll ==
  ASSUME AlwaysInv, RefCounts(Objects), NEW p \in Values,
         handles' = handles,
         ref_count' = AfterFreeing(refs[p]),
         weakref_count' = WeakCountsWithout({p}),
         weak' = [weak EXCEPT ![p] = None],
         refs' = [o \in Objects |-> IF o \in Dying(refs[p]) \cup {p} THEN {} ELSE refs[o]]
  PROVE  /\ handles' \in [Objects -> 0 .. MaxHandles]
         /\ refs' \in [Objects -> SUBSET Objects]
         /\ ref_count' \in [Objects -> Nat] /\ RefCounts(Objects)'
         /\ weak' \in [Objects -> Values \cup {None}]
         /\ weakref_count' \in [Objects -> Nat] /\ WeakCounts' /\ PartsInv'
         /\ p \notin Dying(refs[p])
         /\ \A o \in Objects :
              /\ o \in Dropped(refs[p]) => o \in Values /\ ref_count[o] > 0 /\ (ref_count')[o] = 0
              /\ o \in Dying(refs[p]) =>
                   o \in Parts \cap refs[p] /\ ref_count[o] = 1 /\ (ref_count')[o] = 0
              /\ ref_count[o] > 0 /\ o \notin Dropped(refs[p]) /\ o \notin Dying(refs[p])
                   => (ref_count')[o] > 0
         /\ \A o \in Objects :
              /\ (refs')[o] = IF o \in Dying(refs[p]) \cup {p} THEN {} ELSE refs[o]
              /\ (weak')[o] = IF o = p THEN None ELSE weak[o]
              /\ weakref_count[o] = 0 => (weakref_count')[o] = 0
              /\ o # weak[p] => (weakref_count')[o] = weakref_count[o]
<1> DEFINE K == refs[p]
<1> USE DEF AlwaysInv
<1>1. K \in SUBSET Objects /\ p \in Objects
  BY Sorts DEF TypeOK
<1>2. Dying(K) \subseteq Parts \cap K /\ p \notin Dying(K)
  BY <1>1, DyingParts, Sorts
<1>3. /\ handles' \in [Objects -> 0 .. MaxHandles]
      /\ refs' \in [Objects -> SUBSET Objects]
      /\ weak' \in [Objects -> Values \cup {None}]
      /\ \A o \in Objects :
           /\ (refs')[o] = IF o \in Dying(K) \cup {p} THEN {} ELSE refs[o]
           /\ (weak')[o] = IF o = p THEN None ELSE weak[o]
  BY DEF TypeOK
<1>4. ASSUME NEW o \in Objects
      PROVE  /\ (ref_count')[o] = (handles')[o] + N(refs', o, Objects)
             /\ (ref_count')[o] \in Nat
  <2>1. GivesUp(refs, refs', p, K, Dying(K))
    BY <1>2, <1>3 DEF GivesUp
  <2>2. AfterFreeing(K)[o] = handles[o] + N(refs', o, Objects)
    BY <1>1, <2>1, AfterGiving
  <2>3. handles[o] \in Nat /\ N(refs', o, Objects) \in Nat
    BY NType DEF TypeOK
  <2> QED
    BY <2>2, <2>3
<1>5. ref_count' \in [Objects -> Nat] /\ RefCounts(Objects)'
  <2>1. ref_count' \in [Objects -> Nat]
    BY <1>4 DEF AfterFreeing
  <2> QED
    BY <1>4, <2>1 DEF RefCounts
<1>6. Clears(weak, weak', {p})
  BY <1>3 DEF Clears
<1>7. /\ weakref_count' \in [Objects -> Nat] /\ WeakCounts'
      /\ \A o \in Objects :
           /\ weakref_count[o] = 0 => (weakref_count')[o] = 0
           /\ o # weak[p] => (weakref_count')[o] = weakref_count[o]
  <2>1. {p} \in SUBSET Objects
    BY <1>1
  <2>2. /\ weakref_count' \in [Objects -> Nat] /\ WeakCounts'
        /\ \A t \in Objects :
             /\ weakref_count[t] = 0 => (weakref_count')[t] = 0
             /\ (\A w \in {p} : weak[w] # t) => (weakref_count')[t] = weakref_count[t]
    BY <1>6, <2>1, WeakStep
  <2> QED
    BY <2>2
<1>8. PartsInv'
  BY <1>1, <1>2, <1>3, Sorts DEF PartsInv
<1>9. ASSUME NEW o \in Objects
      PROVE  /\ o \in Dropped(K) => o \in Values /\ ref_count[o] > 0 /\ (ref_count')[o] = 0
             /\ o \in Dying(K) => o \in Parts \cap K /\ ref_count[o] = 1 /\ (ref_count')[o] = 0
             /\ ref_count[o] > 0 /\ o \notin Dropped(K) /\ o \notin Dying(K)
                  => (ref_count')[o] > 0
  BY <1>1, <1>5, Losing
<1> QED
  BY <1>2, <1>3, <1>5, <1>7, <1>8, <1>9

\* One object of a cascade is freed: its structure stays while weak references to it
\* do, the structure of its own dead target goes with the last of them.
LEMMA FreeZeroStep ==
  ASSUME IInv, NEW p \in Objects, FreeZero(p)
  PROVE  IInv'
<1> USE DEF AlwaysInv
<1>1. AlwaysInv /\ RefCounts(Objects) /\ CascadeInv /\ pc = "zero" /\ gc_phase = "decref"
  BY DEF IInv, PhaseInv, FreeZero, TypeOK
<1> DEFINE K == refs[p]
<1>2. /\ p \in Values /\ place[p] = "zero" /\ ref_count[p] = 0 /\ mark[p] = 1
      /\ K \subseteq In("gc") /\ p \notin K
  BY <1>1 DEF FreeZero, CascadeInv, In
<1>3. /\ handles' = handles /\ handles' \in [Objects -> 0 .. MaxHandles]
      /\ refs' \in [Objects -> SUBSET Objects]
      /\ ref_count' \in [Objects -> Nat] /\ RefCounts(Objects)'
      /\ weak' \in [Objects -> Values \cup {None}]
      /\ weakref_count' \in [Objects -> Nat] /\ WeakCounts' /\ PartsInv'
      /\ p \notin Dying(K)
  BY <1>1, <1>2, GivingAll DEF FreeZero
<1>4. \A o \in Objects :
        /\ o \in Dropped(K) => o \in Values /\ ref_count[o] > 0 /\ (ref_count')[o] = 0
        /\ o \in Dying(K) => o \in Parts \cap K /\ ref_count[o] = 1 /\ (ref_count')[o] = 0
        /\ ref_count[o] > 0 /\ o \notin Dropped(K) /\ o \notin Dying(K)
             => (ref_count')[o] > 0
  BY <1>1, <1>2, GivingAll DEF FreeZero
<1>5. \A o \in Objects :
        /\ (refs')[o] = IF o \in Dying(K) \cup {p} THEN {} ELSE refs[o]
        /\ (weak')[o] = IF o = p THEN None ELSE weak[o]
        /\ weakref_count[o] = 0 => (weakref_count')[o] = 0
        /\ o # weak[p] => (weakref_count')[o] = weakref_count[o]
  BY <1>1, <1>2, GivingAll DEF FreeZero
<1>6. \A o \in Objects :
        /\ (place')[o] =
             IF o = p THEN IF (weakref_count')[p] = 0 THEN "free" ELSE "kept"
             ELSE IF o \in Dropped(K) THEN "zero"
             ELSE IF o \in Dying(K) THEN "free"
             ELSE IF o = weak[p] /\ WeakFreed(o, (ref_count')[o], (weakref_count')[o], mark[o])
             THEN "free" ELSE place[o]
        /\ (mark')[o] = IF o = p THEN 0 ELSE IF o \in Dropped(K) THEN 1 ELSE mark[o]
  BY DEF FreeZero
<1> HIDE DEF K
<1>7. TypeOK'
  <2>1. /\ place' \in [Objects -> {"free", "gc", "tmp", "zero", "kept"}]
        /\ mark' \in [Objects -> {0, 1}]
    BY <1>1 DEF FreeZero, TypeOK
  <2>2. /\ pc' \in {"zero", "idle"} /\ gc_phase' = IF pc' = "idle" THEN "none" ELSE "decref"
        /\ left' = left
    BY <1>1 DEF FreeZero
  <2> QED
    BY <1>1, <1>3, <2>1, <2>2 DEF TypeOK
<1>8. \A o \in Objects : (ref_count')[o] = 0 =>
        (handles')[o] = 0 /\ \A q \in Objects : o \notin (refs')[q]
  BY <1>3, <1>7, UncountedNext
<1>9. \A o \in Objects :
        /\ place[o] \in {"gc", "zero", "kept", "free"}
        /\ place[o] = "gc" => ref_count[o] > 0 /\ mark[o] = 0
        /\ place[o] = "zero" => o \in Values /\ ref_count[o] = 0 /\ mark[o] = 1
        /\ place[o] \in {"kept", "free"} =>
             refs[o] = {} /\ weak[o] = None /\ mark[o] = 0 /\ (ref_count')[o] = 0
  <2>1. \A o \in Objects : place[o] \in {"kept", "free"} =>
             /\ refs[o] = {} /\ weak[o] = None /\ mark[o] = 0
             /\ handles[o] = 0 /\ \A q \in Objects : o \notin refs[q]
    BY <1>1 DEF GoneInv, CascadeInv, In, HeldInv, Held, TypeOK
  <2>2. \A o \in Objects : place[o] \in {"kept", "free"} =>
             (handles')[o] = 0 /\ \A q \in Objects : o \notin (refs')[q]
    BY <1>3, <1>5, <2>1
  <2>3. \A o \in Objects : place[o] \in {"kept", "free"} => (ref_count')[o] = 0
    BY <1>3, <1>7, <2>2, UncountedNext
  <2> QED
    BY <1>1, <2>1, <2>3 DEF CascadeInv
<1>10. \A o \in Objects :
         /\ (place')[o] = "gc" =>
              place[o] = "gc" /\ o \notin Dropped(K) /\ o \notin Dying(K)
         /\ place[o] = "gc" /\ (ref_count')[o] > 0 => (place')[o] = "gc"
  BY <1>2, <1>4, <1>6 DEF WeakFreed
<1>11. HeldInv'
  BY <1>1, <1>3, <1>8, <1>10 DEF HeldInv, Held, In, TypeOK
<1>12. GoneInv'
  <2> SUFFICES ASSUME NEW o \in Objects, (place')[o] \in {"free", "kept"}
               PROVE  /\ (refs')[o] = {} /\ (weak')[o] = None /\ (mark')[o] = 0
                      /\ (place')[o] = "free" => (weakref_count')[o] = 0
                      /\ (place')[o] = "kept" => o \in Values /\ (weakref_count')[o] > 0
    BY <1>7 DEF GoneInv, TypeOK
  <2>1. o \notin Dropped(K) \/ o = p
    BY <1>6
  <2>2. CASE o = p
    BY <1>2, <1>3, <1>5, <1>6, <2>2
  <2>3. CASE o # p /\ o \in Dying(K)
    <3>1. o \in Parts /\ o \in K /\ place[o] = "gc" /\ (place')[o] = "free" /\ o \notin Dropped(K)
      BY <1>2, <1>4, <1>6, <2>1, <2>3 DEF In
    <3>2. weak[o] = None /\ weakref_count[o] = 0 /\ mark[o] = 0
      BY <1>1, <1>9, <3>1, OnlyValues DEF PartsInv
    <3> QED
      BY <1>5, <1>6, <2>3, <3>1, <3>2
  <2>4. CASE o # p /\ o \notin Dying(K)
    <3>1. place[o] \in {"free", "kept"}
      <4>1. CASE o = weak[p] /\ WeakFreed(o, (ref_count')[o], (weakref_count')[o], mark[o])
        <5>1. (ref_count')[o] = 0 /\ mark[o] = 0
          BY <4>1 DEF WeakFreed
        <5>2. place[o] # "gc" /\ place[o] # "zero"
          BY <1>4, <1>9, <2>1, <2>4, <5>1
        <5> QED
          BY <1>9, <5>2
      <4>2. CASE ~(o = weak[p] /\ WeakFreed(o, (ref_count')[o], (weakref_count')[o], mark[o]))
        BY <1>6, <2>1, <2>4, <4>2
      <4> QED
        BY <4>1, <4>2
    <3>2. (refs')[o] = {} /\ (weak')[o] = None /\ (mark')[o] = 0 /\ (ref_count')[o] = 0
      BY <1>5, <1>6, <1>9, <2>1, <2>4, <3>1
    <3>3. /\ place[o] = "free" => weakref_count[o] = 0
          /\ place[o] = "kept" => o \in Values /\ weakref_count[o] > 0
      BY <1>1 DEF GoneInv
    <3>4. CASE (place')[o] = "free"
      <4>1. (weakref_count')[o] = 0
        BY <1>5, <1>6, <2>1, <2>4, <3>3, <3>4 DEF WeakFreed
      <4> QED
        BY <3>2, <3>4, <4>1
    <3>5. CASE (place')[o] = "kept"
      <4>1. place[o] = "kept" /\ o \in Values /\ weakref_count[o] > 0 /\ mark[o] = 0
        BY <1>6, <1>9, <2>1, <2>4, <3>1, <3>3, <3>5
      <4>2. (weakref_count')[o] # 0
        BY <1>5, <1>6, <2>1, <2>4, <3>2, <3>5, <4>1 DEF WeakFreed
      <4> QED
        BY <1>3, <3>2, <3>5, <4>1, <4>2
    <3> QED
      BY <3>4, <3>5
  <2> QED
    BY <2>2, <2>3, <2>4
<1>13. CascadeInv'
  <2>1. ASSUME NEW q \in Objects, NEW o \in (refs')[q]
        PROVE  o \in In("gc")'
    <3>1. o \in Objects /\ o \in In("gc") /\ (ref_count')[o] # 0
      BY <1>1, <1>3, <1>5, <1>8 DEF CascadeInv
    <3> QED
      BY <1>3, <1>10, <3>1 DEF In
  <2>2. left' = {}
    BY <1>1 DEF FreeZero, CascadeInv
  <2>3. ASSUME NEW o \in Objects
        PROVE  /\ (place')[o] \in {"gc", "zero", "kept", "free"}
               /\ (place')[o] = "gc" => (ref_count')[o] > 0 /\ (mark')[o] = 0
               /\ (place')[o] = "zero" => o \in Values /\ (ref_count')[o] = 0 /\ (mark')[o] = 1
    <3>1. (place')[o] \in {"gc", "zero", "kept", "free"}
      BY <1>6, <1>9
    <3>2. (place')[o] = "gc" => (ref_count')[o] > 0 /\ (mark')[o] = 0
      BY <1>4, <1>6, <1>9, <1>10
    <3>3. CASE (place')[o] = "zero"
      <4>1. o # p /\ (o \in Dropped(K) \/ (o \notin Dropped(K) /\ place[o] = "zero" /\ o \notin Dying(K)))
        BY <1>6, <3>3
      <4>2. CASE o \in Dropped(K)
        BY <1>4, <1>6, <3>3, <4>1, <4>2
      <4>3. CASE o \notin Dropped(K)
        <5>1. place[o] = "zero" /\ o \in Values /\ ref_count[o] = 0 /\ (mark')[o] = 1
          BY <1>6, <1>9, <4>1, <4>3
        <5>2. handles[o] = 0 /\ \A q \in Objects : o \notin refs[q]
          BY <1>1, <5>1, Uncounted
        <5>3. (handles')[o] = 0 /\ \A q \in Objects : o \notin (refs')[q]
          BY <1>3, <1>5, <5>2
        <5>4. (ref_count')[o] = 0
          BY <1>3, <1>7, <5>3, UncountedNext
        <5> QED
          BY <3>3, <5>1, <5>4
      <4> QED
        BY <4>2, <4>3
    <3> QED
      BY <3>1, <3>2, <3>3
  <2> QED
    BY <2>1, <2>2, <2>3 DEF CascadeInv
<1>14. pc' = IF In("zero")' # {} THEN "zero" ELSE "idle"
  BY DEF FreeZero, In
<1> QED
  BY <1>3, <1>7, <1>11, <1>12, <1>13, <1>14 DEF IInv, PhaseInv

\* A collection starts with everything that lives, and what a cleared weak
\* reference alone kept goes.
LEMMA RunGCStep ==
  ASSUME IInv, NEW r \in BOOLEAN, RunGC(r)
  PROVE  IInv' /\ In("gc")' = In("gc") /\ In("tmp")' = {}
<1> USE DEF AlwaysInv
<1>1. /\ AlwaysInv /\ RefCounts(Objects) /\ CascadeInv /\ In("zero") = {} /\ pc = "idle"
      /\ gc_phase = "none"
  BY DEF IInv, PhaseInv, RunGC, Idle, TypeOK
<1> DEFINE S == IF r THEN {w \in In("gc") : weak[w] # None /\ ref_count[weak[w]] = 0} ELSE {}
<1>2. S \in SUBSET Objects /\ \A w \in S : weak[w] # None /\ ref_count[weak[w]] = 0
  BY DEF In
<1>3. /\ weak' = [o \in Objects |-> IF o \in S THEN None ELSE weak[o]]
      /\ weakref_count' = WeakCountsWithout(S)
      /\ place' = [o \in Objects |->
           IF /\ \E w \in S : weak[w] = o
              /\ WeakFreed(o, ref_count[o], (weakref_count')[o], mark[o])
           THEN "free" ELSE place[o]]
  BY DEF RunGC
<1>4. /\ pc' = "decref" /\ left' = In("gc") /\ handles' = handles /\ refs' = refs
      /\ ref_count' = ref_count /\ mark' = mark /\ gc_phase' = gc_phase
  BY DEF RunGC
<1> HIDE DEF S
<1>5. /\ weakref_count' \in [Objects -> Nat] /\ WeakCounts'
      /\ \A t \in Objects :
           /\ weakref_count[t] = 0 => (weakref_count')[t] = 0
           /\ (\A w \in S : weak[w] # t) => (weakref_count')[t] = weakref_count[t]
  <2>1. Clears(weak, weak', S)
    BY <1>3 DEF Clears
  <2> QED
    BY <1>1, <1>2, <1>3, <2>1, WeakStep
<1>6. \A o \in Objects :
        /\ (place')[o] = IF /\ \E w \in S : weak[w] = o
                            /\ ref_count[o] = 0 /\ (weakref_count')[o] = 0 /\ mark[o] = 0
                         THEN "free" ELSE place[o]
        /\ (weak')[o] = IF o \in S THEN None ELSE weak[o]
  BY <1>3 DEF WeakFreed
<1>7. \A o \in Objects :
        /\ place[o] \in {"gc", "kept", "free"}
        /\ refs[o] \subseteq In("gc")
        /\ place[o] = "gc" => ref_count[o] > 0 /\ mark[o] = 0
        /\ place[o] # "gc" =>
             refs[o] = {} /\ weak[o] = None /\ mark[o] = 0 /\ ref_count[o] = 0
  <2>1. \A o \in Objects : place[o] # "zero"
    BY <1>1 DEF In
  <2> QED
    BY <1>1, <2>1, CountedLives, Emptied DEF CascadeInv, GoneInv
<1>8. In("gc")' = In("gc") /\ \A o \in Objects : (place')[o] # "gc" => place[o] # "gc"
  BY <1>6, <1>7 DEF In
<1>9. TypeOK'
  <2>1. place' \in [Objects -> {"free", "gc", "tmp", "zero", "kept"}]
    BY <1>1, <1>3 DEF TypeOK
  <2>2. weak' \in [Objects -> Values \cup {None}]
    BY <1>1, <1>3 DEF TypeOK
  <2>3. left' \subseteq Objects
    BY <1>4 DEF In
  <2> QED
    BY <1>1, <1>4, <1>5, <2>1, <2>2, <2>3 DEF TypeOK
<1>10. PartsInv'
  BY <1>1, <1>4, <1>6, Sorts DEF PartsInv
<1>11. GoneInv'
  <2> SUFFICES ASSUME NEW o \in Objects, (place')[o] \in {"free", "kept"}
               PROVE  /\ (refs')[o] = {} /\ (weak')[o] = None /\ (mark')[o] = 0
                      /\ (place')[o] = "free" => (weakref_count')[o] = 0
                      /\ (place')[o] = "kept" => o \in Values /\ (weakref_count')[o] > 0
    BY <1>9 DEF GoneInv, TypeOK
  <2>1. place[o] # "gc" /\ (refs')[o] = {} /\ (weak')[o] = None /\ (mark')[o] = 0 /\ ref_count[o] = 0
    <3>1. place[o] # "gc"
      BY <1>6, <1>7
    <3> QED
      BY <1>4, <1>6, <1>7, <3>1
  <2>2. /\ place[o] = "free" => weakref_count[o] = 0
        /\ place[o] = "kept" => o \in Values /\ weakref_count[o] > 0
    BY <1>1 DEF GoneInv
  <2>3. (place')[o] = "free" => (weakref_count')[o] = 0
    BY <1>5, <1>6, <2>2
  <2>4. CASE (place')[o] = "kept"
    <3>1. place[o] = "kept" /\ o \in Values /\ weakref_count[o] > 0 /\ mark[o] = 0
      BY <1>6, <1>7, <2>1, <2>2, <2>4
    <3>2. (weakref_count')[o] # 0
      BY <1>5, <1>6, <2>1, <2>4, <3>1
    <3> QED
      BY <1>5, <2>1, <2>3, <3>1, <3>2
  <2> QED
    BY <2>1, <2>3, <2>4
<1>12. HeldInv'
  BY <1>1, <1>4, <1>8 DEF HeldInv, Held
<1>13. RefCounts(left)'
  <2> SUFFICES ASSUME NEW o \in Objects
               PROVE  (ref_count')[o] = (handles')[o] + N(refs', o, left')
    BY DEF RefCounts
  <2>1. N(refs, o, Objects) = N(refs, o, In("gc"))
    <3>1. \A q \in Objects : o \in refs[q] => q \in In("gc")
      BY <1>7 DEF In
    <3>2. \A q \in In("gc") : q \in Objects
      BY DEF In
    <3> QED
      BY <3>1, <3>2, NSame
  <2> QED
    BY <1>1, <1>4, <2>1 DEF RefCounts
<1>14. LoopInv'
  <2> SUFFICES ASSUME NEW o \in Objects
               PROVE  /\ (place')[o] \in {"gc", "tmp", "kept", "free"}
                      /\ (refs')[o] \subseteq In("gc")' \cup In("tmp")'
                      /\ (place')[o] \in {"gc", "tmp"} =>
                           (handles')[o] > 0 \/ \E q \in Objects : o \in (refs')[q]
    BY DEF LoopInv
  <2>1. (place')[o] \in {"gc", "kept", "free"} /\ (refs')[o] \subseteq In("gc")'
    BY <1>4, <1>6, <1>7, <1>8
  <2>2. CASE (place')[o] = "gc"
    <3>1. ref_count[o] # 0
      BY <1>6, <1>7, <2>2
    <3>2. handles[o] # 0 \/ \E q \in Objects : o \in refs[q]
      BY <1>1, <3>1, Uncounted
    <3>3. handles[o] \in Nat
      BY <1>1 DEF TypeOK
    <3> QED
      BY <1>4, <2>1, <3>2, <3>3
  <2> QED
    BY <2>1, <2>2
<1>15. DecrefInv'
  <2>1. left' \subseteq In("gc")'
    BY <1>4, <1>8
  <2>2. ASSUME NEW o \in Objects
        PROVE  /\ o \in left' => (mark')[o] = 0
               /\ (place')[o] = "gc" => o \in left'
               /\ (place')[o] # "tmp"
    BY <1>4, <1>6, <1>7, <1>8 DEF In
  <2> QED
    BY <1>14, <2>1, <2>2 DEF DecrefInv
<1>16. IInv'
  BY <1>4, <1>5, <1>9, <1>10, <1>11, <1>12, <1>13, <1>15 DEF IInv, PhaseInv
<1>17. In("tmp")' = {}
  BY <1>6, <1>7 DEF In
<1> QED
  BY <1>8, <1>16, <1>17

\* What a step of the three loops leaves alone.
LEMMA LoopStep ==
  ASSUME IInv, pc \in {"decref", "scan", "restore"},
         UNCHANGED <<handles, refs, weak, weakref_count, gc_phase, pc>>,
         ref_count' \in [Objects -> Nat], left' \subseteq Objects,
         place' \in [Objects -> {"free", "gc", "tmp", "zero", "kept"}],
         mark' \in [Objects -> {0, 1}],
         \A o \in Objects :
           /\ place[o] \in {"kept", "free"} => (place')[o] = place[o] /\ (mark')[o] = mark[o]
           /\ place[o] \in {"gc", "tmp"} => (place')[o] \in {"gc", "tmp"},
         HeldInv'
  PROVE  AlwaysInv' /\ LoopInv'
<1> USE DEF AlwaysInv
<1>1. AlwaysInv /\ LoopInv
  BY DEF IInv, PhaseInv, DecrefInv, ScanInv, RestoreInv
<1>2. TypeOK' /\ PartsInv' /\ WeakCounts'
  BY <1>1 DEF TypeOK, PartsInv, WeakCounts
<1>3. GoneInv'
  <2> SUFFICES ASSUME NEW o \in Objects, (place')[o] \in {"free", "kept"}
               PROVE  place[o] = (place')[o] /\ (mark')[o] = mark[o]
    BY <1>1, <1>2 DEF GoneInv, TypeOK
  <2> QED
    BY <1>1 DEF LoopInv
<1>4. LoopInv'
  <2>1. In("gc")' \cup In("tmp")' = In("gc") \cup In("tmp")
    BY <1>1 DEF In, LoopInv
  <2> QED
    BY <1>1, <2>1 DEF LoopInv
<1> QED
  BY <1>2, <1>3, <1>4

\* One object of the first loop: its references stop counting.
LEMMA GcDecrefStep ==
  ASSUME IInv, NEW p \in Objects, GcDecref(p)
  PROVE  IInv'
<1>1. AlwaysInv /\ RefCounts(left) /\ DecrefInv /\ LoopInv /\ pc = "decref" /\ TypeOK
  BY DEF IInv, PhaseInv, GcDecref, AlwaysInv, DecrefInv
<1>2. /\ p \in left /\ left' = left \ {p} /\ left \subseteq Objects
      /\ UNCHANGED <<handles, refs, weak, weakref_count, gc_phase, pc>>
      /\ ref_count' = [o \in Objects |-> ref_count[o] - B(o \in refs[p])]
      /\ \A o \in Objects :
           /\ (ref_count')[o] = ref_count[o] - B(o \in refs[p])
           /\ (mark')[o] = IF o = p THEN 1 ELSE mark[o]
           /\ (place')[o] = IF (ref_count')[o] = 0 /\ (o = p \/ (o \in refs[p] /\ mark[o] = 1))
                            THEN "tmp" ELSE place[o]
  BY <1>1 DEF GcDecref, TypeOK
<1>3. ASSUME NEW o \in Objects
      PROVE  /\ (ref_count')[o] = (handles')[o] + N(refs', o, left')
             /\ (ref_count')[o] \in Nat
             /\ handles[o] > 0 => (ref_count')[o] > 0
  <2>1. left \ {p} \in SUBSET Objects /\ (left \ {p}) \cup {p} = left
    BY <1>2
  <2>2. N(refs, o, left) = N(refs, o, left \ {p}) + B(o \in refs[p])
    <3>1. N(refs, o, (left \ {p}) \cup {p}) = N(refs, o, left \ {p}) + B(o \in refs[p])
      BY <2>1, NOneMore DEF B
    <3> QED
      BY <2>1, <3>1
  <2>3. ref_count[o] = handles[o] + N(refs, o, left)
    BY <1>1 DEF RefCounts
  <2>4. handles[o] \in Nat /\ N(refs, o, left \ {p}) \in Nat /\ B(o \in refs[p]) \in Nat
    BY <1>1, <2>1, NType DEF TypeOK, B
  <2> QED
    BY <1>2, <2>2, <2>3, <2>4
<1>4. RefCounts(left)' /\ ref_count' \in [Objects -> Nat]
  BY <1>2, <1>3 DEF RefCounts
<1>5. \A o \in Objects :
        /\ place[o] \in {"gc", "tmp", "kept", "free"}
        /\ refs[o] \subseteq In("gc") \cup In("tmp")
        /\ o \in left => place[o] = "gc" /\ mark[o] = 0
        /\ place[o] = "gc" /\ o \notin left => ref_count[o] > 0 /\ mark[o] = 1
        /\ place[o] = "tmp" => ref_count[o] = 0 /\ mark[o] = 1
        /\ o \in refs[p] => place[o] \in {"gc", "tmp"}
  BY <1>1, <1>2 DEF DecrefInv, LoopInv, In
<1>6. /\ place' \in [Objects -> {"free", "gc", "tmp", "zero", "kept"}]
      /\ mark' \in [Objects -> {0, 1}]
  BY <1>1 DEF GcDecref, TypeOK
<1>7. HeldInv'
  BY <1>1, <1>2, <1>3 DEF AlwaysInv, HeldInv, Held, In
<1>8. AlwaysInv' /\ LoopInv'
  <2>1. \A o \in Objects :
          /\ place[o] \in {"kept", "free"} => (place')[o] = place[o] /\ (mark')[o] = mark[o]
          /\ place[o] \in {"gc", "tmp"} => (place')[o] \in {"gc", "tmp"}
    BY <1>2, <1>5
  <2>2. left' \subseteq Objects
    BY <1>2
  <2> QED
    BY <1>1, <1>2, <1>4, <1>6, <1>7, <2>1, <2>2, LoopStep
<1>9. DecrefInv'
  <2> SUFFICES ASSUME NEW o \in Objects
               PROVE  /\ o \in left' => (place')[o] = "gc" /\ (mark')[o] = 0
                      /\ (place')[o] = "gc" /\ o \notin left' => (ref_count')[o] > 0 /\ (mark')[o] = 1
                      /\ (place')[o] = "tmp" => (ref_count')[o] = 0 /\ (mark')[o] = 1
    BY <1>2, <1>8 DEF DecrefInv, In
  <2>1. (ref_count')[o] = IF o \in refs[p] THEN ref_count[o] - 1 ELSE ref_count[o]
    <3>1. ref_count[o] \in Nat
      BY <1>1 DEF TypeOK
    <3> QED
      BY <1>2, <3>1 DEF B
  <2>2. (ref_count')[o] \in Nat /\ ref_count[o] \in Nat
    BY <1>1, <1>3 DEF TypeOK
  <2>3. o \in left' => (place')[o] = "gc" /\ (mark')[o] = 0
    BY <1>2, <1>5
  <2>4. (place')[o] = "gc" /\ o \notin left' => (ref_count')[o] > 0 /\ (mark')[o] = 1
    BY <1>2, <1>5, <2>1, <2>2
  <2>5. (place')[o] = "tmp" => (ref_count')[o] = 0 /\ (mark')[o] = 1
    BY <1>2, <1>5, <2>1, <2>2
  <2> QED
    BY <2>3, <2>4, <2>5
<1> QED
  BY <1>1, <1>2, <1>4, <1>8, <1>9 DEF IInv, PhaseInv

\* One object of the second loop: its references count again, and bring back what
\* waited.
LEMMA GcScanStep ==
  ASSUME IInv, NEW p \in Objects, GcScan(p)
  PROVE  IInv'
<1> DEFINE back == {o \in refs[p] : ref_count[o] = 0}
           S == In("gc") \ left
<1>1. AlwaysInv /\ RefCounts(S) /\ ScanInv /\ LoopInv /\ pc = "scan" /\ TypeOK
  BY DEF IInv, PhaseInv, GcScan, AlwaysInv, ScanInv
<1>2. /\ p \in left /\ left' = (left \ {p}) \cup back /\ left \subseteq Objects
      /\ UNCHANGED <<handles, refs, weak, weakref_count, gc_phase, pc>>
      /\ ref_count' = [o \in Objects |-> ref_count[o] + B(o \in refs[p])]
      /\ \A o \in Objects :
           /\ (ref_count')[o] = ref_count[o] + B(o \in refs[p])
           /\ (mark')[o] = IF o \in back \cup {p} THEN 0 ELSE mark[o]
           /\ (place')[o] = IF o \in back THEN "gc" ELSE place[o]
  BY <1>1 DEF GcScan, TypeOK
<1>3. \A o \in Objects :
        /\ place[o] \in {"gc", "tmp", "kept", "free"}
        /\ o \in left => place[o] = "gc"
        /\ place[o] = "gc" => ref_count[o] > 0
        /\ place[o] = "gc" /\ o \notin left => mark[o] = 0
        /\ place[o] = "tmp" => ref_count[o] = 0 /\ mark[o] = 1
        /\ o \in refs[p] => place[o] \in {"gc", "tmp"}
  BY <1>1, <1>2 DEF ScanInv, LoopInv, In
<1>4. /\ back \subseteq Objects /\ p \notin back
      /\ \A o \in Objects : o \in back <=> o \in refs[p] /\ place[o] = "tmp"
  <2>1. p \in left /\ ref_count[p] > 0 /\ refs[p] \subseteq Objects
    BY <1>1, <1>2, <1>3 DEF TypeOK
  <2>2. \A o \in Objects : o \in refs[p] => (ref_count[o] = 0 <=> place[o] = "tmp")
    BY <1>3
  <2> QED
    BY <2>1, <2>2
<1>5. /\ In("gc")' = In("gc") \cup back
      /\ (In("gc") \ left)' = S \cup {p} /\ S \in SUBSET Objects /\ p \notin S
  <2>1. In("gc")' = In("gc") \cup back
    BY <1>2, <1>4 DEF In
  <2>2. p \in In("gc") /\ In("gc") \cap back = {}
    BY <1>2, <1>3, <1>4 DEF In
  <2>3. In("gc")' \ left' = S \cup {p}
    BY <1>2, <2>1, <2>2
  <2> QED
    BY <1>2, <2>1, <2>3 DEF In
<1> HIDE DEF back, S
<1>6. ASSUME NEW o \in Objects
      PROVE  /\ (ref_count')[o] = (handles')[o] + N(refs', o, S \cup {p})
             /\ (ref_count')[o] = IF o \in refs[p] THEN ref_count[o] + 1 ELSE ref_count[o]
             /\ ref_count[o] \in Nat /\ (ref_count')[o] \in Nat
  <2>1. N(refs, o, S \cup {p}) = N(refs, o, S) + B(o \in refs[p])
    BY <1>5, NOneMore DEF B
  <2>2. ref_count[o] = handles[o] + N(refs, o, S)
    BY <1>1 DEF RefCounts
  <2>3. handles[o] \in Nat /\ N(refs, o, S) \in Nat
    BY <1>1, <1>5, NType DEF TypeOK
  <2>4. B(o \in refs[p]) = IF o \in refs[p] THEN 1 ELSE 0
    BY DEF B
  <2> QED
    BY <1>2, <2>1, <2>2, <2>3, <2>4
<1>7. RefCounts(In("gc") \ left)' /\ ref_count' \in [Objects -> Nat]
  <2>1. \A o \in Objects : (ref_count')[o] = (handles')[o] + N(refs', o, (In("gc") \ left)')
    BY <1>5, <1>6
  <2> QED
    BY <1>2, <1>6, <2>1 DEF RefCounts
<1>8. HeldInv'
  BY <1>1, <1>2, <1>5 DEF AlwaysInv, HeldInv, Held
<1>9. AlwaysInv' /\ LoopInv'
  <2>1. \A o \in Objects :
          /\ place[o] \in {"kept", "free"} => (place')[o] = place[o] /\ (mark')[o] = mark[o]
          /\ place[o] \in {"gc", "tmp"} => (place')[o] \in {"gc", "tmp"}
    BY <1>2, <1>3, <1>4
  <2>2. left' \subseteq Objects
    BY <1>2, <1>4
  <2>3. /\ place' \in [Objects -> {"free", "gc", "tmp", "zero", "kept"}]
        /\ mark' \in [Objects -> {0, 1}]
    BY <1>1 DEF GcScan, TypeOK
  <2> QED
    BY <1>1, <1>2, <1>7, <1>8, <2>1, <2>2, <2>3, LoopStep
<1>10. In("gc")' \subseteq Reachable'
  <2>1. Reachable' = Reachable
    BY <1>2 DEF Reachable, Held
  <2>2. p \in Reachable /\ In("gc") \subseteq Reachable
    BY <1>1, <1>2, <1>3 DEF ScanInv, In
  <2>3. back \subseteq refs[p]
    BY <1>1, <1>4 DEF TypeOK
  <2> QED
    BY <1>1, <1>5, <2>1, <2>2, <2>3, ReachableLeast
<1>11. ScanInv'
  <2>1. left' \subseteq In("gc")'
    BY <1>2, <1>3, <1>5 DEF In
  <2>2. ASSUME NEW o \in Objects
        PROVE  /\ (place')[o] = "gc" => (ref_count')[o] > 0
               /\ (place')[o] = "gc" /\ o \notin left' => (mark')[o] = 0
               /\ (place')[o] = "tmp" => (ref_count')[o] = 0 /\ (mark')[o] = 1
    BY <1>2, <1>3, <1>4, <1>6
  <2> QED
    BY <1>9, <1>10, <2>1, <2>2 DEF ScanInv
<1> QED
  BY <1>1, <1>2, <1>7, <1>9, <1>11 DEF IInv, PhaseInv

\* One object of the garbage: its references count again.
LEMMA GcRestoreStep ==
  ASSUME IInv, NEW p \in Objects, GcRestore(p)
  PROVE  IInv'
<1> DEFINE S == In("gc") \cup (In("tmp") \ left)
<1>1. AlwaysInv /\ RefCounts(S) /\ RestoreInv /\ LoopInv /\ pc = "restore" /\ TypeOK
  BY DEF IInv, PhaseInv, GcRestore, AlwaysInv, RestoreInv
<1>2. /\ p \in left /\ left' = left \ {p} /\ left \subseteq In("tmp")
      /\ UNCHANGED <<place, handles, refs, weak, weakref_count, mark, gc_phase, pc>>
      /\ ref_count' = [o \in Objects |-> ref_count[o] + B(o \in refs[p])]
      /\ \A o \in Objects : (ref_count')[o] = ref_count[o] + B(o \in refs[p])
  BY <1>1 DEF GcRestore, TypeOK, RestoreInv
<1>3. /\ (In("gc") \cup (In("tmp") \ left))' = S \cup {p}
      /\ S \in SUBSET Objects /\ p \notin S
  BY <1>2 DEF In
<1> HIDE DEF S
<1>4. ASSUME NEW o \in Objects
      PROVE  /\ (ref_count')[o] = (handles')[o] + N(refs', o, S \cup {p})
             /\ (ref_count')[o] >= ref_count[o]
             /\ ref_count[o] \in Nat /\ (ref_count')[o] \in Nat
  <2>1. N(refs, o, S \cup {p}) = N(refs, o, S) + B(o \in refs[p])
    BY <1>3, NOneMore DEF B
  <2>2. ref_count[o] = handles[o] + N(refs, o, S)
    BY <1>1 DEF RefCounts
  <2>3. handles[o] \in Nat /\ N(refs, o, S) \in Nat
    BY <1>1, <1>3, NType DEF TypeOK
  <2>4. B(o \in refs[p]) = IF o \in refs[p] THEN 1 ELSE 0
    BY DEF B
  <2> QED
    BY <1>2, <2>1, <2>2, <2>3, <2>4
<1>5. RefCounts(In("gc") \cup (In("tmp") \ left))' /\ ref_count' \in [Objects -> Nat]
  <2>1. \A o \in Objects :
          (ref_count')[o] = (handles')[o] + N(refs', o, (In("gc") \cup (In("tmp") \ left))')
    BY <1>3, <1>4
  <2> QED
    BY <1>2, <1>4, <2>1 DEF RefCounts
<1>6. HeldInv'
  BY <1>1, <1>2 DEF AlwaysInv, HeldInv, Held, In
<1>7. AlwaysInv' /\ LoopInv'
  BY <1>1, <1>2, <1>5, <1>6, LoopStep DEF TypeOK, In
<1>8. Reachable' = Reachable /\ In("gc")' = In("gc") /\ In("tmp")' = In("tmp")
  BY <1>2 DEF Reachable, Held, In
<1>9. RestoreInv'
  <2>1. Separate'
    BY <1>1, <1>2, <1>4, <1>8 DEF RestoreInv, Separate, In
  <2> QED
    BY <1>1, <1>2, <1>7, <1>8, <2>1 DEF RestoreInv
<1> QED
  BY <1>1, <1>2, <1>5, <1>7, <1>9 DEF IInv, PhaseInv

\* The first loop is over: what still counts is held by the program.
LEMMA DecrefEnds ==
  ASSUME IInv, NextLoop, pc = "decref"
  PROVE  IInv'
<1>1. AlwaysInv /\ RefCounts(left) /\ DecrefInv /\ LoopInv /\ TypeOK
  BY DEF IInv, PhaseInv, AlwaysInv, DecrefInv
<1>2. /\ left = {} /\ left' = In("gc") /\ pc' = "scan"
      /\ UNCHANGED <<place, handles, refs, weak, ref_count, weakref_count, mark, gc_phase>>
  BY DEF NextLoop
<1>3. AlwaysInv' /\ LoopInv'
  BY <1>1, <1>2 DEF AlwaysInv, TypeOK, PartsInv, GoneInv, HeldInv, Held, In, WeakCounts, LoopInv
<1>4. In("gc")' = In("gc") /\ Reachable' = Reachable
  BY <1>2 DEF In, Reachable, Held
<1>5. RefCounts(In("gc") \ left)'
  <2>1. (In("gc") \ left)' = left
    BY <1>2, <1>4
  <2> QED
    BY <1>1, <1>2, <2>1 DEF RefCounts
<1>6. In("gc") \subseteq Reachable
  <2> SUFFICES ASSUME NEW o \in In("gc")
               PROVE  o \in Reachable
    OBVIOUS
  <2>1. o \in Objects /\ ref_count[o] > 0
    BY <1>1, <1>2 DEF In, DecrefInv
  <2>2. ref_count[o] = handles[o] + N(refs, o, {})
    BY <1>1, <1>2, <2>1 DEF RefCounts
  <2>3. N(refs, o, {}) = 0 /\ handles[o] \in Nat
    BY <1>1, <2>1, NType DEF TypeOK
  <2>4. o \in Held
    BY <2>1, <2>2, <2>3 DEF Held
  <2> QED
    BY <1>1, <2>4, ReachableLeast
<1>7. ScanInv'
  <2>1. \A o \in Objects :
          /\ place[o] = "gc" => ref_count[o] > 0 /\ o \in In("gc")
          /\ place[o] = "tmp" => ref_count[o] = 0 /\ mark[o] = 1
    BY <1>1, <1>2 DEF DecrefInv, In
  <2> QED
    BY <1>2, <1>3, <1>4, <1>6, <2>1 DEF ScanInv
<1> QED
  BY <1>2, <1>3, <1>5, <1>7 DEF IInv, PhaseInv

\* The second loop is over: what was not brought back is not referred to by what
\* was.
LEMMA ScanEnds ==
  ASSUME IInv, NextLoop, pc = "scan"
  PROVE  IInv'
<1>1. AlwaysInv /\ RefCounts(In("gc") \ left) /\ ScanInv /\ LoopInv /\ TypeOK
  BY DEF IInv, PhaseInv, AlwaysInv, ScanInv
<1>2. /\ left = {} /\ left' = In("tmp") /\ pc' = "restore"
      /\ UNCHANGED <<place, handles, refs, weak, ref_count, weakref_count, mark, gc_phase>>
  BY DEF NextLoop
<1>3. AlwaysInv' /\ LoopInv'
  BY <1>1, <1>2 DEF AlwaysInv, TypeOK, PartsInv, GoneInv, HeldInv, Held, In, WeakCounts, LoopInv
<1>4. In("gc")' = In("gc") /\ In("tmp")' = In("tmp") /\ Reachable' = Reachable
  BY <1>2 DEF In, Reachable, Held
<1>5. RefCounts(In("gc") \cup (In("tmp") \ left))'
  <2>1. (In("gc") \cup (In("tmp") \ left))' = In("gc") \ left
    BY <1>2, <1>4
  <2> QED
    BY <1>1, <1>2, <2>1 DEF RefCounts
<1>6. Separate
  <2>1. ASSUME NEW q \in In("gc"), NEW o \in refs[q]
        PROVE  o \in In("gc")
    <3>1. o \in Objects /\ q \in In("gc") \ left /\ place[o] \in {"gc", "tmp"}
      BY <1>1, <1>2 DEF LoopInv, In
    <3>2. In("gc") \ left \in SUBSET Objects
      BY DEF In
    <3>3. ref_count[o] # 0
      BY <1>1, <3>1, <3>2, Uncounted
    <3> QED
      BY <1>1, <3>1, <3>3 DEF ScanInv, In
  <2>2. \A o \in In("gc") : ref_count[o] > 0 /\ mark[o] = 0
    BY <1>1, <1>2 DEF ScanInv, In
  <2> QED
    BY <1>1, <2>1, <2>2 DEF Separate, ScanInv
<1>7. RestoreInv'
  <2>1. Separate'
    BY <1>2, <1>4, <1>6 DEF Separate
  <2>2. \A o \in In("tmp") : mark[o] = 1
    BY <1>1 DEF ScanInv, In
  <2> QED
    BY <1>2, <1>3, <1>4, <2>1, <2>2 DEF RestoreInv
<1> QED
  BY <1>2, <1>3, <1>5, <1>7 DEF IInv, PhaseInv

\* The third loop is over: all counts are whole again.
LEMMA RestoreEnds ==
  ASSUME IInv, NextLoop, pc = "restore"
  PROVE  IInv'
<1> DEFINE S == In("gc") \cup (In("tmp") \ left)
<1>1. AlwaysInv /\ RefCounts(S) /\ RestoreInv /\ LoopInv /\ TypeOK
  BY DEF IInv, PhaseInv, AlwaysInv, RestoreInv
<1>2. /\ left = {} /\ left' = {} /\ pc' = "free" /\ gc_phase' = "remove_cycles"
      /\ UNCHANGED <<place, handles, refs, weak, ref_count, weakref_count, mark>>
  BY DEF NextLoop
<1>3. AlwaysInv'
  BY <1>1, <1>2 DEF AlwaysInv, TypeOK, PartsInv, GoneInv, HeldInv, Held, In, WeakCounts
<1>4. \A w : In(w)' = In(w)
  BY <1>2 DEF In
<1>5. Reachable' = Reachable
  BY <1>2 DEF Reachable, Held
<1>6. \A o \in Objects : o \notin S => refs[o] = {}
  <2>1. \A o \in Objects : o \notin S => place[o] \in {"kept", "free"}
    BY <1>1, <1>2 DEF LoopInv, In
  <2> QED
    BY <1>1, <2>1 DEF AlwaysInv, GoneInv
<1>7. S \in SUBSET Objects
  BY DEF In
<1>8. RefCounts(Objects)
  <2> SUFFICES ASSUME NEW o \in Objects
               PROVE  ref_count[o] = handles[o] + N(refs, o, Objects)
    BY DEF RefCounts
  <2>1. N(refs, o, Objects) = N(refs, o, S)
    BY <1>6, <1>7, NSame
  <2> QED
    BY <1>1, <2>1 DEF RefCounts
<1>9. FreeInv'
  <2>1. Separate'
    BY <1>1, <1>2, <1>4, <1>5 DEF Separate, RestoreInv
  <2>2. ASSUME NEW o \in Objects
        PROVE  /\ refs[o] \cap (In("free") \cup In("kept")) = {}
               /\ place[o] \in {"tmp", "zero"} => mark[o] = 1
               /\ place[o] # "zero"
               /\ place[o] \in {"tmp", "zero"} /\ o \in Parts => ref_count[o] > 0
    <3>1. refs[o] \cap (In("free") \cup In("kept")) = {} /\ place[o] # "zero"
      BY <1>1 DEF LoopInv, In
    <3>2. place[o] = "tmp" => mark[o] = 1
      BY <1>1 DEF RestoreInv, In
    <3>3. place[o] = "tmp" => handles[o] > 0 \/ \E q \in Objects : o \in refs[q]
      BY <1>1 DEF LoopInv
    <3>4. place[o] = "tmp" => ref_count[o] # 0
      BY <1>1, <1>8, <3>3, Uncounted
    <3>5. ref_count[o] \in Nat
      BY <1>1 DEF TypeOK
    <3> QED
      BY <3>1, <3>2, <3>4, <3>5
  <2> QED
    BY <1>2, <1>4, <2>1, <2>2 DEF FreeInv
<1>10. RefCounts(Objects)'
  BY <1>2, <1>8 DEF RefCounts
<1> QED
  BY <1>2, <1>3, <1>9, <1>10 DEF IInv, PhaseInv

\* Nothing that is reached is about to be freed, and what keeps a reference to an
\* object that is reached keeps it counted.
LEMMA ReachedCounts ==
  ASSUME TypeOK, HeldInv, RefCounts(Objects), Separate, NEW o \in In("gc")
  PROVE  \/ handles[o] > 0
         \/ \E q \in In("gc") : o \in refs[q]
<1>1. Reachable \subseteq In("gc")
  BY ReachableLives DEF Separate
<1>2. o \in Reachable
  BY DEF Separate
<1> QED
  BY <1>1, <1>2, ReachableSupported

\* A value of the garbage is freed: no living object loses a reference, so none is
\* touched.
LEMMA GcFreeCyclesStep ==
  ASSUME IInv, NEW p \in Objects, GcFreeCycles(p)
  PROVE  IInv' /\ In("gc")' = In("gc") /\ \A o \in In("gc") : (refs')[o] = refs[o]
<1> USE DEF AlwaysInv
<1>1. AlwaysInv /\ TypeOK /\ RefCounts(Objects) /\ FreeInv /\ Separate /\ pc = "free"
  BY DEF IInv, PhaseInv, GcFreeCycles, FreeInv
<1> DEFINE K == refs[p]
<1>2. /\ p \in Values /\ place[p] = "tmp" /\ mark[p] = 1
      /\ UNCHANGED <<handles, gc_phase, pc, left>>
  BY <1>1 DEF GcFreeCycles, FreeInv
<1>3. /\ handles' \in [Objects -> 0 .. MaxHandles]
      /\ refs' \in [Objects -> SUBSET Objects]
      /\ ref_count' \in [Objects -> Nat] /\ RefCounts(Objects)'
      /\ weak' \in [Objects -> Values \cup {None}]
      /\ weakref_count' \in [Objects -> Nat] /\ WeakCounts' /\ PartsInv'
      /\ p \notin Dying(K)
  BY <1>1, <1>2, GivingAll DEF GcFreeCycles
<1>4. \A o \in Objects :
        /\ o \in Dying(K) => o \in Parts \cap K /\ ref_count[o] = 1 /\ (ref_count')[o] = 0
        /\ ref_count[o] > 0 /\ o \in Parts /\ o \notin Dying(K) => (ref_count')[o] > 0
  <2>1. \A o \in Objects :
          /\ o \in Dropped(K) => o \in Values
          /\ o \in Dying(K) => o \in Parts \cap K /\ ref_count[o] = 1 /\ (ref_count')[o] = 0
          /\ ref_count[o] > 0 /\ o \notin Dropped(K) /\ o \notin Dying(K) => (ref_count')[o] > 0
    BY <1>1, <1>2, GivingAll DEF GcFreeCycles
  <2> QED
    BY <2>1, Sorts
<1>5. \A o \in Objects :
        /\ (refs')[o] = IF o \in Dying(K) \cup {p} THEN {} ELSE refs[o]
        /\ (weak')[o] = IF o = p THEN None ELSE weak[o]
        /\ weakref_count[o] = 0 => (weakref_count')[o] = 0
        /\ o # weak[p] => (weakref_count')[o] = weakref_count[o]
  BY <1>1, <1>2, GivingAll DEF GcFreeCycles
<1>6. \A o \in Objects :
        /\ (place')[o] =
             IF o = p THEN IF (ref_count')[p] = 0 /\ (weakref_count')[p] = 0 THEN "free" ELSE "zero"
             ELSE IF o \in Dying(K) THEN "free"
             ELSE IF o = weak[p] /\ (ref_count')[o] = 0 /\ (weakref_count')[o] = 0 /\ mark[o] = 0
             THEN "free" ELSE place[o]
        /\ (mark')[o] = IF (place')[o] = "free" THEN 0 ELSE mark[o]
  BY DEF GcFreeCycles, WeakFreed
<1> HIDE DEF K
<1>7. TypeOK'
  <2>1. /\ place' \in [Objects -> {"free", "gc", "tmp", "zero", "kept"}]
        /\ mark' \in [Objects -> {0, 1}]
    BY <1>1 DEF GcFreeCycles, TypeOK
  <2> QED
    BY <1>1, <1>2, <1>3, <2>1 DEF TypeOK
<1>8. \A o \in Objects : (ref_count')[o] = 0 =>
        (handles')[o] = 0 /\ \A q \in Objects : o \notin (refs')[q]
  BY <1>3, <1>7, UncountedNext
<1>9. \A o \in In("gc") : o # p /\ o \notin Dying(K)
  <2> SUFFICES ASSUME NEW o \in In("gc"), o \in Dying(K)
               PROVE  FALSE
    BY <1>2 DEF In
  <2>1. o \in Objects /\ o \in Parts /\ o \in K /\ (ref_count')[o] = 0
    BY <1>4 DEF In
  <2>2. PICK q \in In("gc") : o \in refs[q]
    BY <1>1, <2>1, ReachedCounts DEF PartsInv
  <2>3. o \in (refs')[q]
    <3>1. q # p /\ q \in Objects /\ q \notin Parts
      BY <1>1, <1>2, <2>1, <2>2, Sorts DEF PartsInv, In
    <3>2. q \notin Dying(K)
      BY <1>4, <3>1
    <3> QED
      BY <1>5, <2>2, <3>1, <3>2
  <2> QED
    BY <1>8, <2>1, <2>3 DEF In
<1>10. \A o \in In("gc") : (refs')[o] = refs[o]
  BY <1>5, <1>9 DEF In
<1>11. \A o \in In("gc") : (ref_count')[o] # 0
  <2> SUFFICES ASSUME NEW o \in In("gc"), (ref_count')[o] = 0
               PROVE  FALSE
    OBVIOUS
  <2>1. o \in Objects
    BY DEF In
  <2>2. (handles')[o] = 0 /\ \A q \in Objects : o \notin (refs')[q]
    BY <1>8, <2>1
  <2>3. handles[o] = 0
    BY <1>2, <2>2
  <2>4. PICK q \in In("gc") : o \in refs[q]
    BY <1>1, <2>3, ReachedCounts
  <2> QED
    BY <1>10, <2>2, <2>4 DEF In
<1>12. In("gc")' = In("gc")
  BY <1>6, <1>9, <1>11 DEF In
<1>13. HeldInv'
  BY <1>1, <1>2, <1>12 DEF HeldInv, Held
<1>14. \A o \in Objects :
         /\ place[o] \in {"kept", "free"} =>
              refs[o] = {} /\ weak[o] = None /\ mark[o] = 0 /\ (ref_count')[o] = 0
         /\ place[o] = "gc" => mark[o] = 0
         /\ place[o] \in {"tmp", "zero"} => mark[o] = 1
  <2>1. \A o \in Objects : place[o] \in {"kept", "free"} =>
             /\ refs[o] = {} /\ weak[o] = None /\ mark[o] = 0
             /\ handles[o] = 0 /\ \A q \in Objects : o \notin refs[q]
    BY <1>1 DEF GoneInv, FreeInv, In, HeldInv, Held, TypeOK
  <2>2. \A o \in Objects : place[o] \in {"kept", "free"} =>
             (handles')[o] = 0 /\ \A q \in Objects : o \notin (refs')[q]
    BY <1>2, <1>5, <2>1
  <2>3. \A o \in Objects : place[o] \in {"kept", "free"} => (ref_count')[o] = 0
    BY <1>3, <1>7, <2>2, UncountedNext
  <2> QED
    BY <1>1, <2>1, <2>3 DEF FreeInv, Separate, In
<1>15. \A o \in Objects :
         /\ o = p => (place')[o] \in {"free", "zero"}
         /\ o # p /\ o \in Dying(K) => (place')[o] = "free"
         /\ o # p /\ o \notin Dying(K) =>
              /\ place[o] \in {"kept", "free"} => (place')[o] \in {place[o], "free"}
              /\ place[o] \notin {"kept", "free"} => (place')[o] = place[o]
  <2>1. \A o \in Objects : place[o] \notin {"kept", "free"} => mark[o] = 1 \/ (ref_count')[o] # 0
    BY <1>1, <1>11, <1>14 DEF In, TypeOK
  <2> QED
    BY <1>6, <2>1
<1>16. GoneInv'
  <2> SUFFICES ASSUME NEW o \in Objects, (place')[o] \in {"free", "kept"}
               PROVE  /\ (refs')[o] = {} /\ (weak')[o] = None /\ (mark')[o] = 0
                      /\ (place')[o] = "free" => (weakref_count')[o] = 0
                      /\ (place')[o] = "kept" => o \in Values /\ (weakref_count')[o] > 0
    BY <1>7 DEF GoneInv, TypeOK
  <2>1. CASE o = p
    BY <1>5, <1>6, <1>15, <2>1
  <2>2. CASE o # p /\ o \in Dying(K)
    <3>1. o \in Parts /\ (place')[o] = "free"
      BY <1>4, <1>15, <2>2
    <3>2. weak[o] = None /\ weakref_count[o] = 0
      BY <1>1, <3>1, OnlyValues DEF PartsInv
    <3> QED
      BY <1>5, <1>6, <2>2, <3>1, <3>2
  <2>3. CASE o # p /\ o \notin Dying(K)
    <3>1. place[o] \in {"free", "kept"} /\ (place')[o] \in {place[o], "free"}
      BY <1>15, <2>3
    <3>2. /\ (refs')[o] = {} /\ (weak')[o] = None /\ (mark')[o] = 0
          /\ (ref_count')[o] = 0 /\ mark[o] = 0
      BY <1>5, <1>6, <1>14, <2>3, <3>1
    <3>3. /\ place[o] = "free" => weakref_count[o] = 0
          /\ place[o] = "kept" => o \in Values /\ weakref_count[o] > 0
      BY <1>1 DEF GoneInv
    <3>4. (place')[o] = "free" => (weakref_count')[o] = 0
      BY <1>5, <1>6, <2>3, <3>1, <3>3
    <3>5. (place')[o] = "kept" => o \in Values /\ (weakref_count')[o] > 0
      <4>1. (place')[o] = "kept" => (weakref_count')[o] # 0
        BY <1>5, <1>6, <2>3, <3>1, <3>2, <3>3
      <4>2. (weakref_count')[o] \in Nat
        BY <1>3
      <4> QED
        BY <3>1, <3>3, <4>1, <4>2
    <3> QED
      BY <3>2, <3>4, <3>5
  <2> QED
    BY <2>1, <2>2, <2>3
<1>17. Separate'
  <2>1. In("gc") \subseteq Reachable'
    <3>1. In("gc") \in SUBSET Objects /\ Held \subseteq In("gc") /\ In("gc") \subseteq Reachable
      BY <1>1 DEF In, HeldInv, Separate
    <3>2. \A q \in In("gc") : refs[q] \subseteq In("gc")
      BY <1>1 DEF Separate
    <3> QED
      BY <1>1, <1>2, <1>10, <3>1, <3>2, ReachableKept
  <2>2. \A o \in In("gc") : (ref_count')[o] > 0 /\ (mark')[o] = 0
    BY <1>3, <1>6, <1>11, <1>14 DEF In
  <2> QED
    BY <1>1, <1>10, <1>12, <2>1, <2>2 DEF Separate
<1>18. FreeInv'
  <2>1. left' = {}
    BY <1>1, <1>2 DEF FreeInv
  <2>2. ASSUME NEW q \in Objects, NEW o \in (refs')[q]
        PROVE  (place')[o] \notin {"free", "kept"}
    <3>1. o \in Objects /\ o \in refs[q] /\ (ref_count')[o] # 0
      BY <1>3, <1>5, <1>8
    <3>2. place[o] \notin {"free", "kept"}
      BY <1>1, <3>1 DEF FreeInv, In
    <3> QED
      BY <1>4, <1>6, <1>15, <3>1, <3>2
  <2>3. ASSUME NEW o \in Objects
        PROVE  /\ (place')[o] \in {"tmp", "zero"} => (mark')[o] = 1
               /\ (place')[o] = "zero" /\ o \in Values => (refs')[o] = {} /\ (weak')[o] = None
               /\ (place')[o] \in {"tmp", "zero"} /\ o \in Parts => (ref_count')[o] > 0
    <3>1. CASE o = p
      BY <1>2, <1>5, <1>6, <1>15, <3>1, Sorts
    <3>2. CASE o # p /\ (place')[o] \in {"tmp", "zero"}
      <4>1. o \notin Dying(K) /\ place[o] = (place')[o]
        BY <1>15, <3>2
      <4>2. /\ mark[o] = 1
            /\ place[o] = "zero" /\ o \in Values => refs[o] = {} /\ weak[o] = None
            /\ o \in Parts => ref_count[o] > 0
        BY <1>1, <3>2, <4>1 DEF FreeInv
      <4> QED
        BY <1>4, <1>5, <1>6, <3>2, <4>1, <4>2
    <3> QED
      BY <3>1, <3>2
  <2>4. \A q \in Objects : (refs')[q] \cap (In("free")' \cup In("kept")') = {}
    BY <2>2 DEF In
  <2> QED
    BY <1>17, <2>1, <2>3, <2>4 DEF FreeInv
<1>19. IInv'
  BY <1>1, <1>2, <1>3, <1>7, <1>13, <1>16, <1>18 DEF IInv, PhaseInv
<1> QED
  BY <1>10, <1>12, <1>19

\* A part of the garbage is set aside.
LEMMA GcSetAsideStep ==
  ASSUME IInv, NEW x \in Objects, GcSetAside(x)
  PROVE  IInv'
<1>1. AlwaysInv /\ TypeOK /\ RefCounts(Objects) /\ FreeInv /\ Separate /\ pc = "free"
  BY DEF IInv, PhaseInv, GcSetAside, FreeInv, AlwaysInv
<1>2. /\ x \in Parts /\ x \notin Values /\ place[x] = "tmp"
      /\ UNCHANGED <<handles, refs, weak, ref_count, weakref_count, mark, gc_phase, pc, left>>
      /\ place' = [place EXCEPT ![x] = "zero"]
      /\ \A o \in Objects : (place')[o] = IF o = x THEN "zero" ELSE place[o]
  BY <1>1, Sorts DEF GcSetAside, TypeOK
<1>3. In("gc")' = In("gc") /\ In("free")' = In("free") /\ In("kept")' = In("kept")
  BY <1>2 DEF In
<1>4. TypeOK' /\ PartsInv' /\ WeakCounts' /\ HeldInv'
  BY <1>1, <1>2, <1>3 DEF AlwaysInv, TypeOK, PartsInv, WeakCounts, HeldInv, Held
<1>5. GoneInv'
  BY <1>1, <1>2 DEF AlwaysInv, GoneInv
<1>6. Separate' /\ RefCounts(Objects)'
  BY <1>1, <1>2, <1>3 DEF Separate, Reachable, Held, RefCounts
<1>7. FreeInv'
  <2>1. \A o \in Objects :
          /\ refs[o] \cap (In("free") \cup In("kept")) = {}
          /\ (place')[o] \in {"tmp", "zero"} => mark[o] = 1
          /\ (place')[o] = "zero" /\ o \in Values => refs[o] = {} /\ weak[o] = None
          /\ (place')[o] \in {"tmp", "zero"} /\ o \in Parts => ref_count[o] > 0
    BY <1>1, <1>2 DEF FreeInv
  <2> QED
    BY <1>1, <1>2, <1>3, <1>6, <2>1 DEF FreeInv
<1> QED
  BY <1>1, <1>2, <1>4, <1>5, <1>6, <1>7 DEF IInv, PhaseInv, AlwaysInv

\* When no garbage is left to free, only structures of values are: a part would
\* have a value that gave it up.
LEMMA OnlyStructures ==
  ASSUME AlwaysInv, RefCounts(Objects), FreeInv, In("tmp") = {}
  PROVE  In("zero") \subseteq Values
<1> SUFFICES ASSUME NEW o \in In("zero"), o \notin Values
             PROVE  FALSE
  OBVIOUS
<1>1. o \in Parts /\ o \in Objects /\ place[o] = "zero"
  BY Sorts DEF In
<1>2. ref_count[o] # 0 /\ handles[o] = 0
  BY <1>1 DEF FreeInv, AlwaysInv, PartsInv, TypeOK
<1>3. PICK q \in Objects : o \in refs[q]
  BY <1>1, <1>2, Uncounted DEF AlwaysInv
<1>4. q \in Values
  BY <1>1, <1>3, Sorts DEF AlwaysInv, PartsInv
<1>5. place[q] \notin {"free", "kept"}
  BY <1>3 DEF AlwaysInv, GoneInv
<1>6. place[q] # "zero" /\ place[q] # "tmp"
  BY <1>3, <1>4 DEF FreeInv, In
<1>7. place[q] # "gc"
  BY <1>1, <1>3 DEF FreeInv, Separate, In
<1> QED
  BY <1>5, <1>6, <1>7 DEF AlwaysInv, TypeOK

\* The structures of the garbage go, and the runtime is at rest.
LEMMA GcSweepStep ==
  ASSUME IInv, GcSweep
  PROVE  IInv' /\ In("gc")' = In("gc") /\ refs' = refs
<1>1. /\ AlwaysInv /\ TypeOK /\ RefCounts(Objects) /\ FreeInv /\ Separate /\ pc = "free"
      /\ GoneInv /\ PartsInv /\ HeldInv
  BY DEF IInv, PhaseInv, GcSweep, FreeInv, AlwaysInv
<1>2. /\ In("tmp") = {} /\ pc' = "idle" /\ gc_phase' = "none"
      /\ UNCHANGED <<handles, refs, weak, ref_count, weakref_count, left>>
      /\ \A o \in Objects :
           /\ (place')[o] = IF place[o] # "zero" THEN place[o]
                            ELSE IF o \in Values /\ weakref_count[o] # 0 THEN "kept" ELSE "free"
           /\ (mark')[o] = IF place[o] = "zero" THEN 0 ELSE mark[o]
  BY DEF GcSweep
<1>3. In("zero") \subseteq Values
  BY <1>1, <1>2, OnlyStructures
<1>4. In("gc")' = In("gc")
  BY <1>2 DEF In
<1>5. TypeOK'
  <2>1. /\ place' \in [Objects -> {"free", "gc", "tmp", "zero", "kept"}]
        /\ mark' \in [Objects -> {0, 1}]
    BY <1>1 DEF GcSweep, TypeOK
  <2> QED
    BY <1>1, <1>2, <2>1 DEF TypeOK
<1>6. PartsInv' /\ WeakCounts' /\ HeldInv' /\ RefCounts(Objects)'
  BY <1>1, <1>2, <1>4 DEF AlwaysInv, PartsInv, WeakCounts, HeldInv, Held, RefCounts
<1>7. \A o \in Objects :
        /\ place[o] \in {"gc", "zero", "kept", "free"}
        /\ place[o] = "zero" => o \in Values /\ refs[o] = {} /\ weak[o] = None
        /\ weakref_count[o] \in Nat
  BY <1>1, <1>2, <1>3 DEF FreeInv, In, TypeOK
<1>8. GoneInv'
  <2> SUFFICES ASSUME NEW o \in Objects, (place')[o] \in {"free", "kept"}
               PROVE  /\ (refs')[o] = {} /\ (weak')[o] = None /\ (mark')[o] = 0
                      /\ (place')[o] = "free" => (weakref_count')[o] = 0
                      /\ (place')[o] = "kept" => o \in Values /\ (weakref_count')[o] > 0
    BY <1>5 DEF GoneInv, TypeOK
  <2>1. CASE place[o] = "zero"
    BY <1>2, <1>7, <2>1
  <2>2. CASE place[o] # "zero"
    BY <1>1, <1>2, <2>2 DEF GoneInv
  <2> QED
    BY <2>1, <2>2
<1>9. CascadeInv' /\ In("zero")' = {}
  <2>1. ASSUME NEW o \in Objects
        PROVE  /\ (place')[o] \in {"gc", "kept", "free"}
               /\ refs[o] \subseteq In("gc")
               /\ (place')[o] = "gc" => ref_count[o] > 0 /\ (mark')[o] = 0
    <3>1. (place')[o] \in {"gc", "kept", "free"}
      BY <1>2, <1>7
    <3>2. place[o] = "gc" => refs[o] \subseteq In("gc") /\ ref_count[o] > 0 /\ mark[o] = 0
      BY <1>1 DEF Separate, In
    <3>3. place[o] # "gc" => refs[o] = {}
      BY <1>1, <1>7 DEF GoneInv
    <3> QED
      BY <1>2, <3>1, <3>2, <3>3
  <2>2. left' = {}
    BY <1>1, <1>2 DEF FreeInv
  <2>3. In("zero")' = {}
    BY <2>1 DEF In
  <2> QED
    BY <1>2, <1>4, <2>1, <2>2, <2>3 DEF CascadeInv
<1>10. IInv'
  BY <1>2, <1>5, <1>6, <1>8, <1>9 DEF IInv, PhaseInv, AlwaysInv
<1> QED
  BY <1>2, <1>4, <1>10

\* Every step keeps the invariant.
LEMMA NextIInv ==
  ASSUME IInv, [Next]_vars
  PROVE  IInv'
<1>1. CASE Program
  <2>1. ASSUME NEW o \in Values, NEW t \in Values \cup {None}, NewValue(o, t)
        PROVE  IInv'
    BY <2>1, NewValueStep
  <2>2. ASSUME NEW a \in Values, NEW x \in Parts, NewPart(a, x)
        PROVE  IInv'
    BY <2>2, NewPartStep
  <2>3. ASSUME NEW a \in Objects, NEW b \in Objects, Get(a, b) \/ Put(a, b) \/ Delete(a, b)
        PROVE  IInv'
    BY <2>3, GetStep, PutStep, DeleteStep
  <2>4. ASSUME NEW a \in Values, NEW b \in Values, NEW x \in Parts, SetVariable(a, x, b)
        PROVE  IInv'
    BY <2>4, SetVariableStep
  <2>5. ASSUME NEW w \in Values, Deref(w)
        PROVE  IInv'
    BY <2>5, DerefStep
  <2>6. ASSUME NEW o \in Values, Release(o)
        PROVE  IInv'
    BY <2>6, ReleaseStep
  <2> QED
    BY <1>1, <2>1, <2>2, <2>3, <2>4, <2>5, <2>6 DEF Program
<1>2. CASE Engine
  <2>1. ASSUME NEW p \in Objects,
               \/ FreeZero(p) \/ GcDecref(p) \/ GcScan(p) \/ GcRestore(p)
               \/ GcFreeCycles(p) \/ GcSetAside(p)
        PROVE  IInv'
    BY <2>1, FreeZeroStep, GcDecrefStep, GcScanStep, GcRestoreStep, GcFreeCyclesStep,
       GcSetAsideStep
  <2>2. CASE NextLoop
    <3>1. pc \in {"decref", "scan", "restore"}
      BY <2>2 DEF NextLoop
    <3> QED
      BY <2>2, <3>1, DecrefEnds, ScanEnds, RestoreEnds
  <2>3. CASE GcSweep
    BY <2>3, GcSweepStep
  <2> QED
    BY <1>2, <2>1, <2>2, <2>3 DEF Engine
<1>3. ASSUME NEW r \in BOOLEAN, RunGC(r)
      PROVE  IInv'
  BY <1>3, RunGCStep
<1>4. CASE UNCHANGED vars
  BY <1>4 DEF vars, IInv, AlwaysInv, PhaseInv, TypeOK, PartsInv, GoneInv, HeldInv, Held, In,
     WeakCounts, RefCounts, CascadeInv, LoopInv, DecrefInv, ScanInv, RestoreInv, FreeInv,
     Separate, Reachable
<1> QED
  BY <1>1, <1>2, <1>3, <1>4 DEF Next

\* The invariant holds throughout.
THEOREM InvariantHolds == Spec => []IInv
<1>1. IInv /\ [Next]_vars => IInv'
  BY NextIInv
<1> QED
  BY InitIInv, <1>1, PTL DEF Spec

-----------------------------------------------------------------------------
(* What follows from the invariant *)

\* At rest, and during a cascade, what lives is what is counted and closed.
LEMMA CascadeCloses ==
  ASSUME AlwaysInv, CascadeInv
  PROVE  Reachable \subseteq In("gc")
<1>1. \A q \in In("gc") : refs[q] \subseteq In("gc")
  BY DEF CascadeInv, In
<1> QED
  BY <1>1, ReachableLives DEF AlwaysInv

\* The invariant says of every loop which references count.
LEMMA InvCountsExact == IInv => CountsExact
<1> SUFFICES ASSUME IInv
             PROVE  CountsExact
  OBVIOUS
<1>1. AlwaysInv /\ TypeOK
  BY DEF IInv, AlwaysInv
<1>2. \A o \in Objects : weakref_count[o] = Cardinality({w \in Objects : weak[w] = o})
  BY <1>1 DEF AlwaysInv, WeakCounts, W
<1>3. RefCounts(Counted)
  <2>1. CASE pc = "decref"
    <3>1. Counted = left
      BY <1>1, <2>1 DEF Counted, TypeOK
    <3> QED
      BY <2>1, <3>1 DEF IInv, PhaseInv
  <2>2. CASE pc = "scan"
    <3>1. Counted = In("gc") \ left
      BY <1>1, <2>2 DEF Counted, In
    <3> QED
      BY <2>2, <3>1 DEF IInv, PhaseInv
  <2>3. CASE pc = "restore"
    <3>1. Counted = In("gc") \cup (In("tmp") \ left)
      BY <1>1, <2>3 DEF Counted, In
    <3> QED
      BY <2>3, <3>1 DEF IInv, PhaseInv
  <2>4. CASE pc \in {"idle", "zero", "free"}
    <3>1. Counted = Objects
      BY <2>4 DEF Counted
    <3> QED
      BY <2>4, <3>1 DEF IInv, PhaseInv
  <2> QED
    BY <1>1, <2>1, <2>2, <2>3, <2>4 DEF TypeOK
<1>4. \A o \in Objects : ref_count[o] = handles[o] + Cardinality(Referrers(o, Counted))
  BY <1>3 DEF RefCounts, N, Referrers
<1>5. ASSUME pc = "idle", NEW o \in Objects
      PROVE  /\ mark[o] = 0
             /\ (ref_count[o] > 0) = (place[o] = "gc")
             /\ place[o] \in {"gc", "kept", "free"}
             /\ place[o] = "kept" => weakref_count[o] > 0
  <2>1. RefCounts(Objects) /\ CascadeInv /\ place[o] # "zero"
    BY <1>5 DEF IInv, PhaseInv, In
  <2>2. ref_count[o] # 0 <=> place[o] = "gc"
    BY <1>1, <2>1, CountedLives
  <2>3. ref_count[o] \in Nat
    BY <1>1 DEF TypeOK
  <2>4. (ref_count[o] > 0) = (place[o] = "gc")
    BY <2>2, <2>3
  <2> QED
    BY <1>1, <2>1, <2>4 DEF CascadeInv, AlwaysInv, GoneInv
<1> QED
  BY <1>1, <1>2, <1>4, <1>5 DEF CountsExact

\* What is freed or kept is not referred to in any loop.
LEMMA InvNoDangling == IInv => NoDangling
<1> SUFFICES ASSUME IInv, NEW o \in Objects
             PROVE  /\ handles[o] > 0 \/ (\E q \in Objects : o \in refs[q]) =>
                         place[o] \notin {"free", "kept"}
                    /\ (\E w \in Objects : weak[w] = o) => place[o] # "free"
                    /\ place[o] \in {"free", "kept"} => refs[o] = {} /\ weak[o] = None
  BY DEF NoDangling
<1>1. AlwaysInv /\ TypeOK
  BY DEF IInv, AlwaysInv
<1>2. handles[o] > 0 => place[o] = "gc"
  BY <1>1 DEF AlwaysInv, HeldInv, Held, In
<1>3. ASSUME NEW q \in Objects, o \in refs[q]
      PROVE  place[o] \notin {"free", "kept"}
  <2>1. CASE pc \in {"idle", "zero"}
    BY <1>3, <2>1 DEF IInv, PhaseInv, CascadeInv, In
  <2>2. CASE pc \in {"decref", "scan", "restore"}
    <3>1. LoopInv
      BY <2>2 DEF IInv, PhaseInv, DecrefInv, ScanInv, RestoreInv
    <3> QED
      BY <1>3, <3>1 DEF LoopInv, In
  <2>3. CASE pc = "free"
    <3>1. FreeInv
      BY <2>3 DEF IInv, PhaseInv
    <3> QED
      BY <1>3, <3>1 DEF FreeInv, In
  <2> QED
    BY <1>1, <2>1, <2>2, <2>3 DEF TypeOK
<1>4. ASSUME NEW w \in Objects, weak[w] = o
      PROVE  place[o] # "free"
  <2>1. weakref_count[o] # 0
    BY <1>1, <1>4, WType DEF AlwaysInv, WeakCounts
  <2> QED
    BY <1>1, <2>1 DEF AlwaysInv, GoneInv
<1>5. place[o] \in {"free", "kept"} => refs[o] = {} /\ weak[o] = None
  BY <1>1 DEF AlwaysInv, GoneInv
<1> QED
  BY <1>2, <1>3, <1>4, <1>5

\* In("gc") is closed and has what is held, so it has what can be reached; what is
\* separate can be reached.
LEMMA InvOnlyGarbageGoes == IInv => OnlyGarbageGoes
<1> SUFFICES ASSUME IInv
             PROVE  OnlyGarbageGoes
  OBVIOUS
<1>1. AlwaysInv /\ TypeOK /\ HeldInv
  BY DEF IInv, AlwaysInv
<1>2. pc \in {"idle", "zero"} => Reachable \subseteq In("gc")
  BY <1>1, CascadeCloses DEF IInv, PhaseInv
<1>3. pc \in {"restore", "free"} => Separate
  BY DEF IInv, PhaseInv, RestoreInv, FreeInv
<1>4. Separate => Reachable \subseteq In("gc") /\ In("gc") \subseteq Reachable
  BY <1>1, ReachableLives DEF Separate
<1> QED
  BY <1>2, <1>3, <1>4 DEF OnlyGarbageGoes

\* A reference that counts keeps a count above 0.
LEMMA InvAssertsHold == IInv => AssertsHold
<1> SUFFICES ASSUME IInv
             PROVE  AssertsHold
  OBVIOUS
<1>1. AlwaysInv /\ TypeOK
  BY DEF IInv, AlwaysInv
<1>2. ASSUME pc = "decref", NEW p \in left
      PROVE  mark[p] = 0 /\ \A o \in refs[p] : ref_count[o] > 0
  <2>1. RefCounts(left) /\ DecrefInv /\ left \in SUBSET Objects
    BY <1>1, <1>2 DEF IInv, PhaseInv, TypeOK
  <2>2. ASSUME NEW o \in refs[p]
        PROVE  ref_count[o] > 0
    <3>1. o \in Objects /\ ref_count[o] \in Nat
      BY <1>1, <1>2, <2>1 DEF TypeOK
    <3>2. ref_count[o] # 0
      BY <1>1, <1>2, <2>1, <3>1, Uncounted
    <3> QED
      BY <3>1, <3>2
  <2> QED
    BY <1>2, <2>1, <2>2 DEF DecrefInv
<1>3. pc = "scan" => \A p \in left : ref_count[p] > 0
  BY DEF IInv, PhaseInv, ScanInv, In
<1>4. pc = "zero" => \A p \in In("zero") : ref_count[p] = 0
  BY DEF IInv, PhaseInv, CascadeInv, In
<1>5. pc = "free" /\ In("tmp") = {} => In("zero") \subseteq Values
  BY <1>1, OnlyStructures DEF IInv, PhaseInv
<1> QED
  BY <1>2, <1>3, <1>4, <1>5 DEF AssertsHold

\* Reference counts and weak reference counts are exact, at rest and in every
\* step of a collection.
THEOREM QjsCountsExact == Spec => []CountsExact
BY InvariantHolds, InvCountsExact, PTL

\* No object refers to a freed one.
THEOREM QjsNoDangling == Spec => []NoDangling
BY InvariantHolds, InvNoDangling, PTL

\* The collector frees what the program cannot reach, all of it, and nothing
\* else.
THEOREM QjsOnlyGarbageGoes == Spec => []OnlyGarbageGoes
BY InvariantHolds, InvOnlyGarbageGoes, PTL

\* No assertion of the collector fails.
THEOREM QjsAssertsHold == Spec => []AssertsHold
BY InvariantHolds, InvAssertsHold, PTL

-----------------------------------------------------------------------------
(* The runtime implements the abstract heap *)

HeapRefs == [o \in Objects |-> IF o \in Live THEN refs[o] ELSE {}]

\* What lives, between two loops and in one.
LEMMA LiveIs ==
  /\ pc \in {"idle", "zero", "free"} => Live = In("gc")
  /\ pc' \in {"idle", "zero", "free"} => Live' = In("gc")'
  /\ pc \in {"decref", "scan", "restore"} => Live = In("gc") \cup In("tmp")
  /\ pc' \in {"decref", "scan", "restore"} => Live' = In("gc")' \cup In("tmp")'
BY DEF Live

\* Nothing changes for the abstract heap.
LEMMA HeapStutters ==
  ASSUME Live' = Live, Held' = Held, \A o \in Objects : o \in Live => (refs')[o] = refs[o]
  PROVE  UNCHANGED Heap!vars
<1>1. HeapRefs' = HeapRefs
  BY DEF HeapRefs
<1> QED
  BY <1>1 DEF Heap!vars, HeapRefs

\* Objects that nothing refers to go, and the rest refers to what r says.
LEMMA HeapBecomes ==
  ASSUME NEW r, Live' \subseteq Live, Live \subseteq Objects, Held' \subseteq Live',
         \A o \in Live' : (refs')[o] \subseteq Live' /\ (refs')[o] = r[o],
         \A o \in Objects : o \notin Live => r[o] = {}
  PROVE  Heap!Becomes(Held', r)
<1> DEFINE dead == Live \ Live'
<1>1. dead \in SUBSET Live /\ Live \ dead = Live' /\ Held' \cap dead = {}
  OBVIOUS
<1>2. \A o \in Live \ dead : r[o] \cap dead = {}
  BY <1>1
<1>3. HeapRefs' = [o \in Objects |-> IF o \in dead THEN {} ELSE r[o]]
  <2>1. \A o \in Objects : (IF o \in Live' THEN (refs')[o] ELSE {})
                         = (IF o \in dead THEN {} ELSE r[o])
    OBVIOUS
  <2> QED
    BY <2>1 DEF HeapRefs
<1> HIDE DEF dead
<1> QED
  BY <1>1, <1>2, <1>3 DEF Heap!Becomes, HeapRefs

\* Where the program runs or frees, what lives is closed.
LEMMA HeapClosed ==
  ASSUME IInv
  PROVE  /\ Live \subseteq Objects
         /\ pc \in {"idle", "zero", "free"} =>
              /\ Live = In("gc") /\ Held \subseteq Live
              /\ \A o \in Live : refs[o] \subseteq Live
         /\ pc = "idle" => \A o \in Objects :
              /\ HeapRefs[o] = refs[o]
              /\ refs[o] \subseteq Live
              /\ o \notin Live => refs[o] = {}
         /\ Held \subseteq Live
<1>1. AlwaysInv /\ TypeOK /\ HeldInv
  BY DEF IInv, AlwaysInv
<1>2. Live \subseteq Objects /\ In("gc") \subseteq Live
  BY DEF Live, In
<1>3. pc \in {"idle", "zero", "free"} => \A o \in In("gc") : refs[o] \subseteq In("gc")
  BY DEF IInv, PhaseInv, CascadeInv, FreeInv, Separate, In
<1>4. ASSUME pc = "idle", NEW o \in Objects
      PROVE  /\ HeapRefs[o] = refs[o]
             /\ refs[o] \subseteq Live
             /\ o \notin Live => refs[o] = {}
  <2>1. CascadeInv /\ In("zero") = {} /\ Live = In("gc")
    BY <1>4, LiveIs DEF IInv, PhaseInv
  <2>2. place[o] # "gc" => refs[o] = {}
    BY <1>1, <2>1, Emptied
  <2> QED
    BY <2>1, <2>2 DEF HeapRefs, CascadeInv, In
<1> QED
  BY <1>1, <1>2, <1>3, <1>4, LiveIs DEF HeldInv

\* The same after a step.
LEMMA HeapClosedNext ==
  ASSUME IInv'
  PROVE  pc' \in {"idle", "zero", "free"} =>
           /\ Live' = In("gc")' /\ Held' \subseteq Live'
           /\ \A o \in Live' : (refs')[o] \subseteq Live'
<1>1. pc' \in {"idle", "zero", "free"} => \A o \in In("gc")' : (refs')[o] \subseteq In("gc")'
  BY DEF IInv, PhaseInv, CascadeInv, FreeInv, Separate, In
<1> QED
  BY <1>1, LiveIs DEF IInv, AlwaysInv, HeldInv

\* An allocation is New.
LEMMA NewValueHeap ==
  ASSUME IInv, NEW o \in Values, NEW t \in Values \cup {None}, NewValue(o, t)
  PROVE  Heap!Next
<1>1. AlwaysInv /\ TypeOK /\ RefCounts(Objects) /\ CascadeInv /\ pc = "idle" /\ o \in Objects
  BY Sorts DEF IInv, AlwaysInv, PhaseInv, NewValue, Idle
<1>2. /\ place[o] = "free" /\ refs' = refs /\ pc' = "idle"
      /\ \A q \in Objects : /\ (place')[q] = IF q = o THEN "gc" ELSE place[q]
                            /\ (handles')[q] = IF q = o THEN 1 ELSE handles[q]
  BY <1>1 DEF NewValue, Allocate, TypeOK
<1>3. Live = In("gc") /\ Live' = In("gc")'
  BY <1>1, <1>2, LiveIs
<1>4. Live' = Live \cup {o} /\ o \notin Live
  BY <1>1, <1>2, <1>3 DEF In
<1>5. Held' = Held \cup {o}
  BY <1>1, <1>2 DEF Held
<1>6. refs[o] = {}
  BY <1>1, <1>2, FreePlaces
<1>7. HeapRefs' = HeapRefs
  BY <1>2, <1>4, <1>6 DEF HeapRefs
<1>8. Heap!New(o)
  BY <1>4, <1>5, <1>7 DEF Heap!New, HeapRefs
<1> QED
  BY <1>1, <1>8 DEF Heap!Next

\* A part comes with the reference to it.
LEMMA NewPartHeap ==
  ASSUME IInv, NEW a \in Values, NEW o \in Parts, NewPart(a, o)
  PROVE  Heap!Next
<1>1. /\ AlwaysInv /\ TypeOK /\ RefCounts(Objects) /\ CascadeInv /\ pc = "idle"
      /\ o \in Objects /\ a \in Objects
  BY Sorts DEF IInv, AlwaysInv, PhaseInv, NewPart, Idle
<1>2. /\ place[o] = "free" /\ a \in Held /\ pc' = "idle"
      /\ \A q \in Objects :
           /\ (place')[q] = IF q = o THEN "gc" ELSE place[q]
           /\ (handles')[q] = IF q = o THEN 0 ELSE handles[q]
           /\ (refs')[q] = IF q = a THEN refs[a] \cup {o} ELSE refs[q]
  BY <1>1 DEF NewPart, Allocate, TypeOK
<1>3. Live = In("gc") /\ Live' = In("gc")'
  BY <1>1, <1>2, LiveIs
<1>4. /\ Live' = Live \cup {o} /\ o \notin Live /\ a \in Live
      /\ refs[o] = {} /\ handles[o] = 0
  BY <1>1, <1>2, <1>3, FreePlaces DEF In, AlwaysInv, HeldInv
<1>5. Held' = Held
  BY <1>1, <1>2, <1>4 DEF Held
<1>6. HeapRefs' = [HeapRefs EXCEPT ![a] = @ \cup {o}]
  BY <1>1, <1>2, <1>4 DEF HeapRefs
<1>7. Heap!New(o)
  BY <1>2, <1>4, <1>5, <1>6 DEF Heap!New, HeapRefs
<1> QED
  BY <1>1, <1>7 DEF Heap!Next

\* Reading a property or a weak reference is Hold.
LEMMA HoldHeap ==
  ASSUME IInv, IInv', pc = "idle", NEW b \in Objects, place[b] = "gc",
         handles' = [handles EXCEPT ![b] = @ + 1],
         UNCHANGED <<place, refs, pc>>
  PROVE  Heap!Next
<1>1. handles \in [Objects -> 0 .. MaxHandles] /\ MaxHandles \in Nat
  BY BoundsAssumption DEF IInv, AlwaysInv, TypeOK
<1>2. Live = In("gc") /\ Live' = In("gc") /\ b \in Live
  BY LiveIs DEF In
<1>3. Held' = Held \cup {b}
  BY <1>1 DEF Held
<1>4. Held' \subseteq Live'
  BY <1>2, HeapClosedNext
<1>5. \A o \in Objects : /\ HeapRefs[o] = refs[o] /\ refs[o] \subseteq Live
                         /\ o \notin Live => refs[o] = {}
  BY HeapClosed
<1>6. Live \subseteq Objects
  BY HeapClosed
<1>7. \A o \in Live' : (refs')[o] \subseteq Live' /\ (refs')[o] = HeapRefs[o]
  BY <1>2, <1>5, <1>6
<1>8. \A o \in Objects : o \notin Live => HeapRefs[o] = {}
  BY <1>5
<1>9. Heap!Becomes(Held', HeapRefs)
  BY <1>2, <1>4, <1>6, <1>7, <1>8, HeapBecomes DEF Heap!Becomes
<1>10. Heap!Hold(b)
  BY <1>2, <1>3, <1>9 DEF Heap!Hold, HeapRefs
<1> QED
  BY <1>10 DEF Heap!Next

\* What the program's writes have in common: S becomes what a refers to.
LEMMA WriteHeap ==
  ASSUME IInv, IInv', pc = "idle", pc' \in {"idle", "zero"}, handles' = handles,
         NEW a \in Objects, place[a] = "gc", (place')[a] = "gc",
         NEW S \in SUBSET In("gc"), (refs')[a] = S,
         \A o \in Objects : (place')[o] = "gc" =>
           place[o] = "gc" /\ (o # a => (refs')[o] = refs[o])
  PROVE  Heap!Next
<1> DEFINE r == [HeapRefs EXCEPT ![a] = S]
<1>1. Live = In("gc") /\ Live' = In("gc")' /\ a \in Live /\ S \subseteq Live
  BY LiveIs DEF In
<1>2. Live' \subseteq Live /\ Live \subseteq Objects
  BY <1>1 DEF In
<1>3. /\ Held' \subseteq Live' /\ Held' = Held
      /\ \A o \in Live' : (refs')[o] \subseteq Live'
  BY HeapClosedNext DEF Held
<1>4. \A o \in Objects : /\ HeapRefs[o] = refs[o] /\ refs[o] \subseteq Live
                         /\ o \notin Live => refs[o] = {}
  BY HeapClosed
<1>5. \A o \in Objects : r[o] = IF o = a THEN S ELSE HeapRefs[o]
  BY DEF HeapRefs
<1> HIDE DEF r
<1>6. \A o \in Live' : (refs')[o] \subseteq Live' /\ (refs')[o] = r[o]
  <2> SUFFICES ASSUME NEW o \in Live'
               PROVE  (refs')[o] = r[o]
    BY <1>3
  <2>1. o \in Objects /\ (place')[o] = "gc"
    BY <1>1 DEF In
  <2> QED
    BY <1>4, <1>5, <2>1
<1>7. \A o \in Objects : o \notin Live => r[o] = {}
  BY <1>1, <1>4, <1>5
<1>8. Heap!Becomes(Held', r)
  BY <1>2, <1>3, <1>6, <1>7, HeapBecomes DEF Heap!Becomes
<1>9. Heap!Write(a, S)
  BY <1>1, <1>3, <1>8 DEF Heap!Write, HeapRefs, r
<1>10. S \in SUBSET Objects
  BY <1>1, <1>2
<1> QED
  BY <1>9, <1>10 DEF Heap!Next

\* What a step that only frees has in common with the others: Collect, or LetGo
\* when a handle goes.
LEMMA FreeHeap ==
  ASSUME IInv, IInv', pc' \in {"idle", "zero", "free"},
         Live' \subseteq Live,
         \A o \in Live' : (refs')[o] = refs[o],
         \/ Held' = Held
         \/ \E o \in Objects : Held' = Held \ {o}
  PROVE  Heap!Next
<1>1. Live \subseteq Objects
  BY HeapClosed
<1>2. Held' \subseteq Live' /\ \A o \in Live' : (refs')[o] \subseteq Live'
  BY HeapClosedNext
<1>3. \A o \in Objects : HeapRefs[o] = IF o \in Live THEN refs[o] ELSE {}
  BY DEF HeapRefs
<1>4. Heap!Becomes(Held', HeapRefs)
  BY <1>1, <1>2, <1>3, HeapBecomes DEF Heap!Becomes
<1>5. CASE Held' = Held
  <2>1. Heap!Collect
    BY <1>4, <1>5 DEF Heap!Collect, HeapRefs
  <2> QED
    BY <2>1 DEF Heap!Next
<1>6. ASSUME NEW o \in Objects, Held' = Held \ {o}
      PROVE  Heap!Next
  <2>1. Heap!LetGo(o)
    BY <1>4, <1>6 DEF Heap!LetGo, HeapRefs
  <2> QED
    BY <2>1 DEF Heap!Next
<1> QED
  BY <1>5, <1>6

\* Every step of the program is one of the abstract heap.
LEMMA ProgramHeap ==
  ASSUME IInv, IInv', Program
  PROVE  Heap!Next
<1>1. /\ AlwaysInv /\ TypeOK /\ RefCounts(Objects) /\ CascadeInv /\ In("zero") = {}
      /\ pc = "idle" /\ GoneInv /\ HeldInv
  BY DEF IInv, AlwaysInv, PhaseInv, Program, Idle, NewValue, NewPart, Get, Put, Delete,
     SetVariable, Deref, Release
<1>2. ASSUME NEW o \in Values, NEW t \in Values \cup {None}, NewValue(o, t)
      PROVE  Heap!Next
  BY <1>2, NewValueHeap
<1>3. ASSUME NEW a \in Values, NEW x \in Parts, NewPart(a, x)
      PROVE  Heap!Next
  BY <1>3, NewPartHeap
<1>4. ASSUME NEW a \in Objects, NEW b \in Objects, Get(a, b)
      PROVE  Heap!Next
  <2>1. \A q \in Objects : refs[q] \subseteq In("gc")
    BY <1>1 DEF CascadeInv
  <2>2. \A q \in {a} \cup (refs[a] \cap Parts) : q \in Objects
    BY Sorts
  <2>3. place[b] = "gc"
    BY <1>4, <2>1, <2>2 DEF Get, Reads, In
  <2> QED
    BY <1>1, <1>4, <2>3, HoldHeap DEF Get
<1>5. ASSUME NEW w \in Values, Deref(w)
      PROVE  Heap!Next
  <2> DEFINE b == weak[w]
  <2>1. /\ b \in Objects /\ ref_count[b] # 0 /\ handles' = [handles EXCEPT ![b] = @ + 1]
        /\ UNCHANGED <<place, refs, pc>>
    BY <1>1, <1>5, Sorts DEF Deref, TypeOK
  <2> HIDE DEF b
  <2>2. place[b] = "gc"
    BY <1>1, <2>1, CountedLives DEF In
  <2> QED
    BY <1>1, <2>1, <2>2, HoldHeap
<1>6. ASSUME NEW a \in Objects, NEW b \in Objects, Put(a, b)
      PROVE  Heap!Next
  <2>1. Held \subseteq In("gc") /\ \A q \in Objects : refs[q] \subseteq In("gc")
    BY <1>1 DEF CascadeInv, HeldInv
  <2>2. a \in Held /\ (b \in Held \/ \E q \in Held : b \in refs[q])
    BY <1>6 DEF Put
  <2>3. place[a] = "gc" /\ refs[a] \cup {b} \in SUBSET In("gc")
    BY <2>1, <2>2 DEF In, Held
  <2>4. /\ \A q \in Objects : (refs')[q] = IF q = a THEN refs[a] \cup {b} ELSE refs[q]
        /\ place' = place /\ handles' = handles /\ pc' = pc
    BY <1>1, <1>6 DEF Put, TypeOK
  <2> QED
    BY <1>1, <2>3, <2>4, WriteHeap
<1>7. ASSUME NEW a \in Objects, NEW b \in Objects, Delete(a, b)
      PROVE  Heap!Next
  <2> DEFINE K == {b}
  <2>1. a \in Held /\ b \in refs[a] /\ handles' = handles /\ FreeValues(K)
    BY <1>7 DEF Delete
  <2>2. a \in Values /\ place[a] = "gc" /\ refs[a] \subseteq In("gc") /\ K \in SUBSET Objects
    BY <1>1, <2>1, HeldValues
  <2>3. a \notin Dying(K)
    BY <1>1, <2>2, DyingParts, Sorts
  <2>4. /\ pc' \in {"idle", "zero"}
        /\ \A o \in Objects :
             /\ (place')[o] = IF o \in Dropped(K) THEN "zero"
                              ELSE IF o \in Dying(K) THEN "free" ELSE place[o]
             /\ (refs')[o] = IF o \in Dying(K) THEN {}
                             ELSE IF o = a THEN refs[a] \ {b} ELSE refs[o]
    BY <1>7, <2>1 DEF FreeValues, Delete
  <2>5. (place')[a] = "gc"
    BY <2>1, <2>4, HeapClosedNext DEF Held, In
  <2>6. \A o \in Objects : (place')[o] = "gc" =>
          place[o] = "gc" /\ (o # a => (refs')[o] = refs[o])
    BY <2>4
  <2>7. (refs')[a] = refs[a] \ {b} /\ refs[a] \ {b} \in SUBSET In("gc")
    BY <2>2, <2>3, <2>4
  <2> QED
    BY <1>1, <2>1, <2>2, <2>4, <2>5, <2>6, <2>7, WriteHeap
<1>8. ASSUME NEW a \in Values, NEW b \in Values, NEW x \in Parts, SetVariable(a, x, b)
      PROVE  Heap!Next
  <2> DEFINE K == refs[x]
  <2>1. /\ x \in refs[a] /\ a \in Held /\ b \in Held /\ handles' = handles /\ FreeValues(K)
        /\ refs' = [refs EXCEPT ![x] = {b}]
    BY <1>8 DEF SetVariable
  <2>2. x \in Objects /\ place[x] = "gc" /\ place[b] = "gc" /\ b \in Objects
    BY <1>1, <2>1, HeldValues DEF In
  <2>3. Dying(K) = {}
    <3>1. K \in SUBSET Objects /\ K \subseteq Values
      BY <1>1, <2>2 DEF TypeOK, AlwaysInv, PartsInv
    <3> QED
      BY <1>1, <3>1, DyingParts, Sorts
  <2>4. /\ pc' \in {"idle", "zero"}
        /\ \A o \in Objects :
             /\ (place')[o] = IF o \in Dropped(K) THEN "zero"
                              ELSE IF o \in Dying(K) THEN "free" ELSE place[o]
             /\ (refs')[o] = IF o = x THEN {b} ELSE refs[o]
    BY <1>1, <2>1 DEF FreeValues, TypeOK
  <2> HIDE DEF K
  <2>5. (place')[x] = "gc"
    <3>1. x \notin Dropped(K)
      BY Sorts DEF Dropped
    <3> QED
      BY <2>2, <2>3, <2>4, <3>1
  <2>6. \A o \in Objects : (place')[o] = "gc" =>
          place[o] = "gc" /\ (o # x => (refs')[o] = refs[o])
    BY <2>4
  <2>7. (refs')[x] = {b} /\ {b} \in SUBSET In("gc")
    BY <2>2, <2>4 DEF In
  <2> QED
    BY <1>1, <2>1, <2>2, <2>4, <2>5, <2>6, <2>7, WriteHeap
<1>9. ASSUME NEW o \in Values, Release(o)
      PROVE  Heap!Next
  <2> DEFINE K == {o}
  <2>1. /\ o \in Held /\ refs' = refs /\ FreeValues(K) /\ o \in Objects
        /\ \A q \in Objects : (handles')[q] = IF q = o THEN handles[q] - 1 ELSE handles[q]
    BY <1>1, <1>9, Sorts DEF Release, TypeOK
  <2>2. /\ pc' \in {"idle", "zero"}
        /\ \A q \in Objects :
             (place')[q] = IF q \in Dropped(K) THEN "zero"
                           ELSE IF q \in Dying(K) THEN "free" ELSE place[q]
    BY <2>1 DEF FreeValues
  <2>3. Live' \subseteq Live
    BY <1>1, <2>2, LiveIs DEF In
  <2>4. Held' = Held \/ Held' = Held \ {o}
    <3>1. handles[o] \in Nat /\ handles[o] > 0
      BY <1>1, <2>1 DEF TypeOK, Held
    <3>2. CASE handles[o] = 1
      <4>1. Held' = Held \ {o}
        BY <2>1, <3>2 DEF Held
      <4> QED
        BY <4>1
    <3>3. CASE handles[o] # 1
      <4>1. Held' = Held
        BY <2>1, <3>1, <3>3 DEF Held
      <4> QED
        BY <4>1
    <3> QED
      BY <3>2, <3>3
  <2> QED
    BY <2>1, <2>2, <2>3, <2>4, FreeHeap
<1> QED
  BY <1>2, <1>3, <1>4, <1>5, <1>6, <1>7, <1>8, <1>9 DEF Program

\* Every step of the engine is Collect, or nothing: a cascade frees what nothing refers
\* to, and the garbage goes at once when it is known.
LEMMA EngineHeap ==
  ASSUME IInv, IInv', Engine
  PROVE  Heap!Next \/ UNCHANGED Heap!vars
<1>1. AlwaysInv /\ TypeOK
  BY DEF IInv, AlwaysInv
<1>2. ASSUME NEW p \in Objects, FreeZero(p)
      PROVE  Heap!Next
  <2> DEFINE K == refs[p]
  <2>1. CascadeInv /\ pc = "zero"
    BY <1>2 DEF IInv, PhaseInv, FreeZero
  <2>2. /\ place[p] = "zero" /\ handles' = handles /\ pc' \in {"idle", "zero"}
        /\ \A o \in Objects :
             /\ (place')[o] = "gc" => o # p /\ o \notin Dying(K) /\ place[o] = "gc"
             /\ (refs')[o] = IF o \in Dying(K) \cup {p} THEN {} ELSE refs[o]
    BY <1>2 DEF FreeZero
  <2> HIDE DEF K
  <2>3. Live = In("gc") /\ Live' = In("gc")' /\ Held' = Held
    BY <2>1, <2>2, LiveIs DEF Held
  <2>4. Live' \subseteq Live /\ \A o \in Live' : (refs')[o] = refs[o]
    BY <2>2, <2>3 DEF In
  <2> QED
    BY <2>2, <2>3, <2>4, FreeHeap
<1>3. ASSUME NEW p \in Objects, GcDecref(p)
      PROVE  UNCHANGED Heap!vars
  <2>1. pc = "decref" /\ pc' = "decref" /\ DecrefInv /\ LoopInv /\ p \in In("gc") /\ TypeOK
    BY <1>1, <1>3 DEF IInv, PhaseInv, GcDecref, DecrefInv
  <2>2. /\ handles' = handles /\ refs' = refs
        /\ \A o \in Objects : (place')[o] = place[o]
                              \/ ((o = p \/ o \in refs[p]) /\ (place')[o] = "tmp")
    BY <1>3 DEF GcDecref
  <2>3. \A o \in Objects : o = p \/ o \in refs[p] => place[o] \in {"gc", "tmp"}
    BY <2>1 DEF LoopInv, In
  <2>4. Live' = Live
    BY <2>1, <2>2, <2>3, LiveIs DEF In
  <2> QED
    BY <2>2, <2>4, HeapStutters DEF Held
<1>4. ASSUME NEW p \in Objects, GcScan(p)
      PROVE  UNCHANGED Heap!vars
  <2>1. pc = "scan" /\ pc' = "scan" /\ ScanInv /\ LoopInv /\ p \in Objects
    BY <1>4 DEF IInv, PhaseInv, GcScan, ScanInv
  <2>2. /\ handles' = handles /\ refs' = refs
        /\ \A o \in Objects : (place')[o] = place[o] \/ (o \in refs[p] /\ (place')[o] = "gc")
    BY <1>4 DEF GcScan
  <2>3. \A o \in Objects : o \in refs[p] => place[o] \in {"gc", "tmp"}
    BY <2>1 DEF LoopInv, In
  <2>4. Live' = Live
    BY <2>1, <2>2, <2>3, LiveIs DEF In
  <2> QED
    BY <2>2, <2>4, HeapStutters DEF Held
<1>5. ASSUME NEW p \in Objects, GcRestore(p)
      PROVE  UNCHANGED Heap!vars
  <2>1. /\ pc = "restore" /\ pc' = "restore"
        /\ UNCHANGED <<place, handles, refs>>
    BY <1>5 DEF GcRestore
  <2>2. Live' = Live
    BY <2>1 DEF Live, In
  <2> QED
    BY <2>1, <2>2, HeapStutters DEF Held
<1>6. ASSUME NEW p \in Objects, GcFreeCycles(p)
      PROVE  UNCHANGED Heap!vars
  <2>1. In("gc")' = In("gc") /\ \A o \in In("gc") : (refs')[o] = refs[o]
    BY <1>6, GcFreeCyclesStep
  <2>2. pc = "free" /\ pc' = "free" /\ handles' = handles
    BY <1>6 DEF GcFreeCycles
  <2>3. Live = In("gc") /\ Live' = In("gc")'
    BY <2>2, LiveIs
  <2> QED
    BY <2>1, <2>2, <2>3, HeapStutters DEF Held
<1>7. ASSUME NEW x \in Objects, GcSetAside(x)
      PROVE  UNCHANGED Heap!vars
  <2>1. /\ pc = "free" /\ pc' = "free" /\ handles' = handles /\ refs' = refs
        /\ place[x] = "tmp" /\ \A o \in Objects : (place')[o] = IF o = x THEN "zero" ELSE place[o]
    BY <1>1, <1>7 DEF GcSetAside, TypeOK
  <2>2. Live' = Live
    BY <2>1, LiveIs DEF In
  <2> QED
    BY <2>1, <2>2, HeapStutters DEF Held
<1>8. CASE NextLoop
  <2>1. UNCHANGED <<place, handles, refs>>
    BY <1>8 DEF NextLoop
  <2>2. CASE pc \in {"decref", "scan"}
    <3>1. pc' \in {"scan", "restore"}
      BY <1>8, <2>2 DEF NextLoop
    <3>2. Live' = Live
      BY <2>1, <2>2, <3>1, LiveIs DEF In
    <3> QED
      BY <2>1, <3>2, HeapStutters DEF Held
  <2>3. CASE pc = "restore"
    <3>1. pc' = "free"
      BY <1>8, <2>3 DEF NextLoop
    <3>2. Live' \subseteq Live
      BY <2>1, <2>3, <3>1, LiveIs DEF In
    <3>3. Held' = Held
      BY <2>1 DEF Held
    <3> QED
      BY <2>1, <3>1, <3>2, <3>3, FreeHeap
  <2> QED
    BY <1>8, <2>2, <2>3 DEF NextLoop
<1>9. CASE GcSweep
  <2>1. In("gc")' = In("gc") /\ refs' = refs
    BY <1>9, GcSweepStep
  <2>2. pc = "free" /\ pc' = "idle" /\ handles' = handles
    BY <1>9 DEF GcSweep
  <2>3. Live = In("gc") /\ Live' = In("gc")'
    BY <2>2, LiveIs
  <2> QED
    BY <2>1, <2>2, <2>3, HeapStutters DEF Held
<1> QED
  BY <1>2, <1>3, <1>4, <1>5, <1>6, <1>7, <1>8, <1>9 DEF Engine

\* Every step is a step of the abstract heap, or changes nothing for it.
LEMMA HeapNext ==
  ASSUME IInv, IInv', [Next]_vars
  PROVE  [Heap!Next]_(Heap!vars)
<1>1. CASE Program
  BY <1>1, ProgramHeap
<1>2. CASE Engine
  BY <1>2, EngineHeap
<1>3. ASSUME NEW r \in BOOLEAN, RunGC(r)
      PROVE  UNCHANGED Heap!vars
  <2>1. In("gc")' = In("gc") /\ In("tmp")' = {}
    BY <1>3, RunGCStep
  <2>2. pc = "idle" /\ pc' = "decref" /\ handles' = handles /\ refs' = refs
    BY <1>3 DEF RunGC, Idle
  <2>3. Live' = Live
    BY <2>1, <2>2, LiveIs
  <2> QED
    BY <2>2, <2>3, HeapStutters DEF Held
<1>4. CASE UNCHANGED vars
  <2>1. UNCHANGED <<place, handles, refs, pc>>
    BY <1>4 DEF vars
  <2>2. Live' = Live
    BY <2>1 DEF Live, In
  <2> QED
    BY <2>1, <2>2, HeapStutters DEF Held
<1> QED
  BY <1>1, <1>2, <1>3, <1>4 DEF Next

\* To the code that runs on it the runtime is a heap in which objects disappear
\* only when nothing that lives, and no handle, refers to them.
THEOREM RuntimeImplementsHeap == Spec => ImplementsHeap
<1>1. Init => Heap!Init
  <2> SUFFICES ASSUME Init
               PROVE  Heap!Init
    OBVIOUS
  <2>1. Live = {} /\ Held = {}
    BY DEF Init, Live, In, Held
  <2> QED
    BY <2>1 DEF Heap!Init
<1>2. IInv /\ IInv' /\ [Next]_vars => [Heap!Next]_(Heap!vars)
  BY HeapNext
<1> QED
  BY <1>1, <1>2, InvariantHolds, PTL DEF Spec, ImplementsHeap, Heap!Spec

=============================================================================
