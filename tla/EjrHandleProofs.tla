--------------------------- MODULE EjrHandleProofs ---------------------------
(***************************************************************************)
(* Proofs about EjrHandle, for every set of cells, every bound and every    *)
(* host that keeps both rules of AllRules.                                  *)
(***************************************************************************)
EXTENDS EjrHandle, TLAPS, FiniteSetTheorems

CarefulHost == AllRules \subseteq HostRules

-----------------------------------------------------------------------------
(* Counting references *)

\* Ref counts one holder of a value: 1 if it holds o, else 0.
LEMMA RefType ==
  ASSUME NEW v, NEW o
  PROVE  /\ Ref(v, o) \in Nat
         /\ v # o => Ref(v, o) = 0
         /\ v = o => Ref(v, o) = 1
BY DEF Ref

\* A count over finitely many holders is a natural number, and one holder more
\* makes it positive.
LEMMA CountType ==
  ASSUME NEW f, IsFiniteSet(DOMAIN f), NEW o
  PROVE  /\ Count(f, o) \in Nat
         /\ \A x \in DOMAIN f : f[x] = o => Count(f, o) > 0
<1> DEFINE H == {x \in DOMAIN f : f[x] = o}
<1>1. IsFiniteSet(H)
  BY FS_Subset
<1>2. Cardinality(H) \in Nat
  BY <1>1, FS_CardinalityType
<1>3. ASSUME NEW x \in DOMAIN f, f[x] = o
      PROVE  Cardinality(H) > 0
  BY <1>1, <1>2, <1>3, FS_EmptySet
<1> QED
  BY <1>2, <1>3 DEF Count

\* Holders that all hold another value do not count.
LEMMA CountNone ==
  ASSUME NEW f, NEW o, \A x \in DOMAIN f : f[x] # o
  PROVE  Count(f, o) = 0
<1>1. {x \in DOMAIN f : f[x] = o} = {}
  OBVIOUS
<1> QED
  BY <1>1, FS_EmptySet DEF Count

\* When one holder's value changes, the count loses the old value and gains
\* the new one.
LEMMA CountUpdate ==
  ASSUME NEW f, IsFiniteSet(DOMAIN f), NEW i \in DOMAIN f, NEW o,
         NEW g, DOMAIN g = DOMAIN f, \A x \in DOMAIN f : x # i => g[x] = f[x]
  PROVE  Count(g, o) = Count(f, o) - Ref(f[i], o) + Ref(g[i], o)
<1> DEFINE F == {x \in DOMAIN f : f[x] = o}
           G == {x \in DOMAIN g : g[x] = o}
           R == F \ {i}
<1>1. /\ IsFiniteSet(F) /\ IsFiniteSet(R)
      /\ Cardinality(F) \in Nat /\ Cardinality(R) \in Nat
  BY FS_Subset, FS_CardinalityType
<1>2. Cardinality(F) = Cardinality(R) + Ref(f[i], o)
  <2>1. CASE f[i] = o
    <3>1. Cardinality(R) = Cardinality(F) - 1
      BY <1>1, <2>1, FS_RemoveElement
    <3> QED
      BY <1>1, <2>1, <3>1, RefType
  <2>2. CASE f[i] # o
    BY <1>1, <2>2, R = F, RefType
  <2> QED
    BY <2>1, <2>2
<1>3. Cardinality(G) = Cardinality(R) + Ref(g[i], o)
  <2>1. CASE g[i] = o
    <3>1. G = R \cup {i} /\ i \notin R
      BY <2>1
    <3>2. Cardinality(R \cup {i}) = Cardinality(R) + 1
      BY <1>1, <3>1, FS_AddElement
    <3> QED
      BY <1>1, <2>1, <3>1, <3>2, RefType
  <2>2. CASE g[i] # o
    <3>1. G = R
      BY <2>2
    <3> QED
      BY <1>1, <2>2, <3>1, RefType
  <2> QED
    BY <2>1, <2>2
<1>4. Ref(f[i], o) \in Nat /\ Ref(g[i], o) \in Nat
  BY RefType
<1> QED
  BY <1>1, <1>2, <1>3, <1>4 DEF Count

-----------------------------------------------------------------------------
(* Holders *)

\* The table and the stack are finite, so CountType and CountUpdate apply.
LEMMA Finite ==
  ASSUME TypeOK
  PROVE  /\ IsFiniteSet(Ids) /\ IsFiniteSet(Levels)
         /\ DOMAIN id_to_value = Ids /\ DOMAIN OwnedBy = Levels /\ DOMAIN ArgOf = Levels
         /\ MaxIds \in Nat /\ MaxDepth \in Nat
         /\ depth \in 0 .. MaxDepth /\ next_id \in 0 .. MaxIds
<1>1. MaxIds - 1 \in Int /\ MaxDepth \in Int /\ 0 \in Int /\ 1 \in Int
  BY BoundsAssumption
<1>2. IsFiniteSet(Ids) /\ IsFiniteSet(Levels)
  BY <1>1, FS_Interval DEF Ids, Levels
<1> QED
  BY <1>2, BoundsAssumption DEF TypeOK, OwnedBy, ArgOf

\* The terms of RefsAccounted are numbers.
LEMMA AccountTypes ==
  ASSUME TypeOK, NEW o \in Objects
  PROVE  /\ ref_count[o] \in Int /\ held[o] \in Nat
         /\ Count(id_to_value, o) \in Nat
         /\ Count(OwnedBy, o) \in Nat /\ Count(ArgOf, o) \in Nat
<1>1. ref_count[o] \in Int /\ held[o] \in Nat
  BY DEF TypeOK
<1>2. Count(id_to_value, o) \in Nat
  BY Finite, CountType
<1>3. Count(OwnedBy, o) \in Nat /\ Count(ArgOf, o) \in Nat
  BY Finite, CountType
<1> QED
  BY <1>1, <1>2, <1>3

\* Cells differ from every value that is not one.
LEMMA NotObjects ==
  /\ Undefined \notin Objects /\ Exception \notin Objects /\ Plain \notin Objects
  /\ Uninitialized \notin Objects /\ Absent \notin Objects
BY ObjectsAssumption

LEMMA AbsentIsNoValue == Absent \notin Values
BY NotObjects DEF Values, Undefined, Exception, Plain, Uninitialized, Absent

\* The idle frame is a frame, and owns nothing.
LEMMA IdleFrame == Idle \in Frames
BY DEF Idle, Frames, Ops, Values

\* Replacing one frame changes what the frames own in that frame alone.
LEMMA FrameUpdate ==
  ASSUME TypeOK, NEW k \in Levels, NEW fr \in Frames,
         calls' = [calls EXCEPT ![k] = fr], NEW o
  PROVE  /\ Count(OwnedBy', o) = Count(OwnedBy, o) - Ref(calls[k].own, o) + Ref(fr.own, o)
         /\ Count(ArgOf', o) = Count(ArgOf, o) - Ref(calls[k].arg, o) + Ref(fr.arg, o)
         /\ calls' \in [Levels -> Frames]
<1> DEFINE g == [OwnedBy EXCEPT ![k] = fr.own]
           h == [ArgOf EXCEPT ![k] = fr.arg]
<1>1. /\ IsFiniteSet(DOMAIN OwnedBy) /\ k \in DOMAIN OwnedBy /\ OwnedBy[k] = calls[k].own
      /\ IsFiniteSet(DOMAIN ArgOf) /\ k \in DOMAIN ArgOf /\ ArgOf[k] = calls[k].arg
  BY Finite DEF OwnedBy, ArgOf
<1>2. /\ DOMAIN g = DOMAIN OwnedBy /\ g[k] = fr.own
      /\ \A x \in DOMAIN OwnedBy : x # k => g[x] = OwnedBy[x]
      /\ DOMAIN h = DOMAIN ArgOf /\ h[k] = fr.arg
      /\ \A x \in DOMAIN ArgOf : x # k => h[x] = ArgOf[x]
  BY <1>1
<1>3. OwnedBy' = g /\ ArgOf' = h
  BY DEF OwnedBy, ArgOf, TypeOK
<1> HIDE DEF g, h
<1>4. Count(g, o) = Count(OwnedBy, o) - Ref(OwnedBy[k], o) + Ref(g[k], o)
  BY <1>1, <1>2, CountUpdate
<1>5. Count(h, o) = Count(ArgOf, o) - Ref(ArgOf[k], o) + Ref(h[k], o)
  BY <1>1, <1>2, CountUpdate
<1>6. calls' \in [Levels -> Frames]
  BY DEF TypeOK
<1> QED
  BY <1>1, <1>2, <1>3, <1>4, <1>5, <1>6

\* Writing one entry changes what the table holds in that entry alone.
LEMMA EntryUpdate ==
  ASSUME TypeOK, NEW i \in Ids, NEW v \in Values \cup {Absent},
         id_to_value' = [id_to_value EXCEPT ![i] = v], NEW o
  PROVE  /\ Count(id_to_value', o) = Count(id_to_value, o) - Ref(id_to_value[i], o) + Ref(v, o)
         /\ id_to_value' \in [Ids -> Values \cup {Absent}]
<1> DEFINE g == [id_to_value EXCEPT ![i] = v]
<1>1. IsFiniteSet(DOMAIN id_to_value) /\ i \in DOMAIN id_to_value
  BY Finite
<1>2. /\ DOMAIN g = DOMAIN id_to_value /\ g[i] = v
      /\ \A x \in DOMAIN id_to_value : x # i => g[x] = id_to_value[x]
  BY <1>1
<1>3. id_to_value' = g
  OBVIOUS
<1> HIDE DEF g
<1>4. Count(g, o) = Count(id_to_value, o) - Ref(id_to_value[i], o) + Ref(g[i], o)
  BY <1>1, <1>2, CountUpdate
<1>5. id_to_value' \in [Ids -> Values \cup {Absent}]
  BY DEF TypeOK
<1> QED
  BY <1>2, <1>3, <1>4, <1>5

-----------------------------------------------------------------------------
(* Entering and leaving calls *)

\* A call begins: it may take the pending exception over, and it borrows only
\* what the table holds under its id.
LEMMA InvEnter ==
  ASSUME IInv, CanEnter,
         NEW op \in Ops, NEW id \in Ids \cup {NoId}, NEW obj \in Values, NEW own \in Values,
         Enter(op, id, obj, own),
         UNCHANGED <<phase, ref_count, held, id_to_value, next_id>>,
         current_exception' \in Values,
         \A o \in Objects : Ref(own, o) + Ref(current_exception', o) = Ref(current_exception, o),
         obj \in Objects => /\ id \in Ids /\ id_to_value[id] = obj
                           /\ op # "from_jsvalue",
         own \in Objects => op \in {"to_string", "from_jsvalue"}
  PROVE  IInv'
<1> DEFINE fr == [op |-> op, id |-> id, obj |-> obj, own |-> own, arg |-> Plain]
<1>1. /\ depth + 1 \in Levels /\ depth \in Nat /\ depth + 1 \in 0 .. MaxDepth
      /\ next_id + depth < MaxIds /\ next_id \in Nat
      /\ calls' = [calls EXCEPT ![depth + 1] = fr] /\ depth' = depth + 1
      /\ phase = "open"
  BY Finite DEF IInv, CanEnter, HostRuns, Running, Enter, Levels
<1>2. fr \in Frames
  BY DEF Frames, Values
<1>3. calls[depth + 1] = Idle
  BY <1>1 DEF IInv, FramesOK
<1>4. TypeOK'
  BY <1>1, <1>2, FrameUpdate DEF IInv, TypeOK
<1>5. RefsAccounted'
  <2> SUFFICES ASSUME NEW o \in Objects
               PROVE  ref_count'[o] = held'[o] + Count(id_to_value', o) + Count(OwnedBy', o)
                                       + Count(ArgOf', o) + Ref(current_exception', o)
    BY DEF RefsAccounted
  <2>1. Ref(Plain, o) = 0
    BY RefType, NotObjects
  <2>2. /\ Count(OwnedBy', o) = Count(OwnedBy, o) - Ref(Idle.own, o) + Ref(fr.own, o)
        /\ Count(ArgOf', o) = Count(ArgOf, o) - Ref(Idle.arg, o) + Ref(fr.arg, o)
    BY <1>1, <1>2, <1>3, FrameUpdate DEF IInv
  <2>3. /\ Count(OwnedBy', o) = Count(OwnedBy, o) + Ref(own, o)
        /\ Count(ArgOf', o) = Count(ArgOf, o)
    BY <2>1, <2>2, AccountTypes, RefType DEF IInv, Idle
  <2>4. ref_count[o] = held[o] + Count(id_to_value, o) + Count(OwnedBy, o)
                         + Count(ArgOf, o) + Ref(current_exception, o)
    BY DEF IInv, RefsAccounted
  <2> QED
    BY <2>3, <2>4, AccountTypes, RefType DEF IInv
<1>6. FramesOK'
  BY <1>1, NotObjects DEF IInv, FramesOK, TypeOK, Levels
<1>7. IdsOK'
  BY <1>1, Finite DEF IInv, IdsOK
<1> QED
  BY <1>1, <1>4, <1>5, <1>6, <1>7 DEF IInv

\* What the innermost call is, and what remains when it leaves.
LEMMA InvTop ==
  ASSUME IInv, depth > 0
  PROVE  /\ depth \in Levels /\ Top \in Frames
         /\ Top.own \in Values /\ Top.arg \in Values /\ Top.obj \in Values
         /\ depth - 1 \in 0 .. MaxDepth /\ depth \in Nat
         /\ next_id \in Ids /\ id_to_value[next_id] = Absent
         /\ next_id \in Nat /\ next_id + 1 \in 0 .. MaxIds
<1>1. depth \in Levels /\ depth \in Nat /\ depth - 1 \in 0 .. MaxDepth
  BY Finite DEF IInv, Levels
<1>2. Top \in Frames
  BY <1>1 DEF IInv, TypeOK, Top
<1>3. next_id \in Ids /\ next_id \in Nat /\ next_id + 1 \in 0 .. MaxIds
  BY <1>1, Finite DEF IInv, IdsOK, Ids
<1>4. id_to_value[next_id] = Absent
  BY <1>3 DEF IInv, IdsOK
<1> QED
  BY <1>1, <1>2, <1>3, <1>4 DEF Frames

LEMMA LeaveUpdate ==
  ASSUME IInv, depth > 0, Leave, NEW o \in Objects
  PROVE  /\ Count(OwnedBy', o) = Count(OwnedBy, o) - Ref(Top.own, o)
         /\ Count(ArgOf', o) = Count(ArgOf, o) - Ref(Top.arg, o)
         /\ calls' \in [Levels -> Frames]
<1>1. Ref(Idle.own, o) = 0 /\ Ref(Idle.arg, o) = 0
  BY RefType, NotObjects DEF Idle
<1>2. /\ Count(OwnedBy', o) = Count(OwnedBy, o) - Ref(Top.own, o) + Ref(Idle.own, o)
      /\ Count(ArgOf', o) = Count(ArgOf, o) - Ref(Top.arg, o) + Ref(Idle.arg, o)
      /\ calls' \in [Levels -> Frames]
  BY InvTop, FrameUpdate, IdleFrame DEF IInv, Leave, Top
<1> QED
  BY <1>1, <1>2, AccountTypes, RefType DEF IInv

\* Leaving the innermost call keeps the others in order, whatever the table
\* gained at next_id.
LEMMA LeaveFrames ==
  ASSUME IInv, depth > 0, Leave,
         \/ UNCHANGED id_to_value
         \/ \E v : id_to_value' = [id_to_value EXCEPT ![next_id] = v]
  PROVE  FramesOK'
<1> SUFFICES ASSUME NEW d \in Levels
             PROVE  /\ d > depth' => calls'[d] = Idle
                    /\ calls'[d].obj \in Objects =>
                         /\ calls'[d].id \in Ids
                         /\ id_to_value'[calls'[d].id] = calls'[d].obj
                         /\ calls'[d].op # "from_jsvalue"
                    /\ calls'[d].arg \in Objects => calls'[d].op = "call"
                    /\ calls'[d].own \in Objects =>
                         calls'[d].op \in {"call", "to_string", "from_jsvalue"}
  BY DEF FramesOK
<1>1. depth \in Levels /\ depth' = depth - 1 /\ calls' = [calls EXCEPT ![depth] = Idle]
  BY InvTop DEF Leave
<1>2. CASE d = depth
  BY <1>1, <1>2, NotObjects DEF IInv, TypeOK, Idle
<1>3. CASE d # depth
  <2>1. calls'[d] = calls[d]
    BY <1>1, <1>3 DEF IInv, TypeOK
  <2>2. d > depth' => d > depth
    BY <1>1, <1>3 DEF Levels
  <2>3. ASSUME calls[d].obj \in Objects
        PROVE  id_to_value'[calls[d].id] = calls[d].obj
    <3>1. calls[d].id \in Ids /\ id_to_value[calls[d].id] = calls[d].obj
      BY <2>3 DEF IInv, FramesOK
    <3>2. calls[d].id # next_id
      BY <2>3, <3>1, InvTop, NotObjects
    <3> QED
      BY <3>1, <3>2 DEF IInv, TypeOK
  <2> QED
    BY <2>1, <2>2, <2>3 DEF IInv, FramesOK
<1> QED
  BY <1>2, <1>3

\* A call returns a result: everything it owned is given back, the result's
\* reference moves into the table.
LEMMA InvReturn ==
  ASSUME IInv, phase = "open", depth > 0, NEW c \in Completion, Return(c)
  PROVE  IInv'
<1>1. /\ c.val \in Values /\ c.err \in Values
      /\ AddValue(c.val) /\ Leave /\ UNCHANGED <<phase, held>>
      /\ current_exception' = c.err
      /\ depth' = depth - 1 /\ next_id' = next_id + 1
      /\ id_to_value' = [id_to_value EXCEPT ![next_id] = c.val]
  BY DEF Return, Completion, Settle, Leave, AddValue
<1>2. TypeOK'
  <2>1. ref_count' \in [Objects -> Int]
    <3>1. \A o \in Objects : ref_count[o] + Ref(c.val, o) + Ref(c.err, o)
              - Ref(current_exception, o) - Ref(Top.own, o) - Ref(Top.arg, o) \in Int
      BY AccountTypes, RefType DEF IInv
    <3> QED
      BY <3>1 DEF Return, Settle
  <2>2. calls' \in [Levels -> Frames]
    BY <1>1, InvTop, IdleFrame DEF IInv, TypeOK, Leave
  <2> QED
    BY <1>1, <2>1, <2>2, InvTop DEF IInv, TypeOK
<1>3. RefsAccounted'
  <2> SUFFICES ASSUME NEW o \in Objects
               PROVE  ref_count'[o] = held'[o] + Count(id_to_value', o) + Count(OwnedBy', o)
                                       + Count(ArgOf', o) + Ref(current_exception', o)
    BY DEF RefsAccounted
  <2>1. Count(id_to_value', o) = Count(id_to_value, o) - Ref(Absent, o) + Ref(c.val, o)
    BY <1>1, InvTop, EntryUpdate DEF IInv
  <2>2. Ref(Absent, o) = 0
    BY RefType, NotObjects
  <2>3. /\ Count(OwnedBy', o) = Count(OwnedBy, o) - Ref(Top.own, o)
        /\ Count(ArgOf', o) = Count(ArgOf, o) - Ref(Top.arg, o)
    BY <1>1, LeaveUpdate
  <2>4. ref_count'[o] = ref_count[o] + Ref(c.val, o) + Ref(c.err, o)
            - Ref(current_exception, o) - Ref(Top.own, o) - Ref(Top.arg, o)
    BY DEF Return, Settle
  <2>5. ref_count[o] = held[o] + Count(id_to_value, o) + Count(OwnedBy, o)
                         + Count(ArgOf, o) + Ref(current_exception, o)
    BY DEF IInv, RefsAccounted
  <2> QED
    BY <1>1, <2>1, <2>2, <2>3, <2>4, <2>5, AccountTypes, RefType DEF IInv
<1>4. FramesOK'
  BY <1>1, LeaveFrames
<1>5. IdsOK'
  <2>1. next_id' + depth' = next_id + depth
    BY <1>1, InvTop
  <2>2. ASSUME NEW i \in Ids, i >= next_id + 1
        PROVE  id_to_value'[i] = Absent
    <3>1. i >= next_id /\ i # next_id
      BY <2>2, InvTop DEF Ids
    <3> QED
      BY <1>1, <3>1 DEF IInv, IdsOK, TypeOK
  <2> QED
    BY <1>1, <2>1, <2>2 DEF IInv, IdsOK
<1> QED
  BY <1>1, <1>2, <1>3, <1>4, <1>5 DEF IInv

\* A call returns no result, and releases besides what it owned only a value
\* without a count.
LEMMA InvReturnNothing ==
  ASSUME IInv, phase = "open", depth > 0, NEW err \in Values,
         NEW release, release \notin Objects, Top.arg \notin Objects,
         ReturnNothing(err, release)
  PROVE  IInv'
<1>1. /\ Leave /\ UNCHANGED <<phase, held, id_to_value, next_id>>
      /\ current_exception' = err /\ depth' = depth - 1
  BY DEF ReturnNothing, Settle, Leave
<1>2. ASSUME NEW o \in Objects
      PROVE  ref_count'[o] = ref_count[o] + Ref(err, o) - Ref(current_exception, o) - Ref(Top.own, o)
  <2>1. Ref(Plain, o) = 0 /\ Ref(release, o) = 0
    BY RefType, NotObjects
  <2>2. ref_count'[o] = ref_count[o] + Ref(Plain, o) + Ref(err, o)
            - Ref(current_exception, o) - Ref(Top.own, o) - Ref(release, o)
    BY DEF ReturnNothing, Settle
  <2> QED
    BY <2>1, <2>2, AccountTypes, RefType DEF IInv
<1>3. TypeOK'
  <2>1. \A o \in Objects : ref_count'[o] \in Int
    BY <1>2, AccountTypes, RefType DEF IInv
  <2>2. ref_count' \in [Objects -> Int]
    BY <2>1 DEF ReturnNothing, Settle
  <2>3. calls' \in [Levels -> Frames]
    BY <1>1, InvTop, IdleFrame DEF IInv, TypeOK, Leave
  <2> QED
    BY <1>1, <2>2, <2>3, InvTop DEF IInv, TypeOK
<1>4. RefsAccounted'
  <2> SUFFICES ASSUME NEW o \in Objects
               PROVE  ref_count'[o] = held'[o] + Count(id_to_value', o) + Count(OwnedBy', o)
                                       + Count(ArgOf', o) + Ref(current_exception', o)
    BY DEF RefsAccounted
  <2>1. /\ Count(OwnedBy', o) = Count(OwnedBy, o) - Ref(Top.own, o)
        /\ Count(ArgOf', o) = Count(ArgOf, o) - Ref(Top.arg, o)
        /\ Ref(Top.arg, o) = 0
    BY <1>1, LeaveUpdate, RefType
  <2>2. ref_count[o] = held[o] + Count(id_to_value, o) + Count(OwnedBy, o)
                         + Count(ArgOf, o) + Ref(current_exception, o)
    BY DEF IInv, RefsAccounted
  <2> QED
    BY <1>1, <1>2, <2>1, <2>2, AccountTypes, RefType DEF IInv
<1>5. FramesOK'
  BY <1>1, LeaveFrames
<1>6. IdsOK'
  BY <1>1, InvTop, Finite DEF IInv, IdsOK
<1> QED
  BY <1>1, <1>3, <1>4, <1>5, <1>6 DEF IInv

-----------------------------------------------------------------------------
(* The steps *)

\* Every way a QuickJS call can end is a completion.
LEMMA Completions ==
  ASSUME IInv
  PROVE  /\ Obtainable \subseteq Objects
         /\ Returned \subseteq Completion
         /\ Thrown \subseteq Completion
         /\ NotThrown \subseteq Completion
BY DEF IInv, TypeOK, Obtainable, Returned, Thrown, NotThrown, Completion, Values, Fresh

LEMMA InvEjrNew ==
  ASSUME IInv, EjrNew
  PROVE  IInv'
BY DEF IInv, EjrNew, TypeOK, RefsAccounted, FramesOK, IdsOK, OwnedBy, ArgOf

\* When no call is in progress nothing is owned outside the table, the slot and
\* the heap, so ejr_free leaves no cell with a count.
LEMMA FreeLeavesNothing ==
  ASSUME IInv, depth = 0, NEW o \in Objects
  PROVE  ref_count[o] - Count(id_to_value, o) - Ref(current_exception, o) - held[o] = 0
<1>1. \A d \in Levels : OwnedBy[d] = Plain /\ ArgOf[d] = Plain
  BY DEF IInv, FramesOK, OwnedBy, ArgOf, Idle, Levels
<1>2. Count(OwnedBy, o) = 0 /\ Count(ArgOf, o) = 0
  <2>1. Plain # o
    BY NotObjects
  <2>2. \A d \in DOMAIN OwnedBy : OwnedBy[d] # o
    BY <1>1, <2>1 DEF OwnedBy
  <2>3. \A d \in DOMAIN ArgOf : ArgOf[d] # o
    BY <1>1, <2>1 DEF ArgOf
  <2> QED
    BY <2>2, <2>3, CountNone
<1>3. ref_count[o] = held[o] + Count(id_to_value, o) + Count(OwnedBy, o)
                       + Count(ArgOf, o) + Ref(current_exception, o)
  BY DEF IInv, RefsAccounted
<1> QED
  BY <1>2, <1>3, AccountTypes, RefType DEF IInv

LEMMA InvEjrFree ==
  ASSUME IInv, EjrFree
  PROVE  IInv'
<1>1. /\ depth = 0 /\ depth' = 0 /\ calls' = calls
      /\ id_to_value' = [i \in Ids |-> Absent] /\ next_id' = 0
      /\ current_exception' = Uninitialized /\ held' = [o \in Objects |-> 0]
  BY DEF EjrFree, Running
<1>2. ref_count' = [o \in Objects |-> 0] /\ phase' = "none"
  BY <1>1, FreeLeavesNothing DEF EjrFree, Running
<1>3. TypeOK'
  BY <1>1, <1>2, Finite DEF IInv, TypeOK, Values
<1>4. RefsAccounted'
  <2> SUFFICES ASSUME NEW o \in Objects
               PROVE  ref_count'[o] = held'[o] + Count(id_to_value', o) + Count(OwnedBy', o)
                                       + Count(ArgOf', o) + Ref(current_exception', o)
    BY DEF RefsAccounted
  <2>1. Plain # o /\ Absent # o /\ Uninitialized # o
    BY NotObjects
  <2>2. /\ \A d \in DOMAIN OwnedBy' : OwnedBy'[d] # o
        /\ \A d \in DOMAIN ArgOf' : ArgOf'[d] # o
    BY <1>1, <2>1 DEF IInv, FramesOK, OwnedBy, ArgOf, Idle, Levels
  <2>3. Count(OwnedBy', o) = 0
    BY <2>2, CountNone
  <2>4. Count(ArgOf', o) = 0
    BY <2>2, CountNone
  <2>5. Count(id_to_value', o) = 0
    BY <1>1, <2>1, CountNone
  <2>6. Ref(current_exception', o) = 0
    BY <1>1, <2>1, RefType
  <2> QED
    BY <1>1, <1>2, <2>3, <2>4, <2>5, <2>6
<1>5. FramesOK'
  BY <1>1, NotObjects DEF IInv, FramesOK, Idle, Levels
<1>6. IdsOK'
  BY <1>1, BoundsAssumption DEF IdsOK
<1> QED
  BY <1>2, <1>3, <1>4, <1>5, <1>6 DEF IInv

\* The entry's reference is released with the entry; a careful host frees no
\* entry that a call in progress has borrowed.
LEMMA InvFreeJsvalue ==
  ASSUME IInv, CarefulHost, NEW id \in Ids, FreeJsvalue(id)
  PROVE  IInv'
<1>1. /\ phase = "open" /\ id_to_value[id] # Absent
      /\ \A d \in 1 .. depth : calls[d].id # id
      /\ id_to_value' = [id_to_value EXCEPT ![id] = Absent]
      /\ UNCHANGED <<phase, held, next_id, current_exception, calls, depth>>
  BY DEF FreeJsvalue, HostRuns, Running, CarefulHost, AllRules
<1>2. OwnedBy' = OwnedBy /\ ArgOf' = ArgOf
  BY <1>1 DEF OwnedBy, ArgOf
<1>3. ASSUME NEW o \in Objects
      PROVE  /\ ref_count'[o] = ref_count[o] - Ref(id_to_value[id], o)
             /\ Count(id_to_value', o) = Count(id_to_value, o) - Ref(id_to_value[id], o)
  <2>1. Count(id_to_value', o) = Count(id_to_value, o) - Ref(id_to_value[id], o) + Ref(Absent, o)
    BY <1>1, EntryUpdate DEF IInv
  <2>2. Ref(Absent, o) = 0
    BY RefType, NotObjects
  <2> QED
    BY <2>1, <2>2, AccountTypes, RefType DEF IInv, FreeJsvalue
<1>4. TypeOK'
  <2>1. \A o \in Objects : ref_count[o] - Ref(id_to_value[id], o) \in Int
    BY AccountTypes, RefType DEF IInv
  <2>2. ref_count' \in [Objects -> Int]
    BY <2>1 DEF FreeJsvalue
  <2> QED
    BY <1>1, <2>2 DEF IInv, TypeOK
<1>5. RefsAccounted'
  <2> SUFFICES ASSUME NEW o \in Objects
               PROVE  ref_count'[o] = held'[o] + Count(id_to_value', o) + Count(OwnedBy', o)
                                       + Count(ArgOf', o) + Ref(current_exception', o)
    BY DEF RefsAccounted
  <2>1. ref_count[o] = held[o] + Count(id_to_value, o) + Count(OwnedBy, o)
                         + Count(ArgOf, o) + Ref(current_exception, o)
    BY DEF IInv, RefsAccounted
  <2>2. /\ held'[o] = held[o] /\ Ref(current_exception', o) = Ref(current_exception, o)
        /\ Count(OwnedBy', o) = Count(OwnedBy, o) /\ Count(ArgOf', o) = Count(ArgOf, o)
    BY <1>1, <1>2
  <2> QED
    BY <1>3, <2>1, <2>2, AccountTypes, RefType DEF IInv
<1>6. FramesOK'
  <2>1. ASSUME NEW d \in Levels, calls[d].obj \in Objects
        PROVE  calls[d].id # id
    <3>1. d \in 1 .. depth
      BY <2>1, NotObjects, Finite DEF IInv, FramesOK, Idle, Levels
    <3> QED
      BY <1>1, <3>1
  <2> QED
    BY <1>1, <2>1 DEF IInv, FramesOK, TypeOK
<1>7. IdsOK'
  BY <1>1 DEF IInv, IdsOK, TypeOK
<1> QED
  BY <1>1, <1>4, <1>5, <1>6, <1>7 DEF IInv

\* The awaited result is one reference more, and one entry more.
LEMMA InvAwaitPromise ==
  ASSUME IInv, NEW id \in Ids, AwaitPromise(id)
  PROVE  IInv'
<1> PICK v \in Values :
      /\ Settle([val |-> v, err |-> current_exception], Plain, Plain)
      /\ AddValue(v)
  BY DEF AwaitPromise, Values
<1>1. /\ phase = "open" /\ next_id + depth < MaxIds
      /\ id_to_value' = [id_to_value EXCEPT ![next_id] = v] /\ next_id' = next_id + 1
      /\ current_exception' = current_exception
      /\ UNCHANGED <<phase, held, calls, depth>>
  BY DEF AwaitPromise, HostRuns, Running, Settle, AddValue
<1>2. next_id \in Ids /\ next_id \in Nat /\ next_id + 1 \in 0 .. MaxIds
  BY <1>1, Finite DEF IInv, Ids
<1>3. id_to_value[next_id] = Absent
  BY <1>2 DEF IInv, IdsOK
<1>4. OwnedBy' = OwnedBy /\ ArgOf' = ArgOf
  BY <1>1 DEF OwnedBy, ArgOf
<1>5. ASSUME NEW o \in Objects
      PROVE  /\ ref_count'[o] = ref_count[o] + Ref(v, o)
             /\ Count(id_to_value', o) = Count(id_to_value, o) + Ref(v, o)
  <2>1. Count(id_to_value', o) = Count(id_to_value, o) - Ref(Absent, o) + Ref(v, o)
    <3>1. Count(id_to_value', o) = Count(id_to_value, o) - Ref(id_to_value[next_id], o) + Ref(v, o)
      BY <1>1, <1>2, EntryUpdate DEF IInv
    <3> QED
      BY <1>3, <3>1
  <2>2. Ref(Absent, o) = 0 /\ Ref(Plain, o) = 0
    BY RefType, NotObjects
  <2>3. ref_count'[o] = ref_count[o] + Ref(v, o) + Ref(current_exception, o)
            - Ref(current_exception, o) - Ref(Plain, o) - Ref(Plain, o)
    BY DEF Settle
  <2> QED
    BY <2>1, <2>2, <2>3, AccountTypes, RefType DEF IInv
<1>6. TypeOK'
  <2>1. \A o \in Objects : ref_count'[o] \in Int
    BY <1>5, AccountTypes, RefType DEF IInv
  <2>2. ref_count' \in [Objects -> Int]
    BY <2>1 DEF Settle
  <2> QED
    BY <1>1, <1>2, <2>2 DEF IInv, TypeOK
<1>7. RefsAccounted'
  <2> SUFFICES ASSUME NEW o \in Objects
               PROVE  ref_count'[o] = held'[o] + Count(id_to_value', o) + Count(OwnedBy', o)
                                       + Count(ArgOf', o) + Ref(current_exception', o)
    BY DEF RefsAccounted
  <2>1. ref_count[o] = held[o] + Count(id_to_value, o) + Count(OwnedBy, o)
                         + Count(ArgOf, o) + Ref(current_exception, o)
    BY DEF IInv, RefsAccounted
  <2>2. /\ held'[o] = held[o] /\ Ref(current_exception', o) = Ref(current_exception, o)
        /\ Count(OwnedBy', o) = Count(OwnedBy, o) /\ Count(ArgOf', o) = Count(ArgOf, o)
    BY <1>1, <1>4
  <2> QED
    BY <1>5, <2>1, <2>2, AccountTypes, RefType DEF IInv
<1>8. FramesOK'
  <2>1. ASSUME NEW d \in Levels, calls[d].obj \in Objects
        PROVE  /\ calls[d].id \in Ids /\ id_to_value[calls[d].id] = calls[d].obj
               /\ calls[d].id # next_id
    BY <1>3, <2>1, NotObjects DEF IInv, FramesOK
  <2> QED
    BY <1>1, <2>1 DEF IInv, FramesOK, TypeOK
<1>9. IdsOK'
  <2>1. ASSUME NEW i \in Ids, i >= next_id + 1
        PROVE  id_to_value'[i] = Absent
    <3>1. i >= next_id /\ i # next_id
      BY <1>2, <2>1 DEF Ids
    <3> QED
      BY <1>1, <3>1 DEF IInv, IdsOK, TypeOK
  <2> QED
    BY <1>1, <1>2, <2>1, Finite DEF IInv, IdsOK
<1> QED
  BY <1>1, <1>6, <1>7, <1>8, <1>9 DEF IInv

\* A step of the engine or of JavaScript between calls: one cell's count and
\* what the heap holds of it move together, or the slot is emptied.
LEMMA InvEngine ==
  ASSUME IInv, phase = "open",
         UNCHANGED <<phase, id_to_value, next_id, calls, depth>>,
         held' \in [Objects -> Nat], ref_count' \in [Objects -> Int],
         current_exception' \in Values,
         \A o \in Objects : ref_count'[o] + held[o] + Ref(current_exception, o)
                           = ref_count[o] + held'[o] + Ref(current_exception', o)
  PROVE  IInv'
<1>1. TypeOK'
  BY DEF IInv, TypeOK
<1>2. RefsAccounted'
  <2> SUFFICES ASSUME NEW o \in Objects
               PROVE  ref_count'[o] = held'[o] + Count(id_to_value', o) + Count(OwnedBy', o)
                                       + Count(ArgOf', o) + Ref(current_exception', o)
    BY DEF RefsAccounted
  <2>1. /\ Count(id_to_value', o) = Count(id_to_value, o)
        /\ Count(OwnedBy', o) = Count(OwnedBy, o) /\ Count(ArgOf', o) = Count(ArgOf, o)
    BY DEF OwnedBy, ArgOf
  <2>2. ref_count[o] = held[o] + Count(id_to_value, o) + Count(OwnedBy, o)
                         + Count(ArgOf, o) + Ref(current_exception, o)
    BY DEF IInv, RefsAccounted
  <2>3. /\ ref_count'[o] \in Int /\ held'[o] \in Nat
        /\ ref_count[o] \in Int /\ held[o] \in Nat
        /\ Count(id_to_value, o) \in Nat /\ Count(OwnedBy, o) \in Nat /\ Count(ArgOf, o) \in Nat
        /\ Ref(current_exception, o) \in Nat /\ Ref(current_exception', o) \in Nat
    BY AccountTypes, RefType DEF IInv
  <2>4. ref_count'[o] + held[o] + Ref(current_exception, o)
          = ref_count[o] + held'[o] + Ref(current_exception', o)
    OBVIOUS
  <2>5. ref_count'[o] = held'[o] + Count(id_to_value, o) + Count(OwnedBy, o)
                          + Count(ArgOf, o) + Ref(current_exception', o)
    BY <2>2, <2>3, <2>4
  <2> QED
    BY <2>1, <2>5
<1>3. FramesOK' /\ IdsOK'
  BY DEF IInv, FramesOK, IdsOK
<1> QED
  BY <1>1, <1>2, <1>3 DEF IInv

LEMMA InvJsRetain ==
  ASSUME IInv, NEW o \in Objects, JsRetain(o)
  PROVE  IInv'
<1>1. /\ phase = "open" /\ UNCHANGED <<phase, id_to_value, next_id, calls, depth>>
      /\ held' = [held EXCEPT ![o] = @ + 1] /\ ref_count' = [ref_count EXCEPT ![o] = @ + 1]
      /\ current_exception' = current_exception
  BY DEF JsRetain, Running
<1>2. \A x \in Objects : ref_count'[x] + held[x] = ref_count[x] + held'[x]
  BY <1>1, AccountTypes DEF IInv, TypeOK
<1>3. held' \in [Objects -> Nat] /\ ref_count' \in [Objects -> Int]
      /\ current_exception' \in Values
  BY <1>1 DEF IInv, TypeOK
<1>4. \A x \in Objects : Ref(current_exception', x) = Ref(current_exception, x)
  BY <1>1
<1>5. \A x \in Objects : ref_count'[x] + held[x] + Ref(current_exception, x)
                        = ref_count[x] + held'[x] + Ref(current_exception', x)
  BY <1>2, <1>4
<1> QED
  BY <1>1, <1>3, <1>5, InvEngine

LEMMA InvJsRelease ==
  ASSUME IInv, NEW o \in Objects, JsRelease(o)
  PROVE  IInv'
<1>1. /\ phase = "open" /\ UNCHANGED <<phase, id_to_value, next_id, calls, depth>>
      /\ held' = [held EXCEPT ![o] = @ - 1] /\ ref_count' = [ref_count EXCEPT ![o] = @ - 1]
      /\ current_exception' = current_exception /\ held[o] > 0
  BY DEF JsRelease, Running
<1>2. \A x \in Objects : ref_count'[x] + held[x] = ref_count[x] + held'[x]
  BY <1>1, AccountTypes DEF IInv, TypeOK
<1>3. held' \in [Objects -> Nat] /\ ref_count' \in [Objects -> Int]
      /\ current_exception' \in Values
  BY <1>1 DEF IInv, TypeOK
<1>4. \A x \in Objects : Ref(current_exception', x) = Ref(current_exception, x)
  BY <1>1
<1>5. \A x \in Objects : ref_count'[x] + held[x] + Ref(current_exception, x)
                        = ref_count[x] + held'[x] + Ref(current_exception', x)
  BY <1>2, <1>4
<1> QED
  BY <1>1, <1>3, <1>5, InvEngine

LEMMA InvJsCatch ==
  ASSUME IInv, JsCatch
  PROVE  IInv'
<1>1. /\ phase = "open" /\ UNCHANGED <<phase, held, id_to_value, next_id, calls, depth>>
      /\ current_exception' = Uninitialized
      /\ ref_count' = [o \in Objects |-> ref_count[o] + Ref(Plain, o) + Ref(Uninitialized, o)
              - Ref(current_exception, o) - Ref(Plain, o) - Ref(Plain, o)]
  BY DEF JsCatch, Running, Settle
<1>2. ASSUME NEW o \in Objects
      PROVE  ref_count'[o] = ref_count[o] - Ref(current_exception, o)
  <2>1. Ref(Plain, o) = 0 /\ Ref(Uninitialized, o) = 0
    BY RefType, NotObjects
  <2> QED
    BY <1>1, <2>1, AccountTypes, RefType DEF IInv
<1>3. ref_count' \in [Objects -> Int]
  BY <1>1, <1>2, AccountTypes, RefType DEF IInv
<1>4. held' \in [Objects -> Nat] /\ current_exception' \in Values
  BY <1>1 DEF IInv, TypeOK, Values
<1>5. \A o \in Objects : ref_count'[o] + held[o] + Ref(current_exception, o)
                        = ref_count[o] + held'[o] + Ref(current_exception', o)
  <2> SUFFICES ASSUME NEW o \in Objects
               PROVE  ref_count'[o] + held[o] + Ref(current_exception, o)
                        = ref_count[o] + held'[o] + Ref(current_exception', o)
    OBVIOUS
  <2>1. Ref(current_exception', o) = 0 /\ held'[o] = held[o]
    BY <1>1, RefType, NotObjects
  <2> QED
    BY <1>2, <2>1, AccountTypes, RefType DEF IInv
<1> QED
  BY <1>1, <1>3, <1>4, <1>5, InvEngine

\* The slot drops what it held and gets a new error.
LEMMA InvTrampolineLeavesError ==
  ASSUME IInv, TrampolineLeavesError
  PROVE  IInv'
<1>1. /\ phase = "open" /\ UNCHANGED <<phase, held, id_to_value, next_id, calls, depth>>
      /\ \E e \in Fresh : Settle([val |-> Plain, err |-> e], Plain, Plain)
  BY DEF TrampolineLeavesError, Running
<1>2. PICK e \in Objects :
        /\ current_exception' = e
        /\ ref_count' = [o \in Objects |-> ref_count[o] + Ref(Plain, o) + Ref(e, o)
              - Ref(current_exception, o) - Ref(Plain, o) - Ref(Plain, o)]
  BY <1>1 DEF Settle, Fresh
<1>3. ASSUME NEW o \in Objects
      PROVE  ref_count'[o] = ref_count[o] + Ref(e, o) - Ref(current_exception, o)
  <2>1. Ref(Plain, o) = 0
    BY RefType, NotObjects
  <2> QED
    BY <1>2, <2>1, AccountTypes, RefType DEF IInv
<1>4. ref_count' \in [Objects -> Int]
  BY <1>2, <1>3, AccountTypes, RefType DEF IInv
<1>5. held' \in [Objects -> Nat] /\ current_exception' \in Values
  BY <1>1, <1>2 DEF IInv, TypeOK, Values
<1>6. \A o \in Objects : ref_count'[o] + held[o] + Ref(current_exception, o)
                        = ref_count[o] + held'[o] + Ref(current_exception', o)
  BY <1>1, <1>2, <1>3, AccountTypes, RefType DEF IInv
<1> QED
  BY <1>1, <1>4, <1>5, <1>6, InvEngine

\* The process ends with everything as it was.
LEMMA InvCrash ==
  ASSUME IInv, Crash
  PROVE  IInv'
<1>1. phase' = "terminated" /\ UNCHANGED <<ref_count, held, id_to_value, next_id, current_exception, calls, depth>>
  BY DEF Crash
<1>2. OwnedBy' = OwnedBy /\ ArgOf' = ArgOf
  BY <1>1 DEF OwnedBy, ArgOf
<1> QED
  BY <1>1, <1>2 DEF IInv, TypeOK, RefsAccounted, FramesOK, IdsOK

\* The function and the argument are references the frame now owns.
LEMMA InvLookUp ==
  ASSUME IInv, LookUp
  PROVE  IInv'
<1>1. /\ phase = "open" /\ depth > 0 /\ Top.op = "lookup"
      /\ UNCHANGED <<phase, held, id_to_value, next_id, depth>>
  BY DEF LookUp, Inside, Running
<1>2. PICK c \in Completion, a \in Objects \cup {Plain} :
        /\ ref_count' = [o \in Objects |-> ref_count[o] + Ref(c.val, o) + Ref(c.err, o)
                                             - Ref(current_exception, o) + Ref(a, o)]
        /\ current_exception' = c.err
        /\ calls' = [calls EXCEPT ![depth] =
                       [op |-> "call", id |-> Top.id, obj |-> Top.obj,
                        own |-> c.val, arg |-> a]]
  <2>1. PropertyOf(Top.obj) \subseteq Completion
    BY Completions DEF PropertyOf
  <2>2. Fresh \subseteq Objects
    BY DEF Fresh
  <2> QED
    BY <2>1, <2>2 DEF LookUp
<1> DEFINE fr == [op |-> "call", id |-> Top.id, obj |-> Top.obj, own |-> c.val, arg |-> a]
<1>3. c.val \in Values /\ c.err \in Values /\ a \in Values
  BY DEF Completion, Values
<1>4. depth \in Levels /\ fr \in Frames
  BY <1>1, <1>3, InvTop DEF Frames, Ops
<1>5. Top.own \notin Objects /\ Top.arg \notin Objects
  BY <1>1, <1>4 DEF IInv, FramesOK, Top
<1>6. TypeOK'
  <2>1. \A o \in Objects : ref_count[o] + Ref(c.val, o) + Ref(c.err, o)
                             - Ref(current_exception, o) + Ref(a, o) \in Int
    BY AccountTypes, RefType DEF IInv
  <2>2. ref_count' \in [Objects -> Int]
    BY <1>2, <2>1
  <2>3. calls' \in [Levels -> Frames]
    BY <1>2, <1>4 DEF IInv, TypeOK
  <2> QED
    BY <1>1, <1>2, <1>3, <2>2, <2>3 DEF IInv, TypeOK
<1>7. RefsAccounted'
  <2> SUFFICES ASSUME NEW o \in Objects
               PROVE  ref_count'[o] = held'[o] + Count(id_to_value', o) + Count(OwnedBy', o)
                                       + Count(ArgOf', o) + Ref(current_exception', o)
    BY DEF RefsAccounted
  <2>1. Ref(Top.own, o) = 0 /\ Ref(Top.arg, o) = 0
    BY <1>5, RefType
  <2>2. /\ Count(OwnedBy', o) = Count(OwnedBy, o) - Ref(Top.own, o) + Ref(fr.own, o)
        /\ Count(ArgOf', o) = Count(ArgOf, o) - Ref(Top.arg, o) + Ref(fr.arg, o)
    BY <1>2, <1>4, FrameUpdate DEF IInv, Top
  <2>3. /\ Count(OwnedBy', o) = Count(OwnedBy, o) + Ref(c.val, o)
        /\ Count(ArgOf', o) = Count(ArgOf, o) + Ref(a, o)
    BY <2>1, <2>2, AccountTypes, RefType DEF IInv
  <2>4. ref_count'[o] = ref_count[o] + Ref(c.val, o) + Ref(c.err, o)
                          - Ref(current_exception, o) + Ref(a, o)
    BY <1>2
  <2>5. ref_count[o] = held[o] + Count(id_to_value, o) + Count(OwnedBy, o)
                         + Count(ArgOf, o) + Ref(current_exception, o)
    BY DEF IInv, RefsAccounted
  <2>6. /\ held'[o] = held[o] /\ Count(id_to_value', o) = Count(id_to_value, o)
        /\ Ref(current_exception', o) = Ref(c.err, o)
    BY <1>1, <1>2
  <2> QED
    BY <2>3, <2>4, <2>5, <2>6, AccountTypes, RefType DEF IInv
<1>8. FramesOK'
  <2> SUFFICES ASSUME NEW d \in Levels
               PROVE  /\ d > depth => calls'[d] = Idle
                      /\ calls'[d].obj \in Objects =>
                           /\ calls'[d].id \in Ids
                           /\ id_to_value[calls'[d].id] = calls'[d].obj
                           /\ calls'[d].op # "from_jsvalue"
                      /\ calls'[d].arg \in Objects => calls'[d].op = "call"
                      /\ calls'[d].own \in Objects =>
                           calls'[d].op \in {"call", "to_string", "from_jsvalue"}
    BY <1>1 DEF FramesOK
  <2>1. CASE d = depth
    BY <1>2, <1>4, <2>1 DEF IInv, FramesOK, TypeOK, Top, Levels
  <2>2. CASE d # depth
    BY <1>2, <2>2 DEF IInv, FramesOK, TypeOK
  <2> QED
    BY <2>1, <2>2
<1>9. IdsOK'
  BY <1>1 DEF IInv, IdsOK
<1> QED
  BY <1>1, <1>6, <1>7, <1>8, <1>9 DEF IInv

\* A call on a value the table holds, or on no value at all.
LEMMA InvBegin ==
  ASSUME IInv, CarefulHost, Begin
  PROVE  IInv'
<1>1. \A o \in Objects : Ref(Plain, o) = 0
  BY RefType, NotObjects
<1>2. /\ Plain \in Values /\ Plain \notin Objects
      /\ current_exception \in Values /\ Uninitialized \in Values /\ Exception \in Values
      /\ id_to_value \in [Ids -> Values \cup {Absent}]
  BY NotObjects DEF IInv, TypeOK, Values
<1>3. ASSUME NEW op \in Ops, NEW id \in Ids \cup {NoId}, NEW obj \in Values,
             CanEnter, Enter(op, id, obj, Plain),
             UNCHANGED <<phase, ref_count, held, id_to_value, next_id, current_exception>>,
             obj \in Objects => /\ id \in Ids /\ id_to_value[id] = obj
                               /\ op # "from_jsvalue"
      PROVE  IInv'
  <2>1. \A o \in Objects : Ref(Plain, o) + Ref(current_exception', o) = Ref(current_exception, o)
    BY <1>1, <1>3, RefType
  <2> QED
    BY <1>2, <1>3, <2>1, InvEnter
<1>4. ASSUME NEW op \in {"to_string", "from_jsvalue"}, NEW id \in Ids,
             id_to_value[id] # Absent, BeginConversion(op, id),
             op = "from_jsvalue" => id_to_value[id] \notin Objects
      PROVE  IInv'
  <2>1. CanEnter /\ op \in Ops /\ UNCHANGED <<phase, ref_count, held, id_to_value, next_id>>
    BY <1>4 DEF BeginConversion, Ops
  <2>2. CASE id_to_value[id] = Exception
    <3>1. Enter(op, id, Exception, current_exception) /\ current_exception' = Uninitialized
      BY <1>4, <2>2 DEF BeginConversion
    <3>2. \A o \in Objects : Ref(current_exception, o) + Ref(current_exception', o) = Ref(current_exception, o)
      BY <3>1, RefType, NotObjects
    <3> QED
      BY <1>2, <2>1, <3>1, <3>2, NotObjects, InvEnter
  <2>3. CASE id_to_value[id] # Exception
    <3>1. Enter(op, id, id_to_value[id], Plain) /\ UNCHANGED current_exception
      BY <1>4, <2>3 DEF BeginConversion
    <3>2. id_to_value[id] \in Values
      BY <1>2, <1>4
    <3> QED
      BY <1>3, <1>4, <2>1, <3>1, <3>2
  <2> QED
    BY <2>2, <2>3
<1>5. ASSUME NEW op \in {"eval_script", "eval_module", "get_from_global"}, BeginEval(op)
      PROVE  IInv'
  BY <1>2, <1>3, <1>5 DEF BeginEval, Ops
<1>6. CASE BeginFunctionCall
  BY <1>2, <1>3, <1>6 DEF BeginFunctionCall, Ops
<1>7. ASSUME NEW id \in Ids, BeginClassCall(id) \/ BeginGetProperty(id)
      PROVE  IInv'
  <2>1. id_to_value[id] \in Values
    BY <1>2, <1>7 DEF BeginClassCall, BeginGetProperty
  <2> QED
    BY <1>3, <1>7, <2>1 DEF BeginClassCall, BeginGetProperty, Ops
<1>8. ASSUME NEW id \in Ids, BeginToString(id)
      PROVE  IInv'
  BY <1>4, <1>8 DEF BeginToString
<1>9. ASSUME NEW id \in Ids, BeginFromJsvalue(id)
      PROVE  IInv'
  BY <1>4, <1>9 DEF BeginFromJsvalue, CarefulHost, AllRules
<1> QED
  BY <1>5, <1>6, <1>7, <1>8, <1>9 DEF Begin

\* A call that ends, or crashes the process.
LEMMA InvEnd ==
  ASSUME IInv, End
  PROVE  IInv'
<1>1. ASSUME NEW ops, Inside(ops), NEW c \in Returned \cup Thrown \cup NotThrown, Return(c)
      PROVE  IInv'
  BY <1>1, Completions, InvReturn DEF Inside, Running
<1>2. ASSUME NEW ops, Inside(ops), ops \subseteq {"to_string", "from_jsvalue"}
      PROVE  /\ phase = "open" /\ depth > 0
             /\ Top.arg \notin Objects
             /\ Top.op = "from_jsvalue" => Top.obj \notin Objects
  <2>1. phase = "open" /\ depth > 0 /\ Top.op \in ops
    BY <1>2 DEF Inside, Running
  <2>2. Top.op # "call"
    BY <1>2, <2>1
  <2> QED
    BY <2>1, <2>2, InvTop DEF IInv, FramesOK, Top
<1>3. CASE EndEval
  BY <1>1, <1>3 DEF EndEval
<1>4. CASE EndEvalModule
  BY <1>1, <1>4 DEF EndEvalModule
<1>5. CASE LookUp
  BY <1>5, InvLookUp
<1>6. CASE EndCall
  BY <1>1, <1>6 DEF EndCall
<1>7. CASE EndGetProperty
  BY <1>1, <1>7 DEF EndGetProperty, PropertyOf
<1>8. CASE EndToString
  <2>1. /\ phase = "open" /\ depth > 0 /\ Top.arg \notin Objects
        /\ ReturnNothing(current_exception, Plain)
    BY <1>2, <1>8 DEF EndToString
  <2>2. current_exception \in Values
    BY DEF IInv, TypeOK
  <2> QED
    BY <2>1, <2>2, NotObjects, InvReturnNothing
<1>9. CASE EndFromJsvalue
  <2>1. Inside({"from_jsvalue"}) /\ Top.op = "from_jsvalue"
    BY <1>9 DEF EndFromJsvalue, Inside, Running
  <2>2. PICK err \in Values : ReturnNothing(err, Top.obj)
    <3>1. Fresh \subseteq Values /\ Obtainable \cup {Plain} \subseteq Values /\ current_exception \in Values
      BY DEF Fresh, Obtainable, Values, IInv, TypeOK
    <3>2. PICK err \in {current_exception} \cup
                        (IF RunsJs(Top) THEN Obtainable \cup {Plain}
                         ELSE IF Top.obj \in {Plain, Uninitialized} THEN Fresh ELSE {}) :
            ReturnNothing(err, Top.obj)
      BY <1>9 DEF EndFromJsvalue
    <3>3. err \in Values
      BY <3>1, <3>2
    <3> QED
      BY <3>2, <3>3
  <2>3. /\ phase = "open" /\ depth > 0 /\ Top.arg \notin Objects /\ Top.obj \notin Objects
    BY <1>2, <2>1
  <2> QED
    BY <2>2, <2>3, InvReturnNothing
<1>10. CASE Crash
  BY <1>10, InvCrash
<1> QED
  BY <1>3, <1>4, <1>5, <1>6, <1>7, <1>8, <1>9, <1>10 DEF End

-----------------------------------------------------------------------------
(* The theorems *)

\* A new process satisfies the invariant.
LEMMA InvInit ==
  ASSUME Init
  PROVE  IInv
<1>1. TypeOK
  BY BoundsAssumption, IdleFrame DEF Init, TypeOK, Values
<1>2. RefsAccounted
  <2> SUFFICES ASSUME NEW o \in Objects
               PROVE  ref_count[o] = held[o] + Count(id_to_value, o) + Count(OwnedBy, o)
                                      + Count(ArgOf, o) + Ref(current_exception, o)
    BY DEF RefsAccounted
  <2>1. Plain # o /\ Absent # o /\ Uninitialized # o
    BY NotObjects
  <2>2. Count(id_to_value, o) = 0
    BY <2>1, CountNone DEF Init
  <2>3. /\ \A d \in DOMAIN OwnedBy : OwnedBy[d] # o
        /\ \A d \in DOMAIN ArgOf : ArgOf[d] # o
    BY <2>1 DEF Init, OwnedBy, ArgOf, Idle
  <2>4. Count(OwnedBy, o) = 0 /\ Count(ArgOf, o) = 0
    BY <2>3, CountNone
  <2>5. Ref(current_exception, o) = 0 /\ ref_count[o] = 0 /\ held[o] = 0
    BY <2>1, RefType DEF Init
  <2> QED
    BY <2>2, <2>4, <2>5
<1>3. FramesOK
  BY NotObjects DEF Init, FramesOK, Idle
<1>4. IdsOK
  BY BoundsAssumption DEF Init, IdsOK
<1> QED
  BY <1>1, <1>2, <1>3, <1>4 DEF Init, IInv

\* Every step preserves the invariant.
LEMMA InvNext ==
  ASSUME IInv, CarefulHost, [Next]_vars
  PROVE  IInv'
<1>1. CASE UNCHANGED vars
  <2>1. OwnedBy' = OwnedBy /\ ArgOf' = ArgOf
    BY <1>1 DEF vars, OwnedBy, ArgOf
  <2> QED
    BY <1>1, <2>1 DEF vars, IInv, TypeOK, RefsAccounted, FramesOK, IdsOK
<1>2. CASE EjrNew
  BY <1>2, InvEjrNew
<1>3. CASE EjrFree
  BY <1>3, InvEjrFree
<1>4. ASSUME NEW id \in Ids, FreeJsvalue(id)
      PROVE  IInv'
  BY <1>4, InvFreeJsvalue
<1>5. ASSUME NEW id \in Ids, AwaitPromise(id)
      PROVE  IInv'
  BY <1>5, InvAwaitPromise
<1>6. CASE Begin
  BY <1>6, InvBegin
<1>7. CASE End
  BY <1>7, InvEnd
<1>8. ASSUME NEW o \in Objects, JsRetain(o)
      PROVE  IInv'
  BY <1>8, InvJsRetain
<1>9. ASSUME NEW o \in Objects, JsRelease(o)
      PROVE  IInv'
  BY <1>9, InvJsRelease
<1>10. CASE JsCatch
  BY <1>10, InvJsCatch
<1>11. CASE TrampolineLeavesError
  BY <1>11, InvTrampolineLeavesError
<1> QED
  BY <1>1, <1>2, <1>3, <1>4, <1>5, <1>6, <1>7, <1>8, <1>9, <1>10, <1>11 DEF Next

\* The invariant holds in every state a careful host can reach.
THEOREM Invariance ==
  ASSUME CarefulHost
  PROVE  Spec => []IInv
<1>1. Init => IInv
  BY InvInit
<1>2. IInv /\ [Next]_vars => IInv'
  BY InvNext
<1> QED
  BY <1>1, <1>2, PTL DEF Spec

\* The variables keep their types: in particular next_id stays within the
\* bound however calls nest.
THEOREM TypeCorrect ==
  ASSUME CarefulHost
  PROVE  Spec => []TypeOK
<1>1. IInv => TypeOK
  BY DEF IInv
<1> QED
  BY <1>1, Invariance, PTL

\* Every reference has exactly one owner, over every nesting of evaluations,
\* calls, conversions and releases, and every way they fail.
THEOREM ReferencesHaveOwners ==
  ASSUME CarefulHost
  PROVE  Spec => []RefsAccounted
<1>1. IInv => RefsAccounted
  BY DEF IInv
<1> QED
  BY <1>1, Invariance, PTL

\* No value is released more often than it was retained.
THEOREM NothingIsOverReleased ==
  ASSUME CarefulHost
  PROVE  Spec => []NoOverRelease
<1>1. IInv => NoOverRelease
  <2> SUFFICES ASSUME IInv, NEW o \in Objects
               PROVE  ref_count[o] >= 0
    BY DEF NoOverRelease
  <2>1. ref_count[o] = held[o] + Count(id_to_value, o) + Count(OwnedBy, o)
                         + Count(ArgOf, o) + Ref(current_exception, o)
    BY DEF IInv, RefsAccounted
  <2> QED
    BY <2>1, AccountTypes, RefType DEF IInv
<1> QED
  BY <1>1, Invariance, PTL

\* A value an id names is alive.
LEMMA EntriesAlive ==
  ASSUME IInv, NEW i \in Ids, id_to_value[i] \in Objects
  PROVE  ref_count[id_to_value[i]] > 0
<1> DEFINE o == id_to_value[i]
<1>1. Count(id_to_value, o) > 0
  BY Finite, CountType DEF IInv
<1>2. ref_count[o] = held[o] + Count(id_to_value, o) + Count(OwnedBy, o)
                       + Count(ArgOf, o) + Ref(current_exception, o)
  BY DEF IInv, RefsAccounted
<1> HIDE DEF o
<1>3. o \in Objects
  BY DEF o
<1>4. ref_count[o] > 0
  BY <1>1, <1>2, <1>3, AccountTypes, RefType DEF IInv
<1> QED
  BY <1>4 DEF o

\* A call never works on a value that was freed under it by a callback.
THEOREM BorrowedValuesLive ==
  ASSUME CarefulHost
  PROVE  Spec => []BorrowedAlive
<1>1. IInv => BorrowedAlive
  <2> SUFFICES ASSUME IInv, NEW d \in 1 .. depth, calls[d].obj \in Objects
               PROVE  /\ ref_count[calls[d].obj] > 0
                      /\ id_to_value[calls[d].id] = calls[d].obj
    BY DEF BorrowedAlive
  <2>1. d \in Levels
    BY Finite DEF IInv, Levels
  <2>2. calls[d].id \in Ids /\ id_to_value[calls[d].id] = calls[d].obj
    BY <2>1 DEF IInv, FramesOK
  <2> QED
    BY <2>2, EntriesAlive
<1> QED
  BY <1>1, Invariance, PTL

\* ejr_free never trips the runtime's assertion that nothing is left.
THEOREM TeardownIsClean ==
  ASSUME CarefulHost
  PROVE  Spec => []CleanTeardown
<1>1. IInv => CleanTeardown
  BY DEF IInv, CleanTeardown
<1> QED
  BY <1>1, Invariance, PTL

-----------------------------------------------------------------------------
(* The handle implements a session *)

\* What one step does to the table, whatever it does to the counts.
LEMMA TableSteps ==
  ASSUME IInv, CarefulHost, Next
  PROVE  \/ EjrNew
         \/ EjrFree
         \/ \E id \in Ids : FreeJsvalue(id)
         \/ Crash
         \/ /\ phase = "open" /\ phase' = phase /\ next_id \in Ids
            /\ \E v \in Values : AddValue(v)
         \/ phase = "open" /\ UNCHANGED <<phase, id_to_value, next_id>>
<1> DEFINE Issued == /\ phase = "open" /\ phase' = phase /\ next_id \in Ids
                     /\ \E v \in Values : AddValue(v)
           Unnoticed == phase = "open" /\ UNCHANGED <<phase, id_to_value, next_id>>
<1>1. ASSUME NEW id \in Ids, AwaitPromise(id)
      PROVE  Issued
  <2>1. PICK v \in Values : AddValue(v)
    BY <1>1 DEF AwaitPromise, Values
  <2>2. phase = "open" /\ phase' = phase /\ next_id + depth < MaxIds
    BY <1>1 DEF AwaitPromise, HostRuns, Running
  <2>3. next_id \in Ids
    BY <2>2, Finite DEF IInv, Ids
  <2> QED
    BY <2>1, <2>2, <2>3
<1>2. CASE Begin
  BY <1>2 DEF Begin, BeginEval, BeginFunctionCall, BeginClassCall, BeginGetProperty,
              BeginToString, BeginFromJsvalue, BeginConversion, CanEnter, HostRuns, Running
<1>3. ASSUME NEW ops, Inside(ops), NEW c \in Returned \cup Thrown \cup NotThrown, Return(c)
      PROVE  Issued
  <2>1. phase = "open" /\ phase' = phase /\ depth > 0 /\ AddValue(c.val)
    BY <1>3 DEF Inside, Running, Return
  <2>2. c.val \in Values /\ next_id \in Ids
    BY <2>1, Completions, InvTop DEF Completion
  <2> QED
    BY <2>1, <2>2
<1>4. CASE End
  <2>1. CASE EndEval \/ EndEvalModule \/ EndCall \/ EndGetProperty
    BY <1>3, <2>1 DEF EndEval, EndEvalModule, EndCall, EndGetProperty, PropertyOf
  <2>2. CASE LookUp \/ EndToString \/ EndFromJsvalue
    BY <2>2 DEF LookUp, EndToString, EndFromJsvalue, ReturnNothing, Inside, Running
  <2> QED
    BY <1>4, <2>1, <2>2 DEF End
<1>5. ASSUME NEW o \in Objects, JsRetain(o) \/ JsRelease(o)
      PROVE  Unnoticed
  BY <1>5 DEF JsRetain, Running, JsRelease
<1>6. CASE JsCatch \/ TrampolineLeavesError
  BY <1>6 DEF JsCatch, TrampolineLeavesError, Running
<1> QED
  BY <1>1, <1>2, <1>4, <1>5, <1>6 DEF Next

\* A freed id stays free until the session closes, so an id the host kept too
\* long never names someone else's value.
THEOREM StaleIdsAreHarmless ==
  ASSUME CarefulHost
  PROVE  Spec => StaleIdsStayDead
<1> DEFINE A == phase = "open" /\ phase' = "open" =>
                  \A i \in Ids : i < next_id /\ id_to_value[i] = Absent
                                => id_to_value'[i] = Absent
<1>1. IInv /\ [Next]_vars => [A]_vars
  <2> SUFFICES ASSUME IInv, Next, phase = "open", phase' = "open",
                      NEW i \in Ids, i < next_id, id_to_value[i] = Absent
               PROVE  id_to_value'[i] = Absent
    OBVIOUS
  <2>1. CASE \E id \in Ids : FreeJsvalue(id)
    BY <2>1 DEF FreeJsvalue, IInv, TypeOK
  <2>2. CASE next_id \in Ids /\ \E v \in Values : AddValue(v)
    <3>1. i # next_id
      BY <2>2 DEF Ids
    <3> QED
      BY <2>2, <3>1 DEF AddValue, IInv, TypeOK
  <2>3. CASE EjrNew \/ Crash \/ EjrFree
    BY <2>3 DEF EjrNew, Crash, EjrFree, Running
  <2>4. CASE UNCHANGED id_to_value
    BY <2>4
  <2> QED
    BY <2>1, <2>2, <2>3, <2>4, TableSteps
<1>2. Spec => [][A]_vars
  BY <1>1, Invariance, PTL DEF Spec
<1> QED
  BY <1>2 DEF StaleIdsStayDead

\* The abstract session's entries are all alive.
EntriesLive == \A i \in Ids : id_to_value[i] \in Objects => ref_count[id_to_value[i]] > 0

\* The invariant keeps them so.
LEMMA SessionLive == IInv => EntriesLive
BY EntriesAlive DEF EntriesLive

\* Whatever the host and the engine do behind the table is a step of the
\* session or no step at all.
LEMMA SessionNext ==
  ASSUME IInv, IInv', CarefulHost, [Next]_vars
  PROVE  [Session!Next]_(Session!vars)
<1> DEFINE Alive == {o \in Objects : ref_count[o] > 0}
<1>1. Session!Live(id_to_value', Alive')
  <2>1. EntriesLive'
    BY SessionLive, PTL
  <2> QED
    BY <2>1 DEF EntriesLive, Session!Live, Session!Ids, Ids
<1>2. Alive' \in SUBSET Objects
  OBVIOUS
<1>3. CASE UNCHANGED vars
  BY <1>3 DEF vars, Session!vars
<1>4. CASE EjrNew
  BY <1>4 DEF EjrNew, Session!Next, Session!Open
<1>5. CASE EjrFree
  <2>1. ref_count' = [o \in Objects |-> 0] /\ phase' = "none"
    BY <1>5, FreeLeavesNothing DEF EjrFree, Running
  <2>2. Alive' = {}
    BY <2>1
  <2> QED
    BY <1>5, <2>1, <2>2 DEF EjrFree, Running, Session!Next, Session!Close, Session!Ids, Ids
<1>6. ASSUME NEW id \in Ids, FreeJsvalue(id)
      PROVE  Session!Drop
  BY <1>1, <1>2, <1>6 DEF FreeJsvalue, HostRuns, Running, Session!Drop, Session!Ids, Ids
<1>7. CASE Crash
  BY <1>7 DEF Crash, Inside, Running, Session!Next, Session!Terminate
<1>8. ASSUME phase = "open", phase' = phase, next_id \in Ids, NEW v \in Values, AddValue(v)
      PROVE  Session!Issue
  <2>1. v \in Objects \cup (Values \ Objects)
    OBVIOUS
  <2> QED
    BY <1>1, <1>2, <1>8, <2>1 DEF AddValue, Session!Issue, Session!Ids, Ids
<1>9. ASSUME phase = "open", UNCHANGED <<phase, id_to_value, next_id>>
      PROVE  Session!Run
  BY <1>1, <1>2, <1>9 DEF Session!Run
<1> QED
  BY <1>3, <1>4, <1>5, <1>6, <1>7, <1>8, <1>9, TableSteps DEF Session!Next

\* A careful host sees a ValueSession.
THEOREM HandleImplementsSession ==
  ASSUME CarefulHost
  PROVE  Spec => ImplementsSession
<1>1. Init => Session!Init
  BY DEF Init, Session!Init, Session!Ids, Ids
<1>2. IInv /\ IInv' /\ [Next]_vars => [Session!Next]_(Session!vars)
  BY SessionNext
<1> QED
  BY <1>1, <1>2, Invariance, PTL DEF Spec, ImplementsSession, Session!Spec

=============================================================================
