-------------------------- MODULE EjrModulesProofs --------------------------
(***************************************************************************)
(* Proofs about EjrModules for every set of names, every mangling and every *)
(* bound.                                                                   *)
(***************************************************************************)
EXTENDS EjrModules, FiniteSetTheorems, SequenceTheorems, TLAPS

-----------------------------------------------------------------------------
(* Any host *)

MapsOK ==
  /\ callbacks \in [Keys -> MaybeFn]
  /\ fn_key \in [Fns -> Keys \cup {"none"}]

LEMMA KeyFacts ==
  /\ GlobalKeys \subseteq Keys
  /\ \A n \in Names, m \in Methods : MangledKey[n][m] \in Keys
  /\ "none" \notin Keys
  /\ NoFn \notin Fns
BY NamesAssumption DEF Keys

\* What the map and the new functions hold after a module's registration.
LEMMA TrampolineFacts ==
  ASSUME MapsOK, NEW n \in Names, NEW new \in [Methods -> Fns \cup {NoFn}],
         \A m \in Methods : new[m] # NoFn => new[m] \in Fresh,
         \A m1, m2 \in Methods : new[m1] # NoFn /\ new[m1] = new[m2] => m1 = m2,
         CreateTrampolines(n, new)
  PROVE  /\ MapsOK'
         /\ \A m \in Methods : new[m] # NoFn =>
              /\ callbacks'[MangledKey[n][m]] = new[m]
              /\ fn_key'[new[m]] = MangledKey[n][m]
              /\ ref_count'[new[m]] = 1
         /\ \A k \in Keys : (\A m \in Methods : new[m] # NoFn => MangledKey[n][m] # k) =>
              callbacks'[k] = callbacks[k]
         /\ \A f \in Fns : (\A m \in Methods : new[m] # f) =>
              fn_key'[f] = fn_key[f] /\ ref_count'[f] = ref_count[f]
<1> DEFINE registered == {m \in Methods : new[m] # NoFn}
<1>1. /\ callbacks' = [k \in Keys |->
            IF \E m \in registered : CbName(n, m) = k
            THEN new[CHOOSE m \in registered : CbName(n, m) = k] ELSE callbacks[k]]
      /\ fn_key' = [f \in Fns |->
            IF \E m \in registered : new[m] = f
            THEN CbName(n, CHOOSE m \in registered : new[m] = f) ELSE fn_key[f]]
      /\ ref_count' = [f \in Fns |->
            IF \E m \in registered : new[m] = f THEN 1 ELSE ref_count[f]]
  BY DEF CreateTrampolines
<1>2. \A m \in registered : /\ new[m] \in Fns
                            /\ (CHOOSE x \in registered : CbName(n, x) = CbName(n, m)) = m
                            /\ (CHOOSE x \in registered : new[x] = new[m]) = m
  <2> SUFFICES ASSUME NEW m \in registered
               PROVE  /\ new[m] \in Fns
                      /\ (CHOOSE x \in registered : CbName(n, x) = CbName(n, m)) = m
                      /\ (CHOOSE x \in registered : new[x] = new[m]) = m
    OBVIOUS
  <2>1. new[m] \in Fns
    BY DEF Fresh
  <2>2. \A x \in registered : CbName(n, x) = CbName(n, m) => x = m
    BY ManglingAssumption DEF CbName
  <2>3. \A x \in registered : new[x] = new[m] => x = m
    OBVIOUS
  <2> QED
    BY <2>1, <2>2, <2>3
<1>3. \A m \in registered : CbName(n, m) = MangledKey[n][m] /\ CbName(n, m) \in Keys
  BY KeyFacts DEF CbName
<1> HIDE DEF registered
<1>4. \A m \in registered : callbacks'[CbName(n, m)] = new[m]
  BY <1>1, <1>2, <1>3
<1>5. \A m \in registered : fn_key'[new[m]] = CbName(n, m) /\ ref_count'[new[m]] = 1
  BY <1>1, <1>2
<1>6. \A k \in Keys : (\A m \in registered : CbName(n, m) # k) => callbacks'[k] = callbacks[k]
  BY <1>1
<1>7. \A f \in Fns : (\A m \in registered : new[m] # f) =>
        fn_key'[f] = fn_key[f] /\ ref_count'[f] = ref_count[f]
  BY <1>1
<1>8. \A k \in Keys : callbacks'[k] \in MaybeFn
  <2> TAKE k \in Keys
  <2>1. CASE \E m \in registered : CbName(n, m) = k
    BY <1>2, <1>4, <2>1 DEF MaybeFn
  <2>2. CASE \A m \in registered : CbName(n, m) # k
    BY <1>6, <2>2 DEF MapsOK
  <2> QED
    BY <2>1, <2>2
<1>9. \A f \in Fns : fn_key'[f] \in Keys \cup {"none"}
  <2> TAKE f \in Fns
  <2>1. CASE \E m \in registered : new[m] = f
    BY <1>3, <1>5, <2>1
  <2>2. CASE \A m \in registered : new[m] # f
    BY <1>7, <2>2 DEF MapsOK
  <2> QED
    BY <2>1, <2>2
<1>10. MapsOK'
  BY <1>1, <1>8, <1>9 DEF MapsOK
<1>11. \A m \in Methods : m \in registered <=> new[m] # NoFn
  BY DEF registered
<1> QED
  BY <1>3, <1>4, <1>5, <1>6, <1>7, <1>10, <1>11, KeyFacts DEF registered

KeysInv == MapsOK /\ KeysFindCallbacks

LEMMA KeysInit == Init => KeysInv
BY NamesAssumption DEF Init, KeysInv, MapsOK, KeysFindCallbacks, MaybeFn

LEMMA KeysRegisterModule ==
  ASSUME KeysInv, NEW n \in Names, NEW d \in Defs, NEW new \in [Methods -> Fns \cup {NoFn}],
         RegisterModule(n, d, new)
  PROVE  KeysInv'
<1>1. /\ \A m \in Methods : new[m] # NoFn => new[m] \in Fresh
      /\ \A m1, m2 \in Methods : new[m1] # NoFn /\ new[m1] = new[m2] => m1 = m2
      /\ CreateTrampolines(n, new)
  BY DEF RegisterModule
<1>2. /\ MapsOK'
      /\ \A m \in Methods : new[m] # NoFn =>
           /\ callbacks'[MangledKey[n][m]] = new[m]
           /\ fn_key'[new[m]] = MangledKey[n][m]
      /\ \A k \in Keys : (\A m \in Methods : new[m] # NoFn => MangledKey[n][m] # k) =>
           callbacks'[k] = callbacks[k]
      /\ \A f \in Fns : (\A m \in Methods : new[m] # f) => fn_key'[f] = fn_key[f]
  BY <1>1, TrampolineFacts DEF KeysInv
<1>3. ASSUME NEW f \in Fns, fn_key'[f] # "none"
      PROVE  callbacks'[fn_key'[f]] \in Fns /\ fn_key'[callbacks'[fn_key'[f]]] = fn_key'[f]
  <2> DEFINE k == fn_key'[f]
  <2>1. k \in Keys
    BY <1>2, <1>3 DEF MapsOK
  <2>2. CASE \E m \in Methods : new[m] # NoFn /\ MangledKey[n][m] = k
    BY <1>1, <1>2, <2>2 DEF Fresh
  <2>3. CASE \A m \in Methods : new[m] # NoFn => MangledKey[n][m] # k
    <3>1. callbacks'[k] = callbacks[k]
      BY <1>2, <2>1, <2>3
    <3>2. \A m \in Methods : new[m] # f
      BY <1>2, <2>3, KeyFacts
    <3>3. fn_key[f] = k
      BY <1>2, <3>2
    <3>4. callbacks[k] \in Fns /\ fn_key[callbacks[k]] = k
      BY <1>3, <3>3 DEF KeysInv, KeysFindCallbacks
    <3>5. \A m \in Methods : new[m] # callbacks[k]
      BY <1>1, <2>1, <3>4, KeyFacts DEF Fresh
    <3> QED
      BY <1>2, <3>1, <3>4, <3>5
  <2> QED
    BY <2>2, <2>3
<1> QED
  BY <1>2, <1>3 DEF KeysInv, KeysFindCallbacks

LEMMA KeysRegisterCallback ==
  ASSUME KeysInv, NEW k \in GlobalKeys, NEW f \in Fns, RegisterCallback(k, f)
  PROVE  KeysInv'
<1>1. k \in Keys /\ k # "none" /\ fn_key[f] = "none"
  BY KeyFacts DEF RegisterCallback, Fresh
<1>2. /\ callbacks'[k] = f /\ \A x \in Keys : x # k => callbacks'[x] = callbacks[x]
      /\ fn_key'[f] = k /\ \A g \in Fns : g # f => fn_key'[g] = fn_key[g]
      /\ MapsOK'
  BY <1>1 DEF KeysInv, MapsOK, RegisterCallback, MaybeFn
<1>3. ASSUME NEW g \in Fns, fn_key'[g] # "none"
      PROVE  callbacks'[fn_key'[g]] \in Fns /\ fn_key'[callbacks'[fn_key'[g]]] = fn_key'[g]
  <2>1. CASE fn_key'[g] = k
    BY <1>2, <2>1
  <2>2. CASE fn_key'[g] # k
    <3>1. g # f /\ fn_key[g] = fn_key'[g] /\ fn_key[g] \in Keys
      BY <1>2, <1>3, <2>2 DEF KeysInv, MapsOK
    <3>2. callbacks[fn_key[g]] \in Fns /\ fn_key[callbacks[fn_key[g]]] = fn_key[g]
      BY <1>3, <3>1 DEF KeysInv, KeysFindCallbacks
    <3>3. callbacks[fn_key[g]] # f
      BY <1>1, <1>3, <3>1, <3>2
    <3> QED
      BY <1>2, <2>2, <3>1, <3>2, <3>3
  <2> QED
    BY <2>1, <2>2
<1> QED
  BY <1>2, <1>3 DEF KeysInv, KeysFindCallbacks

LEMMA KeysNext == KeysInv /\ [Next]_vars => KeysInv'
<1> SUFFICES ASSUME KeysInv, [Next]_vars PROVE KeysInv'
  OBVIOUS
<1>1. UNCHANGED <<callbacks, fn_key>> => KeysInv'
  BY DEF KeysInv, MapsOK, KeysFindCallbacks
<1> QED
  BY <1>1, KeysRegisterModule, KeysRegisterCallback
     DEF Next, vars, LinkNative, LoadFile, ModuleInit, SetExports, BeginCall, EndCall,
         JsReplacesGlobal, EjrFree

\* The trampoline finds a callback under its function's key, whatever the host
\* registered since: the branch that returns undefined is dead code.
THEOREM TrampolinesFindCallbacks == Spec => []KeysFindCallbacks
<1>1. KeysInv => KeysFindCallbacks
  BY DEF KeysInv
<1> QED
  BY <1>1, KeysInit, KeysNext, PTL DEF Spec

-----------------------------------------------------------------------------
(* Exports *)

DefsTyped ==
  /\ methods_by_module \in [Names -> [Methods -> MaybeFn]]
  /\ modules \in [Names -> Defs \cup {NoDef}]
  /\ defs \in [Defs -> [name : Names \cup {"none"}, own : [Methods -> MaybeFn],
                        exports : [Methods -> MaybeFn],
                        status : {"absent", "registered", "linked", "evaluated"}]]
  /\ \A d \in Defs : defs[d].status # "absent" => defs[d].name \in Names

\* What a step may do to the exports of an evaluated module before ejr_free.
ExportsStay ==
  \A d \in Defs : defs[d].status = "evaluated" /\ phase' = "open" =>
    defs'[d].exports = defs[d].exports

LEMMA DefsTypedInit == Init => DefsTyped
BY DEF Init, DefsTyped, NoMethods, MaybeFn

LEMMA SetExportsStep ==
  ASSUME DefsTyped, NEW d \in Defs, defs[d].status = "linked", SetExports(d)
  PROVE  DefsTyped' /\ ExportsStay
<1> DEFINE exports == [m \in Methods |-> IF m \in Declared(d) THEN Values(d)[m] ELSE NoFn]
<1>1. exports \in [Methods -> MaybeFn]
  <2>1. ASSUME NEW m \in Declared(d)
        PROVE  Values(d)[m] \in MaybeFn
    <3>1. defs[d].name \in Names
      BY DEF DefsTyped
    <3> QED
      BY <2>1, <3>1, NamesAssumption DEF DefsTyped, Declared, Values, RealNameOf
  <2> QED
    BY <2>1 DEF MaybeFn
<1> QED
  BY <1>1 DEF DefsTyped, SetExports, ExportsStay

LEMMA DefsTypedNext ==
  ASSUME DefsTyped, [Next]_vars
  PROVE  DefsTyped' /\ ExportsStay
<1>1. ASSUME NEW n \in Names, NEW d \in Defs, NEW new \in [Methods -> Fns \cup {NoFn}],
             RegisterModule(n, d, new)
      PROVE  DefsTyped' /\ ExportsStay
  BY <1>1 DEF RegisterModule, DefsTyped, ExportsStay, NoMethods, MaybeFn
<1>2. ASSUME NEW n \in Names, LinkNative(n)
      PROVE  DefsTyped' /\ ExportsStay
  BY <1>2 DEF LinkNative, DefsTyped, ExportsStay
<1>3. ASSUME NEW d \in Defs, ModuleInit(d)
      PROVE  DefsTyped' /\ ExportsStay
  BY <1>3, SetExportsStep DEF ModuleInit
<1>4. CASE EjrFree
  <2>1. NoMethods \in [Methods -> MaybeFn]
    BY DEF NoMethods, MaybeFn
  <2>2. phase' = "closed" /\ UNCHANGED <<modules, methods_by_module>>
    BY <1>4 DEF EjrFree
  <2>3. defs' = [d \in Defs |-> [defs[d] EXCEPT !.exports = NoMethods]]
    BY <1>4 DEF EjrFree
  <2> QED
    BY <2>1, <2>2, <2>3 DEF DefsTyped, ExportsStay
<1>5. CASE UNCHANGED <<defs, modules, methods_by_module>>
  BY <1>5 DEF DefsTyped, ExportsStay
<1> QED
  BY <1>1, <1>2, <1>3, <1>4, <1>5
     DEF Next, vars, RegisterCallback, LoadFile, BeginCall, EndCall, JsReplacesGlobal

\* An importer's bindings never change, whatever the host registers later.
THEOREM BindingsAreFinal == Spec => ExportsAreFinal
<1>1. DefsTyped /\ [Next]_vars => DefsTyped' /\ ExportsStay
  BY DefsTypedNext
<1>2. Spec => [][ExportsStay]_vars
  BY <1>1, DefsTypedInit, PTL DEF Spec
<1> QED
  BY <1>2 DEF ExportsAreFinal, ExportsStay

-----------------------------------------------------------------------------
(* A careful host *)

Owned(f) ==
  \/ \E k \in GlobalKeys : global_fn[k] = f
  \/ \E d \in Defs, m \in Methods : defs[d].own[m] = f

\* Each name has one definition, which owns what methods_by_module has for it.
DefsInv ==
  /\ \A n \in Names : modules[n] # NoDef =>
       defs[modules[n]].status # "absent" /\ defs[modules[n]].name = n
  /\ \A d \in Defs : defs[d].status = "absent" => defs[d].own = NoMethods
  /\ \A d \in Defs : defs[d].status # "absent" =>
       /\ defs[d].name \in Names
       /\ modules[defs[d].name] = d
       /\ RealName[defs[d].name] = defs[d].name
       /\ methods_by_module[defs[d].name] = defs[d].own
  /\ \A d \in Defs : defs[d].exports =
       IF phase = "open" /\ defs[d].status = "evaluated" THEN defs[d].own ELSE NoMethods

\* A key was registered once, by the one function that remembers it.
KeyInv ==
  /\ \A f \in Fns : fn_key[f] # "none" => callbacks[fn_key[f]] = f
  /\ \A k \in GlobalKeys : global_fn[k] # NoFn => fn_key[global_fn[k]] = k
  /\ \A d \in Defs, m \in Methods : defs[d].own[m] # NoFn =>
       fn_key[defs[d].own[m]] = MangledKey[defs[d].name][m]

\* A function has one owner, and the one reference that owner has.
OwnerInv ==
  /\ \A d1, d2 \in Defs, m1, m2 \in Methods :
       defs[d1].own[m1] # NoFn /\ defs[d1].own[m1] = defs[d2].own[m2] => d1 = d2 /\ m1 = m2
  /\ \A d \in Defs, m \in Methods, k \in GlobalKeys :
       defs[d].own[m] # NoFn => global_fn[k] # defs[d].own[m]
  /\ phase = "open" => \A f \in Fns : ref_count[f] = IF Owned(f) THEN 1 ELSE 0
  /\ phase = "closed" => /\ \A f \in Fns : ref_count[f] = 0
                         /\ \A k \in GlobalKeys : global_fn[k] = NoFn

CareInv == Types /\ DefsInv /\ KeyInv /\ OwnerInv

LEMMA CareInit == Init => CareInv
<1> SUFFICES ASSUME Init PROVE CareInv
  OBVIOUS
<1> USE NamesAssumption
<1>1. Types
  BY DEF Init, Types, NoMethods, MaybeFn
<1>2. DefsInv
  BY DEF Init, DefsInv, NoMethods
<1>3. KeyInv
  BY DEF Init, KeyInv, NoMethods
<1>4. OwnerInv
  BY DEF Init, OwnerInv, Owned, NoMethods
<1> QED
  BY <1>1, <1>2, <1>3, <1>4 DEF CareInv

\* Where the one holder of a function is.
LEMMA HeldOnce ==
  ASSUME CareInv, NEW f \in Fns
  PROVE  /\ HeldAt(f) = {} \/ \E p : HeldAt(f) = {p}
         /\ HeldAt(f) # {} => phase = "open" /\ Owned(f)
         /\ phase = "open" /\ Owned(f) /\ (\A d \in Defs : defs[d].status \in {"absent", "evaluated"})
              => HeldAt(f) # {}
<1>1. \A d \in Defs, m \in Methods : defs[d].exports[m] = f =>
        phase = "open" /\ defs[d].own[m] = f /\ f # NoFn
  BY KeyFacts DEF CareInv, DefsInv, NoMethods
<1>2. \A k \in GlobalKeys : global_fn[k] = f => phase = "open" /\ fn_key[f] = k /\ f # NoFn
  BY KeyFacts DEF CareInv, KeyInv, OwnerInv, Types
<1>3. HeldAt(f) # {} => phase = "open" /\ Owned(f)
  BY <1>1, <1>2 DEF HeldAt, Owned
<1>4. CASE \E k \in GlobalKeys : global_fn[k] = f
  <2>1. PICK k \in GlobalKeys : global_fn[k] = f
    BY <1>4
  <2>2. \A x \in GlobalKeys : global_fn[x] = f <=> x = k
    BY <1>2, <2>1
  <2>3. \A d \in Defs, m \in Methods : defs[d].exports[m] # f
    BY <1>1, <2>1 DEF CareInv, OwnerInv
  <2>4. \A p \in Defs \X Methods : defs[p[1]].exports[p[2]] # f
    BY <2>3
  <2>5. HeldAt(f) = {<<"global", k>>}
    BY <2>2, <2>4 DEF HeldAt
  <2> QED
    BY <1>3, <2>5
<1>5. CASE \A k \in GlobalKeys : global_fn[k] # f
  <2>1. HeldAt(f) = {p \in Defs \X Methods : defs[p[1]].exports[p[2]] = f}
    BY <1>5 DEF HeldAt
  <2>2. \A p, q \in Defs \X Methods :
          defs[p[1]].exports[p[2]] = f /\ defs[q[1]].exports[q[2]] = f => p = q
    <3> SUFFICES ASSUME NEW d1 \in Defs, NEW m1 \in Methods, NEW d2 \in Defs, NEW m2 \in Methods,
                        defs[d1].exports[m1] = f, defs[d2].exports[m2] = f
                 PROVE  d1 = d2 /\ m1 = m2
      OBVIOUS
    <3>1. defs[d1].own[m1] = f /\ defs[d2].own[m2] = f /\ f # NoFn
      BY <1>1
    <3> QED
      BY <3>1 DEF CareInv, OwnerInv
  <2>3. HeldAt(f) = {} \/ \E p : HeldAt(f) = {p}
    <3>1. CASE \A p \in Defs \X Methods : defs[p[1]].exports[p[2]] # f
      BY <2>1, <3>1
    <3>2. CASE \E p \in Defs \X Methods : defs[p[1]].exports[p[2]] = f
      <4>1. PICK p \in Defs \X Methods : defs[p[1]].exports[p[2]] = f
        BY <3>2
      <4>2. HeldAt(f) = {p}
        BY <2>1, <2>2, <4>1
      <4> QED
        BY <4>2
    <3> QED
      BY <3>1, <3>2
  <2>4. ASSUME phase = "open", Owned(f), \A d \in Defs : defs[d].status \in {"absent", "evaluated"}
        PROVE  HeldAt(f) # {}
    <3>1. PICK d \in Defs, m \in Methods : defs[d].own[m] = f
      BY <1>5, <2>4 DEF Owned
    <3>2. defs[d].status # "absent"
      BY <3>1, KeyFacts DEF CareInv, DefsInv, NoMethods
    <3>3. defs[d].exports[m] = f
      BY <2>4, <3>1, <3>2 DEF CareInv, DefsInv
    <3>4. <<d, m>> \in HeldAt(f)
      BY <2>1, <3>3
    <3> QED
      BY <3>4
  <2> QED
    BY <1>3, <2>3, <2>4
<1> QED
  BY <1>4, <1>5

LEMMA HeldCount ==
  ASSUME CareInv, NEW f \in Fns
  PROVE  /\ Cardinality(HeldAt(f)) <= ref_count[f]
         /\ phase = "open" /\ (\A d \in Defs : defs[d].status \in {"absent", "evaluated"})
              => Cardinality(HeldAt(f)) = ref_count[f]
<1>1. HeldAt(f) = {} => Cardinality(HeldAt(f)) = 0
  BY FS_EmptySet
<1>2. HeldAt(f) # {} => Cardinality(HeldAt(f)) = 1
  BY HeldOnce, FS_Singleton
<1>3. ref_count[f] \in 0 .. 1
  BY DEF CareInv, Types
<1>4. phase = "open" => ref_count[f] = IF Owned(f) THEN 1 ELSE 0
  BY DEF CareInv, OwnerInv
<1>5. HeldAt(f) # {} => phase = "open" /\ Owned(f)
  BY HeldOnce
<1>6. phase = "open" /\ Owned(f) /\ (\A d \in Defs : defs[d].status \in {"absent", "evaluated"})
        => HeldAt(f) # {}
  BY HeldOnce
<1> QED
  BY <1>1, <1>2, <1>3, <1>4, <1>5, <1>6

\* A function no key was given to has no owner.
LEMMA FreshUnowned ==
  ASSUME CareInv, NEW f \in Fns, fn_key[f] = "none"
  PROVE  ~Owned(f)
<1>1. \A k \in GlobalKeys : global_fn[k] # f
  BY KeyFacts DEF CareInv, KeyInv
<1>2. ASSUME NEW d \in Defs, NEW m \in Methods, defs[d].own[m] = f PROVE FALSE
  <2>1. defs[d].status # "absent"
    BY <1>2, KeyFacts DEF CareInv, DefsInv, NoMethods
  <2>2. defs[d].name \in Names
    BY <2>1 DEF CareInv, DefsInv
  <2>3. fn_key[f] = MangledKey[defs[d].name][m]
    BY <1>2, KeyFacts DEF CareInv, KeyInv
  <2> QED
    BY <2>2, <2>3, KeyFacts
<1> QED
  BY <1>1, <1>2 DEF Owned

\* Registering a global callback.
LEMMA CareRegisterCallback ==
  ASSUME CarefulHost, CareInv, NEW k \in GlobalKeys, NEW f \in Fns, RegisterCallback(k, f)
  PROVE  CareInv'
<1>1. /\ phase = "open" /\ k \in Keys /\ k # "none" /\ f # NoFn
      /\ fn_key[f] = "none" /\ callbacks[k] = NoFn
  BY KeyFacts DEF RegisterCallback, Fresh, KeyIsNew, CarefulHost, AllRules
<1>2. global_fn[k] = NoFn
  BY <1>1, KeyFacts DEF CareInv, Types, MaybeFn, KeyInv
<1>3. ~Owned(f)
  BY <1>1, FreshUnowned
<1>4. /\ callbacks'[k] = f /\ \A x \in Keys : x # k => callbacks'[x] = callbacks[x]
      /\ fn_key'[f] = k /\ \A g \in Fns : g # f => fn_key'[g] = fn_key[g]
      /\ global_fn'[k] = f /\ \A x \in GlobalKeys : x # k => global_fn'[x] = global_fn[x]
  BY <1>1 DEF CareInv, Types, RegisterCallback
<1>5. ref_count'[f] = 1 /\ \A g \in Fns : g # f => ref_count'[g] = ref_count[g]
  BY <1>1, <1>2, KeyFacts DEF RegisterCallback
<1>6. UNCHANGED <<phase, methods_by_module, modules, defs, loaded_files, running>>
  BY DEF RegisterCallback
<1>7. Types'
  <2>1. callbacks' \in [Keys -> MaybeFn] /\ fn_key' \in [Fns -> Keys \cup {"none"}]
        /\ global_fn' \in [GlobalKeys -> MaybeFn]
    BY <1>1 DEF CareInv, Types, RegisterCallback, MaybeFn
  <2>2. DOMAIN ref_count' = Fns /\ ref_count' = [g \in Fns |-> ref_count'[g]]
    BY DEF RegisterCallback
  <2>3. \A g \in Fns : ref_count'[g] \in 0 .. 1
    BY <1>5 DEF CareInv, Types
  <2>4. ref_count' \in [Fns -> 0 .. 1]
    BY <2>2, <2>3
  <2> QED
    BY <1>6, <2>1, <2>4 DEF CareInv, Types
<1>8. DefsInv'
  BY <1>6 DEF CareInv, DefsInv, NoMethods
<1>9. KeyInv'
  <2>1. \A d \in Defs, m \in Methods : defs[d].own[m] # f
    BY <1>3 DEF Owned
  <2>2. \A d \in Defs, m \in Methods : defs[d].own[m] \in MaybeFn
    BY DEF CareInv, Types
  <2>3. \A x \in GlobalKeys : global_fn[x] \in MaybeFn /\ global_fn[x] # f
    BY <1>3 DEF CareInv, Types, Owned
  <2>4. \A g \in Fns : fn_key'[g] # "none" => callbacks'[fn_key'[g]] = g
    <3> TAKE g \in Fns
    <3>1. CASE g = f
      BY <1>4, <3>1
    <3>2. CASE g # f
      BY <1>1, <1>4, <3>2, KeyFacts DEF CareInv, Types, KeyInv
    <3> QED
      BY <3>1, <3>2
  <2>5. \A x \in GlobalKeys : global_fn'[x] # NoFn => fn_key'[global_fn'[x]] = x
    BY <1>4, <2>3 DEF CareInv, KeyInv, MaybeFn
  <2>6. \A d \in Defs, m \in Methods : defs[d].own[m] # NoFn =>
          fn_key'[defs[d].own[m]] = MangledKey[defs[d].name][m]
    BY <1>4, <2>1, <2>2 DEF CareInv, KeyInv, MaybeFn
  <2> QED
    BY <1>6, <2>4, <2>5, <2>6 DEF KeyInv
<1>10. OwnerInv'
  <2>1. \A g \in Fns : g # f => (Owned(g)' <=> Owned(g))
    BY <1>2, <1>4, <1>6, KeyFacts DEF Owned
  <2>2. Owned(f)'
    BY <1>4 DEF Owned
  <2>3. \A g \in Fns : ref_count'[g] = IF Owned(g)' THEN 1 ELSE 0
    BY <1>1, <1>5, <2>1, <2>2 DEF CareInv, OwnerInv
  <2>4. \A d \in Defs, m \in Methods, x \in GlobalKeys :
          defs[d].own[m] # NoFn => global_fn'[x] # defs[d].own[m]
    BY <1>3, <1>4 DEF CareInv, OwnerInv, Owned
  <2> QED
    BY <1>1, <1>6, <2>3, <2>4 DEF CareInv, OwnerInv
<1> QED
  BY <1>7, <1>8, <1>9, <1>10 DEF CareInv

\* Registering a module.
LEMMA CareRegisterModule ==
  ASSUME CarefulHost, CareInv, NEW n \in Names, NEW d \in Defs,
         NEW new \in [Methods -> Fns \cup {NoFn}], RegisterModule(n, d, new)
  PROVE  CareInv'
<1>1. /\ phase = "open" /\ defs[d].status = "absent" /\ modules[n] = NoDef /\ RealName[n] = n
      /\ \A m \in Methods : new[m] # NoFn => new[m] \in Fns /\ fn_key[new[m]] = "none"
                                             /\ callbacks[MangledKey[n][m]] = NoFn
      /\ \A m1, m2 \in Methods : new[m1] # NoFn /\ new[m1] = new[m2] => m1 = m2
      /\ \A m \in Methods : new[m] # NoFn => new[m] \in Fresh
      /\ CreateTrampolines(n, new)
  BY DEF RegisterModule, Fresh, KeyIsNew, CarefulHost, AllRules
<1>2. /\ MapsOK'
      /\ \A m \in Methods : new[m] # NoFn =>
           /\ callbacks'[MangledKey[n][m]] = new[m]
           /\ fn_key'[new[m]] = MangledKey[n][m]
           /\ ref_count'[new[m]] = 1
      /\ \A k \in Keys : (\A m \in Methods : new[m] # NoFn => MangledKey[n][m] # k) =>
           callbacks'[k] = callbacks[k]
      /\ \A f \in Fns : (\A m \in Methods : new[m] # f) =>
           fn_key'[f] = fn_key[f] /\ ref_count'[f] = ref_count[f]
  <2>1. MapsOK
    BY DEF CareInv, Types, MapsOK
  <2> QED
    BY <1>1, <2>1, TrampolineFacts
<1>3. UNCHANGED <<phase, global_fn, loaded_files, running>>
  BY DEF RegisterModule
<1>4. /\ modules'[n] = d /\ \A x \in Names : x # n => modules'[x] = modules[x]
      /\ methods_by_module'[n] = new
      /\ \A x \in Names : x # n => methods_by_module'[x] = methods_by_module[x]
      /\ modules' \in [Names -> Defs \cup {NoDef}]
      /\ methods_by_module' \in [Names -> [Methods -> MaybeFn]]
  BY DEF CareInv, Types, RegisterModule, MaybeFn
<1>5. /\ defs'[d] = [name |-> n, own |-> new, exports |-> NoMethods, status |-> "registered"]
      /\ \A x \in Defs : x # d => defs'[x] = defs[x]
      /\ defs' = [x \in Defs |-> defs'[x]]
  BY DEF CareInv, Types, RegisterModule
<1>6. \A m \in Methods : new[m] # NoFn => ~Owned(new[m])
  BY <1>1, FreshUnowned
<1>7. Types'
  <2>1. ref_count' \in [Fns -> 0 .. 1]
    <3>1. ref_count' = [f \in Fns |-> ref_count'[f]]
      BY <1>1 DEF CreateTrampolines
    <3>2. \A f \in Fns : ref_count'[f] \in 0 .. 1
      <4> TAKE f \in Fns
      <4>1. CASE \A m \in Methods : new[m] # f
        BY <1>2, <4>1 DEF CareInv, Types
      <4>2. CASE \E m \in Methods : new[m] = f
        BY <1>2, <4>2, KeyFacts
      <4> QED
        BY <4>1, <4>2
    <3> QED
      BY <3>1, <3>2
  <2>2. defs'[d] \in [name : Names \cup {"none"}, own : [Methods -> MaybeFn],
                      exports : [Methods -> MaybeFn],
                      status : {"absent", "registered", "linked", "evaluated"}]
    BY <1>5 DEF MaybeFn, NoMethods
  <2>3. defs' \in [Defs -> [name : Names \cup {"none"}, own : [Methods -> MaybeFn],
                            exports : [Methods -> MaybeFn],
                            status : {"absent", "registered", "linked", "evaluated"}]]
    BY <1>5, <2>2 DEF CareInv, Types
  <2> QED
    BY <1>2, <1>3, <1>4, <2>1, <2>3 DEF CareInv, Types, MapsOK
<1>8. DefsInv'
  <2>1. \A x \in Defs : x # d /\ defs[x].status # "absent" => defs[x].name # n
    BY <1>1, NamesAssumption DEF CareInv, DefsInv
  <2>2. \A x \in Names : modules[x] # d
    BY <1>1, NamesAssumption DEF CareInv, DefsInv
  <2>3. \A x \in Names : modules'[x] # NoDef =>
          defs'[modules'[x]].status # "absent" /\ defs'[modules'[x]].name = x
    <3> TAKE x \in Names
    <3>1. CASE x = n
      BY <1>4, <1>5, <3>1
    <3>2. CASE x # n
      <4>1. modules'[x] = modules[x] /\ modules[x] # d /\ modules[x] \in Defs \cup {NoDef}
        BY <1>4, <2>2, <3>2 DEF CareInv, Types
      <4> QED
        BY <1>5, <4>1 DEF CareInv, DefsInv
    <3> QED
      BY <3>1, <3>2
  <2>4. \A x \in Defs : defs'[x].status = "absent" => defs'[x].own = NoMethods
    BY <1>5 DEF CareInv, DefsInv
  <2>5. \A x \in Defs : defs'[x].status # "absent" =>
          /\ defs'[x].name \in Names
          /\ modules'[defs'[x].name] = x
          /\ RealName[defs'[x].name] = defs'[x].name
          /\ methods_by_module'[defs'[x].name] = defs'[x].own
    <3> TAKE x \in Defs
    <3>1. CASE x = d
      BY <1>1, <1>4, <1>5, <3>1
    <3>2. CASE x # d
      BY <1>4, <1>5, <2>1, <3>2 DEF CareInv, DefsInv
    <3> QED
      BY <3>1, <3>2
  <2>6. \A x \in Defs : defs'[x].exports =
          IF phase = "open" /\ defs'[x].status = "evaluated" THEN defs'[x].own ELSE NoMethods
    BY <1>5 DEF CareInv, DefsInv
  <2> QED
    BY <1>3, <2>3, <2>4, <2>5, <2>6 DEF DefsInv, NoMethods
<1>9. KeyInv'
  <2>1. \A k \in GlobalKeys, m \in Methods : new[m] # NoFn => new[m] # global_fn[k]
    BY <1>6 DEF Owned
  <2>2. \A x \in Defs, i, m \in Methods : new[m] # NoFn => new[m] # defs[x].own[i]
    BY <1>6 DEF Owned
  <2>3. ASSUME NEW f \in Fns, fn_key'[f] # "none" PROVE callbacks'[fn_key'[f]] = f
    <3>1. CASE \E m \in Methods : new[m] = f
      BY <1>2, <3>1, KeyFacts
    <3>2. CASE \A m \in Methods : new[m] # f
      <4>1. fn_key'[f] = fn_key[f] /\ callbacks[fn_key[f]] = f /\ fn_key[f] \in Keys
        BY <1>2, <2>3, <3>2 DEF CareInv, Types, KeyInv
      <4>2. \A m \in Methods : new[m] # NoFn => MangledKey[n][m] # fn_key[f]
        BY <1>1, <4>1, KeyFacts
      <4> QED
        BY <1>2, <4>1, <4>2
    <3> QED
      BY <3>1, <3>2
  <2>4. \A k \in GlobalKeys : global_fn[k] # NoFn => fn_key'[global_fn[k]] = k
    <3> TAKE k \in GlobalKeys
    <3> HAVE global_fn[k] # NoFn
    <3>1. global_fn[k] \in Fns /\ \A m \in Methods : new[m] # global_fn[k]
      BY <2>1 DEF CareInv, Types, MaybeFn
    <3> QED
      BY <1>2, <3>1 DEF CareInv, KeyInv
  <2>5. \A x \in Defs, m \in Methods : defs'[x].own[m] # NoFn =>
          fn_key'[defs'[x].own[m]] = MangledKey[defs'[x].name][m]
    <3> TAKE x \in Defs, m \in Methods
    <3> HAVE defs'[x].own[m] # NoFn
    <3>1. CASE x = d
      BY <1>2, <1>5, <3>1
    <3>2. CASE x # d
      <4>1. defs'[x] = defs[x] /\ defs[x].own[m] \in Fns /\ \A i \in Methods : new[i] # defs[x].own[m]
        BY <1>5, <2>2, <3>2 DEF CareInv, Types, MaybeFn
      <4> QED
        BY <1>2, <4>1 DEF CareInv, KeyInv
    <3> QED
      BY <3>1, <3>2
  <2> QED
    BY <1>3, <2>3, <2>4, <2>5 DEF KeyInv
<1>10. OwnerInv'
  <2>1. \A x \in Defs, m \in Methods : defs'[x].own[m] = IF x = d THEN new[m] ELSE defs[x].own[m]
    BY <1>5
  <2>2. \A m \in Methods : defs[d].own[m] = NoFn
    BY <1>1 DEF CareInv, DefsInv, NoMethods
  <2>3. \A f \in Fns : (\A m \in Methods : new[m] # f) => (Owned(f)' <=> Owned(f))
    BY <1>3, <2>1, <2>2, KeyFacts DEF Owned
  <2>4. \A m \in Methods : new[m] # NoFn => Owned(new[m])'
    BY <2>1 DEF Owned
  <2>5. \A f \in Fns : ref_count'[f] = IF Owned(f)' THEN 1 ELSE 0
    <3> TAKE f \in Fns
    <3>1. CASE \A m \in Methods : new[m] # f
      BY <1>1, <1>2, <2>3, <3>1 DEF CareInv, OwnerInv
    <3>2. CASE \E m \in Methods : new[m] = f
      BY <1>2, <2>4, <3>2, KeyFacts
    <3> QED
      BY <3>1, <3>2
  <2>6. \A d1, d2 \in Defs, m1, m2 \in Methods :
          defs'[d1].own[m1] # NoFn /\ defs'[d1].own[m1] = defs'[d2].own[m2] => d1 = d2 /\ m1 = m2
    <3>1. \A x \in Defs, i, m \in Methods : new[m] # NoFn => new[m] # defs[x].own[i]
      BY <1>6 DEF Owned
    <3>2. \A d1, d2 \in Defs, m1, m2 \in Methods :
            defs[d1].own[m1] # NoFn /\ defs[d1].own[m1] = defs[d2].own[m2] => d1 = d2 /\ m1 = m2
      BY DEF CareInv, OwnerInv
    <3> QED
      BY <1>1, <2>1, <3>1, <3>2
  <2>7. \A x \in Defs, m \in Methods, k \in GlobalKeys :
          defs'[x].own[m] # NoFn => global_fn[k] # defs'[x].own[m]
    <3>1. \A k \in GlobalKeys, m \in Methods : new[m] # NoFn => new[m] # global_fn[k]
      BY <1>6 DEF Owned
    <3>2. \A x \in Defs, m \in Methods, k \in GlobalKeys :
            defs[x].own[m] # NoFn => global_fn[k] # defs[x].own[m]
      BY DEF CareInv, OwnerInv
    <3> QED
      BY <2>1, <3>1, <3>2
  <2> QED
    BY <1>1, <1>3, <2>5, <2>6, <2>7 DEF OwnerInv
<1> QED
  BY <1>7, <1>8, <1>9, <1>10 DEF CareInv

\* Import: linking reads what registration made.
LEMMA CareLinkNative ==
  ASSUME CareInv, NEW n \in Names, LinkNative(n)
  PROVE  CareInv'
<1> DEFINE d == modules[n]
<1>1. /\ phase = "open" /\ d \in Defs /\ defs[d].status = "registered"
      /\ UNCHANGED <<phase, callbacks, fn_key, ref_count, global_fn, methods_by_module, modules,
                     loaded_files, running>>
  BY DEF LinkNative, CareInv, Types
<1>2. /\ defs'[d] = [defs[d] EXCEPT !.status = "linked"]
      /\ \A x \in Defs : x # d => defs'[x] = defs[x]
      /\ defs' = [x \in Defs |-> defs'[x]]
  BY <1>1 DEF CareInv, Types, LinkNative
<1>3. defs[d] \in [name : Names \cup {"none"}, own : [Methods -> MaybeFn],
                   exports : [Methods -> MaybeFn],
                   status : {"absent", "registered", "linked", "evaluated"}]
  BY <1>1 DEF CareInv, Types
<1>4. \A x \in Defs : /\ defs'[x].name = defs[x].name /\ defs'[x].own = defs[x].own
                      /\ defs'[x].exports = defs[x].exports
                      /\ x # d => defs'[x].status = defs[x].status
  BY <1>2, <1>3
<1>5. defs'[d].status = "linked"
  BY <1>2, <1>3
<1> HIDE DEF d
<1>6. Types'
  <2>1. \A x \in Defs : defs'[x] \in [name : Names \cup {"none"}, own : [Methods -> MaybeFn],
                                      exports : [Methods -> MaybeFn],
                                      status : {"absent", "registered", "linked", "evaluated"}]
    <3>1. defs'[d] = [name |-> defs[d].name, own |-> defs[d].own, exports |-> defs[d].exports,
                      status |-> "linked"]
      BY <1>2, <1>3
    <3>2. defs'[d] \in [name : Names \cup {"none"}, own : [Methods -> MaybeFn],
                        exports : [Methods -> MaybeFn],
                        status : {"absent", "registered", "linked", "evaluated"}]
      BY <1>3, <3>1
    <3> QED
      BY <1>2, <3>2 DEF CareInv, Types
  <2>2. defs' \in [Defs -> [name : Names \cup {"none"}, own : [Methods -> MaybeFn],
                            exports : [Methods -> MaybeFn],
                            status : {"absent", "registered", "linked", "evaluated"}]]
    BY <1>2, <2>1
  <2> QED
    BY <1>1, <2>2 DEF CareInv, Types
<1>7. DefsInv'
  <2>1. \A x \in Defs : defs'[x].status = "absent" <=> defs[x].status = "absent"
    BY <1>1, <1>4, <1>5
  <2>2. \A x \in Defs : defs'[x].status = "evaluated" <=> defs[x].status = "evaluated"
    BY <1>1, <1>4, <1>5
  <2>3. \A x \in Names : modules[x] \in Defs \cup {NoDef}
    BY DEF CareInv, Types
  <2> QED
    BY <1>1, <1>4, <2>1, <2>2, <2>3 DEF CareInv, DefsInv, NoMethods
<1>8. KeyInv'
  BY <1>1, <1>4 DEF CareInv, KeyInv
<1>9. OwnerInv'
  BY <1>1, <1>4 DEF CareInv, OwnerInv, Owned
<1> QED
  BY <1>6, <1>7, <1>8, <1>9 DEF CareInv

\* Initialization hands every function of the module over, and refuses none.
LEMMA CareModuleInit ==
  ASSUME CareInv, NEW d \in Defs, ModuleInit(d)
  PROVE  CareInv'
<1>1. /\ phase = "open" /\ defs[d].status = "linked"
      /\ UNCHANGED <<phase, callbacks, fn_key, global_fn, methods_by_module, modules, loaded_files,
                     running>>
  BY DEF ModuleInit, SetExports
<1>2. Values(d) = defs[d].own
  BY <1>1 DEF CareInv, DefsInv, Values, RealNameOf
<1>3. defs[d] \in [name : Names \cup {"none"}, own : [Methods -> MaybeFn],
                   exports : [Methods -> MaybeFn],
                   status : {"absent", "registered", "linked", "evaluated"}]
  BY DEF CareInv, Types
<1>4. [m \in Methods |-> IF m \in Declared(d) THEN Values(d)[m] ELSE NoFn] = defs[d].own
  BY <1>2, <1>3 DEF Declared
<1>5. /\ defs'[d] = [defs[d] EXCEPT !.status = "evaluated", !.exports = defs[d].own]
      /\ \A x \in Defs : x # d => defs'[x] = defs[x]
      /\ defs' = [x \in Defs |-> defs'[x]]
  BY <1>4 DEF CareInv, Types, ModuleInit, SetExports
<1>6. ref_count' = ref_count
  <2>1. Refused(d) = {}
    BY <1>2 DEF Refused
  <2>2. ref_count' = [f \in Fns |-> ref_count[f]]
    BY <2>1 DEF ModuleInit
  <2> QED
    BY <2>2 DEF CareInv, Types
<1>7. \A x \in Defs : /\ defs'[x].name = defs[x].name /\ defs'[x].own = defs[x].own
                      /\ x # d => defs'[x].status = defs[x].status /\ defs'[x].exports = defs[x].exports
  <2>1. defs'[d].name = defs[d].name /\ defs'[d].own = defs[d].own
    BY <1>3, <1>5
  <2>2. \A x \in Defs : x # d => defs'[x] = defs[x]
    BY <1>5
  <2> QED
    BY <2>1, <2>2
<1>8. defs'[d].status = "evaluated" /\ defs'[d].exports = defs[d].own
  BY <1>3, <1>5
<1>9. Types'
  <2>1. \A x \in Defs : defs'[x] \in [name : Names \cup {"none"}, own : [Methods -> MaybeFn],
                                      exports : [Methods -> MaybeFn],
                                      status : {"absent", "registered", "linked", "evaluated"}]
    <3>1. defs'[d] \in [name : Names \cup {"none"}, own : [Methods -> MaybeFn],
                        exports : [Methods -> MaybeFn],
                        status : {"absent", "registered", "linked", "evaluated"}]
      BY <1>3, <1>5
    <3>2. \A x \in Defs : x # d => defs'[x] = defs[x]
      BY <1>5
    <3> QED
      BY <3>1, <3>2 DEF CareInv, Types
  <2> QED
    BY <1>1, <1>5, <1>6, <2>1 DEF CareInv, Types
<1>10. DefsInv'
  <2>1. \A x \in Defs : defs'[x].status = "absent" <=> defs[x].status = "absent"
    BY <1>1, <1>7, <1>8
  <2>2. \A x \in Names : modules[x] \in Defs \cup {NoDef}
    BY DEF CareInv, Types
  <2>3. \A x \in Defs : defs'[x].exports =
          IF phase = "open" /\ defs'[x].status = "evaluated" THEN defs'[x].own ELSE NoMethods
    BY <1>1, <1>7, <1>8 DEF CareInv, DefsInv
  <2> QED
    BY <1>1, <1>7, <2>1, <2>2, <2>3 DEF CareInv, DefsInv, NoMethods
<1>11. KeyInv'
  BY <1>1, <1>7 DEF CareInv, KeyInv
<1>12. OwnerInv'
  BY <1>1, <1>6, <1>7 DEF CareInv, OwnerInv, Owned
<1> QED
  BY <1>9, <1>10, <1>11, <1>12 DEF CareInv

LEMMA CareBeginCall ==
  ASSUME CareInv, NEW f \in Fns, BeginCall(f)
  PROVE  CareInv'
<1>1. /\ running' = Append(running, [key |-> fn_key[f], callback |-> callbacks[fn_key[f]]])
      /\ UNCHANGED <<phase, callbacks, fn_key, ref_count, global_fn, methods_by_module, modules,
                     defs, loaded_files>>
  BY DEF BeginCall
<1>2. fn_key[f] # "none"
  BY FreshUnowned, KeyFacts DEF BeginCall, Exposed, Owned, CareInv, DefsInv, NoMethods
<1>3. fn_key[f] \in Keys /\ callbacks[fn_key[f]] = f
  BY <1>2 DEF CareInv, Types, KeyInv
<1>4. [key |-> fn_key[f], callback |-> callbacks[fn_key[f]]] \in [key : Keys, callback : Fns]
  BY <1>3
<1>5. running \in Seq([key : Keys, callback : Fns])
  BY DEF CareInv, Types
<1>6. running' \in Seq([key : Keys, callback : Fns])
  BY <1>1, <1>4, <1>5
<1>7. Types'
  BY <1>1, <1>6 DEF CareInv, Types
<1> QED
  BY <1>1, <1>7 DEF CareInv, DefsInv, KeyInv, OwnerInv, Owned, NoMethods

LEMMA CareEndCall ==
  ASSUME CareInv, EndCall
  PROVE  CareInv'
<1>1. /\ running # <<>> /\ running' = SubSeq(running, 1, Len(running) - 1)
      /\ UNCHANGED <<phase, callbacks, fn_key, ref_count, global_fn, methods_by_module, modules,
                     defs, loaded_files>>
  BY DEF EndCall
<1>2. running \in Seq([key : Keys, callback : Fns])
  BY DEF CareInv, Types
<1>3. running' \in Seq([key : Keys, callback : Fns])
      /\ \A i \in DOMAIN running' : i \in DOMAIN running /\ running'[i] = running[i]
  <2> DEFINE Frame == [key : Keys, callback : Fns]
  <2> HIDE DEF Frame
  <2>1. running \in Seq(Frame)
    BY <1>2 DEF Frame
  <2>2. Len(running) \in Nat /\ Len(running) > 0 /\ DOMAIN running = 1 .. Len(running)
    BY <1>1, <2>1
  <2>3. Len(running) - 1 \in Int /\ \A i \in 1 .. Len(running) - 1 : running[i] \in Frame
    BY <2>1, <2>2, ElementOfSeq
  <2>4. /\ SubSeq(running, 1, Len(running) - 1) \in Seq(Frame)
        /\ Len(SubSeq(running, 1, Len(running) - 1)) = Len(running) - 1
        /\ \A i \in 1 .. Len(running) - 1 : SubSeq(running, 1, Len(running) - 1)[i] = running[i]
    BY <2>1, <2>2
  <2>5. DOMAIN running' = 1 .. Len(running) - 1
    BY <1>1, <2>2, <2>4
  <2> QED
    BY <1>1, <2>2, <2>4, <2>5 DEF Frame
<1>4. Types'
  BY <1>1, <1>3 DEF CareInv, Types
<1> QED
  BY <1>1, <1>4 DEF CareInv, DefsInv, KeyInv, OwnerInv, Owned, NoMethods

\* The global object drops its function with the function's one reference.
LEMMA CareJsReplacesGlobal ==
  ASSUME CareInv, NEW k \in GlobalKeys, JsReplacesGlobal(k)
  PROVE  CareInv'
<1>0. PICK f \in Fns : f = global_fn[k] /\ f # NoFn
  BY DEF JsReplacesGlobal, CareInv, Types, MaybeFn
<1>1. /\ phase = "open"
      /\ UNCHANGED <<phase, callbacks, fn_key, methods_by_module, modules, defs, loaded_files,
                     running>>
  BY DEF JsReplacesGlobal
<1>2. /\ global_fn'[k] = NoFn /\ \A x \in GlobalKeys : x # k => global_fn'[x] = global_fn[x]
      /\ global_fn' \in [GlobalKeys -> MaybeFn]
  BY DEF JsReplacesGlobal, CareInv, Types, MaybeFn
<1>3. Owned(f) /\ ref_count[f] = 1
  BY <1>0, <1>1 DEF Owned, CareInv, OwnerInv
<1>4. ref_count' = [g \in Fns |-> IF g = f THEN 0 ELSE ref_count[g]]
  <2>1. ref_count' = [ref_count EXCEPT ![f] = @ - 1]
    BY <1>0 DEF JsReplacesGlobal
  <2>2. ref_count = [g \in Fns |-> ref_count[g]]
    BY DEF CareInv, Types
  <2> QED
    BY <1>3, <2>1, <2>2
<1>5. \A x \in GlobalKeys : x # k => global_fn[x] # f
  BY <1>0 DEF CareInv, KeyInv
<1>6. \A d \in Defs, m \in Methods : defs[d].own[m] # f
  BY <1>0 DEF CareInv, OwnerInv
<1>7. Types'
  <2>1. ref_count' \in [Fns -> 0 .. 1]
    BY <1>4 DEF CareInv, Types
  <2> QED
    BY <1>1, <1>2, <2>1 DEF CareInv, Types
<1>8. ~Owned(f)'
  BY <1>0, <1>1, <1>2, <1>5, <1>6 DEF Owned
<1>9. \A g \in Fns : g # f => (Owned(g)' <=> Owned(g))
  BY <1>0, <1>1, <1>2, KeyFacts DEF Owned
<1>10. OwnerInv'
  <2>1. \A g \in Fns : ref_count'[g] = IF Owned(g)' THEN 1 ELSE 0
    BY <1>1, <1>4, <1>8, <1>9 DEF CareInv, OwnerInv
  <2>2. \A d \in Defs, m \in Methods, x \in GlobalKeys :
          defs[d].own[m] # NoFn => global_fn'[x] # defs[d].own[m]
    BY <1>2 DEF CareInv, OwnerInv
  <2> QED
    BY <1>1, <2>1, <2>2 DEF CareInv, OwnerInv
<1>11. DefsInv'
  BY <1>1 DEF CareInv, DefsInv, NoMethods
<1>12. KeyInv'
  BY <1>1, <1>2 DEF CareInv, KeyInv
<1> QED
  BY <1>7, <1>10, <1>11, <1>12 DEF CareInv

\* ejr_free releases each function where it is held, and each is held.
LEMMA CareEjrFree ==
  ASSUME CarefulHost, CareInv, EjrFree
  PROVE  CareInv'
<1>1. /\ phase = "open" /\ phase' = "closed" /\ running = <<>>
      /\ \A d \in Defs : defs[d].status \in {"absent", "evaluated"}
      /\ UNCHANGED <<callbacks, fn_key, methods_by_module, modules, loaded_files, running>>
  BY DEF EjrFree, CarefulHost, AllRules
<1>2. ref_count' = [f \in Fns |-> 0]
  <2>1. \A f \in Fns : ref_count[f] - Cardinality(HeldAt(f)) = 0
    <3> TAKE f \in Fns
    <3>1. Cardinality(HeldAt(f)) = ref_count[f]
      BY <1>1, HeldCount
    <3>2. ref_count[f] \in 0 .. 1
      BY DEF CareInv, Types
    <3> QED
      BY <3>1, <3>2
  <2>2. ref_count' = [f \in Fns |-> ref_count[f] - Cardinality(HeldAt(f))]
    BY DEF EjrFree
  <2> QED
    BY <2>1, <2>2
<1>3. global_fn' = [k \in GlobalKeys |-> NoFn]
  BY DEF EjrFree
<1>4. /\ defs' = [x \in Defs |-> defs'[x]]
      /\ \A x \in Defs : defs'[x] = [defs[x] EXCEPT !.exports = NoMethods]
  BY DEF EjrFree
<1>5. \A x \in Defs : defs[x] \in [name : Names \cup {"none"}, own : [Methods -> MaybeFn],
                                   exports : [Methods -> MaybeFn],
                                   status : {"absent", "registered", "linked", "evaluated"}]
  BY DEF CareInv, Types
<1>6. \A x \in Defs : /\ defs'[x].name = defs[x].name /\ defs'[x].own = defs[x].own
                      /\ defs'[x].status = defs[x].status /\ defs'[x].exports = NoMethods
  BY <1>4, <1>5
<1>7. Types'
  <2>1. NoMethods \in [Methods -> MaybeFn]
    BY DEF NoMethods, MaybeFn
  <2>2. \A x \in Defs : defs'[x] \in [name : Names \cup {"none"}, own : [Methods -> MaybeFn],
                                      exports : [Methods -> MaybeFn],
                                      status : {"absent", "registered", "linked", "evaluated"}]
    BY <1>4, <1>5, <2>1
  <2>3. ref_count' \in [Fns -> 0 .. 1] /\ global_fn' \in [GlobalKeys -> MaybeFn]
    BY <1>2, <1>3 DEF MaybeFn
  <2> QED
    BY <1>1, <1>4, <2>2, <2>3 DEF CareInv, Types
<1>8. DefsInv'
  <2>1. \A x \in Names : modules[x] \in Defs \cup {NoDef}
    BY DEF CareInv, Types
  <2> QED
    BY <1>1, <1>6, <2>1 DEF CareInv, DefsInv, NoMethods
<1>9. KeyInv'
  BY <1>1, <1>3, <1>6 DEF CareInv, KeyInv
<1>10. OwnerInv'
  BY <1>1, <1>2, <1>3, <1>6 DEF CareInv, OwnerInv
<1> QED
  BY <1>7, <1>8, <1>9, <1>10 DEF CareInv

LEMMA CareNext ==
  ASSUME CarefulHost, CareInv, [Next]_vars
  PROVE  CareInv'
<1>1. ASSUME NEW n \in Names, LoadFile(n) PROVE CareInv'
  BY <1>1 DEF LoadFile, CareInv, Types, DefsInv, KeyInv, OwnerInv, Owned, NoMethods
<1>2. CASE UNCHANGED vars
  BY <1>2 DEF vars, CareInv, Types, DefsInv, KeyInv, OwnerInv, Owned, NoMethods
<1> QED
  BY <1>1, <1>2, CareRegisterCallback, CareRegisterModule, CareLinkNative, CareModuleInit,
     CareBeginCall, CareEndCall, CareJsReplacesGlobal, CareEjrFree DEF Next

LEMMA RulesStay == [Next]_vars => rules' = rules
BY DEF Next, vars, RegisterCallback, RegisterModule, LinkNative, LoadFile, ModuleInit, SetExports,
       BeginCall, EndCall, JsReplacesGlobal, EjrFree

\* The invariant holds while the host keeps every rule.
THEOREM CareInvariance == Spec => [](CarefulHost => CareInv)
<1>1. Init => (CarefulHost => CareInv)
  BY CareInit
<1>2. (CarefulHost => CareInv) /\ [Next]_vars => (CarefulHost => CareInv)'
  BY CareNext, RulesStay DEF CarefulHost
<1> QED
  BY <1>1, <1>2, PTL DEF Spec

\* Types and counts for every instance: a function object never has more than the
\* one reference it was made with.
THEOREM TypeCorrect == Spec => []TypeOK
<1>1. (CarefulHost => CareInv) => TypeOK
  BY DEF CareInv, TypeOK
<1> QED
  BY <1>1, CareInvariance, PTL

\* Under a careful host, a function JavaScript can call runs the callback it was
\* made for, over every order of registrations, imports and nested calls.
THEOREM FunctionsStayBound == Spec => []BoundToOwn
<1>1. ASSUME CareInv, NEW f \in Fns, Exposed(f) PROVE callbacks[fn_key[f]] = f
  <2>1. fn_key[f] # "none"
    BY <1>1, FreshUnowned, KeyFacts DEF Exposed, Owned, CareInv, DefsInv, NoMethods
  <2> QED
    BY <1>1, <2>1 DEF CareInv, KeyInv
<1>2. (CarefulHost => CareInv) => BoundToOwn
  BY <1>1 DEF BoundToOwn
<1> QED
  BY <1>2, CareInvariance, PTL

\* A careful host's module exports the functions registered under its own name.
THEOREM ModulesExportTheirOwn == Spec => []ExportsAreOwn
<1>1. (CarefulHost => CareInv) => ExportsAreOwn
  BY DEF CareInv, DefsInv, ExportsAreOwn
<1> QED
  BY <1>1, CareInvariance, PTL

\* Under a careful host, every place that will release a function has a reference to release.
THEOREM EveryHolderHasAReference == Spec => []HoldersHaveReferences
<1>1. (CarefulHost => CareInv) => HoldersHaveReferences
  BY HeldCount DEF HoldersHaveReferences
<1> QED
  BY <1>1, CareInvariance, PTL

\* When the host was careful and every registered module imported, ejr_free releases every function.
THEOREM TeardownIsClean == Spec => []CleanTeardown
<1>1. (CarefulHost => CareInv) => CleanTeardown
  BY DEF CareInv, OwnerInv, CleanTeardown
<1> QED
  BY <1>1, CareInvariance, PTL

=============================================================================
