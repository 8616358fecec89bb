----------------------------- MODULE EjrModules -----------------------------
(***************************************************************************)
(* The callbacks and native modules a host registers, and how JavaScript    *)
(* reaches them.                                                            *)
(*                                                                          *)
(* A registered C++ callback lives in one map, callbacks, under a text key.  *)
(* JavaScript sees a function object that remembers the key and looks it up  *)
(* at each call.  A global callback's function is a property of the global   *)
(* object; a module's functions wait in methods_by_module, which owns them   *)
(* until QuickJS initializes the module and its exports take them over.      *)
(*                                                                          *)
(* A function object stands for the registration that made it, so           *)
(* callbacks[key] is the function whose callback the map holds now.         *)
(***************************************************************************)
EXTENDS Integers, Sequences, FiniteSets

CONSTANTS
  Names,       \* module names
  Methods,     \* method names
  GlobalKeys,  \* names of global callbacks
  MangledKey,  \* MangledKey[n][m]: the text "__" + n + "_" + m
  RealName,    \* RealName[n]: what module_init splits off n, n itself without "::"
  Fns,         \* bound: function objects the session creates
  Defs,        \* bound: native modules (JSModuleDef) it creates
  NoFn, NoDef, \* what an absent entry holds
  MaxDepth,    \* bound: nested callbacks
  Hosts        \* the hosts there are, each the set of the rules it keeps, see AllRules

\* distinct_keys: no two registrations have the same key.
\* register_once: no module name is registered twice.
\* plain_names: no module name contains "::".
\* import_all: every registered module is imported before ejr_free.
AllRules == {"distinct_keys", "register_once", "plain_names", "import_all"}

Keys == GlobalKeys \cup {MangledKey[n][m] : n \in Names, m \in Methods}

ASSUME NamesAssumption ==
  /\ RealName \in [Names -> Names]
  /\ NoFn \notin Fns /\ NoDef \notin Defs /\ "none" \notin Keys
  /\ MaxDepth \in Nat
  /\ Hosts \subseteq SUBSET AllRules
\* Mangling keeps the methods of one module apart.
ASSUME ManglingAssumption ==
  \A n \in Names : \A m1, m2 \in Methods : MangledKey[n][m1] = MangledKey[n][m2] => m1 = m2

VARIABLES
  rules,             \* the rules this host keeps
  phase,             \* "open" or "closed"
  callbacks,         \* EasyJSR::callbacks
  fn_key,            \* the key a function object remembers, "none" before it exists
  ref_count,         \* references to a function object, the JavaScript heap's own apart
  global_fn,         \* the global object's property of that name
  methods_by_module,
  modules,           \* EasyJSR::modules
  defs,              \* each JSModuleDef: its name, own registrations, exports, status
  loaded_files,      \* names that QuickJS has a loaded JavaScript module for
  running            \* the callbacks in progress, innermost last

vars == <<rules, phase, callbacks, fn_key, ref_count, global_fn, methods_by_module, modules,
          defs, loaded_files, running>>

NoMethods == [m \in Methods |-> NoFn]
Fresh     == {f \in Fns : fn_key[f] = "none"}

Init ==
  /\ rules \in Hosts
  /\ phase = "open"
  /\ callbacks = [k \in Keys |-> NoFn]
  /\ fn_key = [f \in Fns |-> "none"]
  /\ ref_count = [f \in Fns |-> 0]
  /\ global_fn = [k \in GlobalKeys |-> NoFn]
  /\ methods_by_module = [n \in Names |-> NoMethods]
  /\ modules = [n \in Names |-> NoDef]
  /\ defs = [d \in Defs |->
       [name |-> "none", own |-> NoMethods, exports |-> NoMethods, status |-> "absent"]]
  /\ loaded_files = {}
  /\ running = <<>>

\* The places that will release f: global properties and module exports.
HeldAt(f) ==
  {<<"global", k>> : k \in {x \in GlobalKeys : global_fn[x] = f}}
    \cup {p \in Defs \X Methods : defs[p[1]].exports[p[2]] = f}

\* What JavaScript may call: it can have kept a global function of any time.
Exposed(f) ==
  \/ fn_key[f] \in GlobalKeys
  \/ \E d \in Defs, m \in Methods : defs[d].exports[m] = f

-----------------------------------------------------------------------------
(* Registration *)

\* MUTANT of CbName: the key leaves the module out.
CbNameWithoutModule(n, m) == MangledKey[CHOOSE x \in Names : TRUE][m]

CbName(n, m) == MangledKey[n][m]

KeyIsNew(k) == "distinct_keys" \in rules => callbacks[k] = NoFn

RegisterCallback(k, f) ==
  /\ phase = "open"
  /\ f \in Fresh
  /\ KeyIsNew(k)
  /\ callbacks' = [callbacks EXCEPT ![k] = f]
  /\ fn_key' = [fn_key EXCEPT ![f] = k]
  /\ ref_count' = [g \in Fns |-> CASE g = f            -> 1
                                   [] g = global_fn[k] -> ref_count[g] - 1
                                   [] OTHER            -> ref_count[g]]
  /\ global_fn' = [global_fn EXCEPT ![k] = f]
  /\ UNCHANGED <<rules, phase, methods_by_module, modules, defs, loaded_files, running>>

\* MUTANT of CreateTrampolines: a registration first forgets the callbacks of the
\* module it replaces.
CreateTrampolinesErasing(n, new) ==
  LET registered == {m \in Methods : new[m] # NoFn}
      old        == {CbName(n, m) : m \in {m \in Methods : methods_by_module[n][m] # NoFn}}
  IN /\ callbacks' = [k \in Keys |->
          IF \E m \in registered : CbName(n, m) = k
          THEN new[CHOOSE m \in registered : CbName(n, m) = k]
          ELSE IF k \in old THEN NoFn ELSE callbacks[k]]
     /\ fn_key' = [f \in Fns |->
          IF \E m \in registered : new[m] = f
          THEN CbName(n, CHOOSE m \in registered : new[m] = f) ELSE fn_key[f]]
     /\ ref_count' = [f \in Fns |->
          IF \E m \in registered : new[m] = f THEN 1 ELSE ref_count[f]]

\* create_trampoline for each method: the callback goes under its key, and
\* methods_by_module gets the one reference to the new function.
CreateTrampolines(n, new) ==
  LET registered == {m \in Methods : new[m] # NoFn}
  IN /\ callbacks' = [k \in Keys |->
          IF \E m \in registered : CbName(n, m) = k
          THEN new[CHOOSE m \in registered : CbName(n, m) = k] ELSE callbacks[k]]
     /\ fn_key' = [f \in Fns |->
          IF \E m \in registered : new[m] = f
          THEN CbName(n, CHOOSE m \in registered : new[m] = f) ELSE fn_key[f]]
     /\ ref_count' = [f \in Fns |->
          IF \E m \in registered : new[m] = f THEN 1 ELSE ref_count[f]]

\* An older registration of the name only earns a message: its functions are
\* dropped from methods_by_module without being released.  A key registered
\* before is taken over.
RegisterModule(n, d, new) ==
  LET registered == {m \in Methods : new[m] # NoFn}
  IN /\ phase = "open"
     /\ defs[d].status = "absent"
     /\ \A m \in registered : new[m] \in Fresh /\ KeyIsNew(MangledKey[n][m])
     /\ \A m1, m2 \in registered : new[m1] = new[m2] => m1 = m2
     /\ "register_once" \in rules => modules[n] = NoDef
     /\ "plain_names" \in rules => RealName[n] = n
     /\ CreateTrampolines(n, new)
     /\ methods_by_module' = [methods_by_module EXCEPT ![n] = new]
     /\ modules' = [modules EXCEPT ![n] = d]
     /\ defs' = [defs EXCEPT ![d] =
          [name |-> n, own |-> new, exports |-> NoMethods, status |-> "registered"]]
     /\ UNCHANGED <<rules, phase, global_fn, loaded_files, running>>

-----------------------------------------------------------------------------
(* Import *)

\* The loader returns a registered module; QuickJS does not ask it for a name it
\* loaded a JavaScript module for.
LinkNative(n) ==
  /\ phase = "open"
  /\ n \notin loaded_files
  /\ modules[n] # NoDef
  /\ defs[modules[n]].status = "registered"
  /\ defs' = [defs EXCEPT ![modules[n]].status = "linked"]
  /\ UNCHANGED <<rules, phase, callbacks, fn_key, ref_count, global_fn, methods_by_module,
                 modules, loaded_files, running>>

\* A file the loader read, or a module evaluated under the name.
LoadFile(n) ==
  /\ phase = "open"
  /\ n \notin loaded_files
  /\ loaded_files' = loaded_files \cup {n}
  /\ UNCHANGED <<rules, phase, callbacks, fn_key, ref_count, global_fn, methods_by_module,
                 modules, defs, running>>

\* MUTANT of RealNameOf: the other part of the mangled name.
RealNameOfOther(n) == CHOOSE x \in Names : x # RealName[n]

\* module_init finds the module's name in "<pointer>::<name>".
RealNameOf(n) == RealName[n]

\* What methods_by_module has for d, and the part of it d declares exports for.
Values(d)   == methods_by_module[RealNameOf(defs[d].name)]
Declared(d) == {m \in Methods : Values(d)[m] # NoFn /\ defs[d].own[m] # NoFn}
Refused(d)  == {m \in Methods : Values(d)[m] # NoFn /\ defs[d].own[m] = NoFn}

SetExports(d) ==
  /\ phase = "open"
  /\ defs' = [defs EXCEPT ![d].status = "evaluated",
       ![d].exports = [m \in Methods |-> IF m \in Declared(d) THEN Values(d)[m] ELSE NoFn]]
  /\ UNCHANGED <<rules, phase, callbacks, fn_key, global_fn, methods_by_module, modules,
                 loaded_files, running>>

\* MUTANT of ModuleInit: the exports take new references.
ModuleInitSharing(d) ==
  /\ defs[d].status = "linked"
  /\ ref_count' = [f \in Fns |->
       IF \E m \in Declared(d) : Values(d)[m] = f THEN ref_count[f] + 1 ELSE ref_count[f]]
  /\ SetExports(d)

\* MUTANT of ModuleInit: it runs at every import.
ModuleInitAgain(d) ==
  /\ defs[d].status \in {"linked", "evaluated"}
  /\ ref_count' = [f \in Fns |->
       IF \E m \in Methods : defs[d].exports[m] = f THEN ref_count[f] - 1 ELSE ref_count[f]]
  /\ SetExports(d)

\* The exports take over the references of methods_by_module, which keeps the
\* pointers.  A value the module declares no export for is released.  QuickJS
\* initializes a module once, after it ran the modules imported before it.
ModuleInit(d) ==
  /\ defs[d].status = "linked"
  /\ ref_count' = [f \in Fns |->
       IF \E m \in Refused(d) : Values(d)[m] = f THEN ref_count[f] - 1 ELSE ref_count[f]]
  /\ SetExports(d)

-----------------------------------------------------------------------------
(* Use *)

\* JavaScript calls a function it can reach; the trampoline looks its key up.
BeginCall(f) ==
  /\ phase = "open"
  /\ Exposed(f)
  /\ Len(running) < MaxDepth
  /\ running' = Append(running, [key |-> fn_key[f], callback |-> callbacks[fn_key[f]]])
  /\ UNCHANGED <<rules, phase, callbacks, fn_key, ref_count, global_fn, methods_by_module,
                 modules, defs, loaded_files>>

EndCall ==
  /\ running # <<>>
  /\ running' = SubSeq(running, 1, Len(running) - 1)
  /\ UNCHANGED <<rules, phase, callbacks, fn_key, ref_count, global_fn, methods_by_module,
                 modules, defs, loaded_files>>

\* MUTANT of JsReplacesGlobal: the property keeps the function it released.
JsReplacesGlobalKeeping(k) ==
  /\ phase = "open"
  /\ global_fn[k] # NoFn
  /\ ref_count' = [ref_count EXCEPT ![global_fn[k]] = @ - 1]
  /\ UNCHANGED <<rules, phase, callbacks, fn_key, global_fn, methods_by_module, modules,
                 defs, loaded_files, running>>

\* JavaScript assigns to the global name or deletes it.
JsReplacesGlobal(k) ==
  /\ phase = "open"
  /\ global_fn[k] # NoFn
  /\ ref_count' = [ref_count EXCEPT ![global_fn[k]] = @ - 1]
  /\ global_fn' = [global_fn EXCEPT ![k] = NoFn]
  /\ UNCHANGED <<rules, phase, callbacks, fn_key, methods_by_module, modules, defs,
                 loaded_files, running>>

\* JS_FreeContext releases the global object and the module exports.
EjrFree ==
  /\ phase = "open"
  /\ running = <<>>
  /\ "import_all" \in rules => \A d \in Defs : defs[d].status \in {"absent", "evaluated"}
  /\ phase' = "closed"
  /\ ref_count' = [f \in Fns |-> ref_count[f] - Cardinality(HeldAt(f))]
  /\ global_fn' = [k \in GlobalKeys |-> NoFn]
  /\ defs' = [d \in Defs |-> [defs[d] EXCEPT !.exports = NoMethods]]
  /\ UNCHANGED <<rules, callbacks, fn_key, methods_by_module, modules, loaded_files,
                 running>>

Next ==
  \/ \E k \in GlobalKeys, f \in Fns : RegisterCallback(k, f)
  \/ \E n \in Names, d \in Defs, new \in [Methods -> Fns \cup {NoFn}] : RegisterModule(n, d, new)
  \/ \E n \in Names : LinkNative(n) \/ LoadFile(n)
  \/ \E d \in Defs : ModuleInit(d)
  \/ \E f \in Fns : BeginCall(f)
  \/ EndCall
  \/ \E k \in GlobalKeys : JsReplacesGlobal(k)
  \/ EjrFree

Spec == Init /\ [][Next]_vars

-----------------------------------------------------------------------------
(* Properties *)

MaybeFn == Fns \cup {NoFn}

\* The host that keeps every rule.
CarefulHost == AllRules \subseteq rules

Types ==
  /\ phase \in {"open", "closed"}
  /\ callbacks \in [Keys -> MaybeFn]
  /\ fn_key \in [Fns -> Keys \cup {"none"}]
  /\ ref_count \in [Fns -> 0 .. 1]
  /\ global_fn \in [GlobalKeys -> MaybeFn]
  /\ methods_by_module \in [Names -> [Methods -> MaybeFn]]
  /\ modules \in [Names -> Defs \cup {NoDef}]
  /\ defs \in [Defs -> [name : Names \cup {"none"}, own : [Methods -> MaybeFn],
                        exports : [Methods -> MaybeFn],
                        status : {"absent", "registered", "linked", "evaluated"}]]
  /\ loaded_files \subseteq Names
  /\ running \in Seq([key : Keys, callback : Fns])

\* Types, under a careful host: a function object lives with one reference or none.
TypeOK == CarefulHost => Types

\* create_trampoline: "Create JS function bound to callback".  Calling a
\* function JavaScript reaches runs the callback it was made for, if the host is careful.
BoundToOwn == CarefulHost => \A f \in Fns : Exposed(f) => callbacks[fn_key[f]] = f

\* module_init gives a careful host's module its own methods, under their own names.
ExportsAreOwn == CarefulHost =>
  \A d \in Defs : phase = "open" /\ defs[d].status = "evaluated" => defs[d].exports = defs[d].own

\* Whoever will release a function of a careful host owns a reference to it.
HoldersHaveReferences == CarefulHost =>
  \A f \in Fns : Cardinality(HeldAt(f)) <= ref_count[f]

\* Whatever the host registers over, the key of a function finds a callback that
\* was registered under that key: the trampoline's "not found" is never taken.
KeysFindCallbacks == \A f \in Fns : fn_key[f] # "none" =>
  /\ callbacks[fn_key[f]] \in Fns
  /\ fn_key[callbacks[fn_key[f]]] = fn_key[f]

\* An importer's bindings do not change under it when the host registers the
\* module again.
ExportsAreFinal ==
  [][\A d \in Defs : defs[d].status = "evaluated" /\ phase' = "open" =>
       defs'[d].exports = defs[d].exports]_vars

\* A careful host leaves nothing for the assertion at the end of JS_FreeRuntime.
CleanTeardown == CarefulHost /\ phase = "closed" => \A f \in Fns : ref_count[f] = 0

=============================================================================
