# EasyJSR in TLA+

EasyJSR (ejr) lets a C or C++ program run JavaScript with QuickJS.  It is a
C++ class, `EasyJSR` (`src/src/ejr_cpp_api.cpp`), and a C API over it
(`src/src/ejr_c_api.cpp`, `src/include/ejr.h`) that never shows the host a
JavaScript value, only an integer id for one.  This directory holds TLA+ models
of both and of the parts of the engine (`src/lib/quickjs.c`) that they depend on
most, the TLC runs that check them on small instances, and proofs, checked by
TLAPS, for instances of every size.

Nothing in the program is concurrent in the sense of threads.  What makes it
hard is **re-entrancy**: evaluating JavaScript may call a native callback, the
callback may call the same API on the same handle, and the outer call goes on
afterwards with whatever it had read before.  On top of that comes **manual
ownership** in three places that do not know of each other (QuickJS reference
counts, the id table, the `JSArg` objects of the C API) and **one error slot**
shared by everything.  Inside the engine it is the same: the cycle collector
takes reference counts apart while it moves objects between lists, module
bodies run in the middle of the traversals that order them, and promises put
off what is to be done into a **queue of jobs** that somebody else has to run.

## 1. Inventory

| Component | State it keeps | Operations | Models |
|---|---|---|---|
| Handle and value table (`EasyJSRHandle`, `JSValueAD`) | `id_to_value`, `next_id`; through them QuickJS reference counts | `ejr_new`, `ejr_free`, `ejr_free_jsvalue`, `add_value`, `get` | `EjrHandle`, `ValueSession` |
| Evaluation and calls (`EasyJSR::eval*`, `get_*`) | references a call owns while it runs | `ejr_eval_script`, `_module`, `_function`, `_class_function`, `ejr_get_from_global`, `ejr_get_property_from` | `EjrHandle`; failures in `EjrErrors` |
| Pending exception | one slot of the runtime | throw, catch, `clean_js_value`, `ejr_val_to_string`, `ejr_await_promise` | `EjrErrors`, `EjrHandle` |
| Callback registry | `callbacks` by text key; function objects that remember a key | `ejr_register_callback`, `create_trampoline`, the trampoline | `EjrModules` |
| Native modules, module loader | `modules`, `methods_by_module`; QuickJS's own module list | `ejr_register_module`, `js_module_loader`, `module_init`, `~EasyJSR` | `EjrModules` |
| C-side arguments | heap objects `JSArg`, C arrays, argument lists | `jsarg_*`, the wrappers around C callbacks | `EjrArgs` |
| Conversions (`to_js`, `from_js`, `jsarg_to_ejr`, `ejr_to_jsarg`) | none | | `EjrConversions`; ownership and failures in `EjrArgs`, `EjrErrors` |
| Promises, the API's side | what an await answered | `ejr_await_promise`, the result of `ejr_eval_module` | `EjrPromises`; the reason of a rejection in `EjrErrors`, the reference in `EjrHandle` |
| Promises and jobs (engine) | promise states and reactions, resolving functions, `job_list` | resolve, reject, `then`, async functions, `JS_ExecutePendingJob` | `EjrPromises` |
| Module linking and evaluation (engine) | `JSModuleDef` fields, the traversals on the C stack | `js_link_module`, `js_evaluate_module`, top level await, the two reports | `QjsModuleGraph` |
| Memory (engine) | counts, `gc_obj_list`, `tmp_obj_list`, `gc_zero_ref_count_list`, marks, weak counts | `JS_FreeValue`, `free_zero_refcount`, `JS_RunGC`, `WeakRef` | `QjsGc`, `QjsHeap` |
| File loader hook | a C function and its opaque pointer | `ejr_set_file_loader` | found or missing only |
| `EJRValue` and plain C++ data | a copied `JSValue` | `EJRValue::free` | not modelled |
| String helpers (`utils.cpp`, `jsarg_to_string`), `main.cpp`, tests, examples, scripts | | | not modelled: text functions, and hosts of the API |
| The rest of QuickJS (`src/lib/`) | | | not modelled: see section 7 |

How they interact.  The host calls the C API; the C API calls `EasyJSR`;
`EasyJSR` calls QuickJS; QuickJS calls back the trampoline of a registered
function or the module loader; the trampoline calls the C wrapper
(`ejr_register_callback`), which calls the host; the host may call the C API
again.  All of this is one stack on one thread.  The components share the
runtime's exception slot and its reference counts.

What makes each correct:

* **Table and calls**: every reference has exactly one owner who will release
  it; a value is not freed under a call that works on it; an id names one value
  until it is freed and nothing after; `ejr_free` leaves nothing for the
  assertion at the end of `JS_FreeRuntime` (`src/lib/quickjs.c:1985`).
* **Errors**: the id of a failure tells that failure's error and no other one's;
  what was thrown is told through one id and does not come back; the reason of a
  rejected promise is told by the ids that stand for it, and by no other.
* **Callbacks and modules**: a function runs the callback it was made for; a
  module exports its own methods, and an importer's bindings do not change; functions
  have one owner up to teardown.
* **Arguments**: each `JSArg` has one owner, is freed once, and is not used
  afterwards, however calls and callbacks nest.
* **Conversions**: a number is the same number in JavaScript; what comes back
  is a function of what was passed, and passing it on changes nothing more.
* **Promises**: one chance to settle each promise, no promise forgotten, each
  reaction run once and in order, each awaiting function resumed once.
* **Module graph**: a module runs once and after what it imports, whatever is
  suspended; an answer about a module is true of the whole graph; failures
  reach every importer; whoever waits does so for a body that can still report;
  the engine's assertions hold.
* **Memory**: exactly the garbage goes, once, in whatever order the lists are
  visited; counts are whole again after each collection.

The hazards these properties are for are listed line by line in `PROJECT.json`
("hazards").

## 2. The modules

    ValueSession                      what a handle promises (abstract)
       ^ refined by
    EjrHandle  --- EjrHandleMC        table, references, nested calls
       ^------ EjrHandleProofs
    EjrErrors  --- EjrErrorsMC        the one exception slot, seen from the ids
       ^------ EjrErrorsProofs
    EjrModules --- EjrModulesMC       callbacks, modules, loader
       ^------ EjrModulesProofs
    EjrArgs    --- EjrArgsMC          ownership of JSArg objects
       ^------ EjrArgsProofs
    EjrConversions --- EjrConversionsMC    values there and back
       ^------ EjrConversionsProofs
    EjrPromises    --- EjrPromisesMC       promises, jobs, awaiting
       ^------ EjrPromisesProofs
    QjsModuleGraph --- QjsModuleGraphMC    linking and evaluation of modules
       ^------ QjsModuleGraphInvariant     the inductive invariant and the effects of steps
                  ^------ QjsModuleGraphProofs
    QjsHeap                           what the engine's heap promises (abstract)
       ^ refined by
    QjsGc      --- QjsGcMC            counts, collector, weak references
       ^------ QjsGcProofs

`X` is the model of the code, `XMC` adds only what TLC needs (symmetry, values
of constants), `XProofs` extends `X` with theorems (`QjsModuleGraphProofs` by way
of a module of definitions).  Definitions marked
`MUTANT of D` are variants of `D` with a plausible bug; no specification uses
them, and each makes one property of one run fail, which shows that the
property depends on that code.

The modules meet where one component's promise is another's assumption.  What
`EjrHandle` calls JavaScript's own references (`held`) is what `QjsGc` counts;
`EjrModules` imports a module in the one order that `QjsModuleGraph` shows the
engine takes (each body once, after its imports); the error slot that
`EjrHandle` accounts for is the one `EjrErrors` follows; and `EjrConversions`
says what the values are that `EjrArgs` moves around.

### EjrHandle

One handle.  `ref_count` is what QuickJS counts for each heap cell, `held` the
part of it that JavaScript itself owns; a cell whose count is 0 may be handed
out again, as `malloc` does.  `id_to_value` and `next_id` are `JSValueAD`'s
fields; `current_exception` is the runtime's slot.  A C call that can run
JavaScript is two actions, `Begin...` and `End...`, with a frame on `calls`
between them; `Frames` records what the C++ locals hold: the value copied out
of the table without a reference (`obj`), the function or exception the call
owns (`own`), the converted argument (`arg`).  Between the two actions the
host, running in a callback, may do anything the API allows, `ejr_free` of the
whole handle excepted.  A call that cannot reach JavaScript is one action.

What JavaScript computes is a free choice: a call ends in `Returned`, `Thrown`
or `NotThrown`, with any value it could have obtained.  `JsRetain`,
`JsRelease` and `JsCatch` are JavaScript's own steps inside a call, and
`TrampolineLeavesError` is the conversion of a callback's argument that leaves a
`TypeError` in the slot.  `Settle`
is the one place where references are taken and released, so that each action
names exactly what its code frees.

`Crash` is `val_to_string` when a `toString` throws: `JS_ToCString` answers
null, `std::string(nullptr)` throws, and the process ends.

### EjrErrors

The same table seen by a host that wants to know what failed.  The table holds
`JS_EXCEPTION` for a failure, which carries no error; `clean_js_value` takes
whatever the slot holds when the id is converted.  `cause` and `reported` are
history variables: which error an id's evaluation ended with and what its
conversions told.  Errors that were in the slot are numbered in the order they are
thrown, since the properties only ask which error is which.  A nested evaluation is an
evaluation that ends before the one around it, so no frames are needed.

`RunsJS` is what JavaScript may leave in the slot: what was there, nothing, or a
new error.  The last happens in a call that *succeeds*, too: when JavaScript passes
a plain object to a callback, the trampoline's `from_js` asks
`JS_GetTypedArrayBuffer`, which throws, and nobody takes the error (`cpp:270`,
`315-318`).  So every action that runs JavaScript has it.

`Reasons` are the errors that promises keep.  They do not pass through
the slot: `ejr_eval_module` and `ejr_await_promise` make an id for the reason itself (`"reason"`), the latter as often as it is asked
to, and several promises may share one.  `EvalPromise` is an evaluation whose value
is a promise, `PromiseRejects` its rejection by whatever JavaScript runs next.

`broken` remembers which rules of section 3 the host has broken so far
(`HostTurns` is its part of each action), so one specification covers every
host and the properties say what depends on which rule.

### EjrModules

`callbacks` maps text keys to C++ callbacks.  A trampoline keeps the *key* and
looks it up at each call (late binding), so `fn_key[f]` and `callbacks[key]`
are separate.  Keys of module methods are `"__" + module + "_" + method`;
the text itself is data, so the constant `MangledKey` says which key each pair
gets, with the one assumption that holds for every text (two methods of one
module differ), and `RealName` says what `module_init` splits off a name.
`LinkNative`, `LoadFile` and `ModuleInit` are the steps of an import that a
QuickJS of this version takes in that order, in between other modules.
`ModuleInit` hands the references in `methods_by_module` over to the exports
and leaves the pointers behind, as the code does.  `rules` is what this host keeps
to, fixed at the start: `Hosts` says which hosts there are, and `CarefulHost` is the
one that keeps all rules of section 3.

### EjrArgs

The C++ heap of `JSArg`s: `kind` says what an object is and whether it was
allocated or freed, `items`, `capacity` and `slots` are the arrays and lists,
`loose` are the `JSArg`s that nothing else holds, `lost` those of them that the
host has no pointer to any more, `stack` the calls and callbacks in progress.
`Dying` is what `jsarg_free` deletes: everything reachable through C arrays.
`FreesOnce` says whether that recursion meets an object twice or a dead one.
`EndCall` is the `jsarg_free_all` at the end of a call; `EndCallback` frees
the result and then the arguments, as the two wrappers do.  The first
undefined behaviour or exception is recorded in `fault` and ends the session.

`Roots` is what somebody can still get at: the host (`Held`), a callback's frame
(`InFrames`), or a list (`InLists`).  The host hands over, frees and returns only
what it owns, except that it may do what a text or a signature of the library
leads it to.  `strayed` remembers which of these it has done:

| Straying | What the host follows | What the code does |
|---|---|---|
| `overwrites_slot` | `README.md:49-51` assigns slot 0 of a fresh list | `jsarg_make_list` put an undefined `JSArg` there (`c_api:624`) |
| `args_freed` | "args are freed during this call" (`ejr.h:472`) | the early return keeps them (`c_api:909`) |
| `frees_again` | `README.md:61` frees the list after the call | the call freed it (`c_api:867`) |
| `adds_to_list` | `jsarg_add_to_list` "Add a JSArg to a JSArg**" (`ejr.h:402`) | it returns when both pointers are valid (`c_api:649`) |
| `returns_argument` | a callback's type lets it return an argument | the wrapper frees result and arguments (`c_api:994-1000`) |

The first four are `Documented`; run `args_documented` has a behaviour with all of
them in which each text's promise is refuted (`ListsAsDocumented`).  The safety
properties of run `args` hold of hosts that stray, too, as far as that can be:
`NothingUnreachable` says that nothing is lost but what the host threw away, and
`MemorySafe` excepts the three that break memory (`Breaking`).

### EjrConversions

A value goes from the host to JavaScript (`ToEjr`: `jsarg_to_ejr`, then `ToJs`:
`ejr::to_js`) and comes back (`FromJs`: `ejr::from_js`, then `ToJsarg`:
`ejr_to_jsarg`), up to `MaxTrips` times; a script may also hand out a value of
its own.  What the host passes and what scripts make are the constants `HostArgs`
and `JsMade`, any sets of well formed values.  A value is a function from
positions to parts: `<<>>` is the whole value and `<<2, 1>>` the first item of its
second item.  The code's recursion over nested arrays visits each position once,
so `ToEjr`, `ToJs`, `FromJs` and `ToJsarg` apply `PartToEjr` and so on at each; a C++
exception at one position goes through to the caller (`OrThrows`).  Numbers are modelled bit by bit at a small width: an `int` of `W`
bits, an `int64_t` of `2W`, a double as sign, exponent code and `M` fraction
bits, with the code's own constants as functions of these.  `NewFloat64` is the
choice of `JS_NewFloat64` between an int and a double, `ToInt32` the shifts of
`JS_ToInt32Free`, with `Pow2` for the powers of two; `Nearest` (round to nearest,
ties to even) and `Truncated` are the arithmetic definitions of the casts that C
makes, and `Comes` is the conversion there and back in one step.  Texts are members of
a small set, cut at the first NUL.

### EjrPromises

`rt` is the engine's part of the runtime (promise states, results, reactions,
pairs of resolving functions that were not used yet, `job_list`), and each
engine function is an operator from a runtime to the next: `Settle`
(`fulfill_or_reject_promise`), `Resolve` (`js_promise_resolve_function...`),
`PerformThen`, `RunJob`.  `frames` are the JavaScript calls in progress, `held`
the resolving functions JavaScript was given, `visible` its promises.  In a
frame JavaScript does one thing per step (`JsResolves`, `JsThen`,
`JsCallsAsync`, `JsAwaitsPromise`, `JsAwaitsOther`, `JsEnds`), so the calls of
thenables, handlers and async bodies interleave as real programs can make them.
`AwaitPromise` is `ejr_await_promise`, `ModuleAnswers` the end of
`ejr_eval_module`, and `ExecuteJob` is `JS_ExecutePendingJob`, which happens only
when `Drains`: ejr calls it nowhere, so a host of the C API cannot make it happen, and
no property assumes that anybody does.  `answer` is what `ejr_eval_module` or
`ejr_await_promise` just told.
`rt.on`, `rt.adopts` and `ran` are history: who registered what, who was
resolved with whom, and what ran.

### QjsModuleGraph

`mod[m]` has the fields of `JSModuleDef` that evaluation uses (`status`,
`dfs_index`, `dfs_ancestor_index`, `cycle_root`, the pending dependencies, the
async parents, the error, the promise).  `calls` are the traversals on the C
stack: `link` and `eval` with their own frames and stack (Tarjan's algorithm),
and `exec`, the list of importers that a report made available.  A body runs in
the middle of a traversal; one with a top level await suspends, and its end is
a report in `jobs` (`RunFulfilled`, `RunRejected`).  `asserts` becomes false when
a step meets a state that an `assert` of the code excludes.  With `Reentry` a
body calls a native function that evaluates another module, which
`ejr_eval_module` allows.

The two recursions of the reports are stated by what they reach.  `Told` is
the set of modules a failure gets to, the least one closed under "waits for"
(`Closure`); `List` is the least set of modules that have nothing left to wait
for once `Sources`, the modules gone through, have told their importers, and
`Gathered` counts each importer down by its `Entries` in their lists.  The order in which the code
visits them shows nowhere else, since the list is sorted by time stamp before
it is executed (`Sorted`).

`Traversal` is the C code between two bodies, `Engine` that and the ends of bodies,
`PendingJob` what happens in a program that runs the pending jobs.

### QjsGc and QjsHeap

Every object is in one of the runtime's lists (`place`), with its count, weak
count and mark.  `refs` and `handles` are who refers to it; `weak` is the target
of a weak reference.  `Values` are freed through `gc_zero_ref_count_list`, one
step of the cascade at a time (`FreeZero`); `Parts` (variable references, shapes)
are freed with their last owner.  The collector is one action per visited
object, in any order: `GcDecref`, `GcScan`, `GcRestore`, `GcFreeCycles`,
`GcSetAside`, then `GcSweep`; `pc` and `left` say which loop is running and whom
it has still to visit, `NextLoop` goes on to the next.  `Live` maps this to
`QjsHeap`, where objects simply disappear in sets that nothing living refers to.

## 3. What the host must do

The API does not enforce what its safety depends on.  Each model names these
conditions: members of the constant `HostRules` in `EjrHandle`, of `AllRules` in
`EjrErrors` and `EjrModules`.  A property, a run or a theorem says which it assumes;
`convert_twice` shows what fails without, and `KeysFindCallbacks` and
`ExportsAreFinal` what holds of any host.

| Rule | Module | Why it is needed |
|---|---|---|
| `plain_conversions` | EjrHandle | `jsarg_from_jsvalue` releases a value and keeps its id (`ejr_c_api.cpp:617`), so it must be used only on values without a count |
| `no_release_in_use` | EjrHandle | the outer call works on a borrowed value (`:906`) |
| `read_at_once` | EjrErrors | the slot is overwritten by the next failure |
| `plain_conversions` | EjrErrors | a conversion of the host's own that fails leaves an error that no id stands for; that of a callback's argument does so too, and no rule excludes it |
| `distinct_keys` | EjrModules | functions find their callback by key |
| `register_once`, `plain_names` | EjrModules | methods are looked up by the module's name at its first import |
| `import_all` | EjrModules | nothing but an import releases a module's functions |

In `EjrErrors` the rules are not assumed but watched (`broken`), in `EjrArgs` the
ways to stray (`strayed`, section 2).  `distinct_keys` also keeps a callback from
registering its own key while it runs, which destroys the `std::function` it is in
(`ejr_cpp_api.cpp:616`): nothing in the code prevents that, so no property is
claimed about it.

## 4. The runs

| Run | Instance | Result |
|---|---|---|
| `handle` | 2 cells, 4 ids, nesting 2, one reference of the JavaScript heap per cell; both rules | references accounted, borrowed values alive, refines `ValueSession`: no abort at teardown, no stale id that names something again |
| `convert_twice` | 2 cells, 2 ids, nesting 1; without `plain_conversions` | **violates** `NoOverRelease` |
| `errors` | 3 ids, 3 errors, 2 reasons, any host | until a rule is broken every failure tells its own error and no other evaluation's; always, an error of the slot is told through one id only and never returns, a reason only by ids that stand for it |
| `modules` | 3 names, 2 methods, 4 functions, 2 definitions, nesting 2; a host with all rules and one with none | with all: own callbacks, own exports, one owner, clean teardown; with any: a key always finds a callback registered under it, and exports never change |
| `args` | 4 `JSArg`s, 2 lists, 2 slots, nesting 3; a host that strays as it likes | one owner each, none lost but by the host itself, no double free or use after free unless the host breaks memory |
| `args_documented` | 4 `JSArg`s, 2 lists, nesting 1; the same hosts | **violates** `ListsAsDocumented` |
| `conversions` | ints of 5 bits, doubles with 7 fraction bits and exponent codes 0..15; every scalar, and arrays of up to three items, nested once; 2 trips | numbers exact, `ToInt32` modular, what comes back is `Comes`, and it is stable |
| `promises` | 3 promises, 2 reactions, 1 thenable each, nesting 2; pending jobs run at any time, or never | one chance per promise, none forgotten, reactions once and in order, one resume, adopted outcomes |
| `await_early` | 2 promises, 2 reactions, nesting 2; the host of `ejr.h` | **violates** `AwaitWaits` |
| `module_graph` | every graph of 3 modules with up to 2 imports, up to renaming, and one that imports itself; every set of modules with a top level await; every failure | imports first, answers true of the whole graph, bodies once, no wakeup lost, assertions hold, and every traversal ends |
| `reentry` | 2 modules, one imports the other, with `Reentry` | **violates** `AssertsHold` |
| `gc` | 3 values, 1 part, 1 handle each, 3 references | counts exact, nothing dangling, exactly the garbage goes, assertions hold, refines `QjsHeap`, and every collection ends |

What the violating runs show is described under "findings" in `PROJECT.json`,
with the line that says otherwise.  `handle` does not list what its refinement
implies: `ValueSession` has no way to abort and never rebinds an id.

`TypeOK` is a conjunct of `OneChance`, `LinkedTogether`, `CountsExact` and
`NumbersExact` in the four newer models.

**Deadlock** is checked in the two runs of `QjsModuleGraph`, where a call or a
job can always go on, and the host evaluate again.  Elsewhere a process that ended (an assertion, an
exception, `ejr_free`) really stops, and so does a session that has used up the
bounded ids, objects or promises.

**Bounds.**  Every bound is a constant marked `bound` in its module.  Two cells
are enough for one value to be freed and its cell reused while another is
alive, four ids for a call, the callback in it and two values around them, and
nesting 2 for a callback that frees or replaces what the outer call uses: a
third level relates to the second as the second to the first, since a frame
only ever touches its own references and the table.  Three errors are needed to
see a lost one, its replacement and the one that is told instead; two reasons to
tell one that two promises share from another's.  The names
`a`, `a_b` and `a::x` with methods `c` and `b_c` contain both accidents the
mangling allows (`__a_b_c` twice; a name that splits to another).  Four
`JSArg`s make an array with two items in a list, or two nested calls each with
an argument, a callback result and one more; nesting 3 is a call, a callback in
it, and a call in that.  In `EjrArgs` a converted value has at most one array,
of leaves; arrays of arrays come from `AddValueToCArray`.  The theorems of
section 5 do not depend on any bound.

Three promises are a promise, the thenable or promise it is resolved with, and
one derived from it by `then`; two reactions are needed for an order, and a
chain of 1 for a thenable's pair next to the first pair.  Three modules make
chains, two importers of one module, cycles with an importer outside, and two
cycles that share a module; a graph that is equal up to renaming behaves alike.
`NoWakeupLost` excepts the modules of a cycle that failed, and that exception
only takes effect from four modules on: in a cycle of two, one module waits for a
third and the other for a fourth.  When the third fails, so does the cycle, and
`gather_available_ancestors` passes over the module that waits for the fourth
(`!m->cycle_root->eval_has_exception`), which then keeps the status
`evaluating_async`.  Its promise, if it has one, is that of the cycle's root and
is settled.  The run itself stays at three modules.  Three
values and a part make a cycle of two with a weak reference from outside or from
inside it, a cycle through a closure's variable, and garbage that refers to
something that stays; the visiting order is free, so the small number hides no
order.  The widths of `conversions` satisfy the relations of the real ones
(`W <= M < 2W`: every int is a double and not every `int64_t` is; exponents reach
beyond the modulus), which are assumptions of the module, so each case of the
shifts and of rounding occurs.

**Fairness.**  The C API has none: what its host does next is the host's choice,
and so is how long a script runs or whether a body returns.  Nothing in `src/src`
calls `JS_ExecutePendingJob` and the C API gives the host no way to, so no run
assumes that a pending job is ever executed; what is waiting for one may wait for
ever, and the properties about promises and waiting modules are safety properties
(`NoPromiseForgotten`, `NoWakeupLost`: what waits has something to wait for).  Two
specifications state fairness, both of loops that run on inside one C call:

* `QjsModuleGraph.FairSpec`: `WF(Traversal)`, the recursions of linking and
  evaluation and the loop over the modules made available go on to the next body or
  to their end.
* `QjsGc.FairSpec`: `WF(Engine)`, the loops of a collection run to their end
  before any JavaScript does.

**Refinements.**  `ImplementsSession` (`EjrHandle` refines `ValueSession`) and
`ImplementsHeap` (`QjsGc` refines `QjsHeap`); both are also proved.

## 5. What is proved

The theorems hold for every value of the constants that satisfies the
`ASSUME`s of their module (bounds are natural numbers, sentinels differ from
values, `RealName` is a function, mangling is injective per module, the numbers
have the proportions of the program's, what a host passes is well formed).

**EjrHandleProofs**, assuming `CarefulHost` (both host rules).  Every property
of run `handle` is proved.  The inductive invariant `IInv` adds to `TypeOK` and
`RefsAccounted` what the properties alone do not say: a frame borrows only the
value its id still names (`FramesOK`), there is room left for the id each call
in progress will issue, and ids not yet issued name nothing (`IdsOK`).
Without `FramesOK`, a callback could free the receiver of the outer call;
without `IdsOK`, a return could fall off the table.  The accounting itself
rests on three lemmas about `Count` (`CountType`, `CountNone`, `CountUpdate`),
and each action's proof is one use of them.  From `IInv` follow
`ReferencesHaveOwners`, `NothingIsOverReleased`, `BorrowedValuesLive`,
`TeardownIsClean`, `StaleIdsAreHarmless`, and `HandleImplementsSession`: the
refinement of `ValueSession`, where each action maps to one abstract step or
to a stutter, and the only part that needs work is that a value an id names is
alive.

`NothingIsOverReleased`, `TeardownIsClean` and `StaleIdsAreHarmless` state what
run `handle` leaves to `RefsAccounted` and to the refinement.

**EjrErrorsProofs.**  No theorem needs an assumption about the host.  The
invariant `IInv` says that the slot holds the newest error or none and that nobody
was told a pending one yet (`SlotInv`), and that reasons are apart from all of it
(`ReasonInv`).  `OwnErrorReported` is about the time before the first broken rule; its
invariant `CareInv` says that until then the only unread failure is the newest id,
that the slot holds its error if it ended with one, and that no error an evaluation
ended with is in the slot otherwise: an error left behind by a conversion is in
nobody's `cause`.

**EjrModulesProofs.**  `TrampolinesFindCallbacks` and `BindingsAreFinal` hold for
any host, the second by the types of the module definitions alone (`DefsTyped`).
The others are about `CarefulHost`, as their properties say: `CareInv` joins what each definition exports and
owns (`DefsInv`), one function per key (`KeyInv`), one owner and one reference
per function (`OwnerInv`).

**EjrArgsProofs.**  Every property of run `args`, for any number of `JSArg`s,
lists and nested calls.  The invariant `IInv` adds to the properties that owners
form a forest (`Owned`: the host, each frame, each list and each array own
disjoint sets of live objects) and what lists and frames look like (`Shape`).
The properties speak of reachability, so the proof rests on a few lemmas about
`Tree`: a tree is closed, trees of distinct roots are disjoint in a forest, and
deleting the tree of a root removes every place its members had.  From these
each action is a change of one owner.  `Kept` says that a host which does not stray
loses nothing; the theorems hold for every host.  `MemorySafe`, `NothingUnreachable` and
`OwnedOnce` follow (`NothingFreedTwice`, `NothingLeaked`, `OneOwner`).

**QjsGcProofs.**  Every safety property of run `gc`, for any number of values,
parts and references; the only assumptions are those of `QjsGc`.  The properties
are about the program's view, and between two steps of a collection the counts
deliberately leave references out, so the invariant `IInv` says for each value
of `pc` which references are counted (`RefCounts(S)`: those of the members of
`S`) and what the lists and marks look like:

* at rest and in a cascade (`CascadeInv`), all of them; what lives has a count
  above 0 and what lives refers only to what lives;
* in the first loop (`DecrefInv`), those of the objects still to visit, and an
  object waits in `tmp_obj_list` when none of these refers to it;
* in the second (`ScanInv`), those of the objects visited and brought back, all
  of which a handle reaches;
* in the third (`RestoreInv`), the garbage's own references return one object at
  a time; the living list is closed (`Separate`);
* while the garbage is freed (`FreeInv`), all of them again; a part of the garbage
  is still counted by some value of it, which is why the last assertion holds
  (`OnlyStructures`: at the end only freed values are left to sweep).

The counting rests on lemmas that say how a count changes when one object gives
up, gains or clears references (`NGivesUp`, `NAdds`, `NOneMore`, `WClears`), the
reachability on `Reachable` being the least closed set that holds the handles'
targets (`ReachableLeast`, `ReachableSupported`, `ReachableKept`).  Then
`QjsCountsExact`, `QjsNoDangling`, `QjsOnlyGarbageGoes`, `QjsAssertsHold` follow
from `IInv`, and `RuntimeImplementsHeap` is the refinement: a step of the
cascade frees only what nothing that lives refers to, the garbage goes in a single abstract step when
the third loop ends, and every other step of a loop is a stutter.

**EjrPromisesProofs**.  Every safety property of run `promises`, for any number of
promises, reactions, nested calls and scripts, with `ExecuteJob` at any time; the
only assumptions are those of `EjrPromises`.  The invariant `IInv` has two parts.

* `Sound`: what the engine's own state looks like between two steps.  A pending
  promise has one chance to be settled, an unused pair or a thenable job
  (`Chances`); a reaction waits at the promise it was registered for, in the
  order of the tickets, and only at a pending one (`Waiting`); a queued job
  carries the outcome of its promise, and the queue has the order of the tickets
  (`Queued`); a promise that adopts another one is told by a queued job or by a
  waiting reaction, or already has its outcome (`Follower`).  `TicketsInv` adds
  the history: every ticket given out is waiting, queued or ran, and what ran,
  ran before what is still queued for the same promise.
* `Hands`: each unused pair that no reaction claims is held by JavaScript or by
  exactly one call in progress.  Without it, a call could settle a promise a
  second time, or an async function could be resumed by two reactions.

The proof goes in two stages.  A first set of lemmas says what each function of
the engine changes, field by field (`Makes`, `Fulfils`, `Follows`, `Registers`,
`Queues`, `Drops`, `Takes`); a second set shows that each of these changes keeps
each part of the invariant (`...Core`, `...Adopts`, `...Claimed`, `...Tickets`),
and an action is a sequence of them.

**QjsModuleGraphInvariant, QjsModuleGraphProofs.**  Every safety property of run
`module_graph`, for any finite set of modules, any import lists, any failures and
any order in which bodies end, under one hypothesis: `Reentry = FALSE`, no body
evaluates a module.  It cannot be dropped, as run `reentry` shows.  The invariant
`IInv` has three parts.

* `Shaped`: types, and that there is one call at most.
* `WalkInv`: the two traversals (`Walk`, Tarjan's algorithm, once for both).  The
  modules in the state of the traversal are those on its stack, in the order of
  their numbers; the frames are a path of imports in it; a module of the path is
  needed by all that is below the next one; and what a module has seen of the
  stack is in the `anc` of a frame above it, or of the child that just returned
  (`LowInv`).  The last one is what makes a root close exactly its cycle
  (`CycleClosed`).
* `LateInv`: evaluation.  Each module is in one of a few conditions by its status
  (`FreshInv`, `StackBodies`, `EndedBodies`); cycle roots (`RootInv`); a pending
  counter is the number of entries for the module in the lists of importers of
  those that have not told them yet (`CountInv`); who waits needs what it waits
  for, has a later time stamp, fails with it and has not run (`WaitInv`,
  `StampInv`); an import that is done with is in the same cycle, or through, or
  waited for (`ImportsInv`); a member of a cycle that is not through is waited
  for by one that was entered before it (`TreeInv`), so that the cycle's root
  cannot be through before its members (`CycleThrough`); each body with a top
  level await is reported once (`JobsInv`); and what is in the list is ready, in
  the order of the stamps (`TodoInv`).

Each action is treated in two halves.  A `...Step` lemma shows that the action
has one of seven effects, stated on the fields of the modules (`LinkEff`,
`EnterEff`, `ReturnEff`, `FailEff`, `RunEff`, `EndEff`, and `IdleEff` for what happens between traversals,
with `QuietEff` and `GatherEff` for the list); a `...Late` lemma shows that the
effect keeps `LateInv`.  From `IInv` follow `GraphAssertions`, `GraphLinked`,
`GraphInOrder` and `GraphAnswers`; `GraphRunsOnce` is about steps, and comes from the
effects.

Facts about what is reached in a graph would be proved by induction, which the
prover does not have: the library's induction theorems take a formula as a
parameter.  `Needs`, `Told` and `List` are least closed sets
instead: a fact about all members is proved by showing a closed set in which it
holds (`NeedsLeast`, `ListLeast`), and an argument along a chain of importers by
looking at the module whose number is least (`LeastModule`).

**EjrConversionsProofs.**  Both properties of run `conversions`, for every format
of the numbers that `FormatAssumption` allows and for values of any nesting.  Its
conditions relate the sizes: an `int` fits the fraction of a double (`W <= M`), an
`int64_t` does not (`M < 2W`), and the exponents reach beyond the modulus
(`Bias + W + M < E`).  The program's own sizes, 32, 52, 2047 and 1023, satisfy them,
so the theorems are about the program's numbers, of which TLC cannot
enumerate a useful part; they hold with `int64_t` as a `long` and without.

* *Powers of two.*  The prover has no induction over formulas, so a fact about
  all exponents is proved by the least one that would fail (`NatMin`, from the
  well-foundedness of `<`, and `NatAll`).  That includes that the recursive
  function `Pow2` is what its definition says (`PowDef`), for which finite
  beginnings of it are put together.
* *Words.*  Shifts are products and quotients of such powers: a common factor
  cancels (`DivCancel`), the upper half of a double word is a quotient in the word
  (`UpperHalf`), and `Signed` is the one number of the word that is equal modulo the
  word (`SignedIs`, `SignedOnly`).
* *Doubles.*  `JS_ToInt32Free` treats three ranges of exponents: in the first the
  cast fits an int (`WholeSmall`), in the second the shifts leave what the lower
  bits are (`Shifted`), and above it every double is a multiple of 2^W
  (`WholeLarge`); together `ToInt32Modular`.  `NearestExact` says that an int
  survives as a double, which is what the choice of `JS_NewFloat64` relies on.
* *Parts and values.*  `PartIn` says for each kind what comes back of a part of the
  host, `PartOut` that what comes out of JavaScript is one of `StableParts`, those
  that come back as they are (`StableIs`), or stops the program; `ValueIn`,
  `ValueOut` and `ValueStable` say it of values.

`NumbersExact` and `ComesBack` are not inductive: they say nothing about the
second trip while the value is in JavaScript.  The invariant `IInv` adds to
`TypeOK` where the value on each side comes from (`History`): the value is what
`to_js` makes of what was passed or of what came back first, and the latter
consists of stable parts.

With these, every invariant and every action property of the passing runs is a
theorem, `NoWakeupLost` excepted.

**Only model-checked**: `NoWakeupLost`, whose proof would take an argument along
chains of waiting modules (the one with the least time stamp in `Awaited`) on top
of `IInv`, and is not written yet; liveness under fairness
(`TraversalsEnd`, `EngineEnds`), which the prover cannot do; and every violation,
which one behaviour shows.

## 6. What disagrees with the documentation or does not work

With a run:

* `convert_twice`: `jsarg_from_jsvalue` frees a value and leaves its id in the
  table.
* `await_early`: `ejr_await_promise` on a promise that a pending job would settle
  answers undefined, and nothing in the library runs pending jobs.  (The answer of
  `ejr_eval_module` comes from the same function; it is not what the run is about.)
* `reentry`: `ejr_eval_module`, called from a callback that a module's body
  calls, on a module that imports the running one, reaches an assertion in
  `js_inner_module_linking`.
* `args_documented`, four texts in one behaviour:
  * `README.md:51` writes slot 0 of a fresh list over the undefined `JSArg` that
    `jsarg_make_list` put there, which is lost.
  * `jsarg_add_to_list` returns when its pointers are valid (`ejr_c_api.cpp:649`):
    what the host adds stays with the host, and the list keeps a null that the next
    call dereferences.
  * `ejr_eval_class_function` on a missing or undefined object returns -1 without
    freeing the list (`ejr_c_api.cpp:909`), although `ejr.h:472` says that args are
    freed: a host that believes it loses the list.
  * `README.md:61` calls `jsarg_free_all` after a call that freed the list
    (`ejr.h:448` says so).

Without a run; the models contain the behaviour:

* Reading a failure after another evaluation tells the wrong error
  (`read_at_once`).
* A callback that was given a plain object leaves a `TypeError` in the slot
  (`ejr_cpp_api.cpp:270`, not cleared at 315-318), and a later failure that threw
  nothing, such as a missing file, is told with it (`RunsJS`).
* Two modules whose mangled keys coincide share one callback
  (`ejr_cpp_api.cpp:577`; `distinct_keys`).
* A module that nothing imports keeps its functions until the assertion at
  teardown (`import_all`).  `main.cpp` registers `ejr:john_cena`, which nothing in
  its own code imports.
* A callback that returns one of its arguments has it freed twice
  (`returns_argument`); no text says that it may not.
* `jsarg_carray(0)` throws out of a C function, and so does converting an empty
  JavaScript array, also one inside another (`Throws` in `EjrConversions`).
* Every number comes back as an `int`: fractions are cut, large values wrap,
  `NaN` is 0.  Where `int64_t` is not `long` a 64-bit integer comes back as the
  text `[unsupported]`.
* A module whose name contains `::` looks its methods up under the part before
  it (`ejr_cpp_api.cpp:410`); `EjrModules` models it, and `plain_names`
  excludes it.

Seen while reading, not modelled:

* `ejr_to_jsarg` allocates a copy of each string that nobody frees (`:292-294`),
  and `jsarg_free` has no case for exceptions, so their texts stay (`:686-768`).
* An error's id of any failure is `>= 0`; only a bad handle or a missing object
  gives -1, so a test `id > -1` does not recognise a failed evaluation.

## 7. What is left

**Possible extensions**, in order: `WeakMap`, `WeakSet` and `FinalizationRegistry`,
which use the structures of `QjsGc`; a proof of `NoWakeupLost`; one module that composes the table, the slot and the argument lists.

**Not modelled**:

* *Most of QuickJS.*  The vendored engine is more than nine tenths of the source
  lines here: parser, compiler, bytecode interpreter, built-in classes, Unicode
  tables, regular expressions, number formatting.  These are text and data
  algorithms with no interaction to explore, whose correctness is the ECMAScript
  specification's, and a model of them would be a second engine.  What is
  modelled of `quickjs.c` are its protocols: memory, promises and jobs, modules,
  number conversion.  For the same reason the share of source lines that the
  models stand for is small.
* *In the modelled parts of the engine*: `Promise.all` and its relatives,
  subclasses of `Promise`, async generators, name resolution and loading, weak collections.
* *The id counter's width*: `next_id` is an `int`; 2^31 ids of one session are
  out of any host's reach, and the overflow is undefined.
* *`ejr_free` inside a callback*: it destroys the runtime under the calls in
  progress, which is undefined at once.
* *The typed array's name*, compared after the C string was freed
  (`ejr_cpp_api.cpp:295`): the models compare the name itself.
* *`EJRValue`, `utils.cpp`, `jsarg_to_string`, `main.cpp`, the file loader's buffer, tests, examples,
  scripts, build*: plain data, text functions, file input, and hosts of the API.
