------------------------------ MODULE EjrHandle ------------------------------
(***************************************************************************)
(* One EasyJSRHandle: the table JSValueAD that gives JavaScript values      *)
(* integer ids, the reference counts QuickJS keeps for those values, the    *)
(* runtime's single pending exception, and the C API calls that work on     *)
(* them (src/src/ejr_c_api.cpp over src/src/ejr_cpp_api.cpp).               *)
(*                                                                          *)
(* The program is single-threaded but re-entrant: evaluating JavaScript may *)
(* reach a native callback, and the callback may call the API again while   *)
(* the outer call still holds references and borrowed values.  A call that  *)
(* may run JavaScript is therefore two steps, with a frame on calls         *)
(* between them; a call that cannot is one step.                            *)
(*                                                                          *)
(* Data: the values that matter are the reference-counted ones, a set of    *)
(* heap cells.  A cell with count 0 is free and may be handed out again as  *)
(* a fresh value, as a C allocator does.  All other values are Plain.       *)
(***************************************************************************)
EXTENDS Integers, FiniteSets

CONSTANTS
  Objects,    \* heap cells for reference-counted values
  MaxIds,     \* bound: ids one session may issue
  MaxDepth,   \* bound: API calls nested through callbacks
  MaxHeld,    \* bound: references the JavaScript heap holds to one cell
  HostRules   \* what the host program promises, see AllRules

Undefined     == "undefined"
Exception     == "exception"       \* JS_EXCEPTION: the error itself is in the slot
Plain         == "plain"           \* a value without a count (or not followed)
Uninitialized == "uninitialized"   \* the empty exception slot
Absent        == "absent"          \* no entry in the table
NoId          == -1

\* plain_conversions: jsarg_from_jsvalue is called only on ids whose value has
\* no reference count.  no_release_in_use: a callback does not free an id that
\* an outer call is working on.  The API enforces neither.
AllRules == {"plain_conversions", "no_release_in_use"}

ASSUME ObjectsAssumption ==
  Objects \cap {Undefined, Exception, Plain, Uninitialized, Absent} = {}
ASSUME BoundsAssumption ==
  MaxIds \in Nat /\ MaxDepth \in Nat /\ MaxHeld \in Nat

Ids    == 0 .. MaxIds - 1
Levels == 1 .. MaxDepth
Values == Objects \cup {Undefined, Exception, Plain, Uninitialized}

Ops == {"idle", "eval_script", "eval_module", "get_from_global", "lookup",
        "call", "get_property", "to_string", "from_jsvalue"}

\* A call in progress: obj is the JSValue it copied out of the table without
\* a reference of its own; own and arg are references it must release (the
\* function it looked up or the exception it took, and the converted argument).
Frames == [op : Ops, id : Ids \cup {NoId}, obj : Values, own : Values, arg : Values]

Idle == [op |-> "idle", id |-> NoId, obj |-> Plain, own |-> Plain, arg |-> Plain]

VARIABLES
  phase,              \* "none", "open", "aborted" (assertion), "terminated" (C++ exception)
  ref_count,          \* count QuickJS keeps in each cell
  held,               \* part of it that belongs to the JavaScript heap itself
  id_to_value,        \* JSValueAD::id_to_value
  next_id,            \* JSValueAD::next_id
  current_exception,  \* JSRuntime's one pending exception
  calls,              \* frames of the API calls in progress
  depth               \* how many of them there are

vars == <<phase, ref_count, held, id_to_value, next_id, current_exception, calls, depth>>

-----------------------------------------------------------------------------
(* Reference counts *)

Ref(v, o)   == IF v = o THEN 1 ELSE 0
Count(f, o) == Cardinality({x \in DOMAIN f : f[x] = o})

OwnedBy == [d \in Levels |-> calls[d].own]
ArgOf   == [d \in Levels |-> calls[d].arg]

Fresh == {o \in Objects : ref_count[o] = 0}

\* What running JavaScript can produce: a new value, one its heap holds, or one
\* an active call gave it.
Obtainable ==
  {o \in Objects : \/ o \in Fresh
                   \/ held[o] > 0
                   \/ \E d \in 1 .. depth : o \in {calls[d].obj, calls[d].own, calls[d].arg}}

\* The ways a QuickJS call ends: a value and the slot as it was, or
\* JS_EXCEPTION and whatever was thrown.
Completion == [val : Values, err : Values]
Returned   == [val : Obtainable \cup {Undefined, Plain}, err : {current_exception}]
Thrown     == [val : {Exception}, err : Obtainable \cup {Plain}]
NotThrown  == [val : {Exception}, err : {current_exception}]

\* Takes a reference for the result, replaces the pending exception, and
\* releases two references.
Settle(c, r1, r2) ==
  /\ ref_count' = [o \in Objects |->
                     ref_count[o] + Ref(c.val, o) + Ref(c.err, o)
                       - Ref(current_exception, o) - Ref(r1, o) - Ref(r2, o)]
  /\ current_exception' = c.err

-----------------------------------------------------------------------------
(* Calls *)

Top == calls[depth]

\* A conversion of a plain value runs no JavaScript, so no callback starts there.
RunsJs(fr) ==
  \/ fr.op \notin {"idle", "to_string", "from_jsvalue"}
  \/ fr.obj \in Objects
  \/ fr.own \in Objects

\* The handle is open, and no over-release has happened: after one the C
\* program has no meaning, and the model stops.
Running == phase = "open" /\ \A o \in Objects : ref_count[o] >= 0

\* valid_ptrs passed, and control is in the host: outside every call or in a callback.
HostRuns == Running /\ (depth > 0 => RunsJs(Top))

CanEnter == HostRuns /\ depth < MaxDepth /\ next_id + depth < MaxIds

Enter(op, id, obj, own) ==
  /\ calls' = [calls EXCEPT ![depth + 1] =
                 [op |-> op, id |-> id, obj |-> obj, own |-> own, arg |-> Plain]]
  /\ depth' = depth + 1

Leave ==
  /\ calls' = [calls EXCEPT ![depth] = Idle]
  /\ depth' = depth - 1

\* MUTANT of AddValue: the lowest free id is issued again.
AddValueReusing(v) ==
  LET free == {i \in Ids : id_to_value[i] = Absent}
  IN  /\ id_to_value' = [id_to_value EXCEPT ![CHOOSE i \in free : \A j \in free : i <= j] = v]
      /\ next_id' = next_id + 1

AddValue(v) ==
  /\ id_to_value' = [id_to_value EXCEPT ![next_id] = v]
  /\ next_id' = next_id + 1

Inside(ops) == Running /\ depth > 0 /\ Top.op \in ops

\* MUTANT of Return: the converted arguments are not freed.
ReturnKeepingArguments(c) ==
  /\ Settle(c, Top.own, Plain)
  /\ AddValue(c.val)
  /\ Leave
  /\ UNCHANGED <<phase, held>>

\* MUTANT of Return: the receiver is freed after the call, as the global object is.
ReturnFreeingReceiver(c) ==
  /\ Settle(c, Top.own, Top.obj)
  /\ AddValue(c.val)
  /\ Leave
  /\ UNCHANGED <<phase, held>>

\* The call gives back what it owned and stores its result under a new id.
Return(c) ==
  /\ Settle(c, Top.own, Top.arg)
  /\ AddValue(c.val)
  /\ Leave
  /\ UNCHANGED <<phase, held>>

\* The call gives back what it owned and stores nothing.
ReturnNothing(err, release) ==
  /\ Settle([val |-> Plain, err |-> err], Top.own, release)
  /\ Leave
  /\ UNCHANGED <<phase, held, id_to_value, next_id>>

-----------------------------------------------------------------------------
(* Handle *)

Init ==
  /\ phase = "none"
  /\ ref_count = [o \in Objects |-> 0]
  /\ held = [o \in Objects |-> 0]
  /\ id_to_value = [i \in Ids |-> Absent]
  /\ next_id = 0
  /\ current_exception = Uninitialized
  /\ calls = [d \in Levels |-> Idle]
  /\ depth = 0

EjrNew ==
  /\ phase = "none"
  /\ phase' = "open"
  /\ UNCHANGED <<ref_count, held, id_to_value, next_id, current_exception, calls, depth>>

\* Releases every entry, then the runtime: its slot and its heap go, and
\* JS_FreeRuntime asserts that nothing is left.
EjrFree ==
  LET left == [o \in Objects |-> ref_count[o] - Count(id_to_value, o)
                                   - Ref(current_exception, o) - held[o]]
  IN /\ Running /\ depth = 0
     /\ phase' = IF \A o \in Objects : left[o] = 0 THEN "none" ELSE "aborted"
     /\ ref_count' = left
     /\ held' = [o \in Objects |-> 0]
     /\ id_to_value' = [i \in Ids |-> Absent]
     /\ next_id' = 0
     /\ current_exception' = Uninitialized
     /\ UNCHANGED <<calls, depth>>

FreeJsvalue(id) ==
  /\ HostRuns
  /\ id_to_value[id] # Absent
  /\ "no_release_in_use" \in HostRules =>
       \A d \in 1 .. depth : calls[d].id # id
  /\ ref_count' = [o \in Objects |-> ref_count[o] - Ref(id_to_value[id], o)]
  /\ id_to_value' = [id_to_value EXCEPT ![id] = Absent]
  /\ UNCHANGED <<phase, held, next_id, current_exception, calls, depth>>

-----------------------------------------------------------------------------
(* Evaluation *)

BeginEval(op) ==
  /\ CanEnter
  /\ Enter(op, NoId, Plain, Plain)
  /\ UNCHANGED <<phase, ref_count, held, id_to_value, next_id, current_exception>>

EndEval ==
  /\ Inside({"eval_script", "get_from_global"})
  /\ \E c \in Returned \cup Thrown : Return(c)

\* The result is the promise's result, or an exception; a loader that finds no
\* file makes JS_Eval fail without throwing anything.
EndEvalModule ==
  /\ Inside({"eval_module"})
  /\ \E c \in Returned \cup Thrown \cup NotThrown : Return(c)

\* ejr_eval_function works on the global object, which no id names.
BeginFunctionCall ==
  /\ CanEnter
  /\ Enter("lookup", NoId, Plain, Plain)
  /\ UNCHANGED <<phase, ref_count, held, id_to_value, next_id, current_exception>>

BeginClassCall(id) ==
  /\ CanEnter
  /\ id_to_value[id] \notin {Absent, Undefined}
  /\ Enter("lookup", id, id_to_value[id], Plain)
  /\ UNCHANGED <<phase, ref_count, held, id_to_value, next_id, current_exception>>

\* What JS_GetProperty makes of the borrowed value.
PropertyOf(v) == IF v = Exception THEN NotThrown ELSE Returned \cup Thrown

\* The function is fetched, then the argument is converted; a failed fetch is
\* not looked at.
LookUp ==
  /\ Inside({"lookup"})
  /\ \E c \in PropertyOf(Top.obj) :
       \E a \in (Fresh \ {c.val, c.err}) \cup {Plain} :
         /\ ref_count' = [o \in Objects |-> ref_count[o] + Ref(c.val, o) + Ref(c.err, o)
                                              - Ref(current_exception, o) + Ref(a, o)]
         /\ current_exception' = c.err
         /\ calls' = [calls EXCEPT ![depth] =
                        [op |-> "call", id |-> Top.id, obj |-> Top.obj,
                         own |-> c.val, arg |-> a]]
  /\ UNCHANGED <<phase, held, id_to_value, next_id, depth>>

\* Calling what is not a function throws a TypeError.
EndCall ==
  /\ Inside({"call"})
  /\ \E c \in Thrown \cup (IF Top.own \in Objects THEN Returned ELSE {}) : Return(c)

BeginGetProperty(id) ==
  /\ CanEnter
  /\ id_to_value[id] \notin {Absent, Undefined}
  /\ Enter("get_property", id, id_to_value[id], Plain)
  /\ UNCHANGED <<phase, ref_count, held, id_to_value, next_id, current_exception>>

EndGetProperty ==
  /\ Inside({"get_property"})
  /\ \E c \in PropertyOf(Top.obj) : Return(c)

\* JS_PromiseResult: the settled promise's result, undefined for anything else.
AwaitPromise(id) ==
  /\ HostRuns /\ next_id + depth < MaxIds
  /\ \E v \in {Undefined} \cup
              (IF id_to_value[id] \in Objects
               THEN {Plain} \cup {o \in Objects : held[o] > 0} ELSE {}) :
       /\ Settle([val |-> v, err |-> current_exception], Plain, Plain)
       /\ AddValue(v)
  /\ UNCHANGED <<phase, held, calls, depth>>

-----------------------------------------------------------------------------
(* Conversions *)

\* An id that stands for JS_EXCEPTION is converted by taking the pending
\* exception, whichever evaluation left it there.
BeginConversion(op, id) ==
  /\ CanEnter
  /\ IF id_to_value[id] = Exception
     THEN /\ Enter(op, id, Exception, current_exception)
          /\ current_exception' = Uninitialized
     ELSE /\ Enter(op, id, id_to_value[id], Plain)
          /\ UNCHANGED current_exception
  /\ UNCHANGED <<phase, ref_count, held, id_to_value, next_id>>

\* MUTANT of BeginToString: a missing id is not looked for.
BeginToStringUnchecked(id) == BeginConversion("to_string", id)

BeginToString(id) ==
  /\ id_to_value[id] \notin {Absent, Undefined}
  /\ BeginConversion("to_string", id)

EndToString ==
  /\ Inside({"to_string"})
  /\ ReturnNothing(current_exception, Plain)

BeginFromJsvalue(id) ==
  /\ id_to_value[id] # Absent
  /\ "plain_conversions" \in HostRules => id_to_value[id] \notin Objects
  /\ BeginConversion("from_jsvalue", id)

\* from_js(..., true) releases the borrowed value; the table keeps the id.  For
\* what is no object and no type it knows, a BigInt or the empty slot's value,
\* JS_GetTypedArrayBuffer throws and nobody takes the error.
EndFromJsvalue ==
  /\ Inside({"from_jsvalue"})
  /\ \E err \in {current_exception} \cup
                (IF RunsJs(Top) THEN Obtainable \cup {Plain}
                 ELSE IF Top.obj \in {Plain, Uninitialized} THEN Fresh ELSE {}) :
       ReturnNothing(err, Top.obj)

\* A throwing toString leaves a null C string; std::string(nullptr) throws and
\* nothing catches it.
Crash ==
  /\ Inside({"to_string", "from_jsvalue"})
  /\ \/ Top.obj \in Objects
     \/ Top.op = "to_string" /\ Top.own \in Objects
  /\ phase' = "terminated"
  /\ UNCHANGED <<ref_count, held, id_to_value, next_id, current_exception, calls, depth>>

-----------------------------------------------------------------------------
(* The engine *)

JsRetain(o) ==
  /\ Running /\ depth > 0 /\ RunsJs(Top)
  /\ o \in Obtainable /\ held[o] < MaxHeld
  /\ held' = [held EXCEPT ![o] = @ + 1]
  /\ ref_count' = [ref_count EXCEPT ![o] = @ + 1]
  /\ UNCHANGED <<phase, id_to_value, next_id, current_exception, calls, depth>>

\* By running code, by a release that cascades, or by the cycle collector.
JsRelease(o) ==
  /\ Running /\ held[o] > 0
  /\ held' = [held EXCEPT ![o] = @ - 1]
  /\ ref_count' = [ref_count EXCEPT ![o] = @ - 1]
  /\ UNCHANGED <<phase, id_to_value, next_id, current_exception, calls, depth>>

\* An exception thrown and caught within JavaScript empties the slot.
JsCatch ==
  /\ Running /\ depth > 0 /\ RunsJs(Top)
  /\ current_exception # Uninitialized
  /\ Settle([val |-> Plain, err |-> Uninitialized], Plain, Plain)
  /\ UNCHANGED <<phase, held, id_to_value, next_id, calls, depth>>

\* The trampoline converts an argument, and JS_GetTypedArrayBuffer throws: the
\* callback runs with the error in the slot.
TrampolineLeavesError ==
  /\ Running /\ depth > 0 /\ RunsJs(Top)
  /\ \E o \in Fresh : Settle([val |-> Plain, err |-> o], Plain, Plain)
  /\ UNCHANGED <<phase, held, id_to_value, next_id, calls, depth>>

-----------------------------------------------------------------------------
Begin ==
  \/ \E op \in {"eval_script", "eval_module", "get_from_global"} : BeginEval(op)
  \/ BeginFunctionCall
  \/ \E id \in Ids : \/ BeginClassCall(id)
                     \/ BeginGetProperty(id)
                     \/ BeginToString(id)
                     \/ BeginFromJsvalue(id)

End ==
  \/ EndEval
  \/ EndEvalModule
  \/ LookUp
  \/ EndCall
  \/ EndGetProperty
  \/ EndToString
  \/ EndFromJsvalue
  \/ Crash

Next ==
  \/ EjrNew
  \/ EjrFree
  \/ \E id \in Ids : FreeJsvalue(id) \/ AwaitPromise(id)
  \/ Begin
  \/ End
  \/ \E o \in Objects : JsRetain(o) \/ JsRelease(o)
  \/ JsCatch
  \/ TrampolineLeavesError

Spec == Init /\ [][Next]_vars

-----------------------------------------------------------------------------
(* What the handle implements *)

Session == INSTANCE ValueSession WITH
  Immortal <- Values \ Objects,
  entries  <- id_to_value,
  issued   <- next_id,
  alive    <- {o \in Objects : ref_count[o] > 0}

\* The host of a careful program sees a ValueSession: behind all the nested
\* calls, releases and failures every id it holds names a live value.
ImplementsSession == Session!Spec

-----------------------------------------------------------------------------
(* Properties *)

TypeOK ==
  /\ phase \in {"none", "open", "aborted", "terminated"}
  /\ ref_count \in [Objects -> Int]
  /\ held \in [Objects -> Nat]
  /\ id_to_value \in [Ids -> Values \cup {Absent}]
  /\ next_id \in 0 .. MaxIds
  /\ current_exception \in Values
  /\ calls \in [Levels -> Frames]
  /\ depth \in 0 .. MaxDepth

\* Every reference has exactly one owner that will release it: the JavaScript
\* heap, a table entry, a call in progress, or the exception slot.  This is
\* what the free_jsval calls of ejr_cpp_api.cpp and the table's erase have to
\* keep true over every interleaving of nested calls and failures.
RefsAccounted ==
  \A o \in Objects :
    ref_count[o] = held[o] + Count(id_to_value, o) + Count(OwnedBy, o)
                     + Count(ArgOf, o) + Ref(current_exception, o)

\* No value is released more often than it was retained.
NoOverRelease == \A o \in Objects : ref_count[o] >= 0

\* The table gives its values to JS_Call, JS_GetProperty and JS_ToString
\* without a reference of their own; while such a call runs callbacks, the
\* value it works on is still the entry it came from, and alive.
BorrowedAlive ==
  \A d \in 1 .. depth :
    calls[d].obj \in Objects =>
      /\ ref_count[calls[d].obj] > 0
      /\ id_to_value[calls[d].id] = calls[d].obj

\* JS_FreeRuntime's assertion never fires: ejr_free finds every reference
\* either in the table, the slot or the heap, whatever failed before.
CleanTeardown == phase # "aborted"

\* An id the host kept after freeing its value never comes to name another
\* value while the handle lives.
StaleIdsStayDead ==
  [][phase = "open" /\ phase' = "open" =>
       \A i \in Ids : i < next_id /\ id_to_value[i] = Absent => id_to_value'[i] = Absent]_vars

-----------------------------------------------------------------------------
(* The inductive invariant *)

\* A frame in use borrows the value its id names; the converter that releases
\* what it borrowed never borrows a counted value, and a lookup owns nothing
\* yet.  Frames above depth are idle.
FramesOK ==
  \A d \in Levels :
    /\ d > depth => calls[d] = Idle
    /\ calls[d].obj \in Objects =>
         /\ calls[d].id \in Ids
         /\ id_to_value[calls[d].id] = calls[d].obj
         /\ calls[d].op # "from_jsvalue"
    /\ calls[d].arg \in Objects => calls[d].op = "call"
    /\ calls[d].own \in Objects => calls[d].op \in {"call", "to_string", "from_jsvalue"}

\* Ids not issued yet name nothing, and every call in progress has room for
\* the id it will issue.
IdsOK ==
  /\ next_id + depth <= MaxIds
  /\ \A i \in Ids : i >= next_id => id_to_value[i] = Absent

IInv ==
  /\ TypeOK
  /\ RefsAccounted
  /\ FramesOK
  /\ IdsOK
  /\ phase # "aborted"

=============================================================================
