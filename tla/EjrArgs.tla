------------------------------ MODULE EjrArgs -------------------------------
(***************************************************************************)
(* Who owns the C side's JSArg objects.                                     *)
(*                                                                          *)
(* A host builds JSArgs on the C++ heap, nests them in C arrays, puts them   *)
(* in argument lists and gives the lists to ejr_eval_function and            *)
(* ejr_eval_class_function, which free them.  A callback is given JSArgs     *)
(* that its wrapper frees, and returns one that the wrapper frees too.       *)
(* Nothing counts references: each object must be owned in one place.        *)
(*                                                                          *)
(* An object is allocated once (its address is not used again), so a second  *)
(* delete and a use after delete show as such.                               *)
(*                                                                          *)
(* The host hands over and frees only JSArgs that it owns, and never nests   *)
(* an array in itself.  It strays where a text or a signature of the library *)
(* leads it to: it fills a fresh list, or frees the list of a call, as the   *)
(* README does (README.md:51 and :61), believes that a call that failed      *)
(* freed its arguments (ejr.h:472) and that jsarg_add_to_list adds, or       *)
(* returns an argument from a callback.                                      *)
(***************************************************************************)
EXTENDS Integers, Sequences, FiniteSets

CONSTANTS
  Args,       \* bound: JSArgs the session allocates
  Lists,      \* bound: argument lists (JSArg**) it allocates
  NoArg,      \* nullptr
  NoList,     \* what a callback's frame has for a list
  MaxCount,   \* bound: slots of a list and of a C array
  MaxDepth    \* bound: nested calls and callbacks

ASSUME BoundsAssumption == MaxCount \in Nat /\ MaxDepth \in Nat
ASSUME NilAssumption == NoArg \notin Args /\ NoList \notin Lists

VARIABLES
  kind,      \* of a JSArg, before it is allocated and after it is freed too
  items,     \* items[a]: what the C array a has, its count the length
  capacity,  \* of a C array
  slots,     \* slots[l]: the list l, NoArg where it has no JSArg yet
  status,    \* of a list: "absent", "open", "passed" to a call, "rejected" by
             \* it, "used" up by it, "freed", or "lost" when the host has no
             \* pointer to it any more
  loose,     \* JSArgs in no list, array or frame
  lost,      \* those of them that the host has no pointer to any more
  stack,     \* the calls and callbacks in progress, innermost last
  fault,     \* the undefined behaviour or exception that ended the session
  strayed    \* history: how the host has strayed so far

vars == <<kind, items, capacity, slots, status, loose, lost, stack, fault, strayed>>

Index == 1 .. MaxCount

\* The ways to stray, those of them that a text asks for, and those that break memory.
Documented == {"overwrites_slot", "args_freed", "frees_again", "adds_to_list"}
Strayings  == Documented \cup {"returns_argument"}
Breaking   == {"frees_again", "adds_to_list", "returns_argument"}

\* Every type but the C array has at most a buffer of its own: a leaf.
Kinds == {"fresh", "leaf", "array", "freed"}

Init ==
  /\ kind = [a \in Args |-> "fresh"]
  /\ items = [a \in Args |-> <<>>]
  /\ capacity = [a \in Args |-> 0]
  /\ slots = [l \in Lists |-> <<>>]
  /\ status = [l \in Lists |-> "absent"]
  /\ loose = {}
  /\ lost = {}
  /\ stack = <<>>
  /\ fault = "none"
  /\ strayed = {}

Fresh       == {a \in Args : kind[a] = "fresh"}
Live        == {a \in Args : kind[a] \notin {"fresh", "freed"}}
In(s)       == {s[i] : i \in DOMAIN s} \ {NoArg}
Distinct(s) == \A i, j \in DOMAIN s : s[i] = s[j] /\ s[i] # NoArg => i = j
Kids(a)     == IF kind[a] = "array" THEN In(items[a]) ELSE {}
Usable(l)   == status[l] \in {"open", "rejected"}
Gone(l)     == status[l] \in {"used", "freed"}
Held        == loose \ lost

\* What a walk from R through C arrays reaches.
Tree(R) == {d \in Args : \A S \in SUBSET Args :
              R \subseteq S /\ (\A a \in S : Kids(a) \subseteq S) => d \in S}

\* The host's code runs at top level and in callbacks.
InCall   == stack # <<>> /\ stack[Len(stack)].list # NoList
HostRuns == fault = "none" /\ ~InCall

Fails(what) ==
  /\ fault' = what
  /\ UNCHANGED <<kind, items, capacity, slots, status, loose, lost, stack>>

-----------------------------------------------------------------------------
(* Freeing *)

\* MUTANT of Dying: an array is freed without its items.
DyingShallow(R) == R

\* jsarg_free deletes a JSArg, its buffer and, for a C array, its items.
Dying(R) == Tree(R)

\* Nothing that dies is dead already or dies twice.
FreesOnce(R) ==
  LET D == Dying(R)
  IN /\ D \subseteq Live
     /\ \A a \in D : Kids(a) \cap R = {} /\ (kind[a] = "array" => Distinct(items[a]))
     /\ \A a, b \in D : a # b => Kids(a) \cap Kids(b) = {}

Free(R, distinct) ==
  IF distinct /\ FreesOnce(R)
  THEN /\ kind' = [a \in Args |-> IF a \in Dying(R) THEN "freed" ELSE kind[a]]
       /\ UNCHANGED fault
  ELSE fault' = "double_free" /\ UNCHANGED kind

JsargFree(a) ==
  /\ HostRuns
  /\ a \in Held
  /\ Free({a}, TRUE)
  /\ loose' = loose \ {a}
  /\ UNCHANGED <<items, capacity, slots, status, lost, stack, strayed>>

JsargFreeAll(l) ==
  /\ HostRuns
  /\ \/ /\ Usable(l)
        /\ Free(In(slots[l]), Distinct(slots[l]))
        /\ status' = [status EXCEPT ![l] = "freed"]
        /\ UNCHANGED <<items, capacity, slots, loose, lost, stack, strayed>>
     \/ /\ status[l] = "used"
        /\ Fails("double_free")
        /\ strayed' = strayed \cup {"frees_again"}

-----------------------------------------------------------------------------
(* Building *)

NewLeaf(a) ==
  /\ HostRuns
  /\ a \in Fresh
  /\ kind' = [kind EXCEPT ![a] = "leaf"]
  /\ loose' = loose \cup {a}
  /\ UNCHANGED <<items, capacity, slots, status, lost, stack, fault, strayed>>

\* new JSArg*[0]{nullptr} has more initializers than elements: it throws.
JsargCarray(a, count) ==
  /\ HostRuns
  /\ a \in Fresh
  /\ \/ /\ count > 0
        /\ kind' = [kind EXCEPT ![a] = "array"]
        /\ capacity' = [capacity EXCEPT ![a] = count]
        /\ loose' = loose \cup {a}
        /\ UNCHANGED <<items, slots, status, lost, stack, fault, strayed>>
     \/ /\ count = 0
        /\ Fails("throws")
        /\ UNCHANGED strayed

\* MUTANT of HasRoom: one item too many.
HasRoomForOneMore(b) == Len(items[b]) <= capacity[b]

HasRoom(b) == Len(items[b]) < capacity[b]

\* A full array drops the value, which stays the host's.
AddValueToCArray(b, a) ==
  /\ HostRuns
  /\ a \in Held
  /\ b \in Live \ Tree({a})
  /\ IF kind[b] = "array" /\ HasRoom(b)
     THEN /\ items' = [items EXCEPT ![b] = Append(@, a)]
          /\ loose' = loose \ {a}
     ELSE UNCHANGED <<items, loose>>
  /\ UNCHANGED <<kind, capacity, slots, status, lost, stack, fault, strayed>>

\* jsarg_make_list puts an undefined JSArg in the first slot.
JsargMakeList(l, count, a) ==
  /\ HostRuns
  /\ status[l] = "absent"
  /\ a \in Fresh
  /\ \/ /\ count > 0
        /\ kind' = [kind EXCEPT ![a] = "leaf"]
        /\ slots' = [slots EXCEPT ![l] = [i \in 1 .. count |-> IF i = 1 THEN a ELSE NoArg]]
        /\ status' = [status EXCEPT ![l] = "open"]
        /\ UNCHANGED <<items, capacity, loose, lost, stack, fault, strayed>>
     \/ /\ count = 0
        /\ Fails("throws")
        /\ UNCHANGED strayed

\* list[i] = a.  The host takes back what the slot held, or overwrites it.
WriteSlot(l, i, a) ==
  /\ HostRuns
  /\ Usable(l)
  /\ a \in Held
  /\ i \in DOMAIN slots[l]
  /\ slots' = [slots EXCEPT ![l][i] = a]
  /\ loose' = (loose \ {a}) \cup ({slots[l][i]} \ {NoArg})
  /\ \/ UNCHANGED <<lost, strayed>>
     \/ /\ slots[l][i] # NoArg
        /\ lost' = lost \cup {slots[l][i]}
        /\ strayed' = strayed \cup {"overwrites_slot"}
  /\ UNCHANGED <<kind, items, capacity, status, stack, fault>>

\* jsarg_add_to_list returns at once when both pointers are valid; the host
\* thinks the list owns the JSArg now.
AddToList(l, i, a) ==
  /\ HostRuns
  /\ Usable(l)
  /\ a \in Held
  /\ i \in DOMAIN slots[l]
  /\ lost' = lost \cup {a}
  /\ strayed' = strayed \cup {"adds_to_list"}
  /\ UNCHANGED <<kind, items, capacity, slots, status, loose, stack, fault>>

-----------------------------------------------------------------------------
(* Calls *)

Filled(l) == \A i \in DOMAIN slots[l] : slots[l][i] # NoArg

\* The arguments are copied to C++ values, and stay until the call returns.
BeginCall(l) ==
  /\ HostRuns
  /\ Len(stack) < MaxDepth
  /\ Usable(l)
  /\ \/ /\ Filled(l)
        /\ status' = [status EXCEPT ![l] = "passed"]
        /\ stack' = Append(stack, [list |-> l, args |-> {}])
        /\ fault' = IF Tree(In(slots[l])) \subseteq Live THEN fault ELSE "use_after_free"
        /\ UNCHANGED <<kind, items, capacity, slots, loose, lost, strayed>>
     \/ /\ ~Filled(l)
        /\ "adds_to_list" \in strayed
        /\ Fails("null_pointer")
        /\ UNCHANGED strayed

\* MUTANT of RejectCall: the early return frees the list, as ejr.h says.
RejectCallFreeing(l) ==
  /\ HostRuns
  /\ Usable(l)
  /\ Free(In(slots[l]), Distinct(slots[l]))
  /\ status' = [status EXCEPT ![l] = "rejected"]
  /\ UNCHANGED <<items, capacity, slots, loose, lost, stack, strayed>>

\* ejr_eval_class_function finds no object: -1.  The list is still the host's,
\* which may believe that it was freed.
RejectCall(l) ==
  /\ HostRuns
  /\ Usable(l)
  /\ \/ /\ status' = [status EXCEPT ![l] = "rejected"]
        /\ UNCHANGED strayed
     \/ /\ status' = [status EXCEPT ![l] = "lost"]
        /\ strayed' = strayed \cup {"args_freed"}
  /\ UNCHANGED <<kind, items, capacity, slots, loose, lost, stack, fault>>

Pop == stack' = SubSeq(stack, 1, Len(stack) - 1)

EndCall ==
  /\ fault = "none" /\ stack # <<>>
  /\ LET l == stack[Len(stack)].list
     IN /\ l # NoList
        /\ Free(In(slots[l]), Distinct(slots[l]))
        /\ status' = [status EXCEPT ![l] = "used"]
  /\ Pop
  /\ UNCHANGED <<items, capacity, slots, loose, lost, strayed>>

-----------------------------------------------------------------------------
(* Conversions from JavaScript *)

\* MUTANT of EjrToJsarg: equal elements of an array become one JSArg.
EjrToJsargSharing(A, arr, f) ==
  LET made == A \cup In(f)
  IN /\ made \subseteq Fresh
     /\ A \cap In(f) = {}
     /\ kind' = [a \in Args |-> CASE a = arr   -> "array"
                                  [] a \in made \ {arr} -> "leaf"
                                  [] OTHER     -> kind[a]]
     /\ items' = [a \in Args |-> IF a = arr THEN f ELSE items[a]]
     /\ capacity' = [a \in Args |-> IF a = arr THEN Len(f) ELSE capacity[a]]
     /\ UNCHANGED fault

\* ejr_to_jsarg makes JSArgs for the values in A; the one in A that
\* arr names is an array with items f (bound: one array, of no arrays).
EjrToJsarg(A, arr, f) ==
  LET made == A \cup In(f)
  IN /\ made \subseteq Fresh
     /\ A \cap In(f) = {}
     /\ Distinct(f)
     /\ kind' = [a \in Args |-> CASE a = arr   -> "array"
                                  [] a \in made \ {arr} -> "leaf"
                                  [] OTHER     -> kind[a]]
     /\ items' = [a \in Args |-> IF a = arr THEN f ELSE items[a]]
     /\ capacity' = [a \in Args |-> IF a = arr THEN Len(f) ELSE capacity[a]]
     /\ UNCHANGED fault

FreshVectors(arr) ==
  IF arr = NoArg THEN {<<>>} ELSE UNION {[1 .. n -> Fresh] : n \in 1 .. MaxCount}

FromJsvalue(a, arr, f) ==
  /\ HostRuns
  /\ EjrToJsarg({a}, arr, f)
  /\ loose' = loose \cup {a}
  /\ UNCHANGED <<slots, status, lost, stack, strayed>>

\* JavaScript runs in a call of the host's, or in a script it evaluates.
BeginCallback(A, arr, f) ==
  /\ fault = "none"
  /\ Len(stack) < MaxDepth
  /\ EjrToJsarg(A, arr, f)
  /\ stack' = Append(stack, [list |-> NoList, args |-> A])
  /\ UNCHANGED <<slots, status, loose, lost, strayed>>

\* A callback or a conversion meets a JavaScript array of length 0.
ConversionThrows ==
  /\ fault = "none"
  /\ Fails("throws")
  /\ UNCHANGED strayed

\* The wrapper frees what the callback returned, and then its arguments.
EndCallback(result) ==
  /\ HostRuns /\ stack # <<>>
  /\ LET A == stack[Len(stack)].args
     IN /\ \/ result \in Held /\ UNCHANGED strayed
           \/ result \in A /\ strayed' = strayed \cup {"returns_argument"}
        /\ Free({result} \cup A, result \notin A)
  /\ loose' = loose \ {result}
  /\ Pop
  /\ UNCHANGED <<items, capacity, slots, status, lost>>

Next ==
  \/ \E a \in Args :
       \/ JsargFree(a)
       \/ NewLeaf(a)
       \/ \E n \in 0 .. MaxCount : JsargCarray(a, n)
       \/ \E b \in Args : AddValueToCArray(b, a)
       \/ EndCallback(a)
       \/ \E arr \in {a, NoArg} : \E f \in FreshVectors(arr) : FromJsvalue(a, arr, f)
  \/ \E l \in Lists :
       \/ JsargFreeAll(l)
       \/ \E n \in 0 .. MaxCount, a \in Args : JsargMakeList(l, n, a)
       \/ \E i \in Index, a \in Args : WriteSlot(l, i, a) \/ AddToList(l, i, a)
       \/ BeginCall(l)
       \/ RejectCall(l)
  \/ EndCall
  \/ \E A \in SUBSET Fresh : \E arr \in A \cup {NoArg} :
       \E f \in FreshVectors(arr) : BeginCallback(A, arr, f)
  \/ ConversionThrows

Spec == Init /\ [][Next]_vars

-----------------------------------------------------------------------------
(* Properties *)

TypeOK ==
  /\ kind \in [Args -> Kinds]
  /\ items \in [Args -> Seq(Args)]
  /\ capacity \in [Args -> 0 .. MaxCount]
  /\ \A b \in Args : Len(items[b]) <= capacity[b]
  /\ slots \in [Lists -> Seq(Args \cup {NoArg})]
  /\ status \in [Lists -> {"absent", "open", "passed", "rejected", "used", "freed", "lost"}]
  /\ loose \in SUBSET Args /\ lost \in SUBSET loose
  /\ stack \in Seq([list : Lists \cup {NoList}, args : SUBSET Args])
  /\ fault \in {"none", "double_free", "use_after_free", "null_pointer", "throws"}
  /\ strayed \in SUBSET Strayings

\* The places of a: none in particular, the arguments of callbacks, arrays, lists.
Places(a) ==
  {<<"loose", NoArg, 0>> : x \in loose \cap {a}}
    \cup {<<"frame", NoArg, d>> : d \in {e \in DOMAIN stack : a \in stack[e].args}}
    \cup {p \in {"item"} \X Args \X Index :
            kind[p[2]] = "array" /\ p[3] \in DOMAIN items[p[2]] /\ items[p[2]][p[3]] = a}
    \cup {p \in {"slot"} \X Lists \X Index :
            ~Gone(p[2]) /\ p[3] \in DOMAIN slots[p[2]] /\ slots[p[2]][p[3]] = a}

\* As long as nothing has gone wrong, no JSArg is in two places that will free
\* it, and none is left in a place after it was freed.
OwnedOnce == fault = "none" => \A a \in Args :
  /\ \A p, q \in Places(a) : p = q
  /\ a \notin Live => Places(a) = {}

\* What the host, the calls and the callbacks can still get at and free, and
\* what nobody has a pointer to.
InFrames     == UNION {stack[d].args : d \in DOMAIN stack}
InLists(ss)  == UNION {In(slots[l]) : l \in {x \in Lists : status[x] \in ss}}
Roots        == Held \cup InFrames \cup InLists({"open", "passed", "rejected"})
Lost         == lost \cup InLists({"lost"})

\* Calls, early returns, conversions and callbacks leak no JSArg: what was not
\* freed can be reached from something that will free it, or from what the host
\* itself threw away where a text led it astray.
NothingUnreachable ==
  fault = "none" =>
    /\ Live \subseteq Tree(Roots) \cup Tree(Lost)
    /\ strayed \cap {"overwrites_slot", "args_freed", "adds_to_list"} = {} => Lost = {}

\* No double free, no use after free, no null pointer, through any nesting of
\* calls and callbacks.
MemorySafe == strayed \cap Breaking = {} => fault \in {"none", "throws"}

\* README.md:49-61, ejr.h:402 and ejr.h:472 on argument lists: a list is filled
\* by assigning its slots or with jsarg_add_to_list, its arguments are freed
\* during the call, and it is freed after the call.  A host that followed each of
\* them once, and did nothing else amiss, has lost nothing and broken nothing.
\* Refuted, and by each of the four.
ListsAsDocumented ==
  strayed = Documented => fault \in {"none", "throws"} /\ Live \subseteq Tree(Roots)

=============================================================================
