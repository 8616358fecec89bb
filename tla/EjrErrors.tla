------------------------------ MODULE EjrErrors ------------------------------
(***************************************************************************)
(* Which error a failed evaluation's id tells the host about.               *)
(*                                                                          *)
(* QuickJS reports a failure with JS_EXCEPTION and keeps the error itself   *)
(* in one slot of the runtime.  The table stores JS_EXCEPTION like any      *)
(* other value, so an id that stands for a failure carries no error: its    *)
(* conversion takes whatever the slot holds by then.                        *)
(*                                                                          *)
(* A promise that is rejected and a module that failed keep their error     *)
(* instead, and hand out a new reference to it whenever they are asked.     *)
(*                                                                          *)
(* An error is one throw: an object that is thrown twice counts as two.     *)
(* What goes through the slot is numbered in the order of the throws.       *)
(* Callbacks need no frames here: a nested evaluation is an evaluation that *)
(* ends before the one around it.                                           *)
(***************************************************************************)
EXTENDS Integers

CONSTANTS
  Reasons,    \* the errors that promises and modules keep
  MaxIds,     \* bound: ids the session issues
  MaxErrors   \* bound: errors thrown

\* What a careful host keeps.  read_at_once: it converts the id of a failure
\* before it calls anything else.  plain_conversions: the host itself gives
\* jsarg_from_jsvalue only values it supports.
AllRules == {"read_at_once", "plain_conversions"}

ASSUME BoundsAssumption == MaxIds \in Nat /\ MaxErrors \in Nat
ASSUME ReasonsAssumption == \A r \in Reasons : r \notin Int

Ids     == 0 .. MaxIds - 1
Errors  == 1 .. MaxErrors
NoError == 0      \* JS_UNINITIALIZED, whose text is "[unsupported type]"

VARIABLES
  id_to_value,        \* "absent", "value", "exception", a "promise" that is not
                      \* fulfilled, or the "reason" of a rejection
  next_id,
  current_exception,  \* the slot
  thrown,             \* how many errors were left in the slot so far
  cause,              \* the error that id's evaluation ended with; of a promise, its
                      \* reason once it is rejected
  reported,           \* history: what the conversions of id told the host
  broken              \* history: the rules the host has broken so far

vars == <<id_to_value, next_id, current_exception, thrown, cause, reported, broken>>

Init ==
  /\ id_to_value = [i \in Ids |-> "absent"]
  /\ next_id = 0
  /\ current_exception = NoError
  /\ thrown = 0
  /\ cause = [i \in Ids |-> NoError]
  /\ reported = [i \in Ids |-> {}]
  /\ broken = {}

Failures == {i \in Ids : id_to_value[i] = "exception"}
Unread   == {i \in Failures : reported[i] = {}}

\* The host calls for something other than reading the failures in but, and
\* breaks the given rules by that.
HostTurns(but, rules) ==
  broken' = broken \cup rules \cup (IF Unread \subseteq but THEN {} ELSE {"read_at_once"})

AddValue(v, err) ==
  /\ next_id \in Ids
  /\ id_to_value' = [id_to_value EXCEPT ![next_id] = v]
  /\ cause' = [cause EXCEPT ![next_id] = err]
  /\ next_id' = next_id + 1
  /\ UNCHANGED reported

\* MUTANT of ThrowNew: a throw does not replace a pending exception.
ThrowNewKeepingOld ==
  /\ thrown < MaxErrors
  /\ thrown' = thrown + 1
  /\ current_exception' = IF current_exception = NoError THEN thrown + 1 ELSE current_exception

\* JS_Throw: the new error replaces the pending one.
ThrowNew ==
  /\ thrown < MaxErrors
  /\ thrown' = thrown + 1
  /\ current_exception' = thrown + 1

\* JavaScript has run.  The slot is as it was, or an error caught on the way
\* emptied it; or a callback was given an object that from_js does not know,
\* and the TypeError of JS_GetTypedArrayBuffer stayed behind.
RunsJS(slot) ==
  \/ current_exception' \in {slot, NoError} /\ UNCHANGED thrown
  \/ ThrowNew

-----------------------------------------------------------------------------
(* Evaluations: scripts, modules, functions, properties, globals *)

EvalValue ==
  /\ HostTurns({}, {})
  /\ AddValue("value", NoError)
  /\ RunsJS(current_exception)

\* The value is a promise that is pending (no error) or rejected.
EvalPromise(err) ==
  /\ HostTurns({}, {})
  /\ AddValue("promise", err)
  /\ RunsJS(current_exception)

EvalThrows ==
  /\ HostTurns({}, {})
  /\ ThrowNew
  /\ AddValue("exception", thrown + 1)

\* A module that throws, or imports one that failed, has a rejected promise:
\* the id names the reason itself.
EvalModuleRejects(err) ==
  /\ HostTurns({}, {})
  /\ AddValue("reason", err)
  /\ RunsJS(current_exception)

\* JS_EXCEPTION without a throw: the loader found no file, or the host asked a
\* failure for a property.
FailsSilently ==
  /\ HostTurns({}, {})
  /\ AddValue("exception", NoError)
  /\ UNCHANGED <<current_exception, thrown>>

-----------------------------------------------------------------------------
(* Promises *)

\* JavaScript that runs in some call of the host rejects a pending promise.
PromiseRejects(id, err) ==
  /\ id_to_value[id] = "promise"
  /\ cause[id] = NoError
  /\ cause' = [cause EXCEPT ![id] = err]
  /\ UNCHANGED <<id_to_value, next_id, current_exception, thrown, reported, broken>>

\* ejr_await_promise: the reason of a rejected promise, as often as it is asked
\* for; undefined for a pending promise, and for what is no promise at all.
AwaitPromise(id) ==
  /\ HostTurns({}, {})
  /\ IF id_to_value[id] = "promise" /\ cause[id] # NoError
       THEN AddValue("reason", cause[id])
       ELSE AddValue("value", NoError)
  /\ UNCHANGED <<current_exception, thrown>>

-----------------------------------------------------------------------------
(* Conversions *)

\* MUTANT of TakeException: the slot is read, not emptied.
TakeExceptionKeeping(id) ==
  /\ reported' = [reported EXCEPT ![id] = @ \cup {current_exception}]
  /\ RunsJS(current_exception)

\* MUTANT of TakeException: the slot is left null instead of empty.
TakeExceptionLeavingNull(id) ==
  /\ reported' = [reported EXCEPT ![id] = @ \cup {current_exception}]
  /\ RunsJS(-1)

\* JS_GetException: the slot's content goes to whoever asks first.  Then the
\* error's toString runs.
TakeException(id) ==
  /\ reported' = [reported EXCEPT ![id] = @ \cup {current_exception}]
  /\ RunsJS(NoError)

ConvertFailure(id) ==
  /\ id \in Failures
  /\ HostTurns({id}, {})
  /\ TakeException(id)
  /\ UNCHANGED <<id_to_value, next_id, cause>>

\* from_js converts a failure with JS_ToString; when the error's own toString
\* throws, the host is told "Exception" and the new error stays pending.
ConvertFailureFails(id) ==
  /\ id \in Failures
  /\ current_exception # NoError
  /\ HostTurns({id}, {"plain_conversions"})
  /\ reported' = [reported EXCEPT ![id] = @ \cup {NoError}]
  /\ ThrowNew
  /\ UNCHANGED <<id_to_value, next_id, cause>>

ConvertReason(id) ==
  /\ id_to_value[id] = "reason"
  /\ HostTurns({}, {})
  /\ reported' = [reported EXCEPT ![id] = @ \cup {cause[id]}]
  /\ RunsJS(current_exception)
  /\ UNCHANGED <<id_to_value, next_id, cause>>

\* Converting an object runs its toString.
ConvertValue(id) ==
  /\ id_to_value[id] \in {"value", "promise"}
  /\ HostTurns({}, {})
  /\ RunsJS(current_exception)
  /\ UNCHANGED <<id_to_value, next_id, cause, reported>>

\* A value from_js does not know leaves a TypeError pending that no id stands for.
ConvertUnsupported(id) ==
  /\ id_to_value[id] \in {"value", "promise"}
  /\ HostTurns({}, {"plain_conversions"})
  /\ ThrowNew
  /\ UNCHANGED <<id_to_value, next_id, cause, reported>>

\* Freeing the id of a failure leaves its error in the slot.
FreeJsvalue(id) ==
  /\ id_to_value[id] # "absent"
  /\ HostTurns({}, {})
  /\ id_to_value' = [id_to_value EXCEPT ![id] = "absent"]
  /\ UNCHANGED <<next_id, current_exception, thrown, cause, reported>>

Next ==
  \/ EvalValue
  \/ EvalThrows
  \/ \E err \in Reasons \cup {NoError} : EvalPromise(err)
  \/ \E err \in Reasons : EvalModuleRejects(err)
  \/ FailsSilently
  \/ \E id \in Ids :
       \/ \E err \in Reasons : PromiseRejects(id, err)
       \/ AwaitPromise(id)
       \/ ConvertFailure(id)
       \/ ConvertFailureFails(id)
       \/ ConvertReason(id)
       \/ ConvertValue(id)
       \/ ConvertUnsupported(id)
       \/ FreeJsvalue(id)

Spec == Init /\ [][Next]_vars

-----------------------------------------------------------------------------
(* Properties *)

TypeOK ==
  /\ id_to_value \in [Ids -> {"absent", "value", "exception", "promise", "reason"}]
  /\ next_id \in 0 .. MaxIds
  /\ current_exception \in Errors \cup {NoError}
  /\ thrown \in 0 .. MaxErrors
  /\ cause \in [Ids -> Errors \cup Reasons \cup {NoError}]
  /\ reported \in [Ids -> SUBSET (Errors \cup Reasons \cup {NoError})]
  /\ broken \subseteq AllRules

\* An id that was converted told its own evaluation's error, if that ended with
\* one, and the error of no other evaluation.
OwnErrorsReported ==
  \A id \in Ids : reported[id] # {} =>
    /\ cause[id] # NoError => cause[id] \in reported[id]
    /\ \A other \in Ids : cause[other] \in reported[id] => cause[other] \in {cause[id], NoError}

\* What ejr.h says of ejr_val_to_string: the text of an id is the text of that
\* id's value.  As long as the host has broken no rule, a failure tells it its
\* own error, the first time at least, and never another evaluation's.  It may
\* tell an error that is no evaluation's, a TypeError that a callback's argument
\* left in the slot.
ReportsOwnError == broken = {} => OwnErrorsReported

\* Whatever the host does, an error that was in the slot is told through one id
\* at most, and a promise's reason only through ids that stand for it.
ErrorReportedOnce ==
  \A i \in Ids :
    /\ \A j \in Ids : i # j => reported[i] \cap reported[j] \cap Errors = {}
    /\ reported[i] \cap Reasons \subseteq {cause[i]}

\* An error that was replaced, or whose slot was taken, does not come back: the
\* conversion of a failure tells the newest error that was in the slot, or none.
LostErrorsStayLost ==
  [][\A id \in Failures : reported'[id] \subseteq reported[id] \cup {NoError, thrown}]_vars

=============================================================================
