--------------------------- MODULE EjrErrorsProofs ---------------------------
(***************************************************************************)
(* Proofs about EjrErrors for every bound and any reasons: what holds of    *)
(* any host, and what a host gains by reading each failure at once.         *)
(***************************************************************************)
EXTENDS EjrErrors, TLAPS

-----------------------------------------------------------------------------
(* Any host *)

\* The slot holds the newest error or none, and nobody was told it yet.
SlotInv ==
  /\ current_exception \in {NoError, thrown}
  /\ \A i \in Ids :
       /\ reported[i] \cap Errors \subseteq 1 .. thrown
       /\ cause[i] \in Errors => cause[i] <= thrown
       /\ current_exception # NoError => current_exception \notin reported[i]
       /\ i >= next_id => id_to_value[i] = "absent" /\ reported[i] = {} /\ cause[i] = NoError

\* Reasons never were in the slot; a promise itself tells nothing.
ReasonInv ==
  \A i \in Ids :
    /\ id_to_value[i] = "reason" => cause[i] \in Reasons
    /\ id_to_value[i] = "promise" => cause[i] \in Reasons \cup {NoError} /\ reported[i] = {}

IInv == TypeOK /\ SlotInv /\ ReasonInv /\ ErrorReportedOnce

LEMMA Initially == Init => IInv
BY BoundsAssumption, ReasonsAssumption
   DEF Init, IInv, TypeOK, SlotInv, ReasonInv, ErrorReportedOnce, NoError, Errors, Ids

LEMMA Numbers ==
  ASSUME IInv
  PROVE  /\ thrown \in Nat /\ thrown <= MaxErrors /\ MaxErrors \in Nat /\ MaxIds \in Nat
         /\ NoError = 0 /\ NoError \notin Errors /\ NoError \notin Reasons
         /\ Errors \cap Reasons = {} /\ Errors = {n \in Nat : 1 <= n /\ n <= MaxErrors}
         /\ next_id \in Int /\ Ids \subseteq Int
BY BoundsAssumption, ReasonsAssumption DEF IInv, TypeOK, Errors, NoError, Ids

\* Rules are broken once and for all.
LEMMA HostSteps ==
  ASSUME IInv, [Next]_vars
  PROVE  broken \subseteq broken' /\ broken' \subseteq AllRules
<1>1. broken \subseteq AllRules
  BY DEF IInv, TypeOK
<1>2. ASSUME NEW but, NEW rules \in SUBSET AllRules, HostTurns(but, rules)
      PROVE  broken \subseteq broken' /\ broken' \subseteq AllRules
  BY <1>1, <1>2 DEF HostTurns, AllRules
<1>3. {} \in SUBSET AllRules /\ {"plain_conversions"} \in SUBSET AllRules
  BY DEF AllRules
<1>4. CASE UNCHANGED vars
  BY <1>1, <1>4 DEF vars
<1>5. CASE \E id \in Ids, err \in Reasons : PromiseRejects(id, err)
  BY <1>1, <1>5 DEF PromiseRejects
<1> QED
  BY <1>2, <1>3, <1>4, <1>5
     DEF Next, EvalValue, EvalPromise, EvalThrows, EvalModuleRejects, FailsSilently, AwaitPromise,
         ConvertFailure, ConvertFailureFails, ConvertReason, ConvertValue, ConvertUnsupported, FreeJsvalue

\* What may become of the slot in a step: it stays, is emptied, or takes the
\* next error.
SlotSteps ==
  \/ current_exception' \in {current_exception, NoError} /\ thrown' = thrown
  \/ thrown < MaxErrors /\ thrown' = thrown + 1 /\ current_exception' = thrown + 1

LEMMA RunsJSSlot ==
  ASSUME NEW slot, RunsJS(slot), slot \in {current_exception, NoError} PROVE SlotSteps
BY DEF RunsJS, ThrowNew, SlotSteps

LEMMA SlotTypes ==
  ASSUME IInv, SlotSteps
  PROVE  /\ thrown' \in 0 .. MaxErrors /\ thrown <= thrown' /\ thrown' \in Nat
         /\ current_exception' \in {NoError, thrown'}
         /\ current_exception' \in Errors \cup {NoError}
         /\ current_exception' # NoError =>
              (current_exception' = current_exception /\ thrown' = thrown) \/ current_exception' = thrown + 1
BY Numbers DEF SlotSteps, IInv, TypeOK, SlotInv

\* A new id changes nothing the older ones were told.
LEMMA InvAddValue ==
  ASSUME IInv, NEW v \in {"value", "exception", "promise", "reason"},
         NEW err \in Errors \cup Reasons \cup {NoError},
         AddValue(v, err), SlotSteps, broken' \subseteq AllRules,
         err \in Errors => err <= thrown',
         v = "reason" => err \in Reasons,
         v = "promise" => err \in Reasons \cup {NoError}
  PROVE  IInv'
<1>1. next_id \in Ids /\ next_id + 1 \in 0 .. MaxIds
  BY Numbers DEF AddValue, IInv, TypeOK, Ids
<1>2. /\ id_to_value'[next_id] = v /\ cause'[next_id] = err /\ reported' = reported
      /\ \A i \in Ids : i # next_id => id_to_value'[i] = id_to_value[i] /\ cause'[i] = cause[i]
      /\ next_id' = next_id + 1
  BY <1>1 DEF IInv, TypeOK, AddValue
<1>3. reported[next_id] = {}
  BY <1>1, Numbers DEF IInv, SlotInv
<1>4. TypeOK'
  BY <1>1, <1>2, SlotTypes DEF IInv, TypeOK, AddValue
<1>5. SlotInv'
  <2>1. ASSUME NEW i \in Ids
        PROVE  /\ reported'[i] \cap Errors \subseteq 1 .. thrown'
               /\ cause'[i] \in Errors => cause'[i] <= thrown'
               /\ current_exception' # NoError => current_exception' \notin reported'[i]
               /\ i >= next_id' => id_to_value'[i] = "absent" /\ reported'[i] = {} /\ cause'[i] = NoError
    <3>1. reported'[i] \cap Errors \subseteq 1 .. thrown'
      BY <1>2, SlotTypes, Numbers DEF IInv, SlotInv
    <3>2. cause'[i] \in Errors => cause'[i] <= thrown'
      BY <1>2, SlotTypes, Numbers DEF IInv, SlotInv
    <3>3. current_exception' # NoError => current_exception' \notin reported'[i]
      BY <1>2, SlotTypes, Numbers DEF IInv, SlotInv
    <3>4. i >= next_id' => id_to_value'[i] = "absent" /\ reported'[i] = {} /\ cause'[i] = NoError
      BY <1>2, Numbers DEF IInv, SlotInv
    <3> QED
      BY <3>1, <3>2, <3>3, <3>4
  <2> QED
    BY <2>1, SlotTypes DEF SlotInv
<1>6. ReasonInv'
  BY <1>2, <1>3 DEF IInv, ReasonInv
<1>7. ErrorReportedOnce'
  BY <1>2, <1>3 DEF IInv, ErrorReportedOnce
<1> QED
  BY <1>4, <1>5, <1>6, <1>7 DEF IInv

\* A step of the slot that no id stands for.
LEMMA InvSlotStep ==
  ASSUME IInv, broken' \subseteq AllRules, SlotSteps,
         UNCHANGED <<id_to_value, next_id, cause, reported>>
  PROVE  IInv'
<1>1. TypeOK'
  BY SlotTypes DEF IInv, TypeOK
<1>2. SlotInv'
  BY SlotTypes, Numbers DEF IInv, SlotInv
<1> QED
  BY <1>1, <1>2 DEF IInv, ReasonInv, ErrorReportedOnce

\* A conversion tells the host the slot's content, a reason, or nothing; the
\* slot does not keep what it told.
LEMMA InvReport ==
  ASSUME IInv, NEW id \in Ids, NEW err \in Errors \cup Reasons \cup {NoError},
         \/ err \in {NoError, current_exception} /\ id_to_value[id] = "exception"
         \/ err = cause[id] /\ id_to_value[id] = "reason",
         broken' \subseteq AllRules, SlotSteps,
         reported' = [reported EXCEPT ![id] = @ \cup {err}],
         err # NoError => current_exception' # err,
         UNCHANGED <<id_to_value, next_id, cause>>
  PROVE  IInv'
<1>1. /\ reported'[id] = reported[id] \cup {err}
      /\ \A i \in Ids : i # id => reported'[i] = reported[i]
  BY DEF IInv, TypeOK
<1>2. err \in Errors => err = current_exception /\ err = thrown
  BY Numbers DEF IInv, SlotInv, ReasonInv
<1>3. err \in Reasons => err = cause[id]
  BY Numbers DEF IInv, TypeOK
<1>4. TypeOK'
  BY SlotTypes DEF IInv, TypeOK
<1>5. SlotInv'
  <2>1. ASSUME NEW i \in Ids
        PROVE  /\ reported'[i] \cap Errors \subseteq 1 .. thrown'
               /\ cause'[i] \in Errors => cause'[i] <= thrown'
               /\ i >= next_id => i # id /\ reported'[i] = {}
    BY <1>1, <1>2, SlotTypes, Numbers DEF IInv, SlotInv
  <2>2. ASSUME NEW i \in Ids, current_exception' # NoError
        PROVE  current_exception' \notin reported'[i]
    <3>1. current_exception' \notin reported[i]
      BY <2>2, SlotTypes, Numbers DEF IInv, SlotInv
    <3>2. current_exception' # err
      BY <2>2
    <3> QED
      BY <3>1, <3>2, <1>1
  <2> QED
    BY <2>1, <2>2, SlotTypes DEF IInv, SlotInv
<1>6. ReasonInv'
  BY <1>1 DEF IInv, ReasonInv
<1>7. ErrorReportedOnce'
  <2>1. ASSUME NEW i \in Ids, NEW j \in Ids, i # j
        PROVE  reported'[i] \cap reported'[j] \cap Errors = {}
    <3>1. err \in Errors => err \notin reported[i] /\ err \notin reported[j]
      BY <1>2, Numbers DEF IInv, SlotInv
    <3> QED
      BY <1>1, <2>1, <3>1 DEF IInv, ErrorReportedOnce
  <2>2. ASSUME NEW i \in Ids PROVE reported'[i] \cap Reasons \subseteq {cause'[i]}
    BY <1>1, <1>3 DEF IInv, ErrorReportedOnce
  <2> QED
    BY <2>1, <2>2 DEF ErrorReportedOnce
<1> QED
  BY <1>4, <1>5, <1>6, <1>7 DEF IInv

LEMMA InvPromiseRejects ==
  ASSUME IInv, NEW id \in Ids, NEW err \in Reasons, PromiseRejects(id, err)
  PROVE  IInv'
<1>1. /\ cause'[id] = err /\ reported[id] = {}
      /\ \A i \in Ids : i # id => cause'[i] = cause[i]
      /\ id_to_value[id] = "promise" /\ err \notin Errors
  BY Numbers DEF IInv, TypeOK, ReasonInv, PromiseRejects
<1>2. TypeOK'
  BY DEF IInv, TypeOK, PromiseRejects
<1>3. SlotInv'
  BY <1>1 DEF IInv, SlotInv, PromiseRejects
<1>4. ReasonInv'
  BY <1>1 DEF IInv, ReasonInv, PromiseRejects
<1>5. ErrorReportedOnce'
  BY <1>1 DEF IInv, ErrorReportedOnce, PromiseRejects
<1> QED
  BY <1>2, <1>3, <1>4, <1>5 DEF IInv

LEMMA InvFree ==
  ASSUME IInv, NEW id \in Ids, FreeJsvalue(id), broken' \subseteq AllRules
  PROVE  IInv'
<1>1. \A i \in Ids : id_to_value'[i] \in {id_to_value[i], "absent"}
  BY DEF IInv, TypeOK, FreeJsvalue
<1>2. TypeOK'
  BY DEF IInv, TypeOK, FreeJsvalue
<1>3. SlotInv'
  BY <1>1 DEF IInv, SlotInv, FreeJsvalue
<1>4. ReasonInv'
  BY <1>1 DEF IInv, ReasonInv, FreeJsvalue
<1>5. ErrorReportedOnce'
  BY DEF IInv, ErrorReportedOnce, FreeJsvalue
<1> QED
  BY <1>2, <1>3, <1>4, <1>5 DEF IInv

LEMMA InvStutter == IInv /\ UNCHANGED vars => IInv'
BY DEF IInv, TypeOK, SlotInv, ReasonInv, ErrorReportedOnce, vars

\* Each operation is one of the steps above.
LEMMA InvEvaluations ==
  ASSUME IInv, broken' \subseteq AllRules,
         \/ EvalValue \/ EvalThrows \/ FailsSilently
         \/ \E err \in Reasons \cup {NoError} : EvalPromise(err)
         \/ \E err \in Reasons : EvalModuleRejects(err)
  PROVE  IInv'
<1>1. NoError \notin Errors /\ Errors \cap Reasons = {}
  BY Numbers
<1>2. CASE EvalValue
  <2>1. AddValue("value", NoError) /\ SlotSteps
    BY <1>2, RunsJSSlot DEF EvalValue
  <2> QED
    BY <1>1, <2>1, InvAddValue
<1>3. CASE EvalThrows
  <2>1. AddValue("exception", thrown + 1) /\ SlotSteps /\ thrown + 1 \in Errors /\ thrown + 1 <= thrown'
    BY <1>3, Numbers DEF EvalThrows, ThrowNew, SlotSteps
  <2> QED
    BY <2>1, InvAddValue
<1>4. CASE FailsSilently
  <2>1. AddValue("exception", NoError) /\ SlotSteps
    BY <1>4 DEF FailsSilently, SlotSteps
  <2> QED
    BY <1>1, <2>1, InvAddValue
<1>5. ASSUME NEW err \in Reasons \cup {NoError}, EvalPromise(err) PROVE IInv'
  <2>1. AddValue("promise", err) /\ SlotSteps /\ err \notin Errors
    BY <1>1, <1>5, RunsJSSlot DEF EvalPromise
  <2> QED
    BY <1>1, <2>1, InvAddValue
<1>6. ASSUME NEW err \in Reasons, EvalModuleRejects(err) PROVE IInv'
  <2>1. AddValue("reason", err) /\ SlotSteps /\ err \notin Errors
    BY <1>1, <1>6, RunsJSSlot DEF EvalModuleRejects
  <2> QED
    BY <1>1, <2>1, InvAddValue
<1> QED
  BY <1>2, <1>3, <1>4, <1>5, <1>6

LEMMA InvAwait ==
  ASSUME IInv, NEW id \in Ids, AwaitPromise(id), broken' \subseteq AllRules
  PROVE  IInv'
<1>1. NoError \notin Errors /\ Errors \cap Reasons = {} /\ SlotSteps
  BY Numbers DEF AwaitPromise, SlotSteps
<1>2. CASE id_to_value[id] = "promise" /\ cause[id] # NoError
  <2>1. AddValue("reason", cause[id]) /\ cause[id] \in Reasons
    BY <1>2 DEF AwaitPromise, IInv, ReasonInv
  <2> QED
    BY <1>1, <2>1, InvAddValue
<1>3. CASE ~(id_to_value[id] = "promise" /\ cause[id] # NoError)
  <2>1. AddValue("value", NoError)
    BY <1>3 DEF AwaitPromise
  <2> QED
    BY <1>1, <2>1, InvAddValue
<1> QED
  BY <1>2, <1>3

LEMMA InvConversions ==
  ASSUME IInv, NEW id \in Ids, broken' \subseteq AllRules,
         \/ ConvertFailure(id) \/ ConvertFailureFails(id) \/ ConvertReason(id)
         \/ ConvertValue(id) \/ ConvertUnsupported(id)
  PROVE  IInv'
<1>1. CASE ConvertFailure(id)
  <2>1. /\ id_to_value[id] = "exception" /\ current_exception \in Errors \cup {NoError}
        /\ reported' = [reported EXCEPT ![id] = @ \cup {current_exception}]
        /\ UNCHANGED <<id_to_value, next_id, cause>>
    BY <1>1 DEF ConvertFailure, TakeException, Failures, IInv, TypeOK
  <2>2. SlotSteps
    BY <1>1, RunsJSSlot DEF ConvertFailure, TakeException
  <2>3. current_exception # NoError => current_exception' # current_exception
    BY <1>1, Numbers DEF ConvertFailure, TakeException, RunsJS, ThrowNew, IInv, SlotInv
  <2>4. current_exception \in Errors \cup Reasons \cup {NoError} /\ current_exception \in {NoError, current_exception}
    BY <2>1
  <2> QED
    BY <2>1, <2>2, <2>3, <2>4, InvReport
<1>2. CASE ConvertFailureFails(id)
  <2>1. /\ id_to_value[id] = "exception"
        /\ reported' = [reported EXCEPT ![id] = @ \cup {NoError}]
        /\ UNCHANGED <<id_to_value, next_id, cause>>
    BY <1>2 DEF ConvertFailureFails, Failures
  <2>2. SlotSteps
    BY <1>2 DEF ConvertFailureFails, ThrowNew, SlotSteps
  <2> QED
    BY <2>1, <2>2, InvReport
<1>3. CASE ConvertReason(id)
  <2>1. /\ id_to_value[id] = "reason" /\ cause[id] \in Reasons /\ current_exception \notin Reasons
        /\ reported' = [reported EXCEPT ![id] = @ \cup {cause[id]}]
        /\ UNCHANGED <<id_to_value, next_id, cause>>
    BY <1>3, Numbers DEF ConvertReason, IInv, ReasonInv, TypeOK
  <2>2. SlotSteps
    BY <1>3, RunsJSSlot DEF ConvertReason
  <2>3. current_exception' # cause[id]
    BY <2>1, <2>2, SlotTypes, Numbers
  <2> QED
    BY <2>1, <2>2, <2>3, InvReport
<1>4. CASE ConvertValue(id)
  BY <1>4, RunsJSSlot, InvSlotStep DEF ConvertValue
<1>5. CASE ConvertUnsupported(id)
  BY <1>5, InvSlotStep DEF ConvertUnsupported, ThrowNew, SlotSteps
<1> QED
  BY <1>1, <1>2, <1>3, <1>4, <1>5

LEMMA InvNext == IInv /\ [Next]_vars => IInv'
<1> SUFFICES ASSUME IInv, [Next]_vars PROVE IInv'
  OBVIOUS
<1> QED
  BY HostSteps, InvEvaluations, InvPromiseRejects, InvAwait, InvConversions, InvFree, InvStutter DEF Next

THEOREM Invariance == Spec => []IInv
BY Initially, InvNext, PTL DEF Spec

\* Every history of every host keeps its variables in range: the slot never
\* holds anything but a thrown error or JS_UNINITIALIZED.
THEOREM TypeCorrect == Spec => []TypeOK
BY Invariance, PTL DEF IInv

\* JS_GetException hands an error out once: no two ids tell the same one.  Only
\* what a promise or a failed module keeps is told again, by ids that stand for it.
THEOREM ErrorsAreReportedOnce == Spec => []ErrorReportedOnce
BY Invariance, PTL DEF IInv

\* An error that was replaced in the slot, or taken from it, is told no more.
THEOREM LostErrorsNeverReturn == Spec => LostErrorsStayLost
<1>1. ASSUME IInv, [Next]_vars
      PROVE  [\A id \in Failures : reported'[id] \subseteq reported[id] \cup {NoError, thrown}]_vars
  <2>1. current_exception \in {NoError, thrown}
    BY <1>1 DEF IInv, SlotInv
  <2>2. ASSUME NEW i \in Ids, NEW err, reported' = [reported EXCEPT ![i] = @ \cup {err}],
               err \in {NoError, thrown} \/ i \notin Failures
        PROVE  \A id \in Failures : reported'[id] \subseteq reported[id] \cup {NoError, thrown}
    BY <1>1, <2>2 DEF IInv, TypeOK, Failures
  <2>3. CASE UNCHANGED reported
    BY <2>3
  <2>4. ASSUME NEW i \in Ids, ConvertFailure(i)
        PROVE  \A id \in Failures : reported'[id] \subseteq reported[id] \cup {NoError, thrown}
    BY <2>1, <2>2, <2>4 DEF ConvertFailure, TakeException
  <2>5. ASSUME NEW i \in Ids, ConvertFailureFails(i)
        PROVE  \A id \in Failures : reported'[id] \subseteq reported[id] \cup {NoError, thrown}
    BY <2>2, <2>5 DEF ConvertFailureFails
  <2>6. ASSUME NEW i \in Ids, ConvertReason(i)
        PROVE  \A id \in Failures : reported'[id] \subseteq reported[id] \cup {NoError, thrown}
    BY <2>2, <2>6 DEF ConvertReason, Failures
  <2> QED
    BY <1>1, <2>3, <2>4, <2>5, <2>6
       DEF Next, vars, EvalValue, EvalPromise, EvalThrows, EvalModuleRejects, FailsSilently, AddValue,
           PromiseRejects, AwaitPromise, ConvertValue, ConvertUnsupported, FreeJsvalue
<1> QED
  BY <1>1, Invariance, PTL DEF Spec, LostErrorsStayLost

-----------------------------------------------------------------------------
(* A host that reads each failure at once *)

\* At most one failure is unread, the newest id.  The slot holds its error, if
\* it has one; otherwise what the slot holds is an error no id stands for.
CareInv ==
  /\ \A i \in Unread : i = next_id - 1 /\ (cause[i] # NoError => current_exception = cause[i])
  /\ \A i \in Ids : cause[i] = current_exception /\ cause[i] # NoError => i \in Unread
  /\ OwnErrorsReported

LEMMA CareInitially == Init => CareInv
BY DEF Init, CareInv, Unread, Failures, OwnErrorsReported, NoError

\* The next error is nobody's yet.
LEMMA NextErrorIsNew == IInv => \A i \in Ids : cause[i] # thrown + 1
<1> SUFFICES ASSUME IInv, NEW i \in Ids PROVE cause[i] # thrown + 1
  OBVIOUS
<1>1. cause[i] \in Errors \cup Reasons \cup {NoError}
  BY DEF IInv, TypeOK
<1>2. CASE cause[i] \in Errors
  BY <1>2, Numbers DEF IInv, SlotInv
<1>3. CASE cause[i] \in Reasons
  BY <1>3, Numbers, ReasonsAssumption
<1> QED
  BY <1>1, <1>2, <1>3, Numbers

\* An error that comes into the slot now is no older id's.
LEMMA NewInSlot ==
  ASSUME IInv, CareInv, SlotSteps, NEW i \in Ids,
         cause[i] = current_exception', cause[i] # NoError
  PROVE  i \in Unread /\ current_exception' = current_exception
<1>1. cause[i] # thrown + 1
  BY NextErrorIsNew
<1> QED
  BY <1>1 DEF SlotSteps, CareInv

\* An evaluation starts with nothing unread; its failure is the only one.
LEMMA CareAddValue ==
  ASSUME IInv, CareInv, Unread = {}, NEW v, NEW err \in Errors \cup Reasons \cup {NoError},
         AddValue(v, err), SlotSteps,
         v = "exception" /\ err # NoError => err = thrown + 1 /\ current_exception' = err,
         v # "exception" => err \in Reasons \cup {NoError}
  PROVE  CareInv'
<1>1. next_id \in Ids /\ next_id' = next_id + 1 /\ reported[next_id] = {} /\ cause[next_id] = NoError
  BY Numbers DEF IInv, SlotInv, AddValue
<1>2. /\ \A i \in Ids : i # next_id => id_to_value'[i] = id_to_value[i] /\ cause'[i] = cause[i]
      /\ id_to_value'[next_id] = v /\ cause'[next_id] = err
      /\ reported' = reported
  BY <1>1 DEF IInv, TypeOK, AddValue
<1>3. Unread' = IF v = "exception" THEN {next_id} ELSE {}
  BY <1>1, <1>2 DEF Unread, Failures
<1>4. OwnErrorsReported'
  <2> SUFFICES ASSUME NEW id \in Ids, reported[id] # {}
               PROVE  /\ cause'[id] # NoError => cause'[id] \in reported[id]
                      /\ \A other \in Ids : cause'[other] \in reported[id] => cause'[other] \in {cause'[id], NoError}
    BY <1>2 DEF OwnErrorsReported
  <2>1. id # next_id /\ cause'[id] = cause[id]
    BY <1>1, <1>2
  <2>2. cause[id] # NoError => cause[id] \in reported[id]
    BY DEF CareInv, OwnErrorsReported
  <2>3. \A other \in Ids : cause[other] \in reported[id] => cause[other] \in {cause[id], NoError}
    BY DEF CareInv, OwnErrorsReported
  <2>4. err \in reported[id] => err \in {cause[id], NoError}
    <3>1. CASE err \in Reasons
      BY <3>1 DEF IInv, ErrorReportedOnce
    <3>2. CASE err \in Errors
      <4>1. err = thrown + 1
        BY <3>2, Numbers
      <4> QED
        BY <3>2, <4>1, Numbers DEF IInv, SlotInv
    <3> QED
      BY <3>1, <3>2
  <2> QED
    BY <1>2, <2>1, <2>2, <2>3, <2>4
<1>5. \A i \in Unread' : i = next_id' - 1 /\ (cause'[i] # NoError => current_exception' = cause'[i])
  BY <1>1, <1>2, <1>3, Numbers
<1>6. \A i \in Ids : cause'[i] = current_exception' /\ cause'[i] # NoError => i \in Unread'
  <2>1. ASSUME NEW i \in Ids, i # next_id, cause'[i] = current_exception', cause'[i] # NoError PROVE FALSE
    BY <1>2, <2>1, NewInSlot
  <2>2. err \in Reasons => err # current_exception'
    BY SlotTypes, Numbers
  <2> QED
    BY <1>2, <1>3, <2>1, <2>2
<1> QED
  BY <1>4, <1>5, <1>6 DEF CareInv

\* A conversion reads the one unread failure, or what no id stands for.
LEMMA CareConvertFailure ==
  ASSUME IInv, CareInv, NEW id \in Ids, Unread \subseteq {id}, ConvertFailure(id)
  PROVE  CareInv'
<1>1. /\ reported'[id] = reported[id] \cup {current_exception}
      /\ \A i \in Ids : i # id => reported'[i] = reported[i]
      /\ UNCHANGED <<id_to_value, cause>>
  BY DEF IInv, TypeOK, ConvertFailure, TakeException
<1>2. SlotSteps /\ current_exception' \in {NoError, thrown + 1}
  BY RunsJSSlot DEF ConvertFailure, TakeException, RunsJS, ThrowNew
<1>3. Unread' = {}
  BY <1>1 DEF Unread, Failures
<1>4. id_to_value[id] = "exception"
  BY DEF ConvertFailure, Failures
<1>5. cause[id] # NoError => cause[id] \in reported'[id]
  <2>1. CASE id \in Unread
    BY <1>1, <2>1 DEF CareInv
  <2>2. CASE id \notin Unread
    BY <1>1, <1>4, <2>2 DEF CareInv, OwnErrorsReported, Unread, Failures
  <2> QED
    BY <2>1, <2>2
<1>6. \A other \in Ids : cause[other] \in reported'[id] => cause[other] \in {cause[id], NoError}
  <2>1. ASSUME NEW other \in Ids, cause[other] = current_exception, cause[other] # NoError
        PROVE  other = id
    BY <2>1 DEF CareInv
  <2>2. ASSUME NEW other \in Ids, cause[other] \in reported[id]
        PROVE  cause[other] \in {cause[id], NoError}
    BY <2>2 DEF CareInv, OwnErrorsReported
  <2> QED
    BY <1>1, <2>1, <2>2
<1>7. OwnErrorsReported'
  BY <1>1, <1>5, <1>6 DEF CareInv, OwnErrorsReported
<1>8. \A i \in Ids : ~(cause'[i] = current_exception' /\ cause'[i] # NoError)
  BY <1>1, <1>2, NextErrorIsNew
<1> QED
  BY <1>3, <1>7, <1>8 DEF CareInv

\* Other conversions tell a reason or nothing.
LEMMA CareQuiet ==
  ASSUME IInv, CareInv, Unread = {}, SlotSteps, UNCHANGED <<id_to_value, next_id, cause, reported>>
  PROVE  CareInv'
<1>1. \A i \in Ids : ~(cause[i] = current_exception' /\ cause[i] # NoError)
  BY NewInSlot
<1> QED
  BY <1>1 DEF CareInv, OwnErrorsReported, Unread, Failures

LEMMA CareConvertReason ==
  ASSUME IInv, CareInv, Unread = {}, NEW id \in Ids, ConvertReason(id)
  PROVE  CareInv'
<1>1. /\ reported'[id] = reported[id] \cup {cause[id]}
      /\ \A i \in Ids : i # id => reported'[i] = reported[i]
      /\ UNCHANGED <<id_to_value, cause>>
  BY DEF IInv, TypeOK, ConvertReason
<1>2. SlotSteps
  BY RunsJSSlot DEF ConvertReason
<1>3. Unread' = {}
  BY <1>1 DEF Unread, Failures
<1>4. \A other \in Ids : cause[other] \in reported[id] => cause[other] \in {cause[id], NoError}
  BY DEF CareInv, OwnErrorsReported
<1>5. OwnErrorsReported'
  BY <1>1, <1>4 DEF CareInv, OwnErrorsReported
<1>6. \A i \in Ids : ~(cause'[i] = current_exception' /\ cause'[i] # NoError)
  BY <1>1, <1>2, NewInSlot
<1> QED
  BY <1>3, <1>5, <1>6 DEF CareInv

LEMMA CareFree ==
  ASSUME IInv, CareInv, Unread = {}, NEW id \in Ids, FreeJsvalue(id)
  PROVE  CareInv'
<1>1. /\ \A i \in Ids : id_to_value'[i] \in {id_to_value[i], "absent"}
      /\ UNCHANGED <<next_id, current_exception, cause, reported>>
  BY DEF IInv, TypeOK, FreeJsvalue
<1>2. Unread' = {}
  BY <1>1 DEF Unread, Failures
<1> QED
  BY <1>1, <1>2 DEF CareInv, OwnErrorsReported

\* A promise that is rejected later has told nothing yet, and its reason is not
\* in the slot.
LEMMA CarePromiseRejects ==
  ASSUME IInv, CareInv, NEW id \in Ids, NEW err \in Reasons, PromiseRejects(id, err)
  PROVE  CareInv'
<1>1. /\ cause'[id] = err /\ reported[id] = {} /\ id \notin Unread
      /\ \A i \in Ids : i # id => cause'[i] = cause[i]
      /\ UNCHANGED <<id_to_value, next_id, current_exception, reported>>
  BY DEF IInv, TypeOK, ReasonInv, PromiseRejects, Unread, Failures
<1>2. Unread' = Unread
  BY <1>1 DEF Unread, Failures
<1>3. err # current_exception /\ err # NoError
  BY Numbers DEF IInv, TypeOK
<1>4. OwnErrorsReported'
  <2>1. ASSUME NEW i \in Ids, err \in reported[i] PROVE cause[i] = err /\ i # id
    BY <1>1, <2>1 DEF IInv, ErrorReportedOnce
  <2> QED
    BY <1>1, <2>1 DEF CareInv, OwnErrorsReported
<1>5. \A i \in Unread' : i = next_id' - 1 /\ (cause'[i] # NoError => current_exception' = cause'[i])
  <2>1. \A i \in Unread : i \in Ids /\ i # id
    BY <1>1 DEF Unread, Failures
  <2> QED
    BY <1>1, <1>2, <2>1 DEF CareInv
<1>6. \A i \in Ids : cause'[i] = current_exception' /\ cause'[i] # NoError => i \in Unread'
  BY <1>1, <1>2, <1>3 DEF CareInv
<1> QED
  BY <1>4, <1>5, <1>6 DEF CareInv

LEMMA CareEvaluations ==
  ASSUME IInv, CareInv, Unread = {},
         \/ EvalValue \/ EvalThrows \/ FailsSilently
         \/ \E err \in Reasons \cup {NoError} : EvalPromise(err)
         \/ \E err \in Reasons : EvalModuleRejects(err)
  PROVE  CareInv'
<1>1. CASE EvalValue
  BY <1>1, RunsJSSlot, CareAddValue DEF EvalValue
<1>2. CASE EvalThrows
  <2>1. AddValue("exception", thrown + 1) /\ SlotSteps /\ thrown + 1 \in Errors /\ current_exception' = thrown + 1
    BY <1>2, Numbers DEF EvalThrows, ThrowNew, SlotSteps
  <2> QED
    BY <2>1, CareAddValue
<1>3. CASE FailsSilently
  <2>1. AddValue("exception", NoError) /\ SlotSteps
    BY <1>3 DEF FailsSilently, SlotSteps
  <2> QED
    BY <2>1, CareAddValue
<1>4. ASSUME NEW err \in Reasons \cup {NoError}, EvalPromise(err) PROVE CareInv'
  BY <1>4, RunsJSSlot, CareAddValue DEF EvalPromise
<1>5. ASSUME NEW err \in Reasons, EvalModuleRejects(err) PROVE CareInv'
  BY <1>5, RunsJSSlot, CareAddValue DEF EvalModuleRejects
<1> QED
  BY <1>1, <1>2, <1>3, <1>4, <1>5

LEMMA CareAwait ==
  ASSUME IInv, CareInv, Unread = {}, NEW id \in Ids, AwaitPromise(id)
  PROVE  CareInv'
<1>1. SlotSteps
  BY DEF AwaitPromise, SlotSteps
<1>2. id_to_value[id] = "promise" /\ cause[id] # NoError => cause[id] \in Reasons
  BY DEF IInv, ReasonInv
<1> QED
  BY <1>1, <1>2, CareAddValue DEF AwaitPromise

LEMMA CareNext ==
  ASSUME IInv, CareInv, [Next]_vars, broken' = {}
  PROVE  CareInv'
<1>1. ASSUME NEW but, NEW rules, HostTurns(but, rules) PROVE Unread \subseteq but /\ rules = {}
  BY <1>1 DEF HostTurns
<1>2. HostTurns({}, {}) => Unread = {}
  BY <1>1
<1>3. CASE EvalValue \/ EvalThrows \/ FailsSilently
  BY <1>2, <1>3, CareEvaluations DEF EvalValue, EvalThrows, FailsSilently
<1>4. ASSUME NEW err \in Reasons \cup {NoError}, EvalPromise(err) PROVE CareInv'
  BY <1>2, <1>4, CareEvaluations DEF EvalPromise
<1>5. ASSUME NEW err \in Reasons, EvalModuleRejects(err) PROVE CareInv'
  BY <1>2, <1>5, CareEvaluations DEF EvalModuleRejects
<1>6. ASSUME NEW id \in Ids, AwaitPromise(id) PROVE CareInv'
  <2>1. Unread = {}
    BY <1>2, <1>6 DEF AwaitPromise
  <2> QED
    BY <1>6, <2>1, CareAwait
<1>7. ASSUME NEW id \in Ids, ConvertFailure(id) PROVE CareInv'
  <2>1. Unread \subseteq {id}
    BY <1>1, <1>7 DEF ConvertFailure
  <2> QED
    BY <1>7, <2>1, CareConvertFailure
<1>8. ASSUME NEW id \in Ids PROVE ~ConvertFailureFails(id) /\ ~ConvertUnsupported(id)
  BY <1>1 DEF ConvertFailureFails, ConvertUnsupported
<1>9. ASSUME NEW id \in Ids, ConvertReason(id) PROVE CareInv'
  <2>1. Unread = {}
    BY <1>2, <1>9 DEF ConvertReason
  <2> QED
    BY <1>9, <2>1, CareConvertReason
<1>10. ASSUME NEW id \in Ids, ConvertValue(id) PROVE CareInv'
  <2>1. Unread = {} /\ SlotSteps /\ UNCHANGED <<id_to_value, next_id, cause, reported>>
    BY <1>2, <1>10, RunsJSSlot DEF ConvertValue
  <2> QED
    BY <2>1, CareQuiet
<1>11. ASSUME NEW id \in Ids, FreeJsvalue(id) PROVE CareInv'
  <2>1. Unread = {}
    BY <1>2, <1>11 DEF FreeJsvalue
  <2> QED
    BY <1>11, <2>1, CareFree
<1>12. CASE UNCHANGED vars
  BY <1>12 DEF vars, CareInv, OwnErrorsReported, Unread, Failures
<1> QED
  BY <1>3, <1>4, <1>5, <1>6, <1>7, <1>8, <1>9, <1>10, <1>11, <1>12, CarePromiseRejects DEF Next

\* As long as a host reads each failure before its next call, it is told that
\* failure's own error and no other evaluation's, over every sequence of
\* evaluations, awaits and conversions, whatever its callbacks are passed.
THEOREM OwnErrorReported == Spec => []ReportsOwnError
<1>1. Init => (broken = {} => CareInv)
  BY CareInitially
<1>2. IInv /\ (broken = {} => CareInv) /\ [Next]_vars => (broken = {} => CareInv)'
  BY CareNext, HostSteps
<1>3. (broken = {} => CareInv) => ReportsOwnError
  BY DEF CareInv, ReportsOwnError
<1> QED
  BY <1>1, <1>2, <1>3, Invariance, PTL DEF Spec

=============================================================================
