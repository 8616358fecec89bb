--------------------------- MODULE QjsModuleGraph ---------------------------
(***************************************************************************)
(* Linking and evaluation of a graph of modules: what ejr_eval_module and   *)
(* import() start after the modules are loaded.                             *)
(*                                                                          *)
(* Linking and evaluation are depth-first traversals that close the cycles  *)
(* of the graph with a stack (Tarjan).  A module body with a top level await *)
(* suspends; its importers wait for it and run from the job that reports    *)
(* its end.  The traversals are calls on the C stack, one record of `calls` *)
(* each, because a body runs in the middle of one.                          *)
(***************************************************************************)
EXTENDS Integers, Sequences, FiniteSets, SequencesExt

CONSTANTS
  Modules,   \* loaded modules
  None,      \* no error, no cycle root
  Graphs,    \* the import lists considered: functions from Modules to Seq(Modules)
  Reentry    \* TRUE: a body may call a native function that evaluates a module

ASSUME ModulesAssumption == IsFiniteSet(Modules)
ASSUME GraphsAssumption == Graphs \subseteq [Modules -> Seq(Modules)]
ASSUME NoneAssumption == None \notin Modules /\ Reentry \in BOOLEAN

VARIABLES
  imports,   \* req_module_entries of each module, as written in its source
  has_tla,   \* modules with a top level await
  mod,       \* mod[m]: the fields of JSModuleDef
  body,      \* "unrun", "running", "suspended", "done" or "failed"
  calls,     \* the engine's traversals on the C stack, the innermost last
  jobs,      \* reports of ended asynchronous bodies, in job_list order
  clock,     \* module_async_evaluation_next_timestamp
  asserts    \* FALSE once an assertion of the engine has failed

vars == <<imports, has_tla, mod, body, calls, jobs, clock, asserts>>
code == <<imports, has_tla>>

\* js_new_module_def.
NewModule == [status |-> "unlinked", dfs |-> 0, anc |-> 0, root |-> None, pending |-> 0,
              async |-> FALSE, stamp |-> 0, parents |-> <<>>, error |-> None,
              promise |-> "none"]

Init ==
  /\ imports \in Graphs
  /\ has_tla \in SUBSET Modules
  /\ mod = [m \in Modules |-> NewModule]
  /\ body = [m \in Modules |-> "unrun"]
  /\ calls = <<>> /\ jobs = <<>> /\ clock = 0 /\ asserts = TRUE

top    == Last(calls)
frame  == Last(top.frames)
Min2(a, b) == IF a < b THEN a ELSE b

\* A call of the engine: a traversal from root, or the list of modules a
\* fulfilled dependency made available.
Call(op, root, todo) ==
  [op |-> op, root |-> root, frames |-> <<>>, stack |-> <<>>, index |-> 0, todo |-> todo]
InCall(op)    == calls # <<>> /\ top.op = op
Replace(call) == calls' = Append(Front(calls), call)
Returns       == calls' = Front(calls)

\* The module whose body the innermost call runs.
Current == IF top.op = "exec" THEN Head(top.todo) ELSE frame.m
Running ==
  /\ calls # <<>>
  /\ IF top.op = "exec" THEN top.todo # <<>> ELSE top.frames # <<>>
  /\ body[Current] = "running"

\* Both traversals enter a module alike: number it, push it on the stack.
Enter(call, m) ==
  [call EXCEPT !.frames = Append(@, [m |-> m, next |-> 1]),
               !.stack = Append(@, m), !.index = @ + 1]
Entered(M, m, status, call) ==
  [M EXCEPT ![m].status = status, ![m].dfs = call.index, ![m].anc = call.index]
AtChild(op)  == InCall(op) /\ top.frames # <<>> /\ frame.next <= Len(imports[frame.m])
AtEnd(op)    == InCall(op) /\ top.frames # <<>> /\ frame.next > Len(imports[frame.m])
Child        == imports[frame.m][frame.next]
NextChild    == [top EXCEPT !.frames[Len(top.frames)].next = @ + 1]

\* The frame at the top returns to its caller, which looks at the child again
\* and finds it visited.
Leave(call) == [call EXCEPT !.frames = Front(@)]

\* The modules of a closed cycle: the stack from its root m up, and what is
\* left of the stack.
Place(stack, m) == CHOOSE i \in 1..Len(stack) : stack[i] = m
Cycle(stack, m) == {stack[k] : k \in Place(stack, m)..Len(stack)}
Below(stack, m) == SubSeq(stack, 1, Place(stack, m) - 1)
IsRoot(M, m)    == M[m].dfs = M[m].anc

-----------------------------------------------------------------------------
(* Linking *)

LinkSettled == {"linked", "evaluating_async", "evaluated"}

\* What can be reached from m in the set U along next, m included: the least
\* such set that is closed.
Closure(U, m, next) ==
  {d \in U : \A S \in SUBSET U :
               m \in S /\ d \notin S => \E x \in S : ~(next[x] \cap U \subseteq S)}

\* JS_EvalFunctionInternal on a module value, up to the traversal of
\* js_link_module: the host's evaluation or the job of an import().  A native
\* function called by a body evaluates a module that is new.
Evaluate(m) ==
  /\ \/ calls = <<>>
     \/ Reentry /\ Running /\ mod[m].status = "unlinked"
  /\ asserts' = (asserts /\ mod[m].status \in LinkSettled \cup {"unlinked"})
  /\ LET call == Call("link", m, <<>>)
     IN  IF mod[m].status = "unlinked"
         THEN /\ calls' = Append(calls, Enter(call, m))
              /\ mod' = Entered(mod, m, "linking", call)
         ELSE calls' = Append(calls, call) /\ UNCHANGED mod
  /\ UNCHANGED <<code, body, jobs, clock>>

\* js_inner_module_linking on a requested module.
LinkVisits ==
  /\ AtChild("link")
  /\ LET d == Child
     IN  IF mod[d].status \in LinkSettled \cup {"linking"}
         THEN /\ Replace(NextChild)
              /\ mod' = IF mod[d].status = "linking"
                        THEN [mod EXCEPT ![frame.m].anc = Min2(@, mod[d].anc)]
                        ELSE mod
              /\ UNCHANGED asserts
         ELSE /\ Replace(Enter(top, d))
              /\ mod' = Entered(mod, d, "linking", top)
              /\ asserts' = (asserts /\ mod[d].status = "unlinked")
  /\ UNCHANGED <<code, body, jobs, clock>>

\* The end of js_inner_module_linking: the root of a cycle links all of it.
LinkEnds ==
  /\ AtEnd("link")
  /\ LET m == frame.m
         K == Cycle(top.stack, m)
     IN  /\ asserts' = (asserts /\ mod[m].anc <= mod[m].dfs)
         /\ IF IsRoot(mod, m)
            THEN /\ mod' = [x \in Modules |-> IF x \in K THEN [mod[x] EXCEPT !.status = "linked"]
                                              ELSE mod[x]]
                 /\ Replace(Leave([top EXCEPT !.stack = Below(@, m)]))
            ELSE UNCHANGED mod /\ Replace(Leave(top))
  /\ UNCHANGED <<code, body, jobs, clock>>

\* MUTANT of LinkFails: the modules on the stack stay in the traversal's state.
LinkFailsHalfway ==
  /\ AtEnd("link")
  /\ mod' = [mod EXCEPT ![frame.m].status = "unlinked"]
  /\ Returns
  /\ UNCHANGED <<code, body, jobs, clock, asserts>>

\* An import that names no export: js_link_module undoes what is on the stack
\* and the evaluation fails.  Which module has one is left open.
LinkFails ==
  /\ AtEnd("link")
  /\ LET K == ToSet(top.stack)
     IN  /\ asserts' = (asserts /\ \A x \in K : mod[x].status = "linking")
         /\ mod' = [x \in Modules |-> IF x \in K THEN [mod[x] EXCEPT !.status = "unlinked"]
                                      ELSE mod[x]]
  /\ Returns
  /\ UNCHANGED <<code, body, jobs, clock>>

-----------------------------------------------------------------------------
(* Evaluation *)

Ended == {"evaluating_async", "evaluated"}

\* A call of a resolving function settles a promise the first time only.
Settled(promise, how) == IF promise = "pending" THEN how ELSE promise

\* MUTANT of Failed: the modules of a failed evaluation may be evaluated again.
FailedRetried(M, m, K, e) ==
  [x \in Modules |->
     IF x \in K
     THEN [M[x] EXCEPT !.status = "linked", !.async = FALSE,
                       !.promise = IF x = m THEN Settled(@, "rejected") ELSE @]
     ELSE M[x]]

\* js_evaluate_module after a failed traversal from m: everything on the stack
\* K ends with the error, and the promise of m is rejected.
Failed(M, m, K, e) ==
  [x \in Modules |->
     IF x \in K \cup {m}
     THEN [M[x] EXCEPT !.status = IF x \in K THEN "evaluated" ELSE @,
                       !.error = IF x \in K THEN e ELSE @,
                       !.root = IF x \in K THEN m ELSE @,
                       !.promise = IF x = m THEN Settled(@, "rejected") ELSE @]
     ELSE M[x]]

EvalFails(M, e) ==
  LET K == ToSet(top.stack)
  IN  /\ mod' = Failed(M, top.root, K, e)
      /\ asserts' = (asserts /\ (\A x \in K : M[x].status = "evaluating")
                             /\ mod'[top.root].status = "evaluated" /\ mod'[top.root].error # None)
      /\ Returns

\* js_evaluate_module, once the modules are linked: a cycle is evaluated from
\* its root, whose promise, if there is one, is the answer.
EvalStarts ==
  /\ InCall("link") /\ top.frames = <<>>
  /\ LET m == IF mod[top.root].status \in Ended THEN mod[top.root].root ELSE top.root
         call == Call("eval", m, <<>>)
         P(how) == [mod EXCEPT ![m].promise = how]
         linked == top.stack = <<>> /\ mod[top.root].status \in LinkSettled
     IN  IF mod[m].promise # "none" THEN Returns /\ asserts' = (asserts /\ linked) /\ UNCHANGED mod
         ELSE \/ /\ mod[m].status = "linked"
                 /\ Replace(Enter(call, m))
                 /\ mod' = Entered(P("pending"), m, "evaluating", call)
                 /\ asserts' = (asserts /\ linked)
              \/ /\ mod[m].status \in Ended
                 /\ Returns
                 /\ mod' = P(IF mod[m].error # None THEN "rejected"
                             ELSE IF mod[m].async THEN "pending" ELSE "fulfilled")
                 /\ asserts' = (asserts /\ linked /\
                      (mod[m].error # None \/ ~mod[m].async => mod[m].status = "evaluated"))
              \/ /\ mod[m].status \notin Ended \cup {"linked"}
                 /\ asserts' = FALSE /\ Returns /\ UNCHANGED mod
  /\ UNCHANGED <<code, body, jobs, clock>>

EvalEnters ==
  /\ AtChild("eval") /\ mod[Child].status = "linked"
  /\ Replace(Enter(top, Child))
  /\ mod' = Entered(mod, Child, "evaluating", top)
  /\ UNCHANGED <<code, body, jobs, clock, asserts>>

\* MUTANT of WaitedFor: not the root of the cycle.
WaitedForItself(d) == d

\* The module an importer waits for: a child that is still on the stack, or
\* the root of its cycle.
WaitedFor(d) == IF mod[d].status = "evaluating" THEN d ELSE mod[d].root

\* js_inner_module_evaluation on a requested module whose evaluation failed,
\* itself or its cycle.
EvalInherits ==
  /\ AtChild("eval") /\ mod[Child].status \in Ended
  /\ LET e == IF mod[Child].error # None THEN mod[Child].error ELSE mod[mod[Child].root].error
     IN  e # None /\ EvalFails(mod, e)
  /\ UNCHANGED <<code, body, jobs, clock>>

\* MUTANT of EvalReturns: an importer registers and does not count itself out.
EvalReturnsUncounted ==
  /\ AtChild("eval") /\ mod[Child].status \in Ended \cup {"evaluating"}
  /\ mod[Child].status \in Ended => mod[Child].error = None /\ mod[mod[Child].root].error = None
  /\ LET m == frame.m
         r == WaitedFor(Child)
         M == IF r = Child THEN [mod EXCEPT ![m].anc = Min2(@, mod[r].anc)] ELSE mod
     IN  mod' = IF mod[r].async THEN [M EXCEPT ![r].parents = Append(@, m)] ELSE M
  /\ Replace(NextChild)
  /\ UNCHANGED <<code, body, jobs, clock, asserts>>

\* js_inner_module_evaluation after a requested module that is visited, and has
\* not failed: the importer waits for it if its evaluation is asynchronous.
EvalReturns ==
  /\ AtChild("eval") /\ mod[Child].status \in Ended \cup {"evaluating"}
  /\ mod[Child].status \in Ended => mod[Child].error = None /\ mod[mod[Child].root].error = None
  /\ LET m == frame.m
         d == Child
         r == WaitedFor(d)
         M == IF mod[d].status = "evaluating"
              THEN [mod EXCEPT ![m].anc = Min2(@, mod[d].anc)] ELSE mod
     IN  /\ mod' = IF mod[r].async
                   THEN [M EXCEPT ![m].pending = @ + 1, ![r].parents = Append(@, m)]
                   ELSE M
         /\ asserts' = (asserts /\ mod[r].status \in Ended \cup {"evaluating"})
  /\ Replace(NextChild)
  /\ UNCHANGED <<code, body, jobs, clock>>

\* The root of a cycle closes it: an asynchronous member stays to be evaluated.
Closed(M, m) ==
  [x \in Modules |->
     IF x \in Cycle(top.stack, m)
     THEN [M[x] EXCEPT !.root = m,
                       !.status = IF M[x].async THEN "evaluating_async" ELSE "evaluated"]
     ELSE M[x]]

\* The end of js_inner_module_evaluation and, for the first module entered, of
\* js_evaluate_module.
EvalEnds(M, m, ok) ==
  LET C == IF IsRoot(M, m) THEN Closed(M, m) ELSE M
      S == IF IsRoot(M, m) THEN Below(top.stack, m) ELSE top.stack
  IN  IF Len(top.frames) > 1
      THEN /\ mod' = C
           /\ Replace(Leave([top EXCEPT !.stack = S]))
           /\ asserts' = (asserts /\ ok /\ M[m].anc <= M[m].dfs)
      ELSE /\ mod' = IF C[m].async THEN C
                     ELSE [C EXCEPT ![m].promise = Settled(@, "fulfilled")]
           /\ Returns
           /\ asserts' = (asserts /\ ok /\ M[m].anc <= M[m].dfs /\ S = <<>> /\ C[m].error = None
                          /\ C[m].status \in IF C[m].async THEN Ended ELSE {"evaluated"})

Deferred(m) == [mod EXCEPT ![m].async = TRUE, ![m].stamp = clock]

\* A module with dependencies to wait for: its body runs later.
EvalWaits ==
  /\ AtEnd("eval") /\ mod[frame.m].pending > 0
  /\ clock' = clock + 1
  /\ EvalEnds(Deferred(frame.m), frame.m, ~mod[frame.m].async)
  /\ UNCHANGED <<code, body, jobs>>

\* js_async_function_call on the body of m, from js_execute_async_module or
\* js_execute_sync_module; C modules run their init_func instead.
BodyStarts(m) == body' = [body EXCEPT ![m] = "running"]

\* A module with nothing to wait for starts its body.
EvalRuns ==
  LET m == frame.m
  IN  /\ AtEnd("eval") /\ mod[m].pending = 0 /\ ~Running
      /\ BodyStarts(m)
      /\ IF m \in has_tla
         THEN /\ mod' = Deferred(m) /\ clock' = clock + 1
              /\ asserts' = (asserts /\ ~mod[m].async)
         ELSE UNCHANGED <<mod, clock, asserts>>
      /\ UNCHANGED <<code, calls, jobs>>

\* The reactions js_execute_async_module puts on the promise of a body.
Report(m, how) == Append(jobs, [m |-> m, how |-> how])

\* A body with a top level await stops inside a traversal, at its first await
\* or at its end.
AsyncBodyStops(how) ==
  LET m == Current
  IN  /\ InCall("eval") /\ Running /\ m \in has_tla
      /\ body' = [body EXCEPT ![m] = how]
      /\ jobs' = IF how = "suspended" THEN jobs ELSE Report(m, how)
      /\ EvalEnds(mod, m, TRUE)
      /\ UNCHANGED <<code, clock>>

\* The other bodies end there; one that throws ends the evaluation.
SyncBodyEnds(how) ==
  LET m == Current
  IN  /\ InCall("eval") /\ Running /\ m \notin has_tla
      /\ body' = [body EXCEPT ![m] = how]
      /\ IF how = "done" THEN EvalEnds(mod, m, TRUE) ELSE EvalFails(mod, m)
      /\ UNCHANGED <<code, jobs, clock>>

-----------------------------------------------------------------------------
(* The jobs that report the end of asynchronous bodies *)

\* js_set_module_evaluated and the bookkeeping of the modules and of the
\* assertions, together.
SetEvaluated(s, m) ==
  [mods |-> [s.mods EXCEPT ![m].status = "evaluated", ![m].async = FALSE,
                           ![m].promise = Settled(@, "fulfilled")],
   ok |-> s.ok /\ (s.mods[m].promise # "none" => s.mods[m].root = m)]

\* MUTANT of Told: importers are not told.
ToldItself(M, m) == {m}

\* The modules a failure of m reaches: those that wait for it, directly or
\* through others, and are not evaluated yet.
Told(M, m) ==
  Closure({x \in Modules : M[x].status # "evaluated"}, m,
          [x \in Modules |-> ToSet(M[x].parents)])

\* js_async_module_execution_rejected: the error goes to every module that
\* waits, and rejects the promises on the way.
Rejected(s, m, e) ==
  LET M == s.mods
      R == Told(M, m)
  IN  IF M[m].status = "evaluated" THEN [s EXCEPT !.ok = @ /\ M[m].error # None]
      ELSE [mods |-> [x \in Modules |->
              IF x \in R
              THEN [M[x] EXCEPT !.error = e, !.status = "evaluated", !.async = FALSE,
                                !.promise = Settled(@, "rejected")]
              ELSE M[x]],
            ok |-> s.ok /\ \A x \in R :
              /\ M[x].status = "evaluating_async" /\ M[x].error = None /\ M[x].async
              /\ M[x].promise # "none" => M[x].root = x
              /\ \A p \in ToSet(M[x].parents) \ R : M[p].error # None]

\* The entries for p in the lists of importers of the modules S.
Entries(M, S, p) ==
  {e \in UNION {{x} \X DOMAIN M[x].parents : x \in S} : M[e[1]].parents[e[2]] = p}

\* MUTANT of Sources: only the direct importers are found.
SourcesDirect(m, A) == {m}

\* Whose importers gather_available_ancestors goes through when the list holds
\* A: a module with a top level await is not done when its turn comes.
Sources(m, A) == {m} \cup (A \ has_tla)

\* A module whose pending dependencies are all among the sources, in a cycle
\* that did not fail.
Available(M, m, A, p) ==
  LET n == Cardinality(Entries(M, Sources(m, A), p))
  IN  n > 0 /\ M[M[p].root].error = None /\ n >= M[p].pending

\* The list of gather_available_ancestors: the modules that waited for m alone,
\* and through those without a top level await, the modules that waited for them.
List(M, m) ==
  {p \in Modules : \A A \in SUBSET Modules :
                     (\A q \in Modules : Available(M, m, A, q) => q \in A) => p \in A}

\* gather_available_ancestors, when the list becomes A: each entry met counts one
\* dependency out, until none is left.
Gathered(s, m, A) ==
  LET M == s.mods
      N(p) == Cardinality(Entries(M, Sources(m, A), p))
      met == {p \in Modules : N(p) > 0 /\ M[M[p].root].error = None}
  IN  [mods |-> [p \in Modules |->
         IF p \in met
         THEN [M[p] EXCEPT !.pending = IF @ > N(p) THEN @ - N(p) ELSE 0]
         ELSE M[p]],
       ok |-> s.ok /\ \A p \in met :
         M[p].status = "evaluating_async" /\ M[p].error = None /\ M[p].async /\ M[p].pending > 0]

\* The list in the order in which it is executed.
Sorted(A, M) ==
  {q \in [1..Cardinality(A) -> A] :
     /\ ToSet(q) = A
     /\ \A i, j \in DOMAIN q : i < j => q[i] # q[j] /\ M[q[i]].stamp <= M[q[j]].stamp}

Commit(s)  == mod' = s.mods /\ asserts' = s.ok
State      == [mods |-> mod, ok |-> asserts]

\* js_async_module_execution_fulfilled, up to the list of modules to execute.
RunFulfilled ==
  LET m == Head(jobs).m
      s == SetEvaluated([State EXCEPT !.ok = @ /\ mod[m].status = "evaluating_async"
                                               /\ mod[m].error = None /\ mod[m].async], m)
  IN  /\ calls = <<>> /\ jobs # <<>> /\ Head(jobs).how = "done"
      /\ jobs' = Tail(jobs)
      /\ IF mod[m].status = "evaluated"
         THEN /\ asserts' = (asserts /\ mod[m].error # None)
              /\ UNCHANGED <<mod, calls>>
         ELSE \E todo \in Sorted(List(s.mods, m), s.mods) :
                /\ calls' = <<Call("exec", m, todo)>>
                /\ Commit(Gathered(s, m, ToSet(todo)))
      /\ UNCHANGED <<code, body, clock>>

\* js_async_module_execution_rejected as a reaction.
RunRejected ==
  /\ calls = <<>> /\ jobs # <<>> /\ Head(jobs).how = "failed"
  /\ jobs' = Tail(jobs)
  /\ Commit(Rejected(State, Head(jobs).m, Head(jobs).m))
  /\ UNCHANGED <<code, body, calls, clock>>

\* MUTANT of ExecNext: the loop does not go on after a module that failed.
ExecNextStays ==
  /\ InCall("exec") /\ ~Running
  /\ IF top.todo = <<>> THEN Returns /\ UNCHANGED body
     ELSE IF mod[Head(top.todo)].status = "evaluated" THEN UNCHANGED <<calls, body>>
     ELSE BodyStarts(Head(top.todo)) /\ UNCHANGED calls
  /\ UNCHANGED <<code, mod, jobs, clock, asserts>>

\* The loop of js_async_module_execution_fulfilled: the next module is skipped,
\* or its body started.
ExecNext ==
  /\ InCall("exec") /\ ~Running
  /\ IF top.todo = <<>> THEN Returns /\ UNCHANGED <<body, asserts>>
     ELSE LET m == Head(top.todo)
          IN  IF mod[m].status = "evaluated"
              THEN /\ asserts' = (asserts /\ mod[m].error # None)
                   /\ Replace([top EXCEPT !.todo = Tail(@)]) /\ UNCHANGED body
              ELSE BodyStarts(m) /\ UNCHANGED <<calls, asserts>>
  /\ UNCHANGED <<code, mod, jobs, clock>>

\* The body stops: at an await, or with the evaluation or the failure of its
\* module.
ExecBodyStops(how) ==
  LET m == Current
  IN  /\ InCall("exec") /\ Running
      /\ body' = [body EXCEPT ![m] = how]
      /\ Replace([top EXCEPT !.todo = Tail(@)])
      /\ IF m \in has_tla
         THEN /\ jobs' = IF how = "suspended" THEN jobs ELSE Report(m, how)
              /\ UNCHANGED <<mod, asserts>>
         ELSE /\ how # "suspended"
              /\ Commit(IF how = "done" THEN SetEvaluated(State, m) ELSE Rejected(State, m, m))
              /\ UNCHANGED jobs
      /\ UNCHANGED <<code, clock>>

\* js_async_function_resume: a suspended body runs to its end from the job of
\* the promise it awaits.
BodyResumes(m, how) ==
  /\ calls = <<>> /\ body[m] = "suspended"
  /\ body' = [body EXCEPT ![m] = how]
  /\ jobs' = Report(m, how)
  /\ UNCHANGED <<code, mod, calls, clock, asserts>>

-----------------------------------------------------------------------------

Outcomes == {"done", "failed"}

\* The C code of one call of the engine, from one body to the next.
Traversal ==
  \/ LinkVisits \/ LinkEnds \/ LinkFails
  \/ EvalStarts \/ EvalEnters \/ EvalInherits \/ EvalReturns \/ EvalWaits \/ EvalRuns
  \/ ExecNext
Engine ==
  \/ Traversal
  \/ \E how \in Outcomes : SyncBodyEnds(how)
  \/ \E how \in Outcomes \cup {"suspended"} : AsyncBodyStops(how) \/ ExecBodyStops(how)
\* What a program that runs the pending jobs goes through; this library does not.
PendingJob == RunFulfilled \/ RunRejected \/ \E m \in Modules, how \in Outcomes : BodyResumes(m, how)

Next ==
  \/ \E m \in Modules : Evaluate(m)
  \/ Engine
  \/ PendingJob

Spec == Init /\ [][Next]_vars

\* A C function goes on to its end.  Nothing says that a body returns, that what
\* it awaits comes, or that anyone runs the pending jobs.
FairSpec == Spec /\ WF_vars(Traversal)

-----------------------------------------------------------------------------
(* Properties *)

Statuses == {"unlinked", "linking", "linked", "evaluating", "evaluating_async", "evaluated"}

\* The types of the modules' fields, the traversals and the jobs, a part of
\* LinkedTogether.
TypeOK ==
  /\ mod \in [Modules ->
       [status : Statuses, dfs : Nat, anc : Nat, root : Modules \cup {None}, pending : Nat,
        async : BOOLEAN, stamp : Nat, parents : Seq(Modules), error : Modules \cup {None},
        promise : {"none", "pending", "fulfilled", "rejected"}]]
  /\ body \in [Modules -> {"unrun", "running", "suspended"} \cup Outcomes]
  /\ \A k \in DOMAIN calls :
       /\ calls[k].op \in {"link", "eval", "exec"} /\ calls[k].root \in Modules
       /\ calls[k].stack \in Seq(Modules) /\ calls[k].todo \in Seq(Modules)
       /\ \A i \in DOMAIN calls[k].frames :
            LET f == calls[k].frames[i]
            IN  f.m \in Modules /\ f.next \in 1..Len(imports[f.m]) + 1
  /\ jobs \in Seq([m : Modules, how : Outcomes])
  /\ clock \in Nat /\ asserts \in BOOLEAN

\* The modules m needs, itself included, and those it is in a cycle with.
Needs(m)  == Closure(Modules, m, [x \in Modules |-> ToSet(imports[x])])
Cyclic(m) == {d \in Needs(m) : m \in Needs(d)}

\* The assertions of the module code of the engine hold: it never meets a
\* module in a state it does not expect, whatever the graph, the failures and
\* the order in which bodies end (js_inner_module_linking,
\* js_inner_module_evaluation, gather_available_ancestors and the two reports).
AssertsHold == asserts

\* Between two calls every module that is linked is linked with all it needs,
\* and no module is left in the middle of a traversal: js_link_module undoes a
\* failed linking, js_evaluate_module a failed evaluation.
LinkedTogether ==
  /\ TypeOK
  /\ calls = <<>> => \A m \in Modules :
       /\ mod[m].status \notin {"linking", "evaluating"}
       /\ mod[m].status # "unlinked" => \A d \in Needs(m) : mod[d].status # "unlinked"

\* A body starts only when everything its imports need has ended well, cycles
\* of its own apart, however long some of it was suspended
\* (pending_async_dependencies).
DependenciesFirst ==
  \A m \in Modules : body[m] # "unrun" =>
    \A d \in ToSet(imports[m]) : (\A x \in Needs(d) : body[x] = "done") \/ d \in Cyclic(m)

\* The answer of ejr_eval_module is about the whole graph: a promise that is
\* fulfilled says that every module needed has run to its end, one that is
\* rejected names the failure of one of them.  Once all reports are made, a
\* module over a failed one knows it: no importer ends as if nothing happened.
PromiseAnswers ==
  /\ \A m \in Modules :
       /\ mod[m].promise = "fulfilled" => \A d \in Needs(m) : body[d] = "done"
       /\ mod[m].promise = "rejected" =>
            /\ mod[m].error \in Needs(m)
            /\ body[mod[m].error] = "failed"
  /\ calls = <<>> /\ jobs = <<>> => \A m, d \in Modules :
       mod[m].status \in Ended /\ body[d] = "failed" /\ d \in Needs(m) =>
         mod[m].error # None \/ mod[mod[m].root].error # None

\* A body runs at most once, whoever imports it and however often it is
\* evaluated (status, async_evaluation), and a failure stays what it was.
RunsOnce ==
  [][\A m \in Modules :
       /\ body'[m] = "running" => body[m] \in {"unrun", "running"}
       /\ mod[m].error # None => mod'[m].error = mod[m].error
       /\ mod[m].promise \in {"fulfilled", "rejected"} => mod'[m].promise = mod[m].promise]_vars

\* The modules that the end of m is waiting for, directly or through others.
Awaited(m) ==
  Closure({x \in Modules : mod[x].status = "evaluating_async"}, m,
          [p \in Modules |-> {x \in Modules : p \in ToSet(mod[x].parents)}])

\* No wakeup is lost: between calls, a module that has not ended and a promise
\* that is not settled wait, directly or through others, for a body that is
\* suspended or whose report is queued.  Nothing waits for itself alone or for a
\* report that was already made, except in a cycle that failed: there a module
\* may stay that waits for another one, since gather_available_ancestors passes
\* over it.
NoWakeupLost ==
  calls = <<>> => \A m \in Modules :
    \/ mod[m].promise = "pending"
    \/ mod[m].status = "evaluating_async" /\ mod[mod[m].root].error = None
    => \E d \in Awaited(m) : body[d] = "suspended" \/ \E i \in DOMAIN jobs : jobs[i].m = d

\* Both traversals and the loop over the modules made available come to a body
\* or to their end, whatever the cycles, the failures and what was visited
\* before.
TraversalsEnd == calls # <<>> ~> (calls = <<>> \/ Running)

=============================================================================
