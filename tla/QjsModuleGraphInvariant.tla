----------------------- MODULE QjsModuleGraphInvariant -----------------------
(***************************************************************************)
(* The inductive invariant of QjsModuleGraph, and the words its proof is   *)
(* written in: what a module needs, how far a traversal is, and for each   *)
(* action the effects it can have on the fields of the modules.            *)
(***************************************************************************)
EXTENDS QjsModuleGraph

-----------------------------------------------------------------------------
(* Traversals *)

\* The modules x imports.
Imports(x) == ToSet(imports[x])

\* The types of the fields of JSModuleDef, and of the calls.
ModuleFields ==
  [status : Statuses, dfs : Nat, anc : Nat, root : Modules \cup {None}, pending : Nat,
   async : BOOLEAN, stamp : Nat, parents : Seq(Modules), error : Modules \cup {None},
   promise : {"none", "pending", "fulfilled", "rejected"}]

ModuleTables == [Modules -> ModuleFields]
Frames == [m : Modules, next : Nat]

Calls ==
  [op : {"link", "eval", "exec"}, root : Modules, frames : Seq(Frames),
   stack : Seq(Modules), index : Nat, todo : Seq(Modules)]

\* The import lists name modules.
ImportsTyped == imports \in [Modules -> Seq(Modules)]

\* What a traversal looks like: its stack, its frames and how far each is.
On(c)     == ToSet(c.stack)
Deep(c)   == 1..Len(c.frames)
At(c, k)  == c.frames[k].m
Nx(c, k)  == c.frames[k].next

Looks(c, d) ==
  LET n == Len(c.frames)
  IN  n > 0 /\ Nx(c, n) \in DOMAIN imports[At(c, n)] /\ imports[At(c, n)][Nx(c, n)] = d

Passed(c, x, d) ==
  \E i \in DOMAIN imports[x] :
    imports[x][i] = d /\ \A k \in Deep(c) : At(c, k) = x => i < Nx(c, k)

\* The modules in the state of the traversal are those on its stack, which is
\* sorted by number.
StackInv(M, c, st) ==
  /\ \A x \in Modules : M[x].status = st <=> x \in On(c)
  /\ \A i, j \in 1..Len(c.stack) : i < j => M[c.stack[i]].dfs < M[c.stack[j]].dfs
  /\ \A x \in On(c) : M[x].dfs < c.index

\* Each frame is that of a module on the stack, and looks at the one above it; the
\* first is the root, which has the least number.
FramesInv(M, c) ==
  /\ \A k \in Deep(c) : At(c, k) \in On(c) /\ Nx(c, k) \in 1..Len(imports[At(c, k)]) + 1
  /\ \A k, l \in Deep(c) : k < l => M[At(c, k)].dfs < M[At(c, l)].dfs
  /\ \A k \in Deep(c) : k + 1 \in Deep(c) =>
       Nx(c, k) \in DOMAIN imports[At(c, k)] /\ imports[At(c, k)][Nx(c, k)] = At(c, k + 1)
  /\ c.frames # <<>> => At(c, 1) = c.root
  /\ c.frames # <<>> => \A x \in On(c) : M[c.root].dfs <= M[x].dfs
  /\ c.frames = <<>> => c.stack = <<>>

\* The anc of a module on the stack is the number of one on the stack that it needs.
AncInv(M, c) ==
  /\ \A x \in On(c) : M[x].anc <= M[x].dfs
  /\ \A x \in On(c) : \E y \in On(c) : M[y].dfs = M[x].anc /\ y \in Needs(x)

\* The module of a frame is needed by what is below the next frame, and needs what
\* is above it.
PathInv(M, c) ==
  /\ \A k \in Deep(c) : \A x \in On(c) :
       (k + 1 \in Deep(c) => M[x].dfs < M[At(c, k + 1)].dfs) => At(c, k) \in Needs(x)
  /\ \A k \in Deep(c) : \A x \in On(c) : M[At(c, k)].dfs <= M[x].dfs => x \in Needs(At(c, k))

\* What a module has seen of the stack is in the anc of a frame, or of the child
\* that just returned: the reason why a root may close its cycle.
LowInv(M, c) ==
  \A x \in On(c) : \A d \in On(c) : \A k \in Deep(c) :
    Passed(c, x, d) /\ M[At(c, k)].dfs <= M[x].dfs =>
      \E z \in On(c) : /\ M[z].anc <= M[d].dfs
                       /\ Looks(c, z) \/ \E j \in Deep(c) : k <= j /\ z = At(c, j)

\* A module on the stack is done only with what is on the stack or settled.
SeenInv(M, c, settled) ==
  \A x \in On(c) : \A d \in Modules : Passed(c, x, d) => d \in On(c) \/ M[d].status \in settled

\* A depth-first traversal whose modules have the status st, over those with a
\* status in settled.
Walk(M, c, st, settled) ==
  /\ StackInv(M, c, st) /\ FramesInv(M, c) /\ AncInv(M, c) /\ PathInv(M, c) /\ LowInv(M, c)
  /\ SeenInv(M, c, settled)

\* M and N agree on the modules of a traversal.
SameWalk(M, N, x) == N[x].status = M[x].status /\ N[x].dfs = M[x].dfs /\ N[x].anc = M[x].anc

\* The frame at the top goes on to its next import.
GoesOn(c, c2) ==
  LET n == Len(c.frames)
  IN  /\ c2 \in Calls /\ n \in Nat /\ n > 0 /\ Deep(c) = 1..n /\ Deep(c2) = 1..n
      /\ Len(c2.frames) = n /\ c2.frames # <<>>
      /\ \A k \in 1..n : At(c2, k) = At(c, k)
      /\ \A k \in 1..n : k # n => Nx(c2, k) = Nx(c, k)
      /\ Nx(c2, n) = Nx(c, n) + 1
      /\ c2.stack = c.stack /\ c2.index = c.index /\ c2.root = c.root /\ c2.op = c.op
      /\ c2.todo = c.todo

\* The frame at the top returns.
Pops(c, c2) ==
  LET n == Len(c.frames)
  IN  /\ c2 \in Calls /\ n \in Nat /\ n > 0 /\ Deep(c) = 1..n /\ Deep(c2) = 1..n - 1
      /\ Len(c2.frames) = n - 1
      /\ \A k \in 1..n - 1 : At(c2, k) = At(c, k) /\ Nx(c2, k) = Nx(c, k)
      /\ c2.index = c.index /\ c2.root = c.root /\ c2.op = c.op /\ c2.todo = c.todo

\* The frame at the top is through with the imports of its module.
AtTheEnd(c) == c.frames # <<>> /\ Nx(c, Len(c.frames)) > Len(imports[At(c, Len(c.frames))])

-----------------------------------------------------------------------------
(* The inductive invariant *)

\* The states of a body, and those in which it has stopped.
Bodies  == {"unrun", "running", "suspended", "done", "failed"}
Stops   == {"suspended", "done", "failed"}
Reports == [m : Modules, how : Outcomes]

\* The call in progress: without Reentry there is one at most.
C1        == calls[1]
Doing(op) == calls # <<>> /\ C1.op = op

\* The modules whose body the innermost call is going to run.
Todo == IF Doing("exec") THEN ToSet(C1.todo) ELSE {}

\* The module of the frame at the top, and those of all frames of an evaluation.
Top(c)    == At(c, Len(c.frames))
InPath(x) == Doing("eval") /\ \E k \in Deep(C1) : At(C1, k) = x

\* An evaluation is done with the import of d by p.
Gone(p, d) == Passed(C1, p, d)

\* Types, and the shape of the stack of calls.
Shaped ==
  /\ imports \in Graphs /\ has_tla \subseteq Modules
  /\ mod \in ModuleTables /\ body \in [Modules -> Bodies]
  /\ jobs \in Seq(Reports) /\ clock \in Nat
  /\ calls \in Seq(Calls) /\ Len(calls) <= 1
  /\ Doing("exec") => C1.frames = <<>> /\ C1.stack = <<>>
  /\ calls # <<>> /\ C1.op # "exec" => C1.todo = <<>>

\* The two traversals, and the states they leave behind.
LinkWalk ==
  Doing("link") => /\ Walk(mod, C1, "linking", LinkSettled)
                   /\ mod[C1.root].status \in LinkSettled \cup {"linking"}

EvalWalk == Doing("eval") => Walk(mod, C1, "evaluating", Ended) /\ C1.frames # <<>>

IdleInv ==
  /\ ~Doing("link") => \A x \in Modules : mod[x].status # "linking"
  /\ ~Doing("eval") => \A x \in Modules : mod[x].status # "evaluating"

\* What is linked is linked with what it imports.
Linked == {"linked", "evaluating", "evaluating_async", "evaluated"}

LinkedInv ==
  \A x \in Modules : mod[x].status \in Linked => \A d \in Imports(x) : mod[d].status \in Linked

\* The parts of the invariant that are about the traversals.
WalkInv == LinkWalk /\ EvalWalk /\ IdleInv /\ LinkedInv

\* A module whose evaluation has not begun is as js_new_module_def made it.
FreshInv ==
  \A x \in Modules : mod[x].status \notin Ended \cup {"evaluating"} =>
    /\ body[x] = "unrun" /\ ~mod[x].async /\ mod[x].error = None /\ mod[x].pending = 0
    /\ mod[x].parents = <<>> /\ mod[x].promise = "none"

\* Cycle roots: the root of a module that did not fail is in a cycle with it,
\* and so are the others that have it.
RootInv ==
  /\ \A x \in Modules : mod[x].status \notin Ended => mod[x].root = None
  /\ \A x \in Modules : mod[x].status \in Ended =>
       /\ mod[x].root \in Modules /\ mod[mod[x].root].status \in Ended
       /\ mod[mod[x].root].root = mod[x].root
       /\ mod[x].error # None => mod[mod[x].root].error # None
  /\ \A x, y \in Modules : mod[x].status \in Ended /\ mod[x].error = None /\ mod[y].root = mod[x].root =>
       mod[x].root \in Needs(y) /\ y \in Needs(mod[x].root)

\* An error is the failure of a module that is needed.
ErrorInv ==
  \A x \in Modules : mod[x].error # None =>
    mod[x].status = "evaluated" /\ mod[x].error \in Needs(x) /\ body[mod[x].error] = "failed"

\* A module on the stack of an evaluation whose frame has returned: it is
\* through, or its body is awaited, or waits for dependencies.
Finished(x) ==
  \/ mod[x].pending = 0 /\ ~mod[x].async /\ mod[x].parents = <<>> /\ x \notin has_tla /\ body[x] = "done"
  \/ mod[x].pending = 0 /\ mod[x].async /\ x \in has_tla /\ body[x] \in Stops
  \/ mod[x].pending > 0 /\ mod[x].async /\ body[x] = "unrun"

\* The module of a frame: its body has not run, or it runs at the end of the frame
\* at the top.
PathBody(x) ==
  \/ body[x] = "unrun" /\ ~mod[x].async
  \/ /\ AtTheEnd(C1) /\ x = Top(C1) /\ body[x] = "running" /\ mod[x].pending = 0
     /\ mod[x].async <=> x \in has_tla

\* The modules on the stack of an evaluation.
StackBodies ==
  /\ \A x \in Modules : mod[x].status = "evaluating" /\ ~InPath(x) => Finished(x)
  /\ \A x \in Modules : InPath(x) => mod[x].status = "evaluating" /\ mod[x].parents = <<>> /\ PathBody(x)

\* A module whose evaluation has ended: it is through, or its body is awaited,
\* is going to run, or waits for dependencies.
EndedBodies ==
  /\ \A x \in Modules : mod[x].status = "evaluated" /\ mod[x].error = None =>
       body[x] = "done" /\ ~mod[x].async /\ mod[x].pending = 0
  /\ \A x \in Modules : mod[x].status = "evaluating_async" =>
       /\ mod[x].async
       /\ \/ mod[x].pending > 0 /\ body[x] = "unrun" /\ x \notin Todo
          \/ mod[x].pending = 0 /\ x \in Todo
          \/ mod[x].pending = 0 /\ x \in has_tla /\ x \notin Todo /\ body[x] \in Stops

\* The list of modules to execute: no module twice, in the order of the stamps,
\* and those that failed meanwhile are skipped.
Ready(i) ==
  \/ /\ mod[C1.todo[i]].status = "evaluating_async" /\ mod[C1.todo[i]].pending = 0
     /\ body[C1.todo[i]] = "unrun" \/ (i = 1 /\ body[C1.todo[i]] = "running")
  \/ mod[C1.todo[i]].status = "evaluated" /\ mod[C1.todo[i]].error # None /\ body[C1.todo[i]] = "unrun"

TodoInv ==
  Doing("exec") =>
    /\ \A i, j \in 1..Len(C1.todo) : i < j =>
         C1.todo[i] # C1.todo[j] /\ mod[C1.todo[i]].stamp <= mod[C1.todo[j]].stamp
    /\ \A i \in 1..Len(C1.todo) : Ready(i)

\* A body with a top level await is reported once.
JobsInv ==
  /\ \A i, j \in 1..Len(jobs) : i # j => jobs[i].m # jobs[j].m
  /\ \A i \in 1..Len(jobs) :
       /\ jobs[i].m \in has_tla /\ body[jobs[i].m] = jobs[i].how
       /\ \/ mod[jobs[i].m].status \in {"evaluating", "evaluating_async"}
          \/ mod[jobs[i].m].status = "evaluated" /\ mod[jobs[i].m].error # None
  /\ \A x \in has_tla : body[x] \in Outcomes /\ mod[x].status \in {"evaluating", "evaluating_async"} =>
       \E i \in 1..Len(jobs) : jobs[i].m = x
  /\ \A x \in Modules : body[x] = "suspended" => x \in has_tla

\* Promises belong to cycle roots, or to the evaluation in progress.
PromiseInv ==
  \A x \in Modules :
    /\ mod[x].promise # "none" => (mod[x].status \in Ended /\ mod[x].root = x) \/ (Doing("eval") /\ C1.root = x)
    /\ mod[x].promise = "fulfilled" => mod[x].status = "evaluated" /\ mod[x].error = None
    /\ mod[x].promise = "rejected" => mod[x].error # None

\* p waits for x: it needs it, fails with it, and does not run before it.
Waits(p, x) == p \in ToSet(mod[x].parents)

WaitInv ==
  /\ \A x, p \in Modules : Waits(p, x) => x \in Needs(p) /\ mod[p].status \in Ended \cup {"evaluating"}
  /\ \A x, p \in Modules : Waits(p, x) /\ mod[x].status = "evaluating" =>
       mod[p].status = "evaluating" /\ Gone(p, x)
  /\ \A x, p \in Modules : Waits(p, x) /\ mod[x].error # None => mod[p].error # None
  /\ \A x, p \in Modules : Waits(p, x) /\ mod[x].status # "evaluated" /\ mod[p].error = None =>
       mod[p].status # "evaluated" /\ body[p] = "unrun"
  /\ \A x, p \in Modules : Waits(p, x) /\ mod[x].status # "evaluated" /\ mod[p].status # "evaluated"
       /\ p \in Todo => x \in Todo /\ x \notin has_tla

\* Time stamps: of a module that is asynchronous, and later than those of the
\* modules it waits for.
StampInv ==
  /\ \A x \in Modules : mod[x].async \/ mod[x].parents # <<>> => mod[x].stamp < clock
  /\ \A x, p \in Modules : Waits(p, x) /\ mod[p].async => mod[x].stamp < mod[p].stamp

\* The number of pending dependencies counts the registrations with modules
\* that have not told their importers yet.
Open == {x \in Modules : mod[x].status # "evaluated" /\ (x \in has_tla \/ x \notin Todo)}

CountInv ==
  \A p \in Modules : mod[p].error = None /\ (mod[p].root # None => mod[mod[p].root].error = None) =>
    mod[p].pending = Cardinality(Entries(mod, Open, p))

\* In a cycle that is not through, a module other than the root is waited for
\* by one that was entered before it.
Above(y, x) ==
  /\ mod[y].status = "evaluating" /\ Waits(y, x) /\ mod[y].dfs < mod[x].dfs
  /\ \A z \in Modules : InPath(z) /\ mod[z].dfs < mod[x].dfs => mod[z].dfs <= mod[y].dfs

TreeInv ==
  /\ \A x \in Modules : mod[x].status = "evaluating_async" /\ mod[x].root # x =>
       \E y \in Modules : Waits(y, x) /\ mod[y].root = mod[x].root /\ mod[y].dfs < mod[x].dfs
  /\ \A x \in Modules : mod[x].status = "evaluating" /\ ~InPath(x) /\ mod[x].async =>
       \/ Looks(C1, x) /\ mod[Top(C1)].dfs < mod[x].dfs
       \/ \E y \in Modules : Above(y, x)

\* An import that is done with is in the same cycle, or through, or waited for.
Complete(x)   == mod[x].status = "evaluated" /\ mod[x].error = None
DoneFor(p, d) == Waits(p, mod[d].root) \/ Complete(mod[d].root)

ImportsInv ==
  /\ \A p \in Modules : mod[p].status \in Ended /\ mod[p].error = None =>
       \A d \in Imports(p) : mod[d].status \in Ended /\ (mod[d].root = mod[p].root \/ DoneFor(p, d))
  /\ \A p \in Modules : mod[p].status = "evaluating" => \A d \in Modules : Gone(p, d) =>
       mod[d].status = "evaluating" \/ (mod[d].status \in Ended /\ DoneFor(p, d))

\* An import visited while both modules are on the stack: no frame between them
\* was entered meanwhile.
JumpInv ==
  \A p, d, z \in Modules :
    /\ mod[p].status = "evaluating" /\ mod[d].status = "evaluating" /\ Gone(p, d)
    /\ InPath(z) /\ mod[z].dfs <= mod[d].dfs
    => mod[z].dfs <= mod[p].dfs

\* The parts of the invariant that are about evaluation.
LateInv ==
  /\ FreshInv /\ RootInv /\ ErrorInv /\ StackBodies /\ EndedBodies /\ TodoInv /\ JobsInv
  /\ PromiseInv /\ WaitInv /\ StampInv /\ CountInv /\ TreeInv /\ ImportsInv /\ JumpInv
  /\ DependenciesFirst

\* The inductive invariant.
IInv == Shaped /\ WalkInv /\ LateInv /\ asserts

-----------------------------------------------------------------------------
(* The import lists do not change *)

\* The graph does not change.
Kept == imports' = imports /\ has_tla' = has_tla

-----------------------------------------------------------------------------
(* Steps that do not evaluate *)

\* The answer of a second evaluation, or of the first one of a cycle root.
Answer(x) ==
  /\ mod[x].status \in Ended /\ mod[x].root = x /\ mod[x].promise = "none"
  /\ mod'[x].promise = IF mod[x].error # None THEN "rejected"
                       ELSE IF mod[x].async THEN "pending" ELSE "fulfilled"

\* What linking and a second evaluation do not touch.
LinkEff ==
  /\ Kept /\ body' = body /\ jobs' = jobs /\ clock' = clock
  /\ ~Doing("eval") /\ ~Doing("exec") /\ ~Doing("eval")' /\ ~Doing("exec")'
  /\ \A x \in Modules :
       /\ mod'[x].root = mod[x].root /\ mod'[x].pending = mod[x].pending /\ mod'[x].async = mod[x].async
       /\ mod'[x].stamp = mod[x].stamp /\ mod'[x].parents = mod[x].parents
       /\ mod'[x].error = mod[x].error
       /\ mod'[x].promise = mod[x].promise \/ Answer(x)
       /\ mod[x].status \in Ended => mod'[x].status = mod[x].status /\ mod'[x].dfs = mod[x].dfs
       /\ mod[x].status \notin Ended => mod'[x].status \notin Ended \cup {"evaluating"}

-----------------------------------------------------------------------------
(* What the traversals assign *)

\* The states of a promise.
Promises == {"none", "pending", "fulfilled", "rejected"}

\* The modules of K get a status.
StatusSet(M, K, status) ==
  [x \in Modules |-> IF x \in K THEN [M[x] EXCEPT !.status = status] ELSE M[x]]

-----------------------------------------------------------------------------
(* The evaluation enters a module *)

\* The evaluation numbers d and pushes it, and does nothing else.
EnterEff(d) ==
  /\ Kept /\ body' = body /\ jobs' = jobs /\ clock' = clock
  /\ ~Doing("exec") /\ ~Doing("exec")' /\ Doing("eval")'
  /\ mod[d].status = "linked" /\ mod'[d].status = "evaluating"
  /\ \A x \in Modules : x # d =>
       mod'[x].status = mod[x].status /\ mod'[x].dfs = mod[x].dfs /\ mod'[x].promise = mod[x].promise
  /\ \A x \in Modules :
       /\ mod'[x].root = mod[x].root /\ mod'[x].pending = mod[x].pending /\ mod'[x].async = mod[x].async
       /\ mod'[x].stamp = mod[x].stamp /\ mod'[x].parents = mod[x].parents /\ mod'[x].error = mod[x].error
  /\ mod'[d].promise = mod[d].promise \/ (mod'[d].promise = "pending" /\ C1'.root = d)
  /\ Doing("eval") => C1'.root = C1.root /\ ~AtTheEnd(C1) /\ \A x : Looks(C1, x) => x = d
  /\ \A x \in Modules : mod[x].status = "evaluating" => mod[x].dfs < mod'[d].dfs
  /\ \A x \in Modules : InPath(x)' <=> InPath(x) \/ x = d
  /\ \A p, e \in Modules : mod[p].status = "evaluating" => (Gone(p, e)' <=> Gone(p, e))
  /\ \A e \in Modules : ~Gone(d, e)'

\* What EvalStarts does once it is known which module m is evaluated.
StartsWith(m) ==
  \/ mod[m].promise # "none" /\ Returns /\ asserts' /\ mod' = mod
  \/ /\ mod[m].promise = "none" /\ mod[m].status = "linked"
     /\ Replace(Enter(Call("eval", m, <<>>), m))
     /\ mod' = Entered([mod EXCEPT ![m].promise = "pending"], m, "evaluating", Call("eval", m, <<>>))
     /\ asserts'
  \/ /\ mod[m].promise = "none" /\ mod[m].status \in Ended /\ Returns
     /\ mod' = [mod EXCEPT ![m].promise = IF mod[m].error # None THEN "rejected"
                                          ELSE IF mod[m].async THEN "pending" ELSE "fulfilled"]
     /\ (mod[m].error # None \/ ~mod[m].async => mod[m].status = "evaluated") => asserts'
  \/ mod[m].promise = "none" /\ mod[m].status \notin Ended \cup {"linked"}

-----------------------------------------------------------------------------
(* The evaluation is done with an import *)

\* m is done with its import d, and has registered with r if it must wait.
ReturnEff(m, d, r) ==
  /\ Kept /\ body' = body /\ jobs' = jobs /\ clock' = clock
  /\ Doing("eval") /\ ~Doing("exec") /\ Doing("eval")' /\ ~Doing("exec")' /\ C1'.root = C1.root
  /\ InPath(m) /\ ~AtTheEnd(C1) /\ d \in Imports(m) /\ \A x : Looks(C1, x) => x = d
  /\ Top(C1) = m /\ \A z \in Modules : InPath(z) => mod[z].dfs <= mod[m].dfs
  /\ mod[d].status = "evaluating" => r = d
  /\ mod[d].status # "evaluating" => /\ mod[d].status \in Ended /\ r = mod[d].root
                                     /\ mod[d].error = None /\ mod[r].error = None
  /\ \A x \in Modules :
       /\ mod'[x].status = mod[x].status /\ mod'[x].dfs = mod[x].dfs /\ mod'[x].root = mod[x].root
       /\ mod'[x].async = mod[x].async /\ mod'[x].stamp = mod[x].stamp
       /\ mod'[x].error = mod[x].error /\ mod'[x].promise = mod[x].promise
       /\ x # m => mod'[x].pending = mod[x].pending
       /\ x # r => mod'[x].parents = mod[x].parents
  /\ mod[r].async => /\ mod'[m].pending = mod[m].pending + 1
                     /\ mod'[r].parents = Append(mod[r].parents, m)
  /\ ~mod[r].async => mod'[m].pending = mod[m].pending /\ mod'[r].parents = mod[r].parents
  /\ \A x \in Modules : InPath(x)' <=> InPath(x)
  /\ \A p, e \in Modules : Gone(p, e)' <=> Gone(p, e) \/ (p = m /\ e = d)

\* A module registers with the one it waits for.
Registers(M, m, r, N) == N = [M EXCEPT ![m].pending = @ + 1, ![r].parents = Append(@, m)]

-----------------------------------------------------------------------------
(* An evaluation fails *)

\* The stack of the evaluation from r fails with e.
FailEff(e, r) ==
  /\ Kept /\ jobs' = jobs /\ clock' = clock
  /\ Doing("eval") /\ ~Doing("exec") /\ ~Doing("eval")' /\ ~Doing("exec")' /\ C1.root = r
  /\ mod[r].status = "evaluating" /\ body'[e] = "failed"
  /\ \A x \in Modules :
       body'[x] = body[x] \/ (x = e /\ mod[x].status = "evaluating" /\ body[x] = "running" /\ x \notin has_tla)
  /\ \A x \in Modules : mod[x].status = "evaluating" =>
       e \in Needs(x) /\ mod'[x].status = "evaluated" /\ mod'[x].error = e /\ mod'[x].root = r
  /\ \A x \in Modules : mod[x].status # "evaluating" =>
       mod'[x].status = mod[x].status /\ mod'[x].error = mod[x].error /\ mod'[x].root = mod[x].root
  /\ \A x \in Modules :
       /\ mod'[x].dfs = mod[x].dfs /\ mod'[x].pending = mod[x].pending /\ mod'[x].async = mod[x].async
       /\ mod'[x].stamp = mod[x].stamp /\ mod'[x].parents = mod[x].parents
       /\ x # r => mod'[x].promise = mod[x].promise
  /\ mod'[r].promise = Settled(mod[r].promise, "rejected")

\* The failure of an evaluation from m, with K on the stack.
FailsTo(M, m, K, e, N) == N = Failed(M, m, K, e)

-----------------------------------------------------------------------------
(* A body starts in an evaluation *)

\* The body of m starts, and m is asynchronous from then on if it has an await.
RunEff(m) ==
  /\ Kept /\ jobs' = jobs /\ calls' = calls
  /\ clock' = IF m \in has_tla THEN clock + 1 ELSE clock
  /\ Doing("eval") /\ ~Doing("exec") /\ Top(C1) = m /\ InPath(m) /\ AtTheEnd(C1) /\ \A x : ~Looks(C1, x)
  /\ body[m] = "unrun" /\ ~mod[m].async /\ mod[m].pending = 0
  /\ body'[m] = "running" /\ \A x \in Modules : x # m => body'[x] = body[x]
  /\ mod'[m].async <=> m \in has_tla
  /\ m \in has_tla => mod'[m].stamp = clock
  /\ \A x \in Modules : x # m => mod'[x].async = mod[x].async /\ mod'[x].stamp = mod[x].stamp
  /\ \A x \in Modules :
       /\ mod'[x].status = mod[x].status /\ mod'[x].dfs = mod[x].dfs /\ mod'[x].root = mod[x].root
       /\ mod'[x].pending = mod[x].pending /\ mod'[x].parents = mod[x].parents
       /\ mod'[x].error = mod[x].error /\ mod'[x].promise = mod[x].promise
  /\ \A d \in Imports(m) : Gone(m, d)
  /\ \A x \in Modules : mod[x].status = "evaluating" => m \in Needs(x)

\* What the evaluation of m is deferred by.
Defers(M, m, t, N) == N = [M EXCEPT ![m].async = TRUE, ![m].stamp = t]

-----------------------------------------------------------------------------
(* The evaluation of a module ends *)

\* K is the cycle that m closes, or nothing.
Closes(m, K) ==
  /\ K = {} \/ m \in K
  /\ \A x \in K :
       /\ mod[x].status = "evaluating" /\ m \in Needs(x) /\ x \in Needs(m)
       /\ x # m => mod[m].dfs < mod[x].dfs /\ ~InPath(x)
       /\ \A d \in Imports(x) : Gone(x, d)
       /\ \A d \in Modules : Gone(x, d) /\ mod[d].status = "evaluating" => d \in K
  /\ K # {} => \A x \in Modules : mod[x].status = "evaluating" /\ mod[m].dfs <= mod[x].dfs => x \in K

\* How the body of m and its deferral are.
Ends(m) ==
  /\ body[m] \in {"unrun", "running"} /\ (body'[m] = "unrun" \/ body[m] = "running")
  /\ Finished(m)'
  /\ \/ mod'[m].async /\ mod'[m].stamp = clock /\ clock' = clock + 1
     \/ (mod'[m].async <=> mod[m].async) /\ mod'[m].stamp = mod[m].stamp /\ clock' = clock
  /\ \/ jobs' = jobs /\ (m \notin has_tla \/ body'[m] \notin Outcomes)
     \/ jobs' = Append(jobs, [m |-> m, how |-> body'[m]]) /\ m \in has_tla /\ body'[m] \in Outcomes

\* The evaluation leaves m, which closes the cycle K or none.
EndEff(m, K) ==
  /\ Kept /\ Doing("eval") /\ ~Doing("exec") /\ ~Doing("exec")'
  /\ Top(C1) = m /\ InPath(m) /\ \A x : ~Looks(C1, x)
  /\ Closes(m, K) /\ Ends(m)
  /\ \A x \in K : mod'[x].root = m /\ mod'[x].status = IF mod'[x].async THEN "evaluating_async" ELSE "evaluated"
  /\ \A x \in Modules : x \notin K => mod'[x].root = mod[x].root /\ mod'[x].status = mod[x].status
  /\ \A x \in Modules :
       /\ mod'[x].dfs = mod[x].dfs /\ mod'[x].pending = mod[x].pending
       /\ mod'[x].parents = mod[x].parents /\ mod'[x].error = mod[x].error
       /\ x # m => /\ mod'[x].async = mod[x].async /\ mod'[x].stamp = mod[x].stamp
                   /\ mod'[x].promise = mod[x].promise /\ body'[x] = body[x]
  /\ mod'[m].promise = mod[m].promise \/ (~Doing("eval")' /\ ~mod'[m].async /\ mod'[m].promise = "fulfilled")
  /\ ~Doing("eval")' => C1.root = m /\ \A x \in Modules : mod[x].status = "evaluating" => x \in K
  /\ Doing("eval")' => /\ C1'.root = C1.root /\ Looks(C1, m)' /\ (mod[Top(C1)].dfs < mod[m].dfs)'
                       /\ \A x \in Modules : InPath(x)' <=> InPath(x) /\ x # m
                       /\ \A p, d \in Modules : Gone(p, d)' <=> Gone(p, d)

\* The root of a cycle closes it.
ClosesTo(M, m, K, N) ==
  N = [x \in Modules |->
         IF x \in K
         THEN [M[x] EXCEPT !.root = m,
                           !.status = IF M[x].async THEN "evaluating_async" ELSE "evaluated"]
         ELSE M[x]]

\* Which modules the end of m closes.
ClosedBy(m) == IF IsRoot(mod, m) THEN Cycle(C1.stack, m) ELSE {}

\* M differs from the table in the deferral of modules only.
SameFields(M) ==
  \A x \in Modules :
    /\ M[x].status = mod[x].status /\ M[x].dfs = mod[x].dfs /\ M[x].anc = mod[x].anc
    /\ M[x].root = mod[x].root /\ M[x].pending = mod[x].pending /\ M[x].parents = mod[x].parents
    /\ M[x].error = mod[x].error /\ M[x].promise = mod[x].promise

\* What EvalEnds does to the modules, K being the cycle that is closed.
EndFields(M, m, K) ==
  /\ \A x \in K : mod'[x].root = m /\ mod'[x].status = IF mod'[x].async THEN "evaluating_async" ELSE "evaluated"
  /\ \A x \in Modules : x \notin K => mod'[x].root = mod[x].root /\ mod'[x].status = mod[x].status
  /\ \A x \in Modules :
       /\ mod'[x].dfs = mod[x].dfs /\ mod'[x].anc = mod[x].anc /\ mod'[x].pending = mod[x].pending
       /\ mod'[x].parents = mod[x].parents /\ mod'[x].error = mod[x].error
       /\ mod'[x].async = M[x].async /\ mod'[x].stamp = M[x].stamp
       /\ x # m => mod'[x].promise = mod[x].promise

\* What it does to the call, and to the promise of the first module entered.
EndPops(m) ==
  \E s \in Seq(Modules) :
    /\ Replace([[C1 EXCEPT !.stack = s] EXCEPT !.frames = Front(@)])
    /\ IsRoot(mod, m) => s = Below(C1.stack, m)
    /\ ~IsRoot(mod, m) => s = C1.stack

\* The call after m was left: the evaluation goes on or returns.
EndCalls(m) ==
  /\ Len(C1.frames) > 1 => mod'[m].promise = mod[m].promise /\ EndPops(m)
  /\ Len(C1.frames) = 1 =>
       /\ Returns
       /\ mod'[m].promise = mod[m].promise \/ (~mod'[m].async /\ mod'[m].promise = "fulfilled")

-----------------------------------------------------------------------------
(* Between traversals *)

\* What a step of the jobs does to a module whose evaluation is asynchronous.
Stays(x) ==
  /\ mod'[x].status = "evaluating_async" /\ mod'[x].async /\ mod'[x].error = mod[x].error
  /\ mod'[x].promise = mod[x].promise

\* A module is evaluated.
Succeeds(x) ==
  /\ mod'[x].status = "evaluated" /\ ~mod'[x].async /\ mod'[x].error = mod[x].error
  /\ mod'[x].promise = Settled(mod[x].promise, "fulfilled")
  /\ mod'[x].pending = 0 /\ body[x] # "unrun" /\ body'[x] = "done"

\* A module fails, and what waits for it fails too.
Fails(x) ==
  /\ mod'[x].status = "evaluated" /\ ~mod'[x].async /\ mod'[x].error # None
  /\ mod'[x].promise = Settled(mod[x].promise, "rejected")
  /\ mod'[x].error \in Needs(x) /\ body'[mod'[x].error] = "failed"
  /\ mod'[mod[x].root].error # None
  /\ \A p \in Modules : Waits(p, x) => mod'[p].error # None

\* A body that starts has nothing to wait for.
Starts(x) ==
  /\ \A y \in Modules : Waits(x, y) => mod[y].status = "evaluated"
  /\ \A d \in Imports(x) : (\A y \in Needs(d) : body[y] = "done") \/ d \in Cyclic(x)

\* What a step outside the traversals may do to the modules and their bodies.
IdleEff ==
  /\ Kept /\ clock' = clock
  /\ \A op \in {"link", "eval"} : ~Doing(op) /\ ~Doing(op)'
  /\ \A x \in Modules :
       /\ mod'[x].root = mod[x].root /\ mod'[x].dfs = mod[x].dfs /\ mod'[x].stamp = mod[x].stamp
       /\ mod'[x].parents = mod[x].parents
       /\ mod[x].status # "evaluating_async" =>
            /\ mod'[x].status = mod[x].status /\ mod'[x].async = mod[x].async
            /\ mod'[x].error = mod[x].error /\ mod'[x].pending = mod[x].pending
            /\ mod'[x].promise = mod[x].promise
       /\ mod[x].status = "evaluating_async" => Stays(x) \/ Succeeds(x) \/ Fails(x)
       /\ mod[x].status \notin Ended => body'[x] = body[x]
       /\ body[x] \in Outcomes => body'[x] = body[x]
       /\ body[x] = "unrun" /\ body'[x] # "unrun" => Starts(x)
       /\ body'[x] = "running" => body[x] \in {"unrun", "running"}

\* What the list of modules to execute is after a step.
ListEff(m) ==
  \/ Todo = {} /\ ~Doing("exec")'
  \/ /\ Doing("exec") /\ C1.todo # <<>> /\ Head(C1.todo) = m
     /\ \/ calls' = calls /\ mod' = mod /\ mod[m].status = "evaluating_async" /\ body[m] = "unrun" /\ body'[m] = "running"
        \/ /\ Doing("exec")' /\ C1'.todo = Tail(C1.todo)
           /\ mod'[m].status = "evaluated" \/ (m \in has_tla /\ body'[m] \in Stops)

\* And the reports.
ReportEff(m) ==
  \/ /\ jobs' = jobs
     /\ body'[m] = body[m] \/ (body[m] \notin Outcomes /\ (m \notin has_tla \/ body'[m] \notin Outcomes))
  \/ /\ jobs' = Append(jobs, [m |-> m, how |-> body'[m]]) /\ m \in has_tla /\ body'[m] \in Outcomes
     /\ body[m] \notin Outcomes \cup {"unrun"}
  \/ jobs # <<>> /\ jobs' = Tail(jobs) /\ Head(jobs).m = m /\ mod'[m].status = "evaluated" /\ body'[m] = body[m]

\* A step of the jobs that tells no importer to run, about the module m.
QuietEff(m) ==
  /\ IdleEff /\ ListEff(m) /\ ReportEff(m)
  /\ \A x \in Modules :
       /\ mod[x].status = "evaluating_async" => mod'[x].pending = mod[x].pending
       /\ x # m => body'[x] = body[x]
       /\ mod[x].status = "evaluating_async" /\ mod'[x].status = "evaluated" /\ mod'[x].error = None =>
            x = m /\ m \in Todo /\ m \notin has_tla
  /\ body'[m] = body[m] \/ (body[m] = "suspended" /\ body'[m] \in Stops) \/ m \in Todo
  /\ body'[m] = "suspended" => m \in has_tla

\* What a step of the jobs keeps, when no importer is told to run.
Quiet ==
  Shaped' /\ WalkInv' /\ asserts' /\ \E m \in Modules : QuietEff(m)

\* The end of the evaluation of m, and the failure of the modules R.
EvaluatedTo(M, m, N) ==
  N = [M EXCEPT ![m].status = "evaluated", ![m].async = FALSE, ![m].promise = Settled(@, "fulfilled")]

\* The modules R failed with e, a predicate to be kept folded.
RejectedTo(M, R, e, N) ==
  N = [x \in Modules |->
         IF x \in R
         THEN [M[x] EXCEPT !.error = e, !.status = "evaluated", !.async = FALSE,
                           !.promise = Settled(@, "rejected")]
         ELSE M[x]]

\* Nothing changes outside R.
SameOutside(M, R, N) == \A x \in Modules : x \notin R => N[x] = M[x]

-----------------------------------------------------------------------------
(* The list of modules to execute *)

\* The number of entries of p in the lists of importers of the modules S.
Count(M, S, p) == Cardinality(Entries(M, S, p))

\* What gather_available_ancestors does to the modules it meets.
GathersTo(M, S, N) ==
  N = [p \in Modules |->
         IF p \in {q \in Modules : Cardinality(Entries(M, S, q)) > 0 /\ M[M[q].root].error = None}
         THEN [M[p] EXCEPT !.pending = IF @ > Cardinality(Entries(M, S, p))
                                       THEN @ - Cardinality(Entries(M, S, p)) ELSE 0]
         ELSE M[p]]

\* A module that is counted down.
Met(M, S, p) == Count(M, S, p) > 0 /\ M[M[p].root].error = None

\* The fields of the modules after Gathered.
GatheredFrom(M, S, Z) ==
  \A x \in Modules :
    /\ Z[x].dfs = M[x].dfs /\ Z[x].root = M[x].root /\ Z[x].status = M[x].status /\ Z[x].async = M[x].async
    /\ Z[x].error = M[x].error /\ Z[x].stamp = M[x].stamp /\ Z[x].parents = M[x].parents
    /\ Z[x].promise = M[x].promise
    /\ ~Met(M, S, x) => Z[x].pending = M[x].pending
    /\ Met(M, S, x) /\ Count(M, S, x) <= M[x].pending => Z[x].pending = M[x].pending - Count(M, S, x)

\* What the report of the end of m does, when it makes the modules A available
\* and the importers of the modules S are told.
GatherEff(m, A, S) ==
  /\ IdleEff /\ calls = <<>> /\ body' = body /\ m \in has_tla /\ m \in S /\ S = {m} \cup (A \ has_tla)
  /\ mod[m].status = "evaluating_async" /\ body[m] = "done" /\ mod'[m].status = "evaluated"
  /\ \A x \in S : mod[x].status # "evaluated"
  /\ \A x \in Modules :
       /\ x # m => mod'[x].status = mod[x].status
       /\ mod'[x].error = mod[x].error
       /\ x \in A <=> Met(mod, S, x) /\ Count(mod, S, x) >= mod[x].pending
       /\ ~Met(mod, S, x) => mod'[x].pending = mod[x].pending
       /\ Met(mod, S, x) => mod'[x].pending = mod[x].pending - Count(mod, S, x)
  /\ Doing("exec")' /\ ToSet(C1'.todo) = A
  /\ \A i \in 1..Len(C1'.todo) : C1'.todo[i] \in A
  /\ \A i, j \in 1..Len(C1'.todo) : i < j =>
       C1'.todo[i] # C1'.todo[j] /\ mod[C1'.todo[i]].stamp <= mod[C1'.todo[j]].stamp
  /\ jobs # <<>> /\ Head(jobs).m = m /\ jobs' = Tail(jobs)

\* A step of the jobs keeps the invariant.
IdleNext == Shaped' /\ WalkInv' /\ LateInv' /\ asserts' /\ IdleEff

-----------------------------------------------------------------------------
(* The invariant is inductive *)

\* What the steps of each kind keep of the running of bodies, the errors and
\* the promises.
Once ==
  \A m \in Modules :
    /\ body'[m] = "running" => body[m] \in {"unrun", "running"}
    /\ mod[m].error # None => mod'[m].error = mod[m].error
    /\ mod[m].promise \in {"fulfilled", "rejected"} => mod'[m].promise = mod[m].promise

\* What a step does, in one of the ways the invariant is proved for.
Effect ==
  \/ LinkEff
  \/ \E d \in Modules : EnterEff(d)
  \/ \E m, d, r \in Modules : ReturnEff(m, d, r)
  \/ \E e, r \in Modules : FailEff(e, r)
  \/ \E m \in Modules : RunEff(m)
  \/ \E m \in Modules : \E K \in SUBSET Modules : EndEff(m, K)

\* A step of a traversal keeps the invariant.
WalkNext == Shaped' /\ WalkInv' /\ asserts' /\ Effect

=============================================================================
