----------------------------- MODULE EjrPromises -----------------------------
(***************************************************************************)
(* The promises of the runtime, the queue of jobs they leave behind, and    *)
(* what ejr_await_promise and ejr_eval_module tell the host about them.     *)
(*                                                                          *)
(* QuickJS never runs the reactions of a promise at once: it puts a job in  *)
(* a queue, and the host empties the queue with JS_ExecutePendingJob.       *)
(* JavaScript runs only in frames: a script, a handler a job calls, the     *)
(* then method of a thenable, the body of an async function or of a module. *)
(* What it does there is one step each, so calls interleave as they do in   *)
(* real programs.  The engine's part of the state is the record rt, and     *)
(* each engine function is an operator from a runtime to the next one.      *)
(***************************************************************************)
EXTENDS Integers, Sequences, FiniteSets

CONSTANTS
  MaxPromises,  \* bound: promises made
  MaxThens,     \* bound: reactions registered
  MaxChain,     \* bound: thenables one promise is resolved with in turn
  MaxFrames,    \* bound: nested JavaScript calls
  Values,       \* primitives and objects without a then method
  Undefined, TypeError,  \* two of the Values
  Thenable,     \* an object whose then is a JavaScript function
  BadThen,      \* an object whose then getter throws
  Drains        \* TRUE when the host runs the pending jobs, which ejr.h cannot do

Promises == 1 .. MaxPromises
Pairs    == Promises \X (0 .. MaxChain)
NoPair   == <<>>
Tickets  == 1 .. MaxThens

ASSUME BoundsAssumption ==
  /\ MaxPromises \in Nat /\ MaxThens \in Nat /\ MaxChain \in Nat /\ MaxFrames \in Nat
ASSUME ValuesAssumption ==
  /\ {Undefined, TypeError} \subseteq Values
  /\ Thenable \notin Values \cup Promises
  /\ BadThen \notin Values \cup Promises \cup {Thenable}
  /\ Values \cap Promises = {}
ASSUME DrainsAssumption == Drains \in BOOLEAN

VARIABLES
  rt,        \* the engine: promises, resolving functions and job_list, see NewRuntime
  frames,    \* the JavaScript calls in progress, the innermost last
  held,      \* pairs of resolving functions JavaScript was given
  visible,   \* promises JavaScript was given, and may have given the host
  answer,    \* what a call just told of a promise: its name, the promise, the value; or <<>>
  ran        \* history: the tickets of the reactions that ran, in order

vars == <<rt, frames, held, visible, answer, ran>>

-----------------------------------------------------------------------------
(* The engine: runtimes and the functions on them.  A reaction, a pair of    *)
(* JSPromiseReactionData registered by one call, has a ticket, the kind of   *)
(* its handlers, and the resolving functions its outcome goes to.            *)

\* "call" has a JavaScript handler for the outcome that comes, "pass" has none;
\* the handlers of the others are the engine's.
UserKinds == {"call", "pass"}
Kinds     == UserKinds \cup {"settle", "resume", "module"}

NewRuntime ==
  [made       |-> 0,
   state      |-> [p \in Promises |-> "none"],
   result     |-> [p \in Promises |-> Undefined],
   reactions  |-> [p \in Promises |-> <<>>],
   chain      |-> [p \in Promises |-> 0],   \* pairs made for p by thenable jobs
   unresolved |-> {},                        \* pairs whose already_resolved is FALSE
   jobs       |-> <<>>,                      \* job_list
   on         |-> <<>>,                      \* history: the promise of each ticket
   adopts     |-> [p \in Promises |-> {}]]   \* history: the thenables p was resolved with

HasRoom(h) == h.made < MaxPromises
NewOf(h)   == h.made + 1

\* js_promise_constructor with js_create_resolving_functions: a pending promise
\* and its first pair of resolving functions.
NewPromise(h) ==
  [h EXCEPT !.made = NewOf(h),
            !.state[NewOf(h)] = "pending",
            !.unresolved = @ \cup {<<NewOf(h), 0>>}]

Job(r, rejected, v) ==
  [ticket |-> r.ticket, kind |-> r.kind, to |-> r.to, rejected |-> rejected, arg |-> v]

\* MUTANT of Settle: jobs are queued from the last reaction to the first.
SettleBackwards(h, p, v, rejected) ==
  IF h.state[p] # "pending" THEN h ELSE
  [h EXCEPT !.state[p] = IF rejected THEN "rejected" ELSE "fulfilled",
            !.result[p] = v,
            !.jobs = @ \o [i \in 1 .. Len(h.reactions[p]) |->
                             Job(h.reactions[p][Len(h.reactions[p]) + 1 - i], rejected, v)],
            !.reactions[p] = <<>>]

\* fulfill_or_reject_promise: one job per reaction, in the order they came.
Settle(h, p, v, rejected) ==
  IF h.state[p] # "pending" THEN h ELSE
  [h EXCEPT !.state[p] = IF rejected THEN "rejected" ELSE "fulfilled",
            !.result[p] = v,
            !.jobs = @ \o [i \in 1 .. Len(h.reactions[p]) |->
                             Job(h.reactions[p][i], rejected, v)],
            !.reactions[p] = <<>>]

HasThen(v) == v = Thenable \/ v \in Promises

\* Resolving p, whose pair was not used before.
ResolveWith(h, pair, v, rejected) ==
  LET p == pair[1]
  IN  IF rejected \/ v \in Values  THEN Settle(h, p, v, rejected)
      ELSE IF v = p \/ v = BadThen THEN Settle(h, p, TypeError, TRUE)
      ELSE [h EXCEPT !.adopts[p] = @ \cup {v},
                     !.jobs = Append(@, [ticket |-> 0, kind |-> "thenable", to |-> pair,
                                         rejected |-> FALSE, arg |-> v])]

\* MUTANT of Resolve: the call does not set already_resolved.
ResolveAgain(h, pair, v, rejected) ==
  IF pair \notin h.unresolved THEN h ELSE ResolveWith(h, pair, v, rejected)

\* js_promise_resolve_function_call, for either function of the pair.
Resolve(h, pair, v, rejected) ==
  IF pair \notin h.unresolved THEN h
  ELSE ResolveWith([h EXCEPT !.unresolved = @ \ {pair}], pair, v, rejected)

\* A job for a thenable registers a reaction when it runs: the bound keeps room.
RoomFor(h, n) ==
  Len(h.on) + Cardinality({i \in 1 .. Len(h.jobs) : h.jobs[i].kind = "thenable"}) + n <= MaxThens

\* MUTANT of PerformThen: a reaction to a settled promise is registered and
\* queued.
PerformThenTwice(h, p, kind, to) ==
  LET r == [ticket |-> Len(h.on) + 1, kind |-> kind, to |-> to]
      g == [h EXCEPT !.on = Append(@, p), !.reactions[p] = Append(@, r)]
  IN  IF h.state[p] = "pending" THEN g
      ELSE [g EXCEPT !.jobs = Append(@, Job(r, h.state[p] = "rejected", h.result[p]))]

\* perform_promise_then
PerformThen(h, p, kind, to) ==
  LET r == [ticket |-> Len(h.on) + 1, kind |-> kind, to |-> to]
      g == [h EXCEPT !.on = Append(@, p)]
  IN  IF h.state[p] = "pending"
      THEN [g EXCEPT !.reactions[p] = Append(@, r)]
      ELSE [g EXCEPT !.jobs = Append(@, Job(r, h.state[p] = "rejected", h.result[p]))]

\* MUTANT of RunJob: a rejection without a handler is dropped.
RunJobDropping(h, job) ==
  CASE job.kind = "module" ->
         Resolve(h, job.to, IF job.rejected THEN job.arg ELSE Undefined, job.rejected)
    [] job.kind = "settle" -> Resolve(h, job.to, job.arg, job.rejected)
    [] OTHER -> IF job.rejected THEN h ELSE Resolve(h, job.to, job.arg, FALSE)

\* promise_reaction_job when no JavaScript runs: the promise's outcome is passed
\* on.  A module's own handlers tell its importer undefined or the error.
RunJob(h, job) ==
  IF job.kind = "module"
  THEN Resolve(h, job.to, IF job.rejected THEN job.arg ELSE Undefined, job.rejected)
  ELSE Resolve(h, job.to, job.arg, job.rejected)

\* js_promise_resolve_thenable_job up to its call of then: a new pair for the
\* promise.
NewPair(h, p) ==
  [h EXCEPT !.chain[p] = @ + 1,
            !.unresolved = @ \cup {<<p, h.chain[p] + 1>>}]
PairOf(h, p) == <<p, h.chain[p] + 1>>

Init ==
  /\ rt = NewRuntime
  /\ frames = <<>>
  /\ held = {}
  /\ visible = {}
  /\ answer = <<>>
  /\ ran = <<>>

-----------------------------------------------------------------------------
(* JavaScript, in the innermost frame *)

Top      == frames[Len(frames)]
Below    == SubSeq(frames, 1, Len(frames) - 1)
Running  == Len(frames) > 0 /\ Top.kind # "eval"
Things   == Values \cup {Thenable, BadThen} \cup visible
Push(kind, to) == Append(frames, [kind |-> kind, to |-> to])

\* Bounds: what resolving a pair with v may need later.
Fits(h, pair, v) ==
  HasThen(v) /\ pair # NoPair => h.chain[pair[1]] < MaxChain /\ RoomFor(h, 1)

JsNewPromise ==
  /\ Running /\ HasRoom(rt)
  /\ rt' = NewPromise(rt)
  /\ visible' = visible \cup {NewOf(rt)}
  /\ held' = held \cup {<<NewOf(rt), 0>>}
  /\ answer' = <<>>
  /\ UNCHANGED <<frames, ran>>

\* JavaScript calls a resolving function it holds, used before or not.
JsResolves(pair, v, rejected) ==
  /\ Running
  /\ pair \in held
  /\ v \in IF rejected THEN Values ELSE Things
  /\ Fits(rt, pair, v)
  /\ rt' = Resolve(rt, pair, v, rejected)
  /\ answer' = <<>>
  /\ UNCHANGED <<frames, held, visible, ran>>

\* js_promise_then
JsThen(p, kind) ==
  /\ Running /\ HasRoom(rt) /\ RoomFor(rt, 1)
  /\ p \in visible
  /\ rt' = PerformThen(NewPromise(rt), p, kind, <<NewOf(rt), 0>>)
  /\ visible' = visible \cup {NewOf(rt)}
  /\ answer' = <<>>
  /\ UNCHANGED <<frames, held, ran>>

\* js_async_function_call: the body starts at once.
JsCallsAsync ==
  /\ Running /\ HasRoom(rt) /\ Len(frames) < MaxFrames
  /\ rt' = NewPromise(rt)
  /\ visible' = visible \cup {NewOf(rt)}
  /\ frames' = Push("body", <<NewOf(rt), 0>>)
  /\ answer' = <<>>
  /\ UNCHANGED <<held, ran>>

\* js_async_function_resume when the body awaits a promise.
JsAwaitsPromise(p) ==
  /\ Running /\ Top.kind = "body"
  /\ p \in visible /\ RoomFor(rt, 1)
  /\ rt' = PerformThen(rt, p, "resume", Top.to)
  /\ frames' = Below
  /\ answer' = <<>>
  /\ UNCHANGED <<held, visible, ran>>

\* The same for anything else: js_promise_resolve makes a promise for it.
JsAwaitsOther(v) ==
  /\ Running /\ Top.kind = "body"
  /\ HasRoom(rt) /\ RoomFor(rt, 2)
  /\ v \in Things \ visible
  /\ LET pair == <<NewOf(rt), 0>>
     IN  /\ Fits(NewPromise(rt), pair, v)
         /\ rt' = PerformThen(Resolve(NewPromise(rt), pair, v, FALSE),
                              NewOf(rt), "resume", Top.to)
  /\ frames' = Below
  /\ answer' = <<>>
  /\ UNCHANGED <<held, visible, ran>>

\* The innermost call returns v or throws it.  What becomes of it is the
\* business of the engine function that made the call.
JsEnds(v, threw) ==
  /\ Running
  /\ v \in IF threw THEN Values ELSE Things
  /\ Fits(rt, Top.to, v)
  /\ rt' = CASE Top.kind \in {"handler", "body"} -> Resolve(rt, Top.to, v, threw)
             [] Top.kind = "then" -> IF threw THEN Resolve(rt, Top.to, v, TRUE) ELSE rt
             [] Top.kind = "module" ->
                  Resolve(rt, Top.to, IF threw THEN v ELSE Undefined, threw)
             [] Top.kind = "script" -> rt
  /\ frames' = Below
  /\ answer' = <<>>
  /\ UNCHANGED <<held, visible, ran>>

-----------------------------------------------------------------------------
(* The host *)

\* ejr_eval_script, ejr_eval_function and every other call that runs JavaScript.
StartScript ==
  /\ frames = <<>>
  /\ frames' = Push("script", NoPair)
  /\ answer' = <<>>
  /\ UNCHANGED <<rt, held, visible, ran>>

\* ejr_eval_module: js_evaluate_module makes the module's promise and runs its
\* body.  One that uses await at its top level is run as an async function whose
\* promise, through js_execute_async_module's handlers, settles the module's.
StartModule ==
  /\ frames = <<>> /\ MaxFrames >= 2 /\ HasRoom(rt)
  /\ LET pair == <<NewOf(rt), 0>>
     IN  \/ /\ rt' = NewPromise(rt)
            /\ frames' = Push("eval", pair) \o <<[kind |-> "module", to |-> pair]>>
         \/ /\ HasRoom(NewPromise(rt)) /\ RoomFor(rt, 1)
            /\ LET h    == NewPromise(NewPromise(rt))
                   body == <<NewOf(rt) + 1, 0>>
               IN  /\ rt' = PerformThen(h, body[1], "module", pair)
                   /\ frames' = Push("eval", pair) \o <<[kind |-> "body", to |-> body]>>
  /\ answer' = <<>>
  /\ UNCHANGED <<held, visible, ran>>

\* JS_PromiseResult, which is undefined while the promise is pending, as the
\* caller tells the host.
Answers(caller, p) == <<caller, p, rt.result[p]>>

\* ejr_eval_module stores the result of the promise, and frees the promise.
ModuleAnswers ==
  /\ Len(frames) > 0 /\ Top.kind = "eval"
  /\ frames' = Below
  /\ answer' = Answers("ejr_eval_module", Top.to[1])
  /\ UNCHANGED <<rt, held, visible, ran>>

\* ejr_await_promise
AwaitPromise(p) ==
  /\ p \in visible
  /\ Drains => frames = <<>> /\ rt.jobs = <<>>
  /\ answer' = Answers("ejr_await_promise", p)
  /\ UNCHANGED <<rt, frames, held, visible, ran>>

\* JS_ExecutePendingJob on the first job.  A job that calls JavaScript leaves a
\* frame; the others end here.
ExecuteJob ==
  /\ Drains
  /\ frames = <<>> /\ Len(rt.jobs) > 0
  /\ LET job == Head(rt.jobs)
         h   == [rt EXCEPT !.jobs = Tail(@)]
         p   == job.to[1]
     IN  IF job.kind = "thenable"
         THEN /\ IF job.arg = Thenable
                 THEN /\ rt' = NewPair(h, p)
                      /\ frames' = Push("then", PairOf(h, p))
                      /\ held' = held \cup {PairOf(h, p)}
                 ELSE /\ rt' = PerformThen(NewPair(h, p), job.arg, "settle", PairOf(h, p))
                      /\ UNCHANGED <<frames, held>>
              /\ UNCHANGED ran
         ELSE /\ ran' = Append(ran, job.ticket)
              /\ UNCHANGED held
              /\ IF job.kind = "resume"
                 THEN rt' = h /\ frames' = Push("body", job.to)
                 ELSE IF job.kind = "call"
                 THEN rt' = h /\ frames' = Push("handler", job.to)
                 ELSE rt' = RunJob(h, job) /\ UNCHANGED frames
  /\ answer' = <<>>
  /\ UNCHANGED visible

JavaScript ==
  \/ JsNewPromise
  \/ \E pair \in held, v \in Things, rejected \in BOOLEAN : JsResolves(pair, v, rejected)
  \/ \E p \in visible, kind \in UserKinds : JsThen(p, kind)
  \/ JsCallsAsync
  \/ \E p \in visible : JsAwaitsPromise(p)
  \/ \E v \in Things : JsAwaitsOther(v)

Ends == (\E v \in Things, threw \in BOOLEAN : JsEnds(v, threw)) \/ ModuleAnswers

Next ==
  \/ JavaScript
  \/ Ends
  \/ StartScript
  \/ StartModule
  \/ \E p \in visible : AwaitPromise(p)
  \/ ExecuteJob

Spec == Init /\ [][Next]_vars

-----------------------------------------------------------------------------
(* Properties *)

Settled(p) == rt.state[p] \in {"fulfilled", "rejected"}
JobsTo(p)  == {i \in 1 .. Len(rt.jobs) :
                 rt.jobs[i].kind = "thenable" /\ rt.jobs[i].to[1] = p}

\* The types, a part of OneChance.
TypeOK ==
  /\ rt.made \in 0 .. MaxPromises
  /\ rt.state \in [Promises -> {"none", "pending", "fulfilled", "rejected"}]
  /\ rt.result \in [Promises -> Values \cup {Thenable, BadThen} \cup Promises]
  /\ \A p \in Promises : \A i \in 1 .. Len(rt.reactions[p]) :
       rt.reactions[p][i].kind \in Kinds /\ rt.reactions[p][i].to \in Pairs
  /\ rt.unresolved \subseteq Pairs
  /\ held \subseteq Pairs
  /\ visible \subseteq 1 .. rt.made

\* Who can still settle p: one call of one pair, or one job that will make a new
\* pair.  A pending promise has exactly one such chance and a settled one none,
\* so fulfill_or_reject_promise never meets a settled promise.
OneChance ==
  /\ TypeOK
  /\ \A p \in Promises :
       Cardinality({pair \in rt.unresolved : pair[1] = p}) + Cardinality(JobsTo(p))
         = IF rt.state[p] = "pending" THEN 1 ELSE 0

\* A pair that was not used is in somebody's hands: JavaScript's, a reaction's
\* of a pending promise, a job's, or a frame's.  So the engine never forgets a
\* promise it has to settle itself.
NoPromiseForgotten ==
  \A pair \in rt.unresolved :
    \/ pair \in held
    \/ \E p \in Promises : /\ rt.state[p] = "pending"
                           /\ \E i \in 1 .. Len(rt.reactions[p]) : rt.reactions[p][i].to = pair
    \/ \E i \in 1 .. Len(rt.jobs) : rt.jobs[i].kind # "thenable" /\ rt.jobs[i].to = pair
    \/ \E i \in 1 .. Len(frames) : frames[i].kind # "eval" /\ frames[i].to = pair

Places(n) ==
  Cardinality({e \in Promises \X Tickets :
                 /\ e[2] <= Len(rt.reactions[e[1]])
                 /\ rt.reactions[e[1]][e[2]].ticket = n})
  + Cardinality({i \in 1 .. Len(rt.jobs) : rt.jobs[i].ticket = n})
  + Cardinality({i \in 1 .. Len(ran) : ran[i] = n})

\* A reaction is registered, queued, or has run: never two of these, and never
\* twice.  It waits only while its promise is pending, and the reactions of one
\* promise run in the order they were registered.
EachReactionOnce ==
  /\ \A n \in 1 .. Len(rt.on) : Places(n) = 1
  /\ \A p \in Promises : Settled(p) => rt.reactions[p] = <<>>
  /\ \A i, j \in 1 .. Len(ran) :
       i < j /\ rt.on[ran[i]] = rt.on[ran[j]] => ran[i] < ran[j]

\* An async function that waits is resumed once: js_async_function_resolve_call
\* does not look whether the body is already running or has ended.
ResumesOf(f) ==
  Cardinality({e \in Promises \X Tickets :
                 /\ e[2] <= Len(rt.reactions[e[1]])
                 /\ rt.reactions[e[1]][e[2]].kind = "resume"
                 /\ rt.reactions[e[1]][e[2]].to = <<f, 0>>})
  + Cardinality({i \in 1 .. Len(rt.jobs) :
                   rt.jobs[i].kind = "resume" /\ rt.jobs[i].to = <<f, 0>>})
  + Cardinality({i \in 1 .. Len(frames) :
                   frames[i].kind = "body" /\ frames[i].to = <<f, 0>>})
OneResume ==
  \A f \in Promises : ResumesOf(f) <= IF <<f, 0>> \in rt.unresolved THEN 1 ELSE 0

\* A promise resolved with another one ends with that one's outcome, whatever is
\* called on its resolving functions meanwhile.
AdoptsOutcome ==
  \A p, q \in Promises : Settled(p) /\ q \in rt.adopts[p] =>
    <<rt.state[p], rt.result[p]>> = <<rt.state[q], rt.result[q]>>

\* What ejr.h calls awaiting: called while no JavaScript runs, ejr_await_promise
\* does not answer for a promise that is pending while there are jobs to run.
AwaitWaits ==
  answer # <<>> /\ answer[1] = "ejr_await_promise" /\ frames = <<>> /\ ~Settled(answer[2])
    => rt.jobs = <<>>

=============================================================================
