-------------------------- MODULE EjrPromisesProofs --------------------------
(***************************************************************************)
(* What TLAPS proves about EjrPromises, for any number of promises,         *)
(* reactions, nested calls and scripts.                                     *)
(***************************************************************************)
EXTENDS EjrPromises, FiniteSetTheorems, SequenceTheorems, TLAPS

-----------------------------------------------------------------------------
(* Runtimes *)

States    == {"none", "pending", "fulfilled", "rejected"}
Reactions == [ticket : Nat, kind : Kinds, to : Pairs]
Jobs      == [ticket : Nat, kind : Kinds \cup {"thenable"}, to : Pairs, rejected : BOOLEAN,
              arg : Values \cup {Thenable} \cup Promises]
Runtimes  ==
  [made       : 0 .. MaxPromises,
   state      : [Promises -> States],
   result     : [Promises -> Values],
   reactions  : [Promises -> Seq(Reactions)],
   chain      : [Promises -> 0 .. MaxChain],
   unresolved : SUBSET Pairs,
   jobs       : Seq(Jobs),
   on         : Seq(Promises),
   adopts     : [Promises -> SUBSET ({Thenable} \cup Promises)]]

LEMMA NewRuntimeType == NewRuntime \in Runtimes
BY BoundsAssumption, ValuesAssumption DEF NewRuntime, Runtimes, States

-----------------------------------------------------------------------------
(* What each function of the engine does to a runtime, field by field.  A job   *)
(* that is not for a thenable is a task.                                        *)

Tasks(h)     == {i \in 1 .. Len(h.jobs) : h.jobs[i].kind # "thenable"}
Adoptions(h) == {i \in 1 .. Len(h.jobs) : h.jobs[i].kind = "thenable"}

Makes(h, g) ==
  /\ h \in Runtimes /\ g \in Runtimes
  /\ h.made + 1 \in Promises /\ g.made = h.made + 1
  /\ g.state[h.made + 1] = "pending"
  /\ \A q \in Promises : q # h.made + 1 => g.state[q] = h.state[q]
  /\ g.unresolved = h.unresolved \cup {<<h.made + 1, 0>>}
  /\ g.result = h.result /\ g.reactions = h.reactions /\ g.chain = h.chain
  /\ g.jobs = h.jobs /\ g.on = h.on /\ g.adopts = h.adopts

Outcome(rejected) == IF rejected THEN "rejected" ELSE "fulfilled"

\* The job is for the reaction r, with an outcome and its value.
TaskOf(job, r, outcome, v) ==
  /\ job.ticket = r.ticket /\ job.kind = r.kind /\ job.to = r.to /\ job.arg = v
  /\ job.rejected <=> outcome = "rejected"

\* p is settled, and its reactions become tasks.
Closes(h, g, p, outcome, v) ==
  /\ g \in Runtimes
  /\ outcome \in {"fulfilled", "rejected"}
  /\ g.state[p] = outcome
  /\ g.result[p] = v
  /\ g.reactions[p] = <<>>
  /\ \A q \in Promises : q # p => /\ g.state[q] = h.state[q] /\ g.result[q] = h.result[q]
                                  /\ g.reactions[q] = h.reactions[q]
  /\ Len(g.jobs) = Len(h.jobs) + Len(h.reactions[p])
  /\ \A i \in 1 .. Len(h.jobs) : g.jobs[i] = h.jobs[i]
  /\ \A i \in 1 .. Len(h.reactions[p]) :
       TaskOf(g.jobs[Len(h.jobs) + i], h.reactions[p][i], outcome, v)
  /\ g.made = h.made /\ g.chain = h.chain /\ g.on = h.on /\ g.adopts = h.adopts

\* The same through a pair of resolving functions.
Fulfils(h, g, pair, p, outcome, v) ==
  /\ h \in Runtimes /\ g \in Runtimes
  /\ p \in Promises /\ pair[1] = p /\ pair \in h.unresolved
  /\ h.state[p] = "pending" /\ v \in Values
  /\ g.unresolved = h.unresolved \ {pair}
  /\ Closes(h, g, p, outcome, v)

\* p is to follow v: a job for v is queued.
Follows(h, g, pair, p, v) ==
  /\ h \in Runtimes /\ g \in Runtimes
  /\ p \in Promises /\ pair[1] = p /\ pair \in h.unresolved
  /\ h.state[p] = "pending" /\ v \in {Thenable} \cup Promises
  /\ g.unresolved = h.unresolved \ {pair}
  /\ g.adopts[p] = h.adopts[p] \cup {v}
  /\ \A q \in Promises : q # p => g.adopts[q] = h.adopts[q]
  /\ Len(g.jobs) = Len(h.jobs) + 1
  /\ \A i \in 1 .. Len(h.jobs) : g.jobs[i] = h.jobs[i]
  /\ LET job == g.jobs[Len(h.jobs) + 1]
     IN  job.ticket = 0 /\ job.kind = "thenable" /\ job.to = pair /\ job.arg = v
  /\ g.made = h.made /\ g.state = h.state /\ g.result = h.result
  /\ g.reactions = h.reactions /\ g.chain = h.chain /\ g.on = h.on

NewTicket(h, g, p) ==
  /\ Len(g.on) = Len(h.on) + 1
  /\ g.on[Len(h.on) + 1] = p
  /\ \A n \in 1 .. Len(h.on) : g.on[n] = h.on[n]

\* A reaction to p is registered, with the next ticket.
Registers(h, g, p, kind, to) ==
  /\ h \in Runtimes /\ g \in Runtimes
  /\ p \in Promises /\ kind \in Kinds /\ to \in Pairs
  /\ h.state[p] = "pending"
  /\ NewTicket(h, g, p)
  /\ Len(g.reactions[p]) = Len(h.reactions[p]) + 1
  /\ \A i \in 1 .. Len(h.reactions[p]) : g.reactions[p][i] = h.reactions[p][i]
  /\ g.reactions[p][Len(h.reactions[p]) + 1]
       = [ticket |-> Len(h.on) + 1, kind |-> kind, to |-> to]
  /\ \A q \in Promises : q # p => g.reactions[q] = h.reactions[q]
  /\ g.made = h.made /\ g.state = h.state /\ g.result = h.result
  /\ g.jobs = h.jobs /\ g.chain = h.chain
  /\ g.unresolved = h.unresolved /\ g.adopts = h.adopts

\* p is settled, so the reaction becomes a task at once.
Queues(h, g, p, kind, to) ==
  /\ h \in Runtimes /\ g \in Runtimes
  /\ p \in Promises /\ kind \in Kinds /\ to \in Pairs
  /\ h.state[p] # "pending"
  /\ NewTicket(h, g, p)
  /\ Len(g.jobs) = Len(h.jobs) + 1
  /\ \A i \in 1 .. Len(h.jobs) : g.jobs[i] = h.jobs[i]
  /\ TaskOf(g.jobs[Len(h.jobs) + 1], [ticket |-> Len(h.on) + 1, kind |-> kind, to |-> to],
            h.state[p], h.result[p])
  /\ g.made = h.made /\ g.state = h.state /\ g.result = h.result
  /\ g.reactions = h.reactions /\ g.chain = h.chain
  /\ g.unresolved = h.unresolved /\ g.adopts = h.adopts

Shifts(h, g) ==
  /\ Len(g.jobs) = Len(h.jobs) - 1
  /\ \A i \in 1 .. Len(g.jobs) : g.jobs[i] = h.jobs[i + 1]

\* The first job, a task, leaves the queue.
Drops(h, g) ==
  /\ h \in Runtimes /\ g \in Runtimes
  /\ 1 \in Tasks(h)
  /\ Shifts(h, g)
  /\ g.made = h.made /\ g.state = h.state /\ g.result = h.result
  /\ g.reactions = h.reactions /\ g.chain = h.chain
  /\ g.unresolved = h.unresolved /\ g.on = h.on /\ g.adopts = h.adopts

\* The first job, one for a thenable, leaves the queue, and its promise p gets a
\* new pair.
Takes(h, g, p, pair) ==
  /\ h \in Runtimes /\ g \in Runtimes
  /\ 1 \in Adoptions(h)
  /\ p \in Promises /\ h.jobs[1].to[1] = p /\ <<p, h.chain[p] + 1>> = pair /\ pair \in Pairs
  /\ Shifts(h, g)
  /\ g.unresolved = h.unresolved \cup {pair}
  /\ g.chain[p] = h.chain[p] + 1
  /\ \A q \in Promises : q # p => g.chain[q] = h.chain[q]
  /\ g.made = h.made /\ g.state = h.state /\ g.result = h.result
  /\ g.reactions = h.reactions /\ g.on = h.on /\ g.adopts = h.adopts

LEMMA NewPromiseType ==
  ASSUME NEW h \in Runtimes, HasRoom(h)
  PROVE  /\ NewPromise(h) \in Runtimes
         /\ NewPromise(h).made = h.made + 1
         /\ NewPromise(h).state = [h.state EXCEPT ![h.made + 1] = "pending"]
         /\ NewPromise(h).unresolved = h.unresolved \cup {<<h.made + 1, 0>>}
         /\ NewPromise(h).result = h.result /\ NewPromise(h).reactions = h.reactions
         /\ NewPromise(h).chain = h.chain /\ NewPromise(h).jobs = h.jobs
         /\ NewPromise(h).on = h.on /\ NewPromise(h).adopts = h.adopts
<1> DEFINE g == NewPromise(h)
<1>1. /\ g.made = h.made + 1
      /\ g.state = [h.state EXCEPT ![h.made + 1] = "pending"]
      /\ g.unresolved = h.unresolved \cup {<<h.made + 1, 0>>}
      /\ g.result = h.result /\ g.reactions = h.reactions
      /\ g.chain = h.chain /\ g.jobs = h.jobs
      /\ g.on = h.on /\ g.adopts = h.adopts
  BY DEF Runtimes, NewPromise, NewOf
<1>2. ASSUME NEW m \in 0 .. MaxPromises, NEW s \in [Promises -> States],
             NEW u \in SUBSET Pairs
      PROVE  [h EXCEPT !.made = m, !.state = s, !.unresolved = u] \in Runtimes
  BY DEF Runtimes
<1>3. /\ h.made \in 0 .. MaxPromises /\ h.state \in [Promises -> States]
      /\ h.unresolved \in SUBSET Pairs
  BY DEF Runtimes
<1>4. h.made + 1 \in Promises /\ <<h.made + 1, 0>> \in Pairs
  BY <1>3, BoundsAssumption DEF HasRoom, Promises, Pairs
<1>5. g.made \in 0 .. MaxPromises
  BY <1>1, <1>4 DEF Promises
<1>6. g.state \in [Promises -> States] /\ g.unresolved \in SUBSET Pairs
  BY <1>1, <1>3, <1>4 DEF States
<1>7. g \in Runtimes
  <2>1. SUFFICES ASSUME NEW m, NEW s, NEW u, m = g.made, s = g.state, u = g.unresolved
                 PROVE  g \in Runtimes
    OBVIOUS
  <2>2. g = [h EXCEPT !.made = m, !.state = s, !.unresolved = u]
    BY <1>1, <2>1 DEF NewPromise, NewOf
  <2> QED
    BY <1>5, <1>6, <2>1, <2>2 DEF Runtimes
<1> QED
  BY <1>1, <1>7

\* A pair is used up.
Use(h, pair) == [h EXCEPT !.unresolved = @ \ {pair}]

LEMMA UseType ==
  ASSUME NEW h \in Runtimes, NEW pair
  PROVE  /\ Use(h, pair) \in Runtimes
         /\ Use(h, pair).unresolved = h.unresolved \ {pair}
         /\ Use(h, pair).made = h.made /\ Use(h, pair).state = h.state
         /\ Use(h, pair).result = h.result /\ Use(h, pair).reactions = h.reactions
         /\ Use(h, pair).chain = h.chain /\ Use(h, pair).jobs = h.jobs
         /\ Use(h, pair).on = h.on /\ Use(h, pair).adopts = h.adopts
<1> DEFINE u == h.unresolved \ {pair}
<1>1. Use(h, pair) = [h EXCEPT !.unresolved = u] /\ u \in SUBSET Pairs
  BY DEF Use, Runtimes
<1> HIDE DEF u
<1>2. /\ [h EXCEPT !.unresolved = u] \in Runtimes
      /\ LET g == [h EXCEPT !.unresolved = u]
         IN  /\ g.unresolved = u /\ g.made = h.made /\ g.state = h.state
             /\ g.result = h.result /\ g.reactions = h.reactions
             /\ g.chain = h.chain /\ g.jobs = h.jobs /\ g.on = h.on /\ g.adopts = h.adopts
  BY <1>1 DEF Runtimes
<1> QED
  BY <1>1, <1>2 DEF u

\* The jobs for the reactions to p.
JobsFor(h, p, v, rejected) ==
  [i \in 1 .. Len(h.reactions[p]) |-> Job(h.reactions[p][i], rejected, v)]

LEMMA JobsForType ==
  ASSUME NEW h \in Runtimes, NEW p \in Promises, NEW v \in Values, NEW rejected \in BOOLEAN
  PROVE  /\ JobsFor(h, p, v, rejected) \in Seq(Jobs)
         /\ Len(JobsFor(h, p, v, rejected)) = Len(h.reactions[p])
         /\ \A i \in 1 .. Len(h.reactions[p]) :
              TaskOf(JobsFor(h, p, v, rejected)[i], h.reactions[p][i], Outcome(rejected), v)
<1>1. h.reactions[p] \in Seq(Reactions)
  BY DEF Runtimes
<1>2. ASSUME NEW r \in Reactions
      PROVE  Job(r, rejected, v) \in Jobs /\ TaskOf(Job(r, rejected, v), r, Outcome(rejected), v)
  BY <1>2 DEF Reactions, Jobs, Job, TaskOf, Outcome
<1>3. \A i \in 1 .. Len(h.reactions[p]) : h.reactions[p][i] \in Reactions
  BY <1>1
<1>4. JobsFor(h, p, v, rejected) \in [1 .. Len(h.reactions[p]) -> Jobs]
  BY <1>2, <1>3 DEF JobsFor
<1>5. \A i \in 1 .. Len(h.reactions[p]) :
        TaskOf(JobsFor(h, p, v, rejected)[i], h.reactions[p][i], Outcome(rejected), v)
  BY <1>2, <1>3 DEF JobsFor
<1> QED
  BY <1>1, <1>4, <1>5

LEMMA Joined ==
  ASSUME NEW S, NEW s \in Seq(S), NEW t \in Seq(S)
  PROVE  /\ Len(s \o t) = Len(s) + Len(t)
         /\ \A i \in 1 .. Len(s) : (s \o t)[i] = s[i]
         /\ \A i \in 1 .. Len(t) : (s \o t)[Len(s) + i] = t[i]
<1>1. Len(s \o t) = Len(s) + Len(t)
  OBVIOUS
<1>2. ASSUME NEW i \in 1 .. Len(s)
      PROVE  (s \o t)[i] = s[i]
  OBVIOUS
<1>3. ASSUME NEW i \in 1 .. Len(t)
      PROVE  (s \o t)[Len(s) + i] = t[i]
  OBVIOUS
<1> QED
  BY <1>1, <1>2, <1>3

LEMMA SettleType ==
  ASSUME NEW h \in Runtimes, NEW p \in Promises, NEW v \in Values, NEW rejected \in BOOLEAN,
         h.state[p] = "pending"
  PROVE  /\ Closes(h, Settle(h, p, v, rejected), p, Outcome(rejected), v)
         /\ Settle(h, p, v, rejected).unresolved = h.unresolved
<1> DEFINE s == [h.state EXCEPT ![p] = IF rejected THEN "rejected" ELSE "fulfilled"]
           a == [h.result EXCEPT ![p] = v]
           j == h.jobs \o JobsFor(h, p, v, rejected)
           r == [h.reactions EXCEPT ![p] = <<>>]
<1>1. Settle(h, p, v, rejected) =
        [h EXCEPT !.state = s, !.result = a, !.jobs = j, !.reactions = r]
  BY DEF Settle, JobsFor
<1>2. s \in [Promises -> States] /\ a \in [Promises -> Values] /\ j \in Seq(Jobs)
      /\ r \in [Promises -> Seq(Reactions)]
  <2>1. /\ h.state \in [Promises -> States] /\ h.result \in [Promises -> Values]
        /\ h.jobs \in Seq(Jobs) /\ h.reactions \in [Promises -> Seq(Reactions)]
    BY DEF Runtimes
  <2>2. j \in Seq(Jobs)
    BY <2>1, JobsForType
  <2>3. r \in [Promises -> Seq(Reactions)]
    BY <2>1
  <2> QED
    BY <2>1, <2>2, <2>3 DEF States
<1> DEFINE out == Outcome(rejected)
<1>3. out \in {"fulfilled", "rejected"} /\ s[p] = out
  BY DEF Outcome, Runtimes
<1> HIDE DEF out
<1> HIDE DEF s, a, j, r
<1>4. [h EXCEPT !.state = s, !.result = a, !.jobs = j, !.reactions = r] \in Runtimes
  BY <1>2 DEF Runtimes
<1>5. LET g == [h EXCEPT !.state = s, !.result = a, !.jobs = j, !.reactions = r]
      IN  /\ g.state = s /\ g.result = a /\ g.jobs = j /\ g.reactions = r
          /\ g.made = h.made /\ g.chain = h.chain /\ g.unresolved = h.unresolved
          /\ g.on = h.on /\ g.adopts = h.adopts
  BY DEF Runtimes
<1>6. /\ Len(j) = Len(h.jobs) + Len(h.reactions[p])
      /\ \A i \in 1 .. Len(h.jobs) : j[i] = h.jobs[i]
      /\ \A i \in 1 .. Len(h.reactions[p]) :
           TaskOf(j[Len(h.jobs) + i], h.reactions[p][i], out, v)
  <2> DEFINE l == JobsFor(h, p, v, rejected)
  <2>1. h.jobs \in Seq(Jobs)
    BY DEF Runtimes
  <2>2. l \in Seq(Jobs) /\ Len(l) = Len(h.reactions[p])
    BY JobsForType
  <2>3. \A i \in 1 .. Len(h.reactions[p]) : TaskOf(l[i], h.reactions[p][i], out, v)
    BY JobsForType DEF out
  <2>4. j = h.jobs \o l
    BY DEF j
  <2> HIDE DEF l
  <2>5. /\ Len(j) = Len(h.jobs) + Len(l)
        /\ \A i \in 1 .. Len(h.jobs) : j[i] = h.jobs[i]
        /\ \A i \in 1 .. Len(l) : j[Len(h.jobs) + i] = l[i]
    <3> DEFINE q == h.jobs
    <3>1. q \in Seq(Jobs) /\ j = q \o l
      BY <2>1, <2>4
    <3> HIDE DEF q
    <3>2. /\ Len(q \o l) = Len(q) + Len(l)
          /\ \A i \in 1 .. Len(q) : (q \o l)[i] = q[i]
          /\ \A i \in 1 .. Len(l) : (q \o l)[Len(q) + i] = l[i]
      <4>1. l \in Seq(Jobs)
        BY <2>2
      <4> QED
        BY <3>1, <4>1, Joined
    <3> QED
      BY <3>1, <3>2 DEF q
  <2> QED
    BY <2>2, <2>3, <2>5
<1>7. /\ a[p] = v /\ r[p] = <<>>
      /\ \A q \in Promises : q # p => /\ s[q] = h.state[q] /\ a[q] = h.result[q]
                                      /\ r[q] = h.reactions[q]
  BY DEF s, a, r, Runtimes
<1> DEFINE g == Settle(h, p, v, rejected)
<1>8. /\ g \in Runtimes /\ g.state = s /\ g.result = a /\ g.jobs = j /\ g.reactions = r
      /\ g.made = h.made /\ g.chain = h.chain /\ g.unresolved = h.unresolved
      /\ g.on = h.on /\ g.adopts = h.adopts
  BY <1>1, <1>4, <1>5
<1> HIDE DEF g
<1>9. Closes(h, g, p, out, v)
  BY <1>3, <1>6, <1>7, <1>8 DEF Closes
<1> QED
  BY <1>8, <1>9 DEF g, out

\* The change of js_promise_resolve_function_call when it finds a then method.
Following(h, p, v, job) == [h EXCEPT !.adopts[p] = @ \cup {v}, !.jobs = Append(@, job)]

Followed(h, g, p, v, job) ==
  /\ g \in Runtimes
  /\ g.adopts[p] = h.adopts[p] \cup {v}
  /\ \A q \in Promises : q # p => g.adopts[q] = h.adopts[q]
  /\ Len(g.jobs) = Len(h.jobs) + 1
  /\ \A i \in 1 .. Len(h.jobs) : g.jobs[i] = h.jobs[i]
  /\ g.jobs[Len(h.jobs) + 1] = job
  /\ g.made = h.made /\ g.state = h.state /\ g.result = h.result
  /\ g.reactions = h.reactions /\ g.chain = h.chain
  /\ g.unresolved = h.unresolved /\ g.on = h.on

LEMMA FollowType ==
  ASSUME NEW h \in Runtimes, NEW p \in Promises, NEW v \in {Thenable} \cup Promises,
         NEW job \in Jobs
  PROVE  Followed(h, Following(h, p, v, job), p, v, job)
<1> DEFINE x == [h.adopts EXCEPT ![p] = h.adopts[p] \cup {v}]
           j == Append(h.jobs, job)
<1>1. /\ x \in [Promises -> SUBSET ({Thenable} \cup Promises)] /\ j \in Seq(Jobs)
      /\ x[p] = h.adopts[p] \cup {v} /\ \A q \in Promises : q # p => x[q] = h.adopts[q]
      /\ Len(j) = Len(h.jobs) + 1 /\ \A i \in 1 .. Len(h.jobs) : j[i] = h.jobs[i]
      /\ j[Len(h.jobs) + 1] = job
  <2>1. h.adopts \in [Promises -> SUBSET ({Thenable} \cup Promises)] /\ h.jobs \in Seq(Jobs)
    BY DEF Runtimes
  <2>2. h.adopts[p] \cup {v} \in SUBSET ({Thenable} \cup Promises)
    BY <2>1
  <2> QED
    BY <2>1, <2>2
<1>2. Following(h, p, v, job) = [h EXCEPT !.adopts = x, !.jobs = j]
  BY DEF Following
<1> HIDE DEF x, j
<1>3. [h EXCEPT !.adopts = x, !.jobs = j] \in Runtimes
  BY <1>1 DEF Runtimes
<1>4. LET g == [h EXCEPT !.adopts = x, !.jobs = j]
      IN  /\ g.adopts = x /\ g.jobs = j
          /\ g.made = h.made /\ g.state = h.state /\ g.result = h.result
          /\ g.reactions = h.reactions /\ g.chain = h.chain
          /\ g.unresolved = h.unresolved /\ g.on = h.on
  BY DEF Runtimes
<1> QED
  BY <1>1, <1>2, <1>3, <1>4 DEF Followed

LEMMA RegisterType ==
  ASSUME NEW h \in Runtimes, NEW p \in Promises, NEW kind \in Kinds, NEW to \in Pairs,
         h.state[p] = "pending"
  PROVE  Registers(h, PerformThen(h, p, kind, to), p, kind, to)
<1> DEFINE r == [ticket |-> Len(h.on) + 1, kind |-> kind, to |-> to]
           x == [h.reactions EXCEPT ![p] = Append(h.reactions[p], r)]
           o == Append(h.on, p)
           k == [h EXCEPT !.on = o]
           g == PerformThen(h, p, kind, to)
<1>1. h.reactions \in [Promises -> Seq(Reactions)] /\ h.on \in Seq(Promises)
  BY DEF Runtimes
<1>2. /\ o \in Seq(Promises) /\ Len(o) = Len(h.on) + 1 /\ o[Len(h.on) + 1] = p
      /\ \A n \in 1 .. Len(h.on) : o[n] = h.on[n]
  BY <1>1
<1>3. r \in Reactions
  BY <1>1 DEF Reactions
<1> HIDE DEF r
<1>4. /\ x \in [Promises -> Seq(Reactions)]
      /\ Len(x[p]) = Len(h.reactions[p]) + 1
      /\ \A i \in 1 .. Len(h.reactions[p]) : x[p][i] = h.reactions[p][i]
      /\ x[p][Len(h.reactions[p]) + 1] = r
      /\ \A q \in Promises : q # p => x[q] = h.reactions[q]
  <2>1. Append(h.reactions[p], r) \in Seq(Reactions)
    BY <1>1, <1>3
  <2> QED
    BY <1>1, <1>3, <2>1
<1>5. g = [k EXCEPT !.reactions[p] = Append(@, r)]
  BY DEF PerformThen, r
<1>6. k.reactions = h.reactions
  BY DEF Runtimes
<1>7. [k EXCEPT !.reactions = x] = [h EXCEPT !.on = o, !.reactions = x]
  OBVIOUS
<1> HIDE DEF k, g
<1>8. [k EXCEPT !.reactions[p] = Append(@, r)] = [k EXCEPT !.reactions = x]
  BY <1>6
<1> HIDE DEF x, o
<1>9. [h EXCEPT !.on = o, !.reactions = x] \in Runtimes
  BY <1>2, <1>4 DEF Runtimes
<1>10. LET y == [h EXCEPT !.on = o, !.reactions = x]
       IN  /\ y.on = o /\ y.reactions = x
           /\ y.made = h.made /\ y.state = h.state /\ y.result = h.result
           /\ y.jobs = h.jobs /\ y.chain = h.chain
           /\ y.unresolved = h.unresolved /\ y.adopts = h.adopts
  BY DEF Runtimes
<1>11. /\ g \in Runtimes /\ g.on = o /\ g.reactions = x
       /\ g.made = h.made /\ g.state = h.state /\ g.result = h.result
       /\ g.jobs = h.jobs /\ g.chain = h.chain
       /\ g.unresolved = h.unresolved /\ g.adopts = h.adopts
  BY <1>5, <1>7, <1>8, <1>9, <1>10
<1>12. Registers(h, g, p, kind, to)
  BY <1>2, <1>4, <1>11 DEF Registers, NewTicket, r
<1> QED
  BY <1>12 DEF g

LEMMA QueueType ==
  ASSUME NEW h \in Runtimes, NEW p \in Promises, NEW kind \in Kinds, NEW to \in Pairs,
         h.state[p] # "pending"
  PROVE  Queues(h, PerformThen(h, p, kind, to), p, kind, to)
<1> DEFINE r == [ticket |-> Len(h.on) + 1, kind |-> kind, to |-> to]
           job == Job(r, h.state[p] = "rejected", h.result[p])
           x == Append(h.jobs, job)
           o == Append(h.on, p)
           k == [h EXCEPT !.on = o]
           g == PerformThen(h, p, kind, to)
<1>1. h.jobs \in Seq(Jobs) /\ h.on \in Seq(Promises) /\ h.result \in [Promises -> Values]
  BY DEF Runtimes
<1>2. /\ o \in Seq(Promises) /\ Len(o) = Len(h.on) + 1 /\ o[Len(h.on) + 1] = p
      /\ \A n \in 1 .. Len(h.on) : o[n] = h.on[n]
  BY <1>1
<1>3. job \in Jobs
  <2>1. Len(h.on) + 1 \in Nat /\ h.result[p] \in Values
    BY <1>1
  <2> QED
    BY <2>1 DEF Jobs, Job
<1>4. g = [k EXCEPT !.jobs = Append(@, job)]
  BY DEF PerformThen, Runtimes
<1>t. TaskOf(job, r, h.state[p], h.result[p])
  BY DEF TaskOf, Job
<1> HIDE DEF job
<1>5. /\ x \in Seq(Jobs)
      /\ Len(x) = Len(h.jobs) + 1
      /\ \A i \in 1 .. Len(h.jobs) : x[i] = h.jobs[i]
      /\ x[Len(h.jobs) + 1] = job
  BY <1>1, <1>3
<1>6. k.jobs = h.jobs
  BY DEF Runtimes
<1>7. [k EXCEPT !.jobs = x] = [h EXCEPT !.on = o, !.jobs = x]
  OBVIOUS
<1> HIDE DEF k, g
<1>8. [k EXCEPT !.jobs = Append(@, job)] = [k EXCEPT !.jobs = x]
  BY <1>6
<1> HIDE DEF x, o
<1>9. [h EXCEPT !.on = o, !.jobs = x] \in Runtimes
  BY <1>2, <1>5 DEF Runtimes
<1>10. LET y == [h EXCEPT !.on = o, !.jobs = x]
       IN  /\ y.on = o /\ y.jobs = x
           /\ y.made = h.made /\ y.state = h.state /\ y.result = h.result
           /\ y.reactions = h.reactions /\ y.chain = h.chain
           /\ y.unresolved = h.unresolved /\ y.adopts = h.adopts
  BY DEF Runtimes
<1>11. /\ g \in Runtimes /\ g.on = o /\ g.jobs = x
       /\ g.made = h.made /\ g.state = h.state /\ g.result = h.result
       /\ g.reactions = h.reactions /\ g.chain = h.chain
       /\ g.unresolved = h.unresolved /\ g.adopts = h.adopts
  BY <1>4, <1>7, <1>8, <1>9, <1>10
<1>12. Queues(h, g, p, kind, to)
  BY <1>2, <1>5, <1>11, <1>t DEF Queues, NewTicket
<1> QED
  BY <1>12 DEF g

\* The first job is taken out of job_list.
Popped(h) == [h EXCEPT !.jobs = Tail(@)]

LEMMA DropType ==
  ASSUME NEW h \in Runtimes, h.jobs # <<>>
  PROVE  LET g == Popped(h)
         IN  /\ g \in Runtimes
             /\ Shifts(h, g)
             /\ g.made = h.made /\ g.state = h.state /\ g.result = h.result
             /\ g.reactions = h.reactions /\ g.chain = h.chain
             /\ g.unresolved = h.unresolved /\ g.on = h.on /\ g.adopts = h.adopts
<1> DEFINE j == Tail(h.jobs)
           g == Popped(h)
<1>1. /\ j \in Seq(Jobs) /\ Len(j) = Len(h.jobs) - 1
      /\ \A i \in 1 .. Len(j) : j[i] = h.jobs[i + 1]
  BY DEF Runtimes
<1>2. g = [h EXCEPT !.jobs = j]
  BY DEF Popped
<1> HIDE DEF j
<1>3. /\ [h EXCEPT !.jobs = j] \in Runtimes
      /\ LET y == [h EXCEPT !.jobs = j]
         IN  /\ y.jobs = j
             /\ y.made = h.made /\ y.state = h.state /\ y.result = h.result
             /\ y.reactions = h.reactions /\ y.chain = h.chain
             /\ y.unresolved = h.unresolved /\ y.on = h.on /\ y.adopts = h.adopts
  BY <1>1 DEF Runtimes
<1> HIDE DEF g
<1>4. /\ g \in Runtimes /\ Shifts(h, g)
      /\ g.made = h.made /\ g.state = h.state /\ g.result = h.result
      /\ g.reactions = h.reactions /\ g.chain = h.chain
      /\ g.unresolved = h.unresolved /\ g.on = h.on /\ g.adopts = h.adopts
  BY <1>1, <1>2, <1>3 DEF Shifts
<1> QED
  BY <1>4 DEF g

LEMMA NewPairType ==
  ASSUME NEW h \in Runtimes, NEW p \in Promises, h.chain[p] < MaxChain
  PROVE  LET g == NewPair(h, p)
         IN  /\ g \in Runtimes
             /\ PairOf(h, p) \in Pairs
             /\ g.chain = [h.chain EXCEPT ![p] = h.chain[p] + 1]
             /\ g.unresolved = h.unresolved \cup {PairOf(h, p)}
             /\ g.made = h.made /\ g.state = h.state /\ g.result = h.result
             /\ g.reactions = h.reactions /\ g.jobs = h.jobs /\ g.on = h.on
             /\ g.adopts = h.adopts
<1> DEFINE c == [h.chain EXCEPT ![p] = h.chain[p] + 1]
           u == h.unresolved \cup {PairOf(h, p)}
<1>1. h.chain \in [Promises -> 0 .. MaxChain] /\ h.unresolved \in SUBSET Pairs
  BY DEF Runtimes
<1>2. h.chain[p] + 1 \in 0 .. MaxChain
  BY <1>1, BoundsAssumption
<1>3. c \in [Promises -> 0 .. MaxChain]
  BY <1>1, <1>2
<1>4. PairOf(h, p) \in Pairs
  BY <1>2 DEF PairOf, Pairs
<1>5. u \in SUBSET Pairs
  BY <1>1, <1>4
<1>6. NewPair(h, p) = [h EXCEPT !.chain = c, !.unresolved = u]
  BY DEF NewPair, PairOf
<1> HIDE DEF c, u
<1>7. /\ [h EXCEPT !.chain = c, !.unresolved = u] \in Runtimes
      /\ LET g == [h EXCEPT !.chain = c, !.unresolved = u]
         IN  /\ g.chain = c /\ g.unresolved = u
             /\ g.made = h.made /\ g.state = h.state /\ g.result = h.result
             /\ g.reactions = h.reactions /\ g.jobs = h.jobs /\ g.on = h.on
             /\ g.adopts = h.adopts
  BY <1>3, <1>5 DEF Runtimes
<1> QED
  BY <1>4, <1>6, <1>7 DEF c, u

LEMMA NewPromiseIs ==
  ASSUME NEW h \in Runtimes, HasRoom(h)
  PROVE  Makes(h, NewPromise(h))
<1>1. h.made \in 0 .. MaxPromises /\ h.state \in [Promises -> States]
  BY DEF Runtimes
<1>2. h.made + 1 \in Promises
  BY <1>1, BoundsAssumption DEF HasRoom, Promises
<1> QED
  BY <1>1, <1>2, NewPromiseType DEF Makes

\* What resolving or rejecting with v amounts to.
LEMMA ResolveIs ==
  ASSUME NEW h \in Runtimes, NEW pair \in h.unresolved, NEW rejected \in BOOLEAN,
         NEW v \in Values \cup {Thenable, BadThen} \cup Promises, rejected => v \in Values,
         h.state[pair[1]] = "pending"
  PROVE  LET g == Resolve(h, pair, v, rejected)
         IN  \/ v \in Values /\ Fulfils(h, g, pair, pair[1], Outcome(rejected), v)
             \/ v \notin Values /\ Fulfils(h, g, pair, pair[1], "rejected", TypeError)
             \/ v \notin Values /\ Follows(h, g, pair, pair[1], v)
<1> DEFINE k == Use(h, pair)
           p == pair[1]
           g == Resolve(h, pair, v, rejected)
<1>1. pair \in Pairs /\ p \in Promises
  BY DEF Runtimes, Pairs
<1>2. /\ h.state \in [Promises -> States] /\ h.result \in [Promises -> Values]
      /\ h.reactions \in [Promises -> Seq(Reactions)] /\ h.jobs \in Seq(Jobs)
      /\ h.adopts \in [Promises -> SUBSET ({Thenable} \cup Promises)]
  BY DEF Runtimes
<1>3. g = ResolveWith(k, pair, v, rejected)
  BY DEF Resolve, Use
<1>4. ASSUME NEW w \in Values, NEW r \in BOOLEAN
      PROVE  Fulfils(h, Settle(k, p, w, r), pair, p, Outcome(r), w)
  <2>1. /\ k \in Runtimes
        /\ k.unresolved = h.unresolved \ {pair}
        /\ k.made = h.made /\ k.state = h.state /\ k.result = h.result
        /\ k.reactions = h.reactions /\ k.chain = h.chain /\ k.jobs = h.jobs
        /\ k.on = h.on /\ k.adopts = h.adopts
    BY UseType
  <2> HIDE DEF k
  <2> DEFINE x   == Settle(k, p, w, r)
             out == Outcome(r)
  <2>2. Closes(k, x, p, out, w) /\ x.unresolved = k.unresolved
    BY <1>1, <2>1, SettleType
  <2> HIDE DEF x, out
  <2>3. Closes(h, x, p, out, w)
    BY <2>1, <2>2 DEF Closes
  <2>4. Fulfils(h, x, pair, p, out, w)
    BY <1>1, <2>1, <2>2, <2>3 DEF Fulfils, Closes
  <2> QED
    BY <2>4 DEF x, k, out
<1>5. CASE rejected \/ v \in Values
  <2>1. v \in Values /\ g = Settle(k, p, v, rejected)
    BY <1>3, <1>5 DEF ResolveWith
  <2> QED
    BY <1>4, <2>1
<1>6. CASE ~rejected /\ v \notin Values /\ (v = p \/ v = BadThen)
  <2>1. g = Settle(k, p, TypeError, TRUE)
    BY <1>3, <1>6 DEF ResolveWith
  <2> QED
    BY <1>4, <1>6, <2>1, ValuesAssumption DEF Outcome
<1>7. CASE ~rejected /\ v \notin Values /\ v # p /\ v # BadThen
  <2> DEFINE job == [ticket |-> 0, kind |-> "thenable", to |-> pair, rejected |-> FALSE,
                     arg |-> v]
  <2>1. /\ k \in Runtimes
        /\ k.unresolved = h.unresolved \ {pair}
        /\ k.made = h.made /\ k.state = h.state /\ k.result = h.result
        /\ k.reactions = h.reactions /\ k.chain = h.chain /\ k.jobs = h.jobs
        /\ k.on = h.on /\ k.adopts = h.adopts
    BY UseType
  <2> HIDE DEF k
  <2>2. job \in Jobs /\ v \in {Thenable} \cup Promises
    BY <1>1, <1>7 DEF Jobs
  <2>3. g = Following(k, p, v, job)
    BY <1>3, <1>7 DEF ResolveWith, Following
  <2> HIDE DEF g
  <2>4. Followed(k, g, p, v, job)
    <3> HIDE DEF job
    <3> QED
      BY <1>1, <2>1, <2>2, <2>3, FollowType
  <2>5. Follows(h, g, pair, p, v)
    BY <1>1, <2>1, <2>2, <2>4 DEF Follows, Followed
  <2> QED
    BY <1>7, <2>5 DEF g
<1> QED
  BY <1>5, <1>6, <1>7

LEMMA PopIs ==
  ASSUME NEW h \in Runtimes, h.jobs # <<>>
  PROVE  /\ Head(h.jobs) = h.jobs[1] /\ h.jobs[1] \in Jobs /\ 1 \in 1 .. Len(h.jobs)
         /\ h.jobs[1].kind # "thenable" => Drops(h, Popped(h))
         /\ \A p \in Promises :
              h.jobs[1].kind = "thenable" /\ h.jobs[1].to[1] = p /\ h.chain[p] < MaxChain
                => Takes(h, NewPair(Popped(h), p), p, PairOf(Popped(h), p))
<1> DEFINE g == Popped(h)
<1>1. /\ g \in Runtimes /\ Shifts(h, g)
      /\ g.made = h.made /\ g.state = h.state /\ g.result = h.result
      /\ g.reactions = h.reactions /\ g.chain = h.chain
      /\ g.unresolved = h.unresolved /\ g.on = h.on /\ g.adopts = h.adopts
  BY DropType
<1> HIDE DEF g
<1>2. Head(h.jobs) = h.jobs[1] /\ h.jobs[1] \in Jobs /\ 1 \in 1 .. Len(h.jobs)
  BY DEF Runtimes
<1>3. h.jobs[1].kind # "thenable" => Drops(h, g)
  BY <1>1, <1>2 DEF Drops, Tasks
<1>4. ASSUME NEW p \in Promises, h.jobs[1].kind = "thenable", h.jobs[1].to[1] = p,
             h.chain[p] < MaxChain
      PROVE  Takes(h, NewPair(g, p), p, PairOf(g, p))
  <2> DEFINE k == NewPair(g, p)
  <2>1. /\ k \in Runtimes
        /\ PairOf(g, p) \in Pairs
        /\ k.chain = [g.chain EXCEPT ![p] = g.chain[p] + 1]
        /\ k.unresolved = g.unresolved \cup {PairOf(g, p)}
        /\ k.made = g.made /\ k.state = g.state /\ k.result = g.result
        /\ k.reactions = g.reactions /\ k.jobs = g.jobs /\ k.on = g.on
        /\ k.adopts = g.adopts
    <3>1. g \in Runtimes /\ g.chain[p] < MaxChain
      BY <1>1, <1>4
    <3> QED
      BY <3>1, NewPairType
  <2> HIDE DEF k
  <2>2. k.chain[p] = h.chain[p] + 1 /\ \A q \in Promises : q # p => k.chain[q] = h.chain[q]
    BY <1>1, <2>1 DEF Runtimes
  <2>3. PairOf(g, p) = <<p, h.chain[p] + 1>>
    BY <1>1 DEF PairOf
  <2>4. Shifts(h, k)
    BY <1>1, <2>1 DEF Shifts
  <2>5. Takes(h, k, p, PairOf(g, p))
    BY <1>1, <1>2, <1>4, <2>1, <2>2, <2>3, <2>4 DEF Takes, Adoptions
  <2> QED
    BY <2>5 DEF k
<1> QED
  BY <1>2, <1>3, <1>4 DEF g

-----------------------------------------------------------------------------
(* The invariant of a runtime *)

Ended(h, p)    == h.state[p] \in {"fulfilled", "rejected"}
Known(h, pair) == pair[1] <= h.made /\ pair[2] <= h.chain[pair[1]]

\* There is room for the reactions and pairs that the queue asks for.
Room(h) ==
  /\ Len(h.on) + Cardinality(Adoptions(h)) <= MaxThens
  /\ \A i \in Adoptions(h) : h.chain[h.jobs[i].to[1]] < MaxChain

Making(h) ==
  /\ \A p \in Promises : p > h.made <=> h.state[p] = "none"
  /\ \A p \in Promises : p > h.made => h.chain[p] = 0 /\ h.adopts[p] = {}
  /\ \A pair \in h.unresolved : Known(h, pair)

\* A pending promise has one chance to be settled, a pair or a job that will
\* make one, and the others have none.
Chances(h) ==
  /\ \A pair \in h.unresolved :
       /\ h.state[pair[1]] = "pending"
       /\ \A other \in h.unresolved : other[1] = pair[1] => other = pair
  /\ \A i \in Adoptions(h) :
       /\ h.state[h.jobs[i].to[1]] = "pending"
       /\ \A pair \in h.unresolved : pair[1] # h.jobs[i].to[1]
       /\ \A j \in Adoptions(h) : h.jobs[j].to[1] = h.jobs[i].to[1] => j = i
  /\ \A p \in Promises : h.state[p] = "pending" =>
       \/ \E pair \in h.unresolved : pair[1] = p
       \/ \E i \in Adoptions(h) : h.jobs[i].to[1] = p

\* Two reactions, registered or queued, share neither a ticket nor a pair.
Apart(a, b) == a.ticket # b.ticket /\ a.to # b.to

Registered(h, r) == r.ticket \in 1 .. Len(h.on) /\ r.to \in h.unresolved

\* Who waits for p, in the order of registration.
WaitingFor(h, p) ==
  \A i \in 1 .. Len(h.reactions[p]) :
    /\ Registered(h, h.reactions[p][i])
    /\ h.on[h.reactions[p][i].ticket] = p
    /\ i <= h.reactions[p][i].ticket
    /\ \A j \in 1 .. Len(h.reactions[p]) :
         i < j => /\ h.reactions[p][i].ticket < h.reactions[p][j].ticket
                  /\ Apart(h.reactions[p][i], h.reactions[p][j])

Waiting(h) ==
  /\ \A p \in Promises : WaitingFor(h, p)
  /\ \A p \in Promises : h.reactions[p] # <<>> => h.state[p] = "pending"
  /\ \A p, q \in Promises : p # q =>
       \A i \in 1 .. Len(h.reactions[p]), j \in 1 .. Len(h.reactions[q]) :
         Apart(h.reactions[p][i], h.reactions[q][j])

\* A task tells its reaction the outcome of the promise.
QueuedTask(h, job) ==
  /\ job.kind \in Kinds
  /\ Registered(h, job)
  /\ Ended(h, h.on[job.ticket])
  /\ job.arg = h.result[h.on[job.ticket]]
  /\ job.rejected <=> h.state[h.on[job.ticket]] = "rejected"

InOrder(h, a, b) == h.on[a.ticket] = h.on[b.ticket] => a.ticket < b.ticket

Queued(h) ==
  /\ \A i \in Tasks(h) : QueuedTask(h, h.jobs[i])
  /\ \A i \in Tasks(h), p \in Promises : \A j \in 1 .. Len(h.reactions[p]) :
       Apart(h.jobs[i], h.reactions[p][j])
  /\ \A i, j \in Tasks(h) : i < j =>
       Apart(h.jobs[i], h.jobs[j]) /\ InOrder(h, h.jobs[i], h.jobs[j])

\* A job for a thenable.
Adopting(h) ==
  \A i \in Adoptions(h) :
    /\ h.jobs[i].ticket = 0
    /\ Known(h, h.jobs[i].to)
    /\ h.jobs[i].arg \in h.adopts[h.jobs[i].to[1]]

CoreInv(h) ==
  /\ h \in Runtimes
  /\ Room(h) /\ Making(h) /\ Chances(h) /\ Waiting(h) /\ Queued(h) /\ Adopting(h)

\* p follows q: the job that will subscribe it to q is queued, the reaction is
\* registered or queued, or q's outcome has arrived.
Passes(h, r, p, q) == r.kind = "settle" /\ r.to[1] = p /\ h.on[r.ticket] = q

SameOutcome(h, p, q) ==
  Ended(h, p) /\ h.state[p] = h.state[q] /\ h.result[p] = h.result[q]

Follower(h, p, q) ==
  \/ \E i \in Adoptions(h) : h.jobs[i].to[1] = p /\ h.jobs[i].arg = q
  \/ \E i \in 1 .. Len(h.reactions[q]) : Passes(h, h.reactions[q][i], p, q)
  \/ \E i \in Tasks(h) : Passes(h, h.jobs[i], p, q)
  \/ SameOutcome(h, p, q)

AdoptsInv(h, p) == \A q \in h.adopts[p] \cap Promises : Follower(h, p, q)

\* The pairs that the reactions, registered or queued, will settle.
Claimed(h) ==
  {pair \in Pairs :
     \/ \E p \in Promises : \E i \in 1 .. Len(h.reactions[p]) : h.reactions[p][i].to = pair
     \/ \E i \in Tasks(h) : h.jobs[i].to = pair}

EngineInv(h) == CoreInv(h) /\ \A p \in Promises : AdoptsInv(h, p)

-----------------------------------------------------------------------------
(* Each change keeps the invariant of the runtime. *)

\* A task in the queue stays right while what it was made from stays the same.
LEMMA QueuedKeeps ==
  ASSUME NEW h, NEW g, NEW job, QueuedTask(h, job), Registered(g, job),
         g.on[job.ticket] = h.on[job.ticket],
         g.state[h.on[job.ticket]] = h.state[h.on[job.ticket]],
         g.result[h.on[job.ticket]] = h.result[h.on[job.ticket]]
  PROVE  QueuedTask(g, job)
BY DEF QueuedTask, Ended

LEMMA PairType ==
  ASSUME NEW pair \in Pairs
  PROVE  /\ pair = <<pair[1], pair[2]>>
         /\ pair[1] \in Promises /\ pair[1] \in Nat /\ pair[2] \in Nat
BY BoundsAssumption DEF Pairs, Promises

LEMMA Typed ==
  ASSUME NEW h \in Runtimes
  PROVE  /\ h.made \in Nat /\ h.made <= MaxPromises
         /\ h.state \in [Promises -> States] /\ h.result \in [Promises -> Values]
         /\ \A p \in Promises : h.chain[p] \in 0 .. MaxChain /\ h.chain[p] \in Nat
         /\ \A p \in Promises : h.adopts[p] \subseteq {Thenable} \cup Promises
         /\ h.unresolved \subseteq Pairs
         /\ Len(h.jobs) \in Nat /\ \A i \in 1 .. Len(h.jobs) : h.jobs[i] \in Jobs
         /\ \A p \in Promises : /\ Len(h.reactions[p]) \in Nat
                                /\ h.reactions[p] # <<>> <=> Len(h.reactions[p]) > 0
         /\ \A p \in Promises : \A i \in 1 .. Len(h.reactions[p]) : h.reactions[p][i] \in Reactions
         /\ Len(h.on) \in Nat /\ \A n \in 1 .. Len(h.on) : h.on[n] \in Promises
<1>1. /\ h.made \in 0 .. MaxPromises
      /\ h.state \in [Promises -> States] /\ h.result \in [Promises -> Values]
      /\ h.reactions \in [Promises -> Seq(Reactions)]
      /\ h.chain \in [Promises -> 0 .. MaxChain]
      /\ h.unresolved \in SUBSET Pairs /\ h.jobs \in Seq(Jobs) /\ h.on \in Seq(Promises)
      /\ h.adopts \in [Promises -> SUBSET ({Thenable} \cup Promises)]
  BY DEF Runtimes
<1>2. \A p \in Promises : h.reactions[p] \in Seq(Reactions)
  BY <1>1
<1>3. ASSUME NEW p \in Promises
      PROVE  /\ Len(h.reactions[p]) \in Nat
             /\ h.reactions[p] # <<>> <=> Len(h.reactions[p]) > 0
             /\ \A i \in 1 .. Len(h.reactions[p]) : h.reactions[p][i] \in Reactions
  <2> DEFINE r == h.reactions[p]
  <2>1. r \in Seq(Reactions)
    BY <1>2
  <2> HIDE DEF r
  <2>2. /\ Len(r) \in Nat /\ r # <<>> <=> Len(r) > 0
        /\ \A i \in 1 .. Len(r) : r[i] \in Reactions
    BY <2>1
  <2> QED
    BY <2>2 DEF r
<1>4. /\ Len(h.jobs) \in Nat /\ \A i \in 1 .. Len(h.jobs) : h.jobs[i] \in Jobs
      /\ Len(h.on) \in Nat /\ \A n \in 1 .. Len(h.on) : h.on[n] \in Promises
  BY <1>1
<1> QED
  BY <1>1, <1>3, <1>4, BoundsAssumption

LEMMA AdoptionsFinite ==
  ASSUME NEW h \in Runtimes
  PROVE  /\ IsFiniteSet(Adoptions(h)) /\ Cardinality(Adoptions(h)) \in Nat
         /\ Tasks(h) \subseteq 1 .. Len(h.jobs) /\ Adoptions(h) \subseteq 1 .. Len(h.jobs)
<1>1. Len(h.jobs) \in Nat
  BY Typed
<1>2. IsFiniteSet(1 .. Len(h.jobs))
  BY <1>1, FS_Interval
<1>3. Adoptions(h) \subseteq 1 .. Len(h.jobs) /\ Tasks(h) \subseteq 1 .. Len(h.jobs)
  BY DEF Adoptions, Tasks
<1> QED
  BY <1>2, <1>3, FS_Subset, FS_CardinalityType

LEMMA MakesCore ==
  ASSUME NEW h, NEW g, CoreInv(h), Makes(h, g)
  PROVE  CoreInv(g)
<1> DEFINE new == <<h.made + 1, 0>>
<1>1. /\ h \in Runtimes /\ g \in Runtimes
      /\ Room(h) /\ Making(h) /\ Chances(h) /\ Waiting(h) /\ Queued(h) /\ Adopting(h)
  BY DEF CoreInv, Makes
<1>2. /\ h.made + 1 \in Promises /\ g.made = h.made + 1
      /\ g.state[h.made + 1] = "pending"
      /\ \A q \in Promises : q # h.made + 1 => g.state[q] = h.state[q]
      /\ g.unresolved = h.unresolved \cup {new}
      /\ g.result = h.result /\ g.reactions = h.reactions /\ g.chain = h.chain
      /\ g.jobs = h.jobs /\ g.on = h.on /\ g.adopts = h.adopts
  BY DEF Makes
<1>3. Tasks(g) = Tasks(h) /\ Adoptions(g) = Adoptions(h)
  BY <1>2 DEF Tasks, Adoptions
<1>4. Room(g)
  BY <1>1, <1>2, <1>3 DEF Room
<1>5. /\ h.made \in Nat /\ \A p \in Promises : p \in Nat
      /\ h.state[h.made + 1] = "none" /\ h.chain[h.made + 1] = 0 /\ h.adopts[h.made + 1] = {}
  BY <1>1, <1>2, Typed DEF Making, Promises
<1>6. Making(g)
  <2>1. ASSUME NEW p \in Promises PROVE p > g.made <=> g.state[p] = "none"
    BY <1>1, <1>2, <1>5 DEF Making
  <2>2. ASSUME NEW p \in Promises, p > g.made PROVE g.chain[p] = 0 /\ g.adopts[p] = {}
    BY <1>1, <1>2, <1>5, <2>2 DEF Making
  <2>3. ASSUME NEW pair \in g.unresolved PROVE Known(g, pair)
    <3>1. CASE pair = new
      BY <1>2, <1>5, <3>1 DEF Known
    <3>2. CASE pair \in h.unresolved
      <4>1. pair \in Pairs /\ Known(h, pair)
        BY <1>1, <3>2, Typed DEF Making
      <4> QED
        BY <1>2, <1>5, <4>1, PairType DEF Known
    <3> QED
      BY <1>2, <2>3, <3>1, <3>2
  <2> QED
    BY <2>1, <2>2, <2>3 DEF Making
<1>7. \A pair \in h.unresolved : pair \in Pairs /\ pair[1] \in Promises /\ pair[1] # h.made + 1
  <2>1. ASSUME NEW pair \in h.unresolved PROVE pair \in Pairs /\ h.state[pair[1]] = "pending"
    BY <1>1, Typed DEF Chances
  <2> QED
    BY <1>5, <2>1, PairType
<1>8. \A i \in Adoptions(h) : h.jobs[i].to[1] \in Promises /\ h.jobs[i].to[1] # h.made + 1
  <2>1. ASSUME NEW i \in Adoptions(h) PROVE h.jobs[i].to \in Pairs
    BY <1>1, Typed DEF Adoptions, Jobs
  <2> QED
    BY <1>1, <1>5, <2>1, PairType DEF Chances
<1>9. Chances(g)
  <2>1. ASSUME NEW pair \in g.unresolved
        PROVE  /\ g.state[pair[1]] = "pending"
               /\ \A other \in g.unresolved : other[1] = pair[1] => other = pair
    BY <1>1, <1>2, <1>7 DEF Chances
  <2>2. ASSUME NEW i \in Adoptions(g)
        PROVE  /\ g.state[g.jobs[i].to[1]] = "pending"
               /\ \A pair \in g.unresolved : pair[1] # g.jobs[i].to[1]
               /\ \A j \in Adoptions(g) : g.jobs[j].to[1] = g.jobs[i].to[1] => j = i
    BY <1>1, <1>2, <1>3, <1>8 DEF Chances
  <2>3. ASSUME NEW p \in Promises, g.state[p] = "pending"
        PROVE  \/ \E pair \in g.unresolved : pair[1] = p
               \/ \E i \in Adoptions(g) : g.jobs[i].to[1] = p
    <3>1. CASE p = h.made + 1
      <4>1. new \in g.unresolved /\ new[1] = p
        BY <1>2, <3>1
      <4> QED
        BY <4>1
    <3>2. CASE p # h.made + 1
      <4>1. h.state[p] = "pending"
        BY <1>2, <2>3, <3>2
      <4> QED
        BY <1>1, <1>2, <1>3, <4>1 DEF Chances
    <3> QED
      BY <3>1, <3>2
  <2> QED
    BY <2>1, <2>2, <2>3 DEF Chances
<1>10. \A r : Registered(h, r) => Registered(g, r)
  BY <1>2 DEF Registered
<1>11. Waiting(g)
  <2>1. \A p \in Promises : WaitingFor(g, p)
    BY <1>1, <1>2, <1>10 DEF Waiting, WaitingFor
  <2>2. \A p \in Promises : g.reactions[p] # <<>> => g.state[p] = "pending"
    BY <1>1, <1>2 DEF Waiting
  <2> QED
    BY <1>1, <1>2, <2>1, <2>2 DEF Waiting
<1>12. Queued(g)
  <2>1. ASSUME NEW i \in Tasks(g) PROVE QueuedTask(g, g.jobs[i])
    <3>1. QueuedTask(h, h.jobs[i])
      BY <1>1, <1>3 DEF Queued
    <3>2. h.on[h.jobs[i].ticket] \in Promises
      BY ZenonT(60), <1>1, <3>1, Typed DEF QueuedTask, Registered
    <3>3. g.state[h.on[h.jobs[i].ticket]] = h.state[h.on[h.jobs[i].ticket]]
      BY ZenonT(60), <1>2, <1>5, <3>1, <3>2 DEF QueuedTask, Ended
    <3> QED
      <4>1. Registered(g, h.jobs[i])
        BY <1>10, <3>1 DEF QueuedTask
      <4> QED
        BY ZenonT(60), <1>2, <3>1, <3>3, <4>1, QueuedKeeps
  <2> QED
    BY <1>1, <1>2, <1>3, <2>1 DEF Queued, InOrder
<1>13. Adopting(g)
  <2>1. ASSUME NEW i \in Adoptions(h) PROVE Known(g, h.jobs[i].to)
    <3>1. h.jobs[i].to \in Pairs /\ Known(h, h.jobs[i].to)
      BY <1>1, Typed DEF Adoptions, Jobs, Adopting
    <3> QED
      BY <1>2, <1>5, <3>1, PairType DEF Known
  <2> QED
    BY <1>1, <1>2, <1>3, <2>1 DEF Adopting
<1> QED
  BY <1>1, <1>4, <1>6, <1>9, <1>11, <1>12, <1>13 DEF CoreInv

LEMMA FulfilsTasks ==
  ASSUME NEW h, NEW g, NEW pair, NEW p, NEW outcome, NEW v, Waiting(h),
         Fulfils(h, g, pair, p, outcome, v)
  PROVE  /\ Adoptions(g) = Adoptions(h)
         /\ Tasks(h) \subseteq Tasks(g)
         /\ \A i \in 1 .. Len(h.jobs) : g.jobs[i] = h.jobs[i]
         /\ \A k \in Tasks(g) :
              \/ k \in Tasks(h) /\ k <= Len(h.jobs)
              \/ /\ k > Len(h.jobs) /\ k - Len(h.jobs) \in 1 .. Len(h.reactions[p])
                 /\ TaskOf(g.jobs[k], h.reactions[p][k - Len(h.jobs)], outcome, v)
         /\ \A i \in 1 .. Len(h.reactions[p]) :
              /\ Len(h.jobs) + i \in Tasks(g)
              /\ TaskOf(g.jobs[Len(h.jobs) + i], h.reactions[p][i], outcome, v)
<1> DEFINE n == Len(h.jobs)
           m == Len(h.reactions[p])
<1>1. /\ h \in Runtimes /\ p \in Promises
      /\ Len(g.jobs) = n + m
      /\ \A i \in 1 .. n : g.jobs[i] = h.jobs[i]
      /\ \A i \in 1 .. m : TaskOf(g.jobs[n + i], h.reactions[p][i], outcome, v)
  BY DEF Fulfils, Closes
<1>2. /\ n \in Nat /\ m \in Nat
      /\ \A i \in 1 .. m : h.reactions[p][i].kind # "thenable"
  <2>1. \A i \in 1 .. m : h.reactions[p][i] \in Reactions
    BY <1>1, Typed
  <2> QED
    BY <1>1, <2>1, Typed DEF Reactions, Kinds, UserKinds
<1> HIDE DEF n, m
<1>3. ASSUME NEW i \in 1 .. m
      PROVE  /\ n + i \in 1 .. Len(g.jobs)
             /\ g.jobs[n + i].kind # "thenable"
             /\ TaskOf(g.jobs[n + i], h.reactions[p][i], outcome, v)
  <2>1. n + i \in 1 .. Len(g.jobs)
    BY <1>1, <1>2
  <2>2. TaskOf(g.jobs[n + i], h.reactions[p][i], outcome, v)
    BY <1>1
  <2>3. g.jobs[n + i].kind = h.reactions[p][i].kind
    BY <2>2 DEF TaskOf
  <2> QED
    BY <1>2, <2>1, <2>2, <2>3
<1>4. ASSUME NEW k \in 1 .. Len(g.jobs), k > n
      PROVE  k - n \in 1 .. m /\ k = n + (k - n)
  BY <1>1, <1>2, <1>4
<1>5. ASSUME NEW k \in 1 .. Len(g.jobs), k > n
      PROVE  g.jobs[k].kind # "thenable" /\ TaskOf(g.jobs[k], h.reactions[p][k - n], outcome, v)
  <2> DEFINE i == k - n
  <2>1. i \in 1 .. m /\ k = n + i
    BY <1>4, <1>5
  <2> HIDE DEF i
  <2>2. g.jobs[k].kind # "thenable" /\ TaskOf(g.jobs[k], h.reactions[p][i], outcome, v)
    BY <1>3, <2>1
  <2> QED
    BY <2>2 DEF i
<1>6. 1 .. n \subseteq 1 .. Len(g.jobs) /\ \A k \in 1 .. Len(g.jobs) : k > n \/ k \in 1 .. n
  BY <1>1, <1>2
<1>7. Adoptions(g) = Adoptions(h)
  <2>1. ASSUME NEW i \in Adoptions(g) PROVE i \in Adoptions(h)
    BY <1>1, <1>5, <1>6, <2>1 DEF Adoptions, n
  <2>2. ASSUME NEW i \in Adoptions(h) PROVE i \in Adoptions(g)
    BY <1>1, <1>6, <2>2 DEF Adoptions, n
  <2> QED
    BY <2>1, <2>2
<1>8. Tasks(h) \subseteq Tasks(g)
  BY <1>1, <1>6 DEF Tasks, n
<1>9. ASSUME NEW k \in Tasks(g)
      PROVE  \/ k \in Tasks(h) /\ k <= n
             \/ /\ k > n /\ k - n \in 1 .. m
                /\ TaskOf(g.jobs[k], h.reactions[p][k - n], outcome, v)
  <2>1. k \in 1 .. Len(g.jobs) /\ g.jobs[k].kind # "thenable"
    BY DEF Tasks
  <2>2. CASE k > n
    BY <1>4, <1>5, <2>1, <2>2
  <2>3. CASE k \in 1 .. n
    BY <1>1, <1>2, <2>1, <2>3 DEF Tasks, n
  <2> QED
    BY <1>6, <2>1, <2>2, <2>3
<1> QED
  BY <1>1, <1>3, <1>7, <1>8, <1>9 DEF Tasks, n, m

LEMMA FulfilsCore ==
  ASSUME NEW h, NEW g, NEW pair, NEW p, NEW outcome, NEW v,
         CoreInv(h), Fulfils(h, g, pair, p, outcome, v), pair \notin Claimed(h)
  PROVE  CoreInv(g)
<1> DEFINE n == Len(h.jobs)
           r == h.reactions[p]
<1>1. /\ h \in Runtimes /\ g \in Runtimes
      /\ Room(h) /\ Making(h) /\ Chances(h) /\ Waiting(h) /\ Queued(h) /\ Adopting(h)
  BY DEF CoreInv, Fulfils
<1>2. /\ p \in Promises /\ pair[1] = p /\ pair \in h.unresolved /\ pair \in Pairs
      /\ h.state[p] = "pending" /\ v \in Values
      /\ g.unresolved = h.unresolved \ {pair}
      /\ outcome \in {"fulfilled", "rejected"}
      /\ g.state[p] = outcome /\ g.result[p] = v /\ g.reactions[p] = <<>>
      /\ \A q \in Promises : q # p => /\ g.state[q] = h.state[q] /\ g.result[q] = h.result[q]
                                      /\ g.reactions[q] = h.reactions[q]
      /\ g.made = h.made /\ g.chain = h.chain /\ g.on = h.on /\ g.adopts = h.adopts
  BY <1>1, Typed DEF Fulfils, Closes
<1>3. /\ Adoptions(g) = Adoptions(h)
      /\ \A i \in 1 .. n : g.jobs[i] = h.jobs[i]
      /\ \A k \in Tasks(g) :
           \/ k \in Tasks(h) /\ k <= n
           \/ /\ k > n /\ k - n \in 1 .. Len(r)
              /\ TaskOf(g.jobs[k], r[k - n], outcome, v)
  BY <1>1, FulfilsTasks
<1>4. \A i \in Adoptions(h) : g.jobs[i] = h.jobs[i]
  BY <1>3 DEF Adoptions
<1>5. \A i \in Tasks(h) : g.jobs[i] = h.jobs[i] /\ i \in 1 .. n
  BY <1>3 DEF Tasks
<1>6. Room(g) /\ Adopting(g)
  <2>1. Room(g)
    BY <1>1, <1>2, <1>3, <1>4 DEF Room
  <2>2. ASSUME NEW i \in Adoptions(g)
        PROVE  /\ g.jobs[i].ticket = 0
               /\ Known(g, g.jobs[i].to)
               /\ g.jobs[i].arg \in g.adopts[g.jobs[i].to[1]]
    <3>1. /\ h.jobs[i].ticket = 0
          /\ Known(h, h.jobs[i].to)
          /\ h.jobs[i].arg \in h.adopts[h.jobs[i].to[1]]
      BY <1>1, <1>3 DEF Adopting
    <3>2. g.jobs[i] = h.jobs[i]
      BY <1>3, <1>4
    <3> QED
      BY <1>2, <3>1, <3>2 DEF Known
  <2> QED
    BY <2>1, <2>2 DEF Adopting
<1>7. Making(g)
  BY <1>1, <1>2 DEF Making, Known
<1>8. Chances(g)
  <2>1. ASSUME NEW x \in g.unresolved
        PROVE  /\ g.state[x[1]] = "pending"
               /\ \A other \in g.unresolved : other[1] = x[1] => other = x
    <3>1. x \in h.unresolved /\ x # pair /\ x[1] \in Promises
      BY <1>1, <1>2, Typed, PairType
    <3>2. x[1] # p
      BY <1>1, <1>2, <3>1 DEF Chances
    <3> QED
      BY <1>1, <1>2, <3>1, <3>2 DEF Chances
  <2>2. ASSUME NEW i \in Adoptions(h)
        PROVE  h.jobs[i].to[1] # p /\ h.jobs[i].to[1] \in Promises
    <3>1. h.jobs[i].to \in Pairs
      BY <1>1, Typed DEF Adoptions, Jobs
    <3> QED
      BY <1>1, <1>2, <3>1, PairType DEF Chances
  <2>3. ASSUME NEW i \in Adoptions(g)
        PROVE  /\ g.state[g.jobs[i].to[1]] = "pending"
               /\ \A x \in g.unresolved : x[1] # g.jobs[i].to[1]
               /\ \A j \in Adoptions(g) : g.jobs[j].to[1] = g.jobs[i].to[1] => j = i
    BY SMTT(60), <1>1, <1>2, <1>3, <1>4, <2>2 DEF Chances
  <2>4. ASSUME NEW q \in Promises, g.state[q] = "pending"
        PROVE  \/ \E x \in g.unresolved : x[1] = q
               \/ \E i \in Adoptions(g) : g.jobs[i].to[1] = q
    <3>1. q # p /\ h.state[q] = "pending"
      BY <1>2, <2>4
    <3>2. CASE \E x \in h.unresolved : x[1] = q
      BY <1>2, <3>1, <3>2
    <3>3. CASE \E i \in Adoptions(h) : h.jobs[i].to[1] = q
      BY <1>3, <1>4, <3>3
    <3> QED
      BY <1>1, <3>1, <3>2, <3>3 DEF Chances
  <2> QED
    BY <2>1, <2>3, <2>4 DEF Chances
<1>9. ASSUME NEW x, Registered(h, x), x.to # pair
      PROVE  Registered(g, x)
  BY <1>2, <1>9 DEF Registered
<1>10. /\ \A q \in Promises : \A i \in 1 .. Len(h.reactions[q]) : h.reactions[q][i].to # pair
       /\ \A i \in Tasks(h) : h.jobs[i].to # pair
  BY <1>2 DEF Claimed
<1>11. Waiting(g)
  <2>1. Len(g.reactions[p]) = 0
    BY <1>2
  <2>2. ASSUME NEW q \in Promises PROVE WaitingFor(g, q)
    <3>1. CASE q = p
      BY <2>1, <3>1 DEF WaitingFor
    <3>2. CASE q # p
      <4>1. g.reactions[q] = h.reactions[q] /\ WaitingFor(h, q) /\ g.on = h.on
        BY <1>1, <1>2, <3>2 DEF Waiting
      <4>2. \A i \in 1 .. Len(h.reactions[q]) : Registered(g, h.reactions[q][i])
        BY <1>9, <1>10, <4>1 DEF WaitingFor
      <4> QED
        BY <4>1, <4>2 DEF WaitingFor
    <3> QED
      BY <3>1, <3>2
  <2>3. \A q \in Promises : g.reactions[q] # <<>> => g.state[q] = "pending"
    BY <1>1, <1>2 DEF Waiting
  <2>4. ASSUME NEW q \in Promises, NEW x \in Promises, q # x,
               NEW i \in 1 .. Len(g.reactions[q]), NEW j \in 1 .. Len(g.reactions[x])
        PROVE  Apart(g.reactions[q][i], g.reactions[x][j])
    <3>1. q # p /\ x # p
      BY <2>1
    <3> QED
      BY <1>1, <1>2, <2>4, <3>1 DEF Waiting
  <2> QED
    BY <2>2, <2>3, <2>4 DEF Waiting
<1>12. ASSUME NEW k \in Tasks(h)
       PROVE  /\ QueuedTask(g, h.jobs[k])
              /\ h.on[h.jobs[k].ticket] # p
  <2>1. QueuedTask(h, h.jobs[k]) /\ h.on[h.jobs[k].ticket] \in Promises
    BY ZenonT(60), <1>1, Typed DEF Queued, QueuedTask, Registered
  <2>2. h.on[h.jobs[k].ticket] # p
    BY ZenonT(60), <1>2, <2>1 DEF QueuedTask, Ended
  <2> QED
    <3>1. Registered(g, h.jobs[k]) /\ g.on = h.on
      BY ZenonT(60), <1>2, <1>9, <1>10, <2>1 DEF QueuedTask
    <3>2. /\ g.state[h.on[h.jobs[k].ticket]] = h.state[h.on[h.jobs[k].ticket]]
          /\ g.result[h.on[h.jobs[k].ticket]] = h.result[h.on[h.jobs[k].ticket]]
      BY <1>2, <2>1, <2>2
    <3> QED
      BY ZenonT(60), <2>1, <2>2, <3>1, <3>2, QueuedKeeps
<1>13. ASSUME NEW i \in 1 .. Len(r), NEW job, TaskOf(job, r[i], outcome, v)
       PROVE  QueuedTask(g, job) /\ g.on[job.ticket] = p
  <2>1. Registered(h, r[i]) /\ h.on[r[i].ticket] = p /\ r[i].to # pair /\ r[i].kind \in Kinds
    BY <1>1, <1>2, <1>10, Typed DEF Waiting, WaitingFor, Reactions
  <2> QED
    BY <1>2, <1>13, <2>1 DEF QueuedTask, TaskOf, Registered, Ended
<1>14. Queued(g)
  <2>1. ASSUME NEW k \in Tasks(g) PROVE QueuedTask(g, g.jobs[k])
    BY <1>3, <1>5, <1>12, <1>13
  <2>2. ASSUME NEW k \in Tasks(g), NEW q \in Promises, NEW j \in 1 .. Len(g.reactions[q])
        PROVE  Apart(g.jobs[k], g.reactions[q][j])
    <3>1. q # p /\ g.reactions[q] = h.reactions[q]
      BY <1>2
    <3>2. CASE k \in Tasks(h)
      BY <1>1, <1>5, <3>1, <3>2 DEF Queued
    <3>3. ASSUME NEW i \in 1 .. Len(r), TaskOf(g.jobs[k], r[i], outcome, v)
          PROVE  Apart(g.jobs[k], g.reactions[q][j])
      BY <1>1, <1>2, <3>1, <3>3 DEF Waiting, TaskOf, Apart
    <3> QED
      BY <1>3, <3>2, <3>3
  <2>3. ASSUME NEW k \in Tasks(g), NEW l \in Tasks(g), k < l
        PROVE  Apart(g.jobs[k], g.jobs[l]) /\ InOrder(g, g.jobs[k], g.jobs[l])
    <3>1. k \in Nat /\ l \in Nat /\ n \in Nat
      BY <1>1, Typed DEF Tasks
    <3>2. CASE k \in Tasks(h) /\ l \in Tasks(h)
      BY <1>1, <1>2, <1>5, <2>3, <3>2 DEF Queued, InOrder
    <3>3. ASSUME k \in Tasks(h), NEW j \in 1 .. Len(r), TaskOf(g.jobs[l], r[j], outcome, v)
          PROVE  Apart(g.jobs[k], g.jobs[l]) /\ InOrder(g, g.jobs[k], g.jobs[l])
      <4>1. Apart(h.jobs[k], r[j]) /\ g.jobs[k] = h.jobs[k] /\ h.on[h.jobs[k].ticket] # p
        BY <1>1, <1>2, <1>5, <1>12, <3>3 DEF Queued
      <4>2. g.on[g.jobs[l].ticket] = p
        BY <1>13, <3>3
      <4> QED
        BY <1>2, <3>3, <4>1, <4>2 DEF Apart, InOrder, TaskOf
    <3>4. ASSUME NEW i \in 1 .. Len(r), TaskOf(g.jobs[k], r[i], outcome, v),
                 NEW j \in 1 .. Len(r), TaskOf(g.jobs[l], r[j], outcome, v), i < j
          PROVE  Apart(g.jobs[k], g.jobs[l]) /\ InOrder(g, g.jobs[k], g.jobs[l])
      BY <1>1, <1>2, <3>4 DEF Waiting, WaitingFor, Apart, InOrder, TaskOf
    <3>5. CASE k <= n /\ l > n
      BY <1>3, <3>1, <3>3, <3>5
    <3>6. CASE k > n /\ l > n
      <4>1. k - n < l - n
        BY <2>3, <3>1
      <4>2. /\ k - n \in 1 .. Len(r) /\ TaskOf(g.jobs[k], r[k - n], outcome, v)
            /\ l - n \in 1 .. Len(r) /\ TaskOf(g.jobs[l], r[l - n], outcome, v)
        BY <1>3, <3>1, <3>6
      <4> QED
        BY <3>4, <4>1, <4>2
    <3>7. CASE l <= n
      BY <1>3, <2>3, <3>1, <3>2, <3>7
    <3> QED
      BY <3>1, <3>5, <3>6, <3>7
  <2> QED
    BY <2>1, <2>2, <2>3 DEF Queued
<1> QED
  BY <1>1, <1>6, <1>7, <1>8, <1>11, <1>14 DEF CoreInv

\* A promise whose last pair nobody but JavaScript or a frame can use follows
\* no other.
LEMMA FollowsNone ==
  ASSUME NEW h, CoreInv(h), NEW pair \in h.unresolved, pair \notin Claimed(h),
         AdoptsInv(h, pair[1])
  PROVE  h.adopts[pair[1]] \cap Promises = {}
<1> DEFINE p == pair[1]
<1>1. /\ h \in Runtimes /\ Chances(h) /\ Waiting(h) /\ Queued(h)
      /\ pair \in Pairs /\ p \in Promises
  BY Typed, PairType DEF CoreInv
<1>2. SUFFICES ASSUME NEW q \in h.adopts[p] \cap Promises PROVE FALSE
  OBVIOUS
<1>3. Follower(h, p, q)
  BY <1>2 DEF AdoptsInv
<1>4. h.state[p] = "pending"
  BY <1>1 DEF Chances
<1>5. \A i \in Adoptions(h) : h.jobs[i].to[1] # p
  BY <1>1 DEF Chances
<1>6. ~SameOutcome(h, p, q)
  BY <1>4 DEF SameOutcome, Ended
<1>7. \A i \in 1 .. Len(h.reactions[q]) : h.reactions[q][i].to # pair
  BY <1>1, <1>2 DEF Claimed
<1>8. \A i \in Tasks(h) : h.jobs[i].to # pair
  BY <1>1 DEF Claimed
<1>9. \A x \in h.unresolved : x[1] = p => x = pair
  BY <1>1 DEF Chances
<1>10. ASSUME NEW i \in 1 .. Len(h.reactions[q]), Passes(h, h.reactions[q][i], p, q)
       PROVE  FALSE
  BY <1>1, <1>2, <1>7, <1>9, <1>10 DEF Waiting, WaitingFor, Registered, Passes
<1>11. ASSUME NEW i \in Tasks(h), Passes(h, h.jobs[i], p, q)
       PROVE  FALSE
  BY <1>1, <1>8, <1>9, <1>11 DEF Queued, QueuedTask, Registered, Passes
<1> QED
  BY <1>3, <1>5, <1>6, <1>10, <1>11 DEF Follower

LEMMA FollowsTasks ==
  ASSUME NEW h, NEW g, h \in Runtimes, Len(g.jobs) = Len(h.jobs) + 1,
         \A i \in 1 .. Len(h.jobs) : g.jobs[i] = h.jobs[i],
         g.jobs[Len(h.jobs) + 1].kind = "thenable"
  PROVE  /\ Tasks(g) = Tasks(h)
         /\ Adoptions(g) = Adoptions(h) \cup {Len(h.jobs) + 1}
         /\ Len(h.jobs) + 1 \notin Adoptions(h)
<1>1. Len(h.jobs) \in Nat
  BY Typed
<1>2. \A i \in 1 .. Len(g.jobs) : i \in 1 .. Len(h.jobs) \/ i = Len(h.jobs) + 1
  BY <1>1
<1>3. 1 .. Len(h.jobs) \subseteq 1 .. Len(g.jobs) /\ Len(h.jobs) + 1 \in 1 .. Len(g.jobs)
      /\ Len(h.jobs) + 1 \notin 1 .. Len(h.jobs)
  BY <1>1
<1> QED
  BY <1>2, <1>3 DEF Tasks, Adoptions

LEMMA FollowsCore ==
  ASSUME NEW h, NEW g, NEW pair, NEW p, NEW v,
         CoreInv(h), Follows(h, g, pair, p, v), pair \notin Claimed(h),
         h.chain[p] < MaxChain, RoomFor(h, 1)
  PROVE  CoreInv(g)
<1> DEFINE n == Len(h.jobs) + 1
<1>1. /\ h \in Runtimes /\ g \in Runtimes
      /\ Room(h) /\ Making(h) /\ Chances(h) /\ Waiting(h) /\ Queued(h) /\ Adopting(h)
  BY DEF CoreInv, Follows
<1>2. /\ p \in Promises /\ pair[1] = p /\ pair \in h.unresolved /\ pair \in Pairs
      /\ h.state[p] = "pending" /\ v \in {Thenable} \cup Promises
      /\ g.unresolved = h.unresolved \ {pair}
      /\ g.adopts[p] = h.adopts[p] \cup {v}
      /\ \A q \in Promises : q # p => g.adopts[q] = h.adopts[q]
      /\ g.made = h.made /\ g.state = h.state /\ g.result = h.result
      /\ g.reactions = h.reactions /\ g.chain = h.chain /\ g.on = h.on
  BY <1>1, Typed DEF Follows
<1>3. /\ Tasks(g) = Tasks(h)
      /\ Adoptions(g) = Adoptions(h) \cup {n}
      /\ n \notin Adoptions(h)
  <2>1. /\ Len(g.jobs) = Len(h.jobs) + 1
        /\ \A i \in 1 .. Len(h.jobs) : g.jobs[i] = h.jobs[i]
        /\ g.jobs[Len(h.jobs) + 1].kind = "thenable"
    BY DEF Follows
  <2> QED
    BY <1>1, <2>1, FollowsTasks
<1>4. /\ \A i \in Adoptions(h) : g.jobs[i] = h.jobs[i]
      /\ \A i \in Tasks(h) : g.jobs[i] = h.jobs[i]
      /\ g.jobs[n].ticket = 0 /\ g.jobs[n].to = pair /\ g.jobs[n].arg = v
  BY DEF Adoptions, Tasks, Follows
<1> HIDE DEF n
<1>5. Room(g)
  <2>1. Cardinality(Adoptions(g)) = Cardinality(Adoptions(h)) + 1
    BY <1>1, <1>3, AdoptionsFinite, FS_AddElement
  <2>2. Len(h.on) + Cardinality(Adoptions(h)) + 1 <= MaxThens
    BY DEF RoomFor, Adoptions
  <2>3. Len(h.on) \in Nat /\ Cardinality(Adoptions(h)) \in Nat
    BY <1>1, Typed, AdoptionsFinite
  <2>4. Len(g.on) + Cardinality(Adoptions(g)) <= MaxThens
    BY <1>2, <2>1, <2>2, <2>3
  <2>5. \A i \in Adoptions(g) : g.chain[g.jobs[i].to[1]] < MaxChain
    BY <1>1, <1>2, <1>3, <1>4 DEF Room
  <2> QED
    BY <2>4, <2>5 DEF Room
<1>6. Making(g)
  <2>1. p <= h.made
    BY <1>1, <1>2, Typed DEF Making, Promises
  <2> QED
    BY <1>1, <1>2, <2>1, Typed DEF Making, Known, Promises
<1>7. \A x \in h.unresolved : x # pair => x[1] # p
  BY <1>1, <1>2 DEF Chances
<1>8. \A i \in Adoptions(h) : h.jobs[i].to[1] # p
  BY <1>1, <1>2 DEF Chances
<1>9. Chances(g)
  <2>1. ASSUME NEW x \in g.unresolved
        PROVE  /\ g.state[x[1]] = "pending"
               /\ \A other \in g.unresolved : other[1] = x[1] => other = x
    BY <1>1, <1>2 DEF Chances
  <2>2. ASSUME NEW i \in Adoptions(g)
        PROVE  /\ g.state[g.jobs[i].to[1]] = "pending"
               /\ \A x \in g.unresolved : x[1] # g.jobs[i].to[1]
               /\ \A j \in Adoptions(g) : g.jobs[j].to[1] = g.jobs[i].to[1] => j = i
    <3>1. CASE i = n
      BY <1>2, <1>3, <1>4, <1>7, <1>8, <3>1
    <3>2. CASE i \in Adoptions(h)
      BY <1>1, <1>2, <1>3, <1>4, <1>8, <3>2 DEF Chances
    <3> QED
      BY <1>3, <3>1, <3>2
  <2>3. ASSUME NEW q \in Promises, g.state[q] = "pending"
        PROVE  \/ \E x \in g.unresolved : x[1] = q
               \/ \E i \in Adoptions(g) : g.jobs[i].to[1] = q
    <3>1. CASE q = p
      BY <1>2, <1>3, <1>4, <3>1
    <3>2. CASE q # p /\ \E x \in h.unresolved : x[1] = q
      BY <1>2, <3>2
    <3>3. CASE \E i \in Adoptions(h) : h.jobs[i].to[1] = q
      BY <1>3, <1>4, <3>3
    <3> QED
      BY <1>1, <1>2, <2>3, <3>1, <3>2, <3>3 DEF Chances
  <2> QED
    BY <2>1, <2>2, <2>3 DEF Chances
<1>10. ASSUME NEW x, Registered(h, x), x.to # pair
       PROVE  Registered(g, x)
  BY <1>2, <1>10 DEF Registered
<1>11. /\ \A q \in Promises : \A i \in 1 .. Len(h.reactions[q]) : h.reactions[q][i].to # pair
       /\ \A i \in Tasks(h) : h.jobs[i].to # pair
  BY <1>2 DEF Claimed
<1>12. Waiting(g)
  <2>1. \A q \in Promises : WaitingFor(g, q)
    BY SMTT(60), <1>1, <1>2, <1>10, <1>11 DEF Waiting, WaitingFor
  <2>2. \A q \in Promises : g.reactions[q] # <<>> => g.state[q] = "pending"
    BY <1>1, <1>2 DEF Waiting
  <2> QED
    BY <1>1, <1>2, <2>1, <2>2 DEF Waiting
<1>13. Queued(g)
  <2>1. ASSUME NEW i \in Tasks(h) PROVE QueuedTask(g, h.jobs[i])
    <3>1. QueuedTask(h, h.jobs[i]) /\ Registered(h, h.jobs[i])
      BY ZenonT(60), <1>1 DEF Queued, QueuedTask
    <3>2. Registered(g, h.jobs[i]) /\ g.on[h.jobs[i].ticket] = h.on[h.jobs[i].ticket]
      BY <1>2, <1>10, <1>11, <3>1
    <3>3. g.state = h.state /\ g.result = h.result
      BY <1>2
    <3> QED
      BY <3>1, <3>2, <3>3, QueuedKeeps
  <2> QED
    BY <1>1, <1>2, <1>3, <1>4, <2>1 DEF Queued, InOrder
<1>14. Adopting(g)
  <2>1. Known(h, pair)
    BY <1>1, <1>2 DEF Making
  <2>2. ASSUME NEW i \in Adoptions(h)
        PROVE  h.jobs[i].arg \in g.adopts[h.jobs[i].to[1]]
    <3>1. h.jobs[i].to[1] \in Promises
      BY <1>1, Typed, PairType DEF Adoptions, Jobs
    <3> QED
      BY <1>1, <1>2, <1>8, <3>1 DEF Adopting
  <2> QED
    BY SMTT(60), <1>1, <1>2, <1>3, <1>4, <2>1, <2>2 DEF Adopting, Known
<1> QED
  BY <1>1, <1>5, <1>6, <1>9, <1>12, <1>13, <1>14 DEF CoreInv

\* What is known of the reactions stays true when a ticket is given out.
LEMMA TicketKeeps ==
  ASSUME NEW h, NEW g, NEW p, h \in Runtimes, g \in Runtimes, NewTicket(h, g, p),
         g.unresolved = h.unresolved
  PROVE  /\ \A r : Registered(h, r) =>
              /\ Registered(g, r) /\ g.on[r.ticket] = h.on[r.ticket]
              /\ r.ticket < Len(h.on) + 1
         /\ \A a, b : Registered(h, a) /\ Registered(h, b) /\ InOrder(h, a, b) => InOrder(g, a, b)
         /\ Len(h.on) + 1 \in 1 .. Len(g.on) /\ g.on[Len(h.on) + 1] = p
<1>1. Len(h.on) \in Nat /\ Len(g.on) = Len(h.on) + 1
  BY Typed DEF NewTicket
<1>2. 1 .. Len(h.on) \subseteq 1 .. Len(g.on) /\ Len(h.on) + 1 \in 1 .. Len(g.on)
      /\ \A n \in 1 .. Len(h.on) : n < Len(h.on) + 1
  BY <1>1
<1>3. g.on[Len(h.on) + 1] = p /\ \A n \in 1 .. Len(h.on) : g.on[n] = h.on[n]
  BY DEF NewTicket
<1> QED
  BY <1>2, <1>3 DEF Registered, InOrder

LEMMA TicketRoom ==
  ASSUME NEW h, NEW g, NEW p, h \in Runtimes, g \in Runtimes, NewTicket(h, g, p), RoomFor(h, 1),
         Adoptions(g) = Adoptions(h)
  PROVE  Len(g.on) + Cardinality(Adoptions(g)) <= MaxThens
<1>1. Len(h.on) + Cardinality(Adoptions(h)) + 1 <= MaxThens
  BY DEF RoomFor, Adoptions
<1>2. Len(h.on) \in Nat /\ Cardinality(Adoptions(h)) \in Nat /\ Len(g.on) = Len(h.on) + 1
  BY Typed, AdoptionsFinite DEF NewTicket
<1> QED
  BY <1>1, <1>2

LEMMA RegistersCore ==
  ASSUME NEW h, NEW g, NEW p, NEW kind, NEW to,
         CoreInv(h), Registers(h, g, p, kind, to), to \in h.unresolved \ Claimed(h),
         RoomFor(h, 1)
  PROVE  CoreInv(g)
<1> DEFINE m    == Len(h.reactions[p])
           new  == [ticket |-> Len(h.on) + 1, kind |-> kind, to |-> to]
<1>1. /\ h \in Runtimes /\ g \in Runtimes
      /\ Room(h) /\ Making(h) /\ Chances(h) /\ Waiting(h) /\ Queued(h) /\ Adopting(h)
  BY DEF CoreInv, Registers
<1>2. /\ p \in Promises /\ kind \in Kinds /\ to \in Pairs
      /\ h.state[p] = "pending"
      /\ NewTicket(h, g, p)
      /\ g.made = h.made /\ g.state = h.state /\ g.result = h.result
      /\ g.jobs = h.jobs /\ g.chain = h.chain
      /\ g.unresolved = h.unresolved /\ g.adopts = h.adopts
  BY DEF Registers
<1>3. /\ Len(g.reactions[p]) = m + 1
      /\ \A i \in 1 .. m : g.reactions[p][i] = h.reactions[p][i]
      /\ g.reactions[p][m + 1] = new
      /\ \A q \in Promises : q # p => g.reactions[q] = h.reactions[q]
      /\ m \in Nat
  BY <1>1, <1>2, Typed DEF Registers
<1> HIDE DEF new, m
<1>4. /\ \A r : Registered(h, r) =>
           /\ Registered(g, r) /\ g.on[r.ticket] = h.on[r.ticket]
           /\ r.ticket < Len(h.on) + 1
      /\ \A a, b : Registered(h, a) /\ Registered(h, b) /\ InOrder(h, a, b) => InOrder(g, a, b)
  BY <1>1, <1>2, TicketKeeps
<1>5. Registered(g, new) /\ g.on[new.ticket] = p /\ new.ticket = Len(h.on) + 1 /\ new.to = to
  BY <1>1, <1>2, TicketKeeps DEF new, Registered
<1>6. ASSUME NEW r, Registered(h, r), r.to # to
      PROVE  r.ticket < new.ticket /\ Apart(r, new) /\ Apart(new, r)
  <2>1. r.ticket < new.ticket /\ r.ticket \in Nat /\ new.ticket \in Nat
    BY <1>1, <1>4, <1>5, <1>6, Typed DEF Registered
  <2> QED
    BY <1>5, <1>6, <2>1 DEF Apart
<1>7. /\ \A q \in Promises : \A i \in 1 .. Len(h.reactions[q]) : h.reactions[q][i].to # to
      /\ \A i \in Tasks(h) : h.jobs[i].to # to
  BY <1>2 DEF Claimed
<1>8. \A q \in Promises : \A i \in 1 .. Len(h.reactions[q]) : Registered(h, h.reactions[q][i])
  BY <1>1 DEF Waiting, WaitingFor
<1>9. \A i \in 1 .. m + 1 : i \in 1 .. m \/ i = m + 1
  BY <1>3
<1>10. ASSUME NEW q \in Promises, NEW i \in 1 .. Len(g.reactions[q])
       PROVE  \/ i \in 1 .. Len(h.reactions[q]) /\ g.reactions[q][i] = h.reactions[q][i]
              \/ q = p /\ i = m + 1 /\ g.reactions[q][i] = new
  <2>1. CASE q = p
    BY <1>3, <1>9, <2>1 DEF m
  <2>2. CASE q # p
    BY <1>3, <2>2
  <2> QED
    BY <2>1, <2>2
<1>11. Tasks(g) = Tasks(h) /\ Adoptions(g) = Adoptions(h)
  BY <1>2 DEF Tasks, Adoptions
<1>12. Room(g)
  BY <1>1, <1>2, <1>11, TicketRoom DEF Room
<1>13. Making(g) /\ Chances(g) /\ Adopting(g)
  <2>1. Making(g) /\ Chances(g)
    BY <1>1, <1>2, <1>11 DEF Making, Chances, Known
  <2>2. Adopting(g)
    BY <1>1, <1>2, <1>11 DEF Adopting, Known
  <2> QED
    BY <2>1, <2>2
<1>14. Waiting(g)
  <2>1. ASSUME NEW q \in Promises, q # p PROVE WaitingFor(g, q)
    <3>1. g.reactions[q] = h.reactions[q] /\ WaitingFor(h, q)
      BY <1>1, <1>3, <2>1 DEF Waiting
    <3>2. ASSUME NEW i \in 1 .. Len(h.reactions[q])
          PROVE  LET r == h.reactions[q][i]
                 IN  Registered(g, r) /\ g.on[r.ticket] = h.on[r.ticket]
      BY <1>4, <1>8
    <3> QED
      BY SMTT(60), <3>1, <3>2 DEF WaitingFor
  <2>2. WaitingFor(g, p)
    <3>1. WaitingFor(h, p)
      BY <1>1, <1>2 DEF Waiting
    <3>2. m + 1 <= new.ticket
      <4>1. CASE m = 0
        BY <1>1, <1>5, <4>1, Typed
      <4>2. CASE m > 0
        <5>1. m \in 1 .. m
          BY <1>3, <4>2
        <5>2. m <= h.reactions[p][m].ticket /\ Registered(h, h.reactions[p][m])
          BY <3>1, <5>1 DEF WaitingFor, m
        <5>3. h.reactions[p][m].ticket <= Len(h.on) /\ h.reactions[p][m].ticket \in Nat
              /\ Len(h.on) \in Nat
          BY <1>1, <5>2, Typed DEF Registered
        <5> QED
          BY SMTT(60), <1>3, <1>5, <5>2, <5>3
      <4> QED
        BY <1>3, <4>1, <4>2
    <3>3. ASSUME NEW i \in 1 .. m + 1
          PROVE  /\ Registered(g, g.reactions[p][i])
                 /\ g.on[g.reactions[p][i].ticket] = p
                 /\ i <= g.reactions[p][i].ticket
      <4>1. CASE i \in 1 .. m
        <5>1. /\ Registered(h, h.reactions[p][i]) /\ h.on[h.reactions[p][i].ticket] = p
              /\ i <= h.reactions[p][i].ticket
          BY <3>1, <4>1 DEF WaitingFor, m
        <5>2. g.reactions[p][i] = h.reactions[p][i]
          BY <1>3, <4>1
        <5> QED
          BY <1>4, <5>1, <5>2
      <4>2. CASE i = m + 1
        BY <1>3, <1>5, <3>2, <4>2
      <4> QED
        BY <1>9, <4>1, <4>2
    <3>4. ASSUME NEW i \in 1 .. m + 1, NEW j \in 1 .. m + 1, i < j
          PROVE  /\ g.reactions[p][i].ticket < g.reactions[p][j].ticket
                 /\ Apart(g.reactions[p][i], g.reactions[p][j])
      <4>1. i \in 1 .. m
        BY <1>3, <3>4
      <4>2. CASE j \in 1 .. m
        BY <1>3, <3>1, <3>4, <4>1, <4>2 DEF WaitingFor, m
      <4>3. CASE j = m + 1
        <5>1. Registered(h, h.reactions[p][i]) /\ h.reactions[p][i].to # to
          BY <1>2, <1>7, <1>8, <4>1 DEF m
        <5> QED
          BY <1>3, <1>6, <4>1, <4>3, <5>1
      <4> QED
        BY <1>9, <4>2, <4>3
    <3> QED
      BY <1>3, <3>3, <3>4 DEF WaitingFor
  <2>3. ASSUME NEW q \in Promises, g.reactions[q] # <<>>
        PROVE  g.state[q] = "pending"
    BY <1>1, <1>2, <1>3, <2>3 DEF Waiting
  <2>4. ASSUME NEW q \in Promises, NEW x \in Promises, q # x,
               NEW i \in 1 .. Len(g.reactions[q]), NEW j \in 1 .. Len(g.reactions[x])
        PROVE  Apart(g.reactions[q][i], g.reactions[x][j])
    <3>1. CASE i \in 1 .. Len(h.reactions[q]) /\ g.reactions[q][i] = h.reactions[q][i]
      <4>1. CASE j \in 1 .. Len(h.reactions[x]) /\ g.reactions[x][j] = h.reactions[x][j]
        BY <1>1, <2>4, <3>1, <4>1 DEF Waiting
      <4>2. CASE g.reactions[x][j] = new
        BY <1>6, <1>7, <1>8, <3>1, <4>2
      <4> QED
        BY <1>10, <4>1, <4>2
    <3>2. CASE q = p /\ g.reactions[q][i] = new
      <4>1. j \in 1 .. Len(h.reactions[x]) /\ g.reactions[x][j] = h.reactions[x][j]
        BY <1>10, <2>4, <3>2
      <4> QED
        BY <1>6, <1>7, <1>8, <3>2, <4>1
    <3> QED
      BY <1>10, <3>1, <3>2
  <2> QED
    BY <2>1, <2>2, <2>3, <2>4 DEF Waiting
<1>15. Queued(g)
  <2>1. \A i \in Tasks(h) : Registered(h, h.jobs[i])
    BY <1>1 DEF Queued, QueuedTask
  <2>2. ASSUME NEW i \in Tasks(h) PROVE QueuedTask(g, h.jobs[i])
    <3>1. QueuedTask(h, h.jobs[i]) /\ Registered(h, h.jobs[i])
      BY ZenonT(60), <1>1 DEF Queued, QueuedTask
    <3>2. Registered(g, h.jobs[i]) /\ g.on[h.jobs[i].ticket] = h.on[h.jobs[i].ticket]
      BY <1>2, <1>4, <3>1
    <3>3. g.state = h.state /\ g.result = h.result
      BY <1>2
    <3> QED
      BY <3>1, <3>2, <3>3, QueuedKeeps
  <2>3. ASSUME NEW i \in Tasks(h), NEW q \in Promises, NEW j \in 1 .. Len(g.reactions[q])
        PROVE  Apart(h.jobs[i], g.reactions[q][j])
    <3>1. CASE j \in 1 .. Len(h.reactions[q]) /\ g.reactions[q][j] = h.reactions[q][j]
      BY <1>1, <3>1 DEF Queued
    <3>2. CASE g.reactions[q][j] = new
      BY <1>6, <1>7, <2>1, <3>2
    <3> QED
      BY <1>10, <3>1, <3>2
  <2>4. ASSUME NEW i \in Tasks(h), NEW j \in Tasks(h), i < j
        PROVE  Apart(h.jobs[i], h.jobs[j]) /\ InOrder(g, h.jobs[i], h.jobs[j])
    BY <1>1, <1>4, <2>1, <2>4 DEF Queued
  <2> QED
    BY <1>2, <1>11, <2>2, <2>3, <2>4 DEF Queued
<1> QED
  BY <1>1, <1>12, <1>13, <1>14, <1>15 DEF CoreInv

LEMMA AppendsTasks ==
  ASSUME NEW h, NEW g, h \in Runtimes, Len(g.jobs) = Len(h.jobs) + 1,
         \A i \in 1 .. Len(h.jobs) : g.jobs[i] = h.jobs[i],
         g.jobs[Len(h.jobs) + 1].kind # "thenable"
  PROVE  /\ Adoptions(g) = Adoptions(h)
         /\ Tasks(g) = Tasks(h) \cup {Len(h.jobs) + 1}
         /\ \A i \in Tasks(h) : i < Len(h.jobs) + 1
         /\ \A i \in Tasks(h) \cup Adoptions(h) : g.jobs[i] = h.jobs[i]
<1>1. Len(h.jobs) \in Nat
  BY Typed
<1>2. \A i \in 1 .. Len(g.jobs) : i \in 1 .. Len(h.jobs) \/ i = Len(h.jobs) + 1
  BY <1>1
<1>3. 1 .. Len(h.jobs) \subseteq 1 .. Len(g.jobs) /\ Len(h.jobs) + 1 \in 1 .. Len(g.jobs)
      /\ Len(h.jobs) + 1 \notin 1 .. Len(h.jobs)
      /\ \A i \in 1 .. Len(h.jobs) : i < Len(h.jobs) + 1
  BY <1>1
<1> QED
  BY <1>2, <1>3 DEF Tasks, Adoptions

LEMMA QueuesCore ==
  ASSUME NEW h, NEW g, NEW p, NEW kind, NEW to,
         CoreInv(h), Queues(h, g, p, kind, to), to \in h.unresolved \ Claimed(h),
         RoomFor(h, 1), Ended(h, p)
  PROVE  CoreInv(g)
<1> DEFINE n   == Len(h.jobs) + 1
           new == [ticket |-> Len(h.on) + 1, kind |-> kind, to |-> to]
<1>1. /\ h \in Runtimes /\ g \in Runtimes
      /\ Room(h) /\ Making(h) /\ Chances(h) /\ Waiting(h) /\ Queued(h) /\ Adopting(h)
  BY DEF CoreInv, Queues
<1>2. /\ p \in Promises /\ kind \in Kinds /\ to \in Pairs
      /\ NewTicket(h, g, p)
      /\ g.made = h.made /\ g.state = h.state /\ g.result = h.result
      /\ g.reactions = h.reactions /\ g.chain = h.chain
      /\ g.unresolved = h.unresolved /\ g.adopts = h.adopts
  BY DEF Queues
<1>3. TaskOf(g.jobs[n], new, h.state[p], h.result[p])
  BY DEF Queues
<1>4. g.jobs[n].kind = kind /\ kind # "thenable"
  BY <1>2, <1>3 DEF TaskOf, Kinds, UserKinds
<1>5. /\ Adoptions(g) = Adoptions(h)
      /\ Tasks(g) = Tasks(h) \cup {n}
      /\ \A i \in Tasks(h) : i < n
      /\ \A i \in Tasks(h) \cup Adoptions(h) : g.jobs[i] = h.jobs[i]
  <2>1. /\ Len(g.jobs) = Len(h.jobs) + 1
        /\ \A i \in 1 .. Len(h.jobs) : g.jobs[i] = h.jobs[i]
    BY DEF Queues
  <2> QED
    <3>1. h \in Runtimes /\ g.jobs[Len(h.jobs) + 1].kind # "thenable"
      BY <1>1, <1>4
    <3> QED
      BY <2>1, <3>1, AppendsTasks
<1>6. /\ \A r : Registered(h, r) =>
           /\ Registered(g, r) /\ g.on[r.ticket] = h.on[r.ticket]
           /\ r.ticket < Len(h.on) + 1
      /\ \A a, b : Registered(h, a) /\ Registered(h, b) /\ InOrder(h, a, b) => InOrder(g, a, b)
  BY <1>1, <1>2, TicketKeeps
<1>7. Registered(g, g.jobs[n]) /\ g.on[g.jobs[n].ticket] = p
      /\ g.jobs[n].ticket = Len(h.on) + 1 /\ g.jobs[n].to = to
  BY <1>1, <1>2, <1>3, TicketKeeps DEF TaskOf, Registered
<1>8. ASSUME NEW r, Registered(h, r), r.to # to
      PROVE  r.ticket < g.jobs[n].ticket /\ Apart(r, g.jobs[n]) /\ Apart(g.jobs[n], r)
  <2>1. r.ticket < Len(h.on) + 1 /\ r.ticket \in Nat /\ Len(h.on) + 1 \in Nat
    BY <1>1, <1>6, <1>8, Typed DEF Registered
  <2> QED
    BY <1>7, <1>8, <2>1 DEF Apart
<1>9. /\ \A q \in Promises : \A i \in 1 .. Len(h.reactions[q]) : h.reactions[q][i].to # to
      /\ \A i \in Tasks(h) : h.jobs[i].to # to
  BY <1>2 DEF Claimed
<1>10. \A q \in Promises : \A i \in 1 .. Len(h.reactions[q]) : Registered(h, h.reactions[q][i])
  BY <1>1 DEF Waiting, WaitingFor
<1>11. \A i \in Tasks(h) : Registered(h, h.jobs[i]) /\ i \in Nat
  BY <1>1, Typed DEF Queued, QueuedTask, Tasks
<1>12. Room(g)
  BY <1>1, <1>2, <1>5, TicketRoom DEF Room
<1>13. Making(g) /\ Chances(g) /\ Adopting(g)
  BY SMTT(60), <1>1, <1>2, <1>5 DEF Making, Chances, Adopting, Known
<1>14. Waiting(g)
  <2>1. \A q \in Promises : WaitingFor(g, q)
    BY SMTT(60), <1>1, <1>2, <1>6 DEF Waiting, WaitingFor
  <2> QED
    BY <1>1, <1>2, <2>1 DEF Waiting
<1>15. Queued(g)
  <2>1. QueuedTask(g, g.jobs[n])
    <3>1. /\ g.jobs[n].arg = h.result[p]
          /\ g.jobs[n].rejected <=> h.state[p] = "rejected"
      BY <1>3 DEF TaskOf
    <3> QED
      BY <1>2, <1>4, <1>7, <3>1 DEF QueuedTask, Ended
  <2>2. ASSUME NEW i \in Tasks(h) PROVE QueuedTask(g, h.jobs[i])
    <3>1. QueuedTask(h, h.jobs[i]) /\ Registered(h, h.jobs[i])
      BY <1>1 DEF Queued, QueuedTask
    <3>2. Registered(g, h.jobs[i]) /\ g.on[h.jobs[i].ticket] = h.on[h.jobs[i].ticket]
      BY <1>2, <1>6, <3>1
    <3>3. g.state = h.state /\ g.result = h.result
      BY <1>2
    <3> QED
      BY <3>1, <3>2, <3>3, QueuedKeeps
  <2>3. ASSUME NEW i \in Tasks(g), NEW q \in Promises, NEW j \in 1 .. Len(g.reactions[q])
        PROVE  Apart(g.jobs[i], g.reactions[q][j])
    <3>1. CASE i \in Tasks(h)
      BY <1>1, <1>2, <1>5, <3>1 DEF Queued
    <3>2. CASE i = n
      <4>1. Registered(h, h.reactions[q][j]) /\ h.reactions[q][j].to # to
        BY <1>2, <1>9, <1>10
      <4> QED
        BY <1>2, <1>8, <3>2, <4>1
    <3> QED
      BY <1>5, <3>1, <3>2
  <2>4. ASSUME NEW i \in Tasks(g), NEW j \in Tasks(g), i < j
        PROVE  Apart(g.jobs[i], g.jobs[j]) /\ InOrder(g, g.jobs[i], g.jobs[j])
    <3>1. CASE j \in Tasks(h)
      <4>1. i \in Tasks(h)
        BY <1>1, <1>5, <1>11, <2>4, <3>1, Typed
      <4> QED
        BY <1>1, <1>5, <1>6, <1>11, <2>4, <3>1, <4>1 DEF Queued
    <3>2. CASE j = n
      <4>1. i \in Tasks(h)
        BY <1>1, <1>5, <2>4, <3>2, Typed
      <4> QED
        BY <1>5, <1>8, <1>9, <1>11, <3>2, <4>1 DEF InOrder
    <3> QED
      BY <1>5, <3>1, <3>2
  <2> QED
    BY <1>5, <2>1, <2>2, <2>3, <2>4 DEF Queued
<1> QED
  BY <1>1, <1>12, <1>13, <1>14, <1>15 DEF CoreInv

\* What the first job's leaving does to the numbers of the others.
LEMMA Shifted ==
  ASSUME NEW h, NEW g, h \in Runtimes, g \in Runtimes, Shifts(h, g), 1 \in 1 .. Len(h.jobs)
  PROVE  /\ \A i \in Tasks(g) : i + 1 \in Tasks(h) /\ g.jobs[i] = h.jobs[i + 1] /\ i + 1 # 1
         /\ \A i \in Adoptions(g) : i + 1 \in Adoptions(h) /\ g.jobs[i] = h.jobs[i + 1] /\ i + 1 # 1
         /\ \A k \in Tasks(h) : k # 1 => k - 1 \in Tasks(g) /\ g.jobs[k - 1] = h.jobs[k]
         /\ \A k \in Adoptions(h) : k # 1 => k - 1 \in Adoptions(g) /\ g.jobs[k - 1] = h.jobs[k]
         /\ \A i, j \in Tasks(g) \cup Adoptions(g) : /\ i < j => i + 1 < j + 1
                                                  /\ i + 1 = j + 1 => i = j
<1>1. Len(h.jobs) \in Nat /\ Len(g.jobs) = Len(h.jobs) - 1
      /\ \A i \in 1 .. Len(g.jobs) : g.jobs[i] = h.jobs[i + 1]
  BY Typed DEF Shifts
<1>2. ASSUME NEW i \in 1 .. Len(g.jobs)
      PROVE  i + 1 \in 1 .. Len(h.jobs) /\ i + 1 # 1 /\ i \in Nat
  BY <1>1
<1>3. ASSUME NEW k \in 1 .. Len(h.jobs), k # 1
      PROVE  k - 1 \in 1 .. Len(g.jobs) /\ g.jobs[k - 1] = h.jobs[k]
  <2>1. k - 1 \in 1 .. Len(g.jobs) /\ (k - 1) + 1 = k
    BY <1>1, <1>3
  <2>2. g.jobs[k - 1] = h.jobs[(k - 1) + 1]
    BY <1>1, <2>1
  <2> QED
    BY <2>1, <2>2
<1>4. \A i \in Tasks(g) \cup Adoptions(g) : i \in 1 .. Len(g.jobs)
  BY DEF Tasks, Adoptions
<1>5. \A i, j \in Nat : (i < j => i + 1 < j + 1) /\ (i + 1 = j + 1 => i = j)
  OBVIOUS
<1> QED
  BY <1>1, <1>2, <1>3, <1>4, <1>5 DEF Tasks, Adoptions

LEMMA ShiftedRoom ==
  ASSUME NEW h, NEW g, h \in Runtimes, g \in Runtimes, Shifts(h, g), 1 \in 1 .. Len(h.jobs)
  PROVE  Cardinality(Adoptions(g)) <= Cardinality(Adoptions(h) \ {1})
<1> DEFINE f == [i \in Adoptions(g) |-> i + 1]
<1>1. \A i \in Adoptions(g) : i + 1 \in Adoptions(h) \ {1}
  BY Shifted
<1>2. \A i, j \in Adoptions(g) : i + 1 = j + 1 => i = j
  <2>1. \A i \in Adoptions(g) : i \in Nat
    BY AdoptionsFinite, Typed
  <2> QED
    BY <2>1
<1>3. f \in [Adoptions(g) -> Adoptions(h) \ {1}]
  BY <1>1
<1>4. f \in Injection(Adoptions(g), Adoptions(h) \ {1})
  BY <1>2, <1>3 DEF Injection, IsInjective
<1>5. IsFiniteSet(Adoptions(h) \ {1})
  BY AdoptionsFinite, FS_Difference
<1> QED
  BY <1>4, <1>5, FS_Injection

LEMMA DropsCore ==
  ASSUME NEW h, NEW g, CoreInv(h), Drops(h, g)
  PROVE  CoreInv(g)
<1>1. /\ h \in Runtimes /\ g \in Runtimes
      /\ Room(h) /\ Making(h) /\ Chances(h) /\ Waiting(h) /\ Queued(h) /\ Adopting(h)
  BY DEF CoreInv, Drops
<1>2. /\ 1 \in Tasks(h) /\ 1 \notin Adoptions(h) /\ 1 \in 1 .. Len(h.jobs)
      /\ Shifts(h, g)
      /\ g.made = h.made /\ g.state = h.state /\ g.result = h.result
      /\ g.reactions = h.reactions /\ g.chain = h.chain
      /\ g.unresolved = h.unresolved /\ g.on = h.on /\ g.adopts = h.adopts
  BY DEF Drops, Tasks, Adoptions
<1>3. /\ \A i \in Tasks(g) : i + 1 \in Tasks(h) /\ g.jobs[i] = h.jobs[i + 1] /\ i + 1 # 1
      /\ \A i \in Adoptions(g) : i + 1 \in Adoptions(h) /\ g.jobs[i] = h.jobs[i + 1] /\ i + 1 # 1
      /\ \A k \in Adoptions(h) : k - 1 \in Adoptions(g) /\ g.jobs[k - 1] = h.jobs[k]
  BY <1>1, <1>2, Shifted
<1>i. Tasks(g) \cup Adoptions(g) \subseteq Nat
  BY <1>1, Typed, AdoptionsFinite
<1>4. Room(g)
  <2>1. Cardinality(Adoptions(g)) <= Cardinality(Adoptions(h) \ {1})
    BY <1>1, <1>2, ShiftedRoom
  <2>2. Adoptions(h) \ {1} = Adoptions(h)
    BY <1>2
  <2>3. Len(h.on) + Cardinality(Adoptions(h)) <= MaxThens
    BY <1>1 DEF Room
  <2>4. Len(h.on) \in Nat /\ Cardinality(Adoptions(h)) \in Nat /\ Cardinality(Adoptions(g)) \in Nat
    BY <1>1, Typed, AdoptionsFinite
  <2> DEFINE c == Cardinality(Adoptions(g))
             d == Cardinality(Adoptions(h))
  <2>5. Len(g.on) + c <= MaxThens
    <3>1. c <= d /\ c \in Nat /\ d \in Nat
      BY <2>1, <2>2, <2>4
    <3> HIDE DEF c
    <3> QED
      BY <1>2, <2>3, <2>4, <3>1, BoundsAssumption
  <2>6. \A i \in Adoptions(g) : g.chain[g.jobs[i].to[1]] < MaxChain
    BY <1>1, <1>2, <1>3 DEF Room
  <2> QED
    BY <2>5, <2>6 DEF Room
<1>5. Making(g)
  BY <1>1, <1>2 DEF Making, Known
<1>6. Chances(g)
  <2>1. ASSUME NEW i \in Adoptions(g)
        PROVE  /\ g.state[g.jobs[i].to[1]] = "pending"
               /\ \A pair \in g.unresolved : pair[1] # g.jobs[i].to[1]
               /\ \A j \in Adoptions(g) : g.jobs[j].to[1] = g.jobs[i].to[1] => j = i
    <3>1. i + 1 \in Adoptions(h) /\ g.jobs[i] = h.jobs[i + 1]
      BY <1>3
    <3>2. ASSUME NEW j \in Adoptions(g), g.jobs[j].to[1] = g.jobs[i].to[1]
          PROVE  j = i
      <4>1. j + 1 \in Adoptions(h) /\ h.jobs[j + 1].to[1] = h.jobs[i + 1].to[1]
        BY <1>3, <3>1, <3>2
      <4>2. j + 1 = i + 1
        BY <1>1, <3>1, <4>1 DEF Chances
      <4>3. i \in Nat /\ j \in Nat
        BY <1>i
      <4> QED
        BY <4>2, <4>3
    <3> QED
      BY <1>1, <1>2, <3>1, <3>2 DEF Chances
  <2>2. ASSUME NEW p \in Promises, g.state[p] = "pending"
        PROVE  \/ \E pair \in g.unresolved : pair[1] = p
               \/ \E i \in Adoptions(g) : g.jobs[i].to[1] = p
    BY <1>1, <1>2, <1>3, <2>2 DEF Chances
  <2> QED
    BY <1>1, <1>2, <2>1, <2>2 DEF Chances
<1>7. \A r : Registered(h, r) => Registered(g, r)
  BY <1>2 DEF Registered
<1>8. Waiting(g)
  <2>1. \A p \in Promises : WaitingFor(g, p)
    BY <1>1, <1>2, <1>7 DEF Waiting, WaitingFor
  <2> QED
    BY <1>1, <1>2, <2>1 DEF Waiting
<1>9. Queued(g)
  <2>1. ASSUME NEW i \in Tasks(h) PROVE QueuedTask(g, h.jobs[i])
    <3>1. QueuedTask(h, h.jobs[i]) /\ Registered(h, h.jobs[i])
      BY ZenonT(60), <1>1 DEF Queued, QueuedTask
    <3>2. Registered(g, h.jobs[i]) /\ g.on[h.jobs[i].ticket] = h.on[h.jobs[i].ticket]
      BY <1>2, <1>7, <3>1
    <3>3. g.state = h.state /\ g.result = h.result
      BY <1>2
    <3> QED
      BY <3>1, <3>2, <3>3, QueuedKeeps
  <2>2. ASSUME NEW i \in Tasks(g), NEW j \in Tasks(g), i < j
        PROVE  Apart(g.jobs[i], g.jobs[j]) /\ InOrder(g, g.jobs[i], g.jobs[j])
    <3>1. i \in Nat /\ j \in Nat /\ i + 1 \in Tasks(h) /\ j + 1 \in Tasks(h)
      BY <1>3, <1>i
    <3>2. i + 1 < j + 1
      BY <2>2, <3>1
    <3>3. Apart(h.jobs[i + 1], h.jobs[j + 1]) /\ InOrder(h, h.jobs[i + 1], h.jobs[j + 1])
      BY <1>1, <3>1, <3>2 DEF Queued
    <3> QED
      BY <1>2, <1>3, <3>3 DEF InOrder
  <2> QED
    BY <1>1, <1>2, <1>3, <2>1, <2>2 DEF Queued
<1>10. Adopting(g)
  <2>1. ASSUME NEW i \in Adoptions(g)
        PROVE  /\ g.jobs[i].ticket = 0
               /\ Known(g, g.jobs[i].to)
               /\ g.jobs[i].arg \in g.adopts[g.jobs[i].to[1]]
    <3>1. i + 1 \in Adoptions(h) /\ g.jobs[i] = h.jobs[i + 1]
      BY <1>3
    <3>2. /\ h.jobs[i + 1].ticket = 0
          /\ Known(h, h.jobs[i + 1].to)
          /\ h.jobs[i + 1].arg \in h.adopts[h.jobs[i + 1].to[1]]
      BY <1>1, <3>1 DEF Adopting
    <3> QED
      BY <1>2, <3>1, <3>2 DEF Known
  <2> QED
    BY <2>1 DEF Adopting
<1> QED
  BY <1>1, <1>4, <1>5, <1>6, <1>8, <1>9, <1>10 DEF CoreInv

LEMMA TakesCore ==
  ASSUME NEW h, NEW g, NEW p, NEW pair, CoreInv(h), Takes(h, g, p, pair)
  PROVE  CoreInv(g)
<1>1. /\ h \in Runtimes /\ g \in Runtimes
      /\ Room(h) /\ Making(h) /\ Chances(h) /\ Waiting(h) /\ Queued(h) /\ Adopting(h)
  BY DEF CoreInv, Takes
<1>2. /\ 1 \in Adoptions(h) /\ 1 \notin Tasks(h) /\ 1 \in 1 .. Len(h.jobs)
      /\ p \in Promises /\ h.jobs[1].to[1] = p /\ pair \in Pairs
      /\ Shifts(h, g)
      /\ g.unresolved = h.unresolved \cup {pair}
      /\ g.made = h.made /\ g.state = h.state /\ g.result = h.result
      /\ g.reactions = h.reactions /\ g.on = h.on /\ g.adopts = h.adopts
  BY DEF Takes, Tasks, Adoptions
<1>3. /\ g.chain[p] = h.chain[p] + 1
      /\ \A q \in Promises : q # p => g.chain[q] = h.chain[q]
      /\ pair[1] = p /\ pair[2] = h.chain[p] + 1
  BY DEF Takes
<1>4. /\ \A i \in Tasks(g) : i + 1 \in Tasks(h) /\ g.jobs[i] = h.jobs[i + 1]
      /\ \A i \in Adoptions(g) : i + 1 \in Adoptions(h) /\ g.jobs[i] = h.jobs[i + 1] /\ i + 1 # 1
      /\ \A k \in Adoptions(h) : k # 1 => k - 1 \in Adoptions(g) /\ g.jobs[k - 1] = h.jobs[k]
  BY <1>1, <1>2, Shifted
<1>i. Tasks(g) \cup Adoptions(g) \subseteq Nat
  BY <1>1, Typed, AdoptionsFinite
<1>5. h.state[p] = "pending" /\ \A x \in h.unresolved : x[1] # p
  BY <1>1, <1>2 DEF Chances
<1>6. \A i \in Adoptions(h) : /\ h.jobs[i].to \in Pairs /\ h.jobs[i].to[1] \in Promises
                              /\ i # 1 => h.jobs[i].to[1] # p
  <2>1. \A i \in Adoptions(h) : h.jobs[i].to \in Pairs
    BY <1>1, Typed DEF Adoptions, Jobs
  <2> QED
    BY <1>1, <1>2, <2>1, PairType DEF Chances
<1>7. \A q \in Promises : h.chain[q] \in Nat /\ g.chain[q] \in Nat /\ h.chain[q] <= g.chain[q]
  <2>1. \A q \in Promises : h.chain[q] \in Nat /\ g.chain[q] \in Nat
    BY <1>1, Typed
  <2>2. h.chain[p] <= g.chain[p]
    BY <1>2, <1>3, <2>1
  <2>3. ASSUME NEW q \in Promises, q # p PROVE h.chain[q] <= g.chain[q]
    BY <1>3, <2>1, <2>3
  <2> QED
    BY <2>1, <2>2, <2>3
<1>8. \A x \in Pairs : Known(h, x) => Known(g, x)
  <2>1. ASSUME NEW x \in Pairs, Known(h, x) PROVE Known(g, x)
    <3>1. x[1] \in Promises /\ x[2] \in Nat
      BY PairType
    <3> QED
      BY <1>2, <1>7, <2>1, <3>1 DEF Known
  <2> QED
    BY <2>1
<1>9. Room(g)
  <2>1. Cardinality(Adoptions(g)) <= Cardinality(Adoptions(h) \ {1})
    BY <1>1, <1>2, ShiftedRoom
  <2>2. Cardinality(Adoptions(h) \ {1}) = Cardinality(Adoptions(h)) - 1
    BY <1>1, <1>2, AdoptionsFinite, FS_RemoveElement
  <2>3. Len(h.on) + Cardinality(Adoptions(h)) <= MaxThens
    BY <1>1 DEF Room
  <2>4. Len(h.on) \in Nat /\ Cardinality(Adoptions(h)) \in Nat /\ Cardinality(Adoptions(g)) \in Nat
    BY <1>1, Typed, AdoptionsFinite
  <2>5. Len(g.on) + Cardinality(Adoptions(g)) <= MaxThens
    BY <1>2, <2>1, <2>2, <2>3, <2>4, BoundsAssumption
  <2>6. ASSUME NEW i \in Adoptions(g) PROVE g.chain[g.jobs[i].to[1]] < MaxChain
    <3>1. i + 1 \in Adoptions(h) /\ g.jobs[i] = h.jobs[i + 1] /\ i + 1 # 1
      BY <1>4
    <3> QED
      BY <1>1, <1>3, <1>6, <3>1 DEF Room
  <2> QED
    BY <2>5, <2>6 DEF Room
<1>10. Making(g)
  <2>1. h.made \in Nat /\ p \in Nat /\ p <= h.made
    BY <1>1, <1>2, <1>5, Typed DEF Making, Promises
  <2>2. Known(g, pair)
    <3>1. pair[1] <= g.made
      BY <1>2, <1>3, <2>1
    <3>2. pair[2] = g.chain[pair[1]] /\ g.chain[pair[1]] \in Nat
      BY <1>2, <1>3, <1>7
    <3> QED
      BY <3>1, <3>2 DEF Known
  <2>3. ASSUME NEW q \in Promises, q > g.made PROVE g.chain[q] = 0 /\ g.adopts[q] = {}
    <3>1. q > h.made /\ q # p
      BY <1>2, <2>1, <2>3
    <3>2. h.chain[q] = 0 /\ h.adopts[q] = {}
      BY <1>1, <3>1 DEF Making
    <3> QED
      BY <1>2, <1>3, <3>1, <3>2
  <2>4. ASSUME NEW x \in g.unresolved PROVE Known(g, x)
    BY <1>1, <1>2, <1>8, <2>2, Typed DEF Making
  <2> QED
    BY <1>1, <1>2, <2>3, <2>4 DEF Making
<1>11. Chances(g)
  <2>1. ASSUME NEW x \in g.unresolved
        PROVE  /\ g.state[x[1]] = "pending"
               /\ \A other \in g.unresolved : other[1] = x[1] => other = x
    BY <1>1, <1>2, <1>3, <1>5 DEF Chances
  <2>2. ASSUME NEW i \in Adoptions(g)
        PROVE  /\ g.state[g.jobs[i].to[1]] = "pending"
               /\ \A x \in g.unresolved : x[1] # g.jobs[i].to[1]
               /\ \A j \in Adoptions(g) : g.jobs[j].to[1] = g.jobs[i].to[1] => j = i
    <3>1. i + 1 \in Adoptions(h) /\ g.jobs[i] = h.jobs[i + 1] /\ i + 1 # 1
      BY <1>4
    <3>2. ASSUME NEW j \in Adoptions(g), g.jobs[j].to[1] = g.jobs[i].to[1]
          PROVE  j = i
      <4>1. j + 1 \in Adoptions(h) /\ h.jobs[j + 1].to[1] = h.jobs[i + 1].to[1]
        BY <1>4, <3>1, <3>2
      <4>2. j + 1 = i + 1
        BY <1>1, <3>1, <4>1 DEF Chances
      <4>3. i \in Nat /\ j \in Nat
        BY <1>i
      <4> QED
        BY <4>2, <4>3
    <3> QED
      BY <1>1, <1>2, <1>3, <1>6, <3>1, <3>2 DEF Chances
  <2>3. ASSUME NEW q \in Promises, g.state[q] = "pending"
        PROVE  \/ \E x \in g.unresolved : x[1] = q
               \/ \E i \in Adoptions(g) : g.jobs[i].to[1] = q
    <3>1. CASE q = p
      BY <1>2, <1>3, <3>1
    <3>2. ASSUME q # p, NEW i \in Adoptions(h), h.jobs[i].to[1] = q
          PROVE  \E k \in Adoptions(g) : g.jobs[k].to[1] = q
      BY <1>2, <1>4, <3>2
    <3>3. h.state[q] = "pending"
      BY <1>2, <2>3
    <3> QED
      BY <1>1, <1>2, <3>1, <3>2, <3>3 DEF Chances
  <2> QED
    BY <2>1, <2>2, <2>3 DEF Chances
<1>12. \A r : Registered(h, r) => Registered(g, r)
  BY <1>2 DEF Registered
<1>13. Waiting(g)
  <2>1. \A q \in Promises : WaitingFor(g, q)
    BY <1>1, <1>2, <1>12 DEF Waiting, WaitingFor
  <2> QED
    BY <1>1, <1>2, <2>1 DEF Waiting
<1>14. Queued(g)
  <2>1. ASSUME NEW i \in Tasks(h) PROVE QueuedTask(g, h.jobs[i])
    <3>1. QueuedTask(h, h.jobs[i]) /\ Registered(h, h.jobs[i])
      BY ZenonT(60), <1>1 DEF Queued, QueuedTask
    <3>2. Registered(g, h.jobs[i]) /\ g.on[h.jobs[i].ticket] = h.on[h.jobs[i].ticket]
      BY <1>2, <1>12, <3>1
    <3>3. g.state = h.state /\ g.result = h.result
      BY <1>2
    <3> QED
      BY <3>1, <3>2, <3>3, QueuedKeeps
  <2>2. ASSUME NEW i \in Tasks(g), NEW j \in Tasks(g), i < j
        PROVE  Apart(g.jobs[i], g.jobs[j]) /\ InOrder(g, g.jobs[i], g.jobs[j])
    <3>1. i \in Nat /\ j \in Nat /\ i + 1 \in Tasks(h) /\ j + 1 \in Tasks(h)
      BY <1>4, <1>i
    <3>2. i + 1 < j + 1
      BY <2>2, <3>1
    <3>3. Apart(h.jobs[i + 1], h.jobs[j + 1]) /\ InOrder(h, h.jobs[i + 1], h.jobs[j + 1])
      BY <1>1, <3>1, <3>2 DEF Queued
    <3> QED
      BY <1>2, <1>4, <3>3 DEF InOrder
  <2> QED
    BY <1>1, <1>2, <1>4, <2>1, <2>2 DEF Queued
<1>15. Adopting(g)
  BY <1>1, <1>2, <1>4, <1>6, <1>8 DEF Adopting
<1> QED
  BY <1>1, <1>9, <1>10, <1>11, <1>13, <1>14, <1>15 DEF CoreInv

-----------------------------------------------------------------------------
(* What each change does to those who follow a promise. *)

LEMMA MakesAdopts ==
  ASSUME NEW h, NEW g, EngineInv(h), Makes(h, g)
  PROVE  EngineInv(g)
<1>1. /\ h.made \in Nat /\ Making(h)
      /\ h.state[h.made + 1] = "none" /\ h.made + 1 \in Promises
      /\ \A q \in Promises : q # h.made + 1 => g.state[q] = h.state[q]
      /\ g.result = h.result /\ g.reactions = h.reactions /\ g.jobs = h.jobs
      /\ g.on = h.on /\ g.adopts = h.adopts
  BY Typed DEF EngineInv, CoreInv, Makes, Making, Promises
<1>2. Tasks(g) = Tasks(h) /\ Adoptions(g) = Adoptions(h)
  BY <1>1 DEF Tasks, Adoptions
<1>3. ASSUME NEW p \in Promises, NEW q \in h.adopts[p] \cap Promises
      PROVE  Follower(g, p, q)
  <2>1. Follower(h, p, q)
    BY <1>3 DEF EngineInv, AdoptsInv
  <2>2. SameOutcome(h, p, q) => SameOutcome(g, p, q)
    BY <1>1, <1>3 DEF SameOutcome, Ended
  <2> QED
    <3>1. ASSUME NEW i \in Adoptions(h), h.jobs[i].to[1] = p /\ h.jobs[i].arg = q
          PROVE  Follower(g, p, q)
      BY <1>1, <1>2, <3>1 DEF Follower
    <3>2. ASSUME NEW i \in 1 .. Len(h.reactions[q]), Passes(h, h.reactions[q][i], p, q)
          PROVE  Follower(g, p, q)
      BY <1>1, <3>2 DEF Follower, Passes
    <3>3. ASSUME NEW i \in Tasks(h), Passes(h, h.jobs[i], p, q)
          PROVE  Follower(g, p, q)
      BY <1>1, <1>2, <3>3 DEF Follower, Passes
    <3> QED
      BY <2>1, <2>2, <3>1, <3>2, <3>3 DEF Follower
<1>4. CoreInv(g)
  BY MakesCore DEF EngineInv
<1> QED
  BY <1>1, <1>3, <1>4 DEF EngineInv, AdoptsInv

LEMMA FulfilsAdopts ==
  ASSUME NEW h, NEW g, NEW pair, NEW p, NEW outcome, NEW v, CoreInv(h),
         \A q \in Promises : q # p => AdoptsInv(h, q),
         Fulfils(h, g, pair, p, outcome, v), pair \notin Claimed(h),
         \A q \in h.adopts[p] \cap Promises :
           Ended(h, q) /\ outcome = h.state[q] /\ v = h.result[q]
  PROVE  EngineInv(g)
<1>1. /\ p \in Promises /\ h.state[p] = "pending"
      /\ outcome \in {"fulfilled", "rejected"} /\ g.state[p] = outcome /\ g.result[p] = v
      /\ \A q \in Promises : q # p => /\ g.state[q] = h.state[q] /\ g.result[q] = h.result[q]
                                      /\ g.reactions[q] = h.reactions[q]
      /\ g.on = h.on /\ g.adopts = h.adopts
      /\ h \in Runtimes /\ Waiting(h)
  BY DEF Fulfils, Closes, CoreInv
<1>2. /\ Adoptions(g) = Adoptions(h) /\ Tasks(h) \subseteq Tasks(g)
      /\ \A i \in Adoptions(h) \cup Tasks(h) : g.jobs[i] = h.jobs[i]
      /\ \A i \in 1 .. Len(h.reactions[p]) :
           /\ Len(h.jobs) + i \in Tasks(g)
           /\ TaskOf(g.jobs[Len(h.jobs) + i], h.reactions[p][i], outcome, v)
  BY <1>1, FulfilsTasks, AdoptionsFinite
<1>3. ASSUME NEW x \in Promises, x # p, NEW q \in h.adopts[x] \cap Promises
      PROVE  Follower(g, x, q)
  <2>1. Follower(h, x, q)
    BY <1>3 DEF AdoptsInv
  <2>2. CASE \E i \in Adoptions(h) : h.jobs[i].to[1] = x /\ h.jobs[i].arg = q
    BY <1>2, <2>2 DEF Follower
  <2>3. ASSUME NEW i \in 1 .. Len(h.reactions[q]), Passes(h, h.reactions[q][i], x, q)
        PROVE  Follower(g, x, q)
    <3>1. CASE q = p
      <4> DEFINE k == Len(h.jobs) + i
      <4>1. k \in Tasks(g) /\ TaskOf(g.jobs[k], h.reactions[q][i], outcome, v)
        BY <1>2, <2>3, <3>1
      <4> HIDE DEF k
      <4>2. Passes(g, g.jobs[k], x, q)
        BY <1>1, <2>3, <4>1 DEF Passes, TaskOf
      <4> QED
        BY <4>1, <4>2 DEF Follower
    <3>2. CASE q # p
      BY <1>1, <1>3, <2>3, <3>2 DEF Follower, Passes
    <3> QED
      BY <3>1, <3>2
  <2>4. ASSUME NEW i \in Tasks(h), Passes(h, h.jobs[i], x, q)
        PROVE  Follower(g, x, q)
    BY <1>1, <1>2, <2>4 DEF Follower, Passes
  <2>5. CASE SameOutcome(h, x, q)
    BY <1>1, <1>3, <2>5 DEF Follower, SameOutcome, Ended
  <2> QED
    BY <2>1, <2>2, <2>3, <2>4, <2>5 DEF Follower
<1>4. ASSUME NEW q \in h.adopts[p] \cap Promises
      PROVE  Follower(g, p, q)
  <2>1. q # p /\ g.state[q] = h.state[q] /\ g.result[q] = h.result[q]
    BY <1>1, <1>4 DEF Ended
  <2>2. SameOutcome(g, p, q)
    BY <1>1, <1>4, <2>1 DEF SameOutcome, Ended
  <2> QED
    BY <2>2 DEF Follower
<1>5. CoreInv(g)
  BY FulfilsCore
<1> QED
  BY <1>1, <1>3, <1>4, <1>5 DEF EngineInv, AdoptsInv

LEMMA FollowsAdopts ==
  ASSUME NEW h, NEW g, NEW pair, NEW p, NEW v, EngineInv(h),
         Follows(h, g, pair, p, v), pair \notin Claimed(h),
         h.chain[p] < MaxChain, RoomFor(h, 1)
  PROVE  EngineInv(g)
<1> DEFINE n == Len(h.jobs) + 1
<1>1. /\ p \in Promises /\ pair[1] = p /\ pair \in h.unresolved
      /\ g.adopts[p] = h.adopts[p] \cup {v}
      /\ \A q \in Promises : q # p => g.adopts[q] = h.adopts[q]
      /\ g.state = h.state /\ g.result = h.result
      /\ g.reactions = h.reactions /\ g.on = h.on
      /\ h \in Runtimes /\ CoreInv(h)
  BY DEF Follows, EngineInv
<1>2. /\ Tasks(g) = Tasks(h)
      /\ Adoptions(g) = Adoptions(h) \cup {n}
  <2>1. /\ Len(g.jobs) = Len(h.jobs) + 1
        /\ \A i \in 1 .. Len(h.jobs) : g.jobs[i] = h.jobs[i]
        /\ g.jobs[Len(h.jobs) + 1].kind = "thenable"
    BY DEF Follows
  <2> QED
    BY <1>1, <2>1, FollowsTasks
<1>3. /\ \A i \in Adoptions(h) : g.jobs[i] = h.jobs[i]
      /\ \A i \in Tasks(h) : g.jobs[i] = h.jobs[i]
      /\ g.jobs[n].to = pair /\ g.jobs[n].arg = v
  BY DEF Adoptions, Tasks, Follows
<1> HIDE DEF n
<1>4. h.adopts[p] \cap Promises = {}
  BY <1>1, FollowsNone DEF EngineInv
<1>5. ASSUME NEW x \in Promises, x # p, NEW q \in h.adopts[x] \cap Promises
      PROVE  Follower(g, x, q)
  <2>1. Follower(h, x, q)
    BY <1>5 DEF EngineInv, AdoptsInv
  <2> QED
    <3>1. ASSUME NEW i \in Adoptions(h), h.jobs[i].to[1] = x /\ h.jobs[i].arg = q
          PROVE  Follower(g, x, q)
      BY <1>2, <1>3, <3>1 DEF Follower
    <3>2. ASSUME NEW i \in 1 .. Len(h.reactions[q]), Passes(h, h.reactions[q][i], x, q)
          PROVE  Follower(g, x, q)
      BY <1>1, <3>2 DEF Follower, Passes
    <3>3. ASSUME NEW i \in Tasks(h), Passes(h, h.jobs[i], x, q)
          PROVE  Follower(g, x, q)
      BY <1>1, <1>2, <1>3, <3>3 DEF Follower, Passes
    <3>4. SameOutcome(h, x, q) => SameOutcome(g, x, q)
      BY <1>1 DEF SameOutcome, Ended
    <3> QED
      BY <2>1, <3>1, <3>2, <3>3, <3>4 DEF Follower
<1>6. ASSUME NEW q \in g.adopts[p] \cap Promises
      PROVE  Follower(g, p, q)
  <2>1. q = v
    BY <1>1, <1>4, <1>6
  <2> QED
    BY <1>1, <1>2, <1>3, <2>1 DEF Follower
<1>7. CoreInv(g)
  BY FollowsCore DEF EngineInv
<1> QED
  BY <1>1, <1>5, <1>6, <1>7 DEF EngineInv, AdoptsInv

LEMMA RegistersAdopts ==
  ASSUME NEW h, NEW g, NEW p, NEW kind, NEW to, CoreInv(h), Registers(h, g, p, kind, to)
  PROVE  /\ \A x, q \in Promises : Follower(h, x, q) => Follower(g, x, q)
         /\ kind = "settle" => Follower(g, to[1], p)
         /\ g.adopts = h.adopts
<1> DEFINE m   == Len(h.reactions[p])
           new == [ticket |-> Len(h.on) + 1, kind |-> kind, to |-> to]
<1>1. /\ h \in Runtimes /\ g \in Runtimes /\ p \in Promises /\ NewTicket(h, g, p)
      /\ Waiting(h) /\ Queued(h)
      /\ g.state = h.state /\ g.result = h.result /\ g.jobs = h.jobs
      /\ g.unresolved = h.unresolved /\ g.adopts = h.adopts
  BY DEF Registers, CoreInv
<1>2. /\ Len(g.reactions[p]) = m + 1
      /\ \A i \in 1 .. m : g.reactions[p][i] = h.reactions[p][i]
      /\ g.reactions[p][m + 1] = new
      /\ \A q \in Promises : q # p => g.reactions[q] = h.reactions[q]
      /\ m \in Nat
  BY <1>1, Typed DEF Registers
<1> HIDE DEF new, m
<1>3. /\ \A r : Registered(h, r) => g.on[r.ticket] = h.on[r.ticket]
      /\ g.on[Len(h.on) + 1] = p
  BY <1>1, TicketKeeps
<1>4. Tasks(g) = Tasks(h) /\ Adoptions(g) = Adoptions(h)
  BY <1>1 DEF Tasks, Adoptions
<1>5. ASSUME NEW q \in Promises, NEW i \in 1 .. Len(h.reactions[q])
      PROVE  i \in 1 .. Len(g.reactions[q]) /\ g.reactions[q][i] = h.reactions[q][i]
  <2>1. CASE q = p
    BY <1>2, <2>1 DEF m
  <2>2. CASE q # p
    BY <1>2, <2>2
  <2> QED
    BY <2>1, <2>2
<1>6. ASSUME NEW x \in Promises, NEW q \in Promises, Follower(h, x, q)
      PROVE  Follower(g, x, q)
  <2>1. ASSUME NEW i \in 1 .. Len(h.reactions[q]), Passes(h, h.reactions[q][i], x, q)
        PROVE  Follower(g, x, q)
    <3>1. Registered(h, h.reactions[q][i])
      BY <1>1 DEF Waiting, WaitingFor
    <3>2. i \in 1 .. Len(g.reactions[q]) /\ g.reactions[q][i] = h.reactions[q][i]
      BY <1>5
    <3> QED
      BY <1>3, <2>1, <3>1, <3>2 DEF Follower, Passes
  <2>2. ASSUME NEW i \in Tasks(h), Passes(h, h.jobs[i], x, q)
        PROVE  Follower(g, x, q)
    <3>1. Registered(h, h.jobs[i])
      BY <1>1 DEF Queued, QueuedTask
    <3> QED
      BY <1>1, <1>3, <1>4, <2>2, <3>1 DEF Follower, Passes
  <2>3. SameOutcome(h, x, q) => SameOutcome(g, x, q)
    BY <1>1 DEF SameOutcome, Ended
  <2> QED
    BY <1>1, <1>4, <1>6, <2>1, <2>2, <2>3 DEF Follower
<1>7. ASSUME kind = "settle" PROVE Follower(g, to[1], p)
  <2>1. m + 1 \in 1 .. Len(g.reactions[p]) /\ Passes(g, g.reactions[p][m + 1], to[1], p)
    BY <1>2, <1>3, <1>7 DEF new, Passes
  <2> QED
    BY <2>1 DEF Follower
<1> QED
  BY <1>1, <1>6, <1>7

LEMMA QueuesAdopts ==
  ASSUME NEW h, NEW g, NEW p, NEW kind, NEW to, CoreInv(h), Queues(h, g, p, kind, to)
  PROVE  /\ \A x, q \in Promises : Follower(h, x, q) => Follower(g, x, q)
         /\ kind = "settle" => Follower(g, to[1], p)
         /\ g.adopts = h.adopts
<1> DEFINE n   == Len(h.jobs) + 1
           new == [ticket |-> Len(h.on) + 1, kind |-> kind, to |-> to]
<1>1. /\ h \in Runtimes /\ g \in Runtimes /\ p \in Promises /\ NewTicket(h, g, p)
      /\ Waiting(h) /\ Queued(h) /\ kind \in Kinds
      /\ g.state = h.state /\ g.result = h.result /\ g.reactions = h.reactions
      /\ g.unresolved = h.unresolved /\ g.adopts = h.adopts
  BY DEF Queues, CoreInv
<1>2. TaskOf(g.jobs[n], new, h.state[p], h.result[p])
  BY DEF Queues
<1>3. g.jobs[n].kind = kind /\ kind # "thenable" /\ g.jobs[n].to = to
      /\ g.jobs[n].ticket = Len(h.on) + 1
  BY <1>1, <1>2 DEF TaskOf, Kinds, UserKinds
<1>4. /\ Adoptions(g) = Adoptions(h)
      /\ Tasks(g) = Tasks(h) \cup {n}
      /\ \A i \in Tasks(h) \cup Adoptions(h) : g.jobs[i] = h.jobs[i]
  <2>1. /\ Len(g.jobs) = Len(h.jobs) + 1
        /\ \A i \in 1 .. Len(h.jobs) : g.jobs[i] = h.jobs[i]
    BY DEF Queues
  <2> QED
    BY <1>1, <1>3, <2>1, AppendsTasks
<1> HIDE DEF n
<1>5. /\ \A r : Registered(h, r) => g.on[r.ticket] = h.on[r.ticket]
      /\ g.on[Len(h.on) + 1] = p
  BY <1>1, TicketKeeps
<1>6. ASSUME NEW x \in Promises, NEW q \in Promises, Follower(h, x, q)
      PROVE  Follower(g, x, q)
  <2>1. ASSUME NEW i \in 1 .. Len(h.reactions[q]), Passes(h, h.reactions[q][i], x, q)
        PROVE  Follower(g, x, q)
    <3>1. Registered(h, h.reactions[q][i])
      BY <1>1 DEF Waiting, WaitingFor
    <3> QED
      BY <1>1, <1>5, <2>1, <3>1 DEF Follower, Passes
  <2>2. ASSUME NEW i \in Tasks(h), Passes(h, h.jobs[i], x, q)
        PROVE  Follower(g, x, q)
    <3>1. Registered(h, h.jobs[i])
      BY <1>1 DEF Queued, QueuedTask
    <3> QED
      BY <1>4, <1>5, <2>2, <3>1 DEF Follower, Passes
  <2>3. SameOutcome(h, x, q) => SameOutcome(g, x, q)
    BY <1>1 DEF SameOutcome, Ended
  <2> QED
    BY <1>4, <1>6, <2>1, <2>2, <2>3 DEF Follower
<1>7. ASSUME kind = "settle" PROVE Follower(g, to[1], p)
  <2>1. n \in Tasks(g) /\ Passes(g, g.jobs[n], to[1], p)
    BY <1>3, <1>4, <1>5, <1>7 DEF Passes
  <2> QED
    BY <2>1 DEF Follower
<1> QED
  BY <1>1, <1>6, <1>7

LEMMA DropsAdopts ==
  ASSUME NEW h, NEW g, Drops(h, g), NEW x, NEW q, Follower(h, x, q),
         ~Passes(h, h.jobs[1], x, q)
  PROVE  Follower(g, x, q)
<1>1. /\ h \in Runtimes /\ g \in Runtimes /\ 1 \in 1 .. Len(h.jobs) /\ Shifts(h, g)
      /\ 1 \notin Adoptions(h)
      /\ g.state = h.state /\ g.result = h.result /\ g.reactions = h.reactions /\ g.on = h.on
  BY DEF Drops, Tasks, Adoptions
<1>2. /\ \A k \in Tasks(h) : k # 1 => k - 1 \in Tasks(g) /\ g.jobs[k - 1] = h.jobs[k]
      /\ \A k \in Adoptions(h) : k - 1 \in Adoptions(g) /\ g.jobs[k - 1] = h.jobs[k]
  BY <1>1, Shifted
<1>3. ASSUME NEW i \in Adoptions(h), h.jobs[i].to[1] = x /\ h.jobs[i].arg = q
      PROVE  Follower(g, x, q)
  <2>1. i - 1 \in Adoptions(g) /\ g.jobs[i - 1] = h.jobs[i]
    BY <1>2
  <2> QED
    BY <1>3, <2>1 DEF Follower
<1>4. ASSUME NEW i \in 1 .. Len(h.reactions[q]), Passes(h, h.reactions[q][i], x, q)
      PROVE  Follower(g, x, q)
  BY ZenonT(60), <1>1, <1>4 DEF Follower, Passes
<1>5. ASSUME NEW i \in Tasks(h), Passes(h, h.jobs[i], x, q)
      PROVE  Follower(g, x, q)
  <2>1. i - 1 \in Tasks(g) /\ g.jobs[i - 1] = h.jobs[i]
    BY <1>2, <1>5
  <2> QED
    BY ZenonT(60), <1>1, <1>5, <2>1 DEF Follower, Passes
<1>6. SameOutcome(h, x, q) => SameOutcome(g, x, q)
  BY <1>1 DEF SameOutcome, Ended
<1> QED
  BY <1>3, <1>4, <1>5, <1>6 DEF Follower

LEMMA TakesAdopts ==
  ASSUME NEW h, NEW g, NEW p, NEW pair, Takes(h, g, p, pair), NEW x, NEW q, Follower(h, x, q),
         ~(x = p /\ q = h.jobs[1].arg)
  PROVE  Follower(g, x, q)
<1>1. /\ h \in Runtimes /\ g \in Runtimes /\ 1 \in 1 .. Len(h.jobs) /\ Shifts(h, g)
      /\ 1 \notin Tasks(h) /\ h.jobs[1].to[1] = p
      /\ g.state = h.state /\ g.result = h.result /\ g.reactions = h.reactions /\ g.on = h.on
  BY DEF Takes, Tasks, Adoptions
<1>2. /\ \A k \in Tasks(h) : k - 1 \in Tasks(g) /\ g.jobs[k - 1] = h.jobs[k]
      /\ \A k \in Adoptions(h) : k # 1 => k - 1 \in Adoptions(g) /\ g.jobs[k - 1] = h.jobs[k]
  BY <1>1, Shifted
<1>3. ASSUME NEW i \in Adoptions(h), h.jobs[i].to[1] = x /\ h.jobs[i].arg = q
      PROVE  Follower(g, x, q)
  <2>1. i - 1 \in Adoptions(g) /\ g.jobs[i - 1] = h.jobs[i]
    BY <1>1, <1>2, <1>3
  <2> QED
    BY <1>3, <2>1 DEF Follower
<1>4. ASSUME NEW i \in 1 .. Len(h.reactions[q]), Passes(h, h.reactions[q][i], x, q)
      PROVE  Follower(g, x, q)
  BY ZenonT(60), <1>1, <1>4 DEF Follower, Passes
<1>5. ASSUME NEW i \in Tasks(h), Passes(h, h.jobs[i], x, q)
      PROVE  Follower(g, x, q)
  <2>1. i - 1 \in Tasks(g) /\ g.jobs[i - 1] = h.jobs[i]
    BY <1>2
  <2> QED
    BY ZenonT(60), <1>1, <1>5, <2>1 DEF Follower, Passes
<1>6. SameOutcome(h, x, q) => SameOutcome(g, x, q)
  BY <1>1 DEF SameOutcome, Ended
<1> QED
  BY <1>3, <1>4, <1>5, <1>6 DEF Follower

-----------------------------------------------------------------------------
(* What each change does to the pairs that reactions claim. *)

LEMMA ClaimedLive ==
  ASSUME NEW h, CoreInv(h)
  PROVE  Claimed(h) \subseteq h.unresolved
<1>1. /\ \A p \in Promises : \A i \in 1 .. Len(h.reactions[p]) :
           h.reactions[p][i].to \in h.unresolved
      /\ \A i \in Tasks(h) : h.jobs[i].to \in h.unresolved
  BY DEF CoreInv, Waiting, WaitingFor, Queued, QueuedTask, Registered
<1> QED
  BY <1>1 DEF Claimed

LEMMA SameClaimed ==
  ASSUME NEW h, NEW g, Makes(h, g) \/ \E pair, p, v : Follows(h, g, pair, p, v)
  PROVE  Claimed(g) = Claimed(h)
<1>1. CASE Makes(h, g)
  <2>1. g.reactions = h.reactions /\ g.jobs = h.jobs /\ Tasks(g) = Tasks(h)
    BY <1>1 DEF Makes, Tasks
  <2> QED
    BY <2>1 DEF Claimed
<1>2. ASSUME NEW pair, NEW p, NEW v, Follows(h, g, pair, p, v)
      PROVE  Claimed(g) = Claimed(h)
  <2>1. /\ h \in Runtimes /\ g.reactions = h.reactions
        /\ Len(g.jobs) = Len(h.jobs) + 1
        /\ \A i \in 1 .. Len(h.jobs) : g.jobs[i] = h.jobs[i]
        /\ g.jobs[Len(h.jobs) + 1].kind = "thenable"
    BY <1>2 DEF Follows
  <2>2. Tasks(g) = Tasks(h) /\ \A i \in Tasks(h) : g.jobs[i] = h.jobs[i]
    BY <2>1, FollowsTasks DEF Tasks
  <2> QED
    BY <2>1, <2>2 DEF Claimed
<1> QED
  BY <1>1, <1>2

LEMMA FulfilsClaimed ==
  ASSUME NEW h, NEW g, NEW pair, NEW p, NEW outcome, NEW v, CoreInv(h),
         Fulfils(h, g, pair, p, outcome, v)
  PROVE  Claimed(g) = Claimed(h)
<1>1. /\ p \in Promises /\ g.reactions[p] = <<>>
      /\ \A q \in Promises : q # p => g.reactions[q] = h.reactions[q]
      /\ h \in Runtimes /\ Waiting(h)
  BY DEF Fulfils, Closes, CoreInv
<1>2. /\ Tasks(h) \subseteq Tasks(g)
      /\ \A i \in Tasks(h) : g.jobs[i] = h.jobs[i]
      /\ \A k \in Tasks(g) :
           \/ k \in Tasks(h)
           \/ /\ k - Len(h.jobs) \in 1 .. Len(h.reactions[p])
              /\ TaskOf(g.jobs[k], h.reactions[p][k - Len(h.jobs)], outcome, v)
      /\ \A i \in 1 .. Len(h.reactions[p]) :
           /\ Len(h.jobs) + i \in Tasks(g)
           /\ TaskOf(g.jobs[Len(h.jobs) + i], h.reactions[p][i], outcome, v)
  BY <1>1, FulfilsTasks, AdoptionsFinite
<1>3. ASSUME NEW x \in Claimed(h) PROVE x \in Claimed(g)
  <2>1. ASSUME NEW q \in Promises, NEW i \in 1 .. Len(h.reactions[q]), h.reactions[q][i].to = x
        PROVE  x \in Claimed(g)
    <3>1. CASE q = p
      <4> DEFINE k == Len(h.jobs) + i
      <4>1. k \in Tasks(g) /\ TaskOf(g.jobs[k], h.reactions[q][i], outcome, v)
        BY <1>2, <2>1, <3>1
      <4> HIDE DEF k
      <4> QED
        BY <1>3, <2>1, <4>1 DEF Claimed, TaskOf
    <3>2. CASE q # p
      BY <1>1, <1>3, <2>1, <3>2 DEF Claimed
    <3> QED
      BY <3>1, <3>2
  <2>2. ASSUME NEW i \in Tasks(h), h.jobs[i].to = x PROVE x \in Claimed(g)
    BY <1>2, <1>3, <2>2 DEF Claimed
  <2> QED
    BY <1>3, <2>1, <2>2 DEF Claimed
<1>4. ASSUME NEW x \in Claimed(g) PROVE x \in Claimed(h)
  <2>1. ASSUME NEW q \in Promises, NEW i \in 1 .. Len(g.reactions[q]), g.reactions[q][i].to = x
        PROVE  x \in Claimed(h)
    <3>1. Len(g.reactions[p]) = 0
      BY <1>1
    <3>2. q # p
      BY <2>1, <3>1
    <3> QED
      BY <1>1, <1>4, <2>1, <3>2 DEF Claimed
  <2>2. ASSUME NEW i \in Tasks(g), g.jobs[i].to = x PROVE x \in Claimed(h)
    <3>1. CASE i \in Tasks(h)
      BY <1>2, <1>4, <2>2, <3>1 DEF Claimed
    <3>2. ASSUME NEW j \in 1 .. Len(h.reactions[p]),
                 TaskOf(g.jobs[i], h.reactions[p][j], outcome, v)
          PROVE  x \in Claimed(h)
      <4>1. h.reactions[p][j].to = x
        BY <2>2, <3>2 DEF TaskOf
      <4> QED
        BY <1>1, <1>4, <4>1 DEF Claimed
    <3> QED
      BY <1>2, <3>1, <3>2
  <2> QED
    BY <1>4, <2>1, <2>2 DEF Claimed
<1> QED
  BY <1>3, <1>4

LEMMA RegistersClaimed ==
  ASSUME NEW h, NEW g, NEW p, NEW kind, NEW to, Registers(h, g, p, kind, to)
  PROVE  Claimed(g) = Claimed(h) \cup {to}
<1> DEFINE m == Len(h.reactions[p])
<1>1. /\ h \in Runtimes /\ p \in Promises /\ to \in Pairs /\ g.jobs = h.jobs
      /\ Len(g.reactions[p]) = m + 1
      /\ \A i \in 1 .. m : g.reactions[p][i] = h.reactions[p][i]
      /\ g.reactions[p][m + 1].to = to
      /\ \A q \in Promises : q # p => g.reactions[q] = h.reactions[q]
  BY DEF Registers
<1>2. m \in Nat
  BY <1>1, Typed
<1>3. Tasks(g) = Tasks(h)
  BY <1>1 DEF Tasks
<1> HIDE DEF m
<1>4. /\ 1 .. m \subseteq 1 .. m + 1 /\ m + 1 \in 1 .. m + 1
      /\ \A i \in 1 .. m + 1 : i \in 1 .. m \/ i = m + 1
  BY <1>2
<1>5. ASSUME NEW q \in Promises, NEW i \in 1 .. Len(g.reactions[q])
      PROVE  \/ i \in 1 .. Len(h.reactions[q]) /\ g.reactions[q][i] = h.reactions[q][i]
             \/ g.reactions[q][i].to = to
  <2>1. CASE q = p
    BY <1>1, <1>4, <2>1 DEF m
  <2>2. CASE q # p
    BY <1>1, <2>2
  <2> QED
    BY <2>1, <2>2
<1>6. ASSUME NEW q \in Promises, NEW i \in 1 .. Len(h.reactions[q])
      PROVE  i \in 1 .. Len(g.reactions[q]) /\ g.reactions[q][i] = h.reactions[q][i]
  <2>1. CASE q = p
    BY <1>1, <1>4, <2>1 DEF m
  <2>2. CASE q # p
    BY <1>1, <2>2
  <2> QED
    BY <2>1, <2>2
<1>7. to \in Claimed(g)
  <2>1. m + 1 \in 1 .. Len(g.reactions[p])
    BY <1>1, <1>4
  <2> QED
    BY <1>1, <2>1 DEF Claimed
<1>8. ASSUME NEW x \in Claimed(h) PROVE x \in Claimed(g)
  BY <1>1, <1>3, <1>6, <1>8 DEF Claimed
<1>9. ASSUME NEW x \in Claimed(g), x # to PROVE x \in Claimed(h)
  <2>1. ASSUME NEW q \in Promises, NEW i \in 1 .. Len(g.reactions[q]), g.reactions[q][i].to = x
        PROVE  x \in Claimed(h)
    BY <1>5, <1>9, <2>1 DEF Claimed
  <2>2. ASSUME NEW i \in Tasks(g), g.jobs[i].to = x
        PROVE  x \in Claimed(h)
    BY <1>1, <1>3, <1>9, <2>2 DEF Claimed
  <2> QED
    BY <1>9, <2>1, <2>2 DEF Claimed
<1> QED
  BY <1>7, <1>8, <1>9

LEMMA QueuesClaimed ==
  ASSUME NEW h, NEW g, NEW p, NEW kind, NEW to, Queues(h, g, p, kind, to)
  PROVE  Claimed(g) = Claimed(h) \cup {to}
<1> DEFINE n   == Len(h.jobs) + 1
           new == [ticket |-> Len(h.on) + 1, kind |-> kind, to |-> to]
<1>1. /\ h \in Runtimes /\ to \in Pairs /\ g.reactions = h.reactions /\ kind \in Kinds
      /\ Len(g.jobs) = Len(h.jobs) + 1
      /\ \A i \in 1 .. Len(h.jobs) : g.jobs[i] = h.jobs[i]
  BY DEF Queues
<1>2. TaskOf(g.jobs[n], new, h.state[p], h.result[p])
  BY DEF Queues
<1>3. g.jobs[n].to = to /\ g.jobs[n].kind # "thenable"
  BY <1>1, <1>2 DEF TaskOf, Kinds, UserKinds
<1>4. Tasks(g) = Tasks(h) \cup {n} /\ \A i \in Tasks(h) : g.jobs[i] = h.jobs[i]
  BY <1>1, <1>3, AppendsTasks
<1> HIDE DEF n
<1> QED
  BY <1>1, <1>3, <1>4 DEF Claimed

LEMMA DropsClaimed ==
  ASSUME NEW h, NEW g, CoreInv(h), Drops(h, g)
  PROVE  /\ Claimed(g) = Claimed(h) \ {h.jobs[1].to}
         /\ h.jobs[1].to \in Claimed(h)
<1>1. /\ h \in Runtimes /\ g \in Runtimes /\ 1 \in 1 .. Len(h.jobs) /\ Shifts(h, g)
      /\ 1 \in Tasks(h) /\ g.reactions = h.reactions /\ Queued(h)
  BY DEF Drops, Tasks, CoreInv
<1>2. /\ \A k \in Tasks(h) : k # 1 => k - 1 \in Tasks(g) /\ g.jobs[k - 1] = h.jobs[k]
      /\ \A i \in Tasks(g) : i + 1 \in Tasks(h) /\ g.jobs[i] = h.jobs[i + 1] /\ i + 1 # 1
  BY <1>1, Shifted
<1>3. \A k \in Tasks(h) : k # 1 => h.jobs[k].to # h.jobs[1].to
  <2>1. ASSUME NEW k \in Tasks(h), k # 1 PROVE h.jobs[k].to # h.jobs[1].to
    <3>1. 1 < k
      BY <1>1, <2>1, AdoptionsFinite, Typed
    <3> QED
      BY <1>1, <3>1 DEF Queued, Apart
  <2> QED
    BY <2>1
<1>4. \A p \in Promises : \A i \in 1 .. Len(h.reactions[p]) : h.reactions[p][i].to # h.jobs[1].to
  BY <1>1 DEF Queued, Apart
<1>5. h.jobs[1].to \in Pairs
  BY <1>1, Typed DEF Jobs
<1>6. ASSUME NEW x \in Claimed(h), x # h.jobs[1].to PROVE x \in Claimed(g)
  BY <1>1, <1>2, <1>6 DEF Claimed
<1>7. ASSUME NEW x \in Claimed(g) PROVE x \in Claimed(h) /\ x # h.jobs[1].to
  BY <1>1, <1>2, <1>3, <1>4, <1>7 DEF Claimed
<1>8. h.jobs[1].to \in Claimed(h)
  BY <1>1, <1>5 DEF Claimed
<1> QED
  BY <1>6, <1>7, <1>8

LEMMA TakesClaimed ==
  ASSUME NEW h, NEW g, NEW p, NEW pair, Takes(h, g, p, pair)
  PROVE  Claimed(g) = Claimed(h)
<1>1. /\ h \in Runtimes /\ g \in Runtimes /\ 1 \in 1 .. Len(h.jobs) /\ Shifts(h, g)
      /\ 1 \notin Tasks(h) /\ g.reactions = h.reactions
  BY DEF Takes, Tasks, Adoptions
<1>2. /\ \A k \in Tasks(h) : k - 1 \in Tasks(g) /\ g.jobs[k - 1] = h.jobs[k]
      /\ \A i \in Tasks(g) : i + 1 \in Tasks(h) /\ g.jobs[i] = h.jobs[i + 1]
  BY <1>1, Shifted
<1> QED
  BY <1>1, <1>2 DEF Claimed

-----------------------------------------------------------------------------
(* What each change does to the reactions that ran. *)

RanFirst(h, a, b) == a # b /\ (h.on[a] = h.on[b] => a < b)

\* s are the tickets of the reactions that ran, in order: they were registered for
\* promises that are settled, are neither registered nor queued any more, and
\* ran before what is still queued for the same promise.
Gone(h, s) ==
  /\ s \in Seq(Nat)
  /\ \A i \in 1 .. Len(s) : s[i] \in 1 .. Len(h.on) /\ Ended(h, h.on[s[i]])
  /\ \A i \in 1 .. Len(s), j \in Tasks(h) : RanFirst(h, s[i], h.jobs[j].ticket)
  /\ \A i \in 1 .. Len(s), p \in Promises : \A j \in 1 .. Len(h.reactions[p]) :
       s[i] # h.reactions[p][j].ticket
  /\ \A i, j \in 1 .. Len(s) : i < j => RanFirst(h, s[i], s[j])

LEMMA GoneParts ==
  ASSUME NEW h, NEW s, Gone(h, s), NEW i \in 1 .. Len(s)
  PROVE  /\ s[i] \in 1 .. Len(h.on) /\ Ended(h, h.on[s[i]])
         /\ \A j \in Tasks(h) : RanFirst(h, s[i], h.jobs[j].ticket)
         /\ \A p \in Promises : \A j \in 1 .. Len(h.reactions[p]) :
              s[i] # h.reactions[p][j].ticket
         /\ \A j \in 1 .. Len(s) : i < j => RanFirst(h, s[i], s[j])
BY DEF Gone

LEMMA SameFirst ==
  ASSUME NEW h, NEW g, \A n \in 1 .. Len(h.on) : g.on[n] = h.on[n],
         NEW a \in 1 .. Len(h.on), NEW b \in 1 .. Len(h.on), RanFirst(h, a, b)
  PROVE  RanFirst(g, a, b)
BY DEF RanFirst

\* Every reaction registered is somewhere.
Found(h, s, n) ==
  \/ \E p \in Promises : \E i \in 1 .. Len(h.reactions[p]) : h.reactions[p][i].ticket = n
  \/ \E i \in Tasks(h) : h.jobs[i].ticket = n
  \/ \E i \in 1 .. Len(s) : s[i] = n

TicketsInv(h, s) == Gone(h, s) /\ \A n \in 1 .. Len(h.on) : Found(h, s, n)

LEMMA MakesTickets ==
  ASSUME NEW h, NEW g, NEW s, CoreInv(h), Makes(h, g), TicketsInv(h, s)
  PROVE  TicketsInv(g, s)
<1>1. /\ h \in Runtimes /\ h.made \in Nat /\ Making(h)
      /\ h.state[h.made + 1] = "none"
      /\ \A q \in Promises : q # h.made + 1 => g.state[q] = h.state[q]
      /\ g.reactions = h.reactions /\ g.jobs = h.jobs /\ g.on = h.on
  BY Typed DEF CoreInv, Makes, Making, Promises
<1>2. Tasks(g) = Tasks(h)
  BY <1>1 DEF Tasks
<1>3. \A i \in 1 .. Len(s) : Ended(g, h.on[s[i]])
  <2>1. ASSUME NEW i \in 1 .. Len(s) PROVE Ended(g, h.on[s[i]])
    <3>1. Ended(h, h.on[s[i]]) /\ h.on[s[i]] \in Promises
      BY <1>1, Typed DEF TicketsInv, Gone
    <3> QED
      BY <1>1, <3>1 DEF Ended
  <2> QED
    BY <2>1
<1> QED
  BY <1>1, <1>2, <1>3 DEF TicketsInv, Gone, Found, RanFirst

LEMMA FollowsTickets ==
  ASSUME NEW h, NEW g, NEW s, NEW pair, NEW p, NEW v, Follows(h, g, pair, p, v), TicketsInv(h, s)
  PROVE  TicketsInv(g, s)
<1>1. /\ h \in Runtimes /\ g.reactions = h.reactions /\ g.on = h.on /\ g.state = h.state
      /\ Len(g.jobs) = Len(h.jobs) + 1
      /\ \A i \in 1 .. Len(h.jobs) : g.jobs[i] = h.jobs[i]
      /\ g.jobs[Len(h.jobs) + 1].kind = "thenable"
  BY DEF Follows
<1>2. Tasks(g) = Tasks(h) /\ \A i \in Tasks(h) : g.jobs[i] = h.jobs[i]
  BY <1>1, FollowsTasks DEF Tasks
<1>3. Gone(g, s)
  <2>1. Gone(h, s)
    BY DEF TicketsInv
  <2>2. \A i \in 1 .. Len(s), j \in Tasks(g) : RanFirst(g, s[i], g.jobs[j].ticket)
    <3>1. ASSUME NEW i \in 1 .. Len(s), NEW j \in Tasks(h)
          PROVE  RanFirst(g, s[i], g.jobs[j].ticket)
      <4>1. RanFirst(h, s[i], h.jobs[j].ticket)
        BY <2>1, GoneParts
      <4>2. g.jobs[j] = h.jobs[j] /\ g.on = h.on
        BY <1>1, <1>2
      <4> QED
        BY <4>1, <4>2 DEF RanFirst
    <3> QED
      BY <1>2, <3>1
  <2> QED
    BY <1>1, <2>1, <2>2 DEF Gone, RanFirst, Ended
<1>4. ASSUME NEW n \in 1 .. Len(h.on) PROVE Found(g, s, n)
  <2>1. Found(h, s, n)
    BY DEF TicketsInv
  <2> QED
    BY <1>1, <1>2, <2>1 DEF Found
<1> QED
  BY <1>1, <1>3, <1>4 DEF TicketsInv

LEMMA FulfilsTickets ==
  ASSUME NEW h, NEW g, NEW s, NEW pair, NEW p, NEW outcome, NEW v, CoreInv(h),
         Fulfils(h, g, pair, p, outcome, v), TicketsInv(h, s)
  PROVE  TicketsInv(g, s)
<1>1. /\ p \in Promises /\ h.state[p] = "pending" /\ g.reactions[p] = <<>>
      /\ \A q \in Promises : q # p => g.reactions[q] = h.reactions[q] /\ g.state[q] = h.state[q]
      /\ g.on = h.on
      /\ h \in Runtimes /\ Waiting(h)
  BY DEF Fulfils, Closes, CoreInv
<1>2. /\ Tasks(h) \subseteq Tasks(g)
      /\ \A i \in Tasks(h) : g.jobs[i] = h.jobs[i]
      /\ \A k \in Tasks(g) :
           \/ k \in Tasks(h)
           \/ /\ k - Len(h.jobs) \in 1 .. Len(h.reactions[p])
              /\ TaskOf(g.jobs[k], h.reactions[p][k - Len(h.jobs)], outcome, v)
      /\ \A i \in 1 .. Len(h.reactions[p]) :
           /\ Len(h.jobs) + i \in Tasks(g)
           /\ TaskOf(g.jobs[Len(h.jobs) + i], h.reactions[p][i], outcome, v)
  BY <1>1, FulfilsTasks, AdoptionsFinite
<1>3. Gone(h, s) /\ \A n \in 1 .. Len(h.on) : Found(h, s, n)
  BY DEF TicketsInv
<1>4. ASSUME NEW i \in 1 .. Len(s)
      PROVE  h.on[s[i]] \in Promises /\ h.on[s[i]] # p /\ Ended(g, h.on[s[i]])
  <2>1. Ended(h, h.on[s[i]]) /\ s[i] \in 1 .. Len(h.on)
    BY <1>3 DEF Gone
  <2>2. h.on[s[i]] \in Promises
    BY <1>1, <2>1, Typed
  <2> QED
    BY <1>1, <2>1, <2>2 DEF Ended
<1>5. ASSUME NEW i \in 1 .. Len(s), NEW k \in Tasks(g)
      PROVE  RanFirst(g, s[i], g.jobs[k].ticket)
  <2>1. CASE k \in Tasks(h)
    <3>1. RanFirst(h, s[i], h.jobs[k].ticket)
      BY <1>3, <2>1, GoneParts
    <3>2. g.jobs[k] = h.jobs[k]
      BY <1>2, <2>1
    <3> QED
      BY <1>1, <3>1, <3>2 DEF RanFirst
  <2>2. ASSUME NEW j \in 1 .. Len(h.reactions[p]),
               TaskOf(g.jobs[k], h.reactions[p][j], outcome, v)
        PROVE  RanFirst(g, s[i], g.jobs[k].ticket)
    <3>1. h.on[h.reactions[p][j].ticket] = p /\ s[i] # h.reactions[p][j].ticket
      BY <1>1, <1>3 DEF Waiting, WaitingFor, Gone
    <3> QED
      BY <1>1, <1>4, <2>2, <3>1 DEF TaskOf, RanFirst
  <2> QED
    BY <1>2, <2>1, <2>2
<1>6. ASSUME NEW i \in 1 .. Len(s), NEW q \in Promises, NEW j \in 1 .. Len(g.reactions[q])
      PROVE  s[i] # g.reactions[q][j].ticket
  <2>1. Len(g.reactions[p]) = 0
    BY <1>1
  <2>2. q # p
    BY <2>1
  <2> QED
    <3>1. \A x \in Promises : \A k \in 1 .. Len(h.reactions[x]) :
            s[i] # h.reactions[x][k].ticket
      BY <1>3, GoneParts
    <3> QED
      BY <1>1, <2>2, <3>1
<1>7. Gone(g, s)
  BY <1>1, <1>3, <1>4, <1>5, <1>6 DEF Gone, RanFirst
<1>8. ASSUME NEW n \in 1 .. Len(h.on) PROVE Found(g, s, n)
  <2>1. ASSUME NEW q \in Promises, NEW i \in 1 .. Len(h.reactions[q]),
               h.reactions[q][i].ticket = n
        PROVE  Found(g, s, n)
    <3>1. CASE q = p
      <4> DEFINE k == Len(h.jobs) + i
      <4>1. k \in Tasks(g) /\ TaskOf(g.jobs[k], h.reactions[q][i], outcome, v)
        BY <1>2, <2>1, <3>1
      <4> HIDE DEF k
      <4> QED
        BY <2>1, <4>1 DEF Found, TaskOf
    <3>2. CASE q # p
      BY <1>1, <2>1, <3>2 DEF Found
    <3> QED
      BY <3>1, <3>2
  <2>2. Found(h, s, n)
    BY <1>3
  <2> QED
    BY <1>2, <2>1, <2>2 DEF Found
<1> QED
  BY <1>1, <1>7, <1>8 DEF TicketsInv

LEMMA RegistersTickets ==
  ASSUME NEW h, NEW g, NEW s, NEW p, NEW kind, NEW to, CoreInv(h),
         Registers(h, g, p, kind, to), TicketsInv(h, s)
  PROVE  TicketsInv(g, s)
<1> DEFINE m   == Len(h.reactions[p])
           new == Len(h.on) + 1
<1>1. /\ h \in Runtimes /\ g \in Runtimes /\ p \in Promises
      /\ NewTicket(h, g, p) /\ g.state = h.state /\ g.jobs = h.jobs
      /\ g.unresolved = h.unresolved /\ Queued(h)
  BY DEF Registers, CoreInv
<1>2. /\ Len(g.reactions[p]) = m + 1
      /\ \A i \in 1 .. m : g.reactions[p][i] = h.reactions[p][i]
      /\ g.reactions[p][m + 1].ticket = new
      /\ \A q \in Promises : q # p => g.reactions[q] = h.reactions[q]
  BY DEF Registers
<1>3. m \in Nat /\ Len(h.on) \in Nat /\ Len(g.on) = new /\ g.on[new] = p
      /\ \A n \in 1 .. Len(h.on) : g.on[n] = h.on[n]
  BY <1>1, Typed DEF NewTicket
<1>4. Tasks(g) = Tasks(h)
  BY <1>1 DEF Tasks
<1>5. Gone(h, s) /\ \A n \in 1 .. Len(h.on) : Found(h, s, n)
  BY DEF TicketsInv
<1> HIDE DEF m
<1>6. /\ \A i \in 1 .. m + 1 : i \in 1 .. m \/ i = m + 1
      /\ 1 .. m \subseteq 1 .. m + 1 /\ m + 1 \in 1 .. m + 1
      /\ \A n \in 1 .. new : n \in 1 .. Len(h.on) \/ n = new
      /\ 1 .. Len(h.on) \subseteq 1 .. new /\ new \notin 1 .. Len(h.on)
  BY <1>3
<1> HIDE DEF new
<1>7. \A j \in Tasks(h) : h.jobs[j].ticket \in 1 .. Len(h.on)
  BY <1>1 DEF Queued, QueuedTask, Registered
<1>8. \A i \in 1 .. Len(s) : s[i] \in 1 .. Len(h.on) /\ s[i] # new
  BY <1>5, <1>6 DEF Gone
<1>9. ASSUME NEW i \in 1 .. Len(s), NEW q \in Promises, NEW j \in 1 .. Len(g.reactions[q])
      PROVE  s[i] # g.reactions[q][j].ticket
  <2>0. \A x \in Promises : \A k \in 1 .. Len(h.reactions[x]) : s[i] # h.reactions[x][k].ticket
    BY <1>5, GoneParts
  <2>1. CASE q = p
    <3>1. CASE j \in 1 .. m
      <4>1. j \in 1 .. Len(h.reactions[p])
        BY <3>1 DEF m
      <4>2. g.reactions[p][j] = h.reactions[p][j]
        BY <1>2, <3>1
      <4> QED
        BY <2>0, <2>1, <4>1, <4>2
    <3>2. CASE j = m + 1
      BY <1>2, <1>8, <2>1, <3>2
    <3> QED
      BY <1>2, <1>6, <2>1, <3>1, <3>2
  <2>2. CASE q # p
    BY <1>2, <2>0, <2>2
  <2> QED
    BY <2>1, <2>2
<1>10. Gone(g, s)
  <2>1. ASSUME NEW i \in 1 .. Len(s)
        PROVE  /\ s[i] \in 1 .. Len(g.on) /\ Ended(g, g.on[s[i]])
               /\ \A j \in Tasks(g) : RanFirst(g, s[i], g.jobs[j].ticket)
    <3>1. /\ s[i] \in 1 .. Len(h.on) /\ Ended(h, h.on[s[i]])
          /\ \A j \in Tasks(h) : RanFirst(h, s[i], h.jobs[j].ticket)
      BY <1>5, GoneParts
    <3>2. \A j \in Tasks(h) : RanFirst(g, s[i], h.jobs[j].ticket)
      BY <1>3, <1>7, <3>1, SameFirst
    <3>3. s[i] \in 1 .. Len(g.on) /\ Ended(g, g.on[s[i]])
      BY <1>1, <1>3, <1>6, <3>1 DEF Ended
    <3> QED
      BY <1>1, <1>4, <3>2, <3>3
  <2>2. \A i, j \in 1 .. Len(s) :
          i < j => RanFirst(g, s[i], s[j])
    BY <1>3, <1>5, <1>8 DEF Gone, RanFirst
  <2>3. s \in Seq(Nat)
    BY <1>5 DEF Gone
  <2> QED
    BY <1>9, <2>1, <2>2, <2>3 DEF Gone
<1>11. ASSUME NEW n \in 1 .. Len(h.on) PROVE Found(g, s, n)
  <2>1. ASSUME NEW q \in Promises, NEW i \in 1 .. Len(h.reactions[q]),
               h.reactions[q][i].ticket = n
        PROVE  Found(g, s, n)
    <3>1. CASE q = p
      BY <1>2, <1>6, <2>1, <3>1 DEF Found, m
    <3>2. CASE q # p
      BY <1>2, <2>1, <3>2 DEF Found
    <3> QED
      BY <3>1, <3>2
  <2>2. Found(h, s, n)
    BY <1>5
  <2> QED
    BY <1>1, <1>4, <2>1, <2>2 DEF Found
<1>12. Found(g, s, new)
  BY <1>1, <1>2, <1>6 DEF Found
<1> QED
  BY <1>3, <1>6, <1>10, <1>11, <1>12 DEF TicketsInv

LEMMA QueuesTickets ==
  ASSUME NEW h, NEW g, NEW s, NEW p, NEW kind, NEW to, CoreInv(h),
         Queues(h, g, p, kind, to), TicketsInv(h, s)
  PROVE  TicketsInv(g, s)
<1> DEFINE n   == Len(h.jobs) + 1
           new == Len(h.on) + 1
<1>1. /\ h \in Runtimes /\ g \in Runtimes /\ p \in Promises /\ kind \in Kinds
      /\ NewTicket(h, g, p) /\ g.state = h.state /\ g.reactions = h.reactions
      /\ g.unresolved = h.unresolved /\ Queued(h) /\ Waiting(h)
  BY DEF Queues, CoreInv
<1>2. TaskOf(g.jobs[n], [ticket |-> Len(h.on) + 1, kind |-> kind, to |-> to],
             h.state[p], h.result[p])
  BY DEF Queues
<1>3. g.jobs[n].ticket = new /\ g.jobs[n].kind = kind /\ kind # "thenable"
  BY <1>1, <1>2 DEF TaskOf, Kinds, UserKinds
<1>4. Tasks(g) = Tasks(h) \cup {n} /\ \A i \in Tasks(h) : g.jobs[i] = h.jobs[i]
  <2>1. /\ Len(g.jobs) = Len(h.jobs) + 1
        /\ \A i \in 1 .. Len(h.jobs) : g.jobs[i] = h.jobs[i]
    BY DEF Queues
  <2> QED
    <3>1. h \in Runtimes /\ g.jobs[Len(h.jobs) + 1].kind # "thenable"
      BY <1>1, <1>3
    <3> QED
      BY SMTT(60), <2>1, <3>1, AppendsTasks
<1> HIDE DEF n
<1>5. Len(h.on) \in Nat /\ Len(g.on) = new /\ g.on[new] = p
      /\ \A k \in 1 .. Len(h.on) : g.on[k] = h.on[k]
  BY <1>1, Typed DEF NewTicket
<1>6. Gone(h, s) /\ \A k \in 1 .. Len(h.on) : Found(h, s, k)
  BY DEF TicketsInv
<1>7. /\ \A k \in 1 .. new : k \in 1 .. Len(h.on) \/ k = new
      /\ 1 .. Len(h.on) \subseteq 1 .. new /\ new \notin 1 .. Len(h.on)
      /\ \A k \in 1 .. Len(h.on) : k < new
  BY <1>5
<1> HIDE DEF new
<1>8. \A j \in Tasks(h) : h.jobs[j].ticket \in 1 .. Len(h.on)
  BY <1>1 DEF Queued, QueuedTask, Registered
<1>9. \A i \in 1 .. Len(s) : s[i] \in 1 .. Len(h.on) /\ s[i] # new
  BY <1>6, <1>7 DEF Gone
<1>10. Gone(g, s)
  <2>1. ASSUME NEW i \in 1 .. Len(s), NEW j \in Tasks(g)
        PROVE  RanFirst(g, s[i], g.jobs[j].ticket)
    <3>1. CASE j \in Tasks(h)
      <4>1. RanFirst(h, s[i], h.jobs[j].ticket)
        BY <1>6, <3>1, GoneParts
      <4>2. RanFirst(g, s[i], h.jobs[j].ticket)
        BY <1>5, <1>8, <1>9, <3>1, <4>1, SameFirst
      <4> QED
        BY <1>4, <3>1, <4>2
    <3>2. CASE j = n
      <4>1. s[i] \in Nat /\ new \in Nat /\ s[i] < new
        BY <1>5, <1>7, <1>9
      <4> QED
        BY <1>3, <3>2, <4>1 DEF RanFirst
    <3> QED
      BY <1>4, <3>1, <3>2
  <2>2. \A i \in 1 .. Len(s) : s[i] \in 1 .. Len(g.on) /\ Ended(g, g.on[s[i]])
    BY <1>1, <1>5, <1>6, <1>7, <1>9 DEF Gone, Ended
  <2>3. \A i, j \in 1 .. Len(s) :
          i < j => RanFirst(g, s[i], s[j])
    BY <1>5, <1>6, <1>9 DEF Gone, RanFirst
  <2>4. s \in Seq(Nat)
    BY <1>6 DEF Gone
  <2>5. \A i \in 1 .. Len(s), q \in Promises : \A j \in 1 .. Len(g.reactions[q]) :
          s[i] # g.reactions[q][j].ticket
    BY <1>1, <1>6 DEF Gone
  <2> QED
    BY <2>1, <2>2, <2>3, <2>4, <2>5 DEF Gone
<1>11. ASSUME NEW k \in 1 .. Len(h.on) PROVE Found(g, s, k)
  <2>1. Found(h, s, k)
    BY <1>6
  <2> QED
    BY <1>1, <1>4, <2>1 DEF Found
<1>12. Found(g, s, new)
  BY <1>3, <1>4 DEF Found
<1> QED
  BY <1>5, <1>7, <1>10, <1>11, <1>12 DEF TicketsInv

LEMMA DropsTickets ==
  ASSUME NEW h, NEW g, NEW s, CoreInv(h), Drops(h, g), TicketsInv(h, s)
  PROVE  TicketsInv(g, Append(s, h.jobs[1].ticket))
<1> DEFINE t == h.jobs[1].ticket
           l == Len(s) + 1
           z == Append(s, t)
<1>1. /\ h \in Runtimes /\ g \in Runtimes /\ 1 \in 1 .. Len(h.jobs) /\ Shifts(h, g)
      /\ 1 \in Tasks(h) /\ g.reactions = h.reactions /\ g.on = h.on /\ g.state = h.state
      /\ Queued(h) /\ Waiting(h)
  BY DEF Drops, Tasks, CoreInv
<1>2. /\ \A k \in Tasks(h) : k # 1 => k - 1 \in Tasks(g) /\ g.jobs[k - 1] = h.jobs[k]
      /\ \A i \in Tasks(g) : i + 1 \in Tasks(h) /\ g.jobs[i] = h.jobs[i + 1] /\ i + 1 # 1
  BY <1>1, Shifted
<1>3. Gone(h, s) /\ \A n \in 1 .. Len(h.on) : Found(h, s, n)
  BY DEF TicketsInv
<1>4. /\ t \in 1 .. Len(h.on) /\ t \in Nat /\ Ended(h, h.on[t])
      /\ \A p \in Promises : \A j \in 1 .. Len(h.reactions[p]) : t # h.reactions[p][j].ticket
  BY <1>1, Typed DEF Queued, QueuedTask, Registered, Apart
<1>5. ASSUME NEW k \in Tasks(h), k # 1
      PROVE  RanFirst(h, t, h.jobs[k].ticket)
  <2>1. 1 < k
    BY <1>1, <1>5, AdoptionsFinite, Typed
  <2> QED
    BY <1>1, <2>1 DEF Queued, Apart, InOrder, RanFirst
<1> HIDE DEF t
<1>6. /\ s \in Seq(Nat) /\ Len(s) \in Nat /\ z \in Seq(Nat) /\ Len(z) = l
      /\ \A i \in 1 .. Len(s) : z[i] = s[i] /\ i < l
      /\ z[l] = t /\ l \notin 1 .. Len(s)
      /\ \A i \in 1 .. Len(z) : i \in 1 .. Len(s) \/ i = l
      /\ 1 .. Len(s) \subseteq 1 .. Len(z) /\ l \in 1 .. Len(z)
      /\ \A i \in 1 .. Len(s) : ~(l < i)
      /\ ~(l < l)
  BY <1>3, <1>4 DEF Gone
<1> HIDE DEF z, l
<1>7. ASSUME NEW i \in 1 .. Len(z), NEW k \in Tasks(h), k # 1
      PROVE  RanFirst(h, z[i], h.jobs[k].ticket)
  <2>1. CASE i \in 1 .. Len(s)
    BY <1>3, <1>6, <1>7, <2>1 DEF Gone
  <2>2. CASE i = l
    BY <1>5, <1>6, <1>7, <2>2
  <2> QED
    BY <1>6, <2>1, <2>2
<1>8. ASSUME NEW i \in 1 .. Len(z), NEW k \in Tasks(g)
      PROVE  RanFirst(g, z[i], g.jobs[k].ticket)
  <2>1. k + 1 \in Tasks(h) /\ k + 1 # 1 /\ g.jobs[k] = h.jobs[k + 1]
    BY <1>2
  <2>2. RanFirst(h, z[i], h.jobs[k + 1].ticket)
    BY <1>7, <2>1
  <2> QED
    BY <1>1, <2>1, <2>2 DEF RanFirst
<1>9. ASSUME NEW i \in 1 .. Len(z)
      PROVE  /\ z[i] \in 1 .. Len(g.on) /\ Ended(g, g.on[z[i]])
             /\ \A p \in Promises : \A j \in 1 .. Len(g.reactions[p]) :
                  z[i] # g.reactions[p][j].ticket
  <2>1. CASE i \in 1 .. Len(s)
    <3>1. /\ s[i] \in 1 .. Len(h.on) /\ Ended(h, h.on[s[i]])
          /\ \A p \in Promises : \A j \in 1 .. Len(h.reactions[p]) :
               s[i] # h.reactions[p][j].ticket
      BY <1>3, <2>1, GoneParts
    <3> QED
      <4>1. z[i] = s[i]
        BY <1>6, <2>1
      <4>2. Ended(h, h.on[s[i]]) <=> Ended(g, g.on[s[i]])
        BY <1>1 DEF Ended
      <4> QED
        BY <1>1, <3>1, <4>1, <4>2
  <2>2. CASE i = l
    BY <1>1, <1>4, <1>6, <2>2 DEF Ended
  <2> QED
    BY <1>6, <2>1, <2>2
<1>10. ASSUME NEW i \in 1 .. Len(z), NEW j \in 1 .. Len(z), i < j
       PROVE  RanFirst(g, z[i], z[j])
  <2>1. i \in 1 .. Len(s)
    BY <1>6, <1>10
  <2>2. CASE j \in 1 .. Len(s)
    <3>1. RanFirst(h, s[i], s[j])
      BY <1>3, <1>10, <2>1, <2>2, GoneParts
    <3> QED
      BY <1>1, <1>6, <2>1, <2>2, <3>1 DEF RanFirst
  <2>3. CASE j = l
    <3>1. RanFirst(h, s[i], h.jobs[1].ticket)
      BY <1>1, <1>3, <2>1, GoneParts
    <3> QED
      BY <1>1, <1>6, <2>1, <2>3, <3>1 DEF RanFirst, t
  <2> QED
    BY <1>6, <2>2, <2>3
<1>11. Gone(g, z)
  BY <1>6, <1>8, <1>9, <1>10 DEF Gone
<1>12. ASSUME NEW n \in 1 .. Len(h.on) PROVE Found(g, z, n)
  <2>1. Found(h, s, n)
    BY <1>3
  <2>2. ASSUME NEW k \in Tasks(h), h.jobs[k].ticket = n
        PROVE  Found(g, z, n)
    <3>1. CASE k = 1
      BY <1>6, <2>2, <3>1 DEF Found, t
    <3>2. CASE k # 1
      BY <1>2, <2>2, <3>2 DEF Found
    <3> QED
      BY <3>1, <3>2
  <2> QED
    BY <1>1, <1>6, <2>1, <2>2 DEF Found
<1> QED
  BY <1>1, <1>11, <1>12 DEF TicketsInv, z, t

LEMMA TakesTickets ==
  ASSUME NEW h, NEW g, NEW s, NEW p, NEW pair, Takes(h, g, p, pair), TicketsInv(h, s)
  PROVE  TicketsInv(g, s)
<1>1. /\ h \in Runtimes /\ g \in Runtimes /\ 1 \in 1 .. Len(h.jobs) /\ Shifts(h, g)
      /\ 1 \notin Tasks(h) /\ g.reactions = h.reactions /\ g.on = h.on /\ g.state = h.state
  BY DEF Takes, Tasks, Adoptions
<1>2. /\ \A k \in Tasks(h) : k - 1 \in Tasks(g) /\ g.jobs[k - 1] = h.jobs[k]
      /\ \A i \in Tasks(g) : i + 1 \in Tasks(h) /\ g.jobs[i] = h.jobs[i + 1]
  BY <1>1, Shifted
<1>3. Gone(h, s) /\ \A n \in 1 .. Len(h.on) : Found(h, s, n)
  BY DEF TicketsInv
<1>4. ASSUME NEW i \in 1 .. Len(s), NEW k \in Tasks(g)
      PROVE  RanFirst(g, s[i], g.jobs[k].ticket)
  <2>1. k + 1 \in Tasks(h) /\ g.jobs[k] = h.jobs[k + 1]
    BY <1>2
  <2>2. RanFirst(h, s[i], h.jobs[k + 1].ticket)
    BY <1>3, <2>1, GoneParts
  <2> QED
    BY <1>1, <2>1, <2>2 DEF RanFirst
<1>5. Gone(g, s)
  BY <1>1, <1>3, <1>4 DEF Gone, RanFirst, Ended
<1>6. ASSUME NEW n \in 1 .. Len(h.on) PROVE Found(g, s, n)
  <2>1. Found(h, s, n)
    BY <1>3
  <2> QED
    BY <1>1, <1>2, <2>1 DEF Found
<1> QED
  BY <1>1, <1>5, <1>6 DEF TicketsInv

-----------------------------------------------------------------------------
(* Who may use a pair: U are the pairs not used yet, C those that reactions     *)
(* claim, hd those JavaScript was given, fs the calls in progress.              *)

FrameKinds  == {"script", "eval", "module", "body", "handler", "then"}
Frames      == [kind : FrameKinds, to : Pairs \cup {NoPair}]
OfEngine(f) == f.kind \in {"module", "body", "handler"}

\* Each pair not used is JavaScript's, a reaction's, or of one frame whose end the
\* engine waits for: one of these, never two.
Hands(U, C, hd, fs) ==
  /\ fs \in Seq(Frames)
  /\ hd \cap C = {}
  /\ \A i \in 1 .. Len(fs) : /\ OfEngine(fs[i]) => fs[i].to \in U \ (hd \cup C)
                             /\ fs[i].kind = "then" => fs[i].to \in hd
  /\ \A i, j \in 1 .. Len(fs) :
       OfEngine(fs[i]) /\ OfEngine(fs[j]) /\ fs[i].to = fs[j].to => i = j
  /\ \A x \in U \ (hd \cup C) : \E i \in 1 .. Len(fs) : OfEngine(fs[i]) /\ fs[i].to = x

LEMMA HandsChange ==
  ASSUME NEW U, NEW C, NEW hd, NEW fs, Hands(U, C, hd, fs), NEW x
  PROVE  /\ x \in hd => Hands(U \ {x}, C, hd, fs)
         /\ x \notin U \cup C \cup hd => /\ Hands(U \cup {x}, C \cup {x}, hd, fs)
                                         /\ Hands(U \cup {x}, C, hd \cup {x}, fs)
         /\ x \in C => Hands(U \ {x}, C \ {x}, hd, fs)
         /\ x \notin U => Hands(U \ {x}, C, hd, fs)
<1>1. /\ fs \in Seq(Frames)
      /\ hd \cap C = {}
      /\ \A i \in 1 .. Len(fs) : /\ OfEngine(fs[i]) => fs[i].to \in U \ (hd \cup C)
                                 /\ fs[i].kind = "then" => fs[i].to \in hd
      /\ \A i, j \in 1 .. Len(fs) :
           OfEngine(fs[i]) /\ OfEngine(fs[j]) /\ fs[i].to = fs[j].to => i = j
      /\ \A y \in U \ (hd \cup C) : \E i \in 1 .. Len(fs) : OfEngine(fs[i]) /\ fs[i].to = y
  BY DEF Hands
<1> HIDE DEF Hands
<1>2. ASSUME x \in hd PROVE Hands(U \ {x}, C, hd, fs)
  BY <1>1, <1>2 DEF Hands
<1>3. ASSUME x \notin U \cup C \cup hd PROVE Hands(U \cup {x}, C \cup {x}, hd, fs)
  BY <1>1, <1>3 DEF Hands
<1>4. ASSUME x \notin U \cup C \cup hd PROVE Hands(U \cup {x}, C, hd \cup {x}, fs)
  BY <1>1, <1>4 DEF Hands
<1>5. ASSUME x \in C PROVE Hands(U \ {x}, C \ {x}, hd, fs)
  BY <1>1, <1>5 DEF Hands
<1>6. ASSUME x \notin U PROVE Hands(U \ {x}, C, hd, fs)
  <2>1. U \ {x} = U
    BY <1>6
  <2> QED
    BY <2>1
<1> QED
  BY <1>2, <1>3, <1>4, <1>5, <1>6

LEMMA Pushed ==
  ASSUME NEW fs \in Seq(Frames), NEW f \in Frames
  PROVE  /\ Append(fs, f) \in Seq(Frames)
         /\ \A i \in 1 .. Len(Append(fs, f)) :
              \/ i \in 1 .. Len(fs) /\ Append(fs, f)[i] = fs[i]
              \/ i = Len(fs) + 1 /\ Append(fs, f)[i] = f
         /\ \A i \in 1 .. Len(fs) :
              i \in 1 .. Len(Append(fs, f)) /\ Append(fs, f)[i] = fs[i]
         /\ Len(fs) + 1 \in 1 .. Len(Append(fs, f)) /\ Append(fs, f)[Len(fs) + 1] = f
OBVIOUS

\* A call begins: the engine waits for its end, or does not.
LEMMA HandsPush ==
  ASSUME NEW U, NEW C, NEW hd, NEW fs, Hands(U, C, hd, fs), NEW f \in Frames
  PROVE  /\ ~OfEngine(f) /\ (f.kind = "then" => f.to \in hd) => Hands(U, C, hd, Append(fs, f))
         /\ OfEngine(f) /\ f.to \notin U \cup C \cup hd
              => Hands(U \cup {f.to}, C, hd, Append(fs, f))
<1> DEFINE l == Append(fs, f)
<1>1. /\ fs \in Seq(Frames)
      /\ hd \cap C = {}
      /\ \A i \in 1 .. Len(fs) : /\ OfEngine(fs[i]) => fs[i].to \in U \ (hd \cup C)
                                 /\ fs[i].kind = "then" => fs[i].to \in hd
      /\ \A i, j \in 1 .. Len(fs) :
           OfEngine(fs[i]) /\ OfEngine(fs[j]) /\ fs[i].to = fs[j].to => i = j
      /\ \A y \in U \ (hd \cup C) : \E i \in 1 .. Len(fs) : OfEngine(fs[i]) /\ fs[i].to = y
  BY DEF Hands
<1>2. /\ l \in Seq(Frames)
      /\ \A i \in 1 .. Len(l) : \/ i \in 1 .. Len(fs) /\ l[i] = fs[i]
                                \/ i = Len(fs) + 1 /\ l[i] = f
      /\ \A i \in 1 .. Len(fs) : i \in 1 .. Len(l) /\ l[i] = fs[i]
      /\ Len(fs) + 1 \in 1 .. Len(l) /\ l[Len(fs) + 1] = f
  BY <1>1, Pushed
<1> DEFINE n == Len(fs) + 1
<1> HIDE DEF l
<1>3. ASSUME ~OfEngine(f), f.kind = "then" => f.to \in hd
      PROVE  Hands(U, C, hd, l)
  <2>1. ASSUME NEW i \in 1 .. Len(l)
        PROVE  /\ OfEngine(l[i]) => l[i].to \in U \ (hd \cup C)
               /\ l[i].kind = "then" => l[i].to \in hd
    BY <1>1, <1>2, <1>3
  <2>2. ASSUME NEW i \in 1 .. Len(l), NEW j \in 1 .. Len(l),
               OfEngine(l[i]), OfEngine(l[j]), l[i].to = l[j].to
        PROVE  i = j
    BY <1>1, <1>2, <1>3, <2>2
  <2>3. ASSUME NEW y \in U \ (hd \cup C)
        PROVE  \E i \in 1 .. Len(l) : OfEngine(l[i]) /\ l[i].to = y
    BY <1>1, <1>2
  <2> QED
    BY <1>1, <1>2, <2>1, <2>2, <2>3 DEF Hands
<1>4. ASSUME OfEngine(f), f.to \notin U \cup C \cup hd
      PROVE  Hands(U \cup {f.to}, C, hd, l)
  <2>0. f.kind # "then"
    BY <1>4 DEF OfEngine
  <2>1. ASSUME NEW i \in 1 .. Len(l)
        PROVE  /\ OfEngine(l[i]) => l[i].to \in (U \cup {f.to}) \ (hd \cup C)
               /\ l[i].kind = "then" => l[i].to \in hd
    BY <1>1, <1>2, <1>4, <2>0
  <2>2. ASSUME NEW i \in 1 .. Len(l), NEW j \in 1 .. Len(l),
               OfEngine(l[i]), OfEngine(l[j]), l[i].to = l[j].to
        PROVE  i = j
    BY <1>1, <1>2, <1>4, <2>2
  <2>3. ASSUME NEW y \in (U \cup {f.to}) \ (hd \cup C)
        PROVE  \E i \in 1 .. Len(l) : OfEngine(l[i]) /\ l[i].to = y
    BY <1>1, <1>2, <1>4
  <2> QED
    BY <1>1, <1>2, <2>1, <2>2, <2>3 DEF Hands
<1> QED
  BY <1>3, <1>4 DEF l

LEMMA CutShort ==
  ASSUME NEW fs, fs \in Seq(Frames), Len(fs) > 0
  PROVE  /\ Len(fs) \in Nat /\ Len(fs) \in 1 .. Len(fs) /\ fs[Len(fs)] \in Frames
         /\ SubSeq(fs, 1, Len(fs) - 1) \in Seq(Frames)
         /\ Len(SubSeq(fs, 1, Len(fs) - 1)) = Len(fs) - 1
         /\ \A i \in 1 .. Len(fs) - 1 : SubSeq(fs, 1, Len(fs) - 1)[i] = fs[i]
<1>1. Len(fs) \in Nat /\ Len(fs) \in 1 .. Len(fs) /\ fs[Len(fs)] \in Frames
  OBVIOUS
<1>2. /\ SubSeq(fs, 1, Len(fs) - 1) \in Seq(Frames)
      /\ Len(SubSeq(fs, 1, Len(fs) - 1)) = Len(fs) - 1
      /\ \A i \in 1 .. Len(fs) - 1 : SubSeq(fs, 1, Len(fs) - 1)[i] = fs[i]
  <2>1. \A i \in 1 .. Len(fs) : fs[i] \in Frames
    OBVIOUS
  <2>2. \A m \in Nat : m < Len(fs) => /\ SubSeq(fs, 1, m) \in Seq(Frames)
                                     /\ Len(SubSeq(fs, 1, m)) = m
                                     /\ \A i \in 1 .. m : SubSeq(fs, 1, m)[i] = fs[i]
    <3>1. ASSUME NEW m \in Nat, m < Len(fs)
          PROVE  /\ SubSeq(fs, 1, m) \in Seq(Frames)
                 /\ Len(SubSeq(fs, 1, m)) = m
                 /\ \A i \in 1 .. m : SubSeq(fs, 1, m)[i] = fs[i]
      <4>1. \A i \in 1 .. m : fs[i] \in Frames
        BY <1>1, <2>1, <3>1
      <4> QED
        BY <4>1, SubSeqProperties
    <3> QED
      BY <3>1
  <2>3. Len(fs) - 1 \in Nat /\ Len(fs) - 1 < Len(fs)
    BY <1>1
  <2> QED
    BY <2>2, <2>3
<1> QED
  BY <1>1, <1>2

\* The innermost call ends.
LEMMA HandsPop ==
  ASSUME NEW U, NEW C, NEW hd, NEW fs, Hands(U, C, hd, fs), Len(fs) > 0
  PROVE  LET f == fs[Len(fs)]
             l == SubSeq(fs, 1, Len(fs) - 1)
         IN  /\ f \in Frames
             /\ f.kind = "then" => f.to \in hd
             /\ OfEngine(f) => /\ f.to \in U \ (hd \cup C)
                               /\ Hands(U \ {f.to}, C, hd, l)
             /\ ~OfEngine(f) => Hands(U, C, hd, l)
<1> DEFINE n == Len(fs)
           f == fs[n]
           l == SubSeq(fs, 1, n - 1)
<1>1. /\ fs \in Seq(Frames)
      /\ hd \cap C = {}
      /\ \A i \in 1 .. n : /\ OfEngine(fs[i]) => fs[i].to \in U \ (hd \cup C)
                           /\ fs[i].kind = "then" => fs[i].to \in hd
      /\ \A i, j \in 1 .. n :
           OfEngine(fs[i]) /\ OfEngine(fs[j]) /\ fs[i].to = fs[j].to => i = j
      /\ \A y \in U \ (hd \cup C) : \E i \in 1 .. n : OfEngine(fs[i]) /\ fs[i].to = y
  BY DEF Hands
<1>2. /\ n \in Nat /\ n \in 1 .. n /\ f \in Frames
      /\ l \in Seq(Frames) /\ Len(l) = n - 1
      /\ \A i \in 1 .. n - 1 : l[i] = fs[i]
  BY <1>1, CutShort
<1> HIDE DEF l, n
<1>3. /\ \A i \in 1 .. Len(l) : i \in 1 .. n /\ i # n /\ l[i] = fs[i]
      /\ \A i \in 1 .. n : i # n => i \in 1 .. Len(l) /\ l[i] = fs[i]
  BY <1>2
<1>4. ASSUME OfEngine(f) PROVE Hands(U \ {f.to}, C, hd, l)
  <2>1. ASSUME NEW i \in 1 .. Len(l)
        PROVE  /\ OfEngine(l[i]) => l[i].to \in (U \ {f.to}) \ (hd \cup C)
               /\ l[i].kind = "then" => l[i].to \in hd
    BY <1>1, <1>2, <1>3, <1>4
  <2>2. ASSUME NEW i \in 1 .. Len(l), NEW j \in 1 .. Len(l),
               OfEngine(l[i]), OfEngine(l[j]), l[i].to = l[j].to
        PROVE  i = j
    BY <1>1, <1>3, <2>2
  <2>3. ASSUME NEW y \in (U \ {f.to}) \ (hd \cup C)
        PROVE  \E i \in 1 .. Len(l) : OfEngine(l[i]) /\ l[i].to = y
    BY <1>1, <1>3
  <2> QED
    BY <1>1, <1>2, <2>1, <2>2, <2>3 DEF Hands
<1>5. ASSUME ~OfEngine(f) PROVE Hands(U, C, hd, l)
  <2>1. ASSUME NEW i \in 1 .. Len(l)
        PROVE  /\ OfEngine(l[i]) => l[i].to \in U \ (hd \cup C)
               /\ l[i].kind = "then" => l[i].to \in hd
    BY <1>1, <1>3
  <2>2. ASSUME NEW i \in 1 .. Len(l), NEW j \in 1 .. Len(l),
               OfEngine(l[i]), OfEngine(l[j]), l[i].to = l[j].to
        PROVE  i = j
    BY <1>1, <1>3, <2>2
  <2>3. ASSUME NEW y \in U \ (hd \cup C)
        PROVE  \E i \in 1 .. Len(l) : OfEngine(l[i]) /\ l[i].to = y
    BY <1>1, <1>3, <1>5
  <2> QED
    BY <1>1, <1>2, <2>1, <2>2, <2>3 DEF Hands
<1> QED
  BY <1>1, <1>2, <1>4, <1>5 DEF l, n

-----------------------------------------------------------------------------
(* The functions of the engine keep what the invariant says of a runtime, of    *)
(* the pairs JavaScript was given, of what it sees, and of what ran.            *)

Sound(h, hd, vis, s) ==
  /\ EngineInv(h)
  /\ TicketsInv(h, s)
  /\ \A x \in hd : x \in Pairs /\ Known(h, x)
  /\ vis \subseteq 1 .. h.made
  /\ \A p \in Promises : h.adopts[p] \cap Promises \subseteq 1 .. h.made

LEMMA SoundType ==
  ASSUME NEW h, NEW hd, NEW vis, NEW s, Sound(h, hd, vis, s)
  PROVE  /\ h \in Runtimes /\ CoreInv(h) /\ h.made \in Nat /\ 1 .. h.made \subseteq Promises
         /\ \A p \in 1 .. h.made : h.state[p] # "pending" => Ended(h, p)
         /\ h.unresolved \subseteq Pairs
         /\ \A x \in h.unresolved : Known(h, x) /\ h.state[x[1]] = "pending"
         /\ hd \subseteq Pairs
<1>1. h \in Runtimes /\ CoreInv(h) /\ Making(h) /\ Chances(h)
  BY DEF Sound, EngineInv, CoreInv
<1>2. h.made \in Nat /\ h.made <= MaxPromises /\ h.state \in [Promises -> States]
      /\ h.unresolved \subseteq Pairs
  BY <1>1, Typed
<1>3. 1 .. h.made \subseteq Promises
  BY <1>2, BoundsAssumption DEF Promises
<1>4. ASSUME NEW p \in 1 .. h.made, h.state[p] # "pending" PROVE Ended(h, p)
  BY <1>1, <1>2, <1>3, <1>4 DEF Making, Ended, States
<1> QED
  BY <1>1, <1>2, <1>3, <1>4 DEF Making, Chances, Sound

LEMMA SoundLess ==
  ASSUME NEW h, NEW hd, NEW vis, NEW s, Sound(h, hd, vis, s),
         NEW hd2 \in SUBSET hd, NEW vis2 \in SUBSET vis
  PROVE  Sound(h, hd2, vis2, s)
BY DEF Sound

LEMMA SoundMakes ==
  ASSUME NEW h, NEW hd, NEW vis, NEW s, Sound(h, hd, vis, s), HasRoom(h)
  PROVE  LET g   == NewPromise(h)
             new == <<NewOf(h), 0>>
         IN  /\ Sound(g, hd \cup {new}, vis \cup {NewOf(h)}, s)
             /\ g.unresolved = h.unresolved \cup {new}
             /\ Claimed(g) = Claimed(h)
             /\ new \in Pairs /\ new \notin h.unresolved \cup Claimed(h) \cup hd
             /\ g.made = NewOf(h) /\ NewOf(h) \in Promises /\ new[1] = NewOf(h)
             /\ \A n : RoomFor(h, n) => RoomFor(g, n)
<1> DEFINE g   == NewPromise(h)
           new == <<NewOf(h), 0>>
<1>1. /\ h \in Runtimes /\ CoreInv(h) /\ h.made \in Nat
      /\ \A x \in h.unresolved : Known(h, x)
      /\ hd \cup h.unresolved \subseteq Pairs
  BY SoundType
<1>2. Makes(h, g)
  BY <1>1, NewPromiseIs
<1>3. /\ NewOf(h) = h.made + 1 /\ NewOf(h) \in Promises /\ g.made = NewOf(h)
      /\ g.unresolved = h.unresolved \cup {new}
      /\ g.chain = h.chain /\ g.adopts = h.adopts /\ g.jobs = h.jobs /\ g.on = h.on
  BY <1>2 DEF Makes, NewOf
<1> HIDE DEF g
<1>4. EngineInv(g) /\ TicketsInv(g, s) /\ Claimed(g) = Claimed(h)
  BY <1>1, <1>2, MakesAdopts, MakesTickets, SameClaimed DEF Sound
<1>5. new \in Pairs /\ new[1] = NewOf(h) /\ new[2] = 0
  BY <1>3, BoundsAssumption DEF Pairs
<1>6. \A x \in h.unresolved \cup hd : x[1] <= h.made
  BY <1>1 DEF Sound, Known
<1>7. Claimed(h) \subseteq h.unresolved
  BY <1>1, ClaimedLive
<1>8. new \notin h.unresolved \cup Claimed(h) \cup hd
  BY <1>1, <1>3, <1>5, <1>6, <1>7
<1>9. Known(g, new)
  <2>1. new \in g.unresolved
    BY <1>3
  <2> QED
    BY <1>4, <2>1 DEF EngineInv, CoreInv, Making
<1>10. ASSUME NEW x \in hd PROVE Known(g, x)
  <2>1. x \in Pairs /\ Known(h, x) /\ x[1] \in Nat
    BY <1>1, PairType DEF Sound
  <2> QED
    BY <1>1, <1>3, <2>1 DEF Known
<1>11. 1 .. h.made \subseteq 1 .. g.made /\ NewOf(h) \in 1 .. g.made
  BY <1>1, <1>3
<1>12. Sound(g, hd \cup {new}, vis \cup {NewOf(h)}, s)
  BY <1>1, <1>3, <1>4, <1>5, <1>9, <1>10, <1>11 DEF Sound
<1>13. \A n : RoomFor(h, n) => RoomFor(g, n)
  BY <1>3 DEF RoomFor
<1> QED
  BY <1>3, <1>4, <1>5, <1>8, <1>12, <1>13 DEF g

LEMMA ResolveRoom ==
  ASSUME NEW h, NEW g, h \in Runtimes, g \in Runtimes, g.on = h.on, RoomFor(h, 2),
         \/ Adoptions(g) = Adoptions(h)
         \/ \E n : Adoptions(g) = Adoptions(h) \cup {n} /\ n \notin Adoptions(h)
  PROVE  RoomFor(g, 1)
<1>1. Len(h.on) + Cardinality(Adoptions(h)) + 2 <= MaxThens
  BY DEF RoomFor, Adoptions
<1>2. /\ Len(h.on) \in Nat /\ Len(g.on) = Len(h.on)
      /\ Cardinality(Adoptions(h)) \in Nat /\ IsFiniteSet(Adoptions(h))
      /\ Cardinality(Adoptions(g)) \in Nat
  BY Typed, AdoptionsFinite
<1>3. Cardinality(Adoptions(g)) <= Cardinality(Adoptions(h)) + 1
  <2>1. CASE Adoptions(g) = Adoptions(h)
    BY <1>2, <2>1
  <2>2. ASSUME NEW n, Adoptions(g) = Adoptions(h) \cup {n}, n \notin Adoptions(h)
        PROVE  Cardinality(Adoptions(g)) <= Cardinality(Adoptions(h)) + 1
    <3>1. Cardinality(Adoptions(h) \cup {n}) = Cardinality(Adoptions(h)) + 1
      BY <1>2, <2>2, FS_AddElement
    <3>2. Cardinality(Adoptions(g)) = Cardinality(Adoptions(h)) + 1
      BY <2>2, <3>1
    <3> QED
      BY <1>2, <3>2
  <2> QED
    BY <2>1, <2>2
<1> DEFINE c == Cardinality(Adoptions(g))
           d == Cardinality(Adoptions(h))
<1>4. Len(g.on) + c + 1 <= MaxThens
  <2>1. c \in Nat /\ d \in Nat /\ c <= d + 1 /\ Len(h.on) + d + 2 <= MaxThens
    BY <1>1, <1>2, <1>3
  <2> HIDE DEF c, d
  <2> QED
    BY <1>2, <2>1, BoundsAssumption
<1> QED
  BY <1>4 DEF RoomFor, Adoptions

LEMMA SoundFulfils ==
  ASSUME NEW h, NEW hd, NEW vis, NEW s, Sound(h, hd, vis, s),
         NEW g, NEW pair, NEW p, NEW outcome, NEW v,
         Fulfils(h, g, pair, p, outcome, v), pair \notin Claimed(h)
  PROVE  /\ Sound(g, hd, vis, s)
         /\ g.unresolved = h.unresolved \ {pair} /\ Claimed(g) = Claimed(h) /\ g.made = h.made
         /\ RoomFor(h, 2) => RoomFor(g, 1)
<1>1. CoreInv(h) /\ Waiting(h) /\ EngineInv(h) /\ TicketsInv(h, s)
  BY DEF Sound, EngineInv, CoreInv
<1>2. /\ h \in Runtimes /\ g \in Runtimes
      /\ p \in Promises /\ pair[1] = p /\ pair \in h.unresolved
      /\ g.unresolved = h.unresolved \ {pair}
      /\ g.made = h.made /\ g.chain = h.chain /\ g.on = h.on /\ g.adopts = h.adopts
  BY DEF Fulfils, Closes
<1>3. h.adopts[p] \cap Promises = {}
  BY <1>1, <1>2, FollowsNone DEF EngineInv
<1>4. EngineInv(g)
  BY <1>1, <1>3, FulfilsAdopts DEF EngineInv
<1>5. TicketsInv(g, s) /\ Claimed(g) = Claimed(h)
  BY <1>1, FulfilsTickets, FulfilsClaimed
<1>6. Adoptions(g) = Adoptions(h)
  BY <1>1, FulfilsTasks
<1> QED
  BY <1>2, <1>4, <1>5, <1>6, ResolveRoom DEF Sound, Known

LEMMA SoundFollows ==
  ASSUME NEW h, NEW hd, NEW vis, NEW s, Sound(h, hd, vis, s),
         NEW g, NEW pair, NEW p, NEW v,
         Follows(h, g, pair, p, v), pair \notin Claimed(h),
         h.chain[p] < MaxChain, RoomFor(h, 1), v \in {Thenable} \cup 1 .. h.made
  PROVE  /\ Sound(g, hd, vis, s)
         /\ g.unresolved = h.unresolved \ {pair} /\ Claimed(g) = Claimed(h) /\ g.made = h.made
         /\ RoomFor(h, 2) => RoomFor(g, 1)
<1>1. CoreInv(h) /\ EngineInv(h) /\ TicketsInv(h, s)
  BY DEF Sound, EngineInv
<1>2. /\ h \in Runtimes /\ g \in Runtimes
      /\ p \in Promises /\ pair \in h.unresolved
      /\ g.unresolved = h.unresolved \ {pair}
      /\ g.adopts[p] = h.adopts[p] \cup {v}
      /\ \A q \in Promises : q # p => g.adopts[q] = h.adopts[q]
      /\ g.made = h.made /\ g.chain = h.chain /\ g.on = h.on
  BY DEF Follows
<1>3. EngineInv(g) /\ TicketsInv(g, s) /\ Claimed(g) = Claimed(h)
  BY <1>1, FollowsAdopts, FollowsTickets, SameClaimed
<1>4. \E n : Adoptions(g) = Adoptions(h) \cup {n} /\ n \notin Adoptions(h)
  <2>1. /\ Len(g.jobs) = Len(h.jobs) + 1
        /\ \A i \in 1 .. Len(h.jobs) : g.jobs[i] = h.jobs[i]
        /\ g.jobs[Len(h.jobs) + 1].kind = "thenable"
    BY DEF Follows
  <2> QED
    BY ZenonT(60), <1>2, <2>1, FollowsTasks
<1>5. \A q \in Promises : g.adopts[q] \cap Promises \subseteq 1 .. g.made
  <2>1. Thenable \notin Promises
    BY ValuesAssumption
  <2> QED
    BY <1>2, <2>1 DEF Sound
<1>6. Sound(g, hd, vis, s)
  BY <1>2, <1>3, <1>5 DEF Sound, Known
<1> QED
  BY <1>2, <1>3, <1>4, <1>6, ResolveRoom

\* A call of a resolving function with v, and what it leaves.
MayResolve(h, pair, v, rejected) ==
  /\ rejected \in BOOLEAN
  /\ v \in Values \cup {Thenable, BadThen} \cup 1 .. h.made
  /\ rejected => v \in Values
  /\ pair \notin Claimed(h)
  /\ HasThen(v) => h.chain[pair[1]] < MaxChain /\ RoomFor(h, 1)

Resolved(h, g, pair, hd, vis, s) ==
  /\ Sound(g, hd, vis, s)
  /\ g.unresolved = h.unresolved \ {pair} /\ Claimed(g) = Claimed(h) /\ g.made = h.made
  /\ RoomFor(h, 2) => RoomFor(g, 1)

LEMMA SoundResolve ==
  ASSUME NEW h, NEW hd, NEW vis, NEW s, Sound(h, hd, vis, s),
         NEW pair, NEW v, NEW rejected, MayResolve(h, pair, v, rejected)
  PROVE  Resolved(h, Resolve(h, pair, v, rejected), pair, hd, vis, s)
<1> DEFINE g == Resolve(h, pair, v, rejected)
<1>0. /\ rejected \in BOOLEAN
      /\ v \in Values \cup {Thenable, BadThen} \cup 1 .. h.made
      /\ rejected => v \in Values
      /\ pair \notin Claimed(h)
      /\ HasThen(v) => h.chain[pair[1]] < MaxChain /\ RoomFor(h, 1)
  BY DEF MayResolve
<1>1. /\ h \in Runtimes /\ h.made \in Nat /\ 1 .. h.made \subseteq Promises
      /\ \A x \in h.unresolved : h.state[x[1]] = "pending"
  BY SoundType
<1>2. CASE pair \notin h.unresolved
  <2>1. g = h /\ h.unresolved \ {pair} = h.unresolved
    BY <1>2 DEF Resolve
  <2>2. ASSUME RoomFor(h, 2) PROVE RoomFor(h, 1)
    <3>1. RoomFor(h, 2) /\ (Adoptions(h) = Adoptions(h))
      BY <2>2
    <3> QED
      BY <1>1, <3>1, ResolveRoom
  <2> QED
    BY <2>1, <2>2 DEF Resolved
<1>3. CASE pair \in h.unresolved
  <2>1. \/ v \in Values /\ Fulfils(h, g, pair, pair[1], Outcome(rejected), v)
        \/ v \notin Values /\ Fulfils(h, g, pair, pair[1], "rejected", TypeError)
        \/ v \notin Values /\ Follows(h, g, pair, pair[1], v)
    BY <1>0, <1>1, <1>3, ResolveIs
  <2> HIDE DEF g
  <2>2. ASSUME NEW outcome, NEW w, Fulfils(h, g, pair, pair[1], outcome, w)
        PROVE  Resolved(h, g, pair, hd, vis, s)
    BY <1>0, <2>2, SoundFulfils DEF Resolved
  <2>3. ASSUME Follows(h, g, pair, pair[1], v)
        PROVE  Resolved(h, g, pair, hd, vis, s)
    <3>1. v \in {Thenable} \cup Promises
      BY <2>3 DEF Follows
    <3>2. HasThen(v)
      BY <3>1 DEF HasThen
    <3>3. v \in {Thenable} \cup 1 .. h.made
      BY <1>0, <3>1, ValuesAssumption
    <3> QED
      BY <1>0, <2>3, <3>2, <3>3, SoundFollows DEF Resolved
  <2> QED
    BY <2>1, <2>2, <2>3 DEF g
<1> QED
  BY <1>2, <1>3

LEMMA SoundThen ==
  ASSUME NEW h, NEW hd, NEW vis, NEW s, Sound(h, hd, vis, s),
         NEW p \in 1 .. h.made, NEW kind \in Kinds, kind # "settle",
         NEW to \in h.unresolved \ Claimed(h), RoomFor(h, 1)
  PROVE  LET g == PerformThen(h, p, kind, to)
         IN  /\ Sound(g, hd, vis, s)
             /\ g.unresolved = h.unresolved /\ Claimed(g) = Claimed(h) \cup {to}
             /\ g.made = h.made
<1> DEFINE g == PerformThen(h, p, kind, to)
<1>1. /\ h \in Runtimes /\ CoreInv(h) /\ p \in Promises /\ to \in Pairs
      /\ h.state[p] # "pending" => Ended(h, p)
  BY SoundType
<1>2. EngineInv(h) /\ TicketsInv(h, s)
  BY DEF Sound
<1>3. CASE h.state[p] = "pending"
  <2>1. Registers(h, g, p, kind, to)
    BY <1>1, <1>3, RegisterType
  <2> HIDE DEF g
  <2>2. g.unresolved = h.unresolved /\ g.made = h.made /\ g.chain = h.chain
        /\ g.adopts = h.adopts
    BY <2>1 DEF Registers
  <2>3. CoreInv(g) /\ TicketsInv(g, s) /\ Claimed(g) = Claimed(h) \cup {to}
    BY <1>1, <1>2, <2>1, RegistersCore, RegistersTickets, RegistersClaimed
  <2>4. \A x, q \in Promises : Follower(h, x, q) => Follower(g, x, q)
    BY <1>1, <2>1, RegistersAdopts
  <2>5. EngineInv(g)
    BY <1>2, <2>2, <2>3, <2>4 DEF EngineInv, AdoptsInv
  <2> QED
    BY <2>2, <2>3, <2>5 DEF Sound, Known, g
<1>4. CASE h.state[p] # "pending"
  <2>1. Queues(h, g, p, kind, to)
    BY <1>1, <1>4, QueueType
  <2> HIDE DEF g
  <2>2. g.unresolved = h.unresolved /\ g.made = h.made /\ g.chain = h.chain
        /\ g.adopts = h.adopts
    BY <2>1 DEF Queues
  <2>3. CoreInv(g) /\ TicketsInv(g, s) /\ Claimed(g) = Claimed(h) \cup {to}
    BY <1>1, <1>2, <1>4, <2>1, QueuesCore, QueuesTickets, QueuesClaimed
  <2>4. \A x, q \in Promises : Follower(h, x, q) => Follower(g, x, q)
    BY <1>1, <2>1, QueuesAdopts
  <2>5. EngineInv(g)
    BY <1>2, <2>2, <2>3, <2>4 DEF EngineInv, AdoptsInv
  <2> QED
    BY <2>2, <2>3, <2>5 DEF Sound, Known, g
<1> QED
  BY <1>3, <1>4

-----------------------------------------------------------------------------
(* The inductive invariant *)

IInv ==
  /\ Sound(rt, held, visible, ran)
  /\ Hands(rt.unresolved, Claimed(rt), held, frames)

LEMMA InitInv == Init => IInv
<1>1. SUFFICES ASSUME Init PROVE IInv
  OBVIOUS
<1> DEFINE h == NewRuntime
<1>2. /\ h \in Runtimes
      /\ h.made = 0 /\ h.unresolved = {} /\ h.jobs = <<>> /\ h.on = <<>>
      /\ \A p \in Promises : /\ h.state[p] = "none" /\ h.reactions[p] = <<>>
                             /\ h.chain[p] = 0 /\ h.adopts[p] = {}
  BY NewRuntimeType DEF NewRuntime
<1>3. rt = h /\ frames = <<>> /\ held = {} /\ visible = {} /\ ran = <<>>
  BY <1>1 DEF Init
<1> HIDE DEF h
<1>4. Tasks(h) = {} /\ Adoptions(h) = {} /\ Claimed(h) = {}
  <2>1. Len(h.jobs) = 0 /\ \A p \in Promises : Len(h.reactions[p]) = 0
    BY <1>2
  <2>2. Tasks(h) = {} /\ Adoptions(h) = {}
    BY <2>1 DEF Tasks, Adoptions
  <2> QED
    BY <2>1, <2>2 DEF Claimed
<1>5. Room(h)
  <2>1. Len(h.on) = 0 /\ Cardinality(Adoptions(h)) = 0
    BY <1>2, <1>4, FS_EmptySet
  <2> QED
    BY <1>4, <2>1, BoundsAssumption DEF Room
<1>6. Making(h)
  BY <1>2 DEF Making, Promises
<1>7. Chances(h) /\ Adopting(h)
  BY <1>2, <1>4 DEF Chances, Adopting
<1>8. Waiting(h) /\ Queued(h)
  <2>1. \A p \in Promises : Len(h.reactions[p]) = 0
    BY <1>2
  <2>2. Waiting(h)
    BY <1>2, <2>1 DEF Waiting, WaitingFor
  <2> QED
    BY <1>4, <2>2 DEF Queued
<1>9. EngineInv(h)
  BY <1>2, <1>5, <1>6, <1>7, <1>8 DEF EngineInv, CoreInv, AdoptsInv
<1>10. TicketsInv(h, <<>>)
  <2>1. Len(h.on) = 0
    BY <1>2
  <2>2. Gone(h, <<>>)
    BY DEF Gone
  <2> QED
    BY <2>1, <2>2 DEF TicketsInv
<1>11. Sound(h, {}, {}, <<>>)
  BY <1>2, <1>9, <1>10 DEF Sound
<1>12. Hands({}, {}, {}, <<>>)
  BY DEF Hands
<1> QED
  BY <1>2, <1>3, <1>4, <1>11, <1>12 DEF IInv

LEMMA ThingsType ==
  ASSUME IInv
  PROVE  /\ Things \subseteq Values \cup {Thenable, BadThen} \cup 1 .. rt.made
         /\ Values \subseteq Values \cup {Thenable, BadThen} \cup 1 .. rt.made
         /\ visible \subseteq 1 .. rt.made
         /\ Undefined \in Values
BY ValuesAssumption DEF IInv, Sound, Things

LEMMA FitsMeans ==
  ASSUME NEW h, NEW pair \in Pairs, NEW v, Fits(h, pair, v)
  PROVE  HasThen(v) => h.chain[pair[1]] < MaxChain /\ RoomFor(h, 1)
<1>1. pair # NoPair
  BY DEF Pairs, NoPair
<1> QED
  BY <1>1 DEF Fits

LEMMA StepNewPromise ==
  ASSUME IInv, JsNewPromise
  PROVE  IInv'
<1> DEFINE g   == NewPromise(rt)
           new == <<NewOf(rt), 0>>
<1>1. /\ rt' = g /\ visible' = visible \cup {NewOf(rt)} /\ held' = held \cup {new}
      /\ frames' = frames /\ ran' = ran /\ HasRoom(rt)
      /\ Sound(rt, held, visible, ran) /\ Hands(rt.unresolved, Claimed(rt), held, frames)
  BY DEF JsNewPromise, IInv
<1>2. /\ Sound(g, held \cup {new}, visible \cup {NewOf(rt)}, ran)
      /\ g.unresolved = rt.unresolved \cup {new}
      /\ Claimed(g) = Claimed(rt)
      /\ new \notin rt.unresolved \cup Claimed(rt) \cup held
  BY <1>1, SoundMakes
<1> HIDE DEF g, new
<1>3. Hands(rt.unresolved \cup {new}, Claimed(rt), held \cup {new}, frames)
  BY <1>1, <1>2, HandsChange
<1> QED
  BY <1>1, <1>2, <1>3 DEF IInv

LEMMA StepResolves ==
  ASSUME IInv, NEW pair \in held, NEW v \in Things, NEW rejected \in BOOLEAN,
         JsResolves(pair, v, rejected)
  PROVE  IInv'
<1> DEFINE g == Resolve(rt, pair, v, rejected)
<1>1. /\ rt' = g /\ visible' = visible /\ held' = held /\ frames' = frames /\ ran' = ran
      /\ Fits(rt, pair, v)
      /\ rejected => v \in Values
      /\ Sound(rt, held, visible, ran) /\ Hands(rt.unresolved, Claimed(rt), held, frames)
  BY DEF JsResolves, IInv
<1>2. pair \in Pairs /\ pair \notin Claimed(rt)
  BY <1>1 DEF Sound, Hands
<1>3. HasThen(v) => rt.chain[pair[1]] < MaxChain /\ RoomFor(rt, 1)
  <2>1. Fits(rt, pair, v) /\ pair \in Pairs
    BY <1>1, <1>2
  <2> QED
    BY <2>1, FitsMeans
<1>4. v \in Values \cup {Thenable, BadThen} \cup 1 .. rt.made
  BY ThingsType
<1>5. MayResolve(rt, pair, v, rejected)
  BY <1>1, <1>2, <1>3, <1>4 DEF MayResolve
<1>6. Resolved(rt, g, pair, held, visible, ran)
  BY <1>1, <1>5, SoundResolve
<1> HIDE DEF g
<1>7. Hands(rt.unresolved \ {pair}, Claimed(rt), held, frames)
  BY <1>1, HandsChange
<1> QED
  BY <1>1, <1>6, <1>7 DEF IInv, Resolved

LEMMA StepThen ==
  ASSUME IInv, NEW p \in visible, NEW kind \in UserKinds, JsThen(p, kind)
  PROVE  IInv'
<1> DEFINE h   == NewPromise(rt)
           new == <<NewOf(rt), 0>>
           g   == PerformThen(h, p, kind, new)
<1>1. /\ rt' = g /\ visible' = visible \cup {NewOf(rt)} /\ held' = held
      /\ frames' = frames /\ ran' = ran /\ HasRoom(rt) /\ RoomFor(rt, 1)
      /\ Sound(rt, held, visible, ran) /\ Hands(rt.unresolved, Claimed(rt), held, frames)
  BY DEF JsThen, IInv
<1>2. /\ Sound(h, held \cup {new}, visible \cup {NewOf(rt)}, ran)
      /\ h.unresolved = rt.unresolved \cup {new}
      /\ Claimed(h) = Claimed(rt)
      /\ new \notin rt.unresolved \cup Claimed(rt) \cup held
      /\ RoomFor(h, 1)
  BY <1>1, SoundMakes
<1>3. Sound(h, held, visible \cup {NewOf(rt)}, ran)
  BY <1>2, SoundLess
<1>4. p \in 1 .. h.made
  BY <1>3 DEF Sound
<1>5. kind \in Kinds /\ kind # "settle" /\ new \in h.unresolved \ Claimed(h)
  BY <1>2 DEF Kinds, UserKinds
<1> HIDE DEF h, new
<1>6. /\ Sound(g, held, visible \cup {NewOf(rt)}, ran)
      /\ g.unresolved = h.unresolved /\ Claimed(g) = Claimed(h) \cup {new}
  BY <1>2, <1>3, <1>4, <1>5, SoundThen
<1> HIDE DEF g
<1>7. Hands(rt.unresolved \cup {new}, Claimed(rt) \cup {new}, held, frames)
  BY <1>1, <1>2, HandsChange
<1> QED
  BY <1>1, <1>2, <1>6, <1>7 DEF IInv

LEMMA StepCallsAsync ==
  ASSUME IInv, JsCallsAsync
  PROVE  IInv'
<1> DEFINE g   == NewPromise(rt)
           new == <<NewOf(rt), 0>>
           f   == [kind |-> "body", to |-> new]
<1>1. /\ rt' = g /\ visible' = visible \cup {NewOf(rt)} /\ held' = held
      /\ frames' = Append(frames, f) /\ ran' = ran /\ HasRoom(rt)
      /\ Sound(rt, held, visible, ran) /\ Hands(rt.unresolved, Claimed(rt), held, frames)
  BY DEF JsCallsAsync, IInv, Push
<1>2. /\ Sound(g, held \cup {new}, visible \cup {NewOf(rt)}, ran)
      /\ g.unresolved = rt.unresolved \cup {new}
      /\ Claimed(g) = Claimed(rt)
      /\ new \in Pairs /\ new \notin rt.unresolved \cup Claimed(rt) \cup held
  BY <1>1, SoundMakes
<1>3. Sound(g, held, visible \cup {NewOf(rt)}, ran)
  BY <1>2, SoundLess
<1> HIDE DEF g, new
<1>4. f \in Frames /\ OfEngine(f) /\ f.to = new
  BY <1>2 DEF Frames, FrameKinds, OfEngine
<1> HIDE DEF f
<1>5. Hands(rt.unresolved \cup {new}, Claimed(rt), held, Append(frames, f))
  BY <1>1, <1>2, <1>4, HandsPush
<1> QED
  BY <1>1, <1>2, <1>3, <1>5 DEF IInv

\* The body of an async function leaves its pair to the reaction that will
\* resume it.
LEMMA BodyLeaves ==
  ASSUME IInv, Running, Top.kind = "body"
  PROVE  /\ Top.to \in rt.unresolved \ (held \cup Claimed(rt))
         /\ Hands(rt.unresolved, Claimed(rt) \cup {Top.to}, held, Below)
<1> DEFINE x == Top.to
           U == rt.unresolved
           C == Claimed(rt)
<1>1. Hands(U, C, held, frames) /\ Len(frames) > 0
  BY DEF IInv, Running
<1>2. OfEngine(Top)
  BY DEF OfEngine
<1>3. x \in U \ (held \cup C) /\ Hands(U \ {x}, C, held, Below)
  BY <1>1, <1>2, HandsPop DEF Top, Below
<1> HIDE DEF x, U, C
<1>4. Hands((U \ {x}) \cup {x}, C \cup {x}, held, Below)
  BY <1>3, HandsChange
<1>5. (U \ {x}) \cup {x} = U
  BY <1>3
<1> QED
  BY <1>3, <1>4, <1>5 DEF x, U, C

LEMMA StepAwaitsPromise ==
  ASSUME IInv, NEW p \in visible, JsAwaitsPromise(p)
  PROVE  IInv'
<1> DEFINE x == Top.to
           g == PerformThen(rt, p, "resume", x)
<1>1. /\ rt' = g /\ visible' = visible /\ held' = held
      /\ frames' = Below /\ ran' = ran /\ RoomFor(rt, 1) /\ Running /\ Top.kind = "body"
      /\ Sound(rt, held, visible, ran)
  BY DEF JsAwaitsPromise, IInv
<1>2. /\ x \in rt.unresolved \ Claimed(rt)
      /\ Hands(rt.unresolved, Claimed(rt) \cup {x}, held, Below)
  BY <1>1, BodyLeaves
<1>3. p \in 1 .. rt.made /\ "resume" \in Kinds
  BY ThingsType DEF Kinds
<1> HIDE DEF x
<1>4. /\ Sound(g, held, visible, ran)
      /\ g.unresolved = rt.unresolved /\ Claimed(g) = Claimed(rt) \cup {x}
  BY <1>1, <1>2, <1>3, SoundThen
<1> QED
  BY <1>1, <1>2, <1>4 DEF IInv

LEMMA StepAwaitsOther ==
  ASSUME IInv, NEW v \in Things, JsAwaitsOther(v)
  PROVE  IInv'
<1> DEFINE x   == Top.to
           new == <<NewOf(rt), 0>>
           h   == NewPromise(rt)
           k   == Resolve(h, new, v, FALSE)
           g   == PerformThen(k, NewOf(rt), "resume", x)
           U   == rt.unresolved
           C   == Claimed(rt)
<1>1. /\ rt' = g /\ visible' = visible /\ held' = held
      /\ frames' = Below /\ ran' = ran /\ HasRoom(rt) /\ RoomFor(rt, 2)
      /\ Running /\ Top.kind = "body" /\ Fits(h, new, v)
      /\ Sound(rt, held, visible, ran)
  BY DEF JsAwaitsOther, IInv
<1>2. /\ x \in U \ (held \cup C)
      /\ Hands(U, C \cup {x}, held, Below)
  BY <1>1, BodyLeaves
<1>3. /\ Sound(h, held \cup {new}, visible \cup {NewOf(rt)}, ran)
      /\ h.unresolved = U \cup {new} /\ Claimed(h) = C
      /\ new \in Pairs /\ new \notin U \cup C \cup held
      /\ h.made = NewOf(rt) /\ RoomFor(h, 2)
  BY <1>1, SoundMakes
<1>4. Sound(h, held, visible, ran)
  BY <1>3, SoundLess
<1>5. HasThen(v) => h.chain[new[1]] < MaxChain /\ RoomFor(h, 1)
  <2>1. Fits(h, new, v) /\ new \in Pairs
    BY <1>1, <1>3
  <2> HIDE DEF h, new
  <2> QED
    BY <2>1, FitsMeans
<1>6. v \in Values \cup {Thenable, BadThen} \cup 1 .. h.made
  <2>1. v \in Values \cup {Thenable, BadThen} \cup 1 .. rt.made
    BY ThingsType
  <2>2. rt.made \in Nat /\ h.made = rt.made + 1
    BY <1>1, <1>3, SoundType DEF NewOf
  <2> HIDE DEF h
  <2> QED
    BY <2>1, <2>2
<1>7. NewOf(rt) \in 1 .. h.made
  <2>1. rt.made \in Nat
    BY <1>1, SoundType
  <2> QED
    BY <1>3, <2>1 DEF NewOf
<1> HIDE DEF h, new, x, C, U
<1>8. MayResolve(h, new, v, FALSE)
  BY <1>3, <1>5, <1>6 DEF MayResolve
<1>9. Resolved(h, k, new, held, visible, ran)
  BY <1>4, <1>8, SoundResolve
<1> HIDE DEF k
<1>10. /\ Sound(k, held, visible, ran) /\ Claimed(k) = C /\ k.made = h.made /\ RoomFor(k, 1)
       /\ k.unresolved = U
  <2>1. /\ Sound(k, held, visible, ran) /\ Claimed(k) = Claimed(h) /\ k.made = h.made
        /\ k.unresolved = h.unresolved \ {new} /\ RoomFor(k, 1)
    BY <1>3, <1>9 DEF Resolved
  <2>2. (U \cup {new}) \ {new} = U
    BY <1>3
  <2> QED
    BY <1>3, <2>1, <2>2
<1>11. /\ Sound(g, held, visible, ran)
       /\ g.unresolved = U /\ Claimed(g) = C \cup {x}
  <2>1. NewOf(rt) \in 1 .. k.made /\ "resume" \in Kinds /\ x \in k.unresolved \ Claimed(k)
    BY <1>2, <1>7, <1>10 DEF Kinds
  <2> QED
    BY <1>10, <2>1, SoundThen
<1> HIDE DEF g
<1> QED
  BY <1>1, <1>2, <1>11 DEF IInv

\* A frame the engine waits for ends, and the engine resolves its pair.
LEMMA EndsOfEngine ==
  ASSUME IInv, Len(frames) > 0, OfEngine(Top),
         NEW v, NEW rejected, rejected \in BOOLEAN,
         v \in Values \cup {Thenable, BadThen} \cup 1 .. rt.made,
         rejected => v \in Values,
         HasThen(v) => Fits(rt, Top.to, v),
         rt' = Resolve(rt, Top.to, v, rejected),
         frames' = Below, held' = held, visible' = visible, ran' = ran
  PROVE  IInv'
<1> DEFINE x == Top.to
           g == Resolve(rt, x, v, rejected)
           U == rt.unresolved
           C == Claimed(rt)
<1>1. Sound(rt, held, visible, ran) /\ Hands(U, C, held, frames)
  BY DEF IInv
<1>2. x \in U \ (held \cup C) /\ Hands(U \ {x}, C, held, Below)
  BY <1>1, HandsPop DEF Top, Below
<1>3. x \in Pairs
  BY <1>1, <1>2, SoundType
<1>4. HasThen(v) => rt.chain[x[1]] < MaxChain /\ RoomFor(rt, 1)
  <2>1. HasThen(v) => Fits(rt, x, v)
    OBVIOUS
  <2> HIDE DEF x
  <2> QED
    BY <1>3, <2>1, FitsMeans
<1>5. MayResolve(rt, x, v, rejected)
  BY <1>2, <1>4 DEF MayResolve
<1>6. rt' = g
  OBVIOUS
<1> HIDE DEF x, U, C
<1>7. Resolved(rt, g, x, held, visible, ran)
  BY <1>1, <1>5, SoundResolve
<1> HIDE DEF g
<1>8. Sound(g, held, visible, ran) /\ g.unresolved = U \ {x} /\ Claimed(g) = C
  BY <1>7 DEF Resolved, U, C
<1>9. Hands(g.unresolved, Claimed(g), held, Below)
  BY <1>2, <1>8
<1> QED
  BY <1>6, <1>8, <1>9 DEF IInv

\* A frame nobody's pair waits for ends.
LEMMA EndsQuietly ==
  ASSUME IInv, Len(frames) > 0, ~OfEngine(Top),
         rt' = rt, frames' = Below, held' = held, visible' = visible, ran' = ran
  PROVE  IInv'
<1>1. Hands(rt.unresolved, Claimed(rt), held, frames)
  BY DEF IInv
<1>2. Hands(rt.unresolved, Claimed(rt), held, Below)
  BY <1>1, HandsPop DEF Top, Below
<1> QED
  BY <1>2 DEF IInv

\* The then method of a thenable throws: the pair it was given may be used.
LEMMA ThenThrows ==
  ASSUME IInv, Len(frames) > 0, Top.kind = "then", NEW v \in Values,
         rt' = Resolve(rt, Top.to, v, TRUE),
         frames' = Below, held' = held, visible' = visible, ran' = ran
  PROVE  IInv'
<1> DEFINE x == Top.to
           g == Resolve(rt, x, v, TRUE)
           U == rt.unresolved
           C == Claimed(rt)
<1>1. Sound(rt, held, visible, ran) /\ Hands(U, C, held, frames)
  BY DEF IInv
<1>2. ~OfEngine(Top)
  BY DEF OfEngine
<1>3. x \in held /\ Hands(U, C, held, Below)
  BY <1>1, <1>2, HandsPop DEF Top, Below
<1>4. x \notin C
  BY <1>1, <1>3 DEF Hands
<1>5. ~HasThen(v)
  BY ValuesAssumption DEF HasThen
<1>6. rt' = g
  OBVIOUS
<1> HIDE DEF x, U, C
<1>7. Hands(U \ {x}, C, held, Below)
  BY <1>3, HandsChange
<1>8. MayResolve(rt, x, v, TRUE)
  BY <1>4, <1>5 DEF MayResolve, C
<1>9. Resolved(rt, g, x, held, visible, ran)
  BY <1>1, <1>8, SoundResolve
<1> HIDE DEF g
<1>10. Sound(g, held, visible, ran) /\ g.unresolved = U \ {x} /\ Claimed(g) = C
  BY <1>9 DEF Resolved, U, C
<1>11. Hands(g.unresolved, Claimed(g), held, Below)
  BY <1>7, <1>10
<1> QED
  BY <1>6, <1>10, <1>11 DEF IInv

LEMMA StepEnds ==
  ASSUME IInv, NEW v \in Things, NEW threw \in BOOLEAN, JsEnds(v, threw)
  PROVE  IInv'
<1>1. /\ visible' = visible /\ held' = held /\ frames' = Below /\ ran' = ran
      /\ Len(frames) > 0 /\ Top.kind # "eval" /\ Fits(rt, Top.to, v)
      /\ threw => v \in Values
      /\ rt' = CASE Top.kind \in {"handler", "body"} -> Resolve(rt, Top.to, v, threw)
                 [] Top.kind = "then" -> IF threw THEN Resolve(rt, Top.to, v, TRUE) ELSE rt
                 [] Top.kind = "module" ->
                      Resolve(rt, Top.to, IF threw THEN v ELSE Undefined, threw)
                 [] Top.kind = "script" -> rt
  BY DEF JsEnds, Running
<1>2. Top.kind \in FrameKinds
  <2>1. Hands(rt.unresolved, Claimed(rt), held, frames)
    BY DEF IInv
  <2>2. Top \in Frames
    BY <1>1, <2>1, HandsPop DEF Top
  <2> QED
    BY <2>2 DEF Frames
<1>3. v \in Values \cup {Thenable, BadThen} \cup 1 .. rt.made
  BY ThingsType
<1>4. CASE Top.kind \in {"handler", "body"}
  <2>1. rt' = Resolve(rt, Top.to, v, threw) /\ OfEngine(Top)
    BY <1>1, <1>4 DEF OfEngine
  <2> QED
    BY <1>1, <1>3, <2>1, EndsOfEngine
<1>5. CASE Top.kind = "then"
  <2>1. rt' = IF threw THEN Resolve(rt, Top.to, v, TRUE) ELSE rt
    BY <1>1, <1>5
  <2>2. ASSUME threw PROVE IInv'
    <3>1. v \in Values /\ rt' = Resolve(rt, Top.to, v, TRUE)
      BY <1>1, <2>1, <2>2
    <3> QED
      BY <1>1, <1>5, <3>1, ThenThrows
  <2>3. ASSUME ~threw PROVE IInv'
    <3>1. rt' = rt /\ ~OfEngine(Top)
      BY <1>5, <2>1, <2>3 DEF OfEngine
    <3> QED
      BY <1>1, <3>1, EndsQuietly
  <2> QED
    BY <2>2, <2>3
<1>6. CASE Top.kind = "module"
  <2> DEFINE w == IF threw THEN v ELSE Undefined
  <2>1. rt' = Resolve(rt, Top.to, w, threw) /\ OfEngine(Top)
    BY <1>1, <1>6 DEF OfEngine
  <2>2. w \in Values
    BY <1>1, ThingsType
  <2> HIDE DEF w
  <2>3. ~HasThen(w)
    BY <2>2, ValuesAssumption DEF HasThen
  <2> QED
    BY <1>1, <2>1, <2>2, <2>3, EndsOfEngine
<1>7. CASE Top.kind = "script"
  <2>1. rt' = rt /\ ~OfEngine(Top)
    BY <1>1, <1>7 DEF OfEngine
  <2> QED
    BY <1>1, <2>1, EndsQuietly
<1> QED
  BY <1>1, <1>2, <1>4, <1>5, <1>6, <1>7 DEF FrameKinds

LEMMA StepModuleAnswers ==
  ASSUME IInv, ModuleAnswers
  PROVE  IInv'
<1>1. ~OfEngine(Top) /\ Len(frames) > 0
  BY DEF ModuleAnswers, OfEngine
<1> QED
  BY <1>1, EndsQuietly DEF ModuleAnswers

LEMMA StepStartScript ==
  ASSUME IInv, StartScript
  PROVE  IInv'
<1> DEFINE f == [kind |-> "script", to |-> NoPair]
<1>1. /\ rt' = rt /\ held' = held /\ visible' = visible /\ ran' = ran
      /\ frames' = Append(frames, f)
      /\ Hands(rt.unresolved, Claimed(rt), held, frames)
  BY DEF StartScript, Push, IInv
<1>2. f \in Frames /\ ~OfEngine(f) /\ f.kind # "then"
  BY DEF Frames, FrameKinds, OfEngine
<1> HIDE DEF f
<1>3. Hands(rt.unresolved, Claimed(rt), held, Append(frames, f))
  BY <1>1, <1>2, HandsPush
<1> QED
  BY <1>1, <1>3 DEF IInv

\* The frame in which ejr_eval_module waits, and then the body.
LEMMA HandsModule ==
  ASSUME NEW U, NEW C, NEW hd, NEW fs, Hands(U, C, hd, fs),
         NEW pair \in Pairs, NEW kind \in {"module", "body"}, NEW x \in Pairs,
         x \notin U \cup C \cup hd
  PROVE  Hands(U \cup {x}, C, hd,
               Append(fs, [kind |-> "eval", to |-> pair]) \o <<[kind |-> kind, to |-> x]>>)
<1> DEFINE e == [kind |-> "eval", to |-> pair]
           f == [kind |-> kind, to |-> x]
           l == Append(fs, e)
<1>1. /\ e \in Frames /\ ~OfEngine(e) /\ e.kind # "then"
      /\ f \in Frames /\ OfEngine(f) /\ f.to = x
  BY DEF Frames, FrameKinds, OfEngine
<1> HIDE DEF e, f
<1>2. Hands(U, C, hd, l)
  BY <1>1, HandsPush
<1>3. l \in Seq(Frames)
  BY <1>2 DEF Hands
<1> HIDE DEF l
<1>4. Hands(U \cup {x}, C, hd, Append(l, f))
  BY <1>1, <1>2, HandsPush
<1>5. l \o <<f>> = Append(l, f)
  BY <1>1, <1>3
<1>6. Hands(U \cup {x}, C, hd, l \o <<f>>)
  BY <1>4, <1>5
<1> QED
  BY <1>6 DEF l, e, f

LEMMA StepStartModule ==
  ASSUME IInv, StartModule
  PROVE  IInv'
<1> DEFINE new  == <<NewOf(rt), 0>>
           h    == NewPromise(rt)
           e    == [kind |-> "eval", to |-> new]
           U    == rt.unresolved
           C    == Claimed(rt)
<1>1. /\ held' = held /\ visible' = visible /\ ran' = ran /\ HasRoom(rt)
      /\ Sound(rt, held, visible, ran) /\ Hands(U, C, held, frames)
  BY DEF StartModule, IInv
<1>2. /\ Sound(h, held \cup {new}, visible \cup {NewOf(rt)}, ran)
      /\ h.unresolved = U \cup {new} /\ Claimed(h) = C
      /\ new \in Pairs /\ new \notin U \cup C \cup held
      /\ h.made = NewOf(rt) /\ NewOf(rt) \in Promises
      /\ RoomFor(rt, 1) => RoomFor(h, 1)
  BY <1>1, SoundMakes
<1>3. Sound(h, held, visible, ran)
  BY <1>2, SoundLess
<1>4. ASSUME rt' = h, frames' = Append(frames, e) \o <<[kind |-> "module", to |-> new]>>
      PROVE  IInv'
  <2> DEFINE l == Append(frames, e) \o <<[kind |-> "module", to |-> new]>>
  <2> HIDE DEF new, h, U, C
  <2>1. Hands(U \cup {new}, C, held, l)
    BY <1>1, <1>2, HandsModule
  <2> HIDE DEF l
  <2>2. frames' = l
    BY <1>4 DEF l
  <2> QED
    BY <1>1, <1>2, <1>3, <1>4, <2>1, <2>2 DEF IInv
<1>5. ASSUME NEW new2, new2 = <<NewOf(rt) + 1, 0>>, HasRoom(h), RoomFor(rt, 1),
             rt' = PerformThen(NewPromise(h), new2[1], "module", new),
             frames' = Append(frames, e) \o <<[kind |-> "body", to |-> new2]>>
      PROVE  IInv'
  <2> DEFINE k == NewPromise(h)
             g == PerformThen(k, new2[1], "module", new)
             l == Append(frames, e) \o <<[kind |-> "body", to |-> new2]>>
  <2>0. NewOf(h) = NewOf(rt) + 1 /\ new2 = <<NewOf(h), 0>> /\ new2[1] = NewOf(h)
    BY <1>2, <1>5 DEF NewOf
  <2>1. /\ Sound(k, held \cup {new2}, visible \cup {NewOf(h)}, ran)
        /\ k.unresolved = h.unresolved \cup {new2} /\ Claimed(k) = Claimed(h)
        /\ new2 \in Pairs /\ new2 \notin h.unresolved \cup Claimed(h) \cup held
        /\ k.made = NewOf(h) /\ RoomFor(k, 1)
    <3>1. Sound(h, held, visible, ran) /\ HasRoom(h) /\ RoomFor(h, 1)
      BY <1>2, <1>3, <1>5
    <3> HIDE DEF h
    <3>2. /\ Sound(k, held \cup {<<NewOf(h), 0>>}, visible \cup {NewOf(h)}, ran)
          /\ k.unresolved = h.unresolved \cup {<<NewOf(h), 0>>} /\ Claimed(k) = Claimed(h)
          /\ <<NewOf(h), 0>> \in Pairs
          /\ <<NewOf(h), 0>> \notin h.unresolved \cup Claimed(h) \cup held
          /\ k.made = NewOf(h) /\ RoomFor(k, 1)
      BY <3>1, SoundMakes
    <3> QED
      BY <2>0, <3>2
  <2>2. Sound(k, held, visible, ran)
    BY <2>1, SoundLess
  <2>3. new2[1] \in 1 .. k.made
    <3>1. rt.made \in Nat
      BY <1>1, SoundType
    <3> QED
      BY <2>0, <2>1, <3>1 DEF NewOf
  <2>4. new \in k.unresolved \ Claimed(k) /\ "module" \in Kinds
    BY <1>2, <2>1 DEF Kinds
  <2> HIDE DEF k, h, new
  <2>5. /\ Sound(g, held, visible, ran)
        /\ g.unresolved = k.unresolved /\ Claimed(g) = Claimed(k) \cup {new}
    BY <2>1, <2>2, <2>3, <2>4, SoundThen
  <2> HIDE DEF U, C
  <2>6. Hands(U \cup {new}, C \cup {new}, held, frames)
    BY <1>1, <1>2, HandsChange
  <2>7. new2 # new
    BY <1>2, <2>1
  <2>8. new2 \notin (U \cup {new}) \cup (C \cup {new}) \cup held
    BY <1>2, <2>1, <2>7
  <2>9. Hands((U \cup {new}) \cup {new2}, C \cup {new}, held, l)
    BY <1>2, <2>1, <2>6, <2>8, HandsModule
  <2>10. rt' = g /\ frames' = l
    BY <1>5 DEF k
  <2> HIDE DEF g, l
  <2>11. Hands(g.unresolved, Claimed(g), held, l)
    BY <1>2, <2>1, <2>5, <2>9
  <2> QED
    BY <1>1, <2>5, <2>10, <2>11 DEF IInv
<1>6. \/ rt' = h /\ frames' = Append(frames, e) \o <<[kind |-> "module", to |-> new]>>
      \/ /\ HasRoom(h) /\ RoomFor(rt, 1)
         /\ rt' = PerformThen(NewPromise(h), <<NewOf(rt) + 1, 0>>[1], "module", new)
         /\ frames' = Append(frames, e) \o <<[kind |-> "body", to |-> <<NewOf(rt) + 1, 0>>]>>
  BY DEF StartModule, Push
<1> QED
  BY <1>4, <1>5, <1>6

LEMMA StepAwaitPromise ==
  ASSUME IInv, NEW p \in visible, AwaitPromise(p)
  PROVE  IInv'
BY DEF AwaitPromise, IInv

-----------------------------------------------------------------------------
(* JS_ExecutePendingJob *)

\* The first job is a task: what it leaves when it is out of the queue.
Task1(h, k, hd, vis, s) ==
  LET job == h.jobs[1]
  IN  /\ k \in Runtimes /\ CoreInv(k) /\ TicketsInv(k, Append(s, job.ticket))
      /\ \A x \in hd : x \in Pairs /\ Known(k, x)
      /\ vis \subseteq 1 .. k.made
      /\ \A p \in Promises : k.adopts[p] \cap Promises \subseteq 1 .. k.made
      /\ k.unresolved = h.unresolved /\ Claimed(k) = Claimed(h) \ {job.to}
      /\ job.to \in Claimed(h) /\ job.to \in k.unresolved /\ k.state[job.to[1]] = "pending"
      /\ job.kind \in Kinds /\ job.arg \in Values /\ job.rejected \in BOOLEAN
      /\ job.to \in Pairs /\ job.to[1] \in Promises
      /\ \A x, q \in Promises :
           q \in k.adopts[x] /\ ~Passes(h, job, x, q) => Follower(k, x, q)

LEMMA TaskLeaves ==
  ASSUME NEW h, NEW hd, NEW vis, NEW s, Sound(h, hd, vis, s), NEW k, Drops(h, k)
  PROVE  Task1(h, k, hd, vis, s)
<1> DEFINE job == h.jobs[1]
<1>1. CoreInv(h) /\ h \in Runtimes /\ TicketsInv(h, s) /\ Queued(h) /\ Chances(h)
      /\ \A p \in Promises : AdoptsInv(h, p)
  BY DEF Sound, EngineInv, CoreInv
<1>2. /\ k \in Runtimes /\ 1 \in Tasks(h)
      /\ k.made = h.made /\ k.state = h.state /\ k.chain = h.chain
      /\ k.unresolved = h.unresolved /\ k.adopts = h.adopts
  BY DEF Drops
<1>3. CoreInv(k) /\ TicketsInv(k, Append(s, job.ticket))
      /\ Claimed(k) = Claimed(h) \ {job.to} /\ job.to \in Claimed(h)
  BY <1>1, DropsCore, DropsTickets, DropsClaimed
<1>4. QueuedTask(h, job)
  BY <1>1, <1>2 DEF Queued
<1>5. job.to \in h.unresolved /\ job.kind \in Kinds /\ job.ticket \in 1 .. Len(h.on)
      /\ job.arg = h.result[h.on[job.ticket]]
  BY <1>4 DEF QueuedTask, Registered
<1>6. job \in Jobs /\ h.unresolved \subseteq Pairs
      /\ h.on \in Seq(Promises) /\ h.result \in [Promises -> Values]
  BY <1>1, <1>2 DEF Tasks, Runtimes
<1>7. job.arg \in Values /\ job.rejected \in BOOLEAN /\ job.to \in Pairs
  <2>1. h.on[job.ticket] \in Promises
    BY <1>5, <1>6
  <2> QED
    BY <1>5, <1>6, <2>1 DEF Jobs
<1>8. job.to[1] \in Promises
  BY <1>7 DEF Pairs
<1>9. h.state[job.to[1]] = "pending"
  BY ZenonT(60), <1>1, <1>5 DEF Chances
<1>10. ASSUME NEW x \in Promises, NEW q \in Promises,
              q \in k.adopts[x], ~Passes(h, job, x, q)
       PROVE  Follower(k, x, q)
  <2>1. Follower(h, x, q)
    BY <1>1, <1>2, <1>10 DEF AdoptsInv
  <2> QED
    BY <1>10, <2>1, DropsAdopts
<1>11. /\ \A x \in hd : x \in Pairs /\ Known(k, x)
       /\ vis \subseteq 1 .. k.made
       /\ \A p \in Promises : k.adopts[p] \cap Promises \subseteq 1 .. k.made
  BY <1>2 DEF Sound, Known
<1> HIDE DEF job
<1>12. /\ k \in Runtimes /\ CoreInv(k) /\ TicketsInv(k, Append(s, job.ticket))
       /\ k.unresolved = h.unresolved /\ Claimed(k) = Claimed(h) \ {job.to}
       /\ job.to \in Claimed(h) /\ job.to \in k.unresolved /\ k.state[job.to[1]] = "pending"
       /\ job.kind \in Kinds /\ job.arg \in Values /\ job.rejected \in BOOLEAN
       /\ job.to \in Pairs /\ job.to[1] \in Promises
  BY <1>2, <1>3, <1>5, <1>7, <1>8, <1>9
<1> QED
  BY <1>10, <1>11, <1>12 DEF Task1, job

\* One that is not an adopting promise's leaves a sound runtime.
LEMMA TaskSound ==
  ASSUME NEW h, NEW k, NEW hd, NEW vis, NEW s, Task1(h, k, hd, vis, s),
         h.jobs[1].kind # "settle"
  PROVE  Sound(k, hd, vis, Append(s, h.jobs[1].ticket))
<1>1. \A x, q \in Promises : q \in k.adopts[x] => Follower(k, x, q)
  BY DEF Task1, Passes
<1>2. EngineInv(k)
  BY <1>1 DEF Task1, EngineInv, AdoptsInv
<1> QED
  BY <1>2 DEF Task1, Sound

\* An adopting promise follows one promise at a time: the one whose outcome the
\* task brings.
LEMMA OneAdopted ==
  ASSUME NEW h, CoreInv(h), 1 \in Tasks(h), NEW p, h.jobs[1].to[1] = p, NEW q \in Promises,
         Follower(h, p, q)
  PROVE  q = h.on[h.jobs[1].ticket]
<1> DEFINE job == h.jobs[1]
<1>1. Chances(h) /\ Queued(h) /\ Waiting(h)
  BY DEF CoreInv
<1>2. QueuedTask(h, job)
  BY <1>1 DEF Queued
<1>3. job.to \in h.unresolved /\ h.state[p] = "pending"
  BY ZenonT(60), <1>1, <1>2 DEF QueuedTask, Registered, Chances
<1>4. ASSUME NEW x \in h.unresolved, x[1] = p PROVE x = job.to
  BY <1>1, <1>3, <1>4 DEF Chances
<1>5. ASSUME NEW i \in Adoptions(h), h.jobs[i].to[1] = p PROVE FALSE
  BY <1>1, <1>3, <1>5 DEF Chances
<1>6. ASSUME NEW i \in 1 .. Len(h.reactions[q]), Passes(h, h.reactions[q][i], p, q) PROVE FALSE
  <2>1. Registered(h, h.reactions[q][i])
    BY <1>1 DEF Waiting, WaitingFor
  <2>2. h.reactions[q][i].to = job.to
    BY <1>4, <1>6, <2>1 DEF Registered, Passes
  <2>3. Apart(job, h.reactions[q][i])
    BY <1>1 DEF Queued
  <2> QED
    BY <2>2, <2>3 DEF Apart
<1>7. ASSUME NEW i \in Tasks(h), Passes(h, h.jobs[i], p, q) PROVE q = h.on[job.ticket]
  <2>1. QueuedTask(h, h.jobs[i])
    BY <1>1 DEF Queued
  <2>2. h.jobs[i].to = job.to
    BY <1>4, <1>7, <2>1 DEF QueuedTask, Registered, Passes
  <2>3. i = 1
    <3>1. ASSUME i # 1 PROVE FALSE
      <4>1. 1 < i
        BY <3>1 DEF Tasks
      <4>2. Apart(job, h.jobs[i])
        BY <1>1, <4>1 DEF Queued
      <4> QED
        BY <2>2, <4>2 DEF Apart
    <3> QED
      BY <3>1
  <2> QED
    BY <1>7, <2>3 DEF Passes
<1>8. ~SameOutcome(h, p, q)
  BY <1>3 DEF SameOutcome, Ended
<1> QED
  BY <1>5, <1>6, <1>7, <1>8 DEF Follower

\* The adopting promise is settled with that outcome.
LEMMA TaskSettles ==
  ASSUME NEW h, NEW hd, NEW vis, NEW s, Sound(h, hd, vis, s), NEW k, Drops(h, k),
         h.jobs[1].kind = "settle"
  PROVE  LET job == h.jobs[1]
             g   == Resolve(k, job.to, job.arg, job.rejected)
         IN  /\ Sound(g, hd, vis, Append(s, job.ticket))
             /\ g.unresolved = h.unresolved \ {job.to}
             /\ Claimed(g) = Claimed(h) \ {job.to}
<1> DEFINE job == h.jobs[1]
           p   == job.to[1]
           r   == job.rejected
           out == Outcome(r)
           q0  == h.on[job.ticket]
           g   == Resolve(k, job.to, job.arg, r)
           s2  == Append(s, job.ticket)
<1>1. Task1(h, k, hd, vis, s)
  BY TaskLeaves
<1>2. /\ k \in Runtimes /\ CoreInv(k) /\ TicketsInv(k, s2)
      /\ k.unresolved = h.unresolved /\ Claimed(k) = Claimed(h) \ {job.to}
      /\ job.to \in k.unresolved /\ k.state[p] = "pending"
      /\ job.arg \in Values /\ r \in BOOLEAN /\ job.to \in Pairs /\ p \in Promises
  BY <1>1 DEF Task1
<1>3. CoreInv(h) /\ 1 \in Tasks(h) /\ k.state = h.state /\ k.result = h.result
      /\ k.adopts = h.adopts /\ AdoptsInv(h, p)
  BY <1>2 DEF Sound, EngineInv, Drops
<1>4. Fulfils(k, g, job.to, p, out, job.arg)
  BY <1>2, ResolveIs
<1>5. Ended(h, q0) /\ out = h.state[q0] /\ job.arg = h.result[q0]
  <2>1. QueuedTask(h, job)
    BY <1>3 DEF CoreInv, Queued
  <2> QED
    BY ZenonT(60), <1>2, <2>1 DEF QueuedTask, Ended, Outcome
<1>6. ASSUME NEW q \in k.adopts[p] \cap Promises
      PROVE  Ended(k, q) /\ out = k.state[q] /\ job.arg = k.result[q]
  <2>1. q = q0
    <3>1. Follower(h, p, q)
      BY <1>3, <1>6 DEF AdoptsInv
    <3> QED
      BY <1>3, <3>1, OneAdopted
  <2> QED
    BY ZenonT(60), <1>3, <1>5, <2>1 DEF Ended
<1>7. ASSUME NEW x \in Promises, x # p PROVE AdoptsInv(k, x)
  BY <1>1, <1>7 DEF Task1, AdoptsInv, Passes
<1>8. job.to \notin Claimed(k)
  BY <1>2
<1>9. job.to[1] = p
  OBVIOUS
<1> DEFINE pair == job.to
           v    == job.arg
<1> HIDE DEF g, out, s2, p, q0
<1>10. /\ CoreInv(k) /\ pair \notin Claimed(k) /\ Fulfils(k, g, pair, p, out, v)
       /\ \A x \in Promises : x # p => AdoptsInv(k, x)
       /\ \A q \in k.adopts[p] \cap Promises :
            Ended(k, q) /\ out = k.state[q] /\ v = k.result[q]
  BY <1>2, <1>4, <1>6, <1>7, <1>8
<1>11. EngineInv(g) /\ TicketsInv(g, s2) /\ Claimed(g) = Claimed(k)
  <2> HIDE DEF pair, v
  <2> QED
    BY <1>2, <1>10, FulfilsAdopts, FulfilsTickets, FulfilsClaimed
<1>12. /\ g.unresolved = k.unresolved \ {pair}
       /\ g.made = k.made /\ g.chain = k.chain /\ g.adopts = k.adopts
  BY <1>10 DEF Fulfils, Closes
<1>13. Sound(g, hd, vis, s2)
  BY <1>1, <1>11, <1>12 DEF Task1, Sound, Known
<1> QED
  BY ZenonT(60), <1>2, <1>11, <1>12, <1>13 DEF g, s2

\* The task calls JavaScript, a handler or the rest of a body.
LEMMA TaskCalls ==
  ASSUME IInv, NEW k, Drops(rt, k), rt.jobs[1].kind # "settle",
         NEW kind \in {"handler", "body"},
         rt' = k, frames' = Push(kind, rt.jobs[1].to),
         ran' = Append(ran, rt.jobs[1].ticket), held' = held, visible' = visible
  PROVE  IInv'
<1> DEFINE x == rt.jobs[1].to
           s == Append(ran, rt.jobs[1].ticket)
           f == [kind |-> kind, to |-> x]
           U == rt.unresolved
           C == Claimed(rt)
<1>1. Sound(rt, held, visible, ran) /\ Hands(U, C, held, frames)
  BY DEF IInv
<1>2. Task1(rt, k, held, visible, ran)
  BY <1>1, TaskLeaves
<1>3. Sound(k, held, visible, s)
  BY <1>2, TaskSound
<1>4. k.unresolved = U /\ Claimed(k) = C \ {x} /\ x \in C /\ x \in U /\ x \in Pairs
  BY <1>2 DEF Task1
<1>5. frames' = Append(frames, f) /\ ran' = s
  BY DEF Push
<1> HIDE DEF x, s, U, C
<1>6. f \in Frames /\ OfEngine(f) /\ f.to = x
  BY <1>4 DEF Frames, FrameKinds, OfEngine
<1> HIDE DEF f
<1>7. Hands(U \ {x}, C \ {x}, held, frames)
  BY <1>1, <1>4, HandsChange
<1>8. x \notin (U \ {x}) \cup (C \ {x}) \cup held
  BY <1>1, <1>4 DEF Hands
<1>9. Hands((U \ {x}) \cup {x}, C \ {x}, held, Append(frames, f))
  BY <1>6, <1>7, <1>8, HandsPush
<1>10. (U \ {x}) \cup {x} = U
  BY <1>4
<1> QED
  BY <1>3, <1>4, <1>5, <1>9, <1>10 DEF IInv

\* The task passes an outcome on without JavaScript.
LEMMA TaskPasses ==
  ASSUME IInv, NEW k, Drops(rt, k), rt.jobs[1].kind \in {"pass", "settle", "module"},
         rt' = RunJob(k, rt.jobs[1]), frames' = frames,
         ran' = Append(ran, rt.jobs[1].ticket), held' = held, visible' = visible
  PROVE  IInv'
<1> DEFINE job == rt.jobs[1]
           x == job.to
           s == Append(ran, job.ticket)
           v == IF job.kind = "module" /\ ~job.rejected THEN Undefined ELSE job.arg
           g == Resolve(k, x, v, job.rejected)
           U == rt.unresolved
           C == Claimed(rt)
<1>1. Sound(rt, held, visible, ran) /\ Hands(U, C, held, frames)
  BY DEF IInv
<1>2. Task1(rt, k, held, visible, ran)
  BY <1>1, TaskLeaves
<1>3. /\ k.unresolved = U /\ Claimed(k) = C \ {x} /\ x \in C
      /\ job.arg \in Values /\ job.rejected \in BOOLEAN
  BY <1>2 DEF Task1
<1>4. rt' = g
  <2>1. CASE job.kind = "module"
    <3>1. v = IF job.rejected THEN job.arg ELSE Undefined
      BY <1>3, <2>1
    <3> HIDE DEF v
    <3> QED
      BY <2>1, <3>1 DEF RunJob
  <2>2. CASE job.kind # "module"
    <3>1. v = job.arg
      BY <2>2
    <3> HIDE DEF v
    <3> QED
      BY <2>2, <3>1 DEF RunJob
  <2> QED
    BY <2>1, <2>2
<1>5. Sound(g, held, visible, s) /\ g.unresolved = U \ {x} /\ Claimed(g) = C \ {x}
  <2>1. CASE job.kind = "settle"
    <3>1. v = job.arg
      BY <2>1
    <3> QED
      BY <1>1, <2>1, <3>1, TaskSettles
  <2>2. CASE job.kind # "settle"
    <3>1. Sound(k, held, visible, s)
      BY <1>2, <2>2, TaskSound
    <3>2. v \in Values /\ ~HasThen(v)
      BY <1>3, ValuesAssumption DEF HasThen
    <3>3. x \notin Claimed(k) /\ v \in Values \cup {Thenable, BadThen} \cup 1 .. k.made
      BY <1>3, <3>2
    <3> DEFINE r == job.rejected
    <3>4. r \in BOOLEAN
      BY <1>3
    <3> HIDE DEF v, x, s, r
    <3>5. MayResolve(k, x, v, r)
      BY <3>2, <3>3, <3>4 DEF MayResolve
    <3>6. Resolved(k, Resolve(k, x, v, r), x, held, visible, s)
      BY <3>1, <3>5, SoundResolve
    <3>7. g = Resolve(k, x, v, r)
      BY DEF r
    <3> HIDE DEF g, U, C
    <3>8. (C \ {x}) = Claimed(k) /\ U = k.unresolved
      BY <1>3
    <3> QED
      BY <3>6, <3>7, <3>8 DEF Resolved
  <2> QED
    BY <2>1, <2>2
<1> HIDE DEF g, x, U, C
<1>6. Hands(U \ {x}, C \ {x}, held, frames)
  BY <1>1, <1>3, HandsChange
<1> QED
  BY <1>4, <1>5, <1>6 DEF IInv

\* The job for a thenable gives its promise a new pair, which nobody has yet.
Taken(h, g, pair, hd, vis, s) ==
  LET p   == h.jobs[1].to[1]
      arg == h.jobs[1].arg
  IN  /\ g \in Runtimes /\ CoreInv(g) /\ TicketsInv(g, s)
      /\ \A x \in hd \cup {pair} : x \in Pairs /\ Known(g, x)
      /\ vis \subseteq 1 .. g.made
      /\ \A x \in Promises : g.adopts[x] \cap Promises \subseteq 1 .. g.made
      /\ g.unresolved = h.unresolved \cup {pair} /\ Claimed(g) = Claimed(h)
      /\ pair \in Pairs /\ pair[1] = p /\ pair \notin h.unresolved \cup Claimed(h) \cup hd
      /\ RoomFor(g, 1)
      /\ arg \in {Thenable} \cup 1 .. g.made
      /\ \A x, q \in Promises : q \in g.adopts[x] /\ ~(x = p /\ q = arg) => Follower(g, x, q)

LEMMA TakeLeaves ==
  ASSUME NEW h, NEW hd, NEW vis, NEW s, Sound(h, hd, vis, s),
         NEW g, NEW p, NEW pair, Takes(h, g, p, pair)
  PROVE  Taken(h, g, pair, hd, vis, s)
<1> DEFINE arg == h.jobs[1].arg
<1>1. CoreInv(h) /\ h \in Runtimes /\ TicketsInv(h, s) /\ Room(h) /\ Making(h) /\ Adopting(h)
      /\ \A x \in Promises : AdoptsInv(h, x)
  BY DEF Sound, EngineInv, CoreInv
<1>2. /\ g \in Runtimes /\ 1 \in Adoptions(h) /\ p \in Promises
      /\ h.jobs[1].to[1] = p /\ <<p, h.chain[p] + 1>> = pair /\ pair \in Pairs
      /\ g.made = h.made /\ g.on = h.on /\ g.adopts = h.adopts
      /\ g.unresolved = h.unresolved \cup {pair}
      /\ g.chain[p] = h.chain[p] + 1
      /\ \A q \in Promises : q # p => g.chain[q] = h.chain[q]
      /\ Shifts(h, g)
  BY DEF Takes
<1>3. h.chain \in [Promises -> 0 .. MaxChain] /\ h.made \in Nat
      /\ h.adopts \in [Promises -> SUBSET ({Thenable} \cup Promises)]
  BY <1>1, BoundsAssumption DEF Runtimes
<1>4. CoreInv(g) /\ TicketsInv(g, s) /\ Claimed(g) = Claimed(h)
  BY <1>1, TakesCore, TakesTickets, TakesClaimed
<1>5. \A x \in hd \cup h.unresolved : x \in Pairs /\ Known(h, x)
  <2>1. h.unresolved \subseteq Pairs
    BY SoundType
  <2> QED
    BY <1>1, <2>1 DEF Sound, Making
<1>6. pair[1] = p /\ pair[2] = h.chain[p] + 1
  BY <1>2
<1>7. ASSUME NEW x \in hd \cup h.unresolved PROVE x # pair /\ Known(g, x)
  <2>1. x \in Pairs /\ x[1] <= h.made /\ x[2] <= h.chain[x[1]]
    BY <1>5 DEF Known
  <2>2. x[1] \in Promises /\ x[2] \in Nat
    BY <2>1 DEF Pairs
  <2>3. h.chain[x[1]] \in Nat /\ h.chain[p] \in Nat
    BY <1>2, <1>3, <2>2
  <2>4. x # pair
    <3>1. ASSUME x = pair PROVE FALSE
      <4>1. x[1] = p /\ x[2] = h.chain[p] + 1
        BY <1>6, <3>1
      <4>2. h.chain[p] + 1 <= h.chain[p]
        BY <2>1, <4>1
      <4> QED
        BY <2>3, <4>2
    <3> QED
      BY <3>1
  <2>5. x[2] <= g.chain[x[1]]
    <3>1. CASE x[1] = p
      <4>1. x[2] <= h.chain[p]
        BY <2>1, <3>1
      <4>2. g.chain[x[1]] = h.chain[p] + 1
        BY <1>2, <3>1
      <4> QED
        BY <2>2, <2>3, <4>1, <4>2
    <3>2. CASE x[1] # p
      BY <1>2, <2>1, <2>2, <3>2
    <3> QED
      BY <3>1, <3>2
  <2> QED
    BY <1>2, <2>1, <2>4, <2>5 DEF Known
<1>8. Known(g, pair)
  <2>1. p <= h.made
    <3>1. Known(h, h.jobs[1].to)
      BY <1>1, <1>2 DEF Adopting
    <3> QED
      BY <1>2, <3>1 DEF Known
  <2>2. g.chain[p] \in Nat
    BY <1>2, <1>3
  <2>3. pair[1] <= g.made
    BY <1>2, <1>6, <2>1
  <2>4. pair[2] <= g.chain[pair[1]]
    <3> DEFINE c == g.chain[p]
               a == pair[2]
    <3>1. c \in Nat /\ c = h.chain[p] + 1
      BY <1>2, <2>2
    <3>2. a = h.chain[p] + 1
      BY <1>6
    <3> HIDE DEF a, c
    <3>3. a <= c
      BY <3>1, <3>2
    <3> QED
      BY <1>6, <3>3 DEF a, c
  <2> QED
    BY <2>3, <2>4 DEF Known
<1>9. Claimed(h) \subseteq h.unresolved
  BY <1>1, ClaimedLive
<1>10. arg \in h.adopts[p]
  BY <1>1, <1>2 DEF Adopting
<1>11. arg \in {Thenable} \cup 1 .. g.made
  <2>1. arg \in {Thenable} \cup Promises
    BY <1>2, <1>3, <1>10
  <2>2. h.adopts[p] \cap Promises \subseteq 1 .. h.made
    BY <1>2 DEF Sound
  <2> QED
    BY <1>2, <1>10, <2>1, <2>2
<1>12. RoomFor(g, 1)
  <2> DEFINE A == Adoptions(h)
             c == Cardinality(A)
             d == Cardinality(A \ {1})
             e == Cardinality(Adoptions(g))
             n == Len(h.on)
  <2>1. 1 \in 1 .. Len(h.jobs)
    BY <1>2 DEF Adoptions
  <2>2. e <= d
    BY <1>1, <1>2, <2>1, ShiftedRoom
  <2>3. IsFiniteSet(A) /\ c \in Nat /\ e \in Nat
    BY <1>1, <1>2, AdoptionsFinite
  <2>4. d = c - 1
    BY <1>2, <2>3, FS_RemoveElement
  <2>5. n + c <= MaxThens /\ n \in Nat
    BY <1>1, Typed DEF Room
  <2>6. Len(g.on) = n
    BY <1>2
  <2>7. n + e + 1 <= MaxThens
    <3> HIDE DEF c, d, e, n
    <3> QED
      BY <2>2, <2>3, <2>4, <2>5, BoundsAssumption
  <2> QED
    BY <2>6, <2>7 DEF RoomFor, Adoptions
<1>13. ASSUME NEW x \in Promises, NEW q \in Promises,
              q \in g.adopts[x], ~(x = p /\ q = arg)
       PROVE  Follower(g, x, q)
  <2>1. Follower(h, x, q)
    BY <1>1, <1>2, <1>13 DEF AdoptsInv
  <2> QED
    BY <1>13, <2>1, TakesAdopts
<1>14. /\ vis \subseteq 1 .. g.made
       /\ \A x \in Promises : g.adopts[x] \cap Promises \subseteq 1 .. g.made
       /\ \A x \in hd \cup {pair} : x \in Pairs /\ Known(g, x)
  BY <1>2, <1>5, <1>7, <1>8 DEF Sound
<1>15. pair \notin h.unresolved \cup Claimed(h) \cup hd
  BY <1>7, <1>9
<1> HIDE DEF arg
<1> QED
  BY <1>2, <1>4, <1>6, <1>11, <1>12, <1>13, <1>14, <1>15 DEF Taken, arg

\* A JavaScript then method is called, and given the pair.
LEMMA TakeCalls ==
  ASSUME IInv, NEW g, NEW pair, Taken(rt, g, pair, held, visible, ran),
         rt.jobs[1].arg = Thenable,
         rt' = g, frames' = Push("then", pair), held' = held \cup {pair},
         visible' = visible, ran' = ran
  PROVE  IInv'
<1> DEFINE f == [kind |-> "then", to |-> pair]
           U == rt.unresolved
           C == Claimed(rt)
<1>1. Hands(U, C, held, frames)
  BY DEF IInv
<1>2. /\ g.unresolved = U \cup {pair} /\ Claimed(g) = C
      /\ pair \in Pairs /\ pair \notin U \cup C \cup held
  BY DEF Taken
<1>3. EngineInv(g)
  <2>1. \A x, q \in Promises : q \in g.adopts[x] => Follower(g, x, q)
    BY ValuesAssumption DEF Taken
  <2> QED
    BY <2>1 DEF Taken, EngineInv, AdoptsInv
<1>4. Sound(g, held \cup {pair}, visible, ran)
  BY <1>3 DEF Taken, Sound
<1>5. frames' = Append(frames, f)
  BY DEF Push
<1>6. f \in Frames /\ ~OfEngine(f) /\ (f.kind = "then" => f.to \in held \cup {pair})
  BY <1>2 DEF Frames, FrameKinds, OfEngine
<1> HIDE DEF f, U, C
<1>7. Hands(U \cup {pair}, C, held \cup {pair}, frames)
  BY <1>1, <1>2, HandsChange
<1>8. Hands(U \cup {pair}, C, held \cup {pair}, Append(frames, f))
  BY <1>6, <1>7, HandsPush
<1> QED
  BY <1>2, <1>4, <1>5, <1>8 DEF IInv

\* The promise subscribes to another one.
LEMMA TakeSubscribes ==
  ASSUME IInv, NEW g, NEW pair, Taken(rt, g, pair, held, visible, ran),
         rt.jobs[1].arg # Thenable,
         rt' = PerformThen(g, rt.jobs[1].arg, "settle", pair), frames' = frames, held' = held,
         visible' = visible, ran' = ran
  PROVE  IInv'
<1> DEFINE q0 == rt.jobs[1].arg
           p  == rt.jobs[1].to[1]
           k  == PerformThen(g, q0, "settle", pair)
           U  == rt.unresolved
           C  == Claimed(rt)
<1>1. Hands(U, C, held, frames)
  BY DEF IInv
<1>2. /\ g \in Runtimes /\ CoreInv(g) /\ TicketsInv(g, ran)
      /\ g.unresolved = U \cup {pair} /\ Claimed(g) = C /\ pair[1] = p
      /\ pair \in Pairs /\ pair \notin U \cup C \cup held
      /\ q0 \in 1 .. g.made /\ RoomFor(g, 1)
      /\ \A x \in held : x \in Pairs /\ Known(g, x)
      /\ visible \subseteq 1 .. g.made
      /\ \A x \in Promises : g.adopts[x] \cap Promises \subseteq 1 .. g.made
  BY DEF Taken
<1>3. \A x, q \in Promises : q \in g.adopts[x] /\ ~(x = p /\ q = q0) => Follower(g, x, q)
  BY DEF Taken
<1>4. q0 \in Promises /\ (g.state[q0] # "pending" => Ended(g, q0))
  <2>1. g.made \in 0 .. MaxPromises /\ g.state \in [Promises -> States]
    BY <1>2, Typed
  <2>2. q0 \in Promises /\ ~(q0 > g.made)
    BY <1>2, <2>1, BoundsAssumption DEF Promises
  <2>3. g.state[q0] # "none"
    BY <1>2, <2>2 DEF CoreInv, Making
  <2> QED
    BY <2>1, <2>2, <2>3 DEF Ended, States
<1>5. "settle" \in Kinds /\ pair \in g.unresolved \ Claimed(g)
  BY <1>2 DEF Kinds
<1> HIDE DEF U, C, q0, p
<1>6. /\ CoreInv(k) /\ TicketsInv(k, ran) /\ Claimed(k) = Claimed(g) \cup {pair}
      /\ \A x, q \in Promises : Follower(g, x, q) => Follower(k, x, q)
      /\ Follower(k, pair[1], q0)
      /\ k.adopts = g.adopts /\ k.unresolved = g.unresolved
      /\ k.made = g.made /\ k.chain = g.chain
  <2>1. CASE g.state[q0] = "pending"
    <3>1. Registers(g, k, q0, "settle", pair)
      BY <1>2, <1>4, <1>5, <2>1, RegisterType
    <3> HIDE DEF k
    <3>2. CoreInv(k) /\ TicketsInv(k, ran) /\ Claimed(k) = Claimed(g) \cup {pair}
      BY <1>2, <1>5, <3>1, RegistersCore, RegistersTickets, RegistersClaimed
    <3>3. /\ \A x, q \in Promises : Follower(g, x, q) => Follower(k, x, q)
          /\ Follower(k, pair[1], q0)
      BY <1>2, <3>1, RegistersAdopts
    <3> QED
      BY <3>1, <3>2, <3>3 DEF Registers
  <2>2. CASE g.state[q0] # "pending"
    <3>1. Queues(g, k, q0, "settle", pair)
      BY <1>2, <1>4, <1>5, <2>2, QueueType
    <3> HIDE DEF k
    <3>2. CoreInv(k) /\ TicketsInv(k, ran) /\ Claimed(k) = Claimed(g) \cup {pair}
      BY <1>2, <1>4, <1>5, <2>2, <3>1, QueuesCore, QueuesTickets, QueuesClaimed
    <3>3. /\ \A x, q \in Promises : Follower(g, x, q) => Follower(k, x, q)
          /\ Follower(k, pair[1], q0)
      BY <1>2, <3>1, QueuesAdopts
    <3> QED
      BY <3>1, <3>2, <3>3 DEF Queues
  <2> QED
    BY <2>1, <2>2
<1>7. rt' = k
  BY DEF q0
<1> HIDE DEF k
<1>8. EngineInv(k)
  <2>1. ASSUME NEW x \in Promises, NEW q \in k.adopts[x] \cap Promises PROVE Follower(k, x, q)
    <3>1. CASE x = p /\ q = q0
      BY <1>2, <1>6, <3>1
    <3>2. CASE ~(x = p /\ q = q0)
      BY <1>3, <1>6, <2>1, <3>2
    <3> QED
      BY <3>1, <3>2
  <2> QED
    BY <1>6, <2>1 DEF EngineInv, AdoptsInv
<1>9. Sound(k, held, visible, ran)
  BY <1>2, <1>6, <1>8 DEF Sound, Known
<1>10. Hands(U \cup {pair}, C \cup {pair}, held, frames)
  BY <1>1, <1>2, HandsChange
<1>11. Hands(k.unresolved, Claimed(k), held, frames)
  BY <1>2, <1>6, <1>10
<1> QED
  BY <1>7, <1>9, <1>11 DEF IInv

LEMMA StepExecuteJob ==
  ASSUME IInv, ExecuteJob
  PROVE  IInv'
<1> DEFINE job == rt.jobs[1]
           k   == Popped(rt)
           p   == job.to[1]
<1>1. Sound(rt, held, visible, ran) /\ rt \in Runtimes /\ CoreInv(rt)
  BY SoundType DEF IInv
<1>2. rt.jobs # <<>>
  BY DEF ExecuteJob
<1>3. /\ Head(rt.jobs) = job /\ job \in Jobs /\ 1 \in 1 .. Len(rt.jobs)
      /\ job.kind # "thenable" => Drops(rt, k)
      /\ \A q \in Promises : job.kind = "thenable" /\ q = job.to[1] /\ rt.chain[q] < MaxChain
                => Takes(rt, NewPair(k, q), q, PairOf(k, q))
  BY <1>1, <1>2, PopIs
<1>4. /\ visible' = visible
      /\ job.kind = "thenable" /\ job.arg = Thenable =>
           rt' = NewPair(k, p) /\ frames' = Push("then", PairOf(k, p))
           /\ held' = held \cup {PairOf(k, p)} /\ ran' = ran
      /\ job.kind = "thenable" /\ job.arg # Thenable =>
           rt' = PerformThen(NewPair(k, p), job.arg, "settle", PairOf(k, p))
           /\ frames' = frames /\ held' = held /\ ran' = ran
      /\ job.kind # "thenable" => ran' = Append(ran, job.ticket) /\ held' = held
      /\ job.kind = "resume" => rt' = k /\ frames' = Push("body", job.to)
      /\ job.kind = "call" => rt' = k /\ frames' = Push("handler", job.to)
      /\ job.kind \notin {"thenable", "resume", "call"} =>
           rt' = RunJob(k, job) /\ frames' = frames
  BY <1>3 DEF ExecuteJob, Popped
<1>5. job.kind \in Kinds \cup {"thenable"} /\ job.to \in Pairs
  BY <1>3 DEF Jobs
<1>6. CASE job.kind = "thenable"
  <2>1. p \in Promises
    BY <1>5 DEF Pairs
  <2>2. rt.chain[p] < MaxChain
    BY <1>1, <1>3, <1>6 DEF CoreInv, Room, Adoptions
  <2>3. Takes(rt, NewPair(k, p), p, PairOf(k, p))
    BY <1>3, <1>6, <2>1, <2>2
  <2> DEFINE g    == NewPair(k, p)
             pair == PairOf(k, p)
  <2>4. Taken(rt, g, pair, held, visible, ran)
    BY <1>1, <2>3, TakeLeaves
  <2>5. CASE job.arg = Thenable
    <3>1. rt' = g /\ frames' = Push("then", pair) /\ held' = held \cup {pair}
          /\ visible' = visible /\ ran' = ran
      BY <1>4, <1>6, <2>5
    <3> HIDE DEF g, pair
    <3> QED
      BY <2>4, <2>5, <3>1, TakeCalls
  <2>6. CASE job.arg # Thenable
    <3>1. rt' = PerformThen(g, job.arg, "settle", pair) /\ frames' = frames /\ held' = held
          /\ visible' = visible /\ ran' = ran
      BY <1>4, <1>6, <2>6
    <3> HIDE DEF g, pair
    <3> QED
      BY <2>4, <2>6, <3>1, TakeSubscribes
  <2> QED
    BY <2>5, <2>6
<1>7. CASE job.kind \in {"resume", "call"}
  <2>1. Drops(rt, k) /\ job.kind # "settle" /\ rt' = k
        /\ ran' = Append(ran, job.ticket) /\ held' = held /\ visible' = visible
    BY <1>3, <1>4, <1>7
  <2> HIDE DEF k
  <2>2. frames' = Push("body", job.to) \/ frames' = Push("handler", job.to)
    BY <1>4, <1>7
  <2> QED
    BY <2>1, <2>2, TaskCalls
<1>8. CASE job.kind \in {"pass", "settle", "module"}
  <2>1. Drops(rt, k) /\ rt' = RunJob(k, job) /\ frames' = frames
        /\ ran' = Append(ran, job.ticket) /\ held' = held /\ visible' = visible
    BY <1>3, <1>4, <1>8
  <2> HIDE DEF k
  <2> QED
    BY <1>8, <2>1, TaskPasses
<1> QED
  BY <1>5, <1>6, <1>7, <1>8 DEF Kinds, UserKinds

-----------------------------------------------------------------------------
(* Every step keeps the invariant. *)

LEMMA NextInv == IInv /\ [Next]_vars => IInv'
<1>1. SUFFICES ASSUME IInv, [Next]_vars PROVE IInv'
  OBVIOUS
<1>2. ASSUME JavaScript PROVE IInv'
  BY <1>1, <1>2, StepNewPromise, StepResolves, StepThen, StepCallsAsync, StepAwaitsPromise,
     StepAwaitsOther DEF JavaScript
<1>3. ASSUME Ends PROVE IInv'
  BY <1>1, <1>3, StepEnds, StepModuleAnswers DEF Ends
<1>4. ASSUME StartScript \/ StartModule \/ \E p \in visible : AwaitPromise(p) PROVE IInv'
  BY <1>1, <1>4, StepStartScript, StepStartModule, StepAwaitPromise
<1>5. ASSUME ExecuteJob PROVE IInv'
  BY <1>1, <1>5, StepExecuteJob
<1>6. ASSUME UNCHANGED vars PROVE IInv'
  BY <1>1, <1>6 DEF vars, IInv
<1> QED
  BY <1>1, <1>2, <1>3, <1>4, <1>5, <1>6 DEF Next

\* The invariant holds in every state that scripts, modules and jobs can reach.
THEOREM Invariance == Spec => []IInv
<1>1. Init => IInv
  BY InitInv
<1>2. IInv /\ [Next]_vars => IInv'
  BY NextInv
<1> QED
  BY <1>1, <1>2, PTL DEF Spec

-----------------------------------------------------------------------------
(* Counting what has at most one member *)

AtMostOne(A) == \A a, b \in A : a = b

LEMMA CountOfOne ==
  ASSUME NEW A, AtMostOne(A)
  PROVE  Cardinality(A) = IF A = {} THEN 0 ELSE 1
<1>1. CASE A = {}
  BY <1>1, FS_EmptySet
<1>2. CASE A # {}
  <2>1. PICK a \in A : TRUE
    BY <1>2
  <2>2. A = {a}
    BY <2>1 DEF AtMostOne
  <2>3. Cardinality({a}) = 1
    BY FS_Singleton
  <2> QED
    BY <1>2, <2>2, <2>3
<1> QED
  BY <1>1, <1>2

\* Three places, one of which may hold something, and only one thing.
LEMMA OnePlace ==
  ASSUME NEW A, NEW B, NEW D, AtMostOne(A), AtMostOne(B), AtMostOne(D),
         A = {} \/ B = {}, A = {} \/ D = {}, B = {} \/ D = {}
  PROVE  LET sum == Cardinality(A) + Cardinality(B) + Cardinality(D)
         IN  /\ sum <= 1
             /\ A \cup B \cup D # {} => sum = 1
             /\ A \cup B \cup D = {} => sum = 0
<1> DEFINE a == Cardinality(A)
           b == Cardinality(B)
           d == Cardinality(D)
<1>1. /\ a = IF A = {} THEN 0 ELSE 1
      /\ b = IF B = {} THEN 0 ELSE 1
      /\ d = IF D = {} THEN 0 ELSE 1
  BY CountOfOne
<1> HIDE DEF a, b, d
<1>2. /\ a + b + d <= 1
      /\ A \cup B \cup D # {} => a + b + d = 1
      /\ A \cup B \cup D = {} => a + b + d = 0
  <2>1. CASE A # {}
    BY <1>1, <2>1
  <2>2. CASE A = {} /\ B # {}
    BY <1>1, <2>2
  <2>3. CASE A = {} /\ B = {} /\ D # {}
    BY <1>1, <2>3
  <2>4. CASE A = {} /\ B = {} /\ D = {}
    BY <1>1, <2>4
  <2> QED
    BY <2>1, <2>2, <2>3, <2>4
<1> QED
  BY <1>2 DEF a, b, d

-----------------------------------------------------------------------------
(* What the invariant says of the properties *)

LEMMA InvariantParts ==
  ASSUME IInv
  PROVE  /\ rt \in Runtimes /\ Room(rt) /\ Making(rt) /\ Chances(rt) /\ Waiting(rt) /\ Queued(rt)
         /\ \A p \in Promises : AdoptsInv(rt, p)
         /\ TicketsInv(rt, ran)
         /\ Hands(rt.unresolved, Claimed(rt), held, frames)
         /\ held \subseteq Pairs /\ visible \subseteq 1 .. rt.made
BY SoundType DEF IInv, Sound, EngineInv, CoreInv

LEMMA InvType == IInv => TypeOK
<1>1. SUFFICES ASSUME IInv PROVE TypeOK
  OBVIOUS
<1>2. rt \in Runtimes /\ held \subseteq Pairs /\ visible \subseteq 1 .. rt.made
  BY <1>1, InvariantParts
<1>3. /\ rt.made \in 0 .. MaxPromises
      /\ rt.state \in [Promises -> States] /\ rt.result \in [Promises -> Values]
      /\ rt.unresolved \subseteq Pairs
  BY <1>2 DEF Runtimes
<1>4. ASSUME NEW p \in Promises, NEW i \in 1 .. Len(rt.reactions[p])
      PROVE  rt.reactions[p][i].kind \in Kinds /\ rt.reactions[p][i].to \in Pairs
  <2>1. rt.reactions[p][i] \in Reactions
    BY <1>2, Typed
  <2> QED
    BY <2>1 DEF Reactions
<1>5. rt.result \in [Promises -> Values \cup {Thenable, BadThen} \cup Promises]
  BY <1>3
<1> QED
  BY <1>2, <1>3, <1>4, <1>5 DEF TypeOK, States

LEMMA InvChance == IInv => OneChance
<1>1. SUFFICES ASSUME IInv, NEW p \in Promises
               PROVE  Cardinality({pair \in rt.unresolved : pair[1] = p}) + Cardinality(JobsTo(p))
                        = IF rt.state[p] = "pending" THEN 1 ELSE 0
  BY InvType DEF OneChance
<1> DEFINE A == {pair \in rt.unresolved : pair[1] = p}
           B == JobsTo(p)
<1>2. Chances(rt)
  BY <1>1, InvariantParts
<1>3. B \subseteq Adoptions(rt) /\ \A i \in Adoptions(rt) : i \in B <=> rt.jobs[i].to[1] = p
  BY DEF JobsTo, Adoptions
<1>4. AtMostOne(A) /\ AtMostOne(B) /\ AtMostOne({})
  <2>1. ASSUME NEW a \in A, NEW b \in A PROVE a = b
    BY <1>2 DEF Chances
  <2>2. ASSUME NEW a \in B, NEW b \in B PROVE a = b
    BY <1>2, <1>3 DEF Chances
  <2> QED
    BY <2>1, <2>2 DEF AtMostOne
<1>5. A = {} \/ B = {}
  BY <1>2, <1>3 DEF Chances
<1>6. rt.state[p] = "pending" <=> A \cup B # {}
  <2>1. ASSUME rt.state[p] = "pending" PROVE A \cup B # {}
    BY <1>2, <1>3, <2>1 DEF Chances
  <2>2. ASSUME NEW a \in A PROVE rt.state[p] = "pending"
    BY <1>2 DEF Chances
  <2>3. ASSUME NEW i \in B PROVE rt.state[p] = "pending"
    BY <1>2, <1>3 DEF Chances
  <2> QED
    BY <2>1, <2>2, <2>3
<1> HIDE DEF A, B
<1> DEFINE a == Cardinality(A)
           b == Cardinality(B)
<1>7. /\ a = IF A = {} THEN 0 ELSE 1
      /\ b = IF B = {} THEN 0 ELSE 1
  BY <1>4, CountOfOne
<1> HIDE DEF a, b
<1>8. a + b = IF rt.state[p] = "pending" THEN 1 ELSE 0
  <2>1. CASE A # {}
    BY <1>5, <1>6, <1>7, <2>1
  <2>2. CASE A = {} /\ B # {}
    BY <1>6, <1>7, <2>2
  <2>3. CASE A = {} /\ B = {}
    BY <1>6, <1>7, <2>3
  <2> QED
    BY <2>1, <2>2, <2>3
<1> QED
  BY <1>8 DEF a, b, A, B

LEMMA InvForgotten == IInv => NoPromiseForgotten
<1>1. SUFFICES ASSUME IInv, NEW x \in rt.unresolved
               PROVE  \/ x \in held
                      \/ \E p \in Promises :
                           /\ rt.state[p] = "pending"
                           /\ \E i \in 1 .. Len(rt.reactions[p]) : rt.reactions[p][i].to = x
                      \/ \E i \in 1 .. Len(rt.jobs) :
                           rt.jobs[i].kind # "thenable" /\ rt.jobs[i].to = x
                      \/ \E i \in 1 .. Len(frames) : frames[i].kind # "eval" /\ frames[i].to = x
  BY DEF NoPromiseForgotten
<1>2. rt \in Runtimes /\ Waiting(rt) /\ Hands(rt.unresolved, Claimed(rt), held, frames)
  BY <1>1, InvariantParts
<1>3. CASE x \in Claimed(rt)
  <2>1. ASSUME NEW p \in Promises, NEW i \in 1 .. Len(rt.reactions[p])
        PROVE  rt.state[p] = "pending"
    <3>1. Len(rt.reactions[p]) > 0 /\ Len(rt.reactions[p]) \in Nat
      BY <1>2, Typed
    <3>2. rt.reactions[p] # <<>>
      BY <1>2, <3>1, Typed
    <3> QED
      BY <1>2, <3>2 DEF Waiting
  <2> QED
    BY <1>3, <2>1 DEF Claimed, Tasks
<1>4. CASE x \notin held /\ x \notin Claimed(rt)
  <2>1. PICK i \in 1 .. Len(frames) : OfEngine(frames[i]) /\ frames[i].to = x
    BY <1>1, <1>2, <1>4 DEF Hands
  <2> QED
    BY <2>1 DEF OfEngine
<1> QED
  BY <1>3, <1>4

\* Of two reactions, registered or queued, at most one has a given ticket, and at
\* most one a given pair.
LEMMA OneReaction ==
  ASSUME IInv
  PROVE  /\ \A p, q \in Promises : \A i \in 1 .. Len(rt.reactions[p]), j \in 1 .. Len(rt.reactions[q]) :
              Apart(rt.reactions[p][i], rt.reactions[q][j]) \/ (p = q /\ i = j)
         /\ \A i \in Tasks(rt), p \in Promises : \A j \in 1 .. Len(rt.reactions[p]) :
              Apart(rt.jobs[i], rt.reactions[p][j])
         /\ \A i, j \in Tasks(rt) : Apart(rt.jobs[i], rt.jobs[j]) \/ i = j
<1>1. Waiting(rt) /\ Queued(rt)
  BY InvariantParts
<1>2. ASSUME NEW p \in Promises, NEW q \in Promises,
             NEW i \in 1 .. Len(rt.reactions[p]), NEW j \in 1 .. Len(rt.reactions[q])
      PROVE  Apart(rt.reactions[p][i], rt.reactions[q][j]) \/ (p = q /\ i = j)
  <2>1. CASE p # q
    BY <1>1, <2>1 DEF Waiting
  <2>2. CASE p = q
    <3>1. i \in Int /\ j \in Int /\ WaitingFor(rt, p)
      BY <1>1 DEF Waiting
    <3>2. CASE i < j
      BY <2>2, <3>1, <3>2 DEF WaitingFor, Apart
    <3>3. CASE j < i
      BY <2>2, <3>1, <3>3 DEF WaitingFor, Apart
    <3> QED
      BY <2>2, <3>1, <3>2, <3>3
  <2> QED
    BY <2>1, <2>2
<1>3. ASSUME NEW i \in Tasks(rt), NEW j \in Tasks(rt)
      PROVE  Apart(rt.jobs[i], rt.jobs[j]) \/ i = j
  <2>1. i \in Int /\ j \in Int
    BY DEF Tasks
  <2>2. CASE i < j
    BY <1>1, <2>2 DEF Queued
  <2>3. CASE j < i
    BY <1>1, <2>3 DEF Queued, Apart
  <2> QED
    BY <2>1, <2>2, <2>3
<1>4. \A i \in Tasks(rt), p \in Promises : \A j \in 1 .. Len(rt.reactions[p]) :
        Apart(rt.jobs[i], rt.reactions[p][j])
  BY <1>1 DEF Queued
<1> QED
  BY <1>2, <1>3, <1>4

\* The bound on reactions is one on the reactions of each promise.
LEMMA ReactionIndex ==
  ASSUME IInv, NEW p \in Promises, NEW i \in 1 .. Len(rt.reactions[p])
  PROVE  i \in Tickets
<1>1. rt \in Runtimes /\ Room(rt) /\ Waiting(rt)
  BY InvariantParts
<1> DEFINE n == rt.reactions[p][i].ticket
           c == Cardinality(Adoptions(rt))
           m == Len(rt.on)
<1>2. n \in 1 .. m /\ i <= n /\ i \in Nat
  <2>1. Registered(rt, rt.reactions[p][i]) /\ i <= n
    BY <1>1 DEF Waiting, WaitingFor
  <2>2. Len(rt.reactions[p]) \in Nat
    BY <1>1, Typed
  <2> QED
    BY <2>1, <2>2 DEF Registered
<1>3. m + c <= MaxThens /\ m \in Nat /\ c \in Nat
  BY <1>1, Typed, AdoptionsFinite DEF Room
<1>4. i \in 1 .. Len(rt.reactions[p])
  OBVIOUS
<1> HIDE DEF n, c, m
<1> QED
  BY <1>2, <1>3, <1>4, BoundsAssumption DEF Tickets

LEMMA InvPlaces ==
  ASSUME IInv, NEW n \in 1 .. Len(rt.on)
  PROVE  Places(n) = 1
<1> DEFINE A == {e \in Promises \X Tickets :
                   /\ e[2] <= Len(rt.reactions[e[1]])
                   /\ rt.reactions[e[1]][e[2]].ticket = n}
           B == {i \in 1 .. Len(rt.jobs) : rt.jobs[i].ticket = n}
           D == {i \in 1 .. Len(ran) : ran[i] = n}
<1>1. rt \in Runtimes /\ Queued(rt) /\ TicketsInv(rt, ran)
  BY InvariantParts
<1>2. Gone(rt, ran) /\ Found(rt, ran, n)
  BY <1>1 DEF TicketsInv
<1>3. ASSUME NEW e \in A
      PROVE  /\ e[1] \in Promises /\ e[2] \in 1 .. Len(rt.reactions[e[1]])
             /\ rt.reactions[e[1]][e[2]].ticket = n /\ <<e[1], e[2]>> = e
  <2>1. e[1] \in Promises /\ e[2] \in Tickets /\ e[2] <= Len(rt.reactions[e[1]])
        /\ <<e[1], e[2]>> = e
    OBVIOUS
  <2>2. Len(rt.reactions[e[1]]) \in Nat
    BY <1>1, <2>1, Typed
  <2>3. e[2] \in 1 .. Len(rt.reactions[e[1]])
    BY <2>1, <2>2 DEF Tickets
  <2> QED
    BY <2>1, <2>3
<1>4. ASSUME NEW i \in B PROVE i \in Tasks(rt) /\ rt.jobs[i].ticket = n
  <2>1. n # 0 /\ i \in 1 .. Len(rt.jobs) /\ rt.jobs[i].ticket = n
    OBVIOUS
  <2>2. ASSUME rt.jobs[i].kind = "thenable" PROVE FALSE
    <3>1. Adopting(rt)
      BY DEF IInv, Sound, EngineInv, CoreInv
    <3>2. i \in Adoptions(rt)
      BY <2>1, <2>2 DEF Adoptions
    <3> QED
      BY <2>1, <3>1, <3>2 DEF Adopting
  <2> QED
    BY <2>1, <2>2 DEF Tasks
<1>5. A = {} \/ B = {}
  <2>1. ASSUME NEW e \in A, NEW i \in B PROVE FALSE
    BY SMTT(60), <1>3, <1>4, OneReaction DEF Apart
  <2> QED
    BY <2>1
<1>6. A = {} \/ D = {}
  <2>1. ASSUME NEW e \in A, NEW i \in D PROVE FALSE
    <3>1. i \in 1 .. Len(ran) /\ ran[i] = n
      OBVIOUS
    <3>2. ran[i] # rt.reactions[e[1]][e[2]].ticket
      BY <1>2, <1>3, <3>1 DEF Gone
    <3> QED
      BY <1>3, <3>1, <3>2
  <2> QED
    BY <2>1
<1>7. B = {} \/ D = {}
  <2>1. ASSUME NEW j \in B, NEW i \in D PROVE FALSE
    <3>1. i \in 1 .. Len(ran) /\ ran[i] = n
      OBVIOUS
    <3>2. RanFirst(rt, ran[i], rt.jobs[j].ticket)
      BY <1>2, <1>4, <3>1 DEF Gone
    <3> QED
      BY <1>4, <3>1, <3>2 DEF RanFirst
  <2> QED
    BY <2>1
<1>8. AtMostOne(A)
  <2>1. ASSUME NEW a \in A, NEW b \in A PROVE a = b
    <3>1. a[1] = b[1] /\ a[2] = b[2]
      BY SMTT(60), <1>3, OneReaction DEF Apart
    <3> QED
      BY <1>3, <3>1
  <2> QED
    BY <2>1 DEF AtMostOne
<1>9. AtMostOne(B)
  <2>1. ASSUME NEW a \in B, NEW b \in B PROVE a = b
    BY <1>4, OneReaction DEF Apart
  <2> QED
    BY <2>1 DEF AtMostOne
<1>10. AtMostOne(D)
  <2>1. ASSUME NEW a \in D, NEW b \in D PROVE a = b
    <3>1. a \in Int /\ b \in Int /\ a \in 1 .. Len(ran) /\ b \in 1 .. Len(ran)
          /\ ran[a] = ran[b]
      OBVIOUS
    <3>2. ~(a < b) /\ ~(b < a)
      BY <1>2, <3>1 DEF Gone, RanFirst
    <3> QED
      BY <3>1, <3>2
  <2> QED
    BY <2>1 DEF AtMostOne
<1>11. A \cup B \cup D # {}
  <2>1. ASSUME NEW p \in Promises, NEW i \in 1 .. Len(rt.reactions[p]),
               rt.reactions[p][i].ticket = n
        PROVE  <<p, i>> \in A
    <3>1. i \in Tickets /\ i <= Len(rt.reactions[p])
      BY ReactionIndex
    <3> QED
      BY <2>1, <3>1
  <2>2. ASSUME NEW i \in Tasks(rt), rt.jobs[i].ticket = n PROVE i \in B
    BY <2>2 DEF Tasks
  <2>3. ASSUME NEW i \in 1 .. Len(ran), ran[i] = n PROVE i \in D
    BY <2>3
  <2> HIDE DEF A, B, D
  <2> QED
    BY <1>2, <2>1, <2>2, <2>3 DEF Found
<1>12. Places(n) = Cardinality(A) + Cardinality(B) + Cardinality(D)
  BY DEF Places
<1> HIDE DEF A, B, D
<1> QED
  BY <1>5, <1>6, <1>7, <1>8, <1>9, <1>10, <1>11, <1>12, OnePlace

LEMMA InvOnce == IInv => EachReactionOnce
<1>1. SUFFICES ASSUME IInv PROVE EachReactionOnce
  OBVIOUS
<1>2. Waiting(rt) /\ Gone(rt, ran)
  BY <1>1, InvariantParts DEF TicketsInv
<1>3. \A n \in 1 .. Len(rt.on) : Places(n) = 1
  BY <1>1, InvPlaces
<1>4. \A p \in Promises : Settled(p) => rt.reactions[p] = <<>>
  BY <1>2 DEF Waiting, Settled
<1>5. \A i, j \in 1 .. Len(ran) :
        i < j /\ rt.on[ran[i]] = rt.on[ran[j]] => ran[i] < ran[j]
  BY <1>2 DEF Gone, RanFirst
<1> QED
  BY <1>3, <1>4, <1>5 DEF EachReactionOnce

\* Where a body whose promise has the pair x may be: in a reaction, in a task, or
\* in a frame.
LEMMA BodyPlaces ==
  ASSUME IInv, NEW x \in Pairs
  PROVE  LET A == {e \in Promises \X Tickets :
                     /\ e[2] <= Len(rt.reactions[e[1]])
                     /\ rt.reactions[e[1]][e[2]].kind = "resume"
                     /\ rt.reactions[e[1]][e[2]].to = x}
             B == {i \in 1 .. Len(rt.jobs) : rt.jobs[i].kind = "resume" /\ rt.jobs[i].to = x}
             D == {i \in 1 .. Len(frames) : frames[i].kind = "body" /\ frames[i].to = x}
         IN  Cardinality(A) + Cardinality(B) + Cardinality(D)
               <= IF x \in rt.unresolved THEN 1 ELSE 0
<1> DEFINE A == {e \in Promises \X Tickets :
                   /\ e[2] <= Len(rt.reactions[e[1]])
                   /\ rt.reactions[e[1]][e[2]].kind = "resume"
                   /\ rt.reactions[e[1]][e[2]].to = x}
           B == {i \in 1 .. Len(rt.jobs) : rt.jobs[i].kind = "resume" /\ rt.jobs[i].to = x}
           D == {i \in 1 .. Len(frames) : frames[i].kind = "body" /\ frames[i].to = x}
           U == rt.unresolved
           C == Claimed(rt)
<1>2. rt \in Runtimes /\ Queued(rt) /\ Waiting(rt) /\ Hands(U, C, held, frames)
  BY InvariantParts
<1>3. ASSUME NEW e \in A
      PROVE  /\ e[1] \in Promises /\ e[2] \in 1 .. Len(rt.reactions[e[1]])
             /\ rt.reactions[e[1]][e[2]].to = x /\ <<e[1], e[2]>> = e
             /\ x \in U
  <2>1. e[1] \in Promises /\ e[2] \in Tickets /\ e[2] <= Len(rt.reactions[e[1]])
        /\ <<e[1], e[2]>> = e /\ rt.reactions[e[1]][e[2]].to = x
    OBVIOUS
  <2>2. Len(rt.reactions[e[1]]) \in Nat
    BY <1>2, <2>1, Typed
  <2>3. e[2] \in 1 .. Len(rt.reactions[e[1]])
    BY <2>1, <2>2 DEF Tickets
  <2>4. Registered(rt, rt.reactions[e[1]][e[2]])
    BY <1>2, <2>1, <2>3 DEF Waiting, WaitingFor
  <2> QED
    BY <2>1, <2>3, <2>4 DEF Registered
<1>4. ASSUME NEW i \in B PROVE i \in Tasks(rt) /\ rt.jobs[i].to = x /\ x \in U
  <2>1. i \in Tasks(rt) /\ rt.jobs[i].to = x
    BY DEF Tasks
  <2>2. QueuedTask(rt, rt.jobs[i])
    BY <1>2, <2>1 DEF Queued
  <2> QED
    BY ZenonT(60), <2>1, <2>2 DEF QueuedTask, Registered
<1>5. ASSUME NEW i \in D
      PROVE  i \in 1 .. Len(frames) /\ OfEngine(frames[i]) /\ frames[i].to = x /\ x \in U \ C
  <2>1. i \in 1 .. Len(frames) /\ OfEngine(frames[i]) /\ frames[i].to = x
    BY DEF OfEngine
  <2> HIDE DEF U, C, D
  <2>2. frames[i].to \in U \ (held \cup C)
    BY <1>2, <2>1 DEF Hands
  <2> QED
    BY <2>1, <2>2
<1>7. ASSUME NEW e \in A PROVE x \in C
  BY <1>3 DEF Claimed
<1>8. ASSUME NEW i \in B PROVE x \in C
  BY <1>4 DEF Claimed
<1>9. A = {} \/ B = {}
  <2>1. ASSUME NEW e \in A, NEW i \in B PROVE FALSE
    <3>1. /\ e[1] \in Promises /\ e[2] \in 1 .. Len(rt.reactions[e[1]])
          /\ rt.reactions[e[1]][e[2]].to = x
          /\ i \in Tasks(rt) /\ rt.jobs[i].to = x
      BY <1>3, <1>4
    <3>2. Apart(rt.jobs[i], rt.reactions[e[1]][e[2]])
      BY <3>1, OneReaction
    <3> QED
      BY <3>1, <3>2 DEF Apart
  <2> QED
    BY <2>1
<1>10. (A = {} \/ D = {}) /\ (B = {} \/ D = {})
  BY <1>5, <1>7, <1>8
<1>11. AtMostOne(A)
  <2>1. ASSUME NEW a \in A, NEW b \in A PROVE a = b
    <3>1. /\ a[1] \in Promises /\ a[2] \in 1 .. Len(rt.reactions[a[1]])
          /\ b[1] \in Promises /\ b[2] \in 1 .. Len(rt.reactions[b[1]])
          /\ rt.reactions[a[1]][a[2]].to = x /\ rt.reactions[b[1]][b[2]].to = x
          /\ <<a[1], a[2]>> = a /\ <<b[1], b[2]>> = b
      BY <1>3
    <3>2. \/ Apart(rt.reactions[a[1]][a[2]], rt.reactions[b[1]][b[2]])
          \/ a[1] = b[1] /\ a[2] = b[2]
      <4>1. \A p, q \in Promises :
              \A i \in 1 .. Len(rt.reactions[p]), j \in 1 .. Len(rt.reactions[q]) :
                Apart(rt.reactions[p][i], rt.reactions[q][j]) \/ (p = q /\ i = j)
        BY OneReaction
      <4> DEFINE p == a[1]
                 i == a[2]
                 q == b[1]
                 j == b[2]
      <4>2. /\ p \in Promises /\ i \in 1 .. Len(rt.reactions[p])
            /\ q \in Promises /\ j \in 1 .. Len(rt.reactions[q])
        BY <3>1
      <4> HIDE DEF p, i, q, j
      <4>3. Apart(rt.reactions[p][i], rt.reactions[q][j]) \/ (p = q /\ i = j)
        BY <4>1, <4>2
      <4> QED
        BY <4>3 DEF p, i, q, j
    <3>3. a[1] = b[1] /\ a[2] = b[2]
      BY <3>1, <3>2 DEF Apart
    <3> QED
      BY <3>1, <3>3
  <2> QED
    BY ZenonT(60), <2>1 DEF AtMostOne
<1>12. AtMostOne(B)
  <2>1. ASSUME NEW a \in B, NEW b \in B PROVE a = b
    BY <1>4, OneReaction DEF Apart
  <2> QED
    BY <2>1 DEF AtMostOne
<1>13. AtMostOne(D)
  <2>1. ASSUME NEW a \in D, NEW b \in D PROVE a = b
    BY <1>2, <1>5 DEF Hands
  <2> QED
    BY <2>1 DEF AtMostOne
<1>14. A \cup B \cup D # {} => x \in U
  BY <1>3, <1>4, <1>5
<1> HIDE DEF A, B, D
<1> DEFINE sum == Cardinality(A) + Cardinality(B) + Cardinality(D)
<1>15. /\ sum <= 1
       /\ A \cup B \cup D = {} => sum = 0
  BY <1>9, <1>10, <1>11, <1>12, <1>13, OnePlace
<1> HIDE DEF sum
<1>16. sum <= IF x \in U THEN 1 ELSE 0
  <2>1. CASE x \in U
    BY <1>15, <2>1
  <2>2. CASE x \notin U
    BY <1>14, <1>15, <2>2
  <2> QED
    BY <2>1, <2>2
<1> QED
  BY ZenonT(60), <1>16 DEF sum, A, B, D

LEMMA InvResume == IInv => OneResume
<1>1. SUFFICES ASSUME IInv, NEW f \in Promises
               PROVE  ResumesOf(f) <= IF <<f, 0>> \in rt.unresolved THEN 1 ELSE 0
  BY DEF OneResume
<1>2. <<f, 0>> \in Pairs
  BY BoundsAssumption DEF Pairs
<1> QED
  BY ZenonT(60), <1>1, <1>2, BodyPlaces DEF ResumesOf

LEMMA InvAdopts == IInv => AdoptsOutcome
<1>1. SUFFICES ASSUME IInv, NEW p \in Promises, NEW q \in Promises,
                      Settled(p), q \in rt.adopts[p]
               PROVE  rt.state[p] = rt.state[q] /\ rt.result[p] = rt.result[q]
  BY DEF AdoptsOutcome
<1>2. Waiting(rt) /\ Queued(rt) /\ Chances(rt) /\ Follower(rt, p, q)
  BY <1>1, InvariantParts DEF AdoptsInv
<1>3. rt.state[p] # "pending"
  BY <1>1 DEF Settled
<1>4. ASSUME NEW r, Registered(rt, r), Passes(rt, r, p, q) PROVE FALSE
  BY <1>2, <1>3, <1>4 DEF Registered, Passes, Chances
<1>5. ~\E i \in Adoptions(rt) : rt.jobs[i].to[1] = p /\ rt.jobs[i].arg = q
  BY <1>2, <1>3 DEF Chances
<1>6. ~\E i \in 1 .. Len(rt.reactions[q]) : Passes(rt, rt.reactions[q][i], p, q)
  BY <1>2, <1>4 DEF Waiting, WaitingFor
<1>7. ~\E i \in Tasks(rt) : Passes(rt, rt.jobs[i], p, q)
  BY <1>2, <1>4 DEF Queued, QueuedTask
<1> QED
  BY <1>2, <1>5, <1>6, <1>7 DEF Follower, SameOutcome

-----------------------------------------------------------------------------
(* The properties *)

\* Whatever scripts and modules do, a pending promise can be settled by exactly one
\* call of a resolving function or one job, and a settled one by none.
THEOREM SettledOnce == Spec => []OneChance
BY Invariance, InvChance, PTL

\* The engine loses no promise: each pair of resolving functions that was not used
\* is somebody's who will use it, or JavaScript's.
THEOREM NothingForgotten == Spec => []NoPromiseForgotten
BY Invariance, InvForgotten, PTL

\* Every reaction that was registered is in one place, and those of one promise
\* run in the order of their registration.
THEOREM ReactionsRunOnce == Spec => []EachReactionOnce
BY Invariance, InvOnce, PTL

\* No async function is resumed while it runs, twice for one await, or after its end.
THEOREM AsyncFunctionsResumeOnce == Spec => []OneResume
BY Invariance, InvResume, PTL

\* A promise resolved with another one can only end like that one.
THEOREM PromisesAdoptOutcomes == Spec => []AdoptsOutcome
BY Invariance, InvAdopts, PTL

=============================================================================
