------------------------ MODULE QjsModuleGraphProofs ------------------------
(***************************************************************************)
(* Theorems about QjsModuleGraph, for every finite set of modules and      *)
(* every graph of imports, when no body evaluates a module (Reentry =      *)
(* FALSE).                                                                 *)
(*                                                                         *)
(* The proofs go over graphs without induction: what is reached is a least *)
(* closed set (Closure), so a fact about it is proved by giving a closed   *)
(* set in which it holds, and a cycle is left by taking a module whose     *)
(* number is least (LeastModule).                                          *)
(*                                                                         *)
(* Each action is treated in two halves. Its Step lemma says that it has   *)
(* one of a few effects (QjsModuleGraphInvariant); the Late lemma of that  *)
(* effect says that it keeps what the invariant says about evaluation.     *)
(***************************************************************************)
EXTENDS QjsModuleGraphInvariant, FiniteSetTheorems, SequenceTheorems, WellFoundedInduction, TLAPS

\* A set of natural numbers that is not empty has a least member.
LEMMA NatMin ==
  ASSUME NEW T, T \subseteq Nat, T # {}
  PROVE  \E x \in T : \A y \in T : x <= y
<1> DEFINE R == {ss \in Nat \X Nat : ss[1] < ss[2]}
<1>1. IsWellFoundedOn(R, Nat) BY NatLessThanWellFounded DEF OpToRel
<1> HIDE DEF R
<1>2. PICK x \in T : \A y \in T : <<y, x>> \notin R BY <1>1, WFMin
<1>3. ASSUME NEW y \in T PROVE x <= y
  <2>1. <<y, x>> \notin R BY <1>2
  <2>2. ~(y < x) BY <2>1 DEF R
  <2> QED BY <2>2
<1> QED BY <1>2, <1>3

\* A set of modules that is not empty has a member whose number is least.
LEMMA LeastModule ==
  ASSUME NEW f, NEW T, T \subseteq Modules, \A x \in Modules : f[x] \in Nat, T # {}
  PROVE  \E x \in T : \A y \in T : f[x] <= f[y]
<1> DEFINE V == {f[x] : x \in T}
<1>1. V \subseteq Nat /\ V # {} OBVIOUS
<1>2. PICK v \in V : \A w \in V : v <= w
  <2> HIDE DEF V
  <2> QED BY <1>1, NatMin
<1>3. PICK x \in T : f[x] = v BY <1>2
<1> QED BY <1>2, <1>3

-----------------------------------------------------------------------------
(* What can be reached *)

\* The closure is in every closed set that has m.
LEMMA ClosureLeast ==
  ASSUME NEW U, NEW m, NEW next, NEW S \in SUBSET U, m \in S,
         \A x \in S : next[x] \cap U \subseteq S
  PROVE  Closure(U, m, next) \subseteq S
BY DEF Closure

\* The closure has m, and stays in the set.
LEMMA ClosureHas ==
  ASSUME NEW U, NEW m \in U, NEW next
  PROVE  Closure(U, m, next) \subseteq U /\ m \in Closure(U, m, next)
BY DEF Closure

\* The closure is closed.
LEMMA ClosureStep ==
  ASSUME NEW U, NEW m, NEW next, NEW x \in Closure(U, m, next), NEW y \in next[x], y \in U
  PROVE  y \in Closure(U, m, next)
<1>1. SUFFICES ASSUME NEW S \in SUBSET U, m \in S /\ y \notin S
               PROVE  \E z \in S : ~(next[z] \cap U \subseteq S)
  BY DEF Closure
<1>2. CASE x \in S BY <1>1, <1>2
<1>3. CASE x \notin S BY <1>1, <1>3 DEF Closure
<1> QED BY <1>2, <1>3

\* A module needs itself.
LEMMA NeedsSelf ==
  ASSUME NEW m \in Modules
  PROVE  Needs(m) \subseteq Modules /\ m \in Needs(m)
BY ClosureHas DEF Needs

\* What m needs is in every set that has m and is closed under imports: the
\* form in which facts about all that is needed are proved.
LEMMA NeedsLeast ==
  ASSUME NEW m \in Modules, NEW S \in SUBSET Modules, m \in S,
         \A x \in S : Imports(x) \subseteq S
  PROVE  Needs(m) \subseteq S
<1> DEFINE next == [x \in Modules |-> ToSet(imports[x])]
<1>1. \A x \in S : next[x] \cap Modules \subseteq S BY DEF Imports
<1> HIDE DEF next
<1>2. Closure(Modules, m, next) \subseteq S BY <1>1, ClosureLeast
<1> QED BY <1>2 DEF next, Needs

\* What is imported by what m needs is needed by m.
LEMMA NeedsImport ==
  ASSUME NEW m \in Modules, NEW x \in Needs(m), NEW d \in Imports(x), d \in Modules
  PROVE  d \in Needs(m)
<1> DEFINE next == [y \in Modules |-> ToSet(imports[y])]
<1>1. x \in Closure(Modules, m, next) /\ x \in Modules BY NeedsSelf DEF Needs
<1>2. d \in next[x] BY <1>1 DEF Imports
<1> HIDE DEF next
<1>3. d \in Closure(Modules, m, next) BY <1>1, <1>2, ClosureStep
<1> QED BY <1>3 DEF next, Needs

\* What is needed by what m needs is needed by m.
LEMMA NeedsTransitive ==
  ASSUME NEW m \in Modules, NEW x \in Needs(m), NEW y \in Needs(x),
         \A z \in Modules : Imports(z) \subseteq Modules
  PROVE  y \in Needs(m)
<1>1. x \in Modules /\ Needs(m) \subseteq Modules BY NeedsSelf
<1>2. \A z \in Needs(m) : Imports(z) \subseteq Needs(m) BY <1>1, NeedsImport
<1>3. Needs(x) \subseteq Needs(m) BY <1>1, <1>2, NeedsLeast
<1> QED BY <1>3

\* The fields of a table of modules have their types.
LEMMA FieldTypes ==
  ASSUME NEW M \in ModuleTables, NEW x \in Modules
  PROVE  /\ M[x] \in ModuleFields
         /\ M[x].status \in Statuses /\ M[x].dfs \in Nat /\ M[x].anc \in Nat
         /\ M[x].root \in Modules \cup {None} /\ M[x].pending \in Nat /\ M[x].async \in BOOLEAN
         /\ M[x].stamp \in Nat /\ M[x].parents \in Seq(Modules)
         /\ M[x].error \in Modules \cup {None}
         /\ M[x].promise \in {"none", "pending", "fulfilled", "rejected"}
BY DEF ModuleTables, ModuleFields

\* The entries of an import list are modules.
LEMMA ImportTypes ==
  ASSUME ImportsTyped, NEW x \in Modules
  PROVE  /\ imports[x] \in Seq(Modules) /\ DOMAIN imports[x] = 1..Len(imports[x])
         /\ Len(imports[x]) \in Nat /\ Imports(x) \subseteq Modules
         /\ \A i \in DOMAIN imports[x] : imports[x][i] \in Modules /\ imports[x][i] \in Imports(x)
<1>1. imports[x] \in Seq(Modules) BY DEF ImportsTyped
<1> QED BY <1>1 DEF Imports, ToSet

\* The fields of a call have their types, and what they say of its stack.
LEMMA CallTypes ==
  ASSUME NEW c \in Calls
  PROVE  /\ c.frames \in Seq(Frames) /\ Len(c.frames) \in Nat /\ c.stack \in Seq(Modules)
         /\ c.index \in Nat /\ c.root \in Modules /\ c.todo \in Seq(Modules)
         /\ On(c) \subseteq Modules /\ (On(c) = {} <=> c.stack = <<>>)
         /\ \A k \in Deep(c) : At(c, k) \in Modules /\ Nx(c, k) \in Nat
         /\ \A k \in 1..Len(c.stack) : c.stack[k] \in On(c)
         /\ \A x \in On(c) : \E k \in 1..Len(c.stack) : c.stack[k] = x
         /\ Len(c.stack) \in Nat
         /\ (c.frames = <<>> <=> Len(c.frames) = 0) /\ (c.stack = <<>> <=> Len(c.stack) = 0)
<1>1. c.frames \in Seq(Frames) /\ c.stack \in Seq(Modules) /\ c.index \in Nat
      /\ c.root \in Modules /\ c.todo \in Seq(Modules)
  BY DEF Calls
<1>2. \A k \in Deep(c) : c.frames[k] \in Frames BY <1>1 DEF Deep
<1>3. \A k \in Deep(c) : At(c, k) \in Modules /\ Nx(c, k) \in Nat BY <1>2 DEF Frames, At, Nx
<1>4. On(c) = {c.stack[i] : i \in 1..Len(c.stack)} BY <1>1 DEF On, ToSet
<1>5. Len(c.stack) \in Nat /\ \A k \in 1..Len(c.stack) : c.stack[k] \in Modules BY <1>1
<1>6. On(c) = {} <=> c.stack = <<>>
  <2>1. CASE c.stack = <<>> BY <1>4, <2>1
  <2>2. CASE c.stack # <<>>
    <3>1. 1 \in 1..Len(c.stack) BY <1>1, <2>2
    <3> QED BY <1>4, <2>2, <3>1
  <2> QED BY <2>1, <2>2
<1>7. /\ Len(c.frames) \in Nat
      /\ (c.frames = <<>> <=> Len(c.frames) = 0) /\ (c.stack = <<>> <=> Len(c.stack) = 0)
  BY <1>1
<1>8. /\ \A k \in 1..Len(c.stack) : c.stack[k] \in On(c)
      /\ \A x \in On(c) : \E k \in 1..Len(c.stack) : c.stack[k] = x
      /\ On(c) \subseteq Modules
  BY <1>4, <1>5
<1> QED BY <1>1, <1>3, <1>5, <1>6, <1>7, <1>8

\* The stack is sorted by number, so a cycle is what is on it from its root's
\* number on.
LEMMA CycleByNumber ==
  ASSUME NEW M \in ModuleTables, NEW c \in Calls, NEW st, StackInv(M, c, st), NEW m \in On(c)
  PROVE  /\ Cycle(c.stack, m) = {x \in On(c) : M[m].dfs <= M[x].dfs}
         /\ Below(c.stack, m) \in Seq(Modules)
         /\ ToSet(Below(c.stack, m)) = {x \in On(c) : M[x].dfs < M[m].dfs}
         /\ Len(Below(c.stack, m)) <= Len(c.stack)
         /\ \A i \in 1..Len(Below(c.stack, m)) : Below(c.stack, m)[i] = c.stack[i]
<1> DEFINE s == c.stack
           n == Len(s)
           p == Place(s, m)
<1>1. s \in Seq(Modules) /\ n \in Nat /\ On(c) = {s[i] : i \in 1..n}
      /\ \A i \in 1..n : s[i] \in Modules
  BY CallTypes DEF On, ToSet
<1>2. p \in 1..n /\ s[p] = m
  <2>1. \E i \in 1..n : s[i] = m BY <1>1
  <2> QED BY <2>1 DEF Place
<1>3. \A i, j \in 1..n : i < j => M[s[i]].dfs < M[s[j]].dfs BY DEF StackInv
<1>4. \A i \in 1..n : M[s[i]].dfs \in Nat BY <1>1, FieldTypes
<1>5. \A i \in 1..n : p <= i <=> M[m].dfs <= M[s[i]].dfs
  <2> TAKE i \in 1..n
  <2>1. CASE p < i BY <1>2, <1>3, <1>4, <2>1
  <2>2. CASE i < p BY <1>2, <1>3, <1>4, <2>2
  <2>3. CASE i = p BY <1>2, <1>4, <2>3
  <2> QED BY <1>2, <1>1, <2>1, <2>2, <2>3
<1>6. Cycle(s, m) = {s[k] : k \in p..n} BY DEF Cycle
<1>7. Below(s, m) = SubSeq(s, 1, p - 1) BY DEF Below
<1> HIDE DEF p
<1>8. Cycle(s, m) = {x \in On(c) : M[m].dfs <= M[x].dfs} BY <1>1, <1>2, <1>5, <1>6
<1>9. /\ Below(s, m) \in Seq(Modules) /\ Len(Below(s, m)) = p - 1
      /\ \A i \in 1..p - 1 : Below(s, m)[i] = s[i]
  BY <1>1, <1>2, <1>7
<1>10. ToSet(Below(s, m)) = {s[i] : i \in 1..p - 1} BY <1>9 DEF ToSet
<1>11. ToSet(Below(s, m)) = {x \in On(c) : M[x].dfs < M[m].dfs}
  <2>1. ASSUME NEW i \in 1..p - 1 PROVE s[i] \in On(c) /\ M[s[i]].dfs < M[m].dfs
    <3>1. i \in 1..n /\ i < p BY <1>1, <1>2
    <3> QED BY <1>1, <1>2, <1>3, <3>1
  <2>2. ASSUME NEW x \in On(c), M[x].dfs < M[m].dfs PROVE x \in ToSet(Below(s, m))
    <3>1. PICK i \in 1..n : x = s[i] BY <1>1
    <3>2. M[m].dfs \in Nat /\ M[s[i]].dfs \in Nat BY <1>1, <1>2, <1>4
    <3>3. ~(p <= i) BY <1>5, <2>2, <3>1, <3>2
    <3> QED BY <1>10, <1>2, <3>1, <3>3
  <2> QED BY <1>10, <2>1, <2>2
<1> QED BY <1>8, <1>9, <1>11, <1>2, <1>1

\* Membership of the stack by position.
LEMMA OnStack ==
  ASSUME NEW c \in Calls
  PROVE  \A x : x \in On(c) <=> \E k \in 1..Len(c.stack) : c.stack[k] = x
<1>1. c.stack \in Seq(Modules) BY CallTypes
<1>2. DOMAIN c.stack = 1..Len(c.stack) BY <1>1
<1>3. On(c) = {c.stack[i] : i \in 1..Len(c.stack)} BY <1>2 DEF On, ToSet
<1> QED BY <1>3

\* Pushing the module d on the frames and the stack of c.
LEMMA EnterCall ==
  ASSUME NEW c \in Calls, NEW d \in Modules, NEW c2 \in Calls,
         c2.frames = Append(c.frames, [m |-> d, next |-> 1]), c2.stack = Append(c.stack, d)
  PROVE  LET n == Len(c.frames) IN
         /\ n \in Nat /\ Deep(c) = 1..n /\ Deep(c2) = 1..n + 1 /\ Len(c2.frames) = n + 1
         /\ \A k \in 1..n : At(c2, k) = At(c, k) /\ Nx(c2, k) = Nx(c, k)
         /\ At(c2, n + 1) = d /\ Nx(c2, n + 1) = 1
         /\ On(c2) = On(c) \cup {d}
         /\ Len(c2.stack) = Len(c.stack) + 1
         /\ \A i \in 1..Len(c.stack) : c2.stack[i] = c.stack[i]
         /\ c2.stack[Len(c.stack) + 1] = d
<1> DEFINE f == [m |-> d, next |-> 1]
           n == Len(c.frames)
<1>1. c.frames \in Seq(Frames) /\ n \in Nat /\ c.stack \in Seq(Modules) /\ f \in Frames
  BY CallTypes DEF Frames
<1>2. /\ Len(c2.frames) = n + 1 /\ c2.frames[n + 1] = f
      /\ \A k \in 1..n : c2.frames[k] = c.frames[k]
  <2>1. c2.frames = Append(c.frames, f) OBVIOUS
  <2> HIDE DEF f
  <2> QED BY <1>1, <2>1
<1>3. Len(c.stack) \in Nat BY <1>1
<1>4. /\ Len(c2.stack) = Len(c.stack) + 1 /\ c2.stack[Len(c.stack) + 1] = d
      /\ \A k \in 1..Len(c.stack) : c2.stack[k] = c.stack[k]
  BY <1>1
<1>5. On(c2) = On(c) \cup {d}
  <2>0. \A x : x \in On(c2) <=> \E k \in 1..Len(c2.stack) : c2.stack[k] = x BY OnStack
  <2>1. \A x : x \in On(c2) <=> \E k \in 1..Len(c.stack) + 1 : c2.stack[k] = x BY <1>4, <2>0
  <2>2. \A x : x \in On(c) <=> \E k \in 1..Len(c.stack) : c.stack[k] = x BY OnStack
  <2>3. ASSUME NEW x \in On(c2) PROVE x \in On(c) \cup {d}
    <3>1. PICK k \in 1..Len(c.stack) + 1 : c2.stack[k] = x BY <2>1
    <3>2. k \in 1..Len(c.stack) \/ k = Len(c.stack) + 1 BY <1>3
    <3> QED BY <2>2, <3>1, <3>2, <1>4
  <2>4. ASSUME NEW x \in On(c) \cup {d} PROVE x \in On(c2)
    <3>1. CASE x = d BY <2>1, <1>4, <1>3, <3>1
    <3>2. CASE x \in On(c)
      <4>1. PICK k \in 1..Len(c.stack) : c.stack[k] = x BY <2>2, <3>2
      <4>2. k \in 1..Len(c.stack) + 1 BY <1>3
      <4> QED BY <2>1, <4>1, <4>2, <1>4
    <3> QED BY <3>1, <3>2
  <2> QED BY <2>3, <2>4
<1> QED BY <1>1, <1>2, <1>4, <1>5 DEF Deep, At, Nx

\* Entering a module that is not visited keeps the traversal invariant.
LEMMA EnterWalk ==
  ASSUME ImportsTyped, NEW M \in ModuleTables, NEW N \in ModuleTables, NEW c \in Calls,
         NEW c2 \in Calls, NEW st, NEW settled, Walk(M, c, st, settled),
         NEW d \in Modules, Looks(c, d), M[d].status # st, M[d].status \notin settled,
         N[d].status = st, N[d].dfs = c.index, N[d].anc = c.index,
         \A x \in Modules : x # d => SameWalk(M, N, x),
         c2.frames = Append(c.frames, [m |-> d, next |-> 1]), c2.stack = Append(c.stack, d),
         c2.index = c.index + 1, c2.root = c.root
  PROVE  Walk(N, c2, st, settled)
<1> DEFINE n == Len(c.frames)
<1>1. /\ n \in Nat /\ n > 0 /\ Deep(c) = 1..n /\ Deep(c2) = 1..n + 1 /\ Len(c2.frames) = n + 1
      /\ \A k \in 1..n : At(c2, k) = At(c, k) /\ Nx(c2, k) = Nx(c, k)
      /\ At(c2, n + 1) = d /\ Nx(c2, n + 1) = 1
      /\ On(c2) = On(c) \cup {d}
  BY EnterCall DEF Looks
<1>2. /\ Len(c.stack) \in Nat /\ Len(c2.stack) = Len(c.stack) + 1
      /\ \A i \in 1..Len(c.stack) : c2.stack[i] = c.stack[i]
      /\ c2.stack[Len(c.stack) + 1] = d
  BY EnterCall, CallTypes
<1>3. d \notin On(c) /\ On(c) \subseteq Modules /\ c.index \in Nat BY CallTypes DEF Walk, StackInv
<1>4. \A x \in On(c) : x # d /\ N[x].dfs = M[x].dfs /\ N[x].anc = M[x].anc /\ N[x].dfs < c.index
                       /\ N[x].dfs \in Nat
  BY <1>3, FieldTypes DEF Walk, StackInv, SameWalk
<1>5. \A k \in 1..n : At(c, k) \in On(c) /\ Nx(c, k) \in Nat
  BY <1>1, CallTypes DEF Walk, FramesInv
<1>6. d \in Imports(At(c, n)) /\ n \in Deep(c) BY <1>1, <1>3, <1>5, ImportTypes DEF Looks
<1> HIDE DEF n
<1>10. StackInv(N, c2, st)
  <2>0. \A k, l \in 1..Len(c.stack) : k < l => M[c.stack[k]].dfs < M[c.stack[l]].dfs
    BY DEF Walk, StackInv
  <2>1. \A x \in Modules : N[x].status = st <=> x \in On(c2) BY <1>1 DEF Walk, StackInv, SameWalk
  <2>2. \A x \in On(c2) : N[x].dfs < c2.index BY <1>1, <1>3, <1>4
  <2>3. ASSUME NEW i \in 1..Len(c2.stack), NEW j \in 1..Len(c2.stack), i < j
        PROVE  N[c2.stack[i]].dfs < N[c2.stack[j]].dfs
    <3>0. i \in 1..Len(c.stack) BY <1>2, <2>3
    <3>1. i \in 1..Len(c.stack) /\ c.stack[i] \in On(c) BY <3>0, CallTypes
    <3>2. CASE j = Len(c.stack) + 1 BY <1>2, <1>4, <3>1, <3>2
    <3>3. CASE j # Len(c.stack) + 1
      <4>0. j \in 1..Len(c.stack) BY <1>2, <3>3
      <4>1. j \in 1..Len(c.stack) /\ c.stack[j] \in On(c) BY <4>0, CallTypes
      <4>2. M[c.stack[i]].dfs < M[c.stack[j]].dfs BY <2>0, <4>1, <3>1, <2>3
      <4>3. c2.stack[i] = c.stack[i] /\ c2.stack[j] = c.stack[j] BY <1>2, <3>1, <4>1
      <4> QED BY <1>4, <3>1, <4>1, <4>2, <4>3
    <3> QED BY <3>2, <3>3
  <2> QED BY <2>1, <2>2, <2>3 DEF StackInv
<1>11. FramesInv(N, c2)
  <2>1. ASSUME NEW k \in 1..n + 1
        PROVE  At(c2, k) \in On(c2) /\ Nx(c2, k) \in 1..Len(imports[At(c2, k)]) + 1
    <3>1. CASE k = n + 1 BY <1>1, <3>1, ImportTypes
    <3>2. CASE k # n + 1
      <4>1. k \in 1..n BY <1>1, <3>2
      <4> QED BY <1>1, <4>1 DEF Walk, FramesInv
    <3> QED BY <3>1, <3>2
  <2>2. ASSUME NEW k \in 1..n + 1, NEW l \in 1..n + 1, k < l
        PROVE  N[At(c2, k)].dfs < N[At(c2, l)].dfs
    <3>1. k \in 1..n BY <1>1, <2>2
    <3>2. CASE l = n + 1 BY <1>1, <1>4, <1>5, <3>1, <3>2
    <3>3. CASE l # n + 1
      <4>1. l \in 1..n BY <1>1, <3>3
      <4>2. M[At(c, k)].dfs < M[At(c, l)].dfs BY <1>1, <3>1, <4>1, <2>2 DEF Walk, FramesInv
      <4> QED BY <1>1, <1>4, <1>5, <3>1, <4>1, <4>2
    <3> QED BY <3>2, <3>3
  <2>3. ASSUME NEW k \in 1..n + 1, k + 1 \in 1..n + 1
        PROVE  Nx(c2, k) \in DOMAIN imports[At(c2, k)] /\ imports[At(c2, k)][Nx(c2, k)] = At(c2, k + 1)
    <3>1. k \in 1..n BY <1>1, <2>3
    <3>2. CASE k = n BY <1>1, <3>1, <3>2 DEF Looks, n
    <3>3. CASE k # n
      <4>1. k + 1 \in 1..n BY <1>1, <3>1, <3>3
      <4> QED BY <1>1, <3>1, <4>1 DEF Walk, FramesInv
    <3> QED BY <3>2, <3>3
  <2>4. At(c2, 1) = c2.root /\ \A x \in On(c2) : N[c2.root].dfs <= N[x].dfs
    <3>1. 1 \in 1..n /\ c.frames # <<>> BY <1>1 DEF n
    <3>2. At(c, 1) = c.root /\ \A x \in On(c) : M[c.root].dfs <= M[x].dfs
      BY <3>1 DEF Walk, FramesInv
    <3>3. c.root \in On(c) BY <3>1, <3>2, <1>5
    <3>4. \A x \in On(c) : N[c.root].dfs <= N[x].dfs BY <1>4, <3>2, <3>3
    <3>5. N[c.root].dfs <= N[d].dfs BY <1>3, <1>4, <3>3
    <3> QED BY <1>1, <3>1, <3>2, <3>4, <3>5
  <2>5. c2.frames # <<>>
    <3>1. c2.frames = <<>> => Len(c2.frames) = 0 OBVIOUS
    <3> QED BY <1>1, <3>1
  <2> QED BY <2>1, <2>2, <2>3, <2>4, <2>5, <1>1 DEF FramesInv
<1>12. AncInv(N, c2)
  <2>1. \A x \in On(c2) : N[x].anc <= N[x].dfs BY <1>1, <1>3, <1>4 DEF Walk, AncInv
  <2>2. ASSUME NEW x \in On(c) PROVE \E y \in On(c2) : N[y].dfs = N[x].anc /\ y \in Needs(x)
    <3>1. PICK y \in On(c) : M[y].dfs = M[x].anc /\ y \in Needs(x) BY DEF Walk, AncInv
    <3> QED BY <1>1, <1>4, <3>1
  <2>3. d \in Needs(d) BY NeedsSelf
  <2> QED BY <1>1, <2>1, <2>2, <2>3 DEF AncInv
<1>13. PathInv(N, c2)
  <2>0. \A x \in On(c) : At(c, n) \in Needs(x)
    <3>1. n \in Deep(c) /\ n + 1 \notin Deep(c) BY <1>1
    <3> QED BY <3>1 DEF Walk, PathInv
  <2>1. ASSUME NEW k \in 1..n + 1, NEW x \in On(c2),
               k + 1 \in 1..n + 1 => N[x].dfs < N[At(c2, k + 1)].dfs
        PROVE  At(c2, k) \in Needs(x)
    <3>1. CASE k = n + 1
      <4>1. CASE x = d BY <1>1, <3>1, <4>1, NeedsSelf
      <4>2. CASE x # d
        <5>1. At(c, n) \in Needs(x) /\ x \in Modules BY <2>0, <1>1, <1>3, <4>2
        <5> QED BY <5>1, <1>1, <3>1, <1>6, NeedsImport
      <4> QED BY <4>1, <4>2
    <3>2. CASE k \in 1..n
      <4>1. CASE k = n
        <5>1. N[x].dfs < c.index BY <2>1, <4>1, <1>1
        <5>2. x \in On(c) BY <5>1, <1>1, <1>3
        <5> QED BY <5>2, <2>0, <4>1, <1>1
      <4>2. CASE k # n
        <5>1. k + 1 \in 1..n BY <1>1, <3>2, <4>2
        <5>2. N[x].dfs < N[At(c, k + 1)].dfs /\ At(c, k + 1) \in On(c) BY <2>1, <5>1, <1>1, <1>5
        <5>3. x \in On(c) BY <1>1, <1>3, <1>4, <5>2
        <5>4. M[x].dfs < M[At(c, k + 1)].dfs BY <5>2, <5>3, <1>4
        <5> QED BY <5>3, <5>4, <3>2, <1>1 DEF Walk, PathInv
      <4> QED BY <4>1, <4>2
    <3> QED BY <1>1, <3>1, <3>2
  <2>2. ASSUME NEW k \in 1..n + 1, NEW x \in On(c2), N[At(c2, k)].dfs <= N[x].dfs
        PROVE  x \in Needs(At(c2, k))
    <3>1. CASE k = n + 1
      <4>1. x = d BY <2>2, <3>1, <1>1, <1>3, <1>4
      <4> QED BY <4>1, <3>1, <1>1, NeedsSelf
    <3>2. CASE k \in 1..n
      <4>1. At(c2, k) = At(c, k) /\ At(c, k) \in On(c) /\ At(c, k) \in Modules
        BY <1>1, <1>3, <1>5, <3>2
      <4>2. CASE x \in On(c)
        <5>1. M[At(c, k)].dfs <= M[x].dfs BY <2>2, <4>1, <4>2, <1>4
        <5> QED BY <5>1, <4>1, <4>2, <3>2, <1>1 DEF Walk, PathInv
      <4>3. CASE x = d
        <5>1. At(c, n) \in On(c) /\ M[At(c, k)].dfs <= M[At(c, n)].dfs
          <6>1. n \in 1..n /\ (k = n \/ k < n) BY <1>1, <3>2
          <6>2. At(c, n) \in On(c) /\ M[At(c, n)].dfs \in Nat /\ M[At(c, k)].dfs \in Nat
            BY <6>1, <1>5, <4>1, <1>3, FieldTypes
          <6>3. k < n => M[At(c, k)].dfs < M[At(c, n)].dfs BY <6>1, <3>2, <1>1 DEF Walk, FramesInv
          <6> QED BY <6>1, <6>2, <6>3
        <5>2. At(c, n) \in Needs(At(c, k)) BY <5>1, <3>2, <1>1 DEF Walk, PathInv
        <5> QED BY <5>2, <1>6, <4>1, <4>3, NeedsImport
      <4> QED BY <4>2, <4>3, <1>1
    <3> QED BY <1>1, <3>1, <3>2
  <2> QED BY <2>1, <2>2, <1>1 DEF PathInv
<1>14. \A x \in On(c) : \A y : Passed(c2, x, y) => Passed(c, x, y)
  <2> SUFFICES ASSUME NEW x \in On(c), NEW y, Passed(c2, x, y) PROVE Passed(c, x, y)
    OBVIOUS
  <2>1. PICK i \in DOMAIN imports[x] : imports[x][i] = y /\ \A k \in Deep(c2) : At(c2, k) = x => i < Nx(c2, k)
    BY DEF Passed
  <2>2. \A k \in Deep(c) : At(c, k) = x => i < Nx(c, k) BY <2>1, <1>1
  <2> QED BY <2>1, <2>2 DEF Passed
<1>15. \A y : ~Passed(c2, d, y)
  <2> SUFFICES ASSUME NEW y, Passed(c2, d, y) PROVE FALSE OBVIOUS
  <2>1. PICK i \in DOMAIN imports[d] : \A k \in Deep(c2) : At(c2, k) = d => i < Nx(c2, k)
    BY DEF Passed
  <2>2. i < 1 /\ i \in 1..Len(imports[d]) BY <2>1, <1>1, ImportTypes
  <2> QED BY <2>2, ImportTypes
<1>16. LowInv(N, c2)
  <2> SUFFICES ASSUME NEW x \in On(c2), NEW y \in On(c2), NEW k \in 1..n + 1,
                      Passed(c2, x, y), N[At(c2, k)].dfs <= N[x].dfs
               PROVE  \E z \in On(c2) : /\ N[z].anc <= N[y].dfs
                                        /\ Looks(c2, z) \/ \E j \in Deep(c2) : k <= j /\ z = At(c2, j)
    BY <1>1 DEF LowInv
  <2>1. x \in On(c) /\ Passed(c, x, y) BY <1>1, <1>14, <1>15
  <2>2. k \in 1..n
    <3>1. N[x].dfs < c.index BY <2>1, <1>4
    <3>2. k # n + 1 BY <3>1, <1>1, <1>3, <1>4, <2>1
    <3> QED BY <3>2, <1>1
  <2>3. CASE y \in On(c)
    <3>1. M[At(c, k)].dfs <= M[x].dfs BY <2>1, <2>2, <1>1, <1>4, <1>5
    <3>2. PICK z \in On(c) : /\ M[z].anc <= M[y].dfs
                             /\ Looks(c, z) \/ \E j \in Deep(c) : k <= j /\ z = At(c, j)
      BY <3>1, <2>1, <2>2, <2>3, <1>1 DEF Walk, LowInv
    <3>3. ~Looks(c, z) BY <1>3 DEF Looks
    <3>4. PICK j \in Deep(c) : k <= j /\ z = At(c, j) BY <3>2, <3>3
    <3>5. j \in Deep(c2) /\ z = At(c2, j) /\ z \in On(c2) BY <3>4, <1>1
    <3>6. N[z].anc <= N[y].dfs BY <3>2, <2>3, <1>4
    <3> QED BY <3>4, <3>5, <3>6
  <2>4. CASE y = d
    <3>1. n \in Deep(c2) /\ k <= n /\ At(c2, n) = At(c, n) /\ At(c, n) \in On(c)
      BY <1>1, <1>5, <2>2
    <3>2. N[At(c, n)].anc = M[At(c, n)].anc /\ M[At(c, n)].anc <= M[At(c, n)].dfs
      BY <3>1, <1>4 DEF Walk, AncInv
    <3>3. N[At(c, n)].anc \in Nat /\ N[At(c, n)].anc <= N[d].dfs
      BY <3>1, <3>2, <1>3, <1>4, FieldTypes
    <3> QED BY <3>1, <3>3, <2>4, <1>1
  <2> QED BY <1>1, <2>3, <2>4
<1>17. SeenInv(N, c2, settled)
  <2> SUFFICES ASSUME NEW x \in On(c2), NEW y \in Modules, Passed(c2, x, y)
               PROVE  y \in On(c2) \/ N[y].status \in settled
    BY DEF SeenInv
  <2>1. x \in On(c) /\ Passed(c, x, y) BY <1>1, <1>14, <1>15
  <2>2. y \in On(c) \/ M[y].status \in settled BY <2>1 DEF Walk, SeenInv
  <2>3. y # d => N[y].status = M[y].status BY DEF SameWalk
  <2> QED BY <2>2, <2>3, <1>1
<1> QED BY <1>10, <1>11, <1>12, <1>13, <1>16, <1>17 DEF Walk

\* Entering the first module establishes the traversal invariant.
LEMMA StartWalk ==
  ASSUME ImportsTyped, NEW N \in ModuleTables, NEW c \in Calls,
         NEW c2 \in Calls, NEW st, NEW settled, Len(c.frames) = 0, Len(c.stack) = 0,
         NEW d \in Modules, N[d].status = st, N[d].dfs = c.index, N[d].anc = c.index,
         \A x \in Modules : x # d => N[x].status # st,
         c2.frames = Append(c.frames, [m |-> d, next |-> 1]), c2.stack = Append(c.stack, d),
         c2.index = c.index + 1, c2.root = d
  PROVE  Walk(N, c2, st, settled)
<1>1. /\ Len(c.frames) = 0 /\ Len(c.stack) = 0 /\ On(c) = {} BY CallTypes
<1>2. /\ Deep(c2) = 1..1 /\ Len(c2.frames) = 1
      /\ At(c2, 1) = d /\ Nx(c2, 1) = 1
      /\ On(c2) = {d} /\ Len(c2.stack) = 1 /\ c2.stack[1] = d
  <2>1. LET n == Len(c.frames) IN
        /\ n \in Nat /\ Deep(c2) = 1..n + 1 /\ Len(c2.frames) = n + 1
        /\ At(c2, n + 1) = d /\ Nx(c2, n + 1) = 1
        /\ On(c2) = On(c) \cup {d}
        /\ Len(c2.stack) = Len(c.stack) + 1 /\ c2.stack[Len(c.stack) + 1] = d
    BY EnterCall
  <2> QED BY <1>1, <2>1
<1>3. c.index \in Nat /\ c2.frames # <<>> BY <1>2, CallTypes
<1>4. StackInv(N, c2, st) BY <1>2, <1>3 DEF StackInv
<1>5. \A y : ~Passed(c2, d, y)
  <2> SUFFICES ASSUME NEW y, Passed(c2, d, y) PROVE FALSE OBVIOUS
  <2>1. PICK i \in DOMAIN imports[d] : \A k \in Deep(c2) : At(c2, k) = d => i < Nx(c2, k)
    BY DEF Passed
  <2>2. i < 1 /\ i \in 1..Len(imports[d]) BY <2>1, <1>2, ImportTypes
  <2> QED BY <2>2, ImportTypes
<1>6. \A k \in Deep(c2) : k = 1 BY <1>2
<1>7. 2 \notin Deep(c2) BY <1>2
<1>8. FramesInv(N, c2) BY <1>2, <1>3, <1>6, <1>7, ImportTypes DEF FramesInv
<1>9. AncInv(N, c2) BY <1>2, <1>3, NeedsSelf DEF AncInv
<1>10. PathInv(N, c2) BY <1>2, <1>6, NeedsSelf DEF PathInv
<1>11. LowInv(N, c2) /\ SeenInv(N, c2, settled) BY <1>2, <1>5 DEF LowInv, SeenInv
<1> QED BY <1>4, <1>8, <1>9, <1>10, <1>11 DEF Walk

\* Only what a traversal reads matters to it.
LEMMA SameWalkKept ==
  ASSUME NEW M \in ModuleTables, NEW N \in ModuleTables, NEW c \in Calls, NEW c2 \in Calls,
         NEW st, NEW settled, Walk(M, c, st, settled),
         \A x \in Modules : SameWalk(M, N, x),
         c2.frames = c.frames, c2.stack = c.stack, c2.index = c.index, c2.root = c.root
  PROVE  Walk(N, c2, st, settled)
<1>1. Deep(c2) = Deep(c) /\ On(c2) = On(c) /\ Len(c2.frames) = Len(c.frames)
      /\ \A k : At(c2, k) = At(c, k) /\ Nx(c2, k) = Nx(c, k)
  BY DEF Deep, On, At, Nx
<1>2. \A x, y : Passed(c2, x, y) = Passed(c, x, y) /\ Looks(c2, y) = Looks(c, y)
  BY <1>1 DEF Passed, Looks
<1>3. On(c) \subseteq Modules /\ (\A k \in Deep(c) : At(c, k) \in Modules) /\ c.root \in Modules
      /\ \A i \in 1..Len(c.stack) : c.stack[i] \in Modules
  BY CallTypes
<1>4. \A x \in Modules : N[x].status = M[x].status /\ N[x].dfs = M[x].dfs /\ N[x].anc = M[x].anc
  BY DEF SameWalk
<1>5. StackInv(N, c2, st) BY <1>1, <1>3, <1>4 DEF Walk, StackInv
<1>6. FramesInv(N, c2) BY <1>1, <1>3, <1>4 DEF Walk, FramesInv
<1>7. AncInv(N, c2)
  <2>1. \A x \in On(c2) : N[x].anc <= N[x].dfs BY <1>1, <1>3, <1>4 DEF Walk, AncInv
  <2>2. ASSUME NEW x \in On(c2) PROVE \E y \in On(c2) : N[y].dfs = N[x].anc /\ y \in Needs(x)
    <3>1. PICK y \in On(c) : M[y].dfs = M[x].anc /\ y \in Needs(x) BY <1>1 DEF Walk, AncInv
    <3> QED BY <1>1, <1>3, <1>4, <3>1
  <2> QED BY <2>1, <2>2 DEF AncInv
<1>8. PathInv(N, c2) BY <1>1, <1>3, <1>4 DEF Walk, PathInv
<1>9. LowInv(N, c2)
  <2> SUFFICES ASSUME NEW x \in On(c2), NEW y \in On(c2), NEW k \in Deep(c2),
                      Passed(c2, x, y), N[At(c2, k)].dfs <= N[x].dfs
               PROVE  \E z \in On(c2) : /\ N[z].anc <= N[y].dfs
                                        /\ Looks(c2, z) \/ \E j \in Deep(c2) : k <= j /\ z = At(c2, j)
    BY DEF LowInv
  <2>1. PICK z \in On(c) : /\ M[z].anc <= M[y].dfs
                           /\ Looks(c, z) \/ \E j \in Deep(c) : k <= j /\ z = At(c, j)
    BY <1>1, <1>2, <1>3, <1>4 DEF Walk, LowInv
  <2> QED BY <2>1, <1>1, <1>2, <1>3, <1>4
<1>10. SeenInv(N, c2, settled) BY <1>1, <1>2, <1>4 DEF Walk, SeenInv
<1> QED BY <1>5, <1>6, <1>7, <1>8, <1>9, <1>10 DEF Walk

\* NextChild moves the frame at the top and leaves the rest of the call.
LEMMA NextCall ==
  ASSUME NEW c \in Calls, c.frames # <<>>
  PROVE  GoesOn(c, [c EXCEPT !.frames[Len(c.frames)].next = @ + 1])
<1> DEFINE n == Len(c.frames)
           f == c.frames
           g == [f EXCEPT ![n].next = @ + 1]
           c2 == [c EXCEPT !.frames[Len(c.frames)].next = @ + 1]
<1>1. f \in Seq(Frames) /\ n \in Nat /\ n > 0 /\ n \in 1..n BY CallTypes
<1>2. f[n] \in Frames /\ f[n].next \in Nat /\ f[n].m \in Modules
  <2>1. \A k \in 1..Len(c.frames) : c.frames[k] \in Frames BY <1>1
  <2>2. f[n] \in Frames BY <1>1, <2>1
  <2> QED BY <2>2 DEF Frames
<1>3. DOMAIN f = 1..n BY <1>1
<1>4. g = [k \in 1..n |-> IF k = n THEN [f[n] EXCEPT !.next = @ + 1] ELSE f[k]] BY <1>3
<1>5. [f[n] EXCEPT !.next = @ + 1] \in Frames BY <1>2 DEF Frames
<1>6. g \in Seq(Frames) /\ Len(g) = n
  <2>1. \A k \in 1..n : g[k] \in Frames BY <1>1, <1>4, <1>5
  <2>2. DOMAIN g = 1..n BY <1>4
  <2>3. g \in [1..n -> Frames] BY <1>4, <2>1
  <2> HIDE DEF g
  <2> QED BY <1>1, <2>2, <2>3
<1>7. c2 = [c EXCEPT !.frames = g] OBVIOUS
<1>8. /\ c2.frames = g /\ c2.stack = c.stack /\ c2.index = c.index /\ c2.root = c.root
      /\ c2.op = c.op /\ c2.todo = c.todo
  BY <1>7 DEF Calls
<1>9. c2 \in Calls
  <2> HIDE DEF g
  <2> QED BY <1>6, <1>7 DEF Calls
<1>10. \A k \in 1..n : g[k].m = f[k].m /\ (k # n => g[k] = f[k]) /\ g[n].next = f[n].next + 1
  BY <1>1, <1>2, <1>4 DEF Frames
<1>11. g # <<>>
  <2> HIDE DEF g
  <2> QED BY <1>1, <1>6
<1> HIDE DEF c2, g
<1> QED BY <1>1, <1>6, <1>8, <1>9, <1>10, <1>11 DEF Deep, At, Nx, c2, GoesOn

\* A module is the module of one frame at most.
LEMMA OneFrame ==
  ASSUME NEW M \in ModuleTables, NEW c \in Calls, FramesInv(M, c),
         NEW k \in Deep(c), NEW l \in Deep(c), At(c, k) = At(c, l)
  PROVE  k = l
<1>1. k \in Nat /\ l \in Nat /\ M[At(c, k)].dfs \in Nat BY CallTypes, FieldTypes DEF Deep
<1>2. ~(k < l) /\ ~(l < k) BY <1>1 DEF FramesInv
<1> QED BY <1>1, <1>2

\* Taking the anc of a visited child and going on keeps the traversal invariant.
LEMMA VisitWalk ==
  ASSUME ImportsTyped, NEW M \in ModuleTables, NEW N \in ModuleTables, NEW c \in Calls,
         NEW c2 \in Calls, NEW st, NEW settled, Walk(M, c, st, settled),
         NEW d \in Modules, Looks(c, d), M[d].status = st \/ M[d].status \in settled,
         \A x \in Modules : N[x].status = M[x].status /\ N[x].dfs = M[x].dfs,
         \A x \in Modules : x # At(c, Len(c.frames)) => N[x].anc = M[x].anc,
         N[At(c, Len(c.frames))].anc =
           IF M[d].status = st THEN Min2(M[At(c, Len(c.frames))].anc, M[d].anc)
           ELSE M[At(c, Len(c.frames))].anc,
         GoesOn(c, c2)
  PROVE  Walk(N, c2, st, settled)
<1> DEFINE n == Len(c.frames)
           t == At(c, n)
<1>1. c.frames # <<>> BY CallTypes DEF Looks
<1>2. /\ n \in Nat /\ n > 0 /\ Deep(c) = 1..n /\ Deep(c2) = 1..n
      /\ Len(c2.frames) = n /\ c2.frames # <<>>
      /\ \A k \in 1..n : At(c2, k) = At(c, k)
      /\ \A k \in 1..n : k # n => Nx(c2, k) = Nx(c, k)
      /\ Nx(c2, n) = Nx(c, n) + 1
      /\ c2.stack = c.stack /\ c2.index = c.index /\ c2.root = c.root
  BY DEF GoesOn
<1>3. On(c2) = On(c) /\ On(c) \subseteq Modules BY <1>2, CallTypes DEF On
<1>4. n \in 1..n /\ t \in On(c) /\ t \in Modules BY <1>2, <1>3 DEF Walk, FramesInv
<1>5. d \in Imports(t) /\ Nx(c, n) \in 1..Len(imports[t]) /\ imports[t][Nx(c, n)] = d
  BY <1>4, ImportTypes DEF Looks
<1>6. \A x \in Modules : N[x].dfs = M[x].dfs /\ M[x].dfs \in Nat /\ M[x].anc \in Nat BY FieldTypes
<1>7. /\ N[t].anc <= M[t].anc /\ N[t].anc \in Nat
      /\ d \in On(c) => N[t].anc <= M[d].anc
      /\ N[t].anc = M[t].anc \/ (d \in On(c) /\ N[t].anc = M[d].anc)
  <2>1. d \in On(c) <=> M[d].status = st BY DEF Walk, StackInv
  <2> QED BY <1>4, <1>6, <2>1 DEF Min2
<1>8. \A x \in Modules : N[x].anc <= M[x].anc BY <1>4, <1>6, <1>7
<1>9. \A k \in 1..n : At(c, k) = t => k = n
  BY <1>2, <1>4, OneFrame DEF Walk
<1>a. \A x \in Modules : x # t => N[x].anc = M[x].anc OBVIOUS
<1> HIDE DEF n, t
<1>10. \A x \in Modules : \A y : Passed(c2, x, y) => Passed(c, x, y) \/ (x = t /\ y = d)
  <2> SUFFICES ASSUME NEW x \in Modules, NEW y, Passed(c2, x, y)
               PROVE  Passed(c, x, y) \/ (x = t /\ y = d)
    OBVIOUS
  <2>1. PICK i \in DOMAIN imports[x] : imports[x][i] = y /\ \A k \in Deep(c2) : At(c2, k) = x => i < Nx(c2, k)
    BY DEF Passed
  <2>2. CASE x = t /\ i = Nx(c, n) BY <1>5, <2>1, <2>2
  <2>3. CASE ~(x = t /\ i = Nx(c, n))
    <3>1. ASSUME NEW k \in Deep(c), At(c, k) = x PROVE i < Nx(c, k)
      <4>1. k \in 1..n /\ i < Nx(c2, k) /\ i \in Nat /\ Nx(c, k) \in Nat
        BY <1>2, <2>1, <3>1, ImportTypes, CallTypes
      <4>2. CASE k = n BY <4>1, <4>2, <1>2, <2>3, <3>1 DEF t
      <4>3. CASE k # n BY <4>1, <4>3, <1>2
      <4> QED BY <4>2, <4>3
    <3> QED BY <2>1, <3>1 DEF Passed
  <2> QED BY <2>2, <2>3
<1>11. StackInv(N, c2, st)
  <2>1. \A i \in 1..Len(c.stack) : c.stack[i] \in Modules BY CallTypes
  <2>2. \A i, j \in 1..Len(c.stack) : i < j => M[c.stack[i]].dfs < M[c.stack[j]].dfs
    BY DEF Walk, StackInv
  <2>3. \A i, j \in 1..Len(c2.stack) : i < j => N[c2.stack[i]].dfs < N[c2.stack[j]].dfs
    BY <2>1, <2>2, <1>2
  <2>4. \A x \in On(c2) : N[x].dfs < c2.index BY <1>2, <1>3, <1>6 DEF Walk, StackInv
  <2>5. \A x \in Modules : N[x].status = st <=> x \in On(c2) BY <1>3 DEF Walk, StackInv
  <2> QED BY <2>3, <2>4, <2>5 DEF StackInv
<1>12. FramesInv(N, c2)
  <2>1. ASSUME NEW k \in 1..n
        PROVE  At(c2, k) \in On(c2) /\ Nx(c2, k) \in 1..Len(imports[At(c2, k)]) + 1
    <3>1. CASE k = n BY <3>1, <1>2, <1>3, <1>4, <1>5, ImportTypes DEF t
    <3>2. CASE k # n BY <3>2, <1>2, <1>3 DEF Walk, FramesInv
    <3> QED BY <3>1, <3>2
  <2>2. \A k, l \in 1..n : k < l => N[At(c2, k)].dfs < N[At(c2, l)].dfs
    <3>1. \A k \in 1..n : At(c, k) \in Modules BY <1>2, CallTypes
    <3>2. \A k, l \in 1..n : k < l => M[At(c, k)].dfs < M[At(c, l)].dfs
      BY <1>2 DEF Walk, FramesInv
    <3> QED BY <3>1, <3>2, <1>2, <1>6
  <2>3. ASSUME NEW k \in 1..n, k + 1 \in 1..n
        PROVE  Nx(c2, k) \in DOMAIN imports[At(c2, k)] /\ imports[At(c2, k)][Nx(c2, k)] = At(c2, k + 1)
    <3>1. k # n BY <1>2, <2>3
    <3> QED BY <2>3, <3>1, <1>2 DEF Walk, FramesInv
  <2>4. At(c2, 1) = c2.root /\ \A x \in On(c2) : N[c2.root].dfs <= N[x].dfs
    <3>1. c.root \in Modules BY CallTypes
    <3>2. At(c, 1) = c.root /\ \A x \in On(c) : M[c.root].dfs <= M[x].dfs
      BY <1>1 DEF Walk, FramesInv
    <3> QED BY <3>1, <3>2, <1>2, <1>3, <1>6
  <2> QED BY <2>1, <2>2, <2>3, <2>4, <1>2 DEF FramesInv
<1>13. AncInv(N, c2)
  <2>1. \A x \in On(c) : M[x].anc <= M[x].dfs /\ \E y \in On(c) : M[y].dfs = M[x].anc /\ y \in Needs(x)
    BY DEF Walk, AncInv
  <2>2. \A x \in On(c2) : N[x].anc <= N[x].dfs
    <3> SUFFICES ASSUME NEW x \in On(c2) PROVE N[x].anc <= N[x].dfs OBVIOUS
    <3>1. N[x].anc \in Nat /\ N[x].anc <= M[x].anc /\ M[x].anc <= M[x].dfs /\ x \in Modules
      BY <1>3, <1>8, <2>1, FieldTypes
    <3> QED BY <3>1, <1>6
  <2>3. ASSUME NEW x \in On(c2) PROVE \E y \in On(c2) : N[y].dfs = N[x].anc /\ y \in Needs(x)
    <3>1. CASE N[x].anc = M[x].anc BY <3>1, <2>1, <1>3, <1>6
    <3>2. CASE N[x].anc # M[x].anc
      <4>1. x = t /\ d \in On(c) /\ N[t].anc = M[d].anc BY <3>2, <1>3, <1>7, <1>a
      <4>2. PICK y \in On(c) : M[y].dfs = M[d].anc /\ y \in Needs(d) BY <4>1, <2>1
      <4>3. d \in Needs(t) BY <1>4, <1>5, NeedsSelf, NeedsImport
      <4>4. y \in Needs(t) BY <4>2, <4>3, <1>4, NeedsTransitive, ImportTypes
      <4> QED BY <4>1, <4>2, <4>4, <1>3, <1>6
    <3> QED BY <3>1, <3>2
  <2> QED BY <2>2, <2>3 DEF AncInv
<1>14. PathInv(N, c2)
  <2>1. \A k \in 1..n : At(c2, k) = At(c, k) /\ At(c, k) \in Modules BY <1>2, CallTypes
  <2>2. ASSUME NEW k \in 1..n, NEW x \in On(c2), k + 1 \in 1..n => N[x].dfs < N[At(c2, k + 1)].dfs
        PROVE  At(c2, k) \in Needs(x)
    BY <2>1, <2>2, <1>2, <1>3, <1>6 DEF Walk, PathInv
  <2>3. ASSUME NEW k \in 1..n, NEW x \in On(c2), N[At(c2, k)].dfs <= N[x].dfs
        PROVE  x \in Needs(At(c2, k))
    BY <2>1, <2>3, <1>2, <1>3, <1>6 DEF Walk, PathInv
  <2> QED BY <2>2, <2>3, <1>2 DEF PathInv
<1>15. LowInv(N, c2)
  <2> SUFFICES ASSUME NEW x \in On(c2), NEW y \in On(c2), NEW k \in 1..n,
                      Passed(c2, x, y), N[At(c2, k)].dfs <= N[x].dfs
               PROVE  \E z \in On(c2) : /\ N[z].anc <= N[y].dfs
                                        /\ Looks(c2, z) \/ \E j \in Deep(c2) : k <= j /\ z = At(c2, j)
    BY <1>2 DEF LowInv
  <2>1. At(c, k) \in Modules /\ M[At(c, k)].dfs <= M[x].dfs /\ x \in On(c) /\ y \in On(c)
    BY <1>2, <1>3, <1>6, CallTypes
  <2>2. n \in Deep(c2) /\ k <= n /\ t = At(c2, n) /\ t \in On(c2) BY <1>2, <1>3, <1>4 DEF t
  <2>3. M[y].dfs \in Nat /\ N[y].dfs = M[y].dfs BY <1>3, <1>6
  <2>4. CASE Passed(c, x, y)
    <3>1. PICK z \in On(c) : /\ M[z].anc <= M[y].dfs
                             /\ Looks(c, z) \/ \E j \in Deep(c) : k <= j /\ z = At(c, j)
      BY <2>1, <2>4, <1>2 DEF Walk, LowInv
    <3>2. CASE Looks(c, z)
      <4>1. z = d BY <3>2 DEF Looks
      <4>2. N[t].anc <= M[d].anc /\ M[d].anc <= M[y].dfs BY <4>1, <3>1, <1>7
      <4>3. N[t].anc <= N[y].dfs BY <4>2, <2>3, <1>6, <1>7
      <4> QED BY <4>3, <2>2
    <3>3. CASE \E j \in Deep(c) : k <= j /\ z = At(c, j)
      <4>1. PICK j \in 1..n : k <= j /\ z = At(c2, j) BY <3>3, <1>2
      <4>2. N[z].anc <= M[z].anc /\ N[z].anc \in Nat /\ M[z].anc \in Nat BY <1>3, <1>8, FieldTypes
      <4>3. N[z].anc <= N[y].dfs BY <4>2, <3>1, <2>3
      <4> QED BY <4>1, <4>3, <1>2, <1>3
    <3> QED BY <3>1, <3>2, <3>3
  <2>5. CASE x = t /\ y = d
    <3>1. N[t].anc <= M[d].anc /\ M[d].anc <= M[d].dfs BY <2>1, <2>5, <1>7 DEF Walk, AncInv
    <3>2. N[t].anc <= N[y].dfs BY <3>1, <2>5, <1>6, <1>7
    <3> QED BY <3>2, <2>2
  <2> QED BY <2>1, <2>4, <2>5, <1>3, <1>10
<1>16. SeenInv(N, c2, settled)
  <2> SUFFICES ASSUME NEW x \in On(c2), NEW y \in Modules, Passed(c2, x, y)
               PROVE  y \in On(c2) \/ N[y].status \in settled
    BY DEF SeenInv
  <2>1. Passed(c, x, y) \/ y = d BY <1>3, <1>10
  <2>2. d \in On(c) \/ M[d].status \in settled BY DEF Walk, StackInv
  <2> QED BY <2>1, <2>2, <1>3 DEF Walk, SeenInv
<1> QED BY <1>11, <1>12, <1>13, <1>14, <1>15, <1>16 DEF Walk

\* Leave removes the frame at the top, with the stack left alone or set.
LEMMA PopCall ==
  ASSUME NEW c \in Calls, c.frames # <<>>, NEW s \in Seq(Modules)
  PROVE  /\ Pops(c, [[c EXCEPT !.stack = s] EXCEPT !.frames = Front(@)])
         /\ [[c EXCEPT !.stack = s] EXCEPT !.frames = Front(@)].stack = s
         /\ Pops(c, [c EXCEPT !.frames = Front(@)])
         /\ [c EXCEPT !.frames = Front(@)].stack = c.stack
<1> DEFINE f == Front(c.frames)
           n == Len(c.frames)
<1>1. c.frames \in Seq(Frames) /\ n \in Nat /\ n > 0 BY CallTypes
<1>2. f \in Seq(Frames) /\ Len(f) = n - 1 /\ \A k \in 1..n - 1 : f[k] = c.frames[k]
  BY <1>1 DEF Front
<1>3. c \in [op : {"link", "eval", "exec"}, root : Modules, frames : Seq(Frames),
              stack : Seq(Modules), index : Nat, todo : Seq(Modules)]
  BY DEF Calls
<1> DEFINE c2 == [[c EXCEPT !.stack = s] EXCEPT !.frames = Front(@)]
           c3 == [c EXCEPT !.frames = Front(@)]
<1>4. /\ c2.frames = f /\ c2.stack = s /\ c2.index = c.index /\ c2.root = c.root
      /\ c2.op = c.op /\ c2.todo = c.todo
      /\ c3.frames = f /\ c3.stack = c.stack /\ c3.index = c.index /\ c3.root = c.root
      /\ c3.op = c.op /\ c3.todo = c.todo
  BY <1>3
<1>5. c2 \in Calls /\ c3 \in Calls
  <2>1. c2 = [[c EXCEPT !.stack = s] EXCEPT !.frames = f] /\ c3 = [c EXCEPT !.frames = f] BY <1>3
  <2> HIDE DEF f
  <2> QED BY <2>1, <1>2, <1>3 DEF Calls
<1> HIDE DEF c2, c3, f
<1> QED BY <1>1, <1>2, <1>4, <1>5 DEF Pops, Deep, At, Nx, c2, c3

\* Leaving a module that is no root keeps the traversal invariant.
LEMMA LeaveWalk ==
  ASSUME ImportsTyped, NEW M \in ModuleTables, NEW c \in Calls,
         NEW c2 \in Calls, NEW st, NEW settled, Walk(M, c, st, settled),
         Pops(c, c2), c2.stack = c.stack, Len(c.frames) > 1,
         Nx(c, Len(c.frames)) > Len(imports[At(c, Len(c.frames))]),
         M[At(c, Len(c.frames))].anc # M[At(c, Len(c.frames))].dfs
  PROVE  Walk(M, c2, st, settled)
<1> DEFINE n == Len(c.frames)
           t == At(c, n)
<1>2. /\ n \in Nat /\ n > 1 /\ Deep(c) = 1..n /\ Deep(c2) = 1..n - 1
      /\ Len(c2.frames) = n - 1
      /\ \A k \in 1..n - 1 : At(c2, k) = At(c, k) /\ Nx(c2, k) = Nx(c, k)
      /\ c2.index = c.index /\ c2.root = c.root
  BY DEF Pops
<1>3. On(c2) = On(c) /\ On(c) \subseteq Modules /\ c2.frames # <<>> /\ c.frames # <<>>
  BY <1>2, CallTypes DEF On
<1>4. n \in 1..n /\ t \in On(c) /\ t \in Modules /\ Nx(c, n) > Len(imports[t])
  BY <1>2, <1>3 DEF Walk, FramesInv
<1>5. \A x \in Modules : M[x].dfs \in Nat /\ M[x].anc \in Nat BY FieldTypes
<1>6. M[t].anc < M[t].dfs BY <1>4, <1>5 DEF Walk, AncInv
<1>7. \A z : ~Looks(c, z)
  <2>1. Nx(c, n) \notin 1..Len(imports[t]) BY <1>4, ImportTypes
  <2> QED BY <1>4, <2>1, ImportTypes DEF Looks
<1>8. \A k \in 1..n : At(c, k) = t => k = n BY <1>2, <1>4, OneFrame DEF Walk
<1>9. Looks(c2, t)
  <2>1. n - 1 \in 1..n /\ (n - 1) + 1 = n /\ n - 1 \in 1..n - 1 /\ n - 1 > 0 BY <1>2
  <2>2. Nx(c, n - 1) \in DOMAIN imports[At(c, n - 1)] /\ imports[At(c, n - 1)][Nx(c, n - 1)] = t
    <3>1. \A k \in 1..n : k + 1 \in 1..n =>
            Nx(c, k) \in DOMAIN imports[At(c, k)] /\ imports[At(c, k)][Nx(c, k)] = At(c, k + 1)
      BY <1>2 DEF Walk, FramesInv
    <3>2. (n - 1) + 1 \in 1..n /\ At(c, (n - 1) + 1) = t BY <2>1, <1>4
    <3> QED BY <3>1, <3>2, <2>1
  <2> QED BY <2>1, <2>2, <1>2 DEF Looks
<1> HIDE DEF n, t
<1>10. \A x \in Modules : \A y : Passed(c2, x, y) => Passed(c, x, y)
  <2> SUFFICES ASSUME NEW x \in Modules, NEW y, Passed(c2, x, y)
               PROVE  Passed(c, x, y)
    OBVIOUS
  <2>1. PICK i \in DOMAIN imports[x] : imports[x][i] = y /\ \A k \in Deep(c2) : At(c2, k) = x => i < Nx(c2, k)
    BY DEF Passed
  <2>2. i \in 1..Len(imports[x]) /\ Len(imports[x]) \in Nat BY ImportTypes
  <2>3. ASSUME NEW k \in 1..n, At(c, k) = x PROVE i < Nx(c, k)
    <3>1. CASE k = n
      <4>1. x = t /\ Nx(c, n) \in Nat BY <2>3, <3>1, <1>2, CallTypes DEF t
      <4> QED BY <4>1, <3>1, <2>2, <1>4
    <3>2. CASE k # n
      <4>1. k \in 1..n - 1 BY <3>2, <1>2
      <4> QED BY <4>1, <2>1, <2>3, <1>2
    <3> QED BY <3>1, <3>2
  <2> QED BY <2>1, <2>3, <1>2 DEF Passed
<1>11. StackInv(M, c2, st) BY <1>2, <1>3 DEF Walk, StackInv
<1>12. FramesInv(M, c2)
  <2>1. \A k \in 1..n - 1 : k \in 1..n BY <1>2
  <2>2. \A k \in 1..n - 1 : At(c2, k) \in On(c2) /\ Nx(c2, k) \in 1..Len(imports[At(c2, k)]) + 1
    BY <2>1, <1>2, <1>3 DEF Walk, FramesInv
  <2>3. \A k, l \in 1..n - 1 : k < l => M[At(c2, k)].dfs < M[At(c2, l)].dfs
    BY <2>1, <1>2 DEF Walk, FramesInv
  <2>4. ASSUME NEW k \in 1..n - 1, k + 1 \in 1..n - 1
        PROVE  Nx(c2, k) \in DOMAIN imports[At(c2, k)] /\ imports[At(c2, k)][Nx(c2, k)] = At(c2, k + 1)
    BY <2>1, <2>4, <1>2 DEF Walk, FramesInv
  <2>5. At(c2, 1) = c2.root /\ \A x \in On(c2) : M[c2.root].dfs <= M[x].dfs
    <3>1. 1 \in 1..n - 1 BY <1>2
    <3> QED BY <3>1, <1>2, <1>3 DEF Walk, FramesInv
  <2> QED BY <2>2, <2>3, <2>4, <2>5, <1>2, <1>3 DEF FramesInv
<1>13. AncInv(M, c2) BY <1>3 DEF Walk, AncInv
<1>14. PathInv(M, c2)
  <2>1. \A k \in 1..n - 1 : k \in 1..n /\ At(c2, k) = At(c, k) BY <1>2
  <2>2. ASSUME NEW k \in 1..n - 1, NEW x \in On(c2), k + 1 \in 1..n - 1 => M[x].dfs < M[At(c2, k + 1)].dfs
        PROVE  At(c2, k) \in Needs(x)
    <3>1. CASE k + 1 \in 1..n - 1
      <4>1. M[x].dfs < M[At(c, k + 1)].dfs BY <2>1, <2>2, <3>1
      <4> QED BY <4>1, <2>1, <1>2, <1>3 DEF Walk, PathInv
    <3>2. CASE k + 1 \notin 1..n - 1
      <4>1. k + 1 = n BY <3>2, <1>2
      <4>2. \A y \in On(c) : M[y].dfs < M[t].dfs => At(c, k) \in Needs(y)
        BY <4>1, <2>1, <1>2 DEF Walk, PathInv, t
      <4>3. CASE M[x].dfs < M[t].dfs BY <4>2, <4>3, <2>1, <1>3
      <4>4. CASE ~(M[x].dfs < M[t].dfs)
        <5>1. t \in Needs(x) /\ x \in Modules
          <6>1. n + 1 \notin 1..n BY <1>2
          <6> QED BY <6>1, <1>2, <1>3, <1>4 DEF Walk, PathInv, t
        <5>2. PICK y \in On(c) : M[y].dfs = M[t].anc /\ y \in Needs(t) BY <1>4 DEF Walk, AncInv
        <5>3. At(c, k) \in Needs(y) BY <4>2, <5>2, <1>6
        <5>4. y \in Needs(x) BY <5>1, <5>2, NeedsTransitive, ImportTypes
        <5>5. At(c, k) \in Needs(x) BY <5>1, <5>3, <5>4, NeedsTransitive, ImportTypes
        <5> QED BY <5>5, <2>1
      <4> QED BY <4>3, <4>4
    <3> QED BY <3>1, <3>2
  <2>3. ASSUME NEW k \in 1..n - 1, NEW x \in On(c2), M[At(c2, k)].dfs <= M[x].dfs
        PROVE  x \in Needs(At(c2, k))
    BY <2>1, <2>3, <1>2, <1>3 DEF Walk, PathInv
  <2> QED BY <2>2, <2>3, <1>2 DEF PathInv
<1>15. LowInv(M, c2)
  <2> SUFFICES ASSUME NEW x \in On(c2), NEW y \in On(c2), NEW k \in 1..n - 1,
                      Passed(c2, x, y), M[At(c2, k)].dfs <= M[x].dfs
               PROVE  \E z \in On(c2) : /\ M[z].anc <= M[y].dfs
                                        /\ Looks(c2, z) \/ \E j \in Deep(c2) : k <= j /\ z = At(c2, j)
    BY <1>2 DEF LowInv
  <2>1. Passed(c, x, y) /\ k \in 1..n /\ At(c, k) = At(c2, k) BY <1>2, <1>3, <1>10
  <2>2. PICK z \in On(c) : /\ M[z].anc <= M[y].dfs
                           /\ Looks(c, z) \/ \E j \in Deep(c) : k <= j /\ z = At(c, j)
    BY <2>1, <1>2, <1>3 DEF Walk, LowInv
  <2>3. PICK j \in 1..n : k <= j /\ z = At(c, j) BY <2>2, <1>2, <1>7
  <2>4. CASE j = n BY <2>2, <2>3, <2>4, <1>3, <1>9 DEF t
  <2>5. CASE j # n
    <3>1. j \in Deep(c2) /\ z = At(c2, j) BY <2>3, <2>5, <1>2
    <3> QED BY <3>1, <2>2, <2>3, <1>3
  <2> QED BY <2>4, <2>5
<1>16. SeenInv(M, c2, settled) BY <1>3, <1>10 DEF Walk, SeenInv
<1> QED BY <1>11, <1>12, <1>13, <1>14, <1>15, <1>16 DEF Walk

\* The modules of a cycle import each other or what is settled, and each
\* needs the others.
LEMMA CycleClosed ==
  ASSUME ImportsTyped, NEW M \in ModuleTables, NEW c \in Calls, NEW st, NEW settled,
         Walk(M, c, st, settled), AtTheEnd(c),
         IsRoot(M, At(c, Len(c.frames))),
         NEW x \in Cycle(c.stack, At(c, Len(c.frames)))
  PROVE  /\ x \in On(c)
         /\ At(c, Len(c.frames)) \in Needs(x) /\ x \in Needs(At(c, Len(c.frames)))
         /\ \A d \in Imports(x) : Passed(c, x, d)
         /\ \A d \in Modules : Passed(c, x, d) /\ d \in On(c) => d \in Cycle(c.stack, At(c, Len(c.frames)))
<1> DEFINE n == Len(c.frames)
           t == At(c, n)
<1>1. n \in Nat /\ n > 0 /\ Deep(c) = 1..n /\ n \in 1..n BY CallTypes DEF AtTheEnd, Deep
<1>2. t \in On(c) /\ t \in Modules /\ Nx(c, n) > Len(imports[t])
  BY <1>1, CallTypes DEF AtTheEnd, Walk, FramesInv
<1>3. Cycle(c.stack, t) = {y \in On(c) : M[t].dfs <= M[y].dfs} BY <1>2, CycleByNumber DEF Walk
<1>4. x \in On(c) /\ x \in Modules /\ M[t].dfs <= M[x].dfs BY <1>3, CallTypes
<1>5. M[t].anc = M[t].dfs /\ \A y \in Modules : M[y].dfs \in Nat BY FieldTypes DEF IsRoot
<1>6. \A z : ~Looks(c, z)
  <2>1. Nx(c, n) \notin 1..Len(imports[t]) BY <1>2, ImportTypes
  <2> QED BY <1>2, <2>1, ImportTypes DEF Looks
<1> HIDE DEF n, t
<1>7. t \in Needs(x) /\ x \in Needs(t)
  <2>1. n + 1 \notin 1..n BY <1>1
  <2> QED BY <2>1, <1>1, <1>4 DEF Walk, PathInv, t
<1>8. \A k \in 1..n : At(c, k) = x => k = n
  <2> SUFFICES ASSUME NEW k \in 1..n, At(c, k) = x, k # n PROVE FALSE OBVIOUS
  <2>1. k < n BY <1>1
  <2>2. M[At(c, k)].dfs < M[At(c, n)].dfs BY <2>1, <1>1 DEF Walk, FramesInv
  <2>3. M[x].dfs < M[t].dfs /\ M[x].dfs \in Nat /\ M[t].dfs \in Nat
    BY <2>2, <1>2, <1>4, <1>5 DEF t
  <2> QED BY <2>3, <1>4
<1>9. ASSUME NEW d \in Imports(x) PROVE Passed(c, x, d)
  <2>1. PICK i \in DOMAIN imports[x] : imports[x][i] = d BY DEF Imports, ToSet
  <2>2. ASSUME NEW k \in Deep(c), At(c, k) = x PROVE i < Nx(c, k)
    <3>1. k = n /\ x = t BY <2>2, <1>1, <1>8 DEF t
    <3>2. i \in 1..Len(imports[t]) /\ Len(imports[t]) \in Nat /\ Nx(c, n) \in Nat
      BY <3>1, <1>1, <1>2, ImportTypes, CallTypes
    <3> QED BY <3>1, <3>2, <1>2
  <2> QED BY <2>1, <2>2 DEF Passed
<1>10. ASSUME NEW d \in Modules, Passed(c, x, d), d \in On(c) PROVE d \in Cycle(c.stack, t)
  <2>1. PICK z \in On(c) : /\ M[z].anc <= M[d].dfs
                           /\ Looks(c, z) \/ \E j \in Deep(c) : n <= j /\ z = At(c, j)
    BY <1>10, <1>1, <1>4 DEF Walk, LowInv, t
  <2>2. z = t
    <3>1. PICK j \in 1..n : n <= j /\ z = At(c, j) BY <2>1, <1>1, <1>6
    <3>2. j = n BY <3>1, <1>1
    <3> QED BY <3>1, <3>2 DEF t
  <2> QED BY <2>1, <2>2, <1>3, <1>5, <1>10
<1> QED BY <1>4, <1>7, <1>9, <1>10 DEF n, t

\* The root of a cycle takes it off the stack.
LEMMA CloseWalk ==
  ASSUME ImportsTyped, NEW M \in ModuleTables, NEW N \in ModuleTables, NEW c \in Calls,
         NEW c2 \in Calls, NEW st, NEW settled, Walk(M, c, st, settled),
         AtTheEnd(c), IsRoot(M, At(c, Len(c.frames))),
         Pops(c, c2), c2.stack = Below(c.stack, At(c, Len(c.frames))), st \notin settled,
         \A x \in Modules : N[x].dfs = M[x].dfs /\ N[x].anc = M[x].anc,
         \A x \in Cycle(c.stack, At(c, Len(c.frames))) : N[x].status \in settled,
         \A x \in Modules \ Cycle(c.stack, At(c, Len(c.frames))) : N[x].status = M[x].status
  PROVE  Walk(N, c2, st, settled)
<1> DEFINE n == Len(c.frames)
           t == At(c, n)
           K == Cycle(c.stack, t)
<1>1. /\ n \in Nat /\ n > 0 /\ n \in 1..n /\ Deep(c) = 1..n /\ Deep(c2) = 1..n - 1
      /\ Len(c2.frames) = n - 1
      /\ \A k \in 1..n - 1 : At(c2, k) = At(c, k) /\ Nx(c2, k) = Nx(c, k)
      /\ c2.index = c.index /\ c2.root = c.root
  BY DEF Pops
<1>2. t \in On(c) /\ t \in Modules /\ Nx(c, n) > Len(imports[t]) /\ On(c) \subseteq Modules
  BY <1>1, CallTypes DEF AtTheEnd, Walk, FramesInv
<1>3. /\ K = {y \in On(c) : M[t].dfs <= M[y].dfs}
      /\ On(c2) = {y \in On(c) : M[y].dfs < M[t].dfs}
      /\ Len(c2.stack) <= Len(c.stack) /\ Len(c2.stack) \in Nat
      /\ \A i \in 1..Len(c2.stack) : c2.stack[i] = c.stack[i]
  <2>1. StackInv(M, c, st) BY DEF Walk
  <2> QED BY <1>2, <2>1, CycleByNumber, CallTypes DEF On
<1>4. \A x \in Modules : /\ N[x].dfs = M[x].dfs /\ N[x].anc = M[x].anc
                         /\ M[x].dfs \in Nat /\ M[x].anc \in Nat
  BY FieldTypes
<1>5. On(c2) \subseteq On(c) /\ \A x \in On(c) : x \in On(c2) \/ x \in K BY <1>2, <1>3, <1>4
<1>6. \A z : ~Looks(c, z)
  <2>1. Nx(c, n) \notin 1..Len(imports[t]) BY <1>2, ImportTypes
  <2> QED BY <1>2, <2>1, ImportTypes DEF Looks
<1>7. M[t].anc = M[t].dfs
  BY DEF IsRoot
<1>a. \A x \in K : N[x].status \in settled
  OBVIOUS
<1>b. \A x \in Modules : x \notin K => N[x].status = M[x].status
  OBVIOUS
<1>c. \A k \in 1..n - 1 : k \in 1..n /\ k + 1 \in 1..n /\ (k + 1 \in 1..n - 1 \/ k + 1 = n)
  BY <1>1
<1>d. c.frames # <<>> /\ At(c, 1) = c.root /\ \A x \in On(c) : M[c.root].dfs <= M[x].dfs
  BY DEF Walk, FramesInv, AtTheEnd
<1> HIDE DEF n, t, K
<1>8. \A x \in On(c2) : \A y : Passed(c2, x, y) => Passed(c, x, y)
  <2> SUFFICES ASSUME NEW x \in On(c2), NEW y, Passed(c2, x, y)
               PROVE  Passed(c, x, y)
    OBVIOUS
  <2>1. PICK i \in DOMAIN imports[x] : imports[x][i] = y /\ \A k \in Deep(c2) : At(c2, k) = x => i < Nx(c2, k)
    BY DEF Passed
  <2>2. x # t BY <1>2, <1>3, <1>4
  <2>3. ASSUME NEW k \in 1..n, At(c, k) = x PROVE i < Nx(c, k)
    <3>1. k # n BY <2>2, <2>3 DEF t
    <3>2. k \in 1..n - 1 BY <3>1, <1>1
    <3> QED BY <3>2, <2>1, <2>3, <1>1
  <2> QED BY <2>1, <2>3, <1>1 DEF Passed
<1>11. StackInv(N, c2, st)
  <2>1. ASSUME NEW x \in Modules PROVE N[x].status = st <=> x \in On(c2)
    <3>1. M[x].status = st <=> x \in On(c) BY DEF Walk, StackInv
    <3>2. x \in K => x \in On(c) /\ x \notin On(c2) BY <1>2, <1>3, <1>4
    <3> QED BY <3>1, <3>2, <1>5, <1>a, <1>b
  <2>2. ASSUME NEW i \in 1..Len(c2.stack), NEW j \in 1..Len(c2.stack), i < j
        PROVE  N[c2.stack[i]].dfs < N[c2.stack[j]].dfs
    <3>1. i \in 1..Len(c.stack) /\ j \in 1..Len(c.stack) /\ c.stack[i] \in Modules /\ c.stack[j] \in Modules
      BY <1>3, CallTypes
    <3>2. M[c.stack[i]].dfs < M[c.stack[j]].dfs BY <3>1, <2>2 DEF Walk, StackInv
    <3> QED BY <3>1, <3>2, <1>3, <1>4
  <2>3. \A x \in On(c2) : N[x].dfs < c2.index BY <1>1, <1>2, <1>4, <1>5 DEF Walk, StackInv
  <2> QED BY <2>1, <2>2, <2>3 DEF StackInv
<1>12. FramesInv(N, c2)
  <2>0. \A k, l \in 1..n : k < l => M[At(c, k)].dfs < M[At(c, l)].dfs BY <1>1 DEF Walk, FramesInv
  <2>1. ASSUME NEW k \in 1..n - 1 PROVE At(c2, k) \in On(c2) /\ Nx(c2, k) \in 1..Len(imports[At(c2, k)]) + 1
    <3>1. k \in 1..n /\ k < n BY <1>1
    <3>2. At(c, k) \in On(c) /\ Nx(c, k) \in 1..Len(imports[At(c, k)]) + 1
      BY <3>1, <1>1 DEF Walk, FramesInv
    <3>3. M[At(c, k)].dfs < M[t].dfs BY <3>1, <2>0, <1>1 DEF t
    <3> QED BY <3>2, <3>3, <1>1, <1>3
  <2>3. ASSUME NEW k \in 1..n - 1, NEW l \in 1..n - 1, k < l
        PROVE N[At(c2, k)].dfs < N[At(c2, l)].dfs
    <3>1. M[At(c, k)].dfs < M[At(c, l)].dfs BY <2>0, <2>3, <1>c
    <3>2. At(c2, k) = At(c, k) /\ At(c2, l) = At(c, l) /\ At(c2, k) \in Modules /\ At(c2, l) \in Modules
      BY <2>1, <1>1, <1>2, <1>5
    <3> QED BY <3>1, <3>2, <1>4
  <2>4. ASSUME NEW k \in 1..n - 1, k + 1 \in 1..n - 1
        PROVE  Nx(c2, k) \in DOMAIN imports[At(c2, k)] /\ imports[At(c2, k)][Nx(c2, k)] = At(c2, k + 1)
    BY <1>c, <2>4, <1>1 DEF Walk, FramesInv
  <2>5. ASSUME n > 1 PROVE At(c2, 1) = c2.root /\ \A x \in On(c2) : N[c2.root].dfs <= N[x].dfs
    <3>1. 1 \in 1..n - 1 /\ c.root \in Modules BY <1>1, <2>5, CallTypes
    <3> QED BY <3>1, <1>1, <1>2, <1>4, <1>5, <1>d
  <2>6. ASSUME n = 1 PROVE c2.stack = <<>>
    <3>1. t = c.root BY <2>6, <1>d DEF t
    <3>2. On(c2) = {} BY <3>1, <1>2, <1>3, <1>4, <1>d
    <3> QED BY <3>2, CallTypes
  <2>7. c2.frames = <<>> <=> n = 1 BY <1>1, CallTypes
  <2> QED BY <2>1, <2>3, <2>4, <2>5, <2>6, <2>7, <1>1 DEF FramesInv
<1>13. AncInv(N, c2)
  <2>1. \A x \in On(c2) : N[x].anc <= N[x].dfs BY <1>2, <1>4, <1>5 DEF Walk, AncInv
  <2>2. ASSUME NEW x \in On(c2) PROVE \E y \in On(c2) : N[y].dfs = N[x].anc /\ y \in Needs(x)
    <3>1. PICK y \in On(c) : M[y].dfs = M[x].anc /\ y \in Needs(x) BY <1>5 DEF Walk, AncInv
    <3>2. M[x].anc <= M[x].dfs /\ M[x].dfs < M[t].dfs /\ x \in Modules
      BY <1>2, <1>3, <1>5 DEF Walk, AncInv
    <3>3. M[y].dfs < M[t].dfs BY <3>1, <3>2, <1>2, <1>4
    <3> QED BY <3>1, <3>2, <3>3, <1>2, <1>3, <1>4
  <2> QED BY <2>1, <2>2 DEF AncInv
<1>14. PathInv(N, c2)
  <2>2. ASSUME NEW k \in 1..n - 1, NEW x \in On(c2), k + 1 \in 1..n - 1 => N[x].dfs < N[At(c2, k + 1)].dfs
        PROVE  At(c2, k) \in Needs(x)
    <3>0. At(c2, k) = At(c, k) /\ k \in 1..n /\ k + 1 \in 1..n /\ At(c, k + 1) \in Modules
      BY <1>1, <1>c, CallTypes
    <3>1. M[x].dfs < M[At(c, k + 1)].dfs
      <4>1. CASE k + 1 \in 1..n - 1 BY <2>2, <4>1, <3>0, <1>1, <1>2, <1>4, <1>5
      <4>2. CASE k + 1 = n BY <4>2, <1>3 DEF t
      <4> QED BY <4>1, <4>2, <1>c
    <3> QED BY <3>0, <3>1, <1>1, <1>5 DEF Walk, PathInv
  <2>3. ASSUME NEW k \in 1..n - 1, NEW x \in On(c2), N[At(c2, k)].dfs <= N[x].dfs
        PROVE  x \in Needs(At(c2, k))
    <3>1. At(c2, k) = At(c, k) /\ k \in 1..n /\ At(c, k) \in Modules BY <1>1, <1>c, CallTypes
    <3>2. M[At(c, k)].dfs <= M[x].dfs BY <2>3, <3>1, <1>2, <1>4, <1>5
    <3> QED BY <3>1, <3>2, <1>1, <1>5 DEF Walk, PathInv
  <2> QED BY <2>2, <2>3, <1>1 DEF PathInv
<1>15. LowInv(N, c2)
  <2> SUFFICES ASSUME NEW x \in On(c2), NEW y \in On(c2), NEW k \in 1..n - 1,
                      Passed(c2, x, y), N[At(c2, k)].dfs <= N[x].dfs
               PROVE  \E z \in On(c2) : /\ N[z].anc <= N[y].dfs
                                        /\ Looks(c2, z) \/ \E j \in Deep(c2) : k <= j /\ z = At(c2, j)
    BY <1>1 DEF LowInv
  <2>1. Passed(c, x, y) /\ k \in 1..n /\ At(c, k) = At(c2, k) /\ At(c, k) \in Modules
    BY <1>1, <1>8, <1>c, CallTypes
  <2>2. M[At(c, k)].dfs <= M[x].dfs /\ x \in On(c) /\ y \in On(c) BY <2>1, <1>2, <1>4, <1>5
  <2>3. PICK z \in On(c) : /\ M[z].anc <= M[y].dfs
                           /\ Looks(c, z) \/ \E j \in Deep(c) : k <= j /\ z = At(c, j)
    BY <2>1, <2>2, <1>1 DEF Walk, LowInv
  <2>4. PICK j \in 1..n : k <= j /\ z = At(c, j) BY <2>3, <1>1, <1>6
  <2>5. j # n
    <3>1. M[y].dfs < M[t].dfs BY <1>3
    <3> QED BY <3>1, <2>2, <2>3, <2>4, <1>2, <1>4, <1>7 DEF t
  <2>6. j \in Deep(c2) /\ z = At(c2, j) /\ z \in On(c2)
    <3>1. j \in 1..n - 1 BY <2>5, <1>1
    <3> QED BY <3>1, <2>4, <1>1, <1>12 DEF FramesInv
  <2>7. N[z].anc <= N[y].dfs BY <2>2, <2>3, <1>2, <1>4
  <2> QED BY <2>4, <2>6, <2>7
<1>16. SeenInv(N, c2, settled)
  <2> SUFFICES ASSUME NEW x \in On(c2), NEW y \in Modules, Passed(c2, x, y)
               PROVE  y \in On(c2) \/ N[y].status \in settled
    BY DEF SeenInv
  <2>1. y \in On(c) \/ M[y].status \in settled BY <1>5, <1>8 DEF Walk, SeenInv
  <2> QED BY <2>1, <1>5, <1>a, <1>b
<1> QED BY <1>11, <1>12, <1>13, <1>14, <1>15, <1>16 DEF Walk

-----------------------------------------------------------------------------
(* Calls and frames *)

\* The import lists of a shaped state are typed.
LEMMA Typed == ASSUME Shaped PROVE ImportsTyped
BY GraphsAssumption DEF Shaped, ImportsTyped

\* Without Reentry there is one call at most: it is the top one.
LEMMA OneCall ==
  ASSUME Shaped, calls # <<>>
  PROVE  /\ C1 \in Calls /\ Len(calls) = 1 /\ top = C1
         /\ Front(calls) = <<>> /\ \A c : Append(Front(calls), c) = <<c>>
<1>0. calls \in Seq(Calls) BY DEF Shaped
<1>1. Len(calls) \in Nat /\ Len(calls) # 0
  <2>1. \A s \in Seq(Calls) : s # <<>> => Len(s) \in Nat /\ Len(s) # 0 OBVIOUS
  <2> QED BY <1>0, <2>1
<1>5. Len(calls) <= 1 BY DEF Shaped
<1>2. Len(calls) = 1
  <2>1. \A k \in Nat : k # 0 /\ k <= 1 => k = 1 OBVIOUS
  <2> QED BY <1>1, <1>5, <2>1
<1>3. C1 \in Calls /\ top = C1 BY <1>0, <1>2 DEF C1, top, Last
<1>4. Front(calls) = <<>> BY <1>0, <1>2 DEF Front
<1> QED BY <1>2, <1>3, <1>4

\* What the actions do to the calls.
LEMMA CallSteps ==
  ASSUME Shaped, calls # <<>>
  PROVE  /\ \A c : Replace(c) => calls' = <<c>> /\ calls' # <<>> /\ C1' = c /\ Len(calls') = 1
         /\ Returns => calls' = <<>>
<1>1. \A c : <<c>> # <<>> /\ <<c>>[1] = c /\ Len(<<c>>) = 1 OBVIOUS
<1> QED BY <1>1, OneCall DEF Replace, Returns, C1

\* The frame at the top of a call that has frames.
LEMMA TopFrame ==
  ASSUME NEW c \in Calls, c.frames # <<>>
  PROVE  /\ Len(c.frames) \in Nat /\ Len(c.frames) > 0 /\ Deep(c) = 1..Len(c.frames)
         /\ Len(c.frames) \in Deep(c)
         /\ Last(c.frames).m = Top(c) /\ Last(c.frames).next = Nx(c, Len(c.frames))
         /\ Top(c) \in Modules /\ Nx(c, Len(c.frames)) \in Nat
         /\ Len(c.frames) = 1 \/ Len(c.frames) > 1
<1>1. Len(c.frames) \in Nat /\ Len(c.frames) # 0 BY CallTypes
<1>3. Len(c.frames) = 1 \/ Len(c.frames) > 1
  <2>1. \A k \in Nat : k # 0 => k = 1 \/ k > 1 OBVIOUS
  <2> QED BY <1>1, <2>1
<1>2. Deep(c) = 1..Len(c.frames) /\ Len(c.frames) \in Deep(c) BY <1>1 DEF Deep
<1> QED BY <1>1, <1>2, <1>3, CallTypes DEF Top, At, Nx, Last

\* The frame at the top of a traversal.
LEMMA TopNext ==
  ASSUME Shaped, WalkInv, NEW op \in {"link", "eval"}, Doing(op), C1.frames # <<>>
  PROVE  /\ Nx(C1, Len(C1.frames)) \in 1..Len(imports[Top(C1)]) + 1 /\ mod[Top(C1)].status # "linked"
         /\ Top(C1) \in On(C1)
<1>1. C1 \in Calls BY OneCall DEF Doing
<1>2. Len(C1.frames) \in Deep(C1) /\ Top(C1) \in Modules BY <1>1, TopFrame
<1>3. CASE op = "link"
  <2>1. Walk(mod, C1, "linking", LinkSettled) BY <1>3 DEF WalkInv, LinkWalk
  <2>2. Nx(C1, Len(C1.frames)) \in 1..Len(imports[Top(C1)]) + 1 /\ Top(C1) \in On(C1)
    BY <2>1, <1>2 DEF Walk, FramesInv, Top
  <2> QED BY <2>1, <2>2, <1>2 DEF Walk, StackInv
<1>4. CASE op = "eval"
  <2>1. Walk(mod, C1, "evaluating", Ended) BY <1>4 DEF WalkInv, EvalWalk
  <2>2. Nx(C1, Len(C1.frames)) \in 1..Len(imports[Top(C1)]) + 1 /\ Top(C1) \in On(C1)
    BY <2>1, <1>2 DEF Walk, FramesInv, Top
  <2> QED BY <2>1, <2>2, <1>2 DEF Walk, StackInv
<1> QED BY <1>3, <1>4

\* The guards of the traversals, said of the call in progress.
LEMMA ChildSeen ==
  ASSUME Shaped, WalkInv, NEW op \in {"link", "eval"}, AtChild(op)
  PROVE  /\ calls # <<>> /\ Doing(op) /\ C1 \in Calls /\ C1.frames # <<>> /\ frame.m = Top(C1)
         /\ Child \in Modules /\ Looks(C1, Child) /\ \A d : Looks(C1, d) => d = Child
         /\ Child \in Imports(Top(C1)) /\ ~AtTheEnd(C1) /\ top = C1
<1>1. calls # <<>> /\ top = C1 /\ C1 \in Calls /\ C1.frames # <<>> /\ Doing(op)
  BY OneCall DEF AtChild, InCall, Doing
<1> DEFINE n == Len(C1.frames)
           t == Top(C1)
<1>2. /\ frame.m = t /\ frame.next = Nx(C1, n) /\ t \in Modules /\ Nx(C1, n) \in Nat /\ n > 0
      /\ n \in Deep(C1) /\ At(C1, n) = t
  BY <1>1, TopFrame DEF frame, Top
<1>3. Nx(C1, n) <= Len(imports[t]) BY <1>2 DEF AtChild
<1>4. Nx(C1, n) \in 1..Len(imports[t]) + 1 BY <1>1, TopNext
<1>5. Nx(C1, n) \in DOMAIN imports[t] /\ DOMAIN imports[t] = 1..Len(imports[t]) /\ Len(imports[t]) \in Nat
  <2>1. DOMAIN imports[t] = 1..Len(imports[t]) /\ Len(imports[t]) \in Nat
    BY <1>2, Typed, ImportTypes
  <2> QED BY <2>1, <1>2, <1>3, <1>4
<1>6. Child = imports[t][Nx(C1, n)] BY <1>2 DEF Child
<1> HIDE DEF n, t
<1>7. Child \in Modules /\ Child \in Imports(t) BY <1>2, <1>5, <1>6, Typed, ImportTypes
<1>8. Looks(C1, Child) /\ \A d : Looks(C1, d) => d = Child BY <1>2, <1>5, <1>6 DEF Looks, n
<1>9. ~AtTheEnd(C1) BY <1>2, <1>3, <1>5 DEF AtTheEnd, n
<1> QED BY <1>1, <1>2, <1>7, <1>8, <1>9 DEF n, t

\* The guard of the end of a traversal, said of the call in progress.
LEMMA EndSeen ==
  ASSUME Shaped, WalkInv, NEW op \in {"link", "eval"}, AtEnd(op)
  PROVE  /\ calls # <<>> /\ Doing(op) /\ C1 \in Calls /\ C1.frames # <<>> /\ frame.m = Top(C1)
         /\ Top(C1) \in Modules /\ AtTheEnd(C1) /\ top = C1 /\ \A d : ~Looks(C1, d)
<1>1. calls # <<>> /\ top = C1 /\ C1 \in Calls /\ C1.frames # <<>> /\ Doing(op)
  BY OneCall DEF AtEnd, InCall, Doing
<1>2. /\ frame.m = Top(C1) /\ frame.next = Nx(C1, Len(C1.frames)) /\ Top(C1) \in Modules
      /\ Nx(C1, Len(C1.frames)) \in Nat
  BY <1>1, TopFrame DEF frame
<1>3. Nx(C1, Len(C1.frames)) > Len(imports[Top(C1)]) BY <1>2 DEF AtEnd
<1>4. AtTheEnd(C1) BY <1>1, <1>3 DEF AtTheEnd, Top
<1>5. \A d : ~Looks(C1, d)
  <2>1. DOMAIN imports[Top(C1)] = 1..Len(imports[Top(C1)]) /\ Len(imports[Top(C1)]) \in Nat
    BY <1>2, Typed, ImportTypes
  <2>2. Nx(C1, Len(C1.frames)) \notin DOMAIN imports[Top(C1)] BY <2>1, <1>2, <1>3
  <2> QED BY <2>2 DEF Looks, Top
<1> QED BY <1>1, <1>2, <1>4, <1>5

-----------------------------------------------------------------------------
(* Types *)

\* The reports in the job queue have their types.
LEMMA JobTypes ==
  ASSUME Shaped
  PROVE  /\ jobs \in Seq(Reports) /\ Len(jobs) \in Nat
         /\ \A i \in 1..Len(jobs) : jobs[i].m \in Modules /\ jobs[i].how \in Outcomes
<1>1. jobs \in Seq(Reports) BY DEF Shaped
<1>2. \A s \in Seq(Reports) : Len(s) \in Nat /\ \A i \in 1..Len(s) : s[i] \in Reports OBVIOUS
<1>3. \A i \in 1..Len(jobs) : jobs[i] \in Reports BY <1>1, <1>2
<1> QED BY <1>1, <1>2, <1>3 DEF Reports

\* The fields of a module of a shaped state have their types.
LEMMA ModTypes ==
  ASSUME Shaped, NEW x \in Modules
  PROVE  /\ mod[x] \in ModuleFields
         /\ mod[x].status \in Statuses /\ mod[x].dfs \in Nat /\ mod[x].anc \in Nat
         /\ mod[x].root \in Modules \cup {None} /\ mod[x].pending \in Nat /\ mod[x].async \in BOOLEAN
         /\ mod[x].stamp \in Nat /\ mod[x].parents \in Seq(Modules)
         /\ mod[x].error \in Modules \cup {None}
         /\ mod[x].promise \in {"none", "pending", "fulfilled", "rejected"}
         /\ body[x] \in Bodies
<1>1. mod \in ModuleTables /\ body \in [Modules -> Bodies] BY DEF Shaped
<1> QED BY <1>1, FieldTypes

\* A module has a cycle root when its evaluation has ended, and only then.
LEMMA Rooted ==
  ASSUME Shaped, RootInv, NEW x \in Modules
  PROVE  /\ mod[x].status \in Ended <=> mod[x].root \in Modules
         /\ mod[x].status \in Ended <=> mod[x].root # None
BY NoneAssumption, ModTypes DEF RootInv

-----------------------------------------------------------------------------
(* The import lists do not change *)

\* What a module needs stays the same when the graph does.
LEMMA NeedsKept == ASSUME Kept PROVE \A x : Needs(x)' = Needs(x) /\ Imports(x)' = Imports(x)
BY DEF Kept, Needs, Imports

\* A traversal described with the import lists before the step is described with
\* those after it.
LEMMA WalkKept ==
  ASSUME Kept, NEW st, NEW settled, Walk(mod', C1', st, settled)
  PROVE  Walk(mod, C1, st, settled)'
<1>1. imports' = imports /\ \A x : Needs(x)' = Needs(x) BY NeedsKept DEF Kept
<1>2. StackInv(mod, C1, st)' BY DEF Walk, StackInv, On
<1>3. FramesInv(mod, C1)' BY <1>1 DEF Walk, FramesInv, Deep, At, Nx, On
<1>4. AncInv(mod, C1)' BY <1>1 DEF Walk, AncInv, On
<1>5. PathInv(mod, C1)' BY <1>1 DEF Walk, PathInv, On, Deep, At
<1>6. LowInv(mod, C1)' BY <1>1 DEF Walk, LowInv, On, Deep, At, Nx, Passed, Looks
<1>7. SeenInv(mod, C1, settled)' BY <1>1 DEF Walk, SeenInv, On, Deep, At, Nx, Passed
<1> QED BY <1>2, <1>3, <1>4, <1>5, <1>6, <1>7 DEF Walk

-----------------------------------------------------------------------------
(* Steps that do not evaluate *)

\* Bodies go on only: what the imports of a module that ran were stays true.
LEMMA DependenciesKept ==
  ASSUME Kept, DependenciesFirst,
         \A x \in Modules : body[x] = "done" => body'[x] = "done",
         \A x \in Modules : body'[x] # "unrun" => body[x] # "unrun"
  PROVE  DependenciesFirst'
<1>1. \A x : Needs(x)' = Needs(x) /\ Imports(x)' = Imports(x) BY NeedsKept
<1>2. \A x : Cyclic(x)' = Cyclic(x) BY <1>1 DEF Cyclic
<1>3. \A x : Needs(x) \subseteq Modules BY DEF Needs, Closure
<1>4. SUFFICES ASSUME NEW m \in Modules, body'[m] # "unrun", NEW d \in Imports(m), d \notin Cyclic(m)
               PROVE  \A x \in Needs(d) : body'[x] = "done"
  BY <1>1, <1>2 DEF DependenciesFirst, Imports
<1>5. \A x \in Needs(d) : body[x] = "done" BY <1>4 DEF DependenciesFirst, Imports
<1> QED BY <1>3, <1>5

\* A step with the effect LinkEff keeps the parts about evaluation.
LEMMA LinkLate == ASSUME Shaped, WalkInv, LateInv, LinkEff PROVE LateInv'
<1>1. Kept /\ body' = body /\ jobs' = jobs /\ clock' = clock /\ has_tla' = has_tla
  BY DEF LinkEff, Kept
<1>2. ~Doing("eval") /\ ~Doing("exec") /\ ~Doing("eval")' /\ ~Doing("exec")' BY DEF LinkEff
<1>3. \A x \in Modules :
       /\ mod'[x].root = mod[x].root /\ mod'[x].pending = mod[x].pending /\ mod'[x].async = mod[x].async
       /\ mod'[x].stamp = mod[x].stamp /\ mod'[x].parents = mod[x].parents
       /\ mod'[x].error = mod[x].error
  BY DEF LinkEff
<1>14. \A x \in Modules : mod'[x].promise = mod[x].promise \/ Answer(x) BY DEF LinkEff
<1>4. \A x \in Modules :
       /\ mod[x].status \in Ended => mod'[x].status = mod[x].status /\ mod'[x].dfs = mod[x].dfs
       /\ mod[x].status \notin Ended => mod'[x].status \notin Ended \cup {"evaluating"}
  BY DEF LinkEff
<1>5. \A x \in Modules : mod[x].status # "evaluating" /\ mod'[x].status # "evaluating"
  BY <1>2, <1>4 DEF WalkInv, IdleInv, Ended
<1>6. Todo = {} /\ Todo' = {} /\ \A x : ~InPath(x) /\ ~InPath(x)' BY <1>2 DEF Todo, InPath
<1>7. \A x : Needs(x)' = Needs(x) /\ Imports(x)' = Imports(x) BY <1>1, NeedsKept
<1>8. \A x \in Modules : mod'[x].status \in Ended <=> mod[x].status \in Ended BY <1>4
<1>9. \A x \in Modules : mod'[x].status = "evaluated" <=> mod[x].status = "evaluated"
  BY <1>4 DEF Ended
<1>10. \A x \in Modules : mod'[x].status = "evaluating_async" <=> mod[x].status = "evaluating_async"
  BY <1>4 DEF Ended
<1>11. \A x \in Modules : \A p : Waits(p, x)' <=> Waits(p, x) BY <1>3 DEF Waits
<1>12. /\ FreshInv /\ RootInv /\ ErrorInv /\ StackBodies /\ EndedBodies /\ TodoInv /\ JobsInv
       /\ PromiseInv /\ WaitInv /\ StampInv /\ CountInv /\ TreeInv /\ ImportsInv /\ JumpInv
       /\ DependenciesFirst
  BY DEF LateInv
<1>13. \A x \in Modules : mod[x].root \in Modules => mod'[mod'[x].root].status \in Ended <=> mod[mod[x].root].status \in Ended
  BY <1>3, <1>8
<1>20. FreshInv' BY <1>1, <1>3, <1>5, <1>8, <1>12, <1>14 DEF FreshInv, Answer
<1>21. RootInv'
  <2>1. \A x \in Modules : mod'[x].status \notin Ended => mod'[x].root = None
    BY <1>3, <1>8, <1>12 DEF RootInv
  <2>2. ASSUME NEW x \in Modules, mod'[x].status \in Ended
        PROVE  /\ mod'[x].root \in Modules /\ mod'[mod'[x].root].status \in Ended
               /\ mod'[mod'[x].root].root = mod'[x].root
               /\ mod'[x].error # None => mod'[mod'[x].root].error # None
    BY <2>2, <1>3, <1>8, <1>12 DEF RootInv
  <2>3. \A x, y \in Modules : mod'[x].status \in Ended /\ mod'[x].error = None /\ mod'[y].root = mod'[x].root =>
       mod'[x].root \in Needs(y) /\ y \in Needs(mod'[x].root)
    BY <1>3, <1>8, <1>12 DEF RootInv
  <2> QED BY <2>1, <2>2, <2>3, <1>7 DEF RootInv
<1>22. ErrorInv' BY <1>1, <1>3, <1>9, <1>7, <1>12 DEF ErrorInv
<1>23. StackBodies' BY <1>5, <1>6 DEF StackBodies
<1>24. EndedBodies' BY <1>1, <1>3, <1>6, <1>9, <1>10, <1>12 DEF EndedBodies
<1>25. TodoInv' BY <1>2 DEF TodoInv
<1>26. JobsInv'
  <2>1. \A i, j \in 1..Len(jobs) : i # j => jobs[i].m # jobs[j].m BY <1>12 DEF JobsInv
  <2>2. ASSUME NEW i \in 1..Len(jobs)
        PROVE  /\ jobs[i].m \in has_tla /\ body[jobs[i].m] = jobs[i].how
               /\ \/ mod'[jobs[i].m].status \in {"evaluating", "evaluating_async"}
                  \/ mod'[jobs[i].m].status = "evaluated" /\ mod'[jobs[i].m].error # None
    <3>1. jobs[i].m \in Modules BY JobTypes
    <3> QED BY <3>1, <1>3, <1>5, <1>9, <1>10, <1>12 DEF JobsInv
  <2>3. \A x \in has_tla : body[x] \in Outcomes /\ mod'[x].status \in {"evaluating", "evaluating_async"} =>
          \E i \in 1..Len(jobs) : jobs[i].m = x
    BY <1>5, <1>10, <1>12 DEF JobsInv, Shaped
  <2>4. \A x \in Modules : body[x] = "suspended" => x \in has_tla BY <1>12 DEF JobsInv
  <2> QED BY <2>1, <2>2, <2>3, <2>4, <1>1 DEF JobsInv
<1>27. PromiseInv'
  <2> SUFFICES ASSUME NEW x \in Modules
               PROVE  /\ mod'[x].promise # "none" => mod'[x].status \in Ended /\ mod'[x].root = x
                      /\ mod'[x].promise = "fulfilled" => mod'[x].status = "evaluated" /\ mod'[x].error = None
                      /\ mod'[x].promise = "rejected" => mod'[x].error # None
    BY DEF PromiseInv
  <2>1. CASE mod'[x].promise = mod[x].promise
    BY <2>1, <1>2, <1>3, <1>8, <1>9, <1>12 DEF PromiseInv
  <2>2. CASE Answer(x) BY <2>2, <1>3, <1>8, <1>9, <1>12 DEF Answer, EndedBodies, Ended
  <2> QED BY <2>1, <2>2, <1>14
<1>28. WaitInv' BY <1>1, <1>3, <1>5, <1>6, <1>7, <1>8, <1>9, <1>11, <1>12 DEF WaitInv
<1>29. StampInv' BY <1>1, <1>3, <1>11, <1>12 DEF StampInv
<1>30. CountInv'
  <2>1. Open' = Open BY <1>1, <1>6, <1>9 DEF Open
  <2>2. \A p : Entries(mod, Open, p)' = Entries(mod, Open, p)
    <3>1. Open \subseteq Modules BY DEF Open
    <3> QED BY <2>1, <3>1, <1>3 DEF Entries
  <2>3. \A p \in Modules : mod[p].root # None => mod[p].root \in Modules BY ModTypes
  <2> QED BY <2>2, <2>3, <1>3, <1>12 DEF CountInv
<1>31. TreeInv'
  <2>1. SUFFICES ASSUME NEW x \in Modules, mod'[x].status = "evaluating_async", mod'[x].root # x
                 PROVE  \E y \in Modules : Waits(y, x)' /\ mod'[y].root = mod'[x].root /\ mod'[y].dfs < mod'[x].dfs
    BY <1>5 DEF TreeInv
  <2>2. mod[x].status = "evaluating_async" /\ mod[x].root # x BY <2>1, <1>3, <1>10
  <2>3. PICK y \in Modules : Waits(y, x) /\ mod[y].root = mod[x].root /\ mod[y].dfs < mod[x].dfs
    BY <2>2, <1>12 DEF TreeInv
  <2>4. mod[x].status \in Ended /\ mod[y].status \in Ended BY <2>2, <2>3, <1>12, Rooted DEF Ended
  <2> QED BY <2>3, <2>4, <1>3, <1>4, <1>11
<1>32. ImportsInv'
  <2>1. \A p \in Modules : mod'[p].status \in Ended <=> mod[p].root \in Modules
    BY <1>8, <1>12, Rooted
  <2>2. \A p, d \in Modules : mod[d].root \in Modules => (DoneFor(p, d)' <=> DoneFor(p, d))
    BY <1>3, <1>9, <1>11 DEF DoneFor, Complete
  <2>3. \A p \in Modules : Imports(p) \subseteq Modules BY Typed, ImportTypes
  <2> QED BY <2>1, <2>2, <2>3, <1>3, <1>5, <1>7, <1>8, <1>12 DEF ImportsInv
<1>33. JumpInv' BY <1>6 DEF JumpInv
<1>34. DependenciesFirst' BY <1>1, <1>12, DependenciesKept
<1> QED
  BY <1>20, <1>21, <1>22, <1>23, <1>24, <1>25, <1>26, <1>27, <1>28, <1>29, <1>30, <1>31, <1>32,
     <1>33, <1>34 DEF LateInv

-----------------------------------------------------------------------------
(* What the traversals assign *)

\* The fields of a new call.
LEMMA NewCall ==
  ASSUME NEW op \in {"link", "eval"}, NEW m \in Modules
  PROVE  /\ Call(op, m, <<>>) \in Calls /\ Call(op, m, <<>>).op = op /\ Call(op, m, <<>>).root = m
         /\ Call(op, m, <<>>).frames = <<>> /\ Call(op, m, <<>>).stack = <<>>
         /\ Call(op, m, <<>>).index = 0 /\ Call(op, m, <<>>).todo = <<>>
<1>1. <<>> \in Seq(Frames) /\ <<>> \in Seq(Modules) /\ 0 \in Nat OBVIOUS
<1> QED BY <1>1 DEF Call, Calls

\* The fields of a call that entered d.
LEMMA EnterFields ==
  ASSUME NEW c \in Calls, NEW d \in Modules
  PROVE  /\ Enter(c, d) \in Calls /\ Enter(c, d).op = c.op /\ Enter(c, d).root = c.root
         /\ Enter(c, d).frames = Append(c.frames, [m |-> d, next |-> 1])
         /\ Enter(c, d).stack = Append(c.stack, d)
         /\ Enter(c, d).index = c.index + 1 /\ Enter(c, d).todo = c.todo
         /\ Enter(c, d).frames # <<>>
<1>1. c.frames \in Seq(Frames) /\ c.stack \in Seq(Modules) /\ c.index \in Nat BY CallTypes
<1>2. [m |-> d, next |-> 1] \in Frames BY DEF Frames
<1>3. /\ Append(c.frames, [m |-> d, next |-> 1]) \in Seq(Frames)
      /\ Append(c.stack, d) \in Seq(Modules) /\ c.index + 1 \in Nat
  BY <1>1, <1>2
<1>4. Append(c.frames, [m |-> d, next |-> 1]) # <<>> BY <1>1, <1>2
<1> HIDE <1>1, <1>2
<1> QED BY <1>3, <1>4 DEF Enter, Calls

\* The fields of the modules after Entered.
LEMMA EnteredFields ==
  ASSUME NEW M \in ModuleTables, NEW m \in Modules, NEW status \in Statuses, NEW c \in Calls
  PROVE  LET N == Entered(M, m, status, c) IN
         /\ N \in ModuleTables
         /\ N[m].status = status /\ N[m].dfs = c.index /\ N[m].anc = c.index
         /\ \A x \in Modules : x # m => N[x] = M[x]
         /\ \A x \in Modules :
              /\ N[x].root = M[x].root /\ N[x].pending = M[x].pending /\ N[x].async = M[x].async
              /\ N[x].stamp = M[x].stamp /\ N[x].parents = M[x].parents
              /\ N[x].error = M[x].error /\ N[x].promise = M[x].promise
<1> DEFINE N == Entered(M, m, status, c)
           r == [[[M[m] EXCEPT !.status = status] EXCEPT !.dfs = c.index] EXCEPT !.anc = c.index]
<1>1. M \in [Modules -> ModuleFields] /\ M[m] \in ModuleFields /\ c.index \in Nat
  BY FieldTypes, CallTypes DEF ModuleTables
<1>2. /\ r \in ModuleFields /\ r.status = status /\ r.dfs = c.index /\ r.anc = c.index
      /\ r.root = M[m].root /\ r.pending = M[m].pending /\ r.async = M[m].async
      /\ r.stamp = M[m].stamp /\ r.parents = M[m].parents
      /\ r.error = M[m].error /\ r.promise = M[m].promise
  BY <1>1 DEF ModuleFields
<1>3. N = [M EXCEPT ![m] = r] BY <1>1 DEF Entered
<1> HIDE DEF N, r
<1>4. N \in ModuleTables /\ N[m] = r /\ \A x \in Modules : x # m => N[x] = M[x]
  BY <1>1, <1>2, <1>3 DEF ModuleTables
<1>5. \A x \in Modules :
              /\ N[x].root = M[x].root /\ N[x].pending = M[x].pending /\ N[x].async = M[x].async
              /\ N[x].stamp = M[x].stamp /\ N[x].parents = M[x].parents
              /\ N[x].error = M[x].error /\ N[x].promise = M[x].promise
  BY <1>2, <1>4
<1> QED BY <1>2, <1>4, <1>5 DEF N

\* The fields of the modules after a promise was made.
LEMMA PromiseFields ==
  ASSUME NEW M \in ModuleTables, NEW m \in Modules, NEW v \in Promises
  PROVE  LET N == [M EXCEPT ![m].promise = v] IN
         /\ N \in ModuleTables /\ N[m].promise = v
         /\ \A x \in Modules : x # m => N[x] = M[x]
         /\ \A x \in Modules :
              /\ N[x].status = M[x].status /\ N[x].dfs = M[x].dfs /\ N[x].anc = M[x].anc
              /\ N[x].root = M[x].root /\ N[x].pending = M[x].pending /\ N[x].async = M[x].async
              /\ N[x].stamp = M[x].stamp /\ N[x].parents = M[x].parents /\ N[x].error = M[x].error
<1> DEFINE N == [M EXCEPT ![m].promise = v]
           r == [M[m] EXCEPT !.promise = v]
<1>1. M \in [Modules -> ModuleFields] /\ M[m] \in ModuleFields BY FieldTypes DEF ModuleTables
<1>2. /\ r \in ModuleFields /\ r.promise = v /\ r.status = M[m].status /\ r.dfs = M[m].dfs
      /\ r.anc = M[m].anc
      /\ r.root = M[m].root /\ r.pending = M[m].pending /\ r.async = M[m].async
      /\ r.stamp = M[m].stamp /\ r.parents = M[m].parents /\ r.error = M[m].error
  BY <1>1 DEF ModuleFields, Promises
<1>3. N = [M EXCEPT ![m] = r] BY <1>1
<1> HIDE DEF N, r
<1>4. N \in ModuleTables /\ N[m] = r /\ \A x \in Modules : x # m => N[x] = M[x]
  BY <1>1, <1>2, <1>3 DEF ModuleTables
<1>5. \A x \in Modules :
              /\ N[x].status = M[x].status /\ N[x].dfs = M[x].dfs /\ N[x].anc = M[x].anc
              /\ N[x].root = M[x].root /\ N[x].pending = M[x].pending /\ N[x].async = M[x].async
              /\ N[x].stamp = M[x].stamp /\ N[x].parents = M[x].parents /\ N[x].error = M[x].error
  BY <1>2, <1>4
<1> QED BY <1>2, <1>4, <1>5 DEF N

\* The fields of the modules after a child returned its anc.
LEMMA AncFields ==
  ASSUME NEW M \in ModuleTables, NEW m \in Modules, NEW a \in Nat
  PROVE  LET N == [M EXCEPT ![m].anc = Min2(@, a)] IN
         /\ N \in ModuleTables /\ N[m].anc = Min2(M[m].anc, a)
         /\ \A x \in Modules : x # m => N[x] = M[x]
         /\ \A x \in Modules :
              /\ N[x].status = M[x].status /\ N[x].dfs = M[x].dfs
              /\ N[x].root = M[x].root /\ N[x].pending = M[x].pending /\ N[x].async = M[x].async
              /\ N[x].stamp = M[x].stamp /\ N[x].parents = M[x].parents
              /\ N[x].error = M[x].error /\ N[x].promise = M[x].promise
<1> DEFINE N == [M EXCEPT ![m].anc = Min2(@, a)]
           v == Min2(M[m].anc, a)
           r == [M[m] EXCEPT !.anc = v]
<1>1. M \in [Modules -> ModuleFields] /\ M[m] \in ModuleFields BY FieldTypes DEF ModuleTables
<1>0. v \in Nat BY <1>1 DEF ModuleFields, Min2
<1>3. N = [M EXCEPT ![m] = r] BY <1>1
<1> HIDE DEF v
<1>2. /\ r \in ModuleFields /\ r.anc = v /\ r.status = M[m].status /\ r.dfs = M[m].dfs
      /\ r.root = M[m].root /\ r.pending = M[m].pending /\ r.async = M[m].async
      /\ r.stamp = M[m].stamp /\ r.parents = M[m].parents
      /\ r.error = M[m].error /\ r.promise = M[m].promise
  BY <1>0, <1>1 DEF ModuleFields
<1> HIDE DEF N, r
<1>4. N \in ModuleTables /\ N[m] = r /\ \A x \in Modules : x # m => N[x] = M[x]
  BY <1>1, <1>2, <1>3 DEF ModuleTables
<1>5. \A x \in Modules :
              /\ N[x].status = M[x].status /\ N[x].dfs = M[x].dfs
              /\ N[x].root = M[x].root /\ N[x].pending = M[x].pending /\ N[x].async = M[x].async
              /\ N[x].stamp = M[x].stamp /\ N[x].parents = M[x].parents
              /\ N[x].error = M[x].error /\ N[x].promise = M[x].promise
  BY <1>2, <1>4
<1> QED BY <1>2, <1>4, <1>5 DEF N, v

\* The fields of the modules after a set of them changed its status.
LEMMA StatusFields ==
  ASSUME NEW M \in ModuleTables, NEW K, NEW status \in Statuses
  PROVE  LET N == StatusSet(M, K, status) IN
         /\ N \in ModuleTables
         /\ \A x \in Modules : N[x].status = IF x \in K THEN status ELSE M[x].status
         /\ \A x \in Modules :
              /\ N[x].dfs = M[x].dfs /\ N[x].anc = M[x].anc
              /\ N[x].root = M[x].root /\ N[x].pending = M[x].pending /\ N[x].async = M[x].async
              /\ N[x].stamp = M[x].stamp /\ N[x].parents = M[x].parents
              /\ N[x].error = M[x].error /\ N[x].promise = M[x].promise
<1> DEFINE r(x) == IF x \in K THEN [M[x] EXCEPT !.status = status] ELSE M[x]
           N == StatusSet(M, K, status)
<1>0. N = [x \in Modules |-> r(x)] BY DEF StatusSet
<1>1. ASSUME NEW x \in Modules
      PROVE  /\ r(x) \in ModuleFields
             /\ r(x).status = IF x \in K THEN status ELSE M[x].status
             /\ r(x).dfs = M[x].dfs /\ r(x).anc = M[x].anc
             /\ r(x).root = M[x].root /\ r(x).pending = M[x].pending /\ r(x).async = M[x].async
             /\ r(x).stamp = M[x].stamp /\ r(x).parents = M[x].parents
             /\ r(x).error = M[x].error /\ r(x).promise = M[x].promise
  <2>1. M[x] \in ModuleFields BY FieldTypes
  <2> QED BY <2>1 DEF ModuleFields
<1> HIDE DEF r, N
<1>2. N \in ModuleTables /\ \A x \in Modules : N[x] = r(x) BY <1>0, <1>1 DEF ModuleTables
<1>3. /\ N \in ModuleTables
      /\ \A x \in Modules : N[x].status = IF x \in K THEN status ELSE M[x].status
      /\ \A x \in Modules :
              /\ N[x].dfs = M[x].dfs /\ N[x].anc = M[x].anc
              /\ N[x].root = M[x].root /\ N[x].pending = M[x].pending /\ N[x].async = M[x].async
              /\ N[x].stamp = M[x].stamp /\ N[x].parents = M[x].parents
              /\ N[x].error = M[x].error /\ N[x].promise = M[x].promise
  BY <1>1, <1>2
<1> QED BY <1>3 DEF N, r

-----------------------------------------------------------------------------
(* The shape of the state after a step *)

\* The calls after the one in progress was replaced.
LEMMA CallsTyped ==
  ASSUME Shaped, calls # <<>>, NEW c \in Calls
  PROVE  Replace(c) => /\ calls' # <<>> /\ C1' = c /\ Len(calls') <= 1 /\ calls' \in Seq(Calls)
                       /\ \A op : Doing(op)' <=> c.op = op
<1>1. <<c>> \in Seq(Calls) /\ <<c>> # <<>> /\ <<c>>[1] = c /\ Len(<<c>>) <= 1 OBVIOUS
<1> QED BY <1>1, OneCall DEF Replace, C1, Doing

\* A step that ends in a traversal, or between calls.
LEMMA ShapedNext ==
  ASSUME Shaped, Kept, mod' \in ModuleTables, body' \in [Modules -> Bodies],
         jobs' \in Seq(Reports), clock' \in Nat,
         calls' = <<>> \/ (/\ calls' \in Seq(Calls) /\ Len(calls') <= 1
                           /\ C1'.op # "exec" /\ C1'.todo = <<>>)
  PROVE  Shaped'
<1>1. CASE calls' = <<>> BY <1>1 DEF Shaped, Kept, Doing
<1>2. CASE calls' # <<>> BY <1>2 DEF Shaped, Kept, Doing
<1> QED BY <1>1, <1>2

\* A traversal that is through satisfies its invariant.
LEMMA EmptyWalk ==
  ASSUME NEW M \in ModuleTables, NEW c \in Calls, NEW st, NEW settled,
         c.frames = <<>>, c.stack = <<>>, \A x \in Modules : M[x].status # st
  PROVE  Walk(M, c, st, settled)
<1>1. On(c) = {} /\ Len(c.frames) = 0 /\ Len(c.stack) = 0 BY CallTypes
<1>2. Deep(c) = {} /\ 1..Len(c.stack) = {} BY <1>1 DEF Deep
<1> QED BY <1>1, <1>2 DEF Walk, StackInv, FramesInv, AncInv, PathInv, LowInv, SeenInv

\* The first module entered closes its cycle.
LEMMA FirstIsRoot ==
  ASSUME NEW M \in ModuleTables, NEW c \in Calls, NEW st, NEW settled,
         Walk(M, c, st, settled), Len(c.frames) = 1
  PROVE  Top(c) = c.root /\ IsRoot(M, Top(c)) /\ Below(c.stack, Top(c)) = <<>>
<1>1. c.frames # <<>> /\ 1 \in Deep(c)
  <2>1. Deep(c) = 1..1 BY DEF Deep
  <2>2. c.frames = <<>> <=> Len(c.frames) = 0 BY CallTypes
  <2> QED BY <2>1, <2>2
<1>2. Top(c) = c.root /\ c.root \in On(c) /\ \A x \in On(c) : M[c.root].dfs <= M[x].dfs
  BY <1>1 DEF Walk, FramesInv, Top
<1>3. PICK y \in On(c) : M[y].dfs = M[c.root].anc /\ M[c.root].anc <= M[c.root].dfs
  BY <1>2 DEF Walk, AncInv
<1>4. y \in Modules /\ c.root \in Modules /\ M[y].dfs \in Nat /\ M[c.root].dfs \in Nat
  BY CallTypes, FieldTypes
<1>5. M[c.root].anc = M[c.root].dfs BY <1>2, <1>3, <1>4
<1>6. StackInv(M, c, st) BY DEF Walk
<1>7. /\ Below(c.stack, c.root) \in Seq(Modules)
      /\ ToSet(Below(c.stack, c.root)) = {x \in On(c) : M[x].dfs < M[c.root].dfs}
  BY <1>2, <1>6, CycleByNumber
<1>8. \A x \in On(c) : M[x].dfs \in Nat BY CallTypes, FieldTypes
<1>9. ToSet(Below(c.stack, c.root)) = {} BY <1>2, <1>4, <1>7, <1>8
<1>10. \A s \in Seq(Modules) : ToSet(s) = {} => s = <<>>
  <2> TAKE s \in Seq(Modules)
  <2>1. s # <<>> => 1 \in DOMAIN s OBVIOUS
  <2> QED BY <2>1 DEF ToSet
<1> QED BY <1>2, <1>5, <1>7, <1>9, <1>10 DEF IsRoot

-----------------------------------------------------------------------------
(* Linking *)

\* WalkInv in the state after a step of a linking.
LEMMA LinkWalkNext ==
  ASSUME Kept, Doing("link")', Walk(mod', C1', "linking", LinkSettled),
         mod'[C1'.root].status \in LinkSettled \cup {"linking"},
         \A x \in Modules : mod'[x].status # "evaluating",
         \A x \in Modules : mod'[x].status \in Linked => \A d \in Imports(x) : mod'[d].status \in Linked
  PROVE  WalkInv'
<1>1. Walk(mod, C1, "linking", LinkSettled)' BY WalkKept
<1>2. ~Doing("eval")' BY DEF Doing
<1>3. \A x : Imports(x)' = Imports(x) BY NeedsKept
<1>4. LinkWalk' /\ EvalWalk' BY <1>1, <1>2 DEF LinkWalk, EvalWalk
<1>5. IdleInv' /\ LinkedInv' BY <1>3 DEF IdleInv, LinkedInv
<1> QED BY <1>4, <1>5 DEF WalkInv

\* WalkInv in the state after a step that leaves no traversal.
LEMMA IdleWalkNext ==
  ASSUME Kept, ~Doing("link")', ~Doing("eval")',
         \A x \in Modules : mod'[x].status \notin {"linking", "evaluating"},
         \A x \in Modules : mod'[x].status \in Linked => \A d \in Imports(x) : mod'[d].status \in Linked
  PROVE  WalkInv'
<1>1. \A x : Imports(x)' = Imports(x) BY NeedsKept
<1> QED BY <1>1 DEF WalkInv, LinkWalk, EvalWalk, IdleInv, LinkedInv

\* Evaluate has the effect LinkEff.
LEMMA EvaluateStep ==
  ASSUME IInv, Reentry = FALSE, NEW m \in Modules, Evaluate(m)
  PROVE  Shaped' /\ WalkInv' /\ asserts' /\ LinkEff
<1>1. Shaped /\ WalkInv /\ asserts BY DEF IInv
<1>2. Kept /\ body' = body /\ jobs' = jobs /\ clock' = clock /\ calls = <<>>
  BY DEF Evaluate, Kept, code
<1>3. mod \in ModuleTables /\ body \in [Modules -> Bodies] /\ jobs \in Seq(Reports) /\ clock \in Nat
  BY <1>1 DEF Shaped
<1>4. \A op : ~Doing(op) BY <1>2 DEF Doing
<1>5. \A x \in Modules : mod[x].status \notin {"linking", "evaluating"}
  BY <1>1, <1>4 DEF WalkInv, IdleInv
<1>6. \A x \in Modules : mod[x].status \in Statuses BY <1>1, ModTypes
<1>7. asserts' BY <1>1, <1>5, <1>6 DEF Evaluate, LinkSettled, Statuses
<1> DEFINE call == Call("link", m, <<>>)
<1>8. /\ call \in Calls /\ call.op = "link" /\ call.root = m /\ call.frames = <<>> /\ call.stack = <<>>
      /\ call.index = 0 /\ call.todo = <<>>
  BY NewCall
<1> HIDE DEF call
<1>9. \A c \in Calls : calls' = Append(calls, c) =>
        /\ calls' \in Seq(Calls) /\ Len(calls') <= 1 /\ calls' # <<>> /\ C1' = c
        /\ \A op : Doing(op)' <=> c.op = op
  <2>1. \A c \in Calls : Append(<<>>, c) \in Seq(Calls) /\ Len(Append(<<>>, c)) <= 1
                          /\ Append(<<>>, c) # <<>> /\ Append(<<>>, c)[1] = c
    OBVIOUS
  <2> QED BY <1>2, <2>1 DEF C1, Doing
<1>10. CASE mod[m].status = "unlinked"
  <2> DEFINE c == Enter(call, m)
  <2>1. calls' = Append(calls, c) /\ mod' = Entered(mod, m, "linking", call)
    BY <1>10 DEF Evaluate, call
  <2>2. /\ c \in Calls /\ c.op = "link" /\ c.root = m /\ c.todo = <<>>
        /\ c.frames = Append(call.frames, [m |-> m, next |-> 1]) /\ c.stack = Append(call.stack, m)
        /\ c.index = call.index + 1
    BY <1>8, EnterFields
  <2> HIDE DEF c
  <2>3. /\ calls' \in Seq(Calls) /\ Len(calls') <= 1 /\ calls' # <<>> /\ C1' = c
        /\ \A op : Doing(op)' <=> c.op = op
    BY <1>9, <2>1, <2>2
  <2>4. /\ mod' \in ModuleTables
        /\ mod'[m].status = "linking" /\ mod'[m].dfs = call.index /\ mod'[m].anc = call.index
        /\ \A x \in Modules : x # m => mod'[x] = mod[x]
        /\ \A x \in Modules :
              /\ mod'[x].root = mod[x].root /\ mod'[x].pending = mod[x].pending
              /\ mod'[x].async = mod[x].async
              /\ mod'[x].stamp = mod[x].stamp /\ mod'[x].parents = mod[x].parents
              /\ mod'[x].error = mod[x].error /\ mod'[x].promise = mod[x].promise
    <3>1. "linking" \in Statuses /\ mod \in ModuleTables /\ call \in Calls
      BY <1>3, <1>8 DEF Statuses
    <3>2. mod' = Entered(mod, m, "linking", call) BY <2>1
    <3> QED BY <3>1, <3>2, EnteredFields
  <2>5. Shaped' BY <1>1, <1>2, <1>3, <2>2, <2>3, <2>4, ShapedNext
  <2>6. Walk(mod', C1', "linking", LinkSettled)
    <3>1. Len(call.frames) = 0 /\ Len(call.stack) = 0 BY <1>8
    <3>2. \A x \in Modules : x # m => mod'[x].status # "linking" BY <1>5, <2>4
    <3>3. ImportsTyped BY <1>1, Typed
    <3>4. Walk(mod', c, "linking", LinkSettled) BY <1>8, <2>2, <2>4, <3>1, <3>2, <3>3, StartWalk
    <3> QED BY <2>3, <3>4
  <2>7. WalkInv'
    <3>1. mod'[C1'.root].status = "linking" /\ Doing("link")' BY <2>2, <2>3, <2>4
    <3>2. \A x \in Modules : mod'[x].status \in Linked <=> mod[x].status \in Linked
      BY <1>10, <2>4 DEF Linked
    <3>3. \A x \in Modules : Imports(x) \subseteq Modules BY <1>1, Typed, ImportTypes
    <3>4. \A x \in Modules : mod'[x].status \in Linked => \A d \in Imports(x) : mod'[d].status \in Linked
      BY <1>1, <3>2, <3>3 DEF WalkInv, LinkedInv
    <3>5. \A x \in Modules : mod'[x].status # "evaluating" BY <1>5, <2>4
    <3> QED BY <1>2, <2>6, <3>1, <3>4, <3>5, LinkWalkNext
  <2>8. LinkEff
    <3>1. \A x \in Modules :
       /\ mod[x].status \in Ended => mod'[x].status = mod[x].status /\ mod'[x].dfs = mod[x].dfs
       /\ mod[x].status \notin Ended => mod'[x].status \notin Ended \cup {"evaluating"}
      BY <1>5, <1>10, <2>4 DEF Ended
    <3> QED BY <1>2, <1>4, <2>2, <2>3, <2>4, <3>1 DEF LinkEff
  <2> QED BY <1>7, <2>5, <2>7, <2>8
<1>11. CASE mod[m].status # "unlinked"
  <2>1. calls' = Append(calls, call) /\ mod' = mod BY <1>11 DEF Evaluate, call
  <2>3. /\ calls' \in Seq(Calls) /\ Len(calls') <= 1 /\ calls' # <<>> /\ C1' = call
        /\ \A op : Doing(op)' <=> call.op = op
    BY <1>8, <1>9, <2>1
  <2>5. Shaped' BY <1>1, <1>2, <1>3, <1>8, <2>1, <2>3, ShapedNext
  <2>6. Walk(mod', C1', "linking", LinkSettled)
    <3>1. Walk(mod, call, "linking", LinkSettled) BY <1>3, <1>5, <1>8, EmptyWalk
    <3> QED BY <2>1, <2>3, <3>1
  <2>7. WalkInv'
    <3>1. mod'[C1'.root].status \in LinkSettled /\ Doing("link")'
      BY <1>5, <1>6, <1>8, <1>11, <2>1, <2>3 DEF LinkSettled, Statuses
    <3>4. \A x \in Modules : mod'[x].status \in Linked => \A d \in Imports(x) : mod'[d].status \in Linked
      BY <1>1, <2>1 DEF WalkInv, LinkedInv
    <3>5. \A x \in Modules : mod'[x].status # "evaluating" BY <1>5, <2>1
    <3> QED BY <1>2, <2>6, <3>1, <3>4, <3>5, LinkWalkNext
  <2>8. LinkEff BY <1>2, <1>4, <1>5, <1>8, <2>1, <2>3 DEF LinkEff, Ended
  <2> QED BY <1>7, <2>5, <2>7, <2>8
<1> QED BY <1>10, <1>11

\* LinkVisits has the effect LinkEff.
LEMMA LinkVisitsStep ==
  ASSUME IInv, LinkVisits
  PROVE  Shaped' /\ WalkInv' /\ asserts' /\ LinkEff
<1>1. Shaped /\ WalkInv /\ asserts /\ ImportsTyped /\ AtChild("link")
  BY Typed DEF IInv, LinkVisits
<1>2. Kept /\ body' = body /\ jobs' = jobs /\ clock' = clock BY DEF LinkVisits, Kept, code
<1>3. mod \in ModuleTables /\ body \in [Modules -> Bodies] /\ jobs \in Seq(Reports) /\ clock \in Nat
  BY <1>1 DEF Shaped
<1> DEFINE d == Child
           t == Top(C1)
<1>4. /\ calls # <<>> /\ Doing("link") /\ C1 \in Calls /\ C1.frames # <<>> /\ frame.m = t
      /\ d \in Modules /\ Looks(C1, d) /\ d \in Imports(t) /\ top = C1
  BY <1>1, ChildSeen
<1>5. ~Doing("eval") /\ ~Doing("exec") /\ C1.op = "link" /\ C1.todo = <<>>
  BY <1>1, <1>4 DEF Doing, Shaped
<1>6. \A x \in Modules : mod[x].status # "evaluating" /\ mod[x].status \in Statuses
  BY <1>1, <1>5, ModTypes DEF WalkInv, IdleInv
<1>7. /\ Walk(mod, C1, "linking", LinkSettled) /\ mod[C1.root].status \in LinkSettled \cup {"linking"}
      /\ C1.root \in Modules /\ t \in Modules
  BY <1>1, <1>4, TopFrame, CallTypes DEF WalkInv, LinkWalk
<1>8. \A x \in Modules : mod[x].status \in Linked => \A e \in Imports(x) : mod[e].status \in Linked
  BY <1>1 DEF WalkInv, LinkedInv
<1>9. \A x \in Modules : Imports(x) \subseteq Modules BY <1>1, ImportTypes
<1>10. CASE mod[d].status \in LinkSettled \cup {"linking"}
  <2> DEFINE c == NextChild
  <2>1. Replace(c) /\ asserts' = asserts BY <1>10 DEF LinkVisits
  <2>2. GoesOn(C1, c) BY <1>4, NextCall DEF NextChild
  <2>3. c \in Calls /\ c.op = "link" /\ c.todo = <<>> /\ c.root = C1.root BY <1>5, <2>2 DEF GoesOn
  <2> HIDE DEF c
  <2>4. /\ calls' # <<>> /\ C1' = c /\ Len(calls') <= 1 /\ calls' \in Seq(Calls)
        /\ \A op : Doing(op)' <=> c.op = op
    BY <1>1, <1>4, <2>1, <2>3, CallsTyped
  <2>5. mod' = IF mod[d].status = "linking" THEN [mod EXCEPT ![t].anc = Min2(@, mod[d].anc)] ELSE mod
    BY <1>4, <1>10 DEF LinkVisits
  <2>6. /\ mod' \in ModuleTables
        /\ \A x \in Modules : x # t => mod'[x].anc = mod[x].anc
        /\ mod'[t].anc = IF mod[d].status = "linking" THEN Min2(mod[t].anc, mod[d].anc) ELSE mod[t].anc
        /\ \A x \in Modules :
              /\ mod'[x].status = mod[x].status /\ mod'[x].dfs = mod[x].dfs
              /\ mod'[x].root = mod[x].root /\ mod'[x].pending = mod[x].pending /\ mod'[x].async = mod[x].async
              /\ mod'[x].stamp = mod[x].stamp /\ mod'[x].parents = mod[x].parents
              /\ mod'[x].error = mod[x].error /\ mod'[x].promise = mod[x].promise
    <3>1. CASE mod[d].status = "linking"
      <4>1. mod[d].anc \in Nat BY <1>1, <1>4, ModTypes
      <4>2. mod' = [mod EXCEPT ![t].anc = Min2(@, mod[d].anc)] BY <2>5, <3>1
      <4> DEFINE a == mod[d].anc
                 N == [mod EXCEPT ![t].anc = Min2(@, a)]
      <4> HIDE DEF d, t, a
      <4>3. a \in Nat /\ t \in Modules /\ mod \in ModuleTables BY <1>3, <1>7, <4>1 DEF a
      <4>4. /\ N \in ModuleTables /\ N[t].anc = Min2(mod[t].anc, a)
            /\ \A x \in Modules : x # t => N[x] = mod[x]
            /\ \A x \in Modules :
              /\ N[x].status = mod[x].status /\ N[x].dfs = mod[x].dfs
              /\ N[x].root = mod[x].root /\ N[x].pending = mod[x].pending /\ N[x].async = mod[x].async
              /\ N[x].stamp = mod[x].stamp /\ N[x].parents = mod[x].parents
              /\ N[x].error = mod[x].error /\ N[x].promise = mod[x].promise
        BY <4>3, AncFields
      <4>5. mod' = N BY <4>2 DEF a
      <4> HIDE DEF N
      <4> QED BY <3>1, <4>4, <4>5 DEF a
    <3>2. CASE mod[d].status # "linking" BY <1>3, <2>5, <3>2
    <3> QED BY <3>1, <3>2
  <2>7. Shaped' BY <1>1, <1>2, <1>3, <2>3, <2>4, <2>6, ShapedNext
  <2>8. Walk(mod', C1', "linking", LinkSettled)
    <3>1. mod[d].status = "linking" \/ mod[d].status \in LinkSettled BY <1>10
    <3> HIDE DEF d
    <3>2. Walk(mod', c, "linking", LinkSettled)
      BY <1>1, <1>3, <1>4, <1>7, <2>2, <2>3, <2>6, <3>1, VisitWalk DEF Top
    <3> QED BY <2>4, <3>2
  <2>9. WalkInv'
    <3>1. \A x \in Modules : mod'[x].status \in Linked => \A e \in Imports(x) : mod'[e].status \in Linked
      BY <1>8, <1>9, <2>6
    <3>2. \A x \in Modules : mod'[x].status # "evaluating" BY <1>6, <2>6
    <3>3. mod'[C1'.root].status \in LinkSettled \cup {"linking"} /\ Doing("link")'
      BY <1>7, <2>3, <2>4, <2>6
    <3> QED BY <1>2, <2>8, <3>1, <3>2, <3>3, LinkWalkNext
  <2>10. LinkEff BY <1>2, <1>5, <1>6, <2>3, <2>4, <2>6 DEF LinkEff
  <2> QED BY <1>1, <2>1, <2>7, <2>9, <2>10
<1>11. CASE mod[d].status \notin LinkSettled \cup {"linking"}
  <2> DEFINE c == Enter(C1, d)
  <2>1. Replace(c) /\ mod' = Entered(mod, d, "linking", C1) /\ asserts' = (asserts /\ mod[d].status = "unlinked")
    BY <1>4, <1>11 DEF LinkVisits
  <2>2. mod[d].status = "unlinked" BY <1>4, <1>6, <1>11 DEF LinkSettled, Statuses
  <2>3. /\ c \in Calls /\ c.op = "link" /\ c.root = C1.root /\ c.todo = <<>>
        /\ c.frames = Append(C1.frames, [m |-> d, next |-> 1]) /\ c.stack = Append(C1.stack, d)
        /\ c.index = C1.index + 1
    BY <1>4, <1>5, EnterFields
  <2> HIDE DEF c, d
  <2>4. /\ calls' # <<>> /\ C1' = c /\ Len(calls') <= 1 /\ calls' \in Seq(Calls)
        /\ \A op : Doing(op)' <=> c.op = op
    BY <1>1, <1>4, <2>1, <2>3, CallsTyped
  <2>6. /\ mod' \in ModuleTables
        /\ mod'[d].status = "linking" /\ mod'[d].dfs = C1.index /\ mod'[d].anc = C1.index
        /\ \A x \in Modules : x # d => mod'[x] = mod[x]
        /\ \A x \in Modules :
              /\ mod'[x].root = mod[x].root /\ mod'[x].pending = mod[x].pending
              /\ mod'[x].async = mod[x].async
              /\ mod'[x].stamp = mod[x].stamp /\ mod'[x].parents = mod[x].parents
              /\ mod'[x].error = mod[x].error /\ mod'[x].promise = mod[x].promise
    <3>1. "linking" \in Statuses BY DEF Statuses
    <3>2. mod' = Entered(mod, d, "linking", C1) BY <2>1
    <3> QED BY <1>3, <1>4, <3>1, <3>2, EnteredFields
  <2>7. Shaped' BY <1>1, <1>2, <1>3, <2>3, <2>4, <2>6, ShapedNext
  <2>8. Walk(mod', C1', "linking", LinkSettled)
    <3>1. \A x \in Modules : x # d => SameWalk(mod, mod', x) BY <2>6 DEF SameWalk
    <3>2. mod[d].status # "linking" /\ mod[d].status \notin LinkSettled BY <1>11 DEF d
    <3>3. Walk(mod', c, "linking", LinkSettled)
      BY <1>1, <1>3, <1>4, <1>7, <2>3, <2>6, <3>1, <3>2, EnterWalk
    <3> QED BY <2>4, <3>3
  <2>9. WalkInv'
    <3>1. \A x \in Modules : mod'[x].status \in Linked <=> mod[x].status \in Linked
      BY <2>2, <2>6 DEF Linked
    <3>2. \A x \in Modules : mod'[x].status \in Linked => \A e \in Imports(x) : mod'[e].status \in Linked
      BY <1>8, <1>9, <3>1
    <3>3. \A x \in Modules : mod'[x].status # "evaluating" BY <1>6, <2>6
    <3>4. mod'[C1'.root].status \in LinkSettled \cup {"linking"} /\ Doing("link")'
      BY <1>7, <2>3, <2>4, <2>6
    <3> QED BY <1>2, <2>8, <3>2, <3>3, <3>4, LinkWalkNext
  <2>10. LinkEff
    <3>1. \A x \in Modules :
       /\ mod[x].status \in Ended => mod'[x].status = mod[x].status /\ mod'[x].dfs = mod[x].dfs
       /\ mod[x].status \notin Ended => mod'[x].status \notin Ended \cup {"evaluating"}
      BY <1>6, <2>2, <2>6 DEF Ended
    <3> QED BY <1>2, <1>5, <2>3, <2>4, <2>6, <3>1 DEF LinkEff
  <2> QED BY <1>1, <2>1, <2>2, <2>7, <2>9, <2>10
<1> QED BY <1>10, <1>11

\* LinkEnds has the effect LinkEff.
LEMMA LinkEndsStep ==
  ASSUME IInv, LinkEnds
  PROVE  Shaped' /\ WalkInv' /\ asserts' /\ LinkEff
<1>1. Shaped /\ WalkInv /\ asserts /\ ImportsTyped /\ AtEnd("link") BY Typed DEF IInv, LinkEnds
<1>2. Kept /\ body' = body /\ jobs' = jobs /\ clock' = clock BY DEF LinkEnds, Kept, code
<1>3. mod \in ModuleTables /\ body \in [Modules -> Bodies] /\ jobs \in Seq(Reports) /\ clock \in Nat
  BY <1>1 DEF Shaped
<1> DEFINE t == Top(C1)
           K == Cycle(C1.stack, t)
<1>4. /\ calls # <<>> /\ Doing("link") /\ C1 \in Calls /\ C1.frames # <<>> /\ frame.m = t
      /\ t \in Modules /\ AtTheEnd(C1) /\ top = C1
  BY <1>1, EndSeen
<1>5. ~Doing("eval") /\ ~Doing("exec") /\ C1.op = "link" /\ C1.todo = <<>>
  BY <1>1, <1>4 DEF Doing, Shaped
<1>6. \A x \in Modules : mod[x].status # "evaluating" /\ mod[x].status \in Statuses
  BY <1>1, <1>5, ModTypes DEF WalkInv, IdleInv
<1>7. /\ Walk(mod, C1, "linking", LinkSettled) /\ mod[C1.root].status \in LinkSettled \cup {"linking"}
      /\ C1.root \in Modules /\ t \in On(C1)
  BY <1>1, <1>4, TopNext, CallTypes DEF WalkInv, LinkWalk
<1>8. \A x \in Modules : mod[x].status \in Linked => \A e \in Imports(x) : mod[e].status \in Linked
  BY <1>1 DEF WalkInv, LinkedInv
<1>9. \A x \in Modules : Imports(x) \subseteq Modules BY <1>1, ImportTypes
<1>10. asserts' BY <1>1, <1>4, <1>7 DEF LinkEnds, Walk, AncInv
<1>11. \A x \in Modules : mod[x].status = "linking" <=> x \in On(C1) BY <1>7 DEF Walk, StackInv
<1>12. CASE IsRoot(mod, t)
  <2> DEFINE s == Below(C1.stack, t)
             c == [[C1 EXCEPT !.stack = s] EXCEPT !.frames = Front(@)]
  <2>1. StackInv(mod, C1, "linking") BY <1>7 DEF Walk
  <2>2. s \in Seq(Modules) /\ K = {x \in On(C1) : mod[t].dfs <= mod[x].dfs}
    BY <1>3, <1>4, <1>7, <2>1, CycleByNumber
  <2>3. Replace(c) /\ mod' = [x \in Modules |-> IF x \in K THEN [mod[x] EXCEPT !.status = "linked"] ELSE mod[x]]
    BY <1>4, <1>12 DEF LinkEnds, Leave
  <2> HIDE DEF s, K
  <2>4. Pops(C1, c) /\ c.stack = s BY <1>4, <2>2, PopCall
  <2> HIDE DEF c
  <2>5. c \in Calls /\ c.op = "link" /\ c.todo = <<>> /\ c.root = C1.root BY <1>5, <2>4 DEF Pops
  <2>6. /\ calls' # <<>> /\ C1' = c /\ Len(calls') <= 1 /\ calls' \in Seq(Calls)
        /\ \A op : Doing(op)' <=> c.op = op
    BY <1>1, <1>4, <2>3, <2>5, CallsTyped
  <2>7. /\ mod' \in ModuleTables
        /\ \A x \in Modules : mod'[x].status = IF x \in K THEN "linked" ELSE mod[x].status
        /\ \A x \in Modules :
             /\ mod'[x].dfs = mod[x].dfs /\ mod'[x].anc = mod[x].anc
             /\ mod'[x].root = mod[x].root /\ mod'[x].pending = mod[x].pending /\ mod'[x].async = mod[x].async
             /\ mod'[x].stamp = mod[x].stamp /\ mod'[x].parents = mod[x].parents
             /\ mod'[x].error = mod[x].error /\ mod'[x].promise = mod[x].promise
    <3> DEFINE N == StatusSet(mod, K, "linked")
    <3>1. "linked" \in Statuses /\ mod \in ModuleTables BY <1>3 DEF Statuses
    <3>2. /\ N \in ModuleTables
          /\ \A x \in Modules : N[x].status = IF x \in K THEN "linked" ELSE mod[x].status
          /\ \A x \in Modules :
               /\ N[x].dfs = mod[x].dfs /\ N[x].anc = mod[x].anc
               /\ N[x].root = mod[x].root /\ N[x].pending = mod[x].pending /\ N[x].async = mod[x].async
               /\ N[x].stamp = mod[x].stamp /\ N[x].parents = mod[x].parents
               /\ N[x].error = mod[x].error /\ N[x].promise = mod[x].promise
      BY <3>1, StatusFields
    <3>3. mod' = N BY <2>3 DEF StatusSet
    <3> HIDE DEF N
    <3> QED BY <3>2, <3>3
  <2>8. Shaped' BY <1>1, <1>2, <1>3, <2>5, <2>6, <2>7, ShapedNext
  <2>9. Walk(mod', C1', "linking", LinkSettled)
    <3>1. "linking" \notin LinkSettled /\ "linked" \in LinkSettled BY DEF LinkSettled
    <3>2. K \subseteq Modules BY <1>4, <2>2, CallTypes
    <3>3. Walk(mod', c, "linking", LinkSettled)
      <4> DEFINE u == At(C1, Len(C1.frames))
      <4>1. /\ Walk(mod, C1, "linking", LinkSettled) /\ C1 \in Calls /\ mod \in ModuleTables
            /\ c \in Calls /\ mod' \in ModuleTables
        BY <1>3, <1>4, <1>7, <2>5, <2>7
      <4>2. AtTheEnd(C1) /\ IsRoot(mod, u) /\ c.stack = Below(C1.stack, u)
        BY <1>4, <1>12, <2>4 DEF Top, s
      <4>3. /\ \A x \in Cycle(C1.stack, u) : mod'[x].status \in LinkSettled
            /\ \A x \in Modules \ Cycle(C1.stack, u) : mod'[x].status = mod[x].status
            /\ \A x \in Modules : mod'[x].dfs = mod[x].dfs /\ mod'[x].anc = mod[x].anc
        <5>1. K = Cycle(C1.stack, u) BY DEF K, Top
        <5> QED BY <2>7, <3>1, <3>2, <5>1
      <4> QED BY <1>1, <2>4, <3>1, <4>1, <4>2, <4>3, CloseWalk
    <3> QED BY <2>6, <3>3
  <2>10. WalkInv'
    <3>1. ASSUME NEW x \in Modules, mod'[x].status \in Linked, NEW e \in Imports(x)
          PROVE  mod'[e].status \in Linked
      <4>1. e \in Modules BY <1>9
      <4>2. CASE x \in K
        <5>1. Passed(C1, x, e) /\ (Passed(C1, x, e) /\ e \in On(C1) => e \in K) /\ x \in On(C1)
          BY <1>1, <1>3, <1>4, <1>7, <1>12, <4>1, <4>2, CycleClosed DEF Top, t, K
        <5>2. e \in On(C1) \/ mod[e].status \in LinkSettled BY <1>7, <4>1, <5>1 DEF Walk, SeenInv
        <5> QED BY <2>7, <4>1, <5>1, <5>2 DEF LinkSettled, Linked
      <4>3. CASE x \notin K BY <1>8, <2>7, <3>1, <4>1, <4>3 DEF Linked
      <4> QED BY <4>2, <4>3
    <3>2. \A x \in Modules : mod'[x].status # "evaluating" BY <1>6, <2>7
    <3>3. mod'[C1'.root].status \in LinkSettled \cup {"linking"} /\ Doing("link")'
      BY <1>7, <2>5, <2>6, <2>7 DEF LinkSettled
    <3> QED BY <1>2, <2>9, <3>1, <3>2, <3>3, LinkWalkNext
  <2>11. LinkEff
    <3>1. \A x \in Modules :
       /\ mod[x].status \in Ended => mod'[x].status = mod[x].status /\ mod'[x].dfs = mod[x].dfs
       /\ mod[x].status \notin Ended => mod'[x].status \notin Ended \cup {"evaluating"}
      BY <1>6, <1>11, <2>2, <2>7 DEF Ended
    <3> QED BY <1>2, <1>5, <2>5, <2>6, <2>7, <3>1 DEF LinkEff
  <2> QED BY <1>10, <2>8, <2>10, <2>11
<1>13. CASE ~IsRoot(mod, t)
  <2> DEFINE c == [C1 EXCEPT !.frames = Front(@)]
  <2>1. Replace(c) /\ mod' = mod BY <1>4, <1>13 DEF LinkEnds, Leave
  <2>2. Pops(C1, c) /\ c.stack = C1.stack
    <3>1. C1.stack \in Seq(Modules) BY <1>4, CallTypes
    <3> QED BY <1>4, <3>1, PopCall
  <2> HIDE DEF c
  <2>3. c \in Calls /\ c.op = "link" /\ c.todo = <<>> /\ c.root = C1.root BY <1>5, <2>2 DEF Pops
  <2>4. /\ calls' # <<>> /\ C1' = c /\ Len(calls') <= 1 /\ calls' \in Seq(Calls)
        /\ \A op : Doing(op)' <=> c.op = op
    BY <1>1, <1>4, <2>1, <2>3, CallsTyped
  <2>5. Shaped' BY <1>1, <1>2, <1>3, <2>1, <2>3, <2>4, ShapedNext
  <2>6. Walk(mod', C1', "linking", LinkSettled)
    <3>1. Len(C1.frames) \in Nat /\ Len(C1.frames) > 0 BY <1>4, TopFrame
    <3>2. Len(C1.frames) # 1
      <4>1. Walk(mod, C1, "linking", LinkSettled) /\ C1 \in Calls /\ mod \in ModuleTables
        BY <1>3, <1>4, <1>7
      <4>2. Len(C1.frames) = 1 => IsRoot(mod, Top(C1)) BY <4>1, FirstIsRoot
      <4> QED BY <1>13, <4>2
    <3>3. Len(C1.frames) > 1 BY <1>4, <3>2, TopFrame
    <3>4. Nx(C1, Len(C1.frames)) > Len(imports[At(C1, Len(C1.frames))]) BY <1>4 DEF AtTheEnd
    <3>5. mod[At(C1, Len(C1.frames))].anc # mod[At(C1, Len(C1.frames))].dfs
      BY <1>13 DEF IsRoot, Top
    <3>6. Walk(mod, c, "linking", LinkSettled)
      <4>1. Walk(mod, C1, "linking", LinkSettled) /\ C1 \in Calls /\ mod \in ModuleTables /\ c \in Calls
        BY <1>3, <1>4, <1>7, <2>3
      <4> QED BY <1>1, <4>1, <2>2, <3>3, <3>4, <3>5, LeaveWalk
    <3> QED BY <2>1, <2>4, <3>6
  <2>7. WalkInv' BY <1>2, <1>6, <1>7, <1>8, <2>1, <2>3, <2>4, <2>6, LinkWalkNext
  <2>8. LinkEff BY <1>2, <1>5, <1>6, <2>1, <2>3, <2>4 DEF LinkEff
  <2> QED BY <1>10, <2>5, <2>7, <2>8
<1> QED BY <1>12, <1>13

\* LinkFails has the effect LinkEff.
LEMMA LinkFailsStep ==
  ASSUME IInv, LinkFails
  PROVE  Shaped' /\ WalkInv' /\ asserts' /\ LinkEff
<1>1. Shaped /\ WalkInv /\ asserts /\ ImportsTyped /\ AtEnd("link") BY Typed DEF IInv, LinkFails
<1>2. Kept /\ body' = body /\ jobs' = jobs /\ clock' = clock BY DEF LinkFails, Kept, code
<1>3. mod \in ModuleTables /\ body \in [Modules -> Bodies] /\ jobs \in Seq(Reports) /\ clock \in Nat
  BY <1>1 DEF Shaped
<1>4. calls # <<>> /\ Doing("link") /\ C1 \in Calls /\ top = C1 BY <1>1, EndSeen
<1>5. ~Doing("eval") /\ ~Doing("exec") BY <1>4 DEF Doing
<1>6. \A x \in Modules : mod[x].status # "evaluating" /\ mod[x].status \in Statuses
  BY <1>1, <1>5, ModTypes DEF WalkInv, IdleInv
<1> DEFINE K == On(C1)
<1>7. \A x \in Modules : mod[x].status = "linking" <=> x \in K
  BY <1>1, <1>4 DEF WalkInv, LinkWalk, Walk, StackInv
<1>8. K = ToSet(top.stack) /\ K \subseteq Modules BY <1>4, CallTypes DEF On
<1>9. asserts' /\ mod' = [x \in Modules |-> IF x \in K THEN [mod[x] EXCEPT !.status = "unlinked"] ELSE mod[x]]
  BY <1>1, <1>7, <1>8 DEF LinkFails
<1>10. calls' = <<>> /\ \A op : ~Doing(op)' BY <1>1, <1>4, CallSteps DEF LinkFails, Doing
<1> HIDE DEF K
<1>11. /\ mod' \in ModuleTables
       /\ \A x \in Modules : mod'[x].status = IF x \in K THEN "unlinked" ELSE mod[x].status
       /\ \A x \in Modules :
            /\ mod'[x].dfs = mod[x].dfs /\ mod'[x].anc = mod[x].anc
            /\ mod'[x].root = mod[x].root /\ mod'[x].pending = mod[x].pending /\ mod'[x].async = mod[x].async
            /\ mod'[x].stamp = mod[x].stamp /\ mod'[x].parents = mod[x].parents
            /\ mod'[x].error = mod[x].error /\ mod'[x].promise = mod[x].promise
  <2> DEFINE N == StatusSet(mod, K, "unlinked")
  <2>1. "unlinked" \in Statuses /\ mod \in ModuleTables BY <1>3 DEF Statuses
  <2>2. /\ N \in ModuleTables
        /\ \A x \in Modules : N[x].status = IF x \in K THEN "unlinked" ELSE mod[x].status
        /\ \A x \in Modules :
             /\ N[x].dfs = mod[x].dfs /\ N[x].anc = mod[x].anc
             /\ N[x].root = mod[x].root /\ N[x].pending = mod[x].pending /\ N[x].async = mod[x].async
             /\ N[x].stamp = mod[x].stamp /\ N[x].parents = mod[x].parents
             /\ N[x].error = mod[x].error /\ N[x].promise = mod[x].promise
    BY <2>1, StatusFields
  <2>3. mod' = N BY <1>9 DEF StatusSet
  <2> HIDE DEF N
  <2> QED BY <2>2, <2>3
<1>12. Shaped' BY <1>1, <1>2, <1>3, <1>10, <1>11, ShapedNext
<1>13. \A x \in Modules : mod'[x].status \in Linked <=> mod[x].status \in Linked
  BY <1>7, <1>11 DEF Linked
<1>14. WalkInv'
  <2>1. \A x \in Modules : Imports(x) \subseteq Modules BY <1>1, ImportTypes
  <2>2. \A x \in Modules : mod[x].status \in Linked => \A e \in Imports(x) : mod[e].status \in Linked
    BY <1>1 DEF WalkInv, LinkedInv
  <2>3. \A x \in Modules : mod'[x].status \in Linked => \A e \in Imports(x) : mod'[e].status \in Linked
    BY <1>13, <2>1, <2>2
  <2>4. \A x \in Modules : mod'[x].status \notin {"linking", "evaluating"} BY <1>6, <1>7, <1>11
  <2> QED BY <1>2, <1>10, <2>3, <2>4, IdleWalkNext
<1>15. LinkEff BY <1>2, <1>5, <1>6, <1>7, <1>10, <1>11 DEF LinkEff, Ended
<1> QED BY <1>9, <1>12, <1>14, <1>15

-----------------------------------------------------------------------------
(* The evaluation enters a module *)

\* A step with the effect EnterEff keeps the parts about evaluation.
LEMMA EnterLate ==
  ASSUME Shaped, WalkInv, LateInv, mod' \in ModuleTables, NEW d \in Modules, EnterEff(d)
  PROVE  LateInv'
<1>1. Kept /\ body' = body /\ jobs' = jobs /\ clock' = clock /\ has_tla' = has_tla
  BY DEF EnterEff, Kept
<1>2. ~Doing("exec") /\ ~Doing("exec")' /\ Doing("eval")' BY DEF EnterEff
<1>3. /\ mod[d].status = "linked" /\ mod'[d].status = "evaluating"
      /\ \A x \in Modules : x # d =>
           mod'[x].status = mod[x].status /\ mod'[x].dfs = mod[x].dfs /\ mod'[x].promise = mod[x].promise
  BY DEF EnterEff
<1>4. \A x \in Modules :
       /\ mod'[x].root = mod[x].root /\ mod'[x].pending = mod[x].pending /\ mod'[x].async = mod[x].async
       /\ mod'[x].stamp = mod[x].stamp /\ mod'[x].parents = mod[x].parents /\ mod'[x].error = mod[x].error
  BY DEF EnterEff
<1>5. mod'[d].promise = mod[d].promise \/ (mod'[d].promise = "pending" /\ C1'.root = d)
  BY DEF EnterEff
<1>6. Doing("eval") => C1'.root = C1.root /\ ~AtTheEnd(C1) /\ \A x : Looks(C1, x) => x = d
  BY DEF EnterEff
<1>7. \A x \in Modules : mod[x].status = "evaluating" => mod[x].dfs < mod'[d].dfs BY DEF EnterEff
<1>8. \A x \in Modules : InPath(x)' <=> InPath(x) \/ x = d BY DEF EnterEff
<1>9. /\ \A p, e \in Modules : mod[p].status = "evaluating" => (Gone(p, e)' <=> Gone(p, e))
      /\ \A e \in Modules : ~Gone(d, e)'
  BY DEF EnterEff
<1>10. /\ FreshInv /\ RootInv /\ ErrorInv /\ StackBodies /\ EndedBodies /\ TodoInv /\ JobsInv
       /\ PromiseInv /\ WaitInv /\ StampInv /\ CountInv /\ TreeInv /\ ImportsInv /\ JumpInv
       /\ DependenciesFirst
  BY DEF LateInv
<1>11. /\ body[d] = "unrun" /\ ~mod[d].async /\ mod[d].error = None /\ mod[d].pending = 0
       /\ mod[d].parents = <<>> /\ mod[d].promise = "none" /\ mod[d].root = None
  BY <1>3, <1>10 DEF FreshInv, RootInv, Ended
<1>12. Todo = {} /\ Todo' = {} BY <1>2 DEF Todo
<1>13. \A x : Needs(x)' = Needs(x) /\ Imports(x)' = Imports(x) BY <1>1, NeedsKept
<1>14. /\ \A x \in Modules : mod'[x].status \in Ended <=> mod[x].status \in Ended
       /\ \A x \in Modules : mod'[x].status = "evaluated" <=> mod[x].status = "evaluated"
       /\ \A x \in Modules : mod'[x].status = "evaluating_async" <=> mod[x].status = "evaluating_async"
       /\ \A x \in Modules : mod'[x].status = "evaluating" <=> mod[x].status = "evaluating" \/ x = d
  BY <1>3 DEF Ended
<1>15. \A x \in Modules : \A p : Waits(p, x)' <=> Waits(p, x) BY <1>4 DEF Waits
<1>16. \A p : ~Waits(p, d) BY <1>11 DEF Waits, ToSet
<1>17. \A x \in Modules : mod[x].status \in Ended => x # d BY <1>3 DEF Ended
<1>18. \A x \in Modules : mod[x].status = "evaluating" => x # d BY <1>3
<1>19. \A x \in Modules : mod[x].status = "evaluating" => Doing("eval") BY DEF WalkInv, IdleInv
<1>20. FreshInv' BY <1>1, <1>3, <1>4, <1>10, <1>14 DEF FreshInv
<1>21. RootInv'
  <2>1. \A x \in Modules : mod'[x].status \notin Ended => mod'[x].root = None
    BY <1>4, <1>14, <1>10 DEF RootInv
  <2>2. ASSUME NEW x \in Modules, mod'[x].status \in Ended
        PROVE  /\ mod'[x].root \in Modules /\ mod'[mod'[x].root].status \in Ended
               /\ mod'[mod'[x].root].root = mod'[x].root
               /\ mod'[x].error # None => mod'[mod'[x].root].error # None
    BY <2>2, <1>4, <1>14, <1>10 DEF RootInv
  <2>3. \A x, y \in Modules : mod'[x].status \in Ended /\ mod'[x].error = None /\ mod'[y].root = mod'[x].root =>
       mod'[x].root \in Needs(y) /\ y \in Needs(mod'[x].root)
    BY <1>4, <1>14, <1>10 DEF RootInv
  <2> QED BY <2>1, <2>2, <2>3, <1>13 DEF RootInv
<1>22. ErrorInv' BY <1>1, <1>4, <1>13, <1>14, <1>10 DEF ErrorInv
<1>23. StackBodies'
  <2>1. \A x \in Modules : x # d => (Finished(x)' <=> Finished(x)) BY <1>1, <1>4 DEF Finished
  <2>2. \A x \in Modules : mod'[x].status = "evaluating" /\ ~InPath(x)' => Finished(x)'
    BY <2>1, <1>8, <1>14, <1>10 DEF StackBodies
  <2>3. ASSUME NEW x \in Modules, InPath(x)'
        PROVE  mod'[x].status = "evaluating" /\ mod'[x].parents = <<>> /\ body'[x] = "unrun" /\ ~mod'[x].async
    <3>1. CASE x = d BY <3>1, <1>1, <1>3, <1>4, <1>11
    <3>2. CASE x # d
      <4>1. InPath(x) /\ ~AtTheEnd(C1) BY <2>3, <3>2, <1>6, <1>8 DEF InPath
      <4>2. mod[x].status = "evaluating" /\ mod[x].parents = <<>> /\ body[x] = "unrun" /\ ~mod[x].async
        BY <4>1, <1>10 DEF StackBodies, PathBody
      <4> QED BY <4>2, <1>1, <1>4, <1>14
    <3> QED BY <3>1, <3>2
  <2>4. \A x \in Modules : body'[x] = "unrun" /\ ~mod'[x].async => PathBody(x)' BY DEF PathBody
  <2> QED BY <2>2, <2>3, <2>4 DEF StackBodies
<1>24. EndedBodies' BY <1>1, <1>4, <1>12, <1>14, <1>10 DEF EndedBodies
<1>25. TodoInv' BY <1>2 DEF TodoInv
<1>26. JobsInv'
  <2>1. \A i, j \in 1..Len(jobs) : i # j => jobs[i].m # jobs[j].m BY <1>10 DEF JobsInv
  <2>2. ASSUME NEW i \in 1..Len(jobs)
        PROVE  /\ jobs[i].m \in has_tla /\ body[jobs[i].m] = jobs[i].how
               /\ \/ mod'[jobs[i].m].status \in {"evaluating", "evaluating_async"}
                  \/ mod'[jobs[i].m].status = "evaluated" /\ mod'[jobs[i].m].error # None
    <3>1. jobs[i].m \in Modules BY JobTypes
    <3> QED BY <3>1, <1>4, <1>14, <1>10 DEF JobsInv
  <2>3. \A x \in has_tla : body[x] \in Outcomes /\ mod'[x].status \in {"evaluating", "evaluating_async"} =>
          \E i \in 1..Len(jobs) : jobs[i].m = x
    <3>1. body[d] \notin Outcomes BY <1>11 DEF Outcomes
    <3> QED BY <3>1, <1>14, <1>10 DEF JobsInv, Shaped
  <2>4. \A x \in Modules : body[x] = "suspended" => x \in has_tla BY <1>10 DEF JobsInv
  <2> QED BY <2>1, <2>2, <2>3, <2>4, <1>1 DEF JobsInv
<1>27. PromiseInv'
  <2> SUFFICES ASSUME NEW x \in Modules
               PROVE  /\ mod'[x].promise # "none" => (mod'[x].status \in Ended /\ mod'[x].root = x) \/ C1'.root = x
                      /\ mod'[x].promise = "fulfilled" => mod'[x].status = "evaluated" /\ mod'[x].error = None
                      /\ mod'[x].promise = "rejected" => mod'[x].error # None
    BY <1>2 DEF PromiseInv
  <2>1. CASE x = d BY <2>1, <1>5, <1>11
  <2>2. CASE x # d BY <2>2, <1>3, <1>4, <1>6, <1>14, <1>10 DEF PromiseInv
  <2> QED BY <2>1, <2>2
<1>28. WaitInv'
  <2>1. \A x, p \in Modules : Waits(p, x) => x \in Needs(p) /\ mod'[p].status \in Ended \cup {"evaluating"}
    BY <1>14, <1>10 DEF WaitInv
  <2>2. \A x, p \in Modules : Waits(p, x) /\ mod'[x].status = "evaluating" =>
          mod'[p].status = "evaluating" /\ Gone(p, x)'
    BY <1>9, <1>14, <1>16, <1>10 DEF WaitInv
  <2>3. \A x, p \in Modules : Waits(p, x) /\ mod'[x].error # None => mod'[p].error # None
    BY <1>4, <1>10 DEF WaitInv
  <2>4. \A x, p \in Modules : Waits(p, x) /\ mod'[x].status # "evaluated" /\ mod'[p].error = None =>
          mod'[p].status # "evaluated" /\ body[p] = "unrun"
    BY <1>4, <1>14, <1>10 DEF WaitInv
  <2> QED BY <2>1, <2>2, <2>3, <2>4, <1>1, <1>12, <1>13, <1>15 DEF WaitInv
<1>29. StampInv' BY <1>1, <1>4, <1>15, <1>10 DEF StampInv
<1>30. CountInv'
  <2>1. Open' = Open BY <1>1, <1>12, <1>14 DEF Open
  <2>2. \A p : Entries(mod, Open, p)' = Entries(mod, Open, p)
    <3>1. Open \subseteq Modules BY DEF Open
    <3> QED BY <2>1, <3>1, <1>4 DEF Entries
  <2>3. \A p \in Modules : mod[p].root # None => mod[p].root \in Modules BY ModTypes
  <2> QED BY <2>2, <2>3, <1>4, <1>10 DEF CountInv
<1>31. TreeInv'
  <2>1. ASSUME NEW x \in Modules, mod'[x].status = "evaluating_async", mod'[x].root # x
        PROVE  \E y \in Modules : Waits(y, x)' /\ mod'[y].root = mod'[x].root /\ mod'[y].dfs < mod'[x].dfs
    <3>1. mod[x].status = "evaluating_async" /\ mod[x].root # x BY <2>1, <1>4, <1>14
    <3>2. PICK y \in Modules : Waits(y, x) /\ mod[y].root = mod[x].root /\ mod[y].dfs < mod[x].dfs
      BY <3>1, <1>10 DEF TreeInv
    <3>3. mod[x].status \in Ended /\ mod[y].status \in Ended
      BY <3>1, <3>2, <1>10, Rooted DEF Ended
    <3> QED BY <3>2, <3>3, <1>3, <1>4, <1>15, <1>17
  <2>2. ASSUME NEW x \in Modules, mod'[x].status = "evaluating", ~InPath(x)', mod'[x].async
        PROVE  \E y \in Modules : Above(y, x)'
    <3>1. x # d /\ mod[x].status = "evaluating" /\ ~InPath(x) /\ mod[x].async
      BY <2>2, <1>4, <1>8, <1>14
    <3>2. ~Looks(C1, x) BY <3>1, <1>6, <1>19
    <3>3. PICK y \in Modules : Above(y, x) BY <3>1, <3>2, <1>10 DEF TreeInv
    <3>4. mod[y].status = "evaluating" /\ Waits(y, x) /\ mod[y].dfs < mod[x].dfs BY <3>3 DEF Above
    <3>5. y # d /\ mod'[y].status = "evaluating" /\ Waits(y, x)' /\ mod'[y].dfs < mod'[x].dfs
      BY <3>1, <3>4, <1>3, <1>15, <1>18
    <3>6. ASSUME NEW z \in Modules, InPath(z)', mod'[z].dfs < mod'[x].dfs
          PROVE  mod'[z].dfs <= mod'[y].dfs
      <4>1. z # d
        <5>1. mod[x].dfs < mod'[d].dfs /\ mod[x].dfs \in Nat /\ mod'[d].dfs \in Nat /\ mod'[x].dfs = mod[x].dfs
          BY <3>1, <1>3, <1>7, ModTypes, FieldTypes
        <5> QED BY <5>1, <3>6
      <4> QED BY <4>1, <3>1, <3>3, <3>5, <3>6, <1>3, <1>8 DEF Above
    <3> QED BY <3>5, <3>6 DEF Above
  <2> QED BY <2>1, <2>2 DEF TreeInv
<1>32. ImportsInv'
  <2>1. \A p \in Modules : mod'[p].status \in Ended <=> mod[p].root \in Modules
    BY <1>14, <1>10, Rooted
  <2>2. \A p, e \in Modules : mod[e].root \in Modules => (DoneFor(p, e)' <=> DoneFor(p, e))
    BY <1>4, <1>14, <1>15 DEF DoneFor, Complete
  <2>3. \A p \in Modules : Imports(p) \subseteq Modules BY Typed, ImportTypes
  <2>4. \A p \in Modules : mod'[p].status \in Ended /\ mod'[p].error = None =>
       \A e \in Imports(p) : mod'[e].status \in Ended /\ (mod'[e].root = mod'[p].root \/ DoneFor(p, e)')
    BY <2>1, <2>2, <2>3, <1>4, <1>14, <1>10 DEF ImportsInv
  <2>5. \A p \in Modules : mod'[p].status = "evaluating" => \A e \in Modules : Gone(p, e)' =>
       mod'[e].status = "evaluating" \/ (mod'[e].status \in Ended /\ DoneFor(p, e)')
    BY <2>1, <2>2, <1>9, <1>14, <1>10 DEF ImportsInv
  <2> QED BY <2>4, <2>5, <1>13 DEF ImportsInv
<1>33. JumpInv'
  <2>1. SUFFICES ASSUME NEW p \in Modules, NEW e \in Modules, NEW z \in Modules,
                        mod'[p].status = "evaluating", mod'[e].status = "evaluating", Gone(p, e)',
                        InPath(z)', mod'[z].dfs <= mod'[e].dfs
                 PROVE  mod'[z].dfs <= mod'[p].dfs
    BY DEF JumpInv
  <2>2. p # d /\ mod[p].status = "evaluating" /\ Gone(p, e) BY <2>1, <1>9, <1>14
  <2>3. e # d /\ mod[e].status = "evaluating"
    BY <2>1, <2>2, <1>3, <1>14, <1>17, <1>10 DEF ImportsInv
  <2>4. z # d
    <3>1. mod[e].dfs < mod'[d].dfs /\ mod[e].dfs \in Nat /\ mod'[d].dfs \in Nat /\ mod'[e].dfs = mod[e].dfs
      BY <2>3, <1>3, <1>7, ModTypes, FieldTypes
    <3> QED BY <3>1, <2>1
  <2> QED BY <2>1, <2>2, <2>3, <2>4, <1>3, <1>8, <1>10 DEF JumpInv
<1>34. DependenciesFirst' BY <1>1, <1>10, DependenciesKept
<1> QED
  BY <1>20, <1>21, <1>22, <1>23, <1>24, <1>25, <1>26, <1>27, <1>28, <1>29, <1>30, <1>31, <1>32,
     <1>33, <1>34 DEF LateInv

\* How far a traversal is, after a step that keeps the graph.
LEMMA GoneKept ==
  ASSUME Kept
  PROVE  /\ \A p, e : Gone(p, e)' <=> Passed(C1', p, e)
         /\ \A e : Looks(C1, e)' <=> Looks(C1', e)
         /\ AtTheEnd(C1)' <=> AtTheEnd(C1')
BY DEF Kept, Gone, Passed, Deep, At, Nx, Looks, AtTheEnd

\* What a call that entered d has passed.
LEMMA EnterView ==
  ASSUME ImportsTyped, NEW c \in Calls, NEW d \in Modules, NEW c2 \in Calls,
         c2.frames = Append(c.frames, [m |-> d, next |-> 1]), c2.stack = Append(c.stack, d)
  PROVE  /\ \A x : (\E k \in Deep(c2) : At(c2, k) = x) <=> (\E k \in Deep(c) : At(c, k) = x) \/ x = d
         /\ \A p, e : p # d => (Passed(c2, p, e) <=> Passed(c, p, e))
         /\ \A e : ~Passed(c2, d, e)
<1> DEFINE n == Len(c.frames)
<1>1. /\ n \in Nat /\ Deep(c) = 1..n /\ Deep(c2) = 1..n + 1
      /\ \A k \in 1..n : At(c2, k) = At(c, k) /\ Nx(c2, k) = Nx(c, k)
      /\ At(c2, n + 1) = d /\ Nx(c2, n + 1) = 1
  BY EnterCall
<1> HIDE DEF n
<1>2. \A k : k \in 1..n + 1 <=> k \in 1..n \/ k = n + 1 BY <1>1
<1>3. \A x : (\E k \in Deep(c2) : At(c2, k) = x) <=> (\E k \in Deep(c) : At(c, k) = x) \/ x = d
  BY <1>1, <1>2
<1>4. \A p, e : p # d => (Passed(c2, p, e) <=> Passed(c, p, e)) BY <1>1, <1>2 DEF Passed
<1>5. \A e : ~Passed(c2, d, e)
  <2> SUFFICES ASSUME NEW e, Passed(c2, d, e) PROVE FALSE OBVIOUS
  <2>1. PICK i \in DOMAIN imports[d] : i < 1 BY <1>1, <1>2 DEF Passed
  <2>2. i \in 1..Len(imports[d]) /\ Len(imports[d]) \in Nat BY <2>1, ImportTypes
  <2> QED BY <2>1, <2>2
<1> QED BY <1>3, <1>4, <1>5

\* WalkInv in the state after a step of an evaluation.
LEMMA EvalWalkNext ==
  ASSUME Kept, Doing("eval")', Walk(mod', C1', "evaluating", Ended), C1'.frames # <<>>,
         \A x \in Modules : mod'[x].status # "linking",
         \A x \in Modules : mod'[x].status \in Linked => \A d \in Imports(x) : mod'[d].status \in Linked
  PROVE  WalkInv'
<1>1. Walk(mod, C1, "evaluating", Ended)' BY WalkKept
<1>2. ~Doing("link")' BY DEF Doing
<1>3. \A x : Imports(x)' = Imports(x) BY NeedsKept
<1>4. LinkWalk' /\ EvalWalk' BY <1>1, <1>2 DEF LinkWalk, EvalWalk
<1>5. IdleInv' /\ LinkedInv' BY <1>3 DEF IdleInv, LinkedInv
<1> QED BY <1>4, <1>5 DEF WalkInv

\* What is always at hand in a step of an evaluation.
LEMMA EvalState ==
  ASSUME IInv, Doing("eval")
  PROVE  /\ Shaped /\ WalkInv /\ LateInv /\ asserts /\ ImportsTyped
         /\ mod \in ModuleTables /\ body \in [Modules -> Bodies] /\ jobs \in Seq(Reports) /\ clock \in Nat
         /\ calls # <<>> /\ C1 \in Calls /\ top = C1 /\ C1.frames # <<>> /\ C1.op = "eval" /\ C1.todo = <<>>
         /\ ~Doing("exec") /\ ~Doing("link") /\ Todo = {}
         /\ C1.root \in Modules /\ Top(C1) \in Modules /\ frame.m = Top(C1)
         /\ Walk(mod, C1, "evaluating", Ended)
         /\ \A x \in Modules : mod[x].status = "evaluating" <=> x \in On(C1)
         /\ \A x \in Modules : mod[x].status # "linking" /\ mod[x].status \in Statuses
         /\ \A x \in Modules : Imports(x) \subseteq Modules
         /\ \A x \in Modules : mod[x].status \in Linked => \A e \in Imports(x) : mod[e].status \in Linked
         /\ Top(C1) \in On(C1) /\ C1.root \in On(C1) /\ On(C1) \subseteq Modules
         /\ InPath(Top(C1)) /\ mod[Top(C1)].status = "evaluating"
<1>1. Shaped /\ WalkInv /\ LateInv /\ asserts /\ ImportsTyped BY Typed DEF IInv
<1>2. mod \in ModuleTables /\ body \in [Modules -> Bodies] /\ jobs \in Seq(Reports) /\ clock \in Nat
  BY <1>1 DEF Shaped
<1>3. calls # <<>> /\ C1.op = "eval" /\ ~Doing("exec") /\ ~Doing("link") BY DEF Doing
<1>4. C1 \in Calls /\ top = C1 /\ C1.todo = <<>> /\ Todo = {}
  BY <1>1, <1>3, OneCall DEF Shaped, Todo
<1>5. Walk(mod, C1, "evaluating", Ended) /\ C1.frames # <<>> BY <1>1 DEF WalkInv, EvalWalk
<1>6. /\ C1.root \in Modules /\ Top(C1) \in Modules /\ frame.m = Top(C1) /\ On(C1) \subseteq Modules
      /\ Len(C1.frames) \in Deep(C1)
  BY <1>4, <1>5, TopFrame, CallTypes DEF frame
<1>7. Top(C1) \in On(C1) BY <1>1, <1>5, TopNext
<1>8. C1.root \in On(C1)
  <2>1. 1 \in Deep(C1)
    <3>1. Len(C1.frames) \in Nat /\ Len(C1.frames) > 0 /\ Deep(C1) = 1..Len(C1.frames)
      BY <1>4, <1>5, TopFrame
    <3>2. \A k \in Nat : k > 0 => 1 \in 1..k OBVIOUS
    <3> QED BY <3>1, <3>2
  <2> QED BY <2>1, <1>5 DEF Walk, FramesInv
<1>9. \A x \in Modules : mod[x].status = "evaluating" <=> x \in On(C1) BY <1>5 DEF Walk, StackInv
<1>10. \A x \in Modules : mod[x].status # "linking" /\ mod[x].status \in Statuses
  BY <1>1, <1>3, ModTypes DEF WalkInv, IdleInv
<1>11. \A x \in Modules : Imports(x) \subseteq Modules BY <1>1, ImportTypes
<1>12. \A x \in Modules : mod[x].status \in Linked => \A e \in Imports(x) : mod[e].status \in Linked
  BY <1>1 DEF WalkInv, LinkedInv
<1>13. InPath(Top(C1)) /\ mod[Top(C1)].status = "evaluating" BY <1>6, <1>7, <1>9 DEF InPath, Top
<1> QED
  BY <1>1, <1>2, <1>3, <1>4, <1>5, <1>6, <1>7, <1>8, <1>9, <1>10, <1>11, <1>12, <1>13

\* EvalEnters has the effect EnterEff.
LEMMA EvalEntersStep ==
  ASSUME IInv, EvalEnters
  PROVE  Shaped' /\ WalkInv' /\ asserts' /\ \E d \in Modules : EnterEff(d)
<1>1. Shaped /\ WalkInv /\ AtChild("eval") BY DEF IInv, EvalEnters
<1>0. PICK d \in Modules : Child = d BY <1>1, ChildSeen
<1> DEFINE t == Top(C1)
<1>2. /\ Doing("eval") /\ d \in Modules /\ Looks(C1, d) /\ d \in Imports(t)
      /\ (\A x : Looks(C1, x) => x = d) /\ ~AtTheEnd(C1)
  BY <1>0, <1>1, ChildSeen
<1>3. /\ ImportsTyped /\ asserts /\ LateInv
      /\ mod \in ModuleTables /\ body \in [Modules -> Bodies] /\ jobs \in Seq(Reports) /\ clock \in Nat
      /\ calls # <<>> /\ C1 \in Calls /\ top = C1 /\ C1.op = "eval" /\ C1.todo = <<>>
      /\ ~Doing("exec") /\ Walk(mod, C1, "evaluating", Ended)
      /\ \A x \in Modules : mod[x].status = "evaluating" <=> x \in On(C1)
      /\ \A x \in Modules : mod[x].status # "linking"
      /\ \A x \in Modules : Imports(x) \subseteq Modules
      /\ \A x \in Modules : mod[x].status \in Linked => \A e \in Imports(x) : mod[e].status \in Linked
  BY <1>2, EvalState
<1>4. Kept /\ body' = body /\ jobs' = jobs /\ clock' = clock /\ asserts' = asserts
  BY DEF EvalEnters, Kept, code
<1> DEFINE c == Enter(C1, d)
<1>5. mod[d].status = "linked" /\ Replace(c) /\ mod' = Entered(mod, d, "evaluating", C1)
  BY <1>0, <1>3 DEF EvalEnters
<1>6. /\ c \in Calls /\ c.op = "eval" /\ c.root = C1.root /\ c.todo = <<>> /\ c.frames # <<>>
      /\ c.frames = Append(C1.frames, [m |-> d, next |-> 1]) /\ c.stack = Append(C1.stack, d)
      /\ c.index = C1.index + 1
  BY <1>2, <1>3, EnterFields
<1> HIDE DEF c, t
<1>7. /\ calls' # <<>> /\ C1' = c /\ Len(calls') <= 1 /\ calls' \in Seq(Calls)
      /\ \A op : Doing(op)' <=> c.op = op
  BY <1>1, <1>3, <1>5, <1>6, CallsTyped
<1>8. /\ mod' \in ModuleTables
      /\ mod'[d].status = "evaluating" /\ mod'[d].dfs = C1.index /\ mod'[d].anc = C1.index
      /\ \A x \in Modules : x # d => mod'[x] = mod[x]
      /\ \A x \in Modules :
              /\ mod'[x].root = mod[x].root /\ mod'[x].pending = mod[x].pending
              /\ mod'[x].async = mod[x].async
              /\ mod'[x].stamp = mod[x].stamp /\ mod'[x].parents = mod[x].parents
              /\ mod'[x].error = mod[x].error /\ mod'[x].promise = mod[x].promise
  <2>1. "evaluating" \in Statuses BY DEF Statuses
  <2>2. mod' = Entered(mod, d, "evaluating", C1) BY <1>5
  <2> QED BY <1>2, <1>3, <2>1, <2>2, EnteredFields
<1>9. Shaped' BY <1>1, <1>3, <1>4, <1>6, <1>7, <1>8, ShapedNext
<1>10. Walk(mod', C1', "evaluating", Ended)
  <2>1. \A x \in Modules : x # d => SameWalk(mod, mod', x) BY <1>8 DEF SameWalk
  <2>2. mod[d].status # "evaluating" /\ mod[d].status \notin Ended BY <1>5 DEF Ended
  <2>3. Walk(mod', c, "evaluating", Ended) BY <1>2, <1>3, <1>6, <1>8, <2>1, <2>2, EnterWalk
  <2> QED BY <1>7, <2>3
<1>11. WalkInv'
  <2>1. \A x \in Modules : mod'[x].status \in Linked <=> mod[x].status \in Linked
    BY <1>5, <1>8 DEF Linked
  <2>2. \A x \in Modules : mod'[x].status \in Linked => \A e \in Imports(x) : mod'[e].status \in Linked
    BY <1>3, <2>1
  <2>3. \A x \in Modules : mod'[x].status # "linking" BY <1>3, <1>8
  <2> QED BY <1>4, <1>6, <1>7, <1>10, <2>2, <2>3, EvalWalkNext
<1>12. EnterEff(d)
  <2>1. /\ \A x : (\E k \in Deep(c) : At(c, k) = x) <=> (\E k \in Deep(C1) : At(C1, k) = x) \/ x = d
        /\ \A p, e : p # d => (Passed(c, p, e) <=> Passed(C1, p, e))
        /\ \A e : ~Passed(c, d, e)
    BY <1>2, <1>3, <1>6, EnterView
  <2>2. \A x \in Modules : InPath(x)' <=> InPath(x) \/ x = d BY <2>1, <1>2, <1>6, <1>7 DEF InPath
  <2>3. \A p, e : Gone(p, e)' <=> Passed(c, p, e) BY <1>4, <1>7, GoneKept
  <2>4. \A p, e \in Modules : mod[p].status = "evaluating" => (Gone(p, e)' <=> Gone(p, e))
    BY <1>5, <2>1, <2>3 DEF Gone
  <2>5. \A e \in Modules : ~Gone(d, e)' BY <2>1, <2>3
  <2>6. \A x \in Modules : mod[x].status = "evaluating" => mod[x].dfs < mod'[d].dfs
    BY <1>3, <1>8 DEF Walk, StackInv
  <2>7. Doing("eval")' /\ ~Doing("exec")' BY <1>6, <1>7
  <2> QED
    BY <1>2, <1>3, <1>4, <1>5, <1>6, <1>7, <1>8, <2>2, <2>4, <2>5, <2>6, <2>7 DEF EnterEff
<1> QED BY <1>2, <1>3, <1>4, <1>9, <1>11, <1>12

\* The module an evaluation starts with, whatever expression names it.
LEMMA EvalStartsWith ==
  ASSUME EvalStarts, asserts, top.stack = <<>>, mod[top.root].status \in LinkSettled,
         NEW m, (IF mod[top.root].status \in Ended THEN mod[top.root].root ELSE top.root) = m
  PROVE  StartsWith(m)
<1> DEFINE w == IF mod[top.root].status \in Ended THEN mod[top.root].root ELSE top.root
           linked == top.stack = <<>> /\ mod[top.root].status \in LinkSettled
<1>1. IF mod[w].promise # "none" THEN Returns /\ asserts' = (asserts /\ linked) /\ mod' = mod
      ELSE \/ /\ mod[w].status = "linked"
              /\ Replace(Enter(Call("eval", w, <<>>), w))
              /\ mod' = Entered([mod EXCEPT ![w].promise = "pending"], w, "evaluating", Call("eval", w, <<>>))
              /\ asserts' = (asserts /\ linked)
           \/ /\ mod[w].status \in Ended
              /\ Returns
              /\ mod' = [mod EXCEPT ![w].promise = IF mod[w].error # None THEN "rejected"
                                 ELSE IF mod[w].async THEN "pending" ELSE "fulfilled"]
              /\ asserts' = (asserts /\ linked /\
                           (mod[w].error # None \/ ~mod[w].async => mod[w].status = "evaluated"))
           \/ mod[w].status \notin Ended \cup {"linked"}
  BY DEF EvalStarts
<1>2. linked /\ w = m OBVIOUS
<1> HIDE DEF w, linked
<1>3. IF mod[m].promise # "none" THEN Returns /\ asserts' = (asserts /\ linked) /\ mod' = mod
      ELSE \/ /\ mod[m].status = "linked"
              /\ Replace(Enter(Call("eval", m, <<>>), m))
              /\ mod' = Entered([mod EXCEPT ![m].promise = "pending"], m, "evaluating", Call("eval", m, <<>>))
              /\ asserts' = (asserts /\ linked)
           \/ /\ mod[m].status \in Ended
              /\ Returns
              /\ mod' = [mod EXCEPT ![m].promise = IF mod[m].error # None THEN "rejected"
                                 ELSE IF mod[m].async THEN "pending" ELSE "fulfilled"]
              /\ asserts' = (asserts /\ linked /\
                           (mod[m].error # None \/ ~mod[m].async => mod[m].status = "evaluated"))
           \/ mod[m].status \notin Ended \cup {"linked"}
  BY <1>1, <1>2
<1> QED BY <1>2, <1>3 DEF StartsWith

\* EvalStarts has the effect EnterEff, or LinkEff when it only answers.
LEMMA EvalStartsStep ==
  ASSUME IInv, EvalStarts
  PROVE  Shaped' /\ WalkInv' /\ asserts' /\ (LinkEff \/ \E d \in Modules : EnterEff(d))
<1>1. Shaped /\ WalkInv /\ LateInv /\ asserts /\ ImportsTyped BY Typed DEF IInv
<1>2. Kept /\ body' = body /\ jobs' = jobs /\ clock' = clock BY DEF EvalStarts, Kept, code
<1>3. mod \in ModuleTables /\ body \in [Modules -> Bodies] /\ jobs \in Seq(Reports) /\ clock \in Nat
  BY <1>1 DEF Shaped
<1>4. calls # <<>> /\ Doing("link") /\ C1 \in Calls /\ top = C1 /\ C1.frames = <<>>
  BY <1>1, OneCall DEF EvalStarts, InCall, Doing
<1>5. ~Doing("eval") /\ ~Doing("exec") /\ C1.op = "link" /\ C1.todo = <<>>
  BY <1>1, <1>4 DEF Doing, Shaped
<1>6. /\ Walk(mod, C1, "linking", LinkSettled) /\ mod[C1.root].status \in LinkSettled \cup {"linking"}
      /\ C1.root \in Modules
  BY <1>1, <1>4, CallTypes DEF WalkInv, LinkWalk
<1>7. C1.stack = <<>> /\ On(C1) = {} BY <1>4, <1>6, CallTypes DEF Walk, FramesInv
<1>8. \A x \in Modules : mod[x].status \notin {"linking", "evaluating"} /\ mod[x].status \in Statuses
  BY <1>1, <1>5, <1>6, <1>7, ModTypes DEF WalkInv, IdleInv, Walk, StackInv
<1>9. mod[C1.root].status \in LinkSettled BY <1>6, <1>8
<1>10. \A x \in Modules : mod[x].status \in Linked => \A e \in Imports(x) : mod[e].status \in Linked
  BY <1>1 DEF WalkInv, LinkedInv
<1>11. \A x \in Modules : Imports(x) \subseteq Modules BY <1>1, ImportTypes
<1>12. /\ FreshInv /\ RootInv /\ ErrorInv /\ EndedBodies BY <1>1 DEF LateInv
<1>13. PICK m \in Modules : (IF mod[C1.root].status \in Ended THEN mod[C1.root].root ELSE C1.root) = m
  BY <1>6, <1>12 DEF RootInv
<1>21. m \in Modules OBVIOUS
<1>14. mod[m].status = "linked" \/ (mod[m].status \in Ended /\ mod[m].root = m)
  <2>1. CASE mod[C1.root].status \in Ended BY <2>1, <1>6, <1>12, <1>13 DEF RootInv
  <2>2. CASE mod[C1.root].status \notin Ended BY <2>2, <1>9, <1>13 DEF LinkSettled, Ended
  <2> QED BY <2>1, <2>2
<1>20. StartsWith(m)
  <2>1. top.stack = <<>> /\ mod[top.root].status \in LinkSettled BY <1>4, <1>7, <1>9
  <2>2. (IF mod[top.root].status \in Ended THEN mod[top.root].root ELSE top.root) = m
    BY <1>4, <1>13
  <2> QED BY <1>1, <2>1, <2>2, EvalStartsWith
<1>15. CASE mod[m].promise # "none"
  <2>1. Returns /\ asserts' /\ mod' = mod BY <1>15, <1>20 DEF StartsWith
  <2>2. calls' = <<>> /\ \A op : ~Doing(op)' BY <1>1, <1>4, <2>1, CallSteps DEF Doing
  <2>3. Shaped' BY <1>1, <1>2, <1>3, <2>1, <2>2, ShapedNext
  <2>4. WalkInv' BY <1>2, <1>8, <1>10, <2>1, <2>2, IdleWalkNext
  <2>5. LinkEff BY <1>2, <1>5, <1>8, <2>1, <2>2 DEF LinkEff, Ended
  <2> QED BY <1>1, <2>1, <2>3, <2>4, <2>5
<1>16. CASE mod[m].promise = "none" /\ mod[m].status = "linked"
  <2> DEFINE call == Call("eval", m, <<>>)
             c == Enter(call, m)
             P == [mod EXCEPT ![m].promise = "pending"]
  <2>1. Replace(c) /\ mod' = Entered(P, m, "evaluating", call) /\ asserts'
    BY <1>16, <1>20 DEF StartsWith, Ended
  <2>2. /\ call \in Calls /\ call.op = "eval" /\ call.root = m /\ call.frames = <<>> /\ call.stack = <<>>
        /\ call.index = 0 /\ call.todo = <<>>
    BY NewCall
  <2>3. /\ P \in ModuleTables /\ P[m].promise = "pending"
        /\ \A x \in Modules : x # m => P[x] = mod[x]
        /\ \A x \in Modules :
              /\ P[x].status = mod[x].status /\ P[x].dfs = mod[x].dfs /\ P[x].anc = mod[x].anc
              /\ P[x].root = mod[x].root /\ P[x].pending = mod[x].pending /\ P[x].async = mod[x].async
              /\ P[x].stamp = mod[x].stamp /\ P[x].parents = mod[x].parents /\ P[x].error = mod[x].error
    <3>1. "pending" \in Promises /\ mod \in ModuleTables BY <1>3 DEF Promises
    <3> QED BY <3>1, <1>21, PromiseFields
  <2> HIDE DEF call, P
  <2>4. /\ c \in Calls /\ c.op = "eval" /\ c.root = m /\ c.todo = <<>> /\ c.frames # <<>>
        /\ c.frames = Append(call.frames, [m |-> m, next |-> 1]) /\ c.stack = Append(call.stack, m)
        /\ c.index = call.index + 1
    BY <2>2, EnterFields
  <2> HIDE DEF c
  <2>5. /\ calls' # <<>> /\ C1' = c /\ Len(calls') <= 1 /\ calls' \in Seq(Calls)
        /\ \A op : Doing(op)' <=> c.op = op
    BY <1>1, <1>4, <2>1, <2>4, CallsTyped
  <2>6. /\ mod' \in ModuleTables
        /\ mod'[m].status = "evaluating" /\ mod'[m].dfs = call.index /\ mod'[m].anc = call.index
        /\ \A x \in Modules : x # m => mod'[x] = P[x]
        /\ \A x \in Modules :
              /\ mod'[x].root = P[x].root /\ mod'[x].pending = P[x].pending
              /\ mod'[x].async = P[x].async
              /\ mod'[x].stamp = P[x].stamp /\ mod'[x].parents = P[x].parents
              /\ mod'[x].error = P[x].error /\ mod'[x].promise = P[x].promise
    <3>1. "evaluating" \in Statuses BY DEF Statuses
    <3>2. mod' = Entered(P, m, "evaluating", call) BY <2>1
    <3> QED BY <2>2, <2>3, <3>1, <3>2, EnteredFields
  <2>7. Shaped' BY <1>1, <1>2, <1>3, <2>4, <2>5, <2>6, ShapedNext
  <2>8. \A x \in Modules : x # m => mod'[x] = mod[x] BY <2>3, <2>6
  <2>9. Walk(mod', C1', "evaluating", Ended)
    <3>1. Len(call.frames) = 0 /\ Len(call.stack) = 0 BY <2>2
    <3>2. \A x \in Modules : x # m => mod'[x].status # "evaluating" BY <1>8, <2>8
    <3>3. Walk(mod', c, "evaluating", Ended) BY <1>1, <2>2, <2>4, <2>6, <3>1, <3>2, StartWalk
    <3> QED BY <2>5, <3>3
  <2>10. WalkInv'
    <3>1. \A x \in Modules : mod'[x].status \in Linked <=> mod[x].status \in Linked
      BY <1>16, <2>6, <2>8 DEF Linked
    <3>2. \A x \in Modules : mod'[x].status \in Linked => \A e \in Imports(x) : mod'[e].status \in Linked
      BY <1>10, <1>11, <3>1
    <3>3. \A x \in Modules : mod'[x].status # "linking" BY <1>8, <2>6, <2>8
    <3> QED BY <1>2, <2>4, <2>5, <2>9, <3>2, <3>3, EvalWalkNext
  <2>11. EnterEff(m)
    <3>1. /\ \A x : (\E k \in Deep(c) : At(c, k) = x) <=> (\E k \in Deep(call) : At(call, k) = x) \/ x = m
          /\ \A p, e : p # m => (Passed(c, p, e) <=> Passed(call, p, e))
          /\ \A e : ~Passed(c, m, e)
      <4>1. /\ call \in Calls /\ c \in Calls /\ c.frames = Append(call.frames, [m |-> m, next |-> 1])
            /\ c.stack = Append(call.stack, m) /\ ImportsTyped
        BY <1>1, <2>2, <2>4
      <4> QED BY <4>1, <1>21, EnterView
    <3>2. Deep(call) = {}
      <4>1. Len(call.frames) = 0 BY <2>2
      <4> QED BY <4>1 DEF Deep
    <3>3. \A x \in Modules : InPath(x)' <=> x = m BY <3>1, <3>2, <2>4, <2>5 DEF InPath
    <3>4. \A p, e : Gone(p, e)' <=> Passed(c, p, e) BY <1>2, <2>5, GoneKept
    <3>5. \A e \in Modules : ~Gone(m, e)' BY <3>1, <3>4
    <3>6. \A x \in Modules : ~InPath(x) BY <1>5 DEF InPath
    <3>7. Doing("eval")' /\ ~Doing("exec")' /\ C1'.root = m BY <2>4, <2>5
    <3> QED
      BY <1>2, <1>5, <1>8, <1>16, <2>3, <2>6, <2>8, <3>3, <3>5, <3>6, <3>7 DEF EnterEff
  <2> QED BY <1>1, <2>1, <2>7, <2>10, <2>11
<1>17. CASE mod[m].promise = "none" /\ mod[m].status \in Ended
  <2> DEFINE v == IF mod[m].error # None THEN "rejected" ELSE IF mod[m].async THEN "pending" ELSE "fulfilled"
             N == [mod EXCEPT ![m].promise = v]
  <2>1. Returns /\ mod' = N BY <1>17, <1>20 DEF StartsWith, Ended
  <2>2. mod[m].error # None \/ ~mod[m].async => mod[m].status = "evaluated"
    BY <1>12, <1>17 DEF ErrorInv, EndedBodies, Ended
  <2>3. asserts' BY <1>1, <1>17, <1>20, <2>2 DEF StartsWith, Ended
  <2>4. v \in Promises BY DEF Promises
  <2> HIDE DEF v
  <2>5. /\ N \in ModuleTables /\ N[m].promise = v
        /\ \A x \in Modules : x # m => N[x] = mod[x]
        /\ \A x \in Modules :
              /\ N[x].status = mod[x].status /\ N[x].dfs = mod[x].dfs /\ N[x].anc = mod[x].anc
              /\ N[x].root = mod[x].root /\ N[x].pending = mod[x].pending /\ N[x].async = mod[x].async
              /\ N[x].stamp = mod[x].stamp /\ N[x].parents = mod[x].parents /\ N[x].error = mod[x].error
    <3>1. mod \in ModuleTables BY <1>3
    <3> QED BY <3>1, <1>21, <2>4, PromiseFields
  <2> HIDE DEF N
  <2>6. calls' = <<>> /\ \A op : ~Doing(op)' BY <1>1, <1>4, <2>1, CallSteps DEF Doing
  <2>7. Shaped' BY <1>1, <1>2, <1>3, <2>1, <2>5, <2>6, ShapedNext
  <2>8. WalkInv'
    <3>1. \A x \in Modules : mod'[x].status = mod[x].status BY <2>1, <2>5
    <3>2. \A x \in Modules : mod'[x].status \in Linked => \A e \in Imports(x) : mod'[e].status \in Linked
      BY <1>10, <1>11, <3>1
    <3>3. \A x \in Modules : mod'[x].status \notin {"linking", "evaluating"} BY <1>8, <3>1
    <3> QED BY <1>2, <2>6, <3>2, <3>3, IdleWalkNext
  <2>9. Answer(m)
    <3>1. mod'[m].promise = v BY <2>1, <2>5
    <3>2. v = IF mod[m].error # None THEN "rejected" ELSE IF mod[m].async THEN "pending" ELSE "fulfilled"
      BY DEF v
    <3>3. mod[m].status \in Ended /\ mod[m].root = m /\ mod[m].promise = "none"
      BY <1>14, <1>17 DEF Ended
    <3> QED BY <3>1, <3>2, <3>3 DEF Answer
  <2>10. \A x \in Modules : mod'[x].promise = mod[x].promise \/ Answer(x) BY <2>1, <2>5, <2>9
  <2>11. LinkEff BY <1>2, <1>5, <1>8, <2>1, <2>5, <2>6, <2>10 DEF LinkEff, Ended
  <2> QED BY <2>3, <2>7, <2>8, <2>11
<1> QED BY <1>14, <1>15, <1>16, <1>17

-----------------------------------------------------------------------------
(* What the invariant says of cycles *)

\* The parts of LateInv.
LEMMA LateParts ==
  ASSUME LateInv
  PROVE  /\ FreshInv /\ RootInv /\ ErrorInv /\ StackBodies /\ EndedBodies /\ TodoInv /\ JobsInv
         /\ PromiseInv /\ WaitInv /\ StampInv /\ CountInv /\ TreeInv /\ ImportsInv /\ JumpInv
         /\ DependenciesFirst
BY DEF LateInv

\* The members of a cycle whose root is through are through.
LEMMA CycleThrough ==
  ASSUME Shaped, LateInv, NEW x \in Modules, mod[x].status \in Ended, Complete(mod[x].root)
  PROVE  Complete(x) /\ body[x] = "done"
<1>1. RootInv /\ ErrorInv /\ EndedBodies /\ WaitInv /\ TreeInv BY LateParts
<1> DEFINE T == {y \in Modules : /\ mod[y].status = "evaluating_async" /\ Complete(mod[y].root)}
           f == [y \in Modules |-> mod[y].dfs]
<1>2. T = {}
  <2> SUFFICES ASSUME T # {} PROVE FALSE OBVIOUS
  <2>1. T \subseteq Modules /\ \A y \in Modules : f[y] \in Nat BY ModTypes
  <2>2. PICK y \in T : \A z \in T : f[y] <= f[z] BY <2>1, LeastModule
  <2>3. mod[y].status = "evaluating_async" /\ Complete(mod[y].root) /\ y \in Modules /\ mod[y].root # y
    BY <2>2 DEF Complete
  <2>4. PICK z \in Modules : Waits(z, y) /\ mod[z].root = mod[y].root /\ mod[z].dfs < mod[y].dfs
    BY <1>1, <2>3 DEF TreeInv
  <2>5. mod[z].status \in Ended
    <3>1. mod[y].root \in Modules /\ mod[y].root # None
      BY <1>1, <2>3, NoneAssumption DEF RootInv, Ended
    <3> QED BY <1>1, <2>4, <3>1 DEF RootInv
  <2>6. mod[z].error = None BY <1>1, <2>3, <2>4, <2>5 DEF RootInv, Complete
  <2>7. mod[z].status = "evaluating_async" BY <1>1, <2>3, <2>4, <2>5, <2>6 DEF WaitInv, Ended
  <2>8. z \in T BY <2>3, <2>4, <2>7
  <2>9. mod[y].dfs <= mod[z].dfs /\ mod[y].dfs \in Nat /\ mod[z].dfs \in Nat
    BY <2>2, <2>3, <2>8, ModTypes
  <2> QED BY <2>4, <2>9
<1>3. mod[x].status = "evaluated" BY <1>2 DEF Ended
<1>4. mod[x].error = None BY <1>1 DEF RootInv, Complete
<1> QED BY <1>1, <1>3, <1>4 DEF EndedBodies, Complete

\* A cycle that is through needs nothing but what is through.
LEMMA GraphThrough ==
  ASSUME Shaped, LateInv, NEW x \in Modules, mod[x].status \in Ended, Complete(mod[x].root)
  PROVE  \A y \in Needs(x) : body[y] = "done"
<1>1. RootInv /\ WaitInv /\ ImportsInv /\ ImportsTyped BY LateParts, Typed
<1> DEFINE S == {y \in Modules : mod[y].status \in Ended /\ Complete(mod[y].root)}
<1>2. ASSUME NEW y \in S, NEW d \in Imports(y)
      PROVE  d \in S
  <2>1. y \in Modules /\ mod[y].status \in Ended /\ Complete(mod[y].root) /\ d \in Modules
    BY <1>1, ImportTypes
  <2>2. Complete(y) BY <2>1, CycleThrough
  <2>3. mod[d].status \in Ended /\ (mod[d].root = mod[y].root \/ DoneFor(y, d))
    BY <1>1, <2>1, <2>2 DEF ImportsInv, Complete
  <2>4. CASE mod[d].root = mod[y].root BY <2>1, <2>3, <2>4
  <2>5. CASE DoneFor(y, d)
    <3>1. mod[d].root \in Modules BY <1>1, <2>1, <2>3 DEF RootInv
    <3>2. Waits(y, mod[d].root) => Complete(mod[d].root)
      BY <1>1, <2>1, <2>2, <3>1 DEF WaitInv, Complete
    <3> QED BY <2>1, <2>3, <2>5, <3>2 DEF DoneFor
  <2> QED BY <2>3, <2>4, <2>5
<1>3. S \in SUBSET Modules /\ x \in S OBVIOUS
<1> HIDE DEF S
<1>4. Needs(x) \subseteq S BY <1>2, <1>3, NeedsLeast
<1> QED BY <1>4, CycleThrough DEF S

-----------------------------------------------------------------------------
(* The lists of importers *)

\* The lists of importers have finitely many entries.
LEMMA EntriesFinite ==
  ASSUME NEW M \in ModuleTables, NEW S \in SUBSET Modules, NEW p
  PROVE  IsFiniteSet(Entries(M, S, p)) /\ Cardinality(Entries(M, S, p)) \in Nat
<1> DEFINE L(x) == {x} \X DOMAIN M[x].parents
<1>1. IsFiniteSet(S) BY ModulesAssumption, FS_Subset
<1>2. \A x \in S : IsFiniteSet(L(x))
  <2> TAKE x \in S
  <2>1. M[x].parents \in Seq(Modules) BY FieldTypes
  <2>2. DOMAIN M[x].parents = 1..Len(M[x].parents) /\ Len(M[x].parents) \in Nat BY <2>1
  <2>3. IsFiniteSet(1..Len(M[x].parents)) BY <2>2, FS_Interval
  <2>4. IsFiniteSet({x}) BY FS_Singleton
  <2> QED BY <2>2, <2>3, <2>4, FS_Product
<1> DEFINE T == {L(x) : x \in S}
           f == [x \in S |-> L(x)]
<1>3. IsFiniteSet(T)
  <2> HIDE DEF L
  <2>1. f \in Surjection(S, T) BY DEF Surjection
  <2> QED BY <1>1, <2>1, FS_Surjection
<1>4. IsFiniteSet(UNION T)
  <2>1. \A t \in T : IsFiniteSet(t) BY <1>2
  <2> HIDE DEF T
  <2> QED BY <1>3, <2>1, FS_UNION
<1>5. Entries(M, S, p) \in SUBSET (UNION T) BY DEF Entries
<1> HIDE DEF T
<1>6. IsFiniteSet(Entries(M, S, p)) BY <1>4, <1>5, FS_Subset
<1> QED BY <1>6, FS_CardinalityType

\* A registration is one entry more.
LEMMA EntriesAppend ==
  ASSUME NEW M \in ModuleTables, NEW N \in ModuleTables, NEW S \in SUBSET Modules,
         NEW r \in S, NEW m \in Modules, N[r].parents = Append(M[r].parents, m),
         \A x \in Modules : x # r => N[x].parents = M[x].parents
  PROVE  /\ \A p : p # m => Entries(N, S, p) = Entries(M, S, p)
         /\ Cardinality(Entries(N, S, m)) = Cardinality(Entries(M, S, m)) + 1
<1>1. \A x \in Modules : /\ M[x].parents \in Seq(Modules) /\ DOMAIN M[x].parents = 1..Len(M[x].parents)
                         /\ Len(M[x].parents) \in Nat
  <2>1. \A s \in Seq(Modules) : DOMAIN s = 1..Len(s) /\ Len(s) \in Nat OBVIOUS
  <2> QED BY <2>1, FieldTypes
<1> DEFINE k == Len(M[r].parents) + 1
<1>2. /\ DOMAIN N[r].parents = DOMAIN M[r].parents \cup {k} /\ k \notin DOMAIN M[r].parents
      /\ N[r].parents[k] = m
      /\ \A i \in DOMAIN M[r].parents : N[r].parents[i] = M[r].parents[i]
  <2>1. \A s \in Seq(Modules) :
           /\ DOMAIN Append(s, m) = DOMAIN s \cup {Len(s) + 1} /\ Len(s) + 1 \notin DOMAIN s
           /\ Append(s, m)[Len(s) + 1] = m
           /\ \A i \in DOMAIN s : Append(s, m)[i] = s[i]
    OBVIOUS
  <2> QED BY <1>1, <2>1
<1> HIDE DEF k
<1>3. \A x, i, p : <<x, i>> \in Entries(M, S, p) <=> x \in S /\ i \in DOMAIN M[x].parents /\ M[x].parents[i] = p
  BY DEF Entries
<1>4. \A x, i, p : <<x, i>> \in Entries(N, S, p) <=> x \in S /\ i \in DOMAIN N[x].parents /\ N[x].parents[i] = p
  BY DEF Entries
<1>5. \A p : \A e \in Entries(M, S, p) \cup Entries(N, S, p) : \E x, i : e = <<x, i>>
  BY DEF Entries
<1>13. \A x, i, p : x # r => (<<x, i>> \in Entries(N, S, p) <=> <<x, i>> \in Entries(M, S, p))
  BY <1>3, <1>4
<1>14. \A i, p : <<r, i>> \in Entries(N, S, p) <=>
         <<r, i>> \in Entries(M, S, p) \/ (i = k /\ p = m)
  <2> TAKE i, p
  <2>1. <<r, i>> \in Entries(N, S, p) <=> i \in DOMAIN N[r].parents /\ N[r].parents[i] = p BY <1>4
  <2>2. <<r, i>> \in Entries(M, S, p) <=> i \in DOMAIN M[r].parents /\ M[r].parents[i] = p BY <1>3
  <2> QED BY <1>2, <2>1, <2>2
<1>6. \A x, i, p : p # m => (<<x, i>> \in Entries(N, S, p) <=> <<x, i>> \in Entries(M, S, p))
  BY <1>13, <1>14
<1>7. \A p : p # m => Entries(N, S, p) = Entries(M, S, p)
  <2> TAKE p
  <2>1. ASSUME p # m, NEW e PROVE e \in Entries(N, S, p) <=> e \in Entries(M, S, p)
    <3>1. CASE \E x, i : e = <<x, i>> BY <2>1, <3>1, <1>6
    <3>2. CASE ~\E x, i : e = <<x, i>> BY <3>2, <1>5
    <3> QED BY <3>1, <3>2
  <2> QED BY <2>1
<1>8. \A x, i : <<x, i>> \in Entries(N, S, m) <=> <<x, i>> \in Entries(M, S, m) \/ (x = r /\ i = k)
  BY <1>13, <1>14
<1>9. Entries(N, S, m) = Entries(M, S, m) \cup {<<r, k>>} BY <1>5, <1>8
<1>10. <<r, k>> \notin Entries(M, S, m) BY <1>2, <1>3
<1>11. IsFiniteSet(Entries(M, S, m)) BY EntriesFinite
<1>12. Cardinality(Entries(N, S, m)) = Cardinality(Entries(M, S, m)) + 1
  BY <1>9, <1>10, <1>11, FS_AddElement
<1> QED BY <1>7, <1>12

\* What the number of entries depends on.
LEMMA EntriesSame ==
  ASSUME NEW M, NEW N, NEW S \in SUBSET Modules, NEW T \in SUBSET Modules, NEW p,
         \A x \in Modules : N[x].parents = M[x].parents,
         \A x \in Modules : p \in ToSet(M[x].parents) => (x \in S <=> x \in T)
  PROVE  Entries(N, T, p) = Entries(M, S, p)
<1>1. \A e : e \in Entries(M, S, p) <=>
            \E x \in S : \E i \in DOMAIN M[x].parents : e = <<x, i>> /\ M[x].parents[i] = p
  BY DEF Entries
<1>2. \A e : e \in Entries(N, T, p) <=>
            \E x \in T : \E i \in DOMAIN N[x].parents : e = <<x, i>> /\ N[x].parents[i] = p
  BY DEF Entries
<1>3. \A x \in Modules : \A i \in DOMAIN M[x].parents : M[x].parents[i] = p => (x \in S <=> x \in T)
  BY DEF ToSet
<1>4. \A e : e \in Entries(N, T, p) <=> e \in Entries(M, S, p) BY <1>1, <1>2, <1>3
<1> QED BY <1>4

\* A module has an entry where it waits.
LEMMA EntriesWaits ==
  ASSUME NEW M, NEW S \in SUBSET Modules, NEW p
  PROVE  Entries(M, S, p) = {} <=> \A x \in S : p \notin ToSet(M[x].parents)
<1>1. \A e : e \in Entries(M, S, p) <=>
            \E x \in S : \E i \in DOMAIN M[x].parents : e = <<x, i>> /\ M[x].parents[i] = p
  BY DEF Entries
<1>2. \A x \in S : p \in ToSet(M[x].parents) <=> \E i \in DOMAIN M[x].parents : M[x].parents[i] = p
  BY DEF ToSet
<1>3. ASSUME NEW x \in S, p \in ToSet(M[x].parents) PROVE Entries(M, S, p) # {}
  <2>1. PICK i \in DOMAIN M[x].parents : M[x].parents[i] = p BY <1>2, <1>3
  <2> QED BY <1>1, <2>1
<1>4. \A e \in Entries(M, S, p) : \E x \in S : p \in ToSet(M[x].parents) BY <1>1, <1>2
<1> QED BY <1>3, <1>4

-----------------------------------------------------------------------------
(* The evaluation is done with an import *)

\* A step with the effect ReturnEff keeps the parts about evaluation.
LEMMA ReturnLate ==
  ASSUME Shaped, WalkInv, LateInv, mod' \in ModuleTables, NEW m \in Modules, NEW d \in Modules,
         NEW r \in Modules, ReturnEff(m, d, r)
  PROVE  LateInv'
<1>1. Kept /\ body' = body /\ jobs' = jobs /\ clock' = clock /\ has_tla' = has_tla
  BY DEF ReturnEff, Kept
<1>2. Doing("eval") /\ ~Doing("exec") /\ ~Doing("exec")' /\ Doing("eval")' /\ C1'.root = C1.root
  BY DEF ReturnEff
<1>3. InPath(m) /\ ~AtTheEnd(C1) /\ d \in Imports(m) /\ (\A x : Looks(C1, x) => x = d)
      /\ Top(C1) = m /\ \A z \in Modules : InPath(z) => mod[z].dfs <= mod[m].dfs
  BY DEF ReturnEff
<1>4. /\ mod[d].status = "evaluating" => r = d
      /\ mod[d].status # "evaluating" => /\ mod[d].status \in Ended /\ r = mod[d].root
                                         /\ mod[d].error = None /\ mod[r].error = None
  BY DEF ReturnEff
<1>5. \A x \in Modules :
       /\ mod'[x].status = mod[x].status /\ mod'[x].dfs = mod[x].dfs /\ mod'[x].root = mod[x].root
       /\ mod'[x].async = mod[x].async /\ mod'[x].stamp = mod[x].stamp
       /\ mod'[x].error = mod[x].error /\ mod'[x].promise = mod[x].promise
       /\ x # m => mod'[x].pending = mod[x].pending
       /\ x # r => mod'[x].parents = mod[x].parents
  BY DEF ReturnEff
<1>6. mod[r].async => /\ mod'[m].pending = mod[m].pending + 1
                      /\ mod'[r].parents = Append(mod[r].parents, m)
  BY DEF ReturnEff
<1>7. ~mod[r].async => mod'[m].pending = mod[m].pending /\ mod'[r].parents = mod[r].parents
  BY DEF ReturnEff
<1>8. /\ \A x \in Modules : InPath(x)' <=> InPath(x)
      /\ \A p, e \in Modules : Gone(p, e)' <=> Gone(p, e) \/ (p = m /\ e = d)
  BY DEF ReturnEff
<1>10. /\ FreshInv /\ RootInv /\ ErrorInv /\ StackBodies /\ EndedBodies /\ TodoInv /\ JobsInv
       /\ PromiseInv /\ WaitInv /\ StampInv /\ CountInv /\ TreeInv /\ ImportsInv /\ JumpInv
       /\ DependenciesFirst
  BY LateParts
<1>11. Todo = {} /\ Todo' = {} BY <1>2 DEF Todo
<1>12. \A x : Needs(x)' = Needs(x) /\ Imports(x)' = Imports(x) BY <1>1, NeedsKept
<1>13. /\ mod[m].status = "evaluating" /\ mod[m].parents = <<>> /\ body[m] = "unrun" /\ ~mod[m].async
       /\ mod[m].root = None /\ mod[m].error = None
  BY <1>3, <1>10 DEF StackBodies, PathBody, RootInv, ErrorInv, Ended
<1>14. \A x \in Modules : InPath(x) => mod[x].status = "evaluating" /\ mod[x].parents = <<>> /\ body[x] = "unrun" /\ ~mod[x].async
  BY <1>3, <1>10 DEF StackBodies, PathBody
<1>15. mod[r].async => mod[r].status # "evaluated" /\ mod[r].status \in Ended \cup {"evaluating"} /\ ~InPath(r) /\ r # m
  BY <1>4, <1>10, <1>13, <1>14 DEF EndedBodies, RootInv
<1>16. \A x \in Modules : /\ mod[x].parents \in Seq(Modules)
                          /\ ToSet(Append(mod[x].parents, m)) = ToSet(mod[x].parents) \cup {m}
  <2>1. \A s \in Seq(Modules) : ToSet(Append(s, m)) = ToSet(s) \cup {m}
    <3> TAKE s \in Seq(Modules)
    <3>1. DOMAIN Append(s, m) = DOMAIN s \cup {Len(s) + 1} /\ Append(s, m)[Len(s) + 1] = m
          /\ \A i \in DOMAIN s : Append(s, m)[i] = s[i]
      OBVIOUS
    <3> QED BY <3>1 DEF ToSet
  <2> QED BY <2>1, ModTypes
<1>17. \A x \in Modules : \A p : Waits(p, x)' <=> Waits(p, x) \/ (mod[r].async /\ x = r /\ p = m)
  <2>1. \A x \in Modules : ToSet(mod'[x].parents) =
          IF mod[r].async /\ x = r THEN ToSet(mod[x].parents) \cup {m} ELSE ToSet(mod[x].parents)
    <3>1. \A x \in Modules : mod'[x].parents = IF mod[r].async /\ x = r THEN Append(mod[x].parents, m)
                                               ELSE mod[x].parents
      BY <1>5, <1>6, <1>7
    <3> QED BY <3>1, <1>16
  <2> QED BY <2>1 DEF Waits
<1>18. r \in Needs(m)
  <2>1. m \in Needs(m) /\ d \in Needs(m) /\ Needs(m) \subseteq Modules
    BY <1>3, NeedsSelf, NeedsImport
  <2>2. CASE mod[d].status = "evaluating" BY <1>4, <2>1, <2>2
  <2>3. CASE mod[d].status # "evaluating"
    <3>1. r \in Needs(d) BY <1>4, <2>3, <1>10 DEF RootInv
    <3> QED BY <2>1, <3>1, NeedsTransitive, Typed, ImportTypes
  <2> QED BY <2>2, <2>3
<1>20. FreshInv'
  <2>1. \A x \in Modules : mod[x].status \notin Ended \cup {"evaluating"} => x # m /\ (x = r => ~mod[r].async)
    BY <1>13, <1>15
  <2> QED BY <2>1, <1>1, <1>5, <1>7, <1>10 DEF FreshInv
<1>21. RootInv'
  <2>1. \A x \in Modules : mod'[x].status \notin Ended => mod'[x].root = None
    BY <1>5, <1>10 DEF RootInv
  <2>2. ASSUME NEW x \in Modules, mod'[x].status \in Ended
        PROVE  /\ mod'[x].root \in Modules /\ mod'[mod'[x].root].status \in Ended
               /\ mod'[mod'[x].root].root = mod'[x].root
               /\ mod'[x].error # None => mod'[mod'[x].root].error # None
    BY <2>2, <1>5, <1>10 DEF RootInv
  <2>3. \A x, y \in Modules : mod'[x].status \in Ended /\ mod'[x].error = None /\ mod'[y].root = mod'[x].root =>
       mod'[x].root \in Needs(y) /\ y \in Needs(mod'[x].root)
    BY <1>5, <1>10 DEF RootInv
  <2> QED BY <2>1, <2>2, <2>3, <1>12 DEF RootInv
<1>22. ErrorInv' BY <1>1, <1>5, <1>12, <1>10 DEF ErrorInv
<1>23. StackBodies'
  <2>1. ASSUME NEW x \in Modules, mod'[x].status = "evaluating", ~InPath(x)' PROVE Finished(x)'
    <3>1. Finished(x) /\ x # m BY <2>1, <1>3, <1>5, <1>8, <1>10 DEF StackBodies
    <3>2. ~mod[x].async => mod'[x].parents = mod[x].parents BY <1>5, <1>7
    <3> QED BY <3>1, <3>2, <1>1, <1>5 DEF Finished
  <2>2. ASSUME NEW x \in Modules, InPath(x)'
        PROVE  mod'[x].status = "evaluating" /\ mod'[x].parents = <<>> /\ body'[x] = "unrun" /\ ~mod'[x].async
    <3>1. InPath(x) BY <2>2, <1>8
    <3>2. mod'[x].parents = mod[x].parents BY <3>1, <1>5, <1>7, <1>15
    <3> QED BY <3>1, <3>2, <1>1, <1>5, <1>14
  <2>3. \A x \in Modules : body'[x] = "unrun" /\ ~mod'[x].async => PathBody(x)' BY DEF PathBody
  <2> QED BY <2>1, <2>2, <2>3 DEF StackBodies
<1>24. EndedBodies'
  <2>1. \A x \in Modules : mod[x].status \in Ended => mod'[x].pending = mod[x].pending
    BY <1>5, <1>13 DEF Ended
  <2> QED BY <2>1, <1>1, <1>5, <1>11, <1>10 DEF EndedBodies, Ended
<1>25. TodoInv' BY <1>2 DEF TodoInv
<1>26. JobsInv'
  <2>1. \A i \in 1..Len(jobs) : jobs[i].m \in Modules BY JobTypes
  <2>2. has_tla \subseteq Modules BY DEF Shaped
  <2> QED BY <2>1, <2>2, <1>1, <1>5, <1>10 DEF JobsInv
<1>27. PromiseInv' BY <1>2, <1>5, <1>10 DEF PromiseInv
<1>28. WaitInv'
  <2>1. ASSUME NEW x \in Modules, NEW p \in Modules, Waits(p, x)'
        PROVE  /\ x \in Needs(p) /\ mod'[p].status \in Ended \cup {"evaluating"}
               /\ mod'[x].status = "evaluating" => mod'[p].status = "evaluating" /\ Gone(p, x)'
               /\ mod'[x].error # None => mod'[p].error # None
               /\ mod'[x].status # "evaluated" /\ mod'[p].error = None =>
                    mod'[p].status # "evaluated" /\ body'[p] = "unrun"
    <3>1. CASE Waits(p, x) BY <3>1, <1>1, <1>5, <1>8, <1>10 DEF WaitInv
    <3>2. CASE mod[r].async /\ x = r /\ p = m
      <4>1. mod[r].status = "evaluating" => r = d BY <1>4, <1>10 DEF RootInv, Ended
      <4>2. mod[r].error = None BY <1>4, <1>10 DEF ErrorInv
      <4> QED BY <3>2, <4>1, <4>2, <1>1, <1>5, <1>8, <1>13, <1>18
    <3> QED BY <2>1, <3>1, <3>2, <1>17
  <2> QED BY <2>1, <1>11, <1>12 DEF WaitInv
<1>29. StampInv'
  <2>1. \A x \in Modules : mod'[x].async \/ mod'[x].parents # <<>> => mod'[x].stamp < clock
    <3>1. \A x \in Modules : mod'[x].parents # <<>> => mod[x].parents # <<>> \/ mod[x].async
      BY <1>5, <1>7
    <3> QED BY <3>1, <1>5, <1>10 DEF StampInv
  <2>2. \A x, p \in Modules : Waits(p, x)' /\ mod'[p].async => mod'[x].stamp < mod'[p].stamp
    BY <1>5, <1>10, <1>13, <1>17 DEF StampInv
  <2> QED BY <2>1, <2>2, <1>1 DEF StampInv
<1>30. CountInv'
  <2>1. Open' = Open /\ Open \in SUBSET Modules BY <1>1, <1>5, <1>11 DEF Open
  <2>2. mod \in ModuleTables BY DEF Shaped
  <2>3. ASSUME NEW p \in Modules, mod[p].pending = Cardinality(Entries(mod, Open, p))
        PROVE  mod'[p].pending = Cardinality(Entries(mod', Open, p))
    <3>1. CASE mod[r].async
      <4>1. r \in Open BY <3>1, <1>11, <1>15 DEF Open
      <4>2. /\ \A q : q # m => Entries(mod', Open, q) = Entries(mod, Open, q)
            /\ Cardinality(Entries(mod', Open, m)) = Cardinality(Entries(mod, Open, m)) + 1
        <5>1. mod'[r].parents = Append(mod[r].parents, m) /\ \A x \in Modules : x # r => mod'[x].parents = mod[x].parents
          BY <3>1, <1>5, <1>6
        <5> QED BY <2>1, <2>2, <4>1, <5>1, EntriesAppend
      <4>3. CASE p = m BY <4>2, <4>3, <3>1, <1>6, <2>3
      <4>4. CASE p # m BY <4>2, <4>4, <1>5, <2>3
      <4> QED BY <4>3, <4>4
    <3>2. CASE ~mod[r].async
      <4>1. \A x \in Modules : mod'[x].parents = mod[x].parents /\ mod'[x].pending = mod[x].pending
        BY <3>2, <1>5, <1>7
      <4>2. Entries(mod', Open, p) = Entries(mod, Open, p) BY <2>1, <4>1, EntriesSame
      <4> QED BY <4>1, <4>2, <2>3
    <3> QED BY <3>1, <3>2
  <2>4. \A p \in Modules : mod'[p].error = mod[p].error /\ mod'[p].root = mod[p].root
          /\ (mod[p].root # None => mod'[mod[p].root].error = mod[mod[p].root].error)
    BY <1>5, ModTypes
  <2>5. \A p : Entries(mod, Open, p)' = Entries(mod', Open, p) BY <2>1 DEF Entries
  <2> QED BY <2>3, <2>4, <2>5, <1>10 DEF CountInv
<1>31. TreeInv'
  <2>1. ASSUME NEW x \in Modules, mod'[x].status = "evaluating_async", mod'[x].root # x
        PROVE  \E y \in Modules : Waits(y, x)' /\ mod'[y].root = mod'[x].root /\ mod'[y].dfs < mod'[x].dfs
    BY <2>1, <1>5, <1>17, <1>10 DEF TreeInv
  <2>2. ASSUME NEW x \in Modules, mod'[x].status = "evaluating", ~InPath(x)', mod'[x].async
        PROVE  \E y \in Modules : Above(y, x)'
    <3>1. mod[x].status = "evaluating" /\ ~InPath(x) /\ mod[x].async BY <2>2, <1>5, <1>8
    <3>2. CASE \E y \in Modules : Above(y, x)
      <4>1. PICK y \in Modules : Above(y, x) BY <3>2
      <4>2. Above(y, x)' BY <4>1, <1>5, <1>8, <1>17 DEF Above
      <4> QED BY <4>2
    <3>3. CASE Looks(C1, x) /\ mod[Top(C1)].dfs < mod[x].dfs
      <4>1. x = d /\ r = d /\ mod[m].dfs < mod[d].dfs /\ mod[r].async BY <3>1, <3>3, <1>3, <1>4
      <4>2. Waits(m, d)' BY <4>1, <1>17
      <4>3. Above(m, d)' BY <4>1, <4>2, <1>3, <1>5, <1>8, <1>13 DEF Above
      <4> QED BY <4>1, <4>3
    <3> QED BY <3>1, <3>2, <3>3, <1>10 DEF TreeInv
  <2> QED BY <2>1, <2>2 DEF TreeInv
<1>32. ImportsInv'
  <2>0. \A p \in Modules : Imports(p) \subseteq Modules BY Typed, ImportTypes
  <2>1. \A p, e \in Modules : mod[e].root \in Modules /\ DoneFor(p, e) => DoneFor(p, e)'
    BY <1>5, <1>17 DEF DoneFor, Complete
  <2>2. ASSUME NEW p \in Modules, mod'[p].status \in Ended, mod'[p].error = None, NEW e \in Imports(p)
        PROVE  mod'[e].status \in Ended /\ (mod'[e].root = mod'[p].root \/ DoneFor(p, e)')
    <3>1. e \in Modules /\ mod[e].status \in Ended /\ (mod[e].root = mod[p].root \/ DoneFor(p, e))
      BY <2>0, <2>2, <1>5, <1>10 DEF ImportsInv
    <3>2. mod[e].root \in Modules BY <3>1, <1>10 DEF RootInv
    <3> QED BY <2>1, <3>1, <3>2, <1>5
  <2>3. ASSUME NEW p \in Modules, mod'[p].status = "evaluating", NEW e \in Modules, Gone(p, e)'
        PROVE  mod'[e].status = "evaluating" \/ (mod'[e].status \in Ended /\ DoneFor(p, e)')
    <3>1. CASE Gone(p, e)
      <4>1. mod[e].status = "evaluating" \/ (mod[e].status \in Ended /\ DoneFor(p, e))
        BY <2>3, <3>1, <1>5, <1>10 DEF ImportsInv
      <4>2. mod[e].status \in Ended => mod[e].root \in Modules BY <1>10 DEF RootInv
      <4> QED BY <2>1, <4>1, <4>2, <1>5
    <3>2. CASE p = m /\ e = d
      <4>1. CASE mod[d].status = "evaluating" BY <3>2, <4>1, <1>5
      <4>2. CASE mod[d].status # "evaluating"
        <5>1. mod[d].status \in Ended /\ r = mod[d].root /\ mod[r].error = None /\ mod[r].status \in Ended
          BY <4>2, <1>4, <1>10 DEF RootInv
        <5>2. mod[r].async => Waits(m, r)' BY <1>17
        <5>3. ~mod[r].async => Complete(r) BY <5>1, <1>10 DEF EndedBodies, Complete, Ended
        <5>4. Complete(r) => Complete(r)' BY <1>5 DEF Complete
        <5>5. mod'[d].root = r BY <5>1, <1>5
        <5>6. DoneFor(m, d)' BY <5>2, <5>3, <5>4, <5>5 DEF DoneFor, Complete, Waits
        <5> QED BY <3>2, <5>1, <5>6, <1>5
      <4> QED BY <4>1, <4>2
    <3> QED BY <2>3, <3>1, <3>2, <1>8
  <2> QED BY <2>2, <2>3, <1>12 DEF ImportsInv
<1>33. JumpInv'
  <2> SUFFICES ASSUME NEW p \in Modules, NEW e \in Modules, NEW z \in Modules,
                      mod'[p].status = "evaluating", mod'[e].status = "evaluating", Gone(p, e)',
                      InPath(z)', mod'[z].dfs <= mod'[e].dfs
               PROVE  mod'[z].dfs <= mod'[p].dfs
    BY DEF JumpInv
  <2>1. /\ mod[p].status = "evaluating" /\ mod[e].status = "evaluating" /\ InPath(z)
        /\ mod[z].dfs <= mod[e].dfs /\ mod'[z].dfs = mod[z].dfs /\ mod'[p].dfs = mod[p].dfs
    BY <1>5, <1>8
  <2>2. CASE Gone(p, e) BY <2>1, <2>2, <1>10 DEF JumpInv
  <2>3. CASE p = m BY <2>1, <2>3, <1>3
  <2> QED BY <2>1, <2>2, <2>3, <1>8
<1>34. DependenciesFirst' BY <1>1, <1>10, DependenciesKept
<1> QED
  BY <1>20, <1>21, <1>22, <1>23, <1>24, <1>25, <1>26, <1>27, <1>28, <1>29, <1>30, <1>31, <1>32,
     <1>33, <1>34 DEF LateInv

\* What a call that is done with d has passed.
LEMMA GoesView ==
  ASSUME ImportsTyped, NEW M \in ModuleTables, NEW c \in Calls, NEW c2, FramesInv(M, c), GoesOn(c, c2),
         NEW d, Looks(c, d)
  PROVE  /\ \A x : (\E k \in Deep(c2) : At(c2, k) = x) <=> (\E k \in Deep(c) : At(c, k) = x)
         /\ \A p, e : Passed(c2, p, e) <=> Passed(c, p, e) \/ (p = Top(c) /\ e = d)
<1> DEFINE n == Len(c.frames)
           t == Top(c)
           i0 == Nx(c, n)
<1>1. /\ n \in Nat /\ n \in Deep(c) /\ Deep(c) = 1..n /\ Deep(c2) = 1..n
      /\ \A k \in 1..n : At(c2, k) = At(c, k)
      /\ \A k \in 1..n : k # n => Nx(c2, k) = Nx(c, k)
      /\ Nx(c2, n) = i0 + 1
  BY DEF GoesOn
<1>2. /\ At(c, n) = t /\ t \in Modules /\ i0 \in DOMAIN imports[t] /\ imports[t][i0] = d
      /\ \A k \in 1..n : Nx(c, k) \in Nat
  BY <1>1, CallTypes DEF Looks, Top
<1>3. \A k \in 1..n : At(c, k) = t => k = n BY <1>1, <1>2, OneFrame
<1>4. DOMAIN imports[t] = 1..Len(imports[t]) /\ Len(imports[t]) \in Nat BY <1>2, ImportTypes
<1> HIDE DEF n, t, i0
<1>5. \A p, e : p # t => (Passed(c2, p, e) <=> Passed(c, p, e))
  <2> SUFFICES ASSUME NEW p, NEW e, p # t PROVE Passed(c2, p, e) <=> Passed(c, p, e)
    OBVIOUS
  <2>1. \A k \in 1..n : At(c, k) = p => k # n BY <1>2
  <2>2. \A i : (\A k \in Deep(c2) : At(c2, k) = p => i < Nx(c2, k)) <=>
               (\A k \in Deep(c) : At(c, k) = p => i < Nx(c, k))
    BY <1>1, <2>1
  <2> QED BY <2>2 DEF Passed
<1>6. \A e : Passed(c2, t, e) <=> \E i \in DOMAIN imports[t] : imports[t][i] = e /\ i < i0 + 1
  BY <1>1, <1>2, <1>3 DEF Passed
<1>7. \A e : Passed(c, t, e) <=> \E i \in DOMAIN imports[t] : imports[t][i] = e /\ i < i0
  BY <1>1, <1>2, <1>3 DEF Passed, i0
<1>8. \A i \in DOMAIN imports[t] : i < i0 + 1 <=> i < i0 \/ i = i0 BY <1>2, <1>4
<1>9. \A e : Passed(c2, t, e) <=> Passed(c, t, e) \/ e = d BY <1>2, <1>6, <1>7, <1>8
<1>10. \A p, e : Passed(c2, p, e) <=> Passed(c, p, e) \/ (p = t /\ e = d) BY <1>5, <1>9
<1>11. \A x : (\E k \in Deep(c2) : At(c2, k) = x) <=> (\E k \in Deep(c) : At(c, k) = x) BY <1>1
<1> QED BY <1>10, <1>11 DEF t

\* The module at the top was entered last.
LEMMA PathBelow ==
  ASSUME NEW M \in ModuleTables, NEW c \in Calls, FramesInv(M, c), NEW k \in Deep(c)
  PROVE  /\ M[At(c, k)].dfs <= M[Top(c)].dfs /\ At(c, k) \in On(c)
         /\ At(c, k) # Top(c) => M[At(c, k)].dfs < M[Top(c)].dfs
<1> DEFINE n == Len(c.frames)
<1>1. n \in Nat /\ Deep(c) = 1..n /\ k \in 1..n BY CallTypes DEF Deep
<1>2. n \in 1..n /\ (k = n \/ k < n) BY <1>1
<1>3. M[At(c, k)].dfs \in Nat /\ M[At(c, n)].dfs \in Nat /\ At(c, n) = Top(c)
  BY <1>1, <1>2, CallTypes, FieldTypes DEF Top
<1>4. k < n => M[At(c, k)].dfs < M[At(c, n)].dfs BY <1>1, <1>2 DEF FramesInv
<1>5. At(c, k) \in On(c) BY DEF FramesInv
<1> HIDE DEF n
<1> QED BY <1>2, <1>3, <1>4, <1>5

\* The fields of the modules after m registered with r.
LEMMA RegisterFields ==
  ASSUME NEW M \in ModuleTables, NEW m \in Modules, NEW r \in Modules, NEW Z, Registers(M, m, r, Z)
  PROVE  /\ Z \in ModuleTables
         /\ Z[m].pending = M[m].pending + 1 /\ Z[r].parents = Append(M[r].parents, m)
         /\ \A x \in Modules :
              /\ x # m => Z[x].pending = M[x].pending
              /\ x # r => Z[x].parents = M[x].parents
              /\ Z[x].status = M[x].status /\ Z[x].dfs = M[x].dfs /\ Z[x].anc = M[x].anc
              /\ Z[x].root = M[x].root /\ Z[x].async = M[x].async
              /\ Z[x].stamp = M[x].stamp /\ Z[x].error = M[x].error /\ Z[x].promise = M[x].promise
<1> DEFINE q == [M[m] EXCEPT !.pending = @ + 1]
           L == [M EXCEPT ![m] = q]
           s == [L[r] EXCEPT !.parents = Append(@, m)]
           N == [M EXCEPT ![m].pending = @ + 1, ![r].parents = Append(@, m)]
<1> HIDE DEF L, s, N
<1>1. M \in [Modules -> ModuleFields] /\ M[m] \in ModuleFields BY FieldTypes DEF ModuleTables
<1>2. /\ q \in ModuleFields /\ q.pending = M[m].pending + 1 /\ q.parents = M[m].parents
      /\ q.status = M[m].status /\ q.dfs = M[m].dfs /\ q.anc = M[m].anc
      /\ q.root = M[m].root /\ q.async = M[m].async
      /\ q.stamp = M[m].stamp /\ q.error = M[m].error /\ q.promise = M[m].promise
  <2>1. M[m].pending + 1 \in Nat BY <1>1 DEF ModuleFields
  <2>2. q \in ModuleFields BY <1>1, <2>1 DEF ModuleFields
  <2> QED BY <1>1, <2>2 DEF ModuleFields
<1>3. N = [L EXCEPT ![r] = s] BY <1>1 DEF N, L, s
<1> HIDE DEF q
<1>4. /\ L \in [Modules -> ModuleFields] /\ L[m] = q /\ \A x \in Modules : x # m => L[x] = M[x]
  BY <1>1, <1>2 DEF L
<1>5. L[r] \in ModuleFields BY <1>4
<1>6. Append(L[r].parents, m) \in Seq(Modules)
  <2>1. L[r].parents \in Seq(Modules) BY <1>5 DEF ModuleFields
  <2> QED BY <2>1
<1>7. /\ s \in ModuleFields /\ s.pending = L[r].pending /\ s.parents = Append(L[r].parents, m)
      /\ s.status = L[r].status /\ s.dfs = L[r].dfs /\ s.anc = L[r].anc
      /\ s.root = L[r].root /\ s.async = L[r].async
      /\ s.stamp = L[r].stamp /\ s.error = L[r].error /\ s.promise = L[r].promise
  BY <1>5, <1>6 DEF ModuleFields, s
<1>8. N \in ModuleTables /\ N[r] = s /\ \A x \in Modules : x # r => N[x] = L[x]
  BY <1>3, <1>4, <1>7 DEF ModuleTables
<1>9. \A x \in Modules :
              /\ x # m => L[x].pending = M[x].pending
              /\ L[x].parents = M[x].parents
              /\ L[x].status = M[x].status /\ L[x].dfs = M[x].dfs /\ L[x].anc = M[x].anc
              /\ L[x].root = M[x].root /\ L[x].async = M[x].async
              /\ L[x].stamp = M[x].stamp /\ L[x].error = M[x].error /\ L[x].promise = M[x].promise
  BY <1>2, <1>4
<1>10. \A x \in Modules :
              /\ N[x].pending = L[x].pending
              /\ x # r => N[x].parents = L[x].parents
              /\ N[x].status = L[x].status /\ N[x].dfs = L[x].dfs /\ N[x].anc = L[x].anc
              /\ N[x].root = L[x].root /\ N[x].async = L[x].async
              /\ N[x].stamp = L[x].stamp /\ N[x].error = L[x].error /\ N[x].promise = L[x].promise
  BY <1>7, <1>8
<1>11. N[m].pending = M[m].pending + 1 /\ N[r].parents = Append(M[r].parents, m)
  BY <1>2, <1>4, <1>7, <1>8, <1>9, <1>10
<1>12. N = Z BY DEF N, Registers
<1> QED BY <1>8, <1>9, <1>10, <1>11, <1>12

\* EvalReturns has the effect ReturnEff.
LEMMA EvalReturnsStep ==
  ASSUME IInv, EvalReturns
  PROVE  Shaped' /\ WalkInv' /\ asserts' /\ \E m, d, r \in Modules : ReturnEff(m, d, r)
<1>1. Shaped /\ WalkInv /\ AtChild("eval") BY DEF IInv, EvalReturns
<1>0. PICK d \in Modules : Child = d BY <1>1, ChildSeen
<1>2. /\ Doing("eval") /\ Looks(C1, d) /\ d \in Imports(Top(C1))
      /\ (\A x : Looks(C1, x) => x = d) /\ ~AtTheEnd(C1)
  BY <1>0, <1>1, ChildSeen
<1>3. /\ ImportsTyped /\ asserts /\ LateInv
      /\ mod \in ModuleTables /\ body \in [Modules -> Bodies] /\ jobs \in Seq(Reports) /\ clock \in Nat
      /\ calls # <<>> /\ C1 \in Calls /\ top = C1 /\ C1.frames # <<>> /\ C1.op = "eval" /\ C1.todo = <<>>
      /\ ~Doing("exec") /\ Walk(mod, C1, "evaluating", Ended)
      /\ (\A x \in Modules : mod[x].status = "evaluating" <=> x \in On(C1))
      /\ (\A x \in Modules : mod[x].status # "linking")
      /\ (\A x \in Modules : Imports(x) \subseteq Modules)
      /\ (\A x \in Modules : mod[x].status \in Linked => \A e \in Imports(x) : mod[e].status \in Linked)
      /\ Top(C1) \in Modules /\ frame.m = Top(C1) /\ InPath(Top(C1))
  BY <1>2, EvalState
<1>4. Kept /\ body' = body /\ jobs' = jobs /\ clock' = clock BY DEF EvalReturns, Kept, code
<1>5. /\ mod[d].status \in Ended \cup {"evaluating"}
      /\ mod[d].status \in Ended => mod[d].error = None /\ mod[mod[d].root].error = None
  BY <1>0 DEF EvalReturns
<1>6. RootInv BY <1>3, LateParts
<1>7. PICK r \in Modules : WaitedFor(d) = r BY <1>5, <1>6 DEF WaitedFor, RootInv
<1>8. /\ mod[d].status = "evaluating" => r = d
      /\ mod[d].status # "evaluating" => /\ mod[d].status \in Ended /\ r = mod[d].root
                                         /\ mod[d].error = None /\ mod[r].error = None
  BY <1>5, <1>7 DEF WaitedFor, Ended
<1>9. PICK m \in Modules : Top(C1) = m BY <1>3
<1> DEFINE a == mod[d].anc
           M == IF mod[d].status = "evaluating" THEN [mod EXCEPT ![m].anc = Min2(@, a)] ELSE mod
           c == NextChild
<1>10. /\ IF mod[r].async THEN Registers(M, m, r, mod') ELSE mod' = M
       /\ asserts' = (asserts /\ mod[r].status \in Ended \cup {"evaluating"}) /\ Replace(c)
  BY <1>0, <1>3, <1>7, <1>9 DEF EvalReturns, Registers
<1>11. asserts' BY <1>3, <1>5, <1>6, <1>8, <1>10 DEF RootInv
<1>12. GoesOn(C1, c) BY <1>3, NextCall DEF NextChild
<1>13. c \in Calls /\ c.op = "eval" /\ c.todo = <<>> /\ c.root = C1.root /\ c.frames # <<>>
  BY <1>3, <1>12 DEF GoesOn
<1> HIDE DEF c
<1>14. /\ calls' # <<>> /\ C1' = c /\ Len(calls') <= 1 /\ calls' \in Seq(Calls)
       /\ \A op : Doing(op)' <=> c.op = op
  BY <1>1, <1>3, <1>10, <1>13, CallsTyped
<1>15. /\ M \in ModuleTables
       /\ \A x \in Modules : x # m => M[x].anc = mod[x].anc
       /\ M[m].anc = IF mod[d].status = "evaluating" THEN Min2(mod[m].anc, mod[d].anc) ELSE mod[m].anc
       /\ \A x \in Modules :
              /\ M[x].status = mod[x].status /\ M[x].dfs = mod[x].dfs
              /\ M[x].root = mod[x].root /\ M[x].pending = mod[x].pending /\ M[x].async = mod[x].async
              /\ M[x].stamp = mod[x].stamp /\ M[x].parents = mod[x].parents
              /\ M[x].error = mod[x].error /\ M[x].promise = mod[x].promise
  <2>1. CASE mod[d].status = "evaluating"
    <3> DEFINE N == [mod EXCEPT ![m].anc = Min2(@, a)]
    <3>1. M = N BY <2>1
    <3> HIDE DEF a, M
    <3>2. a \in Nat /\ m \in Modules /\ mod \in ModuleTables BY <1>1, <1>3, ModTypes DEF a
    <3>3. /\ N \in ModuleTables /\ N[m].anc = Min2(mod[m].anc, a)
          /\ \A x \in Modules : x # m => N[x] = mod[x]
          /\ \A x \in Modules :
              /\ N[x].status = mod[x].status /\ N[x].dfs = mod[x].dfs
              /\ N[x].root = mod[x].root /\ N[x].pending = mod[x].pending /\ N[x].async = mod[x].async
              /\ N[x].stamp = mod[x].stamp /\ N[x].parents = mod[x].parents
              /\ N[x].error = mod[x].error /\ N[x].promise = mod[x].promise
      BY <3>2, AncFields
    <3> HIDE DEF N
    <3> QED BY <2>1, <3>1, <3>3 DEF a
  <2>2. CASE mod[d].status # "evaluating" BY <1>3, <2>2
  <2> QED BY <2>1, <2>2
<1> HIDE DEF M, a
<1>16. /\ mod' \in ModuleTables
       /\ \A x \in Modules :
              /\ mod'[x].status = M[x].status /\ mod'[x].dfs = M[x].dfs /\ mod'[x].anc = M[x].anc
              /\ mod'[x].root = M[x].root /\ mod'[x].async = M[x].async
              /\ mod'[x].stamp = M[x].stamp /\ mod'[x].error = M[x].error /\ mod'[x].promise = M[x].promise
              /\ x # m => mod'[x].pending = M[x].pending
              /\ x # r => mod'[x].parents = M[x].parents
       /\ mod[r].async => mod'[m].pending = M[m].pending + 1 /\ mod'[r].parents = Append(M[r].parents, m)
       /\ ~mod[r].async => mod'[m].pending = M[m].pending /\ mod'[r].parents = M[r].parents
  <2>1. CASE mod[r].async
    <3>1. Registers(M, m, r, mod') BY <1>10, <2>1
    <3>2. M \in ModuleTables /\ m \in Modules /\ r \in Modules BY <1>15
    <3>3. /\ mod' \in ModuleTables
          /\ mod'[m].pending = M[m].pending + 1 /\ mod'[r].parents = Append(M[r].parents, m)
          /\ \A x \in Modules :
              /\ x # m => mod'[x].pending = M[x].pending
              /\ x # r => mod'[x].parents = M[x].parents
              /\ mod'[x].status = M[x].status /\ mod'[x].dfs = M[x].dfs /\ mod'[x].anc = M[x].anc
              /\ mod'[x].root = M[x].root /\ mod'[x].async = M[x].async
              /\ mod'[x].stamp = M[x].stamp /\ mod'[x].error = M[x].error /\ mod'[x].promise = M[x].promise
      BY <3>1, <3>2, RegisterFields
    <3> QED BY <2>1, <3>3
  <2>2. CASE ~mod[r].async BY <1>10, <1>15, <2>2
  <2> QED BY <2>1, <2>2
<1>17. \A x \in Modules :
         /\ mod'[x].status = mod[x].status /\ mod'[x].dfs = mod[x].dfs
         /\ mod'[x].root = mod[x].root /\ mod'[x].async = mod[x].async /\ mod'[x].stamp = mod[x].stamp
         /\ mod'[x].error = mod[x].error /\ mod'[x].promise = mod[x].promise
         /\ x # m => mod'[x].pending = mod[x].pending /\ mod'[x].anc = mod[x].anc
         /\ x # r => mod'[x].parents = mod[x].parents
  BY <1>15, <1>16
<1>18. /\ mod[r].async => mod'[m].pending = mod[m].pending + 1 /\ mod'[r].parents = Append(mod[r].parents, m)
       /\ ~mod[r].async => mod'[m].pending = mod[m].pending /\ mod'[r].parents = mod[r].parents
  BY <1>15, <1>16
<1>19. mod'[m].anc = IF mod[d].status = "evaluating" THEN Min2(mod[m].anc, mod[d].anc) ELSE mod[m].anc
  BY <1>15, <1>16
<1>20. Shaped' BY <1>1, <1>3, <1>4, <1>13, <1>14, <1>16, ShapedNext
<1>21. Walk(mod', C1', "evaluating", Ended)
  <2>1. mod[d].status = "evaluating" \/ mod[d].status \in Ended BY <1>5
  <2>2. At(C1, Len(C1.frames)) = m BY <1>9 DEF Top
  <2>3. /\ \A x \in Modules : x # At(C1, Len(C1.frames)) => mod'[x].anc = mod[x].anc
        /\ mod'[At(C1, Len(C1.frames))].anc =
             IF mod[d].status = "evaluating" THEN Min2(mod[At(C1, Len(C1.frames))].anc, mod[d].anc)
             ELSE mod[At(C1, Len(C1.frames))].anc
    BY <1>17, <1>19, <2>2
  <2>4. Walk(mod', c, "evaluating", Ended)
    BY <1>2, <1>3, <1>12, <1>13, <1>16, <1>17, <2>1, <2>3, VisitWalk
  <2> QED BY <1>14, <2>4
<1>22. WalkInv'
  <2>1. \A x \in Modules : mod'[x].status \in Linked => \A e \in Imports(x) : mod'[e].status \in Linked
    BY <1>3, <1>17
  <2>2. \A x \in Modules : mod'[x].status # "linking" BY <1>3, <1>17
  <2> QED BY <1>4, <1>13, <1>14, <1>21, <2>1, <2>2, EvalWalkNext
<1>23. ReturnEff(m, d, r)
  <2>1. FramesInv(mod, C1) BY <1>3 DEF Walk
  <2>2. /\ \A x : (\E k \in Deep(c) : At(c, k) = x) <=> (\E k \in Deep(C1) : At(C1, k) = x)
        /\ \A p, e : Passed(c, p, e) <=> Passed(C1, p, e) \/ (p = Top(C1) /\ e = d)
    BY <1>2, <1>3, <1>12, <2>1, GoesView
  <2>3. \A x \in Modules : InPath(x)' <=> InPath(x) BY <1>2, <1>13, <1>14, <2>2 DEF InPath
  <2>4. \A p, e : Gone(p, e)' <=> Passed(c, p, e) BY <1>4, <1>14, GoneKept
  <2>5. \A p, e \in Modules : Gone(p, e)' <=> Gone(p, e) \/ (p = m /\ e = d)
    BY <1>9, <2>2, <2>4 DEF Gone
  <2>6. \A z \in Modules : InPath(z) => mod[z].dfs <= mod[m].dfs
    BY <1>3, <1>9, <2>1, PathBelow DEF InPath
  <2>7. Doing("eval")' /\ ~Doing("exec")' /\ C1'.root = C1.root BY <1>13, <1>14
  <2>8. InPath(m) /\ d \in Imports(m) BY <1>2, <1>3, <1>9
  <2> QED
    BY <1>2, <1>3, <1>4, <1>8, <1>9, <1>17, <1>18, <2>3, <2>5, <2>6, <2>7, <2>8 DEF ReturnEff
<1> QED BY <1>11, <1>20, <1>22, <1>23

-----------------------------------------------------------------------------
(* An evaluation fails *)

\* A step with the effect FailEff keeps the parts about evaluation.
LEMMA FailLate ==
  ASSUME Shaped, WalkInv, LateInv, NEW e \in Modules, NEW r \in Modules, FailEff(e, r)
  PROVE  LateInv'
<1>1. Kept /\ jobs' = jobs /\ clock' = clock /\ has_tla' = has_tla BY DEF FailEff, Kept
<1>2. Doing("eval") /\ ~Doing("exec") /\ ~Doing("exec")' /\ ~Doing("eval")' /\ C1.root = r
  BY DEF FailEff
<1>3. /\ mod[r].status = "evaluating" /\ body'[e] = "failed"
      /\ \A x \in Modules :
          body'[x] = body[x] \/ (x = e /\ mod[x].status = "evaluating" /\ body[x] = "running" /\ x \notin has_tla)
  BY DEF FailEff
<1>4. \A x \in Modules : mod[x].status = "evaluating" =>
       e \in Needs(x) /\ mod'[x].status = "evaluated" /\ mod'[x].error = e /\ mod'[x].root = r
  BY DEF FailEff
<1>5. \A x \in Modules : mod[x].status # "evaluating" =>
       mod'[x].status = mod[x].status /\ mod'[x].error = mod[x].error /\ mod'[x].root = mod[x].root
  BY DEF FailEff
<1>6. \A x \in Modules :
       /\ mod'[x].dfs = mod[x].dfs /\ mod'[x].pending = mod[x].pending /\ mod'[x].async = mod[x].async
       /\ mod'[x].stamp = mod[x].stamp /\ mod'[x].parents = mod[x].parents
       /\ x # r => mod'[x].promise = mod[x].promise
  BY DEF FailEff
<1>7. mod'[r].promise = Settled(mod[r].promise, "rejected") BY DEF FailEff
<1>10. /\ FreshInv /\ RootInv /\ ErrorInv /\ StackBodies /\ EndedBodies /\ TodoInv /\ JobsInv
       /\ PromiseInv /\ WaitInv /\ StampInv /\ CountInv /\ TreeInv /\ ImportsInv /\ JumpInv
       /\ DependenciesFirst
  BY LateParts
<1>11. Todo = {} /\ Todo' = {} /\ \A x : ~InPath(x)' BY <1>2 DEF Todo, InPath
<1>12. \A x : Needs(x)' = Needs(x) /\ Imports(x)' = Imports(x) BY <1>1, NeedsKept
<1>13. e # None BY NoneAssumption
<1>14. \A x \in Modules : mod'[x].status # "evaluating" BY <1>4, <1>5
<1>15. \A x \in Modules : mod[x].status # "evaluating" => body'[x] = body[x] BY <1>3
<1>16. \A x \in Modules : \A p : Waits(p, x)' <=> Waits(p, x) BY <1>6 DEF Waits
<1>17. \A x \in Modules : mod'[x].error = None => mod[x].status # "evaluating" /\ mod[x].error = None
  BY <1>4, <1>5, <1>13
<1>18. \A x \in Modules : mod[x].status \in Ended =>
          /\ mod[x].status # "evaluating" /\ mod[x].root \in Modules /\ mod[mod[x].root].status \in Ended
          /\ mod[mod[x].root].status # "evaluating"
  BY <1>10 DEF RootInv, Ended
<1>19. \A x \in Modules : mod'[x].status \in Ended <=> mod[x].status \in Ended \/ mod[x].status = "evaluating"
  BY <1>4, <1>5 DEF Ended
<1>20. FreshInv' BY <1>3, <1>5, <1>6, <1>10, <1>15, <1>19 DEF FreshInv
<1>21. RootInv'
  <2>1. \A x \in Modules : mod'[x].status \notin Ended => mod'[x].root = None
    BY <1>5, <1>10, <1>19 DEF RootInv
  <2>2. ASSUME NEW x \in Modules, mod'[x].status \in Ended
        PROVE  /\ mod'[x].root \in Modules /\ mod'[mod'[x].root].status \in Ended
               /\ mod'[mod'[x].root].root = mod'[x].root
               /\ mod'[x].error # None => mod'[mod'[x].root].error # None
    <3>1. CASE mod[x].status = "evaluating" BY <3>1, <1>3, <1>4, <1>13 DEF Ended
    <3>2. CASE mod[x].status \in Ended BY <3>2, <1>5, <1>10, <1>18, <1>19 DEF RootInv
    <3> QED BY <2>2, <3>1, <3>2, <1>19
  <2>3. ASSUME NEW x \in Modules, NEW y \in Modules,
               mod'[x].status \in Ended, mod'[x].error = None, mod'[y].root = mod'[x].root
        PROVE  mod'[x].root \in Needs(y) /\ y \in Needs(mod'[x].root)
    <3>1. mod[x].status \in Ended /\ mod[x].error = None /\ mod'[x].root = mod[x].root
      BY <2>3, <1>5, <1>17, <1>19
    <3>2. mod[y].status # "evaluating" BY <2>3, <3>1, <1>3, <1>4, <1>18
    <3> QED BY <2>3, <3>1, <3>2, <1>5, <1>10 DEF RootInv
  <2> QED BY <2>1, <2>2, <2>3, <1>12 DEF RootInv
<1>22. ErrorInv'
  <2>1. \A x \in Modules : body[x] = "failed" => body'[x] = "failed" BY <1>3
  <2>2. \A x \in Modules : Needs(x) \subseteq Modules BY NeedsSelf
  <2> SUFFICES ASSUME NEW x \in Modules, mod'[x].error # None
               PROVE  mod'[x].status = "evaluated" /\ mod'[x].error \in Needs(x) /\ body'[mod'[x].error] = "failed"
    BY <1>12 DEF ErrorInv
  <2>3. CASE mod[x].status = "evaluating" BY <2>3, <1>3, <1>4
  <2>4. CASE mod[x].status # "evaluating" BY <2>1, <2>2, <2>4, <1>5, <1>10 DEF ErrorInv
  <2> QED BY <2>3, <2>4
<1>23. StackBodies' BY <1>11, <1>14 DEF StackBodies
<1>24. EndedBodies'
  <2>1. \A x \in Modules : mod'[x].status = "evaluated" /\ mod'[x].error = None => mod[x].status = "evaluated"
    BY <1>5, <1>17
  <2>2. \A x \in Modules : mod'[x].status = "evaluating_async" => mod[x].status = "evaluating_async"
    BY <1>4, <1>5
  <2> QED BY <2>1, <2>2, <1>1, <1>6, <1>11, <1>15, <1>17, <1>10 DEF EndedBodies
<1>25. TodoInv' BY <1>2 DEF TodoInv
<1>26. JobsInv'
  <2>0. has_tla \subseteq Modules /\ \A x \in has_tla : body'[x] = body[x] BY <1>3 DEF Shaped
  <2>1. \A i, j \in 1..Len(jobs) : i # j => jobs[i].m # jobs[j].m BY <1>10 DEF JobsInv
  <2>2. ASSUME NEW i \in 1..Len(jobs)
        PROVE  /\ jobs[i].m \in has_tla /\ body'[jobs[i].m] = jobs[i].how
               /\ \/ mod'[jobs[i].m].status \in {"evaluating", "evaluating_async"}
                  \/ mod'[jobs[i].m].status = "evaluated" /\ mod'[jobs[i].m].error # None
    <3>1. jobs[i].m \in Modules BY JobTypes
    <3> QED BY <2>0, <3>1, <1>4, <1>5, <1>13, <1>10 DEF JobsInv
  <2>3. \A x \in has_tla : body'[x] \in Outcomes /\ mod'[x].status \in {"evaluating", "evaluating_async"} =>
          \E i \in 1..Len(jobs) : jobs[i].m = x
    <3>1. \A x \in Modules : mod'[x].status \in {"evaluating", "evaluating_async"} => mod[x].status = "evaluating_async"
      BY <1>4, <1>5
    <3> QED BY <2>0, <3>1, <1>10 DEF JobsInv
  <2>4. \A x \in Modules : body'[x] = "suspended" => x \in has_tla
    <3>1. \A x \in Modules : body'[x] = "suspended" => body[x] = "suspended" BY <1>3
    <3> QED BY <3>1, <1>10 DEF JobsInv
  <2> QED BY <2>1, <2>2, <2>3, <2>4, <1>1 DEF JobsInv
<1>27. PromiseInv'
  <2> SUFFICES ASSUME NEW x \in Modules
               PROVE  /\ mod'[x].promise # "none" => mod'[x].status \in Ended /\ mod'[x].root = x
                      /\ mod'[x].promise = "fulfilled" => mod'[x].status = "evaluated" /\ mod'[x].error = None
                      /\ mod'[x].promise = "rejected" => mod'[x].error # None
    BY DEF PromiseInv
  <2>1. CASE x = r
    <3>1. mod[r].promise # "fulfilled" BY <1>3, <1>10 DEF PromiseInv
    <3>2. mod'[r].promise # "fulfilled" BY <3>1, <1>7 DEF Settled
    <3> QED BY <2>1, <3>2, <1>3, <1>4, <1>13 DEF Ended
  <2>2. CASE x # r /\ mod[x].status = "evaluating"
    <3>1. mod'[x].promise = mod[x].promise BY <2>2, <1>6
    <3>2. mod[x].promise = "none" BY <2>2, <1>2, <1>10 DEF PromiseInv, Ended
    <3> QED BY <3>1, <3>2
  <2>3. CASE x # r /\ mod[x].status # "evaluating" BY <2>3, <1>2, <1>5, <1>6, <1>10 DEF PromiseInv
  <2> QED BY <2>1, <2>2, <2>3
<1>28. WaitInv'
  <2>1. \A x, p \in Modules : Waits(p, x) => x \in Needs(p) /\ mod'[p].status \in Ended \cup {"evaluating"}
    BY <1>19, <1>10 DEF WaitInv
  <2>2. ASSUME NEW x \in Modules, NEW p \in Modules, Waits(p, x), mod'[x].error # None
        PROVE  mod'[p].error # None
    <3>1. CASE mod[x].status = "evaluating" BY <2>2, <3>1, <1>4, <1>13, <1>10 DEF WaitInv
    <3>2. CASE mod[x].status # "evaluating"
      <4>1. mod[p].error # None BY <2>2, <3>2, <1>5, <1>10 DEF WaitInv
      <4> QED BY <4>1, <1>4, <1>5, <1>13
    <3> QED BY <3>1, <3>2
  <2>3. ASSUME NEW x \in Modules, NEW p \in Modules, Waits(p, x), mod'[x].status # "evaluated", mod'[p].error = None
        PROVE  mod'[p].status # "evaluated" /\ body'[p] = "unrun"
    <3>1. mod[p].status # "evaluating" /\ mod[p].error = None BY <2>3, <1>17
    <3>2. mod[x].status # "evaluated" BY <2>3, <1>5
    <3> QED BY <2>3, <3>1, <3>2, <1>5, <1>15, <1>10 DEF WaitInv
  <2> QED BY <2>1, <2>2, <2>3, <1>11, <1>12, <1>14, <1>16 DEF WaitInv
<1>29. StampInv' BY <1>1, <1>6, <1>16, <1>10 DEF StampInv
<1>30. CountInv'
  <2>1. Open \in SUBSET Modules /\ Open' \in SUBSET Modules BY DEF Open
  <2>2. \A x \in Modules : mod[x].status # "evaluating" => (x \in Open' <=> x \in Open)
    BY <1>1, <1>5, <1>11 DEF Open
  <2>3. ASSUME NEW p \in Modules, mod[p].status # "evaluating"
        PROVE  Entries(mod', Open', p) = Entries(mod, Open, p)
    <3>1. \A x \in Modules : p \in ToSet(mod[x].parents) => (x \in Open <=> x \in Open')
      BY <2>2, <2>3, <1>10 DEF WaitInv, Waits
    <3>2. \A x \in Modules : mod'[x].parents = mod[x].parents BY <1>6
    <3> HIDE DEF Open
    <3> QED BY <2>1, <3>1, <3>2, EntriesSame
  <2>4. \A p : Entries(mod, Open, p)' = Entries(mod', Open', p) BY DEF Entries
  <2>5. ASSUME NEW p \in Modules, mod'[p].error = None, mod'[p].root # None => mod'[mod'[p].root].error = None
        PROVE  /\ mod[p].status # "evaluating" /\ mod[p].error = None
               /\ mod[p].root # None => mod[mod[p].root].error = None
    <3>1. mod[p].status # "evaluating" /\ mod[p].error = None /\ mod'[p].root = mod[p].root
      BY <2>5, <1>5, <1>17
    <3>2. mod[p].root # None => mod[p].root \in Modules BY ModTypes
    <3> QED BY <2>5, <3>1, <3>2, <1>17
  <2> QED BY <2>3, <2>4, <2>5, <1>6, <1>10 DEF CountInv
<1>31. TreeInv'
  <2>1. SUFFICES ASSUME NEW x \in Modules, mod'[x].status = "evaluating_async", mod'[x].root # x
                 PROVE  \E y \in Modules : Waits(y, x)' /\ mod'[y].root = mod'[x].root /\ mod'[y].dfs < mod'[x].dfs
    BY <1>14 DEF TreeInv
  <2>2. mod[x].status = "evaluating_async" /\ mod[x].root # x /\ mod'[x].root = mod[x].root
    BY <2>1, <1>4, <1>5
  <2>3. PICK y \in Modules : Waits(y, x) /\ mod[y].root = mod[x].root /\ mod[y].dfs < mod[x].dfs
    BY <2>2, <1>10 DEF TreeInv
  <2>4. mod[y].status # "evaluating" BY <2>2, <2>3, <1>10, <1>18, Rooted DEF Ended
  <2> QED BY <2>2, <2>3, <2>4, <1>5, <1>6, <1>16
<1>32. ImportsInv'
  <2>0. \A p \in Modules : Imports(p) \subseteq Modules BY Typed, ImportTypes
  <2>1. SUFFICES ASSUME NEW p \in Modules, mod'[p].status \in Ended, mod'[p].error = None, NEW d \in Imports(p)
                 PROVE  mod'[d].status \in Ended /\ (mod'[d].root = mod'[p].root \/ DoneFor(p, d)')
    BY <1>12, <1>14 DEF ImportsInv
  <2>2. mod[p].status \in Ended /\ mod[p].error = None /\ mod'[p].root = mod[p].root /\ d \in Modules
    BY <2>0, <2>1, <1>5, <1>17, <1>19
  <2>3. mod[d].status \in Ended /\ (mod[d].root = mod[p].root \/ DoneFor(p, d))
    BY <2>2, <1>10 DEF ImportsInv
  <2>4. /\ mod'[d].root = mod[d].root /\ mod[d].root \in Modules
        /\ mod'[mod[d].root].status = mod[mod[d].root].status /\ mod'[mod[d].root].error = mod[mod[d].root].error
    BY <2>2, <2>3, <1>5, <1>18
  <2>5. DoneFor(p, d)' <=> DoneFor(p, d) BY <2>4, <1>16 DEF DoneFor, Complete
  <2> QED BY <2>2, <2>3, <2>4, <2>5, <1>19
<1>33. JumpInv' BY <1>14 DEF JumpInv
<1>34. DependenciesFirst'
  <2>1. (\A x \in Modules : body[x] = "done" => body'[x] = "done") /\ (\A x \in Modules : body'[x] # "unrun" => body[x] # "unrun")
    BY <1>3
  <2> QED BY <2>1, <1>1, <1>10, DependenciesKept
<1> QED
  BY <1>20, <1>21, <1>22, <1>23, <1>24, <1>25, <1>26, <1>27, <1>28, <1>29, <1>30, <1>31, <1>32,
     <1>33, <1>34 DEF LateInv

\* The fields of the modules after Failed.
LEMMA FailedFields ==
  ASSUME NEW M \in ModuleTables, NEW m \in Modules, NEW K \in SUBSET Modules, NEW e \in Modules, m \in K,
         NEW Z, FailsTo(M, m, K, e, Z)
  PROVE  /\ Z \in ModuleTables
         /\ \A x \in Modules : x \in K => Z[x].status = "evaluated" /\ Z[x].error = e /\ Z[x].root = m
         /\ \A x \in Modules : x \notin K => Z[x] = M[x]
         /\ \A x \in Modules :
              /\ Z[x].dfs = M[x].dfs /\ Z[x].anc = M[x].anc /\ Z[x].pending = M[x].pending
              /\ Z[x].async = M[x].async /\ Z[x].stamp = M[x].stamp /\ Z[x].parents = M[x].parents
              /\ x # m => Z[x].promise = M[x].promise
         /\ Z[m].promise = Settled(M[m].promise, "rejected")
<1> DEFINE v(x) == IF x = m THEN Settled(M[x].promise, "rejected") ELSE M[x].promise
           r(x) == [M[x] EXCEPT !.status = "evaluated", !.error = e, !.root = m, !.promise = v(x)]
           N == Failed(M, m, K, e)
<1>1. N = [x \in Modules |-> IF x \in K THEN r(x) ELSE M[x]] BY DEF Failed
<1>2. ASSUME NEW x \in Modules PROVE v(x) \in {"none", "pending", "fulfilled", "rejected"}
  BY FieldTypes DEF Settled
<1>3. v(m) = Settled(M[m].promise, "rejected") /\ \A x \in Modules : x # m => v(x) = M[x].promise
  OBVIOUS
<1> HIDE DEF v
<1>4. ASSUME NEW x \in Modules
      PROVE  /\ r(x) \in ModuleFields /\ r(x).status = "evaluated" /\ r(x).error = e /\ r(x).root = m
             /\ r(x).dfs = M[x].dfs /\ r(x).anc = M[x].anc /\ r(x).pending = M[x].pending
             /\ r(x).async = M[x].async /\ r(x).stamp = M[x].stamp /\ r(x).parents = M[x].parents
             /\ r(x).promise = v(x)
  <2>1. M[x] \in ModuleFields /\ v(x) \in {"none", "pending", "fulfilled", "rejected"} /\ "evaluated" \in Statuses
    BY <1>2, FieldTypes DEF Statuses
  <2> QED BY <2>1 DEF ModuleFields
<1> HIDE DEF r, N
<1>5. \A x \in Modules : M[x] \in ModuleFields BY FieldTypes
<1>6. N \in ModuleTables /\ (\A x \in Modules : x \in K => N[x] = r(x)) /\ (\A x \in Modules : x \notin K => N[x] = M[x])
  BY <1>1, <1>4, <1>5 DEF ModuleTables
<1>7. \A x \in Modules :
              /\ N[x].dfs = M[x].dfs /\ N[x].anc = M[x].anc /\ N[x].pending = M[x].pending
              /\ N[x].async = M[x].async /\ N[x].stamp = M[x].stamp /\ N[x].parents = M[x].parents
              /\ x # m => N[x].promise = M[x].promise
  <2> TAKE x \in Modules
  <2>1. CASE x \in K BY <2>1, <1>3, <1>4, <1>6
  <2>2. CASE x \notin K BY <2>2, <1>6
  <2> QED BY <2>1, <2>2
<1>8. N[m].promise = Settled(M[m].promise, "rejected") BY <1>3, <1>4, <1>6
<1>9. \A x \in Modules : x \in K => N[x].status = "evaluated" /\ N[x].error = e /\ N[x].root = m
  BY <1>4, <1>6
<1>10. Z = N BY DEF FailsTo, N
<1> QED BY <1>6, <1>7, <1>8, <1>9, <1>10

\* EvalFails has the effect FailEff, when all that is on the stack needs e.
LEMMA EvalFailsStep ==
  ASSUME IInv, Doing("eval"), Kept, jobs' = jobs, clock' = clock, NEW e \in Modules,
         EvalFails(mod, e), body' \in [Modules -> Bodies], body'[e] = "failed",
         \A x \in Modules :
           body'[x] = body[x] \/ (x = e /\ mod[x].status = "evaluating" /\ body[x] = "running" /\ x \notin has_tla),
         \A x \in On(C1) : e \in Needs(x)
  PROVE  Shaped' /\ WalkInv' /\ asserts' /\ \E r \in Modules : FailEff(e, r)
<1>1. /\ Shaped /\ asserts /\ LateInv
      /\ mod \in ModuleTables /\ body \in [Modules -> Bodies] /\ jobs \in Seq(Reports) /\ clock \in Nat
      /\ calls # <<>> /\ C1 \in Calls /\ top = C1
      /\ ~Doing("exec") /\ (\A x \in Modules : mod[x].status = "evaluating" <=> x \in On(C1))
      /\ (\A x \in Modules : mod[x].status # "linking")
      /\ (\A x \in Modules : Imports(x) \subseteq Modules)
      /\ (\A x \in Modules : mod[x].status \in Linked => \A d \in Imports(x) : mod[d].status \in Linked)
      /\ C1.root \in Modules /\ C1.root \in On(C1) /\ On(C1) \subseteq Modules
  BY EvalState
<1>2. PICK r \in Modules : C1.root = r BY <1>1
<1>3. PICK K \in SUBSET Modules : On(C1) = K BY <1>1
<1>4. r \in K /\ (\A x \in K : mod[x].status = "evaluating") BY <1>1, <1>2, <1>3
<1>5. /\ mod' = Failed(mod, r, K, e) /\ Returns
      /\ asserts' = (asserts /\ (\A x \in K : mod[x].status = "evaluating")
                             /\ mod'[r].status = "evaluated" /\ mod'[r].error # None)
  BY <1>1, <1>2, <1>3 DEF EvalFails, On
<1>6. /\ mod' \in ModuleTables
      /\ \A x \in Modules : x \in K => mod'[x].status = "evaluated" /\ mod'[x].error = e /\ mod'[x].root = r
      /\ \A x \in Modules : x \notin K => mod'[x] = mod[x]
      /\ \A x \in Modules :
              /\ mod'[x].dfs = mod[x].dfs /\ mod'[x].anc = mod[x].anc /\ mod'[x].pending = mod[x].pending
              /\ mod'[x].async = mod[x].async /\ mod'[x].stamp = mod[x].stamp /\ mod'[x].parents = mod[x].parents
              /\ x # r => mod'[x].promise = mod[x].promise
      /\ mod'[r].promise = Settled(mod[r].promise, "rejected")
  <2>1. mod \in ModuleTables /\ r \in Modules /\ K \in SUBSET Modules /\ e \in Modules /\ r \in K
    BY <1>1, <1>4
  <2>2. FailsTo(mod, r, K, e, mod') BY <1>5 DEF FailsTo
  <2> QED BY <2>1, <2>2, FailedFields
<1>7. asserts'
  <2>1. e # None BY NoneAssumption
  <2> QED BY <2>1, <1>1, <1>4, <1>5, <1>6
<1>8. calls' = <<>> /\ \A op : ~Doing(op)' BY <1>1, <1>5, CallSteps DEF Doing
<1>9. Shaped' BY <1>1, <1>6, <1>8, ShapedNext
<1>10. \A x \in Modules : x \notin K => mod'[x].status = mod[x].status /\ mod[x].status # "evaluating"
  BY <1>1, <1>3, <1>6
<1>11. WalkInv'
  <2>1. \A x \in Modules : mod'[x].status \in Linked <=> mod[x].status \in Linked
    BY <1>4, <1>6, <1>10 DEF Linked
  <2>2. \A x \in Modules : mod'[x].status \in Linked => \A d \in Imports(x) : mod'[d].status \in Linked
    BY <1>1, <2>1
  <2>3. \A x \in Modules : mod'[x].status \notin {"linking", "evaluating"} BY <1>1, <1>6, <1>10
  <2>4. ~Doing("link")' /\ ~Doing("eval")' BY <1>8
  <2> QED BY <2>2, <2>3, <2>4, IdleWalkNext
<1>12. FailEff(e, r)
  <2>1. \A x \in Modules : mod[x].status = "evaluating" =>
       e \in Needs(x) /\ mod'[x].status = "evaluated" /\ mod'[x].error = e /\ mod'[x].root = r
    BY <1>1, <1>3, <1>6
  <2>2. \A x \in Modules : mod[x].status # "evaluating" =>
       mod'[x].status = mod[x].status /\ mod'[x].error = mod[x].error /\ mod'[x].root = mod[x].root
    BY <1>4, <1>6
  <2>3. ~Doing("eval")' /\ ~Doing("exec")' /\ mod[r].status = "evaluating" BY <1>4, <1>8
  <2> QED BY <1>1, <1>2, <1>6, <2>1, <2>2, <2>3 DEF FailEff
<1> QED BY <1>7, <1>9, <1>11, <1>12

\* The module at the top is needed by all on the stack.
LEMMA TopNeeded ==
  ASSUME IInv, Doing("eval")
  PROVE  \A x \in On(C1) : Top(C1) \in Needs(x)
<1>1. C1 \in Calls /\ C1.frames # <<>> /\ Walk(mod, C1, "evaluating", Ended) BY EvalState
<1>2. Len(C1.frames) \in Nat /\ Deep(C1) = 1..Len(C1.frames) /\ Len(C1.frames) \in Deep(C1)
  BY <1>1, TopFrame
<1>3. Len(C1.frames) + 1 \notin Deep(C1) BY <1>2
<1> QED BY <1>1, <1>2, <1>3 DEF Walk, PathInv, Top

\* EvalInherits has the effect FailEff.
LEMMA EvalInheritsStep ==
  ASSUME IInv, EvalInherits
  PROVE  Shaped' /\ WalkInv' /\ asserts' /\ \E e, r \in Modules : FailEff(e, r)
<1>1. Shaped /\ WalkInv /\ AtChild("eval") BY DEF IInv, EvalInherits
<1>0. PICK d \in Modules : Child = d BY <1>1, ChildSeen
<1>21. d \in Modules OBVIOUS
<1>2. Doing("eval") /\ d \in Imports(Top(C1)) BY <1>0, <1>1, ChildSeen
<1>3. LateInv /\ On(C1) \subseteq Modules /\ body \in [Modules -> Bodies] /\ Top(C1) \in Modules
      /\ (\A x \in Modules : Imports(x) \subseteq Modules)
  BY <1>2, EvalState
<1>4. Kept /\ body' = body /\ jobs' = jobs /\ clock' = clock BY DEF EvalInherits, Kept, code
<1> DEFINE w == IF mod[d].error # None THEN mod[d].error ELSE mod[mod[d].root].error
<1>5. mod[d].status \in Ended /\ w # None /\ EvalFails(mod, w) BY <1>0 DEF EvalInherits
<1>6. RootInv /\ ErrorInv BY <1>3, LateParts
<1>7. w \in Needs(d) /\ body[w] = "failed"
  <2>1. CASE mod[d].error # None BY <2>1, <1>6 DEF ErrorInv
  <2>2. CASE mod[d].error = None
    <3>1. mod[d].root \in Modules /\ mod[d].root \in Needs(d) BY <2>2, <1>5, <1>6 DEF RootInv
    <3>2. w \in Needs(mod[d].root) /\ body[w] = "failed" BY <2>2, <1>5, <3>1, <1>6 DEF ErrorInv
    <3> HIDE DEF w
    <3> QED BY <3>1, <3>2, <1>3, <1>21, NeedsTransitive
  <2> QED BY <2>1, <2>2
<1>8. w \in Modules BY <1>7, <1>21, NeedsSelf
<1>9. \A x \in On(C1) : w \in Needs(x)
  <2> TAKE x \in On(C1)
  <2>1. x \in Modules /\ Top(C1) \in Needs(x) BY <1>2, <1>3, TopNeeded
  <2>2. d \in Needs(x) BY <2>1, <1>2, <1>21, NeedsImport
  <2> HIDE DEF w
  <2> QED BY <2>1, <2>2, <1>3, <1>7, NeedsTransitive
<1>10. PICK e \in Modules : w = e BY <1>8
<1>11. e \in Modules /\ EvalFails(mod, e) /\ body[e] = "failed" /\ \A x \in On(C1) : e \in Needs(x)
  BY <1>5, <1>7, <1>9, <1>10
<1> HIDE DEF w
<1>12. body' \in [Modules -> Bodies] /\ body'[e] = "failed" /\ \A x \in Modules :
           body'[x] = body[x] \/ (x = e /\ mod[x].status = "evaluating" /\ body[x] = "running" /\ x \notin has_tla)
  BY <1>3, <1>4, <1>11
<1>13. Shaped' /\ WalkInv' /\ asserts' /\ \E r \in Modules : FailEff(e, r)
  BY <1>2, <1>4, <1>11, <1>12, EvalFailsStep
<1> QED BY <1>13

\* The body that runs in an evaluation.
LEMMA RunningSeen ==
  ASSUME IInv, InCall("eval"), Running
  PROVE  /\ Doing("eval") /\ Current = Top(C1) /\ Top(C1) \in Modules /\ body[Top(C1)] = "running"
         /\ AtTheEnd(C1) /\ mod[Top(C1)].pending = 0 /\ mod[Top(C1)].status = "evaluating"
         /\ (mod[Top(C1)].async <=> Top(C1) \in has_tla) /\ mod[Top(C1)].parents = <<>>
<1>1. Doing("eval") BY OneCall DEF InCall, Doing, IInv
<1>2. top = C1 /\ C1.op = "eval" /\ Top(C1) \in Modules /\ frame.m = Top(C1) /\ InPath(Top(C1)) /\ LateInv
  BY <1>1, EvalState
<1>3. Current = Top(C1) /\ body[Top(C1)] = "running" BY <1>2 DEF Running, Current
<1>4. PathBody(Top(C1)) /\ mod[Top(C1)].status = "evaluating" /\ mod[Top(C1)].parents = <<>>
  BY <1>2, LateParts DEF StackBodies
<1> QED BY <1>1, <1>2, <1>3, <1>4 DEF PathBody

\* A body that throws in an evaluation has the effect FailEff.
LEMMA SyncBodyFailsStep ==
  ASSUME IInv, SyncBodyEnds("failed")
  PROVE  Shaped' /\ WalkInv' /\ asserts' /\ \E e, r \in Modules : FailEff(e, r)
<1>1. /\ Doing("eval") /\ Current = Top(C1) /\ Top(C1) \in Modules /\ body[Top(C1)] = "running"
      /\ mod[Top(C1)].status = "evaluating"
  BY RunningSeen DEF SyncBodyEnds
<1>2. PICK e \in Modules : Top(C1) = e BY <1>1
<1>3. body \in [Modules -> Bodies] BY <1>1, EvalState
<1>4. /\ Kept /\ jobs' = jobs /\ clock' = clock /\ body' = [body EXCEPT ![e] = "failed"]
      /\ EvalFails(mod, e) /\ e \notin has_tla
  BY <1>1, <1>2 DEF SyncBodyEnds, Kept, code
<1>5. /\ body' \in [Modules -> Bodies] /\ body'[e] = "failed"
      /\ \A x \in Modules : body'[x] = body[x] \/ (x = e /\ mod[x].status = "evaluating" /\ body[x] = "running" /\ x \notin has_tla)
  BY <1>1, <1>2, <1>3, <1>4 DEF Bodies
<1>6. \A x \in On(C1) : e \in Needs(x) BY <1>1, <1>2, TopNeeded
<1>7. Shaped' /\ WalkInv' /\ asserts' /\ \E r \in Modules : FailEff(e, r)
  BY <1>1, <1>4, <1>5, <1>6, EvalFailsStep
<1> QED BY <1>7

-----------------------------------------------------------------------------
(* A body starts in an evaluation *)

\* A step with the effect RunEff keeps the parts about evaluation.
LEMMA RunLate ==
  ASSUME Shaped, WalkInv, LateInv, NEW m \in Modules, RunEff(m)
  PROVE  LateInv'
<1>1. Kept /\ jobs' = jobs /\ calls' = calls /\ C1' = C1 /\ has_tla' = has_tla
  BY DEF RunEff, Kept, C1
<1>2. /\ Doing("eval") /\ ~Doing("exec") /\ Top(C1) = m /\ InPath(m) /\ AtTheEnd(C1)
      /\ (\A x : ~Looks(C1, x)) /\ body[m] = "unrun" /\ ~mod[m].async /\ mod[m].pending = 0
  BY DEF RunEff
<1>3. body'[m] = "running" /\ \A x \in Modules : x # m => body'[x] = body[x] BY DEF RunEff
<1>4. /\ mod'[m].async <=> m \in has_tla
      /\ m \in has_tla => mod'[m].stamp = clock
      /\ clock' = IF m \in has_tla THEN clock + 1 ELSE clock
      /\ \A x \in Modules : x # m => mod'[x].async = mod[x].async /\ mod'[x].stamp = mod[x].stamp
  BY DEF RunEff
<1>5. \A x \in Modules :
       /\ mod'[x].status = mod[x].status /\ mod'[x].dfs = mod[x].dfs /\ mod'[x].root = mod[x].root
       /\ mod'[x].pending = mod[x].pending /\ mod'[x].parents = mod[x].parents
       /\ mod'[x].error = mod[x].error /\ mod'[x].promise = mod[x].promise
  BY DEF RunEff
<1>6. \A d \in Imports(m) : Gone(m, d) BY DEF RunEff
<1>7. \A x \in Modules : mod[x].status = "evaluating" => m \in Needs(x) BY DEF RunEff
<1>8. ~Doing("exec")' /\ Doing("eval")' /\ (AtTheEnd(C1)' <=> AtTheEnd(C1)) /\ Top(C1)' = Top(C1)
  BY <1>1, <1>2 DEF Doing, AtTheEnd, Top, At, Nx, Kept
<1>9. /\ \A x : InPath(x)' <=> InPath(x)
      /\ \A p, e : Gone(p, e)' <=> Gone(p, e)
      /\ \A x : ~Looks(C1, x)'
  BY <1>1, <1>2 DEF InPath, Gone, Passed, Deep, At, Nx, Doing, Kept, Looks
<1>10. /\ FreshInv /\ RootInv /\ ErrorInv /\ StackBodies /\ EndedBodies /\ TodoInv /\ JobsInv
       /\ PromiseInv /\ WaitInv /\ StampInv /\ CountInv /\ TreeInv /\ ImportsInv /\ JumpInv
       /\ DependenciesFirst
  BY LateParts
<1>11. Todo = {} /\ Todo' = {} BY <1>2, <1>8 DEF Todo
<1>12. \A x : Needs(x)' = Needs(x) /\ Imports(x)' = Imports(x) BY <1>1, NeedsKept
<1>13. mod[m].status = "evaluating" /\ mod[m].parents = <<>> /\ mod[m].error = None /\ mod[m].root = None
  BY <1>2, <1>10 DEF StackBodies, ErrorInv, RootInv, Ended
<1>14. \A x \in Modules : \A p : Waits(p, x)' <=> Waits(p, x) BY <1>5 DEF Waits
<1>15. Open' = Open /\ Open \in SUBSET Modules BY <1>1, <1>5, <1>11 DEF Open
<1>16. ASSUME NEW x \in Modules, Waits(m, x) PROVE mod[x].status = "evaluated"
  <2>1. Cardinality(Entries(mod, Open, m)) = 0 BY <1>2, <1>10, <1>13 DEF CountInv
  <2>2. IsFiniteSet(Entries(mod, Open, m)) BY <1>15, EntriesFinite DEF Shaped
  <2>3. Entries(mod, Open, m) = {} BY <2>1, <2>2, FS_EmptySet
  <2>4. \A y \in Open : m \notin ToSet(mod[y].parents) BY <2>3, <1>15, EntriesWaits
  <2> QED BY <2>4, <1>11, <1>16 DEF Open, Waits
<1>20. FreshInv' BY <1>3, <1>4, <1>5, <1>10, <1>13 DEF FreshInv
<1>21. RootInv'
  <2>1. \A x \in Modules : mod'[x].status \notin Ended => mod'[x].root = None
    BY <1>5, <1>10 DEF RootInv
  <2>2. ASSUME NEW x \in Modules, mod'[x].status \in Ended
        PROVE  /\ mod'[x].root \in Modules /\ mod'[mod'[x].root].status \in Ended
               /\ mod'[mod'[x].root].root = mod'[x].root
               /\ mod'[x].error # None => mod'[mod'[x].root].error # None
    BY <2>2, <1>5, <1>10 DEF RootInv
  <2>3. \A x, y \in Modules : mod'[x].status \in Ended /\ mod'[x].error = None /\ mod'[y].root = mod'[x].root =>
       mod'[x].root \in Needs(y) /\ y \in Needs(mod'[x].root)
    BY <1>5, <1>10 DEF RootInv
  <2> QED BY <2>1, <2>2, <2>3, <1>12 DEF RootInv
<1>22. ErrorInv'
  <2>1. \A x \in Modules : body[x] = "failed" => body'[x] = "failed" BY <1>2, <1>3
  <2>2. \A x \in Modules : Needs(x) \subseteq Modules BY NeedsSelf
  <2> QED BY <2>1, <2>2, <1>5, <1>12, <1>10 DEF ErrorInv
<1>23. StackBodies'
  <2>1. ASSUME NEW x \in Modules, mod'[x].status = "evaluating", ~InPath(x)' PROVE Finished(x)'
    <3>1. Finished(x) /\ x # m BY <2>1, <1>2, <1>5, <1>9, <1>10 DEF StackBodies
    <3> QED BY <3>1, <1>1, <1>3, <1>4, <1>5 DEF Finished
  <2>2. ASSUME NEW x \in Modules, InPath(x)'
        PROVE  mod'[x].status = "evaluating" /\ mod'[x].parents = <<>> /\ PathBody(x)'
    <3>1. mod[x].status = "evaluating" /\ mod[x].parents = <<>> /\ PathBody(x)
      BY <2>2, <1>9, <1>10 DEF StackBodies
    <3>2. CASE x = m
      <4>1. PathBody(m)' BY <1>1, <1>2, <1>3, <1>4, <1>5, <1>8 DEF PathBody
      <4> QED BY <3>1, <3>2, <4>1, <1>5
    <3>3. CASE x # m
      <4>1. body[x] = "unrun" /\ ~mod[x].async BY <3>1, <3>3, <1>2 DEF PathBody
      <4>2. PathBody(x)' BY <3>3, <4>1, <1>3, <1>4 DEF PathBody
      <4> QED BY <3>1, <4>2, <1>5
    <3> QED BY <3>2, <3>3
  <2> QED BY <2>1, <2>2 DEF StackBodies
<1>24. EndedBodies'
  <2>1. \A x \in Modules : mod'[x].status \in Ended => x # m /\ mod[x].status \in Ended
    BY <1>5, <1>13 DEF Ended
  <2> QED BY <2>1, <1>1, <1>3, <1>4, <1>5, <1>11, <1>10 DEF EndedBodies, Ended
<1>25. TodoInv' BY <1>8 DEF TodoInv
<1>26. JobsInv'
  <2>0. has_tla \subseteq Modules BY DEF Shaped
  <2>1. \A i, j \in 1..Len(jobs) : i # j => jobs[i].m # jobs[j].m BY <1>10 DEF JobsInv
  <2>2. ASSUME NEW i \in 1..Len(jobs)
        PROVE  /\ jobs[i].m \in has_tla /\ body'[jobs[i].m] = jobs[i].how
               /\ \/ mod'[jobs[i].m].status \in {"evaluating", "evaluating_async"}
                  \/ mod'[jobs[i].m].status = "evaluated" /\ mod'[jobs[i].m].error # None
    <3>1. jobs[i].m \in Modules /\ jobs[i].how \in Outcomes BY JobTypes
    <3>2. jobs[i].m # m BY <3>1, <1>2, <1>10 DEF JobsInv, Outcomes
    <3> QED BY <3>1, <3>2, <1>3, <1>5, <1>10 DEF JobsInv
  <2>3. \A x \in has_tla : body'[x] \in Outcomes /\ mod'[x].status \in {"evaluating", "evaluating_async"} =>
          \E i \in 1..Len(jobs) : jobs[i].m = x
    <3>1. body'[m] \notin Outcomes BY <1>3 DEF Outcomes
    <3> QED BY <2>0, <3>1, <1>3, <1>5, <1>10 DEF JobsInv
  <2>4. \A x \in Modules : body'[x] = "suspended" => x \in has_tla BY <1>3, <1>10 DEF JobsInv
  <2> QED BY <2>1, <2>2, <2>3, <2>4, <1>1 DEF JobsInv
<1>27. PromiseInv' BY <1>1, <1>2, <1>5, <1>8, <1>10 DEF PromiseInv
<1>28. WaitInv'
  <2>1. ASSUME NEW x \in Modules, NEW p \in Modules, Waits(p, x)
        PROVE  /\ x \in Needs(p) /\ mod'[p].status \in Ended \cup {"evaluating"}
               /\ mod'[x].status = "evaluating" => mod'[p].status = "evaluating" /\ Gone(p, x)'
               /\ mod'[x].error # None => mod'[p].error # None
               /\ mod'[x].status # "evaluated" /\ mod'[p].error = None =>
                    mod'[p].status # "evaluated" /\ body'[p] = "unrun"
    <3>1. /\ x \in Needs(p) /\ mod[p].status \in Ended \cup {"evaluating"}
          /\ mod[x].status = "evaluating" => mod[p].status = "evaluating" /\ Gone(p, x)
          /\ mod[x].error # None => mod[p].error # None
          /\ mod[x].status # "evaluated" /\ mod[p].error = None =>
                    mod[p].status # "evaluated" /\ body[p] = "unrun"
      BY <2>1, <1>10 DEF WaitInv
    <3>2. mod[x].status # "evaluated" => p # m BY <2>1, <1>16
    <3> QED BY <3>1, <3>2, <1>3, <1>5, <1>9
  <2> QED BY <2>1, <1>11, <1>12, <1>14 DEF WaitInv
<1>29. StampInv'
  <2>0. clock \in Nat /\ clock' \in Nat /\ clock <= clock' /\ \A x \in Modules : mod[x].stamp \in Nat
    <3>1. clock \in Nat BY DEF Shaped
    <3> QED BY <3>1, <1>4, ModTypes
  <2>1. \A x \in Modules : mod'[x].async \/ mod'[x].parents # <<>> => mod'[x].stamp < clock'
    <3>1. ASSUME NEW x \in Modules, x # m, mod'[x].async \/ mod'[x].parents # <<>> PROVE mod'[x].stamp < clock'
      <4>1. mod[x].stamp < clock /\ mod'[x].stamp = mod[x].stamp
        BY <3>1, <1>4, <1>5, <1>10 DEF StampInv
      <4> QED BY <4>1, <2>0
    <3>2. mod'[m].async \/ mod'[m].parents # <<>> => mod'[m].stamp < clock'
      BY <2>0, <1>4, <1>5, <1>13
    <3> QED BY <3>1, <3>2
  <2>2. ASSUME NEW x \in Modules, NEW p \in Modules, Waits(p, x), mod'[p].async PROVE mod'[x].stamp < mod'[p].stamp
    <3>1. x # m BY <2>2, <1>13 DEF Waits, ToSet
    <3>2. CASE p = m
      <4>1. mod[x].parents # <<>> BY <2>2 DEF Waits, ToSet
      <4>2. mod[x].stamp < clock BY <4>1, <1>10 DEF StampInv
      <4> QED BY <2>2, <3>1, <3>2, <4>2, <1>4
    <3>3. CASE p # m BY <2>2, <3>1, <3>3, <1>4, <1>10 DEF StampInv
    <3> QED BY <3>2, <3>3
  <2> QED BY <2>1, <2>2, <1>14 DEF StampInv
<1>30. CountInv'
  <2>1. \A p : Entries(mod', Open, p) = Entries(mod, Open, p) BY <1>5, <1>15 DEF Entries
  <2>2. \A p : Entries(mod, Open, p)' = Entries(mod', Open, p) BY <1>15 DEF Entries
  <2>3. \A p \in Modules : mod[p].root # None => mod[p].root \in Modules BY ModTypes
  <2> QED BY <2>1, <2>2, <2>3, <1>5, <1>10 DEF CountInv
<1>31. TreeInv'
  <2>1. ASSUME NEW x \in Modules, mod'[x].status = "evaluating_async", mod'[x].root # x
        PROVE  \E y \in Modules : Waits(y, x)' /\ mod'[y].root = mod'[x].root /\ mod'[y].dfs < mod'[x].dfs
    BY <2>1, <1>5, <1>14, <1>10 DEF TreeInv
  <2>2. ASSUME NEW x \in Modules, mod'[x].status = "evaluating", ~InPath(x)', mod'[x].async
        PROVE  \E y \in Modules : Above(y, x)'
    <3>1. x # m /\ mod[x].status = "evaluating" /\ ~InPath(x) /\ mod[x].async
      BY <2>2, <1>2, <1>4, <1>5, <1>9
    <3>2. PICK y \in Modules : Above(y, x) BY <3>1, <1>2, <1>10 DEF TreeInv
    <3>3. Above(y, x)' BY <3>2, <1>5, <1>9, <1>14 DEF Above
    <3> QED BY <3>3
  <2> QED BY <2>1, <2>2 DEF TreeInv
<1>32. ImportsInv'
  <2>0. \A p \in Modules : Imports(p) \subseteq Modules BY Typed, ImportTypes
  <2>1. \A p, e \in Modules : mod[e].root \in Modules => (DoneFor(p, e)' <=> DoneFor(p, e))
    BY <1>5, <1>14 DEF DoneFor, Complete
  <2>2. \A e \in Modules : mod[e].status \in Ended => mod[e].root \in Modules BY <1>10 DEF RootInv
  <2>3. ASSUME NEW p \in Modules, mod'[p].status \in Ended, mod'[p].error = None, NEW e \in Imports(p)
        PROVE  mod'[e].status \in Ended /\ (mod'[e].root = mod'[p].root \/ DoneFor(p, e)')
    <3>1. e \in Modules /\ mod[e].status \in Ended /\ (mod[e].root = mod[p].root \/ DoneFor(p, e))
      BY <2>0, <2>3, <1>5, <1>10 DEF ImportsInv
    <3> QED BY <2>1, <2>2, <3>1, <1>5
  <2>4. ASSUME NEW p \in Modules, mod'[p].status = "evaluating", NEW e \in Modules, Gone(p, e)'
        PROVE  mod'[e].status = "evaluating" \/ (mod'[e].status \in Ended /\ DoneFor(p, e)')
    <3>1. mod[e].status = "evaluating" \/ (mod[e].status \in Ended /\ DoneFor(p, e))
      BY <2>4, <1>5, <1>9, <1>10 DEF ImportsInv
    <3> QED BY <2>1, <2>2, <3>1, <1>5
  <2> QED BY <2>3, <2>4, <1>12 DEF ImportsInv
<1>33. JumpInv' BY <1>5, <1>9, <1>10 DEF JumpInv
<1>34. DependenciesFirst'
  <2>1. \A x : Cyclic(x)' = Cyclic(x) BY <1>12 DEF Cyclic
  <2>2. \A x \in Modules : body[x] = "done" => body'[x] = "done" BY <1>2, <1>3
  <2>3. \A x \in Modules : Imports(x) \subseteq Modules /\ Needs(x) \subseteq Modules
    BY Typed, ImportTypes, NeedsSelf
  <2> SUFFICES ASSUME NEW q \in Modules, body'[q] # "unrun", NEW d \in Imports(q)
               PROVE  (\A x \in Needs(d) : body'[x] = "done") \/ d \in Cyclic(q)
    BY <2>1, <1>12 DEF DependenciesFirst, Imports
  <2>4. d \in Modules BY <2>3
  <2>5. CASE q # m
    <3>1. (\A x \in Needs(d) : body[x] = "done") \/ d \in Cyclic(q)
      BY <2>5, <1>3, <1>10 DEF DependenciesFirst, Imports
    <3> QED BY <2>2, <2>3, <2>4, <3>1
  <2>6. CASE q = m
    <3>1. Gone(m, d) BY <2>6, <1>6
    <3>2. mod[d].status = "evaluating" \/ (mod[d].status \in Ended /\ DoneFor(m, d))
      BY <2>4, <3>1, <1>10, <1>13 DEF ImportsInv
    <3>3. CASE mod[d].status = "evaluating"
      <4>1. m \in Needs(d) BY <2>4, <3>3, <1>7
      <4>2. d \in Needs(m) BY <2>4, <2>6, NeedsSelf, NeedsImport
      <4> QED BY <2>6, <4>1, <4>2 DEF Cyclic
    <3>4. CASE mod[d].status \in Ended /\ DoneFor(m, d)
      <4>1. mod[d].root \in Modules BY <2>4, <3>4, <1>10 DEF RootInv
      <4>2. Waits(m, mod[d].root) => Complete(mod[d].root)
        BY <4>1, <1>10, <1>13, <1>16 DEF WaitInv, Complete
      <4>3. \A y \in Needs(d) : body[y] = "done" BY <2>4, <3>4, <4>2, GraphThrough DEF DoneFor
      <4> QED BY <2>2, <2>3, <2>4, <4>3
    <3> QED BY <3>2, <3>3, <3>4
  <2> QED BY <2>5, <2>6
<1> QED
  BY <1>20, <1>21, <1>22, <1>23, <1>24, <1>25, <1>26, <1>27, <1>28, <1>29, <1>30, <1>31, <1>32,
     <1>33, <1>34 DEF LateInv

\* At the end of a module all its imports are done with.
LEMMA EndPassed ==
  ASSUME ImportsTyped, NEW M \in ModuleTables, NEW c \in Calls, FramesInv(M, c), AtTheEnd(c)
  PROVE  \A d \in Imports(Top(c)) : Passed(c, Top(c), d)
<1>1. c.frames # <<>> /\ Nx(c, Len(c.frames)) > Len(imports[Top(c)]) BY DEF AtTheEnd, Top
<1>2. Len(c.frames) \in Deep(c) /\ Top(c) \in Modules /\ Nx(c, Len(c.frames)) \in Nat /\ At(c, Len(c.frames)) = Top(c)
  BY <1>1, TopFrame DEF Top
<1>3. \A k \in Deep(c) : At(c, k) = Top(c) => k = Len(c.frames) BY <1>2, OneFrame
<1>4. DOMAIN imports[Top(c)] = 1..Len(imports[Top(c)]) /\ Len(imports[Top(c)]) \in Nat
  BY <1>2, ImportTypes
<1>5. \A i \in DOMAIN imports[Top(c)] : i < Nx(c, Len(c.frames)) BY <1>1, <1>2, <1>4
<1>6. \A d \in Imports(Top(c)) : \E i \in DOMAIN imports[Top(c)] : imports[Top(c)][i] = d
  BY DEF Imports, ToSet
<1> QED BY <1>3, <1>5, <1>6 DEF Passed

\* The fields of the modules after m became asynchronous.
LEMMA DeferFields ==
  ASSUME NEW M \in ModuleTables, NEW m \in Modules, NEW t \in Nat, NEW Z, Defers(M, m, t, Z)
  PROVE  /\ Z \in ModuleTables /\ Z[m].async /\ Z[m].stamp = t
         /\ \A x \in Modules : x # m => Z[x] = M[x]
         /\ \A x \in Modules :
              /\ Z[x].status = M[x].status /\ Z[x].dfs = M[x].dfs /\ Z[x].anc = M[x].anc
              /\ Z[x].root = M[x].root /\ Z[x].pending = M[x].pending /\ Z[x].parents = M[x].parents
              /\ Z[x].error = M[x].error /\ Z[x].promise = M[x].promise
<1> DEFINE r == [[M[m] EXCEPT !.async = TRUE] EXCEPT !.stamp = t]
           N == [M EXCEPT ![m].async = TRUE, ![m].stamp = t]
<1>1. M \in [Modules -> ModuleFields] /\ M[m] \in ModuleFields BY FieldTypes DEF ModuleTables
<1>2. /\ r \in ModuleFields /\ r.async = TRUE /\ r.stamp = t
      /\ r.status = M[m].status /\ r.dfs = M[m].dfs /\ r.anc = M[m].anc
      /\ r.root = M[m].root /\ r.pending = M[m].pending /\ r.parents = M[m].parents
      /\ r.error = M[m].error /\ r.promise = M[m].promise
  BY <1>1 DEF ModuleFields
<1>3. N = [M EXCEPT ![m] = r] BY <1>1
<1> HIDE DEF N, r
<1>4. N \in ModuleTables /\ N[m] = r /\ \A x \in Modules : x # m => N[x] = M[x]
  BY <1>1, <1>2, <1>3 DEF ModuleTables
<1>5. \A x \in Modules :
              /\ N[x].status = M[x].status /\ N[x].dfs = M[x].dfs /\ N[x].anc = M[x].anc
              /\ N[x].root = M[x].root /\ N[x].pending = M[x].pending /\ N[x].parents = M[x].parents
              /\ N[x].error = M[x].error /\ N[x].promise = M[x].promise
  BY <1>2, <1>4
<1>6. Z = N BY DEF N, Defers
<1> QED BY <1>2, <1>4, <1>5, <1>6

\* What is known at the end of a module.
LEMMA EvalEndState ==
  ASSUME IInv, Doing("eval"), AtTheEnd(C1)
  PROVE  /\ \A d \in Imports(Top(C1)) : Gone(Top(C1), d)
         /\ \A x : ~Looks(C1, x)
         /\ \A z \in Modules : InPath(z) => mod[z].dfs <= mod[Top(C1)].dfs
         /\ \A x \in Modules : mod[x].status = "evaluating" => Top(C1) \in Needs(x)
<1>1. /\ ImportsTyped /\ mod \in ModuleTables /\ C1 \in Calls /\ Walk(mod, C1, "evaluating", Ended) /\ C1.frames # <<>>
      /\ \A x \in Modules : mod[x].status = "evaluating" <=> x \in On(C1)
  BY EvalState
<1>2. FramesInv(mod, C1) BY <1>1 DEF Walk
<1>3. \A d \in Imports(Top(C1)) : Gone(Top(C1), d) BY <1>1, <1>2, EndPassed DEF Gone
<1>4. \A x : ~Looks(C1, x)
  <2>1. Top(C1) \in Modules /\ Nx(C1, Len(C1.frames)) \in Nat BY <1>1, TopFrame
  <2>2. Nx(C1, Len(C1.frames)) > Len(imports[Top(C1)]) BY DEF AtTheEnd, Top
  <2>3. DOMAIN imports[Top(C1)] = 1..Len(imports[Top(C1)]) /\ Len(imports[Top(C1)]) \in Nat
    BY <1>1, <2>1, ImportTypes
  <2>4. Nx(C1, Len(C1.frames)) \notin DOMAIN imports[Top(C1)] BY <2>1, <2>2, <2>3
  <2> QED BY <2>4 DEF Looks, Top
<1>5. \A z \in Modules : InPath(z) => mod[z].dfs <= mod[Top(C1)].dfs
  BY <1>1, <1>2, PathBelow DEF InPath
<1>6. \A x \in Modules : mod[x].status = "evaluating" => Top(C1) \in Needs(x) BY <1>1, TopNeeded
<1> QED BY <1>3, <1>4, <1>5, <1>6

\* EvalRuns has the effect RunEff.
LEMMA EvalRunsStep ==
  ASSUME IInv, EvalRuns
  PROVE  Shaped' /\ WalkInv' /\ asserts' /\ \E m \in Modules : RunEff(m)
<1>1. Shaped /\ WalkInv /\ AtEnd("eval") /\ ~Running BY DEF IInv, EvalRuns
<1>2. Doing("eval") /\ AtTheEnd(C1) BY <1>1, EndSeen
<1>3. /\ ImportsTyped /\ asserts /\ LateInv
      /\ mod \in ModuleTables /\ body \in [Modules -> Bodies] /\ jobs \in Seq(Reports) /\ clock \in Nat
      /\ calls # <<>> /\ C1 \in Calls /\ top = C1 /\ C1.frames # <<>> /\ C1.op = "eval" /\ C1.todo = <<>>
      /\ ~Doing("exec") /\ Walk(mod, C1, "evaluating", Ended)
      /\ (\A x \in Modules : mod[x].status # "linking")
      /\ (\A x \in Modules : mod[x].status \in Linked => \A e \in Imports(x) : mod[e].status \in Linked)
      /\ (\A x \in Modules : Imports(x) \subseteq Modules)
      /\ Top(C1) \in Modules /\ frame.m = Top(C1) /\ InPath(Top(C1))
  BY <1>2, EvalState
<1>4. PICK m \in Modules : Top(C1) = m BY <1>3
<1>5. frame.m = m /\ Current = m /\ body[m] # "running" BY <1>1, <1>3, <1>4 DEF Running, Current
<1>6. body[m] = "unrun" /\ ~mod[m].async BY <1>3, <1>4, <1>5, LateParts DEF StackBodies, PathBody
<1>7. /\ Kept /\ jobs' = jobs /\ calls' = calls /\ mod[m].pending = 0 /\ body' = [body EXCEPT ![m] = "running"]
      /\ IF m \in has_tla THEN /\ mod' = [mod EXCEPT ![m].async = TRUE, ![m].stamp = clock] /\ clock' = clock + 1
                               /\ asserts' = (asserts /\ ~mod[m].async)
         ELSE mod' = mod /\ clock' = clock /\ asserts' = asserts
  BY <1>5 DEF EvalRuns, Kept, code, BodyStarts, Deferred
<1>8. asserts' /\ clock' = (IF m \in has_tla THEN clock + 1 ELSE clock) BY <1>3, <1>6, <1>7
<1>9. body' \in [Modules -> Bodies] /\ body'[m] = "running" /\ \A x \in Modules : x # m => body'[x] = body[x]
  BY <1>3, <1>7 DEF Bodies
<1>10. /\ mod' \in ModuleTables
       /\ mod'[m].async <=> m \in has_tla
       /\ m \in has_tla => mod'[m].stamp = clock
       /\ \A x \in Modules : x # m => mod'[x].async = mod[x].async /\ mod'[x].stamp = mod[x].stamp
       /\ \A x \in Modules :
          /\ mod'[x].status = mod[x].status /\ mod'[x].dfs = mod[x].dfs /\ mod'[x].anc = mod[x].anc
          /\ mod'[x].root = mod[x].root
          /\ mod'[x].pending = mod[x].pending /\ mod'[x].parents = mod[x].parents
          /\ mod'[x].error = mod[x].error /\ mod'[x].promise = mod[x].promise
  <2>1. CASE m \in has_tla
    <3>0. PICK t \in Nat : clock = t BY <1>3
    <3>1. Defers(mod, m, t, mod') BY <2>1, <3>0, <1>7 DEF Defers
    <3>2. mod \in ModuleTables /\ m \in Modules /\ t \in Nat BY <1>3
    <3>3. /\ mod' \in ModuleTables /\ mod'[m].async /\ mod'[m].stamp = t
          /\ \A x \in Modules : x # m => mod'[x] = mod[x]
          /\ \A x \in Modules :
              /\ mod'[x].status = mod[x].status /\ mod'[x].dfs = mod[x].dfs /\ mod'[x].anc = mod[x].anc
              /\ mod'[x].root = mod[x].root /\ mod'[x].pending = mod[x].pending /\ mod'[x].parents = mod[x].parents
              /\ mod'[x].error = mod[x].error /\ mod'[x].promise = mod[x].promise
      BY <3>1, <3>2, DeferFields
    <3> QED BY <2>1, <3>0, <3>3
  <2>2. CASE m \notin has_tla BY <2>2, <1>3, <1>6, <1>7
  <2> QED BY <2>1, <2>2
<1>11. C1' = C1 /\ (\A op : Doing(op)' <=> Doing(op)) BY <1>7 DEF C1, Doing
<1>12. Shaped'
  <2>1. calls' \in Seq(Calls) /\ Len(calls') <= 1 /\ C1'.op # "exec" /\ C1'.todo = <<>>
    BY <1>1, <1>3, <1>7, <1>11 DEF Shaped
  <2>2. jobs' \in Seq(Reports) /\ clock' \in Nat BY <1>3, <1>7, <1>8
  <2> QED BY <2>1, <2>2, <1>1, <1>7, <1>9, <1>10, ShapedNext
<1>13. WalkInv'
  <2>1. Walk(mod', C1, "evaluating", Ended)
    <3>1. \A x \in Modules : SameWalk(mod, mod', x) BY <1>10 DEF SameWalk
    <3> QED BY <3>1, <1>3, <1>10, SameWalkKept
  <2>2. \A x \in Modules : mod'[x].status \in Linked => \A e \in Imports(x) : mod'[e].status \in Linked
    BY <1>3, <1>10
  <2>3. \A x \in Modules : mod'[x].status # "linking" BY <1>3, <1>10
  <2>4. Doing("eval")' /\ C1'.frames # <<>> /\ Walk(mod', C1', "evaluating", Ended)
    BY <1>2, <1>3, <1>11, <2>1
  <2> QED BY <2>2, <2>3, <2>4, <1>7, EvalWalkNext
<1>14. RunEff(m)
  <2>1. /\ (\A d \in Imports(m) : Gone(m, d)) /\ (\A x : ~Looks(C1, x))
        /\ \A x \in Modules : mod[x].status = "evaluating" => m \in Needs(x)
    BY <1>2, <1>4, EvalEndState
  <2>2. InPath(m) BY <1>3, <1>4
  <2> QED BY <2>1, <2>2, <1>2, <1>3, <1>4, <1>6, <1>7, <1>8, <1>9, <1>10 DEF RunEff
<1> QED BY <1>8, <1>12, <1>13, <1>14

-----------------------------------------------------------------------------
(* The evaluation of a module ends *)

\* A step with the effect EndEff keeps the parts about evaluation.
LEMMA EndLate ==
  ASSUME Shaped, WalkInv, LateInv, NEW m \in Modules, NEW K \in SUBSET Modules, EndEff(m, K)
  PROVE  LateInv'
<1>1. Kept /\ has_tla' = has_tla BY DEF EndEff, Kept
<1>2. Doing("eval") /\ ~Doing("exec") /\ ~Doing("exec")' /\ Top(C1) = m /\ InPath(m) /\ \A x : ~Looks(C1, x)
  BY DEF EndEff
<1>3. /\ K = {} \/ m \in K
      /\ \A x \in K :
           /\ mod[x].status = "evaluating" /\ m \in Needs(x) /\ x \in Needs(m)
           /\ x # m => mod[m].dfs < mod[x].dfs /\ ~InPath(x)
           /\ \A d \in Imports(x) : Gone(x, d)
           /\ \A d \in Modules : Gone(x, d) /\ mod[d].status = "evaluating" => d \in K
      /\ K # {} => \A x \in Modules : mod[x].status = "evaluating" /\ mod[m].dfs <= mod[x].dfs => x \in K
  BY DEF EndEff, Closes
<1>4. body[m] \in {"unrun", "running"} /\ (body'[m] = "unrun" \/ body[m] = "running") /\ Finished(m)'
  BY DEF EndEff, Ends
<1>5. \/ mod'[m].async /\ mod'[m].stamp = clock /\ clock' = clock + 1
      \/ (mod'[m].async <=> mod[m].async) /\ mod'[m].stamp = mod[m].stamp /\ clock' = clock
  BY DEF EndEff, Ends
<1>6. \/ jobs' = jobs /\ (m \notin has_tla \/ body'[m] \notin Outcomes)
      \/ jobs' = Append(jobs, [m |-> m, how |-> body'[m]]) /\ m \in has_tla /\ body'[m] \in Outcomes
  BY DEF EndEff, Ends
<1>7. /\ \A x \in K : mod'[x].root = m /\ mod'[x].status = IF mod'[x].async THEN "evaluating_async" ELSE "evaluated"
      /\ \A x \in Modules : x \notin K => mod'[x].root = mod[x].root /\ mod'[x].status = mod[x].status
  BY DEF EndEff
<1>8. \A x \in Modules :
       /\ mod'[x].dfs = mod[x].dfs /\ mod'[x].pending = mod[x].pending
       /\ mod'[x].parents = mod[x].parents /\ mod'[x].error = mod[x].error
       /\ x # m => /\ mod'[x].async = mod[x].async /\ mod'[x].stamp = mod[x].stamp
                   /\ mod'[x].promise = mod[x].promise /\ body'[x] = body[x]
  BY DEF EndEff
<1>9. mod'[m].promise = mod[m].promise \/ (~Doing("eval")' /\ ~mod'[m].async /\ mod'[m].promise = "fulfilled")
  BY DEF EndEff
<1>10. ~Doing("eval")' => C1.root = m /\ \A x \in Modules : mod[x].status = "evaluating" => x \in K
  BY DEF EndEff
<1>11. Doing("eval")' => /\ C1'.root = C1.root /\ Looks(C1, m)' /\ (mod[Top(C1)].dfs < mod[m].dfs)'
                         /\ \A x \in Modules : InPath(x)' <=> InPath(x) /\ x # m
                         /\ \A p, d \in Modules : Gone(p, d)' <=> Gone(p, d)
  BY DEF EndEff
<1>12. /\ FreshInv /\ RootInv /\ ErrorInv /\ StackBodies /\ EndedBodies /\ TodoInv /\ JobsInv
       /\ PromiseInv /\ WaitInv /\ StampInv /\ CountInv /\ TreeInv /\ ImportsInv /\ JumpInv
       /\ DependenciesFirst
  BY LateParts
<1>13. Todo = {} /\ Todo' = {} BY <1>2 DEF Todo
<1>14. \A x : Needs(x)' = Needs(x) /\ Imports(x)' = Imports(x) BY <1>1, NeedsKept
<1>15. mod[m].status = "evaluating" /\ mod[m].parents = <<>> /\ mod[m].error = None /\ mod[m].root = None
  BY <1>2, <1>12 DEF StackBodies, ErrorInv, RootInv, Ended
<1>16. \A x \in Modules : \A p : Waits(p, x)' <=> Waits(p, x) BY <1>8 DEF Waits
<1>17. \A x \in Modules : InPath(x)' => Doing("eval")' /\ InPath(x) /\ x # m /\ x \notin K
  <2>1. \A x : InPath(x)' => Doing("eval")' BY DEF InPath
  <2> QED BY <2>1, <1>3, <1>11
<1>18. \A x \in Modules : mod'[x].status = "evaluating" => mod[x].status = "evaluating" /\ x \notin K /\ Doing("eval")'
  BY <1>7, <1>10
<1>19. \A x \in K : mod'[x].status \in Ended BY <1>7 DEF Ended
<1>20. \A x \in Modules : mod'[x].status \in Ended <=> mod[x].status \in Ended \/ x \in K
  BY <1>7, <1>19
<1>21. \A x \in Modules : mod[x].status \in Ended =>
          /\ x \notin K /\ mod[x].root \in Modules /\ mod[mod[x].root].status \in Ended /\ mod[x].root \notin K
  BY <1>3, <1>12 DEF RootInv, Ended
<1>22. \A x \in K : Finished(x)' /\ mod'[x].error = None
  <2> TAKE x \in K
  <2>1. mod'[x].error = None BY <1>3, <1>8, <1>12 DEF ErrorInv
  <2>2. CASE x = m BY <2>1, <2>2, <1>4
  <2>3. CASE x # m
    <3>1. Finished(x) BY <2>3, <1>3, <1>12 DEF StackBodies
    <3>2. Finished(x)' BY <2>3, <3>1, <1>1, <1>8 DEF Finished
    <3> QED BY <2>1, <3>2
  <2> QED BY <2>2, <2>3
<1>23. \A x \in K : mod'[x].status = "evaluated" =>
          body'[x] = "done" /\ mod'[x].parents = <<>> /\ x \notin has_tla /\ ~mod'[x].async /\ mod'[x].pending = 0
  <2> TAKE x \in K
  <2>1. mod'[x].status = "evaluated" => ~mod'[x].async BY <1>7
  <2> QED BY <2>1, <1>1, <1>22 DEF Finished
<1>24. \A x \in K : mod'[x].status = "evaluating_async" =>
          /\ mod'[x].async
          /\ \/ mod'[x].pending > 0 /\ body'[x] = "unrun"
             \/ mod'[x].pending = 0 /\ x \in has_tla /\ body'[x] \in Stops
  <2> TAKE x \in K
  <2>1. mod'[x].status = "evaluating_async" => mod'[x].async BY <1>7
  <2> QED BY <2>1, <1>1, <1>22 DEF Finished
<1>30. FreshInv'
  <2>1. \A x \in Modules : mod'[x].status \notin Ended \cup {"evaluating"} =>
           x # m /\ mod[x].status \notin Ended \cup {"evaluating"}
    BY <1>7, <1>15, <1>20
  <2> QED BY <2>1, <1>8, <1>12 DEF FreshInv
<1>31. RootInv'
  <2>1. \A x \in Modules : mod'[x].status \notin Ended => mod'[x].root = None
    BY <1>7, <1>12, <1>20 DEF RootInv
  <2>2. ASSUME NEW x \in Modules, mod'[x].status \in Ended
        PROVE  /\ mod'[x].root \in Modules /\ mod'[mod'[x].root].status \in Ended
               /\ mod'[mod'[x].root].root = mod'[x].root
               /\ mod'[x].error # None => mod'[mod'[x].root].error # None
    <3>1. CASE x \in K BY <3>1, <1>3, <1>7, <1>19, <1>22
    <3>2. CASE x \notin K BY <2>2, <3>2, <1>7, <1>8, <1>12, <1>20, <1>21 DEF RootInv
    <3> QED BY <3>1, <3>2
  <2>3. ASSUME NEW x \in Modules, NEW y \in Modules,
               mod'[x].status \in Ended, mod'[x].error = None, mod'[y].root = mod'[x].root
        PROVE  mod'[x].root \in Needs(y) /\ y \in Needs(mod'[x].root)
    <3>1. CASE x \in K
      <4>1. mod'[x].root = m BY <3>1, <1>7
      <4>2. y \in K
        <5> SUFFICES ASSUME y \notin K PROVE FALSE OBVIOUS
        <5>1. mod[y].root = m BY <2>3, <4>1, <1>7
        <5>2. mod[y].status \in Ended BY <5>1, <1>12, Rooted
        <5> QED BY <5>1, <5>2, <1>15, <1>21 DEF Ended
      <4> QED BY <4>1, <4>2, <1>3
    <3>2. CASE x \notin K
      <4>1. mod[x].status \in Ended /\ mod'[x].root = mod[x].root /\ mod[x].error = None
        BY <2>3, <3>2, <1>7, <1>8, <1>20
      <4>2. y \notin K BY <2>3, <4>1, <1>7, <1>15, <1>21 DEF Ended
      <4> QED BY <2>3, <4>1, <4>2, <1>7, <1>12 DEF RootInv
    <3> QED BY <3>1, <3>2
  <2> QED BY <2>1, <2>2, <2>3, <1>14 DEF RootInv
<1>32. ErrorInv'
  <2>1. \A x \in Modules : body[x] = "failed" => body'[x] = "failed" BY <1>4, <1>8
  <2>2. \A x \in Modules : Needs(x) \subseteq Modules BY NeedsSelf
  <2>3. \A x \in Modules : mod'[x].error # None => mod[x].error # None /\ x \notin K
    BY <1>8, <1>22
  <2> QED BY <2>1, <2>2, <2>3, <1>7, <1>8, <1>14, <1>12 DEF ErrorInv
<1>33. StackBodies'
  <2>1. ASSUME NEW x \in Modules, mod'[x].status = "evaluating", ~InPath(x)' PROVE Finished(x)'
    <3>1. CASE x = m BY <3>1, <1>4
    <3>2. CASE x # m
      <4>1. Finished(x) BY <2>1, <3>2, <1>11, <1>12, <1>18 DEF StackBodies
      <4> QED BY <3>2, <4>1, <1>1, <1>8 DEF Finished
    <3> QED BY <3>1, <3>2
  <2>2. ASSUME NEW x \in Modules, InPath(x)'
        PROVE  mod'[x].status = "evaluating" /\ mod'[x].parents = <<>> /\ PathBody(x)'
    <3>1. InPath(x) /\ x # m /\ x \notin K BY <2>2, <1>17
    <3>2. mod[x].status = "evaluating" /\ mod[x].parents = <<>> /\ PathBody(x)
      BY <3>1, <1>12 DEF StackBodies
    <3>3. body[x] = "unrun" /\ ~mod[x].async BY <3>1, <3>2, <1>2 DEF PathBody
    <3>5. PathBody(x)' BY <3>1, <3>3, <1>8 DEF PathBody
    <3> QED BY <3>1, <3>2, <3>5, <1>7, <1>8
  <2> QED BY <2>1, <2>2 DEF StackBodies
<1>34. EndedBodies'
  <2>1. ASSUME NEW x \in Modules, mod'[x].status = "evaluated", mod'[x].error = None
        PROVE  body'[x] = "done" /\ ~mod'[x].async /\ mod'[x].pending = 0
    <3>1. CASE x \in K BY <2>1, <3>1, <1>23
    <3>2. CASE x \notin K BY <2>1, <3>2, <1>7, <1>8, <1>12, <1>15 DEF EndedBodies
    <3> QED BY <3>1, <3>2
  <2>2. ASSUME NEW x \in Modules, mod'[x].status = "evaluating_async"
        PROVE  /\ mod'[x].async
               /\ \/ mod'[x].pending > 0 /\ body'[x] = "unrun"
                  \/ mod'[x].pending = 0 /\ x \in has_tla /\ body'[x] \in Stops
    <3>1. CASE x \in K BY <2>2, <3>1, <1>24
    <3>2. CASE x \notin K BY <2>2, <3>2, <1>7, <1>8, <1>12, <1>13, <1>15 DEF EndedBodies
    <3> QED BY <3>1, <3>2
  <2> QED BY <2>1, <2>2, <1>1, <1>13 DEF EndedBodies
<1>35. TodoInv' BY <1>2 DEF TodoInv
<1>36. JobsInv'
  <2>0. has_tla \subseteq Modules BY DEF Shaped
  <2>1. \A i, j \in 1..Len(jobs) : i # j => jobs[i].m # jobs[j].m BY <1>12 DEF JobsInv
  <2>2. ASSUME NEW x \in Modules, x \in has_tla, body'[x] \in Stops,
               \/ mod[x].status \in {"evaluating", "evaluating_async"}
               \/ mod[x].status = "evaluated" /\ mod[x].error # None
        PROVE  \/ mod'[x].status \in {"evaluating", "evaluating_async"}
               \/ mod'[x].status = "evaluated" /\ mod'[x].error # None
    <3>1. CASE x \in K BY <2>2, <3>1, <1>19, <1>23 DEF Ended
    <3>2. CASE x \notin K BY <2>2, <3>2, <1>7, <1>8
    <3> QED BY <3>1, <3>2
  <2>3. ASSUME NEW i \in 1..Len(jobs)
        PROVE  /\ jobs[i].m \in has_tla /\ body'[jobs[i].m] = jobs[i].how /\ jobs[i].m # m
               /\ \/ mod'[jobs[i].m].status \in {"evaluating", "evaluating_async"}
                  \/ mod'[jobs[i].m].status = "evaluated" /\ mod'[jobs[i].m].error # None
    <3>1. jobs[i].m \in Modules /\ jobs[i].how \in Outcomes BY JobTypes
    <3>2. jobs[i].m \in has_tla /\ body[jobs[i].m] = jobs[i].how BY <1>12 DEF JobsInv
    <3>3. jobs[i].m # m BY <3>1, <3>2, <1>4 DEF Outcomes
    <3>4. body'[jobs[i].m] = jobs[i].how /\ body'[jobs[i].m] \in Stops
      BY <3>1, <3>2, <3>3, <1>8 DEF Outcomes, Stops
    <3>5. \/ mod[jobs[i].m].status \in {"evaluating", "evaluating_async"}
          \/ mod[jobs[i].m].status = "evaluated" /\ mod[jobs[i].m].error # None
      BY <1>12 DEF JobsInv
    <3> QED BY <2>2, <3>1, <3>2, <3>3, <3>4, <3>5
  <2>4. ASSUME NEW x \in has_tla, x # m, body'[x] \in Outcomes, mod'[x].status \in {"evaluating", "evaluating_async"}
        PROVE  \E i \in 1..Len(jobs) : jobs[i].m = x
    <3>1. mod[x].status \in {"evaluating", "evaluating_async"} /\ body[x] \in Outcomes
      BY <2>0, <2>4, <1>3, <1>7, <1>8
    <3> QED BY <3>1, <1>12 DEF JobsInv
  <2>5. \A x \in Modules : body'[x] = "suspended" => x \in has_tla
    <3>1. body'[m] = "suspended" => m \in has_tla BY <1>1, <1>4 DEF Finished
    <3> QED BY <3>1, <1>8, <1>12 DEF JobsInv
  <2>6. jobs \in Seq(Reports) /\ Len(jobs) \in Nat BY JobTypes
  <2>7. CASE jobs' = jobs /\ (m \notin has_tla \/ body'[m] \notin Outcomes)
    BY <2>7, <2>1, <2>3, <2>4, <2>5, <1>1 DEF JobsInv
  <2>8. CASE jobs' = Append(jobs, [m |-> m, how |-> body'[m]]) /\ m \in has_tla /\ body'[m] \in Outcomes
    <3> DEFINE n == Len(jobs)
               j == [m |-> m, how |-> body'[m]]
    <3>1. /\ Len(jobs') = n + 1 /\ jobs'[n + 1] = j /\ \A i \in 1..n : jobs'[i] = jobs[i]
      BY <2>6, <2>8
    <3>2. j.m = m /\ j.how = body'[m] /\ n \in Nat BY <2>6
    <3>3. \/ mod'[m].status \in {"evaluating", "evaluating_async"}
          \/ mod'[m].status = "evaluated" /\ mod'[m].error # None
      BY <2>2, <2>8, <1>15 DEF Outcomes, Stops
    <3> HIDE DEF n, j
    <3>4. \A i \in 1..n + 1 : i \in 1..n \/ i = n + 1 BY <3>2
    <3>5. \A i \in 1..n : i \in 1..n + 1 /\ i # n + 1 BY <3>2
    <3>6. n + 1 \in 1..n + 1 BY <3>2
    <3>7. \A i, k \in 1..n + 1 : i # k => jobs'[i].m # jobs'[k].m
      BY <2>1, <2>3, <3>1, <3>2, <3>4 DEF n
    <3>8. \A i \in 1..n + 1 :
            /\ jobs'[i].m \in has_tla /\ body'[jobs'[i].m] = jobs'[i].how
            /\ \/ mod'[jobs'[i].m].status \in {"evaluating", "evaluating_async"}
               \/ mod'[jobs'[i].m].status = "evaluated" /\ mod'[jobs'[i].m].error # None
      BY <2>3, <2>8, <3>1, <3>2, <3>3, <3>4 DEF n
    <3>9. \A x \in has_tla : body'[x] \in Outcomes /\ mod'[x].status \in {"evaluating", "evaluating_async"} =>
              \E i \in 1..n + 1 : jobs'[i].m = x
      <4> TAKE x \in has_tla
      <4>1. CASE x = m BY <4>1, <3>1, <3>2, <3>6
      <4>2. CASE x # m BY <4>2, <2>4, <3>1, <3>5 DEF n
      <4> QED BY <4>1, <4>2
    <3> QED BY <3>1, <3>7, <3>8, <3>9, <2>5, <1>1 DEF JobsInv
  <2> QED BY <2>7, <2>8, <1>6
<1>37. PromiseInv'
  <2> SUFFICES ASSUME NEW x \in Modules
               PROVE  /\ mod'[x].promise # "none" => (mod'[x].status \in Ended /\ mod'[x].root = x) \/ (Doing("eval")' /\ C1'.root = x)
                      /\ mod'[x].promise = "fulfilled" => mod'[x].status = "evaluated" /\ mod'[x].error = None
                      /\ mod'[x].promise = "rejected" => mod'[x].error # None
    BY DEF PromiseInv
  <2>0. /\ mod[x].promise # "none" => (mod[x].status \in Ended /\ mod[x].root = x) \/ C1.root = x
        /\ mod[x].promise = "fulfilled" => mod[x].status = "evaluated" /\ mod[x].error = None
        /\ mod[x].promise = "rejected" => mod[x].error # None
    BY <1>12 DEF PromiseInv
  <2>1. CASE x # m
    <3>1. mod'[x].promise = mod[x].promise /\ mod'[x].error = mod[x].error BY <2>1, <1>8
    <3>2. mod[x].status \in Ended => mod'[x].status = mod[x].status /\ mod'[x].root = mod[x].root
      BY <1>7, <1>21
    <3> QED BY <2>0, <2>1, <3>1, <3>2, <1>10, <1>11 DEF Ended
  <2>2. CASE x = m /\ Doing("eval")'
    <3>1. mod'[m].promise = mod[m].promise BY <2>2, <1>9
    <3> QED BY <2>0, <2>2, <3>1, <1>11, <1>15 DEF Ended
  <2>3. CASE x = m /\ ~Doing("eval")'
    <3>1. m \in K BY <2>3, <1>10, <1>15
    <3>2. mod'[m].status \in Ended /\ mod'[m].root = m /\ mod'[m].error = None
      BY <3>1, <1>7, <1>19, <1>22
    <3>3. mod'[m].promise = "fulfilled" => ~mod'[m].async BY <2>0, <2>3, <1>9, <1>15
    <3>4. mod'[m].promise # "rejected" BY <2>0, <2>3, <1>9, <1>15
    <3> QED BY <2>3, <3>1, <3>2, <3>3, <3>4, <1>7
  <2> QED BY <2>1, <2>2, <2>3
<1>38. WaitInv'
  <2>1. ASSUME NEW x \in Modules, NEW p \in Modules, Waits(p, x)
        PROVE  /\ x \in Needs(p) /\ mod'[p].status \in Ended \cup {"evaluating"}
               /\ mod'[x].status = "evaluating" => mod'[p].status = "evaluating" /\ Gone(p, x)'
               /\ mod'[x].error # None => mod'[p].error # None
               /\ mod'[x].status # "evaluated" /\ mod'[p].error = None =>
                    mod'[p].status # "evaluated" /\ body'[p] = "unrun"
    <3>1. /\ x \in Needs(p) /\ mod[p].status \in Ended \cup {"evaluating"}
          /\ mod[x].status = "evaluating" => mod[p].status = "evaluating" /\ Gone(p, x)
          /\ mod[x].error # None => mod[p].error # None
          /\ mod[x].status # "evaluated" /\ mod[p].error = None =>
                    mod[p].status # "evaluated" /\ body[p] = "unrun"
      BY <2>1, <1>12 DEF WaitInv
    <3>2. mod'[p].status \in Ended \cup {"evaluating"} BY <3>1, <1>7, <1>20
    <3>3. mod'[x].status = "evaluating" => mod'[p].status = "evaluating" /\ Gone(p, x)'
      <4> SUFFICES ASSUME mod'[x].status = "evaluating" PROVE mod'[p].status = "evaluating" /\ Gone(p, x)'
        OBVIOUS
      <4>1. mod[x].status = "evaluating" /\ x \notin K /\ Doing("eval")' BY <1>18
      <4>2. mod[p].status = "evaluating" /\ Gone(p, x) BY <3>1, <4>1
      <4>3. p \notin K BY <4>1, <4>2, <1>3
      <4> QED BY <4>1, <4>2, <4>3, <1>7, <1>11
    <3>4. mod'[x].status # "evaluated" /\ mod'[p].error = None => mod'[p].status # "evaluated" /\ body'[p] = "unrun"
      <4> SUFFICES ASSUME mod'[x].status # "evaluated", mod'[p].error = None
                   PROVE  mod'[p].status # "evaluated" /\ body'[p] = "unrun"
        OBVIOUS
      <4>1. mod[x].status # "evaluated" BY <1>3, <1>7
      <4>2. mod[p].status # "evaluated" /\ body[p] = "unrun" BY <3>1, <4>1, <1>8
      <4>3. body'[p] = "unrun" BY <4>2, <1>4, <1>8
      <4> QED BY <4>2, <4>3, <1>7, <1>23
    <3> QED BY <3>1, <3>2, <3>3, <3>4, <1>8
  <2> QED BY <2>1, <1>13, <1>14, <1>16 DEF WaitInv
<1>39. StampInv'
  <2>0. clock \in Nat /\ clock' \in Nat /\ clock <= clock' /\ \A x \in Modules : mod[x].stamp \in Nat
    <3>1. clock \in Nat BY DEF Shaped
    <3> QED BY <3>1, <1>5, ModTypes
  <2>1. \A x \in Modules : mod'[x].async \/ mod'[x].parents # <<>> => mod'[x].stamp < clock'
    <3>1. ASSUME NEW x \in Modules, x # m, mod'[x].async \/ mod'[x].parents # <<>> PROVE mod'[x].stamp < clock'
      <4>1. mod[x].stamp < clock /\ mod'[x].stamp = mod[x].stamp BY <3>1, <1>8, <1>12 DEF StampInv
      <4> QED BY <4>1, <2>0
    <3>2. mod'[m].async \/ mod'[m].parents # <<>> => mod'[m].stamp < clock'
      <4>1. mod[m].async => mod[m].stamp < clock BY <1>12 DEF StampInv
      <4> QED BY <4>1, <2>0, <1>5, <1>8, <1>15
    <3> QED BY <3>1, <3>2
  <2>2. ASSUME NEW x \in Modules, NEW p \in Modules, Waits(p, x), mod'[p].async PROVE mod'[x].stamp < mod'[p].stamp
    <3>1. x # m BY <2>2, <1>15 DEF Waits, ToSet
    <3>2. mod[p].async => mod[x].stamp < mod[p].stamp BY <2>2, <1>12 DEF StampInv
    <3>3. mod[x].stamp < clock
      <4>1. mod[x].parents # <<>> BY <2>2 DEF Waits, ToSet
      <4> QED BY <4>1, <1>12 DEF StampInv
    <3> QED BY <2>2, <3>1, <3>2, <3>3, <1>5, <1>8
  <2> QED BY <2>1, <2>2, <1>16 DEF StampInv
<1>40. CountInv'
  <2>1. Open \in SUBSET Modules /\ Open' \in SUBSET Modules BY DEF Open
  <2>2. \A x \in Modules : mod[x].parents # <<>> => (x \in Open <=> x \in Open')
    <3>1. \A x \in Modules : mod[x].parents # <<>> => (mod'[x].status = "evaluated" <=> mod[x].status = "evaluated")
      BY <1>3, <1>7, <1>8, <1>23
    <3> QED BY <3>1, <1>1, <1>13 DEF Open
  <2>3. \A p : Entries(mod', Open', p) = Entries(mod, Open, p)
    <3> TAKE p
    <3>1. \A x \in Modules : p \in ToSet(mod[x].parents) => (x \in Open <=> x \in Open')
      BY <2>2 DEF ToSet
    <3>2. \A x \in Modules : mod'[x].parents = mod[x].parents BY <1>8
    <3> HIDE DEF Open
    <3> QED BY <2>1, <3>1, <3>2, EntriesSame
  <2>4. \A p : Entries(mod, Open, p)' = Entries(mod', Open', p) BY DEF Entries
  <2>5. ASSUME NEW p \in Modules, mod'[p].error = None, mod'[p].root # None => mod'[mod'[p].root].error = None
        PROVE  mod[p].error = None /\ (mod[p].root # None => mod[mod[p].root].error = None)
    <3>1. mod[p].error = None BY <2>5, <1>8
    <3>2. CASE p \in K
      <4>1. mod[p].root = None BY <3>2, <1>3, <1>12 DEF RootInv, Ended
      <4> QED BY <3>1, <4>1
    <3>3. CASE p \notin K
      <4>1. mod[p].root # None => mod[p].root \in Modules BY ModTypes
      <4> QED BY <2>5, <3>1, <3>3, <4>1, <1>7, <1>8
    <3> QED BY <3>2, <3>3
  <2> QED BY <2>3, <2>4, <2>5, <1>8, <1>12 DEF CountInv
<1>41. TreeInv'
  <2>0. \A x \in Modules : mod[x].dfs \in Nat /\ mod'[x].dfs = mod[x].dfs BY <1>8, ModTypes
  <2>1. ASSUME NEW x \in Modules, mod'[x].status = "evaluating_async", mod'[x].root # x
        PROVE  \E y \in Modules : Waits(y, x)' /\ mod'[y].root = mod'[x].root /\ mod'[y].dfs < mod'[x].dfs
    <3>1. CASE x \notin K
      <4>1. mod[x].status = "evaluating_async" /\ mod[x].root # x /\ mod'[x].root = mod[x].root
        BY <2>1, <3>1, <1>7
      <4>2. PICK y \in Modules : Waits(y, x) /\ mod[y].root = mod[x].root /\ mod[y].dfs < mod[x].dfs
        BY <4>1, <1>12 DEF TreeInv
      <4>3. mod[y].status \in Ended BY <4>1, <4>2, <1>12, <1>21, Rooted DEF Ended
      <4> QED BY <2>0, <4>1, <4>2, <4>3, <1>7, <1>16, <1>21
    <3>2. CASE x \in K
      <4>1. mod'[x].root = m /\ x # m /\ mod[x].status = "evaluating" /\ ~InPath(x) /\ mod[m].dfs < mod[x].dfs
        BY <2>1, <3>2, <1>3, <1>7
      <4>2. mod[x].async BY <2>1, <3>2, <4>1, <1>8, <1>24
      <4>3. PICK y \in Modules : Above(y, x) BY <4>1, <4>2, <1>2, <1>12 DEF TreeInv
      <4>4. /\ mod[y].status = "evaluating" /\ Waits(y, x) /\ mod[y].dfs < mod[x].dfs
            /\ mod[m].dfs <= mod[y].dfs
        BY <4>1, <4>3, <1>2 DEF Above
      <4>5. y \in K BY <3>2, <4>4, <1>3
      <4> QED BY <2>0, <4>1, <4>4, <4>5, <1>7, <1>16
    <3> QED BY <3>1, <3>2
  <2>2. ASSUME NEW x \in Modules, mod'[x].status = "evaluating", ~InPath(x)', mod'[x].async
        PROVE  \/ (Looks(C1, x) /\ mod[Top(C1)].dfs < mod[x].dfs)'
               \/ \E y \in Modules : Above(y, x)'
    <3>0. mod[x].status = "evaluating" /\ x \notin K /\ Doing("eval")' BY <2>2, <1>18
    <3>1. CASE x = m BY <3>0, <3>1, <1>11
    <3>2. CASE x # m
      <4>1. ~InPath(x) /\ mod[x].async BY <2>2, <3>0, <3>2, <1>8, <1>11
      <4>2. PICK y \in Modules : Above(y, x) BY <3>0, <4>1, <1>2, <1>12 DEF TreeInv
      <4>3. mod[y].status = "evaluating" /\ Waits(y, x) /\ mod[y].dfs < mod[x].dfs
        BY <4>2 DEF Above
      <4>4. y \notin K
        <5> SUFFICES ASSUME y \in K PROVE FALSE OBVIOUS
        <5>1. mod[m].dfs <= mod[y].dfs BY <2>0, <1>3
        <5>2. mod[m].dfs <= mod[x].dfs BY <2>0, <4>3, <5>1
        <5> QED BY <3>0, <5>2, <1>3
      <4>5. mod'[y].status = "evaluating" /\ Waits(y, x)' /\ mod'[y].dfs < mod'[x].dfs
        BY <2>0, <4>3, <4>4, <1>7, <1>16
      <4>6. \A z \in Modules : InPath(z)' /\ mod'[z].dfs < mod'[x].dfs => mod'[z].dfs <= mod'[y].dfs
        BY <2>0, <4>2, <1>17 DEF Above
      <4>7. Above(y, x)' BY <4>5, <4>6 DEF Above
      <4> QED BY <4>7
    <3> QED BY <3>1, <3>2
  <2> QED BY <2>1, <2>2 DEF TreeInv
<1>42. ImportsInv'
  <2>0. \A p \in Modules : Imports(p) \subseteq Modules BY Typed, ImportTypes
  <2>1. \A p, d \in Modules : mod[d].status \in Ended /\ DoneFor(p, d) => mod'[d].status \in Ended /\ DoneFor(p, d)'
    BY <1>7, <1>8, <1>16, <1>20, <1>21 DEF DoneFor, Complete
  <2>2. ASSUME NEW p \in Modules, mod'[p].status \in Ended, mod'[p].error = None, NEW d \in Imports(p)
        PROVE  mod'[d].status \in Ended /\ (mod'[d].root = mod'[p].root \/ DoneFor(p, d)')
    <3>0. d \in Modules BY <2>0
    <3>1. CASE p \in K
      <4>1. Gone(p, d) /\ mod[p].status = "evaluating" BY <3>1, <1>3
      <4>2. CASE mod[d].status = "evaluating"
        <5>1. d \in K BY <3>0, <3>1, <4>1, <4>2, <1>3
        <5> QED BY <3>1, <5>1, <1>7, <1>19
      <4>3. CASE mod[d].status # "evaluating" BY <2>1, <3>0, <4>1, <4>3, <1>12 DEF ImportsInv
      <4> QED BY <4>2, <4>3
    <3>2. CASE p \notin K
      <4>1. mod[p].status \in Ended /\ mod[p].error = None /\ mod'[p].root = mod[p].root
        BY <2>2, <3>2, <1>7, <1>8, <1>20
      <4>2. mod[d].status \in Ended /\ (mod[d].root = mod[p].root \/ DoneFor(p, d))
        BY <4>1, <1>12 DEF ImportsInv
      <4>3. mod'[d].root = mod[d].root BY <3>0, <4>2, <1>7, <1>21
      <4> QED BY <2>1, <3>0, <4>1, <4>2, <4>3, <1>20
    <3> QED BY <3>1, <3>2
  <2>3. ASSUME NEW p \in Modules, mod'[p].status = "evaluating", NEW d \in Modules, Gone(p, d)'
        PROVE  mod'[d].status = "evaluating" \/ (mod'[d].status \in Ended /\ DoneFor(p, d)')
    <3>1. mod[p].status = "evaluating" /\ p \notin K /\ Gone(p, d) BY <2>3, <1>11, <1>18
    <3>2. CASE mod[d].status = "evaluating"
      <4>1. d \notin K
        <5> SUFFICES ASSUME d \in K PROVE FALSE OBVIOUS
        <5>1. mod[m].dfs <= mod[d].dfs
          <6>1. mod[m].dfs \in Nat /\ mod[d].dfs \in Nat BY ModTypes
          <6> QED BY <6>1, <1>3
        <5>2. mod[m].dfs <= mod[p].dfs BY <3>1, <3>2, <5>1, <1>2, <1>12 DEF JumpInv
        <5> QED BY <3>1, <5>2, <1>3
      <4> QED BY <3>2, <4>1, <1>7
    <3>3. CASE mod[d].status # "evaluating" BY <2>1, <3>1, <3>3, <1>12 DEF ImportsInv
    <3> QED BY <3>2, <3>3
  <2> QED BY <2>2, <2>3, <1>14 DEF ImportsInv
<1>43. JumpInv'
  <2> SUFFICES ASSUME NEW p \in Modules, NEW d \in Modules, NEW z \in Modules,
                      mod'[p].status = "evaluating", mod'[d].status = "evaluating", Gone(p, d)',
                      InPath(z)', mod'[z].dfs <= mod'[d].dfs
               PROVE  mod'[z].dfs <= mod'[p].dfs
    BY DEF JumpInv
  <2>1. /\ mod[p].status = "evaluating" /\ mod[d].status = "evaluating" /\ Gone(p, d) /\ InPath(z)
        /\ mod[z].dfs <= mod[d].dfs
    BY <1>8, <1>11, <1>17, <1>18
  <2> QED BY <2>1, <1>8, <1>12 DEF JumpInv
<1>44. DependenciesFirst'
  <2>1. (\A x \in Modules : body[x] = "done" => body'[x] = "done") /\ (\A x \in Modules : body'[x] # "unrun" => body[x] # "unrun")
    BY <1>4, <1>8
  <2> QED BY <2>1, <1>1, <1>12, DependenciesKept
<1> QED
  BY <1>30, <1>31, <1>32, <1>33, <1>34, <1>35, <1>36, <1>37, <1>38, <1>39, <1>40, <1>41, <1>42,
     <1>43, <1>44 DEF LateInv

\* The frame at the top returns.
LEMMA PopView ==
  ASSUME ImportsTyped, NEW M \in ModuleTables, NEW c \in Calls, FramesInv(M, c), NEW c2, Pops(c, c2),
         AtTheEnd(c), Len(c.frames) > 1
  PROVE  /\ \A x : (\E k \in Deep(c2) : At(c2, k) = x) <=> (\E k \in Deep(c) : At(c, k) = x) /\ x # Top(c)
         /\ \A p, e : Passed(c2, p, e) <=> Passed(c, p, e)
         /\ Looks(c2, Top(c)) /\ M[Top(c2)].dfs < M[Top(c)].dfs /\ c2.frames # <<>>
<1> DEFINE n == Len(c.frames)
           t == Top(c)
<1>1. /\ n \in Nat /\ n > 1 /\ Deep(c) = 1..n /\ Deep(c2) = 1..n - 1 /\ Len(c2.frames) = n - 1 /\ c2 \in Calls
      /\ \A k \in 1..n - 1 : At(c2, k) = At(c, k) /\ Nx(c2, k) = Nx(c, k)
  BY DEF Pops
<1>2. /\ At(c, n) = t /\ t \in Modules /\ Nx(c, n) \in Nat /\ Nx(c, n) > Len(imports[t])
  BY TopFrame DEF AtTheEnd, Top
<1>3. \A k \in 1..n : At(c, k) = t => k = n BY <1>1, <1>2, OneFrame
<1>4. DOMAIN imports[t] = 1..Len(imports[t]) /\ Len(imports[t]) \in Nat BY <1>2, ImportTypes
<1>5. c2.frames # <<>> BY <1>1, CallTypes
<1>6. Top(c2) = At(c2, n - 1) BY <1>1 DEF Top
<1>7. /\ Nx(c, n - 1) \in DOMAIN imports[At(c, n - 1)] /\ imports[At(c, n - 1)][Nx(c, n - 1)] = t
      /\ M[At(c, n - 1)].dfs < M[t].dfs
  <2>1. n - 1 \in Deep(c) /\ (n - 1) + 1 \in Deep(c) /\ (n - 1) + 1 = n /\ n \in Deep(c) /\ n - 1 < n
    BY <1>1
  <2>2. /\ Nx(c, n - 1) \in DOMAIN imports[At(c, n - 1)] /\ imports[At(c, n - 1)][Nx(c, n - 1)] = At(c, (n - 1) + 1)
    BY <2>1 DEF FramesInv
  <2>3. M[At(c, n - 1)].dfs < M[At(c, n)].dfs BY <2>1 DEF FramesInv
  <2> QED BY <1>2, <2>1, <2>2, <2>3
<1> HIDE DEF n, t
<1>8. n - 1 \in 1..n - 1 /\ n - 1 > 0 /\ (\A k \in 1..n - 1 : k \in 1..n /\ k # n) /\ (\A k \in 1..n : k = n \/ k \in 1..n - 1)
  BY <1>1
<1>9. Looks(c2, t) BY <1>1, <1>7, <1>8 DEF Looks
<1>10. \A x : (\E k \in Deep(c2) : At(c2, k) = x) <=> (\E k \in Deep(c) : At(c, k) = x) /\ x # t
  BY <1>1, <1>2, <1>3, <1>8
<1>11. \A p, e : p # t => (Passed(c2, p, e) <=> Passed(c, p, e))
  <2> SUFFICES ASSUME NEW p, NEW e, p # t PROVE Passed(c2, p, e) <=> Passed(c, p, e)
    OBVIOUS
  <2>1. \A k \in 1..n : At(c, k) = p => k # n BY <1>2
  <2>2. \A i : (\A k \in Deep(c2) : At(c2, k) = p => i < Nx(c2, k)) <=>
               (\A k \in Deep(c) : At(c, k) = p => i < Nx(c, k))
    BY <1>1, <1>8, <2>1
  <2> QED BY <2>2 DEF Passed
<1>12. \A e : Passed(c2, t, e) <=> \E i \in DOMAIN imports[t] : imports[t][i] = e
  <2>1. \A k \in Deep(c2) : At(c2, k) # t BY <1>10
  <2> QED BY <2>1 DEF Passed
<1>13. \A e : Passed(c, t, e) <=> \E i \in DOMAIN imports[t] : imports[t][i] = e
  <2>1. \A i \in DOMAIN imports[t] : i < Nx(c, n) BY <1>2, <1>4
  <2> QED BY <1>1, <1>3, <2>1 DEF Passed
<1>14. \A p, e : Passed(c2, p, e) <=> Passed(c, p, e) BY <1>11, <1>12, <1>13
<1> QED BY <1>1, <1>5, <1>6, <1>7, <1>8, <1>9, <1>10, <1>14 DEF t

\* The fields of the modules after a cycle was closed.
LEMMA ClosedFields ==
  ASSUME NEW M \in ModuleTables, NEW m \in Modules, NEW K, NEW Z, ClosesTo(M, m, K, Z)
  PROVE  /\ Z \in ModuleTables
         /\ \A x \in Modules : x \in K =>
              Z[x].root = m /\ Z[x].status = IF M[x].async THEN "evaluating_async" ELSE "evaluated"
         /\ \A x \in Modules : x \notin K => Z[x] = M[x]
         /\ \A x \in Modules :
              /\ Z[x].dfs = M[x].dfs /\ Z[x].anc = M[x].anc /\ Z[x].pending = M[x].pending
              /\ Z[x].async = M[x].async /\ Z[x].stamp = M[x].stamp /\ Z[x].parents = M[x].parents
              /\ Z[x].error = M[x].error /\ Z[x].promise = M[x].promise
<1> DEFINE s(x) == IF M[x].async THEN "evaluating_async" ELSE "evaluated"
           r(x) == [M[x] EXCEPT !.root = m, !.status = s(x)]
           N == [x \in Modules |-> IF x \in K THEN r(x) ELSE M[x]]
<1>1. M \in [Modules -> ModuleFields] /\ \A x \in Modules : M[x] \in ModuleFields
  BY FieldTypes DEF ModuleTables
<1>2. \A x : s(x) \in Statuses BY DEF Statuses
<1> HIDE DEF s
<1>3. \A x \in Modules :
        /\ r(x) \in ModuleFields /\ r(x).root = m /\ r(x).status = s(x)
        /\ r(x).dfs = M[x].dfs /\ r(x).anc = M[x].anc /\ r(x).pending = M[x].pending
        /\ r(x).async = M[x].async /\ r(x).stamp = M[x].stamp /\ r(x).parents = M[x].parents
        /\ r(x).error = M[x].error /\ r(x).promise = M[x].promise
  BY <1>1, <1>2 DEF ModuleFields
<1> HIDE DEF r
<1>4. N \in ModuleTables /\ \A x \in Modules : N[x] = IF x \in K THEN r(x) ELSE M[x]
  BY <1>1, <1>3 DEF ModuleTables
<1>5. Z = N BY DEF ClosesTo, N, r, s
<1> HIDE DEF N
<1>6. Z \in ModuleTables /\ \A x \in Modules : Z[x] = IF x \in K THEN r(x) ELSE M[x] BY <1>4, <1>5
<1> QED BY <1>3, <1>6 DEF s

\* The cycle that is closed.
LEMMA ClosesCycle ==
  ASSUME IInv, Doing("eval"), AtTheEnd(C1), NEW m \in Modules, Top(C1) = m
  PROVE  /\ ClosedBy(m) \subseteq Modules /\ Closes(m, ClosedBy(m))
         /\ Len(C1.frames) = 1 =>
              /\ IsRoot(mod, m) /\ m = C1.root /\ Below(C1.stack, m) = <<>>
              /\ \A x \in Modules : mod[x].status = "evaluating" => x \in ClosedBy(m)
<1>1. /\ ImportsTyped /\ mod \in ModuleTables /\ C1 \in Calls /\ Walk(mod, C1, "evaluating", Ended) /\ C1.frames # <<>>
      /\ \A x \in Modules : mod[x].status = "evaluating" <=> x \in On(C1)
      /\ Top(C1) \in On(C1) /\ C1.root \in On(C1) /\ On(C1) \subseteq Modules
  BY EvalState
<1>2. FramesInv(mod, C1) /\ StackInv(mod, C1, "evaluating") BY <1>1 DEF Walk
<1>3. Cycle(C1.stack, m) = {x \in On(C1) : mod[m].dfs <= mod[x].dfs} BY <1>1, <1>2, CycleByNumber
<1>4. m = At(C1, Len(C1.frames)) /\ m \in On(C1) /\ mod[m].dfs \in Nat BY <1>1, FieldTypes DEF Top
<1>5. \A z \in Modules : InPath(z) => mod[z].dfs <= mod[m].dfs BY <1>1, <1>2, PathBelow DEF InPath
<1>6. CASE ~IsRoot(mod, m)
  <2>1. ClosedBy(m) = {} BY <1>6 DEF ClosedBy
  <2>2. Len(C1.frames) # 1 BY <1>1, <1>6, FirstIsRoot
  <2> QED BY <2>1, <2>2 DEF Closes
<1>7. CASE IsRoot(mod, m)
  <2> DEFINE K == Cycle(C1.stack, m)
  <2>1. ClosedBy(m) = K BY <1>7 DEF ClosedBy
  <2>2. m \in K /\ K \subseteq On(C1) BY <1>3, <1>4
  <2>3. ASSUME NEW x \in K
        PROVE  /\ m \in Needs(x) /\ x \in Needs(m)
               /\ \A d \in Imports(x) : Gone(x, d)
               /\ \A d \in Modules : Gone(x, d) /\ d \in On(C1) => d \in K
    <3> DEFINE u == At(C1, Len(C1.frames))
    <3>1. IsRoot(mod, u) /\ x \in Cycle(C1.stack, u) BY <1>4, <1>7
    <3>2. /\ x \in On(C1) /\ u \in Needs(x) /\ x \in Needs(u)
          /\ \A d \in Imports(x) : Passed(C1, x, d)
          /\ \A d \in Modules : Passed(C1, x, d) /\ d \in On(C1) => d \in Cycle(C1.stack, u)
      BY <1>1, <3>1, CycleClosed
    <3> QED BY <1>4, <3>2 DEF Gone
  <2>4. ASSUME NEW x \in K, x # m PROVE mod[m].dfs < mod[x].dfs /\ ~InPath(x)
    <3>1. mod[m].dfs <= mod[x].dfs /\ x \in On(C1) /\ mod[x].dfs \in Nat BY <1>1, <1>3, FieldTypes
    <3>2. mod[m].dfs # mod[x].dfs
      <4>1. PICK i \in 1..Len(C1.stack) : C1.stack[i] = x BY <1>1, <3>1, CallTypes
      <4>2. PICK j \in 1..Len(C1.stack) : C1.stack[j] = m BY <1>1, <1>4, CallTypes
      <4>3. i # j /\ i \in Nat /\ j \in Nat BY <2>4, <4>1, <4>2
      <4>4. i < j => mod[x].dfs < mod[m].dfs BY <1>2, <4>1, <4>2 DEF StackInv
      <4>5. j < i => mod[m].dfs < mod[x].dfs BY <1>2, <4>1, <4>2 DEF StackInv
      <4> QED BY <1>4, <3>1, <4>3, <4>4, <4>5
    <3>3. mod[m].dfs < mod[x].dfs BY <1>4, <3>1, <3>2
    <3>4. x \in Modules BY <1>1, <3>1
    <3> QED BY <1>4, <1>5, <3>1, <3>3, <3>4
  <2>5. Closes(m, K) BY <1>1, <1>3, <2>2, <2>3, <2>4 DEF Closes
  <2>6. Len(C1.frames) = 1 =>
              /\ m = C1.root /\ Below(C1.stack, m) = <<>>
              /\ \A x \in Modules : mod[x].status = "evaluating" => x \in K
    <3>1. Len(C1.frames) = 1 => m = C1.root /\ Below(C1.stack, m) = <<>> BY <1>1, FirstIsRoot
    <3>2. \A x \in On(C1) : mod[C1.root].dfs <= mod[x].dfs BY <1>1, <1>2 DEF FramesInv
    <3> QED BY <1>1, <1>3, <3>1, <3>2
  <2> HIDE DEF K
  <2> QED BY <1>1, <1>7, <2>1, <2>2, <2>5, <2>6
<1> QED BY <1>6, <1>7

\* What EvalEnds assigns, part by part.
LEMMA EvalEndsParts ==
  ASSUME IInv, Doing("eval"), AtTheEnd(C1), NEW m \in Modules, Top(C1) = m,
         NEW M \in ModuleTables, NEW ok \in BOOLEAN, ok, EvalEnds(M, m, ok), SameFields(M)
  PROVE  asserts' /\ mod' \in ModuleTables /\ EndFields(M, m, ClosedBy(m)) /\ EndCalls(m)
<1>0. \A x \in Modules :
    /\ M[x].status = mod[x].status /\ M[x].dfs = mod[x].dfs /\ M[x].anc = mod[x].anc
    /\ M[x].root = mod[x].root /\ M[x].pending = mod[x].pending /\ M[x].parents = mod[x].parents
    /\ M[x].error = mod[x].error /\ M[x].promise = mod[x].promise
  BY DEF SameFields
<1>1. /\ ImportsTyped /\ asserts /\ LateInv /\ mod \in ModuleTables /\ C1 \in Calls /\ top = C1 /\ C1.frames # <<>>
      /\ Walk(mod, C1, "evaluating", Ended) /\ mod[m].status = "evaluating" /\ m \in On(C1)
  BY EvalState
<1>2. StackInv(mod, C1, "evaluating") /\ mod[m].anc <= mod[m].dfs /\ mod[m].error = None
  BY <1>1, LateParts DEF Walk, AncInv, ErrorInv
<1>3. IsRoot(M, m) <=> IsRoot(mod, m) BY <1>0, <1>1 DEF IsRoot
<1> DEFINE K == ClosedBy(m)
           C == IF IsRoot(M, m) THEN Closed(M, m) ELSE M
           S == IF IsRoot(M, m) THEN Below(C1.stack, m) ELSE C1.stack
<1>4. S \in Seq(Modules) BY <1>1, <1>2, CycleByNumber, CallTypes
<1>5. IsRoot(M, m) => ClosesTo(M, m, K, C) BY <1>1, <1>3 DEF ClosesTo, Closed, ClosedBy
<1>6. ~IsRoot(M, m) => C = M /\ K = {} BY <1>3 DEF ClosedBy
<1>7. /\ Len(C1.frames) > 1 =>
           /\ mod' = C /\ Replace([[C1 EXCEPT !.stack = S] EXCEPT !.frames = Front(@)])
           /\ asserts' = (asserts /\ ok /\ M[m].anc <= M[m].dfs)
      /\ ~(Len(C1.frames) > 1) =>
           /\ mod' = IF C[m].async THEN C ELSE [C EXCEPT ![m].promise = Settled(@, "fulfilled")]
           /\ Returns
           /\ asserts' = (asserts /\ ok /\ M[m].anc <= M[m].dfs /\ S = <<>> /\ C[m].error = None
                          /\ C[m].status \in IF C[m].async THEN Ended ELSE {"evaluated"})
  BY <1>1 DEF EvalEnds, Leave
<1>8. /\ IsRoot(mod, m) => S = Below(C1.stack, m)
      /\ ~IsRoot(mod, m) => S = C1.stack
  BY <1>3
<1>9. K \subseteq Modules /\ (Len(C1.frames) = 1 =>
              /\ IsRoot(mod, m) /\ m = C1.root /\ Below(C1.stack, m) = <<>>
              /\ \A x \in Modules : mod[x].status = "evaluating" => x \in K)
  BY ClosesCycle
<1> HIDE DEF K, C, S
<1>10. /\ C \in ModuleTables
       /\ \A x \in Modules : x \in K =>
            C[x].root = m /\ C[x].status = IF M[x].async THEN "evaluating_async" ELSE "evaluated"
       /\ \A x \in Modules : x \notin K => C[x] = M[x]
       /\ \A x \in Modules :
            /\ C[x].dfs = M[x].dfs /\ C[x].anc = M[x].anc /\ C[x].pending = M[x].pending
            /\ C[x].async = M[x].async /\ C[x].stamp = M[x].stamp /\ C[x].parents = M[x].parents
            /\ C[x].error = M[x].error /\ C[x].promise = M[x].promise
  <2>1. CASE IsRoot(M, m) BY <2>1, <1>5, ClosedFields
  <2>2. CASE ~IsRoot(M, m) BY <2>2, <1>6
  <2> QED BY <2>1, <2>2
<1>11. /\ \A x \in K : C[x].root = m /\ C[x].status = IF C[x].async THEN "evaluating_async" ELSE "evaluated"
       /\ \A x \in Modules : x \notin K => C[x].root = mod[x].root /\ C[x].status = mod[x].status
       /\ \A x \in Modules :
              /\ C[x].dfs = mod[x].dfs /\ C[x].anc = mod[x].anc /\ C[x].pending = mod[x].pending
              /\ C[x].parents = mod[x].parents /\ C[x].error = mod[x].error
              /\ C[x].async = M[x].async /\ C[x].stamp = M[x].stamp /\ C[x].promise = mod[x].promise
  BY <1>0, <1>9, <1>10
<1>12. M[m].anc <= M[m].dfs BY <1>0, <1>2
<1>13. CASE Len(C1.frames) > 1
  <2>1. Replace([[C1 EXCEPT !.stack = S] EXCEPT !.frames = Front(@)]) /\ mod' = C /\ asserts'
    BY <1>1, <1>7, <1>12, <1>13
  <2>2. EndPops(m) BY <1>4, <1>8, <2>1 DEF EndPops
  <2>3. mod'[m].promise = mod[m].promise /\ \A x \in Modules : x # m => mod'[x].promise = mod[x].promise
    BY <1>11, <2>1
  <2>4. EndCalls(m)
    <3>0. \A k \in Nat : k > 1 => k # 1 OBVIOUS
    <3>1. Len(C1.frames) # 1 BY <1>1, <1>13, <3>0, TopFrame
    <3> QED BY <3>1, <2>2, <2>3 DEF EndCalls
  <2>5. EndFields(M, m, ClosedBy(m)) BY <1>11, <2>1, <2>3 DEF K, EndFields
  <2> QED BY <1>10, <2>1, <2>4, <2>5
<1>14. CASE Len(C1.frames) = 1
  <2>1. ~(Len(C1.frames) > 1) BY <1>14
  <2>2. /\ mod' = IF C[m].async THEN C ELSE [C EXCEPT ![m].promise = Settled(@, "fulfilled")]
        /\ Returns
        /\ asserts' = (asserts /\ ok /\ M[m].anc <= M[m].dfs /\ S = <<>> /\ C[m].error = None
                          /\ C[m].status \in IF C[m].async THEN Ended ELSE {"evaluated"})
    BY <1>7, <2>1
  <2>3. m \in K /\ S = <<>> BY <1>1, <1>8, <1>9, <1>14
  <2>4. asserts'
    <3>1. C[m].status \in IF C[m].async THEN Ended ELSE {"evaluated"} BY <1>11, <2>3 DEF Ended
    <3>2. C[m].error = None BY <1>2, <1>11
    <3> QED BY <1>1, <1>12, <2>2, <2>3, <3>1, <3>2
  <2>5. /\ mod' \in ModuleTables
        /\ \A x \in Modules : x # m => mod'[x] = C[x]
        /\ \A x \in Modules :
              /\ mod'[x].status = C[x].status /\ mod'[x].dfs = C[x].dfs /\ mod'[x].anc = C[x].anc
              /\ mod'[x].root = C[x].root /\ mod'[x].pending = C[x].pending /\ mod'[x].async = C[x].async
              /\ mod'[x].stamp = C[x].stamp /\ mod'[x].parents = C[x].parents /\ mod'[x].error = C[x].error
        /\ mod'[m].promise = C[m].promise \/ (~C[m].async /\ mod'[m].promise = "fulfilled")
    <3>1. CASE C[m].async BY <1>10, <2>2, <3>1
    <3>2. CASE ~C[m].async
      <4> DEFINE v == Settled(C[m].promise, "fulfilled")
                 N == [C EXCEPT ![m].promise = v]
      <4>1. mod' = N BY <2>2, <3>2
      <4>2. v \in Promises /\ (v = C[m].promise \/ v = "fulfilled")
        BY <1>10, FieldTypes DEF Settled, Promises
      <4> HIDE DEF v
      <4>3. /\ N \in ModuleTables /\ N[m].promise = v
            /\ \A x \in Modules : x # m => N[x] = C[x]
            /\ \A x \in Modules :
              /\ N[x].status = C[x].status /\ N[x].dfs = C[x].dfs /\ N[x].anc = C[x].anc
              /\ N[x].root = C[x].root /\ N[x].pending = C[x].pending /\ N[x].async = C[x].async
              /\ N[x].stamp = C[x].stamp /\ N[x].parents = C[x].parents /\ N[x].error = C[x].error
        BY <1>10, <4>2, PromiseFields
      <4> HIDE DEF N
      <4> QED BY <3>2, <4>1, <4>2, <4>3
    <3> QED BY <3>1, <3>2
  <2>6. \A x \in Modules : x # m => mod'[x].promise = mod[x].promise BY <1>11, <2>5
  <2>7. mod'[m].promise = mod[m].promise \/ (~mod'[m].async /\ mod'[m].promise = "fulfilled")
    BY <1>11, <2>5
  <2>8. /\ \A x \in K : mod'[x].root = m /\ mod'[x].status = IF mod'[x].async THEN "evaluating_async" ELSE "evaluated"
        /\ \A x \in Modules : x \notin K => mod'[x].root = mod[x].root /\ mod'[x].status = mod[x].status
        /\ \A x \in Modules :
              /\ mod'[x].dfs = mod[x].dfs /\ mod'[x].anc = mod[x].anc /\ mod'[x].pending = mod[x].pending
              /\ mod'[x].parents = mod[x].parents /\ mod'[x].error = mod[x].error
              /\ mod'[x].async = M[x].async /\ mod'[x].stamp = M[x].stamp
    BY <1>9, <1>11, <2>5
  <2>9. EndCalls(m) BY <1>14, <2>2, <2>7 DEF EndCalls
  <2>10. EndFields(M, m, ClosedBy(m)) BY <2>6, <2>8 DEF K, EndFields
  <2> QED BY <2>4, <2>5, <2>9, <2>10
<1>15. Len(C1.frames) = 1 \/ Len(C1.frames) > 1 BY <1>1, TopFrame
<1> QED BY <1>13, <1>14, <1>15

\* The end of js_inner_module_evaluation on m, whatever became of its body.
LEMMA EvalEndsStep ==
  ASSUME IInv, Doing("eval"), AtTheEnd(C1), Kept, NEW m \in Modules, Top(C1) = m,
         NEW M \in ModuleTables, NEW ok \in BOOLEAN, ok, EvalEnds(M, m, ok), SameFields(M),
         \A x \in Modules : x # m => M[x].async = mod[x].async /\ M[x].stamp = mod[x].stamp,
         body' \in [Modules -> Bodies], \A x \in Modules : x # m => body'[x] = body[x],
         jobs' \in Seq(Reports), clock' \in Nat,
         /\ mod'[m].async = M[m].async /\ mod'[m].stamp = M[m].stamp
         /\ mod'[m].pending = mod[m].pending /\ mod'[m].parents = mod[m].parents
         => Ends(m)
  PROVE  Shaped' /\ WalkInv' /\ asserts' /\ \E K \in SUBSET Modules : EndEff(m, K)
<1>1. /\ Shaped /\ ImportsTyped /\ mod \in ModuleTables
      /\ calls # <<>> /\ C1 \in Calls /\ C1.frames # <<>> /\ C1.op = "eval" /\ C1.todo = <<>>
      /\ ~Doing("exec") /\ Walk(mod, C1, "evaluating", Ended)
      /\ (\A x \in Modules : mod[x].status = "evaluating" <=> x \in On(C1))
      /\ (\A x \in Modules : mod[x].status # "linking" /\ mod[x].status \in Statuses)
      /\ (\A x \in Modules : Imports(x) \subseteq Modules)
      /\ (\A x \in Modules : mod[x].status \in Linked => \A e \in Imports(x) : mod[e].status \in Linked)
      /\ InPath(m) /\ On(C1) \subseteq Modules
  BY EvalState
<1>2. \A x : ~Looks(C1, x) BY EvalEndState
<1>3. PICK K \in SUBSET Modules : K = ClosedBy(m) BY ClosesCycle
<1>4. /\ Closes(m, K)
      /\ Len(C1.frames) = 1 =>
              /\ IsRoot(mod, m) /\ m = C1.root /\ Below(C1.stack, m) = <<>>
              /\ \A x \in Modules : mod[x].status = "evaluating" => x \in K
  <2>1. /\ ClosedBy(m) \subseteq Modules /\ Closes(m, ClosedBy(m))
        /\ Len(C1.frames) = 1 =>
              /\ IsRoot(mod, m) /\ m = C1.root /\ Below(C1.stack, m) = <<>>
              /\ \A x \in Modules : mod[x].status = "evaluating" => x \in ClosedBy(m)
    BY ClosesCycle
  <2> QED BY <1>3, <2>1
<1>50. asserts' /\ mod' \in ModuleTables /\ EndFields(M, m, ClosedBy(m)) /\ EndCalls(m)
  BY EvalEndsParts
<1>51. EndFields(M, m, K) BY <1>3, <1>50
<1>5. /\ asserts' /\ mod' \in ModuleTables
      /\ \A x \in K : mod'[x].root = m /\ mod'[x].status = IF mod'[x].async THEN "evaluating_async" ELSE "evaluated"
      /\ \A x \in Modules : x \notin K => mod'[x].root = mod[x].root /\ mod'[x].status = mod[x].status
      /\ \A x \in Modules :
           /\ mod'[x].dfs = mod[x].dfs /\ mod'[x].anc = mod[x].anc /\ mod'[x].pending = mod[x].pending
           /\ mod'[x].parents = mod[x].parents /\ mod'[x].error = mod[x].error
           /\ mod'[x].async = M[x].async /\ mod'[x].stamp = M[x].stamp
           /\ x # m => mod'[x].promise = mod[x].promise
  BY <1>50, <1>51 DEF EndFields
<1>6. Ends(m) BY <1>5
<1>7. \A x \in Modules :
        x # m => /\ mod'[x].async = mod[x].async /\ mod'[x].stamp = mod[x].stamp
                 /\ mod'[x].promise = mod[x].promise /\ body'[x] = body[x]
  BY <1>5
<1>8. K \subseteq Modules /\ \A x \in K : mod[x].status = "evaluating" /\ mod'[x].status \in Ended
  BY <1>4, <1>5 DEF Closes, Ended
<1>9. \A x \in Modules : mod'[x].status # "linking" BY <1>1, <1>5, <1>8 DEF Ended
<1>10. \A x \in Modules : mod'[x].status \in Linked => \A e \in Imports(x) : mod'[e].status \in Linked
  <2>1. \A x \in Modules : mod'[x].status \in Linked <=> mod[x].status \in Linked
    BY <1>1, <1>5, <1>8 DEF Ended, Linked
  <2> QED BY <1>1, <2>1
<1>11. CASE Len(C1.frames) = 1
  <2>0. Returns /\ (mod'[m].promise = mod[m].promise \/ (~mod'[m].async /\ mod'[m].promise = "fulfilled"))
    BY <1>11, <1>50 DEF EndCalls
  <2>1. calls' = <<>> BY <1>1, <2>0, CallSteps
  <2>2. \A op : ~Doing(op)' BY <2>1 DEF Doing
  <2>3. Shaped' BY <1>1, <1>5, <2>1, ShapedNext
  <2>4. m = C1.root /\ \A x \in Modules : mod[x].status = "evaluating" => x \in K BY <1>4, <1>11
  <2>5. WalkInv'
    <3>1. \A x \in Modules : mod'[x].status # "evaluating" BY <1>5, <1>8, <2>4 DEF Ended
    <3> QED BY <1>9, <1>10, <2>2, <3>1, IdleWalkNext
  <2>6. EndEff(m, K) BY <1>1, <1>2, <1>4, <1>5, <1>6, <1>7, <2>0, <2>2, <2>4 DEF EndEff
  <2> QED BY <1>5, <2>3, <2>5, <2>6
<1>12. CASE Len(C1.frames) > 1
  <2>1. mod'[m].promise = mod[m].promise /\ EndPops(m) BY <1>12, <1>50 DEF EndCalls
  <2>0. PICK s \in Seq(Modules) :
                 /\ Replace([[C1 EXCEPT !.stack = s] EXCEPT !.frames = Front(@)])
                 /\ IsRoot(mod, m) => s = Below(C1.stack, m)
                 /\ ~IsRoot(mod, m) => s = C1.stack
    BY <2>1 DEF EndPops
  <2> DEFINE c == [[C1 EXCEPT !.stack = s] EXCEPT !.frames = Front(@)]
  <2>2. Pops(C1, c) /\ c.stack = s /\ Replace(c) BY <1>1, <2>0, PopCall
  <2> HIDE DEF c
  <2>3. c \in Calls /\ c.op = "eval" /\ c.todo = <<>> /\ c.root = C1.root BY <1>1, <2>2 DEF Pops
  <2>4. /\ calls' # <<>> /\ C1' = c /\ Len(calls') <= 1 /\ calls' \in Seq(Calls)
        /\ \A op : Doing(op)' <=> c.op = op
    BY <1>1, <2>2, <2>3, CallsTyped
  <2>5. Shaped' BY <1>1, <1>5, <2>3, <2>4, ShapedNext
  <2>6. FramesInv(mod, C1) BY <1>1 DEF Walk
  <2>7. /\ \A x : (\E k \in Deep(c) : At(c, k) = x) <=> (\E k \in Deep(C1) : At(C1, k) = x) /\ x # Top(C1)
        /\ \A p, e : Passed(c, p, e) <=> Passed(C1, p, e)
        /\ Looks(c, Top(C1)) /\ mod[Top(c)].dfs < mod[Top(C1)].dfs /\ c.frames # <<>>
    BY <1>1, <1>12, <2>2, <2>6, PopView
  <2>8. Walk(mod', C1', "evaluating", Ended)
    <3>0. "evaluating" \notin Ended BY DEF Ended
    <3> DEFINE u == At(C1, Len(C1.frames))
    <3>1. u = m BY DEF Top
    <3>2. CASE IsRoot(mod, m)
      <4>1. K = Cycle(C1.stack, u) BY <1>3, <3>1, <3>2 DEF ClosedBy
      <4>2. IsRoot(mod, u) /\ c.stack = Below(C1.stack, u) BY <2>0, <2>2, <3>1, <3>2
      <4>3. /\ \A x \in Cycle(C1.stack, u) : mod'[x].status \in Ended
            /\ \A x \in Modules \ Cycle(C1.stack, u) : mod'[x].status = mod[x].status
            /\ \A x \in Modules : mod'[x].dfs = mod[x].dfs /\ mod'[x].anc = mod[x].anc
        BY <1>5, <1>8, <4>1
      <4>4. Walk(mod', c, "evaluating", Ended)
        BY <1>1, <1>5, <2>2, <2>3, <3>0, <4>2, <4>3, CloseWalk
      <4> QED BY <2>4, <4>4
    <3>3. CASE ~IsRoot(mod, m)
      <4>1. K = {} /\ c.stack = C1.stack BY <1>3, <2>0, <2>2, <3>3 DEF ClosedBy
      <4>2. mod[u].anc # mod[u].dfs /\ Nx(C1, Len(C1.frames)) > Len(imports[u])
        BY <3>1, <3>3 DEF IsRoot, AtTheEnd
      <4>3. Walk(mod, c, "evaluating", Ended) BY <1>1, <1>12, <2>2, <2>3, <4>1, <4>2, LeaveWalk
      <4>4. \A x \in Modules : SameWalk(mod, mod', x) BY <1>5, <4>1 DEF SameWalk
      <4>5. Walk(mod', c, "evaluating", Ended) BY <1>1, <1>5, <2>3, <4>3, <4>4, SameWalkKept
      <4> QED BY <2>4, <4>5
    <3> QED BY <3>2, <3>3
  <2>9. WalkInv' BY <1>9, <1>10, <2>3, <2>4, <2>7, <2>8, EvalWalkNext
  <2>10. EndEff(m, K)
    <3>1. \A p, e : Gone(p, e)' <=> Passed(c, p, e) BY <2>4, GoneKept
    <3>2. \A p, d \in Modules : Gone(p, d)' <=> Gone(p, d) BY <2>7, <3>1 DEF Gone
    <3>3. \A x \in Modules : InPath(x)' <=> InPath(x) /\ x # m BY <2>3, <2>4, <2>7 DEF InPath
    <3>4. Looks(C1, m)'
      <4>1. Looks(c, m) BY <2>7
      <4>2. \A e : Looks(C1, e)' <=> Looks(C1', e) BY GoneKept
      <4> QED BY <2>4, <4>1, <4>2
    <3>5. (mod[Top(C1)].dfs < mod[m].dfs)'
      <4>1. Top(c) \in Modules BY <2>3, <2>7, TopFrame
      <4>2. mod'[Top(c)].dfs < mod'[m].dfs BY <1>5, <2>7, <4>1
      <4>3. Top(C1)' = Top(c) BY <2>4 DEF Top, At
      <4> QED BY <4>2, <4>3
    <3>6. Doing("eval")' /\ ~Doing("exec")' /\ C1'.root = C1.root BY <2>3, <2>4
    <3> QED
      BY <1>1, <1>2, <1>4, <1>5, <1>6, <1>7, <2>1, <3>2, <3>3, <3>4, <3>5, <3>6 DEF EndEff
  <2> QED BY <1>5, <2>5, <2>9, <2>10
<1>13. Len(C1.frames) = 1 \/ Len(C1.frames) > 1 BY <1>1, TopFrame
<1> QED BY <1>11, <1>12, <1>13

\* EvalWaits has the effect EndEff.
LEMMA EvalWaitsStep ==
  ASSUME IInv, EvalWaits
  PROVE  Shaped' /\ WalkInv' /\ asserts' /\ \E m \in Modules : \E K \in SUBSET Modules : EndEff(m, K)
<1>1. Shaped /\ WalkInv /\ AtEnd("eval") BY DEF IInv, EvalWaits
<1>2. Doing("eval") /\ AtTheEnd(C1) BY <1>1, EndSeen
<1>3. /\ LateInv /\ mod \in ModuleTables /\ body \in [Modules -> Bodies] /\ jobs \in Seq(Reports) /\ clock \in Nat
      /\ Top(C1) \in Modules /\ frame.m = Top(C1) /\ InPath(Top(C1))
  BY <1>2, EvalState
<1>4. PICK m \in Modules : Top(C1) = m BY <1>3
<1>5. PICK t \in Nat : clock = t BY <1>3
<1> DEFINE M == Deferred(m)
<1>6. /\ mod[m].pending > 0 /\ clock' = clock + 1 /\ Kept /\ body' = body /\ jobs' = jobs
      /\ EvalEnds(M, m, ~mod[m].async)
  BY <1>3, <1>4 DEF EvalWaits, Kept, code
<1>7. Defers(mod, m, t, M) BY <1>5 DEF Defers, Deferred
<1> HIDE DEF M
<1>8. /\ M \in ModuleTables /\ M[m].async /\ M[m].stamp = t
      /\ \A x \in Modules : x # m => M[x] = mod[x]
      /\ \A x \in Modules :
              /\ M[x].status = mod[x].status /\ M[x].dfs = mod[x].dfs /\ M[x].anc = mod[x].anc
              /\ M[x].root = mod[x].root /\ M[x].pending = mod[x].pending /\ M[x].parents = mod[x].parents
              /\ M[x].error = mod[x].error /\ M[x].promise = mod[x].promise
  BY <1>3, <1>7, DeferFields
<1>9. SameFields(M) BY <1>8 DEF SameFields
<1>10. body[m] = "unrun" /\ ~mod[m].async BY <1>3, <1>4, <1>6, LateParts DEF StackBodies, PathBody
<1>11. EvalEnds(M, m, TRUE)
  <2>1. (~mod[m].async) = TRUE BY <1>10
  <2> QED BY <1>6, <2>1
<1>12. /\ body' \in [Modules -> Bodies] /\ jobs' \in Seq(Reports) /\ clock' \in Nat
       /\ \A x \in Modules : x # m => body'[x] = body[x]
       /\ \A x \in Modules : x # m => M[x].async = mod[x].async /\ M[x].stamp = mod[x].stamp
  BY <1>3, <1>6, <1>8
<1>13. /\ mod'[m].async = M[m].async /\ mod'[m].stamp = M[m].stamp
       /\ mod'[m].pending = mod[m].pending /\ mod'[m].parents = mod[m].parents
       => Ends(m)
  BY <1>5, <1>6, <1>8, <1>10 DEF Ends, Finished, Outcomes
<1>14. Shaped' /\ WalkInv' /\ asserts' /\ \E K \in SUBSET Modules : EndEff(m, K)
  BY <1>2, <1>4, <1>6, <1>8, <1>9, <1>11, <1>12, <1>13, EvalEndsStep
<1> QED BY <1>14

\* The end of a body in an evaluation has the effect EndEff.
LEMMA BodyEndsStep ==
  ASSUME IInv, InCall("eval"), Running, Kept, clock' = clock, NEW how \in Stops,
         NEW m \in Modules, Current = m, body' = [body EXCEPT ![m] = how], EvalEnds(mod, m, TRUE),
         \/ m \in has_tla /\ jobs' = IF how = "suspended" THEN jobs ELSE Report(m, how)
         \/ m \notin has_tla /\ how = "done" /\ jobs' = jobs
  PROVE  Shaped' /\ WalkInv' /\ asserts' /\ \E K \in SUBSET Modules : EndEff(m, K)
<1>1. /\ Doing("eval") /\ Top(C1) = m /\ body[m] = "running"
      /\ AtTheEnd(C1) /\ mod[m].pending = 0
      /\ (mod[m].async <=> m \in has_tla) /\ mod[m].parents = <<>>
  BY RunningSeen
<1>2. mod \in ModuleTables /\ body \in [Modules -> Bodies] /\ jobs \in Seq(Reports) /\ clock \in Nat
  BY <1>1, EvalState
<1>3. /\ body' \in [Modules -> Bodies] /\ body'[m] = how /\ \A x \in Modules : x # m => body'[x] = body[x]
  BY <1>2 DEF Stops, Bodies
<1>4. SameFields(mod) BY DEF SameFields
<1>5. /\ jobs' \in Seq(Reports)
      /\ \/ jobs' = jobs /\ (m \notin has_tla \/ how \notin Outcomes)
         \/ jobs' = Append(jobs, [m |-> m, how |-> how]) /\ m \in has_tla /\ how \in Outcomes
  <2>1. CASE m \notin has_tla \/ how = "suspended" BY <1>2, <2>1 DEF Outcomes
  <2>2. CASE m \in has_tla /\ how # "suspended"
    <3>1. how \in Outcomes BY <2>2 DEF Stops, Outcomes
    <3>2. [m |-> m, how |-> how] \in Reports BY <3>1 DEF Reports
    <3>3. jobs' = Append(jobs, [m |-> m, how |-> how]) BY <2>2 DEF Report
    <3>4. \A s \in Seq(Reports) : \A r \in Reports : Append(s, r) \in Seq(Reports) OBVIOUS
    <3> QED BY <1>2, <2>2, <3>1, <3>2, <3>3, <3>4
  <2> QED BY <2>1, <2>2
<1>6. /\ mod'[m].async = mod[m].async /\ mod'[m].stamp = mod[m].stamp
      /\ mod'[m].pending = mod[m].pending /\ mod'[m].parents = mod[m].parents
      => Ends(m)
  <2> SUFFICES ASSUME mod'[m].async = mod[m].async, mod'[m].stamp = mod[m].stamp,
                      mod'[m].pending = mod[m].pending, mod'[m].parents = mod[m].parents
               PROVE  Ends(m)
    OBVIOUS
  <2>1. Finished(m)'
    <3>1. has_tla' = has_tla BY DEF Kept
    <3> QED BY <1>1, <1>3, <3>1 DEF Finished
  <2> QED BY <1>1, <1>3, <1>5, <2>1 DEF Ends
<1>7. clock' \in Nat /\ \A x \in Modules : x # m => mod[x].async = mod[x].async /\ mod[x].stamp = mod[x].stamp
  BY <1>2
<1> QED BY <1>1, <1>2, <1>3, <1>4, <1>5, <1>6, <1>7, EvalEndsStep

\* A body with a top level await that stops has the effect EndEff.
LEMMA AsyncBodyStopsStep ==
  ASSUME IInv, NEW how \in Outcomes \cup {"suspended"}, AsyncBodyStops(how)
  PROVE  Shaped' /\ WalkInv' /\ asserts' /\ \E m \in Modules : \E K \in SUBSET Modules : EndEff(m, K)
<1>1. InCall("eval") /\ Running BY DEF AsyncBodyStops
<1>2. PICK m \in Modules : Current = m BY <1>1, RunningSeen
<1>3. /\ m \in has_tla /\ body' = [body EXCEPT ![m] = how] /\ EvalEnds(mod, m, TRUE)
      /\ jobs' = IF how = "suspended" THEN jobs ELSE Report(m, how)
      /\ Kept /\ clock' = clock
  BY <1>2 DEF AsyncBodyStops, Kept, code
<1>4. how \in Stops BY DEF Stops, Outcomes
<1>5. Shaped' /\ WalkInv' /\ asserts' /\ \E K \in SUBSET Modules : EndEff(m, K)
  BY <1>1, <1>2, <1>3, <1>4, BodyEndsStep
<1> QED BY <1>5

\* A body that ends well has the effect EndEff.
LEMMA SyncBodyDoneStep ==
  ASSUME IInv, SyncBodyEnds("done")
  PROVE  Shaped' /\ WalkInv' /\ asserts' /\ \E m \in Modules : \E K \in SUBSET Modules : EndEff(m, K)
<1>1. InCall("eval") /\ Running BY DEF SyncBodyEnds
<1>2. PICK m \in Modules : Current = m BY <1>1, RunningSeen
<1>3. /\ m \notin has_tla /\ body' = [body EXCEPT ![m] = "done"] /\ EvalEnds(mod, m, TRUE)
      /\ jobs' = jobs /\ Kept /\ clock' = clock
  BY <1>2 DEF SyncBodyEnds, Kept, code
<1>4. "done" \in Stops BY DEF Stops
<1>5. Shaped' /\ WalkInv' /\ asserts' /\ \E K \in SUBSET Modules : EndEff(m, K)
  BY <1>1, <1>2, <1>3, <1>4, BodyEndsStep
<1> QED BY <1>5

-----------------------------------------------------------------------------
(* Between traversals *)

\* A step with the effect IdleEff keeps the parts about the traversals.
LEMMA IdleWalk ==
  ASSUME Shaped, WalkInv, IdleEff
  PROVE  WalkInv'
<1>1. /\ Kept /\ ~Doing("eval") /\ ~Doing("link") /\ ~Doing("eval")' /\ ~Doing("link")'
      /\ \A x \in Modules : mod[x].status # "evaluating_async" => mod'[x].status = mod[x].status
  BY DEF IdleEff
<1>2. \A x \in Modules : mod[x].status = "evaluating_async" => mod'[x].status \in Ended
  BY DEF IdleEff, Stays, Succeeds, Fails, Ended
<1>3. \A x \in Modules : mod[x].status # "linking" /\ mod[x].status # "evaluating"
  BY <1>1 DEF WalkInv, IdleInv
<1>4. \A x \in Modules : mod'[x].status \notin {"linking", "evaluating"} /\ (mod'[x].status \in Linked <=> mod[x].status \in Linked)
  BY <1>1, <1>2, <1>3 DEF Ended, Linked
<1>5. \A x \in Modules : Imports(x) \subseteq Modules BY Typed, ImportTypes
<1>6. \A x \in Modules : mod'[x].status \in Linked => \A d \in Imports(x) : mod'[d].status \in Linked
  BY <1>4, <1>5 DEF WalkInv, LinkedInv
<1> QED BY <1>1, <1>4, <1>6, IdleWalkNext

\* What a step with the effect IdleEff keeps of the parts about evaluation, the
\* list of modules to execute, the jobs and the counters apart.
LEMMA IdleKept ==
  ASSUME Shaped, WalkInv, LateInv, IdleEff
  PROVE  /\ FreshInv' /\ RootInv' /\ ErrorInv' /\ StackBodies' /\ PromiseInv' /\ StampInv' /\ TreeInv'
         /\ ImportsInv' /\ JumpInv' /\ DependenciesFirst'
         /\ \A x, p \in Modules : Waits(p, x)' <=> Waits(p, x)
         /\ \A x, p \in Modules : Waits(p, x) => x \in Needs(p)' /\ mod'[p].status \in Ended \cup {"evaluating"}
         /\ \A x \in Modules : mod'[x].status # "evaluating"
         /\ \A x, p \in Modules : Waits(p, x) /\ mod'[x].error # None => mod'[p].error # None
         /\ \A x, p \in Modules : Waits(p, x) /\ mod'[x].status # "evaluated" /\ mod'[p].error = None =>
              mod'[p].status # "evaluated" /\ body'[p] = "unrun"
         /\ \A x \in Modules : mod'[x].status = "evaluated" /\ mod'[x].error = None =>
              body'[x] = "done" /\ ~mod'[x].async /\ mod'[x].pending = 0
         /\ \A x \in Modules : mod'[x].status = "evaluating_async" => mod[x].status = "evaluating_async" /\ mod'[x].async
<1>1. /\ Kept /\ clock' = clock /\ ~Doing("eval") /\ ~Doing("eval")'
      /\ \A x \in Modules :
           /\ mod'[x].root = mod[x].root /\ mod'[x].dfs = mod[x].dfs /\ mod'[x].stamp = mod[x].stamp
           /\ mod'[x].parents = mod[x].parents
           /\ mod[x].status # "evaluating_async" =>
                /\ mod'[x].status = mod[x].status /\ mod'[x].async = mod[x].async
                /\ mod'[x].error = mod[x].error /\ mod'[x].pending = mod[x].pending
                /\ mod'[x].promise = mod[x].promise
           /\ mod[x].status \notin Ended => body'[x] = body[x]
           /\ body[x] \in Outcomes => body'[x] = body[x]
           /\ body[x] = "unrun" /\ body'[x] # "unrun" => Starts(x)
  BY DEF IdleEff
<1>2. \A x \in Modules : mod[x].status = "evaluating_async" => Stays(x) \/ Succeeds(x) \/ Fails(x)
  BY DEF IdleEff
<1>3. /\ FreshInv /\ RootInv /\ ErrorInv /\ StackBodies /\ EndedBodies
      /\ PromiseInv /\ WaitInv /\ StampInv /\ TreeInv /\ ImportsInv /\ DependenciesFirst
  BY LateParts
<1>4. \A x \in Modules : mod[x].status # "evaluating" BY <1>1 DEF WalkInv, IdleInv
<1>5. \A x \in Modules : ~InPath(x) /\ ~InPath(x)' BY <1>1 DEF InPath
<1>6. \A x \in Modules :
        /\ mod[x].status = "evaluating_async" =>
             mod[x].error = None /\ mod[x].async /\ mod'[x].status \in Ended
        /\ mod[x].status = "evaluating_async" /\ mod'[x].status = "evaluating_async" => Stays(x)
  BY <1>2, <1>3 DEF ErrorInv, EndedBodies, Stays, Succeeds, Fails, Ended
<1>7. \A x \in Modules :
        /\ mod'[x].status \in Ended <=> mod[x].status \in Ended
        /\ mod[x].status = "evaluated" => mod'[x].status = "evaluated" /\ mod'[x].error = mod[x].error
        /\ mod'[x].error = None => mod[x].error = None
        /\ mod[x].error # None => mod'[x].error = mod[x].error
        /\ mod'[x].async => mod[x].async
        /\ mod'[x].status # "evaluating"
        /\ mod'[x].status = "evaluating_async" => mod[x].status = "evaluating_async" /\ mod'[x].async
        /\ mod'[x].error # mod[x].error => mod[x].status = "evaluating_async" /\ Fails(x)
  BY <1>1, <1>2, <1>3, <1>4, <1>6 DEF ErrorInv, Stays, Succeeds, Fails, Ended
<1>8. \A x : Needs(x)' = Needs(x) /\ Imports(x)' = Imports(x) BY <1>1, NeedsKept
<1>9. \A x, p \in Modules : Waits(p, x)' <=> Waits(p, x) BY <1>1 DEF Waits
<1>10. \A x \in Modules : mod[x].status \in Ended => mod[x].root \in Modules /\ mod[mod[x].root].status \in Ended
  BY <1>3 DEF RootInv
<1>11. FreshInv'
  <2>1. \A x \in Modules : mod'[x].status \notin Ended \cup {"evaluating"} => mod[x].status \notin Ended \cup {"evaluating"} /\ mod[x].status # "evaluating_async"
    BY <1>4, <1>7 DEF Ended
  <2> QED BY <2>1, <1>1, <1>3 DEF FreshInv
<1>12. RootInv'
  <2>1. ASSUME NEW x \in Modules, mod'[x].status \in Ended
        PROVE  /\ mod'[x].root \in Modules /\ mod'[mod'[x].root].status \in Ended
               /\ mod'[mod'[x].root].root = mod'[x].root
               /\ mod'[x].error # None => mod'[mod'[x].root].error # None
    <3>1. mod[x].status \in Ended /\ mod[x].root \in Modules /\ mod'[x].root = mod[x].root
      BY <2>1, <1>1, <1>7, <1>10
    <3>2. mod[mod[x].root].root = mod[x].root /\ (mod[x].error # None => mod[mod[x].root].error # None)
      BY <3>1, <1>3 DEF RootInv
    <3>3. CASE mod'[x].error = mod[x].error BY <3>1, <3>2, <3>3, <1>1, <1>7, <1>10
    <3>4. CASE mod'[x].error # mod[x].error
      <4>1. mod'[mod[x].root].error # None BY <3>4, <1>7 DEF Fails
      <4> QED BY <3>1, <3>2, <4>1, <1>1, <1>7, <1>10
    <3> QED BY <3>3, <3>4
  <2>2. \A x \in Modules : mod'[x].status \notin Ended => mod'[x].root = None
    BY <1>1, <1>3, <1>7 DEF RootInv
  <2>3. \A x, y \in Modules : mod'[x].status \in Ended /\ mod'[x].error = None /\ mod'[y].root = mod'[x].root =>
          mod'[x].root \in Needs(y) /\ y \in Needs(mod'[x].root)
    BY <1>1, <1>3, <1>7 DEF RootInv
  <2> QED BY <2>1, <2>2, <2>3, <1>8 DEF RootInv
<1>13. ErrorInv'
  <2>1. \A x \in Modules : Needs(x) \subseteq Modules BY NeedsSelf
  <2>2. ASSUME NEW x \in Modules, mod'[x].error # None
        PROVE  mod'[x].status = "evaluated" /\ mod'[x].error \in Needs(x) /\ body'[mod'[x].error] = "failed"
    <3>1. CASE mod'[x].error = mod[x].error
      <4>1. mod[x].status = "evaluated" /\ mod[x].error \in Needs(x) /\ body[mod[x].error] = "failed"
        BY <2>2, <3>1, <1>3 DEF ErrorInv
      <4> QED BY <2>1, <3>1, <4>1, <1>1, <1>7 DEF Outcomes
    <3>2. CASE mod'[x].error # mod[x].error BY <3>2, <1>7 DEF Fails
    <3> QED BY <3>1, <3>2
  <2> QED BY <2>2, <1>8 DEF ErrorInv
<1>14. StackBodies' BY <1>5, <1>7 DEF StackBodies
<1>15. PromiseInv'
  <2> SUFFICES ASSUME NEW x \in Modules
               PROVE  /\ mod'[x].promise # "none" => mod'[x].status \in Ended /\ mod'[x].root = x
                      /\ mod'[x].promise = "fulfilled" => mod'[x].status = "evaluated" /\ mod'[x].error = None
                      /\ mod'[x].promise = "rejected" => mod'[x].error # None
    BY DEF PromiseInv
  <2>1. /\ mod[x].promise # "none" => mod[x].status \in Ended /\ mod[x].root = x
        /\ mod[x].promise = "fulfilled" => mod[x].status = "evaluated" /\ mod[x].error = None
        /\ mod[x].promise = "rejected" => mod[x].error # None
    BY <1>1, <1>3 DEF PromiseInv
  <2>2. CASE mod'[x].promise = mod[x].promise BY <2>1, <2>2, <1>1, <1>7
  <2>3. CASE mod[x].status = "evaluating_async" /\ Succeeds(x)
    BY <2>1, <2>3, <1>1, <1>6 DEF Succeeds, Settled, Ended
  <2>4. CASE mod[x].status = "evaluating_async" /\ Fails(x)
    BY <2>1, <2>4, <1>1, <1>6 DEF Fails, Settled, Ended
  <2> QED BY <2>2, <2>3, <2>4, <1>1, <1>2 DEF Stays
<1>16. StampInv' BY <1>1, <1>3, <1>7, <1>9 DEF StampInv
<1>17. TreeInv' BY <1>1, <1>3, <1>7, <1>9 DEF TreeInv
<1>18. ImportsInv'
  <2>0. \A p \in Modules : Imports(p) \subseteq Modules BY Typed, ImportTypes
  <2>1. \A p, d \in Modules : mod[d].status \in Ended /\ DoneFor(p, d) => DoneFor(p, d)'
    BY <1>1, <1>7, <1>9, <1>10 DEF DoneFor, Complete
  <2>2. \A p \in Modules : mod'[p].status \in Ended /\ mod'[p].error = None =>
          \A d \in Imports(p) : mod'[d].status \in Ended /\ (mod'[d].root = mod'[p].root \/ DoneFor(p, d)')
    BY <2>0, <2>1, <1>1, <1>3, <1>7 DEF ImportsInv
  <2> QED BY <2>2, <1>7, <1>8 DEF ImportsInv
<1>19. JumpInv' BY <1>7 DEF JumpInv
<1>20. DependenciesFirst'
  <2>1. ASSUME NEW x \in Modules, body'[x] # "unrun", NEW d \in Imports(x)
        PROVE  (\A y \in Needs(d) : body[y] = "done") \/ d \in Cyclic(x)
    <3>1. CASE body[x] = "unrun" BY <2>1, <3>1, <1>1 DEF Starts
    <3>2. CASE body[x] # "unrun" BY <2>1, <3>2, <1>3 DEF DependenciesFirst, Imports
    <3> QED BY <3>1, <3>2
  <2>2. \A d : Cyclic(d)' = Cyclic(d) BY <1>8 DEF Cyclic
  <2>3. ASSUME NEW d, NEW y \in Needs(d), body[y] = "done" PROVE body'[y] = "done"
    <3>1. y \in Modules BY NeedsSelf DEF Needs, Closure
    <3> QED BY <2>3, <3>1, <1>1 DEF Outcomes
  <2>4. ASSUME NEW x \in Modules, body'[x] # "unrun", NEW d \in Imports(x)
        PROVE  (\A y \in Needs(d) : body'[y] = "done") \/ d \in Cyclic(x)
    BY <2>1, <2>3, <2>4
  <2>5. \A x \in Modules : body'[x] # "unrun" =>
          \A d \in ToSet(imports[x])' : (\A y \in Needs(d)' : body'[y] = "done") \/ d \in Cyclic(x)'
    <3>1. \A x : ToSet(imports[x])' = Imports(x) BY <1>8 DEF Imports
    <3> QED BY <2>2, <2>4, <3>1, <1>8
  <2> QED BY <2>5 DEF DependenciesFirst
<1>21. \A x, p \in Modules : Waits(p, x) => x \in Needs(p)' /\ mod'[p].status \in Ended \cup {"evaluating"}
  BY <1>3, <1>4, <1>7, <1>8 DEF WaitInv
<1>22. \A x, p \in Modules : Waits(p, x) /\ mod'[x].error # None => mod'[p].error # None
  <2> SUFFICES ASSUME NEW x \in Modules, NEW p \in Modules, Waits(p, x), mod'[x].error # None
               PROVE  mod'[p].error # None
    OBVIOUS
  <2>1. CASE mod'[x].error = mod[x].error BY <2>1, <1>3, <1>7 DEF WaitInv
  <2>2. CASE mod'[x].error # mod[x].error BY <2>2, <1>7 DEF Fails
  <2> QED BY <2>1, <2>2
<1>23. \A x, p \in Modules : Waits(p, x) /\ mod'[x].status # "evaluated" /\ mod'[p].error = None =>
              mod'[p].status # "evaluated" /\ body'[p] = "unrun"
  <2> SUFFICES ASSUME NEW x \in Modules, NEW p \in Modules, Waits(p, x), mod'[x].status # "evaluated", mod'[p].error = None
               PROVE  mod'[p].status # "evaluated" /\ body'[p] = "unrun"
    OBVIOUS
  <2>1. mod[x].status # "evaluated" /\ mod[p].error = None BY <1>7
  <2>2. mod[p].status # "evaluated" /\ body[p] = "unrun" BY <2>1, <1>3 DEF WaitInv
  <2>3. body'[p] = "unrun" BY <2>1, <2>2, <1>1 DEF Starts
  <2>4. mod'[p].status # "evaluated" BY <2>2, <1>1, <1>2 DEF Stays, Succeeds, Fails
  <2> QED BY <2>3, <2>4
<1>24. \A x \in Modules : mod'[x].status = "evaluated" /\ mod'[x].error = None =>
              body'[x] = "done" /\ ~mod'[x].async /\ mod'[x].pending = 0
  <2> SUFFICES ASSUME NEW x \in Modules, mod'[x].status = "evaluated", mod'[x].error = None
               PROVE  body'[x] = "done" /\ ~mod'[x].async /\ mod'[x].pending = 0
    OBVIOUS
  <2>1. CASE mod[x].status = "evaluating_async" BY <2>1, <1>2 DEF Stays, Succeeds, Fails
  <2>2. CASE mod[x].status # "evaluating_async"
    <3>1. mod[x].status = "evaluated" /\ mod[x].error = None BY <2>2, <1>1
    <3>2. body[x] = "done" /\ ~mod[x].async /\ mod[x].pending = 0 BY <3>1, <1>3 DEF EndedBodies
    <3> QED BY <2>2, <3>2, <1>1 DEF Outcomes
  <2> QED BY <2>1, <2>2
<1> QED
  BY <1>7, <1>9, <1>11, <1>12, <1>13, <1>14, <1>15, <1>16, <1>17, <1>18, <1>19, <1>20, <1>21, <1>22, <1>23, <1>24

\* The tail of a sequence, by position.
LEMMA TailFacts ==
  ASSUME NEW T, NEW s \in Seq(T), s # <<>>
  PROVE  /\ Len(s) \in Nat /\ Len(s) > 0 /\ Tail(s) \in Seq(T) /\ Len(Tail(s)) = Len(s) - 1 /\ Head(s) = s[1]
         /\ \A i \in 1..Len(s) - 1 : Tail(s)[i] = s[i + 1]
         /\ \A i \in 1..Len(s) - 1 : i + 1 \in 1..Len(s)
         /\ \A i \in 1..Len(s) : i = 1 \/ (i - 1 \in 1..Len(s) - 1 /\ Tail(s)[i - 1] = s[i])
         /\ 1 \in 1..Len(s)
<1>1. /\ Len(s) \in Nat /\ Len(s) > 0 /\ Tail(s) \in Seq(T) /\ Len(Tail(s)) = Len(s) - 1 /\ Head(s) = s[1]
      /\ \A i \in 1..Len(s) - 1 : Tail(s)[i] = s[i + 1]
  OBVIOUS
<1>2. \A i \in 1..Len(s) - 1 : i + 1 \in 1..Len(s) BY <1>1
<1>3. ASSUME NEW i \in 1..Len(s), i # 1 PROVE i - 1 \in 1..Len(s) - 1 /\ Tail(s)[i - 1] = s[i]
  <2>1. i - 1 \in 1..Len(s) - 1 /\ (i - 1) + 1 = i BY <1>1, <1>3
  <2>2. Tail(s)[i - 1] = s[(i - 1) + 1] BY <1>1, <2>1
  <2> QED BY <2>1, <2>2
<1>4. 1 \in 1..Len(s) BY <1>1
<1> QED BY <1>1, <1>2, <1>3, <1>4

\* The tail of a sequence, as a set.
LEMMA TailSet ==
  ASSUME NEW T, NEW s \in Seq(T), s # <<>>
  PROVE  ToSet(s) = {Head(s)} \cup ToSet(Tail(s)) /\ Head(s) \in T
<1> DEFINE u == Tail(s)
           n == Len(s)
<1>1. \A v \in Seq(T) : ToSet(v) = {v[i] : i \in 1..Len(v)} BY DEF ToSet
<1>2. /\ u \in Seq(T) /\ n \in Nat /\ Len(u) = n - 1 /\ Head(s) = s[1] /\ 1 \in 1..n
      /\ \A i \in 1..n - 1 : u[i] = s[i + 1] /\ i + 1 \in 1..n
      /\ \A i \in 1..n : i = 1 \/ (i - 1 \in 1..n - 1 /\ u[i - 1] = s[i])
  BY TailFacts
<1>4. s[1] \in T BY <1>2
<1> HIDE DEF u, n
<1>3. ToSet(u) = {u[i] : i \in 1..n - 1} BY <1>1, <1>2
<1>5. ToSet(s) = {s[i] : i \in 1..n} BY <1>1 DEF n
<1>6. ASSUME NEW x \in ToSet(s) PROVE x = s[1] \/ x \in ToSet(u)
  <2>1. PICK i \in 1..n : x = s[i] BY <1>5
  <2>2. i = 1 \/ (i - 1 \in 1..n - 1 /\ u[i - 1] = x) BY <1>2, <2>1
  <2> QED BY <1>3, <2>1, <2>2
<1>7. s[1] \in ToSet(s) /\ \A x \in ToSet(u) : x \in ToSet(s) BY <1>2, <1>3, <1>5
<1>8. ToSet(s) = {s[1]} \cup ToSet(u) BY <1>6, <1>7
<1> QED BY <1>2, <1>4, <1>8 DEF u

\* What leaves the list of modules to execute.
LEMMA ListKept ==
  ASSUME Shaped, NEW m \in Modules, ListEff(m)
  PROVE  /\ Todo' \subseteq Todo
         /\ \A x \in Todo : x \notin Todo' => x = m /\ (mod'[m].status = "evaluated" \/ (m \in has_tla /\ body'[m] \in Stops))
<1>1. CASE Todo = {} /\ ~Doing("exec")' BY <1>1 DEF Todo
<1>2. CASE Doing("exec") /\ calls' = calls
  <2>1. Todo' = Todo BY <1>2 DEF Todo, Doing, C1
  <2> QED BY <2>1
<1>3. CASE /\ Doing("exec") /\ C1.todo # <<>> /\ Head(C1.todo) = m
           /\ Doing("exec")' /\ C1'.todo = Tail(C1.todo)
           /\ mod'[m].status = "evaluated" \/ (m \in has_tla /\ body'[m] \in Stops)
  <2>1. C1.todo \in Seq(Modules) BY <1>3, OneCall, CallTypes DEF Doing
  <2>2. ToSet(C1.todo) = {m} \cup ToSet(Tail(C1.todo)) BY <1>3, <2>1, TailSet
  <2>3. Todo = ToSet(C1.todo) /\ Todo' = ToSet(Tail(C1.todo)) BY <1>3 DEF Todo
  <2> QED BY <1>3, <2>2, <2>3
<1> QED BY <1>1, <1>2, <1>3 DEF ListEff

\* A step with the effect QuietEff keeps the list in order.
LEMMA QuietTodo ==
  ASSUME Shaped, WalkInv, LateInv, NEW m \in Modules, QuietEff(m)
  PROVE  TodoInv'
<1>1. TodoInv BY LateParts
<1>2. ListEff(m) /\ IdleEff BY DEF QuietEff
<1>3. CASE Todo = {} /\ ~Doing("exec")' BY <1>3 DEF TodoInv
<1>4. CASE /\ Doing("exec") /\ C1.todo # <<>> /\ Head(C1.todo) = m
           /\ calls' = calls /\ mod' = mod /\ mod[m].status = "evaluating_async" /\ body[m] = "unrun" /\ body'[m] = "running"
  <2>1. C1' = C1 BY <1>4 DEF C1
  <2>2. C1.todo \in Seq(Modules) BY <1>4, OneCall, CallTypes DEF Doing
  <2> DEFINE s == C1.todo
             n == Len(s)
  <2>3. n \in Nat /\ s[1] = m /\ 1 \in 1..n /\ \A i \in 1..n : s[i] \in Modules /\ (i # 1 => 1 < i)
    BY <1>4, <2>2, TailFacts
  <2>4. /\ \A i, j \in 1..n : i < j => s[i] # s[j] /\ mod[s[i]].stamp <= mod[s[j]].stamp
        /\ \A i \in 1..n : Ready(i)
    BY <1>1, <1>4 DEF TodoInv
  <2>5. \A i \in 1..n : i # 1 => s[i] # m /\ body'[s[i]] = body[s[i]]
    <3>1. \A i \in 1..n : i # 1 => s[i] # m BY <2>3, <2>4
    <3> QED BY <2>3, <3>1 DEF QuietEff
  <2> HIDE DEF s, n
  <2>6. ASSUME NEW i \in 1..n PROVE Ready(i)'
    <3>1. CASE i = 1
      <4>1. mod[s[1]].status = "evaluating_async" /\ mod[s[1]].pending = 0 /\ body'[s[1]] = "running"
        BY <1>4, <2>3, <2>4 DEF Ready, s
      <4> QED BY <1>4, <2>1, <3>1, <4>1 DEF Ready, s
    <3>2. CASE i # 1 BY <1>4, <2>1, <2>4, <2>5, <3>2 DEF Ready, s
    <3> QED BY <3>1, <3>2
  <2> QED BY <1>4, <2>1, <2>4, <2>6 DEF TodoInv, s, n
<1>5. CASE /\ Doing("exec") /\ C1.todo # <<>> /\ Head(C1.todo) = m
           /\ Doing("exec")' /\ C1'.todo = Tail(C1.todo)
           /\ mod'[m].status = "evaluated" \/ (m \in has_tla /\ body'[m] \in Stops)
  <2>2. C1.todo \in Seq(Modules) BY <1>5, OneCall, CallTypes DEF Doing
  <2> DEFINE s == C1.todo
             n == Len(s)
             u == C1'.todo
  <2>3. /\ n \in Nat /\ s[1] = m /\ 1 \in 1..n /\ Len(u) = n - 1 /\ \A i \in 1..n - 1 : u[i] = s[i + 1] /\ i + 1 \in 1..n
        /\ \A i \in 1..n : s[i] \in Modules
    BY <1>5, <2>2, TailFacts
  <2>4. /\ \A i, j \in 1..n : i < j => s[i] # s[j] /\ mod[s[i]].stamp <= mod[s[j]].stamp
        /\ \A i \in 1..n : Ready(i)
    BY <1>1, <1>5 DEF TodoInv
  <2> HIDE DEF s, n, u
  <2>5. \A i \in 1..n - 1 : i + 1 # 1 /\ 1 < i + 1 /\ \A j \in 1..n - 1 : i < j => i + 1 < j + 1
    BY <2>3
  <2>6. \A i \in 1..n - 1 : u[i] # m /\ u[i] \in Modules BY <2>3, <2>4, <2>5
  <2>7. \A i, j \in 1..n - 1 : i < j => u[i] # u[j] /\ mod[u[i]].stamp <= mod[u[j]].stamp
    BY <2>3, <2>4, <2>5
  <2>8. \A i \in 1..n - 1 : \/ mod[u[i]].status = "evaluating_async" /\ mod[u[i]].pending = 0 /\ body[u[i]] = "unrun"
                            \/ mod[u[i]].status = "evaluated" /\ mod[u[i]].error # None /\ body[u[i]] = "unrun"
    BY <2>3, <2>4, <2>5 DEF Ready, s
  <2>9. ASSUME NEW i \in 1..n - 1
        PROVE  \/ mod'[u[i]].status = "evaluating_async" /\ mod'[u[i]].pending = 0 /\ body'[u[i]] = "unrun"
               \/ mod'[u[i]].status = "evaluated" /\ mod'[u[i]].error # None /\ body'[u[i]] = "unrun"
    <3>1. u[i] \in Modules /\ u[i] # m BY <2>6
    <3>2. body'[u[i]] = body[u[i]] BY <3>1 DEF QuietEff
    <3>3. CASE mod[u[i]].status = "evaluating_async"
      <4>1. mod'[u[i]].pending = mod[u[i]].pending BY <3>1, <3>3 DEF QuietEff
      <4>2. mod'[u[i]].status = "evaluating_async" \/ mod'[u[i]].status = "evaluated"
        BY <1>2, <3>1, <3>3 DEF IdleEff, Stays, Succeeds, Fails
      <4>3. mod'[u[i]].status = "evaluated" => mod'[u[i]].error # None BY <3>1, <3>3 DEF QuietEff
      <4> QED BY <2>8, <3>2, <3>3, <4>1, <4>2, <4>3
    <3>4. CASE mod[u[i]].status # "evaluating_async"
      <4>1. mod'[u[i]].status = mod[u[i]].status /\ mod'[u[i]].error = mod[u[i]].error
        BY <1>2, <3>1, <3>4 DEF IdleEff
      <4> QED BY <2>8, <3>2, <3>4, <4>1
    <3> QED BY <3>3, <3>4
  <2>10. \A i \in 1..n - 1 : Ready(i)' BY <2>9 DEF Ready, u
  <2>11. \A x \in Modules : mod'[x].stamp = mod[x].stamp BY <1>2 DEF IdleEff
  <2>12. \A i, j \in 1..n - 1 : i < j => u[i] # u[j] /\ mod'[u[i]].stamp <= mod'[u[j]].stamp
    BY <2>6, <2>7, <2>11
  <2>13. 1..Len(u) = 1..n - 1 BY <2>3
  <2> QED BY <2>10, <2>12, <2>13 DEF TodoInv, u
<1> QED BY <1>2, <1>3, <1>4, <1>5 DEF ListEff

\* What becomes of the status of a module, for the reports.
LEMMA ReportStatus ==
  ASSUME Shaped, WalkInv, LateInv, IdleEff, NEW x \in Modules,
         \/ mod[x].status \in {"evaluating", "evaluating_async"}
         \/ mod[x].status = "evaluated" /\ mod[x].error # None,
         ~(mod[x].status = "evaluating_async" /\ mod'[x].status = "evaluated" /\ mod'[x].error = None)
  PROVE  \/ mod'[x].status \in {"evaluating", "evaluating_async"}
         \/ mod'[x].status = "evaluated" /\ mod'[x].error # None
<1>1. CASE mod[x].status = "evaluating_async" BY <1>1 DEF IdleEff, Stays, Succeeds, Fails
<1>2. CASE mod[x].status # "evaluating_async"
  <2>1. mod'[x].status = mod[x].status /\ mod'[x].error = mod[x].error BY <1>2 DEF IdleEff
  <2> QED BY <1>2, <2>1
<1> QED BY <1>1, <1>2

\* A step with the effect QuietEff keeps one report per body.
LEMMA QuietJobs ==
  ASSUME Shaped, WalkInv, LateInv, NEW m \in Modules, QuietEff(m)
  PROVE  JobsInv'
<1>1. /\ JobsInv /\ EndedBodies /\ FreshInv /\ IdleEff /\ ReportEff(m)
      /\ has_tla' = has_tla /\ has_tla \subseteq Modules
  BY LateParts DEF QuietEff, IdleEff, Kept, Shaped
<1>2. \A x \in Modules : mod[x].status # "evaluating" BY <1>1 DEF WalkInv, IdleInv, IdleEff
<1>3. \A x \in Modules : x # m => body'[x] = body[x] BY DEF QuietEff
<1>4. \A x \in has_tla : ~(mod[x].status = "evaluating_async" /\ mod'[x].status = "evaluated" /\ mod'[x].error = None)
  BY <1>1 DEF QuietEff
<1>5. ASSUME NEW x \in has_tla,
             \/ mod[x].status \in {"evaluating", "evaluating_async"}
             \/ mod[x].status = "evaluated" /\ mod[x].error # None
      PROVE  \/ mod'[x].status \in {"evaluating", "evaluating_async"}
             \/ mod'[x].status = "evaluated" /\ mod'[x].error # None
  <2>1. x \in Modules BY <1>1
  <2> QED BY <1>1, <1>4, <1>5, <2>1, ReportStatus
<1>6. \A x \in Modules : mod'[x].status \in {"evaluating", "evaluating_async"} => mod[x].status \in {"evaluating", "evaluating_async"}
  BY <1>1, IdleKept
<1> DEFINE n == Len(jobs)
<1>7. /\ jobs \in Seq(Reports) /\ n \in Nat
      /\ \A i \in 1..n : jobs[i].m \in Modules /\ jobs[i].how \in Outcomes
  BY JobTypes
<1>8. /\ \A i, j \in 1..n : i # j => jobs[i].m # jobs[j].m
      /\ \A i \in 1..n :
           /\ jobs[i].m \in has_tla /\ body[jobs[i].m] = jobs[i].how
           /\ \/ mod[jobs[i].m].status \in {"evaluating", "evaluating_async"}
              \/ mod[jobs[i].m].status = "evaluated" /\ mod[jobs[i].m].error # None
      /\ \A x \in has_tla : body[x] \in Outcomes /\ mod[x].status \in {"evaluating", "evaluating_async"} =>
           \E i \in 1..n : jobs[i].m = x
  BY <1>1 DEF JobsInv
<1>9. \A x \in Modules : body'[x] = "suspended" => x \in has_tla
  BY <1>1, <1>3 DEF QuietEff, JobsInv
<1>10. body'[m] = body[m] \/ body[m] \notin Outcomes BY <1>1 DEF ReportEff
<1>11. \A i \in 1..n :
         /\ jobs[i].m \in has_tla /\ body'[jobs[i].m] = jobs[i].how
         /\ \/ mod'[jobs[i].m].status \in {"evaluating", "evaluating_async"}
            \/ mod'[jobs[i].m].status = "evaluated" /\ mod'[jobs[i].m].error # None
  BY <1>3, <1>5, <1>7, <1>8, <1>10
<1>12. CASE /\ jobs' = jobs
            /\ body'[m] = body[m] \/ (body[m] \notin Outcomes /\ (m \notin has_tla \/ body'[m] \notin Outcomes))
  <2>1. \A x \in has_tla : body'[x] \in Outcomes /\ mod'[x].status \in {"evaluating", "evaluating_async"} =>
          \E i \in 1..n : jobs[i].m = x
    BY <1>1, <1>3, <1>6, <1>8, <1>12
  <2> QED BY <1>1, <1>8, <1>9, <1>11, <1>12, <2>1 DEF JobsInv
<1>13. CASE /\ jobs' = Append(jobs, [m |-> m, how |-> body'[m]]) /\ m \in has_tla /\ body'[m] \in Outcomes
            /\ body[m] \notin Outcomes \cup {"unrun"}
  <2> DEFINE j == [m |-> m, how |-> body'[m]]
  <2>1. /\ Len(jobs') = n + 1 /\ jobs'[n + 1] = j /\ \A i \in 1..n : jobs'[i] = jobs[i]
    BY <1>7, <1>13
  <2>2. j.m = m /\ j.how = body'[m] OBVIOUS
  <2>3. \/ mod[m].status \in {"evaluating", "evaluating_async"}
        \/ mod[m].status = "evaluated" /\ mod[m].error # None
    <3>1. mod[m].status \in Ended BY <1>1, <1>2, <1>13 DEF FreshInv
    <3>2. ~(mod[m].status = "evaluated" /\ mod[m].error = None)
      BY <1>1, <1>13 DEF EndedBodies, Outcomes
    <3> QED BY <3>1, <3>2 DEF Ended
  <2>4. \/ mod'[m].status \in {"evaluating", "evaluating_async"}
        \/ mod'[m].status = "evaluated" /\ mod'[m].error # None
    BY <1>5, <1>13, <2>3
  <2>5. \A i \in 1..n : jobs[i].m # m BY <1>7, <1>8, <1>13
  <2> HIDE DEF n, j
  <2>6. (\A i \in 1..n + 1 : i \in 1..n \/ i = n + 1) /\ (\A i \in 1..n : i \in 1..n + 1 /\ i # n + 1) /\ n + 1 \in 1..n + 1
    BY <1>7
  <2>7. \A i, k \in 1..n + 1 : i # k => jobs'[i].m # jobs'[k].m BY <1>8, <2>1, <2>2, <2>5, <2>6
  <2>8. \A i \in 1..n + 1 :
         /\ jobs'[i].m \in has_tla /\ body'[jobs'[i].m] = jobs'[i].how
         /\ \/ mod'[jobs'[i].m].status \in {"evaluating", "evaluating_async"}
            \/ mod'[jobs'[i].m].status = "evaluated" /\ mod'[jobs'[i].m].error # None
    BY <1>11, <1>13, <2>1, <2>2, <2>4, <2>6
  <2>9. \A x \in has_tla : body'[x] \in Outcomes /\ mod'[x].status \in {"evaluating", "evaluating_async"} =>
          \E i \in 1..n + 1 : jobs'[i].m = x
    <3> SUFFICES ASSUME NEW x \in has_tla, body'[x] \in Outcomes, mod'[x].status \in {"evaluating", "evaluating_async"}
                 PROVE  \E i \in 1..n + 1 : jobs'[i].m = x
      OBVIOUS
    <3>1. CASE x = m BY <3>1, <2>1, <2>2, <2>6
    <3>2. CASE x # m
      <4>1. body[x] \in Outcomes /\ mod[x].status \in {"evaluating", "evaluating_async"}
        BY <3>2, <1>1, <1>3, <1>6
      <4> QED BY <4>1, <1>8, <2>1, <2>6
    <3> QED BY <3>1, <3>2
  <2> QED BY <1>1, <1>9, <2>1, <2>7, <2>8, <2>9 DEF JobsInv
<1>14. CASE jobs # <<>> /\ jobs' = Tail(jobs) /\ Head(jobs).m = m /\ mod'[m].status = "evaluated" /\ body'[m] = body[m]
  <2>1. /\ Len(jobs') = n - 1 /\ jobs[1].m = m /\ 1 \in 1..n
        /\ \A i \in 1..n - 1 : jobs'[i] = jobs[i + 1] /\ i + 1 \in 1..n
        /\ \A i \in 1..n : i = 1 \/ (i - 1 \in 1..n - 1 /\ jobs'[i - 1] = jobs[i])
    BY <1>7, <1>14, TailFacts
  <2> HIDE DEF n
  <2>2. \A i, k \in 1..n - 1 : i # k => jobs'[i].m # jobs'[k].m
    <3>1. \A i, k \in 1..n - 1 : i # k => i + 1 # k + 1 BY <1>7
    <3> QED BY <1>8, <2>1, <3>1
  <2>3. \A i \in 1..n - 1 :
         /\ jobs'[i].m \in has_tla /\ body'[jobs'[i].m] = jobs'[i].how
         /\ \/ mod'[jobs'[i].m].status \in {"evaluating", "evaluating_async"}
            \/ mod'[jobs'[i].m].status = "evaluated" /\ mod'[jobs'[i].m].error # None
    BY <1>11, <2>1
  <2>4. \A x \in has_tla : body'[x] \in Outcomes /\ mod'[x].status \in {"evaluating", "evaluating_async"} =>
          \E i \in 1..n - 1 : jobs'[i].m = x
    <3> SUFFICES ASSUME NEW x \in has_tla, body'[x] \in Outcomes, mod'[x].status \in {"evaluating", "evaluating_async"}
                 PROVE  \E i \in 1..n - 1 : jobs'[i].m = x
      OBVIOUS
    <3>1. x # m BY <1>14
    <3>2. body[x] \in Outcomes /\ mod[x].status \in {"evaluating", "evaluating_async"}
      BY <3>1, <1>1, <1>3, <1>6
    <3>3. PICK i \in 1..n : jobs[i].m = x BY <3>2, <1>8
    <3> QED BY <3>1, <3>3, <2>1
  <2> QED BY <1>1, <1>9, <2>1, <2>2, <2>3, <2>4 DEF JobsInv
<1> QED BY <1>1, <1>12, <1>13, <1>14 DEF ReportEff

\* A step with the effect QuietEff keeps the parts about evaluation.
LEMMA QuietLate ==
  ASSUME Shaped, WalkInv, LateInv, NEW m \in Modules, QuietEff(m)
  PROVE  LateInv'
<1>1. IdleEff /\ ListEff(m) /\ has_tla' = has_tla /\ has_tla \subseteq Modules
  BY DEF QuietEff, IdleEff, Kept, Shaped
<1>2. /\ FreshInv' /\ RootInv' /\ ErrorInv' /\ StackBodies' /\ PromiseInv' /\ StampInv' /\ TreeInv'
      /\ ImportsInv' /\ JumpInv' /\ DependenciesFirst'
      /\ \A x, p \in Modules : Waits(p, x)' <=> Waits(p, x)
      /\ \A x, p \in Modules : Waits(p, x) => x \in Needs(p)' /\ mod'[p].status \in Ended \cup {"evaluating"}
      /\ \A x \in Modules : mod'[x].status # "evaluating"
      /\ \A x, p \in Modules : Waits(p, x) /\ mod'[x].error # None => mod'[p].error # None
      /\ \A x, p \in Modules : Waits(p, x) /\ mod'[x].status # "evaluated" /\ mod'[p].error = None =>
           mod'[p].status # "evaluated" /\ body'[p] = "unrun"
      /\ \A x \in Modules : mod'[x].status = "evaluated" /\ mod'[x].error = None =>
           body'[x] = "done" /\ ~mod'[x].async /\ mod'[x].pending = 0
      /\ \A x \in Modules : mod'[x].status = "evaluating_async" => mod[x].status = "evaluating_async" /\ mod'[x].async
  BY <1>1, IdleKept
<1>20. \A x \in Modules : mod'[x].status = "evaluating_async" => mod[x].status = "evaluating_async" /\ mod'[x].async
  BY <1>2
<1>21. \A x \in Modules : mod'[x].status = "evaluated" /\ mod'[x].error = None =>
              body'[x] = "done" /\ ~mod'[x].async /\ mod'[x].pending = 0
  BY <1>2
<1>22. /\ \A x, p \in Modules : Waits(p, x)' <=> Waits(p, x)
       /\ \A x, p \in Modules : Waits(p, x) => x \in Needs(p)' /\ mod'[p].status \in Ended \cup {"evaluating"}
       /\ \A x \in Modules : mod'[x].status # "evaluating"
       /\ \A x, p \in Modules : Waits(p, x) /\ mod'[x].error # None => mod'[p].error # None
       /\ \A x, p \in Modules : Waits(p, x) /\ mod'[x].status # "evaluated" /\ mod'[p].error = None =>
              mod'[p].status # "evaluated" /\ body'[p] = "unrun"
  BY <1>2
<1>3. /\ Todo' \subseteq Todo
      /\ \A x \in Todo : x \notin Todo' => x = m /\ (mod'[m].status = "evaluated" \/ (m \in has_tla /\ body'[m] \in Stops))
  BY <1>1, ListKept
<1>4. /\ \A x \in Modules : mod[x].status = "evaluating_async" => mod'[x].pending = mod[x].pending
      /\ \A x \in Modules : x # m => body'[x] = body[x]
      /\ \A x \in Modules : mod[x].status = "evaluating_async" /\ mod'[x].status = "evaluated" /\ mod'[x].error = None =>
            x = m /\ m \in Todo /\ m \notin has_tla
      /\ body'[m] = body[m] \/ (body[m] = "suspended" /\ body'[m] \in Stops) \/ m \in Todo
  BY DEF QuietEff
<1>5. \A x \in Modules : mod[x].status # "evaluating_async" =>
        /\ mod'[x].status = mod[x].status /\ mod'[x].error = mod[x].error /\ mod'[x].pending = mod[x].pending
  BY <1>1 DEF IdleEff
<1>6. \A x \in Modules : mod'[x].parents = mod[x].parents /\ mod'[x].root = mod[x].root
  BY <1>1 DEF IdleEff
<1>7. WaitInv /\ EndedBodies /\ CountInv /\ ErrorInv BY LateParts
<1>8. \A x \in Modules : mod'[x].error = None => mod[x].error = None
  <2>1. \A x \in Modules : mod[x].status = "evaluating_async" => mod[x].error = None
    BY <1>7 DEF ErrorInv
  <2> QED BY <1>5, <2>1
<1>9. WaitInv'
  <2>1. \A x, p \in Modules : Waits(p, x) /\ mod'[x].status # "evaluated" /\ mod'[p].status # "evaluated" /\ p \in Todo' =>
          x \in Todo' /\ x \notin has_tla
    <3> SUFFICES ASSUME NEW x \in Modules, NEW p \in Modules, Waits(p, x), mod'[x].status # "evaluated",
                        mod'[p].status # "evaluated", p \in Todo'
                 PROVE  x \in Todo' /\ x \notin has_tla
      OBVIOUS
    <3>1. mod[x].status # "evaluated" /\ mod[p].status # "evaluated" /\ p \in Todo BY <1>3, <1>5
    <3>2. x \in Todo /\ x \notin has_tla BY <3>1, <1>7 DEF WaitInv
    <3> QED BY <3>2, <1>3
  <2> QED BY <1>1, <1>22, <2>1 DEF WaitInv
<1>10. EndedBodies'
  <2> SUFFICES ASSUME NEW x \in Modules, mod'[x].status = "evaluating_async"
               PROVE  /\ mod'[x].async
                      /\ \/ mod'[x].pending > 0 /\ body'[x] = "unrun" /\ x \notin Todo'
                         \/ mod'[x].pending = 0 /\ x \in Todo'
                         \/ mod'[x].pending = 0 /\ x \in has_tla /\ x \notin Todo' /\ body'[x] \in Stops
    BY <1>1, <1>21 DEF EndedBodies
  <2>1. mod[x].status = "evaluating_async" /\ mod'[x].async /\ mod'[x].pending = mod[x].pending
    BY <1>20, <1>4
  <2>2. \/ mod[x].pending > 0 /\ body[x] = "unrun" /\ x \notin Todo
        \/ mod[x].pending = 0 /\ x \in Todo
        \/ mod[x].pending = 0 /\ x \in has_tla /\ x \notin Todo /\ body[x] \in Stops
    BY <2>1, <1>7 DEF EndedBodies
  <2>3. CASE mod[x].pending > 0 /\ body[x] = "unrun" /\ x \notin Todo BY <2>1, <2>3, <1>3, <1>4
  <2>4. CASE mod[x].pending = 0 /\ x \in Todo BY <2>1, <2>4, <1>3
  <2>5. CASE mod[x].pending = 0 /\ x \in has_tla /\ x \notin Todo /\ body[x] \in Stops
    BY <2>1, <2>5, <1>3, <1>4
  <2> QED BY <2>2, <2>3, <2>4, <2>5
<1>11. CountInv'
  <2> SUFFICES ASSUME NEW p \in Modules, mod'[p].error = None, mod'[p].root # None => mod'[mod'[p].root].error = None
               PROVE  mod'[p].pending = Cardinality(Entries(mod', Open', p))
    BY DEF CountInv, Entries
  <2>1. mod[p].root # None => mod[p].root \in Modules BY ModTypes
  <2>2. mod[p].error = None /\ (mod[p].root # None => mod[mod[p].root].error = None)
    BY <2>1, <1>6, <1>8
  <2>3. mod[p].pending = Cardinality(Entries(mod, Open, p)) BY <2>2, <1>7 DEF CountInv
  <2>4. mod'[p].pending = mod[p].pending BY <1>4, <1>5
  <2>5. \A x \in Modules : p \in ToSet(mod[x].parents) => (x \in Open <=> x \in Open')
    <3> SUFFICES ASSUME NEW x \in Modules, Waits(p, x)
                 PROVE  x \in Open <=> x \in Open'
      BY DEF Waits
    <3>1. x \in Open <=> mod[x].status # "evaluated" /\ (x \in has_tla \/ x \notin Todo)
      BY DEF Open
    <3>2. x \in Open' <=> mod'[x].status # "evaluated" /\ (x \in has_tla \/ x \notin Todo')
      BY <1>1 DEF Open
    <3>3. CASE mod'[x].status = mod[x].status BY <3>1, <3>2, <3>3, <1>3
    <3>4. CASE mod'[x].status # mod[x].status
      <4>1. mod[x].status = "evaluating_async" BY <3>4, <1>5
      <4>2. mod'[x].status = "evaluated"
        <5>1. Stays(x) \/ Succeeds(x) \/ Fails(x) BY <4>1, <1>1 DEF IdleEff
        <5> QED BY <3>4, <4>1, <5>1 DEF Stays, Succeeds, Fails
      <4>3. mod'[x].error = None BY <1>22
      <4>4. x \in Todo /\ x \notin has_tla BY <4>1, <4>2, <4>3, <1>4
      <4> QED BY <3>1, <3>2, <4>2, <4>4
    <3> QED BY <3>3, <3>4
  <2>6. Open \subseteq Modules /\ Open' \subseteq Modules BY DEF Open
  <2>7. PICK S \in SUBSET Modules : S = Open BY <2>6
  <2>8. PICK T \in SUBSET Modules : T = Open' BY <2>6
  <2>9. \A x \in Modules : p \in ToSet(mod[x].parents) => (x \in S <=> x \in T)
    BY <2>5, <2>7, <2>8
  <2>10. \A x \in Modules : mod'[x].parents = mod[x].parents BY <1>6
  <2>11. Entries(mod', T, p) = Entries(mod, S, p) BY <2>9, <2>10, EntriesSame
  <2> QED BY <2>3, <2>4, <2>7, <2>8, <2>11
<1>12. TodoInv' BY QuietTodo
<1>13. JobsInv' BY QuietJobs
<1> QED BY <1>2, <1>9, <1>10, <1>11, <1>12, <1>13 DEF LateInv

\* Nothing is traversed, the list of modules to execute may be going on.
LEMMA IdleState ==
  ASSUME IInv, ~Doing("eval")
  PROVE  /\ Shaped /\ WalkInv /\ LateInv /\ asserts /\ ImportsTyped
         /\ mod \in ModuleTables /\ body \in [Modules -> Bodies] /\ jobs \in Seq(Reports) /\ clock \in Nat
         /\ \A x \in Modules : mod[x].status # "evaluating" /\ mod[x].status \in Statuses
         /\ \A x \in Modules : Imports(x) \subseteq Modules
<1>1. Shaped /\ WalkInv /\ LateInv /\ asserts /\ ImportsTyped BY Typed DEF IInv
<1>2. \A x \in Modules : Imports(x) \subseteq Modules BY <1>1, ImportTypes
<1>3. \A x \in Modules : mod[x].status # "evaluating" /\ mod[x].status \in Statuses
  BY <1>1, ModTypes DEF WalkInv, IdleInv
<1>4. mod \in ModuleTables /\ body \in [Modules -> Bodies] /\ jobs \in Seq(Reports) /\ clock \in Nat
  BY <1>1 DEF Shaped
<1> QED BY <1>1, <1>2, <1>3, <1>4

\* Between calls nothing is done.
LEMMA NoCall ==
  ASSUME calls = <<>>
  PROVE  /\ \A op : ~Doing(op)
         /\ Todo = {}
BY DEF Doing, Todo

\* The state of a call that executes the list.
LEMMA ExecState ==
  ASSUME IInv, InCall("exec")
  PROVE  /\ calls # <<>> /\ top = C1 /\ C1 \in Calls /\ C1.op = "exec" /\ Doing("exec") /\ ~Doing("link") /\ ~Doing("eval")
         /\ C1.frames = <<>> /\ C1.stack = <<>> /\ C1.todo \in Seq(Modules) /\ C1.root \in Modules
         /\ Todo = ToSet(C1.todo)
         /\ C1.todo # <<>> => /\ Head(C1.todo) \in Modules /\ Head(C1.todo) \in Todo /\ Current = Head(C1.todo)
                              /\ Ready(1) /\ Head(C1.todo) = C1.todo[1]
<1>1. calls # <<>> /\ top.op = "exec" /\ Shaped /\ TodoInv BY LateParts DEF InCall, IInv
<1>2. top = C1 /\ C1 \in Calls BY <1>1, OneCall
<1>3. C1.op = "exec" /\ Doing("exec") /\ ~Doing("link") /\ ~Doing("eval") BY <1>1, <1>2 DEF Doing
<1>4. C1.frames = <<>> /\ C1.stack = <<>> BY <1>1, <1>3 DEF Shaped
<1>5. C1.todo \in Seq(Modules) /\ C1.root \in Modules BY <1>2, CallTypes
<1>6. Todo = ToSet(C1.todo) BY <1>3 DEF Todo
<1>7. ASSUME C1.todo # <<>>
      PROVE  /\ Head(C1.todo) \in Modules /\ Head(C1.todo) \in Todo /\ Current = Head(C1.todo)
             /\ Ready(1) /\ Head(C1.todo) = C1.todo[1]
  <2>1. Head(C1.todo) \in Modules /\ ToSet(C1.todo) = {Head(C1.todo)} \cup ToSet(Tail(C1.todo))
    BY <1>5, <1>7, TailSet
  <2>2. 1 \in 1..Len(C1.todo) /\ Head(C1.todo) = C1.todo[1] BY <1>5, <1>7, TailFacts
  <2>3. Ready(1) BY <1>1, <1>3, <2>2 DEF TodoInv
  <2>4. Current = Head(C1.todo) BY <1>2, <1>3 DEF Current
  <2> QED BY <1>6, <2>1, <2>2, <2>3, <2>4
<1> QED BY <1>1, <1>2, <1>3, <1>4, <1>5, <1>6, <1>7

\* The list goes on without its head.
LEMMA TailCall ==
  ASSUME IInv, InCall("exec"), C1.todo # <<>>, Replace([top EXCEPT !.todo = Tail(@)])
  PROVE  /\ calls' # <<>> /\ Len(calls') <= 1 /\ calls' \in Seq(Calls)
         /\ C1'.op = "exec" /\ C1'.frames = <<>> /\ C1'.stack = <<>> /\ C1'.todo = Tail(C1.todo)
         /\ Doing("exec")' /\ ~Doing("link")' /\ ~Doing("eval")'
<1>1. /\ calls # <<>> /\ top = C1 /\ C1 \in Calls /\ C1.op = "exec" /\ C1.frames = <<>> /\ C1.stack = <<>>
      /\ C1.todo \in Seq(Modules) /\ Shaped
  BY ExecState DEF IInv
<1> DEFINE t == Tail(C1.todo)
           c == [C1 EXCEPT !.todo = t]
<1>2. t \in Seq(Modules) BY <1>1, TailFacts
<1>3. Replace(c) BY <1>1
<1> HIDE DEF t
<1>4. c \in Calls /\ c.op = "exec" /\ c.frames = <<>> /\ c.stack = <<>> /\ c.todo = t
  BY <1>1, <1>2 DEF Calls
<1> HIDE DEF c
<1>5. /\ calls' # <<>> /\ C1' = c /\ Len(calls') <= 1 /\ calls' \in Seq(Calls)
      /\ \A op : Doing(op)' <=> c.op = op
  BY <1>1, <1>3, <1>4, CallsTyped
<1> QED BY <1>4, <1>5 DEF t

\* The shape of the state after a step of the execution of the list.
LEMMA ShapedList ==
  ASSUME Kept, Shaped, mod' \in ModuleTables, body' \in [Modules -> Bodies],
         jobs' \in Seq(Reports), clock' \in Nat,
         Len(calls') <= 1, calls' \in Seq(Calls),
         C1'.op = "exec", C1'.frames = <<>>, C1'.stack = <<>>
  PROVE  Shaped'
BY DEF Shaped, Kept, Doing

\* A step that leaves the modules alone.
LEMMA IdleSame ==
  ASSUME LateInv, Kept, clock' = clock, mod' = mod, NEW m \in Modules,
         \A op \in {"link", "eval"} : ~Doing(op) /\ ~Doing(op)',
         \A x \in Modules : x # m => body'[x] = body[x],
         mod[m].status \notin Ended => body'[m] = body[m],
         body[m] \in Outcomes => body'[m] = body[m],
         body[m] = "unrun" /\ body'[m] # "unrun" => Starts(m),
         body'[m] = "running" => body[m] \in {"unrun", "running"}
  PROVE  IdleEff
<1>1. EndedBodies BY LateParts
<1>2. \A x \in Modules : mod[x].status = "evaluating_async" => Stays(x)
  BY <1>1 DEF EndedBodies, Stays
<1>3. \A x \in Modules :
       /\ mod[x].status \notin Ended => body'[x] = body[x]
       /\ body[x] \in Outcomes => body'[x] = body[x]
       /\ body[x] = "unrun" /\ body'[x] # "unrun" => Starts(x)
       /\ body'[x] = "running" => body[x] \in {"unrun", "running"}
  OBVIOUS
<1> QED BY <1>2, <1>3 DEF IdleEff

\* The head of the list of modules to execute has nothing left to wait for.
LEMMA HeadStarts ==
  ASSUME IInv, InCall("exec"), C1.todo # <<>>, NEW m \in Modules, Head(C1.todo) = m, mod[m].status = "evaluating_async"
  PROVE  Starts(m)
<1>1. /\ C1.todo \in Seq(Modules) /\ Todo = ToSet(C1.todo) /\ m \in Todo /\ C1.todo[1] = m /\ Doing("exec") /\ ~Doing("eval")
  BY ExecState
<1>2. /\ Shaped /\ LateInv /\ \A x \in Modules : Imports(x) \subseteq Modules BY <1>1, IdleState
<1>3. WaitInv /\ StampInv /\ TodoInv /\ ErrorInv /\ EndedBodies /\ ImportsInv /\ RootInv
  BY <1>2, LateParts
<1>4. mod[m].error = None /\ mod[m].async BY <1>3 DEF ErrorInv, EndedBodies
<1>5. ASSUME NEW y \in Modules, Waits(m, y) PROVE mod[y].status = "evaluated" /\ mod[y].error = None
  <2>1. mod[y].error = None BY <1>3, <1>4, <1>5 DEF WaitInv
  <2>2. SUFFICES ASSUME mod[y].status # "evaluated" PROVE FALSE BY <2>1
  <2>3. y \in ToSet(C1.todo) BY <1>1, <1>3, <1>5, <2>2 DEF WaitInv
  <2>4. mod[y].stamp < mod[m].stamp BY <1>3, <1>4, <1>5 DEF StampInv
  <2>5. PICK j \in 1..Len(C1.todo) : C1.todo[j] = y BY <1>1, <2>3 DEF ToSet
  <2>6. mod[y].stamp \in Nat /\ mod[m].stamp \in Nat BY <1>2, ModTypes
  <2>7. 1 \in 1..Len(C1.todo) /\ j \in Nat /\ (j = 1 \/ 1 < j) BY <1>1, TailFacts
  <2>8. 1 < j => mod[C1.todo[1]].stamp <= mod[C1.todo[j]].stamp BY <1>1, <1>3, <2>7 DEF TodoInv
  <2> QED BY <1>1, <2>4, <2>5, <2>6, <2>7, <2>8
<1>6. ASSUME NEW d \in Imports(m) PROVE (\A y \in Needs(d) : body[y] = "done") \/ d \in Cyclic(m)
  <2>1. d \in Modules /\ mod[d].status \in Ended /\ (mod[d].root = mod[m].root \/ DoneFor(m, d))
    BY <1>2, <1>3, <1>4, <1>6 DEF ImportsInv, Ended
  <2>2. mod[d].root \in Modules BY <1>3, <2>1 DEF RootInv
  <2>3. CASE DoneFor(m, d)
    <3>1. Complete(mod[d].root) BY <1>5, <2>2, <2>3 DEF DoneFor, Complete
    <3> QED BY <1>2, <2>1, <3>1, GraphThrough
  <2>4. CASE mod[d].root = mod[m].root
    <3>1. mod[m].status \in Ended /\ mod[m].root \in Modules BY <1>3, <2>2, <2>4 DEF Ended
    <3>2. mod[m].root \in Needs(d) /\ d \in Needs(mod[m].root)
      BY <1>3, <1>4, <2>1, <2>4, <3>1 DEF RootInv
    <3>3. mod[m].root \in Needs(m) /\ m \in Needs(mod[m].root) BY <1>3, <1>4, <3>1 DEF RootInv
    <3>4. d \in Needs(m) BY <1>2, <3>1, <3>2, <3>3, NeedsTransitive
    <3>5. m \in Needs(d) BY <1>2, <2>1, <3>1, <3>2, <3>3, NeedsTransitive
    <3> QED BY <3>4, <3>5 DEF Cyclic
  <2> QED BY <2>1, <2>3, <2>4
<1> QED BY <1>5, <1>6 DEF Starts

\* The modules do not change, and at most one body does.
LEMMA QuietSame ==
  ASSUME mod' = mod, NEW m \in Modules, IdleEff, ListEff(m), ReportEff(m),
         \A x \in Modules : x # m => body'[x] = body[x],
         body'[m] = body[m] \/ (body[m] = "suspended" /\ body'[m] \in Stops) \/ m \in Todo,
         body'[m] = "suspended" => m \in has_tla
  PROVE  QuietEff(m)
BY DEF QuietEff

\* ExecNext is quiet.
LEMMA ExecNextStep ==
  ASSUME IInv, ExecNext
  PROVE  Quiet
<1>1. /\ InCall("exec") /\ ~Running /\ Kept /\ mod' = mod /\ jobs' = jobs /\ clock' = clock
      /\ IF top.todo = <<>> THEN Returns /\ UNCHANGED <<body, asserts>>
         ELSE IF mod[Head(top.todo)].status = "evaluated"
              THEN /\ asserts' = (asserts /\ mod[Head(top.todo)].error # None)
                   /\ Replace([top EXCEPT !.todo = Tail(@)]) /\ UNCHANGED body
              ELSE BodyStarts(Head(top.todo)) /\ UNCHANGED <<calls, asserts>>
  BY DEF ExecNext, Kept, code
<1>2. /\ calls # <<>> /\ top = C1 /\ C1 \in Calls /\ C1.op = "exec" /\ Doing("exec") /\ ~Doing("link") /\ ~Doing("eval")
      /\ C1.frames = <<>> /\ C1.stack = <<>> /\ C1.todo \in Seq(Modules) /\ C1.root \in Modules
      /\ Todo = ToSet(C1.todo)
      /\ C1.todo # <<>> => /\ Head(C1.todo) \in Modules /\ Head(C1.todo) \in Todo /\ Current = Head(C1.todo)
                           /\ Ready(1) /\ Head(C1.todo) = C1.todo[1]
  BY <1>1, ExecState
<1>3. /\ Shaped /\ WalkInv /\ LateInv /\ asserts
      /\ mod \in ModuleTables /\ body \in [Modules -> Bodies] /\ jobs \in Seq(Reports) /\ clock \in Nat
  BY <1>2, IdleState
<1>4. CASE C1.todo = <<>>
  <2>1. Returns /\ body' = body /\ asserts' = asserts BY <1>1, <1>2, <1>4
  <2>2. calls' = <<>> /\ \A op : ~Doing(op)' BY <2>1, <1>2, <1>3, CallSteps DEF Doing
  <2>3. Shaped' BY <1>1, <1>3, <2>1, <2>2, ShapedNext
  <2>4. PICK m \in Modules : C1.root = m BY <1>2
  <2>5. IdleEff BY <1>1, <1>2, <1>3, <2>1, <2>2, <2>4, IdleSame
  <2>6. Todo = {} BY <1>2, <1>4 DEF ToSet
  <2>7. ListEff(m) /\ ReportEff(m) BY <1>1, <2>1, <2>2, <2>6 DEF ListEff, ReportEff
  <2>8. body'[m] = "suspended" => m \in has_tla BY <1>3, <2>1, LateParts DEF JobsInv
  <2>9. QuietEff(m) BY <1>1, <2>1, <2>4, <2>5, <2>7, <2>8, QuietSame
  <2>10. WalkInv' BY <1>3, <2>5, IdleWalk
  <2> QED BY <1>3, <2>1, <2>3, <2>4, <2>9, <2>10 DEF Quiet
<1>5. CASE C1.todo # <<>>
  <2>1. PICK m \in Modules : Head(C1.todo) = m BY <1>2, <1>5
  <2>2. /\ m \in Todo /\ Current = m /\ C1.todo[1] = m
        /\ \/ mod[m].status = "evaluating_async" /\ mod[m].pending = 0 /\ body[m] \in {"unrun", "running"}
           \/ mod[m].status = "evaluated" /\ mod[m].error # None /\ body[m] = "unrun"
    BY <1>2, <1>5, <2>1 DEF Ready
  <2>3. CASE mod[m].status = "evaluated"
    <3>1. asserts' = (asserts /\ mod[m].error # None) /\ Replace([top EXCEPT !.todo = Tail(@)]) /\ body' = body
      BY <1>1, <1>2, <1>5, <2>1, <2>3
    <3>2. asserts' /\ mod[m].error # None BY <1>3, <2>2, <2>3, <3>1
    <3>3. /\ calls' # <<>> /\ Len(calls') <= 1 /\ calls' \in Seq(Calls)
          /\ C1'.op = "exec" /\ C1'.frames = <<>> /\ C1'.stack = <<>> /\ C1'.todo = Tail(C1.todo)
          /\ Doing("exec")' /\ ~Doing("link")' /\ ~Doing("eval")'
      BY <1>1, <1>5, <3>1, TailCall
    <3>4. Shaped' BY <1>1, <1>3, <3>1, <3>3, ShapedList
    <3>5. IdleEff BY <1>1, <1>2, <1>3, <3>1, <3>3, IdleSame
    <3>6. mod'[m].status = "evaluated" BY <1>1, <2>3
    <3>7. ListEff(m) /\ ReportEff(m)
      BY <1>1, <1>2, <1>5, <2>1, <3>1, <3>3, <3>6 DEF ListEff, ReportEff
    <3>8. body'[m] = "suspended" => m \in has_tla BY <1>3, <3>1, LateParts DEF JobsInv
    <3>9. QuietEff(m) BY <1>1, <3>1, <3>5, <3>7, <3>8, QuietSame
    <3>10. WalkInv' BY <1>3, <3>5, IdleWalk
    <3> QED BY <3>2, <3>4, <3>9, <3>10 DEF Quiet
  <2>4. CASE mod[m].status # "evaluated"
    <3>1. BodyStarts(m) /\ calls' = calls /\ asserts' = asserts BY <1>1, <1>2, <1>5, <2>1, <2>4
    <3>2. mod[m].status = "evaluating_async" /\ body[m] = "unrun"
      <4>1. body[m] # "running" BY <1>1, <1>2, <1>5, <2>2 DEF Running
      <4> QED BY <2>2, <2>4, <4>1
    <3>3. body' \in [Modules -> Bodies] /\ body'[m] = "running" /\ \A x \in Modules : x # m => body'[x] = body[x]
      BY <1>3, <3>1 DEF BodyStarts, Bodies
    <3>4. /\ Len(calls') <= 1 /\ calls' \in Seq(Calls) /\ C1' = C1 /\ \A op : Doing(op)' <=> Doing(op)
      BY <1>3, <3>1 DEF Shaped, Doing, C1
    <3>5. Shaped' BY <1>1, <1>2, <1>3, <3>3, <3>4, ShapedList
    <3>6. Starts(m) BY <1>1, <1>5, <2>1, <3>2, HeadStarts
    <3>7. IdleEff BY <1>1, <1>2, <1>3, <3>2, <3>3, <3>4, <3>6, IdleSame DEF Ended, Outcomes
    <3>8. ListEff(m) /\ ReportEff(m)
      BY <1>1, <1>2, <1>5, <2>1, <3>1, <3>2, <3>3 DEF ListEff, ReportEff, Outcomes
    <3>9. QuietEff(m) BY <1>1, <2>2, <3>3, <3>7, <3>8, QuietSame
    <3>10. WalkInv' BY <1>3, <3>7, IdleWalk
    <3> QED BY <1>3, <3>1, <3>5, <3>9, <3>10 DEF Quiet
  <2> QED BY <2>3, <2>4
<1> QED BY <1>4, <1>5

\* A report is appended.
LEMMA Reported ==
  ASSUME jobs \in Seq(Reports), NEW m \in Modules, NEW how \in Outcomes
  PROVE  Report(m, how) \in Seq(Reports) /\ Report(m, how) = Append(jobs, [m |-> m, how |-> how])
<1>1. [m |-> m, how |-> how] \in Reports BY DEF Reports
<1> QED BY <1>1 DEF Report

\* BodyResumes is quiet.
LEMMA BodyResumesStep ==
  ASSUME IInv, NEW m \in Modules, NEW how \in Outcomes, BodyResumes(m, how)
  PROVE  Quiet
<1>1. /\ calls = <<>> /\ body[m] = "suspended" /\ body' = [body EXCEPT ![m] = how] /\ jobs' = Report(m, how)
      /\ Kept /\ mod' = mod /\ calls' = calls /\ clock' = clock /\ asserts' = asserts
  BY DEF BodyResumes, Kept, code
<1>2. /\ \A op : ~Doing(op) /\ ~Doing(op)'
      /\ Todo = {}
  BY <1>1, NoCall DEF Doing
<1>3. /\ Shaped /\ WalkInv /\ LateInv /\ asserts
      /\ mod \in ModuleTables /\ body \in [Modules -> Bodies] /\ jobs \in Seq(Reports) /\ clock \in Nat
  BY <1>2, IdleState
<1>4. /\ how \in Bodies /\ how \in Stops /\ how # "suspended" /\ how # "running" /\ how # "unrun"
  BY DEF Outcomes, Bodies, Stops
<1>5. body' \in [Modules -> Bodies] /\ body'[m] = how /\ \A x \in Modules : x # m => body'[x] = body[x]
  BY <1>1, <1>3, <1>4
<1>6. jobs' \in Seq(Reports) /\ jobs' = Append(jobs, [m |-> m, how |-> how])
  BY <1>1, <1>3, Reported
<1>7. m \in has_tla BY <1>1, <1>3, LateParts DEF JobsInv
<1>8. mod[m].status \in Ended \cup {"evaluating"}
  <2>1. FreshInv BY <1>3, LateParts
  <2> QED BY <1>1, <2>1 DEF FreshInv
<1>9. mod[m].status \in Ended BY <1>2, <1>8, <1>3 DEF WalkInv, IdleInv
<1>10. Shaped' BY <1>1, <1>3, <1>5, <1>6, ShapedNext
<1>11. IdleEff
  <2>1. body[m] \notin Outcomes /\ body[m] # "unrun" BY <1>1 DEF Outcomes
  <2> QED BY <1>1, <1>2, <1>3, <1>4, <1>5, <1>9, <2>1, IdleSame
<1>12. ListEff(m) BY <1>2 DEF ListEff
<1>13. ReportEff(m)
  <2>1. body[m] \notin Outcomes \cup {"unrun"} BY <1>1 DEF Outcomes
  <2>2. jobs' = Append(jobs, [m |-> m, how |-> body'[m]]) BY <1>5, <1>6
  <2> QED BY <1>5, <1>7, <2>1, <2>2 DEF ReportEff
<1>14. QuietEff(m) BY <1>1, <1>4, <1>5, <1>7, <1>11, <1>12, <1>13, QuietSame
<1>15. WalkInv' BY <1>3, <1>11, IdleWalk
<1> QED BY <1>1, <1>3, <1>10, <1>14, <1>15 DEF Quiet

\* The fields of the modules after SetEvaluated.
LEMMA EvaluatedFields ==
  ASSUME NEW M \in ModuleTables, NEW m \in Modules, NEW Z, EvaluatedTo(M, m, Z)
  PROVE  /\ Z \in ModuleTables
         /\ Z[m].status = "evaluated" /\ ~Z[m].async /\ Z[m].promise = Settled(M[m].promise, "fulfilled")
         /\ \A x \in Modules : x # m => Z[x] = M[x]
         /\ \A x \in Modules :
              /\ Z[x].dfs = M[x].dfs /\ Z[x].root = M[x].root /\ Z[x].pending = M[x].pending
              /\ Z[x].error = M[x].error /\ Z[x].stamp = M[x].stamp /\ Z[x].parents = M[x].parents
<1> DEFINE v == Settled(M[m].promise, "fulfilled")
           r == [M[m] EXCEPT !.status = "evaluated", !.async = FALSE, !.promise = v]
           N == [M EXCEPT ![m] = r]
<1>1. Z = N BY DEF EvaluatedTo, ModuleTables
<1>2. v \in {"none", "pending", "fulfilled", "rejected"} BY FieldTypes DEF Settled
<1> HIDE DEF v
<1>3. /\ r \in ModuleFields /\ r.status = "evaluated" /\ ~r.async /\ r.promise = v
      /\ r.dfs = M[m].dfs /\ r.root = M[m].root /\ r.pending = M[m].pending
      /\ r.error = M[m].error /\ r.stamp = M[m].stamp /\ r.parents = M[m].parents
  <2>1. M[m] \in ModuleFields /\ "evaluated" \in Statuses BY FieldTypes DEF Statuses
  <2> QED BY <1>2, <2>1 DEF ModuleFields
<1> HIDE DEF r
<1>4. N \in ModuleTables /\ N[m] = r /\ \A x \in Modules : x # m => N[x] = M[x]
  BY <1>3 DEF ModuleTables
<1> HIDE DEF N
<1>5. \A x \in Modules :
              /\ N[x].dfs = M[x].dfs /\ N[x].root = M[x].root /\ N[x].pending = M[x].pending
              /\ N[x].error = M[x].error /\ N[x].stamp = M[x].stamp /\ N[x].parents = M[x].parents
  <2> TAKE x \in Modules
  <2>1. CASE x = m BY <2>1, <1>3, <1>4
  <2>2. CASE x # m BY <2>2, <1>4
  <2> QED BY <2>1, <2>2
<1> QED BY <1>1, <1>3, <1>4, <1>5 DEF v

\* The fields of the modules after Rejected.
LEMMA RejectedFields ==
  ASSUME NEW M \in ModuleTables, NEW R \in SUBSET Modules, NEW e \in Modules, NEW Z, RejectedTo(M, R, e, Z)
  PROVE  /\ Z \in ModuleTables
         /\ \A x \in R : /\ Z[x].status = "evaluated" /\ ~Z[x].async /\ Z[x].error = e
                         /\ Z[x].promise = Settled(M[x].promise, "rejected")
         /\ SameOutside(M, R, Z)
         /\ \A x \in Modules :
              /\ Z[x].dfs = M[x].dfs /\ Z[x].root = M[x].root /\ Z[x].pending = M[x].pending
              /\ Z[x].stamp = M[x].stamp /\ Z[x].parents = M[x].parents
<1> DEFINE v(x) == Settled(M[x].promise, "rejected")
           r(x) == [M[x] EXCEPT !.error = e, !.status = "evaluated", !.async = FALSE, !.promise = v(x)]
           N == [x \in Modules |-> IF x \in R THEN r(x) ELSE M[x]]
<1>1. Z = N BY DEF RejectedTo
<1>2. ASSUME NEW x \in Modules PROVE v(x) \in {"none", "pending", "fulfilled", "rejected"}
  BY FieldTypes DEF Settled
<1>3. \A x : v(x) = Settled(M[x].promise, "rejected") OBVIOUS
<1> HIDE DEF v
<1>4. ASSUME NEW x \in Modules
      PROVE  /\ r(x) \in ModuleFields /\ r(x).status = "evaluated" /\ ~r(x).async /\ r(x).error = e
             /\ r(x).dfs = M[x].dfs /\ r(x).root = M[x].root /\ r(x).pending = M[x].pending
             /\ r(x).stamp = M[x].stamp /\ r(x).parents = M[x].parents /\ r(x).promise = v(x)
  <2>1. M[x] \in ModuleFields /\ v(x) \in {"none", "pending", "fulfilled", "rejected"} /\ "evaluated" \in Statuses
    BY <1>2, FieldTypes DEF Statuses
  <2> QED BY <2>1 DEF ModuleFields
<1> HIDE DEF r
<1>5. \A x \in Modules : M[x] \in ModuleFields BY FieldTypes
<1>6. N \in ModuleTables /\ (\A x \in Modules : x \in R => N[x] = r(x)) /\ (\A x \in Modules : x \notin R => N[x] = M[x])
  BY <1>4, <1>5 DEF ModuleTables
<1> HIDE DEF N
<1>7. \A x \in Modules :
              /\ N[x].dfs = M[x].dfs /\ N[x].root = M[x].root /\ N[x].pending = M[x].pending
              /\ N[x].stamp = M[x].stamp /\ N[x].parents = M[x].parents
  <2> TAKE x \in Modules
  <2>1. CASE x \in R BY <2>1, <1>4, <1>6
  <2>2. CASE x \notin R BY <2>2, <1>6
  <2> QED BY <2>1, <2>2
<1>8. \A x \in R : /\ N[x].status = "evaluated" /\ ~N[x].async /\ N[x].error = e
                   /\ N[x].promise = Settled(M[x].promise, "rejected")
  BY <1>3, <1>4, <1>6
<1>9. SameOutside(M, R, N) BY <1>6 DEF SameOutside
<1> QED BY <1>1, <1>6, <1>7, <1>8, <1>9

\* The modules a failure reaches: they have not run, they need the module that
\* failed, and those that wait for them have failed already or are reached too.
LEMMA ToldFacts ==
  ASSUME IInv, ~Doing("eval"), NEW m \in Modules, mod[m].status = "evaluating_async"
  PROVE  /\ Told(mod, m) \subseteq Modules /\ m \in Told(mod, m)
         /\ \A x \in Told(mod, m) :
              /\ mod[x].status = "evaluating_async" /\ mod[x].error = None /\ mod[x].async
              /\ m \in Needs(x) /\ (x = m \/ body[x] = "unrun")
              /\ mod[x].promise # "none" => mod[x].root = x
         /\ \A x \in Told(mod, m) : \A p \in Modules :
              Waits(p, x) => p \in Told(mod, m) \/ mod[p].error # None
         /\ \A x \in Told(mod, m) : mod[x].root \in Modules /\ (mod[x].root \in Told(mod, m) \/ mod[mod[x].root].error # None)
<1>1. /\ Shaped /\ WalkInv /\ LateInv
      /\ \A x \in Modules : mod[x].status # "evaluating" /\ mod[x].status \in Statuses
      /\ \A x \in Modules : Imports(x) \subseteq Modules
  BY IdleState
<1>2. RootInv /\ ErrorInv /\ EndedBodies /\ PromiseInv /\ WaitInv /\ TreeInv BY <1>1, LateParts
<1> DEFINE U == {x \in Modules : mod[x].status # "evaluated"}
           next == [x \in Modules |-> ToSet(mod[x].parents)]
           R == Closure(U, m, next)
           S == {x \in U : mod[x].status = "evaluating_async" /\ m \in Needs(x) /\ (x = m \/ body[x] = "unrun")}
<1>3. Told(mod, m) = R BY DEF Told
<1>4. m \in U /\ U \subseteq Modules /\ m \in S BY NeedsSelf
<1>5. \A x, p \in Modules : p \in next[x] <=> Waits(p, x) BY DEF Waits
<1>6. \A x \in U : mod[x].status # "evaluated" /\ mod[x].error = None BY <1>2 DEF ErrorInv
<1>7. \A p \in Modules : p \notin U => mod[p].status = "evaluated" OBVIOUS
<1>8. ASSUME NEW x \in S, NEW p \in U, Waits(p, x) PROVE p \in S
  <2>1. x \in Modules /\ p \in Modules /\ mod[x].status # "evaluated" /\ m \in Needs(x) /\ mod[p].error = None /\ mod[p].status # "evaluated"
    BY <1>6
  <2>2. x \in Needs(p) /\ mod[p].status \in Ended \cup {"evaluating"}
    BY <1>2, <1>8, <2>1 DEF WaitInv
  <2>3. mod[p].status = "evaluating_async" BY <1>1, <2>1, <2>2 DEF Ended
  <2>4. m \in Needs(p) BY <1>1, <2>1, <2>2, NeedsTransitive
  <2>5. body[p] = "unrun" BY <1>2, <1>8, <2>1 DEF WaitInv
  <2> QED BY <2>3, <2>4, <2>5
<1>9. \A x \in S : mod[x].status = "evaluating_async" /\ m \in Needs(x) /\ (x = m \/ body[x] = "unrun") /\ x \in U
  OBVIOUS
<1> HIDE DEF U, next
<1>10. S \in SUBSET U OBVIOUS
<1> HIDE DEF S
<1>11. \A x \in S : next[x] \cap U \subseteq S BY <1>4, <1>5, <1>8, <1>10
<1>12. R \subseteq S BY <1>4, <1>10, <1>11, ClosureLeast
<1>13. R \subseteq U /\ m \in R BY <1>4, ClosureHas
<1>14. ASSUME NEW x \in R, NEW p \in Modules, Waits(p, x) PROVE p \in R \/ mod[p].error # None
  <2>1. x \in Modules /\ p \in next[x] /\ x \in U BY <1>4, <1>5, <1>13, <1>14
  <2>2. CASE p \in U BY <2>1, <2>2, ClosureStep
  <2>3. CASE p \notin U BY <1>2, <1>6, <1>7, <1>14, <2>1, <2>3 DEF WaitInv
  <2> QED BY <2>2, <2>3
<1> HIDE DEF R
<1>15. ASSUME NEW x \in R
       PROVE  /\ mod[x].status = "evaluating_async" /\ mod[x].error = None /\ mod[x].async /\ x \in Modules
              /\ m \in Needs(x) /\ (x = m \/ body[x] = "unrun")
              /\ mod[x].promise # "none" => mod[x].root = x
  <2>1. mod[x].status = "evaluating_async" /\ x \in Modules /\ m \in Needs(x) /\ (x = m \/ body[x] = "unrun") /\ x \in U
    BY <1>4, <1>9, <1>12, <1>13
  <2>2. mod[x].async BY <1>2, <2>1 DEF EndedBodies
  <2>3. mod[x].promise # "none" => mod[x].root = x BY <1>2, <2>1 DEF PromiseInv
  <2> QED BY <1>6, <2>1, <2>2, <2>3
<1>16. ASSUME NEW x \in R PROVE mod[x].root \in Modules /\ (mod[x].root \in R \/ mod[mod[x].root].error # None)
  <2>1. mod[x].root \in Modules /\ mod[x].root # None
    BY <1>2, <1>15, NoneAssumption DEF RootInv, Ended
  <2> DEFINE T == {y \in R : mod[y].root = mod[x].root}
             f == [y \in Modules |-> mod[y].dfs]
  <2>2. T \subseteq Modules /\ T # {} /\ \A y \in Modules : f[y] \in Nat BY <1>1, <1>15, ModTypes
  <2>3. PICK y \in T : \A z \in T : f[y] <= f[z]
    <3> HIDE DEF T, f
    <3> QED BY <2>2, LeastModule
  <2>4. y \in R /\ mod[y].root = mod[x].root /\ y \in Modules /\ mod[y].status = "evaluating_async"
    BY <1>15, <2>3
  <2>5. CASE mod[y].root = y BY <2>1, <2>4, <2>5
  <2>6. CASE mod[y].root # y
    <3>1. PICK z \in Modules : Waits(z, y) /\ mod[z].root = mod[y].root /\ mod[z].dfs < mod[y].dfs
      BY <1>2, <2>4, <2>6 DEF TreeInv
    <3>2. CASE z \in R
      <4>1. mod[y].dfs <= mod[z].dfs BY <2>2, <2>3, <2>4, <3>1, <3>2
      <4>2. mod[y].dfs \in Nat /\ mod[z].dfs \in Nat BY <1>1, <2>4, ModTypes
      <4> QED BY <3>1, <4>1, <4>2
    <3>3. CASE mod[z].error # None
      <4>1. mod[z].status \in Ended BY <1>2, <2>1, <2>4, <3>1 DEF RootInv
      <4> QED BY <1>2, <2>1, <2>4, <3>1, <3>3, <4>1 DEF RootInv
    <3> QED BY <1>14, <2>4, <3>1, <3>2, <3>3
  <2> QED BY <2>5, <2>6
<1>17. R \subseteq Modules BY <1>15
<1> QED BY <1>3, <1>13, <1>14, <1>15, <1>16, <1>17

\* A failure that is reported, or met, while nothing is traversed.
LEMMA RejectedStep ==
  ASSUME IInv, NEW m \in Modules, mod[m].status = "evaluating_async",
         Kept, clock' = clock, Commit(Rejected(State, m, m)),
         \A op \in {"link", "eval"} : ~Doing(op) /\ ~Doing(op)',
         body'[m] = "failed", body[m] \in {"running", "failed"},
         \A x \in Modules : x # m => body'[x] = body[x]
  PROVE  /\ mod' \in ModuleTables /\ asserts' /\ IdleEff
         /\ mod'[m].status = "evaluated"
         /\ \A x \in Modules : mod[x].status = "evaluating_async" =>
              mod'[x].pending = mod[x].pending /\ (mod'[x].status = "evaluated" => mod'[x].error # None)
<1>1. /\ ~Doing("eval") /\ Shaped /\ LateInv /\ asserts /\ mod \in ModuleTables
      /\ \A x \in Modules : mod[x].status # "evaluating"
  BY IdleState
<1>2. EndedBodies BY <1>1, LateParts
<1>3. PICK R \in SUBSET Modules : R = Told(mod, m) BY <1>1, ToldFacts
<1>4. /\ m \in R
      /\ \A x \in R :
           /\ mod[x].status = "evaluating_async" /\ mod[x].error = None /\ mod[x].async
           /\ m \in Needs(x) /\ (x = m \/ body[x] = "unrun")
           /\ mod[x].promise # "none" => mod[x].root = x
      /\ \A x \in R : \A p \in Modules : Waits(p, x) => p \in R \/ mod[p].error # None
      /\ \A x \in R : mod[x].root \in Modules /\ (mod[x].root \in R \/ mod[mod[x].root].error # None)
  BY <1>1, <1>3, ToldFacts
<1>5. /\ RejectedTo(mod, R, m, mod')
      /\ asserts' = (asserts /\ \A x \in R :
           /\ mod[x].status = "evaluating_async" /\ mod[x].error = None /\ mod[x].async
           /\ mod[x].promise # "none" => mod[x].root = x
           /\ \A p \in ToSet(mod[x].parents) \ R : mod[p].error # None)
  <2>1. State.mods = mod /\ State.ok = asserts BY DEF State
  <2> DEFINE s == State
             N(M, S) == [x \in Modules |->
                          IF x \in S
                          THEN [M[x] EXCEPT !.error = m, !.status = "evaluated", !.async = FALSE,
                                            !.promise = Settled(@, "rejected")]
                          ELSE M[x]]
             Ok(M, S, old) == old /\ \A x \in S :
                     /\ M[x].status = "evaluating_async" /\ M[x].error = None /\ M[x].async
                     /\ M[x].promise # "none" => M[x].root = x
                     /\ \A p \in ToSet(M[x].parents) \ S : M[p].error # None
  <2> HIDE DEF s
  <2>2. s.mods = mod /\ s.ok = asserts BY <2>1 DEF s
  <2>3. s.mods[m].status # "evaluated" BY <1>4, <2>2
  <2>4. Rejected(s, m, m) = [mods |-> N(s.mods, Told(s.mods, m)),
                             ok |-> Ok(s.mods, Told(s.mods, m), s.ok)]
    BY <2>3 DEF Rejected
  <2>5. mod' = Rejected(s, m, m).mods /\ asserts' = Rejected(s, m, m).ok BY DEF Commit, s
  <2> HIDE DEF N, Ok
  <2>6. mod' = N(mod, R) /\ asserts' = Ok(mod, R, asserts) BY <1>3, <2>2, <2>4, <2>5
  <2> QED BY <2>6 DEF RejectedTo, N, Ok
<1>6. /\ mod' \in ModuleTables
      /\ \A x \in R : /\ mod'[x].status = "evaluated" /\ ~mod'[x].async /\ mod'[x].error = m
                      /\ mod'[x].promise = Settled(mod[x].promise, "rejected")
      /\ \A x \in Modules : x \notin R => mod'[x] = mod[x]
      /\ \A x \in Modules :
           /\ mod'[x].dfs = mod[x].dfs /\ mod'[x].root = mod[x].root /\ mod'[x].pending = mod[x].pending
           /\ mod'[x].stamp = mod[x].stamp /\ mod'[x].parents = mod[x].parents
  <2>1. mod \in ModuleTables /\ R \in SUBSET Modules /\ m \in Modules /\ RejectedTo(mod, R, m, mod')
    BY <1>1, <1>3, <1>5
  <2>2. /\ mod' \in ModuleTables
        /\ \A x \in R : /\ mod'[x].status = "evaluated" /\ ~mod'[x].async /\ mod'[x].error = m
                        /\ mod'[x].promise = Settled(mod[x].promise, "rejected")
        /\ SameOutside(mod, R, mod')
        /\ \A x \in Modules :
             /\ mod'[x].dfs = mod[x].dfs /\ mod'[x].root = mod[x].root /\ mod'[x].pending = mod[x].pending
             /\ mod'[x].stamp = mod[x].stamp /\ mod'[x].parents = mod[x].parents
    BY <2>1, RejectedFields
  <2> QED BY <2>2 DEF SameOutside
<1>7. \A x \in Modules : \A p \in ToSet(mod[x].parents) : p \in Modules
  <2>1. \A x \in Modules : mod[x].parents \in Seq(Modules) BY <1>1, ModTypes
  <2> QED BY <2>1 DEF ToSet
<1>8. asserts'
  <2>1. \A x \in R : \A p \in ToSet(mod[x].parents) \ R : mod[p].error # None
    BY <1>4, <1>7 DEF Waits
  <2> QED BY <1>1, <1>4, <1>5, <2>1
<1>9. m # None BY NoneAssumption
<1>10. \A x \in Modules : mod[x].error # None => mod'[x].error # None BY <1>4, <1>6
<1>11. ASSUME NEW x \in R PROVE Fails(x)
  <2>1. mod'[mod[x].root].error # None BY <1>4, <1>6, <1>9, <1>10
  <2>2. \A p \in Modules : Waits(p, x) => mod'[p].error # None BY <1>4, <1>6, <1>9, <1>10
  <2> QED BY <1>4, <1>6, <1>9, <2>1, <2>2 DEF Fails
<1>12. ASSUME NEW x \in Modules, mod[x].status = "evaluating_async", x \notin R PROVE Stays(x)
  BY <1>2, <1>6, <1>12 DEF Stays, EndedBodies
<1>13. \A x \in Modules : mod[x].status # "evaluating_async" => x \notin R BY <1>4
<1>14. \A x \in Modules :
       /\ mod[x].status # "evaluating_async" =>
            /\ mod'[x].status = mod[x].status /\ mod'[x].async = mod[x].async
            /\ mod'[x].error = mod[x].error /\ mod'[x].pending = mod[x].pending
            /\ mod'[x].promise = mod[x].promise
       /\ mod[x].status = "evaluating_async" => Stays(x) \/ Succeeds(x) \/ Fails(x)
  BY <1>6, <1>11, <1>12, <1>13
<1>15. \A x \in Modules :
       /\ mod[x].status \notin Ended => body'[x] = body[x]
       /\ body[x] \in Outcomes => body'[x] = body[x]
       /\ body[x] = "unrun" /\ body'[x] # "unrun" => Starts(x)
       /\ body'[x] = "running" => body[x] \in {"unrun", "running"}
  <2> TAKE x \in Modules
  <2>1. CASE x = m BY <2>1 DEF Ended, Outcomes
  <2>2. CASE x # m BY <2>2
  <2> QED BY <2>1, <2>2
<1>16. IdleEff BY <1>6, <1>14, <1>15 DEF IdleEff
<1>17. \A x \in Modules : mod[x].status = "evaluating_async" =>
              mod'[x].pending = mod[x].pending /\ (mod'[x].status = "evaluated" => mod'[x].error # None)
  BY <1>6, <1>9
<1> QED BY <1>4, <1>6, <1>8, <1>16, <1>17

\* ExecBodyStops is quiet.
LEMMA ExecBodyStopsStep ==
  ASSUME IInv, NEW how \in Outcomes \cup {"suspended"}, ExecBodyStops(how)
  PROVE  Quiet
<1>1. /\ InCall("exec") /\ Running /\ Kept /\ clock' = clock /\ body' = [body EXCEPT ![Current] = how]
      /\ Replace([top EXCEPT !.todo = Tail(@)])
      /\ IF Current \in has_tla
         THEN /\ jobs' = IF how = "suspended" THEN jobs ELSE Report(Current, how)
              /\ mod' = mod /\ asserts' = asserts
         ELSE /\ how # "suspended"
              /\ Commit(IF how = "done" THEN SetEvaluated(State, Current) ELSE Rejected(State, Current, Current))
              /\ jobs' = jobs
  BY DEF ExecBodyStops, Kept, code
<1>2. /\ calls # <<>> /\ top = C1 /\ C1 \in Calls /\ C1.op = "exec" /\ Doing("exec") /\ ~Doing("link") /\ ~Doing("eval")
      /\ C1.frames = <<>> /\ C1.stack = <<>> /\ C1.todo \in Seq(Modules) /\ C1.root \in Modules
      /\ Todo = ToSet(C1.todo)
      /\ C1.todo # <<>> => /\ Head(C1.todo) \in Modules /\ Head(C1.todo) \in Todo /\ Current = Head(C1.todo)
                           /\ Ready(1) /\ Head(C1.todo) = C1.todo[1]
  BY <1>1, ExecState
<1>3. /\ Shaped /\ WalkInv /\ LateInv /\ asserts
      /\ mod \in ModuleTables /\ body \in [Modules -> Bodies] /\ jobs \in Seq(Reports) /\ clock \in Nat
  BY <1>2, IdleState
<1>4. C1.todo # <<>> /\ body[Current] = "running" BY <1>1, <1>2 DEF Running
<1>5. PICK m \in Modules : Head(C1.todo) = m BY <1>2, <1>4
<1>6. m \in Todo /\ Current = m /\ body[m] = "running" /\ mod[m].status = "evaluating_async" /\ mod[m].pending = 0
  BY <1>2, <1>4, <1>5 DEF Ready
<1>7. /\ how \in Bodies /\ how \in Stops /\ how # "running" /\ how # "unrun"
  BY DEF Outcomes, Bodies, Stops
<1>8. body' \in [Modules -> Bodies] /\ body'[m] = how /\ \A x \in Modules : x # m => body'[x] = body[x]
  BY <1>1, <1>3, <1>6, <1>7
<1>9. body[m] \notin Outcomes /\ body[m] # "unrun" BY <1>6 DEF Outcomes
<1>10. /\ calls' # <<>> /\ Len(calls') <= 1 /\ calls' \in Seq(Calls)
       /\ C1'.op = "exec" /\ C1'.frames = <<>> /\ C1'.stack = <<>> /\ C1'.todo = Tail(C1.todo)
       /\ Doing("exec")' /\ ~Doing("link")' /\ ~Doing("eval")'
  BY <1>1, <1>4, TailCall
<1>11. \A op \in {"link", "eval"} : ~Doing(op) /\ ~Doing(op)' BY <1>2, <1>10
<1>12. CASE m \in has_tla
  <2>1. jobs' = (IF how = "suspended" THEN jobs ELSE Report(m, how)) /\ mod' = mod /\ asserts' = asserts
    BY <1>1, <1>6, <1>12
  <2>2. IdleEff BY <1>1, <1>3, <1>6, <1>7, <1>8, <1>9, <1>11, <2>1, IdleSame DEF Ended
  <2>3. jobs' \in Seq(Reports) /\ ReportEff(m)
    <3>1. CASE how = "suspended" BY <1>3, <1>8, <1>9, <2>1, <3>1 DEF ReportEff, Outcomes
    <3>2. CASE how # "suspended"
      <4>1. how \in Outcomes BY <3>2
      <4>2. jobs' \in Seq(Reports) /\ jobs' = Append(jobs, [m |-> m, how |-> how])
        BY <1>3, <2>1, <3>2, <4>1, Reported
      <4>3. jobs' = Append(jobs, [m |-> m, how |-> body'[m]]) /\ body'[m] \in Outcomes
        BY <1>8, <4>1, <4>2
      <4> QED BY <1>9, <1>12, <4>2, <4>3 DEF ReportEff
    <3> QED BY <3>1, <3>2
  <2>4. ListEff(m) BY <1>2, <1>4, <1>5, <1>7, <1>8, <1>10, <1>12 DEF ListEff
  <2>5. QuietEff(m) BY <1>6, <1>8, <1>12, <2>1, <2>2, <2>3, <2>4, QuietSame
  <2>6. Shaped' BY <1>1, <1>3, <1>8, <1>10, <2>1, <2>3, ShapedList
  <2>7. WalkInv' BY <1>3, <2>2, IdleWalk
  <2> QED BY <1>3, <2>1, <2>5, <2>6, <2>7 DEF Quiet
<1>13. CASE m \notin has_tla
  <2>1. how \in Outcomes /\ jobs' = jobs
        /\ Commit(IF how = "done" THEN SetEvaluated(State, m) ELSE Rejected(State, m, m))
    BY <1>1, <1>6, <1>13
  <2>2. ReportEff(m) BY <1>9, <1>13, <2>1 DEF ReportEff
  <2>3. body'[m] # "suspended" BY <1>8, <2>1 DEF Outcomes
  <2>4. CASE how = "done"
    <3>1. EvaluatedTo(mod, m, mod') /\ asserts' = (asserts /\ (mod[m].promise # "none" => mod[m].root = m))
      BY <2>1, <2>4 DEF Commit, SetEvaluated, State, EvaluatedTo
    <3>2. /\ mod' \in ModuleTables
          /\ mod'[m].status = "evaluated" /\ ~mod'[m].async /\ mod'[m].promise = Settled(mod[m].promise, "fulfilled")
          /\ \A x \in Modules : x # m => mod'[x] = mod[x]
          /\ \A x \in Modules :
               /\ mod'[x].dfs = mod[x].dfs /\ mod'[x].root = mod[x].root /\ mod'[x].pending = mod[x].pending
               /\ mod'[x].error = mod[x].error /\ mod'[x].stamp = mod[x].stamp /\ mod'[x].parents = mod[x].parents
      BY <1>3, <3>1, EvaluatedFields
    <3>3. EndedBodies /\ PromiseInv BY <1>3, LateParts
    <3>4. asserts' BY <1>2, <1>3, <3>1, <3>3 DEF PromiseInv
    <3>5. Succeeds(m) BY <1>6, <1>8, <2>4, <3>2 DEF Succeeds
    <3>6. \A x \in Modules : mod[x].status = "evaluating_async" => Stays(x) \/ Succeeds(x) \/ Fails(x)
      BY <3>2, <3>3, <3>5 DEF Stays, EndedBodies
    <3>7. IdleEff BY <1>1, <1>6, <1>7, <1>8, <1>9, <1>11, <3>2, <3>6 DEF IdleEff, Ended
    <3>8. ListEff(m) BY <1>2, <1>4, <1>5, <1>10, <3>2 DEF ListEff
    <3>9. \A x \in Modules :
       /\ mod[x].status = "evaluating_async" => mod'[x].pending = mod[x].pending
       /\ x # m => body'[x] = body[x]
       /\ mod[x].status = "evaluating_async" /\ mod'[x].status = "evaluated" /\ mod'[x].error = None =>
            x = m /\ m \in Todo /\ m \notin has_tla
      BY <1>6, <1>8, <1>13, <3>2
    <3>10. QuietEff(m) BY <1>6, <2>2, <2>3, <3>7, <3>8, <3>9 DEF QuietEff
    <3>11. Shaped' BY <1>1, <1>3, <1>8, <1>10, <2>1, <3>2, ShapedList
    <3>12. WalkInv' BY <1>3, <3>7, IdleWalk
    <3> QED BY <3>4, <3>10, <3>11, <3>12 DEF Quiet
  <2>5. CASE how # "done"
    <3>1. body'[m] = "failed" /\ body[m] \in {"running", "failed"} /\ Commit(Rejected(State, m, m))
      BY <1>6, <1>8, <2>1, <2>5 DEF Outcomes
    <3>2. /\ mod' \in ModuleTables /\ asserts' /\ IdleEff
          /\ mod'[m].status = "evaluated"
          /\ \A x \in Modules : mod[x].status = "evaluating_async" =>
               mod'[x].pending = mod[x].pending /\ (mod'[x].status = "evaluated" => mod'[x].error # None)
      BY <1>1, <1>6, <1>8, <1>11, <3>1, RejectedStep
    <3>3. ListEff(m) BY <1>2, <1>4, <1>5, <1>10, <3>2 DEF ListEff
    <3>4. QuietEff(m) BY <1>6, <1>8, <2>2, <2>3, <3>2, <3>3 DEF QuietEff
    <3>5. Shaped' BY <1>1, <1>3, <1>8, <1>10, <2>1, <3>2, ShapedList
    <3>6. WalkInv' BY <1>3, <3>2, IdleWalk
    <3> QED BY <3>2, <3>4, <3>5, <3>6 DEF Quiet
  <2> QED BY <2>4, <2>5
<1> QED BY <1>12, <1>13

\* The report at the head of the queue.
LEMMA HeadReport ==
  ASSUME IInv, calls = <<>>, jobs # <<>>
  PROVE  /\ Head(jobs).m \in Modules /\ Head(jobs).m \in has_tla /\ body[Head(jobs).m] = Head(jobs).how
         /\ Tail(jobs) \in Seq(Reports) /\ Head(jobs).how \in Outcomes
         /\ \/ mod[Head(jobs).m].status = "evaluating_async" /\ mod[Head(jobs).m].error = None /\ mod[Head(jobs).m].async
            \/ mod[Head(jobs).m].status = "evaluated" /\ mod[Head(jobs).m].error # None
<1>1. /\ Shaped /\ LateInv /\ jobs \in Seq(Reports) /\ \A x \in Modules : mod[x].status # "evaluating"
  BY NoCall, IdleState
<1>2. JobsInv /\ EndedBodies /\ ErrorInv BY <1>1, LateParts
<1>3. 1 \in 1..Len(jobs) /\ Head(jobs) = jobs[1] /\ Tail(jobs) \in Seq(Reports) BY <1>1, TailFacts
<1>4. jobs[1].m \in Modules /\ jobs[1].how \in Outcomes BY <1>1, <1>3, JobTypes
<1>5. /\ jobs[1].m \in has_tla /\ body[jobs[1].m] = jobs[1].how
      /\ \/ mod[jobs[1].m].status \in {"evaluating", "evaluating_async"}
         \/ mod[jobs[1].m].status = "evaluated" /\ mod[jobs[1].m].error # None
  BY <1>2, <1>3 DEF JobsInv
<1>6. mod[jobs[1].m].status = "evaluating_async" => mod[jobs[1].m].error = None /\ mod[jobs[1].m].async
  BY <1>2, <1>4 DEF EndedBodies, ErrorInv
<1>7. /\ jobs[1].m \in Modules /\ jobs[1].m \in has_tla /\ body[jobs[1].m] = jobs[1].how /\ jobs[1].how \in Outcomes
      /\ \/ mod[jobs[1].m].status = "evaluating_async" /\ mod[jobs[1].m].error = None /\ mod[jobs[1].m].async
         \/ mod[jobs[1].m].status = "evaluated" /\ mod[jobs[1].m].error # None
  BY <1>1, <1>4, <1>5, <1>6
<1> QED BY <1>3, <1>7

\* A report about a module that failed meanwhile changes nothing.
LEMMA StaleReport ==
  ASSUME IInv, calls = <<>>, jobs # <<>>, NEW m \in Modules, Head(jobs).m = m, mod[m].status = "evaluated",
         Kept, clock' = clock, mod' = mod, body' = body, calls' = calls, jobs' = Tail(jobs), asserts'
  PROVE  Quiet
<1>1. /\ \A op : ~Doing(op) /\ ~Doing(op)'
      /\ Todo = {}
  BY NoCall DEF Doing
<1>2. /\ Shaped /\ WalkInv /\ LateInv /\ asserts
      /\ mod \in ModuleTables /\ body \in [Modules -> Bodies] /\ jobs \in Seq(Reports) /\ clock \in Nat
  BY <1>1, IdleState
<1>3. Tail(jobs) \in Seq(Reports) BY HeadReport
<1>4. Shaped' BY <1>2, <1>3, ShapedNext
<1>5. IdleEff BY <1>1, <1>2, IdleSame
<1>6. ListEff(m) /\ ReportEff(m) BY <1>1 DEF ListEff, ReportEff
<1>7. body'[m] = "suspended" => m \in has_tla BY <1>2, LateParts DEF JobsInv
<1>8. QuietEff(m) BY <1>5, <1>6, <1>7, QuietSame
<1>9. WalkInv' BY <1>2, <1>5, IdleWalk
<1> QED BY <1>4, <1>8, <1>9 DEF Quiet

\* RunRejected is quiet.
LEMMA RunRejectedStep ==
  ASSUME IInv, RunRejected
  PROVE  Quiet
<1>1. /\ calls = <<>> /\ jobs # <<>> /\ Head(jobs).how = "failed" /\ jobs' = Tail(jobs)
      /\ Commit(Rejected(State, Head(jobs).m, Head(jobs).m))
      /\ Kept /\ body' = body /\ calls' = calls /\ clock' = clock
  BY DEF RunRejected, Kept, code
<1>2. /\ Head(jobs).m \in Modules /\ Head(jobs).m \in has_tla /\ body[Head(jobs).m] = Head(jobs).how
      /\ Tail(jobs) \in Seq(Reports)
      /\ \/ mod[Head(jobs).m].status = "evaluating_async"
         \/ mod[Head(jobs).m].status = "evaluated" /\ mod[Head(jobs).m].error # None
  BY <1>1, HeadReport
<1>3. PICK m \in Modules : Head(jobs).m = m BY <1>2
<1>4. /\ \A op : ~Doing(op) /\ ~Doing(op)'
      /\ Todo = {}
  BY <1>1, NoCall DEF Doing
<1>5. /\ Shaped /\ WalkInv /\ LateInv /\ asserts
      /\ mod \in ModuleTables /\ body \in [Modules -> Bodies] /\ jobs \in Seq(Reports) /\ clock \in Nat
  BY <1>4, IdleState
<1>6. CASE mod[m].status = "evaluated"
  <2>1. Commit([State EXCEPT !.ok = @ /\ mod[m].error # None])
    BY <1>1, <1>3, <1>6 DEF Rejected, State
  <2>2. mod' = mod /\ asserts' BY <1>2, <1>3, <1>5, <1>6, <2>1 DEF Commit, State
  <2> QED BY <1>1, <1>3, <1>6, <2>2, StaleReport
<1>7. CASE mod[m].status # "evaluated"
  <2>1. mod[m].status = "evaluating_async" /\ body[m] = "failed" /\ body' = body /\ Commit(Rejected(State, m, m))
    BY <1>1, <1>2, <1>3, <1>7
  <2>2. /\ mod' \in ModuleTables /\ asserts' /\ IdleEff
        /\ mod'[m].status = "evaluated"
        /\ \A x \in Modules : mod[x].status = "evaluating_async" =>
             mod'[x].pending = mod[x].pending /\ (mod'[x].status = "evaluated" => mod'[x].error # None)
    BY <1>1, <1>4, <2>1, RejectedStep
  <2>3. ListEff(m) /\ ReportEff(m) BY <1>1, <1>3, <1>4, <2>2 DEF ListEff, ReportEff
  <2>4. QuietEff(m) BY <2>1, <2>2, <2>3 DEF QuietEff
  <2>5. Shaped' BY <1>1, <1>2, <1>5, <2>2, ShapedNext
  <2>6. WalkInv' BY <1>5, <2>2, IdleWalk
  <2> QED BY <2>2, <2>4, <2>5, <2>6 DEF Quiet
<1> QED BY <1>6, <1>7

-----------------------------------------------------------------------------
(* The list of modules to execute *)

\* Counting entries: in a subset, and in a difference.
LEMMA CountMonotone ==
  ASSUME NEW M \in ModuleTables, NEW S \in SUBSET Modules, NEW T \in SUBSET S, NEW p
  PROVE  /\ Count(M, T, p) \in Nat /\ Count(M, S, p) \in Nat /\ Count(M, T, p) <= Count(M, S, p)
         /\ Count(M, S, p) <= Count(M, T, p) => Entries(M, S, p) = Entries(M, T, p)
         /\ Count(M, S \ T, p) = Count(M, S, p) - Count(M, T, p)
<1>1. T \in SUBSET Modules /\ S \ T \in SUBSET Modules OBVIOUS
<1>2. /\ IsFiniteSet(Entries(M, S, p)) /\ Cardinality(Entries(M, S, p)) \in Nat
      /\ IsFiniteSet(Entries(M, T, p)) /\ Cardinality(Entries(M, T, p)) \in Nat
  BY <1>1, EntriesFinite
<1>3. \A R : \A e : e \in Entries(M, R, p) <=>
            \E x \in R : \E i \in DOMAIN M[x].parents : e = <<x, i>> /\ M[x].parents[i] = p
  BY DEF Entries
<1>4. Entries(M, T, p) \in SUBSET Entries(M, S, p) BY <1>3
<1>5. Cardinality(Entries(M, T, p)) <= Cardinality(Entries(M, S, p)) BY <1>2, <1>4, FS_Subset
<1>6. Cardinality(Entries(M, S, p)) = Cardinality(Entries(M, T, p)) => Entries(M, S, p) = Entries(M, T, p)
  BY <1>2, <1>4, FS_Subset
<1>7. Entries(M, S \ T, p) = Entries(M, S, p) \ Entries(M, T, p) BY <1>3
<1>8. Entries(M, S, p) \cap Entries(M, T, p) = Entries(M, T, p) BY <1>4
<1>9. Cardinality(Entries(M, S \ T, p)) = Cardinality(Entries(M, S, p)) - Cardinality(Entries(M, T, p))
  <2>1. \A E, F : IsFiniteSet(E) => Cardinality(E \ F) = Cardinality(E) - Cardinality(E \cap F)
    BY FS_Difference
  <2>2. Cardinality(Entries(M, S, p) \ Entries(M, T, p))
          = Cardinality(Entries(M, S, p)) - Cardinality(Entries(M, S, p) \cap Entries(M, T, p))
    BY <1>2, <2>1
  <2> QED BY <1>7, <1>8, <2>2
<1> QED BY <1>2, <1>5, <1>6, <1>9 DEF Count

\* There are no entries exactly when their number is 0.
LEMMA CountZero ==
  ASSUME NEW M \in ModuleTables, NEW S \in SUBSET Modules, NEW p
  PROVE  Count(M, S, p) \in Nat /\ (Count(M, S, p) = 0 <=> Entries(M, S, p) = {})
<1>1. IsFiniteSet(Entries(M, S, p)) /\ Cardinality(Entries(M, S, p)) \in Nat BY EntriesFinite
<1>2. Cardinality(Entries(M, S, p)) = 0 <=> Entries(M, S, p) = {} BY <1>1, FS_EmptySet
<1> QED BY <1>1, <1>2 DEF Count

\* A longer list makes no module less available.
LEMMA AvailableMonotone ==
  ASSUME NEW M \in ModuleTables, NEW m \in Modules, NEW B \in SUBSET Modules, NEW A \in SUBSET B,
         NEW p \in Modules, Available(M, m, A, p)
  PROVE  Available(M, m, B, p)
<1>1. Sources(m, B) \in SUBSET Modules /\ Sources(m, A) \in SUBSET Sources(m, B) BY DEF Sources
<1>2. PICK S \in SUBSET Modules : S = Sources(m, B) BY <1>1
<1>3. PICK T \in SUBSET S : T = Sources(m, A) BY <1>1, <1>2
<1>4. /\ Count(M, T, p) \in Nat /\ Count(M, S, p) \in Nat /\ Count(M, T, p) <= Count(M, S, p)
  BY CountMonotone
<1>5. M[p].pending \in Nat BY FieldTypes
<1>6. Count(M, T, p) > 0 /\ M[M[p].root].error = None /\ Count(M, T, p) >= M[p].pending
  BY <1>3 DEF Available, Count
<1>7. Count(M, S, p) > 0 /\ Count(M, S, p) >= M[p].pending BY <1>4, <1>5, <1>6
<1> QED BY <1>2, <1>6, <1>7 DEF Available, Count

\* The list is the least one that holds what it makes available, and holds no more.
LEMMA ListLeast ==
  ASSUME NEW M, NEW m, NEW Q \in SUBSET Modules, \A q \in Modules : Available(M, m, Q, q) => q \in Q
  PROVE  List(M, m) \subseteq Q
BY DEF List

\* The list is a fixed point: it has what it makes available, and nothing else.
LEMMA ListFixed ==
  ASSUME NEW M \in ModuleTables, NEW m \in Modules
  PROVE  \A q \in Modules : q \in List(M, m) <=> Available(M, m, List(M, m), q)
<1>1. List(M, m) \in SUBSET Modules BY DEF List
<1>2. PICK A \in SUBSET Modules : A = List(M, m) BY <1>1
<1>3. ASSUME NEW q \in Modules, Available(M, m, A, q) PROVE q \in A
  <2>1. ASSUME NEW B \in SUBSET Modules, \A r \in Modules : Available(M, m, B, r) => r \in B
        PROVE  q \in B
    <3>1. A \in SUBSET B BY <1>2, <2>1, ListLeast
    <3>2. Available(M, m, B, q) BY <1>3, <3>1, AvailableMonotone
    <3> QED BY <2>1, <3>2
  <2>2. q \in List(M, m) BY <2>1 DEF List
  <2> QED BY <1>2, <2>2
<1>4. PICK F \in SUBSET Modules : F = {q \in Modules : Available(M, m, A, q)} OBVIOUS
<1>5. F \in SUBSET A BY <1>3, <1>4
<1>6. ASSUME NEW q \in Modules, Available(M, m, F, q) PROVE q \in F
  BY <1>4, <1>5, <1>6, AvailableMonotone
<1>7. A \subseteq F BY <1>2, <1>6, ListLeast
<1>8. \A q \in Modules : q \in A <=> Available(M, m, A, q) BY <1>3, <1>4, <1>7
<1> QED BY <1>2, <1>8

\* Gathered changes the counters of the modules that are met, and nothing else.
LEMMA GatheredFields ==
  ASSUME NEW M \in ModuleTables, NEW S \in SUBSET Modules, NEW Z, GathersTo(M, S, Z)
  PROVE  /\ Z \in ModuleTables
         /\ GatheredFrom(M, S, Z)
<1> DEFINE v(x) == IF M[x].pending > Count(M, S, x) THEN M[x].pending - Count(M, S, x) ELSE 0
           r(x) == [M[x] EXCEPT !.pending = v(x)]
           N == [x \in Modules |-> IF Met(M, S, x) THEN r(x) ELSE M[x]]
<1>1. Z = N BY DEF GathersTo, Met, Count
<1>2. \A x \in Modules : Count(M, S, x) \in Nat /\ M[x].pending \in Nat BY CountZero, FieldTypes
<1>3. ASSUME NEW x \in Modules
      PROVE  v(x) \in Nat /\ (Count(M, S, x) <= M[x].pending => v(x) = M[x].pending - Count(M, S, x))
  BY <1>2
<1> HIDE DEF v
<1>4. ASSUME NEW x \in Modules
      PROVE  /\ r(x) \in ModuleFields /\ r(x).pending = v(x)
             /\ r(x).dfs = M[x].dfs /\ r(x).root = M[x].root /\ r(x).status = M[x].status /\ r(x).async = M[x].async
             /\ r(x).error = M[x].error /\ r(x).stamp = M[x].stamp /\ r(x).parents = M[x].parents
             /\ r(x).promise = M[x].promise
  <2>1. M[x] \in ModuleFields /\ v(x) \in Nat BY <1>3, FieldTypes
  <2> QED BY <2>1 DEF ModuleFields
<1> HIDE DEF r
<1>5. \A x \in Modules : M[x] \in ModuleFields BY FieldTypes
<1>6. N \in ModuleTables /\ (\A x \in Modules : Met(M, S, x) => N[x] = r(x)) /\ (\A x \in Modules : ~Met(M, S, x) => N[x] = M[x])
  BY <1>4, <1>5 DEF ModuleTables
<1> HIDE DEF N
<1>7. \A x \in Modules :
              /\ N[x].dfs = M[x].dfs /\ N[x].root = M[x].root /\ N[x].status = M[x].status /\ N[x].async = M[x].async
              /\ N[x].error = M[x].error /\ N[x].stamp = M[x].stamp /\ N[x].parents = M[x].parents
              /\ N[x].promise = M[x].promise
              /\ ~Met(M, S, x) => N[x].pending = M[x].pending
              /\ Met(M, S, x) /\ Count(M, S, x) <= M[x].pending => N[x].pending = M[x].pending - Count(M, S, x)
  <2> TAKE x \in Modules
  <2>1. CASE Met(M, S, x) BY <2>1, <1>3, <1>4, <1>6
  <2>2. CASE ~Met(M, S, x) BY <2>2, <1>6
  <2> QED BY <2>1, <2>2
<1>8. GatheredFrom(M, S, N) BY <1>7 DEF GatheredFrom
<1> QED BY <1>1, <1>6, <1>8

\* The list is in the order of the stamps, without repetition.
LEMMA SortedFacts ==
  ASSUME NEW M, NEW A \in SUBSET Modules, NEW q \in Sorted(A, M)
  PROVE  /\ q \in Seq(Modules) /\ ToSet(q) = A
         /\ \A i \in 1..Len(q) : q[i] \in A
         /\ \A i, j \in 1..Len(q) : i < j => q[i] # q[j] /\ M[q[i]].stamp <= M[q[j]].stamp
<1>1. IsFiniteSet(A) BY ModulesAssumption, FS_Subset
<1>2. PICK n \in Nat : n = Cardinality(A) BY <1>1, FS_CardinalityType
<1>3. /\ q \in [1..n -> A] /\ ToSet(q) = A
      /\ \A i, j \in DOMAIN q : i < j => q[i] # q[j] /\ M[q[i]].stamp <= M[q[j]].stamp
  BY <1>2 DEF Sorted
<1>4. \A f \in [1..n -> Modules] : f \in Seq(Modules) /\ Len(f) = n /\ DOMAIN f = 1..n OBVIOUS
<1>5. q \in Seq(Modules) /\ Len(q) = n /\ DOMAIN q = 1..n BY <1>3, <1>4
<1> QED BY <1>3, <1>5

\* A module met waits for a dependency that is not through: it has not run.
LEMMA MetFacts ==
  ASSUME IInv, calls = <<>>, NEW S \in SUBSET Modules, \A x \in S : mod[x].status # "evaluated",
         NEW p \in Modules, Met(mod, S, p)
  PROVE  /\ mod[p].status = "evaluating_async" /\ mod[p].error = None /\ mod[p].async /\ body[p] = "unrun"
         /\ mod[p].pending > 0 /\ mod[p].pending = Count(mod, Open, p) /\ Count(mod, S, p) <= mod[p].pending
         /\ mod[p].root \in Modules /\ S \subseteq Open
<1>1. /\ Todo = {} /\ Shaped /\ LateInv /\ mod \in ModuleTables
      /\ \A x \in Modules : mod[x].status # "evaluating" /\ mod[x].status \in Statuses
  BY NoCall, IdleState
<1>2. RootInv /\ EndedBodies /\ WaitInv /\ CountInv BY <1>1, LateParts
<1>3. Open = {x \in Modules : mod[x].status # "evaluated"} BY <1>1 DEF Open
<1>4. PICK O \in SUBSET Modules : O = Open BY <1>3
<1>5. S \in SUBSET O BY <1>3, <1>4
<1>6. Count(mod, S, p) \in Nat /\ Count(mod, S, p) > 0 /\ Count(mod, O, p) \in Nat /\ Count(mod, S, p) <= Count(mod, O, p)
      /\ mod[mod[p].root].error = None
  BY <1>1, <1>5, CountMonotone DEF Met
<1>7. PICK x \in S : Waits(p, x)
  <2>1. Count(mod, S, p) # 0 BY <1>6
  <2>2. Entries(mod, S, p) # {} BY <1>1, <1>5, <2>1, CountZero
  <2> QED BY <2>2, EntriesWaits DEF Waits
<1>8. mod[p].status \in Ended BY <1>1, <1>2, <1>7 DEF WaitInv
<1>9. mod[p].root \in Modules /\ mod[p].error = None BY <1>2, <1>6, <1>8 DEF RootInv
<1>10. mod[p].status = "evaluating_async" /\ body[p] = "unrun"
  BY <1>2, <1>7, <1>8, <1>9 DEF WaitInv, Ended
<1>11. mod[p].async BY <1>2, <1>10 DEF EndedBodies
<1>12. mod[p].pending = Count(mod, O, p) BY <1>2, <1>4, <1>6, <1>9 DEF CountInv, Count
<1>13. mod[p].pending > 0 /\ Count(mod, S, p) <= mod[p].pending BY <1>6, <1>12
<1> QED BY <1>4, <1>5, <1>9, <1>10, <1>11, <1>12, <1>13

\* The list that m makes available.
LEMMA GatherList ==
  ASSUME IInv, calls = <<>>, NEW m \in Modules, mod[m].status = "evaluating_async", body[m] = "done",
         NEW Z, EvaluatedTo(mod, m, Z),
         NEW A \in SUBSET Modules, A = List(Z, m), NEW S \in SUBSET Modules, S = Sources(m, A)
  PROVE  /\ Z \in ModuleTables
         /\ \A p \in Modules : p \in A <=> Met(mod, S, p) /\ Count(mod, S, p) >= mod[p].pending
         /\ \A p \in Modules : Met(Z, S, p) <=> Met(mod, S, p)
         /\ \A p \in Modules : Count(Z, S, p) = Count(mod, S, p)
         /\ \A x \in S : mod[x].status # "evaluated"
         /\ \A p \in A : mod[p].status = "evaluating_async" /\ body[p] = "unrun"
         /\ m \in S
<1>1. mod \in ModuleTables /\ Shaped /\ LateInv BY NoCall, IdleState
<1>2. /\ Z \in ModuleTables
      /\ \A x \in Modules :
              /\ Z[x].dfs = mod[x].dfs /\ Z[x].root = mod[x].root /\ Z[x].pending = mod[x].pending
              /\ Z[x].error = mod[x].error /\ Z[x].stamp = mod[x].stamp /\ Z[x].parents = mod[x].parents
  BY <1>1, EvaluatedFields
<1>3. \A p : \A T \in SUBSET Modules : Count(Z, T, p) = Count(mod, T, p)
  <2> TAKE p
  <2> TAKE T \in SUBSET Modules
  <2>1. Entries(Z, T, p) = Entries(mod, T, p) BY <1>2, EntriesSame
  <2> QED BY <2>1 DEF Count
<1>4. \A p \in Modules : \A T \in SUBSET Modules : Met(mod, T, p) /\ mod[p].status = "evaluating_async" =>
        mod[p].root \in Modules
  <2>1. RootInv BY <1>1, LateParts
  <2> QED BY <2>1 DEF RootInv, Ended
<1>5. ASSUME NEW T \in SUBSET Modules, \A x \in T : mod[x].status # "evaluated", NEW p \in Modules
      PROVE  Met(Z, T, p) <=> Met(mod, T, p)
  <2>1. Count(Z, T, p) = Count(mod, T, p) BY <1>3
  <2>2. CASE mod[p].root \in Modules BY <1>2, <2>1, <2>2 DEF Met
  <2>3. CASE mod[p].root \notin Modules
    <3>1. ~(Count(mod, T, p) > 0)
      <4> SUFFICES ASSUME Count(mod, T, p) > 0 PROVE FALSE OBVIOUS
      <4>1. Count(mod, T, p) \in Nat /\ Count(mod, T, p) # 0
        <5>1. Count(mod, T, p) \in Nat BY <1>1, CountZero
        <5> QED BY <5>1
      <4>2. Entries(mod, T, p) # {} BY <1>1, <4>1, CountZero
      <4>3. PICK x \in T : Waits(p, x) BY <4>2, EntriesWaits DEF Waits
      <4>4. WaitInv /\ RootInv /\ mod[p].status # "evaluating"
        BY <1>1, LateParts, NoCall, IdleState
      <4>5. mod[p].status \in Ended BY <4>3, <4>4 DEF WaitInv
      <4> QED BY <2>3, <4>4, <4>5 DEF RootInv
    <3> QED BY <2>1, <3>1 DEF Met
  <2> QED BY <2>2, <2>3
<1> DEFINE Q == {q \in Modules : mod[q].status = "evaluating_async" /\ body[q] = "unrun"}
<1>6. A \subseteq Q
  <2>1. ASSUME NEW q \in Modules, Available(Z, m, Q, q) PROVE q \in Q
    <3>1. PICK T \in SUBSET Modules : T = Sources(m, Q) BY DEF Sources
    <3>2. \A x \in T : mod[x].status # "evaluated" BY <3>1 DEF Sources
    <3>3. Met(Z, T, q) BY <2>1, <3>1 DEF Available, Met, Count
    <3>4. Met(mod, T, q) BY <1>5, <3>2, <3>3
    <3> QED BY <3>2, <3>4, MetFacts
  <2>2. Q \in SUBSET Modules OBVIOUS
  <2> HIDE DEF Q
  <2> QED BY <2>1, <2>2, ListLeast
<1>7. \A x \in S : mod[x].status # "evaluated" BY <1>6 DEF Sources
<1>8. \A p \in Modules : p \in A <=> Available(Z, m, A, p) BY <1>2, ListFixed
<1>9. \A p \in Modules : p \in A <=> Met(Z, S, p) /\ Count(Z, S, p) >= Z[p].pending
  BY <1>8 DEF Available, Met, Count
<1>10. \A p \in Modules : p \in A <=> Met(mod, S, p) /\ Count(mod, S, p) >= mod[p].pending
  BY <1>2, <1>3, <1>5, <1>7, <1>9
<1>11. m \in S BY DEF Sources
<1> QED BY <1>2, <1>3, <1>5, <1>6, <1>7, <1>10, <1>11

\* A step with the effect GatherEff keeps the parts about evaluation.
LEMMA GatherLate ==
  ASSUME IInv, NEW m \in Modules, NEW A \in SUBSET Modules, NEW S \in SUBSET Modules, GatherEff(m, A, S)
  PROVE  LateInv'
<1>1. /\ IdleEff /\ calls = <<>> /\ body' = body /\ m \in has_tla /\ m \in S /\ S = {m} \cup (A \ has_tla)
      /\ mod[m].status = "evaluating_async" /\ body[m] = "done" /\ mod'[m].status = "evaluated"
      /\ \A x \in S : mod[x].status # "evaluated"
  BY DEF GatherEff
<1>2. \A x \in Modules :
       /\ x # m => mod'[x].status = mod[x].status
       /\ mod'[x].error = mod[x].error
       /\ x \in A <=> Met(mod, S, x) /\ Count(mod, S, x) >= mod[x].pending
       /\ ~Met(mod, S, x) => mod'[x].pending = mod[x].pending
       /\ Met(mod, S, x) => mod'[x].pending = mod[x].pending - Count(mod, S, x)
  BY DEF GatherEff
<1>3. /\ Todo = {} /\ Shaped /\ WalkInv /\ LateInv /\ mod \in ModuleTables /\ jobs \in Seq(Reports)
      /\ \A x \in Modules : mod[x].status # "evaluating" /\ mod[x].status \in Statuses
  BY <1>1, NoCall, IdleState
<1>4. /\ EndedBodies /\ JobsInv /\ CountInv /\ WaitInv /\ RootInv BY <1>3, LateParts
<1>5. /\ FreshInv' /\ RootInv' /\ ErrorInv' /\ StackBodies' /\ PromiseInv' /\ StampInv' /\ TreeInv'
      /\ ImportsInv' /\ JumpInv' /\ DependenciesFirst'
      /\ \A x, p \in Modules : Waits(p, x)' <=> Waits(p, x)
      /\ \A x, p \in Modules : Waits(p, x) => x \in Needs(p)' /\ mod'[p].status \in Ended \cup {"evaluating"}
      /\ \A x \in Modules : mod'[x].status # "evaluating"
      /\ \A x, p \in Modules : Waits(p, x) /\ mod'[x].error # None => mod'[p].error # None
      /\ \A x, p \in Modules : Waits(p, x) /\ mod'[x].status # "evaluated" /\ mod'[p].error = None =>
           mod'[p].status # "evaluated" /\ body'[p] = "unrun"
      /\ \A x \in Modules : mod'[x].status = "evaluated" /\ mod'[x].error = None =>
           body'[x] = "done" /\ ~mod'[x].async /\ mod'[x].pending = 0
      /\ \A x \in Modules : mod'[x].status = "evaluating_async" => mod[x].status = "evaluating_async" /\ mod'[x].async
  BY <1>1, <1>3, IdleKept
<1>6. \A x \in Modules : mod'[x].status = "evaluating_async" => mod[x].status = "evaluating_async" /\ mod'[x].async
  BY <1>5
<1>7. /\ \A x, p \in Modules : Waits(p, x)' <=> Waits(p, x)
      /\ \A x, p \in Modules : Waits(p, x) => x \in Needs(p)' /\ mod'[p].status \in Ended \cup {"evaluating"}
      /\ \A x \in Modules : mod'[x].status # "evaluating"
      /\ \A x, p \in Modules : Waits(p, x) /\ mod'[x].error # None => mod'[p].error # None
      /\ \A x, p \in Modules : Waits(p, x) /\ mod'[x].status # "evaluated" /\ mod'[p].error = None =>
           mod'[p].status # "evaluated" /\ body'[p] = "unrun"
  BY <1>5
<1>8. \A x \in Modules : mod'[x].status = "evaluated" /\ mod'[x].error = None =>
           body'[x] = "done" /\ ~mod'[x].async /\ mod'[x].pending = 0
  BY <1>5
<1>9. /\ Doing("exec")' /\ Todo' = A /\ has_tla' = has_tla /\ has_tla \subseteq Modules
      /\ \A x \in Modules : mod'[x].root = mod[x].root /\ mod'[x].stamp = mod[x].stamp /\ mod'[x].parents = mod[x].parents
  BY <1>1, <1>3 DEF GatherEff, Todo, IdleEff, Kept, Shaped
<1>10. ASSUME NEW p \in Modules, Met(mod, S, p)
       PROVE  /\ mod[p].status = "evaluating_async" /\ mod[p].error = None /\ mod[p].async /\ body[p] = "unrun"
              /\ mod[p].pending > 0 /\ mod[p].pending = Count(mod, Open, p) /\ Count(mod, S, p) <= mod[p].pending
              /\ mod[p].root \in Modules /\ S \subseteq Open
  BY <1>1, <1>10, MetFacts
<1>11. \A p \in Modules : Count(mod, S, p) \in Nat /\ mod[p].pending \in Nat
  BY <1>3, CountZero, ModTypes
<1>12. \A p \in A : p \in Modules /\ mod[p].status = "evaluating_async" /\ body[p] = "unrun" /\ mod'[p].pending = 0
                    /\ Count(mod, S, p) = mod[p].pending /\ mod[p].pending = Count(mod, Open, p)
                    /\ p # m /\ mod'[p].status = "evaluating_async" /\ S \subseteq Open
  <2> TAKE p \in A
  <2>1. p \in Modules /\ Met(mod, S, p) /\ Count(mod, S, p) >= mod[p].pending
        /\ mod'[p].pending = mod[p].pending - Count(mod, S, p)
    BY <1>2
  <2>2. /\ mod[p].status = "evaluating_async" /\ body[p] = "unrun" /\ mod[p].pending = Count(mod, Open, p)
        /\ Count(mod, S, p) <= mod[p].pending /\ S \subseteq Open
    BY <1>10, <2>1
  <2>3. Count(mod, S, p) \in Nat /\ mod[p].pending \in Nat BY <1>11, <2>1
  <2>4. Count(mod, S, p) = mod[p].pending /\ mod'[p].pending = 0 BY <2>1, <2>2, <2>3
  <2>5. p # m BY <1>1, <2>2
  <2>6. mod'[p].status = "evaluating_async" BY <1>2, <2>1, <2>2, <2>5
  <2> QED BY <2>1, <2>2, <2>4, <2>5, <2>6
<1>13. \A p \in Modules : p \notin A /\ Met(mod, S, p) => mod'[p].pending > 0
  BY <1>2, <1>10, <1>11
<1>14. WaitInv'
  <2>1. \A x, p \in Modules : Waits(p, x) /\ mod'[x].status # "evaluated" /\ mod'[p].status # "evaluated" /\ p \in Todo' =>
          x \in Todo' /\ x \notin has_tla
    <3> SUFFICES ASSUME NEW x \in Modules, NEW p \in Modules, Waits(p, x), mod'[x].status # "evaluated",
                        p \in A
                 PROVE  x \in A /\ x \notin has_tla
      BY <1>9
    <3>1. x # m /\ mod[x].status # "evaluated" BY <1>1, <1>2
    <3>2. Open = {y \in Modules : mod[y].status # "evaluated"} BY <1>3 DEF Open
    <3>3. PICK O \in SUBSET Modules : O = Open BY <3>2
    <3>4. S \in SUBSET O /\ Count(mod, O, p) <= Count(mod, S, p) BY <1>11, <1>12, <3>3
    <3>5. Entries(mod, O, p) = Entries(mod, S, p) BY <1>3, <3>4, CountMonotone
    <3>6. PICK i \in DOMAIN mod[x].parents : mod[x].parents[i] = p BY DEF Waits, ToSet
    <3>7. <<x, i>> \in Entries(mod, O, p) BY <3>1, <3>2, <3>3, <3>6 DEF Entries
    <3>8. \A e \in Entries(mod, S, p) : e[1] \in S BY DEF Entries
    <3>9. <<x, i>>[1] \in S BY <3>5, <3>7, <3>8
    <3>10. x \in S BY <3>9
    <3> QED BY <1>1, <3>1, <3>10
  <2> QED BY <1>7, <1>9, <2>1 DEF WaitInv
<1>15. EndedBodies'
  <2> SUFFICES ASSUME NEW x \in Modules, mod'[x].status = "evaluating_async"
               PROVE  /\ mod'[x].async
                      /\ \/ mod'[x].pending > 0 /\ body'[x] = "unrun" /\ x \notin Todo'
                         \/ mod'[x].pending = 0 /\ x \in Todo'
                         \/ mod'[x].pending = 0 /\ x \in has_tla /\ x \notin Todo' /\ body'[x] \in Stops
    BY <1>8, <1>9 DEF EndedBodies
  <2>1. mod[x].status = "evaluating_async" /\ mod'[x].async BY <1>6
  <2>2. \/ mod[x].pending > 0 /\ body[x] = "unrun"
        \/ mod[x].pending = 0 /\ x \in has_tla /\ body[x] \in Stops
    BY <2>1, <1>3, <1>4 DEF EndedBodies
  <2>3. CASE x \in A BY <2>1, <2>3, <1>9, <1>12
  <2>4. CASE x \notin A /\ Met(mod, S, x) BY <2>1, <2>4, <1>1, <1>9, <1>10, <1>13
  <2>5. CASE x \notin A /\ ~Met(mod, S, x) BY <2>1, <2>2, <2>5, <1>1, <1>2, <1>9
  <2> QED BY <2>3, <2>4, <2>5
<1>16. CountInv'
  <2> SUFFICES ASSUME NEW p \in Modules, mod'[p].error = None, mod'[p].root # None => mod'[mod'[p].root].error = None
               PROVE  mod'[p].pending = Cardinality(Entries(mod', Open', p))
    BY DEF CountInv, Entries
  <2>1. mod[p].root # None => mod[p].root \in Modules BY <1>3, ModTypes
  <2>2. mod[p].error = None /\ (mod[p].root # None => mod[mod[p].root].error = None)
    BY <2>1, <1>2, <1>9
  <2>3. mod[p].pending = Cardinality(Entries(mod, Open, p)) BY <2>2, <1>4 DEF CountInv
  <2>4. Open = {y \in Modules : mod[y].status # "evaluated"} BY <1>3 DEF Open
  <2>5. PICK O \in SUBSET Modules : O = Open BY <2>4
  <2>6. S \in SUBSET O BY <1>1, <2>4, <2>5
  <2>7. Open' = O \ S
    <3>1. \A y \in Modules : y \in Open' <=> mod'[y].status # "evaluated" /\ (y \in has_tla \/ y \notin A)
      BY <1>9 DEF Open
    <3>2. \A y \in Modules : y \in Open' <=> y \in O \ S BY <1>1, <1>2, <2>4, <2>5, <3>1
    <3>3. Open' \subseteq Modules BY DEF Open
    <3> QED BY <3>2, <3>3
  <2>8. PICK T \in SUBSET Modules : T = O \ S OBVIOUS
  <2>9. Entries(mod', T, p) = Entries(mod, T, p) BY <1>9, EntriesSame
  <2>10. Cardinality(Entries(mod', Open', p)) = Count(mod, O \ S, p) BY <2>7, <2>8, <2>9 DEF Count
  <2>11. Count(mod, O \ S, p) = Count(mod, O, p) - Count(mod, S, p) /\ Count(mod, O, p) \in Nat
    BY <1>3, <2>6, CountMonotone
  <2>12. mod[p].pending = Count(mod, O, p) BY <2>3, <2>5 DEF Count
  <2>13. CASE Met(mod, S, p) BY <1>2, <2>10, <2>11, <2>12, <2>13
  <2>14. CASE ~Met(mod, S, p)
    <3>1. ~(Count(mod, S, p) > 0)
      <4> SUFFICES ASSUME Count(mod, S, p) > 0 PROVE FALSE OBVIOUS
      <4>1. Count(mod, S, p) # 0 BY <1>11
      <4>2. Entries(mod, S, p) # {} BY <1>3, <4>1, CountZero
      <4>3. PICK x \in S : Waits(p, x) BY <4>2, EntriesWaits DEF Waits
      <4>4. mod[p].status \in Ended BY <1>3, <1>4, <4>3 DEF WaitInv
      <4>5. mod[p].root # None BY <1>4, <4>4, NoneAssumption DEF RootInv
      <4> QED BY <2>2, <2>14, <4>5 DEF Met
    <3>2. Count(mod, S, p) = 0 BY <1>11, <3>1
    <3> QED BY <1>2, <1>11, <2>10, <2>11, <2>12, <2>14, <3>2
  <2> QED BY <2>13, <2>14
<1>17. TodoInv'
  <2>1. /\ \A i \in 1..Len(C1'.todo) : C1'.todo[i] \in A
        /\ \A i, j \in 1..Len(C1'.todo) : i < j =>
             C1'.todo[i] # C1'.todo[j] /\ mod[C1'.todo[i]].stamp <= mod[C1'.todo[j]].stamp
    BY DEF GatherEff
  <2> DEFINE u == C1'.todo
  <2>2. \A i \in 1..Len(u) : u[i] \in A /\ u[i] \in Modules BY <1>12, <2>1
  <2>3. \A i \in 1..Len(u) : mod'[u[i]].status = "evaluating_async" /\ mod'[u[i]].pending = 0 /\ body'[u[i]] = "unrun"
    <3> HIDE DEF u
    <3> QED BY <1>1, <1>12, <2>2
  <2>4. \A i \in 1..Len(u) : Ready(i)' BY <2>3 DEF Ready
  <2>5. \A i, j \in 1..Len(u) : i < j => u[i] # u[j] /\ mod'[u[i]].stamp <= mod'[u[j]].stamp
    BY <1>9, <2>1, <2>2
  <2> QED BY <2>4, <2>5 DEF TodoInv
<1>18. JobsInv'
  <2>1. jobs # <<>> /\ Head(jobs).m = m /\ jobs' = Tail(jobs) BY DEF GatherEff
  <2> DEFINE n == Len(jobs)
  <2>2. /\ n \in Nat /\ Len(jobs') = n - 1 /\ jobs[1].m = m /\ 1 \in 1..n
        /\ \A i \in 1..n - 1 : jobs'[i] = jobs[i + 1] /\ i + 1 \in 1..n
        /\ \A i \in 1..n : i = 1 \/ (i - 1 \in 1..n - 1 /\ jobs'[i - 1] = jobs[i])
    BY <1>3, <2>1, TailFacts
  <2>3. /\ \A i, j \in 1..n : i # j => jobs[i].m # jobs[j].m
        /\ \A i \in 1..n :
             /\ jobs[i].m \in has_tla /\ body[jobs[i].m] = jobs[i].how
             /\ \/ mod[jobs[i].m].status \in {"evaluating", "evaluating_async"}
                \/ mod[jobs[i].m].status = "evaluated" /\ mod[jobs[i].m].error # None
        /\ \A x \in has_tla : body[x] \in Outcomes /\ mod[x].status \in {"evaluating", "evaluating_async"} =>
             \E i \in 1..n : jobs[i].m = x
        /\ \A x \in Modules : body[x] = "suspended" => x \in has_tla
    BY <1>4 DEF JobsInv
  <2>4. \A i \in 1..n : jobs[i].m \in Modules BY <1>3, JobTypes
  <2> HIDE DEF n
  <2>5. \A i \in 1..n - 1 : i + 1 # 1 /\ \A j \in 1..n - 1 : i # j => i + 1 # j + 1 BY <2>2
  <2>12. \A i, j \in 1..n : i # j => jobs[i].m # jobs[j].m BY <2>3
  <2>13. \A i \in 1..n :
             /\ jobs[i].m \in has_tla /\ body[jobs[i].m] = jobs[i].how
             /\ \/ mod[jobs[i].m].status \in {"evaluating", "evaluating_async"}
                \/ mod[jobs[i].m].status = "evaluated" /\ mod[jobs[i].m].error # None
    BY <2>3
  <2>14. /\ \A i \in 1..n - 1 : jobs'[i] = jobs[i + 1] /\ i + 1 \in 1..n
         /\ jobs[1].m = m /\ 1 \in 1..n
    BY <2>2
  <2>6. \A i, j \in 1..n - 1 : i # j => jobs'[i].m # jobs'[j].m
    <3> TAKE i, j \in 1..n - 1
    <3>1. jobs'[i] = jobs[i + 1] /\ i + 1 \in 1..n /\ jobs'[j] = jobs[j + 1] /\ j + 1 \in 1..n
      BY <2>14
    <3>2. i # j => i + 1 # j + 1 BY <2>5
    <3>3. i + 1 # j + 1 => jobs[i + 1].m # jobs[j + 1].m BY <2>12, <3>1
    <3> QED BY <3>1, <3>2, <3>3
  <2>7. \A i \in 1..n - 1 : jobs'[i].m # m /\ jobs'[i].m \in Modules BY <2>14, <2>12, <2>4, <2>5
  <2>8. \A i \in 1..n - 1 :
          /\ jobs'[i].m \in has_tla /\ body[jobs'[i].m] = jobs'[i].how
          /\ \/ mod[jobs'[i].m].status \in {"evaluating", "evaluating_async"}
             \/ mod[jobs'[i].m].status = "evaluated" /\ mod[jobs'[i].m].error # None
    <3> TAKE i \in 1..n - 1
    <3>1. jobs'[i] = jobs[i + 1] /\ i + 1 \in 1..n BY <2>14
    <3> QED BY <2>13, <3>1
  <2>9. \A i \in 1..n - 1 :
          /\ jobs'[i].m \in has_tla /\ body'[jobs'[i].m] = jobs'[i].how
          /\ \/ mod'[jobs'[i].m].status \in {"evaluating", "evaluating_async"}
             \/ mod'[jobs'[i].m].status = "evaluated" /\ mod'[jobs'[i].m].error # None
    BY <1>1, <1>2, <2>7, <2>8
  <2>10. ASSUME NEW x \in has_tla, body'[x] \in Outcomes, mod'[x].status \in {"evaluating", "evaluating_async"}
         PROVE  \E i \in 1..n - 1 : jobs'[i].m = x
    <3>1. x # m /\ x \in Modules BY <1>1, <1>9, <2>10
    <3>2. PICK i \in 1..n : jobs[i].m = x BY <1>1, <1>2, <2>3, <2>10, <3>1
    <3> QED BY <2>2, <3>1, <3>2
  <2>11. 1..Len(jobs') = 1..n - 1 BY <2>2
  <2> QED
    <3>1. /\ \A i, j \in 1..Len(jobs') : i # j => jobs'[i].m # jobs'[j].m
          /\ \A i \in 1..Len(jobs') :
               /\ jobs'[i].m \in has_tla' /\ body'[jobs'[i].m] = jobs'[i].how
               /\ \/ mod'[jobs'[i].m].status \in {"evaluating", "evaluating_async"}
                  \/ mod'[jobs'[i].m].status = "evaluated" /\ mod'[jobs'[i].m].error # None
      BY <1>9, <2>6, <2>9, <2>11
    <3>2. \A x \in has_tla' : body'[x] \in Outcomes /\ mod'[x].status \in {"evaluating", "evaluating_async"} =>
             \E i \in 1..Len(jobs') : jobs'[i].m = x
      BY <1>9, <2>10, <2>11
    <3>3. \A x \in Modules : body'[x] = "suspended" => x \in has_tla' BY <1>1, <1>9, <2>3
    <3> QED BY <3>1, <3>2, <3>3 DEF JobsInv
<1> QED BY <1>5, <1>14, <1>15, <1>16, <1>17, <1>18 DEF LateInv

\* A quiet step keeps the invariant.
LEMMA QuietNext ==
  ASSUME IInv, Quiet
  PROVE  IdleNext
<1>1. PICK m \in Modules : QuietEff(m) BY DEF Quiet
<1>2. Shaped /\ WalkInv /\ LateInv BY DEF IInv
<1>3. LateInv' BY <1>1, <1>2, QuietLate
<1> QED BY <1>1, <1>3 DEF Quiet, IdleNext, QuietEff

\* The list of modules begins.
LEMMA ListCall ==
  ASSUME NEW m \in Modules, NEW todo \in Seq(Modules), calls' = <<Call("exec", m, todo)>>
  PROVE  /\ calls' # <<>> /\ Len(calls') <= 1 /\ calls' \in Seq(Calls)
         /\ C1'.op = "exec" /\ C1'.frames = <<>> /\ C1'.stack = <<>> /\ C1'.todo = todo
         /\ Doing("exec")' /\ ~Doing("link")' /\ ~Doing("eval")'
<1> DEFINE c == Call("exec", m, todo)
<1>1. c \in Calls /\ c.op = "exec" /\ c.frames = <<>> /\ c.stack = <<>> /\ c.todo = todo
  BY DEF Call, Calls
<1> HIDE DEF c
<1>2. <<c>> \in Seq(Calls) /\ <<c>> # <<>> /\ <<c>>[1] = c /\ Len(<<c>>) <= 1 BY <1>1
<1>3. calls' = <<c>> BY DEF c
<1>4. calls' \in Seq(Calls) /\ calls' # <<>> /\ calls'[1] = c /\ Len(calls') <= 1 BY <1>2, <1>3
<1>5. C1' = c BY <1>4 DEF C1
<1> QED BY <1>1, <1>4, <1>5 DEF Doing

\* A report of success that is not stale has the effect GatherEff.
LEMMA GatherStep ==
  ASSUME IInv, calls = <<>>, jobs # <<>>, Head(jobs).how = "done", jobs' = Tail(jobs),
         NEW m \in Modules, Head(jobs).m = m, mod[m].status # "evaluated",
         Kept, body' = body, clock' = clock,
         NEW Z, EvaluatedTo(mod, m, Z), NEW A \in SUBSET Modules, A = List(Z, m),
         NEW S \in SUBSET Modules, S = Sources(m, A),
         NEW todo \in Sorted(A, Z), calls' = <<Call("exec", m, todo)>>,
         GathersTo(Z, S, mod'),
         asserts' = (asserts /\ (mod[m].promise # "none" => mod[m].root = m)
                     /\ mod[m].status = "evaluating_async" /\ mod[m].error = None /\ mod[m].async
                     /\ \A p \in Modules : Met(Z, S, p) =>
                          Z[p].status = "evaluating_async" /\ Z[p].error = None /\ Z[p].async /\ Z[p].pending > 0)
  PROVE  IdleNext
<1>1. /\ \A op : ~Doing(op)
      /\ Todo = {}
  BY NoCall
<1>2. /\ Shaped /\ WalkInv /\ LateInv /\ asserts /\ mod \in ModuleTables /\ body \in [Modules -> Bodies]
      /\ jobs \in Seq(Reports) /\ clock \in Nat
  BY <1>1, IdleState
<1>3. EndedBodies /\ PromiseInv BY <1>2, LateParts
<1>4. /\ m \in has_tla /\ body[m] = "done" /\ Tail(jobs) \in Seq(Reports)
      /\ mod[m].status = "evaluating_async" /\ mod[m].error = None /\ mod[m].async
  BY HeadReport
<1>5. mod[m].pending = 0 BY <1>1, <1>3, <1>4 DEF EndedBodies
<1>6. /\ Z \in ModuleTables
      /\ \A p \in Modules : p \in A <=> Met(mod, S, p) /\ Count(mod, S, p) >= mod[p].pending
      /\ \A p \in Modules : Met(Z, S, p) <=> Met(mod, S, p)
      /\ \A p \in Modules : Count(Z, S, p) = Count(mod, S, p)
      /\ \A x \in S : mod[x].status # "evaluated"
      /\ \A p \in A : mod[p].status = "evaluating_async" /\ body[p] = "unrun"
      /\ m \in S
  BY <1>4, GatherList
<1>7. /\ Z[m].status = "evaluated" /\ ~Z[m].async /\ Z[m].promise = Settled(mod[m].promise, "fulfilled")
      /\ \A x \in Modules : x # m => Z[x] = mod[x]
      /\ \A x \in Modules :
              /\ Z[x].dfs = mod[x].dfs /\ Z[x].root = mod[x].root /\ Z[x].pending = mod[x].pending
              /\ Z[x].error = mod[x].error /\ Z[x].stamp = mod[x].stamp /\ Z[x].parents = mod[x].parents
  BY <1>2, EvaluatedFields
<1>8. /\ mod' \in ModuleTables
      /\ \A x \in Modules :
              /\ mod'[x].dfs = Z[x].dfs /\ mod'[x].root = Z[x].root /\ mod'[x].status = Z[x].status /\ mod'[x].async = Z[x].async
              /\ mod'[x].error = Z[x].error /\ mod'[x].stamp = Z[x].stamp /\ mod'[x].parents = Z[x].parents
              /\ mod'[x].promise = Z[x].promise
              /\ ~Met(Z, S, x) => mod'[x].pending = Z[x].pending
              /\ Met(Z, S, x) /\ Count(Z, S, x) <= Z[x].pending => mod'[x].pending = Z[x].pending - Count(Z, S, x)
  <2>1. mod' \in ModuleTables /\ GatheredFrom(Z, S, mod') BY <1>6, GatheredFields
  <2> QED BY <2>1 DEF GatheredFrom
<1>9. ASSUME NEW p \in Modules, Met(mod, S, p)
      PROVE  /\ mod[p].status = "evaluating_async" /\ mod[p].error = None /\ mod[p].async /\ body[p] = "unrun"
             /\ mod[p].pending > 0 /\ Count(mod, S, p) <= mod[p].pending
  BY <1>6, <1>9, MetFacts
<1>10. \A p \in Modules : Met(mod, S, p) => p # m BY <1>4, <1>9
<1>11. asserts'
  <2>1. \A p \in Modules : Met(Z, S, p) =>
          Z[p].status = "evaluating_async" /\ Z[p].error = None /\ Z[p].async /\ Z[p].pending > 0
    BY <1>6, <1>7, <1>9, <1>10
  <2>2. mod[m].promise # "none" => mod[m].root = m BY <1>1, <1>3 DEF PromiseInv
  <2> QED BY <1>2, <1>4, <2>1, <2>2
<1>12. /\ \A x \in Modules :
            /\ mod'[x].dfs = mod[x].dfs /\ mod'[x].root = mod[x].root /\ mod'[x].error = mod[x].error
            /\ mod'[x].stamp = mod[x].stamp /\ mod'[x].parents = mod[x].parents
            /\ ~Met(mod, S, x) => mod'[x].pending = mod[x].pending
            /\ Met(mod, S, x) => mod'[x].pending = mod[x].pending - Count(mod, S, x)
            /\ x # m => mod'[x].status = mod[x].status /\ mod'[x].async = mod[x].async /\ mod'[x].promise = mod[x].promise
       /\ mod'[m].status = "evaluated" /\ ~mod'[m].async /\ mod'[m].promise = Settled(mod[m].promise, "fulfilled")
       /\ mod'[m].pending = 0
  <2>1. \A x \in Modules : ~Met(mod, S, x) => mod'[x].pending = mod[x].pending BY <1>6, <1>7, <1>8
  <2>2. \A x \in Modules : Met(mod, S, x) => mod'[x].pending = mod[x].pending - Count(mod, S, x)
    <3> TAKE x \in Modules
    <3>1. Met(mod, S, x) => Met(Z, S, x) /\ Count(Z, S, x) <= Z[x].pending BY <1>6, <1>7, <1>9
    <3>2. Met(mod, S, x) => mod'[x].pending = Z[x].pending - Count(Z, S, x) BY <1>8, <3>1
    <3> QED BY <1>6, <1>7, <3>2
  <2>3. mod'[m].pending = 0 BY <1>5, <1>10, <2>1
  <2>4. \A x \in Modules :
            /\ mod'[x].dfs = mod[x].dfs /\ mod'[x].root = mod[x].root /\ mod'[x].error = mod[x].error
            /\ mod'[x].stamp = mod[x].stamp /\ mod'[x].parents = mod[x].parents
    BY <1>7, <1>8
  <2>5. \A x \in Modules :
            x # m => mod'[x].status = mod[x].status /\ mod'[x].async = mod[x].async /\ mod'[x].promise = mod[x].promise
    BY <1>7, <1>8
  <2>6. mod'[m].status = "evaluated" /\ ~mod'[m].async /\ mod'[m].promise = Settled(mod[m].promise, "fulfilled")
    BY <1>7, <1>8
  <2> QED BY <2>1, <2>2, <2>3, <2>4, <2>5, <2>6
<1>13. /\ todo \in Seq(Modules) /\ ToSet(todo) = A
       /\ \A i \in 1..Len(todo) : todo[i] \in A
       /\ \A i, j \in 1..Len(todo) : i < j => todo[i] # todo[j] /\ Z[todo[i]].stamp <= Z[todo[j]].stamp
  BY SortedFacts
<1>14. /\ calls' # <<>> /\ Len(calls') <= 1 /\ calls' \in Seq(Calls)
       /\ C1'.op = "exec" /\ C1'.frames = <<>> /\ C1'.stack = <<>> /\ C1'.todo = todo
       /\ Doing("exec")' /\ ~Doing("link")' /\ ~Doing("eval")'
  BY <1>13, ListCall
<1>15. IdleEff
  <2>1. Succeeds(m) BY <1>4, <1>12 DEF Succeeds
  <2>2. \A x \in Modules : x # m /\ mod[x].status = "evaluating_async" => Stays(x)
    BY <1>3, <1>12 DEF Stays, EndedBodies
  <2>3. \A x \in Modules : mod[x].status # "evaluating_async" =>
            /\ mod'[x].status = mod[x].status /\ mod'[x].async = mod[x].async
            /\ mod'[x].error = mod[x].error /\ mod'[x].pending = mod[x].pending
            /\ mod'[x].promise = mod[x].promise
    BY <1>4, <1>9, <1>12
  <2>4. \A x \in Modules : mod[x].status = "evaluating_async" => Stays(x) \/ Succeeds(x) \/ Fails(x)
    BY <2>1, <2>2
  <2>5. \A op \in {"link", "eval"} : ~Doing(op) /\ ~Doing(op)' BY <1>1, <1>14
  <2>6. \A x \in Modules :
       /\ mod'[x].root = mod[x].root /\ mod'[x].dfs = mod[x].dfs /\ mod'[x].stamp = mod[x].stamp
       /\ mod'[x].parents = mod[x].parents
    BY <1>12
  <2>7. \A x \in Modules :
       /\ mod[x].status \notin Ended => body'[x] = body[x]
       /\ body[x] \in Outcomes => body'[x] = body[x]
       /\ body[x] = "unrun" /\ body'[x] # "unrun" => Starts(x)
       /\ body'[x] = "running" => body[x] \in {"unrun", "running"}
    OBVIOUS
  <2> QED BY <2>3, <2>4, <2>5, <2>6, <2>7 DEF IdleEff
<1>16. GatherEff(m, A, S)
  <2>1. ToSet(C1'.todo) = A /\ \A i \in 1..Len(C1'.todo) : C1'.todo[i] \in A BY <1>13, <1>14
  <2>2. \A i, j \in 1..Len(todo) : i < j => todo[i] # todo[j] /\ mod[todo[i]].stamp <= mod[todo[j]].stamp
    BY <1>7, <1>13
  <2>3. \A i, j \in 1..Len(C1'.todo) : i < j =>
          C1'.todo[i] # C1'.todo[j] /\ mod[C1'.todo[i]].stamp <= mod[C1'.todo[j]].stamp
    BY <1>14, <2>2
  <2>4. S = {m} \cup (A \ has_tla) BY DEF Sources
  <2>5. \A x \in Modules :
       /\ x # m => mod'[x].status = mod[x].status
       /\ mod'[x].error = mod[x].error
       /\ x \in A <=> Met(mod, S, x) /\ Count(mod, S, x) >= mod[x].pending
       /\ ~Met(mod, S, x) => mod'[x].pending = mod[x].pending
       /\ Met(mod, S, x) => mod'[x].pending = mod[x].pending - Count(mod, S, x)
    BY <1>6, <1>12
  <2> QED BY <1>4, <1>6, <1>12, <1>14, <1>15, <2>1, <2>3, <2>4, <2>5 DEF GatherEff
<1>17. LateInv' BY <1>16, GatherLate
<1>18. WalkInv' BY <1>2, <1>15, IdleWalk
<1>19. Shaped' BY <1>2, <1>4, <1>8, <1>14, ShapedList
<1> QED BY <1>11, <1>15, <1>17, <1>18, <1>19 DEF IdleNext

\* RunFulfilled keeps the invariant.
LEMMA RunFulfilledStep ==
  ASSUME IInv, RunFulfilled
  PROVE  IdleNext
<1>1. PICK m \in Modules : Head(jobs).m = m BY HeadReport DEF RunFulfilled
<1>2. /\ calls = <<>> /\ jobs # <<>> /\ Head(jobs).how = "done" /\ jobs' = Tail(jobs)
      /\ Kept /\ body' = body /\ clock' = clock
  BY DEF RunFulfilled, Kept, code
<1>3. asserts /\ (mod[m].status = "evaluated" => mod[m].error # None)
  BY <1>1, <1>2, HeadReport DEF IInv
<1>4. CASE mod[m].status = "evaluated"
  <2>1. asserts' = (asserts /\ mod[m].error # None) /\ mod' = mod /\ calls' = calls
    BY <1>1, <1>4 DEF RunFulfilled
  <2>2. Quiet BY <1>1, <1>2, <1>3, <1>4, <2>1, StaleReport
  <2> QED BY <2>2, QuietNext
<1>5. CASE mod[m].status # "evaluated"
  <2> DEFINE s == SetEvaluated([State EXCEPT !.ok = @ /\ mod[m].status = "evaluating_async"
                                               /\ mod[m].error = None /\ mod[m].async], m)
  <2>1. /\ EvaluatedTo(mod, m, s.mods)
        /\ s.ok = (asserts /\ mod[m].status = "evaluating_async" /\ mod[m].error = None /\ mod[m].async
                   /\ (mod[m].promise # "none" => mod[m].root = m))
    BY DEF SetEvaluated, State, EvaluatedTo
  <2>2. \E todo \in Sorted(List(s.mods, m), s.mods) :
                /\ calls' = <<Call("exec", m, todo)>>
                /\ Commit(Gathered(s, m, ToSet(todo)))
    BY <1>1, <1>5 DEF RunFulfilled
  <2> HIDE DEF s
  <2>3. PICK Z : Z = s.mods OBVIOUS
  <2>4. List(Z, m) \in SUBSET Modules BY DEF List
  <2>5. PICK A \in SUBSET Modules : A = List(Z, m) BY <2>4
  <2>6. PICK todo \in Sorted(A, Z) : /\ calls' = <<Call("exec", m, todo)>>
                                     /\ Commit(Gathered(s, m, ToSet(todo)))
    BY <2>2, <2>3, <2>5
  <2>7. ToSet(todo) = A BY <2>6, SortedFacts
  <2>8. PICK S \in SUBSET Modules : S = Sources(m, A) BY DEF Sources
  <2>9. Gathered(s, m, A).mods = [p \in Modules |->
         IF p \in {q \in Modules : Cardinality(Entries(Z, S, q)) > 0 /\ Z[Z[q].root].error = None}
         THEN [Z[p] EXCEPT !.pending = IF @ > Cardinality(Entries(Z, S, p))
                                       THEN @ - Cardinality(Entries(Z, S, p)) ELSE 0]
         ELSE Z[p]]
    BY <2>3, <2>8 DEF Gathered
  <2>10. Gathered(s, m, A).ok = (s.ok /\
           \A p \in {q \in Modules : Cardinality(Entries(Z, S, q)) > 0 /\ Z[Z[q].root].error = None} :
             Z[p].status = "evaluating_async" /\ Z[p].error = None /\ Z[p].async /\ Z[p].pending > 0)
    BY <2>3, <2>8 DEF Gathered
  <2>11. GathersTo(Z, S, mod') BY <2>6, <2>7, <2>9 DEF Commit, GathersTo
  <2>12. asserts' = (s.ok /\ \A p \in Modules : Met(Z, S, p) =>
             Z[p].status = "evaluating_async" /\ Z[p].error = None /\ Z[p].async /\ Z[p].pending > 0)
    BY <2>6, <2>7, <2>10 DEF Commit, Met, Count
  <2>13. asserts' = (asserts /\ (mod[m].promise # "none" => mod[m].root = m)
                     /\ mod[m].status = "evaluating_async" /\ mod[m].error = None /\ mod[m].async
                     /\ \A p \in Modules : Met(Z, S, p) =>
                          Z[p].status = "evaluating_async" /\ Z[p].error = None /\ Z[p].async /\ Z[p].pending > 0)
    BY <2>1, <2>12
  <2>14. EvaluatedTo(mod, m, Z) BY <2>1, <2>3
  <2> QED BY <1>1, <1>2, <1>5, <2>5, <2>6, <2>8, <2>11, <2>13, <2>14, GatherStep
<1> QED BY <1>4, <1>5

-----------------------------------------------------------------------------
(* The invariant is inductive *)

\* The invariant holds at the start.
LEMMA InitHolds ==
  ASSUME Init
  PROVE  IInv
<1>1. /\ imports \in Graphs /\ has_tla \in SUBSET Modules
      /\ mod = [m \in Modules |-> NewModule] /\ body = [m \in Modules |-> "unrun"]
      /\ calls = <<>> /\ jobs = <<>> /\ clock = 0 /\ asserts = TRUE
  BY DEF Init
<1>2. /\ \A op : ~Doing(op)
      /\ Todo = {}
  BY <1>1, NoCall
<1>3. NewModule \in ModuleFields BY DEF NewModule, ModuleFields, Statuses
<1>4. mod \in ModuleTables /\ body \in [Modules -> Bodies]
  <2>1. "unrun" \in Bodies BY DEF Bodies
  <2> HIDE DEF NewModule
  <2> QED BY <1>1, <1>3, <2>1 DEF ModuleTables
<1>5. \A x \in Modules :
        /\ mod[x].status = "unlinked" /\ ~mod[x].async /\ mod[x].error = None /\ mod[x].pending = 0
        /\ mod[x].parents = <<>> /\ mod[x].promise = "none" /\ mod[x].root = None /\ body[x] = "unrun"
  BY <1>1 DEF NewModule
<1>6. Shaped BY <1>1, <1>2, <1>4 DEF Shaped
<1>7. WalkInv BY <1>2, <1>5 DEF WalkInv, LinkWalk, EvalWalk, IdleInv, LinkedInv, Linked
<1>8. \A x \in Modules : mod[x].status \notin Ended \cup {"evaluating"} BY <1>5 DEF Ended
<1>9. \A x, p \in Modules : ~Waits(p, x) BY <1>5 DEF Waits, ToSet
<1>10. FreshInv /\ RootInv /\ ErrorInv /\ StackBodies /\ EndedBodies /\ PromiseInv
  <2>1. \A x \in Modules : ~InPath(x) BY <1>2 DEF InPath
  <2> QED
    BY <1>5, <1>8, <2>1 DEF FreshInv, RootInv, ErrorInv, StackBodies, EndedBodies, PromiseInv, Ended
<1>11. TodoInv /\ JobsInv
  <2>1. Len(jobs) = 0 BY <1>1
  <2>2. \A i : i \notin 1..Len(jobs) BY <2>1
  <2>3. \A x \in has_tla : body[x] = "unrun" BY <1>1, <1>5
  <2>4. JobsInv BY <1>5, <2>2, <2>3 DEF JobsInv, Outcomes
  <2> QED BY <1>2, <2>4 DEF TodoInv
<1>12. WaitInv /\ StampInv BY <1>5, <1>9 DEF WaitInv, StampInv
<1>13. CountInv
  <2> SUFFICES ASSUME NEW p \in Modules PROVE mod[p].pending = Cardinality(Entries(mod, Open, p))
    BY DEF CountInv
  <2>1. Open \subseteq Modules BY DEF Open
  <2>2. PICK O \in SUBSET Modules : O = Open BY <2>1
  <2>3. Entries(mod, O, p) = {} BY <1>9, EntriesWaits DEF Waits
  <2>4. Count(mod, O, p) = 0 BY <1>4, <2>3, CountZero
  <2> QED BY <1>5, <2>2, <2>4 DEF Count
<1>14. TreeInv /\ ImportsInv /\ JumpInv BY <1>5, <1>8 DEF TreeInv, ImportsInv, JumpInv, Ended
<1>15. DependenciesFirst BY <1>5 DEF DependenciesFirst
<1> QED BY <1>1, <1>6, <1>7, <1>10, <1>11, <1>12, <1>13, <1>14, <1>15 DEF IInv, LateInv

\* The steps of a traversal run no body again, and settle nothing twice.
LEMMA EffectOnce ==
  ASSUME IInv, Effect
  PROVE  Once
<1>1. /\ Shaped /\ FreshInv /\ ErrorInv /\ PromiseInv /\ StackBodies BY LateParts DEF IInv
<1>2. \A x \in Modules :
        /\ mod[x].error # None => mod[x].status = "evaluated"
        /\ mod[x].promise = "fulfilled" => mod[x].status = "evaluated"
        /\ mod[x].promise = "rejected" => mod[x].status = "evaluated"
  BY <1>1 DEF ErrorInv, PromiseInv
<1>3. CASE LinkEff BY <1>3 DEF LinkEff, Answer, Once
<1>4. ASSUME NEW d \in Modules, EnterEff(d) PROVE Once
  <2>1. mod[d].promise = "none" BY <1>1, <1>4 DEF EnterEff, FreshInv, Ended
  <2> QED BY <1>4, <2>1 DEF EnterEff, Once
<1>5. ASSUME NEW m \in Modules, NEW d \in Modules, NEW r \in Modules, ReturnEff(m, d, r) PROVE Once
  BY <1>5 DEF ReturnEff, Once
<1>6. ASSUME NEW e \in Modules, NEW r \in Modules, FailEff(e, r) PROVE Once
  <2>1. /\ \A x \in Modules : mod[x].error # None => mod'[x].error = mod[x].error
        /\ \A x \in Modules : mod[x].promise \in {"fulfilled", "rejected"} => mod'[x].promise = mod[x].promise
    BY <1>2, <1>6 DEF FailEff, Settled
  <2>2. \A x \in Modules : body'[x] = "running" => body[x] \in {"unrun", "running"}
    BY <1>6 DEF FailEff
  <2> QED BY <2>1, <2>2 DEF Once
<1>7. ASSUME NEW m \in Modules, RunEff(m) PROVE Once BY <1>7 DEF RunEff, Once
<1>8. ASSUME NEW m \in Modules, NEW K \in SUBSET Modules, EndEff(m, K) PROVE Once
  <2>1. mod[m].status = "evaluating" BY <1>1, <1>8 DEF EndEff, StackBodies
  <2>2. body[m] \in {"unrun", "running"} /\ \A x \in Modules : x # m => body'[x] = body[x]
    BY <1>8 DEF EndEff, Ends
  <2>3. \A x \in Modules : mod'[x].error = mod[x].error /\ (x # m => mod'[x].promise = mod[x].promise)
    BY <1>8 DEF EndEff
  <2> QED BY <1>2, <2>1, <2>2, <2>3 DEF Once
<1> QED BY <1>3, <1>4, <1>5, <1>6, <1>7, <1>8 DEF Effect

\* Nor do the other steps.
LEMMA IdleOnce ==
  ASSUME IInv, IdleEff
  PROVE  Once
<1>1. ErrorInv /\ PromiseInv BY LateParts DEF IInv
<1>2. \A x \in Modules :
        /\ mod[x].error # None => mod[x].status = "evaluated"
        /\ mod[x].promise = "fulfilled" => mod[x].status = "evaluated"
        /\ mod[x].promise = "rejected" => mod[x].status = "evaluated"
  BY <1>1 DEF ErrorInv, PromiseInv
<1>3. \A x \in Modules : mod[x].status = "evaluated" => mod'[x].error = mod[x].error /\ mod'[x].promise = mod[x].promise
  BY DEF IdleEff
<1>4. \A x \in Modules : body'[x] = "running" => body[x] \in {"unrun", "running"} BY DEF IdleEff
<1> QED BY <1>2, <1>3, <1>4 DEF Once

\* A step of a traversal keeps the invariant.
LEMMA WalkNextHolds ==
  ASSUME IInv, WalkNext
  PROVE  IInv' /\ Once
<1>1. Shaped /\ WalkInv /\ LateInv /\ mod' \in ModuleTables /\ Effect
  BY DEF WalkNext, IInv, Shaped
<1>2. ASSUME LinkEff PROVE LateInv' BY <1>1, <1>2, LinkLate
<1>3. ASSUME NEW d \in Modules, EnterEff(d) PROVE LateInv' BY <1>1, <1>3, EnterLate
<1>4. ASSUME NEW m \in Modules, NEW d \in Modules, NEW r \in Modules, ReturnEff(m, d, r) PROVE LateInv'
  BY <1>1, <1>4, ReturnLate
<1>5. ASSUME NEW e \in Modules, NEW r \in Modules, FailEff(e, r) PROVE LateInv'
  BY <1>1, <1>5, FailLate
<1>6. ASSUME NEW m \in Modules, RunEff(m) PROVE LateInv' BY <1>1, <1>6, RunLate
<1>7. ASSUME NEW m \in Modules, NEW K \in SUBSET Modules, EndEff(m, K) PROVE LateInv'
  BY <1>1, <1>7, EndLate
<1>8. LateInv' BY <1>1, <1>2, <1>3, <1>4, <1>5, <1>6, <1>7 DEF Effect
<1>9. Once BY <1>1, EffectOnce
<1> QED BY <1>8, <1>9 DEF WalkNext, IInv

\* The other steps keep the invariant.
LEMMA IdleNextHolds ==
  ASSUME IInv, IdleNext
  PROVE  IInv' /\ Once
BY IdleOnce DEF IdleNext, IInv

\* What the engine does in a call keeps the invariant.
LEMMA EngineStep ==
  ASSUME IInv, Engine
  PROVE  IInv' /\ Once
<1>1. WalkNext => IInv' /\ Once BY WalkNextHolds
<1>2. Quiet => IInv' /\ Once BY QuietNext, IdleNextHolds
<1>3. CASE LinkVisits \/ LinkEnds \/ LinkFails
  BY <1>1, <1>3, LinkVisitsStep, LinkEndsStep, LinkFailsStep DEF WalkNext, Effect
<1>4. CASE EvalStarts \/ EvalEnters
  BY <1>1, <1>4, EvalStartsStep, EvalEntersStep DEF WalkNext, Effect
<1>5. CASE EvalInherits BY <1>1, <1>5, EvalInheritsStep DEF WalkNext, Effect
<1>6. CASE EvalReturns BY <1>1, <1>6, EvalReturnsStep DEF WalkNext, Effect
<1>7. CASE EvalWaits BY <1>1, <1>7, EvalWaitsStep DEF WalkNext, Effect
<1>8. CASE EvalRuns BY <1>1, <1>8, EvalRunsStep DEF WalkNext, Effect
<1>9. ASSUME NEW how \in Outcomes, SyncBodyEnds(how) PROVE IInv' /\ Once
  <2>1. CASE how = "done"
    <3>1. SyncBodyEnds("done") BY <1>9, <2>1
    <3> QED BY <1>1, <3>1, SyncBodyDoneStep DEF WalkNext, Effect
  <2>2. CASE how # "done"
    <3>1. SyncBodyEnds("failed")
      <4>1. how = "failed" BY <2>2 DEF Outcomes
      <4> QED BY <1>9, <4>1
    <3> QED BY <1>1, <3>1, SyncBodyFailsStep DEF WalkNext, Effect
  <2> QED BY <2>1, <2>2
<1>10. ASSUME NEW how \in Outcomes \cup {"suspended"}, AsyncBodyStops(how) PROVE IInv' /\ Once
  BY <1>1, <1>10, AsyncBodyStopsStep DEF WalkNext, Effect
<1>11. ASSUME NEW how \in Outcomes \cup {"suspended"}, ExecBodyStops(how) PROVE IInv' /\ Once
  BY <1>2, <1>11, ExecBodyStopsStep
<1>12. CASE ExecNext BY <1>2, <1>12, ExecNextStep
<1> QED BY <1>3, <1>4, <1>5, <1>6, <1>7, <1>8, <1>9, <1>10, <1>11, <1>12 DEF Engine, Traversal

\* What the loop over pending jobs runs keeps the invariant.
LEMMA PendingJobStep ==
  ASSUME IInv, PendingJob
  PROVE  IInv' /\ Once
<1>1. CASE RunFulfilled BY <1>1, RunFulfilledStep, IdleNextHolds
<1>2. CASE RunRejected BY <1>2, RunRejectedStep, QuietNext, IdleNextHolds
<1>3. ASSUME NEW m \in Modules, NEW how \in Outcomes, BodyResumes(m, how) PROVE IInv' /\ Once
  BY <1>3, BodyResumesStep, QuietNext, IdleNextHolds
<1> QED BY <1>1, <1>2, <1>3 DEF PendingJob

\* A step that changes nothing keeps the invariant.
LEMMA Stutter ==
  ASSUME IInv, UNCHANGED vars
  PROVE  IInv' /\ vars' = vars
<1>1. /\ imports' = imports /\ has_tla' = has_tla /\ mod' = mod /\ body' = body
      /\ calls' = calls /\ jobs' = jobs /\ clock' = clock /\ asserts' = asserts
  BY DEF vars
<1>2. \A op : Doing(op)' = Doing(op) BY <1>1 DEF Doing, C1
<1>3. C1' = C1 /\ Todo' = Todo /\ Open' = Open
  <2>1. C1' = C1 BY <1>1 DEF C1
  <2>2. Todo' = Todo BY <2>1, <1>2 DEF Todo
  <2> QED BY <1>1, <2>1, <2>2 DEF Open
<1>4. /\ \A x : InPath(x)' = InPath(x) /\ Needs(x)' = Needs(x) /\ Imports(x)' = Imports(x)
      /\ \A p, d : Gone(p, d)' = Gone(p, d) /\ Waits(p, d)' = Waits(p, d)
  <2>1. \A x : InPath(x)' = InPath(x) BY <1>2, <1>3 DEF InPath
  <2>2. \A x : Needs(x)' = Needs(x) /\ Imports(x)' = Imports(x) BY <1>1, NeedsKept DEF Kept
  <2>3. \A p, d : Gone(p, d)' = Gone(p, d) BY <1>1, <1>3 DEF Gone, Passed
  <2>4. \A p, d : Waits(p, d)' = Waits(p, d) BY <1>1 DEF Waits
  <2> QED BY <2>1, <2>2, <2>3, <2>4
<1>5. Shaped /\ WalkInv /\ LateInv /\ asserts BY DEF IInv
<1>6. Shaped' BY <1>1, <1>2, <1>3, <1>5 DEF Shaped
<1>7. WalkInv'
  <2>1. LinkWalk' BY <1>1, <1>2, <1>3, <1>5, WalkKept DEF WalkInv, LinkWalk, Kept
  <2>2. EvalWalk' BY <1>1, <1>2, <1>3, <1>5, WalkKept DEF WalkInv, EvalWalk, Kept
  <2>3. IdleInv' /\ LinkedInv' BY <1>1, <1>2, <1>4, <1>5 DEF WalkInv, IdleInv, LinkedInv
  <2> QED BY <2>1, <2>2, <2>3 DEF WalkInv
<1>8. LateInv'
  <2>1. FreshInv' /\ RootInv' /\ ErrorInv'
    BY <1>1, <1>4, <1>5 DEF LateInv, FreshInv, RootInv, ErrorInv
  <2>2. StackBodies'
    BY <1>1, <1>3, <1>4, <1>5 DEF LateInv, StackBodies, Finished, PathBody, AtTheEnd
  <2>3. EndedBodies' /\ PromiseInv' BY <1>1, <1>2, <1>3, <1>5 DEF LateInv, EndedBodies, PromiseInv
  <2>4. TodoInv' /\ JobsInv' BY <1>1, <1>2, <1>3, <1>5 DEF LateInv, TodoInv, JobsInv, Ready
  <2>5. WaitInv' /\ StampInv' BY <1>1, <1>3, <1>4, <1>5 DEF LateInv, WaitInv, StampInv
  <2>6. CountInv' BY <1>1, <1>3, <1>5 DEF LateInv, CountInv
  <2>7. TreeInv' BY <1>1, <1>3, <1>4, <1>5 DEF LateInv, TreeInv, Above, Looks
  <2>8. ImportsInv' /\ JumpInv'
    BY <1>1, <1>4, <1>5 DEF LateInv, ImportsInv, JumpInv, DoneFor, Complete
  <2>9. DependenciesFirst' BY <1>1, <1>4, <1>5 DEF LateInv, DependenciesFirst, Cyclic, Imports
  <2> QED BY <2>1, <2>2, <2>3, <2>4, <2>5, <2>6, <2>7, <2>8, <2>9 DEF LateInv
<1> QED BY <1>1, <1>6, <1>7, <1>8, <1>5 DEF IInv, vars

\* The invariant is inductive.
LEMMA NextHolds ==
  ASSUME IInv, Reentry = FALSE, [Next]_vars
  PROVE  IInv' /\ (vars' = vars \/ Once)
<1>1. ASSUME NEW m \in Modules, Evaluate(m) PROVE IInv' /\ Once
  <2>1. WalkNext BY <1>1, EvaluateStep DEF WalkNext, Effect
  <2> QED BY <2>1, WalkNextHolds
<1>2. CASE Next BY <1>1, <1>2, EngineStep, PendingJobStep DEF Next
<1>3. CASE UNCHANGED vars BY <1>3, Stutter
<1> QED BY <1>2, <1>3

-----------------------------------------------------------------------------
(* The theorems *)

\* The inductive invariant holds of every graph of modules: a body that calls
\* ejr_eval_module (Reentry) is excluded, for then an assertion of the engine fails.
THEOREM GraphInvariant ==
  ASSUME Reentry = FALSE
  PROVE  Spec => []IInv
<1>1. Init => IInv BY InitHolds
<1>2. IInv /\ [Next]_vars => IInv' BY NextHolds
<1> QED BY <1>1, <1>2, PTL DEF Spec

\* No assertion of the module code of the engine fails (js_link_module,
\* js_inner_module_linking, js_evaluate_module, js_inner_module_evaluation,
\* gather_available_ancestors, the reports), for every graph, failure and order
\* in which bodies end, as long as no body evaluates a module.
THEOREM GraphAssertions ==
  ASSUME Reentry = FALSE
  PROVE  Spec => []AssertsHold
<1>1. IInv => AssertsHold BY DEF IInv, AssertsHold
<1> QED BY <1>1, GraphInvariant, PTL

\* Types.
LEMMA TypesHold ==
  ASSUME IInv
  PROVE  TypeOK
<1>1. /\ Shaped /\ WalkInv /\ asserts
      /\ mod \in ModuleTables /\ body \in [Modules -> Bodies] /\ jobs \in Seq(Reports) /\ clock \in Nat
  BY DEF IInv, Shaped
<1>2. ASSUME NEW k \in DOMAIN calls
      PROVE  /\ calls[k].op \in {"link", "eval", "exec"} /\ calls[k].root \in Modules
             /\ calls[k].stack \in Seq(Modules) /\ calls[k].todo \in Seq(Modules)
             /\ \A i \in DOMAIN calls[k].frames :
                  LET f == calls[k].frames[i]
                  IN  f.m \in Modules /\ f.next \in 1..Len(imports[f.m]) + 1
  <2>1. calls \in Seq(Calls) BY <1>1 DEF Shaped
  <2>2. calls # <<>> BY <1>2
  <2>3. Len(calls) = 1 /\ C1 \in Calls BY <1>1, <2>2, OneCall
  <2>4. calls[k] = C1
    <3>1. k \in 1..Len(calls) BY <1>2, <2>1
    <3> QED BY <3>1, <2>3 DEF C1
  <2>5. /\ C1.op \in {"link", "eval", "exec"} /\ C1.root \in Modules
        /\ C1.stack \in Seq(Modules) /\ C1.todo \in Seq(Modules) /\ C1.frames \in Seq(Frames)
    BY <2>3 DEF Calls
  <2>6. ASSUME NEW i \in DOMAIN C1.frames
        PROVE  C1.frames[i].m \in Modules /\ C1.frames[i].next \in 1..Len(imports[C1.frames[i].m]) + 1
    <3>1. i \in Deep(C1) /\ C1.frames[i] \in Frames
      <4>1. \A s \in Seq(Frames) : \A j \in DOMAIN s : j \in 1..Len(s) /\ s[j] \in Frames OBVIOUS
      <4> QED BY <4>1, <2>5, <2>6 DEF Deep
    <3>2. C1.frames # <<>> BY <2>6
    <3>3. ~Doing("exec") BY <1>1, <3>2 DEF Shaped
    <3>4. FramesInv(mod, C1)
      BY <1>1, <2>2, <2>5, <3>3 DEF WalkInv, LinkWalk, EvalWalk, Walk, Doing
    <3> QED BY <3>1, <3>4 DEF FramesInv, At, Nx, Frames
  <2> QED BY <2>4, <2>5, <2>6
<1>3. /\ mod \in [Modules ->
           [status : Statuses, dfs : Nat, anc : Nat, root : Modules \cup {None}, pending : Nat,
            async : BOOLEAN, stamp : Nat, parents : Seq(Modules), error : Modules \cup {None},
            promise : {"none", "pending", "fulfilled", "rejected"}]]
      /\ body \in [Modules -> {"unrun", "running", "suspended"} \cup Outcomes]
      /\ jobs \in Seq([m : Modules, how : Outcomes])
  <2>1. Bodies = {"unrun", "running", "suspended"} \cup Outcomes BY DEF Bodies, Outcomes
  <2> QED BY <1>1, <2>1 DEF ModuleTables, ModuleFields, Reports
<1> QED BY <1>1, <1>2, <1>3 DEF TypeOK

\* Between two calls what is linked is linked with all it needs, and no module is
\* left in the middle of a traversal (js_link_module, js_evaluate_module).
THEOREM GraphLinked ==
  ASSUME Reentry = FALSE
  PROVE  Spec => []LinkedTogether
<1>1. IInv => LinkedTogether
  <2> SUFFICES ASSUME IInv PROVE LinkedTogether OBVIOUS
  <2>1. TypeOK BY TypesHold
  <2>2. ASSUME calls = <<>>, NEW m \in Modules
        PROVE  /\ mod[m].status \notin {"linking", "evaluating"}
               /\ mod[m].status # "unlinked" => \A d \in Needs(m) : mod[d].status # "unlinked"
    <3>1. Shaped /\ IdleInv /\ LinkedInv /\ ImportsTyped BY Typed DEF IInv, WalkInv
    <3>2. \A x \in Modules : mod[x].status \notin {"linking", "evaluating"} /\ mod[x].status \in Statuses
      BY <2>2, <3>1, NoCall, ModTypes DEF IdleInv
    <3> DEFINE S == {x \in Modules : mod[x].status \in Linked}
    <3>3. \A x \in S : Imports(x) \subseteq S BY <3>1, ImportTypes DEF LinkedInv
    <3>4. mod[m].status # "unlinked" => Needs(m) \subseteq S
      <4>1. mod[m].status # "unlinked" => m \in S BY <3>2 DEF Statuses, Linked
      <4>2. S \in SUBSET Modules OBVIOUS
      <4> HIDE DEF S
      <4> QED BY <4>1, <4>2, <3>3, NeedsLeast
    <3>5. \A x \in S : mod[x].status # "unlinked" BY DEF Linked
    <3> QED BY <3>2, <3>4, <3>5
  <2> QED BY <2>1, <2>2 DEF LinkedTogether
<1> QED BY <1>1, GraphInvariant, PTL

\* A body starts only when everything its imports need has ended well, cycles of
\* its own apart (pending_async_dependencies, gather_available_ancestors).
THEOREM GraphInOrder ==
  ASSUME Reentry = FALSE
  PROVE  Spec => []DependenciesFirst
<1>1. IInv => DependenciesFirst BY DEF IInv, LateInv
<1> QED BY <1>1, GraphInvariant, PTL

\* Once all reports are made, what is over a failure has failed.
LEMMA FailureKnown ==
  ASSUME Shaped, LateInv, calls = <<>>, jobs = <<>>, NEW m \in Modules,
         mod[m].status \in Ended, mod[m].error = None, mod[mod[m].root].error = None
  PROVE  \A d \in Needs(m) : body[d] # "failed"
<1>1. RootInv /\ WaitInv /\ ImportsInv /\ EndedBodies /\ JobsInv /\ ImportsTyped
  BY LateParts, Typed
<1> DEFINE S == {y \in Modules : mod[y].status \in Ended /\ mod[y].error = None /\ mod[mod[y].root].error = None}
<1>2. ASSUME NEW y \in S, NEW d \in Imports(y)
      PROVE  d \in S
  <2>1. y \in Modules /\ mod[y].status \in Ended /\ mod[y].error = None /\ mod[mod[y].root].error = None
        /\ d \in Modules
    BY <1>1, ImportTypes
  <2>2. mod[d].status \in Ended /\ (mod[d].root = mod[y].root \/ DoneFor(y, d))
    BY <1>1, <2>1 DEF ImportsInv
  <2>3. mod[d].root \in Modules /\ (mod[d].error # None => mod[mod[d].root].error # None)
    BY <1>1, <2>1, <2>2 DEF RootInv
  <2>4. mod[mod[d].root].error = None
    <3>1. Waits(y, mod[d].root) => mod[mod[d].root].error = None BY <1>1, <2>1, <2>3 DEF WaitInv
    <3> QED BY <2>1, <2>2, <3>1 DEF DoneFor, Complete
  <2> QED BY <2>1, <2>2, <2>3, <2>4
<1>3. S \in SUBSET Modules /\ m \in S OBVIOUS
<1>4. ASSUME NEW y \in S
      PROVE  body[y] # "failed"
  <2>1. y \in Modules /\ mod[y].status \in Ended /\ mod[y].error = None OBVIOUS
  <2>2. CASE mod[y].status = "evaluated" BY <1>1, <2>1, <2>2 DEF EndedBodies
  <2>3. CASE mod[y].status = "evaluating_async"
    <3>1. y \notin Todo BY NoCall
    <3>2. body[y] = "failed" => y \in has_tla BY <1>1, <2>1, <2>3, <3>1 DEF EndedBodies
    <3>3. \A i : i \notin 1..Len(jobs) OBVIOUS
    <3> QED BY <1>1, <2>3, <3>2, <3>3 DEF JobsInv, Outcomes
  <2> QED BY <2>1, <2>2, <2>3 DEF Ended
<1> HIDE DEF S
<1>5. Needs(m) \subseteq S BY <1>2, <1>3, NeedsLeast
<1> QED BY <1>4, <1>5

\* The promise of an evaluation answers for the whole graph, and a failure reaches
\* every importer once the reports are made (js_set_module_evaluated,
\* js_async_module_execution_rejected).
THEOREM GraphAnswers ==
  ASSUME Reentry = FALSE
  PROVE  Spec => []PromiseAnswers
<1>1. IInv => PromiseAnswers
  <2> SUFFICES ASSUME IInv PROVE PromiseAnswers OBVIOUS
  <2>1. Shaped /\ LateInv /\ ErrorInv /\ PromiseInv /\ RootInv BY LateParts DEF IInv
  <2>2. ASSUME NEW m \in Modules, mod[m].promise = "fulfilled"
        PROVE  \A d \in Needs(m) : body[d] = "done"
    <3>1. mod[m].status = "evaluated" /\ mod[m].error = None BY <2>1, <2>2 DEF PromiseInv
    <3>2. mod[m].root = m \/ (Doing("eval") /\ C1.root = m) BY <2>1, <2>2 DEF PromiseInv
    <3>3. mod[m].root = m
      <4>1. CASE Doing("eval") /\ C1.root = m
        <5>1. Walk(mod, C1, "evaluating", Ended) /\ C1.frames # <<>> /\ calls # <<>>
          BY <4>1 DEF IInv, WalkInv, EvalWalk, Doing
        <5>2. C1 \in Calls BY <2>1, <5>1, OneCall
        <5>3. Deep(C1) = 1..Len(C1.frames) /\ Len(C1.frames) \in Nat /\ Len(C1.frames) > 0
          BY <5>1, <5>2, TopFrame
        <5>4. 1 \in Deep(C1) BY <5>3
        <5>5. m \in On(C1) BY <4>1, <5>1, <5>4 DEF Walk, FramesInv
        <5>6. mod[m].status = "evaluating" BY <5>1, <5>5 DEF Walk, StackInv
        <5> QED BY <3>1, <5>6
      <4> QED BY <3>2, <4>1
    <3> QED BY <2>1, <3>1, <3>3, GraphThrough DEF Complete, Ended
  <2>3. \A m \in Modules : mod[m].promise = "rejected" =>
          mod[m].error \in Needs(m) /\ body[mod[m].error] = "failed"
    BY <2>1 DEF PromiseInv, ErrorInv
  <2>4. ASSUME calls = <<>>, jobs = <<>>, NEW m \in Modules, NEW d \in Modules,
               mod[m].status \in Ended, body[d] = "failed", d \in Needs(m)
        PROVE  mod[m].error # None \/ mod[mod[m].root].error # None
    BY <2>1, <2>4, FailureKnown
  <2> QED BY <2>2, <2>3, <2>4 DEF PromiseAnswers
<1> QED BY <1>1, GraphInvariant, PTL

\* A body runs at most once, a failure stays what it was and a promise is settled
\* once, in every step (status, async_evaluation, the resolving
\* functions of a promise).
THEOREM GraphRunsOnce ==
  ASSUME Reentry = FALSE
  PROVE  Spec => RunsOnce
<1>1. IInv /\ [Next]_vars => [Once]_vars BY NextHolds
<1>2. Spec => [][Once]_vars BY <1>1, GraphInvariant, PTL DEF Spec
<1> QED BY <1>2, PTL DEF RunsOnce, Once

=============================================================================
