---------------------------- MODULE EjrArgsProofs ----------------------------
(***************************************************************************)
(* Proofs about EjrArgs, for any number of JSArgs and lists and any depth:   *)
(* whoever frees a JSArg is the only one who will, and nothing is leaked.    *)
(***************************************************************************)
EXTENDS EjrArgs, TLAPS

USE DEF Gone

Closed(S) == \A a \in S : Kids(a) \subseteq S

\* What a list will free.
Slotted(l) == IF ~Gone(l) THEN In(slots[l]) ELSE {}

\* OwnedOnce as relations between the places: the host, the callbacks'
\* arguments, the items of arrays and the slots of lists.
Owned ==
  /\ loose \subseteq Live
  /\ \A d \in DOMAIN stack : stack[d].args \subseteq Live \ loose
  /\ \A d, e \in DOMAIN stack : d # e => stack[d].args \cap stack[e].args = {}
  /\ \A b \in Args : Kids(b) \subseteq Live \ loose
  /\ \A b \in Args, d \in DOMAIN stack : Kids(b) \cap stack[d].args = {}
  /\ \A b, c \in Args : b # c => Kids(b) \cap Kids(c) = {}
  /\ \A b \in Args : kind[b] = "array" => Distinct(items[b])
  /\ \A l \in Lists : Slotted(l) \subseteq Live \ loose
  /\ \A l \in Lists : ~Gone(l) => Distinct(slots[l])
  /\ \A l \in Lists, d \in DOMAIN stack : Slotted(l) \cap stack[d].args = {}
  /\ \A l \in Lists, b \in Args : Slotted(l) \cap Kids(b) = {}
  /\ \A l, k \in Lists : l # k => Slotted(l) \cap Slotted(k) = {}

Frame == [list : Lists \cup {NoList}, args : SUBSET Args]

\* What was not built yet is empty, a list is passed to one call, and only
\* callbacks have arguments.
Shape ==
  /\ \A a \in Args : kind[a] = "fresh" => items[a] = <<>>
  /\ \A l \in Lists : Len(slots[l]) <= MaxCount
  /\ \A l \in Lists : status[l] = "absent" => slots[l] = <<>>
  /\ \A d \in DOMAIN stack : stack[d].list # NoList => status[stack[d].list] = "passed"
  /\ \A d \in DOMAIN stack : stack[d].list # NoList => stack[d].args = {}
  /\ \A d, e \in DOMAIN stack : d # e /\ stack[d].list # NoList => stack[d].list # stack[e].list

\* What lies anywhere, lost or not.
Listed == UNION {In(slots[l]) : l \in {x \in Lists : ~Gone(x)}}
Known  == loose \cup InFrames \cup Listed

Reached == Live \subseteq Tree(Known)


Good == Owned /\ Shape /\ Reached
IInv == TypeOK /\ MemorySafe /\ (fault = "none" => Good)

\* Only a host that strays throws something away.
Kept ==
  strayed \cap {"overwrites_slot", "args_freed", "adds_to_list"} = {} =>
    lost = {} /\ \A l \in Lists : status[l] # "lost"

-----------------------------------------------------------------------------
(* Walks through arrays *)

LEMMA KidsAreArgs == TypeOK => \A a \in Args : Kids(a) \subseteq Args
BY DEF TypeOK, Kids, In

\* A walk stays among the JSArgs, starts at its roots and is closed.
LEMMA TreeFacts ==
  ASSUME TypeOK, NEW R \in SUBSET Args
  PROVE  Tree(R) \in SUBSET Args /\ R \subseteq Tree(R) /\ Closed(Tree(R))
<1>1. Tree(R) \in SUBSET Args /\ R \subseteq Tree(R)
  BY DEF Tree
<1>2. ASSUME NEW a \in Tree(R), NEW d \in Kids(a), NEW S \in SUBSET Args,
             R \subseteq S, \A x \in S : Kids(x) \subseteq S
      PROVE  d \in S
  <2>1. a \in S
    BY <1>2 DEF Tree
  <2> QED
    BY <1>2, <2>1
<1>3. ASSUME NEW a \in Tree(R), NEW d \in Kids(a)
      PROVE  d \in Tree(R)
  <2>1. d \in Args
    BY <1>1, <1>3, KidsAreArgs
  <2> QED
    BY <1>2, <1>3, <2>1 DEF Tree
<1> QED
  BY <1>1, <1>3 DEF Closed

LEMMA TreeLeast ==
  ASSUME NEW R, NEW S \in SUBSET Args, R \subseteq S, Closed(S)
  PROVE  Tree(R) \subseteq S
BY DEF Tree, Closed

\* What a walk meets beyond its roots is an item of an array it met.
LEMMA TreeStep ==
  ASSUME TypeOK, NEW R \in SUBSET Args, NEW d \in Tree(R), d \notin R
  PROVE  \E b \in Tree(R) : d \in Kids(b)
<1> SUFFICES ASSUME \A b \in Tree(R) : d \notin Kids(b) PROVE FALSE
  OBVIOUS
<1> DEFINE S == Tree(R) \ {d}
<1>1. S \in SUBSET Args /\ R \subseteq S /\ Closed(S)
  BY TreeFacts DEF Closed
<1>2. Tree(R) \subseteq S
  BY <1>1, TreeLeast
<1> QED
  BY <1>2

\* Known that are live, and items of no array, can be freed.
LEMMA FreeIsSafe ==
  ASSUME TypeOK, Owned, NEW R \in SUBSET Args, R \subseteq Live,
         \A b \in Args : Kids(b) \cap R = {}
  PROVE  /\ FreesOnce(R)
         /\ Tree(R) \subseteq Live
         /\ \A S \in SUBSET Args : S \cap R = {} /\ (\A b \in Args : S \cap Kids(b) = {})
               => S \cap Tree(R) = {}
         /\ \A b \in Args : b \notin Tree(R) => Kids(b) \cap Tree(R) = {}
<1>1. Live \in SUBSET Args /\ Closed(Live)
  BY DEF Live, Owned, Closed
<1>2. Tree(R) \subseteq Live
  BY <1>1, TreeLeast
<1>3. FreesOnce(R)
  BY <1>1, <1>2 DEF FreesOnce, Dying, Owned
<1>4. ASSUME NEW S \in SUBSET Args, S \cap R = {}, \A b \in Args : S \cap Kids(b) = {},
             NEW d \in S, d \in Tree(R)
      PROVE  FALSE
  BY <1>1, <1>2, <1>4, TreeStep
<1>5. ASSUME NEW b \in Args, b \notin Tree(R), NEW d \in Kids(b), d \in Tree(R)
      PROVE  FALSE
  <2>1. d \notin R
    BY <1>5
  <2>2. PICK c \in Tree(R) : d \in Kids(c)
    BY <1>5, <2>1, TreeStep
  <2>3. c \in Args /\ c # b
    BY <1>1, <1>2, <1>5
  <2> QED
    BY <1>5, <2>2, <2>3 DEF Owned
<1> QED
  BY <1>2, <1>3, <1>4, <1>5

\* What freeing does: nothing that another place has dies.
LEMMA FreeEffect ==
  ASSUME TypeOK, Owned, NEW R \in SUBSET Args, R \subseteq Live,
         \A b \in Args : Kids(b) \cap R = {}, Free(R, TRUE), items' = items
  PROVE  /\ fault' = fault
         /\ kind' \in [Args -> Kinds]
         /\ \A a \in Args : kind'[a] = IF a \in Tree(R) THEN "freed" ELSE kind[a]
         /\ Live' = Live \ Tree(R)
         /\ \A b \in Args : Kids(b)' = IF b \in Tree(R) THEN {} ELSE Kids(b)
         /\ \A b \in Args : Kids(b)' \subseteq Kids(b) /\ Kids(b)' \subseteq Live'
         /\ \A S \in SUBSET Live : S \cap R = {} /\ (\A b \in Args : S \cap Kids(b) = {})
               => S \subseteq Live'
<1>1. FreesOnce(R) /\ Tree(R) \subseteq Live
  BY FreeIsSafe
<1>2. fault' = fault /\ kind' = [a \in Args |-> IF a \in Tree(R) THEN "freed" ELSE kind[a]]
  BY <1>1 DEF Free, Dying
<1>3. kind' \in [Args -> Kinds]
  BY <1>2 DEF TypeOK, Kinds
<1>4. \A a \in Args : kind'[a] = IF a \in Tree(R) THEN "freed" ELSE kind[a]
  BY <1>2
<1>5. Live' = Live \ Tree(R)
  BY <1>4 DEF Live
<1>6. \A b \in Args : Kids(b)' = IF b \in Tree(R) THEN {} ELSE Kids(b)
  BY <1>4 DEF Kids
<1>7. \A b \in Args : b \notin Tree(R) => Kids(b) \cap Tree(R) = {}
  BY FreeIsSafe
<1>8. \A b \in Args : Kids(b) \subseteq Live
  BY DEF Owned
<1>9. \A b \in Args : Kids(b)' \subseteq Kids(b) /\ Kids(b)' \subseteq Live'
  BY <1>5, <1>6, <1>7, <1>8
<1>10. ASSUME NEW S \in SUBSET Live, S \cap R = {}, \A b \in Args : S \cap Kids(b) = {}
       PROVE  S \subseteq Live'
  <2>1. S \in SUBSET Args
    BY DEF Live
  <2>2. S \cap Tree(R) = {}
    BY <1>10, <2>1, FreeIsSafe
  <2> QED
    BY <1>5, <2>2
<1> QED
  BY <1>2, <1>3, <1>4, <1>5, <1>6, <1>9, <1>10

\* Nothing that stays is cut off.
LEMMA FreeReaches ==
  ASSUME TypeOK, Owned, NEW R \in SUBSET Args, R \subseteq Live,
         \A b \in Args : Kids(b) \cap R = {}, Free(R, TRUE), items' = items,
         Live \subseteq Tree(Known), Known \ R \subseteq Known'
  PROVE  Live' \subseteq Tree(Known)'
<1> SUFFICES ASSUME NEW a \in Live', NEW S \in SUBSET Args, Known' \subseteq S,
                    \A x \in S : Kids(x)' \subseteq S
             PROVE  a \in S
  BY DEF Tree, Live
<1> DEFINE U == S \cup Tree(R)
<1>1. Tree(R) \in SUBSET Args /\ R \subseteq Tree(R) /\ Closed(Tree(R))
  BY TreeFacts
<1>2. Live' = Live \ Tree(R) /\ \A b \in Args : Kids(b)' = IF b \in Tree(R) THEN {} ELSE Kids(b)
  BY FreeEffect
<1>3. \A x \in U : Kids(x) \subseteq U
  BY <1>1, <1>2 DEF Closed
<1>4. U \in SUBSET Args /\ Known \subseteq U
  BY <1>1
<1>5. Tree(Known) \subseteq U
  <2> HIDE DEF U
  <2> QED
    BY <1>3, <1>4, TreeLeast DEF Closed
<1> QED
  BY <1>2, <1>5

LEMMA Frames ==
  ASSUME NEW s \in Seq(Frame), NEW d \in DOMAIN s
  PROVE  s[d].list \in Lists \cup {NoList} /\ s[d].args \subseteq Args
<1>1. s[d] \in Frame
  OBVIOUS
<1> QED
  BY <1>1 DEF Frame

-----------------------------------------------------------------------------
(* Frees *)

LEMMA InvJsargFree ==
  ASSUME IInv, NEW a \in Args, JsargFree(a)
  PROVE  IInv'
<1>1. TypeOK /\ Good /\ fault = "none" /\ a \in loose /\ a \notin lost
  BY DEF IInv, JsargFree, HostRuns, Held
<1>2. {a} \in SUBSET Args /\ {a} \subseteq Live /\ \A b \in Args : Kids(b) \cap {a} = {}
  BY <1>1 DEF Good, Owned
<1>3. Free({a}, TRUE) /\ loose' = loose \ {a} /\ UNCHANGED <<items, capacity, slots, status, lost, stack, strayed>>
  BY DEF JsargFree
<1>4. /\ fault' = fault
      /\ kind' \in [Args -> Kinds]
      /\ \A x \in Args : kind'[x] = IF x \in Tree({a}) THEN "freed" ELSE kind[x]
      /\ \A b \in Args : Kids(b)' \subseteq Kids(b) /\ Kids(b)' \subseteq Live'
      /\ \A S \in SUBSET Live : S \cap {a} = {} /\ (\A b \in Args : S \cap Kids(b) = {})
               => S \subseteq Live'
  BY <1>1, <1>2, <1>3, FreeEffect DEF Good
<1>5. TypeOK'
  BY <1>1, <1>3, <1>4 DEF TypeOK
<1>6. Owned'
  <2>1. loose' \subseteq Live'
    BY <1>1, <1>3, <1>4 DEF Good, Owned
  <2>2. \A d \in DOMAIN stack : stack[d].args \subseteq Live'
    BY <1>1, <1>4 DEF Good, Owned
  <2>3. \A l \in Lists : Slotted(l) \subseteq Live'
    BY <1>1, <1>4 DEF Good, Owned
  <2>4. \A l \in Lists : Slotted(l)' = Slotted(l)
    BY <1>3 DEF Slotted
  <2>5. \A b \in Args : kind'[b] = "array" => kind[b] = "array"
    BY <1>4
  <2> QED
    BY <1>1, <1>3, <1>4, <2>1, <2>2, <2>3, <2>4, <2>5 DEF Good, Owned
<1>7. Shape'
  BY <1>1, <1>3, <1>4 DEF Good, Shape
<1>8. Reached'
  <2>1. Known \ {a} \subseteq Known'
    BY <1>3 DEF Known, InFrames, Listed, In
  <2> QED
    BY <1>1, <1>2, <1>3, <2>1, FreeReaches DEF Good, Reached
<1> QED
  BY <1>1, <1>3, <1>4, <1>5, <1>6, <1>7, <1>8 DEF IInv, Good, MemorySafe

LEMMA InvFreeList ==
  ASSUME TypeOK, Good, MemorySafe, fault = "none", NEW l \in Lists, ~Gone(l),
         Free(In(slots[l]), Distinct(slots[l])),
         NEW st \in {"used", "freed"}, status' = [status EXCEPT ![l] = st],
         stack' \in Seq(Frame),
         Len(stack') <= Len(stack),
         \A d \in DOMAIN stack' : stack'[d] = stack[d] /\ stack[d].list # l,
         \A d \in DOMAIN stack : d \in DOMAIN stack' \/ stack[d].args = {},
         UNCHANGED <<items, capacity, slots, loose, lost, strayed>>
  PROVE  IInv'
<1> DEFINE R == In(slots[l])
<1>1. R = Slotted(l) /\ R \in SUBSET Args
  BY DEF Slotted, TypeOK, In
<1>2. R \subseteq Live /\ \A b \in Args : Kids(b) \cap R = {}
  BY <1>1 DEF Good, Owned
<1>3. Free(R, TRUE)
  BY DEF Good, Owned, Free
<1>4. DOMAIN stack' \subseteq DOMAIN stack
  BY DEF TypeOK
<1> HIDE DEF R
<1>5. /\ fault' = fault
      /\ kind' \in [Args -> Kinds]
      /\ \A x \in Args : kind'[x] = IF x \in Tree(R) THEN "freed" ELSE kind[x]
      /\ \A b \in Args : Kids(b)' \subseteq Kids(b) /\ Kids(b)' \subseteq Live'
      /\ \A S \in SUBSET Live : S \cap R = {} /\ (\A b \in Args : S \cap Kids(b) = {})
               => S \subseteq Live'
  BY <1>1, <1>2, <1>3, FreeEffect DEF Good
<1>6. TypeOK'
  BY <1>5 DEF TypeOK, Frame
<1>7. \A k \in Lists : Slotted(k)' = IF k = l THEN {} ELSE Slotted(k)
  BY DEF Slotted, TypeOK
<1>8. Owned'
  <2>1. loose' \subseteq Live'
    <3>1. loose \in SUBSET Live /\ loose \cap R = {} /\ \A b \in Args : loose \cap Kids(b) = {}
      BY <1>1 DEF Good, Owned
    <3> QED
      BY <1>5, <3>1
  <2>2. ASSUME NEW d \in DOMAIN stack PROVE stack[d].args \subseteq Live'
    <3>1. /\ stack[d].args \in SUBSET Live /\ stack[d].args \cap R = {}
          /\ \A b \in Args : stack[d].args \cap Kids(b) = {}
      BY <1>1 DEF Good, Owned
    <3> QED
      BY <1>5, <3>1
  <2>3. ASSUME NEW k \in Lists, k # l PROVE Slotted(k) \subseteq Live'
    <3>1. /\ Slotted(k) \in SUBSET Live /\ Slotted(k) \cap R = {}
          /\ \A b \in Args : Slotted(k) \cap Kids(b) = {}
      BY <1>1, <2>3 DEF Good, Owned
    <3> QED
      BY <1>5, <3>1
  <2>5. \A b \in Args : kind'[b] = "array" => kind[b] = "array"
    BY <1>5
  <2>6. \A b \in Args : kind'[b] = "array" => Distinct(items'[b])
    BY <2>5 DEF Good, Owned
  <2>7. \A k \in Lists : ~Gone(k)' => k # l /\ ~Gone(k)
    BY DEF TypeOK
  <2>8. \A k \in Lists : ~Gone(k)' => Distinct(slots'[k])
    BY <2>7 DEF Good, Owned
  <2> QED
    BY <1>4, <1>5, <1>7, <2>1, <2>2, <2>3, <2>6, <2>8 DEF Good, Owned
<1>9. Shape'
  <2>1. \A k \in Lists : status'[k] = IF k = l THEN st ELSE status[k]
    BY DEF TypeOK
  <2>2. \A d \in DOMAIN stack' : stack'[d].list \in Lists \cup {NoList}
    BY Frames
  <2>3. \A a \in Args : kind'[a] = "fresh" => kind[a] = "fresh"
    BY <1>5
  <2> QED
    BY <1>4, <2>1, <2>2, <2>3 DEF Good, Shape
<1>10. Reached'
  <2>1. InFrames \subseteq InFrames'
    BY DEF InFrames
  <2>2. Known \ R \subseteq Known'
    <3>1. \A k \in Lists : ~Gone(k) /\ k # l => ~Gone(k)'
      BY DEF TypeOK
    <3>2. ASSUME NEW x \in Listed, x \notin R
          PROVE  x \in Listed'
      <4>1. PICK k \in Lists : ~Gone(k) /\ x \in In(slots[k])
        BY DEF Listed
      <4>2. k # l
        BY <3>2, <4>1 DEF R
      <4> QED
        BY <3>1, <4>1, <4>2 DEF Listed, In
    <3> QED
      BY <2>1, <3>2 DEF Known
  <2> QED
    BY <1>1, <1>2, <1>3, <2>2, FreeReaches DEF Good, Reached
<1> QED
  BY <1>5, <1>6, <1>8, <1>9, <1>10 DEF IInv, Good, MemorySafe

LEMMA InvJsargFreeAll ==
  ASSUME IInv, NEW l \in Lists, JsargFreeAll(l)
  PROVE  IInv'
<1>1. TypeOK /\ Good /\ MemorySafe /\ fault = "none"
  BY DEF IInv, JsargFreeAll, HostRuns
<1>2. CASE status[l] = "used"
  <2>1. Fails("double_free") /\ strayed' = strayed \cup {"frees_again"}
    BY <1>2 DEF JsargFreeAll, Usable
  <2> QED
    BY <1>1, <2>1 DEF Fails, IInv, TypeOK, MemorySafe, Strayings, Documented, Breaking
<1>3. CASE status[l] # "used"
  <2>1. /\ Usable(l)
        /\ Free(In(slots[l]), Distinct(slots[l]))
        /\ status' = [status EXCEPT ![l] = "freed"]
        /\ UNCHANGED <<items, capacity, slots, loose, lost, stack, strayed>>
    BY <1>3 DEF JsargFreeAll
  <2>2. \A d \in DOMAIN stack : stack[d].list # l
    <3>1. l # NoList
      BY NilAssumption
    <3> QED
      BY <1>1, <2>1, <3>1 DEF Usable, Good, Shape
  <2>3. Len(stack) \in Nat /\ stack \in Seq(Frame)
    BY <1>1 DEF TypeOK, Frame
  <2>4. /\ Len(stack') <= Len(stack) /\ stack' \in Seq(Frame) /\ DOMAIN stack' = DOMAIN stack
        /\ \A d \in DOMAIN stack' : stack'[d] = stack[d] /\ stack[d].list # l
    BY <2>1, <2>2, <2>3
  <2> QED
    BY <1>1, <2>1, <2>4, InvFreeList DEF Usable
<1> QED
  BY <1>2, <1>3

LEMMA Popped ==
  ASSUME TypeOK, stack # <<>>, Pop
  PROVE  /\ stack' \in Seq(Frame)
         /\ Len(stack) \in DOMAIN stack
         /\ DOMAIN stack' = DOMAIN stack \ {Len(stack)}
         /\ \A d \in DOMAIN stack' : stack'[d] = stack[d]
         /\ Len(stack') <= Len(stack)
<1>1. stack \in Seq(Frame) /\ Len(stack) \in Nat /\ Len(stack) # 0
  BY DEF TypeOK, Frame
<1>2. stack' = SubSeq(stack, 1, Len(stack) - 1)
  BY DEF Pop
<1> HIDE DEF Frame
<1> QED
  BY <1>1, <1>2

LEMMA InvEndCall ==
  ASSUME IInv, EndCall
  PROVE  IInv'
<1> DEFINE l == stack[Len(stack)].list
<1>1. TypeOK /\ Good /\ MemorySafe /\ fault = "none" /\ stack # <<>> /\ l # NoList
  BY DEF IInv, EndCall
<1>2. /\ stack' \in Seq(Frame)
      /\ Len(stack) \in DOMAIN stack
      /\ DOMAIN stack' = DOMAIN stack \ {Len(stack)}
      /\ \A d \in DOMAIN stack' : stack'[d] = stack[d]
      /\ Len(stack') <= Len(stack)
  BY <1>1, Popped DEF EndCall
<1>3. l \in Lists /\ status[l] = "passed"
  <2>1. stack \in Seq(Frame)
    BY <1>1 DEF TypeOK, Frame
  <2> QED
    BY <1>1, <1>2, <2>1, Frames DEF Good, Shape
<1>4. \A d \in DOMAIN stack' : stack[d].list # l
  BY <1>1, <1>2 DEF Good, Shape
<1>5. stack[Len(stack)].args = {}
  BY <1>1, <1>2 DEF Good, Shape
<1> QED
  BY <1>1, <1>2, <1>3, <1>4, <1>5, InvFreeList DEF EndCall

\* The result is the host's own: it dies with the arguments.
LEMMA InvReturnsOwn ==
  ASSUME IInv, NEW r \in Args, EndCallback(r), r \notin stack[Len(stack)].args
  PROVE  IInv'
<1> DEFINE A == stack[Len(stack)].args
           R == {r} \cup A
<1>1. /\ TypeOK /\ Good /\ MemorySafe /\ fault = "none" /\ stack # <<>> /\ r \in loose /\ r \notin lost
      /\ stack \in Seq(Frame)
  BY DEF IInv, EndCallback, HostRuns, TypeOK, Frame, Held
<1>2. /\ stack' \in Seq(Frame)
      /\ Len(stack) \in DOMAIN stack
      /\ DOMAIN stack' = DOMAIN stack \ {Len(stack)}
      /\ \A d \in DOMAIN stack' : stack'[d] = stack[d]
      /\ Len(stack') <= Len(stack)
  BY <1>1, Popped DEF EndCallback
<1>3. /\ loose' = loose \ {r}
      /\ UNCHANGED <<items, capacity, slots, status, lost, strayed>>
  BY DEF EndCallback
<1>4. A \subseteq Live \ loose /\ r \in Live
  BY <1>1, <1>2 DEF Good, Owned
<1>5. R \in SUBSET Args /\ R \subseteq Live /\ \A b \in Args : Kids(b) \cap R = {}
  BY <1>1, <1>2, <1>4 DEF Good, Owned, Live
<1>6. Free(R, TRUE)
  <2>1. r \notin A
    BY <1>1, <1>4
  <2> QED
    BY <2>1 DEF EndCallback, Free
<1>7. \A S \in SUBSET Live : S \subseteq loose' \/ (\E d \in DOMAIN stack' : S \subseteq stack[d].args)
                              \/ (\E l \in Lists : S \subseteq Slotted(l))
        => S \cap R = {} /\ \A b \in Args : S \cap Kids(b) = {}
  BY <1>1, <1>2, <1>3, <1>4 DEF Good, Owned
<1> HIDE DEF R, A
<1>8. /\ fault' = fault
      /\ kind' \in [Args -> Kinds]
      /\ \A x \in Args : kind'[x] = IF x \in Tree(R) THEN "freed" ELSE kind[x]
      /\ \A b \in Args : Kids(b)' \subseteq Kids(b) /\ Kids(b)' \subseteq Live'
      /\ \A S \in SUBSET Live : S \cap R = {} /\ (\A b \in Args : S \cap Kids(b) = {})
               => S \subseteq Live'
  BY <1>1, <1>3, <1>5, <1>6, FreeEffect DEF Good
<1>9. TypeOK'
  BY <1>1, <1>2, <1>3, <1>8 DEF TypeOK, Frame
<1>10. Owned'
  <2>1. loose' \subseteq Live'
    <3>1. loose' \in SUBSET Live
      BY <1>1, <1>3 DEF Good, Owned
    <3>2. loose' \cap R = {} /\ \A b \in Args : loose' \cap Kids(b) = {}
      BY <1>7, <3>1
    <3> QED
      BY <1>8, <3>1, <3>2
  <2>2. ASSUME NEW d \in DOMAIN stack' PROVE stack'[d].args \subseteq Live'
    <3>1. stack'[d] = stack[d] /\ d \in DOMAIN stack /\ stack[d].args \in SUBSET Live
      BY <1>1, <1>2 DEF Good, Owned
    <3>2. stack[d].args \cap R = {} /\ \A b \in Args : stack[d].args \cap Kids(b) = {}
      BY <1>7, <3>1
    <3> QED
      BY <1>8, <3>1, <3>2
  <2>3. ASSUME NEW l \in Lists PROVE Slotted(l) \subseteq Live'
    <3>1. Slotted(l) \in SUBSET Live
      BY <1>1 DEF Good, Owned
    <3>2. Slotted(l) \cap R = {} /\ \A b \in Args : Slotted(l) \cap Kids(b) = {}
      BY <1>7, <3>1
    <3> QED
      BY <1>8, <3>1, <3>2
  <2>4. \A l \in Lists : Slotted(l)' = Slotted(l)
    BY <1>3 DEF Slotted
  <2>5. \A b \in Args : kind'[b] = "array" => kind[b] = "array"
    BY <1>8
  <2> QED
    BY <1>1, <1>2, <1>3, <1>8, <2>1, <2>2, <2>3, <2>4, <2>5 DEF Good, Owned
<1>11. Shape'
  BY <1>1, <1>2, <1>3, <1>8 DEF Good, Shape
<1>12. Reached'
  <2>1. Listed' = Listed
    BY <1>3 DEF Listed, In
  <2>2. \A x \in InFrames : x \notin A => x \in InFrames'
    BY <1>2 DEF InFrames, A
  <2>3. Known \ R \subseteq Known'
    BY <1>3, <2>1, <2>2 DEF Known, R
  <2> QED
    BY <1>1, <1>3, <1>5, <1>6, <2>3, FreeReaches DEF Good, Reached
<1> QED
  BY <1>1, <1>3, <1>8, <1>9, <1>10, <1>11, <1>12 DEF IInv, Good, MemorySafe

\* A result that is one of the arguments is freed twice.
LEMMA InvEndCallback ==
  ASSUME IInv, NEW r \in Args, EndCallback(r)
  PROVE  IInv'
<1> DEFINE A == stack[Len(stack)].args
           R == {r} \cup A
<1>0. CASE r \in A
  <2>1. /\ TypeOK /\ Good /\ fault = "none" /\ stack # <<>> /\ stack' \in Seq(Frame)
        /\ Len(stack) \in DOMAIN stack
    BY Popped DEF IInv, EndCallback, HostRuns
  <2>2. r \notin loose
    BY <1>0, <2>1 DEF Good, Owned
  <2>3. /\ fault' = "double_free" /\ strayed' = strayed \cup {"returns_argument"} /\ loose' = loose
        /\ UNCHANGED <<kind, items, capacity, slots, status, lost>>
    BY <1>0, <2>1, <2>2 DEF EndCallback, Free, Held, TypeOK
  <2> QED
    BY <2>1, <2>3 DEF IInv, TypeOK, MemorySafe, Strayings, Documented, Breaking, Frame
<1>1. CASE r \notin A
  BY <1>1, InvReturnsOwn
<1> QED
  BY <1>0, <1>1

-----------------------------------------------------------------------------
(* Building *)

\* New JSArgs that a place, or a new array in a place, holds.
LEMMA GrowEffect ==
  ASSUME TypeOK, Owned, NEW N \in SUBSET Fresh,
         \A a \in Args : a \notin N => kind'[a] = kind[a] /\ items'[a] = items[a],
         \A a \in N : kind'[a] \in {"leaf", "array"}
  PROVE  /\ Live' = Live \cup N /\ Live \cap N = {}
         /\ \A b \in Args : b \notin N => Kids(b)' = Kids(b)
         /\ \A b \in N : Kids(b) = {}
BY DEF Live, Kids, Fresh, In

LEMMA GrowReaches ==
  ASSUME TypeOK, Owned, NEW N \in SUBSET Fresh,
         \A a \in Args : a \notin N => kind'[a] = kind[a] /\ items'[a] = items[a],
         \A a \in N : kind'[a] \in {"leaf", "array"},
         Live \subseteq Tree(Known), Known \subseteq Known',
         \A a \in N : a \in Known' \/ \E b \in Known' \cap Args : a \in Kids(b)'
  PROVE  Live' \subseteq Tree(Known)'
<1> SUFFICES ASSUME NEW a \in Live', NEW S \in SUBSET Args, Known' \subseteq S,
                    \A x \in S : Kids(x)' \subseteq S
             PROVE  a \in S
  BY DEF Tree, Live
<1>1. /\ Live' = Live \cup N
      /\ \A b \in Args : Kids(b) \subseteq Kids(b)'
  BY GrowEffect
<1>2. Closed(S) /\ Known \subseteq S
  BY <1>1 DEF Closed
<1>3. Tree(Known) \subseteq S
  BY <1>2, TreeLeast
<1> QED
  BY <1>1, <1>3

LEMMA InvNewLeaf ==
  ASSUME IInv, NEW a \in Args, NewLeaf(a)
  PROVE  IInv'
<1>1. TypeOK /\ Good /\ MemorySafe /\ fault = "none" /\ {a} \in SUBSET Fresh
  BY DEF IInv, NewLeaf, HostRuns
<1>2. /\ kind' = [kind EXCEPT ![a] = "leaf"] /\ loose' = loose \cup {a}
      /\ UNCHANGED <<items, capacity, slots, status, lost, stack, fault, strayed>>
  BY DEF NewLeaf
<1>3. TypeOK'
  BY <1>1, <1>2 DEF TypeOK, Kinds
<1>4. /\ \A x \in Args : kind'[x] = IF x = a THEN "leaf" ELSE kind[x]
      /\ kind[a] = "fresh"
  BY <1>1, <1>2 DEF TypeOK, Fresh
<1>5. Live' = Live \cup {a} /\ a \notin Live /\ \A b \in Args : Kids(b)' = Kids(b)
  BY <1>2, <1>4 DEF Live, Kids
<1>6. \A l \in Lists : Slotted(l)' = Slotted(l)
  BY <1>2 DEF Slotted
<1>7. Owned'
  BY <1>1, <1>2, <1>4, <1>5, <1>6 DEF Good, Owned
<1>8. Shape'
  BY <1>1, <1>2, <1>4 DEF Good, Shape
<1>9. Known' = Known \cup {a}
  BY <1>2 DEF Known, InFrames, Listed, In
<1>10. Reached'
  BY <1>1, <1>2, <1>4, <1>9, GrowReaches DEF Good, Reached
<1> QED
  BY <1>1, <1>2, <1>3, <1>7, <1>8, <1>10 DEF IInv, Good, MemorySafe

LEMMA Stopped ==
  ASSUME TypeOK, NEW what \in {"throws", "null_pointer"}, Fails(what), strayed' = strayed,
         "adds_to_list" \in strayed \/ what = "throws"
  PROVE  IInv'
BY DEF Fails, IInv, TypeOK, MemorySafe, Breaking

LEMMA InvJsargCarray ==
  ASSUME IInv, NEW a \in Args, NEW n \in 0 .. MaxCount, JsargCarray(a, n)
  PROVE  IInv'
<1>1. TypeOK /\ Good /\ MemorySafe /\ fault = "none" /\ {a} \in SUBSET Fresh
  BY DEF IInv, JsargCarray, HostRuns
<1>2. CASE n = 0
  BY <1>1, <1>2, Stopped, BoundsAssumption DEF JsargCarray
<1>3. CASE n # 0
  <2>1. /\ kind' = [kind EXCEPT ![a] = "array"] /\ loose' = loose \cup {a}
        /\ capacity' = [capacity EXCEPT ![a] = n]
        /\ UNCHANGED <<items, slots, status, lost, stack, fault, strayed>>
    BY <1>3 DEF JsargCarray
  <2>2. items[a] = <<>>
    BY <1>1 DEF Good, Shape, Fresh
  <2>3. TypeOK'
    <3>1. /\ capacity' \in [Args -> 0 .. MaxCount] /\ kind' \in [Args -> Kinds]
          /\ \A b \in Args : capacity'[b] = IF b = a THEN n ELSE capacity[b]
      BY <1>1, <2>1 DEF TypeOK, Kinds
    <3>2. \A b \in Args : Len(items'[b]) <= capacity'[b]
      <4>1. Len(items[a]) = 0
        BY <2>2
      <4> QED
        BY <1>1, <2>1, <3>1, <4>1 DEF TypeOK
    <3> QED
      BY <1>1, <2>1, <3>1, <3>2 DEF TypeOK
  <2>4. /\ \A x \in Args : kind'[x] = IF x = a THEN "array" ELSE kind[x]
        /\ kind[a] = "fresh"
    BY <1>1, <2>1 DEF TypeOK, Fresh
  <2>5. Live' = Live \cup {a} /\ a \notin Live /\ \A b \in Args : Kids(b)' = Kids(b)
    <3>1. Live' = Live \cup {a} /\ a \notin Live
      BY <2>4 DEF Live
    <3>2. Kids(a)' = {} /\ Kids(a) = {}
      BY <2>1, <2>2, <2>4 DEF Kids, In
    <3>3. \A b \in Args : b # a => Kids(b)' = Kids(b)
      BY <2>1, <2>4 DEF Kids
    <3> QED
      BY <3>1, <3>2, <3>3
  <2>6. \A l \in Lists : Slotted(l)' = Slotted(l)
    BY <2>1 DEF Slotted
  <2>7. Distinct(items'[a])
    BY <2>1, <2>2 DEF Distinct
  <2>8. Owned'
    BY <1>1, <2>1, <2>4, <2>5, <2>6, <2>7 DEF Good, Owned
  <2>9. Shape'
    BY <1>1, <2>1, <2>4 DEF Good, Shape
  <2>10. Known' = Known \cup {a}
    BY <2>1 DEF Known, InFrames, Listed, In
  <2>11. Reached'
    BY <1>1, <2>1, <2>4, <2>10, GrowReaches DEF Good, Reached
  <2> QED
    BY <1>1, <2>1, <2>3, <2>8, <2>9, <2>11 DEF IInv, Good, MemorySafe
<1> QED
  BY <1>2, <1>3

LEMMA InvJsargMakeList ==
  ASSUME IInv, NEW l \in Lists, NEW n \in 0 .. MaxCount, NEW a \in Args, JsargMakeList(l, n, a)
  PROVE  IInv'
<1>1. TypeOK /\ Good /\ MemorySafe /\ fault = "none" /\ {a} \in SUBSET Fresh /\ status[l] = "absent"
  BY DEF IInv, JsargMakeList, HostRuns
<1>2. CASE n = 0
  BY <1>1, <1>2, Stopped, BoundsAssumption DEF JsargMakeList
<1>3. CASE n # 0
  <2> DEFINE s == [i \in 1 .. n |-> IF i = 1 THEN a ELSE NoArg]
  <2>1. /\ kind' = [kind EXCEPT ![a] = "leaf"]
        /\ slots' = [slots EXCEPT ![l] = s]
        /\ status' = [status EXCEPT ![l] = "open"]
        /\ UNCHANGED <<items, capacity, loose, lost, stack, fault, strayed>>
    BY <1>3 DEF JsargMakeList
  <2>2. n \in Nat /\ 1 \in 1 .. n /\ n <= MaxCount
    BY <1>3, BoundsAssumption
  <2>3. s \in Seq(Args \cup {NoArg}) /\ Len(s) = n /\ In(s) = {a} /\ Distinct(s)
    BY <2>2, NilAssumption DEF In, Distinct
  <2> HIDE DEF s
  <2>4. /\ \A x \in Args : kind'[x] = IF x = a THEN "leaf" ELSE kind[x]
        /\ kind[a] = "fresh"
        /\ \A k \in Lists : slots'[k] = IF k = l THEN s ELSE slots[k]
        /\ \A k \in Lists : status'[k] = IF k = l THEN "open" ELSE status[k]
    BY <1>1, <2>1 DEF TypeOK, Fresh
  <2>5. TypeOK'
    <3>1. slots' \in [Lists -> Seq(Args \cup {NoArg})]
      BY <1>1, <2>1, <2>3 DEF TypeOK
    <3> QED
      BY <1>1, <2>1, <3>1 DEF TypeOK, Kinds
  <2>6. Live' = Live \cup {a} /\ a \notin Live /\ \A b \in Args : Kids(b)' = Kids(b)
    BY <2>1, <2>4 DEF Live, Kids
  <2>7. \A k \in Lists : Slotted(k)' = IF k = l THEN {a} ELSE Slotted(k)
    BY <2>3, <2>4 DEF Slotted
  <2>8. \A k \in Lists : ~Gone(k)' => Distinct(slots'[k])
    BY <1>1, <2>3, <2>4 DEF Good, Owned
  <2>9. Owned'
    BY <1>1, <2>1, <2>4, <2>6, <2>7, <2>8 DEF Good, Owned
  <2>10. Shape'
    <3>1. \A d \in DOMAIN stack : stack[d].list # NoList => stack[d].list \in Lists /\ stack[d].list # l
      BY <1>1, Frames DEF TypeOK, Frame, Good, Shape
    <3>2. \A k \in Lists : Len(slots'[k]) <= MaxCount
      BY <1>1, <2>2, <2>3, <2>4 DEF Good, Shape
    <3> QED
      BY <1>1, <2>1, <2>4, <3>1, <3>2 DEF Good, Shape
  <2>11. Reached'
    <3>1. Listed \subseteq Listed'
      <4>1. \A k \in Lists : k # l /\ ~Gone(k) => ~Gone(k)' /\ slots'[k] = slots[k]
        BY <2>4
      <4>2. In(slots[l]) = {}
        BY <1>1 DEF Good, Shape, In
      <4> QED
        BY <4>1, <4>2 DEF Listed, In
    <3>2. a \in Listed'
      <4>1. a \in In(slots'[l]) /\ ~Gone(l)'
        BY <2>3, <2>4
      <4>2. Listed' = UNION {In(slots'[k]) : k \in {x \in Lists : ~Gone(x)'}}
        BY DEF Listed, In
      <4> QED
        BY <4>1, <4>2
    <3>3. Known \subseteq Known' /\ a \in Known'
      BY <2>1, <3>1, <3>2 DEF Known, InFrames
    <3>4. \A x \in Args : x \notin {a} => kind'[x] = kind[x] /\ items'[x] = items[x]
      BY <2>1, <2>4
    <3>5. \A x \in {a} : kind'[x] \in {"leaf", "array"} /\ x \in Known'
      BY <2>4, <3>3
    <3> QED
      BY <1>1, <3>3, <3>4, <3>5, GrowReaches DEF Good, Reached
  <2> QED
    BY <1>1, <2>1, <2>5, <2>9, <2>10, <2>11 DEF IInv, Good, MemorySafe
<1> QED
  BY <1>2, <1>3

LEMMA AppendFacts ==
  ASSUME NEW s \in Seq(Args), NEW a \in Args
  PROVE  /\ In(Append(s, a)) = In(s) \cup {a}
         /\ a \notin In(s) /\ Distinct(s) => Distinct(Append(s, a))
<1> DEFINE t == Append(s, a)
<1>1. /\ Len(s) \in Nat /\ DOMAIN s = 1 .. Len(s) /\ DOMAIN t = 1 .. (Len(s) + 1)
      /\ t[Len(s) + 1] = a /\ \A i \in 1 .. Len(s) : t[i] = s[i]
  OBVIOUS
<1>2. a # NoArg
  BY NilAssumption
<1> HIDE DEF t
<1>3. DOMAIN t = DOMAIN s \cup {Len(s) + 1} /\ Len(s) + 1 \notin DOMAIN s
  BY <1>1
<1>4. \A i \in DOMAIN t : t[i] = IF i = Len(s) + 1 THEN a ELSE s[i]
  BY <1>1
<1>5. In(t) = In(s) \cup {a}
  BY <1>2, <1>3, <1>4 DEF In
<1>6. ASSUME a \notin In(s), Distinct(s) PROVE Distinct(t)
  BY <1>2, <1>3, <1>4, <1>6 DEF In, Distinct
<1> QED
  BY <1>5, <1>6 DEF t

\* The JSArg leaves the host for the array; the host keeps it when the array is
\* full or none.
LEMMA InvAddValue ==
  ASSUME IInv, NEW a \in Args, NEW b \in Args, AddValueToCArray(b, a)
  PROVE  IInv'
<1>1. TypeOK /\ Good /\ MemorySafe /\ fault = "none" /\ a \in loose /\ a \notin lost /\ b \in Live /\ b \notin Tree({a})
  BY DEF IInv, AddValueToCArray, HostRuns, Held
<1>2. CASE ~(kind[b] = "array" /\ HasRoom(b))
  <2>1. UNCHANGED vars
    BY <1>2 DEF AddValueToCArray, vars
  <2>2. /\ TypeOK' = TypeOK /\ MemorySafe' = MemorySafe /\ Shape' = Shape
        /\ Live' = Live /\ \A x \in Args : Kids(x)' = Kids(x)
        /\ \A l \in Lists : Slotted(l)' = Slotted(l)
    BY <2>1 DEF vars, TypeOK, MemorySafe, Shape, Live, Kids, In, Slotted
  <2>3. Known' = Known
    BY <2>1 DEF vars, Known, InFrames, Listed, In
  <2>4. Reached'
    BY <1>1, <2>1, <2>2, <2>3 DEF Good, Reached, Tree, vars
  <2>5. Owned'
    BY <1>1, <2>1, <2>2 DEF Good, Owned, vars
  <2> QED
    BY <1>1, <2>1, <2>2, <2>4, <2>5 DEF IInv, Good, MemorySafe, vars
<1>3. CASE kind[b] = "array" /\ HasRoom(b)
  <2>1. /\ items' = [items EXCEPT ![b] = Append(@, a)] /\ loose' = loose \ {a}
        /\ UNCHANGED <<kind, capacity, slots, status, lost, stack, fault, strayed>>
    BY <1>3 DEF AddValueToCArray
  <2>2. items[b] \in Seq(Args) /\ capacity[b] \in Nat /\ Len(items[b]) + 1 <= capacity[b]
    BY <1>1, <1>3, BoundsAssumption DEF TypeOK, HasRoom
  <2>3. \A x \in Args : items'[x] = IF x = b THEN Append(items[b], a) ELSE items[x]
    BY <1>1, <2>1 DEF TypeOK
  <2>4. a \in Args /\ a # NoArg
    BY NilAssumption
  <2>5. In(Append(items[b], a)) = In(items[b]) \cup {a}
    BY <2>2, AppendFacts
  <2>6. Live' = Live /\ \A x \in Args : Kids(x)' = IF x = b THEN Kids(b) \cup {a} ELSE Kids(x)
    <3>1. Live' = Live
      BY <2>1 DEF Live
    <3>2. Kids(b)' = In(items'[b]) /\ Kids(b) = In(items[b])
      BY <1>3, <2>1 DEF Kids, In
    <3>3. \A x \in Args : x # b => Kids(x)' = Kids(x)
      BY <2>1, <2>3 DEF Kids, In
    <3> QED
      BY <2>3, <2>5, <3>1, <3>2, <3>3
  <2>7. TypeOK'
    <3>1. Append(items[b], a) \in Seq(Args) /\ Len(Append(items[b], a)) = Len(items[b]) + 1
      BY <2>2
    <3>2. items' \in [Args -> Seq(Args)]
      BY <1>1, <2>1, <3>1 DEF TypeOK
    <3>3. \A x \in Args : Len(items'[x]) <= capacity[x]
      BY <1>1, <2>2, <2>3, <3>1 DEF TypeOK
    <3> QED
      BY <1>1, <2>1, <3>2, <3>3 DEF TypeOK
  <2>8. Distinct(items'[b])
    <3>1. a \notin In(items[b]) /\ Distinct(items[b])
      BY <1>1, <1>3 DEF Good, Owned, Kids
    <3> QED
      BY <2>2, <2>3, <3>1, AppendFacts
  <2>9. \A l \in Lists : Slotted(l)' = Slotted(l)
    BY <2>1 DEF Slotted
  <2>10. \A x \in Args : kind'[x] = "array" => Distinct(items'[x])
    BY <1>1, <2>1, <2>3, <2>8 DEF Good, Owned
  <2>11. Owned'
    BY <1>1, <2>1, <2>6, <2>9, <2>10 DEF Good, Owned
  <2>12. Shape'
    BY <1>1, <1>3, <2>1, <2>3 DEF Good, Shape
  <2>13. Reached'
    <3> SUFFICES ASSUME NEW c \in Live, NEW S \in SUBSET Args, Known' \subseteq S,
                        \A x \in S : Kids(x)' \subseteq S
                 PROVE  c \in S
      BY <2>1, <2>6 DEF Reached, Tree, Live
    <3>1. Live \subseteq Tree(Known)
      BY <1>1, <2>1 DEF Good, Reached
    <3>2. Known \subseteq Known' \cup {a}
      BY <2>1 DEF Known, InFrames, Listed, In
    <3>3. Closed(S)
      BY <2>6 DEF Closed
    <3>4. Tree({a}) \in SUBSET Args /\ {a} \subseteq Tree({a}) /\ Closed(Tree({a}))
      BY <1>1, TreeFacts
    <3> DEFINE U == S \cup Tree({a})
    <3>5. U \in SUBSET Args /\ Known \subseteq U /\ Closed(U)
      BY <3>2, <3>3, <3>4 DEF Closed
    <3> HIDE DEF U
    <3>6. b \in U
      BY <1>1, <3>1, <3>5, TreeLeast
    <3>7. a \in S
      BY <1>1, <2>6, <3>6 DEF U
    <3>8. Known \subseteq S
      BY <3>2, <3>7
    <3> QED
      BY <3>1, <3>3, <3>8, TreeLeast
  <2> QED
    BY <1>1, <2>1, <2>7, <2>11, <2>12, <2>13 DEF IInv, Good, MemorySafe
<1> QED
  BY <1>2, <1>3

LEMMA InvWriteSlot ==
  ASSUME IInv, NEW l \in Lists, NEW i \in Index, NEW a \in Args, WriteSlot(l, i, a)
  PROVE  IInv'
<1> DEFINE s == [slots[l] EXCEPT ![i] = a]
           old == {slots[l][i]} \ {NoArg}
<1>1. /\ TypeOK /\ Good /\ MemorySafe /\ fault = "none" /\ a \in loose /\ a \notin lost /\ i \in DOMAIN slots[l]
      /\ status[l] \in {"open", "rejected"}
  BY DEF IInv, WriteSlot, HostRuns, Usable, Held
<1>2. /\ slots' = [slots EXCEPT ![l] = s] /\ loose' = (loose \ {a}) \cup old
      /\ lost' \subseteq lost \cup old /\ strayed' \in {strayed, strayed \cup {"overwrites_slot"}}
      /\ UNCHANGED <<kind, items, capacity, status, stack, fault>>
  BY <1>1 DEF WriteSlot, TypeOK
<1>3. slots[l] \in Seq(Args \cup {NoArg}) /\ a # NoArg
  BY <1>1, NilAssumption DEF TypeOK
<1>4. s \in Seq(Args \cup {NoArg}) /\ Len(s) = Len(slots[l])
  BY <1>1, <1>3
<1>5. \A k \in Lists : slots'[k] = IF k = l THEN s ELSE slots[k]
  BY <1>1, <1>2 DEF TypeOK
<1>6. a \notin In(slots[l]) /\ Distinct(slots[l]) /\ In(slots[l]) \subseteq Live \ loose
  BY <1>1 DEF Good, Owned, Slotted
<1>7. In(s) = (In(slots[l]) \ old) \cup {a} /\ Distinct(s) /\ old \subseteq In(slots[l])
  <2>1. /\ DOMAIN s = DOMAIN slots[l]
        /\ \A j \in DOMAIN s : s[j] = IF j = i THEN a ELSE slots[l][j]
    BY <1>3
  <2> HIDE DEF s
  <2> QED
    BY <1>1, <1>3, <1>6, <2>1 DEF In, Distinct
<1> HIDE DEF s, old
<1>8. Live' = Live /\ \A x \in Args : Kids(x)' = Kids(x)
  BY <1>2 DEF Live, Kids
<1>9. \A k \in Lists : Slotted(k)' = IF k = l THEN (Slotted(l) \ old) \cup {a} ELSE Slotted(k)
  BY <1>1, <1>2, <1>5, <1>7 DEF Slotted
<1>10. old \subseteq Slotted(l)
  BY <1>1, <1>7 DEF Slotted
<1>11. TypeOK'
  <2>1. slots' \in [Lists -> Seq(Args \cup {NoArg})]
    BY <1>1, <1>2, <1>4 DEF TypeOK
  <2>2. loose' \in SUBSET Args /\ lost' \in SUBSET loose'
    BY <1>1, <1>2, <1>6, <1>7 DEF TypeOK, Live
  <2>3. strayed' \in SUBSET Strayings
    BY <1>1, <1>2 DEF TypeOK, Strayings, Documented
  <2> QED
    BY <1>1, <1>2, <2>1, <2>2, <2>3 DEF TypeOK
<1>12. Owned'
  <2>1. \A k \in Lists : ~Gone(k)' => Distinct(slots'[k])
    BY <1>1, <1>2, <1>5, <1>7 DEF Good, Owned
  <2>2. loose' \subseteq Live
    BY <1>1, <1>2, <1>6, <1>7 DEF Good, Owned
  <2> QED
    BY <1>1, <1>2, <1>8, <1>9, <1>10, <2>1, <2>2 DEF Good, Owned
<1>13. Shape'
  BY <1>1, <1>2, <1>4, <1>5 DEF Good, Shape
<1>14. Reached'
  <2>1. Listed \ old \subseteq Listed'
    <3>1. ASSUME NEW x \in Listed, x \notin old PROVE x \in Listed'
      <4>1. PICK k \in Lists : ~Gone(k) /\ x \in In(slots[k])
        BY DEF Listed
      <4>2. ~Gone(k)' /\ x \in In(slots'[k])
        BY <1>2, <1>5, <1>7, <3>1, <4>1
      <4>3. Listed' = UNION {In(slots'[y]) : y \in {z \in Lists : ~Gone(z)'}}
        BY DEF Listed, In
      <4> QED
        BY <4>2, <4>3
    <3> QED
      BY <3>1
  <2>2. a \in Listed'
    <3>1. ~Gone(l)' /\ a \in In(slots'[l])
      BY <1>1, <1>2, <1>5, <1>7
    <3>2. Listed' = UNION {In(slots'[y]) : y \in {z \in Lists : ~Gone(z)'}}
      BY DEF Listed, In
    <3> QED
      BY <3>1, <3>2
  <2>3. Known \subseteq Known'
    BY <1>2, <2>1, <2>2 DEF Known, InFrames
  <2> SUFFICES ASSUME NEW c \in Live, NEW S \in SUBSET Args, Known' \subseteq S,
                      \A x \in S : Kids(x)' \subseteq S
               PROVE  c \in S
    BY <1>2, <1>8 DEF Reached, Tree, Live
  <2>4. Closed(S) /\ Known \subseteq S
    BY <1>8, <2>3 DEF Closed
  <2>5. Tree(Known) \subseteq S
    BY <2>4, TreeLeast
  <2> QED
    BY <1>1, <2>5 DEF Good, Reached
<1> QED
  BY <1>1, <1>2, <1>11, <1>12, <1>13, <1>14 DEF IInv, Good, MemorySafe

LEMMA InvAddToList ==
  ASSUME IInv, NEW l \in Lists, NEW i \in Index, NEW a \in Args, AddToList(l, i, a)
  PROVE  IInv'
<1>1. /\ TypeOK /\ Good /\ fault = "none" /\ a \in loose
      /\ lost' = lost \cup {a} /\ strayed' = strayed \cup {"adds_to_list"}
      /\ UNCHANGED <<kind, items, capacity, slots, status, loose, stack, fault>>
  BY DEF IInv, AddToList, HostRuns, Held
<1>2. TypeOK' /\ MemorySafe'
  BY <1>1 DEF TypeOK, MemorySafe, Strayings, Documented
<1>3. /\ Live' = Live /\ \A x \in Args : Kids(x)' = Kids(x)
      /\ \A k \in Lists : Slotted(k)' = Slotted(k)
  BY <1>1 DEF Live, Kids, Slotted
<1>4. Owned' /\ Shape'
  BY <1>1, <1>3 DEF Good, Owned, Shape
<1>5. Known' = Known
  BY <1>1 DEF Known, InFrames, Listed, In
<1>6. Reached'
  BY <1>1, <1>3, <1>5 DEF Good, Reached, Tree
<1> QED
  BY <1>2, <1>4, <1>6 DEF IInv, Good

-----------------------------------------------------------------------------
(* Calls and callbacks *)

LEMMA Pushed ==
  ASSUME NEW s \in Seq(Frame), NEW f \in Frame
  PROVE  /\ Append(s, f) \in Seq(Frame)
         /\ Len(s) \in Nat /\ Len(s) + 1 \notin DOMAIN s
         /\ DOMAIN Append(s, f) = DOMAIN s \cup {Len(s) + 1}
         /\ \A d \in DOMAIN s : Append(s, f)[d] = s[d]
         /\ Append(s, f)[Len(s) + 1] = f
OBVIOUS

LEMMA InvBeginCall ==
  ASSUME IInv, NEW l \in Lists, BeginCall(l)
  PROVE  IInv'
<1>1. TypeOK /\ Good /\ MemorySafe /\ fault = "none" /\ stack \in Seq(Frame) /\ status[l] \in {"open", "rejected"}
  BY DEF IInv, BeginCall, HostRuns, Usable, TypeOK, Frame
<1>2. CASE ~Filled(l)
  BY <1>1, <1>2, Stopped DEF BeginCall
<1>3. CASE Filled(l)
  <2> DEFINE f == [list |-> l, args |-> {}]
  <2>1. /\ status' = [status EXCEPT ![l] = "passed"] /\ stack' = Append(stack, f)
        /\ fault' = IF Tree(In(slots[l])) \subseteq Live THEN fault ELSE "use_after_free"
        /\ UNCHANGED <<kind, items, capacity, slots, loose, lost, strayed>>
    BY <1>3 DEF BeginCall
  <2>2. Tree(In(slots[l])) \subseteq Live
    <3>1. In(slots[l]) \subseteq Live /\ Live \in SUBSET Args /\ Closed(Live)
      BY <1>1 DEF Good, Owned, Slotted, Closed, Live
    <3> QED
      BY <3>1, TreeLeast
  <2>3. f \in Frame /\ f.list = l /\ f.args = {}
    BY DEF Frame
  <2> HIDE DEF f
  <2>4. /\ stack' \in Seq(Frame)
        /\ Len(stack) + 1 \notin DOMAIN stack
        /\ DOMAIN stack' = DOMAIN stack \cup {Len(stack) + 1}
        /\ \A d \in DOMAIN stack : stack'[d] = stack[d]
        /\ stack'[Len(stack) + 1] = f
    BY <1>1, <2>1, <2>3, Pushed
  <2>5. \A k \in Lists : status'[k] = IF k = l THEN "passed" ELSE status[k]
    BY <1>1, <2>1 DEF TypeOK
  <2>6. TypeOK'
    BY <1>1, <2>1, <2>2, <2>4 DEF TypeOK, Frame
  <2>7. /\ Live' = Live /\ \A x \in Args : Kids(x)' = Kids(x)
        /\ \A k \in Lists : Slotted(k)' = Slotted(k)
    BY <1>1, <2>1, <2>5 DEF Live, Kids, Slotted
  <2>8. Owned'
    <3>1. \A k \in Lists : ~Gone(k)' => Distinct(slots'[k])
      BY <1>1, <2>1, <2>5 DEF Good, Owned
    <3> QED
      BY <1>1, <2>1, <2>3, <2>4, <2>7, <3>1 DEF Good, Owned
  <2>9. Shape'
    <3>1. \A d \in DOMAIN stack : stack[d].list # NoList => stack[d].list \in Lists /\ stack[d].list # l
      BY <1>1, Frames DEF Good, Shape
    <3> QED
      BY <1>1, <2>1, <2>3, <2>4, <2>5, <3>1 DEF Good, Shape
  <2>10. Reached'
    <3>1. InFrames \subseteq InFrames'
      BY <2>4 DEF InFrames
    <3>2. {x \in Lists : ~Gone(x)'} = {x \in Lists : ~Gone(x)}
      BY <1>1, <2>5
    <3>3. Listed' = Listed
      BY <2>1, <3>2 DEF Listed, In
    <3>4. Known \subseteq Known'
      BY <2>1, <3>1, <3>3 DEF Known
    <3> SUFFICES ASSUME NEW c \in Live, NEW S \in SUBSET Args, Known' \subseteq S,
                        \A x \in S : Kids(x)' \subseteq S
                 PROVE  c \in S
      BY <2>1, <2>7 DEF Reached, Tree, Live
    <3>5. Closed(S) /\ Known \subseteq S
      BY <2>7, <3>4 DEF Closed
    <3>6. Tree(Known) \subseteq S
      BY <3>5, TreeLeast
    <3> QED
      BY <1>1, <3>6 DEF Good, Reached
  <2> QED
    BY <1>1, <2>1, <2>2, <2>6, <2>8, <2>9, <2>10 DEF IInv, Good, MemorySafe
<1> QED
  BY <1>2, <1>3

LEMMA InvRejectCall ==
  ASSUME IInv, NEW l \in Lists, RejectCall(l)
  PROVE  IInv'
<1>1. PICK st \in {"rejected", "lost"} :
        status' = [status EXCEPT ![l] = st] /\ strayed' \in {strayed, strayed \cup {"args_freed"}}
  BY DEF RejectCall
<1>a. /\ TypeOK /\ Good /\ MemorySafe /\ fault = "none" /\ status[l] \in {"open", "rejected"}
      /\ UNCHANGED <<kind, items, capacity, slots, loose, lost, stack, fault>>
  BY DEF IInv, RejectCall, HostRuns, Usable
<1>2. \A k \in Lists : status'[k] = IF k = l THEN st ELSE status[k]
  BY <1>1, <1>a DEF TypeOK
<1>3. /\ Live' = Live /\ \A x \in Args : Kids(x)' = Kids(x)
      /\ \A k \in Lists : Slotted(k)' = Slotted(k)
  BY <1>a, <1>2 DEF Live, Kids, Slotted
<1>4. TypeOK' /\ MemorySafe'
  BY <1>1, <1>a DEF TypeOK, Strayings, Documented, MemorySafe
<1>5. Owned'
  <2>1. \A k \in Lists : ~Gone(k)' => Distinct(slots'[k])
    BY <1>a, <1>2 DEF Good, Owned
  <2> QED
    BY <1>a, <1>3, <2>1 DEF Good, Owned
<1>6. Shape'
  <2>1. \A d \in DOMAIN stack : stack[d].list # NoList => stack[d].list \in Lists /\ stack[d].list # l
    BY <1>a, Frames DEF Good, Shape, TypeOK, Frame
  <2> QED
    BY <1>a, <1>2, <2>1 DEF Good, Shape
<1>7. Reached'
  <2>1. {x \in Lists : ~Gone(x)'} = {x \in Lists : ~Gone(x)}
    BY <1>a, <1>2
  <2>2. Listed' = Listed
    BY <1>a, <2>1 DEF Listed, In
  <2>3. Known' = Known
    BY <1>a, <2>2 DEF Known, InFrames
  <2> QED
    BY <1>a, <1>3, <2>3 DEF Good, Reached, Tree
<1> QED
  BY <1>a, <1>4, <1>5, <1>6, <1>7 DEF IInv, Good, MemorySafe

\* Conversions take new JSArgs only, and the items of a new array are its own.
NewArgs(A, arr, f) ==
  /\ A \cup In(f) \in SUBSET Fresh /\ A \cap In(f) = {}
  /\ \A a \in Args : a \notin A \cup In(f) => kind'[a] = kind[a] /\ items'[a] = items[a]
  /\ \A a \in A \cup In(f) : kind'[a] \in {"leaf", "array"}
  /\ kind' \in [Args -> Kinds] /\ items' \in [Args -> Seq(Args)]
  /\ capacity' \in [Args -> 0 .. MaxCount]
  /\ \A b \in Args : Len(items'[b]) <= capacity'[b]
  /\ Live' = Live \cup (A \cup In(f)) /\ Live \cap (A \cup In(f)) = {}
  /\ \A b \in Args : Kids(b)' = IF b = arr THEN In(f) ELSE Kids(b)
  /\ \A b \in Args : kind'[b] = "array" => Distinct(items'[b])
  /\ \A b \in Args : kind'[b] = "fresh" => items'[b] = <<>>
  /\ fault' = fault
  /\ arr \notin Args => In(f) = {}

LEMMA ToJsargEffect ==
  ASSUME TypeOK, Good, NEW A \in SUBSET Fresh, NEW arr \in A \cup {NoArg},
         NEW f \in FreshVectors(arr), EjrToJsarg(A, arr, f)
  PROVE  NewArgs(A, arr, f)
<1> DEFINE N == A \cup In(f)
<1>1. /\ N \in SUBSET Fresh /\ A \cap In(f) = {} /\ Distinct(f) /\ fault' = fault
      /\ kind' = [a \in Args |-> CASE a = arr   -> "array"
                                   [] a \in N \ {arr} -> "leaf"
                                   [] OTHER     -> kind[a]]
      /\ items' = [a \in Args |-> IF a = arr THEN f ELSE items[a]]
      /\ capacity' = [a \in Args |-> IF a = arr THEN Len(f) ELSE capacity[a]]
  BY DEF EjrToJsarg
<1>2. f \in Seq(Args) /\ Len(f) \in 0 .. MaxCount
  <2>1. CASE arr = NoArg
    BY <2>1, BoundsAssumption DEF FreshVectors
  <2>2. CASE arr # NoArg
    <3>1. PICK n \in 1 .. MaxCount : f \in [1 .. n -> Fresh]
      BY <2>2 DEF FreshVectors
    <3> QED
      BY <3>1, BoundsAssumption DEF Fresh
  <2> QED
    BY <2>1, <2>2
<1>3. arr = NoArg => In(f) = {}
  BY DEF FreshVectors, In
<1>4. arr \notin Args <=> arr = NoArg
  BY NilAssumption DEF Fresh
<1>5. arr \in Args => arr \in A
  BY <1>4
<1> HIDE DEF N
<1>6. \A a \in Args : kind'[a] = IF a = arr THEN "array" ELSE IF a \in N THEN "leaf" ELSE kind[a]
  BY <1>1
<1>7. \A a \in Args : items'[a] = IF a = arr THEN f ELSE items[a]
  BY <1>1
<1>8. A \subseteq N /\ In(f) \subseteq N /\ N \subseteq Args
  BY <1>1 DEF N, Fresh
<1>9. \A a \in N : kind[a] = "fresh" /\ items[a] = <<>>
  BY <1>1, <1>8 DEF Good, Shape, Fresh
<1>10. \A a \in Args : a \notin N => kind'[a] = kind[a] /\ items'[a] = items[a]
  BY <1>5, <1>6, <1>7, <1>8
<1>11. \A a \in N : kind'[a] \in {"leaf", "array"}
  BY <1>6, <1>8
<1>12. /\ kind' \in [Args -> Kinds] /\ items' \in [Args -> Seq(Args)]
       /\ capacity' \in [Args -> 0 .. MaxCount]
       /\ \A b \in Args : Len(items'[b]) <= capacity'[b]
  <2>1. kind' \in [Args -> Kinds]
    BY <1>1, <1>6 DEF TypeOK, Kinds
  <2>2. items' \in [Args -> Seq(Args)]
    BY <1>1, <1>2 DEF TypeOK
  <2>3. capacity' \in [Args -> 0 .. MaxCount]
    BY <1>1, <1>2 DEF TypeOK
  <2>4. \A b \in Args : capacity'[b] = IF b = arr THEN Len(f) ELSE capacity[b]
    BY <1>1
  <2>5. ASSUME NEW b \in Args PROVE Len(items'[b]) <= capacity'[b]
    <3>1. CASE b = arr
      BY <1>2, <1>7, <2>4, <3>1
    <3>2. CASE b # arr
      BY <1>7, <2>4, <3>2 DEF TypeOK
    <3> QED
      BY <3>1, <3>2
  <2> QED
    BY <2>1, <2>2, <2>3, <2>5
<1>13. Live' = Live \cup N /\ Live \cap N = {}
  BY <1>8, <1>9, <1>10, <1>11 DEF Live
<1>14. \A b \in Args : Kids(b)' = IF b = arr THEN In(f) ELSE Kids(b)
  <2>1. ASSUME NEW b \in Args, b = arr PROVE Kids(b)' = In(f)
    BY <1>6, <1>7, <2>1 DEF Kids, In
  <2>2. ASSUME NEW b \in Args, b # arr, b \in N PROVE Kids(b)' = Kids(b)
    BY <1>6, <1>9, <2>2 DEF Kids
  <2>3. ASSUME NEW b \in Args, b \notin N PROVE Kids(b)' = Kids(b)
    BY <1>10, <2>3 DEF Kids, In
  <2> QED
    BY <1>5, <1>8, <2>1, <2>2, <2>3
<1>15. \A b \in Args : kind'[b] = "array" => Distinct(items'[b])
  <2>1. ASSUME NEW b \in Args, kind'[b] = "array" PROVE b = arr \/ kind[b] = "array"
    BY <1>6, <2>1
  <2> QED
    BY <1>1, <1>7, <2>1 DEF Good, Owned
<1>16. \A b \in Args : kind'[b] = "fresh" => items'[b] = <<>>
  BY <1>6, <1>7 DEF Good, Shape
<1> QED
  BY <1>1, <1>3, <1>4, <1>10, <1>11, <1>12, <1>13, <1>14, <1>15, <1>16 DEF N, NewArgs

\* The new JSArgs are apart from the old ones, and the items from the rest.
LEMMA ToJsargApart ==
  ASSUME TypeOK, Good, NEW A \in SUBSET Fresh, NEW arr \in A \cup {NoArg},
         NEW f \in FreshVectors(arr), EjrToJsarg(A, arr, f)
  PROVE  /\ Live' = Live \cup A \cup In(f) /\ Live \cap A = {}
         /\ \A b \in Args : Kids(b)' \subseteq Live' /\ Kids(b)' \cap A = {} /\ Kids(b)' \cap loose = {}
         /\ \A b \in Args, d \in DOMAIN stack : Kids(b)' \cap stack[d].args = {}
         /\ \A b \in Args, l \in Lists : Slotted(l) \cap Kids(b)' = {}
         /\ \A b, c \in Args : b # c => Kids(b)' \cap Kids(c)' = {}
         /\ A \subseteq Args
         /\ \A x \in In(f) : \E b \in A \cap Args : x \in Kids(b)'
<1> DEFINE F == In(f)
<1>0. /\ A \cup In(f) \in SUBSET Fresh /\ A \cap In(f) = {}
      /\ \A a \in Args : a \notin A \cup In(f) => kind'[a] = kind[a] /\ items'[a] = items[a]
      /\ \A a \in A \cup In(f) : kind'[a] \in {"leaf", "array"}
      /\ kind' \in [Args -> Kinds] /\ items' \in [Args -> Seq(Args)]
      /\ capacity' \in [Args -> 0 .. MaxCount]
      /\ \A b \in Args : Len(items'[b]) <= capacity'[b]
      /\ Live' = Live \cup (A \cup In(f)) /\ Live \cap (A \cup In(f)) = {}
      /\ \A b \in Args : Kids(b)' = IF b = arr THEN In(f) ELSE Kids(b)
      /\ \A b \in Args : kind'[b] = "array" => Distinct(items'[b])
      /\ \A b \in Args : kind'[b] = "fresh" => items'[b] = <<>>
      /\ fault' = fault
      /\ arr \notin Args => In(f) = {}
  <2>1. NewArgs(A, arr, f)
    BY ToJsargEffect
  <2> QED
    BY <2>1 DEF NewArgs
<1>1. Live' = Live \cup A \cup F /\ Live \cap (A \cup F) = {}
  BY <1>0
<1>2. \A b \in Args : Kids(b)' = IF b = arr THEN F ELSE Kids(b)
  BY <1>0
<1>3. A \cap F = {} /\ (arr \notin Args => F = {})
  BY <1>0
<1>4. A \subseteq Args /\ (arr \in Args => arr \in A)
  BY NilAssumption DEF Fresh
<1> HIDE DEF F
<1>5. \A b \in Args : Kids(b) \subseteq Live \ loose
  BY DEF Good, Owned
<1>6. ASSUME NEW b \in Args
      PROVE  Kids(b)' \subseteq Live' /\ Kids(b)' \cap A = {}
  <2>1. CASE b = arr
    BY <1>1, <1>2, <1>3, <2>1
  <2>2. CASE b # arr
    <3>1. Kids(b)' = Kids(b) /\ Kids(b) \subseteq Live
      BY <1>2, <1>5, <2>2
    <3> QED
      BY <1>1, <3>1
  <2> QED
    BY <2>1, <2>2
<1>7. \A b \in Args : Kids(b)' \cap loose = {}
  <2>1. loose \subseteq Live
    BY DEF Good, Owned
  <2> QED
    BY <1>1, <1>2, <1>5, <2>1
<1>8. \A b \in Args, d \in DOMAIN stack : Kids(b)' \cap stack[d].args = {}
  <2>1. \A d \in DOMAIN stack : stack[d].args \subseteq Live
    BY DEF Good, Owned
  <2>2. \A b \in Args, d \in DOMAIN stack : Kids(b) \cap stack[d].args = {}
    BY DEF Good, Owned
  <2> QED
    BY <1>1, <1>2, <2>1, <2>2
<1>9. \A b \in Args, l \in Lists : Slotted(l) \cap Kids(b)' = {}
  <2>1. \A l \in Lists : Slotted(l) \subseteq Live
    BY DEF Good, Owned
  <2>2. \A b \in Args, l \in Lists : Slotted(l) \cap Kids(b) = {}
    BY DEF Good, Owned
  <2> QED
    BY <1>1, <1>2, <2>1, <2>2
<1>10. \A b, c \in Args : b # c => Kids(b)' \cap Kids(c)' = {}
  <2>1. \A b, c \in Args : b # c => Kids(b) \cap Kids(c) = {}
    BY DEF Good, Owned
  <2> QED
    BY <1>1, <1>2, <1>5, <2>1
<1>11. \A x \in F : \E b \in A \cap Args : x \in Kids(b)'
  BY <1>2, <1>3, <1>4
<1> QED
  BY <1>1, <1>4, <1>6, <1>7, <1>8, <1>9, <1>10, <1>11 DEF F

LEMMA InvFromJsvalue ==
  ASSUME IInv, NEW a \in Args, NEW arr \in {a, NoArg}, NEW f \in FreshVectors(arr),
         FromJsvalue(a, arr, f)
  PROVE  IInv'
<1> DEFINE A == {a}
           N == A \cup In(f)
<1>1. /\ TypeOK /\ Good /\ MemorySafe /\ fault = "none" /\ A \in SUBSET Fresh
      /\ arr \in A \cup {NoArg} /\ EjrToJsarg(A, arr, f)
  BY DEF IInv, FromJsvalue, HostRuns, EjrToJsarg
<1>2. loose' = loose \cup A /\ UNCHANGED <<slots, status, lost, stack, strayed>>
  BY DEF FromJsvalue
<1>3. a \in A
  OBVIOUS
<1> HIDE DEF A
<1>4. /\ N \in SUBSET Fresh /\ A \cap In(f) = {}
      /\ \A x \in Args : x \notin N => kind'[x] = kind[x] /\ items'[x] = items[x]
      /\ \A x \in N : kind'[x] \in {"leaf", "array"}
      /\ kind' \in [Args -> Kinds] /\ items' \in [Args -> Seq(Args)]
      /\ capacity' \in [Args -> 0 .. MaxCount]
      /\ \A b \in Args : Len(items'[b]) <= capacity'[b]
      /\ Live' = Live \cup N /\ Live \cap N = {}
      /\ \A b \in Args : Kids(b)' = IF b = arr THEN In(f) ELSE Kids(b)
      /\ \A b \in Args : kind'[b] = "array" => Distinct(items'[b])
      /\ \A b \in Args : kind'[b] = "fresh" => items'[b] = <<>>
      /\ fault' = fault
      /\ arr \notin Args => In(f) = {}
  <2>1. NewArgs(A, arr, f)
    BY <1>1, ToJsargEffect
  <2> QED
    BY <2>1 DEF NewArgs
<1>5. A \subseteq N /\ In(f) \subseteq N /\ N \subseteq Args /\ A \subseteq Args
  BY <1>4 DEF Fresh
<1>6. TypeOK'
  BY <1>1, <1>2, <1>4, <1>5 DEF TypeOK
<1>7. \A l \in Lists : Slotted(l)' = Slotted(l)
  BY <1>2 DEF Slotted
<1>8. /\ Live' = Live \cup A \cup In(f) /\ Live \cap A = {}
      /\ \A b \in Args : Kids(b)' \subseteq Live' /\ Kids(b)' \cap A = {} /\ Kids(b)' \cap loose = {}
      /\ \A b \in Args, d \in DOMAIN stack : Kids(b)' \cap stack[d].args = {}
      /\ \A b \in Args, l \in Lists : Slotted(l) \cap Kids(b)' = {}
      /\ \A b, c \in Args : b # c => Kids(b)' \cap Kids(c)' = {}
      /\ A \subseteq Args
      /\ \A x \in In(f) : \E b \in A \cap Args : x \in Kids(b)'
  BY <1>1, ToJsargApart
<1>9. Owned'
  <2>1. \A b \in Args : kind'[b] = "array" => Distinct(items'[b])
    BY <1>4
  <2> QED
    BY <1>1, <1>2, <1>7, <1>8, <2>1 DEF Good, Owned
<1>10. Shape'
  BY <1>1, <1>2, <1>4 DEF Good, Shape
<1>11. Reached'
  <2>1. Known' = Known \cup A
    BY <1>2 DEF Known, InFrames, Listed, In
  <2>2. \A x \in N : x \in Known' \/ \E b \in Known' \cap Args : x \in Kids(b)'
    BY <1>8, <2>1
  <2> HIDE DEF N
  <2>3. Live \subseteq Tree(Known) /\ Owned
    BY <1>1 DEF Good, Reached
  <2> QED
    BY <1>1, <1>2, <1>4, <2>1, <2>2, <2>3, GrowReaches DEF Reached
<1> QED
  BY <1>1, <1>2, <1>4, <1>6, <1>9, <1>10, <1>11 DEF IInv, Good, MemorySafe

LEMMA InvBeginCallback ==
  ASSUME IInv, NEW A \in SUBSET Fresh, NEW arr \in A \cup {NoArg}, NEW f \in FreshVectors(arr),
         BeginCallback(A, arr, f)
  PROVE  IInv'
<1> DEFINE N == A \cup In(f)
           fr == [list |-> NoList, args |-> A]
           top == Len(stack) + 1
<1>1. /\ TypeOK /\ Good /\ MemorySafe /\ fault = "none" /\ EjrToJsarg(A, arr, f)
      /\ stack \in Seq(Frame)
  BY DEF IInv, BeginCallback, TypeOK, Frame
<1>2. stack' = Append(stack, fr) /\ UNCHANGED <<slots, status, loose, lost, strayed>>
  BY DEF BeginCallback
<1>3. fr \in Frame /\ fr.list = NoList /\ fr.args = A
  BY DEF Frame, Fresh
<1> HIDE DEF fr
<1>4. /\ N \in SUBSET Fresh /\ A \cap In(f) = {}
      /\ \A x \in Args : x \notin N => kind'[x] = kind[x] /\ items'[x] = items[x]
      /\ \A x \in N : kind'[x] \in {"leaf", "array"}
      /\ kind' \in [Args -> Kinds] /\ items' \in [Args -> Seq(Args)]
      /\ capacity' \in [Args -> 0 .. MaxCount]
      /\ \A b \in Args : Len(items'[b]) <= capacity'[b]
      /\ Live' = Live \cup N /\ Live \cap N = {}
      /\ \A b \in Args : Kids(b)' = IF b = arr THEN In(f) ELSE Kids(b)
      /\ \A b \in Args : kind'[b] = "array" => Distinct(items'[b])
      /\ \A b \in Args : kind'[b] = "fresh" => items'[b] = <<>>
      /\ fault' = fault
      /\ arr \notin Args => In(f) = {}
  <2>1. NewArgs(A, arr, f)
    BY <1>1, ToJsargEffect
  <2> QED
    BY <2>1 DEF NewArgs
<1>5. /\ stack' \in Seq(Frame)
      /\ top \notin DOMAIN stack
      /\ DOMAIN stack' = DOMAIN stack \cup {top}
      /\ \A d \in DOMAIN stack : stack'[d] = stack[d]
      /\ stack'[top] = fr
  BY <1>1, <1>2, <1>3, Pushed
<1> HIDE DEF top
<1>6. TypeOK'
  BY <1>1, <1>2, <1>4, <1>5 DEF TypeOK, Frame
<1>7. \A l \in Lists : Slotted(l)' = Slotted(l)
  BY <1>2 DEF Slotted
<1>8. /\ Live' = Live \cup A \cup In(f) /\ Live \cap A = {}
      /\ \A b \in Args : Kids(b)' \subseteq Live' /\ Kids(b)' \cap A = {} /\ Kids(b)' \cap loose = {}
      /\ \A b \in Args, d \in DOMAIN stack : Kids(b)' \cap stack[d].args = {}
      /\ \A b \in Args, l \in Lists : Slotted(l) \cap Kids(b)' = {}
      /\ \A b, c \in Args : b # c => Kids(b)' \cap Kids(c)' = {}
      /\ A \subseteq Args
      /\ \A x \in In(f) : \E b \in A \cap Args : x \in Kids(b)'
  BY <1>1, ToJsargApart
<1>9. Owned'
  <2>1. \A b \in Args : kind'[b] = "array" => Distinct(items'[b])
    BY <1>4
  <2>2. \A d \in DOMAIN stack' : stack'[d].args \subseteq Live' \ loose'
    BY <1>1, <1>2, <1>3, <1>5, <1>8 DEF Good, Owned
  <2>3. \A d, e \in DOMAIN stack' : d # e => stack'[d].args \cap stack'[e].args = {}
    BY <1>1, <1>3, <1>5, <1>8 DEF Good, Owned
  <2>4. \A b \in Args, d \in DOMAIN stack' : Kids(b)' \cap stack'[d].args = {}
    BY <1>3, <1>5, <1>8
  <2>5. \A l \in Lists, d \in DOMAIN stack' : Slotted(l) \cap stack'[d].args = {}
    BY <1>1, <1>3, <1>5, <1>8 DEF Good, Owned
  <2> QED
    BY <1>1, <1>2, <1>7, <1>8, <2>1, <2>2, <2>3, <2>4, <2>5 DEF Good, Owned
<1>10. Shape'
  <2>1. Shape
    BY <1>1 DEF Good
  <2>2. \A b \in Args : kind'[b] = "fresh" => items'[b] = <<>>
    BY <1>4
  <2>3. /\ \A d \in DOMAIN stack' : stack'[d].list # NoList => d # top
        /\ \A d \in DOMAIN stack' : d # top => d \in DOMAIN stack /\ stack'[d] = stack[d]
    BY <1>3, <1>5
  <2>4. \A d \in DOMAIN stack' : stack'[d].list # NoList =>
          status[stack'[d].list] = "passed" /\ stack'[d].args = {}
    BY <2>1, <2>3 DEF Shape
  <2>5. \A d, e \in DOMAIN stack' :
          d # e /\ stack'[d].list # NoList => stack'[d].list # stack'[e].list
    <3>1. ASSUME NEW d \in DOMAIN stack', NEW e \in DOMAIN stack', d # e, stack'[d].list # NoList
          PROVE  stack'[d].list # stack'[e].list
      <4>1. CASE e = top
        BY <1>3, <1>5, <3>1, <4>1
      <4>2. CASE e # top
        BY <2>1, <2>3, <3>1, <4>2 DEF Shape
      <4> QED
        BY <4>1, <4>2
    <3> QED
      BY <3>1
  <2> QED
    BY <1>2, <2>1, <2>2, <2>4, <2>5 DEF Shape
<1>11. Reached'
  <2>1. InFrames' = InFrames \cup A
    BY <1>3, <1>5 DEF InFrames
  <2>2. Known' = Known \cup A
    BY <1>2, <2>1 DEF Known, Listed, In
  <2>3. \A x \in N : x \in Known' \/ \E b \in Known' \cap Args : x \in Kids(b)'
    BY <1>8, <2>2
  <2> HIDE DEF N
  <2>4. Live \subseteq Tree(Known) /\ Owned
    BY <1>1 DEF Good, Reached
  <2> QED
    BY <1>1, <1>2, <1>4, <2>2, <2>3, <2>4, GrowReaches DEF Reached
<1> QED
  BY <1>1, <1>2, <1>4, <1>6, <1>9, <1>10, <1>11 DEF IInv, Good, MemorySafe

-----------------------------------------------------------------------------
(* The theorems *)

LEMMA Initially == Init => IInv
<1> SUFFICES ASSUME Init PROVE IInv
  OBVIOUS
<1>1. TypeOK
  <2>1. \A b \in Args : items[b] = <<>> /\ capacity[b] = 0
    BY DEF Init
  <2>2. \A b \in Args : Len(items[b]) <= capacity[b]
    BY <2>1
  <2>3. capacity \in [Args -> 0 .. MaxCount]
    BY BoundsAssumption DEF Init
  <2>4. items \in [Args -> Seq(Args)] /\ slots \in [Lists -> Seq(Args \cup {NoArg})]
    BY DEF Init
  <2>5. stack \in Seq([list : Lists \cup {NoList}, args : SUBSET Args])
    BY DEF Init
  <2> QED
    BY <2>2, <2>3, <2>4, <2>5 DEF Init, TypeOK, Kinds
<1>2. /\ Live = {} /\ \A a \in Args : Kids(a) = {}
      /\ \A l \in Lists : Slotted(l) = {} /\ Distinct(slots[l])
  BY DEF Init, Live, Kids, Slotted, In, Distinct
<1>3. Owned
  BY <1>2 DEF Init, Owned
<1>4. Shape
  BY BoundsAssumption DEF Init, Shape
<1>5. Reached
  BY <1>2 DEF Reached
<1> QED
  BY <1>1, <1>3, <1>4, <1>5 DEF Init, IInv, Good, MemorySafe

LEMMA Preserved == IInv /\ [Next]_vars => IInv'
<1> SUFFICES ASSUME IInv, [Next]_vars PROVE IInv'
  OBVIOUS
<1>1. ASSUME NEW a \in Args,
             \/ JsargFree(a)
             \/ NewLeaf(a)
             \/ \E n \in 0 .. MaxCount : JsargCarray(a, n)
             \/ \E b \in Args : AddValueToCArray(b, a)
             \/ EndCallback(a)
             \/ \E arr \in {a, NoArg} : \E f \in FreshVectors(arr) : FromJsvalue(a, arr, f)
      PROVE  IInv'
  BY <1>1, InvJsargFree, InvNewLeaf, InvJsargCarray, InvAddValue, InvEndCallback, InvFromJsvalue
<1>2. ASSUME NEW l \in Lists,
             \/ JsargFreeAll(l)
             \/ \E n \in 0 .. MaxCount, a \in Args : JsargMakeList(l, n, a)
             \/ \E i \in Index, a \in Args : WriteSlot(l, i, a) \/ AddToList(l, i, a)
             \/ BeginCall(l)
             \/ RejectCall(l)
      PROVE  IInv'
  BY <1>2, InvJsargFreeAll, InvJsargMakeList, InvWriteSlot, InvAddToList, InvBeginCall, InvRejectCall
<1>3. CASE EndCall
  BY <1>3, InvEndCall
<1>4. ASSUME NEW A \in SUBSET Fresh, NEW arr \in A \cup {NoArg}, NEW f \in FreshVectors(arr),
             BeginCallback(A, arr, f)
      PROVE  IInv'
  BY <1>4, InvBeginCallback
<1>5. CASE ConversionThrows
  BY <1>5, Stopped DEF ConversionThrows, IInv
<1>6. CASE UNCHANGED vars
  <2>1. /\ TypeOK' = TypeOK /\ MemorySafe' = MemorySafe /\ Shape' = Shape /\ fault' = fault
        /\ Live' = Live /\ \A x \in Args : Kids(x)' = Kids(x)
        /\ \A l \in Lists : Slotted(l)' = Slotted(l)
    BY <1>6 DEF vars, TypeOK, MemorySafe, Shape, Live, Kids, In, Slotted
  <2>2. Known' = Known
    BY <1>6 DEF vars, Known, InFrames, Listed, In
  <2>3. Reached => Reached'
    BY <1>6, <2>1, <2>2 DEF Reached, Tree, vars
  <2>4. Owned => Owned'
    BY <1>6, <2>1 DEF Owned, vars
  <2> QED
    BY <2>1, <2>3, <2>4 DEF IInv, Good
<1> QED
  BY <1>1, <1>2, <1>3, <1>4, <1>5, <1>6 DEF Next

\* Whoever throws something away strays by it.
LEMMA KeptStep == TypeOK /\ Kept /\ [Next]_vars => Kept'
<1> DEFINE Losing == {"overwrites_slot", "args_freed", "adds_to_list"}
<1> SUFFICES ASSUME TypeOK, Kept, [Next]_vars, strayed' \cap Losing = {}
             PROVE  lost' = {} /\ \A k \in Lists : status'[k] # "lost"
  BY DEF Kept
<1>1. ASSUME strayed \subseteq strayed', lost' = lost, NEW l \in Lists,
             NEW st \in {"open", "passed", "rejected", "used", "freed"},
             status' \in {status, [status EXCEPT ![l] = st]}
      PROVE  lost' = {} /\ \A k \in Lists : status'[k] # "lost"
  BY <1>1 DEF Kept, TypeOK
<1>2. ASSUME strayed \subseteq strayed', lost' = lost, status' = status
      PROVE  lost' = {} /\ \A k \in Lists : status'[k] # "lost"
  BY <1>2 DEF Kept
<1>3. CASE UNCHANGED vars
  BY <1>2, <1>3 DEF vars
<1>4. ASSUME NEW a \in Args,
             \/ JsargFree(a)
             \/ NewLeaf(a)
             \/ \E n \in 0 .. MaxCount : JsargCarray(a, n)
             \/ \E b \in Args : AddValueToCArray(b, a)
             \/ EndCallback(a)
             \/ \E arr \in {a, NoArg} : \E f \in FreshVectors(arr) : FromJsvalue(a, arr, f)
      PROVE  strayed \subseteq strayed' /\ lost' = lost /\ status' = status
  BY <1>4 DEF JsargFree, NewLeaf, JsargCarray, AddValueToCArray, EndCallback, FromJsvalue, Fails
<1>5. ASSUME NEW l \in Lists,
             \/ JsargFreeAll(l)
             \/ \E n \in 0 .. MaxCount, a \in Args : JsargMakeList(l, n, a)
             \/ BeginCall(l)
      PROVE  /\ strayed \subseteq strayed' /\ lost' = lost
             /\ \E st \in {"open", "passed", "rejected", "used", "freed"} :
                  status' \in {status, [status EXCEPT ![l] = st]}
  BY <1>5 DEF JsargFreeAll, JsargMakeList, BeginCall, Fails
<1>6. ASSUME NEW l \in Lists, RejectCall(l)
      PROVE  /\ strayed \subseteq strayed' /\ lost' = lost
             /\ status' = [status EXCEPT ![l] = "rejected"]
  BY <1>6 DEF RejectCall
<1>7. ASSUME NEW l \in Lists, NEW i \in Index, NEW a \in Args, WriteSlot(l, i, a) \/ AddToList(l, i, a)
      PROVE  strayed \subseteq strayed' /\ lost' = lost /\ status' = status
  BY <1>7 DEF WriteSlot, AddToList
<1>8. CASE EndCall
  <2> DEFINE l == stack[Len(stack)].list
  <2>1. stack \in Seq(Frame) /\ Len(stack) \in DOMAIN stack
    BY <1>8 DEF EndCall, TypeOK, Frame
  <2>2. l \in Lists
    BY <1>8, <2>1, Frames DEF EndCall
  <2>3. strayed' = strayed /\ lost' = lost /\ status' = [status EXCEPT ![l] = "used"]
    BY <1>8 DEF EndCall
  <2> HIDE DEF l
  <2> QED
    BY <2>2, <2>3, <1>1
<1>9. ASSUME NEW A \in SUBSET Fresh, NEW arr \in A \cup {NoArg}, NEW f \in FreshVectors(arr),
             BeginCallback(A, arr, f)
      PROVE  strayed \subseteq strayed' /\ lost' = lost /\ status' = status
  BY <1>9 DEF BeginCallback
<1>10. CASE ConversionThrows
  BY <1>2, <1>10 DEF ConversionThrows, Fails
<1> HIDE DEF Losing
<1> QED
  BY <1>1, <1>2, <1>3, <1>4, <1>5, <1>6, <1>7, <1>8, <1>9, <1>10 DEF Next

\* The invariant the others follow from: the host, the callbacks, the arrays
\* and the lists have disjoint sets of live JSArgs, which reach all live ones.
THEOREM Invariance == Spec => [](IInv /\ Kept)
<1>1. Init => Kept
  BY DEF Init, Kept
<1>2. IInv => TypeOK
  BY DEF IInv
<1> QED
  BY <1>1, <1>2, Initially, Preserved, KeptStep, PTL DEF Spec

\* Type correctness: counts stay within capacities.
THEOREM TypeCorrect == Spec => []TypeOK
<1>1. IInv => TypeOK
  BY DEF IInv
<1> QED
  BY <1>1, Invariance, PTL

\* No order of calls, nested callbacks and frees has a JSArg freed twice or
\* used after it was freed, unless the host itself strays into that.
THEOREM NothingFreedTwice == Spec => []MemorySafe
<1>1. IInv => MemorySafe
  BY DEF IInv
<1> QED
  BY <1>1, Invariance, PTL

\* A walk from two sets of roots is a walk from the one or the other.
LEMMA TreeUnion ==
  ASSUME TypeOK, NEW R \in SUBSET Args, NEW S \in SUBSET Args
  PROVE  Tree(R \cup S) \subseteq Tree(R) \cup Tree(S)
<1> DEFINE U == Tree(R) \cup Tree(S)
<1>1. U \in SUBSET Args /\ R \cup S \subseteq U /\ Closed(U)
  BY TreeFacts DEF Closed
<1> HIDE DEF U
<1>2. Tree(R \cup S) \subseteq U
  BY <1>1, TreeLeast
<1> QED
  BY <1>2 DEF U

\* For every host, calls, early returns, conversions and callbacks leak no
\* JSArg: what nobody can reach any more is what the host threw away itself,
\* and only a host that strays does.
THEOREM NothingLeaked == Spec => []NothingUnreachable
<1>1. ASSUME IInv, Kept, fault = "none"
      PROVE  Live \subseteq Tree(Roots) \cup Tree(Lost)
  <2>1. TypeOK /\ Owned /\ Shape /\ Live \subseteq Tree(Known)
    BY <1>1 DEF IInv, Good, Reached
  <2>2. Listed \subseteq InLists({"open", "passed", "rejected"}) \cup InLists({"lost"})
    <3>1. ASSUME NEW l \in Lists, ~Gone(l), NEW x \in In(slots[l])
          PROVE  x \in InLists({"open", "passed", "rejected"}) \cup InLists({"lost"})
      <4>1. status[l] # "absent"
        BY <2>1, <3>1 DEF Shape, In
      <4>2. status[l] \in {"open", "passed", "rejected", "lost"}
        BY <2>1, <3>1, <4>1 DEF TypeOK
      <4> QED
        BY <3>1, <4>2 DEF InLists
    <3> QED
      BY <3>1 DEF Listed
  <2>3. Known \subseteq Roots \cup Lost
    BY <2>2 DEF Known, Roots, Lost, Held
  <2>4. Roots \in SUBSET Args /\ Lost \in SUBSET Args
    <3>1. \A l \in Lists : In(slots[l]) \subseteq Args
      BY <2>1 DEF TypeOK, In
    <3>2. InFrames \subseteq Args
      BY <2>1 DEF Owned, InFrames, Live
    <3> QED
      BY <2>1, <3>1, <3>2 DEF TypeOK, Roots, Lost, InLists, Held
  <2>5. Tree(Roots \cup Lost) \in SUBSET Args /\ Known \subseteq Tree(Roots \cup Lost)
        /\ Closed(Tree(Roots \cup Lost))
    BY <2>1, <2>3, <2>4, TreeFacts
  <2>6. Tree(Known) \subseteq Tree(Roots \cup Lost)
    BY <2>5, TreeLeast
  <2> QED
    BY <2>1, <2>4, <2>6, TreeUnion
<1>2. ASSUME Kept, strayed \cap {"overwrites_slot", "args_freed", "adds_to_list"} = {}
      PROVE  Lost = {}
  BY <1>2 DEF Kept, Lost, InLists
<1>3. IInv /\ Kept => NothingUnreachable
  BY <1>1, <1>2 DEF NothingUnreachable
<1> QED
  BY <1>3, Invariance, PTL

\* Every JSArg is in one place, and a freed one in none.
THEOREM OneOwner == Spec => []OwnedOnce
<1>1. ASSUME IInv, fault = "none", NEW a \in Args, NEW p \in Places(a)
      PROVE  /\ a \in Live
             /\ \/ p = <<"loose", NoArg, 0>> /\ a \in loose
                \/ \E d \in DOMAIN stack : p = <<"frame", NoArg, d>> /\ a \in stack[d].args
                \/ \E b \in Args : \E i \in DOMAIN items[b] :
                     p = <<"item", b, i>> /\ a \in Kids(b) /\ kind[b] = "array" /\ items[b][i] = a
                \/ \E l \in Lists : \E i \in DOMAIN slots[l] :
                     p = <<"slot", l, i>> /\ a \in Slotted(l) /\ ~Gone(l) /\ slots[l][i] = a
  <2>1. CASE p \in {<<"loose", NoArg, 0>> : x \in loose \cap {a}}
    BY <1>1, <2>1 DEF IInv, Good, Owned
  <2>2. CASE p \in {<<"frame", NoArg, d>> : d \in {e \in DOMAIN stack : a \in stack[e].args}}
    BY <1>1, <2>2 DEF IInv, Good, Owned
  <2>3. CASE p \in {q \in {"item"} \X Args \X Index :
                 kind[q[2]] = "array" /\ q[3] \in DOMAIN items[q[2]] /\ items[q[2]][q[3]] = a}
    <3>1. p = <<"item", p[2], p[3]>> /\ p[2] \in Args /\ p[3] \in DOMAIN items[p[2]]
          /\ kind[p[2]] = "array" /\ items[p[2]][p[3]] = a
      BY <2>3
    <3>2. a \in Kids(p[2])
      BY <3>1, NilAssumption DEF Kids, In
    <3> QED
      BY <1>1, <3>1, <3>2 DEF IInv, Good, Owned
  <2>4. CASE p \in {q \in {"slot"} \X Lists \X Index :
                 ~Gone(q[2]) /\ q[3] \in DOMAIN slots[q[2]] /\ slots[q[2]][q[3]] = a}
    <3>1. p = <<"slot", p[2], p[3]>> /\ p[2] \in Lists /\ p[3] \in DOMAIN slots[p[2]]
          /\ ~Gone(p[2]) /\ slots[p[2]][p[3]] = a
      BY <2>4
    <3>2. a \in Slotted(p[2])
      BY <3>1, NilAssumption DEF Slotted, In
    <3> QED
      BY <1>1, <3>1, <3>2 DEF IInv, Good, Owned
  <2> QED
    BY <2>1, <2>2, <2>3, <2>4 DEF Places
<1>2. ASSUME IInv, fault = "none", NEW a \in Args, NEW p \in Places(a), NEW q \in Places(a)
      PROVE  p = q
  <2>1. a # NoArg /\ Owned
    BY <1>2, NilAssumption DEF IInv, Good
  <2>2. \A b \in Args : \A i, j \in DOMAIN items[b] :
          kind[b] = "array" /\ items[b][i] = a /\ items[b][j] = a => i = j
    BY <2>1 DEF Owned, Distinct
  <2>3. \A l \in Lists : \A i, j \in DOMAIN slots[l] :
          ~Gone(l) /\ slots[l][i] = a /\ slots[l][j] = a => i = j
    BY <2>1 DEF Owned, Distinct
  <2>4. \/ p = <<"loose", NoArg, 0>> /\ a \in loose
        \/ \E d \in DOMAIN stack : p = <<"frame", NoArg, d>> /\ a \in stack[d].args
        \/ \E b \in Args : \E i \in DOMAIN items[b] :
             p = <<"item", b, i>> /\ a \in Kids(b) /\ kind[b] = "array" /\ items[b][i] = a
        \/ \E l \in Lists : \E i \in DOMAIN slots[l] :
             p = <<"slot", l, i>> /\ a \in Slotted(l) /\ ~Gone(l) /\ slots[l][i] = a
    BY <1>1, <1>2
  <2>5. \/ q = <<"loose", NoArg, 0>> /\ a \in loose
        \/ \E d \in DOMAIN stack : q = <<"frame", NoArg, d>> /\ a \in stack[d].args
        \/ \E b \in Args : \E i \in DOMAIN items[b] :
             q = <<"item", b, i>> /\ a \in Kids(b) /\ kind[b] = "array" /\ items[b][i] = a
        \/ \E l \in Lists : \E i \in DOMAIN slots[l] :
             q = <<"slot", l, i>> /\ a \in Slotted(l) /\ ~Gone(l) /\ slots[l][i] = a
    BY <1>1, <1>2
  <2>6. CASE p = <<"loose", NoArg, 0>> /\ a \in loose
    BY <2>1, <2>5, <2>6 DEF Owned
  <2>7. CASE \E d \in DOMAIN stack : p = <<"frame", NoArg, d>> /\ a \in stack[d].args
    BY <2>1, <2>5, <2>7 DEF Owned
  <2>8. CASE \E b \in Args : \E i \in DOMAIN items[b] :
               p = <<"item", b, i>> /\ a \in Kids(b) /\ kind[b] = "array" /\ items[b][i] = a
    BY <2>1, <2>2, <2>5, <2>8 DEF Owned
  <2>9. CASE \E l \in Lists : \E i \in DOMAIN slots[l] :
               p = <<"slot", l, i>> /\ a \in Slotted(l) /\ ~Gone(l) /\ slots[l][i] = a
    BY <2>1, <2>3, <2>5, <2>9 DEF Owned
  <2> QED
    BY <2>4, <2>6, <2>7, <2>8, <2>9
<1>3. IInv => OwnedOnce
  BY <1>1, <1>2 DEF OwnedOnce
<1> QED
  BY <1>3, Invariance, PTL

=============================================================================
