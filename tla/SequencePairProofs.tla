-------------------------- MODULE SequencePairProofs --------------------------
(***************************************************************************)
(* Proof that the floorplanner leaves no module floating, for any number   *)
(* of modules, any sequence pair and any positive sizes.                   *)
(***************************************************************************)
EXTENDS SequencePair, NaturalsInduction, WellFoundedInduction, TLAPS

\* A module not yet placed is in the queue, or will be when another is placed.
Waiting(v, out) ==
    \/ \E s \in BagToSet(que) : s[2] = v
    \/ \E u \in Modules \ visited : v \in out[u]

\* An entry has been pushed at the start, or when a module that stands there still was placed.
PushedBy(s, u, at, size, out) == s[2] \in out[u] /\ s[1] = at[u] + size[u]
PushedFirst(s, out) == s[1] = 0 /\ s[2] \in Roots(out)

\* No entry but those behind u will move a module beyond u's place.
Behind(u, at, out) == \A r \in BagToSet(que) : r[2] \notin out[u] => r[1] <= at[u]

Horizontal == pass = "horizontal" =>
    /\ \A s \in BagToSet(que) :
        PushedFirst(s, right) \/ \E u \in visited : PushedBy(s, u, x, problem.width, right)
    /\ \A v \in visited : Supported(v, x, problem.width, right, visited)
    /\ \A v \in Modules \ visited : Waiting(v, right)

Vertical == pass = "vertical" =>
    /\ \A s \in BagToSet(que) :
        PushedFirst(s, above) \/ \E u \in visited : PushedBy(s, u, y, problem.length, above)
                                                    /\ Behind(u, y, above)
    /\ \A v \in visited : Supported(v, y, problem.length, above, Modules)
                          \/ \E s \in BagToSet(que) : s[2] = v
    /\ \A v \in Modules \ visited : Waiting(v, above)

Fresh == pass = "construct" => visited = {}

IInv == TypeOK /\ Fresh /\ Horizontal /\ TouchesLeft /\ Vertical /\ RestsOnBelow

-----------------------------------------------------------------------------
(* Bags                                                                    *)

\* Taking one element out of a bag.
LEMMA BagTaken ==
  ASSUME NEW B, IsABag(B), NEW e, e \in BagToSet(B)
  PROVE  LET C == B (-) SetToBag({e})
         IN  /\ IsABag(C) /\ BagToSet(C) \subseteq BagToSet(B)
             /\ BagToSet(B) \ {e} \subseteq BagToSet(C)
<1>1. \A d \in DOMAIN B : B[d] \in Nat /\ B[d] > 0
  BY DEF IsABag
<1> DEFINE D == [d \in DOMAIN B |-> IF d \in {e} THEN B[d] - 1 ELSE B[d]]
           C == [d \in {c \in DOMAIN D : D[c] > 0} |-> D[d]]
<1>2. B (-) SetToBag({e}) = C
  BY DEF SetToBag, (-)
<1>3. \A d \in DOMAIN B : D[d] \in Int /\ (d # e => D[d] = B[d])
  BY <1>1
<1>4. DOMAIN C = {c \in DOMAIN B : D[c] > 0} /\ \A d \in DOMAIN C : C[d] = D[d]
  OBVIOUS
<1> HIDE DEF D
<1>5. IsABag(C)
  BY <1>3, <1>4 DEF IsABag
<1>6. DOMAIN C \subseteq DOMAIN B /\ DOMAIN B \ {e} \subseteq DOMAIN C
  BY <1>1, <1>3, <1>4
<1> QED
  BY <1>2, <1>5, <1>6 DEF BagToSet

\* Adding one copy of every element of a set.
LEMMA BagAdded ==
  ASSUME NEW B, IsABag(B), NEW S
  PROVE  LET C == B (+) SetToBag(S)
         IN  IsABag(C) /\ BagToSet(C) = BagToSet(B) \cup S
<1>1. \A d \in DOMAIN B : B[d] \in Nat /\ B[d] > 0
  BY DEF IsABag
<1> QED
  BY <1>1 DEF SetToBag, (+), IsABag, BagToSet

\* The bag of a set.
LEMMA BagOfSet ==
  ASSUME NEW S
  PROVE  IsABag(SetToBag(S)) /\ BagToSet(SetToBag(S)) = S
BY DEF SetToBag, IsABag, BagToSet

\* Nothing is in the empty bag.
LEMMA NothingIn ==
  BagToSet(EmptyBag) = {}
BY DEF EmptyBag, SetToBag, BagToSet

-----------------------------------------------------------------------------
(* The constraint graphs                                                   *)

\* A module is before another in a sequence by the only places the two have there.
LEMMA BeforeIsOrder ==
  ASSUME NEW seq \in [Modules -> Modules],
         \A i, j \in Modules : i # j => seq[i] # seq[j]
  PROVE  /\ \A a, b \in Modules : Before(seq, a, b) => ~Before(seq, b, a) /\ a # b
         /\ \A a, b, c \in Modules : Before(seq, a, b) /\ Before(seq, b, c) => Before(seq, a, c)
<1>1. Modules \subseteq Int
  BY DEF Modules
<1>2. ASSUME NEW a \in Modules, NEW b \in Modules, Before(seq, a, b)
      PROVE  ~Before(seq, b, a) /\ a # b
  BY <1>1, <1>2 DEF Before
<1>3. ASSUME NEW a \in Modules, NEW b \in Modules, NEW c \in Modules,
             Before(seq, a, b), Before(seq, b, c)
      PROVE  Before(seq, a, c)
  <2>1. PICK i, j \in Modules : i < j /\ seq[i] = a /\ seq[j] = b
    BY <1>3 DEF Before
  <2>2. PICK k, l \in Modules : k < l /\ seq[k] = b /\ seq[l] = c
    BY <1>3 DEF Before
  <2>3. k = j
    BY <2>1, <2>2
  <2>4. i < l
    BY <1>1, <2>1, <2>2, <2>3
  <2> QED
    BY <2>1, <2>2, <2>4 DEF Before
<1> QED
  BY <1>2, <1>3

\* Neither graph has a loop, and what is reachable in it is reachable by one edge.
LEMMA GraphsAreOrders ==
  ASSUME NEW p, WellPosed(p)
  PROVE  /\ \A a \in Modules : a \notin Right(p, a) /\ a \notin Above(p, a)
         /\ \A a, b \in Modules : b \in Right(p, a) => Right(p, b) \subseteq Right(p, a)
         /\ \A a, b \in Modules : b \in Above(p, a) => Above(p, b) \subseteq Above(p, a)
         /\ \A a, b \in Modules : b \in Right(p, a) \cup Above(p, a) => Before(p.pos, a, b)
<1>1. /\ p.pos \in [Modules -> Modules] /\ \A i, j \in Modules : i # j => p.pos[i] # p.pos[j]
      /\ p.neg \in [Modules -> Modules] /\ \A i, j \in Modules : i # j => p.neg[i] # p.neg[j]
  BY DEF WellPosed
<1> QED
  BY <1>1, BeforeIsOrder DEF Right, Above

\* Not every module of a set that is not empty stands behind another of the set.
LEMMA SomeFirst ==
  ASSUME NEW p, WellPosed(p), NEW S \in SUBSET Modules,
         \A v \in S : \E u \in S : Before(p.pos, u, v)
  PROVE  S = {}
<1> SUFFICES ASSUME S # {} PROVE FALSE
  OBVIOUS
<1> DEFINE T == {i \in Modules : p.pos[i] \in S}
<1>1. T \subseteq Nat /\ Modules \subseteq Int
  BY DEF Modules
<1>2. T # {}
  BY DEF Before
<1>3. PICK i \in T : \A j \in T : ~(<<j, i>> \in OpToRel(<, Nat))
  BY <1>1, <1>2, WFMin, NatLessThanWellFounded
<1>4. PICK u \in S : Before(p.pos, u, p.pos[i])
  OBVIOUS
<1>5. PICK j, k \in Modules : j < k /\ p.pos[j] = u /\ p.pos[k] = p.pos[i]
  BY <1>4 DEF Before
<1>6. k = i
  BY <1>5 DEF WellPosed
<1>7. j \in T /\ j < i
  BY <1>4, <1>5, <1>6
<1> QED
  BY <1>1, <1>3, <1>7 DEF OpToRel

\* When the queue is empty nothing waits: every module has been placed.
LEMMA NothingWaits ==
  ASSUME WellPosed(problem), que = EmptyBag, NEW out,
         \A u, v \in Modules : v \in out[u] => Before(problem.pos, u, v),
         \A v \in Modules \ visited : Waiting(v, out)
  PROVE  Modules \subseteq visited
<1> DEFINE S == Modules \ visited
<1>1. \A v \in S : \E u \in S : Before(problem.pos, u, v)
  BY NothingIn DEF Waiting
<1>2. S \in SUBSET Modules
  OBVIOUS
<1> HIDE DEF S
<1>3. S = {}
  BY <1>1, <1>2, SomeFirst
<1> QED
  BY <1>3 DEF S

-----------------------------------------------------------------------------
(* The steps                                                               *)

\* What the type invariant says about the graphs.
LEMMA GraphFacts ==
  ASSUME TypeOK, pass # "construct"
  PROVE  /\ WellPosed(problem)
         /\ right \in [Modules -> SUBSET Modules] /\ above \in [Modules -> SUBSET Modules]
         /\ problem.width \in [Modules -> Nat \ {0}] /\ problem.length \in [Modules -> Nat \ {0}]
         /\ \A a \in Modules : a \notin right[a] /\ a \notin above[a]
         /\ \A a, b \in Modules : b \in above[a] => above[b] \subseteq above[a]
         /\ \A a, b \in Modules : b \in right[a] \cup above[a] => Before(problem.pos, a, b)
<1>1. WellPosed(problem) /\ \A a \in Modules : right[a] = Right(problem, a) /\ above[a] = Above(problem, a)
  BY DEF TypeOK
<1>2. /\ right \in [Modules -> SUBSET Modules] /\ above \in [Modules -> SUBSET Modules]
      /\ problem.width \in [Modules -> Nat \ {0}] /\ problem.length \in [Modules -> Nat \ {0}]
  BY DEF TypeOK, WellPosed
<1>3. /\ \A a \in Modules : a \notin Right(problem, a) /\ a \notin Above(problem, a)
      /\ \A a, b \in Modules : b \in Above(problem, a) => Above(problem, b) \subseteq Above(problem, a)
      /\ \A a, b \in Modules : b \in Right(problem, a) \cup Above(problem, a) => Before(problem.pos, a, b)
  BY <1>1, GraphsAreOrders
<1> QED
  BY <1>1, <1>2, <1>3

\* Entries are pairs of a distance and a module.
LEMMA EntriesTyped ==
  ASSUME NEW d \in Nat, NEW S \in SUBSET Modules
  PROVE  Entries(d, S) \subseteq Nat \X Modules
BY DEF Entries

\* The queue a pass starts with: every module waits.
LEMMA AllWait ==
  ASSUME NEW out, que' = SetToBag(Entries(0, Roots(out)))
  PROVE  /\ IsABag(que') /\ BagToSet(que') = Entries(0, Roots(out))
         /\ BagToSet(que') \subseteq Nat \X Modules
         /\ \A s \in BagToSet(que') : PushedFirst(s, out)
         /\ \A v \in Modules : \/ \E s \in BagToSet(que') : s[2] = v
                               \/ \E u \in Modules : v \in out[u]
<1>1. IsABag(que') /\ BagToSet(que') = Entries(0, Roots(out))
  BY BagOfSet
<1>2. Roots(out) \in SUBSET Modules
  BY DEF Roots
<1>3. BagToSet(que') \subseteq Nat \X Modules
  BY <1>1, <1>2, EntriesTyped
<1>4. \A s \in BagToSet(que') : PushedFirst(s, out)
  BY <1>1 DEF Entries, PushedFirst
<1>5. ASSUME NEW v \in Modules, \A u \in Modules : v \notin out[u]
      PROVE  \E s \in BagToSet(que') : s[2] = v
  <2>1. <<0, v>> \in BagToSet(que')
    BY <1>1, <1>5 DEF Entries, Roots
  <2> QED
    BY <2>1
<1> QED
  BY <1>1, <1>3, <1>4, <1>5

LEMMA InitIInv ==
  Init => IInv
<1> SUFFICES ASSUME Init PROVE IInv
  OBVIOUS
<1>1. WellPosed(problem)
  BY ProblemsAssumption DEF Init
<1>2. IsABag(que) /\ BagToSet(que) = {}
  BY BagOfSet DEF Init, EmptyBag
<1>3. TypeOK
  BY <1>1, <1>2 DEF Init, TypeOK
<1> QED
  BY <1>3 DEF Init, IInv, Fresh, Horizontal, TouchesLeft, Vertical, RestsOnBelow


\* construct leaves every module waiting.
LEMMA ConstructPreserves ==
  ASSUME IInv, Construct
  PROVE  IInv'
<1>1. /\ que' = SetToBag(Entries(0, Roots(right'))) /\ visited' = {}
      /\ problem' = problem /\ pass' = "horizontal" /\ x' = x /\ y' = y
      /\ right' = [a \in Modules |-> Right(problem, a)]
      /\ above' = [a \in Modules |-> Above(problem, a)]
  BY DEF Construct, IInv, Fresh
<1>2. /\ IsABag(que') /\ BagToSet(que') \subseteq Nat \X Modules
      /\ \A s \in BagToSet(que') : PushedFirst(s, right')
      /\ \A v \in Modules : \/ \E s \in BagToSet(que') : s[2] = v
                            \/ \E u \in Modules : v \in right'[u]
  BY <1>1, AllWait
<1>3. TypeOK'
  <2>1. \A a \in Modules : Right(problem, a) \in SUBSET Modules /\ Above(problem, a) \in SUBSET Modules
    BY DEF Right, Above
  <2> QED
    BY <1>1, <1>2, <2>1 DEF IInv, TypeOK
<1>4. Horizontal'
  BY <1>1, <1>2 DEF Horizontal, Waiting
<1> QED
  BY <1>1, <1>3, <1>4 DEF IInv, Fresh, TouchesLeft, Vertical, RestsOnBelow

\* What taking the pair at the top does to the queue.
LEMMA Taken ==
  ASSUME IInv, NEW dist, NEW u, Greatest(dist, u)
  PROVE  /\ dist \in Nat /\ u \in Modules /\ <<dist, u>> \in BagToSet(que)
         /\ IsABag(Popped(dist, u)) /\ BagToSet(Popped(dist, u)) \subseteq BagToSet(que)
         /\ \A s \in BagToSet(que) : s[1] \in Nat /\ s[2] \in Modules /\ s[1] <= dist
         /\ \A s \in BagToSet(que) : s[2] # u => s \in BagToSet(Popped(dist, u))
<1>1. IsABag(que) /\ BagToSet(que) \subseteq Nat \X Modules /\ <<dist, u>> \in BagToSet(que)
  BY DEF IInv, TypeOK, Greatest, BagIn
<1>2. /\ IsABag(Popped(dist, u)) /\ BagToSet(Popped(dist, u)) \subseteq BagToSet(que)
      /\ BagToSet(que) \ {<<dist, u>>} \subseteq BagToSet(Popped(dist, u))
  BY <1>1, BagTaken DEF Popped
<1>3. \A s \in BagToSet(que) : s[1] \in Nat /\ s[2] \in Modules /\ s[1] <= dist
  BY <1>1 DEF Greatest
<1> QED
  BY <1>1, <1>2, <1>3

\* A module that was placed waits no longer for itself.
LEMMA SkipVisitedPreserves ==
  ASSUME IInv, NEW dist, NEW u, SkipVisited(dist, u)
  PROVE  IInv'
<1>1. /\ Greatest(dist, u) /\ u \in visited /\ que' = Popped(dist, u) /\ pass = "horizontal"
      /\ problem' = problem /\ right' = right /\ above' = above /\ pass' = pass
      /\ visited' = visited /\ x' = x /\ y' = y
  BY DEF SkipVisited
<1>2. /\ IsABag(que') /\ BagToSet(que') \subseteq BagToSet(que)
      /\ \A s \in BagToSet(que) : s[2] # u => s \in BagToSet(que')
  BY <1>1, Taken
<1>3. TypeOK'
  BY <1>1, <1>2 DEF IInv, TypeOK
<1>4. Horizontal'
  <2>1. \A s \in BagToSet(que') : s \in BagToSet(que)
    BY <1>2
  <2>2. ASSUME NEW v \in Modules \ visited PROVE Waiting(v, right)'
    BY <1>1, <1>2, <2>2 DEF IInv, Horizontal, Waiting
  <2> QED
    BY <1>1, <2>1, <2>2 DEF IInv, Horizontal, PushedFirst, PushedBy, Supported, Roots
<1>5. TouchesLeft'
  BY <1>1 DEF IInv, TouchesLeft, Supported, Roots
<1> QED
  BY <1>1, <1>3, <1>4, <1>5 DEF IInv, Fresh, Vertical, RestsOnBelow

\* Taking the pair at the top and pushing what stands behind the module.
LEMMA TakenAndPushed ==
  ASSUME IInv, NEW dist, NEW u, Greatest(dist, u),
         NEW size \in [Modules -> Nat \ {0}], NEW out \in [Modules -> SUBSET Modules],
         que' = Popped(dist, u) (+) SetToBag(Reached(dist, size, out, u))
  PROVE  /\ IsABag(que') /\ BagToSet(que') \subseteq Nat \X Modules
         /\ \A s \in BagToSet(que') : \/ s \in BagToSet(que)
                                      \/ s[2] \in out[u] /\ s[1] = dist + size[u]
         /\ \A s \in BagToSet(que) : s[2] # u => s \in BagToSet(que')
         /\ \A v \in out[u] : <<dist + size[u], v>> \in BagToSet(que')
<1>1. /\ dist \in Nat /\ u \in Modules
      /\ IsABag(Popped(dist, u)) /\ BagToSet(Popped(dist, u)) \subseteq BagToSet(que)
      /\ \A s \in BagToSet(que) : s[2] # u => s \in BagToSet(Popped(dist, u))
  BY Taken
<1>2. IsABag(que') /\ BagToSet(que') = BagToSet(Popped(dist, u)) \cup Reached(dist, size, out, u)
  BY <1>1, BagAdded
<1>3. Reached(dist, size, out, u) = {<<dist + size[u], v>> : v \in out[u]}
  BY DEF Reached, Entries
<1>4. dist + size[u] \in Nat /\ out[u] \in SUBSET Modules
  BY <1>1
<1>5. Reached(dist, size, out, u) \subseteq Nat \X Modules
  BY <1>3, <1>4
<1>6. BagToSet(que) \subseteq Nat \X Modules
  BY DEF IInv, TypeOK
<1>7. BagToSet(que') \subseteq Nat \X Modules
  BY <1>1, <1>2, <1>5, <1>6
<1>8. \A s \in Reached(dist, size, out, u) : s[2] \in out[u] /\ s[1] = dist + size[u]
  BY <1>3
<1>9. \A v \in out[u] : <<dist + size[u], v>> \in Reached(dist, size, out, u)
  BY <1>3
<1> QED
  BY <1>1, <1>2, <1>7, <1>8, <1>9

\* The module placed was waiting where one that stands fast had pushed it.
LEMMA PlaceHorizontallyPreserves ==
  ASSUME IInv, NEW dist, NEW u, PlaceHorizontally(dist, u)
  PROVE  IInv'
<1>1. /\ Greatest(dist, u) /\ u \notin visited /\ pass = "horizontal" /\ pass' = pass
      /\ que' = Popped(dist, u) (+) SetToBag(Reached(dist, problem.width, right, u))
      /\ visited' = visited \cup {u} /\ x' = [x EXCEPT ![u] = dist]
      /\ problem' = problem /\ right' = right /\ above' = above /\ y' = y
  BY DEF PlaceHorizontally
<1>2. /\ right \in [Modules -> SUBSET Modules] /\ problem.width \in [Modules -> Nat \ {0}]
      /\ \A a \in Modules : a \notin right[a]
  BY <1>1, GraphFacts DEF IInv
<1>3. dist \in Nat /\ u \in Modules /\ <<dist, u>> \in BagToSet(que) /\ visited \in SUBSET Modules
  BY <1>1, Taken DEF IInv, TypeOK
<1>4. /\ IsABag(que') /\ BagToSet(que') \subseteq Nat \X Modules
      /\ \A s \in BagToSet(que') : \/ s \in BagToSet(que)
                                   \/ s[2] \in right[u] /\ s[1] = dist + problem.width[u]
      /\ \A s \in BagToSet(que) : s[2] # u => s \in BagToSet(que')
      /\ \A v \in right[u] : <<dist + problem.width[u], v>> \in BagToSet(que')
  BY <1>1, <1>2, TakenAndPushed
<1>5. x' \in [Modules -> Nat] /\ x'[u] = dist /\ \A v \in visited : x'[v] = x[v]
  BY <1>1, <1>3 DEF IInv, TypeOK
<1>6. TypeOK'
  BY <1>1, <1>3, <1>4, <1>5 DEF IInv, TypeOK
<1>7. ASSUME NEW s \in BagToSet(que')
      PROVE  PushedFirst(s, right) \/ \E w \in visited' : PushedBy(s, w, x', problem.width, right)
  <2>1. CASE s \in BagToSet(que)
    <3>1. PushedFirst(s, right) \/ \E w \in visited : PushedBy(s, w, x, problem.width, right)
      BY <1>1, <2>1 DEF IInv, Horizontal
    <3> QED
      BY <3>1, <1>1, <1>5 DEF PushedBy
  <2>2. CASE s[2] \in right[u] /\ s[1] = dist + problem.width[u]
    BY <2>2, <1>1, <1>5 DEF PushedBy
  <2> QED
    BY <1>4, <2>1, <2>2
<1>8. ASSUME NEW v \in visited'
      PROVE  Supported(v, x', problem.width, right, visited')
  <2>1. CASE v = u
    <3>1. PushedFirst(<<dist, u>>, right)
          \/ \E w \in visited : PushedBy(<<dist, u>>, w, x, problem.width, right)
      BY <1>1, <1>3 DEF IInv, Horizontal
    <3> QED
      BY <2>1, <3>1, <1>1, <1>5 DEF PushedFirst, PushedBy, Supported
  <2>2. CASE v \in visited
    <3>1. Supported(v, x, problem.width, right, visited)
      BY <1>1, <2>2 DEF IInv, Horizontal
    <3> QED
      BY <2>2, <3>1, <1>1, <1>5 DEF Supported
  <2> QED
    BY <1>1, <2>1, <2>2
<1>9. ASSUME NEW v \in Modules \ visited'
      PROVE  Waiting(v, right)'
  <2>1. v # u /\ Waiting(v, right)
    BY <1>1 DEF IInv, Horizontal
  <2>2. CASE \E s \in BagToSet(que) : s[2] = v
    BY <2>1, <2>2, <1>4 DEF Waiting
  <2>3. CASE \E w \in Modules \ visited : v \in right[w]
    <3>1. PICK w \in Modules \ visited : v \in right[w]
      BY <2>3
    <3>2. CASE w = u
      <4>1. <<dist + problem.width[u], v>> \in BagToSet(que')
        BY <3>1, <3>2, <1>4
      <4> QED
        BY <4>1 DEF Waiting
    <3>3. CASE w # u
      BY <3>1, <3>3, <1>1 DEF Waiting
    <3> QED
      BY <3>2, <3>3
  <2> QED
    BY <2>1, <2>2, <2>3 DEF Waiting
<1>10. \A v \in visited' : Supported(v, x, problem.width, right, visited)'
  BY <1>1, <1>8 DEF Supported, Roots
<1>11. Horizontal'
  <2>1. \A s : PushedFirst(s, right)' <=> PushedFirst(s, right)
    BY <1>1 DEF PushedFirst, Roots
  <2>2. \A s, w : PushedBy(s, w, x, problem.width, right)' <=> PushedBy(s, w, x', problem.width, right)
    BY <1>1 DEF PushedBy
  <2> QED
    BY <1>1, <1>7, <1>9, <1>10, <2>1, <2>2 DEF Horizontal
<1>12. TouchesLeft'
  BY <1>1, <1>10 DEF TouchesLeft
<1> QED
  BY <1>1, <1>6, <1>11, <1>12 DEF IInv, Fresh, Vertical, RestsOnBelow

\* The horizontal pass has placed every module; the vertical one begins.
LEMMA BeginVerticalPreserves ==
  ASSUME IInv, BeginVertical
  PROVE  IInv'
<1>1. /\ pass = "horizontal" /\ pass' = "vertical" /\ que = EmptyBag /\ visited' = {}
      /\ que' = SetToBag(Entries(0, Roots(above)))
      /\ problem' = problem /\ right' = right /\ above' = above /\ x' = x /\ y' = y
  BY DEF BeginVertical
<1>2. Modules \subseteq visited
  <2>1. WellPosed(problem) /\ \A a, b \in Modules : b \in right[a] => Before(problem.pos, a, b)
    BY <1>1, GraphFacts DEF IInv
  <2>2. \A v \in Modules \ visited : Waiting(v, right)
    BY <1>1 DEF IInv, Horizontal
  <2> QED
    BY <1>1, <2>1, <2>2, NothingWaits
<1>3. /\ IsABag(que') /\ BagToSet(que') \subseteq Nat \X Modules
      /\ \A s \in BagToSet(que') : PushedFirst(s, above)
      /\ \A v \in Modules : \/ \E s \in BagToSet(que') : s[2] = v
                            \/ \E u \in Modules : v \in above[u]
  BY <1>1, AllWait
<1>4. TypeOK'
  BY <1>1, <1>3 DEF IInv, TypeOK
<1>5. \A v \in Modules : Supported(v, x, problem.width, right, visited)
  BY <1>1, <1>2 DEF IInv, Horizontal
<1>6. visited = Modules
  BY <1>2 DEF IInv, TypeOK
<1>7. TouchesLeft'
  BY <1>1, <1>5, <1>6 DEF TouchesLeft, Supported, Roots
<1>8. Vertical'
  BY <1>1, <1>3 DEF Vertical, Waiting, PushedFirst, Roots
<1> QED
  BY <1>1, <1>4, <1>7, <1>8 DEF IInv, Fresh, Horizontal, RestsOnBelow

\* Only what stands behind w is taken between placing w and placing all that w pushed, so
\* nothing has moved a module when what rests on it is placed.
LEMMA PlaceVerticallyPreserves ==
  ASSUME IInv, NEW dist, NEW u, PlaceVertically(dist, u)
  PROVE  IInv'
<1>1. /\ Greatest(dist, u) /\ pass = "vertical" /\ pass' = pass
      /\ que' = Popped(dist, u) (+) SetToBag(Reached(dist, problem.length, above, u))
      /\ visited' = visited \cup {u} /\ y' = [y EXCEPT ![u] = dist]
      /\ problem' = problem /\ right' = right /\ above' = above /\ x' = x
  BY DEF PlaceVertically
<1>2. /\ above \in [Modules -> SUBSET Modules] /\ problem.length \in [Modules -> Nat \ {0}]
      /\ \A a \in Modules : a \notin above[a]
      /\ \A a, b \in Modules : b \in above[a] => above[b] \subseteq above[a]
  BY <1>1, GraphFacts DEF IInv
<1>3. /\ dist \in Nat /\ u \in Modules /\ <<dist, u>> \in BagToSet(que)
      /\ visited \in SUBSET Modules /\ y \in [Modules -> Nat]
      /\ \A s \in BagToSet(que) : s[1] \in Nat /\ s[2] \in Modules /\ s[1] <= dist
  BY <1>1, Taken DEF IInv, TypeOK
<1>4. /\ IsABag(que') /\ BagToSet(que') \subseteq Nat \X Modules
      /\ \A s \in BagToSet(que') :
             s \in BagToSet(que) \/ (s[2] \in above[u] /\ s[1] = dist + problem.length[u])
      /\ \A s \in BagToSet(que) : s[2] # u => s \in BagToSet(que')
      /\ \A v \in above[u] : <<dist + problem.length[u], v>> \in BagToSet(que')
  BY <1>1, <1>2, TakenAndPushed
<1>5. y' \in [Modules -> Nat] /\ y'[u] = dist /\ \A v \in Modules : v # u => y'[v] = y[v]
  BY <1>1, <1>3
<1>6. TypeOK'
  BY <1>1, <1>3, <1>4, <1>5 DEF IInv, TypeOK
<1>7. \A s \in BagToSet(que) :
          PushedFirst(s, above) \/ \E w \in visited : PushedBy(s, w, y, problem.length, above)
                                                      /\ Behind(w, y, above)
  BY <1>1 DEF IInv, Vertical
\* Whatever pushed an entry that is still there is not the module now moved.
<1>8. ASSUME NEW s \in BagToSet(que), NEW w \in visited, s[1] <= dist,
             PushedBy(s, w, y, problem.length, above), Behind(w, y, above)
      PROVE  u \in above[w] /\ w # u
  <2>1. y[w] \in Nat /\ problem.length[w] \in Nat \ {0} /\ s[1] = y[w] + problem.length[w]
    BY <1>2, <1>3, <1>8 DEF PushedBy
  <2>2. ~(dist <= y[w])
    BY <2>1, <1>3, <1>8
  <2>3. u \in above[w]
    BY <2>2, <1>3, <1>8 DEF Behind
  <2> QED
    BY <2>3, <1>2, <1>3
<1>9. ASSUME NEW s \in BagToSet(que')
      PROVE  PushedFirst(s, above) \/ \E w \in visited' : PushedBy(s, w, y', problem.length, above)
                                                          /\ Behind(w, y, above)'
  <2>1. ASSUME s \in BagToSet(que), NEW w \in visited,
               PushedBy(s, w, y, problem.length, above), Behind(w, y, above)
        PROVE  PushedBy(s, w, y', problem.length, above) /\ Behind(w, y, above)'
    <3>1. u \in above[w] /\ w # u
      BY <2>1, <1>3, <1>8
    <3>2. y'[w] = y[w] /\ above[u] \subseteq above[w]
      BY <3>1, <1>2, <1>3, <1>5
    <3>3. \A r \in BagToSet(que') : r[2] \notin above[w] => r[1] <= y'[w]
      BY <3>2, <1>4, <2>1 DEF Behind
    <3> QED
      BY <3>2, <3>3, <2>1, <1>1 DEF PushedBy, Behind
  <2>2. CASE s[2] \in above[u] /\ s[1] = dist + problem.length[u]
    <3>1. PushedBy(s, u, y', problem.length, above)
      BY <2>2, <1>5 DEF PushedBy
    <3>2. \A r \in BagToSet(que') : r[2] \notin above[u] => r[1] <= y'[u]
      BY <1>3, <1>4, <1>5
    <3>3. Behind(u, y, above)'
      BY <3>2, <1>1 DEF Behind
    <3> QED
      BY <3>1, <3>3, <1>1
  <2>3. CASE s \in BagToSet(que)
    BY <2>1, <2>3, <1>1, <1>7
  <2> QED
    BY <1>4, <2>2, <2>3
<1>10. ASSUME NEW v \in visited'
       PROVE  Supported(v, y', problem.length, above, Modules) \/ \E s \in BagToSet(que') : s[2] = v
  <2>1. CASE v = u
    <3>1. CASE PushedFirst(<<dist, u>>, above)
      BY <2>1, <3>1, <1>5 DEF PushedFirst, Supported
    <3>2. ASSUME NEW w \in visited, PushedBy(<<dist, u>>, w, y, problem.length, above)
          PROVE  Supported(u, y', problem.length, above, Modules)
      <4>1. u \in above[w] /\ dist = y[w] + problem.length[w] /\ w \in Modules
        BY <3>2, <1>3 DEF PushedBy
      <4>2. w # u
        BY <4>1, <1>2
      <4> QED
        BY <4>1, <4>2, <1>5 DEF Supported
    <3> QED
      BY <2>1, <3>1, <3>2, <1>3, <1>7
  <2>2. CASE v # u /\ \E s \in BagToSet(que) : s[2] = v
    BY <2>2, <1>4
  <2>3. CASE v # u /\ Supported(v, y, problem.length, above, Modules)
    <3>1. v \in Modules /\ y'[v] = y[v]
      BY <2>3, <1>1, <1>3, <1>5
    <3>2. CASE y[v] = 0 /\ v \in Roots(above)
      BY <3>1, <3>2 DEF Supported
    <3>3. ASSUME NEW w \in Modules, v \in above[w], y[v] = y[w] + problem.length[w]
          PROVE  Supported(v, y', problem.length, above, Modules) \/ \E s \in BagToSet(que') : s[2] = v
      <4>1. CASE w = u
        <5>1. <<dist + problem.length[u], v>> \in BagToSet(que')
          BY <3>3, <4>1, <1>4
        <5> QED
          BY <5>1
      <4>2. CASE w # u
        BY <3>1, <3>3, <4>2, <1>5 DEF Supported
      <4> QED
        BY <4>1, <4>2
    <3> QED
      BY <2>3, <3>2, <3>3 DEF Supported
  <2> QED
    BY <1>1, <2>1, <2>2, <2>3 DEF IInv, Vertical
<1>11. ASSUME NEW v \in Modules \ visited'
       PROVE  Waiting(v, above)'
  <2>1. v # u /\ Waiting(v, above)
    BY <1>1, <1>11 DEF IInv, Vertical
  <2>2. CASE \E s \in BagToSet(que) : s[2] = v
    BY <2>1, <2>2, <1>4 DEF Waiting
  <2>3. ASSUME NEW w \in Modules \ visited, v \in above[w]
        PROVE  Waiting(v, above)'
    <3>1. CASE w = u
      <4>1. <<dist + problem.length[u], v>> \in BagToSet(que')
        BY <2>3, <3>1, <1>4
      <4> QED
        BY <4>1 DEF Waiting
    <3>2. CASE w # u
      BY <2>3, <3>2, <1>1 DEF Waiting
    <3> QED
      BY <3>1, <3>2
  <2> QED
    BY <2>1, <2>2, <2>3 DEF Waiting
<1>12. Vertical'
  <2>1. \A s \in BagToSet(que') : PushedFirst(s, above)' <=> PushedFirst(s, above)
    BY <1>1 DEF PushedFirst, Roots
  <2>2. \A v : Supported(v, y, problem.length, above, Modules)' <=> Supported(v, y', problem.length, above, Modules)
    BY <1>1 DEF Supported, Roots
  <2>3. \A s, w : PushedBy(s, w, y, problem.length, above)' <=> PushedBy(s, w, y', problem.length, above)
    BY <1>1 DEF PushedBy
  <2> QED
    BY <1>1, <1>9, <1>10, <1>11, <2>1, <2>2, <2>3 DEF Vertical
<1>13. TouchesLeft'
  BY <1>1 DEF IInv, TouchesLeft, Supported, Roots
<1> QED
  BY <1>1, <1>6, <1>12, <1>13 DEF IInv, Fresh, Horizontal, RestsOnBelow

\* The vertical pass has placed every module and moved none since what rests on it was placed.
LEMMA EndVerticalPreserves ==
  ASSUME IInv, EndVertical
  PROVE  IInv'
<1>1. /\ pass = "vertical" /\ pass' = "done" /\ que = EmptyBag /\ que' = que /\ visited' = visited
      /\ problem' = problem /\ right' = right /\ above' = above /\ x' = x /\ y' = y
  BY DEF EndVertical
<1>2. Modules \subseteq visited
  <2>1. WellPosed(problem) /\ \A a, b \in Modules : b \in above[a] => Before(problem.pos, a, b)
    BY <1>1, GraphFacts DEF IInv
  <2>2. \A v \in Modules \ visited : Waiting(v, above)
    BY <1>1 DEF IInv, Vertical
  <2> QED
    BY <1>1, <2>1, <2>2, NothingWaits
<1>3. \A v \in Modules : Supported(v, y, problem.length, above, Modules)
  BY <1>1, <1>2, NothingIn DEF IInv, Vertical
<1>4. RestsOnBelow'
  BY <1>1, <1>3 DEF RestsOnBelow, Supported, Roots
<1>5. TypeOK' /\ TouchesLeft'
  BY <1>1 DEF IInv, TypeOK, TouchesLeft, Supported, Roots
<1> QED
  BY <1>1, <1>4, <1>5 DEF IInv, Fresh, Horizontal, Vertical

\* Once the floorplan is written nothing changes.
LEMMA StutterPreserves ==
  ASSUME IInv, UNCHANGED vars
  PROVE  IInv'
<1>1. /\ problem' = problem /\ right' = right /\ above' = above /\ pass' = pass
      /\ que' = que /\ visited' = visited /\ x' = x /\ y' = y
  BY DEF vars
<1>2. TypeOK' /\ Fresh'
  BY <1>1 DEF IInv, TypeOK, Fresh
<1>3. TouchesLeft' /\ RestsOnBelow'
  BY <1>1 DEF IInv, TouchesLeft, RestsOnBelow, Supported, Roots
<1>4. Horizontal'
  BY <1>1 DEF IInv, Horizontal, PushedFirst, PushedBy, Waiting, Supported, Roots
<1>5. Vertical'
  BY <1>1 DEF IInv, Vertical, PushedFirst, PushedBy, Behind, Waiting, Supported, Roots
<1> QED
  BY <1>2, <1>3, <1>4, <1>5 DEF IInv

-----------------------------------------------------------------------------
(* The theorems                                                            *)

(***************************************************************************)
(* The inductive invariant: every entry of the queue leads to a place next *)
(* to a module that stands where it stood when it pushed the entry, and    *)
(* every module has been placed or waits for one.                          *)
(***************************************************************************)
THEOREM FloorplanInvariance ==
  Spec => []IInv
<1>1. IInv /\ [Next]_vars => IInv'
  <2> SUFFICES ASSUME IInv, [Next]_vars PROVE IInv'
    OBVIOUS
  <2>1. CASE Construct
    BY <2>1, ConstructPreserves
  <2>2. ASSUME NEW top \in BagToSet(que), SkipVisited(top[1], top[2]) PROVE IInv'
    BY <2>2, SkipVisitedPreserves
  <2>3. ASSUME NEW top \in BagToSet(que), PlaceHorizontally(top[1], top[2]) PROVE IInv'
    BY <2>3, PlaceHorizontallyPreserves
  <2>4. ASSUME NEW top \in BagToSet(que), PlaceVertically(top[1], top[2]) PROVE IInv'
    BY <2>4, PlaceVerticallyPreserves
  <2>5. CASE BeginVertical
    BY <2>5, BeginVerticalPreserves
  <2>6. CASE EndVertical
    BY <2>6, EndVerticalPreserves
  <2>7. CASE UNCHANGED vars
    BY <2>7, StutterPreserves
  <2> QED
    BY <2>1, <2>2, <2>3, <2>4, <2>5, <2>6, <2>7 DEF Next, Step, Written
<1> QED
  BY <1>1, InitIInv, PTL DEF Spec

(***************************************************************************)
(* Every variable has its type and the graphs are the problem's.           *)
(***************************************************************************)
THEOREM FloorplanTypeCorrect ==
  Spec => []TypeOK
<1>1. IInv => TypeOK
  BY DEF IInv
<1> QED
  BY <1>1, FloorplanInvariance, PTL

(***************************************************************************)
(* The horizontal pass leaves no module floating.                          *)
(***************************************************************************)
THEOREM FloorplanTouchesLeft ==
  Spec => []TouchesLeft
<1>1. IInv => TouchesLeft
  BY DEF IInv
<1> QED
  BY <1>1, FloorplanInvariance, PTL

(***************************************************************************)
(* Nor does the vertical pass, although it moves modules.                  *)
(***************************************************************************)
THEOREM FloorplanRestsOnBelow ==
  Spec => []RestsOnBelow
<1>1. IInv => RestsOnBelow
  BY DEF IInv
<1> QED
  BY <1>1, FloorplanInvariance, PTL
=============================================================================
