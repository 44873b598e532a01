---------------------------- MODULE RcTreeProofs ----------------------------
(***************************************************************************)
(* Proofs about the RC tree calculator, for files of any nets: its types,  *)
(* that what it computes of a tree are the moments of the tree's network,  *)
(* and that only a circle or a deep tree exhausts the call stack.          *)
(*                                                                         *)
(* What the root is connected to when an edge is cut is the least set that *)
(* is closed under the edges left. From this alone: the parts behind the   *)
(* edges that lead on from a node are disjoint and, with the node, make up *)
(* all that is under it, and one edge leads to each node. Sums over sets   *)
(* of nodes then add up along the calls: a call's sum is that of what has  *)
(* returned to it, and a node's moment is its caller's and the share of    *)
(* the edge between them.                                                  *)
(***************************************************************************)
EXTENDS RcTree, FiniteSetTheorems, WellFoundedInduction, TLAPS

-----------------------------------------------------------------------------
(* Numbers                                                                 *)

\* A set of numbers has a least member.
LEMMA LeastNumber ==
  ASSUME NEW T \in SUBSET Nat, T # {}
  PROVE  \E n \in T : \A m \in T : n <= m
<1> DEFINE R == {ss \in Nat \X Nat : ss[1] < ss[2]}
<1>1. IsWellFoundedOn(R, Nat)
  BY NatLessThanWellFounded DEF OpToRel
<1> HIDE DEF R
<1>2. PICK n \in T : \A m \in T : ~ (<<m, n>> \in R)
  BY <1>1, WFMin
<1>3. ASSUME NEW m \in T PROVE n <= m
  <2>1. m \in Nat /\ n \in Nat
    OBVIOUS
  <2>2. m < n => <<m, n>> \in R
    BY <2>1 DEF R
  <2> QED BY <1>2, <2>1, <2>2
<1> QED BY <1>3

\* Induction, with a set for the predicate.
LEMMA NumberInduction ==
  ASSUME NEW T, 0 \in T, \A n \in T \cap Nat : n + 1 \in T
  PROVE  Nat \subseteq T
<1> SUFFICES ASSUME Nat \ T # {} PROVE FALSE
  OBVIOUS
<1>1. PICK n \in Nat \ T : \A m \in Nat \ T : n <= m
  BY LeastNumber
<1>2. n # 0 /\ n - 1 \in Nat
  BY <1>1
<1>3. n - 1 \in T
  BY <1>1, <1>2
<1>4. n - 1 + 1 = n
  BY <1>1
<1> QED BY <1>1, <1>2, <1>3, <1>4

\* The first n steps of the recursion that starts at base and goes on by F.
Unfolds(g, n, base, F) == g[0] = base /\ \A i \in Nat : i < n => g[i + 1] = F[g[i]]

\* A recursion over the natural numbers, its step being a function, has a solution.
LEMMA Recursion ==
  ASSUME NEW S, NEW base \in S, NEW F \in [S -> S]
  PROVE  \E f \in [Nat -> S] : f[0] = base /\ \A i \in Nat : f[i + 1] = F[f[i]]
<1> DEFINE T == {n \in Nat : \E g \in [0..n -> S] : Unfolds(g, n, base, F)}
<1>1. 0 \in T
  <2> DEFINE g == [i \in 0..0 |-> base]
  <2>1. g \in [0..0 -> S] /\ g[0] = base
    OBVIOUS
  <2>2. \A i \in Nat : ~(i < 0)
    OBVIOUS
  <2> HIDE DEF g
  <2>3. Unfolds(g, 0, base, F)
    BY <2>1, <2>2 DEF Unfolds
  <2> QED BY <2>1, <2>3
<1>2. ASSUME NEW n \in T \cap Nat PROVE n + 1 \in T
  <2>1. PICK g \in [0..n -> S] : Unfolds(g, n, base, F)
    BY <1>2
  <2> HIDE DEF T
  <2>2. n \in Nat /\ n \in 0..n /\ 0 \in 0..n
    BY <1>2
  <2> DEFINE h == [i \in 0..(n + 1) |-> IF i <= n THEN g[i] ELSE F[g[n]]]
  <2>3. h \in [0..(n + 1) -> S] /\ h[0] = base
    BY <2>1, <2>2 DEF Unfolds
  <2>4. ASSUME NEW i \in Nat, i < n + 1 PROVE h[i + 1] = F[h[i]]
    <3>1. CASE i < n
      <4>1. h[i + 1] = g[i + 1] /\ h[i] = g[i]
        BY <2>2, <3>1
      <4> QED BY <2>1, <3>1, <4>1 DEF Unfolds
    <3>2. CASE i = n
      BY <2>2, <3>2
    <3> QED BY <2>2, <2>4, <3>1, <3>2
  <2>5. n + 1 \in Nat
    BY <2>2
  <2> HIDE DEF h
  <2>6. Unfolds(h, n + 1, base, F)
    BY <2>3, <2>4 DEF Unfolds
  <2> QED BY <2>3, <2>5, <2>6 DEF T
<1>3. Nat \subseteq T
  <2> HIDE DEF T
  <2> QED BY <1>1, <1>2, NumberInduction
<1> DEFINE part(n) == CHOOSE g \in [0..n -> S] : Unfolds(g, n, base, F)
<1>4. \A n \in Nat : part(n) \in [0..n -> S] /\ Unfolds(part(n), n, base, F)
  BY <1>3
<1> HIDE DEF part, T
\* Two of them agree as far as both go.
<1>5. ASSUME NEW n \in Nat PROVE part(n)[n] = part(n + 1)[n]
  <2> DEFINE U == {i \in Nat : i <= n => part(n)[i] = part(n + 1)[i]}
  <2>1. Unfolds(part(n), n, base, F) /\ Unfolds(part(n + 1), n + 1, base, F)
    <3>1. n + 1 \in Nat
      OBVIOUS
    <3> QED BY <1>4, <3>1
  <2>2. 0 \in U
    BY <2>1 DEF Unfolds
  <2>3. ASSUME NEW i \in U \cap Nat PROVE i + 1 \in U
    <3>1. i + 1 <= n => i < n /\ i < n + 1 /\ i <= n
      OBVIOUS
    <3> QED BY <2>1, <3>1 DEF Unfolds
  <2> HIDE DEF U
  <2>4. Nat \subseteq U
    BY <2>2, <2>3, NumberInduction
  <2> QED BY <2>4 DEF U
<1> DEFINE f == [n \in Nat |-> part(n)[n]]
<1>6. \A n \in Nat : part(n)[n] \in S
  <2> TAKE n \in Nat
  <2>1. n \in 0..n
    OBVIOUS
  <2> QED BY <1>4, <2>1
<1>7. f \in [Nat -> S] /\ f[0] = base
  BY <1>4, <1>6 DEF Unfolds
<1>8. ASSUME NEW i \in Nat PROVE f[i + 1] = F[f[i]]
  <2>1. i + 1 \in Nat /\ i < i + 1
    OBVIOUS
  <2>2. part(i + 1)[i + 1] = F[part(i + 1)[i]]
    BY <1>4, <2>1 DEF Unfolds
  <2>3. part(i)[i] = part(i + 1)[i]
    BY <1>5
  <2> QED BY <2>1, <2>2, <2>3
<1> HIDE DEF f
<1> QED BY <1>7, <1>8

-----------------------------------------------------------------------------
(* What the root is connected to                                           *)

\* The ends of the edges are nodes; the edges are finitely many.
LEMMA EdgeTypes ==
  ASSUME NEW rct, NetType(rct)
  PROVE  /\ \A i \in DOMAIN rct.edges : rct.edges[i] \in Edges(rct)
         /\ \A e \in Edges(rct) : e.fr \in Nodes(rct) /\ e.to \in Nodes(rct) /\ e.res \in Int
         /\ DOMAIN rct.edges = 1..Len(rct.edges) /\ Len(rct.edges) \in Nat
         /\ IsFiniteSet(Edges(rct))
<1> DEFINE E == [fr : Nodes(rct), to : Nodes(rct), res : Int]
           s == rct.edges
<1>1. s \in Seq(E)
  BY DEF NetType
<1>2. \A e \in E : e.fr \in Nodes(rct) /\ e.to \in Nodes(rct) /\ e.res \in Int
  OBVIOUS
<1>3. Edges(rct) = {s[i] : i \in DOMAIN s}
  BY DEF Edges
<1> HIDE DEF E, s
<1>4. DOMAIN s = 1..Len(s) /\ Len(s) \in Nat /\ \A i \in DOMAIN s : s[i] \in E
  BY <1>1
<1>5. IsFiniteSet(DOMAIN s)
  BY <1>4, FS_Interval
<1>6. IsFiniteSet(Edges(rct))
  <2>1. s \in [DOMAIN s -> Edges(rct)] /\ \A e \in Edges(rct) : \E i \in DOMAIN s : s[i] = e
    BY <1>1, <1>3
  <2>2. s \in Surjection(DOMAIN s, Edges(rct))
    BY <2>1 DEF Surjection
  <2> QED BY <1>5, <2>2, FS_Surjection
<1>7. \A e \in Edges(rct) : e \in E
  BY <1>3, <1>4
<1> QED BY <1>2, <1>3, <1>4, <1>6, <1>7 DEF s

\* A set of nodes and those that an edge not cut leads to.
Grown(rct, cut, D) == D \cup {e.to : e \in {f \in Edges(rct) : f.fr \in D /\ {f.fr, f.to} \notin cut}}

\* A set that holds the root and that no edge but those cut leaves.
Closed(rct, cut, D) ==
    rct.root \in D /\ \A e \in Edges(rct) : e.fr \in D /\ {e.fr, e.to} \notin cut => e.to \in D

\* Connected is a recursion that grows from the root.
LEMMA ConnectedIs ==
  ASSUME NEW rct, NEW cut
  PROVE  Connected(rct, cut) =
             (CHOOSE g : g = [i \in Nat |-> IF i = 0 THEN {rct.root} ELSE Grown(rct, cut, g[i - 1])])
                 [Cardinality(Nodes(rct))]
BY DEF Connected, Grown

\* Connected is where so many steps of the recursion lead.
LEMMA ConnectedSteps ==
  ASSUME NEW rct, NetType(rct), NEW cut
  PROVE  \E C \in [Nat -> SUBSET Nodes(rct)] :
             /\ C[0] = {rct.root}
             /\ \A i \in Nat : C[i + 1] = Grown(rct, cut, C[i])
             /\ Connected(rct, cut) = C[Cardinality(Nodes(rct))]
<1>0. Connected(rct, cut) =
          (CHOOSE g : g = [i \in Nat |-> IF i = 0 THEN {rct.root} ELSE Grown(rct, cut, g[i - 1])])
              [Cardinality(Nodes(rct))]
  BY ONLY ConnectedIs
<1> DEFINE S == SUBSET Nodes(rct)
           F == [D \in S |-> Grown(rct, cut, D)]
           base == {rct.root}
<1>1. base \in S
  BY DEF NetType
<1>2. \A D \in S : Grown(rct, cut, D) \in S
  BY EdgeTypes DEF Grown
<1>3. F \in [S -> S] /\ \A D \in S : F[D] = Grown(rct, cut, D)
  BY <1>2
<1> DEFINE Solves(g) == g = [i \in Nat |-> IF i = 0 THEN base ELSE Grown(rct, cut, g[i - 1])]
           P == CHOOSE g : Solves(g)
<1>4. Connected(rct, cut) = P[Cardinality(Nodes(rct))]
  BY ONLY <1>0
<1> HIDE DEF F, S, base
<1>5. PICK f \in [Nat -> S] : f[0] = base /\ \A i \in Nat : f[i + 1] = F[f[i]]
  <2>1. base \in S /\ F \in [S -> S]
    BY <1>1, <1>3
  <2>2. \E f \in [Nat -> S] : f[0] = base /\ \A i \in Nat : f[i + 1] = F[f[i]]
    BY ONLY <2>1, Recursion
  <2> QED BY ONLY <2>2
<1>6. Solves(f)
  <2>1. ASSUME NEW i \in Nat PROVE f[i] = IF i = 0 THEN base ELSE Grown(rct, cut, f[i - 1])
    <3>1. CASE i = 0
      BY <1>5, <3>1
    <3>2. CASE i # 0
      <4>1. i - 1 \in Nat /\ i - 1 + 1 = i
        BY <3>2
      <4>2. f[i] = F[f[i - 1]] /\ f[i - 1] \in S
        BY <1>5, <4>1
      <4> QED BY <1>3, <3>2, <4>2
    <3> QED BY <3>1, <3>2
  <2>2. f = [i \in Nat |-> f[i]]
    BY <1>5
  <2> QED BY <2>1, <2>2
<1>7. Solves(P)
  <2> HIDE DEF Solves
  <2> QED BY <1>6
<1> HIDE DEF P
<1>8. P = [i \in Nat |-> IF i = 0 THEN base ELSE Grown(rct, cut, P[i - 1])]
  BY <1>7
<1>9. P[0] = base /\ \A i \in Nat : P[i + 1] = Grown(rct, cut, P[i])
  <2>1. P[0] = base
    BY <1>8
  <2>2. ASSUME NEW i \in Nat PROVE P[i + 1] = Grown(rct, cut, P[i])
    <3>1. i + 1 \in Nat /\ i + 1 # 0 /\ (i + 1) - 1 = i
      OBVIOUS
    <3> QED BY <1>8, <3>1
  <2> QED BY <2>1, <2>2
<1>10. \A i \in Nat : P[i] \in S
  <2> DEFINE T == {i \in Nat : P[i] \in S}
  <2>1. 0 \in T
    BY <1>1, <1>9
  <2>2. ASSUME NEW i \in T \cap Nat PROVE i + 1 \in T
    BY <1>2, <1>9
  <2> HIDE DEF T
  <2>3. Nat \subseteq T
    BY <2>1, <2>2, NumberInduction
  <2> QED BY <2>3 DEF T
<1>11. P \in [Nat -> S]
  BY <1>8, <1>10
<1> QED BY <1>4, <1>9, <1>11 DEF S, base

(***************************************************************************)
(* Connected is the least closed set: the recursion, which is stopped      *)
(* after as many steps as there are nodes, has stopped growing by then.    *)
(***************************************************************************)
LEMMA ConnectedFacts ==
  ASSUME NEW rct, NetType(rct), NEW cut
  PROVE  /\ Connected(rct, cut) \subseteq Nodes(rct)
         /\ Closed(rct, cut, Connected(rct, cut))
         /\ \A D : Closed(rct, cut, D) => Connected(rct, cut) \subseteq D
<1> DEFINE N == Nodes(rct)
           n == Cardinality(N)
           G(D) == Grown(rct, cut, D)
<1>1. PICK C \in [Nat -> SUBSET N] :
          /\ C[0] = {rct.root} /\ \A i \in Nat : C[i + 1] = G(C[i])
          /\ Connected(rct, cut) = C[n]
  BY ConnectedSteps
<1>2. IsFiniteSet(N) /\ n \in Nat
  BY FS_CardinalityType DEF NetType
<1>3. \A i \in Nat : i + 1 \in Nat /\ C[i] \subseteq N /\ C[i] \subseteq C[i + 1]
  BY <1>1 DEF Grown
<1> HIDE DEF G, N, n
<1>4. \A i \in Nat : /\ Cardinality(C[i]) \in Nat /\ Cardinality(C[i]) <= n
                     /\ IsFiniteSet(C[i])
                     /\ (Cardinality(C[i]) = n => C[i] = N)
  <2> TAKE i \in Nat
  <2>1. C[i] \in SUBSET N
    BY <1>3
  <2>2. IsFiniteSet(C[i]) /\ Cardinality(C[i]) <= n /\ (n = Cardinality(C[i]) => N = C[i])
    BY <1>2, <2>1, FS_Subset DEF n
  <2> QED BY <2>2, FS_CardinalityType
<1>5. C[n + 1] = C[n]
  <2> DEFINE T == {i \in Nat : C[i + 1] = C[i] \/ Cardinality(C[i]) >= i + 1}
  <2>1. 0 \in T
    <3>1. C[0] # {} /\ 0 \in Nat
      BY <1>1
    <3>2. Cardinality(C[0]) # 0
      BY <1>4, <3>1, FS_EmptySet
    <3> QED BY <1>4, <3>1, <3>2
  <2>2. ASSUME NEW i \in T \cap Nat PROVE i + 1 \in T
    <3>0. i \in Nat /\ i + 1 \in Nat /\ i + 2 \in Nat /\ (i + 1) + 1 = i + 2
      BY <2>2
    <3>1. CASE C[i + 1] = C[i]
      <4>1. C[(i + 1) + 1] = G(C[i + 1]) /\ C[i + 1] = G(C[i])
        BY <1>1, <3>0
      <4> QED BY <3>0, <3>1, <4>1
    <3>2. CASE C[i + 1] # C[i] /\ Cardinality(C[i]) >= i + 1
      <4>1. C[i] \in SUBSET C[i + 1]
        BY <1>3, <3>0
      <4>2. Cardinality(C[i]) <= Cardinality(C[i + 1])
            /\ (Cardinality(C[i + 1]) = Cardinality(C[i]) => C[i + 1] = C[i])
        BY <1>4, <3>0, <4>1, FS_Subset
      <4>3. Cardinality(C[i + 1]) >= (i + 1) + 1
        BY <1>4, <3>0, <3>2, <4>2
      <4> QED BY <3>0, <4>3
    <3> QED BY <2>2, <3>1, <3>2
  <2> HIDE DEF T
  <2>3. Nat \subseteq T
    BY <2>1, <2>2, NumberInduction
  <2>4. C[n + 1] = C[n] \/ Cardinality(C[n]) >= n + 1
    BY <1>2, <2>3 DEF T
  <2> QED BY <1>2, <1>4, <2>4
<1>6. Connected(rct, cut) \subseteq N
  BY <1>1, <1>2, <1>3
<1>7. Closed(rct, cut, C[n])
  <2>1. rct.root \in C[n]
    <3> DEFINE T == {i \in Nat : rct.root \in C[i]}
    <3>1. 0 \in T /\ \A i \in T \cap Nat : i + 1 \in T
      BY <1>1, <1>3
    <3> HIDE DEF T
    <3>2. Nat \subseteq T
      BY <3>1, NumberInduction
    <3> QED BY <1>2, <3>2 DEF T
  <2>2. C[n] = G(C[n])
    BY <1>1, <1>2, <1>5
  <2> QED BY <2>1, <2>2 DEF Closed, G, Grown
<1>8. ASSUME NEW D, Closed(rct, cut, D) PROVE C[n] \subseteq D
  <2> DEFINE T == {i \in Nat : C[i] \subseteq D}
  <2>1. 0 \in T
    BY <1>1, <1>8 DEF Closed
  <2>2. ASSUME NEW i \in T \cap Nat PROVE i + 1 \in T
    <3>1. C[i + 1] = Grown(rct, cut, C[i]) /\ C[i] \subseteq D
      BY <1>1 DEF G
    <3>2. Grown(rct, cut, C[i]) \subseteq D
      BY <1>8, <3>1 DEF Closed, Grown
    <3> QED BY <3>1, <3>2
  <2> HIDE DEF T
  <2>3. Nat \subseteq T
    BY <2>1, <2>2, NumberInduction
  <2> QED BY <1>2, <2>3 DEF T
<1> QED BY <1>1, <1>6, <1>7, <1>8 DEF N

-----------------------------------------------------------------------------
(* Trees                                                                   *)

\* A net of the program that is a tree.
Tree(rct) == NetType(rct) /\ IsTree(rct)

\* What stays connected when the edge is cut; an edge on the way from the root.
Cut(rct, e) == Connected(rct, {{e.fr, e.to}})
Down(rct, e) == e \in Edges(rct) /\ e.fr \in Cut(rct, e)

\* The same facts about Reached and Cut, and how one of them is shown to lie in a set.
LEMMA ReachedFacts ==
  ASSUME NEW rct, NetType(rct)
  PROVE  /\ Reached(rct) \subseteq Nodes(rct) /\ rct.root \in Reached(rct)
         /\ \A e \in Edges(rct) : e.fr \in Reached(rct) => e.to \in Reached(rct)
         /\ \A D : rct.root \in D /\ (\A e \in Edges(rct) : e.fr \in D => e.to \in D) => Reached(rct) \subseteq D
         /\ \A cut : Connected(rct, cut) \subseteq Reached(rct)
<1>1. /\ Reached(rct) \subseteq Nodes(rct) /\ Closed(rct, {}, Reached(rct))
      /\ \A D : Closed(rct, {}, D) => Reached(rct) \subseteq D
  BY ConnectedFacts DEF Reached
<1>2. ASSUME NEW cut PROVE Connected(rct, cut) \subseteq Reached(rct)
  <2>1. Closed(rct, cut, Reached(rct))
    BY <1>1 DEF Closed
  <2> QED BY <2>1, ConnectedFacts
<1> QED BY <1>1, <1>2 DEF Closed

\* The nodes that a cut leaves connected.
LEMMA CutFacts ==
  ASSUME NEW rct, NetType(rct), NEW e
  PROVE  /\ rct.root \in Cut(rct, e) /\ Cut(rct, e) \subseteq Reached(rct)
         /\ \A g \in Edges(rct) : g.fr \in Cut(rct, e) /\ {g.fr, g.to} # {e.fr, e.to} => g.to \in Cut(rct, e)
<1>1. Closed(rct, {{e.fr, e.to}}, Cut(rct, e))
  BY ConnectedFacts DEF Cut
<1> QED BY <1>1, ReachedFacts DEF Closed, Cut

\* What is connected without node u stays connected when an edge at u is cut.
LEMMA Avoids ==
  ASSUME NEW rct, NetType(rct), NEW e, NEW u, u \notin Cut(rct, e), NEW f, u \in {f.fr, f.to}
  PROVE  Cut(rct, e) \subseteq Cut(rct, f)
<1> DEFINE D == Cut(rct, e) \cap Cut(rct, f)
<1>1. rct.root \in D
  BY CutFacts
<1>2. ASSUME NEW g \in Edges(rct), g.fr \in D, {g.fr, g.to} # {e.fr, e.to} PROVE g.to \in D
  <2>1. g.to \in Cut(rct, e) /\ g.fr \in Cut(rct, e) /\ g.fr \in Cut(rct, f)
    BY <1>2, CutFacts
  <2>2. {g.fr, g.to} # {f.fr, f.to}
    BY <2>1
  <2> QED BY <2>1, <2>2, CutFacts
<1> HIDE DEF D
<1>3. Closed(rct, {{e.fr, e.to}}, D)
  BY <1>1, <1>2 DEF Closed
<1>4. Cut(rct, e) \subseteq D
  BY <1>3, ConnectedFacts DEF Cut
<1> QED BY <1>4 DEF D

(***************************************************************************)
(* Of an edge that the root reaches, exactly one end stays connected when  *)
(* it is cut.                                                              *)
(***************************************************************************)
LEMMA OneEnd ==
  ASSUME NEW rct, Tree(rct), NEW e \in Edges(rct), e.fr \in Reached(rct)
  PROVE  /\ e.to \in Reached(rct) /\ e.fr # e.to
         /\ e.fr \in Cut(rct, e) <=> e.to \notin Cut(rct, e)
<1> DEFINE C == Cut(rct, e)
<1>0. NetType(rct)
  BY DEF Tree
<1>1. e.to \in Reached(rct)
  BY <1>0, ReachedFacts
<1>2. C # Reached(rct)
  BY DEF Tree, IsTree, Pairs, Cut
<1>3. \A g \in Edges(rct) : g.fr \in C /\ {g.fr, g.to} # {e.fr, e.to} => g.to \in C
  BY <1>0, CutFacts
<1>4. C \subseteq Reached(rct) /\ rct.root \in C
  BY <1>0, CutFacts
<1> HIDE DEF C
<1>5. ~(\A g \in Edges(rct) : g.fr \in C => g.to \in C)
  BY <1>0, <1>2, <1>4, ReachedFacts
<1>6. PICK g \in Edges(rct) : g.fr \in C /\ g.to \notin C
  BY <1>5
<1>7. {g.fr, g.to} = {e.fr, e.to}
  BY <1>3, <1>6
<1> QED BY <1>1, <1>6, <1>7 DEF C

\* An edge on the way from the root has its ends on either side of its own cut.
LEMMA DownFacts ==
  ASSUME NEW rct, Tree(rct), NEW e, Down(rct, e)
  PROVE  /\ e \in Edges(rct) /\ e.fr \in Reached(rct) /\ e.to \in Reached(rct) /\ e.fr # e.to
         /\ e.fr \in Cut(rct, e) /\ e.to \notin Cut(rct, e)
         /\ Behind(rct, e) = Reached(rct) \ Cut(rct, e)
         /\ e.to \in Behind(rct, e) /\ e.fr \notin Behind(rct, e) /\ rct.root \notin Behind(rct, e)
<1>1. NetType(rct) /\ e \in Edges(rct) /\ e.fr \in Cut(rct, e)
  BY DEF Down, Tree
<1>2. e.fr \in Reached(rct) /\ rct.root \in Cut(rct, e)
  BY <1>1, CutFacts
<1>3. Behind(rct, e) = Reached(rct) \ Cut(rct, e)
  BY <1>1 DEF Behind, Cut
<1> QED BY <1>1, <1>2, <1>3, OneEnd

\* Only edges on the way from the root have nodes behind them.
LEMMA BehindIsDown ==
  ASSUME NEW rct, NEW e \in Edges(rct), Behind(rct, e) # {}
  PROVE  Down(rct, e)
BY DEF Behind, Down, Cut

(***************************************************************************)
(* From behind an edge, only the way back leads out.                       *)
(***************************************************************************)
LEMMA WayOut ==
  ASSUME NEW rct, Tree(rct), NEW e, Down(rct, e),
         NEW g \in Edges(rct), g.fr \in Behind(rct, e), g.to \notin Behind(rct, e)
  PROVE  g.fr = e.to /\ g.to = e.fr
<1>0. NetType(rct)
  BY DEF Tree
<1>1. /\ g.fr \in Reached(rct) /\ g.fr \notin Cut(rct, e) /\ g.to \in Cut(rct, e)
      /\ e.fr \in Cut(rct, e) /\ e.to \notin Cut(rct, e)
  BY <1>0, DownFacts, ReachedFacts
<1> SUFFICES ASSUME {g.fr, g.to} # {e.fr, e.to} PROVE FALSE
  BY <1>1
<1>2. Cut(rct, e) \subseteq Cut(rct, g)
  BY <1>0, <1>1, Avoids
<1>3. g.fr \notin Cut(rct, g)
  BY <1>1, <1>2, OneEnd
\* No edge of the pair leads into g.fr, so cutting the pair cuts off nothing.
<1>4. ASSUME NEW h \in Edges(rct), h.fr \in Cut(rct, g) PROVE h.to \in Cut(rct, g)
  <2>1. CASE {h.fr, h.to} # {g.fr, g.to}
    BY <1>0, <1>4, <2>1, CutFacts
  <2>2. CASE {h.fr, h.to} = {g.fr, g.to}
    <3>1. h.fr = g.to /\ h.to = g.fr
      BY <1>3, <1>4, <2>2
    <3>2. h.to \in Cut(rct, e)
      BY <1>0, <1>1, <3>1, CutFacts
    <3> QED BY <1>1, <3>1, <3>2
  <2> QED BY <2>1, <2>2
<1>5. Reached(rct) \subseteq Cut(rct, g)
  BY <1>0, <1>4, CutFacts, ReachedFacts
<1> QED BY <1>1, <1>3, <1>5

\* The way on from the end of an edge, other than back, leads away from the root.
LEMMA OnIsDown ==
  ASSUME NEW rct, Tree(rct), NEW e, Down(rct, e),
         NEW f \in Edges(rct), f.fr = e.to, f.to # e.fr
  PROVE  Down(rct, f) /\ Behind(rct, f) \subseteq Behind(rct, e)
<1>0. NetType(rct)
  BY DEF Tree
<1>1. /\ e.fr \in Cut(rct, e) /\ e.to \notin Cut(rct, e) /\ e.to \in Reached(rct) /\ e \in Edges(rct)
      /\ e.fr # e.to
  BY DownFacts
<1>2. Cut(rct, e) \subseteq Cut(rct, f)
  BY <1>0, <1>1, Avoids
<1>3. {e.fr, e.to} # {f.fr, f.to}
  BY <1>1
<1>4. e.to \in Cut(rct, f)
  BY <1>0, <1>1, <1>2, <1>3, CutFacts
<1>5. Down(rct, f)
  BY <1>4 DEF Down
<1> QED BY <1>2, <1>5, DownFacts

\* The edges from the root lead away from it.
LEMMA RootIsDown ==
  ASSUME NEW rct, Tree(rct), NEW f \in Edges(rct), f.fr = rct.root
  PROVE  Down(rct, f)
BY CutFacts DEF Down, Tree

\* The network under a node whose caller is the parent: all of it, under the root.
Under(rct, v, parent) ==
    IF parent = NoNode THEN Reached(rct) ELSE Behind(rct, [fr |-> parent, to |-> v])

\* The calls a call of v makes, for parent, are along these edges.
Onward(rct, v, parent) == {e \in Edges(rct) : e.fr = v /\ e.to # parent}

\* A call is of the root or along an edge on the way from the root.
Callable(rct, v, parent) ==
    \/ v = rct.root /\ parent = NoNode
    \/ parent # NoNode /\ \E e \in Edges(rct) : e.fr = parent /\ e.to = v /\ Down(rct, e)

\* Under a call made along an edge is what is behind it.
LEMMA UnderBehind ==
  ASSUME NEW rct, NetType(rct), NEW e \in Edges(rct)
  PROVE  Under(rct, e.to, e.fr) = Behind(rct, e)
<1>1. e.fr # NoNode
  BY EdgeTypes, RcTreeAssumption DEF NetType
<1> QED BY <1>1 DEF Under, Behind

\* An edge that a call follows leads on, to a part under the call without its node.
LEMMA OnwardFacts ==
  ASSUME NEW rct, Tree(rct), NEW v, NEW parent, Callable(rct, v, parent), NEW f \in Onward(rct, v, parent)
  PROVE  /\ Down(rct, f) /\ Callable(rct, f.to, v)
         /\ Behind(rct, f) \subseteq Under(rct, v, parent) \ {v}
         /\ v \in Under(rct, v, parent)
<1>0. NetType(rct) /\ f \in Edges(rct) /\ f.fr = v /\ f.to # parent
  BY DEF Tree, Onward
<1>1. v # NoNode
  BY <1>0, EdgeTypes, RcTreeAssumption DEF NetType
<1>2. Down(rct, f) => Callable(rct, f.to, v)
  BY <1>0, <1>1 DEF Callable
<1>3. CASE v = rct.root /\ parent = NoNode
  <2>1. Down(rct, f)
    BY <1>0, <1>3, RootIsDown
  <2> QED BY <1>0, <1>2, <1>3, <2>1, DownFacts, ReachedFacts DEF Under
<1>4. CASE parent # NoNode /\ \E e \in Edges(rct) : e.fr = parent /\ e.to = v /\ Down(rct, e)
  <2>1. PICK e \in Edges(rct) : e.fr = parent /\ e.to = v /\ Down(rct, e)
    BY <1>4
  <2>2. Under(rct, v, parent) = Behind(rct, e)
    BY <1>0, <2>1, UnderBehind
  <2>3. Down(rct, f) /\ Behind(rct, f) \subseteq Behind(rct, e)
    BY <1>0, <2>1, OnIsDown
  <2>4. v \in Behind(rct, e)
    BY <2>1, DownFacts
  <2>5. v \notin Behind(rct, f)
    BY <1>0, <2>3, DownFacts
  <2> QED BY <1>2, <2>2, <2>3, <2>4, <2>5
<1> QED BY <1>3, <1>4 DEF Callable

\* Two of these edges lead to different parts of the network.
LEMMA PartsAreDisjoint ==
  ASSUME NEW rct, Tree(rct), NEW f, Down(rct, f), NEW h, Down(rct, h), f.fr = h.fr, f.to # h.to
  PROVE  Behind(rct, f) \cap Behind(rct, h) = {}
<1> DEFINE D == Cut(rct, f) \cup Cut(rct, h)
<1>0. NetType(rct)
  BY DEF Tree
<1>1. /\ f \in Edges(rct) /\ f.fr \in Cut(rct, f) /\ f.to \notin Cut(rct, f)
      /\ h \in Edges(rct) /\ h.fr \in Cut(rct, h) /\ h.to \notin Cut(rct, h)
  BY DownFacts
<1>2. {f.fr, f.to} # {h.fr, h.to} /\ f.to \in Cut(rct, h) /\ h.to \in Cut(rct, f)
  <2>1. {f.fr, f.to} # {h.fr, h.to}
    BY <1>1
  <2> QED BY <1>0, <1>1, <2>1, CutFacts
<1>3. ASSUME NEW g \in Edges(rct), g.fr \in Cut(rct, f) PROVE g.to \in D
  <2>1. {g.fr, g.to} # {f.fr, f.to} => g.to \in Cut(rct, f)
    BY <1>0, <1>3, CutFacts
  <2>2. {g.fr, g.to} = {f.fr, f.to} => g.to \in {f.fr, f.to}
    OBVIOUS
  <2> QED BY <1>1, <1>2, <2>1, <2>2
<1>4. ASSUME NEW g \in Edges(rct), g.fr \in Cut(rct, h) PROVE g.to \in D
  <2>1. {g.fr, g.to} # {h.fr, h.to} => g.to \in Cut(rct, h)
    BY <1>0, <1>4, CutFacts
  <2>2. {g.fr, g.to} = {h.fr, h.to} => g.to \in {h.fr, h.to}
    OBVIOUS
  <2> QED BY <1>1, <1>2, <2>1, <2>2
<1>5. rct.root \in D
  BY <1>0, CutFacts
<1> HIDE DEF D
<1>6. \A g \in Edges(rct) : g.fr \in D => g.to \in D
  BY <1>3, <1>4 DEF D
<1>7. Reached(rct) \subseteq D
  BY <1>0, <1>5, <1>6, ReachedFacts
<1> QED BY <1>7, DownFacts DEF D

(***************************************************************************)
(* The network under a node is the node and what is behind its onward      *)
(* edges.                                                                  *)
(***************************************************************************)
LEMMA PartsMakeWhole ==
  ASSUME NEW rct, Tree(rct), NEW v, NEW parent, Callable(rct, v, parent)
  PROVE  Under(rct, v, parent) = {v} \cup UNION {Behind(rct, f) : f \in Onward(rct, v, parent)}
<1>0. NetType(rct)
  BY DEF Tree
<1> DEFINE U == Under(rct, v, parent)
           B == UNION {Behind(rct, f) : f \in Onward(rct, v, parent)}
           D == (Reached(rct) \ U) \cup {v} \cup B
<1>1. /\ v \in U /\ U \subseteq Reached(rct)
      /\ rct.root \in (Reached(rct) \ U) \cup {v}
      /\ parent # NoNode => parent \in Reached(rct) \ U
      /\ \A g \in Edges(rct) : g.fr \in Reached(rct) \ U => g.to \in (Reached(rct) \ U) \cup {v}
  <2>1. CASE v = rct.root /\ parent = NoNode
    BY <1>0, <2>1, ReachedFacts DEF Under
  <2>2. CASE parent # NoNode /\ \E e \in Edges(rct) : e.fr = parent /\ e.to = v /\ Down(rct, e)
    <3>1. PICK e \in Edges(rct) : e.fr = parent /\ e.to = v /\ Down(rct, e)
      BY <2>2
    <3>2. U = Reached(rct) \ Cut(rct, e)
      BY <1>0, <3>1, UnderBehind, DownFacts
    <3>3. Reached(rct) \ U = Cut(rct, e)
      BY <1>0, <3>2, CutFacts
    <3> HIDE DEF U
    <3>4. \A g \in Edges(rct) : g.fr \in Cut(rct, e) => g.to \in Cut(rct, e) \cup {v}
      <4> TAKE g \in Edges(rct)
      <4>1. {g.fr, g.to} # {e.fr, e.to} /\ g.fr \in Cut(rct, e) => g.to \in Cut(rct, e)
        BY <1>0, CutFacts
      <4>2. {g.fr, g.to} = {e.fr, e.to} => g.to \in {e.fr, v}
        BY <3>1
      <4> QED BY <3>1, <4>1, <4>2, DownFacts
    <3> QED BY <1>0, <3>1, <3>2, <3>3, <3>4, CutFacts, DownFacts
  <2> QED BY <2>1, <2>2 DEF Callable
<1>2. B \subseteq U
  BY OnwardFacts
<1>3. \A e \in Edges(rct) : e.fr # NoNode /\ e.to # NoNode
  BY <1>0, EdgeTypes, RcTreeAssumption DEF NetType
<1> HIDE DEF U
<1>4. ASSUME NEW g \in Edges(rct), g.fr \in D PROVE g.to \in D
  <2>1. CASE g.fr \in Reached(rct) \ U
    BY <1>1, <2>1
  <2>2. CASE g.fr = v /\ g.to = parent
    BY <1>1, <1>3, <2>2
  <2>3. CASE g.fr = v /\ g.to # parent
    <3>1. g \in Onward(rct, v, parent)
      BY <2>3 DEF Onward
    <3>2. g.to \in Behind(rct, g)
      BY <3>1, OnwardFacts, DownFacts
    <3> QED BY <3>1, <3>2
  <2>4. CASE g.fr \in B
    <3>1. PICK f \in Onward(rct, v, parent) : g.fr \in Behind(rct, f)
      BY <2>4
    <3>2. Down(rct, f) /\ f.fr = v
      BY <3>1, OnwardFacts DEF Onward
    <3>3. g.to \notin Behind(rct, f) => g.to = v
      BY <3>1, <3>2, WayOut
    <3> QED BY <3>1, <3>3
  <2> QED BY <1>4, <2>1, <2>2, <2>3, <2>4
<1> HIDE DEF B
<1>5. rct.root \in D
  BY <1>1
<1> HIDE DEF D
<1>6. Reached(rct) \subseteq D
  BY <1>0, <1>4, <1>5, ReachedFacts
<1> QED BY <1>1, <1>2, <1>6 DEF U, B, D

\* A node is entered by one edge only on the way from the root.
LEMMA OneWayIn ==
  ASSUME NEW rct, Tree(rct), NEW e, Down(rct, e), NEW f, Down(rct, f), e.to = f.to
  PROVE  e = f
<1>0. NetType(rct)
  BY DEF Tree
<1>1. /\ e \in Edges(rct) /\ e.fr \in Cut(rct, e) /\ e.to \notin Cut(rct, e)
      /\ f \in Edges(rct) /\ f.fr \in Cut(rct, f) /\ f.to \notin Cut(rct, f)
  BY DownFacts
<1>2. Cut(rct, e) \subseteq Cut(rct, f)
  BY <1>0, <1>1, Avoids
<1>3. {e.fr, e.to} = {f.fr, f.to}
  BY <1>0, <1>1, <1>2, CutFacts
<1>4. e.fr = f.fr
  BY <1>1, <1>3
<1>5. PICK i \in DOMAIN rct.edges, j \in DOMAIN rct.edges : e = rct.edges[i] /\ f = rct.edges[j]
  BY <1>1 DEF Edges
<1>6. i = j
  BY <1>4, <1>5 DEF Tree, IsTree
<1> QED BY <1>5, <1>6

(***************************************************************************)
(* The edges on the way to the end of an edge are that edge and those on   *)
(* the way to its start.                                                   *)
(***************************************************************************)
LEMMA WayGrows ==
  ASSUME NEW rct, Tree(rct), NEW e, Down(rct, e)
  PROVE  /\ {f \in Edges(rct) : e.to \in Behind(rct, f)} = {f \in Edges(rct) : e.fr \in Behind(rct, f)} \cup {e}
         /\ e \notin {f \in Edges(rct) : e.fr \in Behind(rct, f)}
<1>0. NetType(rct)
  BY DEF Tree
<1>1. /\ e \in Edges(rct) /\ e.fr \in Reached(rct) /\ e.to \in Reached(rct)
      /\ e.to \in Behind(rct, e) /\ e.fr \notin Behind(rct, e)
  BY DownFacts
<1>2. ASSUME NEW f \in Edges(rct), e.fr \in Behind(rct, f) PROVE e.to \in Behind(rct, f)
  <2>1. Down(rct, f)
    BY <1>2, BehindIsDown
  <2>2. SUFFICES ASSUME e.to \notin Behind(rct, f) PROVE FALSE
    OBVIOUS
  <2>3. e.fr = f.to /\ e.to = f.fr
    BY <1>1, <1>2, <2>1, <2>2, WayOut
  <2>4. Cut(rct, e) = Cut(rct, f)
    <3>1. {e.fr, e.to} = {f.fr, f.to}
      BY <2>3
    <3> QED BY <3>1 DEF Cut
  <2> QED BY <2>1, <2>3, <2>4, DownFacts
<1>3. ASSUME NEW f \in Edges(rct), e.to \in Behind(rct, f), e.fr \notin Behind(rct, f) PROVE f = e
  <2>1. Down(rct, f)
    BY <1>3, BehindIsDown
  <2>2. e.fr \in Cut(rct, f) /\ e.to \notin Cut(rct, f)
    BY <1>1, <1>3, <2>1, DownFacts
  <2>3. {e.fr, e.to} = {f.fr, f.to}
    BY <1>0, <1>1, <2>2, CutFacts
  <2>4. f.fr \in Cut(rct, f) /\ f.to \notin Cut(rct, f)
    BY <2>1, DownFacts
  <2>5. f.to = e.to
    BY <2>2, <2>3, <2>4
  <2> QED BY <2>1, <2>5, OneWayIn
<1> QED BY <1>1, <1>2, <1>3

-----------------------------------------------------------------------------
(* Sums                                                                    *)

\* A table of the sums over the subsets of S that have up to n elements.
SumTable(g, f, S, n) ==
    \A T \in SUBSET S : Cardinality(T) <= n =>
        g[T] = IF T = {} THEN 0 ELSE LET t == CHOOSE t \in T : TRUE IN f[t] + g[T \ {t}]

\* There are tables of the sums over the subsets of up to n members.
LEMMA SumTables ==
  ASSUME NEW S, IsFiniteSet(S), NEW f
  PROVE  \A n \in Nat : \E g : g = [T \in SUBSET S |-> g[T]] /\ SumTable(g, f, S, n)
<1> DEFINE Q == {n \in Nat : \E g : g = [T \in SUBSET S |-> g[T]] /\ SumTable(g, f, S, n)}
<1>1. 0 \in Q
  <2> DEFINE g == [T \in SUBSET S |-> 0]
  <2>1. SumTable(g, f, S, 0)
    <3>1. \A T \in SUBSET S : Cardinality(T) <= 0 => T = {}
      <4> TAKE T \in SUBSET S
      <4>1. IsFiniteSet(T)
        BY FS_Subset
      <4>2. Cardinality(T) \in Nat /\ (Cardinality(T) = 0 <=> T = {})
        BY <4>1, FS_CardinalityType, FS_EmptySet
      <4> QED BY <4>2
    <3> QED BY <3>1 DEF SumTable
  <2>2. g = [T \in SUBSET S |-> g[T]]
    OBVIOUS
  <2> HIDE DEF g
  <2> QED BY <2>1, <2>2
<1>2. ASSUME NEW n \in Q \cap Nat PROVE n + 1 \in Q
  <2>1. PICK g : g = [T \in SUBSET S |-> g[T]] /\ SumTable(g, f, S, n)
    BY <1>2
  <2>2. n \in Nat
    BY <1>2
  <2> HIDE DEF Q
  <2> DEFINE pick(T) == CHOOSE t \in T : TRUE
             h == [T \in SUBSET S |-> IF Cardinality(T) <= n THEN g[T] ELSE f[pick(T)] + g[T \ {pick(T)}]]
  <2>3. ASSUME NEW T \in SUBSET S, Cardinality(T) <= n + 1
        PROVE  h[T] = IF T = {} THEN 0 ELSE f[pick(T)] + h[T \ {pick(T)}]
    <3>1. IsFiniteSet(T) /\ Cardinality(T) \in Nat /\ (Cardinality(T) = 0 <=> T = {})
      BY FS_Subset, FS_CardinalityType, FS_EmptySet
    <3>2. CASE T = {}
      <4>1. Cardinality(T) <= n
        BY <2>2, <3>1, <3>2
      <4>2. g[T] = 0
        BY <2>1, <3>2, <4>1 DEF SumTable
      <4> QED BY <3>2, <4>1, <4>2
    <3>3. CASE T # {}
      <4>1. pick(T) \in T
        BY <3>3
      <4> DEFINE U == T \ {pick(T)}
      <4>2. U \in SUBSET S /\ Cardinality(U) = Cardinality(T) - 1
        BY <3>1, <4>1, FS_RemoveElement
      <4>3. Cardinality(U) <= n
        BY <2>2, <2>3, <3>1, <4>2
      <4>4. h[U] = g[U]
        BY <4>2, <4>3
      <4>5. CASE Cardinality(T) <= n
        <5>1. g[T] = f[pick(T)] + g[U]
          BY <2>1, <3>3, <4>5 DEF SumTable
        <5> QED BY <3>3, <4>4, <4>5, <5>1
      <4>6. CASE ~(Cardinality(T) <= n)
        BY <3>3, <4>4, <4>6
      <4> QED BY <4>5, <4>6
    <3> QED BY <3>2, <3>3
  <2>4. h = [T \in SUBSET S |-> h[T]]
    OBVIOUS
  <2> HIDE DEF h
  <2>5. SumTable(h, f, S, n + 1)
    BY <2>3 DEF SumTable
  <2> QED BY <2>2, <2>4, <2>5 DEF Q
<1> HIDE DEF Q
<1>3. Nat \subseteq Q
  BY <1>1, <1>2, NumberInduction
<1> QED BY <1>3 DEF Q

\* A table of all of them.
FullTable(g, f, S) ==
    \A T \in SUBSET S : g[T] = IF T = {} THEN 0 ELSE LET t == CHOOSE t \in T : TRUE IN f[t] + g[T \ {t}]

\* Two full tables agree where both are defined.
LEMMA TablesAgree ==
  ASSUME NEW f, NEW S, IsFiniteSet(S), NEW T \in SUBSET S, NEW g, NEW h,
         FullTable(g, f, S), FullTable(h, f, T)
  PROVE  \A U \in SUBSET T : g[U] = h[U]
<1> DEFINE pick(U) == CHOOSE t \in U : TRUE
           Q == {n \in Nat : \A U \in SUBSET T : Cardinality(U) = n => g[U] = h[U]}
<1>0. IsFiniteSet(T)
  BY FS_Subset
<1>1. \A U \in SUBSET T : IsFiniteSet(U) /\ Cardinality(U) \in Nat /\ (Cardinality(U) = 0 <=> U = {})
  <2> TAKE U \in SUBSET T
  <2>1. IsFiniteSet(U)
    BY <1>0, FS_Subset
  <2> QED BY <2>1, FS_CardinalityType, FS_EmptySet
<1>2. 0 \in Q
  <2>1. ASSUME NEW U \in SUBSET T, Cardinality(U) = 0 PROVE g[U] = h[U]
    <3>1. U = {} /\ U \in SUBSET S
      BY <1>1, <2>1
    <3> QED BY <3>1 DEF FullTable
  <2> QED BY <2>1
<1>3. ASSUME NEW n \in Q \cap Nat PROVE n + 1 \in Q
  <2>1. ASSUME NEW U \in SUBSET T, Cardinality(U) = n + 1 PROVE g[U] = h[U]
    <3>1. U # {}
      BY <1>1, <2>1
    <3>2. pick(U) \in U
      BY <3>1
    <3>3. U \ {pick(U)} \in SUBSET T /\ Cardinality(U \ {pick(U)}) = n
      <4>1. IsFiniteSet(U) /\ n \in Nat
        BY <1>1, <1>3
      <4>2. Cardinality(U \ {pick(U)}) = Cardinality(U) - 1
        BY <3>2, <4>1, FS_RemoveElement
      <4> QED BY <2>1, <4>1, <4>2
    <3>4. g[U \ {pick(U)}] = h[U \ {pick(U)}]
      BY <3>3
    <3>5. g[U] = f[pick(U)] + g[U \ {pick(U)}] /\ h[U] = f[pick(U)] + h[U \ {pick(U)}]
      BY <3>1 DEF FullTable
    <3> QED BY <3>4, <3>5
  <2> QED BY <2>1
<1> HIDE DEF Q
<1>4. Nat \subseteq Q
  BY <1>2, <1>3, NumberInduction
<1> QED BY <1>1, <1>4 DEF Q

\* The sum is one of the table's.
LEMMA SumIsOfTable ==
  ASSUME NEW S, IsFiniteSet(S), NEW f
  PROVE  \E g : FullTable(g, f, S) /\ SumFunctionOnSet(f, S) = g[S]
<1> DEFINE Solves(g) == g = [T \in SUBSET S |-> IF T = {} THEN 0 ELSE LET t == CHOOSE t \in T : TRUE IN f[t] + g[T \ {t}]]
           P == CHOOSE g : Solves(g)
<1>1. SumFunctionOnSet(f, S) = P[S]
  BY DEF SumFunctionOnSet, FoldFunctionOnSet, MapThenFoldSet
<1>2. \E g : Solves(g)
  <2>1. Cardinality(S) \in Nat
    BY FS_CardinalityType
  <2>2. PICK g : g = [T \in SUBSET S |-> g[T]] /\ SumTable(g, f, S, Cardinality(S))
    BY <2>1, SumTables
  <2>3. \A T \in SUBSET S : Cardinality(T) <= Cardinality(S)
    BY FS_Subset
  <2>4. \A T \in SUBSET S : g[T] = IF T = {} THEN 0 ELSE LET t == CHOOSE t \in T : TRUE IN f[t] + g[T \ {t}]
    BY <2>2, <2>3 DEF SumTable
  <2>5. Solves(g)
    BY <2>2, <2>4
  <2> QED BY <2>5
<1>3. Solves(P)
  <2> HIDE DEF Solves
  <2> QED BY <1>2
<1> HIDE DEF P
<1>4. FullTable(P, f, S)
  BY <1>3 DEF FullTable
<1> QED BY <1>1, <1>4

\* A sum over a set is a member's value and the sum over the others.
LEMMA SumUnfolds ==
  ASSUME NEW S, IsFiniteSet(S), NEW f
  PROVE  SumFunctionOnSet(f, S) =
             IF S = {} THEN 0
             ELSE LET t == CHOOSE t \in S : TRUE IN f[t] + SumFunctionOnSet(f, S \ {t})
<1>1. PICK g : FullTable(g, f, S) /\ SumFunctionOnSet(f, S) = g[S]
  BY SumIsOfTable
<1>2. CASE S = {}
  BY <1>1, <1>2 DEF FullTable
<1>3. CASE S # {}
  <2> DEFINE t == CHOOSE t \in S : TRUE
             T == S \ {t}
  <2>1. T \in SUBSET S /\ IsFiniteSet(T)
    BY FS_Subset
  <2>2. g[S] = f[t] + g[T]
    BY <1>1, <1>3 DEF FullTable
  <2> HIDE DEF T
  <2>3. PICK h : FullTable(h, f, T) /\ SumFunctionOnSet(f, T) = h[T]
    BY <2>1, SumIsOfTable
  <2>4. g[T] = h[T]
    <3>1. \A U \in SUBSET T : g[U] = h[U]
      BY <1>1, <2>1, <2>3, TablesAgree
    <3> QED BY <3>1
  <2> QED BY <1>1, <1>3, <2>2, <2>3, <2>4 DEF T
<1> QED BY <1>2, <1>3

(***************************************************************************)
(* A sum of integers over a finite set is an integer, and the sum over the *)
(* rest and any one element.                                               *)
(***************************************************************************)
LEMMA SumFacts ==
  ASSUME NEW D, NEW f \in [D -> Int], NEW S \in SUBSET D, IsFiniteSet(S)
  PROVE  /\ SumFunctionOnSet(f, S) \in Int
         /\ \A a \in S : SumFunctionOnSet(f, S) = SumFunctionOnSet(f, S \ {a}) + f[a]
<1> DEFINE Sum(T) == SumFunctionOnSet(f, T)
           Q == {n \in Nat : \A T \in SUBSET S : Cardinality(T) = n =>
                     Sum(T) \in Int /\ \A a \in T : Sum(T) = Sum(T \ {a}) + f[a]}
           pick(T) == CHOOSE t \in T : TRUE
<1>1. \A T \in SUBSET S : IsFiniteSet(T) /\ Cardinality(T) \in Nat /\ (Cardinality(T) = 0 <=> T = {})
  <2> TAKE T \in SUBSET S
  <2>1. IsFiniteSet(T)
    BY FS_Subset
  <2> QED BY <2>1, FS_CardinalityType, FS_EmptySet
<1>2. \A T \in SUBSET S : Sum(T) = IF T = {} THEN 0 ELSE f[pick(T)] + Sum(T \ {pick(T)})
  BY <1>1, SumUnfolds
<1>3. \A T \in SUBSET S : \A a \in T : T \ {a} \in SUBSET S /\ Cardinality(T \ {a}) = Cardinality(T) - 1 /\ f[a] \in Int
  BY <1>1, FS_RemoveElement
<1> HIDE DEF Sum
\* The sums are integers.
<1>4. \A T \in SUBSET S : Sum(T) \in Int
  <2> DEFINE R == {n \in Nat : \A T \in SUBSET S : Cardinality(T) = n => Sum(T) \in Int}
  <2>1. 0 \in R
    <3>1. ASSUME NEW T \in SUBSET S, Cardinality(T) = 0 PROVE Sum(T) \in Int
      <4>1. T = {}
        BY <1>1, <3>1
      <4>2. Sum(T) = 0
        BY <1>2, <4>1
      <4> QED BY <4>2
    <3> QED BY <3>1
  <2>2. ASSUME NEW n \in R \cap Nat PROVE n + 1 \in R
    <3>1. ASSUME NEW T \in SUBSET S, Cardinality(T) = n + 1 PROVE Sum(T) \in Int
      <4>1. T # {}
        BY <1>1, <3>1
      <4>2. pick(T) \in T
        BY <4>1
      <4> HIDE DEF pick
      <4>3. Sum(T) = f[pick(T)] + Sum(T \ {pick(T)})
        BY <1>2, <4>1
      <4>4. T \ {pick(T)} \in SUBSET S /\ Cardinality(T \ {pick(T)}) = n /\ f[pick(T)] \in Int
        BY <1>3, <3>1, <4>2
      <4> QED BY <4>3, <4>4
    <3> QED BY <3>1
  <2> HIDE DEF R
  <2>3. Nat \subseteq R
    BY <2>1, <2>2, NumberInduction
  <2> QED BY <1>1, <2>3 DEF R
<1>5. 0 \in Q
  BY <1>1, <1>4
<1>6. ASSUME NEW n \in Q \cap Nat PROVE n + 1 \in Q
  <2>1. ASSUME NEW T \in SUBSET S, Cardinality(T) = n + 1, NEW a \in T
        PROVE  Sum(T) = Sum(T \ {a}) + f[a]
    <3> DEFINE t == pick(T)
    <3>1. t \in T
      OBVIOUS
    <3>2. Sum(T) = f[t] + Sum(T \ {t})
      BY <1>2
    <3> HIDE DEF t
    <3>3. \A b \in T : /\ T \ {b} \in SUBSET S /\ f[b] \in Int
                       /\ \A c \in T \ {b} : Sum(T \ {b}) = Sum((T \ {b}) \ {c}) + f[c]
      <4> TAKE b \in T
      <4>1. T \ {b} \in SUBSET S /\ Cardinality(T \ {b}) = n /\ f[b] \in Int
        BY <1>3, <2>1
      <4> QED BY <4>1
    <3>4. CASE a = t
      <4>1. Sum(T \ {a}) \in Int /\ f[a] \in Int
        BY <1>4, <3>3
      <4> QED BY <3>2, <3>4, <4>1
    <3>5. CASE a # t
      <4> DEFINE U == (T \ {a}) \ {t}
      <4>1. (T \ {t}) \ {a} = U
        OBVIOUS
      <4>2. Sum(T \ {a}) = Sum(U) + f[t]
        BY <3>1, <3>3, <3>5
      <4>3. Sum(T \ {t}) = Sum(U) + f[a]
        <5>1. a \in T \ {t}
          BY <3>5
        <5> QED BY <3>1, <3>3, <4>1, <5>1
      <4>4. Sum(U) \in Int /\ f[a] \in Int /\ f[t] \in Int
        BY <1>4, <3>1, <3>3
      <4> HIDE DEF U
      <4> QED BY <3>2, <4>2, <4>3, <4>4
    <3> QED BY <3>4, <3>5
  <2> QED BY <1>4, <1>6, <2>1
<1> HIDE DEF Q
<1>7. Nat \subseteq Q
  BY <1>5, <1>6, NumberInduction
<1> QED BY <1>1, <1>7 DEF Q, Sum

\* The sum over no node is 0.
LEMMA SumOfNothing == ASSUME NEW f PROVE SumFunctionOnSet(f, {}) = 0
BY SumUnfolds, FS_EmptySet

\* One element more.
LEMMA SumOfOneMore ==
  ASSUME NEW D, NEW f \in [D -> Int], NEW S \in SUBSET D, IsFiniteSet(S), NEW a \in D \ S
  PROVE  SumFunctionOnSet(f, S \cup {a}) = SumFunctionOnSet(f, S) + f[a]
<1> DEFINE T == S \cup {a}
<1>1. T \in SUBSET D /\ IsFiniteSet(T) /\ a \in T /\ T \ {a} = S
  BY FS_AddElement
<1> HIDE DEF T
<1>2. SumFunctionOnSet(f, T) = SumFunctionOnSet(f, T \ {a}) + f[a]
  BY <1>1, SumFacts
<1> QED BY <1>1, <1>2 DEF T

\* Two disjoint sets.
LEMMA SumOfBoth ==
  ASSUME NEW D, NEW f \in [D -> Int], NEW S \in SUBSET D, IsFiniteSet(S),
         NEW T \in SUBSET D, IsFiniteSet(T), S \cap T = {}
  PROVE  SumFunctionOnSet(f, S \cup T) = SumFunctionOnSet(f, S) + SumFunctionOnSet(f, T)
<1> DEFINE Sum(U) == SumFunctionOnSet(f, U)
           Q == {n \in Nat : \A U \in SUBSET T : Cardinality(U) = n => Sum(S \cup U) = Sum(S) + Sum(U)}
<1>1. \A U \in SUBSET T : IsFiniteSet(U) /\ Cardinality(U) \in Nat /\ (Cardinality(U) = 0 <=> U = {})
  <2> TAKE U \in SUBSET T
  <2>1. IsFiniteSet(U)
    BY FS_Subset
  <2> QED BY <2>1, FS_CardinalityType, FS_EmptySet
<1>2. Sum(S) \in Int
  BY SumFacts
<1>3. \A U \in SUBSET T : Sum(U) \in Int
  BY <1>1, SumFacts
<1>4. 0 \in Q
  <2>1. \A U \in SUBSET T : Cardinality(U) = 0 => U = {} /\ S \cup U = S /\ Sum(U) = 0
    BY <1>1, SumOfNothing
  <2> HIDE DEF Sum
  <2> QED BY <1>2, <2>1
<1>5. ASSUME NEW n \in Q \cap Nat PROVE n + 1 \in Q
  <2>1. ASSUME NEW U \in SUBSET T, Cardinality(U) = n + 1 PROVE Sum(S \cup U) = Sum(S) + Sum(U)
    <3>1. PICK a \in U : TRUE
      BY <1>1, <2>1
    <3> DEFINE V == U \ {a}
    <3>2. V \in SUBSET T /\ Cardinality(V) = n /\ U = V \cup {a} /\ a \in D \ V /\ IsFiniteSet(V) /\ f[a] \in Int
      <4>1. IsFiniteSet(U) /\ n \in Nat
        BY <1>1, <1>5
      <4>2. Cardinality(V) = Cardinality(U) - 1 /\ IsFiniteSet(V)
        BY <3>1, <4>1, FS_RemoveElement
      <4>3. V \in SUBSET T /\ U = V \cup {a} /\ a \in D \ V /\ f[a] \in Int
        BY <3>1
      <4> QED BY <2>1, <4>1, <4>2, <4>3
    <3> HIDE DEF V
    <3>3. Sum(U) = Sum(V) + f[a]
      BY <3>2, SumOfOneMore
    <3>4. Sum((S \cup V) \cup {a}) = Sum(S \cup V) + f[a]
      <4> DEFINE W == S \cup V
      <4>1. W \in SUBSET D /\ IsFiniteSet(W) /\ a \in D \ W
        BY <3>1, <3>2, FS_Union
      <4> HIDE DEF W
      <4>2. Sum(W \cup {a}) = Sum(W) + f[a]
        BY <4>1, SumOfOneMore
      <4> QED BY <4>2 DEF W
    <3>5. S \cup U = (S \cup V) \cup {a}
      BY <3>2
    <3> HIDE DEF Sum
    <3>6. Sum(S \cup V) = Sum(S) + Sum(V)
      BY <3>2
    <3> QED BY <1>2, <1>3, <3>2, <3>3, <3>4, <3>5, <3>6
  <2> QED BY <1>5, <2>1
<1> HIDE DEF Q
<1>6. Nat \subseteq Q
  BY <1>4, <1>5, NumberInduction
<1> QED BY <1>1, <1>6 DEF Q, Sum

-----------------------------------------------------------------------------
(* Moments                                                                 *)

\* What the resistor of an edge adds to the moment of every node behind it.
Share(rct, charge) == [e \in Edges(rct) |-> e.res * SumFunctionOnSet(charge, Behind(rct, e))]
\* The edges on the way to a node.
WayTo(rct, v) == {e \in Edges(rct) : v \in Behind(rct, e)}

\* What each edge delays is an integer.
LEMMA ShareType ==
  ASSUME NEW rct, NetType(rct), NEW charge \in [Nodes(rct) -> Int]
  PROVE  /\ Share(rct, charge) \in [Edges(rct) -> Int]
         /\ \A v : WayTo(rct, v) \in SUBSET Edges(rct) /\ IsFiniteSet(WayTo(rct, v))
         /\ \A v : Moment(rct, v, charge) = SumFunctionOnSet(Share(rct, charge), WayTo(rct, v))
<1>1. IsFiniteSet(Edges(rct)) /\ \A e \in Edges(rct) : e.res \in Int
  BY EdgeTypes
<1>2. \A e : Behind(rct, e) \in SUBSET Nodes(rct)
  BY ReachedFacts DEF Behind
<1>3. \A e : SumFunctionOnSet(charge, Behind(rct, e)) \in Int
  <2> TAKE e
  <2>1. IsFiniteSet(Behind(rct, e))
    BY <1>2, FS_Subset DEF NetType
  <2> QED BY <1>2, <2>1, SumFacts
<1>4. \A v : WayTo(rct, v) \in SUBSET Edges(rct) /\ IsFiniteSet(WayTo(rct, v))
  <2> TAKE v
  <2>1. WayTo(rct, v) \in SUBSET Edges(rct)
    BY DEF WayTo
  <2> QED BY <1>1, <2>1, FS_Subset
<1>5. \A v : Moment(rct, v, charge) = SumFunctionOnSet(Share(rct, charge), WayTo(rct, v))
  BY DEF Moment, Share, WayTo
<1> QED BY <1>1, <1>3, <1>4, <1>5 DEF Share

\* A moment is an integer.
LEMMA MomentType ==
  ASSUME NEW rct, NetType(rct), NEW charge \in [Nodes(rct) -> Int], NEW v
  PROVE  Moment(rct, v, charge) \in Int
BY ShareType, SumFacts

\* Nothing lies on the way to the root, nor to a node it does not reach.
LEMMA MomentOfRoot ==
  ASSUME NEW rct, Tree(rct), NEW charge \in [Nodes(rct) -> Int], NEW v, v = rct.root \/ v \notin Reached(rct)
  PROVE  Moment(rct, v, charge) = 0
<1>1. WayTo(rct, v) = {}
  <2> SUFFICES ASSUME NEW e \in Edges(rct), v \in Behind(rct, e) PROVE FALSE
    BY DEF WayTo
  <2> QED BY BehindIsDown, DownFacts
<1> QED BY <1>1, ShareType, SumOfNothing DEF Tree

(***************************************************************************)
(* The moment at the end of an edge is that at its start and what is       *)
(* stored behind the edge, times its resistance.                           *)
(***************************************************************************)
LEMMA MomentGrows ==
  ASSUME NEW rct, Tree(rct), NEW charge \in [Nodes(rct) -> Int], NEW e, Down(rct, e)
  PROVE  Moment(rct, e.to, charge) =
             Moment(rct, e.fr, charge) + e.res * SumFunctionOnSet(charge, Behind(rct, e))
<1>0. NetType(rct) /\ e \in Edges(rct)
  BY DEF Tree, Down
<1>1. WayTo(rct, e.to) = WayTo(rct, e.fr) \cup {e} /\ e \notin WayTo(rct, e.fr)
  BY WayGrows DEF WayTo
<1>2. /\ Share(rct, charge) \in [Edges(rct) -> Int]
      /\ WayTo(rct, e.fr) \in SUBSET Edges(rct) /\ IsFiniteSet(WayTo(rct, e.fr))
      /\ Moment(rct, e.to, charge) = SumFunctionOnSet(Share(rct, charge), WayTo(rct, e.to))
      /\ Moment(rct, e.fr, charge) = SumFunctionOnSet(Share(rct, charge), WayTo(rct, e.fr))
  BY <1>0, ShareType
<1>3. Share(rct, charge)[e] = e.res * SumFunctionOnSet(charge, Behind(rct, e))
  BY <1>0 DEF Share
<1>4. e \in Edges(rct) \ WayTo(rct, e.fr)
  BY <1>0, <1>1
<1>5. SumFunctionOnSet(Share(rct, charge), WayTo(rct, e.fr) \cup {e}) =
          SumFunctionOnSet(Share(rct, charge), WayTo(rct, e.fr)) + Share(rct, charge)[e]
  BY <1>2, <1>4, SumOfOneMore
<1> QED BY <1>1, <1>2, <1>3, <1>5

-----------------------------------------------------------------------------
(* The calls in progress                                                   *)

\* The calls in progress, when there are any.
FrameType == [node : NodeName, parent : NodeName \cup {NoNode}, todo : SUBSET Nat]
CallsOK(rct, s) == s \in Seq(FrameType) /\ s # <<>> /\ CallsType(rct, s)

\* The edges call i has followed, other than back, whose calls have returned.
Returned(rct, s, i) ==
    {rct.edges[a] : a \in {b \in Fanout(rct, s[i].node) \ s[i].todo :
                               /\ rct.edges[b].to # s[i].parent
                               /\ ~(i < Len(s) /\ rct.edges[b].to = s[i + 1].node)}}

\* The nodes whose calls have returned to call i.
DoneAt(rct, s, i) == UNION {Behind(rct, e) : e \in Returned(rct, s, i)}

\* The network under the node of call i.
UnderCall(rct, s, i) == Under(rct, s[i].node, s[i].parent)

\* The first call is of the root, the others are along an edge that their caller follows.
LEMMA CallFacts ==
  ASSUME NEW rct, NetType(rct), NEW s, CallsOK(rct, s)
  PROVE  /\ Len(s) \in Nat \ {0} /\ DOMAIN s = 1..Len(s)
         /\ \A i \in 1..Len(s) : s[i] \in FrameType
         /\ s[1].node = rct.root /\ s[1].parent = NoNode
         /\ \A i \in 1..Len(s) : i + 1 <= Len(s) =>
                /\ s[i + 1].parent = s[i].node
                /\ \E e \in Onward(rct, s[i].node, s[i].parent) : e.to = s[i + 1].node
<1>1. Len(s) \in Nat \ {0} /\ DOMAIN s = 1..Len(s) /\ \A i \in 1..Len(s) : s[i] \in FrameType
  <2> HIDE DEF FrameType
  <2> QED BY DEF CallsOK
<1>2. s[1].node = rct.root /\ s[1].parent = NoNode
  <2>1. 1 \in DOMAIN s /\ CallsType(rct, s)
    BY <1>1 DEF CallsOK
  <2> QED BY <2>1 DEF CallsType, CallType
<1>3. ASSUME NEW i \in 1..Len(s), i + 1 <= Len(s)
      PROVE  /\ s[i + 1].parent = s[i].node
             /\ \E e \in Onward(rct, s[i].node, s[i].parent) : e.to = s[i + 1].node
  <2>1. i + 1 \in DOMAIN s /\ i + 1 # 1 /\ (i + 1) - 1 = i
    BY <1>1, <1>3
  <2>2. /\ s[i + 1].parent = s[i].node /\ s[i + 1].node # s[i].parent
        /\ \E a \in Fanout(rct, s[i].node) \ s[i].todo : rct.edges[a].to = s[i + 1].node
    BY <2>1 DEF CallsOK, CallsType, CallType
  <2>3. PICK a \in Fanout(rct, s[i].node) : rct.edges[a].to = s[i + 1].node
    BY <2>2
  <2>4. rct.edges[a] \in Onward(rct, s[i].node, s[i].parent)
    BY <2>2, <2>3, EdgeTypes DEF Fanout, Onward
  <2> QED BY <2>2, <2>3, <2>4
<1> QED BY <1>1, <1>2, <1>3

\* Every call in a tree is of the root or along an edge on the way from it.
LEMMA CallsAreCallable ==
  ASSUME NEW rct, Tree(rct), NEW s, CallsOK(rct, s)
  PROVE  \A i \in 1..Len(s) : Callable(rct, s[i].node, s[i].parent)
<1> DEFINE Q == {n \in Nat : n + 1 <= Len(s) => Callable(rct, s[n + 1].node, s[n + 1].parent)}
<1>0. NetType(rct) /\ Len(s) \in Nat \ {0}
  BY CallFacts DEF Tree
<1>1. 0 \in Q
  BY <1>0, CallFacts DEF Callable
<1>2. ASSUME NEW n \in Q \cap Nat PROVE n + 1 \in Q
  <2>1. SUFFICES ASSUME (n + 1) + 1 <= Len(s)
                 PROVE  Callable(rct, s[(n + 1) + 1].node, s[(n + 1) + 1].parent)
    BY <1>2
  <2> DEFINE i == n + 1
  <2>2. i \in 1..Len(s) /\ i + 1 <= Len(s) /\ Callable(rct, s[i].node, s[i].parent)
    BY <1>0, <1>2, <2>1
  <2> HIDE DEF i
  <2>3. /\ s[i + 1].parent = s[i].node
        /\ \E e \in Onward(rct, s[i].node, s[i].parent) : e.to = s[i + 1].node
    BY <1>0, <2>2, CallFacts
  <2>4. Callable(rct, s[i + 1].node, s[i + 1].parent)
    BY <2>2, <2>3, OnwardFacts
  <2> QED BY <2>4 DEF i
<1> HIDE DEF Q
<1>3. Nat \subseteq Q
  BY <1>1, <1>2, NumberInduction
<1>4. ASSUME NEW i \in 1..Len(s) PROVE Callable(rct, s[i].node, s[i].parent)
  <2>1. i - 1 \in Nat /\ (i - 1) + 1 = i /\ i <= Len(s)
    BY <1>0
  <2>2. i - 1 \in Q
    BY <1>3, <2>1
  <2> QED BY <2>1, <2>2 DEF Q
<1> QED BY <1>4

\* A call's part of the network lies in those of the calls before it, without their nodes.
LEMMA CallsNest ==
  ASSUME NEW rct, Tree(rct), NEW s, CallsOK(rct, s)
  PROVE  /\ \A i \in 1..Len(s) : s[i].node \in UnderCall(rct, s, i)
         /\ \A i, j \in 1..Len(s) : i < j => UnderCall(rct, s, j) \subseteq UnderCall(rct, s, i) \ {s[i].node}
<1>0. NetType(rct) /\ Len(s) \in Nat \ {0}
  BY CallFacts DEF Tree
<1>1. \A i \in 1..Len(s) : s[i].node \in UnderCall(rct, s, i)
  BY CallsAreCallable, PartsMakeWhole DEF UnderCall
<1>2. ASSUME NEW i \in 1..Len(s), i + 1 <= Len(s)
      PROVE  UnderCall(rct, s, i + 1) \subseteq UnderCall(rct, s, i) \ {s[i].node}
  <2>1. PICK e \in Onward(rct, s[i].node, s[i].parent) : e.to = s[i + 1].node /\ s[i + 1].parent = s[i].node
    <3>1. \A j \in 1..Len(s) : j + 1 <= Len(s) =>
              /\ s[j + 1].parent = s[j].node
              /\ \E e \in Onward(rct, s[j].node, s[j].parent) : e.to = s[j + 1].node
      BY <1>0, CallFacts
    <3>2. /\ s[i + 1].parent = s[i].node
          /\ \E e \in Onward(rct, s[i].node, s[i].parent) : e.to = s[i + 1].node
      BY <1>2, <3>1
    <3> QED BY <3>2
  <2>2. UnderCall(rct, s, i + 1) = Behind(rct, e)
    BY <1>0, <2>1, UnderBehind DEF UnderCall, Onward
  <2>3. Callable(rct, s[i].node, s[i].parent)
    BY CallsAreCallable
  <2> QED BY <2>1, <2>2, <2>3, OnwardFacts DEF UnderCall
<1>3. ASSUME NEW i \in 1..Len(s), NEW j \in 1..Len(s), i < j
      PROVE  UnderCall(rct, s, j) \subseteq UnderCall(rct, s, i) \ {s[i].node}
  <2> DEFINE Q == {n \in Nat : (i + 1) + n <= Len(s) =>
                       UnderCall(rct, s, (i + 1) + n) \subseteq UnderCall(rct, s, i) \ {s[i].node}}
  <2>1. 0 \in Q
    BY <1>0, <1>2
  <2>2. ASSUME NEW n \in Q \cap Nat PROVE n + 1 \in Q
    <3>1. SUFFICES ASSUME (i + 1) + (n + 1) <= Len(s)
                   PROVE  UnderCall(rct, s, (i + 1) + (n + 1)) \subseteq UnderCall(rct, s, i) \ {s[i].node}
      BY <2>2
    <3> DEFINE k == (i + 1) + n
    <3>2. k \in 1..Len(s) /\ k + 1 <= Len(s) /\ (i + 1) + (n + 1) = k + 1
      BY <1>0, <2>2, <3>1
    <3>3. UnderCall(rct, s, k) \subseteq UnderCall(rct, s, i) \ {s[i].node}
      BY <2>2, <3>2
    <3> HIDE DEF k
    <3>4. UnderCall(rct, s, k + 1) \subseteq UnderCall(rct, s, k)
      BY <1>2, <3>2
    <3> QED BY <3>2, <3>3, <3>4
  <2> HIDE DEF Q
  <2>3. Nat \subseteq Q
    BY <2>1, <2>2, NumberInduction
  <2>4. (j - i) - 1 \in Nat /\ (i + 1) + ((j - i) - 1) = j /\ j <= Len(s)
    BY <1>0, <1>3
  <2>5. (j - i) - 1 \in Q
    BY <2>3, <2>4
  <2> QED BY <2>4, <2>5 DEF Q
<1> QED BY <1>1, <1>3

(***************************************************************************)
(* In a tree no two calls in progress are of the same node.                *)
(***************************************************************************)
LEMMA CallsDiffer ==
  ASSUME NEW rct, Tree(rct), NEW s, CallsOK(rct, s)
  PROVE  \A i, j \in 1..Len(s) : s[i].node = s[j].node => i = j
<1>1. Len(s) \in Nat
  BY CallFacts DEF Tree
<1>2. ASSUME NEW i \in 1..Len(s), NEW j \in 1..Len(s), i < j PROVE s[i].node # s[j].node
  BY <1>2, CallsNest
<1>3. ASSUME NEW i \in 1..Len(s), NEW j \in 1..Len(s), s[i].node = s[j].node PROVE i = j
  <2>1. i < j \/ j < i \/ i = j
    BY <1>1
  <2> QED BY <1>2, <1>3, <2>1
<1> QED BY <1>3

\* What has returned to a call lies under it, apart from its own node and the calls in front.
LEMMA DoneFacts ==
  ASSUME NEW rct, Tree(rct), NEW s, CallsOK(rct, s), NEW i \in 1..Len(s)
  PROVE  /\ Returned(rct, s, i) \subseteq Onward(rct, s[i].node, s[i].parent)
         /\ DoneAt(rct, s, i) \subseteq UnderCall(rct, s, i) \ {s[i].node}
         /\ i + 1 <= Len(s) => DoneAt(rct, s, i) \cap UnderCall(rct, s, i + 1) = {}
         /\ \A j \in 1..Len(s) : s[j].node \notin DoneAt(rct, s, i)
<1>0. NetType(rct) /\ Len(s) \in Nat \ {0}
  BY CallFacts DEF Tree
<1>1. Callable(rct, s[i].node, s[i].parent)
  BY CallsAreCallable
<1>2. Returned(rct, s, i) \subseteq Onward(rct, s[i].node, s[i].parent)
  BY <1>0, EdgeTypes DEF Returned, Onward, Fanout
<1>3. DoneAt(rct, s, i) \subseteq UnderCall(rct, s, i) \ {s[i].node}
  BY <1>1, <1>2, OnwardFacts DEF DoneAt, UnderCall
<1>4. ASSUME i + 1 <= Len(s) PROVE DoneAt(rct, s, i) \cap UnderCall(rct, s, i + 1) = {}
  <2>1. PICK e \in Onward(rct, s[i].node, s[i].parent) : e.to = s[i + 1].node /\ s[i + 1].parent = s[i].node
    BY <1>0, <1>4, CallFacts
  <2>2. UnderCall(rct, s, i + 1) = Behind(rct, e)
    BY <1>0, <2>1, UnderBehind DEF UnderCall, Onward
  <2>3. \A f \in Returned(rct, s, i) : f.to # e.to
    BY <1>0, <1>4, <2>1 DEF Returned
  <2>4. ASSUME NEW f \in Returned(rct, s, i) PROVE Behind(rct, f) \cap Behind(rct, e) = {}
    <3>1. Down(rct, f) /\ Down(rct, e) /\ f.fr = e.fr
      BY <1>1, <1>2, <2>1, OnwardFacts DEF Onward
    <3> QED BY <2>3, <3>1, PartsAreDisjoint
  <2> QED BY <2>2, <2>4 DEF DoneAt
<1>5. ASSUME NEW j \in 1..Len(s) PROVE s[j].node \notin DoneAt(rct, s, i)
  <2>1. CASE j = i
    BY <1>3, <2>1
  <2>2. CASE j < i
    BY <1>3, <2>2, CallsNest
  <2>3. CASE i < j
    <3>1. i + 1 <= Len(s) /\ i + 1 \in 1..Len(s) /\ (i + 1 = j \/ i + 1 < j)
      BY <1>0, <2>3
    <3>2. s[j].node \in UnderCall(rct, s, i + 1)
      BY <3>1, CallsNest
    <3> QED BY <1>4, <3>1, <3>2
  <2> QED BY <1>0, <2>1, <2>2, <2>3
<1> QED BY <1>2, <1>3, <1>4, <1>5

-----------------------------------------------------------------------------
(* What the steps do to the calls                                          *)

\* Whether a call is typed depends on it and the call before it.
LEMMA SameCall ==
  ASSUME NEW rct, NEW s, NEW p, NEW i, CallType(rct, s, i), p[i] = s[i], i # 1 => p[i - 1] = s[i - 1]
  PROVE  CallType(rct, p, i)
BY DEF CallType

\* The number of the next edge of the call in front, and the calls once it has been followed.
NextOf(s) == Min(s[Len(s)].todo)
Moved(s) == [s EXCEPT ![Len(s)].todo = @ \ {Min(@)}]

\* Following an edge keeps the calls typed and changes the one in front only.
LEMMA MovedFacts ==
  ASSUME NEW rct, NetType(rct), NEW s, CallsOK(rct, s), s[Len(s)].todo # {}
  PROVE  /\ CallsOK(rct, Moved(s)) /\ Len(Moved(s)) = Len(s)
         /\ NextOf(s) \in Fanout(rct, s[Len(s)].node) /\ NextOf(s) \in s[Len(s)].todo
         /\ \A i \in 1..Len(s) : /\ Moved(s)[i].node = s[i].node /\ Moved(s)[i].parent = s[i].parent
                                 /\ i # Len(s) => Moved(s)[i] = s[i]
         /\ Moved(s)[Len(s)].todo = s[Len(s)].todo \ {NextOf(s)}
<1> DEFINE k == Len(s)
           m == NextOf(s)
           r == Moved(s)
           F == [s[k] EXCEPT !.todo = @ \ {Min(@)}]
<1>1. /\ k \in Nat \ {0} /\ DOMAIN s = 1..k /\ k \in 1..k
      /\ \A i \in 1..k : s[i] \in FrameType
  BY CallFacts
<1>2. s[k].todo \in SUBSET Nat /\ s[k].todo \subseteq Fanout(rct, s[k].node)
  BY <1>1 DEF FrameType, CallsOK, CallsType, CallType
<1>3. m \in s[k].todo /\ \A b \in s[k].todo : m <= b
  <2>1. \E x \in s[k].todo : \A y \in s[k].todo : x <= y
    BY <1>2, LeastNumber
  <2> QED BY <2>1 DEF Min, NextOf
<1>4. r = [s EXCEPT ![k] = F]
  BY <1>1 DEF Moved
<1>5. F \in FrameType /\ F.node = s[k].node /\ F.parent = s[k].parent /\ F.todo = s[k].todo \ {m}
  BY <1>1 DEF FrameType, NextOf
<1> HIDE DEF F, r, FrameType
<1>6. r \in Seq(FrameType) /\ Len(r) = k /\ DOMAIN r = 1..k
      /\ \A i \in 1..k : r[i] = IF i = k THEN F ELSE s[i]
  BY <1>1, <1>4, <1>5 DEF CallsOK
<1>7. CallsType(rct, r)
  <2>0. CallsType(rct, s)
    BY DEF CallsOK
  <2> SUFFICES ASSUME NEW i \in 1..k PROVE CallType(rct, r, i)
    BY <1>6 DEF CallsType
  <2>1. r[i].node = s[i].node /\ r[i].parent = s[i].parent /\ r[i].todo \subseteq s[i].todo
    BY <1>5, <1>6
  <2>2. r[i].todo \subseteq Fanout(rct, r[i].node)
    BY <1>1, <2>0, <2>1 DEF CallsType, CallType
  <2>3. \A a \in Fanout(rct, r[i].node) \ r[i].todo, b \in r[i].todo : a < b
    <3>1. CASE i # k
      BY <1>1, <1>6, <2>0, <3>1 DEF CallsType, CallType
    <3>2. CASE i = k
      <4> SUFFICES ASSUME NEW a \in Fanout(rct, s[k].node) \ (s[k].todo \ {m}), NEW b \in s[k].todo \ {m}
                   PROVE  a < b
        BY <1>5, <1>6, <3>2
      <4>1. CASE a = m
        BY <1>2, <1>3, <4>1
      <4>2. CASE a # m
        BY <1>1, <2>0, <4>2 DEF CallsType, CallType
      <4> QED BY <4>1, <4>2
    <3> QED BY <3>1, <3>2
  <2>4. CASE i = 1
    BY <1>1, <2>0, <2>1, <2>2, <2>3, <2>4 DEF CallsType, CallType
  <2>5. CASE i # 1
    <3>1. i - 1 \in 1..k /\ i - 1 # k
      BY <1>1, <2>5
    <3>2. r[i - 1] = s[i - 1]
      BY <1>6, <3>1
    <3>3. /\ s[i].parent = s[i - 1].node /\ s[i].node # s[i - 1].parent
          /\ \E a \in Fanout(rct, s[i - 1].node) \ s[i - 1].todo : rct.edges[a].to = s[i].node
      BY <1>1, <2>0, <2>5 DEF CallsType, CallType
    <3> QED BY <2>1, <2>2, <2>3, <2>5, <3>2, <3>3 DEF CallType
  <2> QED BY <2>4, <2>5
<1>8. r # <<>>
  BY <1>1, <1>6
<1>9. CallsOK(rct, r)
  BY <1>6, <1>7, <1>8 DEF CallsOK
<1>10. \A i \in 1..k : /\ r[i].node = s[i].node /\ r[i].parent = s[i].parent /\ (i # k => r[i] = s[i])
  BY <1>5, <1>6
<1> QED BY <1>1, <1>2, <1>3, <1>5, <1>6, <1>9, <1>10 DEF r, NextOf

\* The calls with one more, along the edge followed.
Pushed(rct, s) == Append(Moved(s), Frame(rct, rct.edges[NextOf(s)].to, s[Len(s)].node))

\* So does a call along it.
LEMMA PushedFacts ==
  ASSUME NEW rct, NetType(rct), NEW s, CallsOK(rct, s), s[Len(s)].todo # {},
         rct.edges[NextOf(s)].to # s[Len(s)].parent
  PROVE  /\ CallsOK(rct, Pushed(rct, s)) /\ Len(Pushed(rct, s)) = Len(s) + 1
         /\ \A i \in 1..Len(s) : Pushed(rct, s)[i] = Moved(s)[i]
         /\ Pushed(rct, s)[Len(s) + 1] = Frame(rct, rct.edges[NextOf(s)].to, s[Len(s)].node)
<1> DEFINE k == Len(s)
           m == NextOf(s)
           r == Moved(s)
           F == Frame(rct, rct.edges[m].to, s[k].node)
           p == Pushed(rct, s)
<1>1. /\ k \in Nat \ {0} /\ k \in 1..k /\ \A i \in 1..k : s[i] \in FrameType
  BY CallFacts
<1>2. /\ CallsOK(rct, r) /\ Len(r) = k /\ m \in Fanout(rct, s[k].node) /\ m \in s[k].todo
      /\ \A i \in 1..k : r[i].node = s[i].node /\ r[i].parent = s[i].parent
      /\ r[k].todo = s[k].todo \ {m}
  BY MovedFacts
<1>3. m \in DOMAIN rct.edges /\ rct.edges[m].to \in Nodes(rct) /\ Nodes(rct) \subseteq NodeName
  BY <1>2, EdgeTypes DEF Fanout, NetType
<1>4. Fanout(rct, rct.edges[m].to) \subseteq Nat
  BY EdgeTypes DEF Fanout
<1>5. /\ F \in FrameType /\ F.node = rct.edges[m].to /\ F.parent = s[k].node
      /\ F.todo = Fanout(rct, rct.edges[m].to)
  BY <1>1, <1>3, <1>4 DEF Frame, FrameType
<1>6. p = Append(r, F)
  BY DEF Pushed
<1> HIDE DEF F, r, p, FrameType, m
<1>7. /\ p \in Seq(FrameType) /\ Len(p) = k + 1 /\ p[k + 1] = F /\ DOMAIN p = 1..(k + 1)
      /\ \A i \in 1..k : p[i] = r[i]
  BY <1>1, <1>2, <1>5, <1>6 DEF CallsOK
<1>8. CallsType(rct, p)
  <2>0. CallsType(rct, r) /\ DOMAIN r = 1..k
    BY <1>2 DEF CallsOK
  <2> SUFFICES ASSUME NEW i \in 1..(k + 1) PROVE CallType(rct, p, i)
    BY <1>7 DEF CallsType
  <2>1. CASE i \in 1..k
    <3>1. p[i] = r[i]
      BY <1>7, <2>1
    <3>2. i # 1 => p[i - 1] = r[i - 1]
      <4>1. i # 1 => i - 1 \in 1..k
        BY <1>1, <2>1
      <4> QED BY <1>7, <4>1
    <3> QED BY <2>0, <2>1, <3>1, <3>2, SameCall DEF CallsType
  <2>2. CASE i = k + 1
    <3>1. p[i] = F /\ i # 1 /\ i - 1 = k /\ p[i - 1] = r[k]
      BY <1>1, <1>7, <2>2
    <3>2. m \in Fanout(rct, r[k].node) \ r[k].todo
      BY <1>1, <1>2
    <3> QED BY <1>1, <1>2, <1>5, <3>1, <3>2 DEF m, CallType
  <2> QED BY <1>1, <2>1, <2>2
<1>9. p # <<>>
  BY <1>1, <1>7
<1>10. CallsOK(rct, p)
  BY <1>7, <1>8, <1>9 DEF CallsOK
<1> QED BY <1>7, <1>10 DEF p, r, F, m

\* The calls without the one in front.
Popped(s) == SubSeq(s, 1, Len(s) - 1)

\* So does a return.
LEMMA PoppedFacts ==
  ASSUME NEW rct, NetType(rct), NEW s, CallsOK(rct, s)
  PROVE  /\ Popped(s) \in Seq(FrameType) /\ Len(Popped(s)) = Len(s) - 1
         /\ \A i \in 1..(Len(s) - 1) : Popped(s)[i] = s[i]
         /\ Len(s) = 1 => Popped(s) = <<>>
         /\ Len(s) # 1 => CallsOK(rct, Popped(s))
<1> DEFINE k == Len(s)
           p == Popped(s)
<1>1. /\ k \in Nat \ {0} /\ DOMAIN s = 1..k /\ \A i \in 1..k : s[i] \in FrameType
  BY CallFacts
<1>2. p \in Seq(FrameType) /\ Len(p) = k - 1 /\ DOMAIN p = 1..(k - 1) /\ \A i \in 1..(k - 1) : p[i] = s[i]
  <2> HIDE DEF FrameType
  <2>1. s \in Seq(FrameType)
    BY DEF CallsOK
  <2> QED BY <1>1, <2>1 DEF Popped
<1> HIDE DEF FrameType, p
<1>3. k = 1 => p = <<>>
  BY <1>2
<1>4. ASSUME k # 1 PROVE CallsOK(rct, p)
  <2>0. CallsType(rct, s)
    BY DEF CallsOK
  <2>1. CallsType(rct, p)
    <3> SUFFICES ASSUME NEW i \in 1..(k - 1) PROVE CallType(rct, p, i)
      BY <1>2 DEF CallsType
    <3>1. i \in 1..k /\ p[i] = s[i]
      BY <1>1, <1>2
    <3>2. i # 1 => p[i - 1] = s[i - 1]
      <4>1. i # 1 => i - 1 \in 1..(k - 1)
        BY <1>1
      <4> QED BY <1>2, <4>1
    <3> QED BY <1>1, <2>0, <3>1, <3>2, SameCall DEF CallsType
  <2>2. p # <<>>
    BY <1>1, <1>2, <1>4
  <2> QED BY <1>2, <2>1, <2>2 DEF CallsOK
<1> QED BY <1>2, <1>3, <1>4 DEF p

\* The call of a pass on the root.
First(rct) == <<Frame(rct, rct.root, NoNode)>>

\* The call on the root is typed.
LEMMA FirstFacts ==
  ASSUME NEW rct, NetType(rct)
  PROVE  /\ CallsOK(rct, First(rct)) /\ Len(First(rct)) = 1
         /\ First(rct)[1] = Frame(rct, rct.root, NoNode)
<1> DEFINE F == Frame(rct, rct.root, NoNode)
<1>1. Fanout(rct, rct.root) \subseteq Nat /\ rct.root \in NodeName
  BY EdgeTypes DEF Fanout, NetType
<1>2. F \in FrameType /\ F.node = rct.root /\ F.parent = NoNode /\ F.todo = Fanout(rct, rct.root)
  BY <1>1 DEF Frame, FrameType
<1> HIDE DEF F, FrameType
<1>3. First(rct) = <<F>>
  BY DEF First, F
<1>4. First(rct) \in Seq(FrameType) /\ Len(First(rct)) = 1 /\ First(rct)[1] = F
      /\ DOMAIN First(rct) = 1..1 /\ First(rct) # <<>>
  BY <1>2, <1>3
<1>5. CallsType(rct, First(rct))
  BY <1>2, <1>4 DEF CallsType, CallType
<1> QED BY <1>4, <1>5 DEF CallsOK, F

-----------------------------------------------------------------------------
(* What they do to the nodes that are done                                 *)

\* The edges call i has followed other than back.
Followed(rct, s, i) == {b \in Fanout(rct, s[i].node) \ s[i].todo : rct.edges[b].to # s[i].parent}

\* The edges whose calls have returned, by the edges followed.
LEMMA ReturnedIs ==
  ASSUME NEW rct, NEW s, NEW i
  PROVE  Returned(rct, s, i) = {rct.edges[a] : a \in {b \in Followed(rct, s, i) :
                                    ~(i < Len(s) /\ rct.edges[b].to = s[i + 1].node)}}
BY DEF Returned, Followed

\* What has returned to a call depends on the edges followed and on the call before it.
LEMMA SameReturned ==
  ASSUME NEW rct, NEW s, NEW p, NEW i, Followed(rct, p, i) = Followed(rct, s, i),
         \A v : i < Len(s) /\ v = s[i + 1].node <=> i < Len(p) /\ v = p[i + 1].node
  PROVE  DoneAt(rct, p, i) = DoneAt(rct, s, i)
<1>1. Returned(rct, p, i) = Returned(rct, s, i)
  BY ReturnedIs
<1> QED BY <1>1 DEF DoneAt

\* Skipping the way back returns nothing.
LEMMA MovedBack ==
  ASSUME NEW rct, Tree(rct), NEW s, CallsOK(rct, s), s[Len(s)].todo # {},
         rct.edges[NextOf(s)].to = s[Len(s)].parent, NEW i \in 1..Len(s)
  PROVE  DoneAt(rct, Moved(s), i) = DoneAt(rct, s, i)
<1> DEFINE k == Len(s)
           r == Moved(s)
           m == NextOf(s)
<1>0. NetType(rct)
  BY DEF Tree
<1>1. /\ Len(r) = k /\ m \in Fanout(rct, s[k].node)
      /\ \A j \in 1..k : r[j].node = s[j].node /\ r[j].parent = s[j].parent /\ (j # k => r[j] = s[j])
      /\ r[k].todo = s[k].todo \ {m} /\ k \in Nat
  BY <1>0, MovedFacts, CallFacts
<1> HIDE DEF r, m
<1>2. \A v : i < k /\ v = s[i + 1].node <=> i < Len(r) /\ v = r[i + 1].node
  <2>1. i < k => i + 1 \in 1..k
    BY <1>1
  <2> QED BY <1>1, <2>1
<1>3. Followed(rct, r, i) = Followed(rct, s, i)
  <2>1. CASE i # k
    BY <1>1, <2>1 DEF Followed
  <2>2. CASE i = k
    BY <1>1, <2>2 DEF Followed, m
  <2> QED BY <2>1, <2>2
<1> QED BY <1>2, <1>3, SameReturned DEF r

\* In a tree, edges from a node to a node are one edge.
LEMMA EdgesDiffer ==
  ASSUME NEW rct, Tree(rct), NEW v, NEW a \in Fanout(rct, v), NEW b \in Fanout(rct, v),
         rct.edges[a].to = rct.edges[b].to
  PROVE  a = b
BY DEF Tree, IsTree, Fanout

\* A call along an edge returns nothing; its node has no other call and has not been done.
LEMMA PushedDone ==
  ASSUME NEW rct, Tree(rct), NEW s, CallsOK(rct, s), s[Len(s)].todo # {},
         rct.edges[NextOf(s)].to # s[Len(s)].parent,
         NEW e, e = rct.edges[NextOf(s)]
  PROVE  /\ \A i \in 1..Len(s) : DoneAt(rct, Pushed(rct, s), i) = DoneAt(rct, s, i)
         /\ DoneAt(rct, Pushed(rct, s), Len(s) + 1) = {}
         /\ Down(rct, e) /\ e.fr = s[Len(s)].node /\ e.to \in Nodes(rct)
         /\ \A i \in 1..Len(s) : s[i].node # e.to /\ e.to \notin DoneAt(rct, s, i)
<1> DEFINE k == Len(s)
           r == Moved(s)
           m == NextOf(s)
           p == Pushed(rct, s)
<1>0. NetType(rct)
  BY DEF Tree
<1>1. /\ Len(r) = k /\ m \in Fanout(rct, s[k].node) /\ m \in s[k].todo
      /\ \A j \in 1..k : r[j].node = s[j].node /\ r[j].parent = s[j].parent /\ (j # k => r[j] = s[j])
      /\ r[k].todo = s[k].todo \ {m} /\ k \in Nat \ {0}
  BY <1>0, MovedFacts, CallFacts
<1>2. /\ CallsOK(rct, p) /\ Len(p) = k + 1 /\ \A i \in 1..k : p[i] = r[i]
      /\ p[k + 1] = Frame(rct, e.to, s[k].node)
  BY <1>0, PushedFacts
<1>3. p[k + 1].node = e.to /\ p[k + 1].parent = s[k].node /\ p[k + 1].todo = Fanout(rct, e.to)
  BY <1>2 DEF Frame
<1>4. e \in Edges(rct) /\ e.fr = s[k].node /\ e.to # s[k].parent /\ e.to \in Nodes(rct)
  BY <1>0, <1>1, EdgeTypes DEF Fanout
<1> HIDE DEF p, r
<1>5. ASSUME NEW i \in 1..k PROVE DoneAt(rct, p, i) = DoneAt(rct, s, i)
  <2>1. CASE i # k
    <3>1. i < k /\ i + 1 \in 1..k /\ i < k + 1
      BY <1>1, <2>1
    <3>2. p[i] = s[i] /\ p[i + 1].node = s[i + 1].node
      BY <1>1, <1>2, <2>1, <3>1
    <3>3. Followed(rct, p, i) = Followed(rct, s, i)
      BY <3>2 DEF Followed
    <3> QED BY <1>2, <3>1, <3>2, <3>3, SameReturned
  <2>2. CASE i = k
    <3>1. Followed(rct, p, k) = Followed(rct, s, k) \cup {m}
      BY <1>1, <1>2, <1>4 DEF Followed, m
    <3>2. \A b \in Followed(rct, s, k) : rct.edges[b].to # e.to
      BY <1>1, EdgesDiffer DEF Followed, m
    <3>3. Returned(rct, p, k) = Returned(rct, s, k)
      <4>1. Returned(rct, p, k) = {rct.edges[a] : a \in {b \in Followed(rct, p, k) : rct.edges[b].to # e.to}}
        <5>1. k < Len(p) /\ p[k + 1].node = e.to
          BY <1>1, <1>2, <1>3
        <5> HIDE DEF k
        <5> QED BY <5>1, ReturnedIs
      <4>2. Returned(rct, s, k) = {rct.edges[a] : a \in Followed(rct, s, k)}
        BY <1>1, ReturnedIs
      <4>3. {b \in Followed(rct, p, k) : rct.edges[b].to # e.to} = Followed(rct, s, k)
        BY <3>1, <3>2 DEF m
      <4> QED BY <4>1, <4>2, <4>3
    <3> QED BY <2>2, <3>3 DEF DoneAt
  <2> QED BY <2>1, <2>2
<1>6. DoneAt(rct, p, k + 1) = {}
  <2>1. Followed(rct, p, k + 1) = {}
    BY <1>3 DEF Followed
  <2> QED BY <2>1, ReturnedIs DEF DoneAt
<1>7. Down(rct, e)
  <2>1. Callable(rct, s[k].node, s[k].parent)
    BY <1>1, CallsAreCallable
  <2>2. e \in Onward(rct, s[k].node, s[k].parent)
    BY <1>4 DEF Onward
  <2> QED BY <2>1, <2>2, OnwardFacts
<1>8. ASSUME NEW i \in 1..k PROVE s[i].node # e.to /\ e.to \notin DoneAt(rct, s, i)
  <2>1. i \in 1..(k + 1) /\ k + 1 \in 1..(k + 1) /\ i # k + 1
    BY <1>1
  <2>2. p[i].node = s[i].node
    BY <1>1, <1>2
  <2> QED BY <1>2, <1>3, <1>5, <2>1, <2>2, CallsDiffer, DoneFacts
<1> QED BY <1>4, <1>5, <1>6, <1>7, <1>8 DEF p

\* A return: all that is under the call is done, and is now done for its caller.
LEMMA PoppedDone ==
  ASSUME NEW rct, Tree(rct), NEW s, CallsOK(rct, s), s[Len(s)].todo = {}
  PROVE  /\ UnderCall(rct, s, Len(s)) = {s[Len(s)].node} \cup DoneAt(rct, s, Len(s))
         /\ \A i \in 1..(Len(s) - 1) :
                DoneAt(rct, Popped(s), i) =
                    IF i = Len(s) - 1 THEN DoneAt(rct, s, i) \cup UnderCall(rct, s, Len(s)) ELSE DoneAt(rct, s, i)
<1> DEFINE k == Len(s)
           p == Popped(s)
<1>0. NetType(rct) /\ k \in Nat \ {0} /\ k \in 1..k
  BY CallFacts DEF Tree
<1>1. Len(p) = k - 1 /\ \A i \in 1..(k - 1) : p[i] = s[i]
  BY <1>0, PoppedFacts
<1> HIDE DEF p
<1>2. UnderCall(rct, s, k) = {s[k].node} \cup DoneAt(rct, s, k)
  <2>1. Returned(rct, s, k) = Onward(rct, s[k].node, s[k].parent)
    <3>1. ~(k < k) /\ s[k].todo = {}
      BY <1>0
    <3> HIDE DEF k
    <3>2. k = Len(s)
      BY DEF k
    <3>3. Returned(rct, s, k) = {rct.edges[a] : a \in {b \in Fanout(rct, s[k].node) : rct.edges[b].to # s[k].parent}}
      BY <3>1, <3>2 DEF Returned
    <3> QED BY <3>3 DEF Onward, Edges, Fanout
  <2>2. Callable(rct, s[k].node, s[k].parent)
    BY <1>0, CallsAreCallable
  <2> QED BY <2>1, <2>2, PartsMakeWhole DEF UnderCall, DoneAt
<1>3. ASSUME NEW i \in 1..(k - 1), i # k - 1 PROVE DoneAt(rct, p, i) = DoneAt(rct, s, i)
  <2>1. i < k /\ i < k - 1 /\ i + 1 \in 1..(k - 1)
    BY <1>0, <1>3
  <2>2. p[i] = s[i] /\ p[i + 1] = s[i + 1]
    BY <1>1, <2>1
  <2>3. Followed(rct, p, i) = Followed(rct, s, i)
    BY <2>2 DEF Followed
  <2> QED BY <1>1, <2>1, <2>2, <2>3, SameReturned
<1>4. ASSUME NEW i \in 1..(k - 1), i = k - 1
      PROVE  DoneAt(rct, p, i) = DoneAt(rct, s, i) \cup UnderCall(rct, s, k)
  <2>1. i < k /\ i + 1 = k /\ ~(i < Len(p)) /\ i \in 1..k /\ i + 1 <= k
    BY <1>0, <1>1, <1>4
  <2>2. p[i] = s[i]
    BY <1>1
  <2>3. /\ s[k].parent = s[i].node /\ s[k].node # s[i].parent
        /\ \E a \in Fanout(rct, s[i].node) \ s[i].todo : rct.edges[a].to = s[k].node
    <3>1. k \in DOMAIN s /\ k # 1 /\ k - 1 = i
      BY <1>0, <1>4, <2>1, CallFacts
    <3> QED BY <3>1 DEF CallsOK, CallsType, CallType
  <2>4. PICK a \in Followed(rct, s, i) : rct.edges[a].to = s[k].node
    BY <2>3 DEF Followed
  <2> DEFINE e == rct.edges[a]
  <2>5. e \in Edges(rct) /\ e.fr = s[k].parent /\ e.to = s[k].node
    BY <1>0, <2>3, <2>4, EdgeTypes DEF Followed, Fanout
  <2>6. \A b \in Followed(rct, s, i) : rct.edges[b].to = s[k].node <=> b = a
    BY <2>4, EdgesDiffer DEF Followed
  <2>7. Returned(rct, p, i) = {rct.edges[b] : b \in Followed(rct, s, i)}
    <3>1. Followed(rct, p, i) = Followed(rct, s, i)
      BY <2>2 DEF Followed
    <3> QED BY <2>1, <3>1, ReturnedIs
  <2>8. Returned(rct, s, i) = {rct.edges[b] : b \in Followed(rct, s, i) \ {a}}
    <3>1. Returned(rct, s, i) = {rct.edges[b] : b \in {c \in Followed(rct, s, i) : rct.edges[c].to # s[k].node}}
      BY <2>1, ReturnedIs
    <3>2. {c \in Followed(rct, s, i) : rct.edges[c].to # s[k].node} = Followed(rct, s, i) \ {a}
      BY <2>6
    <3> QED BY <3>1, <3>2
  <2>9. Returned(rct, p, i) = Returned(rct, s, i) \cup {e}
    BY <2>4, <2>7, <2>8
  <2>10. UnderCall(rct, s, k) = Behind(rct, e)
    BY <1>0, <2>5, UnderBehind DEF UnderCall
  <2> HIDE DEF e
  <2> QED BY <2>9, <2>10 DEF DoneAt
<1> QED BY <1>2, <1>3, <1>4 DEF p

\* The nodes whose time on the way down has been settled, and those there is nothing to settle of.
Seen(rct, s) ==
    IF s = <<>> THEN Nodes(rct)
    ELSE (Nodes(rct) \ Reached(rct))
             \cup {s[i].node : i \in 1..Len(s)} \cup UNION {DoneAt(rct, s, i) : i \in 1..Len(s)}

\* What has been seen, node by node.
LEMMA SeenIs ==
  ASSUME NEW rct, NEW s, s # <<>>, NEW v
  PROVE  v \in Seen(rct, s) <=>
             \/ v \in Nodes(rct) \ Reached(rct)
             \/ \E i \in 1..Len(s) : v = s[i].node \/ v \in DoneAt(rct, s, i)
BY DEF Seen

\* At first the root has been seen, and what it does not reach.
LEMMA SeenFirst ==
  ASSUME NEW rct, Tree(rct)
  PROVE  DoneAt(rct, First(rct), 1) = {} /\ Seen(rct, First(rct)) = (Nodes(rct) \ Reached(rct)) \cup {rct.root}
<1> DEFINE s == First(rct)
<1>1. CallsOK(rct, s) /\ Len(s) = 1 /\ s[1] = Frame(rct, rct.root, NoNode) /\ s # <<>>
  BY FirstFacts DEF Tree, CallsOK
<1>2. s[1].node = rct.root /\ s[1].todo = Fanout(rct, rct.root)
  BY <1>1 DEF Frame
<1> HIDE DEF s
<1>3. DoneAt(rct, s, 1) = {}
  <2>1. Followed(rct, s, 1) = {}
    BY <1>2 DEF Followed
  <2> QED BY <2>1, ReturnedIs DEF DoneAt
<1>4. \A v : v \in Seen(rct, s) <=> v \in Nodes(rct) \ Reached(rct) \/ v = rct.root
  BY <1>1, <1>2, <1>3, SeenIs
<1>5. Seen(rct, s) = (Nodes(rct) \ Reached(rct)) \cup {rct.root}
  BY <1>4
<1> QED BY <1>3, <1>5 DEF s

\* Skipping the way back sees nothing new.
LEMMA SeenMoved ==
  ASSUME NEW rct, Tree(rct), NEW s, CallsOK(rct, s), s[Len(s)].todo # {},
         rct.edges[NextOf(s)].to = s[Len(s)].parent
  PROVE  Seen(rct, Moved(s)) = Seen(rct, s)
<1>1. /\ Moved(s) # <<>> /\ s # <<>> /\ Len(Moved(s)) = Len(s)
      /\ \A i \in 1..Len(s) : Moved(s)[i].node = s[i].node
  BY MovedFacts DEF Tree, CallsOK
<1>2. \A i \in 1..Len(s) : DoneAt(rct, Moved(s), i) = DoneAt(rct, s, i)
  BY MovedBack
<1>3. \A v : v \in Seen(rct, Moved(s)) <=> v \in Seen(rct, s)
  BY <1>1, <1>2, SeenIs
<1> QED BY <1>3

\* A call sees its node.
LEMMA SeenPushed ==
  ASSUME NEW rct, Tree(rct), NEW s, CallsOK(rct, s), s[Len(s)].todo # {},
         rct.edges[NextOf(s)].to # s[Len(s)].parent
  PROVE  Seen(rct, Pushed(rct, s)) = Seen(rct, s) \cup {rct.edges[NextOf(s)].to}
<1> DEFINE p == Pushed(rct, s)
           k == Len(s)
           e == rct.edges[NextOf(s)]
<1>0. k \in Nat \ {0} /\ s # <<>>
  BY CallFacts DEF Tree, CallsOK
<1>1. /\ p # <<>> /\ Len(p) = k + 1 /\ p[k + 1].node = e.to
      /\ \A i \in 1..k : p[i].node = s[i].node
  <2>0. NetType(rct)
    BY DEF Tree
  <2>1. /\ CallsOK(rct, p) /\ Len(p) = k + 1 /\ \A i \in 1..k : p[i] = Moved(s)[i]
        /\ p[k + 1] = Frame(rct, e.to, s[k].node)
    BY <2>0, PushedFacts
  <2>2. \A i \in 1..k : Moved(s)[i].node = s[i].node
    BY <2>0, MovedFacts
  <2> QED BY <2>1, <2>2 DEF CallsOK, Frame
<1>2. (\A i \in 1..k : DoneAt(rct, p, i) = DoneAt(rct, s, i)) /\ DoneAt(rct, p, k + 1) = {}
  BY PushedDone
<1> HIDE DEF p, e
<1>3. \A i : i \in 1..(k + 1) <=> i \in 1..k \/ i = k + 1
  BY <1>0
<1>4. \A v : v \in Seen(rct, p) <=> v \in Seen(rct, s) \/ v = e.to
  <2> TAKE v
  <2>1. v \in Seen(rct, p) <=>
            \/ v \in Nodes(rct) \ Reached(rct)
            \/ \E i \in 1..(k + 1) : v = p[i].node \/ v \in DoneAt(rct, p, i)
    BY <1>1, SeenIs
  <2>2. v \in Seen(rct, s) <=>
            \/ v \in Nodes(rct) \ Reached(rct)
            \/ \E i \in 1..k : v = s[i].node \/ v \in DoneAt(rct, s, i)
    BY <1>0, SeenIs
  <2> QED BY <1>1, <1>2, <1>3, <2>1, <2>2
<1>5. Seen(rct, p) = Seen(rct, s) \cup {e.to}
  BY <1>4
<1> QED BY <1>5 DEF p, e

\* A return sees nothing new; after the last one everything has been seen.
LEMMA SeenPopped ==
  ASSUME NEW rct, Tree(rct), NEW s, CallsOK(rct, s), s[Len(s)].todo = {}
  PROVE  Seen(rct, Popped(s)) = Seen(rct, s)
<1> DEFINE p == Popped(s)
           k == Len(s)
<1>0. k \in Nat \ {0} /\ s # <<>> /\ NetType(rct)
  BY CallFacts DEF Tree, CallsOK
<1>1. UnderCall(rct, s, k) = {s[k].node} \cup DoneAt(rct, s, k)
  BY PoppedDone
<1>2. CASE k = 1
  <2>1. p = <<>> /\ Seen(rct, p) = Nodes(rct)
    BY <1>0, <1>2, PoppedFacts DEF Seen
  <2>2. UnderCall(rct, s, k) = Reached(rct)
    BY <1>0, <1>2, CallFacts DEF UnderCall, Under
  <2>3. Reached(rct) \subseteq Nodes(rct)
    BY <1>0, ReachedFacts
  <2>4. \A v : v \in Seen(rct, s) <=> v \in Nodes(rct) \ Reached(rct) \/ v = s[k].node \/ v \in DoneAt(rct, s, k)
    <3>1. \A i : i \in 1..k <=> i = k
      BY <1>2
    <3> HIDE DEF k
    <3>2. k = Len(s)
      BY DEF k
    <3> QED BY <1>0, <3>1, <3>2, SeenIs
  <2> HIDE DEF p
  <2>5. Seen(rct, p) = Seen(rct, s)
    BY <1>1, <2>1, <2>2, <2>3, <2>4
  <2> QED BY <2>5 DEF p
<1>3. CASE k # 1
  <2>1. p # <<>> /\ Len(p) = k - 1 /\ \A i \in 1..(k - 1) : p[i] = s[i]
    BY <1>0, <1>3, PoppedFacts DEF CallsOK
  <2>2. \A i \in 1..(k - 1) :
            DoneAt(rct, p, i) = IF i = k - 1 THEN DoneAt(rct, s, i) \cup UnderCall(rct, s, k) ELSE DoneAt(rct, s, i)
    BY PoppedDone
  <2>3. k - 1 \in 1..(k - 1) /\ \A i : i \in 1..k <=> i \in 1..(k - 1) \/ i = k
    <3> HIDE DEF k
    <3> QED BY <1>0, <1>3
  <2> HIDE DEF p
  <2>4. \A v : v \in Seen(rct, p) <=> v \in Seen(rct, s)
    <3> TAKE v
    <3>1. v \in Seen(rct, p) <=>
              \/ v \in Nodes(rct) \ Reached(rct)
              \/ \E i \in 1..(k - 1) : v = s[i].node \/ v \in DoneAt(rct, p, i)
      BY <2>1, SeenIs
    <3>2. v \in Seen(rct, s) <=>
              \/ v \in Nodes(rct) \ Reached(rct)
              \/ \E i \in 1..k : v = s[i].node \/ v \in DoneAt(rct, s, i)
      BY <1>0, SeenIs
    <3>3. (\E i \in 1..(k - 1) : v = s[i].node \/ v \in DoneAt(rct, p, i)) <=>
              \/ \E i \in 1..(k - 1) : v = s[i].node \/ v \in DoneAt(rct, s, i)
              \/ v \in UnderCall(rct, s, k)
      BY <2>2, <2>3
    <3> QED BY <1>1, <2>3, <3>1, <3>2, <3>3
  <2>5. Seen(rct, p) = Seen(rct, s)
    BY <2>4
  <2> QED BY <2>5 DEF p
<1> QED BY <1>2, <1>3

-----------------------------------------------------------------------------
(* What they do to the figures                                             *)

\* The sums of a pass are complete: of the network, and of what is behind each edge.
Complete(rct, f, w) ==
    /\ f[rct.root] = SumFunctionOnSet(w, Reached(rct))
    /\ \A e \in Edges(rct) : Down(rct, e) => f[e.to] = SumFunctionOnSet(w, Behind(rct, e))

\* Within a pass: a call has the sum of what returned to it, what returned is complete.
SumsNow(rct, s, f, w) ==
    /\ \A i \in 1..Len(s) : f[s[i].node] = SumFunctionOnSet(w, DoneAt(rct, s, i))
    /\ \A e \in Edges(rct), i \in 1..Len(s) :
           Down(rct, e) /\ e.to \in DoneAt(rct, s, i) => f[e.to] = SumFunctionOnSet(w, Behind(rct, e))

\* During the pass and after it.
SumsUp(rct, s, f, w) == IF s = <<>> THEN Complete(rct, f, w) ELSE SumsNow(rct, s, f, w)

\* The pass starts with the root's sum 0.
LEMMA SumsFirst ==
  ASSUME NEW rct, Tree(rct), NEW f, f[rct.root] = 0, NEW w
  PROVE  SumsUp(rct, First(rct), f, w)
<1> DEFINE s == First(rct)
<1>0. NetType(rct)
  BY DEF Tree
<1>1. CallsOK(rct, s) /\ Len(s) = 1 /\ s[1] = Frame(rct, rct.root, NoNode)
  BY <1>0, FirstFacts
<1>2. s # <<>> /\ s[1].node = rct.root
  BY <1>1 DEF CallsOK, Frame
<1>3. DoneAt(rct, s, 1) = {}
  BY SeenFirst
<1> HIDE DEF s
<1>4. SumsNow(rct, s, f, w)
  <2>1. \A i : i \in 1..Len(s) <=> i = 1
    BY <1>1
  <2>2. SumFunctionOnSet(w, DoneAt(rct, s, 1)) = 0
    BY <1>3, SumOfNothing
  <2> QED BY <1>2, <1>3, <2>1, <2>2 DEF SumsNow
<1> QED BY <1>2, <1>4 DEF SumsUp, s

\* Skipping the way back changes no sum.
LEMMA SumsMoved ==
  ASSUME NEW rct, Tree(rct), NEW s, CallsOK(rct, s), s[Len(s)].todo # {},
         rct.edges[NextOf(s)].to = s[Len(s)].parent, NEW f, NEW w, SumsUp(rct, s, f, w)
  PROVE  SumsUp(rct, Moved(s), f, w)
<1>1. /\ Moved(s) # <<>> /\ s # <<>> /\ Len(Moved(s)) = Len(s)
      /\ \A i \in 1..Len(s) : Moved(s)[i].node = s[i].node
  BY MovedFacts DEF Tree, CallsOK
<1>2. \A i \in 1..Len(s) : DoneAt(rct, Moved(s), i) = DoneAt(rct, s, i)
  BY MovedBack
<1> QED BY <1>1, <1>2 DEF SumsUp, SumsNow

\* A call starts with the sum 0.
LEMMA SumsPushed ==
  ASSUME NEW rct, Tree(rct), NEW s, CallsOK(rct, s), s[Len(s)].todo # {},
         rct.edges[NextOf(s)].to # s[Len(s)].parent,
         NEW f \in [Nodes(rct) -> Int], NEW w, SumsUp(rct, s, f, w),
         NEW g, g = [f EXCEPT ![rct.edges[NextOf(s)].to] = 0]
  PROVE  SumsUp(rct, Pushed(rct, s), g, w)
<1> DEFINE p == Pushed(rct, s)
           k == Len(s)
           e == rct.edges[NextOf(s)]
<1>0. k \in Nat \ {0} /\ s # <<>> /\ NetType(rct)
  BY CallFacts DEF Tree, CallsOK
<1>1. /\ p # <<>> /\ Len(p) = k + 1 /\ p[k + 1].node = e.to
      /\ \A i \in 1..k : p[i].node = s[i].node
  <2>1. /\ CallsOK(rct, p) /\ Len(p) = k + 1 /\ \A i \in 1..k : p[i] = Moved(s)[i]
        /\ p[k + 1] = Frame(rct, e.to, s[k].node)
    BY <1>0, PushedFacts
  <2>2. \A i \in 1..k : Moved(s)[i].node = s[i].node
    BY <1>0, MovedFacts
  <2> QED BY <2>1, <2>2 DEF CallsOK, Frame
<1>2. /\ \A i \in 1..k : DoneAt(rct, p, i) = DoneAt(rct, s, i)
      /\ DoneAt(rct, p, k + 1) = {} /\ e.to \in Nodes(rct)
      /\ \A i \in 1..k : s[i].node # e.to /\ e.to \notin DoneAt(rct, s, i)
  BY PushedDone
<1>3. \A i : i \in 1..(k + 1) <=> i \in 1..k \/ i = k + 1
  BY <1>0
<1>4. g = [f EXCEPT ![e.to] = 0]
  OBVIOUS
<1> HIDE DEF p, e
<1>5. g[e.to] = 0 /\ \A v : v # e.to => g[v] = f[v]
  <2>1. g[e.to] = 0 /\ \A v \in Nodes(rct) : v # e.to => g[v] = f[v]
    BY <1>2, <1>4
  <2>2. \A v : v \notin Nodes(rct) => g[v] = f[v]
    BY <1>4
  <2> QED BY <2>1, <2>2
<1>6. SumsNow(rct, s, f, w)
  BY <1>0 DEF SumsUp
<1>7. SumsNow(rct, p, g, w)
  <2>1. ASSUME NEW i \in 1..(k + 1) PROVE g[p[i].node] = SumFunctionOnSet(w, DoneAt(rct, p, i))
    <3>1. CASE i = k + 1
      BY <1>1, <1>2, <1>5, <3>1, SumOfNothing
    <3>2. CASE i \in 1..k
      BY <1>1, <1>2, <1>5, <1>6, <3>2 DEF SumsNow
    <3> QED BY <1>3, <3>1, <3>2
  <2>2. ASSUME NEW d \in Edges(rct), NEW i \in 1..(k + 1), Down(rct, d), d.to \in DoneAt(rct, p, i)
        PROVE  g[d.to] = SumFunctionOnSet(w, Behind(rct, d))
    <3>1. i \in 1..k /\ d.to \in DoneAt(rct, s, i)
      BY <1>2, <1>3, <2>2
    <3>2. d.to # e.to
      BY <1>2, <3>1
    <3> QED BY <1>5, <1>6, <2>2, <3>1, <3>2 DEF SumsNow
  <2> QED BY <1>1, <2>1, <2>2 DEF SumsNow
<1> QED BY <1>1, <1>7 DEF SumsUp, p

\* A call adds its own part to its sum and the sum to its caller's.
AddedUp(s, f, own) ==
    LET v == s[Len(s)].node
        sum == f[v] + own
        g == [f EXCEPT ![v] = sum]
    IN  IF Len(s) = 1 THEN g ELSE [g EXCEPT ![s[Len(s) - 1].node] = @ + sum]

\* So that g is f with these two sums.
Adds(s, f, own, g) ==
    /\ g[s[Len(s)].node] = f[s[Len(s)].node] + own
    /\ Len(s) # 1 => g[s[Len(s) - 1].node] = f[s[Len(s) - 1].node] + (f[s[Len(s)].node] + own)
    /\ \A v : v # s[Len(s)].node /\ (Len(s) # 1 => v # s[Len(s) - 1].node) => g[v] = f[v]

\* What a return assigns is that.
LEMMA AddedUpIs ==
  ASSUME NEW rct, Tree(rct), NEW s, CallsOK(rct, s), NEW f \in [Nodes(rct) -> Int], NEW own \in Int
  PROVE  AddedUp(s, f, own) \in [Nodes(rct) -> Int] /\ Adds(s, f, own, AddedUp(s, f, own))
<1> DEFINE k == Len(s)
           v == s[k].node
           u == s[k - 1].node
           sum == f[v] + own
           g == [f EXCEPT ![v] = sum]
           h == [g EXCEPT ![u] = @ + sum]
<1>0. k \in Nat \ {0} /\ NetType(rct) /\ k \in 1..k
  BY CallFacts DEF Tree
<1>1. \A i \in 1..k : s[i].node \in Nodes(rct)
  <2>1. \A i \in 1..k : s[i].node \in UnderCall(rct, s, i)
    BY CallsNest
  <2> QED BY <1>0, <2>1, ReachedFacts DEF UnderCall, Under, Behind
<1>2. v \in Nodes(rct) /\ f[v] \in Int /\ sum \in Int
  BY <1>0, <1>1
<1>3. AddedUp(s, f, own) = IF k = 1 THEN g ELSE h
  BY DEF AddedUp
<1>4. k # 1 => u \in Nodes(rct) /\ u # v /\ f[u] \in Int
  <2> SUFFICES ASSUME k # 1 PROVE u \in Nodes(rct) /\ u # v /\ f[u] \in Int
    OBVIOUS
  <2>0. \A m \in Nat \ {0} : m # 1 => m - 1 \in 1..m /\ m - 1 # m
    OBVIOUS
  <2>1. k - 1 \in 1..k /\ k - 1 # k
    BY <1>0, <2>0
  <2>2. u \in Nodes(rct)
    BY <1>1, <2>1
  <2>3. u # v
    BY <1>0, <2>1, CallsDiffer
  <2> QED BY <2>2, <2>3
<1> HIDE DEF v, u, sum
<1>5. g \in [Nodes(rct) -> Int] /\ g[v] = sum /\ \A x : x # v => g[x] = f[x]
  <2>1. g \in [Nodes(rct) -> Int] /\ g[v] = sum /\ \A x \in Nodes(rct) : x # v => g[x] = f[x]
    BY <1>2
  <2>2. \A x : x \notin Nodes(rct) => g[x] = f[x]
    BY <1>2
  <2> QED BY <2>1, <2>2
<1> HIDE DEF g
<1>6. k # 1 => /\ h \in [Nodes(rct) -> Int] /\ h[u] = f[u] + sum /\ h[v] = sum
               /\ \A x : x # u => h[x] = g[x]
  <2> SUFFICES ASSUME k # 1
               PROVE  /\ h \in [Nodes(rct) -> Int] /\ h[u] = f[u] + sum /\ h[v] = sum
                      /\ \A x : x # u => h[x] = g[x]
    OBVIOUS
  <2>1. u \in Nodes(rct) /\ u # v /\ f[u] \in Int /\ g[u] = f[u]
    BY <1>4, <1>5
  <2>2. h \in [Nodes(rct) -> Int] /\ h[u] = f[u] + sum /\ \A x \in Nodes(rct) : x # u => h[x] = g[x]
    BY <1>2, <1>5, <2>1
  <2>3. \A x : x \notin Nodes(rct) => h[x] = g[x]
    BY <1>5, <2>1
  <2> QED BY <1>2, <1>5, <2>1, <2>2, <2>3
<1> HIDE DEF h
<1>7. CASE k = 1
  BY <1>3, <1>5, <1>7 DEF v, sum, Adds
<1>8. CASE k # 1
  BY <1>3, <1>5, <1>6, <1>8 DEF v, u, sum, Adds
<1> QED BY <1>7, <1>8

(***************************************************************************)
(* A return of a pass that sums: the call's sum is complete, and its       *)
(* caller's is that of everything that has returned to it.                 *)
(***************************************************************************)
LEMMA SumsPopped ==
  ASSUME NEW rct, Tree(rct), NEW s, CallsOK(rct, s), s[Len(s)].todo = {},
         NEW f \in [Nodes(rct) -> Int], NEW w \in [Nodes(rct) -> Int], SumsUp(rct, s, f, w),
         NEW g, g = AddedUp(s, f, w[s[Len(s)].node])
  PROVE  SumsUp(rct, Popped(s), g, w)
<1> DEFINE k == Len(s)
           v == s[k].node
           u == s[k - 1].node
           p == Popped(s)
           Sum(T) == SumFunctionOnSet(w, T)
           U == UnderCall(rct, s, k)
           sum == f[v] + w[v]
<1>0. k \in Nat \ {0} /\ s # <<>> /\ NetType(rct) /\ k \in 1..k
  BY CallFacts DEF Tree, CallsOK
<1>1. U = {v} \cup DoneAt(rct, s, k)
  BY PoppedDone
<1>2. \A i \in 1..k : /\ s[i].node \in UnderCall(rct, s, i) /\ UnderCall(rct, s, i) \subseteq Nodes(rct)
                      /\ DoneAt(rct, s, i) \subseteq Nodes(rct) /\ IsFiniteSet(DoneAt(rct, s, i))
                      /\ IsFiniteSet(UnderCall(rct, s, i))
  <2> TAKE i \in 1..k
  <2>1. s[i].node \in UnderCall(rct, s, i) /\ UnderCall(rct, s, i) \in SUBSET Nodes(rct)
    BY <1>0, CallsNest, ReachedFacts DEF UnderCall, Under, Behind
  <2>2. DoneAt(rct, s, i) \in SUBSET Nodes(rct)
    BY <2>1, DoneFacts
  <2> QED BY <1>0, <2>1, <2>2, FS_Subset DEF NetType
<1>3. v \in Nodes(rct) /\ w[v] \in Int /\ f[v] \in Int
  BY <1>0, <1>2
<1>4. SumsNow(rct, s, f, w)
  BY <1>0 DEF SumsUp
<1>5. Sum(U) = sum
  <2>1. f[v] = Sum(DoneAt(rct, s, k))
    BY <1>0, <1>4 DEF SumsNow
  <2>2. v \in Nodes(rct) \ DoneAt(rct, s, k)
    BY <1>0, <1>3, DoneFacts
  <2>3. DoneAt(rct, s, k) \in SUBSET Nodes(rct) /\ IsFiniteSet(DoneAt(rct, s, k))
    BY <1>0, <1>2
  <2>4. Sum(DoneAt(rct, s, k) \cup {v}) = Sum(DoneAt(rct, s, k)) + w[v]
    BY <2>2, <2>3, SumOfOneMore
  <2>5. U = DoneAt(rct, s, k) \cup {v}
    BY <1>1
  <2> QED BY <2>1, <2>4, <2>5
<1>6. /\ g[v] = sum /\ (k # 1 => g[u] = f[u] + sum)
      /\ \A x : x # v /\ (k # 1 => x # u) => g[x] = f[x]
  <2>1. g = AddedUp(s, f, w[v])
    OBVIOUS
  <2> DEFINE own == w[v]
  <2>2. own \in Int
    BY <1>3
  <2> HIDE DEF own
  <2>3. Adds(s, f, own, AddedUp(s, f, own))
    BY <2>2, AddedUpIs
  <2> QED BY <2>1, <2>3 DEF own, Adds
<1> HIDE DEF v, p, Sum, U, sum
<1>7. CASE k = 1
  <2>1. p = <<>>
    BY <1>0, <1>7, PoppedFacts DEF p
  <2>2. v = rct.root /\ U = Reached(rct)
    BY <1>0, <1>7, CallFacts DEF UnderCall, Under, U, v
  <2>3. g[rct.root] = Sum(Reached(rct))
    BY <1>5, <1>6, <2>2
  <2>4. ASSUME NEW e \in Edges(rct), Down(rct, e) PROVE g[e.to] = Sum(Behind(rct, e))
    <3>1. e.to \in Reached(rct) /\ e.to # rct.root
      BY <2>4, DownFacts
    <3>2. e.to \in DoneAt(rct, s, k) /\ e.to # v
      BY <1>1, <2>2, <3>1
    <3> QED BY <1>0, <1>4, <1>6, <1>7, <2>4, <3>2 DEF SumsNow, Sum
  <2>5. Complete(rct, g, w)
    BY <2>3, <2>4 DEF Complete, Sum
  <2> QED BY <2>1, <2>5 DEF SumsUp, p
<1>8. CASE k # 1
  <2>0. k - 1 \in 1..k /\ k - 1 \in 1..(k - 1) /\ (k - 1) + 1 = k /\ (k - 1) + 1 <= k /\ k - 1 # k
    <3> HIDE DEF k
    <3> QED BY <1>0, <1>8
  <2>1. p # <<>> /\ Len(p) = k - 1 /\ \A i \in 1..(k - 1) : p[i] = s[i]
    BY <1>0, <1>8, PoppedFacts DEF p, CallsOK
  <2>2. \A i \in 1..(k - 1) :
            DoneAt(rct, p, i) = IF i = k - 1 THEN DoneAt(rct, s, i) \cup U ELSE DoneAt(rct, s, i)
    BY PoppedDone DEF p, U
  <2>3. \A i, j \in 1..k : s[i].node = s[j].node => i = j
    BY CallsDiffer
  <2>4. \A i, j \in 1..k : s[j].node \notin DoneAt(rct, s, i)
    BY DoneFacts
  <2>5. ASSUME NEW i \in 1..(k - 1) PROVE g[p[i].node] = Sum(DoneAt(rct, p, i))
    <3>1. i \in 1..k /\ i # k /\ p[i] = s[i]
      BY <1>0, <2>1
    <3>2. CASE i # k - 1
      <4>1. s[i].node # v /\ s[i].node # u
        BY <1>0, <2>0, <2>3, <3>1, <3>2 DEF v
      <4> QED BY <1>4, <1>6, <2>2, <3>1, <3>2, <4>1 DEF SumsNow, Sum
    <3>3. CASE i = k - 1
      <4> DEFINE A == DoneAt(rct, s, i)
      <4>1. A \in SUBSET Nodes(rct) /\ IsFiniteSet(A) /\ U \in SUBSET Nodes(rct) /\ IsFiniteSet(U)
        BY <1>0, <1>2, <3>1 DEF U
      <4>2. A \cap U = {}
        BY <2>0, <3>3, DoneFacts DEF U
      <4>3. f[u] = Sum(A) /\ p[i].node = u
        BY <1>4, <3>1, <3>3 DEF SumsNow, Sum
      <4> HIDE DEF A
      <4>4. Sum(A \cup U) = Sum(A) + Sum(U)
        BY <4>1, <4>2, SumOfBoth DEF Sum
      <4>5. g[u] = Sum(A \cup U)
        BY <1>5, <1>6, <1>8, <4>3, <4>4
      <4> QED BY <2>2, <3>3, <4>3, <4>5 DEF A
    <3> QED BY <3>2, <3>3
  <2>6. ASSUME NEW e \in Edges(rct), NEW i \in 1..(k - 1), Down(rct, e), e.to \in DoneAt(rct, p, i)
        PROVE  g[e.to] = Sum(Behind(rct, e))
    <3>1. i \in 1..k
      BY <1>0
    <3>2. \A j \in 1..k : e.to \in DoneAt(rct, s, j) => g[e.to] = Sum(Behind(rct, e))
      <4> TAKE j \in 1..k
      <4>1. e.to \in DoneAt(rct, s, j) => e.to # v /\ e.to # u
        BY <1>0, <2>0, <2>4 DEF v
      <4>2. e.to \in DoneAt(rct, s, j) => f[e.to] = Sum(Behind(rct, e))
        BY <1>4, <2>6 DEF SumsNow, Sum
      <4> QED BY <1>6, <4>1, <4>2
    <3>3. CASE e.to = v
      <4>0. /\ s[(k - 1) + 1].parent = s[k - 1].node
            /\ \E d \in Onward(rct, s[k - 1].node, s[k - 1].parent) : d.to = s[(k - 1) + 1].node
        <5> DEFINE h == k - 1
        <5>1. h \in 1..Len(s) /\ h + 1 <= Len(s)
          BY <2>0
        <5> HIDE DEF h
        <5>2. s[h + 1].parent = s[h].node /\ \E d \in Onward(rct, s[h].node, s[h].parent) : d.to = s[h + 1].node
          BY <1>0, <5>1, CallFacts
        <5> QED BY <5>2 DEF h
      <4>1. PICK d \in Onward(rct, s[k - 1].node, s[k - 1].parent) : d.to = s[(k - 1) + 1].node
        BY <4>0
      <4>2. s[(k - 1) + 1].parent = s[k - 1].node
        BY <4>0
      <4>3. d.to = v /\ s[k].parent = d.fr /\ d \in Edges(rct)
        BY <2>0, <4>1, <4>2 DEF v, Onward
      <4>4. Down(rct, d)
        BY <2>0, <4>1, CallsAreCallable, OnwardFacts
      <4>5. d = e
        BY <2>6, <3>3, <4>3, <4>4, OneWayIn
      <4>6. U = Behind(rct, e)
        BY <1>0, <4>3, <4>5, UnderBehind DEF U, UnderCall, v
      <4> QED BY <1>5, <1>6, <3>3, <4>6
    <3>4. e.to \in DoneAt(rct, s, i) \/ e.to = v \/ e.to \in DoneAt(rct, s, k)
      BY <1>1, <2>2, <2>6
    <3> QED BY <1>0, <3>1, <3>2, <3>3, <3>4
  <2>7. SumsNow(rct, p, g, w)
    BY <2>1, <2>5, <2>6 DEF SumsNow, Sum
  <2> QED BY <2>1, <2>7 DEF SumsUp, p
<1> QED BY <1>7, <1>8

\* Where the way down has come, the times are moments.
MomentsSeen(rct, s, d, w) == \A v \in Seen(rct, s) : d[v] = Moment(rct, v, w)

\* On the way down the root has the time 0.
LEMMA MomentsFirst ==
  ASSUME NEW rct, Tree(rct), NEW w \in [Nodes(rct) -> Int], NEW d, \A v \in Nodes(rct) : d[v] = 0
  PROVE  MomentsSeen(rct, First(rct), d, w)
<1> SUFFICES ASSUME NEW v \in Seen(rct, First(rct)) PROVE d[v] = Moment(rct, v, w)
  BY DEF MomentsSeen
<1>1. v \in Nodes(rct) /\ (v = rct.root \/ v \notin Reached(rct))
  BY SeenFirst DEF Tree, NetType
<1> QED BY <1>1, MomentOfRoot

\* A call is given its caller's moment and its edge's share.
LEMMA MomentsPushed ==
  ASSUME NEW rct, Tree(rct), NEW s, CallsOK(rct, s), s[Len(s)].todo # {},
         NEW e, e = rct.edges[NextOf(s)], e.to # s[Len(s)].parent,
         NEW w \in [Nodes(rct) -> Int], NEW d \in [Nodes(rct) -> Int], NEW l,
         MomentsSeen(rct, s, d, w), Complete(rct, l, w),
         NEW g, g = [d EXCEPT ![e.to] = d[e.fr] + e.res * l[e.to]]
  PROVE  MomentsSeen(rct, Pushed(rct, s), g, w)
<1>1. Seen(rct, Pushed(rct, s)) = Seen(rct, s) \cup {e.to}
  BY SeenPushed
<1>2. Down(rct, e) /\ e.fr = s[Len(s)].node /\ e.to \in Nodes(rct) /\ e \in Edges(rct)
  BY PushedDone DEF Down
<1>3. e.fr \in Seen(rct, s)
  <2>1. Len(s) \in 1..Len(s) /\ s # <<>>
    BY CallFacts DEF Tree, CallsOK
  <2> QED BY <1>2, <2>1, SeenIs
<1>4. d[e.fr] = Moment(rct, e.fr, w)
  BY <1>3 DEF MomentsSeen
<1>5. l[e.to] = SumFunctionOnSet(w, Behind(rct, e))
  BY <1>2 DEF Complete
<1>6. g[e.to] = Moment(rct, e.to, w)
  <2>1. g[e.to] = d[e.fr] + e.res * l[e.to]
    BY <1>2
  <2>2. Moment(rct, e.to, w) = Moment(rct, e.fr, w) + e.res * SumFunctionOnSet(w, Behind(rct, e))
    BY <1>2, MomentGrows
  <2> QED BY <1>4, <1>5, <2>1, <2>2
<1>7. \A v : v # e.to => g[v] = d[v]
  <2>1. \A v \in Nodes(rct) : v # e.to => g[v] = d[v]
    BY <1>2
  <2>2. \A v : v \notin Nodes(rct) => g[v] = d[v]
    BY <1>2
  <2> QED BY <2>1, <2>2
<1> QED BY <1>1, <1>6, <1>7 DEF MomentsSeen

-----------------------------------------------------------------------------
(* The figures in the passes                                               *)

\* As the constructor leaves a figure.
Zeros(rct, h) == \A v \in Nodes(rct) : h[v] = 0

\* What a node stores, times the time it takes.
Charge(rct, d) == [v \in Nodes(rct) |-> rct.ncap[v] * d[v]]

\* The response is computed of these nodes.
Responses(rct, s, d, im, b) == \A v \in Seen(rct, s) : im[v] = 2 * b[v] - d[v] * d[v]

\* A net that waits has these figures.
Idle(rct, d, b, im) == Zeros(rct, d) /\ Zeros(rct, b) /\ Zeros(rct, im)

\* The figures of a net are the moments of its network.
Figured(rct, l, d, b, im) ==
    /\ l[rct.root] = SumFunctionOnSet(rct.ncap, Reached(rct))
    /\ \A v \in Nodes(rct) :
        /\ d[v] = Moment(rct, v, rct.ncap)
        /\ b[v] = Moment(rct, v, Charge(rct, d))
        /\ im[v] = 2 * b[v] - d[v] * d[v]

\* How far the figures of the net are, in each of the passes.
Progress(rct, s, p, l, d, ld, b, im) ==
    /\ p = 1 => SumsUp(rct, s, l, rct.ncap) /\ Zeros(rct, d)
    /\ p > 1 => Complete(rct, l, rct.ncap)
    /\ p = 2 => MomentsSeen(rct, s, d, rct.ncap)
    /\ p > 2 => MomentsSeen(rct, <<>>, d, rct.ncap)
    /\ p = 3 => SumsUp(rct, s, ld, Charge(rct, d))
    /\ p > 3 => Complete(rct, ld, Charge(rct, d))
    /\ p <= 3 => Zeros(rct, b) /\ Zeros(rct, im)
    /\ p = 4 => MomentsSeen(rct, s, b, Charge(rct, d)) /\ Responses(rct, s, d, im, b)

-----------------------------------------------------------------------------
(* What the steps do to the figures of a tree                              *)

\* Both are integers at each node.
LEMMA ChargeType ==
  ASSUME NEW rct, Tree(rct), NEW d \in [Nodes(rct) -> Int]
  PROVE  Charge(rct, d) \in [Nodes(rct) -> Int] /\ rct.ncap \in [Nodes(rct) -> Int]
<1>1. rct.ncap \in [Nodes(rct) -> Int]
  BY DEF Tree, NetType
<1>2. \A v \in Nodes(rct) : rct.ncap[v] * d[v] \in Int
  BY <1>1
<1> QED BY <1>1, <1>2 DEF Charge

\* A net's figures are as described when its first pass starts.
LEMMA ProgressFirst ==
  ASSUME NEW rct, Tree(rct), NEW l \in [Nodes(rct) -> Int], NEW d, NEW ld, NEW b, NEW im,
         Zeros(rct, d), Zeros(rct, b), Zeros(rct, im), NEW l2, l2 = [l EXCEPT ![rct.root] = 0]
  PROVE  Progress(rct, First(rct), 1, l2, d, ld, b, im)
<1>1. l2[rct.root] = 0
  BY DEF Tree, NetType
<1>2. SumsUp(rct, First(rct), l2, rct.ncap)
  BY <1>1, SumsFirst
<1> QED BY <1>2 DEF Progress

\* So they are when the next pass starts: the delays.
LEMMA ProgressSecond ==
  ASSUME NEW rct, Tree(rct), NEW l, NEW d, NEW ld, NEW b, NEW im, Progress(rct, <<>>, 1, l, d, ld, b, im)
  PROVE  Progress(rct, First(rct), 2, l, d, ld, b, im)
<1>1. Complete(rct, l, rct.ncap) /\ Zeros(rct, d) /\ Zeros(rct, b) /\ Zeros(rct, im)
  BY DEF Progress, SumsUp
<1>2. MomentsSeen(rct, First(rct), d, rct.ncap)
  BY <1>1, MomentsFirst DEF Zeros, Tree, NetType
<1> QED BY <1>1, <1>2 DEF Progress

\* The sums of delayed loads.
LEMMA ProgressThird ==
  ASSUME NEW rct, Tree(rct), NEW l, NEW d, NEW ld \in [Nodes(rct) -> Int], NEW b, NEW im,
         Progress(rct, <<>>, 2, l, d, ld, b, im), NEW ld2, ld2 = [ld EXCEPT ![rct.root] = 0]
  PROVE  Progress(rct, First(rct), 3, l, d, ld2, b, im)
<1>1. /\ Complete(rct, l, rct.ncap) /\ MomentsSeen(rct, <<>>, d, rct.ncap)
      /\ Zeros(rct, b) /\ Zeros(rct, im)
  BY DEF Progress
<1>2. ld2[rct.root] = 0
  BY DEF Tree, NetType
<1>3. SumsUp(rct, First(rct), ld2, Charge(rct, d))
  BY <1>2, SumsFirst
<1> QED BY <1>1, <1>3 DEF Progress

\* The response.
LEMMA ProgressFourth ==
  ASSUME NEW rct, Tree(rct), NEW l, NEW d \in [Nodes(rct) -> Int], NEW ld, NEW b, NEW im,
         Progress(rct, <<>>, 3, l, d, ld, b, im)
  PROVE  Progress(rct, First(rct), 4, l, d, ld, b, im)
<1>1. /\ Complete(rct, l, rct.ncap) /\ MomentsSeen(rct, <<>>, d, rct.ncap)
      /\ Complete(rct, ld, Charge(rct, d)) /\ Zeros(rct, b) /\ Zeros(rct, im)
  BY DEF Progress, SumsUp
<1>2. MomentsSeen(rct, First(rct), b, Charge(rct, d))
  BY <1>1, ChargeType, MomentsFirst DEF Zeros
<1>3. Responses(rct, First(rct), d, im, b)
  <2> SUFFICES ASSUME NEW v \in Seen(rct, First(rct)) PROVE im[v] = 2 * b[v] - d[v] * d[v]
    BY DEF Responses
  <2>1. v \in Nodes(rct) /\ (v = rct.root \/ v \notin Reached(rct))
    BY SeenFirst DEF Tree, NetType
  <2>2. d[v] = Moment(rct, v, rct.ncap)
    BY <1>1, <2>1 DEF MomentsSeen, Seen
  <2>3. d[v] = 0
    BY <2>1, <2>2, ChargeType, MomentOfRoot
  <2>4. im[v] = 0 /\ b[v] = 0
    BY <1>1, <2>1 DEF Zeros
  <2> QED BY <2>3, <2>4
<1> QED BY <1>1, <1>2, <1>3 DEF Progress

\* Within a pass they stay so when the way back is skipped.
LEMMA ProgressMoved ==
  ASSUME NEW rct, Tree(rct), NEW s, CallsOK(rct, s), s[Len(s)].todo # {},
         rct.edges[NextOf(s)].to = s[Len(s)].parent,
         NEW p, NEW l, NEW d, NEW ld, NEW b, NEW im, Progress(rct, s, p, l, d, ld, b, im)
  PROVE  Progress(rct, Moved(s), p, l, d, ld, b, im)
<1>1. Seen(rct, Moved(s)) = Seen(rct, s)
  BY SeenMoved
<1>2. \A f, w : SumsUp(rct, s, f, w) => SumsUp(rct, Moved(s), f, w)
  BY SumsMoved
<1>3. /\ \A f, w : MomentsSeen(rct, s, f, w) => MomentsSeen(rct, Moved(s), f, w)
      /\ Responses(rct, s, d, im, b) => Responses(rct, Moved(s), d, im, b)
  BY <1>1 DEF MomentsSeen, Responses
<1> QED BY <1>2, <1>3 DEF Progress

\* When a call returns.
LEMMA ProgressPopped ==
  ASSUME NEW rct, Tree(rct), NEW s, CallsOK(rct, s), s[Len(s)].todo = {}, NEW p \in 1..4,
         NEW l \in [Nodes(rct) -> Int], NEW d \in [Nodes(rct) -> Int], NEW ld \in [Nodes(rct) -> Int],
         NEW b, NEW im, Progress(rct, s, p, l, d, ld, b, im),
         NEW l2, l2 = IF p = 1 THEN AddedUp(s, l, rct.ncap[s[Len(s)].node]) ELSE l,
         NEW ld2, ld2 = IF p = 3 THEN AddedUp(s, ld, rct.ncap[s[Len(s)].node] * d[s[Len(s)].node]) ELSE ld
  PROVE  Progress(rct, Popped(s), p, l2, d, ld2, b, im)
<1>1. Seen(rct, Popped(s)) = Seen(rct, s)
  BY SeenPopped
<1>2. /\ \A f, w : MomentsSeen(rct, s, f, w) => MomentsSeen(rct, Popped(s), f, w)
      /\ Responses(rct, s, d, im, b) => Responses(rct, Popped(s), d, im, b)
  BY <1>1 DEF MomentsSeen, Responses
<1>3. CASE p = 1
  <2>1. SumsUp(rct, s, l, rct.ncap)
    BY <1>3 DEF Progress
  <2>2. SumsUp(rct, Popped(s), l2, rct.ncap)
    BY <1>3, <2>1, ChargeType, SumsPopped
  <2>3. ld2 = ld
    BY <1>3
  <2> QED BY <1>3, <2>2, <2>3 DEF Progress
<1>4. CASE p = 3
  <2> DEFINE w == Charge(rct, d)
  <2>1. SumsUp(rct, s, ld, w) /\ w \in [Nodes(rct) -> Int]
    BY <1>4, ChargeType DEF Progress
  <2>2. s[Len(s)].node \in Nodes(rct)
    <3>1. Len(s) \in 1..Len(s) /\ NetType(rct)
      BY CallFacts DEF Tree
    <3>2. s[Len(s)].node \in UnderCall(rct, s, Len(s))
      BY <3>1, CallsNest
    <3> QED BY <3>1, <3>2, ReachedFacts DEF UnderCall, Under, Behind
  <2>3. w[s[Len(s)].node] = rct.ncap[s[Len(s)].node] * d[s[Len(s)].node]
    BY <2>2 DEF Charge
  <2> HIDE DEF w
  <2>4. ld2 = AddedUp(s, ld, w[s[Len(s)].node]) /\ l2 = l
    BY <1>4, <2>3
  <2>5. SumsUp(rct, Popped(s), ld2, w)
    BY <2>1, <2>4, SumsPopped
  <2> QED BY <1>2, <1>4, <2>4, <2>5 DEF Progress, w
<1>5. CASE p \in {2, 4}
  <2>1. l2 = l /\ ld2 = ld
    BY <1>5
  <2> QED BY <1>2, <1>5, <2>1 DEF Progress
<1> QED BY <1>3, <1>4, <1>5

\* The figures h of a net, once f has been assigned c at node v if it is pass n.
Onto(h, f, v, c, p, n) == h = IF p = n THEN [f EXCEPT ![v] = c] ELSE f

\* The passes.
LEMMA FourPasses == \A p \in 1..4 : p = 1 \/ p = 2 \/ p = 3 \/ p = 4
OBVIOUS

\* What progress in the last pass is.
LEMMA ProgressInFourth ==
  ASSUME NEW rct, NEW s, NEW l, NEW d, NEW ld, NEW b, NEW im,
         Complete(rct, l, rct.ncap), MomentsSeen(rct, <<>>, d, rct.ncap), Complete(rct, ld, Charge(rct, d)),
         MomentsSeen(rct, s, b, Charge(rct, d)), Responses(rct, s, d, im, b)
  PROVE  Progress(rct, s, 4, l, d, ld, b, im)
BY DEF Progress

\* When a call is made.
LEMMA ProgressPushed ==
  ASSUME NEW rct, Tree(rct), NEW s, CallsOK(rct, s), s[Len(s)].todo # {},
         NEW e, e = rct.edges[NextOf(s)], e.to # s[Len(s)].parent, NEW p \in 1..4,
         NEW l \in [Nodes(rct) -> Int], NEW d \in [Nodes(rct) -> Int], NEW ld \in [Nodes(rct) -> Int],
         NEW b \in [Nodes(rct) -> Int], NEW im \in [Nodes(rct) -> Int], Progress(rct, s, p, l, d, ld, b, im),
         NEW l2, Onto(l2, l, e.to, 0, p, 1),
         NEW d2, Onto(d2, d, e.to, d[e.fr] + e.res * l[e.to], p, 2),
         NEW ld2, Onto(ld2, ld, e.to, 0, p, 3),
         NEW b2, Onto(b2, b, e.to, b[e.fr] + e.res * ld[e.to], p, 4),
         NEW im2, Onto(im2, im, e.to, 2 * (b[e.fr] + e.res * ld[e.to]) - d[e.to] * d[e.to], p, 4)
  PROVE  Progress(rct, Pushed(rct, s), p, l2, d2, ld2, b2, im2)
<1> USE DEF Onto
<1>1. CASE p = 1
  <2>1. SumsUp(rct, s, l, rct.ncap)
    BY <1>1 DEF Progress
  <2>2. SumsUp(rct, Pushed(rct, s), l2, rct.ncap)
    BY <1>1, <2>1, SumsPushed
  <2>3. d2 = d /\ ld2 = ld /\ b2 = b /\ im2 = im
    BY <1>1
  <2> QED BY <1>1, <2>2, <2>3 DEF Progress
<1>2. CASE p = 2
  <2>1. Complete(rct, l, rct.ncap) /\ MomentsSeen(rct, s, d, rct.ncap) /\ rct.ncap \in [Nodes(rct) -> Int]
    <3>1. Complete(rct, l, rct.ncap) /\ MomentsSeen(rct, s, d, rct.ncap)
      BY <1>2 DEF Progress
    <3>2. rct.ncap \in [Nodes(rct) -> Int]
      BY ChargeType
    <3> QED BY <3>1, <3>2
  <2>2. MomentsSeen(rct, Pushed(rct, s), d2, rct.ncap)
    BY <1>2, <2>1, MomentsPushed
  <2>3. l2 = l /\ ld2 = ld /\ b2 = b /\ im2 = im
    BY <1>2
  <2> QED BY <1>2, <2>1, <2>2, <2>3 DEF Progress
<1>3. CASE p = 3
  <2>1. SumsUp(rct, s, ld, Charge(rct, d))
    BY <1>3 DEF Progress
  <2>2. SumsUp(rct, Pushed(rct, s), ld2, Charge(rct, d))
    BY <1>3, <2>1, SumsPushed
  <2>3. l2 = l /\ d2 = d /\ b2 = b /\ im2 = im
    BY <1>3
  <2> QED BY <1>3, <2>2, <2>3 DEF Progress
<1>4. CASE p = 4
  <2> DEFINE w == Charge(rct, d)
  <2>1. Complete(rct, ld, w) /\ MomentsSeen(rct, s, b, w) /\ w \in [Nodes(rct) -> Int]
    <3>1. Complete(rct, ld, w) /\ MomentsSeen(rct, s, b, w)
      BY <1>4 DEF Progress
    <3>2. w \in [Nodes(rct) -> Int]
      BY ChargeType
    <3> QED BY <3>1, <3>2
  <2> HIDE DEF w
  <2>2. MomentsSeen(rct, Pushed(rct, s), b2, w)
    BY <1>4, <2>1, MomentsPushed
  <2>3. l2 = l /\ d2 = d /\ ld2 = ld
    BY <1>4
  <2>4. Responses(rct, Pushed(rct, s), d, im2, b2)
    <3>1. Seen(rct, Pushed(rct, s)) = Seen(rct, s) \cup {e.to}
      BY SeenPushed
    <3>2. e.to \in Nodes(rct)
      BY PushedDone
    <3>3. b2[e.to] = b[e.fr] + e.res * ld[e.to] /\ \A v : v # e.to => b2[v] = b[v]
      <4>1. b2[e.to] = b[e.fr] + e.res * ld[e.to] /\ \A v \in Nodes(rct) : v # e.to => b2[v] = b[v]
        BY <1>4, <3>2
      <4>2. \A v : v \notin Nodes(rct) => b2[v] = b[v]
        BY <1>4, <3>2
      <4> QED BY <4>1, <4>2
    <3>4. im2[e.to] = 2 * b2[e.to] - d[e.to] * d[e.to] /\ \A v : v # e.to => im2[v] = im[v]
      <4>1. /\ im2[e.to] = 2 * (b[e.fr] + e.res * ld[e.to]) - d[e.to] * d[e.to]
            /\ \A v \in Nodes(rct) : v # e.to => im2[v] = im[v]
        BY <1>4, <3>2
      <4>2. \A v : v \notin Nodes(rct) => im2[v] = im[v]
        BY <1>4, <3>2
      <4> QED BY <3>3, <4>1, <4>2
    <3>5. \A v \in Seen(rct, s) : im[v] = 2 * b[v] - d[v] * d[v]
      BY <1>4 DEF Progress, Responses
    <3> QED BY <3>1, <3>3, <3>4, <3>5 DEF Responses
  <2>5. Complete(rct, l, rct.ncap) /\ MomentsSeen(rct, <<>>, d, rct.ncap)
    BY <1>4 DEF Progress
  <2> HIDE DEF Onto
  <2>6. /\ Complete(rct, l2, rct.ncap) /\ MomentsSeen(rct, <<>>, d2, rct.ncap) /\ Complete(rct, ld2, Charge(rct, d2))
        /\ MomentsSeen(rct, Pushed(rct, s), b2, Charge(rct, d2)) /\ Responses(rct, Pushed(rct, s), d2, im2, b2)
    BY <2>1, <2>2, <2>3, <2>4, <2>5 DEF w
  <2>7. Progress(rct, Pushed(rct, s), 4, l2, d2, ld2, b2, im2)
    BY <2>6, ProgressInFourth
  <2> QED BY <1>4, <2>7
<1> HIDE DEF Onto
<1>5. p = 1 \/ p = 2 \/ p = 3 \/ p = 4
  BY FourPasses
<1> QED BY <1>1, <1>2, <1>3, <1>4, <1>5

\* After the last pass the figures are the moments.
LEMMA ProgressDone ==
  ASSUME NEW rct, Tree(rct), NEW l, NEW d, NEW ld, NEW b, NEW im, Progress(rct, <<>>, 4, l, d, ld, b, im)
  PROVE  Figured(rct, l, d, b, im)
<1>1. /\ Complete(rct, l, rct.ncap) /\ MomentsSeen(rct, <<>>, d, rct.ncap)
      /\ MomentsSeen(rct, <<>>, b, Charge(rct, d)) /\ Responses(rct, <<>>, d, im, b)
  BY DEF Progress
<1>2. Seen(rct, <<>>) = Nodes(rct)
  BY DEF Seen
<1> QED BY <1>1, <1>2 DEF Complete, MomentsSeen, Responses, Figured

\* Which is what the property says of a net.
LEMMA FiguredIs ==
  ASSUME NEW x
  PROVE  HasMoments(x) <=> Figured(rctrees[x], load[x], delay[x], beta[x], impulse[x])
BY DEF HasMoments, Figured, Charge

-----------------------------------------------------------------------------
(* The invariant                                                           *)

\* A figure of all nets.
FigureType(trees, f) ==
    /\ f = [x \in DOMAIN trees |-> f[x]]
    /\ \A x \in DOMAIN trees : f[x] \in [Nodes(trees[x]) -> Int]

\* The variables agree on what is being done.
Shape ==
    /\ file \in Files
    /\ DOMAIN rctrees \subseteq NetName
    /\ phase = "read" => waiting = {} /\ net = NoNet
    /\ phase = "done" => waiting = {} /\ net = NoNet
    /\ net = NoNet => pass = 0 /\ stack = <<>>
    /\ net # NoNet => pass \in 1..4 /\ net \notin waiting
    /\ phase # "read" => /\ FigureType(rctrees, load) /\ FigureType(rctrees, delay)
                         /\ FigureType(rctrees, ldelay)
                         /\ FigureType(rctrees, beta) /\ FigureType(rctrees, impulse)

\* The net being computed is so far.
Working ==
    net # NoNet /\ IsTree(Rct) =>
        Progress(Rct, stack, pass, load[net], delay[net], ldelay[net], beta[net], impulse[net])

\* The others have not been begun or are complete.
Other(x) ==
    IF x \in waiting THEN Idle(rctrees[x], delay[x], beta[x], impulse[x])
    ELSE IsTree(rctrees[x]) => Figured(rctrees[x], load[x], delay[x], beta[x], impulse[x])

\* So are they all.
Others == phase # "read" => \A x \in DOMAIN rctrees \ {net} : Other(x)

\* The stack is exhausted by a circle or a deep tree.
Exhausted == phase = "crashed" => ~IsTree(Rct) \/ Cardinality(Reached(Rct)) > MaxDepth

\* The inductive invariant.
RcTreeInv == TypeOK /\ Shape /\ Working /\ Others /\ Exhausted

\* What the invariant says of the net being computed.
LEMMA InvFacts ==
  ASSUME RcTreeInv, net # NoNet
  PROVE  /\ net \in DOMAIN rctrees /\ net \notin waiting /\ phase # "read" /\ NetType(Rct) /\ pass \in 1..4
         /\ stack = <<>> \/ CallsOK(Rct, stack)
         /\ Len(stack) <= MaxDepth
         /\ FigureType(rctrees, load) /\ FigureType(rctrees, delay) /\ FigureType(rctrees, ldelay)
         /\ FigureType(rctrees, beta) /\ FigureType(rctrees, impulse)
<1>1. net \in DOMAIN rctrees /\ net \notin waiting /\ phase # "read" /\ pass \in 1..4
  BY DEF RcTreeInv, TypeOK, Shape
<1>2. NetType(Rct)
  BY <1>1 DEF RcTreeInv, TypeOK, Rct
<1>3. stack = <<>> \/ CallsOK(Rct, stack)
  BY DEF RcTreeInv, TypeOK, CallsOK, FrameType
<1>4. Len(stack) <= MaxDepth
  BY DEF RcTreeInv, TypeOK
<1> QED BY <1>1, <1>2, <1>3, <1>4 DEF RcTreeInv, Shape

\* While a net is computed.
LEMMA Computing ==
  ASSUME RcTreeInv, phase = "update", UNCHANGED <<file, phase, pos, rctrees>>,
         net' \in DOMAIN rctrees, net' \notin waiting', pass' \in 1..4, waiting' \subseteq waiting,
         stack' = <<>> \/ CallsOK(rctrees[net'], stack'), Len(stack') <= MaxDepth,
         FigureType(rctrees, load'), FigureType(rctrees, delay'), FigureType(rctrees, ldelay'),
         FigureType(rctrees, beta'), FigureType(rctrees, impulse'),
         \A x \in DOMAIN rctrees \ {net'} : Other(x)',
         IsTree(rctrees[net']) => Progress(rctrees[net'], stack', pass', load'[net'], delay'[net'],
                                           ldelay'[net'], beta'[net'], impulse'[net'])
  PROVE  RcTreeInv'
<1>1. net' # NoNet
  BY RcTreeAssumption DEF RcTreeInv, Shape
<1>2. TypeOK'
  <2>1. \A x \in DOMAIN rctrees :
          /\ NetType(rctrees[x])
          /\ \A f \in {load', delay', ldelay', beta', impulse'} : f[x] \in [Nodes(rctrees[x]) -> Int]
    BY DEF RcTreeInv, TypeOK, FigureType
  <2>2. stack' \in Seq(FrameType) /\ (stack' # <<>> => CallsType(rctrees[net'], stack'))
    <3>1. <<>> \in Seq(FrameType)
      OBVIOUS
    <3> QED BY <3>1 DEF CallsOK
  <2>3. pass' \in 0..Len(Passes)
    BY DEF Passes
  <2>4. /\ phase' \in {"read", "update", "done", "crashed"} /\ pos' \in Nat \ {0}
        /\ waiting' \subseteq DOMAIN rctrees'
    BY DEF RcTreeInv, TypeOK
  <2> QED BY <2>1, <2>2, <2>3, <2>4 DEF TypeOK, FrameType, Rct
<1>3. Shape'
  BY <1>1 DEF RcTreeInv, Shape
<1>4. Working'
  BY DEF Working, Rct
<1>5. Others'
  BY DEF Others
<1>6. Exhausted'
  BY DEF Exhausted
<1> QED BY <1>2, <1>3, <1>4, <1>5, <1>6 DEF RcTreeInv

\* Within a pass, the figures of the others stay.
LEMMA OthersStay ==
  ASSUME RcTreeInv, phase = "update", UNCHANGED <<waiting, rctrees>>, NEW x \in DOMAIN rctrees \ {net},
         load'[x] = load[x], delay'[x] = delay[x], beta'[x] = beta[x], impulse'[x] = impulse[x]
  PROVE  Other(x)'
BY DEF RcTreeInv, Others, Other

\* The figure f becomes g by an assignment to that of node v of net x, in pass n.
Becomes(trees, f, g, x, v, c, p, n) ==
    /\ FigureType(trees, g)
    /\ g[x] = IF p = n THEN [f[x] EXCEPT ![v] = c] ELSE f[x]
    /\ \A y \in DOMAIN trees \ {x} : g[y] = f[y]

\* An assignment does that.
LEMMA FigureSet ==
  ASSUME NEW trees, NEW f, FigureType(trees, f), NEW x \in DOMAIN trees, NEW v \in Nodes(trees[x]), NEW c \in Int,
         NEW p, NEW n, NEW g, g = IF p = n THEN [f EXCEPT ![x][v] = c] ELSE f
  PROVE  Becomes(trees, f, g, x, v, c, p, n)
<1>0. CASE p # n
  BY <1>0 DEF Becomes
<1> SUFFICES ASSUME p = n PROVE Becomes(trees, f, g, x, v, c, p, n)
  BY <1>0
<1>1. DOMAIN f = DOMAIN trees /\ f[x] \in [Nodes(trees[x]) -> Int]
  BY DEF FigureType
<1>2. g = [f EXCEPT ![x] = [f[x] EXCEPT ![v] = c]]
  BY <1>1
<1> DEFINE h == [f[x] EXCEPT ![v] = c]
<1>3. h \in [Nodes(trees[x]) -> Int]
  BY <1>1
<1> HIDE DEF h
<1>4. g = [f EXCEPT ![x] = h]
  BY <1>2 DEF h
<1>5. g = [y \in DOMAIN trees |-> g[y]] /\ g[x] = h /\ \A y \in DOMAIN trees \ {x} : g[y] = f[y]
  BY <1>1, <1>4
<1>6. \A y \in DOMAIN trees : g[y] \in [Nodes(trees[y]) -> Int]
  BY <1>3, <1>5 DEF FigureType
<1> QED BY <1>5, <1>6 DEF FigureType, h, Becomes

\* The calls are of nodes of the net.
LEMMA CallNodes ==
  ASSUME NEW rct, NetType(rct), NEW s, CallsOK(rct, s), NEW i \in 1..Len(s)
  PROVE  s[i].node \in Nodes(rct)
<1>1. Len(s) \in Nat \ {0} /\ s[1].node = rct.root /\ rct.root \in Nodes(rct)
  BY CallFacts DEF NetType
<1>2. CASE i = 1
  BY <1>1, <1>2
<1>3. CASE i # 1
  <2> DEFINE k == i - 1
  <2>1. k \in 1..Len(s) /\ k + 1 <= Len(s) /\ k + 1 = i
    BY <1>1, <1>3
  <2> HIDE DEF k
  <2>2. \E e \in Onward(rct, s[k].node, s[k].parent) : e.to = s[k + 1].node
    BY <2>1, CallFacts
  <2> QED BY <2>1, <2>2, EdgeTypes DEF Onward
<1> QED BY <1>2, <1>3

\* The passes by their names.
LEMMA RunningIs ==
  ASSUME pass \in 1..4
  PROVE  /\ Running = "load" <=> pass = 1
         /\ Running = "delay" <=> pass = 2
         /\ Running = "ldelay" <=> pass = 3
         /\ Running = "response" <=> pass = 4
BY DEF Running, Passes

\* One lemma for each action: skipping the way back.
LEMMA SkipParentStep ==
  ASSUME RcTreeInv, SkipParent
  PROVE  RcTreeInv'
<1>1. /\ phase = "update" /\ stack # <<>> /\ Top.todo # {} /\ Edge.to = Top.parent /\ stack' = Advanced
      /\ UNCHANGED <<file, phase, pos, rctrees, waiting, net, pass, load, delay, ldelay, beta, impulse>>
  BY DEF SkipParent, Following, Back, figures
<1>2. net # NoNet
  BY <1>1 DEF RcTreeInv, Shape
<1>3. /\ net \in DOMAIN rctrees /\ net \notin waiting /\ NetType(Rct) /\ pass \in 1..4 /\ CallsOK(Rct, stack)
      /\ Len(stack) <= MaxDepth
      /\ FigureType(rctrees, load) /\ FigureType(rctrees, delay) /\ FigureType(rctrees, ldelay)
      /\ FigureType(rctrees, beta) /\ FigureType(rctrees, impulse)
  BY <1>1, <1>2, InvFacts
<1>4. stack' = Moved(stack)
  BY <1>1 DEF Advanced, Moved
<1>5. stack[Len(stack)].todo # {} /\ Rct.edges[NextOf(stack)].to = stack[Len(stack)].parent
  BY <1>1 DEF Top, Edge, NextOf
<1>6. CallsOK(Rct, stack') /\ Len(stack') = Len(stack)
  BY <1>3, <1>4, <1>5, MovedFacts
<1>7. ASSUME IsTree(Rct)
      PROVE  Progress(Rct, stack', pass, load[net], delay[net], ldelay[net], beta[net], impulse[net])
  <2>1. Progress(Rct, stack, pass, load[net], delay[net], ldelay[net], beta[net], impulse[net])
    BY <1>2, <1>7 DEF RcTreeInv, Working
  <2>2. Tree(Rct)
    BY <1>3, <1>7 DEF Tree
  <2> QED BY <1>3, <1>4, <1>5, <2>1, <2>2, ProgressMoved
<1>8. \A x \in DOMAIN rctrees \ {net} : Other(x)'
  BY <1>1, OthersStay
<1> QED BY <1>1, <1>3, <1>6, <1>7, <1>8, Computing DEF Rct

\* A call along an edge, with what is assigned before it and on its entry.
LEMMA DescendStep ==
  ASSUME RcTreeInv, Descend
  PROVE  RcTreeInv'
<1> DEFINE e == Edge
           N == Nodes(Rct)
<1>1. /\ phase = "update" /\ stack # <<>> /\ Top.todo # {} /\ e.to # Top.parent
      /\ Len(stack) < MaxDepth /\ stack' = Append(Advanced, Frame(Rct, e.to, Top.node)) /\ Assigned(e)
      /\ UNCHANGED <<file, phase, pos, rctrees, waiting, net, pass>>
  BY DEF Descend, Following, Back
<1>2. net # NoNet
  BY <1>1 DEF RcTreeInv, Shape
<1>3. /\ net \in DOMAIN rctrees /\ net \notin waiting /\ NetType(Rct) /\ pass \in 1..4 /\ CallsOK(Rct, stack)
      /\ FigureType(rctrees, load) /\ FigureType(rctrees, delay) /\ FigureType(rctrees, ldelay)
      /\ FigureType(rctrees, beta) /\ FigureType(rctrees, impulse)
  BY <1>1, <1>2, InvFacts
<1>4. e = Rct.edges[NextOf(stack)] /\ stack[Len(stack)].todo # {} /\ e.to # stack[Len(stack)].parent
  BY <1>1 DEF Top, Edge, NextOf
<1>5. stack' = Pushed(Rct, stack)
  BY <1>1, <1>4 DEF Advanced, Moved, Pushed, Top
<1>6. CallsOK(Rct, stack') /\ Len(stack') = Len(stack) + 1
  BY <1>3, <1>4, <1>5, PushedFacts
<1>7. Len(stack') <= MaxDepth
  BY <1>1, <1>3, <1>6, CallFacts, RcTreeAssumption
<1>8. e.fr \in N /\ e.to \in N /\ e.res \in Int
  BY <1>3, <1>4, EdgeTypes, MovedFacts DEF Fanout
<1>9. load[net] \in [N -> Int] /\ delay[net] \in [N -> Int] /\ ldelay[net] \in [N -> Int]
      /\ beta[net] \in [N -> Int] /\ impulse[net] \in [N -> Int]
  BY <1>3 DEF FigureType, Rct
<1> DEFINE cd == delay[net][e.fr] + e.res * load[net][e.to]
           cb == beta[net][e.fr] + e.res * ldelay[net][e.to]
           ci == 2 * cb - delay[net][e.to] * delay[net][e.to]
<1>10. cd \in Int /\ cb \in Int /\ ci \in Int
  <2>1. load[net][e.to] \in Int /\ delay[net][e.fr] \in Int /\ delay[net][e.to] \in Int
        /\ beta[net][e.fr] \in Int /\ ldelay[net][e.to] \in Int
    BY <1>8, <1>9
  <2> HIDE DEF e
  <2> QED BY <1>8, <2>1
<1>11. /\ load' = IF pass = 1 THEN [load EXCEPT ![net][e.to] = 0] ELSE load
       /\ ldelay' = IF pass = 3 THEN [ldelay EXCEPT ![net][e.to] = 0] ELSE ldelay
       /\ delay' = IF pass = 2 THEN [delay EXCEPT ![net][e.to] = cd] ELSE delay
       /\ beta' = IF pass = 4 THEN [beta EXCEPT ![net][e.to] = cb] ELSE beta
       /\ impulse' = IF pass = 4 THEN [impulse EXCEPT ![net][e.to] = ci] ELSE impulse
  <2> HIDE DEF e
  <2> QED BY <1>1, <1>3, RunningIs DEF Assigned, Entered, DelayAlong, BetaAlong
<1> HIDE DEF e, cd, cb, ci
<1>12. e.to \in Nodes(rctrees[net])
  BY <1>8 DEF Rct
<1>13. Becomes(rctrees, load, load', net, e.to, 0, pass, 1)
  BY <1>3, <1>11, <1>12, FigureSet
<1>14. Becomes(rctrees, ldelay, ldelay', net, e.to, 0, pass, 3)
  BY <1>3, <1>11, <1>12, FigureSet
<1>15. Becomes(rctrees, delay, delay', net, e.to, cd, pass, 2)
  BY <1>3, <1>10, <1>11, <1>12, FigureSet
<1>16. Becomes(rctrees, beta, beta', net, e.to, cb, pass, 4)
  BY <1>3, <1>10, <1>11, <1>12, FigureSet
<1>17. Becomes(rctrees, impulse, impulse', net, e.to, ci, pass, 4)
  BY <1>3, <1>10, <1>11, <1>12, FigureSet
<1>18. ASSUME IsTree(Rct)
       PROVE  Progress(Rct, stack', pass, load'[net], delay'[net], ldelay'[net], beta'[net], impulse'[net])
  <2>1. Progress(Rct, stack, pass, load[net], delay[net], ldelay[net], beta[net], impulse[net])
    BY <1>2, <1>18 DEF RcTreeInv, Working
  <2>2. Tree(Rct)
    BY <1>3, <1>18 DEF Tree
  <2>3. /\ Onto(load'[net], load[net], e.to, 0, pass, 1)
        /\ Onto(delay'[net], delay[net], e.to, cd, pass, 2)
        /\ Onto(ldelay'[net], ldelay[net], e.to, 0, pass, 3)
        /\ Onto(beta'[net], beta[net], e.to, cb, pass, 4)
        /\ Onto(impulse'[net], impulse[net], e.to, ci, pass, 4)
    BY <1>13, <1>14, <1>15, <1>16, <1>17 DEF Becomes, Onto
  <2>4. Progress(Rct, Pushed(Rct, stack), pass, load'[net], delay'[net], ldelay'[net], beta'[net], impulse'[net])
    BY <1>3, <1>4, <1>9, <2>1, <2>2, <2>3, ProgressPushed DEF cd, cb, ci
  <2> QED BY <1>5, <2>4
<1>19. \A x \in DOMAIN rctrees \ {net} : Other(x)'
  BY <1>1, <1>13, <1>15, <1>16, <1>17, OthersStay DEF Becomes
<1>20. /\ FigureType(rctrees, load') /\ FigureType(rctrees, delay') /\ FigureType(rctrees, ldelay')
       /\ FigureType(rctrees, beta') /\ FigureType(rctrees, impulse')
  BY <1>13, <1>14, <1>15, <1>16, <1>17 DEF Becomes
<1> QED BY <1>1, <1>3, <1>6, <1>7, <1>18, <1>19, <1>20, Computing DEF Rct

\* The stack is exhausted: in a tree its calls would be of more nodes than the root reaches.
LEMMA ExhaustStep ==
  ASSUME RcTreeInv, Exhaust
  PROVE  RcTreeInv'
<1> DEFINE p == Pushed(Rct, stack)
<1>1. /\ phase = "update" /\ stack # <<>> /\ Top.todo # {} /\ Edge.to # Top.parent
      /\ Len(stack) = MaxDepth /\ phase' = "crashed"
      /\ UNCHANGED <<file, pos, rctrees, waiting, net, pass, stack, load, delay, ldelay, beta, impulse>>
  BY DEF Exhaust, Following, Back, figures
<1>2. net # NoNet
  BY <1>1 DEF RcTreeInv, Shape
<1>3. NetType(Rct) /\ CallsOK(Rct, stack)
  BY <1>1, <1>2, InvFacts
<1>4. stack[Len(stack)].todo # {} /\ Rct.edges[NextOf(stack)].to # stack[Len(stack)].parent
  BY <1>1 DEF Top, Edge, NextOf
<1>5. CallsOK(Rct, p) /\ Len(p) = MaxDepth + 1
  BY <1>1, <1>3, <1>4, PushedFacts
<1> HIDE DEF p
<1>6. ASSUME IsTree(Rct) PROVE Cardinality(Reached(Rct)) > MaxDepth
  <2> DEFINE I == 1..(MaxDepth + 1)
             R == Reached(Rct)
             g == [i \in I |-> p[i].node]
  <2>1. Tree(Rct)
    BY <1>3, <1>6 DEF Tree
  <2>2. IsFiniteSet(R) /\ Cardinality(R) \in Nat
    BY <1>3, ReachedFacts, FS_Subset, FS_CardinalityType DEF NetType
  <2>3. IsFiniteSet(I) /\ Cardinality(I) = MaxDepth + 1
    BY FS_Interval, RcTreeAssumption
  <2>4. \A i \in I : p[i].node \in R
    <3> TAKE i \in I
    <3>1. p[i].node \in UnderCall(Rct, p, i)
      BY <1>5, <2>1, CallsNest
    <3> QED BY <3>1 DEF UnderCall, Under, Behind
  <2>5. g \in [I -> R]
    BY <2>4
  <2>6. \A i, j \in I : g[i] = g[j] => i = j
    BY <1>5, <2>1, CallsDiffer
  <2> HIDE DEF g, I, R
  <2>7. ~(Cardinality(R) < Cardinality(I))
    BY <2>2, <2>3, <2>5, <2>6, FS_PigeonHole
  <2> QED BY <2>2, <2>3, <2>7, RcTreeAssumption DEF R
<1>7. Exhausted'
  BY <1>1, <1>6 DEF Exhausted, Rct
<1>8. TypeOK'
  BY <1>1 DEF RcTreeInv, TypeOK, Rct
<1>9. Shape'
  BY <1>1, <1>2 DEF RcTreeInv, Shape
<1>10. Working'
  BY <1>1 DEF RcTreeInv, Working, Rct
<1>11. Others'
  BY <1>1 DEF RcTreeInv, Others, Other
<1> QED BY <1>7, <1>8, <1>9, <1>10, <1>11 DEF RcTreeInv

\* The sums of the node in front and of its caller's, with those of the others.
LEMMA SummedIs ==
  ASSUME net \in DOMAIN rctrees, NetType(Rct), CallsOK(Rct, stack), NEW f, FigureType(rctrees, f), NEW own \in Int,
         NEW g, g = Summed(f, own)
  PROVE  /\ FigureType(rctrees, g) /\ g[net] = AddedUp(stack, f[net], own)
         /\ \A x \in DOMAIN rctrees \ {net} : g[x] = f[x]
<1> DEFINE k == Len(stack)
           v == stack[k].node
           u == stack[k - 1].node
           sum == f[net][v] + own
           h == [f EXCEPT ![net][v] = sum]
           c == h[net][u] + sum
           j == [h EXCEPT ![net][u] = c]
<1>1. k \in Nat \ {0} /\ k \in 1..k
  BY CallFacts
<1>2. v \in Nodes(rctrees[net])
  BY <1>1, CallNodes DEF Rct
<1>3. k # 1 => u \in Nodes(rctrees[net])
  <2>1. k # 1 => k - 1 \in 1..k
    <3> HIDE DEF k
    <3> QED BY <1>1
  <2> QED BY <2>1, CallNodes DEF Rct
<1>4. g = IF k = 1 THEN h ELSE [h EXCEPT ![net][u] = @ + sum]
  BY DEF Summed, Top, Below
<1>5. sum \in Int
  BY <1>2 DEF FigureType
<1> HIDE DEF sum
<1>6. /\ FigureType(rctrees, h) /\ h[net] = [f[net] EXCEPT ![v] = sum]
      /\ \A x \in DOMAIN rctrees \ {net} : h[x] = f[x]
  <2>1. h = IF 0 = 0 THEN [f EXCEPT ![net][v] = sum] ELSE f
    OBVIOUS
  <2> HIDE DEF h, v
  <2>2. Becomes(rctrees, f, h, net, v, sum, 0, 0)
    BY <1>2, <1>5, <2>1, FigureSet
  <2> QED BY <2>2 DEF Becomes
<1> HIDE DEF h
<1>7. DOMAIN h = DOMAIN rctrees /\ h[net] \in [Nodes(rctrees[net]) -> Int]
  BY <1>6 DEF FigureType
<1>8. k # 1 => c \in Int
  BY <1>3, <1>5, <1>7
<1>9. k # 1 => [h EXCEPT ![net][u] = @ + sum] = j
  BY <1>3, <1>7
<1> HIDE DEF c
<1>10. k # 1 => /\ FigureType(rctrees, j) /\ j[net] = [h[net] EXCEPT ![u] = c]
                /\ \A x \in DOMAIN rctrees \ {net} : j[x] = h[x]
  <2> SUFFICES ASSUME k # 1
               PROVE  /\ FigureType(rctrees, j) /\ j[net] = [h[net] EXCEPT ![u] = c]
                      /\ \A x \in DOMAIN rctrees \ {net} : j[x] = h[x]
    OBVIOUS
  <2>1. j = IF 0 = 0 THEN [h EXCEPT ![net][u] = c] ELSE h
    OBVIOUS
  <2>2. u \in Nodes(rctrees[net]) /\ c \in Int
    BY <1>3, <1>8
  <2> HIDE DEF j, u
  <2>3. Becomes(rctrees, h, j, net, u, c, 0, 0)
    BY <1>6, <2>1, <2>2, FigureSet
  <2> QED BY <2>3 DEF Becomes
<1> HIDE DEF j
<1>11. CASE k = 1
  <2>1. g = h /\ AddedUp(stack, f[net], own) = [f[net] EXCEPT ![v] = sum]
    BY <1>4, <1>11 DEF AddedUp, sum
  <2> QED BY <1>6, <2>1
<1>12. CASE k # 1
  <2>1. g = j
    BY <1>4, <1>9, <1>12
  <2>2. AddedUp(stack, f[net], own) = [h[net] EXCEPT ![u] = @ + sum]
    BY <1>6, <1>12 DEF AddedUp, sum
  <2>3. [h[net] EXCEPT ![u] = @ + sum] = j[net]
    BY <1>3, <1>7, <1>10, <1>12 DEF c
  <2> QED BY <1>6, <1>10, <1>12, <2>1, <2>2, <2>3
<1> QED BY <1>11, <1>12

\* A return.
LEMMA ReturnStep ==
  ASSUME RcTreeInv, Return
  PROVE  RcTreeInv'
<1> DEFINE v == stack[Len(stack)].node
           cl == Rct.ncap[v]
           cd == Rct.ncap[v] * delay[net][v]
           N == Nodes(Rct)
<1>1. /\ phase = "update" /\ stack # <<>> /\ stack[Len(stack)].todo = {} /\ stack' = Popped(stack)
      /\ load' = IF Running = "load" THEN Summed(load, cl) ELSE load
      /\ ldelay' = IF Running = "ldelay" THEN Summed(ldelay, cd) ELSE ldelay
      /\ UNCHANGED <<file, phase, pos, rctrees, waiting, net, pass, delay, beta, impulse>>
  BY DEF Return, Top, Callers, Popped
<1>2. net # NoNet
  BY <1>1 DEF RcTreeInv, Shape
<1>3. /\ net \in DOMAIN rctrees /\ net \notin waiting /\ NetType(Rct) /\ pass \in 1..4 /\ CallsOK(Rct, stack)
      /\ Len(stack) <= MaxDepth
      /\ FigureType(rctrees, load) /\ FigureType(rctrees, delay) /\ FigureType(rctrees, ldelay)
      /\ FigureType(rctrees, beta) /\ FigureType(rctrees, impulse)
  BY <1>1, <1>2, InvFacts
<1>4. Len(stack) \in Nat \ {0} /\ v \in N
  <2>1. Len(stack) \in Nat \ {0} /\ Len(stack) \in 1..Len(stack)
    BY <1>3, CallFacts
  <2> QED BY <1>3, <2>1, CallNodes
<1>5. Len(stack') <= MaxDepth /\ (stack' = <<>> \/ CallsOK(Rct, stack'))
  <2>1. Len(stack') = Len(stack) - 1 /\ (stack' = <<>> \/ CallsOK(Rct, stack'))
    BY <1>1, <1>3, PoppedFacts
  <2> QED BY <1>3, <1>4, <2>1, RcTreeAssumption
<1>6. load[net] \in [N -> Int] /\ delay[net] \in [N -> Int] /\ ldelay[net] \in [N -> Int]
  BY <1>3 DEF FigureType, Rct
<1>7. cl \in Int /\ cd \in Int
  <2>1. cl \in Int /\ delay[net][v] \in Int
    BY <1>3, <1>4, <1>6 DEF NetType
  <2> QED BY <2>1
<1> HIDE DEF v, cl, cd
<1>8. /\ FigureType(rctrees, load')
      /\ load'[net] = IF pass = 1 THEN AddedUp(stack, load[net], cl) ELSE load[net]
      /\ \A x \in DOMAIN rctrees \ {net} : load'[x] = load[x]
  <2>1. CASE pass = 1
    <3>1. load' = Summed(load, cl)
      BY <1>1, <1>3, <2>1, RunningIs
    <3>2. /\ FigureType(rctrees, load') /\ load'[net] = AddedUp(stack, load[net], cl)
          /\ \A x \in DOMAIN rctrees \ {net} : load'[x] = load[x]
      BY <1>3, <1>7, <3>1, SummedIs
    <3> QED BY <2>1, <3>2
  <2>2. CASE pass # 1
    BY <1>1, <1>3, <2>2, RunningIs
  <2> QED BY <2>1, <2>2
<1>9. /\ FigureType(rctrees, ldelay')
      /\ ldelay'[net] = IF pass = 3 THEN AddedUp(stack, ldelay[net], cd) ELSE ldelay[net]
  <2>1. CASE pass = 3
    <3>1. ldelay' = Summed(ldelay, cd)
      BY <1>1, <1>3, <2>1, RunningIs
    <3>2. FigureType(rctrees, ldelay') /\ ldelay'[net] = AddedUp(stack, ldelay[net], cd)
      BY <1>3, <1>7, <3>1, SummedIs
    <3> QED BY <2>1, <3>2
  <2>2. CASE pass # 3
    BY <1>1, <1>3, <2>2, RunningIs
  <2> QED BY <2>1, <2>2
<1>10. ASSUME IsTree(Rct)
       PROVE  Progress(Rct, stack', pass, load'[net], delay[net], ldelay'[net], beta[net], impulse[net])
  <2>1. Progress(Rct, stack, pass, load[net], delay[net], ldelay[net], beta[net], impulse[net])
    BY <1>2, <1>10 DEF RcTreeInv, Working
  <2>2. Tree(Rct)
    BY <1>3, <1>10 DEF Tree
  <2> QED BY <1>1, <1>3, <1>6, <1>8, <1>9, <2>1, <2>2, ProgressPopped DEF cl, cd, v
<1>11. \A x \in DOMAIN rctrees \ {net} : Other(x)'
  BY <1>1, <1>8, OthersStay
<1> QED BY <1>1, <1>3, <1>5, <1>8, <1>9, <1>10, <1>11, Computing DEF Rct

\* The next net's first pass.
LEMMA NextNetStep ==
  ASSUME RcTreeInv, NEW x \in waiting, NextNet(x)
  PROVE  RcTreeInv'
<1> DEFINE rct == rctrees[x]
<1>1. /\ phase = "update" /\ net = NoNet /\ waiting' = waiting \ {x}
      /\ net' = x /\ pass' = 1 /\ stack' = First(rct) /\ load' = [load EXCEPT ![x][rct.root] = 0]
      /\ UNCHANGED <<file, phase, pos, rctrees, delay, ldelay, beta, impulse>>
  BY DEF NextNet, CallRoot, Passes, Entered, First
<1>2. x \in DOMAIN rctrees /\ NetType(rct)
  BY DEF RcTreeInv, TypeOK
<1>3. /\ FigureType(rctrees, load) /\ FigureType(rctrees, delay) /\ FigureType(rctrees, ldelay)
      /\ FigureType(rctrees, beta) /\ FigureType(rctrees, impulse)
  BY <1>1 DEF RcTreeInv, Shape
<1>4. CallsOK(rct, stack') /\ Len(stack') <= MaxDepth
  <2>1. CallsOK(rct, First(rct)) /\ Len(First(rct)) = 1
    BY <1>2, FirstFacts
  <2> QED BY <1>1, <2>1, RcTreeAssumption
<1>5. NoNet \notin DOMAIN rctrees
  BY RcTreeAssumption DEF RcTreeInv, Shape
<1>6. \A y \in DOMAIN rctrees : Other(y)
  BY <1>1, <1>5 DEF RcTreeInv, Others
<1> HIDE DEF rct
<1>7. Becomes(rctrees, load, load', x, rct.root, 0, 0, 0)
  <2>1. load' = IF 0 = 0 THEN [load EXCEPT ![x][rct.root] = 0] ELSE load
    BY <1>1
  <2>2. rct.root \in Nodes(rctrees[x])
    BY <1>2 DEF NetType, rct
  <2> DEFINE v == rct.root
             c == 0
             n == 0
  <2>3. load' = IF n = n THEN [load EXCEPT ![x][v] = c] ELSE load
    BY <2>1
  <2>4. v \in Nodes(rctrees[x]) /\ c \in Int
    BY <2>2
  <2> HIDE DEF v, c, n
  <2>5. Becomes(rctrees, load, load', x, v, c, n, n)
    BY <1>2, <1>3, <2>3, <2>4, FigureSet
  <2> QED BY <2>5 DEF v, c, n
<1>8. ASSUME IsTree(rct)
      PROVE  Progress(rct, stack', 1, load'[x], delay[x], ldelay[x], beta[x], impulse[x])
  <2>1. Zeros(rct, delay[x]) /\ Zeros(rct, beta[x]) /\ Zeros(rct, impulse[x])
    BY <1>2, <1>6 DEF Other, Idle, rct
  <2>2. load'[x] = [load[x] EXCEPT ![rct.root] = 0]
    BY <1>7 DEF Becomes
  <2>3. load[x] \in [Nodes(rct) -> Int]
    BY <1>2, <1>3 DEF FigureType, rct
  <2>4. Tree(rct)
    BY <1>2, <1>8 DEF Tree
  <2>5. Progress(rct, First(rct), 1, load'[x], delay[x], ldelay[x], beta[x], impulse[x])
    BY <2>1, <2>2, <2>3, <2>4, ProgressFirst
  <2> QED BY <1>1, <2>5
<1>9. ASSUME NEW y \in DOMAIN rctrees \ {x} PROVE Other(y)'
  <2>1. load'[y] = load[y] /\ (y \in waiting' <=> y \in waiting)
    BY <1>1, <1>7, <1>9 DEF Becomes
  <2> QED BY <1>1, <1>6, <2>1 DEF Other
<1>10. FigureType(rctrees, load')
  BY <1>7 DEF Becomes
<1> QED BY <1>1, <1>2, <1>3, <1>4, <1>8, <1>9, <1>10, Computing DEF rct

\* The next pass of a net, or its end.
LEMMA NextPassStep ==
  ASSUME RcTreeInv, NextPass
  PROVE  RcTreeInv'
<1>1. /\ phase = "update" /\ net # NoNet /\ stack = <<>>
      /\ UNCHANGED <<file, phase, pos, rctrees, waiting>>
  BY DEF NextPass
<1>2. /\ net \in DOMAIN rctrees /\ net \notin waiting /\ NetType(Rct) /\ pass \in 1..4
      /\ FigureType(rctrees, load) /\ FigureType(rctrees, delay) /\ FigureType(rctrees, ldelay)
      /\ FigureType(rctrees, beta) /\ FigureType(rctrees, impulse)
  BY <1>1, InvFacts
<1>3. ASSUME IsTree(Rct)
      PROVE  /\ Tree(Rct)
             /\ Progress(Rct, <<>>, pass, load[net], delay[net], ldelay[net], beta[net], impulse[net])
  BY <1>1, <1>2, <1>3 DEF RcTreeInv, Working, Tree
<1>4. CASE pass = 4
  <2>1. net' = NoNet /\ pass' = 0 /\ UNCHANGED <<stack, load, delay, ldelay, beta, impulse>>
    BY <1>4 DEF NextPass, Passes, figures
  <2>2. NoNet \notin DOMAIN rctrees
    BY RcTreeAssumption DEF RcTreeInv, Shape
  <2>3. ASSUME NEW y \in DOMAIN rctrees PROVE Other(y)'
    <3>1. CASE y # net
      BY <1>1, <2>1, <3>1 DEF RcTreeInv, Others, Other
    <3>2. CASE y = net
      <4>1. IsTree(Rct) => Figured(Rct, load[net], delay[net], beta[net], impulse[net])
        BY <1>3, <1>4, ProgressDone
      <4> QED BY <1>1, <1>2, <2>1, <3>2, <4>1 DEF Other, Rct
    <3> QED BY <3>1, <3>2
  <2>4. TypeOK'
    BY <1>1, <2>1 DEF RcTreeInv, TypeOK, Passes
  <2>5. Shape'
    BY <1>1, <2>1 DEF RcTreeInv, Shape
  <2>6. Working'
    BY <2>1 DEF Working
  <2>7. Others'
    BY <1>1, <2>3 DEF Others
  <2>8. Exhausted'
    BY <1>1 DEF Exhausted
  <2> QED BY <2>4, <2>5, <2>6, <2>7, <2>8 DEF RcTreeInv
<1>5. CASE pass # 4
  <2> DEFINE p == pass + 1
  <2>1. p \in 2..4 /\ pass < 4
    BY <1>2, <1>5
  <2>2. CallRoot(net, p)
    BY <1>1, <2>1 DEF NextPass, Passes
  <2> HIDE DEF p
  <2>3. /\ net' = net /\ pass' = p /\ stack' = First(Rct)
        /\ ldelay' = IF p = 3 THEN [ldelay EXCEPT ![net][Rct.root] = 0] ELSE ldelay
        /\ UNCHANGED <<load, delay, beta, impulse>>
    BY <2>1, <2>2 DEF CallRoot, Passes, Entered, First, Rct
  <2>4. CallsOK(Rct, stack') /\ Len(stack') <= MaxDepth
    <3>1. CallsOK(Rct, First(Rct)) /\ Len(First(Rct)) = 1
      BY <1>2, FirstFacts
    <3> QED BY <2>3, <3>1, RcTreeAssumption
  <2>5. Becomes(rctrees, ldelay, ldelay', net, Rct.root, 0, p, 3)
    <3>1. Rct.root \in Nodes(rctrees[net])
      BY <1>2 DEF NetType, Rct
    <3> QED BY <1>2, <2>3, <3>1, FigureSet
  <2>6. FigureType(rctrees, ldelay')
        /\ ldelay'[net] = IF p = 3 THEN [ldelay[net] EXCEPT ![Rct.root] = 0] ELSE ldelay[net]
    BY <2>5 DEF Becomes
  <2>7. \A x \in DOMAIN rctrees \ {net} : Other(x)'
    BY <1>1, <2>3, OthersStay
  <2>8. ASSUME IsTree(Rct)
        PROVE  Progress(Rct, stack', p, load[net], delay[net], ldelay'[net], beta[net], impulse[net])
    <3>0. delay[net] \in [Nodes(Rct) -> Int] /\ ldelay[net] \in [Nodes(Rct) -> Int]
      BY <1>2 DEF FigureType, Rct
    <3>1. CASE pass = 1
      <4>1. p = 2 /\ ldelay'[net] = ldelay[net]
        BY <2>6, <3>1 DEF p
      <4>2. Progress(Rct, First(Rct), 2, load[net], delay[net], ldelay[net], beta[net], impulse[net])
        BY <1>3, <2>8, <3>1, ProgressSecond
      <4> QED BY <2>3, <4>1, <4>2
    <3>2. CASE pass = 2
      <4>1. p = 3 /\ ldelay'[net] = [ldelay[net] EXCEPT ![Rct.root] = 0]
        BY <2>6, <3>2 DEF p
      <4>2. Progress(Rct, First(Rct), 3, load[net], delay[net], ldelay'[net], beta[net], impulse[net])
        BY <1>3, <2>8, <3>0, <3>2, <4>1, ProgressThird
      <4> QED BY <2>3, <4>1, <4>2
    <3>3. CASE pass = 3
      <4>1. p = 4 /\ ldelay'[net] = ldelay[net]
        BY <2>6, <3>3 DEF p
      <4>2. Progress(Rct, First(Rct), 4, load[net], delay[net], ldelay[net], beta[net], impulse[net])
        BY <1>3, <2>8, <3>0, <3>3, ProgressFourth
      <4> QED BY <2>3, <4>1, <4>2
    <3> QED BY <1>2, <1>5, <3>1, <3>2, <3>3
  <2>9. pass' \in 1..4
    BY <2>1, <2>3
  <2> QED BY <1>1, <1>2, <2>3, <2>4, <2>6, <2>7, <2>8, <2>9, Computing DEF Rct
<1> QED BY <1>4, <1>5

\* The end of the program.
LEMMA EndUpdateStep ==
  ASSUME RcTreeInv, EndUpdate
  PROVE  RcTreeInv'
<1>1. /\ phase = "update" /\ net = NoNet /\ waiting = {} /\ phase' = "done"
      /\ UNCHANGED <<file, pos, rctrees, waiting, net, pass, stack, load, delay, ldelay, beta, impulse>>
  BY DEF EndUpdate, figures
<1>2. TypeOK'
  BY <1>1 DEF RcTreeInv, TypeOK, Rct
<1>3. Shape'
  BY <1>1 DEF RcTreeInv, Shape
<1>4. Working' /\ Exhausted'
  BY <1>1 DEF Working, Exhausted
<1>5. Others'
  BY <1>1 DEF RcTreeInv, Others, Other
<1> QED BY <1>2, <1>3, <1>4, <1>5 DEF RcTreeInv

\* A step that changes nothing.
LEMMA StoppedStep ==
  ASSUME RcTreeInv, UNCHANGED vars
  PROVE  RcTreeInv'
<1>1. UNCHANGED <<file, phase, pos, rctrees, waiting, net, pass, stack, load, delay, ldelay, beta, impulse>>
  BY DEF vars, figures
<1>2. TypeOK'
  BY <1>1 DEF RcTreeInv, TypeOK, Rct
<1>3. Shape'
  BY <1>1 DEF RcTreeInv, Shape
<1>4. Working' /\ Exhausted'
  BY <1>1 DEF RcTreeInv, Working, Exhausted, Rct
<1>5. Others'
  BY <1>1 DEF RcTreeInv, Others, Other
<1> QED BY <1>2, <1>3, <1>4, <1>5 DEF RcTreeInv

\* The end of the file.
LEMMA EndReadStep ==
  ASSUME RcTreeInv, EndRead
  PROVE  RcTreeInv'
<1>1. /\ phase = "read" /\ phase' = "update" /\ waiting' = DOMAIN rctrees
      /\ load' = Zero /\ delay' = Zero /\ ldelay' = Zero /\ beta' = Zero /\ impulse' = Zero
      /\ UNCHANGED <<file, pos, rctrees, net, pass, stack>>
  BY DEF EndRead
<1>2. net = NoNet /\ stack = <<>> /\ pass = 0
  BY <1>1 DEF RcTreeInv, Shape
<1>3. \A x \in DOMAIN rctrees : Zero[x] \in [Nodes(rctrees[x]) -> Int] /\ \A v \in Nodes(rctrees[x]) : Zero[x][v] = 0
  BY DEF Zero, Nodes
<1>4. FigureType(rctrees, Zero)
  <2>1. Zero = [x \in DOMAIN rctrees |-> Zero[x]]
    BY DEF Zero
  <2> QED BY <1>3, <2>1 DEF FigureType
<1>5. TypeOK'
  BY <1>1, <1>2, <1>3 DEF RcTreeInv, TypeOK
<1>6. Shape'
  BY <1>1, <1>2, <1>4 DEF RcTreeInv, Shape
<1>7. Working' /\ Exhausted'
  BY <1>1, <1>2 DEF Working, Exhausted
<1>8. Others'
  BY <1>1, <1>3 DEF Others, Other, Idle, Zeros
<1> QED BY <1>5, <1>6, <1>7, <1>8 DEF RcTreeInv

\* The values of a function on a finite set are finitely many.
LEMMA Listed ==
  ASSUME NEW D, IsFiniteSet(D), NEW g, g = [i \in D |-> g[i]]
  PROVE  IsFiniteSet({g[i] : i \in D})
<1> DEFINE T == {g[i] : i \in D}
<1>1. g \in [D -> T] /\ \A y \in T : \E i \in D : g[i] = y
  OBVIOUS
<1>2. g \in Surjection(D, T)
  BY <1>1 DEF Surjection
<1> HIDE DEF T
<1>3. IsFiniteSet(T)
  BY <1>2, FS_Surjection
<1> QED BY <1>3 DEF T

\* A set of numbers up to a bound has a greatest member, which is its Max.
LEMMA GreatestNumber ==
  ASSUME NEW k \in Nat, NEW T \in SUBSET (1..k), T # {}
  PROVE  Max(T) \in T
<1> DEFINE D == {k - i : i \in T}
<1>1. D \in SUBSET Nat /\ D # {}
  OBVIOUS
<1>2. PICK d \in D : \A c \in D : d <= c
  BY <1>1, LeastNumber
<1>3. PICK i \in T : d = k - i
  OBVIOUS
<1>4. \A j \in T : i >= j
  <2> TAKE j \in T
  <2>1. k - j \in D /\ i \in Nat /\ j \in Nat
    OBVIOUS
  <2> QED BY <1>2, <1>3, <2>1
<1> QED BY <1>3, <1>4 DEF Max

\* What the file holds of a net.
NetOfFile == [name : NetName, root : NodeName, caps : Seq(NodeName \X Int),
              edges : Seq([fr : NodeName, to : NodeName, res : Int])]

\* The names a net of the file mentions are finitely many, and its figures are integers.
LEMMA FileFacts ==
  ASSUME NEW n \in NetOfFile
  PROVE  /\ Caps(n) \subseteq NodeName /\ IsFiniteSet(Caps(n))
         /\ \A v \in Caps(n) : LastCap(n, v) \in Int
         /\ Ends2(n.edges) \subseteq NodeName /\ IsFiniteSet(Ends2(n.edges))
         /\ n.edges \in Seq([fr : Ends2(n.edges), to : Ends2(n.edges), res : Int])
         /\ n.name \in NetName /\ n.root \in NodeName
<1>0. /\ n.name \in NetName /\ n.root \in NodeName /\ n.caps \in Seq(NodeName \X Int)
      /\ n.edges \in Seq([fr : NodeName, to : NodeName, res : Int])
  BY DEF NetOfFile
<1> DEFINE cs == n.caps
           es == n.edges
           E == [fr : NodeName, to : NodeName, res : Int]
<1>1. /\ Len(cs) \in Nat /\ DOMAIN cs = 1..Len(cs) /\ \A i \in DOMAIN cs : cs[i] \in NodeName \X Int
  BY <1>0
<1>2. Len(es) \in Nat /\ DOMAIN es = 1..Len(es) /\ \A i \in DOMAIN es : es[i] \in E
  <2> HIDE DEF E
  <2>1. es \in Seq(E)
    BY <1>0 DEF E
  <2> QED BY <2>1
<1>3. IsFiniteSet(DOMAIN cs) /\ IsFiniteSet(DOMAIN es)
  <2>1. /\ Len(cs) \in Nat /\ DOMAIN cs = 1..Len(cs)
        /\ Len(es) \in Nat /\ DOMAIN es = 1..Len(es)
    BY <1>1, <1>2
  <2>2. \A m \in Nat : IsFiniteSet(1..m)
    BY FS_Interval
  <2> HIDE DEF cs, es
  <2> QED BY <2>1, <2>2
<1>4. \A i \in DOMAIN cs : cs[i][1] \in NodeName /\ cs[i][2] \in Int
  BY <1>1
<1>5. \A i \in DOMAIN es : es[i].fr \in NodeName /\ es[i].to \in NodeName /\ es[i].res \in Int
  BY <1>2
<1> HIDE DEF cs, es, E
<1>6. Caps(n) \subseteq NodeName /\ IsFiniteSet(Caps(n))
  <2> DEFINE g == [i \in DOMAIN cs |-> cs[i][1]]
  <2>1. Caps(n) = {g[i] : i \in DOMAIN cs} /\ g = [i \in DOMAIN cs |-> g[i]]
    BY DEF Caps, cs
  <2> HIDE DEF g
  <2>2. IsFiniteSet(Caps(n))
    BY <1>3, <2>1, Listed
  <2> QED BY <1>4, <2>2 DEF Caps, cs
<1>7. ASSUME NEW v \in Caps(n) PROVE LastCap(n, v) \in Int
  <2> DEFINE T == {i \in DOMAIN cs : cs[i][1] = v}
  <2>1. T \in SUBSET (1..Len(cs)) /\ T # {}
    BY <1>1 DEF Caps, cs
  <2>2. Max(T) \in T
    BY <1>1, <2>1, GreatestNumber
  <2>3. cs[Max(T)][2] \in Int
    BY <1>4, <2>2
  <2> QED BY <2>3 DEF LastCap, cs
<1>8. Ends2(es) \subseteq NodeName /\ IsFiniteSet(Ends2(es))
  <2> DEFINE g == [i \in DOMAIN es |-> {es[i].fr, es[i].to}]
             P == {g[i] : i \in DOMAIN es}
  <2>1. Ends2(es) = UNION P /\ g = [i \in DOMAIN es |-> g[i]] /\ \A i \in DOMAIN es : g[i] = {es[i].fr, es[i].to}
    BY DEF Ends2
  <2> HIDE DEF g
  <2>2. IsFiniteSet(P)
    BY <1>3, <2>1, Listed
  <2>3. \A p \in P : IsFiniteSet(p)
    <3>1. \A a, b : IsFiniteSet({a, b})
      <4> TAKE a, b
      <4>1. IsFiniteSet({a}) /\ IsFiniteSet({b}) /\ {a, b} = {a} \cup {b}
        BY FS_Singleton
      <4> QED BY <4>1, FS_Union
    <3> TAKE p \in P
    <3>2. PICK i \in DOMAIN es : p = g[i]
      OBVIOUS
    <3>3. p = {es[i].fr, es[i].to}
      BY <2>1, <3>2
    <3> QED BY <3>1, <3>3
  <2> HIDE DEF P
  <2>4. IsFiniteSet(Ends2(es))
    BY <2>1, <2>2, <2>3, FS_UNION
  <2> QED BY <1>5, <2>4 DEF Ends2
<1>9. es \in Seq([fr : Ends2(es), to : Ends2(es), res : Int])
  <2> DEFINE F == [fr : Ends2(es), to : Ends2(es), res : Int]
  <2>1. ASSUME NEW i \in DOMAIN es PROVE es[i] \in F
    <3>1. es[i].fr \in Ends2(es) /\ es[i].to \in Ends2(es) /\ es[i] \in E
      BY <1>2 DEF Ends2
    <3> QED BY <3>1 DEF E
  <2>2. es \in Seq(E)
    BY <1>0 DEF es, E
  <2> HIDE DEF F
  <2>3. es \in Seq(F)
    BY <1>2, <2>1, <2>2
  <2> QED BY <2>3 DEF F
<1> QED BY <1>0, <1>6, <1>7, <1>8, <1>9 DEF es

\* A net as it has been read so far, which may be nothing.
LEMMA ReadType ==
  ASSUME NEW n \in NetOfFile, NEW old, DOMAIN old.ncap \subseteq NodeName, IsFiniteSet(DOMAIN old.ncap),
         old.ncap \in [DOMAIN old.ncap -> Int],
         old.edges \in Seq([fr : DOMAIN old.ncap, to : DOMAIN old.ncap, res : Int]),
         NEW nodes, nodes = DOMAIN old.ncap \cup Caps(n) \cup Ends2(n.edges) \cup {n.root},
         NEW ncap, ncap = [v \in nodes |-> IF v \in Caps(n) THEN LastCap(n, v)
                                           ELSE IF v \in DOMAIN old.ncap THEN old.ncap[v] ELSE 0],
         NEW rct, rct = [ncap |-> ncap, edges |-> old.edges \o n.edges, root |-> n.root]
  PROVE  NetType(rct)
<1>1. ncap \in [nodes -> Int]
  <2>1. \A v \in Caps(n) : LastCap(n, v) \in Int
    BY FileFacts
  <2>2. \A v \in DOMAIN old.ncap : old.ncap[v] \in Int
    OBVIOUS
  <2> QED BY <2>1, <2>2
<1>2. nodes \subseteq NodeName /\ n.root \in nodes
  BY FileFacts
<1>3. IsFiniteSet(nodes)
  <2>1. /\ IsFiniteSet(DOMAIN old.ncap) /\ IsFiniteSet(Caps(n)) /\ IsFiniteSet(Ends2(n.edges))
        /\ IsFiniteSet({n.root})
    BY FileFacts, FS_Singleton
  <2> QED BY <2>1, FS_Union
<1> DEFINE E == [fr : nodes, to : nodes, res : Int]
           A == [fr : DOMAIN old.ncap, to : DOMAIN old.ncap, res : Int]
           B == [fr : Ends2(n.edges), to : Ends2(n.edges), res : Int]
<1>4. A \subseteq E /\ B \subseteq E
  OBVIOUS
<1>5. old.edges \in Seq(A) /\ n.edges \in Seq(B)
  BY FileFacts
<1> HIDE DEF A, B, E
<1>6. old.edges \in Seq(E) /\ n.edges \in Seq(E)
  BY <1>4, <1>5
<1>7. old.edges \o n.edges \in Seq(E)
  BY <1>6
<1>8. Nodes(rct) = nodes /\ rct.ncap = ncap /\ rct.root = n.root /\ rct.edges = old.edges \o n.edges
  BY <1>1 DEF Nodes
<1> QED BY <1>1, <1>2, <1>3, <1>7, <1>8 DEF NetType, E

\* A net of the file is read.
LEMMA ReadNetStep ==
  ASSUME RcTreeInv, ReadNet
  PROVE  RcTreeInv'
<1> DEFINE n == file[pos]
           old == IF n.name \in DOMAIN rctrees THEN rctrees[n.name] ELSE [ncap |-> <<>>, edges |-> <<>>]
           nodes == DOMAIN old.ncap \cup Caps(n) \cup Ends2(n.edges) \cup {n.root}
           ncap == [v \in nodes |-> IF v \in Caps(n) THEN LastCap(n, v)
                                    ELSE IF v \in DOMAIN old.ncap THEN old.ncap[v] ELSE 0]
           rct == [ncap |-> ncap, edges |-> old.edges \o n.edges, root |-> n.root]
<1>1. /\ phase = "read" /\ pos <= Len(file) /\ pos' = pos + 1
      /\ rctrees' = [x \in DOMAIN rctrees \cup {n.name} |-> IF x # n.name THEN rctrees[x] ELSE rct]
      /\ UNCHANGED <<file, phase, waiting, net, pass, stack, load, delay, ldelay, beta, impulse>>
  BY DEF ReadNet, figures
<1>2. n \in NetOfFile
  <2>1. file \in Seq(NetOfFile)
    BY RcTreeAssumption DEF RcTreeInv, Shape, NetOfFile
  <2>2. pos \in Nat \ {0}
    BY DEF RcTreeInv, TypeOK
  <2> HIDE DEF n
  <2>3. file[pos] \in NetOfFile
    BY <1>1, <2>1, <2>2
  <2> QED BY <2>3 DEF n
<1>3. /\ DOMAIN old.ncap \subseteq NodeName /\ IsFiniteSet(DOMAIN old.ncap)
      /\ old.ncap \in [DOMAIN old.ncap -> Int]
      /\ old.edges \in Seq([fr : DOMAIN old.ncap, to : DOMAIN old.ncap, res : Int])
  <2> HIDE DEF n
  <2>1. CASE n.name \in DOMAIN rctrees
    <3>1. NetType(rctrees[n.name]) /\ old = rctrees[n.name]
      BY <2>1 DEF RcTreeInv, TypeOK
    <3> HIDE DEF old
    <3> QED BY <3>1 DEF NetType, Nodes
  <2>2. CASE n.name \notin DOMAIN rctrees
    <3>1. old.ncap = <<>> /\ old.edges = <<>>
      BY <2>2
    <3> HIDE DEF old
    <3>2. DOMAIN old.ncap = {} /\ old.ncap \in [{} -> Int]
      BY <3>1
    <3>3. old.edges \in Seq([fr : DOMAIN old.ncap, to : DOMAIN old.ncap, res : Int])
      BY <3>1
    <3> QED BY <3>2, <3>3, FS_EmptySet
  <2> QED BY <2>1, <2>2
<1>4. NetType(rct)
  <2> HIDE DEF n, old
  <2> QED BY <1>2, <1>3, ReadType
<1>5. n.name \in NetName
  BY <1>2 DEF NetOfFile
<1> HIDE DEF n, rct
<1>6. /\ waiting = {} /\ net = NoNet /\ pass = 0 /\ stack = <<>>
  BY <1>1 DEF RcTreeInv, Shape
<1>7. \A x \in DOMAIN rctrees' : NetType(rctrees'[x])
  BY <1>1, <1>4 DEF RcTreeInv, TypeOK
<1>8. TypeOK'
  <2>1. pos' \in Nat \ {0}
    BY <1>1 DEF RcTreeInv, TypeOK
  <2>2. stack' \in Seq([node : NodeName, parent : NodeName \cup {NoNode}, todo : SUBSET Nat])
        /\ Len(stack') <= MaxDepth /\ stack' = <<>>
    BY <1>1, <1>6 DEF RcTreeInv, TypeOK
  <2>3. waiting' = {} /\ net' = NoNet /\ pass' = 0 /\ phase' = "read"
    BY <1>1, <1>6
  <2>4. pass' \in 0..Len(Passes)
    BY <2>3 DEF Passes
  <2> QED BY <1>7, <2>1, <2>2, <2>3, <2>4 DEF TypeOK
<1>9. Shape'
  <2>1. DOMAIN rctrees' \subseteq NetName
    BY <1>1, <1>5 DEF RcTreeInv, Shape
  <2> QED BY <1>1, <1>6, <2>1 DEF RcTreeInv, Shape
<1>10. Working' /\ Others' /\ Exhausted'
  BY <1>1, <1>6 DEF Working, Others, Exhausted
<1> QED BY <1>8, <1>9, <1>10 DEF RcTreeInv

(***************************************************************************)
(* The invariant, in whatever order the nets of the file are computed.     *)
(***************************************************************************)
THEOREM RcTreeInvariance == Spec => []RcTreeInv
<1>1. ASSUME Init PROVE RcTreeInv
  <2>1. /\ file \in Files /\ phase = "read" /\ pos = 1 /\ rctrees = <<>> /\ waiting = {}
        /\ net = NoNet /\ pass = 0 /\ stack = <<>>
    BY <1>1 DEF Init
  <2>2. TypeOK
    <3>1. Len(stack) = 0 /\ 0 <= MaxDepth
      BY <2>1, RcTreeAssumption
    <3> QED BY <2>1, <3>1 DEF TypeOK, Passes
  <2>3. Shape /\ Working /\ Others /\ Exhausted
    BY <2>1 DEF Shape, Working, Others, Exhausted
  <2> QED BY <2>2, <2>3 DEF RcTreeInv
<1>2. ASSUME RcTreeInv, [Next]_vars PROVE RcTreeInv'
  <2>1. CASE ReadNet
    BY <1>2, <2>1, ReadNetStep
  <2>2. CASE EndRead
    BY <1>2, <2>2, EndReadStep
  <2>3. CASE \E x \in waiting : NextNet(x)
    BY <1>2, <2>3, NextNetStep
  <2>4. CASE NextPass
    BY <1>2, <2>4, NextPassStep
  <2>5. CASE SkipParent
    BY <1>2, <2>5, SkipParentStep
  <2>6. CASE Descend
    BY <1>2, <2>6, DescendStep
  <2>7. CASE Exhaust
    BY <1>2, <2>7, ExhaustStep
  <2>8. CASE Return
    BY <1>2, <2>8, ReturnStep
  <2>9. CASE EndUpdate
    BY <1>2, <2>9, EndUpdateStep
  <2>10. CASE UNCHANGED vars
    BY <1>2, <2>10, StoppedStep
  <2> QED BY <1>2, <2>1, <2>2, <2>3, <2>4, <2>5, <2>6, <2>7, <2>8, <2>9, <2>10 DEF Next, Step, Stopped
<1> QED BY <1>1, <1>2, PTL DEF Spec

(***************************************************************************)
(* Every variable has its type, and the calls in progress follow edges of  *)
(* the net, however the file lists them, for files of any nets.            *)
(***************************************************************************)
THEOREM RcTreeTypeCorrect == Spec => []TypeOK
<1>1. RcTreeInv => TypeOK
  BY DEF RcTreeInv
<1> QED BY <1>1, RcTreeInvariance, PTL

(***************************************************************************)
(* The figures that update_rc_timing leaves of a tree are the moments of   *)
(* its network, for trees of any size and shape, any resistances and       *)
(* capacitances, and edges listed both ways or from the root only.         *)
(***************************************************************************)
THEOREM FiguresAreMoments == Spec => []MomentsOfTrees
<1>1. ASSUME RcTreeInv PROVE MomentsOfTrees
  <2> SUFFICES ASSUME phase = "done", NEW x \in DOMAIN rctrees, IsTree(rctrees[x])
               PROVE  HasMoments(x)
    BY DEF MomentsOfTrees
  <2>1. net = NoNet /\ waiting = {} /\ x # NoNet
    BY <1>1, RcTreeAssumption DEF RcTreeInv, Shape
  <2>2. Other(x)
    BY <1>1, <2>1 DEF RcTreeInv, Others
  <2>3. Figured(rctrees[x], load[x], delay[x], beta[x], impulse[x])
    BY <2>1, <2>2 DEF Other
  <2> QED BY <2>3, FiguredIs
<1> QED BY <1>1, RcTreeInvariance, PTL

(***************************************************************************)
(* A tree never exhausts a stack with room for its nodes, and no two calls *)
(* in progress in it are of the same node.                                 *)
(***************************************************************************)
THEOREM OnlyCirclesExhaust == Spec => []CallsStayInTree
<1>1. ASSUME RcTreeInv PROVE CallsStayInTree
  <2>1. phase = "crashed" => ~IsTree(Rct) \/ Cardinality(Reached(Rct)) > MaxDepth
    BY <1>1 DEF RcTreeInv, Exhausted
  <2>2. ASSUME net # NoNet, IsTree(Rct), NEW i \in DOMAIN stack, NEW j \in DOMAIN stack,
               stack[i].node = stack[j].node
        PROVE  i = j
    <3>1. NetType(Rct) /\ (stack = <<>> \/ CallsOK(Rct, stack))
      BY <1>1, <2>2, InvFacts
    <3>2. stack # <<>>
      BY <2>2
    <3>3. Tree(Rct) /\ DOMAIN stack = 1..Len(stack)
      BY <2>2, <3>1, <3>2, CallFacts DEF Tree
    <3> QED BY <2>2, <3>1, <3>2, <3>3, CallsDiffer
  <2> QED BY <2>1, <2>2 DEF CallsStayInTree
<1> QED BY <1>1, RcTreeInvariance, PTL
=============================================================================
