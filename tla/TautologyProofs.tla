--------------------------- MODULE TautologyProofs ---------------------------
(***************************************************************************)
(* Proof that the tautology checker answers what groundTruth would have    *)
(* answered, for any file of cubes.  Everything said about nodes and calls *)
(* of OR is said by constant operators of the heap h, the number n of      *)
(* variables and the stack, so that the lemmas about them mention no step. *)
(***************************************************************************)
EXTENDS Tautology, SequenceTheorems, TLAPS

-----------------------------------------------------------------------------
(* Nodes                                                                   *)

Inputs(n) == [1..n -> BOOLEAN]

\* The place of a node in the order of the variables; the leaves come last.
Rank(h, n, r) == IF h[r].is_leaf THEN n + 1 ELSE h[r].var_id

Shape(n) ==
    [is_leaf : BOOLEAN, leaf_value : BOOLEAN, var_id : 0..n, true_son : Nat, false_son : Nat,
     is_visited : BOOLEAN, fn : SUBSET Inputs(n)]

LeafNode(n, b) ==
    [is_leaf |-> TRUE, leaf_value |-> b, var_id |-> 0, true_son |-> 0, false_son |-> 0,
     is_visited |-> FALSE, fn |-> IF b THEN Inputs(n) ELSE {}]

Choice(h, n, v, t, f) == {a \in Inputs(n) : a \in h[IF a[v] THEN t ELSE f].fn}

InnerNode(h, n, v, t, f) ==
    [is_leaf |-> FALSE, leaf_value |-> FALSE, var_id |-> v, true_son |-> t, false_son |-> f,
     is_visited |-> FALSE, fn |-> Choice(h, n, v, t, f)]

SonsOK(h, n, r) == LET x == h[r] IN
    /\ x.var_id \in 1..n
    /\ x.true_son \in 1..(r - 1) /\ x.false_son \in 1..(r - 1)
    /\ x.var_id < Rank(h, n, x.true_son) /\ x.var_id < Rank(h, n, x.false_son)
    /\ x.fn = Choice(h, n, x.var_id, x.true_son, x.false_son)

LeafOK(n, x) ==
    /\ x.var_id = 0 /\ x.true_son = 0 /\ x.false_son = 0
    /\ x.fn = IF x.leaf_value THEN Inputs(n) ELSE {}

\* A node depends on no variable before its own.
SameFrom(n, k, a, b) == \A v \in 1..n : k <= v => a[v] = b[v]
Independent(h, n, r) ==
    \A a, b \in Inputs(n) : SameFrom(n, Rank(h, n, r), a, b) => (a \in h[r].fn <=> b \in h[r].fn)

NodeOK(h, n, r) == IF h[r].is_leaf THEN LeafOK(n, h[r]) ELSE SonsOK(h, n, r)

HeapOK(h, n) ==
    /\ h \in Seq(Shape(n))
    /\ \A r \in DOMAIN h : NodeOK(h, n, r) /\ Independent(h, n, r)

\* What some nodes compute together, and the cofactors of an array.
Disj(h, bs) == UNION {h[bs[i]].fn : i \in DOMAIN bs}
Cof(h, bs, v, b) ==
    [i \in DOMAIN bs |->
        IF h[bs[i]].var_id # v THEN bs[i]
        ELSE IF b THEN h[bs[i]].true_son ELSE h[bs[i]].false_son]

-----------------------------------------------------------------------------
(* Sequences                                                               *)

LEMMA MembersOfSeq == ASSUME NEW S, NEW s \in Seq(S) PROVE \A n \in 1 .. Len(s) : s[n] \in S
OBVIOUS

LEMMA SeqOfMore == ASSUME NEW S, NEW T, S \subseteq T, NEW s \in Seq(S) PROVE s \in Seq(T)
OBVIOUS

LEMMA SeqFacts == ASSUME NEW S, NEW s \in Seq(S) PROVE DOMAIN s = 1 .. Len(s) /\ Len(s) \in Nat
OBVIOUS

LEMMA AppendFacts ==
  ASSUME NEW S, NEW s \in Seq(S), NEW x, NEW t, t = Append(s, x)
  PROVE  /\ DOMAIN s = 1 .. Len(s) /\ Len(s) \in Nat
         /\ DOMAIN t = 1 .. Len(s) + 1 /\ Len(t) = Len(s) + 1
         /\ \A i \in DOMAIN s : i \in DOMAIN t /\ t[i] = s[i]
         /\ t[Len(s) + 1] = x
         /\ x \in S => t \in Seq(S)
OBVIOUS

\* t is s without its last element.
IsFront(S, s, t) ==
    /\ t \in Seq(S) /\ Len(t) = Len(s) - 1 /\ Len(t) \in Nat
    /\ Len(s) \in Nat /\ Len(s) >= 1
    /\ \A i \in 1 .. Len(s) - 1 : t[i] = s[i]

LEMMA FrontFacts ==
  ASSUME NEW S, NEW s \in Seq(S), s # <<>>, NEW t, t = SubSeq(s, 1, Len(s) - 1)
  PROVE  IsFront(S, s, t)
<1>1. Len(s) \in Nat /\ Len(s) >= 1 /\ DOMAIN s = 1 .. Len(s)
  OBVIOUS
<1>2. \A i \in 1 .. Len(s) - 1 : s[i] \in S
  BY <1>1, MembersOfSeq
<1>3. /\ t \in Seq(S) /\ Len(t) = Len(s) - 1
      /\ \A i \in 1 .. Len(s) - 1 : t[i] = s[i]
  <2>1. \A i \in 1 .. Len(s) - 1 : s[1 + i - 1] = s[i]
    BY <1>1
  <2> QED BY <1>1, <2>1
<1> QED BY <1>1, <1>3, SeqFacts DEF IsFront

-----------------------------------------------------------------------------
(* The heap                                                                *)

LEMMA HeapFacts ==
  ASSUME NEW n \in Nat, NEW h, HeapOK(h, n)
  PROVE  /\ DOMAIN h = 1 .. Len(h) /\ Len(h) \in Nat
         /\ \A r \in DOMAIN h : h[r] \in Shape(n) /\ Rank(h, n, r) \in 0 .. n + 1 /\ h[r].fn \subseteq Inputs(n)
<1>1. DOMAIN h = 1 .. Len(h) /\ Len(h) \in Nat
  BY SeqFacts DEF HeapOK
<1>2. \A r \in DOMAIN h : h[r] \in Shape(n)
  BY <1>1, MembersOfSeq DEF HeapOK
<1>3. ASSUME NEW r \in DOMAIN h PROVE Rank(h, n, r) \in 0 .. n + 1 /\ h[r].fn \subseteq Inputs(n)
  BY <1>2 DEF Rank, Shape
<1> QED BY <1>1, <1>2, <1>3

LEMMA InputExists == ASSUME NEW n \in Nat PROVE Inputs(n) # {}
<1>1. [v \in 1..n |-> TRUE] \in Inputs(n)
  BY DEF Inputs
<1> QED BY <1>1

\* A new node x at the end leaves the others what they are.
Grown(h, n, x, g) ==
    /\ g \in Seq(Shape(n)) /\ DOMAIN g = 1 .. Len(h) + 1 /\ Len(g) = Len(h) + 1
    /\ g[Len(h) + 1] = x
    /\ \A r \in DOMAIN h : r \in DOMAIN g /\ g[r] = h[r] /\ Rank(g, n, r) = Rank(h, n, r)
    /\ \A r \in DOMAIN h : NodeOK(g, n, r) /\ Independent(g, n, r)

LEMMA GrownHeap ==
  ASSUME NEW n \in Nat, NEW h, HeapOK(h, n), NEW x \in Shape(n), NEW g, g = Append(h, x)
  PROVE  Grown(h, n, x, g)
<1>1. /\ g \in Seq(Shape(n)) /\ DOMAIN g = 1 .. Len(h) + 1 /\ Len(g) = Len(h) + 1
      /\ g[Len(h) + 1] = x /\ DOMAIN h = 1 .. Len(h) /\ Len(h) \in Nat
      /\ \A r \in DOMAIN h : r \in DOMAIN g /\ g[r] = h[r]
  BY AppendFacts DEF HeapOK
<1>2. \A r \in DOMAIN h : Rank(g, n, r) = Rank(h, n, r)
  BY <1>1 DEF Rank
<1>3. ASSUME NEW r \in DOMAIN h PROVE NodeOK(g, n, r)
  <2>1. CASE h[r].is_leaf
    BY <1>1, <2>1 DEF HeapOK, NodeOK
  <2>2. CASE ~h[r].is_leaf
    <3>1. SonsOK(h, n, r) /\ g[r] = h[r]
      BY <1>1, <2>2 DEF HeapOK, NodeOK
    <3>2. h[r].true_son \in DOMAIN h /\ h[r].false_son \in DOMAIN h
      BY <1>1, <3>1 DEF SonsOK
    <3>3. \A v : Choice(g, n, v, h[r].true_son, h[r].false_son) = Choice(h, n, v, h[r].true_son, h[r].false_son)
      BY <1>1, <3>2 DEF Choice
    <3> QED BY <1>2, <2>2, <3>1, <3>2, <3>3 DEF SonsOK, NodeOK
  <2> QED BY <2>1, <2>2
<1>4. \A r \in DOMAIN h : Independent(g, n, r)
  BY <1>1, <1>2 DEF HeapOK, Independent
<1> QED BY <1>1, <1>2, <1>3, <1>4 DEF Grown

LEMMA LeafAdded ==
  ASSUME NEW n \in Nat, NEW h, HeapOK(h, n), NEW b \in BOOLEAN
  PROVE  LeafNode(n, b) \in Shape(n) /\ HeapOK(Append(h, LeafNode(n, b)), n)
<1> DEFINE x == LeafNode(n, b)
           g == Append(h, x)
<1>1. x \in Shape(n) /\ x.is_leaf /\ LeafOK(n, x)
  BY DEF LeafNode, Shape, LeafOK
<1>g. g = Append(h, x)
  OBVIOUS
<1> HIDE DEF x, g
<1>2. /\ g \in Seq(Shape(n)) /\ DOMAIN g = 1 .. Len(h) + 1 /\ g[Len(h) + 1] = x
      /\ \A r \in DOMAIN h : NodeOK(g, n, r) /\ Independent(g, n, r)
    <2>1. Grown(h, n, x, g)
    BY <1>1, <1>g, GrownHeap
  <2> QED BY <2>1 DEF Grown
<1>3. \A r \in DOMAIN g : r \in DOMAIN h \/ r = Len(h) + 1
  BY <1>2, HeapFacts
<1>4. Independent(g, n, Len(h) + 1)
  BY <1>1, <1>2 DEF Independent, LeafOK
<1>5. HeapOK(g, n)
  BY <1>1, <1>2, <1>3, <1>4 DEF HeapOK, NodeOK
<1> QED BY <1>1, <1>5 DEF g, x

LEMMA InnerAdded ==
  ASSUME NEW n \in Nat, NEW h, HeapOK(h, n), NEW v \in 1..n, NEW t \in DOMAIN h, NEW f \in DOMAIN h,
         v < Rank(h, n, t), v < Rank(h, n, f)
  PROVE  InnerNode(h, n, v, t, f) \in Shape(n) /\ HeapOK(Append(h, InnerNode(h, n, v, t, f)), n)
<1> DEFINE x == InnerNode(h, n, v, t, f)
           g == Append(h, x)
<1>0. DOMAIN h = 1 .. Len(h) /\ Len(h) \in Nat
  BY HeapFacts
<1>1. /\ x \in Shape(n) /\ ~x.is_leaf /\ x.var_id = v /\ x.true_son = t /\ x.false_son = f
      /\ x.fn = Choice(h, n, v, t, f)
  BY <1>0 DEF InnerNode, Shape, Choice
<1>g. g = Append(h, x)
  OBVIOUS
<1> HIDE DEF x, g
<1>2. /\ g \in Seq(Shape(n)) /\ DOMAIN g = 1 .. Len(h) + 1 /\ g[Len(h) + 1] = x
      /\ \A r \in DOMAIN h : g[r] = h[r] /\ Rank(g, n, r) = Rank(h, n, r)
      /\ \A r \in DOMAIN h : NodeOK(g, n, r) /\ Independent(g, n, r)
    <2>1. Grown(h, n, x, g)
    BY <1>1, <1>g, GrownHeap
  <2> QED BY <2>1 DEF Grown
<1>3. \A r \in DOMAIN g : r \in DOMAIN h \/ r = Len(h) + 1
  BY <1>0, <1>2
<1>4. SonsOK(g, n, Len(h) + 1)
  <2>1. Choice(g, n, v, t, f) = Choice(h, n, v, t, f)
    BY <1>2 DEF Choice
  <2> QED BY <1>0, <1>1, <1>2, <2>1 DEF SonsOK
<1>5. Independent(g, n, Len(h) + 1)
  <2> SUFFICES ASSUME NEW a \in Inputs(n), NEW b \in Inputs(n), SameFrom(n, v, a, b)
               PROVE  a \in x.fn <=> b \in x.fn
    BY <1>1, <1>2 DEF Independent, Rank
  <2>1. a[v] = b[v]
    BY DEF SameFrom
  <2>2. ASSUME NEW q \in {t, f} PROVE a \in h[q].fn <=> b \in h[q].fn
    <3>1. SameFrom(n, Rank(h, n, q), a, b)
      <4>1. Rank(h, n, q) \in Int /\ v < Rank(h, n, q)
        BY HeapFacts
      <4> QED BY <4>1 DEF SameFrom
    <3> QED BY <3>1 DEF HeapOK, Independent
  <2> QED BY <1>1, <2>1, <2>2 DEF Choice
<1>6. HeapOK(g, n)
  BY <1>1, <1>2, <1>3, <1>4, <1>5 DEF HeapOK, NodeOK
<1> QED BY <1>1, <1>6 DEF g, x

\* The flag of travelBDD touches nothing else.
Marked(h, r) == [h EXCEPT ![r].is_visited = TRUE]

IsMarked(h, n, r, g) ==
    /\ HeapOK(g, n) /\ DOMAIN g = DOMAIN h
    /\ \A q \in DOMAIN h : /\ g[q].is_leaf = h[q].is_leaf
                           /\ g[q].fn = h[q].fn
                           /\ g[q].is_visited = (q = r \/ h[q].is_visited)

LEMMA MarkedHeap ==
  ASSUME NEW n \in Nat, NEW h, HeapOK(h, n), NEW r \in DOMAIN h, NEW g, g = Marked(h, r)
  PROVE  IsMarked(h, n, r, g)
<1>1. /\ DOMAIN h = 1 .. Len(h) /\ Len(h) \in Nat
      /\ \A q \in DOMAIN h : h[q] \in Shape(n)
  BY HeapFacts
<1>2. \A q \in DOMAIN h : /\ g[q] \in Shape(n)
                          /\ g[q].is_leaf = h[q].is_leaf /\ g[q].leaf_value = h[q].leaf_value
                          /\ g[q].var_id = h[q].var_id
                          /\ g[q].true_son = h[q].true_son /\ g[q].false_son = h[q].false_son
                          /\ g[q].fn = h[q].fn
                          /\ g[q].is_visited = (q = r \/ h[q].is_visited)
  BY <1>1 DEF Marked, Shape
<1>3. g \in Seq(Shape(n)) /\ DOMAIN g = DOMAIN h
  <2>1. DOMAIN g = 1 .. Len(h)
    BY <1>1 DEF Marked
  <2>2. g \in [1 .. Len(h) -> Shape(n)]
    <3>1. g = [q \in DOMAIN g |-> g[q]]
      BY DEF Marked
    <3> QED BY <1>1, <1>2, <2>1, <3>1
  <2> QED BY <1>1, <2>1, <2>2
<1>4. \A q \in DOMAIN h : Rank(g, n, q) = Rank(h, n, q)
  BY <1>2 DEF Rank
<1>5. ASSUME NEW q \in DOMAIN g PROVE NodeOK(g, n, q)
  <2>1. CASE h[q].is_leaf
    BY <1>2, <1>3, <2>1 DEF HeapOK, LeafOK, NodeOK
  <2>2. CASE ~h[q].is_leaf
    <3>1. SonsOK(h, n, q)
      BY <1>3, <2>2 DEF HeapOK, NodeOK
    <3>2. h[q].true_son \in DOMAIN h /\ h[q].false_son \in DOMAIN h
      BY <1>1, <1>3, <3>1 DEF SonsOK
    <3>3. \A v : Choice(g, n, v, h[q].true_son, h[q].false_son) = Choice(h, n, v, h[q].true_son, h[q].false_son)
      BY <1>2, <3>2 DEF Choice
    <3> QED BY <1>2, <1>3, <1>4, <2>2, <3>1, <3>2, <3>3 DEF SonsOK, NodeOK
  <2> QED BY <2>1, <2>2
<1>6. \A q \in DOMAIN g : Independent(g, n, q)
  BY <1>2, <1>3, <1>4 DEF HeapOK, Independent
<1> QED BY <1>2, <1>3, <1>5, <1>6 DEF HeapOK, IsMarked

-----------------------------------------------------------------------------
(* Arrays of nodes                                                         *)

Within(h, bs) == \A i \in DOMAIN bs : bs[i] \in DOMAIN h
AllInner(h, bs, v) == \A i \in DOMAIN bs : ~h[bs[i]].is_leaf /\ v <= h[bs[i]].var_id

LEMMA CofFacts ==
  ASSUME NEW n \in Nat, NEW h, HeapOK(h, n), NEW bs, Within(h, bs), NEW v \in 1..n, NEW b \in BOOLEAN
  PROVE  /\ DOMAIN Cof(h, bs, v, b) = DOMAIN bs /\ Within(h, Cof(h, bs, v, b))
         /\ AllInner(h, bs, v) => \A i \in DOMAIN bs : v < Rank(h, n, Cof(h, bs, v, b)[i])
<1>0. DOMAIN h = 1 .. Len(h) /\ Len(h) \in Nat
  BY HeapFacts
<1>1. DOMAIN Cof(h, bs, v, b) = DOMAIN bs
  BY DEF Cof
<1>2. ASSUME NEW i \in DOMAIN bs
      PROVE  /\ Cof(h, bs, v, b)[i] \in DOMAIN h
             /\ AllInner(h, bs, v) => v < Rank(h, n, Cof(h, bs, v, b)[i])
  <2>0. bs[i] \in DOMAIN h /\ NodeOK(h, n, bs[i])
    BY DEF Within, HeapOK
  <2>1. CASE h[bs[i]].var_id # v
    <3>1. Cof(h, bs, v, b)[i] = bs[i]
      BY <2>1 DEF Cof
    <3>2. AllInner(h, bs, v) => v < Rank(h, n, bs[i])
      <4>1. h[bs[i]].var_id \in Int
        BY <2>0, HeapFacts DEF Shape
      <4> QED BY <2>1, <4>1 DEF AllInner, Rank
    <3> QED BY <2>0, <3>1, <3>2
  <2>2. CASE h[bs[i]].var_id = v
    <3>1. SonsOK(h, n, bs[i])
      BY <2>0, <2>2 DEF NodeOK, LeafOK
    <3>2. Cof(h, bs, v, b)[i] \in {h[bs[i]].true_son, h[bs[i]].false_son}
      BY <2>2 DEF Cof
    <3> QED BY <1>0, <2>0, <2>2, <3>1, <3>2 DEF SonsOK
  <2> QED BY <2>1, <2>2
<1> QED BY <1>1, <1>2 DEF Within

\* A new node changes nothing for the arrays that were there.
Kept(h, n, g, bs) ==
    /\ Within(g, bs) /\ Disj(g, bs) = Disj(h, bs)
    /\ \A v \in 1..n : /\ Disj(g, Cof(g, bs, v, TRUE)) = Disj(h, Cof(h, bs, v, TRUE))
                      /\ Disj(g, Cof(g, bs, v, FALSE)) = Disj(h, Cof(h, bs, v, FALSE))

LEMMA ArrayKept ==
  ASSUME NEW n \in Nat, NEW h, HeapOK(h, n), NEW x, NEW g, Grown(h, n, x, g),
         NEW bs, Within(h, bs)
  PROVE  Kept(h, n, g, bs)
<1>1. \A r \in DOMAIN h : r \in DOMAIN g /\ g[r] = h[r]
  BY DEF Grown
<1>2. \A cs : Within(h, cs) => Within(g, cs) /\ Disj(g, cs) = Disj(h, cs)
  BY <1>1 DEF Within, Disj
<1>3. ASSUME NEW v \in 1..n, NEW b \in BOOLEAN PROVE Disj(g, Cof(g, bs, v, b)) = Disj(h, Cof(h, bs, v, b))
  <2>1. Cof(g, bs, v, b) = Cof(h, bs, v, b)
    BY <1>1 DEF Cof, Within
  <2> QED BY <1>2, <2>1, CofFacts
<1> QED BY <1>2, <1>3 DEF Kept

\* Shannon's expansion of a disjunction.
IsBranch(h, bs, v, b, t) == h[t].fn = Disj(h, Cof(h, bs, v, b))
Joins(h, n, bs, v, t, f) == Choice(h, n, v, t, f) = Disj(h, bs)

LEMMA Shannon ==
  ASSUME NEW n \in Nat, NEW h, HeapOK(h, n), NEW bs, Within(h, bs), NEW v \in 1..n, AllInner(h, bs, v),
         NEW t, IsBranch(h, bs, v, TRUE, t), NEW f, IsBranch(h, bs, v, FALSE, f)
  PROVE  Joins(h, n, bs, v, t, f)
<1>1. ASSUME NEW a \in Inputs(n), NEW i \in DOMAIN bs
      PROVE  a \in h[bs[i]].fn <=> a \in h[Cof(h, bs, v, a[v])[i]].fn
  <2>0. bs[i] \in DOMAIN h /\ SonsOK(h, n, bs[i])
    BY DEF Within, AllInner, HeapOK, NodeOK
  <2>1. CASE h[bs[i]].var_id # v
    BY <2>1 DEF Cof
  <2>2. CASE h[bs[i]].var_id = v
    <3>1. h[bs[i]].fn = Choice(h, n, v, h[bs[i]].true_son, h[bs[i]].false_son)
      BY <2>0, <2>2 DEF SonsOK
    <3>2. Cof(h, bs, v, a[v])[i] = IF a[v] THEN h[bs[i]].true_son ELSE h[bs[i]].false_son
      BY <2>2 DEF Cof
    <3> QED BY <3>1, <3>2 DEF Choice
  <2> QED BY <2>1, <2>2
<1>2. ASSUME NEW a \in Inputs(n) PROVE a \in Disj(h, bs) <=> a \in Disj(h, Cof(h, bs, v, a[v]))
  <2>1. DOMAIN Cof(h, bs, v, a[v]) = DOMAIN bs
    BY DEF Cof
  <2> QED BY <1>1, <2>1 DEF Disj
<1>3. ASSUME NEW a \in Inputs(n) PROVE a \in h[IF a[v] THEN t ELSE f].fn <=> a \in Disj(h, bs)
  <2>1. a[v] \in BOOLEAN
    BY DEF Inputs
  <2>2. CASE a[v] = TRUE
    BY <1>2, <2>2 DEF IsBranch
  <2>3. CASE a[v] = FALSE
    BY <1>2, <2>3 DEF IsBranch
  <2> QED BY <2>1, <2>2, <2>3
<1>4. Disj(h, bs) \subseteq Inputs(n)
  BY HeapFacts DEF Disj, Within
<1> QED BY <1>3, <1>4 DEF Choice, Joins

-----------------------------------------------------------------------------
(* The calls of OR                                                         *)

Frame(R, D, n) ==
    [bdds : UNION {[I -> R] : I \in (SUBSET D) \ {{}}}, at : {"entry", "true", "false"},
     var : 0..n, true_son : R \cup {0}]

\* What the call in frame k waits for; the caller of all waits for out.
Wanted(h, out, s, k) ==
    IF k = 0 THEN out ELSE Disj(h, Cof(h, s[k].bdds, s[k].var, s[k].at = "true"))

\* A call that has chosen its variable.
Chosen(h, n, f) ==
    /\ f.var \in 1..n /\ AllInner(h, f.bdds, f.var)
    /\ \E i \in DOMAIN f.bdds : h[f.bdds[i]].var_id = f.var

\* A call whose TRUE branch has returned.
HalfDone(h, n, f) ==
    /\ f.true_son \in DOMAIN h
    /\ h[f.true_son].fn = Disj(h, Cof(h, f.bdds, f.var, TRUE))
    /\ f.var < Rank(h, n, f.true_son)

Above(h, n, s, k, bs) == k > 1 => \A i \in DOMAIN bs : s[k - 1].var < Rank(h, n, bs[i])

CallOK(h, n, out, s, r, k) ==
    /\ s[k].at = "entry" <=> (k = Len(s) /\ r = 0)
    /\ Disj(h, s[k].bdds) = Wanted(h, out, s, k - 1)
    /\ Above(h, n, s, k, s[k].bdds)
    /\ s[k].at # "entry" => Chosen(h, n, s[k])
    /\ s[k].at = "false" => HalfDone(h, n, s[k])

ReturnOK(h, n, out, s, r) == r # 0 =>
    /\ h[r].fn = Wanted(h, out, s, Len(s))
    /\ Len(s) > 0 => s[Len(s)].var < Rank(h, n, r)

OrOK(h, n, D, out, s, r) ==
    /\ s \in Seq(Frame(DOMAIN h, D, n)) /\ r \in DOMAIN h \cup {0}
    /\ \A k \in 1..Len(s) : CallOK(h, n, out, s, r, k)
    /\ ReturnOK(h, n, out, s, r)

LEMMA FrameFacts ==
  ASSUME NEW R, NEW D, NEW n \in Nat, NEW f \in Frame(R, D, n)
  PROVE  /\ \A i \in DOMAIN f.bdds : f.bdds[i] \in R /\ i \in D
         /\ DOMAIN f.bdds # {} /\ f.bdds = [i \in DOMAIN f.bdds |-> f.bdds[i]]
         /\ f.at \in {"entry", "true", "false"} /\ f.var \in 0..n /\ f.true_son \in R \cup {0}
<1>1. f.bdds \in UNION {[I -> R] : I \in (SUBSET D) \ {{}}}
  BY DEF Frame
<1>2. PICK I \in (SUBSET D) \ {{}} : f.bdds \in [I -> R]
  BY <1>1
<1>3. DOMAIN f.bdds = I /\ f.bdds = [i \in I |-> f.bdds[i]] /\ \A i \in I : f.bdds[i] \in R /\ i \in D
  BY <1>2
<1>4. I # {}
  BY <1>2
<1>5. f.at \in {"entry", "true", "false"} /\ f.var \in 0..n /\ f.true_son \in R \cup {0}
  BY DEF Frame
<1> QED BY <1>3, <1>4, <1>5

LEMMA FrameIntro ==
  ASSUME NEW R, NEW D, NEW n \in Nat, NEW I \in SUBSET D, I # {}, NEW bs \in [I -> R],
         NEW at \in {"entry", "true", "false"}, NEW v \in 0..n, NEW t \in R \cup {0}
  PROVE  [bdds |-> bs, at |-> at, var |-> v, true_son |-> t] \in Frame(R, D, n)
<1>1. I \in (SUBSET D) \ {{}} /\ bs \in [I -> R]
  OBVIOUS
<1>2. bs \in UNION {[J -> R] : J \in (SUBSET D) \ {{}}}
  BY <1>1, Zenon
<1> QED BY <1>2 DEF Frame

\* A caller's state stays true when the heap grows.
LEMMA OrGrow ==
  ASSUME NEW n \in Nat, NEW h, HeapOK(h, n), NEW x, NEW g, Grown(h, n, x, g),
         NEW D, NEW out, NEW s, NEW r, OrOK(h, n, D, out, s, r)
  PROVE  OrOK(g, n, D, out, s, r)
<1> DEFINE FH == Frame(DOMAIN h, D, n)
           FG == Frame(DOMAIN g, D, n)
<1>0. \A q \in DOMAIN h : q \in DOMAIN g /\ g[q] = h[q] /\ Rank(g, n, q) = Rank(h, n, q)
  BY DEF Grown
<1>1. s \in Seq(FG)
  <2>1. FH \subseteq FG
    <3>1. ASSUME NEW f \in FH PROVE f.bdds \in UNION {[I -> DOMAIN g] : I \in (SUBSET D) \ {{}}}
      <4>1. f.bdds \in UNION {[I -> DOMAIN h] : I \in (SUBSET D) \ {{}}}
        BY DEF Frame
      <4>2. PICK I \in (SUBSET D) \ {{}} : f.bdds \in [I -> DOMAIN h]
        BY <4>1
      <4>3. f.bdds \in [I -> DOMAIN g]
        BY <1>0, <4>2
      <4> QED BY <4>3
    <3> QED BY <1>0, <3>1 DEF Frame
  <2> QED BY <2>1, SeqOfMore DEF OrOK
<1>2. Len(s) \in Nat /\ \A k \in 1..Len(s) : s[k] \in FH
  BY MembersOfSeq, SeqFacts DEF OrOK
<1> HIDE DEF FH, FG
<1>3. \A k \in 1..Len(s) : Within(h, s[k].bdds)
  BY <1>2, FrameFacts DEF FH, Within
<1>4. ASSUME NEW k \in 1..Len(s), s[k].at # "entry"
      PROVE  Wanted(g, out, s, k) = Wanted(h, out, s, k)
  <2>1. s[k].var \in 1..n
    BY <1>4 DEF OrOK, CallOK, Chosen
  <2>2. Within(h, s[k].bdds)
    BY <1>3
  <2>3. /\ Disj(g, Cof(g, s[k].bdds, s[k].var, TRUE)) = Disj(h, Cof(h, s[k].bdds, s[k].var, TRUE))
        /\ Disj(g, Cof(g, s[k].bdds, s[k].var, FALSE)) = Disj(h, Cof(h, s[k].bdds, s[k].var, FALSE))
    <3>1. PICK bs, v : bs = s[k].bdds /\ v = s[k].var
      OBVIOUS
    <3>2. Within(h, bs) /\ v \in 1..n
      BY <2>1, <2>2, <3>1
    <3>3. Disj(g, Cof(g, bs, v, TRUE)) = Disj(h, Cof(h, bs, v, TRUE))
          /\ Disj(g, Cof(g, bs, v, FALSE)) = Disj(h, Cof(h, bs, v, FALSE))
      <4>1. Kept(h, n, g, bs)
        BY <3>2, ArrayKept
      <4> QED BY <3>2, <4>1 DEF Kept
    <3> QED BY <3>1, <3>3
  <2>4. Disj(g, Cof(g, s[k].bdds, s[k].var, s[k].at = "true")) = Disj(h, Cof(h, s[k].bdds, s[k].var, s[k].at = "true"))
    <3>1. CASE s[k].at = "true"
      <4>1. (s[k].at = "true") = TRUE
        BY <3>1
      <4> QED BY <2>3, <4>1
    <3>2. CASE s[k].at # "true"
      <4>1. (s[k].at = "true") = FALSE
        BY <3>2
      <4> QED BY <2>3, <4>1
    <3> QED BY <3>1, <3>2
  <2> QED BY <2>4 DEF Wanted
<1>5. ASSUME NEW k \in 1..Len(s) PROVE CallOK(g, n, out, s, r, k)
  <2>1. CallOK(h, n, out, s, r, k) /\ Within(h, s[k].bdds)
    BY <1>3 DEF OrOK
  <2>2. Disj(g, s[k].bdds) = Wanted(g, out, s, k - 1)
    <3>0. PICK bs : bs = s[k].bdds
      OBVIOUS
    <3>1. Disj(g, s[k].bdds) = Wanted(h, out, s, k - 1)
      <4>1. Within(h, bs)
        BY <2>1, <3>0
      <4>2. Disj(g, bs) = Disj(h, bs)
        <5>1. Kept(h, n, g, bs)
          BY <4>1, ArrayKept
        <5> QED BY <5>1 DEF Kept
      <4> QED BY <2>1, <3>0, <4>2 DEF CallOK
    <3>2. CASE k = 1
      BY <3>1, <3>2 DEF Wanted
    <3>3. CASE k # 1
      <4>1. k - 1 \in 1..Len(s) /\ k - 1 # Len(s)
        BY <1>2, <3>3
      <4>2. s[k - 1].at # "entry"
        BY <4>1 DEF OrOK, CallOK
      <4> QED BY <1>4, <3>1, <4>1, <4>2
    <3> QED BY <3>2, <3>3
  <2>3. Above(g, n, s, k, s[k].bdds)
    BY <1>0, <2>1 DEF CallOK, Above, Within
  <2>4. s[k].at # "entry" => Chosen(g, n, s[k])
    BY <1>0, <2>1 DEF CallOK, Chosen, AllInner, Within
  <2>5. s[k].at = "false" => HalfDone(g, n, s[k])
    <3> SUFFICES ASSUME s[k].at = "false" PROVE HalfDone(g, n, s[k])
      OBVIOUS
    <3>1. HalfDone(h, n, s[k]) /\ s[k].var \in 1..n
      BY <2>1 DEF CallOK, Chosen
    <3>2. Disj(g, Cof(g, s[k].bdds, s[k].var, TRUE)) = Disj(h, Cof(h, s[k].bdds, s[k].var, TRUE))
      <4>1. PICK bs, v : bs = s[k].bdds /\ v = s[k].var
        OBVIOUS
      <4>2. Within(h, bs) /\ v \in 1..n
        BY <2>1, <3>1, <4>1
      <4>3. Disj(g, Cof(g, bs, v, TRUE)) = Disj(h, Cof(h, bs, v, TRUE))
        <5>1. Kept(h, n, g, bs)
          BY <4>2, ArrayKept
        <5> QED BY <4>2, <5>1 DEF Kept
      <4> QED BY <4>1, <4>3
    <3> QED BY <1>0, <3>1, <3>2 DEF HalfDone
  <2> QED BY <2>1, <2>2, <2>3, <2>4, <2>5 DEF CallOK
<1>6. ReturnOK(g, n, out, s, r)
  <2> SUFFICES ASSUME r # 0 PROVE /\ g[r].fn = Wanted(g, out, s, Len(s))
                                  /\ Len(s) > 0 => s[Len(s)].var < Rank(g, n, r)
    BY DEF ReturnOK
  <2>1. /\ r \in DOMAIN h /\ h[r].fn = Wanted(h, out, s, Len(s))
        /\ Len(s) > 0 => s[Len(s)].var < Rank(h, n, r)
    BY DEF OrOK, ReturnOK
  <2>2. Wanted(g, out, s, Len(s)) = Wanted(h, out, s, Len(s))
    <3>1. CASE Len(s) = 0
      BY <3>1 DEF Wanted
    <3>2. CASE Len(s) > 0
      <4>1. Len(s) \in 1..Len(s)
        BY <1>2, <3>2
      <4>2. s[Len(s)].at # "entry"
        BY <4>1 DEF OrOK, CallOK
      <4> QED BY <1>4, <4>1, <4>2
    <3> QED BY <1>2, <3>1, <3>2
  <2> QED BY <1>0, <2>1, <2>2
<1> QED BY <1>0, <1>1, <1>5, <1>6 DEF OrOK, FG

\* The top call returns q.
LEMMA OrPop ==
  ASSUME NEW n \in Nat, NEW h, HeapOK(h, n), NEW D, NEW out, NEW s, NEW r, OrOK(h, n, D, out, s, r),
         s # <<>>, NEW q \in DOMAIN h, q # 0, h[q].fn = Disj(h, s[Len(s)].bdds),
         Len(s) > 1 => s[Len(s) - 1].var < Rank(h, n, q)
  PROVE  OrOK(h, n, D, out, SubSeq(s, 1, Len(s) - 1), q)
<1>0. PICK p : p = SubSeq(s, 1, Len(s) - 1)
  OBVIOUS
<1> DEFINE F == Frame(DOMAIN h, D, n)
<1>1. /\ p \in Seq(F) /\ Len(p) = Len(s) - 1 /\ Len(p) \in Nat
      /\ Len(s) \in Nat /\ Len(s) >= 1 /\ \A i \in 1..Len(p) : p[i] = s[i]
  <2>1. s \in Seq(F)
    BY DEF OrOK
  <2> HIDE DEF F
  <2>2. IsFront(F, s, p)
    BY <1>0, <2>1, FrontFacts
  <2> QED BY <2>2 DEF IsFront
<1>2. \A k \in 0..Len(p) : Wanted(h, out, p, k) = Wanted(h, out, s, k)
  BY <1>1 DEF Wanted
<1>3. ASSUME NEW k \in 1..Len(p) PROVE CallOK(h, n, out, p, q, k)
  <2>1. k \in 1..Len(s) /\ k # Len(s) /\ p[k] = s[k] /\ k - 1 \in 0..Len(p)
    BY <1>1
  <2>4. Wanted(h, out, p, k - 1) = Wanted(h, out, s, k - 1)
    BY <1>2, <2>1
  <2>2. CallOK(h, n, out, s, r, k)
    BY <2>1 DEF OrOK
  <2>3. Above(h, n, p, k, p[k].bdds)
    <3>1. k > 1 => p[k - 1] = s[k - 1]
      BY <1>1
    <3> QED BY <2>1, <2>2, <3>1 DEF CallOK, Above
  <2> QED BY <2>1, <2>2, <2>3, <2>4 DEF CallOK
<1>4. ReturnOK(h, n, out, p, q)
  <2>1. Disj(h, s[Len(s)].bdds) = Wanted(h, out, s, Len(s) - 1)
    BY <1>1 DEF OrOK, CallOK
  <2>2. Len(p) > 0 => p[Len(p)] = s[Len(s) - 1]
    BY <1>1
  <2>3. h[q].fn = Wanted(h, out, p, Len(p))
    BY <1>1, <1>2, <2>1
  <2> QED BY <1>1, <2>2, <2>3 DEF ReturnOK
<1> QED BY <1>0, <1>1, <1>3, <1>4 DEF OrOK

\* The top call, now f, calls OR for one of its branches.
Entered(bs) == [bdds |-> bs, at |-> "entry", var |-> 0, true_son |-> 0]

LEMMA OrPush ==
  ASSUME NEW n \in Nat, NEW h, HeapOK(h, n), NEW D, NEW out, NEW s, NEW r, OrOK(h, n, D, out, s, r),
         s # <<>>, NEW f \in Frame(DOMAIN h, D, n), f.at # "entry", Chosen(h, n, f),
         Disj(h, f.bdds) = Disj(h, s[Len(s)].bdds), Above(h, n, s, Len(s), f.bdds),
         f.at = "false" => HalfDone(h, n, f)
  PROVE  OrOK(h, n, D, out,
              Append(Append(SubSeq(s, 1, Len(s) - 1), f), Entered(Cof(h, f.bdds, f.var, f.at = "true"))), 0)
<1> DEFINE F == Frame(DOMAIN h, D, n)
           bs == Cof(h, f.bdds, f.var, f.at = "true")
           c == Entered(bs)
<1>0. PICK p, s1, s2 : p = SubSeq(s, 1, Len(s) - 1) /\ s1 = Append(p, f) /\ s2 = Append(s1, c)
  OBVIOUS
<1>1. /\ p \in Seq(F) /\ Len(p) = Len(s) - 1 /\ Len(p) \in Nat
      /\ Len(s) \in Nat /\ Len(s) >= 1 /\ \A i \in 1..Len(p) : p[i] = s[i]
  <2>1. s \in Seq(F)
    BY DEF OrOK
  <2> HIDE DEF F
  <2>2. IsFront(F, s, p)
    BY <1>0, <2>1, FrontFacts
  <2> QED BY <2>2 DEF IsFront
<1>2. /\ \A i \in DOMAIN f.bdds : f.bdds[i] \in DOMAIN h /\ i \in D
      /\ DOMAIN f.bdds # {} /\ f.var \in 1..n
  BY FrameFacts DEF Chosen
<1>3. /\ DOMAIN bs = DOMAIN f.bdds /\ Within(h, bs)
      /\ \A i \in DOMAIN f.bdds : f.var < Rank(h, n, bs[i])
  <2>1. Within(h, f.bdds) /\ AllInner(h, f.bdds, f.var)
    BY <1>2 DEF Chosen, Within
  <2>2. (f.at = "true") \in BOOLEAN
    OBVIOUS
  <2>3. PICK fb, v, b : fb = f.bdds /\ v = f.var /\ b = (f.at = "true")
    OBVIOUS
  <2>4. Within(h, fb) /\ AllInner(h, fb, v) /\ v \in 1..n /\ b \in BOOLEAN
    BY <1>2, <2>1, <2>2, <2>3
  <2>5. /\ DOMAIN Cof(h, fb, v, b) = DOMAIN fb /\ Within(h, Cof(h, fb, v, b))
        /\ \A i \in DOMAIN fb : v < Rank(h, n, Cof(h, fb, v, b)[i])
    BY <2>4, CofFacts
  <2> QED BY <2>3, <2>5
<1>4. c \in F
  <2>1. bs \in [DOMAIN f.bdds -> DOMAIN h]
    <3>1. bs = [i \in DOMAIN f.bdds |-> bs[i]]
      BY DEF Cof
    <3> QED BY <1>3, <3>1 DEF Within
  <2>2. DOMAIN f.bdds \in SUBSET D
    BY <1>2
  <2> HIDE DEF bs
  <2> QED BY <1>2, <2>1, <2>2, FrameIntro DEF Entered
<1> HIDE DEF F, bs, c
<1>5. /\ s2 \in Seq(F) /\ Len(s2) = Len(s) + 1 /\ s2[Len(s)] = f /\ s2[Len(s) + 1] = c
      /\ \A i \in 1..Len(s) - 1 : s2[i] = s[i]
  <2>1. /\ s1 \in Seq(F) /\ Len(s1) = Len(s) /\ s1[Len(s)] = f
        /\ \A i \in 1..Len(s) - 1 : s1[i] = s[i]
    BY <1>0, <1>1, AppendFacts DEF F
  <2> QED BY <1>0, <1>1, <1>4, <2>1, AppendFacts
<1>6. \A k \in 0..Len(s) - 1 : Wanted(h, out, s2, k) = Wanted(h, out, s, k)
  BY <1>1, <1>5 DEF Wanted
<1>7. ASSUME NEW k \in 1..Len(s2) PROVE CallOK(h, n, out, s2, 0, k)
  <2>1. CASE k \in 1..Len(s) - 1
    <3>1. /\ k \in 1..Len(s) /\ k # Len(s) /\ s2[k] = s[k] /\ k # Len(s2)
          /\ Wanted(h, out, s2, k - 1) = Wanted(h, out, s, k - 1)
      BY <1>1, <1>5, <1>6, <2>1
    <3>2. CallOK(h, n, out, s, r, k)
      BY <3>1 DEF OrOK
    <3>3. Above(h, n, s2, k, s2[k].bdds)
      <4>1. k > 1 => s2[k - 1] = s[k - 1]
        BY <1>1, <1>5, <2>1
      <4> QED BY <3>1, <3>2, <4>1 DEF CallOK, Above
    <3> QED BY <3>1, <3>2, <3>3 DEF CallOK
  <2>2. CASE k = Len(s)
    <3>1. s2[k] = f /\ k # Len(s2) /\ Wanted(h, out, s2, k - 1) = Wanted(h, out, s, k - 1)
      BY <1>1, <1>5, <1>6, <2>2
    <3>2. CallOK(h, n, out, s, r, k)
      BY <1>1, <2>2 DEF OrOK
    <3>3. Above(h, n, s2, k, f.bdds)
      <4>1. k > 1 => s2[k - 1] = s[k - 1]
        BY <1>1, <1>5, <2>2
      <4> QED BY <2>2, <4>1 DEF Above
    <3> QED BY <2>2, <3>1, <3>2, <3>3 DEF CallOK
  <2>3. CASE k = Len(s) + 1
    <3>1. s2[k] = c /\ k = Len(s2) /\ s2[k - 1] = f /\ k - 1 = Len(s) /\ Len(s) # 0
      BY <1>1, <1>5, <2>3
    <3>2. c.bdds = bs /\ c.at = "entry"
      BY DEF c, Entered
    <3>3. Wanted(h, out, s2, k - 1) = Disj(h, bs)
      BY <3>1 DEF Wanted, bs
    <3>4. Above(h, n, s2, k, bs)
      BY <1>3, <3>1 DEF Above
    <3> QED BY <3>1, <3>2, <3>3, <3>4 DEF CallOK
  <2> QED BY <1>1, <1>5, <2>1, <2>2, <2>3
<1>8. OrOK(h, n, D, out, s2, 0)
  BY <1>5, <1>7 DEF OrOK, ReturnOK, F
<1> QED BY <1>0, <1>8 DEF c, bs

-----------------------------------------------------------------------------
(* travelBDD                                                               *)

\* A node from which a FALSE leaf can be reached.
Open(h, n, r) == h[r].fn # Inputs(n)

TravelOK(h, n, rt, td) ==
    /\ rt \in DOMAIN h /\ td \in Seq(DOMAIN h)
    /\ \A i \in 1..Len(td) : Open(h, n, td[i]) => Open(h, n, rt)
    /\ Open(h, n, rt) => \E i \in 1..Len(td) : Open(h, n, td[i])
    /\ \A r \in DOMAIN h : ~h[r].is_leaf /\ h[r].is_visited /\ Open(h, n, r) =>
            \E i \in 1..Len(td) : td[i] < r /\ Open(h, n, td[i])

\* Every path is an input: what a son misses its node misses, for some choice of its variable.
LEMMA OpenSons ==
  ASSUME NEW n \in Nat, NEW h, HeapOK(h, n), NEW r \in DOMAIN h, ~h[r].is_leaf
  PROVE  Open(h, n, r) <=> Open(h, n, h[r].true_son) \/ Open(h, n, h[r].false_son)
<1> DEFINE v == h[r].var_id
           t == h[r].true_son
           f == h[r].false_son
<1>1. /\ DOMAIN h = 1 .. Len(h) /\ Len(h) \in Nat /\ SonsOK(h, n, r)
      /\ \A q \in DOMAIN h : h[q].fn \subseteq Inputs(n) /\ Rank(h, n, q) \in Int
  BY HeapFacts DEF HeapOK, NodeOK
<1>2. /\ v \in 1..n /\ t \in DOMAIN h /\ f \in DOMAIN h /\ v < Rank(h, n, t) /\ v < Rank(h, n, f)
      /\ h[r].fn = Choice(h, n, v, t, f)
  BY <1>1 DEF SonsOK
<1>3. ASSUME Open(h, n, r) PROVE Open(h, n, t) \/ Open(h, n, f)
  <2>1. PICK a \in Inputs(n) : a \notin h[r].fn
    BY <1>1, <1>3 DEF Open
  <2>2. a \notin h[IF a[v] THEN t ELSE f].fn
    BY <1>2, <2>1 DEF Choice
  <2> QED BY <2>1, <2>2 DEF Open
<1>4. ASSUME NEW b \in BOOLEAN, Open(h, n, IF b THEN t ELSE f) PROVE Open(h, n, r)
  <2>0. PICK q \in DOMAIN h : q = (IF b THEN t ELSE f) /\ v < Rank(h, n, q) /\ Independent(h, n, q)
    BY <1>2 DEF HeapOK
  <2>1. PICK a \in Inputs(n) : a \notin h[q].fn
    BY <1>1, <1>4, <2>0 DEF Open
  <2>2. PICK c : c = [a EXCEPT ![v] = b]
    OBVIOUS
  <2>3. c \in Inputs(n) /\ c[v] = b
    BY <1>2, <2>2 DEF Inputs
  <2>4. SameFrom(n, Rank(h, n, q), a, c)
    <3>1. \A w \in 1..n : w # v => c[w] = a[w]
      BY <2>2 DEF Inputs
    <3> QED BY <1>1, <1>2, <2>0, <3>1 DEF SameFrom
  <2>5. c \notin h[q].fn
    BY <2>0, <2>1, <2>3, <2>4 DEF Independent
  <2>6. c \notin h[r].fn
    BY <1>2, <2>0, <2>3, <2>5 DEF Choice
  <2> QED BY <2>3, <2>6 DEF Open
<1>5. Open(h, n, t) => Open(h, n, r)
  BY <1>4
<1>6. Open(h, n, f) => Open(h, n, r)
  BY <1>4
<1> QED BY <1>3, <1>5, <1>6

LEMMA TailFacts ==
  ASSUME NEW S, NEW s \in Seq(S), s # <<>>
  PROVE  /\ Len(s) \in Nat /\ Len(s) >= 1 /\ Head(s) = s[1] /\ Head(s) \in S
         /\ Tail(s) \in Seq(S) /\ Len(Tail(s)) = Len(s) - 1
         /\ \A i \in 1 .. Len(s) - 1 : Tail(s)[i] = s[i + 1]
BY MembersOfSeq

\* A reference that is passed by needs no further call: it is covered, or what it leads to is.
LEMMA TravelPass ==
  ASSUME NEW n \in Nat, NEW h, HeapOK(h, n), NEW rt, NEW td, TravelOK(h, n, rt, td), td # <<>>,
         IF h[Head(td)].is_leaf THEN h[Head(td)].leaf_value ELSE h[Head(td)].is_visited
  PROVE  TravelOK(h, n, rt, Tail(td))
<1> DEFINE x == Head(td)
<1>0. PICK tl : tl = Tail(td)
  OBVIOUS
<1>1. /\ Len(td) \in Nat /\ Len(td) >= 1 /\ x = td[1] /\ x \in DOMAIN h
      /\ tl \in Seq(DOMAIN h) /\ Len(tl) = Len(td) - 1
      /\ \A i \in 1 .. Len(td) - 1 : tl[i] = td[i + 1]
  BY <1>0, TailFacts DEF TravelOK
<1>2. DOMAIN h \subseteq Int
  BY HeapFacts
<1>3. Open(h, n, x) => ~h[x].is_leaf /\ h[x].is_visited
  BY <1>1 DEF HeapOK, NodeOK, LeafOK, Open
<1>4. ASSUME NEW i \in 1..Len(td), i # 1 PROVE i - 1 \in 1..Len(tl) /\ tl[i - 1] = td[i]
  BY <1>1, <1>4
<1>5. ASSUME NEW i \in 1..Len(td), Open(h, n, td[i])
      PROVE  \E j \in 1..Len(tl) : tl[j] <= td[i] /\ Open(h, n, tl[j])
  <2>0. td[i] \in Int
    BY <1>2, MembersOfSeq DEF TravelOK
  <2>1. CASE i # 1
    BY <1>4, <1>5, <2>0, <2>1
  <2>2. CASE i = 1
    <3>1. PICK k \in 1..Len(td) : td[k] < x /\ Open(h, n, td[k])
      BY <1>1, <1>3, <1>5, <2>2 DEF TravelOK
    <3>2. k # 1 /\ td[k] \in Int
      BY <1>1, <1>2, <3>1, MembersOfSeq DEF TravelOK
    <3> QED BY <1>1, <1>4, <2>0, <2>2, <3>1, <3>2
  <2> QED BY <2>1, <2>2
<1>6. \A i \in 1..Len(tl) : Open(h, n, tl[i]) => Open(h, n, rt)
  <2>1. \A i \in 1..Len(tl) : i + 1 \in 1..Len(td) /\ tl[i] = td[i + 1]
    BY <1>1
  <2> QED BY <2>1 DEF TravelOK
<1>7. Open(h, n, rt) => \E i \in 1..Len(tl) : Open(h, n, tl[i])
  BY <1>5 DEF TravelOK
<1>8. ASSUME NEW r \in DOMAIN h, ~h[r].is_leaf, h[r].is_visited, Open(h, n, r)
      PROVE  \E i \in 1..Len(tl) : tl[i] < r /\ Open(h, n, tl[i])
  <2>1. PICK k \in 1..Len(td) : td[k] < r /\ Open(h, n, td[k])
    BY <1>8 DEF TravelOK
  <2>2. PICK j \in 1..Len(tl) : tl[j] <= td[k] /\ Open(h, n, tl[j])
    BY <1>5, <2>1
  <2>3. td[k] \in Int /\ tl[j] \in Int /\ r \in Int
    BY <1>1, <1>2, MembersOfSeq DEF TravelOK
  <2> QED BY <2>1, <2>2, <2>3
<1> QED BY <1>0, <1>1, <1>6, <1>7, <1>8 DEF TravelOK

LEMMA TwoFirst ==
  ASSUME NEW S, NEW a \in S, NEW b \in S, NEW s \in Seq(S), NEW t, t = <<a, b>> \o s
  PROVE  /\ t \in Seq(S) /\ Len(t) = Len(s) + 2 /\ t[1] = a /\ t[2] = b
         /\ \A i \in 1 .. Len(s) : t[i + 2] = s[i]
<1>1. Len(s) \in Nat /\ <<a, b>> \in Seq(S) /\ Len(<<a, b>>) = 2 /\ <<a, b>>[1] = a /\ <<a, b>>[2] = b
  OBVIOUS
<1>2. /\ t \in Seq(S) /\ Len(t) = 2 + Len(s)
      /\ \A i \in 1 .. 2 + Len(s) : t[i] = IF i <= 2 THEN <<a, b>>[i] ELSE s[i - 2]
  BY <1>1, ConcatProperties
<1>3. 1 \in 1 .. 2 + Len(s) /\ 2 \in 1 .. 2 + Len(s)
  BY <1>1
<1>4. t[1] = a /\ t[2] = b
  BY <1>1, <1>2, <1>3
<1>5. ASSUME NEW i \in 1 .. Len(s) PROVE t[i + 2] = s[i]
  <2>1. i + 2 \in 1 .. 2 + Len(s) /\ ~(i + 2 <= 2) /\ i + 2 - 2 = i
    BY <1>1
  <2> QED BY <1>2, <2>1
<1> QED BY <1>1, <1>2, <1>4, <1>5

LEMMA TravelVisit ==
  ASSUME NEW n \in Nat, NEW h, HeapOK(h, n), NEW rt, NEW td, TravelOK(h, n, rt, td), td # <<>>,
         NEW x, x = Head(td), ~h[x].is_leaf
  PROVE  TravelOK(Marked(h, x), n, rt, <<h[x].true_son, h[x].false_son>> \o Tail(td))
<1> DEFINE t == h[x].true_son
           f == h[x].false_son
<1>0. PICK tl, sq, g : tl = Tail(td) /\ sq = <<t, f>> \o tl /\ g = Marked(h, x)
  OBVIOUS
<1>1. /\ Len(td) \in Nat /\ Len(td) >= 1 /\ x = td[1] /\ x \in DOMAIN h
      /\ tl \in Seq(DOMAIN h) /\ Len(tl) = Len(td) - 1
      /\ \A i \in 1 .. Len(td) - 1 : tl[i] = td[i + 1]
  BY <1>0, TailFacts DEF TravelOK
<1>2. DOMAIN h = 1 .. Len(h) /\ Len(h) \in Nat
  BY HeapFacts
<1>3. t \in DOMAIN h /\ f \in DOMAIN h /\ t < x /\ f < x
  <2>1. SonsOK(h, n, x)
    BY <1>1 DEF HeapOK, NodeOK
  <2> QED BY <1>1, <1>2, <2>1 DEF SonsOK
<1>4. /\ sq \in Seq(DOMAIN h) /\ Len(sq) = Len(tl) + 2 /\ sq[1] = t /\ sq[2] = f
      /\ \A i \in 1 .. Len(tl) : sq[i + 2] = tl[i]
  BY <1>0, <1>1, <1>3, TwoFirst
<1>5. Open(h, n, x) <=> Open(h, n, t) \/ Open(h, n, f)
  BY <1>1, OpenSons
<1>6. /\ DOMAIN g = DOMAIN h
      /\ \A q \in DOMAIN h : /\ g[q].is_leaf = h[q].is_leaf /\ (Open(g, n, q) <=> Open(h, n, q))
                             /\ g[q].is_visited => q = x \/ h[q].is_visited
  <2>1. IsMarked(h, n, x, g)
    BY <1>0, <1>1, MarkedHeap
  <2> QED BY <2>1 DEF IsMarked, Open
<1>7. /\ 1 \in 1..Len(sq) /\ 2 \in 1..Len(sq)
      /\ \A i \in 1..Len(td) : i # 1 => i + 1 \in 1..Len(sq) /\ sq[i + 1] = td[i]
  <2>1. ASSUME NEW i \in 1..Len(td), i # 1 PROVE i + 1 \in 1..Len(sq) /\ sq[i + 1] = td[i]
    <3>1. i - 1 \in 1 .. Len(tl) /\ (i - 1) + 2 = i + 1 /\ (i - 1) + 1 = i
      BY <1>1, <2>1
    <3>2. sq[i + 1] = tl[i - 1] /\ tl[i - 1] = td[i]
      BY <1>1, <1>4, <3>1
    <3> QED BY <1>1, <1>4, <3>1, <3>2
  <2> QED BY <1>1, <1>4, <2>1
<1>8. ASSUME NEW i \in 1..Len(td), Open(h, n, td[i])
      PROVE  \E j \in 1..Len(sq) : sq[j] <= td[i] /\ Open(h, n, sq[j])
  <2>0. td[i] \in Int
    BY <1>2, MembersOfSeq DEF TravelOK
  <2>1. CASE i # 1
    BY <1>7, <1>8, <2>0, <2>1
  <2>2. CASE i = 1
    <3>1. t <= td[i] /\ f <= td[i] /\ (Open(h, n, t) \/ Open(h, n, f))
      BY <1>1, <1>2, <1>3, <1>5, <1>8, <2>2
    <3> QED BY <1>4, <1>7, <3>1
  <2> QED BY <2>1, <2>2
<1>9. \A r \in DOMAIN h : r \in Int
  BY <1>2
<1>10. ASSUME NEW i \in 1..Len(sq), Open(h, n, sq[i]) PROVE Open(h, n, rt)
  <2>1. CASE i \in {1, 2}
    <3>1. Open(h, n, td[1]) /\ 1 \in 1..Len(td)
      BY <1>1, <1>4, <1>5, <1>10, <2>1
    <3> QED BY <3>1 DEF TravelOK
  <2>2. CASE i \notin {1, 2}
    <3>1. i - 1 \in 1..Len(td) /\ i - 1 # 1 /\ (i - 1) + 1 = i
      BY <1>1, <1>4, <2>2
    <3>2. sq[i] = td[i - 1]
      BY <1>7, <3>1
    <3> QED BY <1>10, <3>1, <3>2 DEF TravelOK
  <2> QED BY <2>1, <2>2
<1>11. Open(h, n, rt) => \E i \in 1..Len(sq) : Open(h, n, sq[i])
  BY <1>8 DEF TravelOK
<1>12. ASSUME NEW r \in DOMAIN h, ~h[r].is_leaf, r = x \/ h[r].is_visited, Open(h, n, r)
       PROVE  \E i \in 1..Len(sq) : sq[i] < r /\ Open(h, n, sq[i])
  <2>1. CASE r = x
    BY <1>3, <1>4, <1>5, <1>7, <1>12, <2>1
  <2>2. CASE h[r].is_visited
    <3>1. PICK k \in 1..Len(td) : td[k] < r /\ Open(h, n, td[k])
      BY <1>12, <2>2 DEF TravelOK
    <3>2. PICK j \in 1..Len(sq) : sq[j] <= td[k] /\ Open(h, n, sq[j])
      BY <1>8, <3>1
    <3>3. td[k] \in Int /\ sq[j] \in Int /\ r \in Int
      BY <1>4, <1>9, MembersOfSeq DEF TravelOK
    <3> QED BY <3>1, <3>2, <3>3
  <2> QED BY <1>12, <2>1, <2>2
<1>13. TravelOK(g, n, rt, sq)
  <2>1. \A i \in 1..Len(sq) : sq[i] \in DOMAIN h
    BY <1>4, MembersOfSeq
  <2>2. rt \in DOMAIN g /\ sq \in Seq(DOMAIN g)
    BY <1>4, <1>6 DEF TravelOK
  <2>3. \A i \in 1..Len(sq) : Open(g, n, sq[i]) => Open(g, n, rt)
    BY <1>6, <1>10, <2>1, <2>2
  <2>4. Open(g, n, rt) => \E i \in 1..Len(sq) : Open(g, n, sq[i])
    BY <1>6, <1>11, <2>1, <2>2
  <2>5. \A r \in DOMAIN g : ~g[r].is_leaf /\ g[r].is_visited /\ Open(g, n, r) =>
            \E i \in 1..Len(sq) : sq[i] < r /\ Open(g, n, sq[i])
    BY <1>6, <1>12, <2>1
  <2> QED BY <2>2, <2>3, <2>4, <2>5 DEF TravelOK
<1> QED BY <1>0, <1>13

-----------------------------------------------------------------------------
(* genFromSop                                                              *)

\* The inputs that agree with a cube in the variables after c.
Cube(n, t, c) ==
    {a \in Inputs(n) : \A v \in 1..n : v > c /\ t[v] # "11" => (a[v] <=> t[v] = "01")}

Unvisited(h) == \A r \in DOMAIN h : ~h[r].is_visited

\* The BDDs made so far are those of the first cubes, none of which is short.
GenOK(h, n, ts, bs) ==
    /\ bs \in Seq(DOMAIN h) /\ Len(bs) <= Len(ts)
    /\ \A i \in 1..Len(bs) : n <= Len(ts[i]) /\ h[bs[i]].fn = Cube(n, ts[i], 0)

\* The BDD of cube t, as far as it is made: of the variables after c.
TermOK(h, n, t, rt, fl, c) ==
    /\ rt \in DOMAIN h /\ fl \in DOMAIN h /\ c \in 0..n
    /\ c < n => n <= Len(t)
    /\ h[rt].fn = Cube(n, t, c) /\ c < Rank(h, n, rt)
    /\ h[fl].is_leaf /\ h[fl].fn = {}

LEMMA GenGrow ==
  ASSUME NEW n \in Nat, NEW h, HeapOK(h, n), NEW x, NEW g, Grown(h, n, x, g), ~x.is_visited, Unvisited(h),
         NEW ts, NEW bs, GenOK(h, n, ts, bs)
  PROVE  GenOK(g, n, ts, bs) /\ Unvisited(g)
<1>0. \A r \in DOMAIN h : r \in DOMAIN g /\ g[r] = h[r]
  BY DEF Grown
<1>1. bs \in Seq(DOMAIN g)
  BY <1>0, SeqOfMore DEF GenOK
<1>2. \A i \in 1..Len(bs) : bs[i] \in DOMAIN h
  BY MembersOfSeq DEF GenOK
<1>3. Unvisited(g)
  <2>1. \A r \in DOMAIN g : r \in DOMAIN h \/ r = Len(h) + 1
    BY HeapFacts DEF Grown
  <2> QED BY <1>0, <2>1 DEF Unvisited, Grown
<1> QED BY <1>0, <1>1, <1>2, <1>3 DEF GenOK

LEMMA TermBegins ==
  ASSUME NEW n \in Nat, NEW h, HeapOK(h, n), NEW t, NEW h1, NEW h2,
         h1 = Append(h, LeafNode(n, TRUE)), h2 = Append(h1, LeafNode(n, FALSE))
  PROVE  /\ HeapOK(h2, n) /\ TermOK(h2, n, t, Len(h) + 1, Len(h) + 2, n)
         /\ \A ts, bs : Unvisited(h) /\ GenOK(h, n, ts, bs) => Unvisited(h2) /\ GenOK(h2, n, ts, bs)
<1>0. DOMAIN h = 1..Len(h) /\ Len(h) \in Nat
  BY HeapFacts
<1>1. PICK x, y : x = LeafNode(n, TRUE) /\ y = LeafNode(n, FALSE)
  OBVIOUS
<1>2. /\ x.is_leaf /\ x.fn = Inputs(n) /\ y.is_leaf /\ y.fn = {}
      /\ ~x.is_visited /\ ~y.is_visited
  BY <1>1 DEF LeafNode
<1>3. HeapOK(h1, n) /\ x \in Shape(n)
  BY <1>1, LeafAdded
<1>4. HeapOK(h2, n) /\ y \in Shape(n)
  BY <1>1, <1>3, LeafAdded
<1>5. Grown(h, n, x, h1)
  BY <1>1, <1>3, GrownHeap
<1>6. Grown(h1, n, y, h2)
  BY <1>1, <1>3, <1>4, GrownHeap
<1>7. Len(h1) = Len(h) + 1 /\ h2[Len(h) + 1] = x /\ h2[Len(h) + 2] = y /\ DOMAIN h2 = 1 .. Len(h) + 2
  <2>1. Len(h1) = Len(h) + 1 /\ h1[Len(h) + 1] = x /\ DOMAIN h1 = 1 .. Len(h) + 1
    BY <1>5 DEF Grown
  <2>2. h2[Len(h1) + 1] = y /\ DOMAIN h2 = 1 .. Len(h1) + 1 /\ \A r \in DOMAIN h1 : h2[r] = h1[r]
    BY <1>6 DEF Grown
  <2>3. Len(h1) + 1 = Len(h) + 2 /\ Len(h) + 1 \in 1 .. Len(h) + 1
    BY <1>0, <2>1
  <2>4. Len(h) + 1 \in DOMAIN h1
    BY <2>1, <2>3
  <2>5. h2[Len(h) + 1] = x
    BY <2>1, <2>2, <2>4
  <2> QED BY <2>1, <2>2, <2>3, <2>5
<1>8. Cube(n, t, n) = Inputs(n)
  BY DEF Cube
<1>9. TermOK(h2, n, t, Len(h) + 1, Len(h) + 2, n)
  <2>1. Len(h) + 1 \in DOMAIN h2 /\ Len(h) + 2 \in DOMAIN h2
    BY <1>0, <1>7
  <2>2. Rank(h2, n, Len(h) + 1) = n + 1
    BY <1>2, <1>7 DEF Rank
  <2>3. n \in 0..n /\ ~(n < n) /\ n < n + 1
    OBVIOUS
  <2> QED BY <1>2, <1>7, <1>8, <2>1, <2>2, <2>3 DEF TermOK
<1>10. ASSUME NEW ts, NEW bs, Unvisited(h), GenOK(h, n, ts, bs)
       PROVE  Unvisited(h2) /\ GenOK(h2, n, ts, bs)
  <2>1. Unvisited(h1) /\ GenOK(h1, n, ts, bs)
    BY <1>2, <1>5, <1>10, GenGrow
  <2> QED BY <1>2, <1>3, <1>6, <2>1, GenGrow
<1> QED BY <1>4, <1>9, <1>10

\* A column that says nothing of its variable.
LEMMA ColumnSkipped ==
  ASSUME NEW n \in Nat, NEW h, HeapOK(h, n), NEW t, Len(t) \in Nat, NEW rt, NEW fl, NEW c,
         TermOK(h, n, t, rt, fl, c), c > 0, c <= Len(t), t[c] = "11"
  PROVE  TermOK(h, n, t, rt, fl, c - 1)
<1>1. c \in 1..n /\ c - 1 \in 0..n
  BY DEF TermOK
<1>2. Cube(n, t, c - 1) = Cube(n, t, c)
  BY <1>1 DEF Cube
<1>3. Rank(h, n, rt) \in Int
  BY HeapFacts DEF TermOK
<1> QED BY <1>1, <1>2, <1>3 DEF TermOK

\* A column that fixes its variable: the new root decides it.
LEMMA ColumnDecided ==
  ASSUME NEW n \in Nat, NEW h, HeapOK(h, n), NEW t, Len(t) \in Nat, NEW rt, NEW fl, NEW c,
         TermOK(h, n, t, rt, fl, c), c > 0, c <= Len(t), t[c] \in {"01", "10"}, NEW x,
         x = IF t[c] = "01" THEN InnerNode(h, n, c, rt, fl) ELSE InnerNode(h, n, c, fl, rt)
  PROVE  /\ HeapOK(Append(h, x), n) /\ x \in Shape(n) /\ ~x.is_visited
         /\ TermOK(Append(h, x), n, t, Len(h) + 1, fl, c - 1)
<1> DEFINE g == Append(h, x)
<1>1. /\ c \in 1..n /\ c - 1 \in 0..n /\ rt \in DOMAIN h /\ fl \in DOMAIN h
      /\ c < Rank(h, n, rt) /\ c < Rank(h, n, fl)
  BY DEF TermOK, Rank
<1>2. HeapOK(g, n) /\ x \in Shape(n)
  <2>1. CASE t[c] = "01"
    BY <1>1, <2>1, InnerAdded
  <2>2. CASE t[c] # "01"
    BY <1>1, <2>2, InnerAdded
  <2> QED BY <2>1, <2>2
<1>3. /\ ~x.is_visited /\ ~x.is_leaf /\ x.var_id = c
      /\ x.fn = {a \in Inputs(n) : a \in h[rt].fn /\ (a[c] <=> t[c] = "01")}
  <2>1. h[fl].fn = {} /\ \A a \in Inputs(n) : a[c] \in BOOLEAN
    BY <1>1 DEF TermOK, Inputs
  <2>2. CASE t[c] = "01"
    BY <2>1, <2>2 DEF InnerNode, Choice
  <2>3. CASE t[c] # "01"
    BY <2>1, <2>3 DEF InnerNode, Choice
  <2> QED BY <2>2, <2>3
<1>4. x.fn = Cube(n, t, c - 1)
  <2>1. h[rt].fn = Cube(n, t, c)
    BY DEF TermOK
  <2>2. \A v \in 1..n : v > c - 1 <=> v > c \/ v = c
    BY <1>1
  <2>3. t[c] # "11"
    OBVIOUS
  <2> HIDE DEF g
  <2> QED BY <1>1, <1>3, <2>1, <2>2, <2>3 DEF Cube
<1>5. PICK k : k = g
  OBVIOUS
<1>6. Grown(h, n, x, k)
  BY <1>2, <1>5, GrownHeap
<1>7. /\ k[Len(h) + 1] = x /\ Len(h) + 1 \in DOMAIN k /\ k[fl] = h[fl] /\ fl \in DOMAIN k
  <2>1. Len(h) \in Nat
    BY HeapFacts
  <2> QED BY <1>1, <1>6, <2>1 DEF Grown
<1>8. TermOK(k, n, t, Len(h) + 1, fl, c - 1)
  <2>1. n <= Len(t)
    BY <1>1 DEF TermOK
  <2> QED BY <1>1, <1>3, <1>4, <1>7, <2>1 DEF TermOK, Rank
<1> QED BY <1>2, <1>3, <1>5, <1>8

-----------------------------------------------------------------------------
(* The inductive invariant                                                 *)

Outputs == {a \in Assignments : Output(a)}

Reading == phase \in {"header", "parse", "line"}

Types ==
    /\ phase \in {"header", "parse", "line", "gen", "or", "travel", "done", "crashed"}
    /\ pos \in Nat \ {0} /\ vars_num \in Nat /\ terms \in Seq(Seq(Words))
    /\ col \in Nat /\ answer \in BOOLEAN
    /\ {root, false_leaf} \subseteq DOMAIN heap \cup {0}

Nodes == HeapOK(heap, vars_num) /\ GenOK(heap, vars_num, terms, bdds)

ReadingInv ==
    /\ Reading => heap = <<>> /\ bdds = <<>> /\ root = 0 /\ false_leaf = 0
    /\ phase = "line" => terms # <<>>

EarlyInv ==
    /\ phase \notin {"or", "travel", "done"} => stack = <<>> /\ ret = 0
    /\ phase \notin {"travel", "done"} => todo = <<>> /\ Unvisited(heap)

GenInv == phase = "gen" =>
    /\ pos = Len(bdds) + 1
    /\ root # 0 => pos <= Len(terms) /\ TermOK(heap, vars_num, terms[pos], root, false_leaf, col)

GeneratedInv == phase \in {"or", "travel", "done"} => Len(bdds) = Len(terms) /\ bdds # <<>>

CrashedInv == phase = "crashed" => Short \/ terms = <<>>

OrInv == phase = "or" => OrOK(heap, vars_num, DOMAIN bdds, Outputs, stack, ret)

TravelInv == phase = "travel" =>
    /\ stack = <<>> /\ ret # 0 /\ heap[ret].fn = Outputs
    /\ TravelOK(heap, vars_num, ret, todo)

DoneInv == phase = "done" =>
    /\ stack = <<>> /\ ret \in DOMAIN heap /\ todo \in Seq(DOMAIN heap)
    /\ answer <=> GroundTruth

IInv == Types /\ Nodes /\ ReadingInv /\ EarlyInv /\ GenInv /\ GeneratedInv /\ CrashedInv
        /\ OrInv /\ TravelInv /\ DoneInv

\* The model's operators are those above.
LEMMA Same ==
  /\ Assignments = Inputs(vars_num)
  /\ \A b \in BOOLEAN : Leaf(b) = LeafNode(vars_num, b)
  /\ \A v, t, f : Inner(v, t, f) = InnerNode(heap, vars_num, v, t, f)
  /\ \A bs : AnyOf(bs) = Disj(heap, bs)
  /\ \A bs, v, b : Cofactors(bs, v, b) = Cof(heap, bs, v, b)
  /\ \A bs : Call(bs) = Entered(bs)
<1>1. Assignments = Inputs(vars_num)
  BY DEF Assignments, Variables, Inputs
<1>2. \A b \in BOOLEAN : Leaf(b) = LeafNode(vars_num, b)
  BY <1>1 DEF Leaf, LeafNode
<1>3. \A v, t, f : Inner(v, t, f) = InnerNode(heap, vars_num, v, t, f)
  BY <1>1 DEF Inner, InnerNode, Choice
<1>4. \A bs : AnyOf(bs) = Disj(heap, bs)
  BY DEF AnyOf, Disj
<1>5. \A bs, v, b : Cofactors(bs, v, b) = Cof(heap, bs, v, b)
  BY DEF Cofactors, Cof
<1> QED BY <1>1, <1>2, <1>3, <1>4, <1>5 DEF Call, Entered

LEMMA EmptyHeap ==
  ASSUME NEW n \in Nat, NEW ts \in Seq(Seq(Words))
  PROVE  HeapOK(<<>>, n) /\ GenOK(<<>>, n, ts, <<>>) /\ Unvisited(<<>>)
<1>1. DOMAIN <<>> = {} /\ <<>> \in Seq(Shape(n)) /\ <<>> \in Seq(DOMAIN <<>>) /\ Len(<<>>) = 0 /\ Len(ts) \in Nat
  OBVIOUS
<1> QED BY <1>1 DEF HeapOK, GenOK, Unvisited

LEMMA InitInv == Init => IInv
<1> SUFFICES ASSUME Init PROVE IInv
  OBVIOUS
<1> USE DEF Init
<1>1. Types
  <2>1. terms \in Seq(Seq(Words))
    OBVIOUS
  <2>2. {root, false_leaf} \subseteq DOMAIN heap \cup {0}
    OBVIOUS
  <2>3. pos \in Nat \ {0} /\ vars_num \in Nat /\ col \in Nat
    OBVIOUS
  <2>4. phase = "header" /\ answer \in BOOLEAN
    OBVIOUS
  <2> HIDE DEF Init
  <2> QED BY <2>1, <2>2, <2>3, <2>4 DEF Types
<1>2. Nodes /\ Unvisited(heap)
  <2>1. 0 \in Nat /\ terms \in Seq(Seq(Words)) /\ heap = <<>> /\ bdds = <<>> /\ vars_num = 0
    OBVIOUS
  <2> QED BY <2>1, EmptyHeap DEF Nodes
<1> QED BY <1>1, <1>2 DEF IInv, ReadingInv, EarlyInv, GenInv, GeneratedInv, CrashedInv, OrInv, TravelInv, DoneInv

-----------------------------------------------------------------------------
(* What the invariant says                                                 *)

LEMMA TypesFollow == IInv => TypeOK
<1> SUFFICES ASSUME IInv PROVE TypeOK
  OBVIOUS
<1>0. Types /\ Nodes /\ ReadingInv /\ EarlyInv /\ OrInv /\ TravelInv /\ DoneInv
  BY DEF IInv
<1>1. DOMAIN heap = 1..Len(heap) /\ Len(heap) \in Nat
  BY <1>0, HeapFacts DEF Types, Nodes
<1>2. \A r \in DOMAIN heap : heap[r] \in Shape(vars_num) /\ NodeOK(heap, vars_num, r)
  BY <1>0, HeapFacts DEF Types, Nodes, HeapOK
<1>3. Assignments = Inputs(vars_num) /\ Variables = 1..vars_num /\ Variables \cup {0} = 0..vars_num
  BY <1>0, Same DEF Variables, Types
<1>4. heap \in Seq(NodeType)
  <2>1. ASSUME NEW r \in DOMAIN heap PROVE heap[r] \in NodeType
    <3>1. heap[r].true_son \in References \cup {0} /\ heap[r].false_son \in References \cup {0}
      BY <1>1, <1>2 DEF NodeOK, LeafOK, SonsOK, References
    <3> QED BY <1>2, <1>3, <3>1 DEF Shape, NodeType
  <2>2. heap \in Seq(Shape(vars_num))
    BY <1>0 DEF Nodes, HeapOK
  <2>3. heap \in [1..Len(heap) -> NodeType]
    <3>1. heap = [r \in 1..Len(heap) |-> heap[r]]
      BY <2>2
    <3> QED BY <1>1, <2>1, <3>1
  <2> QED BY <1>1, <2>3
<1>5. \A r \in References : ~heap[r].is_leaf => 0 \notin {heap[r].var_id, heap[r].true_son, heap[r].false_son}
  BY <1>1, <1>2 DEF References, NodeOK, SonsOK
<1>6. bdds \in Seq(References)
  BY <1>0 DEF Nodes, GenOK, References
<1>7. stack \in Seq([bdds : Arrays, at : {"entry", "true", "false"},
                     var : Variables \cup {0}, true_son : References \cup {0}])
  <2>1. CASE phase = "or"
    <3>1. [bdds : Arrays, at : {"entry", "true", "false"}, var : Variables \cup {0}, true_son : References \cup {0}]
            = Frame(DOMAIN heap, DOMAIN bdds, vars_num)
      BY <1>3 DEF Frame, Arrays, References
    <3> QED BY <1>0, <2>1, <3>1 DEF OrInv, OrOK
  <2>2. CASE phase # "or"
    <3>1. stack = <<>>
      BY <1>0, <2>2 DEF EarlyInv, TravelInv, DoneInv, Types
    <3> QED BY <3>1
  <2> QED BY <2>1, <2>2
<1>8. ret \in References \cup {0} /\ todo \in Seq(References)
  <2>1. CASE phase \in {"travel", "done"}
    BY <1>0, <2>1 DEF TravelInv, TravelOK, DoneInv, References
  <2>2. CASE phase \notin {"travel", "done"}
    <3>1. todo = <<>> /\ (phase = "or" \/ ret = 0)
      BY <1>0, <2>2 DEF EarlyInv
    <3>2. phase = "or" => ret \in DOMAIN heap \cup {0}
      BY <1>0 DEF OrInv, OrOK
    <3> QED BY <3>1, <3>2 DEF References
  <2> QED BY <2>1, <2>2
<1> QED BY <1>0, <1>4, <1>5, <1>6, <1>7, <1>8 DEF TypeOK, Types, ReadingInv, Reading, References

LEMMA OrderFollows == IInv => Ordered
<1> SUFFICES ASSUME IInv, NEW r \in References, ~heap[r].is_leaf,
                    NEW s \in {heap[r].true_son, heap[r].false_son}
             PROVE  s < r /\ (~heap[s].is_leaf => heap[r].var_id < heap[s].var_id)
  BY DEF Ordered
<1>1. DOMAIN heap = 1..Len(heap) /\ Len(heap) \in Nat /\ SonsOK(heap, vars_num, r)
  BY HeapFacts DEF IInv, Types, Nodes, HeapOK, NodeOK, References
<1> QED BY <1>1 DEF SonsOK, Rank, References

LEMMA DisjunctionFollows == IInv => ReturnsDisjunction
<1> SUFFICES ASSUME IInv, Returned
             PROVE  heap[ret].fn = IF stack = <<>> THEN {a \in Assignments : Output(a)}
                                   ELSE AnyOf(Cofactors(Top.bdds, Top.var, Top.at = "true"))
  BY DEF ReturnsDisjunction
<1>1. OrOK(heap, vars_num, DOMAIN bdds, Outputs, stack, ret) /\ ret # 0
  BY DEF IInv, OrInv, Returned
<1>2. heap[ret].fn = Wanted(heap, Outputs, stack, Len(stack))
  BY <1>1 DEF OrOK, ReturnOK
<1>3. stack = <<>> <=> Len(stack) = 0
  BY <1>1 DEF OrOK
<1> QED BY <1>2, <1>3, Same DEF Wanted, Top, Outputs

LEMMA CrashesFollow == IInv => CrashesOnBadFiles
<1> SUFFICES ASSUME IInv PROVE CrashesOnBadFiles
  OBVIOUS
<1>1. ASSUME phase \in {"or", "travel", "done"} PROVE ~Short /\ terms # <<>>
  <2>1. Len(bdds) = Len(terms) /\ bdds # <<>> /\ GenOK(heap, vars_num, terms, bdds)
        /\ terms \in Seq(Seq(Words)) /\ vars_num \in Nat
    BY <1>1 DEF IInv, GeneratedInv, Nodes, Types
  <2>2. Len(terms) \in Nat /\ DOMAIN terms = 1..Len(terms) /\ Len(terms) # 0
    BY <2>1 DEF GenOK
  <2>3. ASSUME NEW i \in DOMAIN terms PROVE ~(Len(terms[i]) < vars_num)
    <3>1. vars_num <= Len(terms[i])
      BY <2>1, <2>2 DEF GenOK
    <3>2. terms[i] \in Seq(Words)
      BY <2>1, <2>2, MembersOfSeq
    <3> QED BY <2>1, <3>1, <3>2
  <2> QED BY <2>2, <2>3 DEF Short
<1> QED BY <1>1 DEF CrashesOnBadFiles, IInv, CrashedInv

-----------------------------------------------------------------------------
(* The steps of parseFromFile                                              *)

\* A step that leaves the heap empty.
LEMMA ReadingStep ==
  ASSUME IInv, Reading, phase' \in {"header", "parse", "line", "gen"},
         UNCHANGED <<heap, bdds, root, false_leaf, stack, ret, todo, answer>>,
         pos' \in Nat \ {0}, vars_num' \in Nat, col' \in Nat, terms' \in Seq(Seq(Words)),
         phase' = "line" => terms' # <<>>, phase' = "gen" => pos' = 1
  PROVE  IInv'
<1>1. /\ heap' = <<>> /\ bdds' = <<>> /\ root' = 0 /\ false_leaf' = 0
      /\ stack' = <<>> /\ ret' = 0 /\ todo' = <<>> /\ answer' \in BOOLEAN
  BY DEF IInv, ReadingInv, EarlyInv, Types, Reading
<1>2. Types'
  <2>1. {root', false_leaf'} \subseteq DOMAIN heap' \cup {0}
    BY <1>1
  <2> QED BY <1>1, <2>1 DEF Types
<1>3. Nodes' /\ Unvisited(heap')
  <2>1. HeapOK(<<>>, vars_num') /\ GenOK(<<>>, vars_num', terms', <<>>) /\ Unvisited(<<>>)
    BY EmptyHeap
  <2> QED BY <1>1, <2>1 DEF Nodes
<1>4. Len(bdds') = 0
  BY <1>1
<1> QED BY <1>1, <1>2, <1>3, <1>4
        DEF IInv, ReadingInv, EarlyInv, GenInv, GeneratedInv, CrashedInv, OrInv, TravelInv, DoneInv

LEMMA ReadingActions ==
  ASSUME IInv, SkipHeader \/ BeginLine \/ ReadWord \/ EndLine \/ EndParse
  PROVE  IInv'
<1>0. /\ pos \in Nat \ {0} /\ vars_num \in Nat /\ terms \in Seq(Seq(Words)) /\ col \in Nat
      /\ phase = "line" => terms # <<>>
  BY DEF IInv, Types, ReadingInv
<1>1. CASE SkipHeader
  BY <1>0, <1>1, ReadingStep DEF SkipHeader, Reading, cubes, gen
<1>2. CASE BeginLine
  <2>1. terms' \in Seq(Seq(Words)) /\ terms' # <<>>
    <3>1. <<>> \in Seq(Words) /\ terms' = Append(terms, <<>>)
      BY <1>2 DEF BeginLine
    <3> QED BY <1>0, <3>1, AppendProperties
  <2> QED BY <1>0, <1>2, <2>1, ReadingStep DEF BeginLine, Reading
<1>3. CASE ReadWord
  <2>1. terms' \in Seq(Seq(Words)) /\ terms' # <<>>
    <3>1. Len(terms) \in 1..Len(terms) /\ terms[Len(terms)] \in Seq(Words)
      <4>1. phase = "line" /\ Len(terms) \in Nat /\ Len(terms) # 0
        BY <1>0, <1>3 DEF ReadWord
      <4>2. Len(terms) \in 1..Len(terms)
        BY <4>1
      <4> QED BY <1>0, <4>2, MembersOfSeq
    <3>2. CASE terms' = terms
      BY <1>0, <1>3, <3>2 DEF ReadWord
    <3>3. CASE terms' # terms
      <4>1. PICK w \in Words : terms' = [terms EXCEPT ![Len(terms)] = Append(@, w)]
        BY <1>3, <3>3 DEF ReadWord
      <4>2. Append(terms[Len(terms)], w) \in Seq(Words)
        BY <3>1
      <4> QED BY <1>0, <3>1, <4>1, <4>2
    <3> QED BY <3>2, <3>3
  <2>2. col + 1 \in Nat
    BY <1>0
  <2> QED BY <1>0, <1>3, <2>1, <2>2, ReadingStep DEF ReadWord, Reading
<1>4. CASE EndLine
  <2>1. pos + 1 \in Nat \ {0} /\ (IF vars_num = 0 THEN col ELSE vars_num) \in Nat
    BY <1>0
  <2> QED BY <1>0, <1>4, <2>1, ReadingStep DEF EndLine, Reading, gen
<1>5. CASE EndParse
  BY <1>0, <1>5, ReadingStep DEF EndParse, Reading, cubes, gen
<1> QED BY <1>1, <1>2, <1>3, <1>4, <1>5

-----------------------------------------------------------------------------
(* The steps of genFromSop                                                 *)

\* A step that works on the BDD of one cube.
LEMMA TermStep ==
  ASSUME IInv, phase = "gen", phase' = "gen", UNCHANGED <<cubes, pos, bdds, stack, ret, todo, answer>>,
         col' \in Nat, false_leaf' \in DOMAIN heap', HeapOK(heap', vars_num),
         GenOK(heap', vars_num, terms, bdds), Unvisited(heap'),
         pos <= Len(terms), TermOK(heap', vars_num, terms[pos], root', false_leaf', col')
  PROVE  IInv'
<1>1. vars_num' = vars_num /\ terms' = terms /\ pos' = pos /\ bdds' = bdds
  BY DEF cubes
<1>2. Types'
  <2>1. {root', false_leaf'} \subseteq DOMAIN heap' \cup {0}
    BY DEF TermOK
  <2> QED BY <1>1, <2>1 DEF IInv, Types
<1>3. Nodes'
  BY <1>1 DEF Nodes
<1>4. GenInv'
  BY <1>1 DEF IInv, GenInv
<1>5. EarlyInv'
  BY DEF IInv, EarlyInv
<1> QED BY <1>2, <1>3, <1>4, <1>5
        DEF IInv, ReadingInv, Reading, GeneratedInv, CrashedInv, OrInv, TravelInv, DoneInv

LEMMA GenFacts ==
  ASSUME IInv, phase = "gen"
  PROVE  /\ HeapOK(heap, vars_num) /\ GenOK(heap, vars_num, terms, bdds) /\ Unvisited(heap)
         /\ vars_num \in Nat /\ pos \in Nat \ {0} /\ col \in Nat /\ terms \in Seq(Seq(Words))
         /\ pos = Len(bdds) + 1 /\ stack = <<>> /\ ret = 0 /\ todo = <<>>
         /\ root # 0 => /\ pos <= Len(terms) /\ terms[pos] \in Seq(Words) /\ Len(terms[pos]) \in Nat
                        /\ TermOK(heap, vars_num, terms[pos], root, false_leaf, col)
<1>1. /\ HeapOK(heap, vars_num) /\ GenOK(heap, vars_num, terms, bdds) /\ Unvisited(heap)
      /\ vars_num \in Nat /\ pos \in Nat \ {0} /\ col \in Nat /\ terms \in Seq(Seq(Words))
      /\ pos = Len(bdds) + 1 /\ stack = <<>> /\ ret = 0 /\ todo = <<>>
  BY DEF IInv, Nodes, Types, GenInv, EarlyInv
<1>2. ASSUME root # 0
      PROVE  /\ pos <= Len(terms) /\ terms[pos] \in Seq(Words) /\ Len(terms[pos]) \in Nat
             /\ TermOK(heap, vars_num, terms[pos], root, false_leaf, col)
  <2>1. pos <= Len(terms) /\ TermOK(heap, vars_num, terms[pos], root, false_leaf, col)
    BY <1>2 DEF IInv, GenInv
  <2>2. pos \in 1..Len(terms)
    BY <1>1, <2>1
  <2>3. terms[pos] \in Seq(Words)
    BY <1>1, <2>2, MembersOfSeq
  <2> QED BY <2>1, <2>3
<1> QED BY <1>1, <1>2

LEMMA BeginTermInv == IInv /\ BeginTerm => IInv'
<1> SUFFICES ASSUME IInv, BeginTerm PROVE IInv'
  OBVIOUS
<1>1. /\ phase = "gen" /\ phase' = "gen" /\ pos <= Len(terms)
      /\ UNCHANGED <<cubes, pos, bdds, stack, ret, todo, answer>>
      /\ root' = Len(heap) + 1 /\ false_leaf' = Len(heap) + 2 /\ col' = vars_num
  BY DEF BeginTerm
<1>2. PICK h1 : h1 = Append(heap, LeafNode(vars_num, TRUE)) /\ heap' = Append(h1, LeafNode(vars_num, FALSE))
  BY Same DEF BeginTerm
<1>3. /\ HeapOK(heap', vars_num) /\ TermOK(heap', vars_num, terms[pos], Len(heap) + 1, Len(heap) + 2, vars_num)
      /\ Unvisited(heap') /\ GenOK(heap', vars_num, terms, bdds)
  <2>1. /\ HeapOK(heap', vars_num) /\ TermOK(heap', vars_num, terms[pos], Len(heap) + 1, Len(heap) + 2, vars_num)
        /\ \A ts, bs : Unvisited(heap) /\ GenOK(heap, vars_num, ts, bs) =>
                           Unvisited(heap') /\ GenOK(heap', vars_num, ts, bs)
    BY <1>1, <1>2, GenFacts, TermBegins
  <2> QED BY <1>1, <2>1, GenFacts
<1>4. false_leaf' \in DOMAIN heap' /\ col' \in Nat
  BY <1>1, <1>3, GenFacts DEF TermOK
<1> QED BY <1>1, <1>3, <1>4, TermStep

LEMMA ColumnInv == IInv /\ Column => IInv'
<1> SUFFICES ASSUME IInv, Column PROVE IInv'
  OBVIOUS
<1> DEFINE n == vars_num
           t == terms[pos]
<1>1. /\ phase = "gen" /\ root # 0 /\ col > 0 /\ col <= Len(t) /\ col' = col - 1
      /\ UNCHANGED <<cubes, phase, pos, bdds, false_leaf, stack, ret, todo, answer>>
  BY DEF Column, InTerm
<1>2. /\ HeapOK(heap, n) /\ GenOK(heap, n, terms, bdds) /\ Unvisited(heap)
      /\ n \in Nat /\ col \in Nat /\ pos <= Len(terms) /\ t \in Seq(Words) /\ Len(t) \in Nat
      /\ TermOK(heap, n, t, root, false_leaf, col)
  BY <1>1, GenFacts
<1>3. t[col] \in Words
  <2>1. col \in 1..Len(t)
    BY <1>1, <1>2
  <2> QED BY <1>2, <2>1, MembersOfSeq
<1>4. /\ HeapOK(heap', n) /\ GenOK(heap', n, terms, bdds) /\ Unvisited(heap')
      /\ TermOK(heap', n, t, root', false_leaf, col - 1)
  <2>1. CASE t[col] = "11"
    <3>1. heap' = heap /\ root' = root
      BY <2>1 DEF Column
    <3> QED BY <1>1, <1>2, <2>1, <3>1, ColumnSkipped
  <2>2. CASE t[col] # "11"
    <3>1. PICK x : x = IF t[col] = "01" THEN InnerNode(heap, n, col, root, false_leaf)
                                       ELSE InnerNode(heap, n, col, false_leaf, root)
      OBVIOUS
    <3>2. heap' = Append(heap, x) /\ root' = Len(heap) + 1
      BY <2>2, <3>1, Same DEF Column, Literal
    <3>3. t[col] \in {"01", "10"}
      BY <1>3, <2>2 DEF Words
    <3>4. /\ HeapOK(heap', n) /\ x \in Shape(n) /\ ~x.is_visited
          /\ TermOK(heap', n, t, root', false_leaf, col - 1)
      BY <1>1, <1>2, <3>1, <3>2, <3>3, ColumnDecided
    <3>5. Grown(heap, n, x, heap')
      BY <1>2, <3>2, <3>4, GrownHeap
    <3> QED BY <1>2, <3>4, <3>5, GenGrow
  <2> QED BY <2>1, <2>2
<1>5. false_leaf' \in DOMAIN heap' /\ col' \in Nat
  BY <1>1, <1>2, <1>4 DEF TermOK
<1> QED BY <1>1, <1>2, <1>4, <1>5, TermStep

LEMMA ThrowShortInv == IInv /\ ThrowShort => IInv'
<1> SUFFICES ASSUME IInv, ThrowShort PROVE IInv'
  OBVIOUS
<1>1. /\ phase = "gen" /\ root # 0 /\ col > Len(terms[pos]) /\ phase' = "crashed"
      /\ UNCHANGED <<cubes, pos, heap, bdds, gen, stack, ret, todo, answer>>
  BY DEF ThrowShort, InTerm
<1>2. Short
  <2>1. pos \in DOMAIN terms /\ Len(terms[pos]) \in Nat /\ col \in Nat /\ vars_num \in Nat /\ col <= vars_num
    BY <1>1, GenFacts DEF TermOK
  <2> QED BY <1>1, <2>1 DEF Short
<1>3. Short'
  BY <1>1, <1>2 DEF Short, cubes
<1>4. Types' /\ Nodes' /\ EarlyInv'
  BY <1>1 DEF IInv, Types, Nodes, EarlyInv, cubes, gen
<1> QED BY <1>1, <1>3, <1>4
        DEF IInv, ReadingInv, Reading, GenInv, GeneratedInv, CrashedInv, OrInv, TravelInv, DoneInv

LEMMA EndTermInv == IInv /\ EndTerm => IInv'
<1> SUFFICES ASSUME IInv, EndTerm PROVE IInv'
  OBVIOUS
<1>1. /\ phase = "gen" /\ phase' = "gen" /\ root # 0 /\ col = 0
      /\ bdds' = Append(bdds, root) /\ pos' = pos + 1 /\ root' = 0
      /\ UNCHANGED <<cubes, heap, col, false_leaf, stack, ret, todo, answer>>
  BY DEF EndTerm
<1>2. /\ GenOK(heap, vars_num, terms, bdds) /\ vars_num \in Nat /\ pos \in Nat \ {0} /\ pos = Len(bdds) + 1
      /\ pos <= Len(terms) /\ Len(terms[pos]) \in Nat
      /\ TermOK(heap, vars_num, terms[pos], root, false_leaf, 0)
  BY <1>1, GenFacts
<1>3. GenOK(heap, vars_num, terms, bdds')
  <2>1. root \in DOMAIN heap /\ vars_num <= Len(terms[pos]) /\ heap[root].fn = Cube(vars_num, terms[pos], 0)
    BY <1>2 DEF TermOK
  <2>2. PICK bs : bs = bdds'
    OBVIOUS
  <2>3. /\ bs \in Seq(DOMAIN heap) /\ Len(bs) = pos /\ bs[pos] = root
        /\ \A i \in 1..pos - 1 : bs[i] = bdds[i]
    <3>1. Len(bdds) + 1 = pos /\ Len(bdds) = pos - 1
      BY <1>2
    <3>2. bs = Append(bdds, root) /\ bdds \in Seq(DOMAIN heap)
      BY <1>1, <1>2, <2>2 DEF GenOK
    <3> QED BY <2>1, <3>1, <3>2, AppendProperties
  <2>4. \A i \in 1..pos : i \in 1..pos - 1 \/ i = pos
    BY <1>2
  <2>5. \A i \in 1..pos - 1 : vars_num <= Len(terms[i]) /\ heap[bdds[i]].fn = Cube(vars_num, terms[i], 0)
    <3>1. pos - 1 = Len(bdds)
      BY <1>2 DEF GenOK
    <3> QED BY <1>2, <3>1 DEF GenOK
  <2> QED BY <1>2, <2>1, <2>2, <2>3, <2>4, <2>5 DEF GenOK
<1>4. Types'
  <2>1. pos + 1 \in Nat \ {0}
    BY <1>2
  <2> QED BY <1>1, <2>1 DEF IInv, Types, cubes
<1>5. Nodes' /\ EarlyInv'
  BY <1>1, <1>3 DEF IInv, Nodes, EarlyInv, cubes
<1>6. GenInv'
  <2>1. Len(bdds') = Len(bdds) + 1
    BY <1>1, <1>2 DEF GenOK
  <2> QED BY <1>1, <1>2, <2>1 DEF GenInv
<1> QED BY <1>1, <1>4, <1>5, <1>6
        DEF IInv, ReadingInv, Reading, GeneratedInv, CrashedInv, OrInv, TravelInv, DoneInv

\* All cubes have their BDDs: together they compute the output.
LEMMA AllGenerated ==
  ASSUME Types, Nodes, Len(bdds) = Len(terms)
  PROVE  Disj(heap, bdds) = Outputs
<1>1. /\ vars_num \in Nat /\ terms \in Seq(Seq(Words)) /\ bdds \in Seq(DOMAIN heap)
      /\ DOMAIN bdds = DOMAIN terms /\ DOMAIN bdds = 1..Len(bdds)
  BY SeqFacts DEF Types, Nodes, GenOK
<1>2. ASSUME NEW i \in DOMAIN bdds
      PROVE  heap[bdds[i]].fn = {a \in Assignments : Satisfies(a, terms[i])}
  <2>1. heap[bdds[i]].fn = Cube(vars_num, terms[i], 0)
    BY <1>1 DEF Nodes, GenOK
  <2>2. \A v \in 1..vars_num : v > 0
    BY <1>1
  <2> QED BY <2>1, <2>2, Same DEF Cube, Satisfies, Variables
<1> QED BY <1>1, <1>2 DEF Disj, Outputs, Output

LEMMA EndGenInv == IInv /\ EndGen => IInv'
<1> SUFFICES ASSUME IInv, EndGen PROVE IInv'
  OBVIOUS
<1>1. /\ phase = "gen" /\ pos > Len(terms) /\ phase' \in {"crashed", "or"}
      /\ UNCHANGED <<cubes, pos, heap, bdds, gen, ret, todo, answer>>
  BY DEF EndGen
<1>2. /\ HeapOK(heap, vars_num) /\ GenOK(heap, vars_num, terms, bdds) /\ vars_num \in Nat
      /\ terms \in Seq(Seq(Words)) /\ pos = Len(bdds) + 1 /\ stack = <<>> /\ ret = 0
  BY <1>1, GenFacts
<1>3. Len(bdds) = Len(terms)
  <2>1. Len(bdds) \in Nat /\ Len(terms) \in Nat /\ Len(bdds) <= Len(terms)
    BY <1>2 DEF GenOK
  <2> QED BY <1>1, <1>2, <2>1
<1>4. Types' /\ Nodes'
  BY <1>1 DEF IInv, Types, Nodes, cubes, gen
<1>5. /\ vars_num' = vars_num /\ terms' = terms /\ heap' = heap /\ bdds' = bdds /\ ret' = 0
      /\ todo' = todo /\ Outputs' = Outputs
  BY <1>1, <1>2 DEF cubes, Outputs, Assignments, Variables, Output, Satisfies
<1>6. CASE bdds = <<>>
  <2>1. phase' = "crashed" /\ stack' = stack /\ terms' = <<>>
    BY <1>1, <1>2, <1>3, <1>5, <1>6 DEF EndGen
  <2>2. EarlyInv'
    BY <1>1, <1>2, <1>5, <2>1 DEF IInv, EarlyInv
  <2> QED BY <1>1, <1>4, <2>1, <2>2
          DEF IInv, ReadingInv, Reading, GenInv, GeneratedInv, CrashedInv, OrInv, TravelInv, DoneInv
<1>7. CASE bdds # <<>>
  <2>1. phase' = "or" /\ stack' = <<Entered(bdds)>>
    BY <1>7, Same DEF EndGen
  <2>2. EarlyInv'
    BY <1>1, <1>5, <2>1 DEF IInv, EarlyInv
  <2>3. Disj(heap, bdds) = Outputs
    BY <1>3, AllGenerated DEF IInv
  <2>4. Entered(bdds) \in Frame(DOMAIN heap, DOMAIN bdds, vars_num)
    <3>1. bdds \in [DOMAIN bdds -> DOMAIN heap] /\ DOMAIN bdds # {}
      <4>1. PICK S : S = DOMAIN heap
        OBVIOUS
      <4>2. bdds \in Seq(S)
        BY <1>2, <4>1 DEF GenOK
      <4>3. DOMAIN bdds = 1..Len(bdds) /\ Len(bdds) \in Nat /\ Len(bdds) # 0
        BY <1>7, <4>2
      <4>4. 1 \in DOMAIN bdds
        BY <4>3
      <4>5. bdds \in [1..Len(bdds) -> S]
        BY <4>2
      <4> QED BY <4>1, <4>3, <4>4, <4>5
    <3>2. 0 \in 0..vars_num /\ DOMAIN bdds \in SUBSET DOMAIN bdds
      BY <1>2
    <3> QED BY <1>2, <3>1, <3>2, FrameIntro DEF Entered
  <2>5. OrOK(heap, vars_num, DOMAIN bdds, Outputs, <<Entered(bdds)>>, 0)
    <3>1. PICK c, s : c = Entered(bdds) /\ s = <<c>>
      OBVIOUS
    <3>2. c.at = "entry" /\ c.bdds = bdds
      BY <3>1 DEF Entered
    <3>3. s \in Seq(Frame(DOMAIN heap, DOMAIN bdds, vars_num)) /\ Len(s) = 1 /\ s[1] = c
      <4> HIDE DEF Frame
      <4> QED BY <2>4, <3>1
    <3>4. \A k \in 1..Len(s) : k = 1
      BY <3>3
    <3>5. CallOK(heap, vars_num, Outputs, s, 0, 1)
      BY <2>3, <3>2, <3>3 DEF CallOK, Wanted, Above
    <3> QED BY <3>1, <3>3, <3>4, <3>5 DEF OrOK, ReturnOK
  <2>6. OrInv'
    BY <1>5, <2>1, <2>5 DEF OrInv
  <2> QED BY <1>3, <1>4, <1>5, <1>7, <2>1, <2>2, <2>6
          DEF IInv, ReadingInv, Reading, GenInv, GeneratedInv, CrashedInv, TravelInv, DoneInv
<1> QED BY <1>6, <1>7

-----------------------------------------------------------------------------
(* The steps of OR                                                         *)

\* A step between calls of OR.
LEMMA OrStep ==
  ASSUME IInv, phase = "or", phase' = "or", UNCHANGED <<cubes, pos, bdds, gen, todo, answer>>,
         DOMAIN heap \subseteq DOMAIN heap', HeapOK(heap', vars_num), GenOK(heap', vars_num, terms, bdds),
         Unvisited(heap'), OrOK(heap', vars_num, DOMAIN bdds, Outputs, stack', ret')
  PROVE  IInv'
<1>1. /\ vars_num' = vars_num /\ terms' = terms /\ pos' = pos /\ bdds' = bdds /\ todo' = todo
      /\ col' = col /\ root' = root /\ false_leaf' = false_leaf /\ answer' = answer
  BY DEF cubes, gen
<1>2. Outputs' = Outputs
  BY <1>1 DEF Outputs, Assignments, Variables, Output, Satisfies
<1>3. Types'
  BY <1>1 DEF IInv, Types
<1>4. Nodes' /\ EarlyInv' /\ OrInv'
  BY <1>1, <1>2 DEF IInv, Nodes, EarlyInv, OrInv
<1> QED BY <1>1, <1>3, <1>4
        DEF IInv, ReadingInv, Reading, GenInv, GeneratedInv, CrashedInv, TravelInv, DoneInv

LEMMA OrFacts ==
  ASSUME IInv, phase = "or"
  PROVE  /\ HeapOK(heap, vars_num) /\ GenOK(heap, vars_num, terms, bdds) /\ Unvisited(heap)
         /\ vars_num \in Nat /\ DOMAIN heap = 1..Len(heap) /\ Len(heap) \in Nat
         /\ OrOK(heap, vars_num, DOMAIN bdds, Outputs, stack, ret)
BY HeapFacts DEF IInv, Nodes, Types, EarlyInv, OrInv

\* What is known of the call on top.
LEMMA TopFacts ==
  ASSUME IInv, phase = "or", stack # <<>>
  PROVE  /\ Len(stack) \in 1..Len(stack) /\ Len(stack) \in Nat /\ Len(stack) > 0
         /\ Top \in Frame(DOMAIN heap, DOMAIN bdds, vars_num) /\ Within(heap, Top.bdds)
         /\ CallOK(heap, vars_num, Outputs, stack, ret, Len(stack)) /\ Top = stack[Len(stack)]
<1> DEFINE F == Frame(DOMAIN heap, DOMAIN bdds, vars_num)
<1>1. stack \in Seq(F) /\ \A k \in 1..Len(stack) : CallOK(heap, vars_num, Outputs, stack, ret, k)
  BY OrFacts DEF OrOK
<1> HIDE DEF F
<1>2. Len(stack) \in 1..Len(stack) /\ Len(stack) \in Nat /\ Len(stack) > 0
  BY <1>1
<1>3. stack[Len(stack)] \in F
  BY <1>1, <1>2, MembersOfSeq
<1>4. \A i \in DOMAIN stack[Len(stack)].bdds : stack[Len(stack)].bdds[i] \in DOMAIN heap
  BY <1>3, OrFacts, FrameFacts DEF F
<1> QED BY <1>1, <1>2, <1>3, <1>4 DEF F, Top, Within

LEMMA ReturnTrueInv == IInv /\ ReturnTrue => IInv'
<1> SUFFICES ASSUME IInv, ReturnTrue PROVE IInv'
  OBVIOUS
<1> DEFINE n == vars_num
<1>1. PICK i \in DOMAIN Top.bdds :
        heap[Top.bdds[i]].is_leaf /\ heap[Top.bdds[i]].leaf_value /\ ret' = Top.bdds[i]
  BY DEF ReturnTrue, TrueLeaves
<1>2. /\ phase = "or" /\ phase' = "or" /\ stack # <<>> /\ stack' = Callers /\ heap' = heap
      /\ UNCHANGED <<cubes, pos, bdds, gen, todo, answer>>
  BY DEF ReturnTrue, Entering
<1>3. PICK q : q = Top.bdds[i]
  OBVIOUS
<1>4. q \in DOMAIN heap /\ q # 0 /\ heap[q].fn = Inputs(n) /\ Rank(heap, n, q) = n + 1
  <2>1. q \in DOMAIN heap
    BY <1>1, <1>2, <1>3, TopFacts DEF Within
  <2> QED BY <1>1, <1>2, <1>3, <2>1, OrFacts DEF HeapOK, NodeOK, LeafOK, Rank
<1>5. heap[q].fn = Disj(heap, Top.bdds)
  <2>1. \A r \in DOMAIN heap : heap[r].fn \subseteq Inputs(n)
    BY <1>2, OrFacts, HeapFacts
  <2> QED BY <1>1, <1>2, <1>3, <1>4, <2>1, TopFacts DEF Disj, Within
<1>6. Len(stack) > 1 => stack[Len(stack) - 1].var < Rank(heap, n, q)
  BY <1>2, <1>1, <1>3, TopFacts DEF CallOK, Above
<1>7. OrOK(heap, n, DOMAIN bdds, Outputs, stack', q)
  BY <1>2, <1>4, <1>5, <1>6, TopFacts, OrFacts, OrPop DEF Callers
<1> QED BY <1>1, <1>2, <1>3, <1>7, OrFacts, OrStep

LEMMA ReturnFalseInv == IInv /\ ReturnFalse => IInv'
<1> SUFFICES ASSUME IInv, ReturnFalse PROVE IInv'
  OBVIOUS
<1> DEFINE n == vars_num
           bs == Top.bdds
<1>1. /\ phase = "or" /\ phase' = "or" /\ stack # <<>> /\ ret = 0 /\ stack' = Callers /\ ret' = Len(heap) + 1
      /\ UNCHANGED <<cubes, pos, bdds, gen, todo, answer>>
      /\ TrueLeaves(bs) = {} /\ DOMAIN Inners(bs) = {}
  BY DEF ReturnFalse, Entering
<1>2. PICK x : x = LeafNode(n, FALSE)
  OBVIOUS
<1>3. heap' = Append(heap, x) /\ x.fn = {} /\ ~x.is_visited /\ x.is_leaf
  BY <1>2, Same DEF ReturnFalse, LeafNode
<1>4. HeapOK(heap', n) /\ x \in Shape(n)
  BY <1>1, <1>2, <1>3, OrFacts, LeafAdded
<1>5. Grown(heap, n, x, heap')
  BY <1>1, <1>3, <1>4, OrFacts, GrownHeap
<1>6. Disj(heap, bs) = {}
  <2>1. ASSUME NEW i \in DOMAIN bs PROVE heap[bs[i]].fn = {}
    <3>1. bs[i] \in DOMAIN heap
      BY <1>1, TopFacts DEF Within
    <3>2. heap[bs[i]].is_leaf /\ ~heap[bs[i]].leaf_value
      BY <1>1 DEF TrueLeaves, Inners
    <3> QED BY <1>1, <3>1, <3>2, OrFacts DEF HeapOK, NodeOK, LeafOK
  <2> QED BY <2>1 DEF Disj
<1>7. GenOK(heap', n, terms, bdds) /\ Unvisited(heap')
  BY <1>1, <1>3, <1>5, OrFacts, GenGrow
<1>8. OrOK(heap', n, DOMAIN bdds, Outputs, stack, ret)
  BY <1>1, <1>5, OrFacts, OrGrow
<1>9. OrOK(heap', n, DOMAIN bdds, Outputs, stack', ret')
  <2>1. PICK q : q = Len(heap) + 1
    OBVIOUS
  <2>2. q \in DOMAIN heap' /\ q # 0 /\ heap'[q] = x
    BY <1>1, <1>5, <2>1, OrFacts DEF Grown
  <2>3. heap'[q].fn = Disj(heap', stack[Len(stack)].bdds)
    <3>1. \A i \in DOMAIN bs : bs[i] \in DOMAIN heap
      BY <1>1, TopFacts DEF Within
    <3>2. Disj(heap', bs) = Disj(heap, bs)
      BY <1>5, <3>1 DEF Disj, Grown
    <3> QED BY <1>3, <1>6, <2>2, <3>2 DEF Top
  <2>4. Len(stack) > 1 => stack[Len(stack) - 1].var < Rank(heap', n, q)
    <3> SUFFICES ASSUME Len(stack) > 1 PROVE stack[Len(stack) - 1].var < n + 1
      BY <1>3, <2>2 DEF Rank
    <3>1. Len(stack) - 1 \in 1..Len(stack) /\ Len(stack) - 1 # Len(stack)
      BY <1>1, TopFacts
    <3>2. CallOK(heap, n, Outputs, stack, ret, Len(stack) - 1)
      BY <1>1, <3>1, OrFacts DEF OrOK
    <3>3. stack[Len(stack) - 1].var \in 1..n
      BY <3>1, <3>2 DEF CallOK, Chosen
    <3> QED BY <1>1, <3>3, OrFacts
  <2>5. n \in Nat
    BY <1>1, OrFacts
  <2> QED BY <1>1, <1>4, <1>8, <2>1, <2>2, <2>3, <2>4, <2>5, OrPop DEF Callers
<1> QED BY <1>1, <1>4, <1>5, <1>7, <1>9, OrStep DEF Grown

LEMMA SplitInv == IInv /\ Split => IInv'
<1> SUFFICES ASSUME IInv, Split PROVE IInv'
  OBVIOUS
<1> DEFINE n == vars_num
           bs == Top.bdds
<1>1. /\ phase = "or" /\ phase' = "or" /\ stack # <<>> /\ ret = 0 /\ ret' = 0 /\ heap' = heap
      /\ UNCHANGED <<cubes, pos, bdds, gen, todo, answer>>
      /\ TrueLeaves(bs) = {} /\ DOMAIN Inners(bs) # {}
  BY DEF Split, Entering
<1>2. PICK v \in Variables :
        /\ IsFirstVar(v, Inners(bs))
        /\ stack' = Append(Append(Callers, [Top EXCEPT !.bdds = Inners(@), !.at = "true", !.var = v]),
                           Call(Cofactors(Inners(bs), v, TRUE)))
  BY DEF Split
<1>3. PICK ins, f : ins = Inners(bs) /\ f = [Top EXCEPT !.bdds = Inners(@), !.at = "true", !.var = v]
  OBVIOUS
<1>4. /\ DOMAIN ins \subseteq DOMAIN bs /\ DOMAIN ins # {}
      /\ \A i \in DOMAIN ins : ins[i] = bs[i] /\ ~heap[ins[i]].is_leaf
      /\ \A i \in DOMAIN bs \ DOMAIN ins : heap[bs[i]].is_leaf /\ ~heap[bs[i]].leaf_value
      /\ ins = [i \in DOMAIN ins |-> bs[i]]
  BY <1>1, <1>3 DEF Inners, TrueLeaves
<1>5. f.bdds = ins /\ f.at = "true" /\ f.var = v /\ f \in Frame(DOMAIN heap, DOMAIN bdds, n)
  <2>1. Top \in Frame(DOMAIN heap, DOMAIN bdds, n) /\ n \in Nat
    BY <1>1, TopFacts, OrFacts
  <2>2. f = [bdds |-> ins, at |-> "true", var |-> v, true_son |-> Top.true_son]
    BY <1>3, <2>1 DEF Frame
  <2>3. Top.true_son \in DOMAIN heap \cup {0} /\ \A i \in DOMAIN bs : bs[i] \in DOMAIN heap /\ i \in DOMAIN bdds
    BY <2>1, FrameFacts
  <2>4. ins \in [DOMAIN ins -> DOMAIN heap] /\ DOMAIN ins \in SUBSET DOMAIN bdds
    BY <1>4, <2>3
  <2>5. v \in 0..n
    BY <2>1 DEF Variables
  <2>6. f \in Frame(DOMAIN heap, DOMAIN bdds, n)
    BY <1>4, <2>1, <2>2, <2>3, <2>4, <2>5, FrameIntro
  <2> QED BY <2>2, <2>6
<1>6. Disj(heap, ins) = Disj(heap, bs)
  <2>1. ASSUME NEW i \in DOMAIN bs \ DOMAIN ins PROVE heap[bs[i]].fn = {}
    <3>1. bs[i] \in DOMAIN heap
      BY <1>1, TopFacts DEF Within
    <3> QED BY <1>1, <1>4, <3>1, OrFacts DEF HeapOK, NodeOK, LeafOK
  <2> QED BY <1>4, <2>1 DEF Disj
<1>7. Chosen(heap, n, f)
  BY <1>2, <1>3, <1>4, <1>5 DEF Chosen, AllInner, IsFirstVar, Variables
<1>8. Above(heap, n, stack, Len(stack), f.bdds)
  <2>1. Above(heap, n, stack, Len(stack), bs)
    BY <1>1, TopFacts DEF CallOK
  <2> QED BY <1>4, <1>5, <2>1 DEF Above
<1>9. stack' = Append(Append(SubSeq(stack, 1, Len(stack) - 1), f), Entered(Cof(heap, f.bdds, f.var, f.at = "true")))
  <2>1. (f.at = "true") = TRUE
    BY <1>5
  <2>2. Call(Cofactors(ins, v, TRUE)) = Entered(Cof(heap, f.bdds, f.var, f.at = "true"))
    BY <1>5, <2>1, Same
  <2> QED BY <1>2, <1>3, <2>2 DEF Callers
<1>10. OrOK(heap, n, DOMAIN bdds, Outputs, stack', 0)
  <2>1. Disj(heap, f.bdds) = Disj(heap, stack[Len(stack)].bdds)
    BY <1>5, <1>6 DEF Top
  <2>2. f.at # "entry" /\ f.at # "false"
    BY <1>5
  <2> QED BY <1>1, <1>5, <1>7, <1>8, <1>9, <2>1, <2>2, OrFacts, OrPush
<1> QED BY <1>1, <1>10, OrFacts, OrStep

LEMMA ReturnedFacts ==
  ASSUME IInv, Returned, stack # <<>>
  PROVE  /\ phase = "or" /\ ret # 0 /\ ret \in DOMAIN heap /\ Chosen(heap, vars_num, Top)
         /\ heap[ret].fn = Disj(heap, Cof(heap, Top.bdds, Top.var, Top.at = "true"))
         /\ Top.var < Rank(heap, vars_num, ret)
         /\ Top.at = "false" => HalfDone(heap, vars_num, Top)
<1>1. phase = "or" /\ ret # 0
  BY DEF Returned
<1>2. /\ Len(stack) > 0 /\ Top = stack[Len(stack)]
      /\ CallOK(heap, vars_num, Outputs, stack, ret, Len(stack))
  BY <1>1, TopFacts
<1>3. ReturnOK(heap, vars_num, Outputs, stack, ret) /\ ret \in DOMAIN heap
  BY <1>1, OrFacts DEF OrOK
<1>4. heap[ret].fn = Wanted(heap, Outputs, stack, Len(stack)) /\ Top.var < Rank(heap, vars_num, ret)
  BY <1>1, <1>2, <1>3 DEF ReturnOK
<1>5. Len(stack) # 0
  BY <1>1, <1>2, TopFacts
<1> QED BY <1>1, <1>2, <1>3, <1>4, <1>5 DEF CallOK, Wanted

LEMMA OtherBranchInv == IInv /\ OtherBranch => IInv'
<1> SUFFICES ASSUME IInv, OtherBranch PROVE IInv'
  OBVIOUS
<1> DEFINE n == vars_num
<1>1. /\ Returned /\ stack # <<>> /\ Top.at = "true" /\ phase' = phase /\ heap' = heap /\ ret' = 0
      /\ UNCHANGED <<cubes, pos, bdds, gen, todo, answer>>
      /\ stack' = Append(Append(Callers, [Top EXCEPT !.at = "false", !.true_son = ret]),
                         Call(Cofactors(Top.bdds, Top.var, FALSE)))
  BY DEF OtherBranch
<1>2. /\ phase = "or" /\ ret \in DOMAIN heap /\ Chosen(heap, n, Top) /\ Top.var < Rank(heap, n, ret)
      /\ heap[ret].fn = Disj(heap, Cof(heap, Top.bdds, Top.var, Top.at = "true"))
  BY <1>1, ReturnedFacts
<1>3. PICK f : f = [Top EXCEPT !.at = "false", !.true_son = ret]
  OBVIOUS
<1>4. /\ f.bdds = Top.bdds /\ f.at = "false" /\ f.var = Top.var /\ f.true_son = ret
      /\ f \in Frame(DOMAIN heap, DOMAIN bdds, n)
  <2>1. Top \in Frame(DOMAIN heap, DOMAIN bdds, n)
    BY <1>1, <1>2, TopFacts
  <2> QED BY <1>2, <1>3, <2>1 DEF Frame
<1>5. Chosen(heap, n, f)
  BY <1>2, <1>4 DEF Chosen
<1>6. HalfDone(heap, n, f)
  <2>1. (Top.at = "true") = TRUE
    BY <1>1
  <2> QED BY <1>2, <1>4, <2>1 DEF HalfDone
<1>7. Above(heap, n, stack, Len(stack), f.bdds)
  BY <1>1, <1>2, <1>4, TopFacts DEF CallOK
<1>8. stack' = Append(Append(SubSeq(stack, 1, Len(stack) - 1), f), Entered(Cof(heap, f.bdds, f.var, f.at = "true")))
  <2>1. (f.at = "true") = FALSE
    BY <1>4
  <2>2. Call(Cofactors(Top.bdds, Top.var, FALSE)) = Entered(Cof(heap, f.bdds, f.var, f.at = "true"))
    BY <1>4, <2>1, Same
  <2> QED BY <1>1, <1>3, <2>2 DEF Callers
<1>9. OrOK(heap, n, DOMAIN bdds, Outputs, stack', 0)
  <2>1. Disj(heap, f.bdds) = Disj(heap, stack[Len(stack)].bdds)
    BY <1>4 DEF Top
  <2>2. f.at # "entry"
    BY <1>4
  <2> QED BY <1>1, <1>2, <1>4, <1>5, <1>6, <1>7, <1>8, <2>1, <2>2, OrFacts, OrPush
<1> QED BY <1>1, <1>2, <1>9, OrFacts, OrStep

LEMMA JoinInv == IInv /\ Join => IInv'
<1> SUFFICES ASSUME IInv, Join PROVE IInv'
  OBVIOUS
<1> DEFINE n == vars_num
           v == Top.var
           t == Top.true_son
<1>1. /\ Returned /\ stack # <<>> /\ Top.at = "false" /\ phase' = phase /\ ret' = Len(heap) + 1
      /\ UNCHANGED <<cubes, pos, bdds, gen, todo, answer>> /\ stack' = Callers
      /\ heap' = Append(heap, Inner(v, t, ret))
  BY DEF Join
<1>2. /\ phase = "or" /\ ret \in DOMAIN heap /\ Chosen(heap, n, Top) /\ v < Rank(heap, n, ret)
      /\ heap[ret].fn = Disj(heap, Cof(heap, Top.bdds, v, FALSE))
      /\ HalfDone(heap, n, Top)
  <2>1. (Top.at = "true") = FALSE
    BY <1>1
  <2> QED BY <1>1, <2>1, ReturnedFacts
<1>3. PICK x : x = InnerNode(heap, n, v, t, ret)
  OBVIOUS
<1>4. heap' = Append(heap, x) /\ ~x.is_visited /\ ~x.is_leaf /\ x.var_id = v /\ x.fn = Choice(heap, n, v, t, ret)
  BY <1>1, <1>3, Same DEF InnerNode
<1>5. v \in 1..n /\ t \in DOMAIN heap /\ v < Rank(heap, n, t)
  BY <1>2 DEF Chosen, HalfDone
<1>6. HeapOK(heap', n) /\ x \in Shape(n)
  BY <1>2, <1>3, <1>4, <1>5, OrFacts, InnerAdded
<1>7. Grown(heap, n, x, heap')
  BY <1>2, <1>4, <1>6, OrFacts, GrownHeap
<1>8. x.fn = Disj(heap, Top.bdds)
  <2>1. PICK bs, w, tt : bs = Top.bdds /\ w = v /\ tt = t
    OBVIOUS
  <2>2. Within(heap, bs) /\ AllInner(heap, bs, w) /\ w \in 1..n
    BY <1>1, <1>2, <1>5, <2>1, TopFacts DEF Chosen
  <2>3. IsBranch(heap, bs, w, TRUE, tt) /\ IsBranch(heap, bs, w, FALSE, ret)
    BY <1>2, <2>1 DEF HalfDone, IsBranch
  <2>4. HeapOK(heap, n) /\ n \in Nat
    BY <1>2, OrFacts
  <2>5. Joins(heap, n, bs, w, tt, ret)
    BY <2>2, <2>3, <2>4, Shannon
  <2> QED BY <1>4, <2>1, <2>5 DEF Joins
<1>9. GenOK(heap', n, terms, bdds) /\ Unvisited(heap')
  BY <1>2, <1>4, <1>7, OrFacts, GenGrow
<1>10. OrOK(heap', n, DOMAIN bdds, Outputs, stack, ret)
  BY <1>2, <1>7, OrFacts, OrGrow
<1>11. OrOK(heap', n, DOMAIN bdds, Outputs, stack', ret')
  <2>1. PICK q : q = Len(heap) + 1
    OBVIOUS
  <2>2. q \in DOMAIN heap' /\ q # 0 /\ heap'[q] = x
    BY <1>2, <1>7, <2>1, OrFacts DEF Grown
  <2>3. heap'[q].fn = Disj(heap', stack[Len(stack)].bdds)
    <3>1. \A i \in DOMAIN Top.bdds : Top.bdds[i] \in DOMAIN heap
      BY <1>1, <1>2, TopFacts DEF Within
    <3>2. Disj(heap', Top.bdds) = Disj(heap, Top.bdds)
      BY <1>7, <3>1 DEF Disj, Grown
    <3> QED BY <1>8, <2>2, <3>2 DEF Top
  <2>4. Len(stack) > 1 => stack[Len(stack) - 1].var < Rank(heap', n, q)
    <3>1. PICK i \in DOMAIN Top.bdds : heap[Top.bdds[i]].var_id = v /\ ~heap[Top.bdds[i]].is_leaf
      BY <1>2 DEF Chosen, AllInner
    <3>2. Len(stack) > 1 => stack[Len(stack) - 1].var < Rank(heap, n, Top.bdds[i])
      BY <1>1, <1>2, <3>1, TopFacts DEF CallOK, Above
    <3> QED BY <1>4, <2>2, <3>1, <3>2 DEF Rank
  <2>5. n \in Nat
    BY <1>2, OrFacts
  <2> QED BY <1>1, <1>6, <1>10, <2>1, <2>2, <2>3, <2>4, <2>5, OrPop DEF Callers
<1>12. DOMAIN heap \subseteq DOMAIN heap'
  BY <1>7 DEF Grown
<1> QED BY <1>1, <1>2, <1>6, <1>9, <1>11, <1>12, OrStep

LEMMA EndOrInv == IInv /\ EndOr => IInv'
<1> SUFFICES ASSUME IInv, EndOr PROVE IInv'
  OBVIOUS
<1>1. /\ phase = "or" /\ ret # 0 /\ stack = <<>> /\ phase' = "travel" /\ todo' = <<ret>>
      /\ UNCHANGED <<cubes, pos, heap, bdds, gen, stack, ret, answer>>
  BY DEF EndOr, Returned
<1>2. ret \in DOMAIN heap /\ heap[ret].fn = Outputs
  <2>1. OrOK(heap, vars_num, DOMAIN bdds, Outputs, stack, ret) /\ Len(stack) = 0
    BY <1>1, OrFacts
  <2> QED BY <1>1, <2>1 DEF OrOK, ReturnOK, Wanted
<1>3. TravelOK(heap, vars_num, ret, <<ret>>)
  <2>1. <<ret>> \in Seq(DOMAIN heap) /\ Len(<<ret>>) = 1 /\ <<ret>>[1] = ret
    BY <1>2
  <2>2. \A r \in DOMAIN heap : ~heap[r].is_visited
    BY <1>1, OrFacts DEF Unvisited
  <2> QED BY <1>2, <2>1, <2>2 DEF TravelOK
<1>4. UNCHANGED <<vars_num, terms, heap, bdds, stack, ret, root, false_leaf, pos, col, answer>> /\ Outputs' = Outputs
  BY <1>1 DEF cubes, gen, Outputs, Assignments, Variables, Output, Satisfies
<1>5. Types' /\ Nodes'
  BY <1>1, <1>4 DEF IInv, Types, Nodes
<1>6. TravelInv'
  BY <1>1, <1>2, <1>3, <1>4 DEF TravelInv
<1>7. GeneratedInv' /\ EarlyInv'
  BY <1>1, <1>4 DEF IInv, GeneratedInv, EarlyInv
<1> QED BY <1>1, <1>5, <1>6, <1>7 DEF IInv, ReadingInv, Reading, GenInv, CrashedInv, OrInv, DoneInv

-----------------------------------------------------------------------------
(* The steps of travelBDD                                                  *)

\* A step of travelBDD: it may mark a node, and it may end.
LEMMA TravelStep ==
  ASSUME IInv, phase = "travel", phase' \in {"travel", "done"},
         UNCHANGED <<cubes, pos, bdds, gen, stack, ret>>,
         DOMAIN heap' = DOMAIN heap, \A r \in DOMAIN heap : heap'[r].fn = heap[r].fn,
         HeapOK(heap', vars_num), TravelOK(heap', vars_num, ret, todo'), answer' \in BOOLEAN,
         phase' = "done" => (answer' <=> GroundTruth)
  PROVE  IInv'
<1>1. /\ vars_num' = vars_num /\ terms' = terms /\ pos' = pos /\ bdds' = bdds /\ stack' = stack /\ ret' = ret
      /\ col' = col /\ root' = root /\ false_leaf' = false_leaf
  BY DEF cubes, gen
<1>2. Outputs' = Outputs /\ GroundTruth' = GroundTruth
  BY <1>1 DEF Outputs, GroundTruth, Assignments, Variables, Output, Satisfies
<1>3. stack = <<>> /\ ret # 0 /\ heap[ret].fn = Outputs /\ TravelOK(heap, vars_num, ret, todo)
  BY DEF IInv, TravelInv
<1>4. Types'
  BY <1>1 DEF IInv, Types
<1>5. Nodes'
  <2>1. GenOK(heap, vars_num, terms, bdds)
    BY DEF IInv, Nodes
  <2>2. \A i \in 1..Len(bdds) : bdds[i] \in DOMAIN heap
    BY <2>1, MembersOfSeq DEF GenOK
  <2>3. GenOK(heap', vars_num, terms, bdds)
    BY <2>1, <2>2 DEF GenOK
  <2> QED BY <1>1, <2>3 DEF Nodes
<1>6. TravelInv'
  <2>1. heap'[ret].fn = Outputs
    BY <1>3 DEF TravelOK
  <2> QED BY <1>1, <1>2, <1>3, <2>1 DEF TravelInv
<1>7. DoneInv'
  BY <1>1, <1>2, <1>3 DEF DoneInv, TravelOK
<1>8. GeneratedInv' /\ EarlyInv'
  BY <1>1 DEF IInv, GeneratedInv, EarlyInv
<1> QED BY <1>1, <1>4, <1>5, <1>6, <1>7, <1>8 DEF IInv, ReadingInv, Reading, GenInv, CrashedInv, OrInv

LEMMA TravelFacts ==
  ASSUME IInv, phase = "travel"
  PROVE  /\ HeapOK(heap, vars_num) /\ vars_num \in Nat /\ TravelOK(heap, vars_num, ret, todo)
         /\ Open(heap, vars_num, ret) <=> ~GroundTruth
<1>1. HeapOK(heap, vars_num) /\ vars_num \in Nat /\ TravelOK(heap, vars_num, ret, todo) /\ heap[ret].fn = Outputs
  BY DEF IInv, Nodes, Types, TravelInv
<1>2. Open(heap, vars_num, ret) <=> Outputs # Assignments
  BY <1>1, Same DEF Open
<1>3. Outputs = Assignments <=> GroundTruth
  BY DEF Outputs, GroundTruth
<1> QED BY <1>1, <1>2, <1>3

LEMMA FindFalseInv == IInv /\ FindFalse => IInv'
<1> SUFFICES ASSUME IInv, FindFalse PROVE IInv'
  OBVIOUS
<1>1. /\ phase = "travel" /\ phase' = "done" /\ todo # <<>> /\ answer' = FALSE
      /\ heap[Head(todo)].is_leaf /\ ~heap[Head(todo)].leaf_value
      /\ UNCHANGED <<cubes, pos, heap, bdds, gen, stack, ret, todo>>
  BY DEF FindFalse, Travelling, Node
<1>2. ~GroundTruth
  <2>1. 1 \in 1..Len(todo) /\ Head(todo) = todo[1] /\ todo[1] \in DOMAIN heap
    BY <1>1, TravelFacts, TailFacts DEF TravelOK
  <2>2. heap[todo[1]].fn = {}
    BY <1>1, <2>1, TravelFacts DEF HeapOK, NodeOK, LeafOK
  <2>3. Open(heap, vars_num, todo[1])
    BY <1>1, <2>2, TravelFacts, InputExists DEF Open
  <2> QED BY <1>1, <2>1, <2>3, TravelFacts DEF TravelOK
<1> QED BY <1>1, <1>2, TravelFacts, TravelStep

LEMMA PassByInv == IInv /\ PassBy => IInv'
<1> SUFFICES ASSUME IInv, PassBy PROVE IInv'
  OBVIOUS
<1>1. /\ phase = "travel" /\ phase' = "travel" /\ todo # <<>> /\ todo' = Tail(todo)
      /\ UNCHANGED <<cubes, pos, heap, bdds, gen, stack, ret, answer>>
      /\ IF heap[Head(todo)].is_leaf THEN heap[Head(todo)].leaf_value ELSE heap[Head(todo)].is_visited
  BY DEF PassBy, Travelling, Node
<1>2. TravelOK(heap, vars_num, ret, todo')
  BY <1>1, TravelFacts, TravelPass
<1>3. answer' \in BOOLEAN
  BY <1>1 DEF IInv, Types
<1> QED BY <1>1, <1>2, <1>3, TravelFacts, TravelStep

LEMMA VisitInv == IInv /\ Visit => IInv'
<1> SUFFICES ASSUME IInv, Visit PROVE IInv'
  OBVIOUS
<1>0. PICK x : x = Head(todo)
  OBVIOUS
<1>1. /\ phase = "travel" /\ phase' = "travel" /\ todo # <<>> /\ ~heap[x].is_leaf
      /\ UNCHANGED <<cubes, pos, bdds, gen, stack, ret, answer>>
      /\ heap' = Marked(heap, x)
      /\ todo' = <<heap[x].true_son, heap[x].false_son>> \o Tail(todo)
  BY <1>0 DEF Visit, Travelling, Node, Marked
<1>2. TravelOK(heap', vars_num, ret, todo')
  BY <1>0, <1>1, TravelFacts, TravelVisit
<1>3. IsMarked(heap, vars_num, x, heap')
  <2>1. x \in DOMAIN heap
    BY <1>0, <1>1, TravelFacts, TailFacts DEF TravelOK
  <2> QED BY <1>1, <2>1, TravelFacts, MarkedHeap
<1>4. answer' \in BOOLEAN
  BY <1>1 DEF IInv, Types
<1> QED BY <1>1, <1>2, <1>3, <1>4, TravelStep DEF IsMarked

LEMMA EndTravelInv == IInv /\ EndTravel => IInv'
<1> SUFFICES ASSUME IInv, EndTravel PROVE IInv'
  OBVIOUS
<1>1. /\ phase = "travel" /\ phase' = "done" /\ todo = <<>> /\ answer' = TRUE
      /\ UNCHANGED <<cubes, pos, heap, bdds, gen, stack, ret, todo>>
  BY DEF EndTravel
<1>2. GroundTruth
  <2>1. ~Open(heap, vars_num, ret)
    <3>1. Len(todo) = 0
      BY <1>1
    <3> QED BY <1>1, <3>1, TravelFacts DEF TravelOK
  <2> QED BY <1>1, <2>1, TravelFacts
<1> QED BY <1>1, <1>2, TravelFacts, TravelStep

-----------------------------------------------------------------------------
(* The theorems                                                            *)

LEMMA UnchangedInv == IInv /\ UNCHANGED vars => IInv'
<1> SUFFICES ASSUME IInv, UNCHANGED vars PROVE IInv'
  OBVIOUS
<1>1. UNCHANGED <<phase, pos, vars_num, terms, heap, bdds, col, root, false_leaf, stack, ret, todo, answer>>
  BY DEF vars, cubes, gen
<1>2. Outputs' = Outputs /\ GroundTruth' = GroundTruth /\ Short' = Short
  BY <1>1 DEF Outputs, GroundTruth, Short, Assignments, Variables, Output, Satisfies
<1>3. Types' /\ Nodes' /\ ReadingInv' /\ EarlyInv' /\ GenInv' /\ GeneratedInv'
  BY <1>1 DEF IInv, Types, Nodes, ReadingInv, Reading, EarlyInv, GenInv, GeneratedInv
<1>4. CrashedInv' /\ OrInv' /\ TravelInv' /\ DoneInv'
  BY <1>1, <1>2 DEF IInv, CrashedInv, OrInv, TravelInv, DoneInv
<1> QED BY <1>3, <1>4 DEF IInv

(***************************************************************************)
(* The invariant below holds in every state: the nodes made are ordered    *)
(* BDDs of what they are taken to compute, every call of OR on the stack   *)
(* waits for what its caller needs, and travelBDD overlooks no FALSE leaf. *)
(***************************************************************************)
THEOREM TautologyInvariance == Spec => []IInv
<1>1. Init => IInv
  BY InitInv
<1>2. IInv /\ [Next]_vars => IInv'
  <2> SUFFICES ASSUME IInv, [Next]_vars PROVE IInv'
    OBVIOUS
  <2>1. ASSUME Step PROVE IInv'
    BY <2>1, ReadingActions, BeginTermInv, ColumnInv, ThrowShortInv, EndTermInv, EndGenInv, ReturnTrueInv,
       ReturnFalseInv, SplitInv, OtherBranchInv, JoinInv, EndOrInv, FindFalseInv, PassByInv, VisitInv,
       EndTravelInv DEF Step
  <2>2. ASSUME UNCHANGED vars PROVE IInv'
    BY <2>2, UnchangedInv
  <2> QED BY <2>1, <2>2 DEF Next, Stopped
<1> QED BY <1>1, <1>2, PTL DEF Spec

(***************************************************************************)
(* The types of the checker's state, for every set of files.               *)
(***************************************************************************)
THEOREM TautologyTypeCorrect == Spec => []TypeOK
<1> QED BY TautologyInvariance, TypesFollow, PTL

(***************************************************************************)
(* Along every path the variables increase, in every BDD genFromSop and OR *)
(* make (bdd_factory.cpp, bdd.cpp).                                        *)
(***************************************************************************)
THEOREM TautologyOrdered == Spec => []Ordered
<1> QED BY TautologyInvariance, OrderFollows, PTL

(***************************************************************************)
(* Every call of BDDOperator::OR returns the disjunction it was asked for. *)
(***************************************************************************)
THEOREM OrCorrect == Spec => []ReturnsDisjunction
<1> QED BY TautologyInvariance, DisjunctionFollows, PTL

(***************************************************************************)
(* The exception of term.at and the CHECK of OR stop main only for files   *)
(* with a short cube or without cubes, and always for those.               *)
(***************************************************************************)
THEOREM CrashesCorrect == Spec => []CrashesOnBadFiles
<1> QED BY TautologyInvariance, CrashesFollow, PTL

(***************************************************************************)
(* The answer of the BDDs is that of groundTruth, for cubes over any       *)
(* number of variables.                                                    *)
(***************************************************************************)
THEOREM TautologyCorrect == Spec => []AnswersGroundTruth
<1>1. IInv => AnswersGroundTruth
  BY DEF IInv, DoneInv, AnswersGroundTruth
<1> QED BY <1>1, TautologyInvariance, PTL
=============================================================================
