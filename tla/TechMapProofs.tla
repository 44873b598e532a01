--------------------------- MODULE TechMapProofs ---------------------------
(***************************************************************************)
(* The mapper's dynamic programming is correct for every netlist.          *)
(*                                                                         *)
(* The invariant of the walk: the active calls are a chain of ever lower   *)
(* rank, so a node that is reached while its call is still active does not *)
(* exist; hence the states of a node whose call has not returned are still *)
(* the placeholders, no state refers to them, and everything below a node  *)
(* whose call has returned is finished as well.  On top of that stands the *)
(* meaning of the states: every finished node drives its function and its  *)
(* complement, unless a cost overflowed.                                   *)
(***************************************************************************)
EXTENDS TechMap, SequenceTheorems, TLAPS

-----------------------------------------------------------------------------
(* The cells and the cover table, for every gate                           *)

(***************************************************************************)
(* The operators on bits return bits.                                      *)
(***************************************************************************)
LEMMA BitsOfBits ==
    /\ \A a, i \in Bit : Flip(a, i) \in Bit
    /\ \A cell, a, b, c, d : CellOut(cell, a, b, c, d) \in Bit
    /\ \A g, a, b : GateOut(g, a, b) \in Bit
    /\ \A g, a : UnaryOut(g, a) \in Bit
BY DEF Bit, Flip, Truth, CellOut, GateOut, UnaryOut

(***************************************************************************)
(* Flipping by a bit is exclusive or: it undoes itself.                    *)
(***************************************************************************)
LEMMA FlipFacts ==
    ASSUME NEW a \in Bit, NEW i \in Bit
    PROVE  /\ Flip(a, 0) = a
           /\ Flip(a, 1) = 1 - a
           /\ Flip(Flip(a, i), i) = a
BY DEF Bit, Flip, Truth

(***************************************************************************)
(* The switch of transferState is correct: for each of the eight covers,   *)
(* asked for the function (v = 0) or its complement (v = 1), the cell      *)
(* chosen with its inverted inputs and the INV that may follow it computes *)
(* the gate or its complement.                                             *)
(***************************************************************************)
THEOREM BaseCoverCorrect ==
    ASSUME NEW g \in Gate, NEW v \in Bit
    PROVE  LET c == BaseCover(CoverState(g, v))
           IN  /\ c.cell \in {"NAND2", "NOR2"}
               /\ c.ia \in Bit /\ c.ib \in Bit /\ c.head \in Bit
               /\ \A a, b \in Bit : CoverOut(c, a, b) = Flip(GateOut(g, a, b), v)
<1>1. g.a \in {0, 1} /\ g.b \in {0, 1} /\ g.out \in {0, 1}
    BY DEF Gate, Bit
<1>2. v \in {0, 1}
    BY DEF Bit
<1>3. DEFINE s == CoverState(g, v)
             c == BaseCover(s)
<1>4. s = 4 * g.a + 2 * g.b + (IF g.out # v THEN 1 ELSE 0)
    BY DEF CoverState, Flip, Truth
<1>5. c = IF s = 1 THEN Cover("NOR2", 0, 0, 0)
          ELSE IF s = 3 THEN Cover("NOR2", 0, 1, 0)
          ELSE IF s = 5 THEN Cover("NOR2", 1, 0, 0)
          ELSE IF s = 7 THEN Cover("NAND2", 0, 0, 1)
          ELSE IF s = 0 THEN Cover("NOR2", 0, 0, 1)
          ELSE IF s = 2 THEN Cover("NAND2", 1, 0, 0)
          ELSE IF s = 4 THEN Cover("NAND2", 0, 1, 0)
          ELSE Cover("NAND2", 0, 0, 0)
    <2>1. s \in 0..7
        BY <1>1, <1>4
    <2>2. QED
        BY <2>1 DEF BaseCover
<1>6. /\ c.cell \in {"NAND2", "NOR2"}
      /\ c.ia \in Bit /\ c.ib \in Bit /\ c.head \in Bit
    BY <1>5 DEF Cover, Bit
<1>7. ASSUME NEW a \in Bit, NEW b \in Bit
      PROVE  CoverOut(c, a, b) = Flip(GateOut(g, a, b), v)
    <2>1. a \in {0, 1} /\ b \in {0, 1}
        BY DEF Bit
    <2>2. CASE g.a = 0 /\ g.b = 0
        BY <1>1, <1>2, <1>4, <1>5, <2>1, <2>2
           DEF Cover, CoverOut, CellOut, GateOut, Flip, Truth
    <2>3. CASE g.a = 0 /\ g.b = 1
        BY <1>1, <1>2, <1>4, <1>5, <2>1, <2>3
           DEF Cover, CoverOut, CellOut, GateOut, Flip, Truth
    <2>4. CASE g.a = 1 /\ g.b = 0
        BY <1>1, <1>2, <1>4, <1>5, <2>1, <2>4
           DEF Cover, CoverOut, CellOut, GateOut, Flip, Truth
    <2>5. CASE g.a = 1 /\ g.b = 1
        BY <1>1, <1>2, <1>4, <1>5, <2>1, <2>5
           DEF Cover, CoverOut, CellOut, GateOut, Flip, Truth
    <2>6. QED
        BY <1>1, <2>2, <2>3, <2>4, <2>5
<1>8. QED
    BY <1>6, <1>7

(***************************************************************************)
(* The loops over inv_in in transferState release at most one candidate:   *)
(* whatever the gates, at most one choice of inverted inputs makes them an *)
(* AOI21 (AOI12, AOI22).                                                   *)
(***************************************************************************)
THEOREM AOI21Unique ==
    ASSUME NEW p, NEW left, NEW virt,
           NEW i \in AOI21Inv(p, left, virt), NEW j \in AOI21Inv(p, left, virt)
    PROVE  i = j
<1>1. /\ i \in Bit \X Bit \X Bit /\ j \in Bit \X Bit \X Bit
      /\ \A a, b, c \in Bit :
            CellOut("AOI21", Flip(a, i[1]), Flip(b, i[2]), Flip(c, i[3]), 0)
                = CellOut("AOI21", Flip(a, j[1]), Flip(b, j[2]), Flip(c, j[3]), 0)
    BY DEF AOI21Inv
<1>2. /\ i[1] \in {0, 1} /\ i[2] \in {0, 1} /\ i[3] \in {0, 1}
      /\ j[1] \in {0, 1} /\ j[2] \in {0, 1} /\ j[3] \in {0, 1}
    BY <1>1 DEF Bit
<1>3. /\ \A a, b, c \in {0, 1} :
            (~(a # i[1] /\ b # i[2]) /\ c = i[3]) <=> (~(a # j[1] /\ b # j[2]) /\ c = j[3])
    BY <1>1, <1>2 DEF CellOut, Flip, Truth, Bit
<1>4. i[3] = j[3] /\ i[1] = j[1] /\ i[2] = j[2]
    BY <1>2, <1>3
<1>5. QED
    BY <1>1, <1>4

\* The same for AOI12: at most one choice of inverted inputs matches (isAOI12).
THEOREM AOI12Unique ==
    ASSUME NEW p, NEW right, NEW virt,
           NEW i \in AOI12Inv(p, right, virt), NEW j \in AOI12Inv(p, right, virt)
    PROVE  i = j
<1>1. /\ i \in Bit \X Bit \X Bit /\ j \in Bit \X Bit \X Bit
      /\ \A a, b, c \in Bit :
            CellOut("AOI12", Flip(a, i[1]), Flip(b, i[2]), Flip(c, i[3]), 0)
                = CellOut("AOI12", Flip(a, j[1]), Flip(b, j[2]), Flip(c, j[3]), 0)
    BY DEF AOI12Inv
<1>2. /\ i[1] \in {0, 1} /\ i[2] \in {0, 1} /\ i[3] \in {0, 1}
      /\ j[1] \in {0, 1} /\ j[2] \in {0, 1} /\ j[3] \in {0, 1}
    BY <1>1 DEF Bit
<1>3. /\ \A a, b, c \in {0, 1} :
            (a = i[1] /\ ~(b # i[2] /\ c # i[3])) <=> (a = j[1] /\ ~(b # j[2] /\ c # j[3]))
    BY <1>1, <1>2 DEF CellOut, Flip, Truth, Bit
<1>4. i[3] = j[3] /\ i[1] = j[1] /\ i[2] = j[2]
    BY <1>2, <1>3
<1>5. QED
    BY <1>1, <1>4

\* The same for AOI22: at most one choice of inverted inputs matches (isAOI22).
THEOREM AOI22Unique ==
    ASSUME NEW p, NEW left, NEW right, NEW virt,
           NEW i \in AOI22Inv(p, left, right, virt), NEW j \in AOI22Inv(p, left, right, virt)
    PROVE  i = j
<1>1. /\ i \in Bit \X Bit \X Bit \X Bit /\ j \in Bit \X Bit \X Bit \X Bit
      /\ \A a, b, c, d \in Bit :
            CellOut("AOI22", Flip(a, i[1]), Flip(b, i[2]), Flip(c, i[3]), Flip(d, i[4]))
                = CellOut("AOI22", Flip(a, j[1]), Flip(b, j[2]), Flip(c, j[3]), Flip(d, j[4]))
    BY DEF AOI22Inv
<1>2. /\ i[1] \in {0, 1} /\ i[2] \in {0, 1} /\ i[3] \in {0, 1} /\ i[4] \in {0, 1}
      /\ j[1] \in {0, 1} /\ j[2] \in {0, 1} /\ j[3] \in {0, 1} /\ j[4] \in {0, 1}
    BY <1>1 DEF Bit
<1>3. \A a, b, c, d \in {0, 1} :
            (~(a # i[1] /\ b # i[2]) /\ ~(c # i[3] /\ d # i[4]))
                <=> (~(a # j[1] /\ b # j[2]) /\ ~(c # j[3] /\ d # j[4]))
    BY <1>1, <1>2 DEF CellOut, Flip, Truth, Bit
<1>4. i[3] = j[3] /\ i[1] = j[1] /\ i[2] = j[2] /\ i[4] = j[4]
    BY <1>2, <1>3
<1>5. QED
    BY <1>1, <1>4

-----------------------------------------------------------------------------
(* The inductive invariant                                                 *)

\* Callers have higher ranks than the calls they wait for.
StackDescends ==
    /\ \A i \in 1..Len(stack) : Defined(stack[i])
    /\ \A i, j \in 1..Len(stack) : i < j => dag.rank[stack[j]] < dag.rank[stack[i]]

\* A node is entered with two placeholders, and has no other state before it is finished.
Untouched == \A n \in Node : ~Finished(n) => \A v \in Bit, k \in Kind :
    /\ Defined(n) => dp[n][v] = <<n, v, "dp">>
    /\ heap[<<n, v, k>>] = IF Defined(n) /\ k = "dp" THEN Placeholder ELSE NoState

\* What a finished node depends on is finished.
SourcesFinished == \A n \in Vertex : Finished(n) =>
    \A i \in DOMAIN Src(n) : Finished(Src(n)[i])

IInv ==
    /\ TypeOK
    /\ StackDescends
    /\ Untouched
    /\ SourcesFinished
    /\ NoHalfBuiltSons
    /\ EquivalentStates

-----------------------------------------------------------------------------
(* Sequences and constants                                                 *)

\* What returning from a call (Front) leaves of a nonempty call stack.
LEMMA PopFacts ==
    ASSUME NEW S, NEW s \in Seq(S), s # <<>>
    PROVE  /\ Len(s) \in Nat \ {0}
           /\ Front(s) \in Seq(S)
           /\ Len(Front(s)) = Len(s) - 1
           /\ \A i \in 1..(Len(s) - 1) : Front(s)[i] = s[i]
           /\ Last(s) = s[Len(s)] /\ Last(s) \in S
<1>1. Len(s) \in Nat \ {0}
    OBVIOUS
<1>2. Front(s) = SubSeq(s, 1, Len(s) - 1) /\ Last(s) = s[Len(s)]
    BY DEF Front, Last
<1>3. Last(s) \in S
    BY <1>1, <1>2
<1>4. Front(s) \in Seq(S)
    BY <1>1, <1>2
<1>5. Len(Front(s)) = Len(s) - 1 /\ \A i \in 1..(Len(s) - 1) : Front(s)[i] = s[i]
    <2> DEFINE n == Len(s) - 1
    <2>7. \A m \in Nat \ {0} : /\ m - 1 \in Int
                               /\ 1 <= m - 1 => (m - 1) - 1 + 1 = m - 1
                               /\ ~(1 <= m - 1) => m - 1 = 0
        OBVIOUS
    <2>1. n \in Int /\ (1 <= n => n - 1 + 1 = n) /\ (~(1 <= n) => n = 0)
        BY <1>1, <2>7
    <2>5. \A i \in 1..n : s[i] \in S
        BY <1>1
    <2> HIDE DEF n
    <2>6. \A i \in 1..n : i \in Int /\ 1 + i - 1 = i /\ i \in 1..(n - 1 + 1)
        BY <2>1
    <2>2. /\ Len(SubSeq(s, 1, n)) = IF 1 <= n THEN n - 1 + 1 ELSE 0
          /\ \A i \in 1..(n - 1 + 1) : SubSeq(s, 1, n)[i] = s[1 + i - 1]
        BY <2>1, <2>5, SubSeqProperties
    <2>3. Len(SubSeq(s, 1, n)) = n /\ \A i \in 1..n : SubSeq(s, 1, n)[i] = s[i]
        BY <2>1, <2>2, <2>6
    <2>4. QED
        BY <1>2, <2>3 DEF n
<1>6. QED
    BY <1>1, <1>2, <1>3, <1>4, <1>5

\* A member of a sequence's range stands at one of its indices.
LEMMA RangeFacts ==
    ASSUME NEW S, NEW s \in Seq(S)
    PROVE  \A x : x \in Range(s) <=> \E i \in 1..Len(s) : s[i] = x
BY DEF Range

\* What the assumptions on the constants say of their order.
LEMMA ConstantFacts ==
    /\ CostMax \in Int /\ HalfUlp \in Int /\ Inf \in Int /\ DepthMax \in Int
    /\ 0 < CostMax /\ CostMax < Inf /\ 0 < DepthMax
    /\ Model \notin Node /\ Null \notin Id
BY ConstantsAssumption DEF Inf

\* An address is a node, a pass and a kind, and consists of nothing else.
LEMMA IdFacts ==
    /\ \A n \in Vertex, v \in Bit, k \in Kind :
        /\ <<n, v, k>> \in Id
        /\ <<n, v, k>>[1] = n /\ <<n, v, k>>[2] = v /\ <<n, v, k>>[3] = k
    /\ \A id \in Id : /\ id = <<id[1], id[2], id[3]>>
                      /\ id[1] \in Vertex /\ id[2] \in Bit /\ id[3] \in Kind
BY DEF Id

\* The kinds, the bits and the cells, listed.
LEMMA KindFacts ==
    /\ {"dp", "t1", "t2", "aoi21", "aoi12", "aoi22", "head"} = Kind
    /\ 0 \in Bit /\ 1 \in Bit /\ \A v \in Bit : v = 0 \/ v = 1
    /\ {"SAME", "INV", "NAND2", "NOR2", "AOI21", "AOI12", "AOI22", "ONE", "ZERO",
        "UNDEFINED"} = CellType
BY DEF Kind, Bit, CellType

-----------------------------------------------------------------------------
(* States                                                                  *)

\* States that can be sons: any sequence of them is summed up to a state.
LEMMA UpdatedType ==
    ASSUME NEW name \in Vertex \X Tag, NEW cell \in CellType, NEW sons \in Seq(Id),
           NEW states \in Seq(DpState)
    PROVE  /\ Updated(name, cell, sons, states) \in DpState
           /\ Updated(name, cell, sons, states).cell = cell
           /\ Updated(name, cell, sons, states).sons = sons
           /\ Updated(name, cell, sons, states).fn = CellFn(cell, states)
<1> DEFINE cost(i)  == IF i <= Len(states) THEN states[i].cost ELSE 0
           depth(i) == IF i <= Len(states) THEN states[i].depth ELSE 0
<1>1. \A i \in 1..4 : cost(i) \in Int /\ depth(i) \in Int
    <2>1. \A i \in 1..4 : i <= Len(states) => states[i] \in DpState
        OBVIOUS
    <2>2. \A s \in DpState : s.cost \in Int /\ s.depth \in Int
        BY DEF DpState
    <2>3. TAKE i \in 1..4
    <2>4. CASE i <= Len(states)
        BY <2>1, <2>2, <2>4
    <2>5. CASE ~(i <= Len(states))
        BY <2>5
    <2>6. QED
        BY <2>4, <2>5
<1>2. Rounded(cost(1) + cost(2) + cost(3) + cost(4) + 1) \in Int
    <2>1. cost(1) \in Int /\ cost(2) \in Int /\ cost(3) \in Int /\ cost(4) \in Int
        BY <1>1
    <2>2. HIDE DEF cost
    <2>3. cost(1) + cost(2) + cost(3) + cost(4) + 1 \in Int
        BY <2>1
    <2>4. QED
        BY <2>3, ConstantFacts DEF Rounded
<1>3. Deeper(Max2(0, Max2(Max2(depth(1), depth(2)), Max2(depth(3), depth(4))))) \in Int
    <2>1. Max2(0, Max2(Max2(depth(1), depth(2)), Max2(depth(3), depth(4)))) \in Int
        <3>1. \A a, b \in Int : Max2(a, b) \in Int
            BY DEF Max2
        <3>2. cost(1) \in Int /\ depth(1) \in Int /\ depth(2) \in Int
                /\ depth(3) \in Int /\ depth(4) \in Int
            BY <1>1
        <3>3. HIDE DEF cost, depth
        <3>4. /\ Max2(depth(1), depth(2)) \in Int
              /\ Max2(depth(3), depth(4)) \in Int
            BY <3>1, <3>2
        <3>5. Max2(Max2(depth(1), depth(2)), Max2(depth(3), depth(4))) \in Int
            BY <3>1, <3>4
        <3>6. QED
            BY <3>1, <3>5
    <2>2. QED
        BY <2>1, ConstantFacts DEF Deeper
<1>4. CellFn(cell, states) \in [Assign -> Bit]
    BY BitsOfBits DEF CellFn
<1>5. QED
    BY <1>2, <1>3, <1>4 DEF Updated, DpState

\* The two states that nothing has been assigned to (makeDpState) are states.
LEMMA PlaceholderType ==
    /\ NoState \in DpState /\ Placeholder \in DpState
    /\ NoState.cell = "NONE" /\ NoState.sons = <<>> /\ NoState.cost = Inf
    /\ Placeholder.cell = "UNDEFINED" /\ Placeholder.sons = <<>>
    /\ Placeholder.cost = CostMax /\ Placeholder.leaf = FALSE
<1>1. NoFn \in [Assign -> Bit]
    BY DEF NoFn, Bit
<1>2. <<Model, "">> \in Vertex \X Tag
    <2>1. Model \in Vertex
        BY DEF Vertex
    <2>3. "" \in Tag
        BY DEF Tag
    <2>2. QED
        BY <2>1, <2>3
<1>3. "NONE" \in CellType \cup {"NONE"} /\ "UNDEFINED" \in CellType \cup {"NONE"}
    BY DEF CellType
<1>4. <<>> \in Seq(Id)
    OBVIOUS
<1>5. /\ NoState \in DpState
      /\ NoState.cell = "NONE" /\ NoState.sons = <<>> /\ NoState.cost = Inf
    BY <1>1, <1>2, <1>3, <1>4, ConstantFacts DEF NoState, DpState
<1>6. QED
    BY <1>1, <1>2, <1>3, <1>4, <1>5, ConstantFacts DEF DpState, Placeholder

\* ONE and ZERO (DFS, node without sources) are states driving their bit.
LEMMA ConstantType ==
    ASSUME NEW name \in Vertex \X Tag, NEW bit \in Bit
    PROVE  /\ Constant(name, bit) \in DpState
           /\ Constant(name, bit).cell # "NONE" /\ Constant(name, bit).cell # "UNDEFINED"
           /\ Constant(name, bit).sons = <<>>
           /\ \A x \in Assign : Constant(name, bit).fn[x] = bit
BY KindFacts DEF Constant, DpState

\* An INV on a state drives the complement of what the state drives.
LEMMA InvOfFacts ==
    ASSUME NEW name \in Vertex \X Tag, NEW son \in Id, NEW state \in DpState
    PROVE  /\ InvOf(name, son, state) \in DpState
           /\ InvOf(name, son, state).cell = "INV"
           /\ InvOf(name, son, state).sons = <<son>>
           /\ \A x \in Assign : InvOf(name, son, state).fn[x] = Flip(state.fn[x], 1)
<1>1. <<son>> \in Seq(Id) /\ <<state>> \in Seq(DpState) /\ "INV" \in CellType
    BY KindFacts
<1>2. /\ InvOf(name, son, state) \in DpState
      /\ InvOf(name, son, state).cell = "INV"
      /\ InvOf(name, son, state).sons = <<son>>
      /\ InvOf(name, son, state).fn = CellFn("INV", <<state>>)
    <2> DEFINE sons == <<son>>
               states == <<state>>
               cell == "INV"
    <2>3. sons \in Seq(Id) /\ states \in Seq(DpState) /\ cell \in CellType
        BY <1>1
    <2> HIDE DEF sons, states, cell
    <2>4. /\ Updated(name, cell, sons, states) \in DpState
          /\ Updated(name, cell, sons, states).cell = cell
          /\ Updated(name, cell, sons, states).sons = sons
          /\ Updated(name, cell, sons, states).fn = CellFn(cell, states)
        BY <2>3, UpdatedType
    <2>1. /\ Updated(name, "INV", <<son>>, <<state>>) \in DpState
          /\ Updated(name, "INV", <<son>>, <<state>>).cell = "INV"
          /\ Updated(name, "INV", <<son>>, <<state>>).sons = <<son>>
          /\ Updated(name, "INV", <<son>>, <<state>>).fn = CellFn("INV", <<state>>)
        BY <2>4 DEF cell, sons, states
    <2>2. QED
        BY <2>1 DEF InvOf
<1>3. ASSUME NEW x \in Assign
      PROVE  CellFn("INV", <<state>>)[x] = Flip(state.fn[x], 1)
    <2>1. state.fn[x] \in {0, 1}
        BY DEF DpState, Bit
    <2>2. CellFn("INV", <<state>>)[x] = CellOut("INV", state.fn[x], 0, 0, 0)
        BY DEF CellFn
    <2>3. QED
        BY <2>1, <2>2 DEF CellOut, Flip, Truth
<1>4. QED
    BY <1>2, <1>3

-----------------------------------------------------------------------------
(* The walk                                                                *)

\* A netlist that does not change stays well formed.
LEMMA SameNetlist == WellFormed(dag) /\ dag' = dag => WellFormed(dag)'
BY DEF WellFormed, Vertex

\* What a well-formed netlist gives for one node and one source of it.
LEMMA NetlistFacts ==
    ASSUME WellFormed(dag)
    PROVE  /\ \A p \in Vertex : Src(p) \in Seq(Node) /\ dag.rank[p] \in Nat
           /\ \A p \in Vertex : \A i \in DOMAIN Src(p) :
                Src(p)[i] \in Node /\ dag.rank[Src(p)[i]] < dag.rank[p]
           /\ \A n \in Node : dag.gate[n] \in Gate /\ Len(Src(n)) \in 0..2
           /\ \A n \in Node, x \in Assign : dag.fn[n][x] \in Bit
           /\ Node \subseteq Vertex /\ Model \in Vertex
<1>1. Node \subseteq Vertex /\ Model \in Vertex
    BY DEF Vertex
<1>2. \A p \in Vertex : Src(p) \in Seq(Node) /\ dag.rank[p] \in Nat
    BY DEF WellFormed, Src
<1>3. \A p \in Vertex : \A i \in DOMAIN Src(p) : dag.rank[Src(p)[i]] < dag.rank[p]
    BY DEF WellFormed, Src
<1>4. \A p \in Vertex : \A i \in DOMAIN Src(p) : Src(p)[i] \in Node
    BY <1>2
<1>5. \A n \in Node : dag.gate[n] \in Gate /\ Len(Src(n)) \in 0..2
    BY DEF WellFormed, Src
<1>6. \A n \in Node, x \in Assign : dag.fn[n][x] \in Bit
    BY DEF WellFormed
<1>7. QED
    BY <1>1, <1>2, <1>3, <1>4, <1>5, <1>6

(***************************************************************************)
(* The node on top of the stack is below all the others: its sources are   *)
(* not active, so those that have states are finished.                     *)
(***************************************************************************)
LEMMA RunningFacts ==
    ASSUME IInv, NEW p \in Vertex, Running(p)
    PROVE  /\ stack \in Seq(Vertex) /\ stack # <<>>
           /\ Len(stack) \in Nat \ {0} /\ p = stack[Len(stack)]
           /\ Defined(p) /\ ~Finished(p)
           /\ \A i \in 1..(Len(stack) - 1) : stack[i] # p
           /\ \A i \in DOMAIN Src(p) : Defined(Src(p)[i]) => Finished(Src(p)[i])
<1>1. stack \in Seq(Vertex) /\ stack # <<>> /\ WellFormed(dag)
    BY DEF IInv, TypeOK, Running
<1>2. Len(stack) \in Nat \ {0} /\ p = stack[Len(stack)]
    BY <1>1, PopFacts DEF Running
<1>3. Defined(p) /\ p \in Range(stack)
    BY <1>1, <1>2, RangeFacts DEF IInv, StackDescends
<1>4. \A i \in 1..Len(stack) : i # Len(stack) => dag.rank[p] < dag.rank[stack[i]]
    BY <1>2 DEF IInv, StackDescends
<1>5. \A i \in 1..Len(stack) : stack[i] \in Vertex /\ dag.rank[stack[i]] \in Nat
    BY <1>1, NetlistFacts
<1>6. \A i \in 1..(Len(stack) - 1) : stack[i] # p
    BY <1>2, <1>4, <1>5
<1>7. ASSUME NEW i \in DOMAIN Src(p), Defined(Src(p)[i])
      PROVE  Finished(Src(p)[i])
    <2>1. Src(p)[i] \in Vertex /\ dag.rank[Src(p)[i]] \in Nat
            /\ dag.rank[Src(p)[i]] < dag.rank[p] /\ dag.rank[p] \in Nat
        BY <1>1, NetlistFacts
    <2>2. \A j \in 1..Len(stack) : stack[j] # Src(p)[i]
        BY <1>2, <1>4, <1>5, <2>1
    <2>3. Src(p)[i] \notin Range(stack)
        BY <1>1, <2>2, RangeFacts
    <2>4. QED
        BY <1>7, <2>3 DEF Finished
<1>8. QED
    BY <1>1, <1>2, <1>3, <1>6, <1>7 DEF Finished

\* When the call on p returns, p is the one node more that is finished.
LEMMA ReturnFacts ==
    ASSUME IInv, NEW p \in Vertex, Running(p), stack' = Front(stack), dag' = dag,
           \A n \in Vertex : n # p => dp'[n] = dp[n], dp'[p][0] # Null
    PROVE  /\ stack' \in Seq(Vertex) /\ StackDescends'
           /\ \A n \in Vertex : Defined(n)' <=> Defined(n)
           /\ \A n \in Vertex : Finished(n)' <=> Finished(n) \/ n = p
<1>1. /\ stack \in Seq(Vertex) /\ stack # <<>>
      /\ Len(stack) \in Nat \ {0} /\ p = stack[Len(stack)] /\ Defined(p) /\ ~Finished(p)
      /\ \A i \in 1..(Len(stack) - 1) : stack[i] # p
    BY RunningFacts
<1>2. /\ stack' \in Seq(Vertex) /\ Len(stack') = Len(stack) - 1
      /\ \A i \in 1..(Len(stack) - 1) : stack'[i] = stack[i]
    BY <1>1, PopFacts
<1>3. \A n \in Vertex : Defined(n)' <=> Defined(n)
    BY <1>1 DEF Defined
<1>4. StackDescends'
    <2>1. \A i \in 1..Len(stack') : i \in 1..Len(stack) /\ stack'[i] = stack[i] /\ stack[i] \in Vertex
        <3>1. \A i \in 1..Len(stack') : i \in 1..Len(stack) /\ i \in 1..(Len(stack) - 1)
            BY <1>1, <1>2
        <3>2. \A i \in 1..Len(stack) : stack[i] \in Vertex
            BY <1>1
        <3>3. QED
            BY <1>2, <3>1, <3>2
    <2>2. \A i \in 1..Len(stack') : dp[stack[i]][0] # Null
        BY <2>1 DEF IInv, StackDescends, Defined
    <2>3. \A i \in 1..Len(stack') : dp'[stack'[i]][0] # Null
        BY <2>1, <2>2
    <2>4. \A i, j \in 1..Len(stack) : i < j => dag.rank[stack[j]] < dag.rank[stack[i]]
        BY DEF IInv, StackDescends
    <2>5. \A i, j \in 1..Len(stack') : i < j => dag'.rank[stack'[j]] < dag'.rank[stack'[i]]
        BY <2>1, <2>4
    <2>6. QED
        BY <2>3, <2>5 DEF StackDescends, Defined
<1>5. ASSUME NEW n \in Vertex
      PROVE  n \in Range(stack') <=> n \in Range(stack) /\ n # p
    <2>1. n \in Range(stack') <=> \E i \in 1..(Len(stack) - 1) : stack[i] = n
        BY <1>2, RangeFacts
    <2>2. n \in Range(stack) <=> \E i \in 1..Len(stack) : stack[i] = n
        BY <1>1, RangeFacts
    <2>3. \A i \in 1..Len(stack) : i \in 1..(Len(stack) - 1) \/ i = Len(stack)
        BY <1>1
    <2>4. QED
        BY <1>1, <2>1, <2>2, <2>3
<1>6. \A n \in Vertex : Finished(n)' <=> Finished(n) \/ n = p
    BY <1>1, <1>3, <1>5 DEF Finished
<1>7. QED
    BY <1>2, <1>3, <1>4, <1>6

\* An unfinished node's states are without sons, and no state has them as sons.
LEMMA UnfinishedFacts ==
    ASSUME IInv, NEW p \in Node, ~Finished(p)
    PROVE  /\ \A id \in Id : id[1] = p => heap[id].sons = <<>>
           /\ \A id \in Id : id[1] # p => \A i \in DOMAIN heap[id].sons :
                heap[id].sons[i] \in Id /\ heap[id].sons[i][1] # p
<1>1. ASSUME NEW id \in Id, id[1] = p
      PROVE  heap[id].sons = <<>>
    <2>1. id = <<p, id[2], id[3]>> /\ id[2] \in Bit /\ id[3] \in Kind
        BY <1>1, IdFacts
    <2>2. heap[id] = Placeholder \/ heap[id] = NoState
        BY <2>1 DEF IInv, Untouched
    <2>3. QED
        BY <2>2, PlaceholderType
<1>2. ASSUME NEW id \in Id, id[1] # p, NEW i \in DOMAIN heap[id].sons
      PROVE  heap[id].sons[i] \in Id /\ heap[id].sons[i][1] # p
    <2>1. heap[id].sons \in Seq(Id)
        BY DEF IInv, TypeOK, DpState
    <2>2. heap[id].sons[i][1] = id[1] \/ Finished(heap[id].sons[i][1])
        BY DEF IInv, NoHalfBuiltSons
    <2>3. QED
        BY <1>2, <2>1, <2>2
<1>3. QED
    BY <1>1, <1>2

(***************************************************************************)
(* What every step that finishes a gate or an input p has to show: it      *)
(* writes only p's states, gives p two of them, builds them on finished    *)
(* nodes, and they drive what they must.                                   *)
(***************************************************************************)
LEMMA FinishPreserves ==
    ASSUME IInv, NEW p \in Node, Running(p), stack' = Front(stack), dag' = dag,
           \A i \in DOMAIN Src(p) : Defined(Src(p)[i]),
           dp' \in [Vertex -> [Bit -> Id \cup {Null}]],
           \A n \in Vertex : n # p => dp'[n] = dp[n],
           DOMAIN heap' = Id,
           \A id \in Id : id[1] # p => heap'[id] = heap[id],
           \A v \in Bit : /\ dp'[p][v] \in Id /\ dp'[p][v][1] = p
                          /\ heap'[dp'[p][v]].cell # "NONE",
           \A id \in Id : id[1] = p =>
               /\ heap'[id] \in DpState
               /\ \A i \in DOMAIN heap'[id].sons :
                    /\ heap'[heap'[id].sons[i]].cell # "NONE"
                    /\ heap'[id].sons[i][1] = p \/ Finished(heap'[id].sons[i][1]),
           \/ Overflowed \/ Overflowed'
           \/ \A v \in Bit, x \in Assign : heap'[dp'[p][v]].fn[x] = Flip(dag.fn[p][x], v)
    PROVE  IInv'
<1>1. TypeOK /\ WellFormed(dag) /\ p \in Vertex /\ ~Finished(p) /\ p # Model /\ 0 \in Bit
    BY RunningFacts, ConstantFacts, KindFacts DEF IInv, TypeOK, Vertex
<1>2. dp'[p][0] # Null
    BY <1>1, ConstantFacts
<1>3. /\ stack' \in Seq(Vertex) /\ StackDescends'
      /\ \A n \in Vertex : Defined(n)' <=> Defined(n)
      /\ \A n \in Vertex : Finished(n)' <=> Finished(n) \/ n = p
    BY <1>1, <1>2, ReturnFacts
<1>12. \A n \in Vertex : (dp'[n][0] # Null /\ n \notin Range(stack')) <=> Finished(n) \/ n = p
    BY <1>3 DEF Finished, Defined
<1>4. /\ \A id \in Id : id[1] = p => heap[id].sons = <<>>
      /\ \A id \in Id : id[1] # p => \A i \in DOMAIN heap[id].sons :
            heap[id].sons[i] \in Id /\ heap[id].sons[i][1] # p
    BY <1>1, UnfinishedFacts
<1>5. TypeOK'
    <2>1. WellFormed(dag)'
        BY <1>1, SameNetlist
    <2>2. \A id \in Id : IF id[1] = Model THEN heap'[id].sons \in Seq(Id) ELSE heap'[id] \in DpState
        BY <1>1 DEF TypeOK
    <2>3. dp'[Model][0] = Ori(Model)
        BY <1>1 DEF TypeOK, Vertex
    <2>4. ASSUME NEW n \in Node, NEW v \in Bit, Defined(n)'
          PROVE  dp'[n][v] \in Id /\ dp'[n][v][1] = n /\ heap'[dp'[n][v]].cell # "NONE"
        <3>1. CASE n = p
            BY <3>1
        <3>2. CASE n # p
            <4>1. dp'[n] = dp[n] /\ Defined(n)
                BY <1>3, <2>4, <3>2 DEF Vertex
            <4>2. dp[n][v] \in Id /\ dp[n][v][1] = n /\ heap[dp[n][v]].cell # "NONE"
                BY <1>1, <4>1 DEF TypeOK
            <4>3. QED
                BY <3>2, <4>1, <4>2
        <3>3. QED
            BY <3>1, <3>2
    <2>5. QED
        BY <1>3, <2>1, <2>2, <2>3, <2>4 DEF TypeOK, Ori
<1>6. Untouched'
    <2>1. SUFFICES ASSUME NEW n \in Node, ~Finished(n)', NEW v \in Bit, NEW k \in Kind
                   PROVE  /\ Defined(n)' => dp'[n][v] = <<n, v, "dp">>
                          /\ heap'[<<n, v, k>>] =
                                IF Defined(n)' /\ k = "dp" THEN Placeholder ELSE NoState
        BY DEF Untouched, Placeholder, NoState
    <2>2. n \in Vertex /\ n # p /\ ~Finished(n)
        BY <1>3, <2>1 DEF Vertex
    <2>3. heap'[<<n, v, k>>] = heap[<<n, v, k>>] /\ dp'[n] = dp[n] /\ (Defined(n)' <=> Defined(n))
        BY <1>3, <2>2, IdFacts
    <2>4. QED
        BY <2>2, <2>3 DEF IInv, Untouched
<1>7. SourcesFinished'
    <2>1. SUFFICES ASSUME NEW n \in Vertex, Finished(n)', NEW i \in DOMAIN Src(n)
                   PROVE  dp'[Src(n)[i]][0] # Null /\ Src(n)[i] \notin Range(stack')
        BY DEF SourcesFinished, Src, Finished, Defined
    <2>2. Src(n)[i] \in Vertex
        BY <1>1, NetlistFacts
    <2>3. Finished(Src(n)[i])
        <3>1. CASE n = p
            BY <1>1, <3>1, RunningFacts
        <3>2. CASE n # p
            BY <1>3, <2>1, <3>2 DEF IInv, SourcesFinished
        <3>3. QED
            BY <3>1, <3>2
    <2>4. QED
        BY <1>12, <2>2, <2>3
<1>8. NoHalfBuiltSons'
    <2>1. SUFFICES ASSUME NEW id \in Id, NEW i \in DOMAIN heap'[id].sons
                   PROVE  /\ heap'[heap'[id].sons[i]].cell # "NONE"
                          /\ \/ heap'[id].sons[i][1] = id[1]
                             \/ /\ dp'[heap'[id].sons[i][1]][0] # Null
                                /\ heap'[id].sons[i][1] \notin Range(stack')
        BY DEF NoHalfBuiltSons, Finished, Defined
    <2> DEFINE son == heap'[id].sons[i]
    <2>2. heap'[son].cell # "NONE" /\ (son[1] = id[1] \/ Finished(son[1]))
        <3>1. CASE id[1] = p
            BY <3>1
        <3>2. CASE id[1] # p
            <4>1. heap'[id] = heap[id] /\ son = heap[id].sons[i] /\ i \in DOMAIN heap[id].sons
                BY <2>1, <3>2
            <4>2. son \in Id /\ son[1] # p
                BY <1>4, <3>2, <4>1
            <4>3. heap[son].cell # "NONE" /\ (son[1] = id[1] \/ Finished(son[1]))
                BY <4>1 DEF IInv, NoHalfBuiltSons
            <4>4. QED
                BY <4>2, <4>3
        <3>3. QED
            BY <3>1, <3>2
    <2>3. son \in Id
        <3>1. heap'[id].sons \in Seq(Id)
            BY <1>5 DEF TypeOK, DpState
        <3>2. QED
            BY <3>1
    <2>4. son[1] \in Vertex
        BY <2>3, IdFacts
    <2>5. QED
        BY <1>12, <2>2, <2>4
<1>9. Overflowed => Overflowed'
    <2>1. SUFFICES ASSUME NEW id \in Id, id[1] # Model, NEW i \in DOMAIN heap[id].sons,
                          heap[heap[id].sons[i]].cell = "UNDEFINED", ~heap[heap[id].sons[i]].leaf
                   PROVE  Overflowed'
        BY DEF Overflowed
    <2>2. id[1] # p
        BY <1>4, <2>1
    <2>3. heap'[id] = heap[id] /\ heap'[heap[id].sons[i]] = heap[heap[id].sons[i]]
        BY <1>4, <2>2
    <2>4. QED
        BY <2>1, <2>3 DEF Overflowed
<1>10. EquivalentStates'
    <2>1. SUFFICES ASSUME ~Overflowed', NEW n \in Node, Finished(n)', NEW v \in Bit, NEW x \in Assign
                   PROVE  heap'[dp'[n][v]].fn[x] = Flip(dag.fn[n][x], v)
        BY DEF EquivalentStates
    <2>2. CASE n = p
        BY <1>9, <2>1, <2>2
    <2>3. CASE n # p
        <3>1. n \in Vertex /\ Finished(n) /\ Defined(n)
            BY <1>3, <2>1, <2>3 DEF Vertex, Finished
        <3>2. dp'[n] = dp[n] /\ dp[n][v] \in Id /\ dp[n][v][1] = n
            BY <1>1, <2>3, <3>1 DEF TypeOK
        <3>3. heap[dp[n][v]].fn[x] = Flip(dag.fn[n][x], v)
            BY <1>9, <2>1, <3>1 DEF IInv, EquivalentStates
        <3>4. QED
            BY <2>3, <3>2, <3>3
    <2>4. QED
        BY <2>2, <2>3
<1>11. QED
    BY <1>3, <1>5, <1>6, <1>7, <1>8, <1>10 DEF IInv

-----------------------------------------------------------------------------
(* The steps                                                               *)

\* The state in which DFS is called for the model satisfies the invariant.
LEMMA InitInvariant == Init => IInv
<1> SUFFICES ASSUME Init PROVE IInv
    OBVIOUS
<1>1. /\ WellFormed(dag) /\ Model \in Vertex /\ Node \subseteq Vertex
      /\ Ori(Model) \in Id /\ \A v \in Bit : <<Model, v, "dp">> \in Id
    BY NetlistsAssumption, IdFacts, KindFacts DEF Init, Vertex, Ori
<1>2. \A n \in Vertex : Defined(n) <=> n = Model
    BY <1>1, KindFacts, ConstantFacts DEF Init, Defined
<1>3. stack = <<Model>> /\ stack \in Seq(Vertex) /\ Len(stack) = 1 /\ stack[1] = Model
    BY <1>1 DEF Init
<1>4. \A n \in Vertex : ~Finished(n)
    <2>1. 1 \in 1..Len(stack)
        BY <1>3
    <2>2. Model \in Range(stack)
        BY <1>3, <2>1, RangeFacts
    <2>3. QED
        BY <1>2, <2>2 DEF Finished
<1>5. \A id \in Id : heap[id] = IF id = Ori(Model) THEN Placeholder ELSE NoState
    BY DEF Init
<1>6. TypeOK
    <2>1. dp \in [Vertex -> [Bit -> Id \cup {Null}]] /\ dp[Model][0] = Ori(Model)
        BY <1>1, KindFacts DEF Init
    <2>2. \A id \in Id : heap[id] \in DpState /\ heap[id].sons \in Seq(Id)
        <3>1. \A st \in DpState : st.sons \in Seq(Id)
            BY DEF DpState
        <3>2. \A id \in Id : heap[id] \in DpState
            BY <1>5, PlaceholderType
        <3>3. QED
            BY <3>1, <3>2
    <2>3. \A n \in Node : ~Defined(n)
        BY <1>1, <1>2, ConstantFacts
    <2>4. QED
        BY <1>1, <1>3, <2>1, <2>2, <2>3 DEF TypeOK, Init
<1>7. StackDescends
    BY <1>1, <1>2, <1>3 DEF StackDescends
<1>8. Untouched
    <2>1. SUFFICES ASSUME NEW n \in Node, NEW v \in Bit, NEW k \in Kind
                   PROVE  ~Defined(n) /\ heap[<<n, v, k>>] = NoState
        BY DEF Untouched
    <2>2. n # Model /\ n \in Vertex
        BY <1>1, ConstantFacts
    <2>3. <<n, v, k>> \in Id /\ <<n, v, k>> # Ori(Model)
        BY <2>2, IdFacts DEF Ori
    <2>4. QED
        BY <1>2, <1>5, <2>2, <2>3
<1>9. SourcesFinished
    BY <1>4 DEF SourcesFinished
<1>10. NoHalfBuiltSons
    <2>1. \A id \in Id : heap[id].sons = <<>>
        BY <1>5, PlaceholderType
    <2>2. QED
        BY <2>1 DEF NoHalfBuiltSons
<1>11. EquivalentStates
    BY <1>1, <1>4 DEF EquivalentStates
<1>12. QED
    BY <1>6, <1>7, <1>8, <1>9, <1>10, <1>11 DEF IInv

\* Calling DFS for a source without states preserves the invariant.
LEMMA EnterPreserves ==
    ASSUME IInv, NEW p \in Vertex, Enter(p)
    PROVE  IInv'
<1>1. PICK i \in DOMAIN Src(p) :
        /\ ~Defined(Src(p)[i])
        /\ stack' = Append(stack, Src(p)[i])
        /\ dp' = [dp EXCEPT ![Src(p)[i]] = [v \in Bit |-> <<Src(p)[i], v, "dp">>]]
        /\ heap' = [heap EXCEPT ![Ori(Src(p)[i])] = Placeholder, ![Inv(Src(p)[i])] = Placeholder]
    BY DEF Enter
<1>2. Running(p) /\ dag' = dag
    BY DEF Enter
<1> DEFINE s == Src(p)[i]
<1>3. /\ TypeOK /\ WellFormed(dag) /\ s \in Node /\ s \in Vertex /\ s # Model
      /\ dag.rank[s] < dag.rank[p] /\ dag.rank[s] \in Nat /\ dag.rank[p] \in Nat
    <2>1. TypeOK /\ WellFormed(dag)
        BY DEF IInv, TypeOK
    <2>2. QED
        BY <2>1, NetlistFacts, ConstantFacts
<1>4. ~Defined(s) /\ stack' = Append(stack, s)
    BY <1>1
<1>5. /\ dp' \in [Vertex -> [Bit -> Id \cup {Null}]]
      /\ \A n \in Vertex : n # s => dp'[n] = dp[n]
      /\ \A v \in Bit : dp'[s][v] = <<s, v, "dp">> /\ dp'[s][v] \in Id /\ dp'[s][v][1] = s
    <2>1. [v \in Bit |-> <<s, v, "dp">>] \in [Bit -> Id \cup {Null}]
        BY <1>3, IdFacts, KindFacts
    <2>2. QED
        BY <1>1, <1>3, <2>1, IdFacts, KindFacts DEF TypeOK
<1>6. /\ DOMAIN heap' = Id
      /\ \A id \in Id : heap'[id] = IF id = Ori(s) \/ id = Inv(s) THEN Placeholder ELSE heap[id]
    BY <1>1, <1>3 DEF TypeOK, Ori, Inv
<1>7. Ori(s) \in Id /\ Inv(s) \in Id /\ Ori(s)[1] = s /\ Inv(s)[1] = s
    BY <1>3, IdFacts, KindFacts DEF Ori, Inv
<1> HIDE DEF s
<1>8. /\ stack \in Seq(Vertex) /\ Len(stack) \in Nat \ {0} /\ p = stack[Len(stack)]
      /\ \A j \in 1..Len(stack) : stack[j] \in Vertex /\ dag.rank[stack[j]] \in Nat
    <2>1. stack \in Seq(Vertex) /\ Len(stack) \in Nat \ {0} /\ p = stack[Len(stack)]
        BY <1>2, RunningFacts
    <2>2. QED
        BY <1>3, <2>1, NetlistFacts
<1>9. /\ stack' \in Seq(Vertex) /\ Len(stack') = Len(stack) + 1
      /\ stack'[Len(stack) + 1] = s
      /\ \A j \in 1..Len(stack) : stack'[j] = stack[j]
    BY <1>3, <1>4, <1>8
<1>10. \A n \in Vertex : Defined(n)' <=> Defined(n) \/ n = s
    BY <1>4, <1>5, ConstantFacts, KindFacts DEF Defined
<1>11. \A n \in Vertex : Finished(n)' <=> Finished(n)
    <2>1. \A n : n \in Range(stack) <=> \E j \in 1..Len(stack) : stack[j] = n
        BY <1>8, RangeFacts
    <2>2. \A n : n \in Range(stack') <=> \E j \in 1..(Len(stack) + 1) : stack'[j] = n
        BY <1>9, RangeFacts
    <2>3. \A n : n \in Range(stack') <=> n \in Range(stack) \/ n = s
        <3>1. \A j \in 1..(Len(stack) + 1) : j \in 1..Len(stack) \/ j = Len(stack) + 1
            BY <1>8
        <3>2. Len(stack) + 1 \in 1..(Len(stack) + 1) /\ \A j \in 1..Len(stack) : j \in 1..(Len(stack) + 1)
            BY <1>8
        <3>3. QED
            BY <1>9, <2>1, <2>2, <3>1, <3>2
    <2>4. QED
        BY <1>4, <1>10, <2>3 DEF Finished
<1>12. \A n \in Vertex : (dp'[n][0] # Null /\ n \notin Range(stack')) <=> Finished(n)
    BY <1>11 DEF Finished, Defined
<1>13. ~Finished(s)
    BY <1>4 DEF Finished
<1>14. /\ \A id \in Id : id[1] = s => heap[id].sons = <<>> /\ heap[id] = NoState
       /\ \A id \in Id : id[1] # s => \A j \in DOMAIN heap[id].sons :
            heap[id].sons[j] \in Id /\ heap[id].sons[j][1] # s
    <2>1. \A id \in Id : id[1] = s => heap[id] = NoState
        <3>1. \A v \in Bit, k \in Kind : heap[<<s, v, k>>] = NoState
            BY <1>3, <1>4, <1>13 DEF IInv, Untouched
        <3>2. QED
            BY <3>1, IdFacts
    <2>2. QED
        BY <1>3, <1>13, <2>1, UnfinishedFacts
<1>15. \A id \in Id : heap'[id].sons = heap[id].sons
    BY <1>6, <1>7, <1>14, PlaceholderType
<1>16. TypeOK'
    <2>1. WellFormed(dag)'
        BY <1>2, <1>3, SameNetlist
    <2>2. \A id \in Id : IF id[1] = Model THEN heap'[id].sons \in Seq(Id) ELSE heap'[id] \in DpState
        BY <1>3, <1>6, <1>15, PlaceholderType DEF TypeOK
    <2>3. dp'[Model][0] = Ori(Model)
        BY <1>3, <1>5 DEF TypeOK, Vertex
    <2>4. ASSUME NEW n \in Node, NEW v \in Bit, Defined(n)'
          PROVE  dp'[n][v] \in Id /\ dp'[n][v][1] = n /\ heap'[dp'[n][v]].cell # "NONE"
        <3>1. CASE n = s
            <4>1. dp'[n][v] = Ori(s) \/ dp'[n][v] = Inv(s)
                BY <1>5, <3>1, KindFacts DEF Ori, Inv
            <4>2. QED
                BY <1>5, <1>6, <1>7, <3>1, <4>1, PlaceholderType
        <3>2. CASE n # s
            <4>1. dp'[n] = dp[n] /\ Defined(n)
                BY <1>5, <1>10, <2>4, <3>2 DEF Vertex
            <4>2. dp[n][v] \in Id /\ dp[n][v][1] = n /\ heap[dp[n][v]].cell # "NONE"
                BY <1>3, <4>1 DEF TypeOK
            <4>3. QED
                BY <1>6, <1>7, <3>2, <4>1, <4>2
        <3>3. QED
            BY <3>1, <3>2
    <2>5. QED
        BY <1>5, <1>6, <1>9, <2>1, <2>2, <2>3, <2>4 DEF TypeOK, Ori
<1>17. StackDescends'
    <2>1. \A j \in 1..Len(stack) : dag.rank[s] < dag.rank[stack[j]] /\ dp[stack[j]][0] # Null
        <3>1. \A j \in 1..Len(stack) : j = Len(stack) \/ dag.rank[p] < dag.rank[stack[j]]
            BY <1>8 DEF IInv, StackDescends
        <3>2. QED
            BY <1>3, <1>8, <3>1 DEF IInv, StackDescends, Defined
    <2>2. \A j \in 1..Len(stack') : j \in 1..Len(stack) \/ j = Len(stack) + 1
        BY <1>8, <1>9
    <2>3. \A j \in 1..Len(stack') : dp'[stack'[j]][0] # Null
        <3>1. \A n \in Vertex : dp[n][0] # Null => dp'[n][0] # Null
            BY <1>5, KindFacts, ConstantFacts
        <3>2. dp'[s][0] # Null
            BY <1>5, KindFacts, ConstantFacts
        <3>3. QED
            BY <1>8, <1>9, <2>1, <2>2, <3>1, <3>2
    <2>4. \A j, l \in 1..Len(stack) : j < l => dag.rank[stack[l]] < dag.rank[stack[j]]
        BY DEF IInv, StackDescends
    <2>5. \A j, l \in 1..Len(stack') : j < l => dag'.rank[stack'[l]] < dag'.rank[stack'[j]]
        BY <1>2, <1>8, <1>9, <2>1, <2>2, <2>4
    <2>6. QED
        BY <2>3, <2>5 DEF StackDescends, Defined
<1>18. Untouched'
    <2>1. SUFFICES ASSUME NEW n \in Node, ~Finished(n)', NEW v \in Bit, NEW k \in Kind
                   PROVE  /\ Defined(n)' => dp'[n][v] = <<n, v, "dp">>
                          /\ heap'[<<n, v, k>>] =
                                IF Defined(n)' /\ k = "dp" THEN Placeholder ELSE NoState
        BY DEF Untouched, Placeholder, NoState
    <2>2. n \in Vertex /\ ~Finished(n) /\ <<n, v, k>> \in Id /\ <<n, v, k>>[1] = n
        BY <1>11, <2>1, IdFacts DEF Vertex
    <2>3. CASE n = s
        <3>1. <<n, v, k>> = Ori(s) \/ <<n, v, k>> = Inv(s) <=> k = "dp"
            BY <2>3, KindFacts DEF Ori, Inv
        <3>2. Defined(n)' /\ dp'[n][v] = <<n, v, "dp">>
            BY <1>5, <1>10, <2>2, <2>3
        <3>3. QED
            BY <1>6, <1>14, <2>2, <2>3, <3>1, <3>2
    <2>4. CASE n # s
        <3>1. /\ heap'[<<n, v, k>>] = heap[<<n, v, k>>] /\ dp'[n] = dp[n]
              /\ Defined(n)' <=> Defined(n)
            BY <1>5, <1>6, <1>7, <1>10, <2>2, <2>4
        <3>2. QED
            BY <2>2, <3>1 DEF IInv, Untouched
    <2>5. QED
        BY <2>3, <2>4
<1>19. SourcesFinished'
    <2>1. SUFFICES ASSUME NEW n \in Vertex, Finished(n)', NEW j \in DOMAIN Src(n)
                   PROVE  dp'[Src(n)[j]][0] # Null /\ Src(n)[j] \notin Range(stack')
        BY <1>2 DEF SourcesFinished, Src, Finished, Defined
    <2>2. Src(n)[j] \in Vertex
        BY <1>3, NetlistFacts
    <2>3. QED
        BY <1>11, <1>12, <2>1, <2>2 DEF IInv, SourcesFinished
<1>20. NoHalfBuiltSons'
    <2>1. SUFFICES ASSUME NEW id \in Id, NEW j \in DOMAIN heap[id].sons
                   PROVE  /\ heap'[heap[id].sons[j]].cell # "NONE"
                          /\ \/ heap[id].sons[j][1] = id[1]
                             \/ /\ dp'[heap[id].sons[j][1]][0] # Null
                                /\ heap[id].sons[j][1] \notin Range(stack')
        BY <1>15 DEF NoHalfBuiltSons, Finished, Defined
    <2>2. id[1] # s
        BY <1>14, <2>1
    <2>3. heap[id].sons[j] \in Id /\ heap[id].sons[j][1] # s /\ heap[id].sons[j][1] \in Vertex
        BY <1>14, <2>2, IdFacts
    <2>4. heap'[heap[id].sons[j]] = heap[heap[id].sons[j]]
        BY <1>6, <1>7, <2>3
    <2>5. QED
        BY <1>12, <2>3, <2>4 DEF IInv, NoHalfBuiltSons
<1>21. Overflowed => Overflowed'
    <2>1. SUFFICES ASSUME NEW id \in Id, id[1] # Model, NEW j \in DOMAIN heap[id].sons,
                          heap[heap[id].sons[j]].cell = "UNDEFINED", ~heap[heap[id].sons[j]].leaf
                   PROVE  Overflowed'
        BY DEF Overflowed
    <2>2. id[1] # s
        BY <1>14, <2>1
    <2>3. heap'[heap[id].sons[j]] = heap[heap[id].sons[j]]
        BY <1>6, <1>7, <1>14, <2>2
    <2>4. QED
        BY <1>15, <2>1, <2>3 DEF Overflowed
<1>22. EquivalentStates'
    <2>1. SUFFICES ASSUME ~Overflowed', NEW n \in Node, Finished(n)', NEW v \in Bit, NEW x \in Assign
                   PROVE  heap'[dp'[n][v]].fn[x] = Flip(dag.fn[n][x], v)
        BY <1>2 DEF EquivalentStates
    <2>2. n \in Vertex /\ Finished(n) /\ Defined(n) /\ n # s
        BY <1>4, <1>11, <2>1 DEF Vertex, Finished
    <2>3. dp'[n] = dp[n] /\ dp[n][v] \in Id /\ dp[n][v][1] = n
        BY <1>3, <1>5, <2>2 DEF TypeOK
    <2>4. heap[dp[n][v]].fn[x] = Flip(dag.fn[n][x], v)
        BY <1>21, <2>1, <2>2 DEF IInv, EquivalentStates
    <2>5. QED
        BY <1>6, <1>7, <2>2, <2>3, <2>4
<1>23. QED
    BY <1>16, <1>17, <1>18, <1>19, <1>20, <1>22 DEF IInv

\* The two placeholders of the node that is finishing, and where dp refers to them.
LEMMA PlaceholdersOfRunning ==
    ASSUME IInv, NEW p \in Node, Running(p)
    PROVE  /\ p \in Vertex /\ p # Model /\ Ori(p) \in Id /\ Inv(p) \in Id
           /\ Ori(p)[1] = p /\ Inv(p)[1] = p /\ Ori(p) # Inv(p)
           /\ dp[p][0] = Ori(p) /\ dp[p][1] = Inv(p)
           /\ \A v \in Bit : heap[<<p, v, "dp">>] = Placeholder
<1>1. p \in Vertex /\ p # Model /\ "dp" \in Kind
    BY ConstantFacts, KindFacts DEF Vertex
<1>2. Defined(p) /\ ~Finished(p)
    BY <1>1, RunningFacts
<1>3. QED
    BY <1>1, <1>2, IdFacts, KindFacts DEF IInv, Untouched, Ori, Inv

\* Filling the placeholders in place.
LEMMA InPlacePreserves ==
    ASSUME IInv, NEW p \in Node, Running(p), stack' = Front(stack), dag' = dag, dp' = dp,
           \A i \in DOMAIN Src(p) : Defined(Src(p)[i]),
           NEW ori \in DpState, ori.cell # "NONE", heap' = InPlace(p, ori),
           \A i \in DOMAIN ori.sons :
                /\ ori.sons[i] \in Id /\ ori.sons[i][1] # p
                /\ heap[ori.sons[i]].cell # "NONE" /\ Finished(ori.sons[i][1]),
           Overflowed \/ \A x \in Assign : ori.fn[x] = dag.fn[p][x]
    PROVE  IInv'
<1> DEFINE inv == InvOf(<<p, "virtually_inverse">>, Ori(p), ori)
<1>1. TypeOK /\ WellFormed(dag)
    BY DEF IInv, TypeOK
<1>2. /\ p \in Vertex /\ p # Model /\ Ori(p) \in Id /\ Inv(p) \in Id
      /\ Ori(p)[1] = p /\ Inv(p)[1] = p /\ Ori(p) # Inv(p)
      /\ dp[p][0] = Ori(p) /\ dp[p][1] = Inv(p)
      /\ \A v \in Bit : heap[<<p, v, "dp">>] = Placeholder
    BY PlaceholdersOfRunning
<1>3. /\ inv \in DpState /\ inv.cell = "INV" /\ inv.sons = <<Ori(p)>>
      /\ \A x \in Assign : inv.fn[x] = Flip(ori.fn[x], 1)
    <2>1. <<p, "virtually_inverse">> \in Vertex \X Tag
        BY <1>2 DEF Tag
    <2>2. QED
        BY <1>2, <2>1, InvOfFacts
<1> HIDE DEF inv
<1>4. /\ DOMAIN heap' = Id
      /\ \A id \in Id : heap'[id] = IF id = Inv(p) THEN inv ELSE IF id = Ori(p) THEN ori ELSE heap[id]
    BY <1>1, <1>2 DEF InPlace, TypeOK, inv
<1>5. \A id \in Id : id[1] # p => heap'[id] = heap[id]
    BY <1>2, <1>4
<1>6. \A v \in Bit : /\ dp'[p][v] \in Id /\ dp'[p][v][1] = p
                     /\ heap'[dp'[p][v]].cell # "NONE"
    BY <1>2, <1>3, <1>4, KindFacts
<1>7. ASSUME NEW id \in Id, id[1] = p
      PROVE  /\ heap'[id] \in DpState
             /\ \A i \in DOMAIN heap'[id].sons :
                    /\ heap'[heap'[id].sons[i]].cell # "NONE"
                    /\ heap'[id].sons[i][1] = p \/ Finished(heap'[id].sons[i][1])
    <2>1. CASE id = Inv(p)
        <3>1. heap'[id] = inv
            BY <1>2, <1>4, <2>1
        <3>2. \A i \in DOMAIN inv.sons : inv.sons[i] = Ori(p)
            BY <1>3
        <3>3. heap'[Ori(p)].cell # "NONE" /\ Ori(p)[1] = p
            BY <1>2, <1>4
        <3>4. QED
            BY <1>3, <3>1, <3>2, <3>3
    <2>2. CASE id = Ori(p)
        <3>1. heap'[id] = ori
            BY <1>2, <1>4, <2>2
        <3>2. \A i \in DOMAIN ori.sons : heap'[ori.sons[i]] = heap[ori.sons[i]]
            BY <1>5
        <3>3. QED
            BY <3>1, <3>2
    <2>3. CASE id # Ori(p) /\ id # Inv(p)
        <3>1. heap'[id] = heap[id]
            BY <1>4, <2>3
        <3>2. heap[id] \in DpState
            BY <1>1, <1>2, <1>7 DEF TypeOK
        <3>3. ~Finished(p)
            BY <1>2, RunningFacts
        <3>4. heap[id].sons = <<>>
            BY <1>7, <3>3, UnfinishedFacts
        <3>5. QED
            BY <3>1, <3>2, <3>4
    <2>4. QED
        BY <2>1, <2>2, <2>3
<1>8. Overflowed \/ \A v \in Bit, x \in Assign : heap'[dp'[p][v]].fn[x] = Flip(dag.fn[p][x], v)
    <2>1. SUFFICES ASSUME ~Overflowed, NEW x \in Assign
                   PROVE  /\ heap'[dp'[p][0]].fn[x] = Flip(dag.fn[p][x], 0)
                          /\ heap'[dp'[p][1]].fn[x] = Flip(dag.fn[p][x], 1)
        BY KindFacts
    <2>2. ori.fn[x] = dag.fn[p][x] /\ dag.fn[p][x] \in Bit
        BY <1>1, <2>1, NetlistFacts
    <2>3. heap'[dp'[p][0]] = ori /\ heap'[dp'[p][1]] = inv
        BY <1>2, <1>4
    <2>4. QED
        BY <1>3, <2>2, <2>3, FlipFacts, KindFacts
<1>9. dp' \in [Vertex -> [Bit -> Id \cup {Null}]]
    BY <1>1 DEF TypeOK
<1>10. QED
    BY <1>4, <1>5, <1>6, <1>7, <1>8, <1>9, FinishPreserves

\* Returning from the call on an input preserves the invariant.
LEMMA FinishLeafPreserves ==
    ASSUME IInv, NEW p \in Vertex, FinishLeaf(p)
    PROVE  IInv'
<1> DEFINE ori == Input(p)
<1>1. /\ p \in Node /\ Running(p) /\ stack' = Front(stack) /\ dag' = dag /\ dp' = dp
      /\ heap' = InPlace(p, ori) /\ p \in dag.leaf /\ WellFormed(dag)
    BY DEF FinishLeaf, Vertex, IInv, TypeOK, IsLeaf
<1>2. Src(p) = <<>>
    BY <1>1 DEF WellFormed, Src
<1>4. <<p, "">> \in Vertex \X Tag /\ dag.fn[p] \in [Assign -> Bit]
    BY <1>1 DEF Tag, WellFormed
<1>5. <<>> \in Seq(Id) /\ "UNDEFINED" \in CellType \cup {"NONE"}
    BY KindFacts
<1>6. ori \in DpState /\ ori.cell # "NONE" /\ ori.sons = <<>> /\ ori.fn = dag.fn[p]
    <2> DEFINE name == <<p, "">>
               fn == dag.fn[p]
    <2>4. name \in Vertex \X Tag /\ fn \in [Assign -> Bit]
        BY <1>4
    <2>5. ori = [name |-> name, leaf |-> TRUE, cell |-> "UNDEFINED", sons |-> <<>>,
                 cost |-> 0, depth |-> 0, fn |-> fn]
        BY DEF Input
    <2> HIDE DEF name, fn
    <2>1. ori \in DpState
        BY <1>5, <2>4, <2>5 DEF DpState
    <2>2. ori.cell = "UNDEFINED" /\ ori.sons = <<>> /\ ori.fn = dag.fn[p]
        BY DEF Input
    <2>3. QED
        BY <2>1, <2>2
<1> HIDE DEF ori
<1>7. QED
    BY <1>1, <1>2, <1>6, InPlacePreserves

\* Returning from the call on a constant preserves the invariant.
LEMMA FinishConstantPreserves ==
    ASSUME IInv, NEW p \in Vertex, FinishConstant(p)
    PROVE  IInv'
<1> DEFINE out == dag.gate[p].out
           ori == Constant(<<p, "">>, out)
           inv == Constant(<<p, "virtually_inverse">>, Flip(out, 1))
<1>1. /\ p \in Node /\ Running(p) /\ stack' = Front(stack) /\ dag' = dag /\ dp' = dp
      /\ p \notin dag.leaf /\ WellFormed(dag) /\ TypeOK /\ Len(Src(p)) = 0
      /\ heap' = IF FanOut(p) > 1 THEN InPlace(p, ori)
                 ELSE [heap EXCEPT ![Ori(p)] = ori, ![Inv(p)] = inv]
    BY DEF FinishConstant, Vertex, IInv, TypeOK, IsLeaf
<1>2. DOMAIN Src(p) = {} /\ out \in Bit /\ Flip(out, 1) \in Bit
    <2>1. Src(p) \in Seq(Node) /\ dag.gate[p] \in Gate
        BY <1>1, NetlistFacts
    <2>2. DOMAIN Src(p) = {}
        <3>1. \A s \in Seq(Node) : Len(s) = 0 => DOMAIN s = {}
            OBVIOUS
        <3>2. QED
            BY <1>1, <2>1, <3>1
    <2>3. out \in Bit
        BY <2>1 DEF Gate
    <2> HIDE DEF out
    <2>4. QED
        BY <2>2, <2>3, BitsOfBits, KindFacts
<1>3. \A x \in Assign : dag.fn[p][x] = out
    <2>1. Len(dag.src[p]) = 0
        BY <1>1 DEF Src
    <2>2. ASSUME NEW x \in Assign PROVE dag.fn[p][x] = dag.gate[p].out
        <3>1. dag.fn[p][x] =
                CASE Len(dag.src[p]) = 0 -> dag.gate[p].out
                  [] Len(dag.src[p]) = 1 -> UnaryOut(dag.gate[p], dag.fn[dag.src[p][1]][x])
                  [] OTHER -> GateOut(dag.gate[p], dag.fn[dag.src[p][1]][x], dag.fn[dag.src[p][2]][x])
            BY <1>1 DEF WellFormed
        <3>2. QED
            BY <2>1, <3>1
    <2>3. QED
        BY <2>2
<1>4. /\ ori \in DpState /\ ori.cell # "NONE" /\ ori.sons = <<>>
      /\ \A x \in Assign : ori.fn[x] = out
      /\ inv \in DpState /\ inv.cell # "NONE" /\ inv.sons = <<>>
      /\ \A x \in Assign : inv.fn[x] = Flip(out, 1)
    <2>1. <<p, "">> \in Vertex \X Tag /\ <<p, "virtually_inverse">> \in Vertex \X Tag
        BY <1>1 DEF Tag
    <2> HIDE DEF out
    <2> DEFINE name == <<p, "">>
    <2>6. name \in Vertex \X Tag
        BY <2>1
    <2> HIDE DEF name
    <2>2. /\ Constant(name, out) \in DpState
          /\ Constant(name, out).cell # "NONE" /\ Constant(name, out).sons = <<>>
          /\ \A x \in Assign : Constant(name, out).fn[x] = out
        BY <1>2, <2>6, ConstantType
    <2> DEFINE tau == <<p, "virtually_inverse">>
               bit == Flip(out, 1)
    <2>3. tau \in Vertex \X Tag /\ bit \in Bit
        BY <1>2, <2>1
    <2> HIDE DEF tau, bit
    <2>4. /\ Constant(tau, bit) \in DpState
          /\ Constant(tau, bit).cell # "NONE" /\ Constant(tau, bit).sons = <<>>
          /\ \A x \in Assign : Constant(tau, bit).fn[x] = bit
        BY <2>3, ConstantType
    <2>5. QED
        BY <2>2, <2>4 DEF tau, bit, name
<1> HIDE DEF ori, inv, out
<1>5. CASE FanOut(p) > 1
    <2>1. heap' = InPlace(p, ori)
        BY <1>1, <1>5
    <2>2. QED
        BY <1>1, <1>2, <1>3, <1>4, <2>1, InPlacePreserves
<1>6. CASE ~(FanOut(p) > 1)
    <2>1. /\ p \in Vertex /\ p # Model /\ Ori(p) \in Id /\ Inv(p) \in Id
          /\ Ori(p)[1] = p /\ Inv(p)[1] = p /\ Ori(p) # Inv(p)
          /\ dp[p][0] = Ori(p) /\ dp[p][1] = Inv(p)
        BY <1>1, PlaceholdersOfRunning
    <2>2. /\ DOMAIN heap' = Id
          /\ \A id \in Id : heap'[id] = IF id = Inv(p) THEN inv ELSE IF id = Ori(p) THEN ori ELSE heap[id]
        BY <1>1, <1>6, <2>1 DEF TypeOK
    <2>3. \A id \in Id : id[1] # p => heap'[id] = heap[id]
        BY <2>1, <2>2
    <2>4. \A v \in Bit : /\ dp'[p][v] \in Id /\ dp'[p][v][1] = p
                         /\ heap'[dp'[p][v]].cell # "NONE"
        BY <1>1, <1>4, <2>1, <2>2, KindFacts
    <2>5. \A id \in Id : id[1] = p => heap'[id] \in DpState /\ heap'[id].sons = <<>>
        <3>1. \A id \in Id : id[1] = p => heap[id] \in DpState /\ heap[id].sons = <<>>
            <4>1. ~Finished(p)
                BY <1>1, RunningFacts
            <4>2. \A id \in Id : id[1] = p => heap[id].sons = <<>>
                BY <1>1, <4>1, UnfinishedFacts
            <4>3. QED
                BY <1>1, <2>1, <4>2 DEF TypeOK
        <3>2. QED
            BY <1>4, <2>2, <3>1
    <2>6. \A v \in Bit, x \in Assign : heap'[dp'[p][v]].fn[x] = Flip(dag.fn[p][x], v)
        <3>1. Flip(out, 0) = out
            BY <1>2, FlipFacts, KindFacts
        <3>2. \A x \in Assign : /\ heap'[dp'[p][0]].fn[x] = Flip(dag.fn[p][x], 0)
                                /\ heap'[dp'[p][1]].fn[x] = Flip(dag.fn[p][x], 1)
            BY <1>1, <1>3, <1>4, <2>1, <2>2, <3>1
        <3>3. QED
            BY <3>2, KindFacts
    <2>7. dp' \in [Vertex -> [Bit -> Id \cup {Null}]]
        BY <1>1 DEF TypeOK
    <2>8. \A id \in Id : id[1] = p =>
            /\ heap'[id] \in DpState
            /\ \A i \in DOMAIN heap'[id].sons :
                 /\ heap'[heap'[id].sons[i]].cell # "NONE"
                 /\ heap'[id].sons[i][1] = p \/ Finished(heap'[id].sons[i][1])
        BY <2>5
    <2>9. \A i \in DOMAIN Src(p) : Defined(Src(p)[i])
        BY <1>2
    <2>10. QED
        BY <1>1, <2>2, <2>3, <2>4, <2>6, <2>7, <2>8, <2>9, FinishPreserves
<1>7. QED
    BY <1>5, <1>6

\* The two states of a node whose call has returned.
LEMMA FinishedStates ==
    ASSUME IInv, NEW n \in Node, Finished(n), NEW v \in Bit
    PROVE  /\ dp[n][v] \in Id /\ dp[n][v][1] = n
           /\ heap[dp[n][v]] \in DpState /\ heap[dp[n][v]].cell # "NONE"
           /\ Overflowed \/ \A x \in Assign :
                heap[dp[n][v]].fn[x] = Flip(dag.fn[n][x], v) /\ dag.fn[n][x] \in Bit
<1>1. TypeOK /\ WellFormed(dag) /\ Defined(n) /\ n # Model
    BY ConstantFacts DEF IInv, TypeOK, Finished
<1>2. dp[n][v] \in Id /\ dp[n][v][1] = n /\ heap[dp[n][v]].cell # "NONE"
    BY <1>1 DEF TypeOK
<1>3. heap[dp[n][v]] \in DpState
    BY <1>1, <1>2 DEF TypeOK
<1>4. Overflowed \/ \A x \in Assign : heap[dp[n][v]].fn[x] = Flip(dag.fn[n][x], v)
    BY DEF IInv, EquivalentStates
<1>5. \A x \in Assign : dag.fn[n][x] \in Bit
    BY <1>1, NetlistFacts
<1>6. QED
    BY <1>2, <1>3, <1>4, <1>5

\* A state made of states that are on the heap.
LEMMA OnHeapFacts ==
    ASSUME NEW name \in Vertex \X Tag, NEW cell \in CellType, NEW sons \in Seq(Id),
           \A i \in DOMAIN sons : heap[sons[i]] \in DpState
    PROVE  /\ OnHeap(name, cell, sons) \in DpState
           /\ OnHeap(name, cell, sons).cell = cell
           /\ OnHeap(name, cell, sons).sons = sons
           /\ OnHeap(name, cell, sons).fn = CellFn(cell, States(sons))
           /\ Len(States(sons)) = Len(sons)
           /\ \A i \in DOMAIN sons : States(sons)[i] = heap[sons[i]]
<1>1. /\ States(sons) \in Seq(DpState) /\ Len(States(sons)) = Len(sons)
      /\ \A i \in DOMAIN sons : States(sons)[i] = heap[sons[i]]
    <2>1. DOMAIN sons = 1..Len(sons) /\ Len(sons) \in Nat
        OBVIOUS
    <2>2. States(sons) = [i \in 1..Len(sons) |-> heap[sons[i]]]
        BY <2>1 DEF States
    <2>3. QED
        BY <2>1, <2>2
<1>2. QED
    BY <1>1, UpdatedType DEF OnHeap

\* SAME on the right one of the son's states is the one-input gate.
LEMMA UnaryCover ==
    ASSUME NEW g \in Gate, NEW a \in Bit
    PROVE  UnaryOut(g, a) = CellOut("SAME", Flip(a, Truth(~(g.a = g.out))), 0, 0, 0)
BY DEF Gate, Bit, UnaryOut, CellOut, Flip, Truth

\* Returning from the call on a buffer or an inverter preserves the invariant.
LEMMA FinishUnaryPreserves ==
    ASSUME IInv, NEW p \in Vertex, FinishUnary(p)
    PROVE  IInv'
<1> DEFINE son == Src(p)[1]
           v == Truth(~(dag.gate[p].a = dag.gate[p].out))
           sons == <<dp[son][v]>>
           name == <<p, "">>
           ori == OnHeap(name, "SAME", sons)
<1>1. /\ p \in Node /\ Running(p) /\ stack' = Front(stack) /\ dag' = dag /\ dp' = dp
      /\ WellFormed(dag) /\ TypeOK /\ Len(Src(p)) = 1
      /\ \A i \in DOMAIN Src(p) : Defined(Src(p)[i])
      /\ heap' = InPlace(p, ori)
    BY DEF FinishUnary, Ready, Vertex, IInv, TypeOK
<1>2. 1 \in DOMAIN Src(p)
    <2>1. \A s \in Seq(Node) : Len(s) = 1 => 1 \in DOMAIN s
        OBVIOUS
    <2>2. QED
        BY <1>1, <2>1, NetlistFacts
<1>3. son \in Node /\ Finished(son) /\ v \in Bit /\ dag.gate[p] \in Gate
    <2>1. v \in Bit
        BY DEF Truth, Bit
    <2>2. QED
        BY <1>1, <1>2, <2>1, NetlistFacts, RunningFacts
<1>4. son # p
    BY <1>1, <1>3, RunningFacts
<1>5. name \in Vertex \X Tag /\ "SAME" \in CellType
    BY KindFacts DEF Tag
<1>6. \A x \in Assign : dag.fn[p][x] = UnaryOut(dag.gate[p], dag.fn[son][x])
    <2>5. Len(dag.src[p]) = 1
        BY <1>1 DEF Src
    <2>6. p \in dag.leaf => dag.src[p] = <<>>
        BY <1>1 DEF WellFormed
    <2>1. Len(dag.src[p]) = 1 /\ p \notin dag.leaf
        BY <2>5, <2>6
    <2>2. TAKE x \in Assign
    <2>3. dag.fn[p][x] =
            CASE Len(dag.src[p]) = 0 -> dag.gate[p].out
              [] Len(dag.src[p]) = 1 -> UnaryOut(dag.gate[p], dag.fn[dag.src[p][1]][x])
              [] OTHER -> GateOut(dag.gate[p], dag.fn[dag.src[p][1]][x], dag.fn[dag.src[p][2]][x])
        BY <1>1, <2>1 DEF WellFormed
    <2>4. QED
        BY <2>1, <2>3 DEF Src
<1> HIDE DEF name, son
<1>7. /\ dp[son][v] \in Id /\ dp[son][v][1] = son
      /\ heap[dp[son][v]] \in DpState /\ heap[dp[son][v]].cell # "NONE"
      /\ Overflowed \/ \A x \in Assign :
            heap[dp[son][v]].fn[x] = Flip(dag.fn[son][x], v) /\ dag.fn[son][x] \in Bit
    <2> HIDE DEF v
    <2>1. QED
        BY <1>3, FinishedStates
<1>8. /\ sons \in Seq(Id) /\ Len(sons) = 1 /\ DOMAIN sons = {1} /\ sons[1] = dp[son][v]
    <2> DEFINE id == dp[son][v]
    <2>1. id \in Id
        BY <1>7
    <2> HIDE DEF id
    <2>2. <<id>> \in Seq(Id) /\ Len(<<id>>) = 1 /\ DOMAIN <<id>> = {1} /\ <<id>>[1] = id
        BY <2>1
    <2>3. QED
        BY <2>2 DEF id
<1>9. /\ ori \in DpState /\ ori.cell = "SAME" /\ ori.sons = sons
      /\ ori.fn = CellFn("SAME", States(sons))
      /\ Len(States(sons)) = 1 /\ States(sons)[1] = heap[dp[son][v]]
    <2> DEFINE cell == "SAME"
    <2>1. \A i \in DOMAIN sons : heap[sons[i]] \in DpState
        BY <1>7, <1>8
    <2>2. cell \in CellType /\ 1 \in DOMAIN sons
        BY <1>5, <1>8
    <2> HIDE DEF sons, cell
    <2>3. /\ OnHeap(name, cell, sons) \in DpState
          /\ OnHeap(name, cell, sons).cell = cell
          /\ OnHeap(name, cell, sons).sons = sons
          /\ OnHeap(name, cell, sons).fn = CellFn(cell, States(sons))
          /\ Len(States(sons)) = Len(sons)
          /\ \A i \in DOMAIN sons : States(sons)[i] = heap[sons[i]]
        BY <1>5, <1>8, <2>1, <2>2, OnHeapFacts
    <2>4. QED
        BY <1>8, <2>2, <2>3 DEF cell
<1>10. Overflowed \/ \A x \in Assign : ori.fn[x] = dag.fn[p][x]
    <2>1. SUFFICES ASSUME ~Overflowed, NEW x \in Assign PROVE ori.fn[x] = dag.fn[p][x]
        OBVIOUS
    <2>2. heap[dp[son][v]].fn[x] = Flip(dag.fn[son][x], v) /\ dag.fn[son][x] \in Bit
        BY <1>7, <2>1
    <2>3. ori.fn[x] = CellOut("SAME", heap[dp[son][v]].fn[x], 0, 0, 0)
        <3> HIDE DEF ori, sons, v
        <3>1. QED
            BY <1>9 DEF CellFn
    <2>4. UnaryOut(dag.gate[p], dag.fn[son][x])
            = CellOut("SAME", Flip(dag.fn[son][x], v), 0, 0, 0)
        BY <1>3, <2>2, UnaryCover
    <2>5. QED
        BY <1>6, <2>2, <2>3, <2>4
<1> HIDE DEF ori, v, sons
<1>11. \A i \in DOMAIN ori.sons :
        /\ ori.sons[i] \in Id /\ ori.sons[i][1] # p
        /\ heap[ori.sons[i]].cell # "NONE" /\ Finished(ori.sons[i][1])
    BY <1>3, <1>4, <1>7, <1>8, <1>9
<1>12. ori.cell # "NONE"
    BY <1>9
<1>13. QED
    BY <1>1, <1>9, <1>10, <1>11, <1>12, InPlacePreserves

-----------------------------------------------------------------------------
(* Covers                                                                  *)

\* What the i-th input of a cell carries when it stands on state vs[i] of node ns[i].
InputOf(ns, vs, i, x) == IF i <= Len(ns) THEN Flip(dag.fn[ns[i]][x], vs[i]) ELSE 0

(***************************************************************************)
(* A cell whose inputs are states of nodes that have returned drives what  *)
(* it drives from those nodes' functions or their complements.             *)
(***************************************************************************)
LEMMA CoverStateFacts ==
    ASSUME IInv, NEW name \in Vertex \X Tag, NEW cell \in CellType, NEW sons \in Seq(Id),
           NEW ns \in Seq(Node), NEW vs \in Seq(Bit), Len(ns) = Len(sons), Len(vs) = Len(sons),
           \A i \in 1..Len(sons) : sons[i] = dp[ns[i]][vs[i]] /\ Finished(ns[i])
    PROVE  /\ OnHeap(name, cell, sons) \in DpState
           /\ OnHeap(name, cell, sons).cell = cell
           /\ \A i \in DOMAIN OnHeap(name, cell, sons).sons :
                LET son == OnHeap(name, cell, sons).sons[i]
                IN  son \in Id /\ heap[son].cell # "NONE" /\ Finished(son[1])
           /\ Overflowed \/ \A x \in Assign : OnHeap(name, cell, sons).fn[x] =
                CellOut(cell, InputOf(ns, vs, 1, x), InputOf(ns, vs, 2, x),
                              InputOf(ns, vs, 3, x), InputOf(ns, vs, 4, x))
<1>1. /\ Len(sons) \in Nat /\ DOMAIN sons = 1..Len(sons)
      /\ \A i \in 1..Len(sons) : ns[i] \in Node /\ vs[i] \in Bit
    <2>1. \A i \in 1..Len(ns) : ns[i] \in Node
        OBVIOUS
    <2>2. \A i \in 1..Len(vs) : vs[i] \in Bit
        OBVIOUS
    <2>3. QED
        BY <2>1, <2>2
<1>2. \A i \in 1..Len(sons) :
        /\ sons[i] \in Id /\ sons[i][1] = ns[i]
        /\ heap[sons[i]] \in DpState /\ heap[sons[i]].cell # "NONE"
        /\ Overflowed \/ \A x \in Assign :
             heap[sons[i]].fn[x] = Flip(dag.fn[ns[i]][x], vs[i])
    BY <1>1, FinishedStates
<1>3. /\ OnHeap(name, cell, sons) \in DpState
      /\ OnHeap(name, cell, sons).cell = cell
      /\ OnHeap(name, cell, sons).sons = sons
      /\ OnHeap(name, cell, sons).fn = CellFn(cell, States(sons))
      /\ Len(States(sons)) = Len(sons)
      /\ \A i \in DOMAIN sons : States(sons)[i] = heap[sons[i]]
    <2>1. \A i \in DOMAIN sons : heap[sons[i]] \in DpState
        BY <1>1, <1>2
    <2>2. QED
        BY <1>1, <2>1, OnHeapFacts
<1>4. Overflowed \/ \A x \in Assign : OnHeap(name, cell, sons).fn[x] =
        CellOut(cell, InputOf(ns, vs, 1, x), InputOf(ns, vs, 2, x),
                      InputOf(ns, vs, 3, x), InputOf(ns, vs, 4, x))
    <2>1. SUFFICES ASSUME ~Overflowed, NEW x \in Assign
                   PROVE  OnHeap(name, cell, sons).fn[x] =
                            CellOut(cell, InputOf(ns, vs, 1, x), InputOf(ns, vs, 2, x),
                                          InputOf(ns, vs, 3, x), InputOf(ns, vs, 4, x))
        OBVIOUS
    <2> DEFINE in(i) == IF i <= Len(States(sons)) THEN States(sons)[i].fn[x] ELSE 0
    <2>2. OnHeap(name, cell, sons).fn[x] = CellOut(cell, in(1), in(2), in(3), in(4))
        BY <1>3 DEF CellFn
    <2>3. \A i \in 1..4 : in(i) = InputOf(ns, vs, i, x)
        <3>1. TAKE i \in 1..4
        <3>2. CASE i <= Len(sons)
            <4>1. i \in 1..Len(sons)
                BY <1>1, <3>2
            <4>2. States(sons)[i].fn[x] = Flip(dag.fn[ns[i]][x], vs[i])
                BY <1>1, <1>2, <1>3, <2>1, <4>1
            <4>3. QED
                BY <1>3, <3>2, <4>2 DEF InputOf
        <3>3. CASE ~(i <= Len(sons))
            BY <1>3, <3>3 DEF InputOf
        <3>4. QED
            BY <3>2, <3>3
    <2> HIDE DEF in
    <2>4. in(1) = InputOf(ns, vs, 1, x) /\ in(2) = InputOf(ns, vs, 2, x)
            /\ in(3) = InputOf(ns, vs, 3, x) /\ in(4) = InputOf(ns, vs, 4, x)
        BY <2>3
    <2>5. QED
        BY <2>2, <2>4
<1>5. \A i \in DOMAIN sons : sons[i] \in Id /\ heap[sons[i]].cell # "NONE" /\ Finished(sons[i][1])
    BY <1>1, <1>2
<1>6. QED
    BY <1>3, <1>4, <1>5

\* A state of p made in pass v that may win.
Candidate(p, v, st) ==
    /\ st \in DpState /\ st.cell # "NONE"
    /\ \A i \in DOMAIN st.sons :
        st.sons[i] \in Id /\ heap[st.sons[i]].cell # "NONE" /\ Finished(st.sons[i][1])
    /\ Overflowed \/ \A x \in Assign : st.fn[x] = Flip(dag.fn[p][x], v)

\* A two-input gate all of whose sources have returned.
LEMMA BinaryFacts ==
    ASSUME IInv, NEW n \in Node, Len(Src(n)) = 2,
           \A i \in DOMAIN Src(n) : Finished(Src(n)[i])
    PROVE  /\ Src(n)[1] \in Node /\ Src(n)[2] \in Node
           /\ Finished(Src(n)[1]) /\ Finished(Src(n)[2]) /\ dag.gate[n] \in Gate
           /\ \A x \in Assign :
                /\ dag.fn[Src(n)[1]][x] \in Bit /\ dag.fn[Src(n)[2]][x] \in Bit
                /\ dag.fn[n][x] \in Bit
                /\ dag.fn[n][x] = GateOut(dag.gate[n], dag.fn[Src(n)[1]][x], dag.fn[Src(n)[2]][x])
<1>1. WellFormed(dag) /\ n \in Vertex
    BY DEF IInv, TypeOK, Vertex
<1>2. 1 \in DOMAIN Src(n) /\ 2 \in DOMAIN Src(n)
    <2>1. \A s \in Seq(Node) : Len(s) = 2 => 1 \in DOMAIN s /\ 2 \in DOMAIN s
        OBVIOUS
    <2>2. QED
        BY <1>1, <2>1, NetlistFacts
<1>3. /\ Src(n)[1] \in Node /\ Src(n)[2] \in Node
      /\ Finished(Src(n)[1]) /\ Finished(Src(n)[2]) /\ dag.gate[n] \in Gate
    BY <1>1, <1>2, NetlistFacts
<1>4. \A m \in Node, x \in Assign : dag.fn[m][x] \in Bit
    BY <1>1, NetlistFacts
<1>5. ASSUME NEW x \in Assign
      PROVE  dag.fn[n][x] = GateOut(dag.gate[n], dag.fn[Src(n)[1]][x], dag.fn[Src(n)[2]][x])
    <2>1. Len(dag.src[n]) = 2
        BY DEF Src
    <2>2. n \in dag.leaf => dag.src[n] = <<>>
        BY <1>1 DEF WellFormed
    <2>3. n \notin dag.leaf
        BY <2>1, <2>2
    <2>4. dag.fn[n][x] =
            CASE Len(dag.src[n]) = 0 -> dag.gate[n].out
              [] Len(dag.src[n]) = 1 -> UnaryOut(dag.gate[n], dag.fn[dag.src[n][1]][x])
              [] OTHER -> GateOut(dag.gate[n], dag.fn[dag.src[n][1]][x], dag.fn[dag.src[n][2]][x])
        BY <1>1, <2>3 DEF WellFormed
    <2>5. QED
        BY <2>1, <2>4 DEF Src
<1>6. QED
    BY <1>3, <1>4, <1>5

\* A gate that may be absorbed: its own sources have returned.
LEMMA AbsorbableFacts ==
    ASSUME IInv, NEW n \in Node, Finished(n), Absorbable(n)
    PROVE  Len(Src(n)) = 2 /\ \A i \in DOMAIN Src(n) : Finished(Src(n)[i])
BY DEF Absorbable, IInv, SourcesFinished, Vertex

\* The states of the two sources of gate n that a cover takes.
LEMMA TwoInputs ==
    ASSUME IInv, NEW name \in Vertex \X Tag, NEW cell \in CellType,
           NEW l \in Node, NEW r \in Node, Finished(l), Finished(r),
           NEW i \in Bit, NEW j \in Bit
    PROVE  LET st == OnHeap(name, cell, <<dp[l][i], dp[r][j]>>)
           IN  /\ st \in DpState /\ st.cell = cell
               /\ \A m \in DOMAIN st.sons :
                    st.sons[m] \in Id /\ heap[st.sons[m]].cell # "NONE" /\ Finished(st.sons[m][1])
               /\ Overflowed \/ \A x \in Assign : st.fn[x] =
                    CellOut(cell, Flip(dag.fn[l][x], i), Flip(dag.fn[r][x], j), 0, 0)
<1> DEFINE sons == <<dp[l][i], dp[r][j]>>
           ns == <<l, r>>
           vs == <<i, j>>
<1>1. dp[l][i] \in Id /\ dp[r][j] \in Id
    BY FinishedStates
<1>2. /\ sons \in Seq(Id) /\ ns \in Seq(Node) /\ vs \in Seq(Bit)
      /\ Len(sons) = 2 /\ Len(ns) = 2 /\ Len(vs) = 2
      /\ sons[1] = dp[l][i] /\ sons[2] = dp[r][j]
      /\ ns[1] = l /\ ns[2] = r /\ vs[1] = i /\ vs[2] = j
    BY <1>1
<1>3. \A x : /\ InputOf(ns, vs, 1, x) = Flip(dag.fn[l][x], i)
             /\ InputOf(ns, vs, 2, x) = Flip(dag.fn[r][x], j)
             /\ InputOf(ns, vs, 3, x) = 0 /\ InputOf(ns, vs, 4, x) = 0
    BY <1>2 DEF InputOf
<1> HIDE DEF sons, ns, vs
<1>4. \A m \in 1..Len(sons) : sons[m] = dp[ns[m]][vs[m]] /\ Finished(ns[m])
    <2>1. \A m \in 1..2 : m = 1 \/ m = 2
        OBVIOUS
    <2>2. QED
        BY <1>2, <2>1
<1>5. QED
    <2>1. /\ OnHeap(name, cell, sons) \in DpState
          /\ OnHeap(name, cell, sons).cell = cell
          /\ \A m \in DOMAIN OnHeap(name, cell, sons).sons :
                LET son == OnHeap(name, cell, sons).sons[m]
                IN  son \in Id /\ heap[son].cell # "NONE" /\ Finished(son[1])
          /\ Overflowed \/ \A x \in Assign : OnHeap(name, cell, sons).fn[x] =
                CellOut(cell, InputOf(ns, vs, 1, x), InputOf(ns, vs, 2, x),
                              InputOf(ns, vs, 3, x), InputOf(ns, vs, 4, x))
        <3>1. /\ sons \in Seq(Id) /\ ns \in Seq(Node) /\ vs \in Seq(Bit)
              /\ Len(ns) = Len(sons) /\ Len(vs) = Len(sons)
            BY <1>2
        <3>2. QED
            BY <1>4, <3>1, CoverStateFacts
    <2>2. QED
        BY <1>3, <2>1 DEF sons

\* The base cover: t1, or the INV behind it, is a candidate.
LEMMA BaseFacts ==
    ASSUME IInv, NEW p \in Node, Len(Src(p)) = 2,
           \A i \in DOMAIN Src(p) : Finished(Src(p)[i]), NEW v \in Bit
    PROVE  /\ BaseState(p, v) \in DpState /\ BaseState(p, v).cell # "NONE"
           /\ \A i \in DOMAIN BaseState(p, v).sons :
                LET son == BaseState(p, v).sons[i]
                IN  son \in Id /\ heap[son].cell # "NONE" /\ Finished(son[1])
           /\ Base(p, v).head \in Bit
           /\ Overflowed \/ \A x \in Assign :
                Flip(BaseState(p, v).fn[x], Base(p, v).head) = Flip(dag.fn[p][x], v)
<1> DEFINE c == Base(p, v)
           l == Src(p)[1]
           r == Src(p)[2]
           name == <<p, c.cell>>
<1>1. /\ l \in Node /\ r \in Node /\ Finished(l) /\ Finished(r) /\ dag.gate[p] \in Gate
      /\ \A x \in Assign :
            /\ dag.fn[l][x] \in Bit /\ dag.fn[r][x] \in Bit
            /\ dag.fn[p][x] = GateOut(dag.gate[p], dag.fn[l][x], dag.fn[r][x])
    BY BinaryFacts
<1>2. /\ c.cell \in {"NAND2", "NOR2"}
      /\ c.ia \in Bit /\ c.ib \in Bit /\ c.head \in Bit
      /\ \A a, b \in Bit : CoverOut(c, a, b) = Flip(GateOut(dag.gate[p], a, b), v)
    BY <1>1, BaseCoverCorrect DEF Base
<1>3. name \in Vertex \X Tag /\ c.cell \in CellType /\ c.cell # "NONE"
    BY <1>2 DEF Vertex, Tag, CellType
<1>4. BaseState(p, v) = OnHeap(name, c.cell, <<dp[l][c.ia], dp[r][c.ib]>>)
    BY DEF BaseState
<1> HIDE DEF c, l, r, name
<1>5. /\ BaseState(p, v) \in DpState /\ BaseState(p, v).cell = c.cell
      /\ \A i \in DOMAIN BaseState(p, v).sons :
            LET son == BaseState(p, v).sons[i]
            IN  son \in Id /\ heap[son].cell # "NONE" /\ Finished(son[1])
      /\ Overflowed \/ \A x \in Assign : BaseState(p, v).fn[x] =
            CellOut(c.cell, Flip(dag.fn[l][x], c.ia), Flip(dag.fn[r][x], c.ib), 0, 0)
    <2>1. /\ name \in Vertex \X Tag /\ c.cell \in CellType /\ l \in Node /\ r \in Node
          /\ Finished(l) /\ Finished(r) /\ c.ia \in Bit /\ c.ib \in Bit
        BY <1>1, <1>2, <1>3
    <2> DEFINE st == OnHeap(name, c.cell, <<dp[l][c.ia], dp[r][c.ib]>>)
    <2>2. /\ st \in DpState /\ st.cell = c.cell
          /\ \A i \in DOMAIN st.sons :
                st.sons[i] \in Id /\ heap[st.sons[i]].cell # "NONE" /\ Finished(st.sons[i][1])
          /\ Overflowed \/ \A x \in Assign : st.fn[x] =
                CellOut(c.cell, Flip(dag.fn[l][x], c.ia), Flip(dag.fn[r][x], c.ib), 0, 0)
        BY <2>1, TwoInputs
    <2>3. st = BaseState(p, v)
        BY <1>4
    <2> HIDE DEF st
    <2>4. QED
        BY <2>2, <2>3
<1>6. Overflowed \/ \A x \in Assign : Flip(BaseState(p, v).fn[x], c.head) = Flip(dag.fn[p][x], v)
    BY <1>1, <1>2, <1>5 DEF CoverOut
<1>7. QED
    BY <1>2, <1>3, <1>5, <1>6 DEF c

\* A cover by AOI21 (transferState), where there is one, computes the gate.
LEMMA AOI21Facts ==
    ASSUME IInv, NEW p \in Node, Len(Src(p)) = 2,
           \A i \in DOMAIN Src(p) : Finished(Src(p)[i]), NEW v \in Bit
    PROVE  AOI21State(p, v) = NoState \/ Candidate(p, v, AOI21State(p, v))
<1> DEFINE l == Src(p)[1]
           r == Src(p)[2]
           invs == AOI21Inv(dag.gate[p], dag.gate[l], v)
           i == CHOOSE j \in invs : TRUE
           name == <<p, "AIO21">>
           cell == "AOI21"
           a == Src(l)[1]
           b == Src(l)[2]
           sons == <<dp[a][i[1]], dp[b][i[2]], dp[r][i[3]]>>
           ns == <<a, b, r>>
           vs == <<i[1], i[2], i[3]>>
<1>1. SUFFICES ASSUME Absorbable(l), invs # {} PROVE Candidate(p, v, AOI21State(p, v))
    BY DEF AOI21State
<1>2. AOI21State(p, v) = OnHeap(name, cell, sons)
    BY <1>1 DEF AOI21State
<1>3. /\ l \in Node /\ r \in Node /\ Finished(l) /\ Finished(r)
      /\ \A x \in Assign :
            /\ dag.fn[r][x] \in Bit
            /\ dag.fn[p][x] = GateOut(dag.gate[p], dag.fn[l][x], dag.fn[r][x])
    BY BinaryFacts
<1>4. i \in invs
    BY <1>1
<1>5. /\ i[1] \in Bit /\ i[2] \in Bit /\ i[3] \in Bit
      /\ \A s, t, u \in Bit :
            Flip(GateOut(dag.gate[p], GateOut(dag.gate[l], s, t), u), v)
                = CellOut("AOI21", Flip(s, i[1]), Flip(t, i[2]), Flip(u, i[3]), 0)
    BY <1>4 DEF AOI21Inv
<1>6. name \in Vertex \X Tag /\ cell \in CellType
    BY DEF Vertex, Tag, CellType
<1> HIDE DEF l, r, i, name
<1>7. /\ a \in Node /\ b \in Node /\ Finished(a) /\ Finished(b)
      /\ \A x \in Assign :
            /\ dag.fn[a][x] \in Bit /\ dag.fn[b][x] \in Bit
            /\ dag.fn[l][x] = GateOut(dag.gate[l], dag.fn[a][x], dag.fn[b][x])
    BY <1>1, <1>3, AbsorbableFacts, BinaryFacts
<1> HIDE DEF a, b
<1>8. /\ sons \in Seq(Id) /\ ns \in Seq(Node) /\ vs \in Seq(Bit)
      /\ Len(sons) = 3 /\ Len(ns) = 3 /\ Len(vs) = 3
      /\ sons[1] = dp[a][i[1]] /\ sons[2] = dp[b][i[2]] /\ sons[3] = dp[r][i[3]]
      /\ ns[1] = a /\ ns[2] = b /\ ns[3] = r
      /\ vs[1] = i[1] /\ vs[2] = i[2] /\ vs[3] = i[3]
    <2>1. dp[a][i[1]] \in Id /\ dp[b][i[2]] \in Id /\ dp[r][i[3]] \in Id
        BY <1>3, <1>5, <1>7, FinishedStates
    <2>2. \A S : \A s, t, u \in S : /\ <<s, t, u>> \in Seq(S) /\ Len(<<s, t, u>>) = 3
                                    /\ <<s, t, u>>[1] = s /\ <<s, t, u>>[2] = t /\ <<s, t, u>>[3] = u
        OBVIOUS
    <2>3. QED
        BY <1>3, <1>5, <1>7, <2>1, <2>2
<1>9. \A x : /\ InputOf(ns, vs, 1, x) = Flip(dag.fn[a][x], i[1])
             /\ InputOf(ns, vs, 2, x) = Flip(dag.fn[b][x], i[2])
             /\ InputOf(ns, vs, 3, x) = Flip(dag.fn[r][x], i[3])
             /\ InputOf(ns, vs, 4, x) = 0
    <2> HIDE DEF ns, vs
    <2>1. QED
        BY <1>8 DEF InputOf
<1> HIDE DEF sons, ns, vs, cell
<1>10. \A m \in 1..Len(sons) : sons[m] = dp[ns[m]][vs[m]] /\ Finished(ns[m])
    <2>1. \A m \in 1..3 : m = 1 \/ m = 2 \/ m = 3
        OBVIOUS
    <2>2. QED
        BY <1>3, <1>7, <1>8, <2>1
<1>11. /\ OnHeap(name, cell, sons) \in DpState
       /\ OnHeap(name, cell, sons).cell = cell
       /\ \A m \in DOMAIN OnHeap(name, cell, sons).sons :
            LET son == OnHeap(name, cell, sons).sons[m]
            IN  son \in Id /\ heap[son].cell # "NONE" /\ Finished(son[1])
       /\ Overflowed \/ \A x \in Assign : OnHeap(name, cell, sons).fn[x] =
            CellOut(cell, InputOf(ns, vs, 1, x), InputOf(ns, vs, 2, x),
                          InputOf(ns, vs, 3, x), InputOf(ns, vs, 4, x))
    <2>1. /\ sons \in Seq(Id) /\ ns \in Seq(Node) /\ vs \in Seq(Bit)
          /\ Len(ns) = Len(sons) /\ Len(vs) = Len(sons)
        BY <1>8
    <2>2. QED
        BY <1>6, <1>10, <2>1, CoverStateFacts
<1>12. Overflowed \/ \A x \in Assign : OnHeap(name, cell, sons).fn[x] = Flip(dag.fn[p][x], v)
    <2>1. SUFFICES ASSUME ~Overflowed, NEW x \in Assign
                   PROVE  OnHeap(name, cell, sons).fn[x] = Flip(dag.fn[p][x], v)
        OBVIOUS
    <2>2. OnHeap(name, cell, sons).fn[x]
            = CellOut(cell, Flip(dag.fn[a][x], i[1]), Flip(dag.fn[b][x], i[2]),
                            Flip(dag.fn[r][x], i[3]), 0)
        BY <1>9, <1>11, <2>1
    <2>3. QED
        BY <1>3, <1>5, <1>7, <2>2 DEF cell
<1>13. cell # "NONE"
    BY DEF cell
<1>14. QED
    BY <1>2, <1>11, <1>12, <1>13 DEF Candidate

\* A cover by AOI12 (transferState), where there is one, computes the gate.
LEMMA AOI12Facts ==
    ASSUME IInv, NEW p \in Node, Len(Src(p)) = 2,
           \A i \in DOMAIN Src(p) : Finished(Src(p)[i]), NEW v \in Bit
    PROVE  AOI12State(p, v) = NoState \/ Candidate(p, v, AOI12State(p, v))
<1> DEFINE l == Src(p)[1]
           r == Src(p)[2]
           invs == AOI12Inv(dag.gate[p], dag.gate[r], v)
           i == CHOOSE j \in invs : TRUE
           name == <<p, "AIO12">>
           cell == "AOI12"
           a == Src(r)[1]
           b == Src(r)[2]
           sons == <<dp[l][i[1]], dp[a][i[2]], dp[b][i[3]]>>
           ns == <<l, a, b>>
           vs == <<i[1], i[2], i[3]>>
<1>1. SUFFICES ASSUME Absorbable(r), invs # {} PROVE Candidate(p, v, AOI12State(p, v))
    BY DEF AOI12State
<1>2. AOI12State(p, v) = OnHeap(name, cell, sons)
    BY <1>1 DEF AOI12State
<1>3. /\ l \in Node /\ r \in Node /\ Finished(l) /\ Finished(r)
      /\ \A x \in Assign :
            /\ dag.fn[l][x] \in Bit
            /\ dag.fn[p][x] = GateOut(dag.gate[p], dag.fn[l][x], dag.fn[r][x])
    BY BinaryFacts
<1>4. i \in invs
    BY <1>1
<1>5. /\ i[1] \in Bit /\ i[2] \in Bit /\ i[3] \in Bit
      /\ \A s, t, u \in Bit :
            Flip(GateOut(dag.gate[p], s, GateOut(dag.gate[r], t, u)), v)
                = CellOut("AOI12", Flip(s, i[1]), Flip(t, i[2]), Flip(u, i[3]), 0)
    BY <1>4 DEF AOI12Inv
<1>6. name \in Vertex \X Tag /\ cell \in CellType
    BY DEF Vertex, Tag, CellType
<1> HIDE DEF l, r, i, name
<1>7. /\ a \in Node /\ b \in Node /\ Finished(a) /\ Finished(b)
      /\ \A x \in Assign :
            /\ dag.fn[a][x] \in Bit /\ dag.fn[b][x] \in Bit
            /\ dag.fn[r][x] = GateOut(dag.gate[r], dag.fn[a][x], dag.fn[b][x])
    BY <1>1, <1>3, AbsorbableFacts, BinaryFacts
<1> HIDE DEF a, b
<1>8. /\ sons \in Seq(Id) /\ ns \in Seq(Node) /\ vs \in Seq(Bit)
      /\ Len(sons) = 3 /\ Len(ns) = 3 /\ Len(vs) = 3
      /\ sons[1] = dp[l][i[1]] /\ sons[2] = dp[a][i[2]] /\ sons[3] = dp[b][i[3]]
      /\ ns[1] = l /\ ns[2] = a /\ ns[3] = b
      /\ vs[1] = i[1] /\ vs[2] = i[2] /\ vs[3] = i[3]
    <2>1. dp[l][i[1]] \in Id /\ dp[a][i[2]] \in Id /\ dp[b][i[3]] \in Id
        BY <1>3, <1>5, <1>7, FinishedStates
    <2>2. \A S : \A s, t, u \in S : /\ <<s, t, u>> \in Seq(S) /\ Len(<<s, t, u>>) = 3
                                    /\ <<s, t, u>>[1] = s /\ <<s, t, u>>[2] = t /\ <<s, t, u>>[3] = u
        OBVIOUS
    <2>3. QED
        BY <1>3, <1>5, <1>7, <2>1, <2>2
<1>9. \A x : /\ InputOf(ns, vs, 1, x) = Flip(dag.fn[l][x], i[1])
             /\ InputOf(ns, vs, 2, x) = Flip(dag.fn[a][x], i[2])
             /\ InputOf(ns, vs, 3, x) = Flip(dag.fn[b][x], i[3])
             /\ InputOf(ns, vs, 4, x) = 0
    <2> HIDE DEF ns, vs
    <2>1. QED
        BY <1>8 DEF InputOf
<1> HIDE DEF sons, ns, vs, cell
<1>10. \A m \in 1..Len(sons) : sons[m] = dp[ns[m]][vs[m]] /\ Finished(ns[m])
    <2>1. \A m \in 1..3 : m = 1 \/ m = 2 \/ m = 3
        OBVIOUS
    <2>2. QED
        BY <1>3, <1>7, <1>8, <2>1
<1>11. /\ OnHeap(name, cell, sons) \in DpState
       /\ OnHeap(name, cell, sons).cell = cell
       /\ \A m \in DOMAIN OnHeap(name, cell, sons).sons :
            LET son == OnHeap(name, cell, sons).sons[m]
            IN  son \in Id /\ heap[son].cell # "NONE" /\ Finished(son[1])
       /\ Overflowed \/ \A x \in Assign : OnHeap(name, cell, sons).fn[x] =
            CellOut(cell, InputOf(ns, vs, 1, x), InputOf(ns, vs, 2, x),
                          InputOf(ns, vs, 3, x), InputOf(ns, vs, 4, x))
    <2>1. /\ sons \in Seq(Id) /\ ns \in Seq(Node) /\ vs \in Seq(Bit)
          /\ Len(ns) = Len(sons) /\ Len(vs) = Len(sons)
        BY <1>8
    <2>2. QED
        BY <1>6, <1>10, <2>1, CoverStateFacts
<1>12. Overflowed \/ \A x \in Assign : OnHeap(name, cell, sons).fn[x] = Flip(dag.fn[p][x], v)
    <2>1. SUFFICES ASSUME ~Overflowed, NEW x \in Assign
                   PROVE  OnHeap(name, cell, sons).fn[x] = Flip(dag.fn[p][x], v)
        OBVIOUS
    <2>2. OnHeap(name, cell, sons).fn[x]
            = CellOut(cell, Flip(dag.fn[l][x], i[1]), Flip(dag.fn[a][x], i[2]),
                            Flip(dag.fn[b][x], i[3]), 0)
        BY <1>9, <1>11, <2>1
    <2>3. QED
        BY <1>3, <1>5, <1>7, <2>2 DEF cell
<1>13. cell # "NONE"
    BY DEF cell
<1>14. QED
    BY <1>2, <1>11, <1>12, <1>13 DEF Candidate

\* A cover by AOI22 (transferState), where there is one, computes the gate.
LEMMA AOI22Facts ==
    ASSUME IInv, NEW p \in Node, Len(Src(p)) = 2,
           \A i \in DOMAIN Src(p) : Finished(Src(p)[i]), NEW v \in Bit
    PROVE  AOI22State(p, v) = NoState \/ Candidate(p, v, AOI22State(p, v))
<1> DEFINE l == Src(p)[1]
           r == Src(p)[2]
           invs == AOI22Inv(dag.gate[p], dag.gate[l], dag.gate[r], v)
           i == CHOOSE j \in invs : TRUE
           name == <<p, "AOI22">>
           cell == "AOI22"
           a == Src(l)[1]
           b == Src(l)[2]
           c == Src(r)[1]
           d == Src(r)[2]
           sons == <<dp[a][i[1]], dp[b][i[2]], dp[c][i[3]], dp[d][i[4]]>>
           ns == <<a, b, c, d>>
           vs == <<i[1], i[2], i[3], i[4]>>
<1>1. SUFFICES ASSUME Absorbable(l), Absorbable(r), invs # {} PROVE Candidate(p, v, AOI22State(p, v))
    BY DEF AOI22State
<1>2. AOI22State(p, v) = OnHeap(name, cell, sons)
    BY <1>1 DEF AOI22State
<1>3. /\ l \in Node /\ r \in Node /\ Finished(l) /\ Finished(r)
      /\ \A x \in Assign :
            dag.fn[p][x] = GateOut(dag.gate[p], dag.fn[l][x], dag.fn[r][x])
    BY BinaryFacts
<1>4. i \in invs
    BY <1>1
<1>5. /\ i[1] \in Bit /\ i[2] \in Bit /\ i[3] \in Bit /\ i[4] \in Bit
      /\ \A s, t, u, w \in Bit :
            Flip(GateOut(dag.gate[p], GateOut(dag.gate[l], s, t), GateOut(dag.gate[r], u, w)), v)
                = CellOut("AOI22", Flip(s, i[1]), Flip(t, i[2]), Flip(u, i[3]), Flip(w, i[4]))
    BY <1>4 DEF AOI22Inv
<1>6. name \in Vertex \X Tag /\ cell \in CellType
    BY DEF Vertex, Tag, CellType
<1> HIDE DEF l, r, i, name
<1>7. /\ a \in Node /\ b \in Node /\ Finished(a) /\ Finished(b)
      /\ \A x \in Assign :
            /\ dag.fn[a][x] \in Bit /\ dag.fn[b][x] \in Bit
            /\ dag.fn[l][x] = GateOut(dag.gate[l], dag.fn[a][x], dag.fn[b][x])
    BY <1>1, <1>3, AbsorbableFacts, BinaryFacts
<1>8. /\ c \in Node /\ d \in Node /\ Finished(c) /\ Finished(d)
      /\ \A x \in Assign :
            /\ dag.fn[c][x] \in Bit /\ dag.fn[d][x] \in Bit
            /\ dag.fn[r][x] = GateOut(dag.gate[r], dag.fn[c][x], dag.fn[d][x])
    BY <1>1, <1>3, AbsorbableFacts, BinaryFacts
<1> HIDE DEF a, b, c, d
<1>9. /\ sons \in Seq(Id) /\ ns \in Seq(Node) /\ vs \in Seq(Bit)
      /\ Len(sons) = 4 /\ Len(ns) = 4 /\ Len(vs) = 4
      /\ sons[1] = dp[a][i[1]] /\ sons[2] = dp[b][i[2]] /\ sons[3] = dp[c][i[3]]
      /\ sons[4] = dp[d][i[4]]
      /\ ns[1] = a /\ ns[2] = b /\ ns[3] = c /\ ns[4] = d
      /\ vs[1] = i[1] /\ vs[2] = i[2] /\ vs[3] = i[3] /\ vs[4] = i[4]
    <2>1. dp[a][i[1]] \in Id /\ dp[b][i[2]] \in Id /\ dp[c][i[3]] \in Id /\ dp[d][i[4]] \in Id
        BY <1>3, <1>5, <1>7, <1>8, FinishedStates
    <2>2. \A S : \A s, t, u, w \in S :
            /\ <<s, t, u, w>> \in Seq(S) /\ Len(<<s, t, u, w>>) = 4
            /\ <<s, t, u, w>>[1] = s /\ <<s, t, u, w>>[2] = t
            /\ <<s, t, u, w>>[3] = u /\ <<s, t, u, w>>[4] = w
        OBVIOUS
    <2>3. QED
        BY <1>3, <1>5, <1>7, <1>8, <2>1, <2>2
<1>10. \A x : /\ InputOf(ns, vs, 1, x) = Flip(dag.fn[a][x], i[1])
             /\ InputOf(ns, vs, 2, x) = Flip(dag.fn[b][x], i[2])
             /\ InputOf(ns, vs, 3, x) = Flip(dag.fn[c][x], i[3])
             /\ InputOf(ns, vs, 4, x) = Flip(dag.fn[d][x], i[4])
    <2> HIDE DEF ns, vs
    <2>1. QED
        BY <1>9 DEF InputOf
<1> HIDE DEF sons, ns, vs, cell
<1>11. \A m \in 1..Len(sons) : sons[m] = dp[ns[m]][vs[m]] /\ Finished(ns[m])
    <2>1. \A m \in 1..4 : m = 1 \/ m = 2 \/ m = 3 \/ m = 4
        OBVIOUS
    <2>2. QED
        BY <1>3, <1>7, <1>8, <1>9, <2>1
<1>12. /\ OnHeap(name, cell, sons) \in DpState
       /\ OnHeap(name, cell, sons).cell = cell
       /\ \A m \in DOMAIN OnHeap(name, cell, sons).sons :
            LET son == OnHeap(name, cell, sons).sons[m]
            IN  son \in Id /\ heap[son].cell # "NONE" /\ Finished(son[1])
       /\ Overflowed \/ \A x \in Assign : OnHeap(name, cell, sons).fn[x] =
            CellOut(cell, InputOf(ns, vs, 1, x), InputOf(ns, vs, 2, x),
                          InputOf(ns, vs, 3, x), InputOf(ns, vs, 4, x))
    <2>1. /\ sons \in Seq(Id) /\ ns \in Seq(Node) /\ vs \in Seq(Bit)
          /\ Len(ns) = Len(sons) /\ Len(vs) = Len(sons)
        BY <1>9
    <2>2. QED
        BY <1>6, <1>11, <2>1, CoverStateFacts
<1>13. Overflowed \/ \A x \in Assign : OnHeap(name, cell, sons).fn[x] = Flip(dag.fn[p][x], v)
    <2>1. SUFFICES ASSUME ~Overflowed, NEW x \in Assign
                   PROVE  OnHeap(name, cell, sons).fn[x] = Flip(dag.fn[p][x], v)
        OBVIOUS
    <2>2. OnHeap(name, cell, sons).fn[x]
            = CellOut(cell, Flip(dag.fn[a][x], i[1]), Flip(dag.fn[b][x], i[2]),
                            Flip(dag.fn[c][x], i[3]), Flip(dag.fn[d][x], i[4]))
        BY <1>10, <1>12, <2>1
    <2>3. Flip(GateOut(dag.gate[p], GateOut(dag.gate[l], dag.fn[a][x], dag.fn[b][x]),
                                    GateOut(dag.gate[r], dag.fn[c][x], dag.fn[d][x])), v)
            = CellOut("AOI22", Flip(dag.fn[a][x], i[1]), Flip(dag.fn[b][x], i[2]),
                               Flip(dag.fn[c][x], i[3]), Flip(dag.fn[d][x], i[4]))
        <3>1. /\ dag.fn[a][x] \in Bit /\ dag.fn[b][x] \in Bit
              /\ dag.fn[c][x] \in Bit /\ dag.fn[d][x] \in Bit
            BY <1>7, <1>8
        <3> DEFINE wants(s, t, u, w) ==
                Flip(GateOut(dag.gate[p], GateOut(dag.gate[l], s, t), GateOut(dag.gate[r], u, w)), v)
                   drives(s, t, u, w) ==
                CellOut("AOI22", Flip(s, i[1]), Flip(t, i[2]), Flip(u, i[3]), Flip(w, i[4]))
        <3>2. \A s, t, u, w \in Bit : wants(s, t, u, w) = drives(s, t, u, w)
            BY <1>5
        <3> HIDE DEF wants, drives
        <3>3. wants(dag.fn[a][x], dag.fn[b][x], dag.fn[c][x], dag.fn[d][x])
                = drives(dag.fn[a][x], dag.fn[b][x], dag.fn[c][x], dag.fn[d][x])
            BY <3>1, <3>2
        <3>4. QED
            BY <3>3 DEF wants, drives
    <2>4. QED
        BY <1>3, <1>7, <1>8, <2>2, <2>3 DEF cell
<1>14. cell # "NONE"
    BY DEF cell
<1>15. QED
    BY <1>2, <1>12, <1>13, <1>14 DEF Candidate

-----------------------------------------------------------------------------
(* The best cover                                                          *)

\* A pass ends with one of its candidates, at no more than the largest cost.
LEMMA WinnerFacts ==
    ASSUME NEW c, NEW base \in Kind, \A k \in Kind : c[k].cost \in Int, c["dp"].cost = CostMax
    PROVE  /\ Winner(c, base) \in {"dp", base, "aoi21", "aoi12", "aoi22"}
           /\ c[Winner(c, base)].cost <= CostMax
<1>1. ASSUME NEW a \in Kind, NEW b \in Kind
      PROVE  /\ Release(c, a, b) \in {a, b} /\ Release(c, a, b) \in Kind
             /\ c[Release(c, a, b)].cost <= c[a].cost
    <2>1. c[a].cost \in Int /\ c[b].cost \in Int
        OBVIOUS
    <2>2. QED
        BY <2>1 DEF Release, Better
<1>2. "dp" \in Kind /\ "aoi21" \in Kind /\ "aoi12" \in Kind /\ "aoi22" \in Kind
    BY KindFacts
<1> DEFINE k1 == Release(c, "dp", base)
           k2 == Release(c, k1, "aoi21")
           k3 == Release(c, k2, "aoi12")
           k4 == Release(c, k3, "aoi22")
<1>3. k1 \in {"dp", base} /\ k1 \in Kind /\ c[k1].cost <= CostMax
    BY <1>1, <1>2
<1>4. k2 \in {k1, "aoi21"} /\ k2 \in Kind /\ c[k2].cost <= c[k1].cost
    <2> HIDE DEF k1
    <2>1. QED
        BY <1>1, <1>2, <1>3
<1>5. k3 \in {k2, "aoi12"} /\ k3 \in Kind /\ c[k3].cost <= c[k2].cost
    <2> HIDE DEF k2
    <2>1. QED
        BY <1>1, <1>2, <1>4
<1>6. k4 \in {k3, "aoi22"} /\ k4 \in Kind /\ c[k4].cost <= c[k3].cost
    <2> HIDE DEF k3
    <2>1. QED
        BY <1>1, <1>2, <1>5
<1>7. Winner(c, base) = k4
    BY DEF Winner
<1> HIDE DEF k1, k2, k3, k4
<1>8. c[k4].cost <= CostMax
    <2>1. /\ c[k1].cost \in Int /\ c[k2].cost \in Int /\ c[k3].cost \in Int /\ c[k4].cost \in Int
          /\ CostMax \in Int
        BY <1>3, <1>4, <1>5, <1>6, ConstantFacts
    <2>2. QED
        BY <1>3, <1>4, <1>5, <1>6, <2>1
<1>9. QED
    BY <1>3, <1>4, <1>5, <1>6, <1>7, <1>8

\* What pass v of transferState leaves at p's addresses.
LEMMA TransferFacts ==
    ASSUME IInv, NEW p \in Node, Running(p), Len(Src(p)) = 2,
           \A i \in DOMAIN Src(p) : Finished(Src(p)[i]), NEW v \in Bit
    PROVE  LET c == Transfer(p, v)
           IN  /\ c["dp"] = Placeholder
               /\ \A k \in Kind : c[k] \in DpState
               /\ \A k \in Kind \ {"t2"} : \A i \in DOMAIN c[k].sons :
                    /\ c[k].sons[i] \in Id
                    /\ heap[c[k].sons[i]].cell # "NONE" /\ Finished(c[k].sons[i][1])
               /\ c["t1"].cell # "NONE"
               /\ \A i \in DOMAIN c["t2"].sons : c["t2"].sons[i] = <<p, v, "t1">>
               /\ BaseKind(p, v) \in {"t1", "t2"}
               /\ \A k \in {BaseKind(p, v), "aoi21", "aoi12", "aoi22"} :
                    \/ c[k] = NoState
                    \/ /\ c[k].cell # "NONE"
                       /\ Overflowed \/ \A x \in Assign : c[k].fn[x] = Flip(dag.fn[p][x], v)
<1> DEFINE t1 == BaseState(p, v)
           t2 == IF Base(p, v).head = 0 THEN NoState
                 ELSE InvOf(<<p, "INV">>, <<p, v, "t1">>, t1)
           c == Transfer(p, v)
           head == Base(p, v).head
<1>1. /\ c["dp"] = heap[<<p, v, "dp">>] /\ c["t1"] = t1 /\ c["t2"] = t2
      /\ c["aoi21"] = AOI21State(p, v) /\ c["aoi12"] = AOI12State(p, v)
      /\ c["aoi22"] = AOI22State(p, v) /\ c["head"] = NoState
    BY DEF Transfer
<1>2. heap[<<p, v, "dp">>] = Placeholder
    BY PlaceholdersOfRunning
<1>3. /\ t1 \in DpState /\ t1.cell # "NONE"
      /\ \A i \in DOMAIN t1.sons :
            t1.sons[i] \in Id /\ heap[t1.sons[i]].cell # "NONE" /\ Finished(t1.sons[i][1])
      /\ head \in Bit
      /\ Overflowed \/ \A x \in Assign : Flip(t1.fn[x], head) = Flip(dag.fn[p][x], v)
    BY BaseFacts
<1>4. /\ t2 \in DpState
      /\ \A i \in DOMAIN t2.sons : t2.sons[i] = <<p, v, "t1">>
      /\ head = 1 => /\ t2.cell = "INV"
                     /\ \A x \in Assign : t2.fn[x] = Flip(t1.fn[x], 1)
    <2>1. CASE head = 0
        BY <2>1, PlaceholderType
    <2>2. CASE head = 1
        <3> DEFINE name == <<p, "INV">>
                   son == <<p, v, "t1">>
        <3>1. name \in Vertex \X Tag /\ son \in Id
            BY IdFacts, KindFacts DEF Vertex, Tag
        <3> HIDE DEF name, son, t1
        <3>2. /\ InvOf(name, son, t1) \in DpState
              /\ InvOf(name, son, t1).cell = "INV"
              /\ InvOf(name, son, t1).sons = <<son>>
              /\ \A x \in Assign : InvOf(name, son, t1).fn[x] = Flip(t1.fn[x], 1)
            BY <1>3, <3>1, InvOfFacts
        <3>3. t2 = InvOf(name, son, t1)
            BY <2>2 DEF name, son, t1
        <3>4. \A i \in DOMAIN <<son>> : <<son>>[i] = son
            OBVIOUS
        <3> HIDE DEF t2
        <3>5. QED
            BY <3>2, <3>3, <3>4 DEF son
    <2>3. QED
        BY <1>3, <2>1, <2>2, KindFacts
<1>5. \A k \in {"aoi21", "aoi12", "aoi22"} : c[k] = NoState \/ Candidate(p, v, c[k])
    BY <1>1, AOI21Facts, AOI12Facts, AOI22Facts
<1>6. BaseKind(p, v) = (IF head = 0 THEN "t1" ELSE "t2")
    BY DEF BaseKind
<1>7. \A x \in Assign : t1.fn[x] \in Bit
    BY <1>3 DEF DpState
<1> HIDE DEF t1, t2, c, head
<1>8. \A k \in Kind : c[k] \in DpState
    <2>1. \A k \in Kind : \/ k \in {"aoi21", "aoi12", "aoi22"}
                          \/ k = "dp" \/ k = "t1" \/ k = "t2" \/ k = "head"
        BY DEF Kind
    <2>2. \A k \in {"aoi21", "aoi12", "aoi22"} : c[k] \in DpState
        BY <1>5, PlaceholderType DEF Candidate
    <2>3. QED
        BY <1>1, <1>2, <1>3, <1>4, <2>1, <2>2, PlaceholderType
<1>9. \A k \in Kind \ {"t2"} : \A i \in DOMAIN c[k].sons :
        /\ c[k].sons[i] \in Id
        /\ heap[c[k].sons[i]].cell # "NONE" /\ Finished(c[k].sons[i][1])
    <2>1. \A k \in Kind \ {"t2"} : \/ k \in {"aoi21", "aoi12", "aoi22"}
                                   \/ k = "dp" \/ k = "t1" \/ k = "head"
        BY DEF Kind
    <2>2. TAKE k \in Kind \ {"t2"}
    <2>3. CASE k \in {"aoi21", "aoi12", "aoi22"}
        <3>1. CASE c[k] = NoState
            BY <3>1, PlaceholderType
        <3>2. CASE Candidate(p, v, c[k])
            BY <3>2 DEF Candidate
        <3>3. QED
            BY <1>5, <2>3, <3>1, <3>2
    <2>4. CASE k = "dp" \/ k = "head"
        BY <1>1, <1>2, <2>4, PlaceholderType
    <2>5. CASE k = "t1"
        BY <1>1, <1>3, <2>5
    <2>6. QED
        BY <2>1, <2>3, <2>4, <2>5
<1>10. \A k \in {BaseKind(p, v), "aoi21", "aoi12", "aoi22"} :
        \/ c[k] = NoState
        \/ /\ c[k].cell # "NONE"
           /\ Overflowed \/ \A x \in Assign : c[k].fn[x] = Flip(dag.fn[p][x], v)
    <2>1. \A k \in {"aoi21", "aoi12", "aoi22"} :
            \/ c[k] = NoState
            \/ /\ c[k].cell # "NONE"
               /\ Overflowed \/ \A x \in Assign : c[k].fn[x] = Flip(dag.fn[p][x], v)
        BY <1>5 DEF Candidate
    <2>2. CASE head = 0
        <3>1. BaseKind(p, v) = "t1" /\ \A x \in Assign : Flip(t1.fn[x], head) = t1.fn[x]
            BY <1>6, <1>7, <2>2, FlipFacts, KindFacts
        <3>2. QED
            BY <1>1, <1>3, <2>1, <3>1
    <2>3. CASE head = 1
        <3>1. BaseKind(p, v) = "t2" /\ t2.cell # "NONE"
            BY <1>4, <1>6, <2>3
        <3>2. Overflowed \/ \A x \in Assign : t2.fn[x] = Flip(dag.fn[p][x], v)
            BY <1>3, <1>4, <2>3
        <3>3. QED
            BY <1>1, <2>1, <3>1, <3>2
    <2>4. QED
        BY <1>3, <2>2, <2>3, KindFacts
<1>11. BaseKind(p, v) \in {"t1", "t2"}
    BY <1>6
<1>12. QED
    BY <1>1, <1>2, <1>3, <1>4, <1>8, <1>9, <1>10, <1>11 DEF c

\* The winner of a pass: its placeholder, or a state that drives what was asked for.
LEMMA PassFacts ==
    ASSUME IInv, NEW p \in Node, Running(p), Len(Src(p)) = 2,
           \A i \in DOMAIN Src(p) : Finished(Src(p)[i]), NEW v \in Bit
    PROVE  LET c == Transfer(p, v)
               k == Winner(c, BaseKind(p, v))
           IN  /\ k \in Kind \ {"head"} /\ c[k] \in DpState /\ c[k].cell # "NONE"
               /\ \/ k = "dp" /\ c[k] = Placeholder
                  \/ Overflowed
                  \/ \A x \in Assign : c[k].fn[x] = Flip(dag.fn[p][x], v)
<1> DEFINE c == Transfer(p, v)
           base == BaseKind(p, v)
           k == Winner(c, base)
<1>1. /\ c["dp"] = Placeholder
      /\ \A a \in Kind : c[a] \in DpState
      /\ base \in {"t1", "t2"}
      /\ \A a \in {base, "aoi21", "aoi12", "aoi22"} :
            \/ c[a] = NoState
            \/ /\ c[a].cell # "NONE"
               /\ Overflowed \/ \A x \in Assign : c[a].fn[x] = Flip(dag.fn[p][x], v)
    BY TransferFacts
<1> HIDE DEF c, base
<1>2. \A a \in Kind : c[a].cost \in Int
    <2>1. \A st \in DpState : st.cost \in Int
        BY DEF DpState
    <2>2. QED
        BY <1>1, <2>1
<1>3. base \in Kind /\ c["dp"].cost = CostMax
    BY <1>1, PlaceholderType, KindFacts
<1>4. k \in {"dp", base, "aoi21", "aoi12", "aoi22"} /\ c[k].cost <= CostMax
    BY <1>2, <1>3, WinnerFacts
<1> HIDE DEF k
<1>5. k \in Kind \ {"head"}
    BY <1>1, <1>4, KindFacts
<1>6. c[k] # NoState
    BY <1>4, PlaceholderType, ConstantFacts
<1>7. \/ k = "dp" /\ c[k] = Placeholder
      \/ k \in {base, "aoi21", "aoi12", "aoi22"}
    BY <1>1, <1>4
<1>8. QED
    BY <1>1, <1>5, <1>6, <1>7, PlaceholderType DEF k, c, base

\* Returning from the call on a two-input gate preserves the invariant.
LEMMA FinishBinaryPreserves ==
    ASSUME IInv, NEW p \in Vertex, FinishBinary(p)
    PROVE  IInv'
<1> DEFINE c == Transfer(p, 0)
           d == Transfer(p, 1)
           k == Winner(c, BaseKind(p, 0))
           l == Winner(d, BaseKind(p, 1))
           name3 == <<p, "HEAD_INV">>
           name4 == <<p, "virtually_inverse_HEAD_INV">>
           t3 == InvOf(name3, <<p, 1, l>>, d[l])
           t4 == InvOf(name4, <<p, 0, k>>, c[k])
           head3 == <<p, 0, "head">>
           head4 == <<p, 1, "head">>
<1>1. /\ p \in Node /\ Running(p) /\ stack' = Front(stack) /\ dag' = dag /\ TypeOK /\ WellFormed(dag)
      /\ Len(Src(p)) = 2 /\ p # Model /\ \A i \in DOMAIN Src(p) : Defined(Src(p)[i])
    BY DEF FinishBinary, Ready, Vertex, IInv, TypeOK
<1>2. heap' = [id \in Id |->
            CASE id[1] # p -> heap[id]
              [] id = head3 -> t3
              [] id = head4 -> t4
              [] OTHER -> IF id[2] = 0 THEN c[id[3]] ELSE d[id[3]]]
    BY DEF FinishBinary
<1>3. dp' = [dp EXCEPT ![p] = [v \in Bit |->
            IF v = 1 THEN head4 ELSE IF Better(t3, c[k]) THEN head3 ELSE <<p, 0, k>>]]
    BY DEF FinishBinary
<1>4. \A i \in DOMAIN Src(p) : Finished(Src(p)[i])
    BY <1>1, RunningFacts
<1>5. /\ \A a \in Kind : c[a] \in DpState /\ d[a] \in DpState
      /\ \A a \in Kind \ {"t2"} :
            /\ \A i \in DOMAIN c[a].sons : /\ c[a].sons[i] \in Id
                    /\ heap[c[a].sons[i]].cell # "NONE" /\ Finished(c[a].sons[i][1])
            /\ \A i \in DOMAIN d[a].sons : /\ d[a].sons[i] \in Id
                    /\ heap[d[a].sons[i]].cell # "NONE" /\ Finished(d[a].sons[i][1])
      /\ c["t1"].cell # "NONE" /\ d["t1"].cell # "NONE"
      /\ \A i \in DOMAIN c["t2"].sons : c["t2"].sons[i] = <<p, 0, "t1">>
      /\ \A i \in DOMAIN d["t2"].sons : d["t2"].sons[i] = <<p, 1, "t1">>
    BY <1>1, <1>4, TransferFacts, KindFacts
<1>6. /\ k \in Kind \ {"head"} /\ c[k] \in DpState /\ c[k].cell # "NONE"
      /\ \/ k = "dp" /\ c[k] = Placeholder
         \/ Overflowed
         \/ \A x \in Assign : c[k].fn[x] = Flip(dag.fn[p][x], 0)
    BY <1>1, <1>4, PassFacts, KindFacts
<1>7. /\ l \in Kind \ {"head"} /\ d[l] \in DpState /\ d[l].cell # "NONE"
      /\ \/ l = "dp" /\ d[l] = Placeholder
         \/ Overflowed
         \/ \A x \in Assign : d[l].fn[x] = Flip(dag.fn[p][x], 1)
    BY <1>1, <1>4, PassFacts, KindFacts
<1> HIDE DEF c, d, k, l
<1>8. name3 \in Vertex \X Tag /\ name4 \in Vertex \X Tag
    BY DEF Tag
<1> HIDE DEF name3, name4
<1>9. <<p, 1, l>> \in Id /\ <<p, 0, k>> \in Id /\ head3 \in Id /\ head4 \in Id
    BY <1>6, <1>7, IdFacts, KindFacts
<1>10. /\ t3 \in DpState /\ t3.cell = "INV" /\ t3.sons = << <<p, 1, l>> >>
       /\ \A x \in Assign : t3.fn[x] = Flip(d[l].fn[x], 1)
    <2> DEFINE son == <<p, 1, l>>
    <2>1. son \in Id
        BY <1>9
    <2> HIDE DEF son
    <2>2. /\ InvOf(name3, son, d[l]) \in DpState
          /\ InvOf(name3, son, d[l]).cell = "INV"
          /\ InvOf(name3, son, d[l]).sons = <<son>>
          /\ \A x \in Assign : InvOf(name3, son, d[l]).fn[x] = Flip(d[l].fn[x], 1)
        BY <1>7, <1>8, <2>1, InvOfFacts
    <2>3. QED
        BY <2>2 DEF son
<1>11. /\ t4 \in DpState /\ t4.cell = "INV" /\ t4.sons = << <<p, 0, k>> >>
       /\ \A x \in Assign : t4.fn[x] = Flip(c[k].fn[x], 1)
    <2> DEFINE son == <<p, 0, k>>
    <2>1. son \in Id
        BY <1>9
    <2> HIDE DEF son
    <2>2. /\ InvOf(name4, son, c[k]) \in DpState
          /\ InvOf(name4, son, c[k]).cell = "INV"
          /\ InvOf(name4, son, c[k]).sons = <<son>>
          /\ \A x \in Assign : InvOf(name4, son, c[k]).fn[x] = Flip(c[k].fn[x], 1)
        BY <1>6, <1>8, <2>1, InvOfFacts
    <2>3. QED
        BY <2>2 DEF son
<1> HIDE DEF t3, t4
\* The heap after the step, address by address.
<1>12. /\ DOMAIN heap' = Id
       /\ \A id \in Id : id[1] # p => heap'[id] = heap[id]
       /\ heap'[head3] = t3 /\ heap'[head4] = t4
       /\ \A a \in Kind \ {"head"} : heap'[<<p, 0, a>>] = c[a] /\ heap'[<<p, 1, a>>] = d[a]
    <2>1. DOMAIN heap' = Id /\ \A id \in Id : id[1] # p => heap'[id] = heap[id]
        BY <1>2
    <2>2. /\ head3[1] = p /\ head4[1] = p /\ head4 # head3
        OBVIOUS
    <2>3. heap'[head3] = t3 /\ heap'[head4] = t4
        BY <1>2, <1>9, <2>2
    <2>4. ASSUME NEW a \in Kind \ {"head"}
          PROVE  heap'[<<p, 0, a>>] = c[a] /\ heap'[<<p, 1, a>>] = d[a]
        <3>1. <<p, 0, a>> \in Id /\ <<p, 1, a>> \in Id
            BY IdFacts, KindFacts
        <3>2. /\ <<p, 0, a>>[1] = p /\ <<p, 0, a>>[2] = 0 /\ <<p, 0, a>>[3] = a
              /\ <<p, 1, a>>[1] = p /\ <<p, 1, a>>[2] = 1 /\ <<p, 1, a>>[3] = a
              /\ <<p, 0, a>> # head3 /\ <<p, 0, a>> # head4
              /\ <<p, 1, a>> # head3 /\ <<p, 1, a>> # head4
            OBVIOUS
        <3>3. QED
            BY <1>2, <3>1, <3>2
    <2>5. QED
        BY <2>1, <2>3, <2>4
<1>13. \A id \in Id : id[1] = p =>
        \/ id = head3 \/ id = head4
        \/ \E a \in Kind \ {"head"} : id = <<p, 0, a>> \/ id = <<p, 1, a>>
    <2>1. SUFFICES ASSUME NEW id \in Id, id[1] = p
                   PROVE  \/ id = head3 \/ id = head4
                          \/ \E a \in Kind \ {"head"} : id = <<p, 0, a>> \/ id = <<p, 1, a>>
        OBVIOUS
    <2>2. id = <<p, id[2], id[3]>> /\ (id[2] = 0 \/ id[2] = 1) /\ id[3] \in Kind
        BY <2>1, IdFacts, KindFacts
    <2>3. CASE id[3] = "head"
        BY <2>2, <2>3
    <2>4. CASE id[3] # "head"
        BY <2>2, <2>4
    <2>5. QED
        BY <2>3, <2>4
<1>14. /\ dp' \in [Vertex -> [Bit -> Id \cup {Null}]]
       /\ \A n \in Vertex : n # p => dp'[n] = dp[n]
       /\ dp'[p][1] = head4 /\ (dp'[p][0] = head3 \/ dp'[p][0] = <<p, 0, k>>)
    <2> HIDE DEF head3, head4
    <2>1. dp \in [Vertex -> [Bit -> Id \cup {Null}]]
        BY <1>1 DEF TypeOK
    <2>2. QED
        BY <1>3, <1>9, <2>1, KindFacts
<1>15. \A v \in Bit : /\ dp'[p][v] \in Id /\ dp'[p][v][1] = p
                      /\ heap'[dp'[p][v]].cell # "NONE"
    <2>1. dp'[p][1] = head4 /\ heap'[head4].cell # "NONE" /\ head4[1] = p
        BY <1>11, <1>12, <1>14
    <2>2. dp'[p][0] \in Id /\ dp'[p][0][1] = p /\ heap'[dp'[p][0]].cell # "NONE"
        <3>1. CASE dp'[p][0] = head3
            <4>1. heap'[head3] = t3 /\ head3[1] = p
                BY <1>12
            <4>2. t3.cell # "NONE" /\ head3 \in Id
                BY <1>9, <1>10
            <4> HIDE DEF head3
            <4>3. QED
                BY <3>1, <4>1, <4>2
        <3>2. CASE dp'[p][0] = <<p, 0, k>>
            <4>1. heap'[<<p, 0, k>>] = c[k] /\ <<p, 0, k>>[1] = p
                BY <1>6, <1>12
            <4>2. QED
                BY <1>6, <1>9, <3>2, <4>1
        <3>3. QED
            BY <1>14, <3>1, <3>2
    <2>3. QED
        BY <1>9, <2>1, <2>2, KindFacts
<1>16. ~Finished(p)
    BY <1>1, RunningFacts
<1>17. \A id \in Id : id[1] = p =>
        /\ heap'[id] \in DpState
        /\ \A i \in DOMAIN heap'[id].sons :
            /\ heap'[heap'[id].sons[i]].cell # "NONE"
            /\ heap'[id].sons[i][1] = p \/ Finished(heap'[id].sons[i][1])
    <2>1. TAKE id \in Id
    <2>2. HAVE id[1] = p
    <2>3. CASE id = head3
        <3>1. \A i \in DOMAIN t3.sons : t3.sons[i] = <<p, 1, l>>
            BY <1>10
        <3>2. heap'[<<p, 1, l>>].cell # "NONE" /\ <<p, 1, l>>[1] = p
            BY <1>7, <1>12
        <3>3. QED
            BY <1>10, <1>12, <2>3, <3>1, <3>2
    <2>4. CASE id = head4
        <3>1. \A i \in DOMAIN t4.sons : t4.sons[i] = <<p, 0, k>>
            BY <1>11
        <3>2. heap'[<<p, 0, k>>].cell # "NONE" /\ <<p, 0, k>>[1] = p
            BY <1>6, <1>12
        <3>3. QED
            BY <1>11, <1>12, <2>4, <3>1, <3>2
    <2>5. ASSUME NEW a \in Kind \ {"head"}, id = <<p, 0, a>>
          PROVE  /\ heap'[id] \in DpState
                 /\ \A i \in DOMAIN heap'[id].sons :
                     /\ heap'[heap'[id].sons[i]].cell # "NONE"
                     /\ heap'[id].sons[i][1] = p \/ Finished(heap'[id].sons[i][1])
        <3>1. heap'[id] = c[a] /\ c[a] \in DpState
            BY <1>5, <1>12, <2>5
        <3>2. CASE a = "t2"
            <4>1. heap'[<<p, 0, "t1">>].cell # "NONE" /\ <<p, 0, "t1">>[1] = p
                BY <1>5, <1>12, KindFacts
            <4>2. QED
                BY <1>5, <3>1, <3>2, <4>1
        <3>3. CASE a # "t2"
            <4>1. \A i \in DOMAIN c[a].sons : /\ c[a].sons[i] \in Id
                    /\ heap[c[a].sons[i]].cell # "NONE" /\ Finished(c[a].sons[i][1])
                BY <1>5, <3>3
            <4>2. \A i \in DOMAIN c[a].sons : heap'[c[a].sons[i]] = heap[c[a].sons[i]]
                BY <1>12, <1>16, <4>1
            <4>3. QED
                BY <3>1, <4>1, <4>2
        <3>4. QED
            BY <3>2, <3>3
    <2>6. ASSUME NEW a \in Kind \ {"head"}, id = <<p, 1, a>>
          PROVE  /\ heap'[id] \in DpState
                 /\ \A i \in DOMAIN heap'[id].sons :
                     /\ heap'[heap'[id].sons[i]].cell # "NONE"
                     /\ heap'[id].sons[i][1] = p \/ Finished(heap'[id].sons[i][1])
        <3>1. heap'[id] = d[a] /\ d[a] \in DpState
            BY <1>5, <1>12, <2>6
        <3>2. CASE a = "t2"
            <4>1. heap'[<<p, 1, "t1">>].cell # "NONE" /\ <<p, 1, "t1">>[1] = p
                BY <1>5, <1>12, KindFacts
            <4>2. QED
                BY <1>5, <3>1, <3>2, <4>1
        <3>3. CASE a # "t2"
            <4>1. \A i \in DOMAIN d[a].sons : /\ d[a].sons[i] \in Id
                    /\ heap[d[a].sons[i]].cell # "NONE" /\ Finished(d[a].sons[i][1])
                BY <1>5, <3>3
            <4>2. \A i \in DOMAIN d[a].sons : heap'[d[a].sons[i]] = heap[d[a].sons[i]]
                BY <1>12, <1>16, <4>1
            <4>3. QED
                BY <3>1, <4>1, <4>2
        <3>4. QED
            BY <3>2, <3>3
    <2>7. QED
        BY <1>13, <2>2, <2>3, <2>4, <2>5, <2>6
\* An INV on a placeholder is what Overflowed speaks of.
<1>18. k = "dp" \/ l = "dp" => Overflowed'
    <2>1. ASSUME NEW id \in Id, id[1] = p, NEW son \in Id,
                 heap'[id].sons = <<son>>, heap'[son] = Placeholder
          PROVE  Overflowed'
        <3>1. 1 \in DOMAIN heap'[id].sons /\ heap'[id].sons[1] = son
            BY <2>1
        <3>2. heap'[heap'[id].sons[1]].cell = "UNDEFINED" /\ ~heap'[heap'[id].sons[1]].leaf
            BY <2>1, <3>1, PlaceholderType
        <3>3. QED
            BY <1>1, <2>1, <3>1, <3>2 DEF Overflowed
    <2>2. CASE k = "dp"
        <3>1. c[k] = Placeholder
            BY <1>5, <1>6, <2>2, TransferFacts, <1>1, <1>4, KindFacts DEF c
        <3>2. heap'[<<p, 0, k>>] = Placeholder /\ heap'[head4].sons = << <<p, 0, k>> >>
            BY <1>6, <1>11, <1>12, <3>1
        <3>3. QED
            BY <1>9, <2>1, <3>2
    <2>3. CASE l = "dp"
        <3>1. d[l] = Placeholder
            BY <1>5, <1>7, <2>3, TransferFacts, <1>1, <1>4, KindFacts DEF d
        <3>2. heap'[<<p, 1, l>>] = Placeholder /\ heap'[head3].sons = << <<p, 1, l>> >>
            BY <1>7, <1>10, <1>12, <3>1
        <3>3. QED
            BY <1>9, <2>1, <3>2
    <2>4. QED
        BY <2>2, <2>3
<1>19. \/ Overflowed \/ Overflowed'
       \/ \A v \in Bit, x \in Assign : heap'[dp'[p][v]].fn[x] = Flip(dag.fn[p][x], v)
    <2>1. SUFFICES ASSUME ~Overflowed, k # "dp", l # "dp", NEW x \in Assign
                   PROVE  /\ heap'[dp'[p][0]].fn[x] = Flip(dag.fn[p][x], 0)
                          /\ heap'[dp'[p][1]].fn[x] = Flip(dag.fn[p][x], 1)
        BY <1>18, KindFacts
    <2>2. dag.fn[p][x] \in Bit
        BY <1>1, NetlistFacts
    <2>3. c[k].fn[x] = Flip(dag.fn[p][x], 0) /\ d[l].fn[x] = Flip(dag.fn[p][x], 1)
        BY <1>6, <1>7, <2>1
    <2>4. Flip(dag.fn[p][x], 0) = dag.fn[p][x] /\ Flip(Flip(dag.fn[p][x], 1), 1) = dag.fn[p][x]
        BY <2>2, FlipFacts, KindFacts
    <2>5. heap'[dp'[p][1]].fn[x] = Flip(dag.fn[p][x], 1)
        BY <1>11, <1>12, <1>14, <2>3, <2>4
    <2>6. heap'[<<p, 0, k>>] = c[k]
        BY <1>6, <1>12
    <2>7. heap'[dp'[p][0]].fn[x] = Flip(dag.fn[p][x], 0)
        BY <1>10, <1>12, <1>14, <2>3, <2>4, <2>6
    <2>8. QED
        BY <2>5, <2>7
<1>20. QED
    BY <1>1, <1>12, <1>14, <1>15, <1>17, <1>19, FinishPreserves

\* A state with another name is the same state otherwise.
LEMMA RenameFacts ==
    ASSUME NEW st \in DpState, NEW name \in Vertex \X Tag
    PROVE  LET new == [st EXCEPT !.name = name]
           IN  /\ new \in DpState /\ new.cell = st.cell /\ new.leaf = st.leaf
               /\ new.sons = st.sons /\ new.fn = st.fn
BY DEF DpState

\* The end of the model's call, which renames the outputs, preserves the invariant.
LEMMA FinishModelPreserves ==
    ASSUME IInv, FinishModel
    PROVE  IInv'
<1> DEFINE refs == [i \in DOMAIN Src(Model) |-> dp[Src(Model)[i]][0]]
           total == heap'[Ori(Model)]
<1>1. /\ Running(Model) /\ stack' = Front(stack) /\ dag' = dag /\ dp' = dp
      /\ TypeOK /\ WellFormed(dag) /\ Model \in Vertex /\ Model \notin Node
      /\ \A i \in DOMAIN Src(Model) : Defined(Src(Model)[i])
    BY ConstantFacts DEF FinishModel, Ready, Vertex, IInv, TypeOK
<1>2. \A i \in DOMAIN Src(Model) : Src(Model)[i] \in Node /\ Finished(Src(Model)[i])
    BY <1>1, NetlistFacts, RunningFacts
<1>3. refs \in Seq(Id) /\ DOMAIN refs = DOMAIN Src(Model)
    <2>1. \A i \in DOMAIN Src(Model) : refs[i] \in Id
        BY <1>2, FinishedStates, KindFacts
    <2>2. Src(Model) \in Seq(Node)
        BY <1>1, NetlistFacts
    <2>3. Len(Src(Model)) \in Nat /\ DOMAIN Src(Model) = 1..Len(Src(Model))
        BY <2>2
    <2>4. QED
        BY <2>1, <2>3
<1>4. \A i \in DOMAIN refs : /\ refs[i] \in Id /\ refs[i][1] \in Node /\ Finished(refs[i][1])
                             /\ heap[refs[i]] \in DpState /\ heap[refs[i]].cell # "NONE"
    BY <1>2, <1>3, FinishedStates, KindFacts
<1>5. \A id \in Range(refs) : id \in Id /\ id[1] \in Node /\ Finished(id[1]) /\ heap[id] \in DpState
    BY <1>4 DEF Range
<1>6. /\ DOMAIN heap' = Id /\ Ori(Model) \in Id /\ Ori(Model)[1] = Model
      /\ total.sons = refs /\ total.cell = "UNDEFINED"
      /\ \A id \in Id : id # Ori(Model) =>
            heap'[id] = IF id \in Range(refs) THEN [heap[id] EXCEPT !.name = <<id[1], "">>]
                        ELSE heap[id]
    <2>1. Ori(Model) \in Id /\ Ori(Model)[1] = Model
        BY <1>1, IdFacts, KindFacts DEF Ori
    <2>2. QED
        BY <2>1 DEF FinishModel
<1>7. \A n \in Vertex : <<n, "">> \in Vertex \X Tag
    BY DEF Tag
<1> HIDE DEF refs, total
\* Every state but the model's own keeps everything except perhaps its name.
<1>8. ASSUME NEW id \in Id, id # Ori(Model)
      PROVE  /\ heap'[id].cell = heap[id].cell /\ heap'[id].leaf = heap[id].leaf
             /\ heap'[id].sons = heap[id].sons /\ heap'[id].fn = heap[id].fn
             /\ id[1] # Model => heap'[id] \in DpState
             /\ id[1] = Model \/ ~Finished(id[1]) => heap'[id] = heap[id]
    <2>1. CASE id \in Range(refs)
        <3>1. /\ heap[id] \in DpState /\ id[1] \in Vertex /\ id[1] # Model /\ Finished(id[1])
              /\ heap'[id] = [heap[id] EXCEPT !.name = <<id[1], "">>]
            BY <1>1, <1>5, <1>6, <1>8, <2>1 DEF Vertex
        <3> DEFINE name == <<id[1], "">>
        <3>2. name \in Vertex \X Tag
            BY <1>7, <3>1
        <3> HIDE DEF name
        <3>3. /\ [heap[id] EXCEPT !.name = name] \in DpState
              /\ [heap[id] EXCEPT !.name = name].cell = heap[id].cell
              /\ [heap[id] EXCEPT !.name = name].leaf = heap[id].leaf
              /\ [heap[id] EXCEPT !.name = name].sons = heap[id].sons
              /\ [heap[id] EXCEPT !.name = name].fn = heap[id].fn
            BY <3>1, <3>2, RenameFacts
        <3>4. QED
            BY <3>1, <3>3 DEF name
    <2>2. CASE id \notin Range(refs)
        <3>1. heap'[id] = heap[id]
            BY <1>6, <1>8, <2>2
        <3>2. id[1] # Model => heap[id] \in DpState
            BY <1>1 DEF TypeOK
        <3>3. QED
            BY <3>1, <3>2
    <2>3. QED
        BY <2>1, <2>2
<1>9. /\ stack' \in Seq(Vertex) /\ StackDescends'
      /\ \A n \in Vertex : Defined(n)' <=> Defined(n)
      /\ \A n \in Vertex : Finished(n)' <=> Finished(n) \/ n = Model
    <2>3. dp[Model][0] = Ori(Model)
        BY <1>1 DEF TypeOK
    <2>1. dp'[Model][0] # Null
        BY <1>1, <1>6, <2>3, ConstantFacts
    <2>2. QED
        BY <1>1, <2>1, ReturnFacts
<1>10. \A n \in Vertex : (dp'[n][0] # Null /\ n \notin Range(stack')) <=> Finished(n) \/ n = Model
    BY <1>9 DEF Finished, Defined
<1>11. ~Finished(Model)
    BY <1>1, RunningFacts
<1>12. TypeOK'
    <2>1. WellFormed(dag)'
        BY <1>1, SameNetlist
    <2>2. \A id \in Id : IF id[1] = Model THEN heap'[id].sons \in Seq(Id) ELSE heap'[id] \in DpState
        <3>1. TAKE id \in Id
        <3>2. CASE id = Ori(Model)
            BY <1>3, <1>6, <3>2 DEF total
        <3>3. CASE id # Ori(Model)
            <4>1. id[1] = Model => heap[id].sons \in Seq(Id)
                BY <1>1 DEF TypeOK
            <4>2. QED
                BY <1>8, <3>3, <4>1
        <3>4. QED
            BY <3>2, <3>3
    <2>3. dp'[Model][0] = Ori(Model) /\ dp' \in [Vertex -> [Bit -> Id \cup {Null}]]
        BY <1>1 DEF TypeOK
    <2>4. ASSUME NEW n \in Node, NEW v \in Bit, Defined(n)'
          PROVE  dp'[n][v] \in Id /\ dp'[n][v][1] = n /\ heap'[dp'[n][v]].cell # "NONE"
        <3>1. Defined(n) /\ n # Model
            BY <1>1, <1>9, <2>4 DEF Vertex
        <3>2. dp[n][v] \in Id /\ dp[n][v][1] = n /\ heap[dp[n][v]].cell # "NONE"
            BY <1>1, <3>1 DEF TypeOK
        <3>3. dp[n][v] # Ori(Model)
            BY <1>6, <3>1, <3>2
        <3>4. heap'[dp[n][v]].cell = heap[dp[n][v]].cell
            BY <1>8, <3>2, <3>3
        <3>5. QED
            BY <1>1, <3>2, <3>4
    <2>5. QED
        BY <1>6, <1>9, <2>1, <2>2, <2>3, <2>4 DEF TypeOK, Ori
<1>13. Untouched'
    <2>1. SUFFICES ASSUME NEW n \in Node, ~Finished(n)', NEW v \in Bit, NEW k \in Kind
                   PROVE  /\ Defined(n)' => dp'[n][v] = <<n, v, "dp">>
                          /\ heap'[<<n, v, k>>] =
                                IF Defined(n)' /\ k = "dp" THEN Placeholder ELSE NoState
        BY DEF Untouched, Placeholder, NoState
    <2>2. /\ n \in Vertex /\ n # Model /\ ~Finished(n)
          /\ <<n, v, k>> \in Id /\ <<n, v, k>>[1] = n
        BY <1>1, <1>9, <2>1, IdFacts DEF Vertex
    <2>3. heap'[<<n, v, k>>] = heap[<<n, v, k>>] /\ (Defined(n)' <=> Defined(n))
        BY <1>6, <1>8, <1>9, <2>2
    <2>4. QED
        BY <1>1, <2>2, <2>3 DEF IInv, Untouched
<1>14. SourcesFinished'
    <2>1. SUFFICES ASSUME NEW n \in Vertex, Finished(n)', NEW i \in DOMAIN Src(n)
                   PROVE  dp'[Src(n)[i]][0] # Null /\ Src(n)[i] \notin Range(stack')
        BY <1>1 DEF SourcesFinished, Src, Finished, Defined
    <2>2. Src(n)[i] \in Vertex
        BY <1>1, NetlistFacts
    <2>3. Finished(Src(n)[i])
        BY <1>2, <1>9, <2>1 DEF IInv, SourcesFinished
    <2>4. QED
        BY <1>10, <2>2, <2>3
<1>15. \A id \in Id : heap[id].cell # "NONE" => heap'[id].cell # "NONE"
    <2>1. TAKE id \in Id
    <2>2. CASE id = Ori(Model)
        BY <1>6, <2>2 DEF total
    <2>3. CASE id # Ori(Model)
        BY <1>8, <2>3
    <2>4. QED
        BY <2>2, <2>3
<1>16. NoHalfBuiltSons'
    <2>1. SUFFICES ASSUME NEW id \in Id, NEW i \in DOMAIN heap'[id].sons
                   PROVE  /\ heap'[heap'[id].sons[i]].cell # "NONE"
                          /\ \/ heap'[id].sons[i][1] = id[1]
                             \/ /\ dp'[heap'[id].sons[i][1]][0] # Null
                                /\ heap'[id].sons[i][1] \notin Range(stack')
        BY DEF NoHalfBuiltSons, Finished, Defined
    <2> DEFINE son == heap'[id].sons[i]
    <2>2. son \in Id /\ heap[son].cell # "NONE" /\ (son[1] = id[1] \/ Finished(son[1]))
        <3>1. CASE id = Ori(Model)
            <4>1. son = refs[i] /\ i \in DOMAIN refs
                BY <1>6, <2>1, <3>1 DEF total
            <4>2. QED
                BY <1>4, <4>1
        <3>2. CASE id # Ori(Model)
            <4>1. son = heap[id].sons[i] /\ i \in DOMAIN heap[id].sons
                BY <1>8, <2>1, <3>2
            <4>2. heap[id].sons \in Seq(Id)
                BY <1>1 DEF TypeOK, DpState
            <4>3. QED
                BY <4>1, <4>2 DEF IInv, NoHalfBuiltSons
        <3>3. QED
            BY <3>1, <3>2
    <2>3. son[1] \in Vertex
        BY <2>2, IdFacts
    <2>4. QED
        BY <1>10, <1>15, <2>2, <2>3
<1>17. Overflowed => Overflowed'
    <2>1. SUFFICES ASSUME NEW id \in Id, id[1] # Model, NEW i \in DOMAIN heap[id].sons,
                          heap[heap[id].sons[i]].cell = "UNDEFINED", ~heap[heap[id].sons[i]].leaf
                   PROVE  Overflowed'
        BY DEF Overflowed
    <2> DEFINE son == heap[id].sons[i]
    <2>2. son \in Id
        <3>1. heap[id].sons \in Seq(Id)
            BY <1>1, <2>1 DEF TypeOK, DpState
        <3>2. QED
            BY <3>1
    <2>3. son[1] = id[1] \/ Finished(son[1])
        BY DEF IInv, NoHalfBuiltSons
    <2>4. id # Ori(Model) /\ son # Ori(Model)
        BY <1>6, <1>11, <2>1, <2>3
    <2>5. heap'[id].sons = heap[id].sons /\ heap'[son].cell = "UNDEFINED" /\ ~heap'[son].leaf
        BY <1>8, <2>1, <2>2, <2>4
    <2>6. QED
        BY <2>1, <2>5 DEF Overflowed
<1>18. EquivalentStates'
    <2>1. SUFFICES ASSUME ~Overflowed', NEW n \in Node, Finished(n)', NEW v \in Bit, NEW x \in Assign
                   PROVE  heap'[dp'[n][v]].fn[x] = Flip(dag.fn[n][x], v)
        BY <1>1 DEF EquivalentStates
    <2>2. n \in Vertex /\ n # Model /\ Finished(n) /\ Defined(n)
        BY <1>1, <1>9, <2>1 DEF Vertex, Finished
    <2>3. dp[n][v] \in Id /\ dp[n][v] # Ori(Model)
        BY <1>1, <1>6, <2>2 DEF TypeOK
    <2>4. heap[dp[n][v]].fn[x] = Flip(dag.fn[n][x], v)
        BY <1>17, <2>1, <2>2 DEF IInv, EquivalentStates
    <2>5. QED
        BY <1>1, <1>8, <2>3, <2>4
<1>19. QED
    BY <1>9, <1>12, <1>13, <1>14, <1>16, <1>18 DEF IInv

-----------------------------------------------------------------------------
(* The theorems                                                            *)

\* A step that changes nothing preserves the invariant.
LEMMA StutterPreserves == IInv /\ UNCHANGED vars => IInv'
<1> SUFFICES ASSUME IInv, UNCHANGED vars PROVE IInv'
    OBVIOUS
<1>1. dag' = dag /\ stack' = stack /\ dp' = dp /\ heap' = heap
    BY DEF vars
<1>2. TypeOK'
    BY <1>1 DEF IInv, TypeOK, WellFormed, Defined, Ori, Vertex
<1>3. StackDescends'
    BY <1>1 DEF IInv, StackDescends, Defined
<1>4. Untouched'
    BY <1>1 DEF IInv, Untouched, Defined, Finished, Placeholder, NoState
<1>5. SourcesFinished'
    BY <1>1 DEF IInv, SourcesFinished, Defined, Finished, Src
<1>6. NoHalfBuiltSons'
    BY <1>1 DEF IInv, NoHalfBuiltSons, Defined, Finished
<1>7. EquivalentStates'
    BY <1>1 DEF IInv, EquivalentStates, Overflowed, Defined, Finished
<1>8. QED
    BY <1>2, <1>3, <1>4, <1>5, <1>6, <1>7 DEF IInv

\* Every step of the mapper preserves the invariant.
LEMMA StepPreserves == IInv /\ [Next]_vars => IInv'
<1>1. ASSUME IInv, Next PROVE IInv'
    <2>1. ASSUME NEW p \in Vertex, Enter(p) PROVE IInv'
        BY <1>1, <2>1, EnterPreserves
    <2>2. ASSUME NEW p \in Vertex, FinishLeaf(p) PROVE IInv'
        BY <1>1, <2>2, FinishLeafPreserves
    <2>3. ASSUME NEW p \in Vertex, FinishConstant(p) PROVE IInv'
        BY <1>1, <2>3, FinishConstantPreserves
    <2>4. ASSUME NEW p \in Vertex, FinishUnary(p) PROVE IInv'
        BY <1>1, <2>4, FinishUnaryPreserves
    <2>5. ASSUME NEW p \in Vertex, FinishBinary(p) PROVE IInv'
        BY <1>1, <2>5, FinishBinaryPreserves
    <2>6. CASE FinishModel
        BY <1>1, <2>6, FinishModelPreserves
    <2>7. CASE Returned
        BY <1>1, <2>7, StutterPreserves DEF Returned
    <2>8. QED
        BY <1>1, <2>1, <2>2, <2>3, <2>4, <2>5, <2>6, <2>7 DEF Next, DFSStep
<1>2. IInv /\ UNCHANGED vars => IInv'
    BY StutterPreserves
<1>3. QED
    BY <1>1, <1>2

(***************************************************************************)
(* The invariant of the walk holds in every state DFS can reach, whatever  *)
(* the netlist.                                                            *)
(***************************************************************************)
THEOREM Invariance == Spec => []IInv
BY InitInvariant, StepPreserves, PTL DEF Spec

(***************************************************************************)
(* Every variable of the mapper always has its type, and a node with one   *)
(* state has both.                                                         *)
(***************************************************************************)
THEOREM TypeCorrect == Spec => []TypeOK
<1>1. IInv => TypeOK
    BY DEF IInv
<1>2. QED
    BY <1>1, Invariance, PTL

(***************************************************************************)
(* The memo test at the head of DFS never hands out a placeholder that is  *)
(* still to be filled: no state is built on one of an unfinished node.     *)
(***************************************************************************)
THEOREM NoHalfBuilt == Spec => []NoHalfBuiltSons
<1>1. IInv => NoHalfBuiltSons
    BY DEF IInv
<1>2. QED
    BY <1>1, Invariance, PTL

(***************************************************************************)
(* The mapping is correct for every acyclic netlist of gates with at most  *)
(* two inputs: the states of every node DFS has returned from drive the    *)
(* node's function and its complement, or a cost has passed the largest    *)
(* long double.                                                            *)
(***************************************************************************)
THEOREM MappingCorrect == Spec => []EquivalentStates
<1>1. IInv => EquivalentStates
    BY DEF IInv
<1>2. QED
    BY <1>1, Invariance, PTL

-----------------------------------------------------------------------------
(***************************************************************************)
(* What DFS leaves on the heap, for every netlist.                         *)
(*                                                                         *)
(* The states of a node whose call has returned have a shape that depends  *)
(* on nothing but the node and its sources: which addresses hold a cell,   *)
(* which cell, on which sons and under which name.  A later step keeps it: *)
(* it writes other nodes' states only, and the one exception, the outputs  *)
(* that take their names when the model's call ends, changes no more than  *)
(* a name.  From the shape follow that a node is mapped once, that every   *)
(* state drives what its cell makes of its sons, and all that is proved of *)
(* the text printed afterwards.                                            *)
(***************************************************************************)

-----------------------------------------------------------------------------
(* What a finished node keeps                                              *)

\* A state keeps what it has; dp[n][0], when n is an output, changes its name.
Kept(id) ==
    \/ heap'[id] = heap[id]
    \/ id = dp[id[1]][0] /\ heap'[id] = [heap[id] EXCEPT !.name = <<id[1], "">>]

\* A call that returns writes only its own node's states.
LEMMA FinishWritesOwn ==
    ASSUME IInv, NEW p \in Vertex,
           FinishLeaf(p) \/ FinishConstant(p) \/ FinishUnary(p) \/ FinishBinary(p)
    PROVE  /\ p \in Node /\ Running(p) /\ stack' = Front(stack) /\ dag' = dag
           /\ \A n \in Vertex : n # p => dp'[n] = dp[n]
           /\ \A id \in Id : id[1] # p => heap'[id] = heap[id]
<1>1. /\ p \in Node /\ Running(p) /\ stack' = Front(stack) /\ dag' = dag
      /\ TypeOK /\ WellFormed(dag)
    BY DEF FinishLeaf, FinishConstant, FinishUnary, FinishBinary, Ready, Vertex, IInv, TypeOK
<1>2. Ori(p) \in Id /\ Inv(p) \in Id /\ Ori(p)[1] = p /\ Inv(p)[1] = p
    BY <1>1, PlaceholdersOfRunning
<1>3. ASSUME NEW ori, NEW inv, heap' = [heap EXCEPT ![Ori(p)] = ori, ![Inv(p)] = inv], dp' = dp
      PROVE  /\ \A n \in Vertex : n # p => dp'[n] = dp[n]
             /\ \A id \in Id : id[1] # p => heap'[id] = heap[id]
    BY <1>1, <1>2, <1>3 DEF TypeOK
<1>4. ASSUME NEW ori, heap' = InPlace(p, ori), dp' = dp
      PROVE  /\ \A n \in Vertex : n # p => dp'[n] = dp[n]
             /\ \A id \in Id : id[1] # p => heap'[id] = heap[id]
    BY <1>3, <1>4 DEF InPlace
<1>5. CASE FinishLeaf(p)
    <2>1. heap' = InPlace(p, Input(p)) /\ dp' = dp
        BY <1>5 DEF FinishLeaf
    <2>2. QED
        BY <1>1, <1>4, <2>1
<1>6. CASE FinishConstant(p)
    <2> DEFINE ori == Constant(<<p, "">>, dag.gate[p].out)
               inv == Constant(<<p, "virtually_inverse">>, Flip(dag.gate[p].out, 1))
    <2>1. /\ heap' = InPlace(p, ori) \/ heap' = [heap EXCEPT ![Ori(p)] = ori, ![Inv(p)] = inv]
          /\ dp' = dp
        BY <1>6 DEF FinishConstant
    <2> HIDE DEF ori, inv
    <2>2. QED
        BY <1>1, <1>3, <1>4, <2>1
<1>7. CASE FinishUnary(p)
    <2> DEFINE ori == OnHeap(<<p, "">>, "SAME",
                             <<dp[Src(p)[1]][Truth(~(dag.gate[p].a = dag.gate[p].out))]>>)
    <2>1. heap' = InPlace(p, ori) /\ dp' = dp
        BY <1>7 DEF FinishUnary
    <2> HIDE DEF ori
    <2>2. QED
        BY <1>1, <1>4, <2>1
<1>8. CASE FinishBinary(p)
    <2>1. \A id \in Id : id[1] # p => heap'[id] = heap[id]
        BY <1>8 DEF FinishBinary
    <2>2. \E f : dp' = [dp EXCEPT ![p] = f]
        BY <1>8 DEF FinishBinary
    <2>3. QED
        BY <1>1, <2>1, <2>2 DEF TypeOK
<1>9. QED
    BY <1>5, <1>6, <1>7, <1>8

\* The nodes whose call has returned, after each kind of step.
LEMMA FinishedAfter ==
    ASSUME IInv
    PROVE  /\ \A p \in Vertex : Enter(p) => \A n \in Vertex : Finished(n)' <=> Finished(n)
           /\ \A p \in Vertex :
                FinishLeaf(p) \/ FinishConstant(p) \/ FinishUnary(p) \/ FinishBinary(p) =>
                    \A n \in Vertex : Finished(n)' <=> Finished(n) \/ n = p
           /\ FinishModel => \A n \in Vertex : Finished(n)' <=> Finished(n) \/ n = Model
<1>1. TypeOK /\ WellFormed(dag) /\ Model \in Vertex /\ Node \subseteq Vertex
    BY DEF IInv, TypeOK, Vertex
<1>2. ASSUME NEW p \in Vertex, Enter(p), NEW n \in Vertex
      PROVE  Finished(n)' <=> Finished(n)
    <2>1. PICK i \in DOMAIN Src(p) :
            /\ ~Defined(Src(p)[i])
            /\ stack' = Append(stack, Src(p)[i])
            /\ dp' = [dp EXCEPT ![Src(p)[i]] = [v \in Bit |-> <<Src(p)[i], v, "dp">>]]
        BY <1>2 DEF Enter
    <2> DEFINE s == Src(p)[i]
    <2>2. s \in Vertex /\ stack \in Seq(Vertex) /\ stack' = Append(stack, s)
        BY <1>1, <2>1, NetlistFacts DEF TypeOK
    <2>3. /\ stack' \in Seq(Vertex) /\ Len(stack') = Len(stack) + 1
          /\ stack'[Len(stack) + 1] = s
          /\ \A j \in 1..Len(stack) : stack'[j] = stack[j]
        BY <2>2
    <2>4. n # s => dp'[n] = dp[n]
        BY <1>1, <2>1, <2>2 DEF TypeOK
    <2>5. n \in Range(stack') <=> n \in Range(stack) \/ n = s
        <3>1. \A j \in 1..(Len(stack) + 1) : j \in 1..Len(stack) \/ j = Len(stack) + 1
            BY <2>2
        <3>2. Len(stack) + 1 \in 1..(Len(stack) + 1) /\ \A j \in 1..Len(stack) : j \in 1..(Len(stack) + 1)
            BY <2>2
        <3>3. n \in Range(stack) <=> \E j \in 1..Len(stack) : stack[j] = n
            BY <2>2, RangeFacts
        <3>4. n \in Range(stack') <=> \E j \in 1..(Len(stack) + 1) : stack'[j] = n
            BY <2>3, RangeFacts
        <3>5. QED
            BY <2>3, <3>1, <3>2, <3>3, <3>4
    <2>6. ~Finished(s)
        BY <2>1 DEF Finished
    <2> HIDE DEF s
    <2>7. QED
        BY <2>4, <2>5, <2>6 DEF Finished, Defined
<1>3. ASSUME NEW p \in Vertex,
             FinishLeaf(p) \/ FinishConstant(p) \/ FinishUnary(p) \/ FinishBinary(p)
      PROVE  \A n \in Vertex : Finished(n)' <=> Finished(n) \/ n = p
    <2>1. /\ p \in Node /\ Running(p) /\ stack' = Front(stack) /\ dag' = dag
          /\ \A n \in Vertex : n # p => dp'[n] = dp[n]
        BY <1>3, FinishWritesOwn
    <2>2. IInv'
        BY <1>3, FinishLeafPreserves, FinishConstantPreserves, FinishUnaryPreserves,
           FinishBinaryPreserves
    <2>3. dp'[p][0] # Null
        <3>1. Defined(p)
            BY <2>1, RunningFacts
        <3>2. CASE dp'[p] = dp[p]
            BY <3>1, <3>2 DEF Defined
        <3>3. CASE FinishBinary(p)
            <4>1. \E a \in Kind : dp'[p][0] = <<p, 0, a>>
                <5> DEFINE k == Winner(Transfer(p, 0), BaseKind(p, 0))
                <5>1. \A i \in DOMAIN Src(p) : Finished(Src(p)[i])
                    BY <2>1, <3>3, RunningFacts DEF FinishBinary, Ready
                <5>2. k \in Kind
                    BY <2>1, <3>3, <5>1, PassFacts, KindFacts DEF FinishBinary
                <5> DEFINE better == Better(InvOf(<<p, "HEAD_INV">>,
                                <<p, 1, Winner(Transfer(p, 1), BaseKind(p, 1))>>,
                                Transfer(p, 1)[Winner(Transfer(p, 1), BaseKind(p, 1))]),
                                            Transfer(p, 0)[k])
                <5>3. dp' = [dp EXCEPT ![p] = [v \in Bit |->
                        IF v = 1 THEN <<p, 1, "head">>
                        ELSE IF better THEN <<p, 0, "head">> ELSE <<p, 0, k>>]]
                    BY <3>3 DEF FinishBinary
                <5> HIDE DEF better
                <5> HIDE DEF k
                <5>4. QED
                    BY <1>1, <5>2, <5>3, KindFacts DEF TypeOK
            <4>2. QED
                BY <4>1, IdFacts, KindFacts, ConstantFacts
        <3>4. QED
            BY <1>3, <3>2, <3>3 DEF FinishLeaf, FinishConstant, FinishUnary
    <2>4. QED
        BY <2>1, <2>3, ReturnFacts
<1>4. ASSUME FinishModel
      PROVE  \A n \in Vertex : Finished(n)' <=> Finished(n) \/ n = Model
    <2>1. Running(Model) /\ stack' = Front(stack) /\ dag' = dag /\ dp' = dp
        BY <1>4 DEF FinishModel, Ready
    <2>2. dp'[Model][0] # Null
        <3>1. dp[Model][0] = Ori(Model) /\ Ori(Model) \in Id
            BY <1>1, IdFacts, KindFacts DEF TypeOK, Ori
        <3>2. QED
            BY <2>1, <3>1, ConstantFacts
    <2>3. QED
        BY <1>1, <2>1, <2>2, ReturnFacts
<1>5. QED
    BY <1>2, <1>3, <1>4

(***************************************************************************)
(* A node whose call has returned stays finished, and keeps its references *)
(* and its states but for the name of an output.                           *)
(***************************************************************************)
LEMMA FinishedKept ==
    ASSUME IInv, [Next]_vars
    PROVE  /\ dag' = dag
           /\ \A q \in Node : Finished(q) =>
                /\ Finished(q)' /\ dp'[q] = dp[q]
                /\ \A id \in Id : id[1] = q => Kept(id)
<1>1. TypeOK /\ WellFormed(dag) /\ Model \in Vertex /\ Node \subseteq Vertex
    BY DEF IInv, TypeOK, Vertex
<1>2. ASSUME NEW p \in Vertex, Enter(p)
      PROVE  /\ dag' = dag
             /\ \A q \in Node : Finished(q) =>
                  dp'[q] = dp[q] /\ \A id \in Id : id[1] = q => heap'[id] = heap[id]
    <2>1. dag' = dag
        BY <1>2 DEF Enter
    <2>2. PICK i \in DOMAIN Src(p) :
            /\ ~Defined(Src(p)[i])
            /\ dp' = [dp EXCEPT ![Src(p)[i]] = [v \in Bit |-> <<Src(p)[i], v, "dp">>]]
            /\ heap' = [heap EXCEPT ![Ori(Src(p)[i])] = Placeholder, ![Inv(Src(p)[i])] = Placeholder]
        BY <1>2 DEF Enter
    <2> DEFINE s == Src(p)[i]
    <2>3. s \in Vertex /\ ~Finished(s)
        BY <1>1, <2>2, NetlistFacts DEF Finished
    <2>4. Ori(s)[1] = s /\ Inv(s)[1] = s
        BY <2>3, IdFacts, KindFacts DEF Ori, Inv
    <2>5. \A n \in Vertex : n # s => dp'[n] = dp[n]
        BY <1>1, <2>2 DEF TypeOK
    <2>6. \A id \in Id : id # Ori(s) /\ id # Inv(s) => heap'[id] = heap[id]
        BY <1>1, <2>2 DEF TypeOK
    <2> HIDE DEF s
    <2>7. QED
        BY <1>1, <2>1, <2>3, <2>4, <2>5, <2>6
<1>3. ASSUME NEW p \in Vertex,
             FinishLeaf(p) \/ FinishConstant(p) \/ FinishUnary(p) \/ FinishBinary(p)
      PROVE  /\ dag' = dag
             /\ \A q \in Node : Finished(q) =>
                  dp'[q] = dp[q] /\ \A id \in Id : id[1] = q => heap'[id] = heap[id]
    <2>1. /\ p \in Node /\ Running(p) /\ dag' = dag
          /\ \A n \in Vertex : n # p => dp'[n] = dp[n]
          /\ \A id \in Id : id[1] # p => heap'[id] = heap[id]
        BY <1>3, FinishWritesOwn
    <2>2. ~Finished(p)
        BY <1>3, <2>1, RunningFacts
    <2>3. QED
        BY <1>1, <2>1, <2>2
<1>4. ASSUME FinishModel
      PROVE  /\ dag' = dag
             /\ \A q \in Node : Finished(q) =>
                  dp'[q] = dp[q] /\ \A id \in Id : id[1] = q => Kept(id)
    <2> DEFINE refs == [i \in DOMAIN Src(Model) |-> dp[Src(Model)[i]][0]]
    <2>1. dag' = dag /\ dp' = dp
        BY <1>4 DEF FinishModel
    <2>2. \A id \in Id : id # Ori(Model) =>
            heap'[id] = IF id \in Range(refs) THEN [heap[id] EXCEPT !.name = <<id[1], "">>]
                        ELSE heap[id]
        BY <1>4 DEF FinishModel
    <2>3. \A i \in DOMAIN Src(Model) : Src(Model)[i] \in Node /\ Finished(Src(Model)[i])
        BY <1>1, <1>4, NetlistFacts, RunningFacts DEF FinishModel, Ready
    <2>4. \A i \in DOMAIN refs : refs[i][1] = Src(Model)[i] /\ refs[i] = dp[Src(Model)[i]][0]
        BY <2>3, FinishedStates, KindFacts
    <2>5. \A id \in Range(refs) : id = dp[id[1]][0]
        <3>1. \A id \in Range(refs) : \E i \in DOMAIN refs : id = refs[i]
            BY DEF Range
        <3>2. QED
            BY <2>4, <3>1
    <2>6. ASSUME NEW q \in Node, NEW id \in Id, id[1] = q
          PROVE  Kept(id)
        <3>1. id # Ori(Model)
            BY <1>1, <2>6, IdFacts, KindFacts, ConstantFacts DEF Ori
        <3> HIDE DEF refs
        <3>2. QED
            BY <2>2, <2>5, <3>1 DEF Kept
    <2>7. QED
        BY <2>1, <2>6
<1>5. CASE Next /\ ~Returned
    <2>1. DFSStep
        BY <1>5 DEF Next
    <2>2. CASE \E p \in Vertex : Enter(p)
        BY <1>1, <1>2, <2>2, FinishedAfter DEF Kept
    <2>3. CASE \E p \in Vertex :
            FinishLeaf(p) \/ FinishConstant(p) \/ FinishUnary(p) \/ FinishBinary(p)
        BY <1>1, <1>3, <2>3, FinishedAfter DEF Kept
    <2>4. CASE FinishModel
        BY <1>1, <1>4, <2>4, FinishedAfter
    <2>5. QED
        BY <2>1, <2>2, <2>3, <2>4 DEF DFSStep
<1>6. CASE Returned \/ UNCHANGED vars
    BY <1>6 DEF Returned, vars, Kept, Finished, Defined
<1>7. QED
    BY <1>5, <1>6 DEF Next

(***************************************************************************)
(* A node is mapped once: after its call has returned its two references   *)
(* never change, and of its states nothing but an output's name does.      *)
(***************************************************************************)
THEOREM MappedOnceHolds == Spec => MappedOnce
<1>1. ASSUME IInv, [Next]_vars, NEW n \in Node, NEW v \in Bit, Finished(n)
      PROVE  /\ dp'[n][v] = dp[n][v]
             /\ [heap'[dp[n][v]] EXCEPT !.name = <<>>] = [heap[dp[n][v]] EXCEPT !.name = <<>>]
    <2>1. dp[n][v] \in Id /\ dp[n][v][1] = n /\ heap[dp[n][v]] \in DpState
        BY <1>1, FinishedStates
    <2>2. dp'[n] = dp[n] /\ Kept(dp[n][v])
        BY <1>1, <2>1, FinishedKept
    <2> DEFINE st == heap[dp[n][v]]
    <2>3. \A name : [[st EXCEPT !.name = name] EXCEPT !.name = <<>>] = [st EXCEPT !.name = <<>>]
        BY <2>1 DEF DpState
    <2>4. QED
        BY <2>2, <2>3 DEF Kept
<1>2. IInv /\ [Next]_vars =>
        [\A n \in Node, v \in Bit : Finished(n) =>
            /\ dp'[n][v] = dp[n][v]
            /\ [heap'[dp[n][v]] EXCEPT !.name = <<>>] = [heap[dp[n][v]] EXCEPT !.name = <<>>] ]_vars
    BY <1>1
<1>3. QED
    BY <1>2, Invariance, PTL DEF Spec, MappedOnce

-----------------------------------------------------------------------------
(* What DFS leaves on the heap                                             *)

\* A state to which nothing has been assigned.
Vacant(st) == st.sons = <<>> /\ st.cell \in {"NONE", "UNDEFINED"} /\ ~st.leaf

\* What the states at a node's addresses are called after it.
TagOf(id) ==
    LET p == id[1]   v == id[2]   k == id[3]
    IN  IF Len(Src(p)) # 2 THEN IF v = 0 THEN "" ELSE "virtually_inverse"
        ELSE CASE k = "t1"    -> Base(p, v).cell
               [] k = "t2"    -> "INV"
               [] k = "aoi21" -> "AIO21"
               [] k = "aoi12" -> "AIO12"
               [] k = "aoi22" -> "AOI22"
               [] OTHER       -> IF v = 0 THEN "HEAD_INV" ELSE "virtually_inverse_HEAD_INV"

\* Only ori loses that name, to the node's own.
Named(id) ==
    \/ Vacant(heap[id])
    \/ heap[id].name = <<id[1], TagOf(id)>>
    \/ heap[id].name = <<id[1], "">> /\ id = dp[id[1]][0]

\* Another call of update would change nothing.
UpToDate(id) == heap[id].cell \notin {"NONE", "UNDEFINED"} =>
    heap[id] = OnHeap(heap[id].name, heap[id].cell, heap[id].sons)

\* A cost has reached the largest long double, so comparisons of costs mean nothing.
Saturated == \E id \in Id :
    id[1] # Model /\ heap[id].cell \notin {"NONE", "UNDEFINED"} /\ heap[id].cost >= CostMax

\* The states of an input, a constant, a buffer or an inverter.
SimpleShape(p) ==
    LET ori == heap[Ori(p)]   inv == heap[Inv(p)]
    IN  /\ dp[p][0] = Ori(p) /\ dp[p][1] = Inv(p)
        /\ \A v \in Bit, k \in Kind \ {"dp"} : Vacant(heap[<<p, v, k>>])
        /\ ori.leaf <=> IsLeaf(p)
        /\ \/ IsLeaf(p) /\ ori.cell = "UNDEFINED" /\ ori.sons = <<>>
           \/ ~IsLeaf(p) /\ Len(Src(p)) = 0 /\ ori.cell \in {"ONE", "ZERO"} /\ ori.sons = <<>>
           \/ /\ ~IsLeaf(p) /\ Len(Src(p)) = 1 /\ ori.cell = "SAME"
              /\ \E v \in Bit : ori.sons = <<dp[Src(p)[1]][v]>>
        /\ ~inv.leaf
        /\ \/ inv.cell = "INV" /\ inv.sons = <<Ori(p)>>
           \/ ~IsLeaf(p) /\ Len(Src(p)) = 0 /\ inv.cell \in {"ONE", "ZERO"} /\ inv.sons = <<>>

\* The base cover of pass v of transferState, and its INV if it has one.
BaseShape(p, v) ==
    LET c == Base(p, v)
        t1 == heap[<<p, v, "t1">>]
        t2 == heap[<<p, v, "t2">>]
    IN  /\ t1.cell = c.cell
        /\ t1.sons = <<dp[Src(p)[1]][c.ia], dp[Src(p)[2]][c.ib]>>
        /\ IF c.head = 0 THEN Vacant(t2)
           ELSE t2.cell = "INV" /\ t2.sons = << <<p, v, "t1">> >>

\* An AOI cell, where the pass found one: on the sources of the gates absorbed.
AOI21Shape(p, v) ==
    LET l == Src(p)[1]   r == Src(p)[2]
        st == heap[<<p, v, "aoi21">>]
    IN  \/ Vacant(st) /\ st.cell = "NONE"
        \/ /\ Absorbable(l) /\ st.cell = "AOI21"
           /\ \E i \in AOI21Inv(dag.gate[p], dag.gate[l], v) :
                 st.sons = <<dp[Src(l)[1]][i[1]], dp[Src(l)[2]][i[2]], dp[r][i[3]]>>

\* The same for the second source.
AOI12Shape(p, v) ==
    LET l == Src(p)[1]   r == Src(p)[2]
        st == heap[<<p, v, "aoi12">>]
    IN  \/ Vacant(st) /\ st.cell = "NONE"
        \/ /\ Absorbable(r) /\ st.cell = "AOI12"
           /\ \E i \in AOI12Inv(dag.gate[p], dag.gate[r], v) :
                 st.sons = <<dp[l][i[1]], dp[Src(r)[1]][i[2]], dp[Src(r)[2]][i[3]]>>

\* The same for both sources.
AOI22Shape(p, v) ==
    LET l == Src(p)[1]   r == Src(p)[2]
        st == heap[<<p, v, "aoi22">>]
    IN  \/ Vacant(st) /\ st.cell = "NONE"
        \/ /\ Absorbable(l) /\ Absorbable(r) /\ st.cell = "AOI22"
           /\ \E i \in AOI22Inv(dag.gate[p], dag.gate[l], dag.gate[r], v) :
                 st.sons = <<dp[Src(l)[1]][i[1]], dp[Src(l)[2]][i[2]],
                             dp[Src(r)[1]][i[3]], dp[Src(r)[2]][i[4]]>>

\* What a pass leaves: its placeholder is not written.
PassShape(p, v) ==
    /\ \A k \in Kind : ~heap[<<p, v, k>>].leaf
    /\ Vacant(heap[<<p, v, "dp">>])
    /\ BaseShape(p, v)
    /\ AOI21Shape(p, v) /\ AOI12Shape(p, v) /\ AOI22Shape(p, v)

\* An INV on the winner of each pass: k covers the gate, l its complement.
HeadShape(p, k, l) ==
    LET head(v) == heap[<<p, v, "head">>]
    IN  /\ k \in {"dp", BaseKind(p, 0), "aoi21", "aoi12", "aoi22"}
        /\ l \in {"dp", BaseKind(p, 1), "aoi21", "aoi12", "aoi22"}
        /\ heap[<<p, 0, k>>].cell # "NONE" /\ heap[<<p, 1, l>>].cell # "NONE"
        /\ k = "dp" \/ l = "dp" => Saturated
        /\ head(0).cell = "INV" /\ head(0).sons = << <<p, 1, l>> >>
        /\ head(1).cell = "INV" /\ head(1).sons = << <<p, 0, k>> >>
        /\ dp[p][1] = <<p, 1, "head">>
        /\ dp[p][0] = IF Better(head(0), heap[<<p, 0, k>>]) THEN <<p, 0, "head">> ELSE <<p, 0, k>>

\* The states of a two-input gate.
GateShape(p) ==
    /\ \A v \in Bit : PassShape(p, v)
    /\ \E k, l \in Kind : HeadShape(p, k, l)

\* The states of any node.
Shape(p) == IF Len(Src(p)) = 2 THEN GateShape(p) ELSE SimpleShape(p)

\* The model's own state lists the outputs' states, once its call has returned.
ModelShape == \A id \in Id : id[1] = Model =>
    /\ heap[id].cell \in {"NONE", "UNDEFINED"} /\ ~heap[id].leaf
    /\ heap[id].sons = IF id = Ori(Model) /\ Finished(Model)
                       THEN [i \in DOMAIN Src(Model) |-> dp[Src(Model)[i]][0]] ELSE <<>>

\* The states of a node whose call has returned are those its cover calls for.
NodesDone == \A p \in Node : Finished(p) =>
    /\ Shape(p)
    /\ \A id \in Id : id[1] = p => UpToDate(id) /\ Named(id)

\* The inductive invariant of the heap.
HeapInv == IInv /\ ModelShape /\ NodesDone

-----------------------------------------------------------------------------
(* Updated states                                                          *)

\* What update computes depends on the sons' figures, not on their names.
LEMMA UpdatedSame ==
    ASSUME NEW name, NEW cell, NEW sons, NEW s \in Seq(DpState), NEW t \in Seq(DpState),
           Len(s) = Len(t),
           \A i \in 1..Len(s) : s[i].cost = t[i].cost /\ s[i].depth = t[i].depth /\ s[i].fn = t[i].fn
    PROVE  Updated(name, cell, sons, s) = Updated(name, cell, sons, t)
<1> DEFINE cost(u, i)  == IF i <= Len(u) THEN u[i].cost ELSE 0
           depth(u, i) == IF i <= Len(u) THEN u[i].depth ELSE 0
           in(u, i, x) == IF i <= Len(u) THEN u[i].fn[x] ELSE 0
<1>1. \A i \in 1..4 : /\ cost(s, i) = cost(t, i) /\ depth(s, i) = depth(t, i)
                      /\ \A x \in Assign : in(s, i, x) = in(t, i, x)
    <2>1. \A i \in 1..4 : i <= Len(s) => i \in 1..Len(s)
        OBVIOUS
    <2>2. QED
        BY <2>1
<1>2. /\ cost(s, 1) = cost(t, 1) /\ cost(s, 2) = cost(t, 2)
      /\ cost(s, 3) = cost(t, 3) /\ cost(s, 4) = cost(t, 4)
      /\ depth(s, 1) = depth(t, 1) /\ depth(s, 2) = depth(t, 2)
      /\ depth(s, 3) = depth(t, 3) /\ depth(s, 4) = depth(t, 4)
      /\ \A x \in Assign : /\ in(s, 1, x) = in(t, 1, x) /\ in(s, 2, x) = in(t, 2, x)
                           /\ in(s, 3, x) = in(t, 3, x) /\ in(s, 4, x) = in(t, 4, x)
    BY <1>1
<1>3. CellFn(cell, s) = CellFn(cell, t)
    <2>1. \A u : CellFn(cell, u) =
            [x \in Assign |-> CellOut(cell, in(u, 1, x), in(u, 2, x), in(u, 3, x), in(u, 4, x))]
        BY DEF CellFn
    <2> HIDE DEF in
    <2>2. QED
        BY <1>2, <2>1
<1>4. \A u : Updated(name, cell, sons, u) =
        [name  |-> name, leaf |-> FALSE, cell |-> cell, sons |-> sons,
         cost  |-> Rounded(cost(u, 1) + cost(u, 2) + cost(u, 3) + cost(u, 4) + 1),
         depth |-> Deeper(Max2(0, Max2(Max2(depth(u, 1), depth(u, 2)),
                                       Max2(depth(u, 3), depth(u, 4))))),
         fn    |-> CellFn(cell, u)]
    BY DEF Updated
<1> HIDE DEF cost, depth, in
<1>5. QED
    BY <1>2, <1>3, <1>4

\* An updated state has the name, the cell and the sons it was given.
LEMMA UpdatedFields ==
    ASSUME NEW name \in Vertex \X Tag, NEW cell \in CellType, NEW sons \in Seq(Id),
           NEW states \in Seq(DpState)
    PROVE  /\ Updated(name, cell, sons, states).name = name
           /\ ~Updated(name, cell, sons, states).leaf
           /\ Updated(name, cell, sons, states).cell = cell
           /\ Updated(name, cell, sons, states).sons = sons
BY DEF Updated

\* Renaming an updated state and updating one under the new name are the same.
LEMMA UpdatedRenamed ==
    ASSUME NEW name \in Vertex \X Tag, NEW new \in Vertex \X Tag, NEW cell \in CellType,
           NEW sons \in Seq(Id), NEW states \in Seq(DpState)
    PROVE  [Updated(name, cell, sons, states) EXCEPT !.name = new] =
                    Updated(new, cell, sons, states)
<1> DEFINE st == Updated(name, cell, sons, states)
           u == Updated(new, cell, sons, states)
<1>1. /\ u.name = new /\ u.leaf = st.leaf /\ u.cell = st.cell /\ u.sons = st.sons
      /\ u.cost = st.cost /\ u.depth = st.depth /\ u.fn = st.fn
    BY DEF Updated
<1>2. st \in DpState /\ u \in DpState
    BY UpdatedType
<1> HIDE DEF st, u
<1>3. \A r, s \in DpState :
        /\ r.name = s.name /\ r.leaf = s.leaf /\ r.cell = s.cell /\ r.sons = s.sons
        /\ r.cost = s.cost /\ r.depth = s.depth /\ r.fn = s.fn
        => r = s
    BY DEF DpState
<1>4. /\ [st EXCEPT !.name = new] \in DpState /\ [st EXCEPT !.name = new].name = new
      /\ [st EXCEPT !.name = new].leaf = st.leaf /\ [st EXCEPT !.name = new].cell = st.cell
      /\ [st EXCEPT !.name = new].sons = st.sons /\ [st EXCEPT !.name = new].cost = st.cost
      /\ [st EXCEPT !.name = new].depth = st.depth /\ [st EXCEPT !.name = new].fn = st.fn
    BY <1>2 DEF DpState
<1>5. [st EXCEPT !.name = new] = u
    BY <1>1, <1>2, <1>3, <1>4
<1>6. QED
    BY <1>5 DEF st, u

\* A state updated from what its sons are after the step is up to date.
LEMMA FreshlyUpdated ==
    ASSUME NEW id, NEW name \in Vertex \X Tag, NEW cell \in CellType, NEW sons \in Seq(Id),
           NEW states \in Seq(DpState), Len(states) = Len(sons), \A i \in DOMAIN sons : heap'[sons[i]] = states[i],
           heap'[id] = Updated(name, cell, sons, states)
    PROVE  UpToDate(id)'
<1>1. [i \in DOMAIN sons |-> heap'[sons[i]]] = states
    <2>1. DOMAIN sons = 1..Len(states) /\ Len(states) \in Nat
        OBVIOUS
    <2>2. QED
        BY <2>1
<1>2. heap'[id].name = name /\ heap'[id].cell = cell /\ heap'[id].sons = sons
    <2> DEFINE st == Updated(name, cell, sons, states)
    <2>1. st.name = name /\ st.cell = cell /\ st.sons = sons
        BY UpdatedFields
    <2> HIDE DEF st
    <2>2. heap'[id] = st
        BY DEF st
    <2>3. QED
        BY <2>1, <2>2
<1>3. QED
    BY <1>1, <1>2 DEF UpToDate, OnHeap, States

\* So is a constant, though update is never called on it.
LEMMA ConstantUpToDate ==
    ASSUME NEW id, NEW name, NEW bit \in Bit, heap'[id] = Constant(name, bit)
    PROVE  UpToDate(id)'
<1> DEFINE cell == IF bit = 1 THEN "ONE" ELSE "ZERO"
<1>1. /\ heap'[id].name = name /\ heap'[id].sons = <<>> /\ heap'[id].cell = cell
    BY DEF Constant
<1>2. [i \in DOMAIN <<>> |-> heap'[<<>>[i]]] = <<>>
    OBVIOUS
<1>3. Updated(name, cell, <<>>, <<>>) = Constant(name, bit)
    <2>1. Len(<<>>) = 0 /\ ~(1 <= 0) /\ ~(2 <= 0) /\ ~(3 <= 0) /\ ~(4 <= 0)
        OBVIOUS
    <2>2. Rounded(0 + 0 + 0 + 0 + 1) = 1
        BY ConstantFacts DEF Rounded
    <2>3. Deeper(Max2(0, Max2(Max2(0, 0), Max2(0, 0)))) = 1
        BY ConstantFacts DEF Deeper, Max2
    <2>4. CellFn(cell, <<>>) = [x \in Assign |-> bit]
        <3>1. CellOut(cell, 0, 0, 0, 0) = bit
            BY DEF CellOut, Truth, Bit
        <3> HIDE DEF cell
        <3>2. QED
            BY <2>1, <3>1 DEF CellFn
    <2> HIDE DEF cell
    <2>5. Updated(name, cell, <<>>, <<>>) =
            [name |-> name, leaf |-> FALSE, cell |-> cell, sons |-> <<>>,
             cost |-> Rounded(0 + 0 + 0 + 0 + 1),
             depth |-> Deeper(Max2(0, Max2(Max2(0, 0), Max2(0, 0)))),
             fn |-> CellFn(cell, <<>>)]
        BY <2>1 DEF Updated
    <2>6. QED
        BY <2>2, <2>3, <2>4, <2>5 DEF Constant, cell
<1> HIDE DEF cell
<1>4. QED
    BY <1>1, <1>2, <1>3 DEF UpToDate, OnHeap, States

\* What a state of a finished node has after a step.
LEMMA KeptFacts ==
    ASSUME NEW id \in Id, heap[id] \in DpState, Kept(id)
    PROVE  /\ heap'[id] \in DpState
           /\ heap'[id] = [heap[id] EXCEPT !.name = heap'[id].name]
           /\ \/ heap'[id].name = heap[id].name
              \/ id = dp[id[1]][0] /\ heap'[id].name = <<id[1], "">>
           /\ heap'[id].leaf = heap[id].leaf /\ heap'[id].cell = heap[id].cell
           /\ heap'[id].sons = heap[id].sons /\ heap'[id].cost = heap[id].cost
           /\ heap'[id].depth = heap[id].depth /\ heap'[id].fn = heap[id].fn
<1> DEFINE name == <<id[1], "">>
<1>1. name \in Vertex \X Tag
    BY IdFacts DEF Tag
<1>2. \/ heap'[id] = heap[id]
      \/ id = dp[id[1]][0] /\ heap'[id] = [heap[id] EXCEPT !.name = name]
    BY DEF Kept
<1> HIDE DEF name
<1>3. ASSUME NEW n \in Vertex \X Tag
      PROVE  LET st == [heap[id] EXCEPT !.name = n]
             IN  /\ st \in DpState /\ st.name = n /\ st.leaf = heap[id].leaf
                 /\ st.cell = heap[id].cell /\ st.sons = heap[id].sons
                 /\ st.cost = heap[id].cost /\ st.depth = heap[id].depth /\ st.fn = heap[id].fn
    BY DEF DpState
<1>4. heap[id] = [heap[id] EXCEPT !.name = heap[id].name]
    BY DEF DpState
<1>5. CASE heap'[id] = heap[id]
    BY <1>4, <1>5
<1>6. CASE id = dp[id[1]][0] /\ heap'[id] = [heap[id] EXCEPT !.name = name]
    BY <1>1, <1>3, <1>6 DEF name
<1>7. QED
    BY <1>2, <1>5, <1>6

-----------------------------------------------------------------------------
(* Sons                                                                    *)

\* Among the states of one node an INV stands above the state it inverts.
Level(id) == CASE id[3] = "head" -> 2
               [] id[3] = "t2"   -> 1
               [] id[3] = "dp"   -> id[2]
               [] OTHER          -> 0

\* The members of short sequences.
LEMMA ShortSequences ==
    /\ \A i : i \notin DOMAIN <<>>
    /\ \A x : \A i \in DOMAIN <<x>> : i = 1 /\ <<x>>[i] = x
    /\ \A x, y : \A i \in DOMAIN <<x, y>> :
            (i = 1 /\ <<x, y>>[i] = x) \/ (i = 2 /\ <<x, y>>[i] = y)
    /\ \A x, y, z : \A i \in DOMAIN <<x, y, z>> :
            \/ i = 1 /\ <<x, y, z>>[i] = x
            \/ i = 2 /\ <<x, y, z>>[i] = y
            \/ i = 3 /\ <<x, y, z>>[i] = z
    /\ \A x, y, z, u : \A i \in DOMAIN <<x, y, z, u>> :
            \/ i = 1 /\ <<x, y, z, u>>[i] = x
            \/ i = 2 /\ <<x, y, z, u>>[i] = y
            \/ i = 3 /\ <<x, y, z, u>>[i] = z
            \/ i = 4 /\ <<x, y, z, u>>[i] = u
    /\ \A x : 1 \in DOMAIN <<x>>
    /\ \A x, y : 1 \in DOMAIN <<x, y>> /\ 2 \in DOMAIN <<x, y>>
<1>1. \A i : i \notin DOMAIN <<>>
    OBVIOUS
<1>2. \A x : \A i \in DOMAIN <<x>> : i = 1 /\ <<x>>[i] = x
    OBVIOUS
<1>3. \A x, y : \A i \in DOMAIN <<x, y>> :
            (i = 1 /\ <<x, y>>[i] = x) \/ (i = 2 /\ <<x, y>>[i] = y)
    OBVIOUS
<1>4. \A x, y, z : \A i \in DOMAIN <<x, y, z>> :
            \/ i = 1 /\ <<x, y, z>>[i] = x
            \/ i = 2 /\ <<x, y, z>>[i] = y
            \/ i = 3 /\ <<x, y, z>>[i] = z
    OBVIOUS
<1>5. \A x, y, z, u : \A i \in DOMAIN <<x, y, z, u>> :
            \/ i = 1 /\ <<x, y, z, u>>[i] = x
            \/ i = 2 /\ <<x, y, z, u>>[i] = y
            \/ i = 3 /\ <<x, y, z, u>>[i] = z
            \/ i = 4 /\ <<x, y, z, u>>[i] = u
    OBVIOUS
<1>6. \A x : 1 \in DOMAIN <<x>>
    OBVIOUS
<1>7. \A x, y : 1 \in DOMAIN <<x, y>> /\ 2 \in DOMAIN <<x, y>>
    OBVIOUS
<1>8. QED
    BY <1>1, <1>2, <1>3, <1>4, <1>5, <1>6, <1>7

\* A source n of q, or of a source of q, whose states q may be built on.
Below(n, q) == n \in Node /\ Finished(n) /\ dag.rank[n] < dag.rank[q]

\* The sources of a finished gate, and those of a gate it may absorb.
LEMMA SourcesBelow ==
    ASSUME IInv, NEW q \in Node, \A i \in DOMAIN Src(q) : Finished(Src(q)[i])
    PROVE  /\ \A i \in DOMAIN Src(q) : Below(Src(q)[i], q)
           /\ Len(Src(q)) = 1 => 1 \in DOMAIN Src(q)
           /\ Len(Src(q)) = 2 => 1 \in DOMAIN Src(q) /\ 2 \in DOMAIN Src(q)
           /\ \A i \in DOMAIN Src(q) : Absorbable(Src(q)[i]) =>
                Below(Src(Src(q)[i])[1], q) /\ Below(Src(Src(q)[i])[2], q)
<1>1. WellFormed(dag) /\ q \in Vertex /\ Node \subseteq Vertex
    BY DEF IInv, TypeOK, Vertex
<1>2. \A i \in DOMAIN Src(q) : Src(q)[i] \in Node /\ Below(Src(q)[i], q)
    BY <1>1, NetlistFacts DEF Below
<1>3. \A n \in Node : (Len(Src(n)) = 1 => 1 \in DOMAIN Src(n))
                   /\ (Len(Src(n)) = 2 => 1 \in DOMAIN Src(n) /\ 2 \in DOMAIN Src(n))
    <2>1. \A s \in Seq(Node) : (Len(s) = 1 => 1 \in DOMAIN s)
                            /\ (Len(s) = 2 => 1 \in DOMAIN s /\ 2 \in DOMAIN s)
        OBVIOUS
    <2>2. QED
        BY <1>1, <2>1, NetlistFacts
<1>4. ASSUME NEW i \in DOMAIN Src(q), Absorbable(Src(q)[i])
      PROVE  Below(Src(Src(q)[i])[1], q) /\ Below(Src(Src(q)[i])[2], q)
    <2> DEFINE n == Src(q)[i]
    <2>1. n \in Node /\ Finished(n) /\ Absorbable(n) /\ dag.rank[n] < dag.rank[q] /\ n \in Vertex
        BY <1>1, <1>2, <1>4 DEF Below
    <2> HIDE DEF n
    <2>2. Len(Src(n)) = 2 /\ \A j \in DOMAIN Src(n) : Finished(Src(n)[j])
        BY <2>1, AbsorbableFacts
    <2>3. \A j \in DOMAIN Src(n) : Below(Src(n)[j], n)
        BY <1>1, <2>1, <2>2, NetlistFacts DEF Below
    <2>4. Below(Src(n)[1], n) /\ Below(Src(n)[2], n)
        BY <1>3, <2>1, <2>2, <2>3
    <2>5. \A m : Below(m, n) => Below(m, q)
        BY <1>1, <2>1, NetlistFacts DEF Below
    <2>6. QED
        BY <2>4, <2>5 DEF n
<1>5. QED
    BY <1>2, <1>3, <1>4

(***************************************************************************)
(* A state of a finished node is built on lower states of its own node and *)
(* on the two states of nodes below it.                                    *)
(***************************************************************************)
SonBelow(id, son) ==
    \/ son \in Id /\ son[1] = id[1] /\ Level(son) < Level(id)
    \/ \E n \in Node, w \in Bit : Below(n, id[1]) /\ son = dp[n][w]

\* The cases of Shape, one by one.
LEMMA SonsOfFinished ==
    ASSUME IInv, NEW q \in Node, Finished(q), Shape(q), NEW id \in Id, id[1] = q
    PROVE  \A i \in DOMAIN heap[id].sons : SonBelow(id, heap[id].sons[i])
<1>1. id = <<q, id[2], id[3]>> /\ id[2] \in Bit /\ id[3] \in Kind /\ q \in Vertex
    BY IdFacts DEF Vertex
<1>2. \A i \in DOMAIN Src(q) : Finished(Src(q)[i])
    BY <1>1 DEF IInv, SourcesFinished
<1>3. \A v \in Bit, k \in Kind : /\ <<q, v, k>> \in Id /\ <<q, v, k>>[1] = q
                                 /\ <<q, v, k>>[2] = v /\ <<q, v, k>>[3] = k
    BY <1>1, IdFacts
<1>4. ASSUME NEW n, NEW w \in Bit, Below(n, q)
      PROVE  SonBelow(id, dp[n][w])
    BY <1>4 DEF SonBelow, Below
<1>5. Vacant(heap[id]) => \A i \in DOMAIN heap[id].sons : SonBelow(id, heap[id].sons[i])
    BY DEF Vacant
<1>6. CASE Len(Src(q)) # 2
    <2>1. SimpleShape(q)
        BY <1>6 DEF Shape
    <2>2. CASE id[3] # "dp"
        BY <1>1, <1>5, <2>1, <2>2 DEF SimpleShape
    <2>3. CASE id = Ori(q)
        <3>1. \/ heap[Ori(q)].sons = <<>>
              \/ Len(Src(q)) = 1 /\ \E v \in Bit : heap[Ori(q)].sons = <<dp[Src(q)[1]][v]>>
            BY <2>1 DEF SimpleShape
        <3>2. Len(Src(q)) = 1 => Below(Src(q)[1], q)
            BY <1>2, SourcesBelow
        <3>3. QED
            BY <1>4, <2>3, <3>1, <3>2, ShortSequences
    <2>4. CASE id = Inv(q)
        <3>1. heap[Inv(q)].sons = <<>> \/ heap[Inv(q)].sons = <<Ori(q)>>
            BY <2>1 DEF SimpleShape
        <3>2. Ori(q) \in Id /\ Ori(q)[1] = q /\ Level(Ori(q)) = 0 /\ Level(Inv(q)) = 1
            BY <1>3, KindFacts DEF Ori, Inv, Level
        <3>3. SonBelow(id, Ori(q))
            BY <1>1, <2>4, <3>2 DEF SonBelow
        <3>4. QED
            BY <2>4, <3>1, <3>3, ShortSequences
    <2>5. QED
        BY <1>1, <2>2, <2>3, <2>4, KindFacts DEF Ori, Inv
<1>7. CASE Len(Src(q)) = 2
    <2>1. GateShape(q)
        BY <1>7 DEF Shape
    <2> DEFINE l == Src(q)[1]
               r == Src(q)[2]
               v == id[2]
    <2>2. /\ Below(l, q) /\ Below(r, q)
          /\ Absorbable(l) => Below(Src(l)[1], q) /\ Below(Src(l)[2], q)
          /\ Absorbable(r) => Below(Src(r)[1], q) /\ Below(Src(r)[2], q)
        BY <1>2, <1>7, SourcesBelow
    <2>3. PassShape(q, v) /\ v \in Bit /\ id = <<q, v, id[3]>>
        BY <1>1, <2>1 DEF GateShape
    <2> HIDE DEF l, r, v
    <2>4. CASE id[3] = "dp"
        BY <1>5, <2>3, <2>4 DEF PassShape
    <2>5. CASE id[3] = "t1"
        <3>0. id = <<q, v, "t1">> /\ BaseShape(q, v)
            BY <2>3, <2>5 DEF PassShape
        <3>1. /\ heap[id].sons = <<dp[l][Base(q, v).ia], dp[r][Base(q, v).ib]>>
            BY <3>0 DEF BaseShape, l, r
        <3>2. Base(q, v).ia \in Bit /\ Base(q, v).ib \in Bit
            <4>1. dag.gate[q] \in Gate
                BY NetlistFacts DEF IInv, TypeOK
            <4>2. QED
                BY <2>3, <4>1, BaseCoverCorrect DEF Base
        <3>3. SonBelow(id, dp[l][Base(q, v).ia]) /\ SonBelow(id, dp[r][Base(q, v).ib])
            BY <1>4, <2>2, <3>2
        <3>4. QED
            BY <3>1, <3>3, ShortSequences
    <2>6. CASE id[3] = "t2"
        <3>0. id = <<q, v, "t2">> /\ BaseShape(q, v)
            BY <2>3, <2>6 DEF PassShape
        <3>1. Vacant(heap[id]) \/ heap[id].sons = << <<q, v, "t1">> >>
            BY <3>0 DEF BaseShape
        <3>2. SonBelow(id, <<q, v, "t1">>)
            BY <1>1, <1>3, <2>3, <2>6, KindFacts DEF SonBelow, Level
        <3>3. QED
            BY <1>5, <3>1, <3>2, ShortSequences
    <2>7. CASE id[3] = "aoi21"
        <3>0. id = <<q, v, "aoi21">> /\ AOI21Shape(q, v)
            BY <2>3, <2>7 DEF PassShape
        <3>1. \/ Vacant(heap[id])
              \/ /\ Absorbable(l)
                 /\ \E i \in AOI21Inv(dag.gate[q], dag.gate[l], v) :
                        heap[id].sons = <<dp[Src(l)[1]][i[1]], dp[Src(l)[2]][i[2]], dp[r][i[3]]>>
            BY <3>0 DEF AOI21Shape, l, r
        <3>2. CASE Vacant(heap[id])
            BY <1>5, <3>2
        <3>3. ASSUME Absorbable(l), NEW i \in AOI21Inv(dag.gate[q], dag.gate[l], v),
                     heap[id].sons = <<dp[Src(l)[1]][i[1]], dp[Src(l)[2]][i[2]], dp[r][i[3]]>>
              PROVE  \A j \in DOMAIN heap[id].sons : SonBelow(id, heap[id].sons[j])
            <4>1. i[1] \in Bit /\ i[2] \in Bit /\ i[3] \in Bit
                BY <3>3 DEF AOI21Inv
            <4>2. /\ SonBelow(id, dp[Src(l)[1]][i[1]]) /\ SonBelow(id, dp[Src(l)[2]][i[2]])
                  /\ SonBelow(id, dp[r][i[3]])
                BY <1>4, <2>2, <3>3, <4>1
            <4>3. QED
                BY <3>3, <4>2, ShortSequences
        <3>4. QED
            BY <3>1, <3>2, <3>3
    <2>8. CASE id[3] = "aoi12"
        <3>0. id = <<q, v, "aoi12">> /\ AOI12Shape(q, v)
            BY <2>3, <2>8 DEF PassShape
        <3>1. \/ Vacant(heap[id])
              \/ /\ Absorbable(r)
                 /\ \E i \in AOI12Inv(dag.gate[q], dag.gate[r], v) :
                        heap[id].sons = <<dp[l][i[1]], dp[Src(r)[1]][i[2]], dp[Src(r)[2]][i[3]]>>
            BY <3>0 DEF AOI12Shape, l, r
        <3>2. CASE Vacant(heap[id])
            BY <1>5, <3>2
        <3>3. ASSUME Absorbable(r), NEW i \in AOI12Inv(dag.gate[q], dag.gate[r], v),
                     heap[id].sons = <<dp[l][i[1]], dp[Src(r)[1]][i[2]], dp[Src(r)[2]][i[3]]>>
              PROVE  \A j \in DOMAIN heap[id].sons : SonBelow(id, heap[id].sons[j])
            <4>1. i[1] \in Bit /\ i[2] \in Bit /\ i[3] \in Bit
                BY <3>3 DEF AOI12Inv
            <4>2. /\ SonBelow(id, dp[Src(r)[1]][i[2]]) /\ SonBelow(id, dp[Src(r)[2]][i[3]])
                  /\ SonBelow(id, dp[l][i[1]])
                BY <1>4, <2>2, <3>3, <4>1
            <4>3. QED
                BY <3>3, <4>2, ShortSequences
        <3>4. QED
            BY <3>1, <3>2, <3>3
    <2>9. CASE id[3] = "aoi22"
        <3>0. id = <<q, v, "aoi22">> /\ AOI22Shape(q, v)
            BY <2>3, <2>9 DEF PassShape
        <3>1. \/ Vacant(heap[id])
              \/ /\ Absorbable(l) /\ Absorbable(r)
                 /\ \E i \in AOI22Inv(dag.gate[q], dag.gate[l], dag.gate[r], v) :
                        heap[id].sons = <<dp[Src(l)[1]][i[1]], dp[Src(l)[2]][i[2]],
                                          dp[Src(r)[1]][i[3]], dp[Src(r)[2]][i[4]]>>
            BY <3>0 DEF AOI22Shape, l, r
        <3>2. CASE Vacant(heap[id])
            BY <1>5, <3>2
        <3>3. ASSUME Absorbable(l), Absorbable(r),
                     NEW i \in AOI22Inv(dag.gate[q], dag.gate[l], dag.gate[r], v),
                     heap[id].sons = <<dp[Src(l)[1]][i[1]], dp[Src(l)[2]][i[2]],
                                       dp[Src(r)[1]][i[3]], dp[Src(r)[2]][i[4]]>>
              PROVE  \A j \in DOMAIN heap[id].sons : SonBelow(id, heap[id].sons[j])
            <4>1. i[1] \in Bit /\ i[2] \in Bit /\ i[3] \in Bit /\ i[4] \in Bit
                BY <3>3 DEF AOI22Inv
            <4>2. /\ SonBelow(id, dp[Src(l)[1]][i[1]]) /\ SonBelow(id, dp[Src(l)[2]][i[2]])
                  /\ SonBelow(id, dp[Src(r)[1]][i[3]]) /\ SonBelow(id, dp[Src(r)[2]][i[4]])
                BY <1>4, <2>2, <3>3, <4>1
            <4>3. QED
                BY <3>3, <4>2, ShortSequences
        <3>4. QED
            BY <3>1, <3>2, <3>3
    <2>10. CASE id[3] = "head"
        <3>1. PICK k, l1 \in Kind : HeadShape(q, k, l1)
            BY <2>1 DEF GateShape
        <3>2. /\ k # "head" /\ l1 # "head"
              /\ heap[<<q, 0, "head">>].sons = << <<q, 1, l1>> >>
              /\ heap[<<q, 1, "head">>].sons = << <<q, 0, k>> >>
            BY <3>1 DEF HeadShape, BaseKind
        <3>3. \A w \in Bit, a \in Kind \ {"head"} : SonBelow(id, <<q, w, a>>)
            <4>1. ASSUME NEW w \in Bit, NEW a \in Kind \ {"head"}
                  PROVE  Level(<<q, w, a>>) < Level(id)
                <5>1. Level(id) = 2
                    BY <2>10 DEF Level
                <5>2. Level(<<q, w, a>>) \in {0, 1}
                    BY <1>3 DEF Level, Bit
                <5>3. QED
                    BY <5>1, <5>2
            <4>2. QED
                BY <1>1, <1>3, <4>1 DEF SonBelow
        <3>4. QED
            BY <2>3, <2>10, <3>2, <3>3, ShortSequences, KindFacts
    <2>11. QED
        BY <1>1, <2>4, <2>5, <2>6, <2>7, <2>8, <2>9, <2>10 DEF Kind
<1>8. QED
    BY <1>6, <1>7

-----------------------------------------------------------------------------
(* The shape is kept                                                       *)

\* Two states that differ in nothing but the name.
Alike(a, b) ==
    /\ a.leaf = b.leaf /\ a.cell = b.cell /\ a.sons = b.sons
    /\ a.cost = b.cost /\ a.depth = b.depth /\ a.fn = b.fn

\* The shape of a finished node does not depend on its states' names.
LEMMA ShapeKept ==
    ASSUME IInv, NEW q \in Node, Finished(q), Shape(q), dag' = dag,
           \A n \in Node : Finished(n) => dp'[n] = dp[n],
           \A id \in Id : id[1] = q => Alike(heap'[id], heap[id]),
           Saturated => Saturated'
    PROVE  Shape(q)'
<1>1. q \in Vertex /\ \A i \in DOMAIN Src(q) : Finished(Src(q)[i])
    BY DEF IInv, SourcesFinished, Vertex
<1>2. \A v \in Bit, k \in Kind : Alike(heap'[<<q, v, k>>], heap[<<q, v, k>>])
    BY <1>1, IdFacts
<1>3. \A v \in Bit, k \in Kind : Vacant(heap[<<q, v, k>>]) => Vacant(heap'[<<q, v, k>>])
    BY <1>2 DEF Vacant, Alike
<1>4. \A n, m : n = m => Src(n)' = Src(m)
    BY DEF Src
<1>5. CASE Len(Src(q)) # 2
    <2>1. SimpleShape(q) /\ dp'[q] = dp[q]
        BY <1>5 DEF Shape
    <2>2. Alike(heap'[Ori(q)], heap[Ori(q)]) /\ Alike(heap'[Inv(q)], heap[Inv(q)])
        BY <1>2, KindFacts DEF Ori, Inv
    <2>3. Len(Src(q)) = 1 => dp'[Src(q)[1]] = dp[Src(q)[1]]
        BY <1>1, SourcesBelow DEF Below
    <2>4. SimpleShape(q)'
        <3>1. \A v \in Bit, k \in Kind \ {"dp"} : Vacant(heap'[<<q, v, k>>])
            BY <1>3, <2>1 DEF SimpleShape
        <3>2. dp'[q][0] = Ori(q) /\ dp'[q][1] = Inv(q)
            BY <2>1 DEF SimpleShape
        <3>3. /\ heap'[Ori(q)].leaf <=> IsLeaf(q)
              /\ \/ IsLeaf(q) /\ heap'[Ori(q)].cell = "UNDEFINED" /\ heap'[Ori(q)].sons = <<>>
                 \/ /\ ~IsLeaf(q) /\ Len(Src(q)) = 0
                    /\ heap'[Ori(q)].cell \in {"ONE", "ZERO"} /\ heap'[Ori(q)].sons = <<>>
                 \/ /\ ~IsLeaf(q) /\ Len(Src(q)) = 1 /\ heap'[Ori(q)].cell = "SAME"
                    /\ \E v \in Bit : heap'[Ori(q)].sons = <<dp'[Src(q)[1]][v]>>
            BY <2>1, <2>2, <2>3 DEF SimpleShape, Alike
        <3>4. /\ ~heap'[Inv(q)].leaf
              /\ \/ heap'[Inv(q)].cell = "INV" /\ heap'[Inv(q)].sons = <<Ori(q)>>
                 \/ /\ ~IsLeaf(q) /\ Len(Src(q)) = 0
                    /\ heap'[Inv(q)].cell \in {"ONE", "ZERO"} /\ heap'[Inv(q)].sons = <<>>
            BY <2>1, <2>2 DEF SimpleShape, Alike
        <3>5. QED
            BY <3>1, <3>2, <3>3, <3>4 DEF SimpleShape, Src, IsLeaf, Ori, Inv
    <2>5. QED
        BY <1>5, <2>4 DEF Shape, Src
<1>6. CASE Len(Src(q)) = 2
    <2> DEFINE l == Src(q)[1]
               r == Src(q)[2]
    <2>1. GateShape(q) /\ dp'[q] = dp[q]
        BY <1>6 DEF Shape
    <2>2. /\ dp'[l] = dp[l] /\ dp'[r] = dp[r]
          /\ Absorbable(l) => dp'[Src(l)[1]] = dp[Src(l)[1]] /\ dp'[Src(l)[2]] = dp[Src(l)[2]]
          /\ Absorbable(r) => dp'[Src(r)[1]] = dp[Src(r)[1]] /\ dp'[Src(r)[2]] = dp[Src(r)[2]]
        BY <1>1, <1>6, SourcesBelow DEF Below
    <2>3. /\ \A v \in Bit : Base(q, v)' = Base(q, v) /\ BaseKind(q, v)' = BaseKind(q, v)
          /\ \A n : Absorbable(n)' <=> Absorbable(n)
        BY DEF Base, BaseKind, Absorbable, IsLeaf, FanOut, Src, Uses
    <2>4. ASSUME NEW v \in Bit
          PROVE  PassShape(q, v)'
        <3>1. PassShape(q, v)
            BY <2>1 DEF GateShape
        <3>2. \A k \in Kind : ~heap'[<<q, v, k>>].leaf
            BY <1>2, <3>1 DEF PassShape, Alike
        <3>3. Vacant(heap'[<<q, v, "dp">>])
            BY <1>3, <3>1, KindFacts DEF PassShape
        <3>4. BaseShape(q, v)'
            <4>1. /\ Alike(heap'[<<q, v, "t1">>], heap[<<q, v, "t1">>])
                  /\ Alike(heap'[<<q, v, "t2">>], heap[<<q, v, "t2">>])
                  /\ Vacant(heap[<<q, v, "t2">>]) => Vacant(heap'[<<q, v, "t2">>])
                BY <1>2, <1>3, KindFacts
            <4>2. BaseShape(q, v)
                BY <3>1 DEF PassShape
            <4>3. /\ heap'[<<q, v, "t1">>].cell = Base(q, v).cell
                  /\ heap'[<<q, v, "t1">>].sons = <<dp'[l][Base(q, v).ia], dp'[r][Base(q, v).ib]>>
                BY <2>2, <4>1, <4>2 DEF BaseShape, Alike
            <4>4. IF Base(q, v).head = 0 THEN Vacant(heap'[<<q, v, "t2">>])
                  ELSE /\ heap'[<<q, v, "t2">>].cell = "INV"
                       /\ heap'[<<q, v, "t2">>].sons = << <<q, v, "t1">> >>
                BY <4>1, <4>2 DEF BaseShape, Alike
            <4>5. QED
                BY <2>3, <4>3, <4>4 DEF BaseShape, Src
        <3>5. AOI21Shape(q, v)'
            <4>1. /\ Alike(heap'[<<q, v, "aoi21">>], heap[<<q, v, "aoi21">>])
                  /\ Vacant(heap[<<q, v, "aoi21">>]) => Vacant(heap'[<<q, v, "aoi21">>])
                BY <1>2, <1>3, KindFacts
            <4>2. AOI21Shape(q, v)
                BY <3>1 DEF PassShape
            <4>3. \/ Vacant(heap'[<<q, v, "aoi21">>]) /\ heap'[<<q, v, "aoi21">>].cell = "NONE"
                  \/ /\ Absorbable(l) /\ heap'[<<q, v, "aoi21">>].cell = "AOI21"
                     /\ \E i \in AOI21Inv(dag.gate[q], dag.gate[l], v) :
                          heap'[<<q, v, "aoi21">>].sons =
                            <<dp'[Src(l)[1]][i[1]], dp'[Src(l)[2]][i[2]], dp'[r][i[3]]>>
                BY <2>2, <4>1, <4>2 DEF AOI21Shape, Alike
            <4>4. QED
                BY <2>3, <4>3 DEF AOI21Shape, Src
        <3>6. AOI12Shape(q, v)'
            <4>1. /\ Alike(heap'[<<q, v, "aoi12">>], heap[<<q, v, "aoi12">>])
                  /\ Vacant(heap[<<q, v, "aoi12">>]) => Vacant(heap'[<<q, v, "aoi12">>])
                BY <1>2, <1>3, KindFacts
            <4>2. AOI12Shape(q, v)
                BY <3>1 DEF PassShape
            <4>3. \/ Vacant(heap'[<<q, v, "aoi12">>]) /\ heap'[<<q, v, "aoi12">>].cell = "NONE"
                  \/ /\ Absorbable(r) /\ heap'[<<q, v, "aoi12">>].cell = "AOI12"
                     /\ \E i \in AOI12Inv(dag.gate[q], dag.gate[r], v) :
                          heap'[<<q, v, "aoi12">>].sons =
                            <<dp'[l][i[1]], dp'[Src(r)[1]][i[2]], dp'[Src(r)[2]][i[3]]>>
                BY <2>2, <4>1, <4>2 DEF AOI12Shape, Alike
            <4>4. QED
                BY <2>3, <4>3 DEF AOI12Shape, Src
        <3>7. AOI22Shape(q, v)'
            <4>1. /\ Alike(heap'[<<q, v, "aoi22">>], heap[<<q, v, "aoi22">>])
                  /\ Vacant(heap[<<q, v, "aoi22">>]) => Vacant(heap'[<<q, v, "aoi22">>])
                BY <1>2, <1>3, KindFacts
            <4>2. AOI22Shape(q, v)
                BY <3>1 DEF PassShape
            <4>3. \/ Vacant(heap'[<<q, v, "aoi22">>]) /\ heap'[<<q, v, "aoi22">>].cell = "NONE"
                  \/ /\ Absorbable(l) /\ Absorbable(r) /\ heap'[<<q, v, "aoi22">>].cell = "AOI22"
                     /\ \E i \in AOI22Inv(dag.gate[q], dag.gate[l], dag.gate[r], v) :
                          heap'[<<q, v, "aoi22">>].sons =
                            <<dp'[Src(l)[1]][i[1]], dp'[Src(l)[2]][i[2]],
                              dp'[Src(r)[1]][i[3]], dp'[Src(r)[2]][i[4]]>>
                BY <2>2, <4>1, <4>2 DEF AOI22Shape, Alike
            <4>4. QED
                BY <2>3, <4>3 DEF AOI22Shape, Src
        <3>8. QED
            BY <3>2, <3>3, <3>4, <3>5, <3>6, <3>7 DEF PassShape
    <2>5. \E k1, l1 \in Kind : HeadShape(q, k1, l1)'
        <3>1. PICK k1 \in Kind, l1 \in Kind : HeadShape(q, k1, l1)
            BY <2>1 DEF GateShape
        <3>2. /\ Alike(heap'[<<q, 0, "head">>], heap[<<q, 0, "head">>])
              /\ Alike(heap'[<<q, 1, "head">>], heap[<<q, 1, "head">>])
              /\ Alike(heap'[<<q, 0, k1>>], heap[<<q, 0, k1>>])
              /\ Alike(heap'[<<q, 1, l1>>], heap[<<q, 1, l1>>])
            BY <1>2, KindFacts
        <3>3. Better(heap[<<q, 0, "head">>], heap[<<q, 0, k1>>])
                <=> Better(heap'[<<q, 0, "head">>], heap'[<<q, 0, k1>>])
            BY <3>2 DEF Better, Alike
        <3>4. /\ k1 \in {"dp", BaseKind(q, 0)', "aoi21", "aoi12", "aoi22"}
              /\ l1 \in {"dp", BaseKind(q, 1)', "aoi21", "aoi12", "aoi22"}
              /\ k1 = "dp" \/ l1 = "dp" => Saturated'
            BY <2>3, <3>1, KindFacts DEF HeadShape
        <3>5. /\ heap'[<<q, 0, k1>>].cell # "NONE" /\ heap'[<<q, 1, l1>>].cell # "NONE"
              /\ heap'[<<q, 0, "head">>].cell = "INV"
              /\ heap'[<<q, 0, "head">>].sons = << <<q, 1, l1>> >>
              /\ heap'[<<q, 1, "head">>].cell = "INV"
              /\ heap'[<<q, 1, "head">>].sons = << <<q, 0, k1>> >>
            BY <3>1, <3>2 DEF HeadShape, Alike
        <3>6. /\ dp'[q][1] = <<q, 1, "head">>
              /\ dp'[q][0] = IF Better(heap'[<<q, 0, "head">>], heap'[<<q, 0, k1>>])
                             THEN <<q, 0, "head">> ELSE <<q, 0, k1>>
            BY <2>1, <3>1, <3>3 DEF HeadShape
        <3>7. QED
            BY <3>4, <3>5, <3>6 DEF HeadShape
    <2>6. QED
        BY <1>6, <2>4, <2>5 DEF Shape, GateShape, Src
<1>7. QED
    BY <1>5, <1>6

\* The states that sons on some heap refer to.
LEMMA StatesFacts ==
    ASSUME NEW h, NEW sons \in Seq(Id), \A i \in DOMAIN sons : h[sons[i]] \in DpState
    PROVE  LET s == [i \in DOMAIN sons |-> h[sons[i]]]
           IN  /\ s \in Seq(DpState) /\ Len(s) = Len(sons)
               /\ \A i \in 1..Len(s) : i \in DOMAIN sons /\ s[i] = h[sons[i]]
<1>1. DOMAIN sons = 1..Len(sons) /\ Len(sons) \in Nat
    OBVIOUS
<1>2. QED
    BY <1>1

\* What holds of the states of finished nodes still holds of them after a step.
LEMMA NodesDoneKept ==
    ASSUME IInv, NodesDone, [Next]_vars
    PROVE  /\ Saturated => Saturated'
           /\ \A q \in Node : Finished(q) =>
                Shape(q)' /\ \A id \in Id : id[1] = q => UpToDate(id)' /\ Named(id)'
<1>1. /\ dag' = dag
      /\ \A q \in Node : Finished(q) =>
            Finished(q)' /\ dp'[q] = dp[q] /\ \A id \in Id : id[1] = q => Kept(id)
    BY FinishedKept
<1>2. \A id \in Id : id[1] \in Node => heap[id] \in DpState
    BY ConstantFacts DEF IInv, TypeOK
<1>3. ASSUME NEW id \in Id, id[1] \in Node, Finished(id[1])
      PROVE  /\ heap[id] \in DpState /\ heap'[id] \in DpState
             /\ heap'[id] = [heap[id] EXCEPT !.name = heap'[id].name]
             /\ \/ heap'[id].name = heap[id].name
                \/ id = dp[id[1]][0] /\ heap'[id].name = <<id[1], "">>
             /\ Alike(heap'[id], heap[id])
    BY <1>1, <1>2, <1>3, KeptFacts DEF Alike
<1>4. ASSUME Saturated PROVE Saturated'
    <2>1. PICK id \in Id : id[1] # Model /\ heap[id].cell \notin {"NONE", "UNDEFINED"}
                                         /\ heap[id].cost >= CostMax
        BY <1>4 DEF Saturated
    <2>2. id[1] \in Node /\ id = <<id[1], id[2], id[3]>> /\ id[2] \in Bit /\ id[3] \in Kind
        BY <2>1, IdFacts DEF Vertex
    <2>3. Finished(id[1])
        <3>1. SUFFICES ASSUME ~Finished(id[1]) PROVE FALSE
            OBVIOUS
        <3>2. heap[id] = Placeholder \/ heap[id] = NoState
            BY <2>2, <3>1 DEF IInv, Untouched
        <3>3. QED
            BY <2>1, <3>2, PlaceholderType
    <2>4. QED
        BY <1>3, <2>1, <2>2, <2>3 DEF Saturated, Alike
<1>5. ASSUME NEW q \in Node, Finished(q)
      PROVE  Shape(q)'
    BY <1>1, <1>3, <1>4, <1>5, ShapeKept DEF NodesDone
<1>6. ASSUME NEW q \in Node, Finished(q), NEW id \in Id, id[1] = q
      PROVE  UpToDate(id)'
    <2> DEFINE cell == heap[id].cell
               sons == heap[id].sons
               name == heap[id].name
               new == heap'[id].name
               s == [i \in DOMAIN sons |-> heap[sons[i]]]
               t == [i \in DOMAIN sons |-> heap'[sons[i]]]
    <2>1. /\ heap[id] \in DpState /\ heap'[id] \in DpState /\ Alike(heap'[id], heap[id])
          /\ heap'[id] = [heap[id] EXCEPT !.name = new]
        BY <1>3, <1>6
    <2>2. SUFFICES ASSUME cell \notin {"NONE", "UNDEFINED"}
                   PROVE  UpToDate(id)'
        BY <2>1 DEF UpToDate, Alike
    <2>3. name \in Vertex \X Tag /\ new \in Vertex \X Tag /\ cell \in CellType /\ sons \in Seq(Id)
        BY <2>1, <2>2 DEF DpState
    <2>4. \A i \in DOMAIN sons : /\ heap[sons[i]] \in DpState /\ heap'[sons[i]] \in DpState
                                 /\ Alike(heap'[sons[i]], heap[sons[i]])
        <3>1. TAKE i \in DOMAIN sons
        <3>2. SonBelow(id, sons[i])
            BY <1>6, SonsOfFinished DEF NodesDone
        <3>3. sons[i] \in Id /\ sons[i][1] \in Node /\ Finished(sons[i][1])
            <4>1. CASE sons[i] \in Id /\ sons[i][1] = id[1]
                BY <1>6, <4>1
            <4>2. CASE \E n \in Node, w \in Bit : Below(n, id[1]) /\ sons[i] = dp[n][w]
                <5>1. PICK n \in Node, w \in Bit : Finished(n) /\ sons[i] = dp[n][w]
                    BY <4>2 DEF Below
                <5>2. QED
                    BY <5>1, FinishedStates
            <4>3. QED
                BY <3>2, <4>1, <4>2 DEF SonBelow
        <3>4. QED
            BY <1>3, <3>3
    <2>5. heap[id] = Updated(name, cell, sons, s)
        BY <1>6, <2>2 DEF NodesDone, UpToDate, OnHeap, States
    <2> HIDE DEF cell, sons, name, new
    <2>6. /\ s \in Seq(DpState) /\ Len(s) = Len(sons)
          /\ \A i \in 1..Len(s) : i \in DOMAIN sons /\ s[i] = heap[sons[i]]
        BY <2>3, <2>4, StatesFacts
    <2>7. /\ t \in Seq(DpState) /\ Len(t) = Len(sons)
          /\ \A i \in 1..Len(t) : i \in DOMAIN sons /\ t[i] = heap'[sons[i]]
        BY <2>3, <2>4, StatesFacts
    <2> HIDE DEF s
    <2>8. [heap[id] EXCEPT !.name = new] = Updated(new, cell, sons, s)
        BY <2>3, <2>5, <2>6, UpdatedRenamed
    <2>9. Updated(new, cell, sons, s) = Updated(new, cell, sons, t)
        <3> HIDE DEF t
        <3>1. \A i \in 1..Len(s) : s[i].cost = t[i].cost /\ s[i].depth = t[i].depth /\ s[i].fn = t[i].fn
            BY <2>4, <2>6, <2>7 DEF Alike
        <3>2. QED
            BY <2>6, <2>7, <3>1, UpdatedSame
    <2>10. heap'[id] = Updated(heap'[id].name, heap'[id].cell, heap'[id].sons,
                               [i \in DOMAIN heap'[id].sons |-> heap'[heap'[id].sons[i]]])
        <3>1. heap'[id].cell = cell /\ heap'[id].sons = sons /\ heap'[id].name = new
            BY <2>1 DEF Alike, cell, sons, new
        <3>2. heap'[id] = Updated(new, cell, sons, t)
            BY <2>1, <2>8, <2>9
        <3>3. QED
            BY <3>1, <3>2
    <2>11. QED
        BY <2>10 DEF UpToDate, OnHeap, States
<1>7. ASSUME NEW q \in Node, Finished(q), NEW id \in Id, id[1] = q
      PROVE  Named(id)'
    <2>1. /\ Alike(heap'[id], heap[id]) /\ dp'[q] = dp[q]
          /\ heap'[id].name = heap[id].name \/ (id = dp[q][0] /\ heap'[id].name = <<q, "">>)
        BY <1>1, <1>3, <1>7
    <2>2. Named(id)
        BY <1>7 DEF NodesDone
    <2>3. TagOf(id)' = TagOf(id)
        BY <1>1 DEF TagOf, Src, Base
    <2>4. Vacant(heap[id]) => Vacant(heap'[id])
        BY <2>1 DEF Alike, Vacant
    <2>5. QED
        BY <1>7, <2>1, <2>2, <2>3, <2>4 DEF Named
<1>8. QED
    BY <1>4, <1>5, <1>6, <1>7

-----------------------------------------------------------------------------
(* The shape of a node whose call returns                                  *)

\* What every step that finishes a node has to show of it.
Done(p) == Shape(p) /\ \A id \in Id : id[1] = p => UpToDate(id) /\ Named(id)

\* A vacant state is up to date, whatever its name.
LEMMA VacantDone == \A id : Vacant(heap'[id]) => UpToDate(id)' /\ Named(id)'
BY DEF Vacant, UpToDate, Named

\* What the second state of an input, a constant, a buffer or an inverter is called.
LEMMA SimpleTag ==
    ASSUME NEW id, Len(dag'.src[id[1]]) # 2, id[2] = 1
    PROVE  TagOf(id)' = "virtually_inverse"
BY DEF TagOf, Src

\* The two placeholders filled: the other addresses of the node stay as they were.
LEMMA SimpleDone ==
    ASSUME IInv, NEW p \in Node, Running(p), Len(Src(p)) # 2, dp' = dp, dag' = dag,
           NEW ori \in DpState, NEW inv \in DpState,
           heap' = [heap EXCEPT ![Ori(p)] = ori, ![Inv(p)] = inv],
           ori.name = <<p, "">>, inv.name = <<p, "virtually_inverse">>,
           ori.leaf <=> IsLeaf(p), ~inv.leaf,
           \/ IsLeaf(p) /\ ori.cell = "UNDEFINED" /\ ori.sons = <<>>
           \/ /\ ~IsLeaf(p) /\ Len(Src(p)) = 0
              /\ ori.cell \in {"ONE", "ZERO"} /\ ori.sons = <<>>
           \/ /\ ~IsLeaf(p) /\ Len(Src(p)) = 1 /\ ori.cell = "SAME"
              /\ \E v \in Bit : ori.sons = <<dp[Src(p)[1]][v]>>,
           \/ inv.cell = "INV" /\ inv.sons = <<Ori(p)>>
           \/ /\ ~IsLeaf(p) /\ Len(Src(p)) = 0
              /\ inv.cell \in {"ONE", "ZERO"} /\ inv.sons = <<>>,
           UpToDate(Ori(p))', UpToDate(Inv(p))'
    PROVE  Done(p)'
<1>1. /\ p \in Vertex /\ p # Model /\ Ori(p) \in Id /\ Inv(p) \in Id
      /\ Ori(p)[1] = p /\ Inv(p)[1] = p /\ Ori(p) # Inv(p)
      /\ dp[p][0] = Ori(p) /\ dp[p][1] = Inv(p)
    BY PlaceholdersOfRunning
<1>2. \A id \in Id : heap'[id] = IF id = Inv(p) THEN inv ELSE IF id = Ori(p) THEN ori ELSE heap[id]
    BY <1>1 DEF IInv, TypeOK
<1>3. \A v \in Bit, k \in Kind \ {"dp"} :
        <<p, v, k>> \in Id /\ <<p, v, k>> # Ori(p) /\ <<p, v, k>> # Inv(p)
    BY <1>1, IdFacts DEF Ori, Inv
<1>4. \A v \in Bit, k \in Kind \ {"dp"} : Vacant(heap'[<<p, v, k>>])
    <2>1. ~Finished(p)
        BY <1>1, RunningFacts
    <2>2. \A v \in Bit, k \in Kind \ {"dp"} : heap[<<p, v, k>>] = NoState
        BY <2>1 DEF IInv, Untouched
    <2>3. Vacant(NoState)
        BY DEF Vacant, NoState
    <2>4. QED
        BY <1>2, <1>3, <2>2, <2>3
<1>5. heap'[Ori(p)] = ori /\ heap'[Inv(p)] = inv
    BY <1>1, <1>2
<1>6. SimpleShape(p)'
    <2>1. dp'[p][0] = Ori(p) /\ dp'[p][1] = Inv(p)
        BY <1>1
    <2>2. /\ heap'[Ori(p)].leaf <=> IsLeaf(p)
          /\ \/ IsLeaf(p) /\ heap'[Ori(p)].cell = "UNDEFINED" /\ heap'[Ori(p)].sons = <<>>
             \/ /\ ~IsLeaf(p) /\ Len(Src(p)) = 0
                /\ heap'[Ori(p)].cell \in {"ONE", "ZERO"} /\ heap'[Ori(p)].sons = <<>>
             \/ /\ ~IsLeaf(p) /\ Len(Src(p)) = 1 /\ heap'[Ori(p)].cell = "SAME"
                /\ \E v \in Bit : heap'[Ori(p)].sons = <<dp'[Src(p)[1]][v]>>
        BY <1>5
    <2>3. /\ ~heap'[Inv(p)].leaf
          /\ \/ heap'[Inv(p)].cell = "INV" /\ heap'[Inv(p)].sons = <<Ori(p)>>
             \/ /\ ~IsLeaf(p) /\ Len(Src(p)) = 0
                /\ heap'[Inv(p)].cell \in {"ONE", "ZERO"} /\ heap'[Inv(p)].sons = <<>>
        BY <1>5
    <2>4. QED
        BY <1>4, <2>1, <2>2, <2>3 DEF SimpleShape, Src, IsLeaf, Ori, Inv
<1>7. Shape(p)'
    BY <1>6 DEF Shape, Src
<1>8. ASSUME NEW id \in Id, id[1] = p
      PROVE  UpToDate(id)' /\ Named(id)'
    <2>1. id = <<p, id[2], id[3]>> /\ id[2] \in Bit /\ id[3] \in Kind
        BY <1>8, IdFacts
    <2>2. CASE id[3] # "dp"
        <3>1. Vacant(heap'[id])
            BY <1>4, <2>1, <2>2
        <3>2. QED
            BY <3>1, VacantDone
    <2>3. CASE id[3] = "dp" /\ id[2] = 0
        <3>1. id = Ori(p)
            BY <2>1, <2>3 DEF Ori
        <3>2. heap'[id].name = <<p, "">> /\ dp'[p][0] = id
            BY <1>1, <1>5, <3>1
        <3>3. QED
            BY <1>8, <3>1, <3>2 DEF Named
    <2>4. CASE id[3] = "dp" /\ id[2] = 1
        <3>1. id = Inv(p)
            BY <2>1, <2>4 DEF Inv
        <3>2. heap'[id].name = <<p, "virtually_inverse">>
            BY <1>5, <3>1
        <3>3. TagOf(id)' = "virtually_inverse"
            <4>1. Len(dag'.src[p]) # 2
                BY DEF Src
            <4>2. Len(dag'.src[id[1]]) # 2
                BY <1>8, <4>1
            <4>3. QED
                BY <2>4, <4>2, SimpleTag
        <3>4. QED
            BY <1>8, <3>1, <3>2, <3>3 DEF Named
    <2>5. QED
        BY <2>1, <2>2, <2>3, <2>4, KindFacts
<1>9. QED
    BY <1>7, <1>8 DEF Done

\* The inverse that InPlace makes.
LEMMA InPlaceInverse ==
    ASSUME IInv, NEW p \in Node, Running(p), NEW ori \in DpState, heap' = InPlace(p, ori)
    PROVE  LET inv == InvOf(<<p, "virtually_inverse">>, Ori(p), ori)
           IN  /\ inv \in DpState /\ inv.name = <<p, "virtually_inverse">> /\ ~inv.leaf
               /\ inv.cell = "INV" /\ inv.sons = <<Ori(p)>>
               /\ heap' = [heap EXCEPT ![Ori(p)] = ori, ![Inv(p)] = inv]
               /\ heap'[Ori(p)] = ori /\ UpToDate(Inv(p))'
<1> DEFINE name == <<p, "virtually_inverse">>
           son == Ori(p)
           sons == <<son>>
           states == <<ori>>
           cell == "INV"
           inv == InvOf(name, son, ori)
<1>1. /\ p \in Vertex /\ Ori(p) \in Id /\ Inv(p) \in Id /\ Ori(p) # Inv(p)
    BY PlaceholdersOfRunning
<1>2. heap' = [heap EXCEPT ![Ori(p)] = ori, ![Inv(p)] = inv]
    BY DEF InPlace
<1>3. heap'[Ori(p)] = ori /\ heap'[Inv(p)] = inv
    BY <1>1, <1>2 DEF IInv, TypeOK
<1>4. name \in Vertex \X Tag /\ sons \in Seq(Id) /\ states \in Seq(DpState) /\ cell \in CellType
    <2>1. name \in Vertex \X Tag
        BY <1>1 DEF Tag
    <2>2. sons \in Seq(Id) /\ states \in Seq(DpState) /\ cell \in CellType
        BY <1>1, KindFacts
    <2>3. QED
        BY <2>1, <2>2
<1>5. inv = Updated(name, cell, sons, states)
    BY DEF InvOf
<1>6. Len(states) = Len(sons) /\ \A i \in DOMAIN sons : heap'[sons[i]] = states[i]
    BY <1>3
<1> HIDE DEF name, sons, states, cell, inv
<1>7. inv \in DpState /\ inv.name = name /\ ~inv.leaf /\ inv.cell = cell /\ inv.sons = sons
    BY <1>4, <1>5, UpdatedType, UpdatedFields
<1>8. UpToDate(Inv(p))'
    BY <1>3, <1>4, <1>5, <1>6, FreshlyUpdated
<1>9. QED
    BY <1>2, <1>3, <1>7, <1>8 DEF name, sons, cell, inv

\* An input's state has no cell.
LEMMA FinishLeafDone ==
    ASSUME IInv, NEW p \in Vertex, FinishLeaf(p)
    PROVE  Done(p)'
<1> DEFINE ori == Input(p)
           inv == InvOf(<<p, "virtually_inverse">>, Ori(p), ori)
<1>1. /\ p \in Node /\ Running(p) /\ dag' = dag /\ dp' = dp
      /\ heap' = InPlace(p, ori) /\ IsLeaf(p) /\ WellFormed(dag)
    BY DEF FinishLeaf, Vertex, IInv, TypeOK
<1>2. Len(Src(p)) # 2
    <2>1. Src(p) = <<>>
        BY <1>1 DEF WellFormed, Src, IsLeaf
    <2>2. QED
        BY <2>1
<1>3. /\ ori \in DpState /\ ori.name = <<p, "">> /\ ori.leaf /\ ori.cell = "UNDEFINED"
      /\ ori.sons = <<>>
    <2> DEFINE name == <<p, "">>
               fn == dag.fn[p]
    <2>1. name \in Vertex \X Tag /\ fn \in [Assign -> Bit]
        BY <1>1 DEF WellFormed, Tag
    <2>2. ori = [name |-> name, leaf |-> TRUE, cell |-> "UNDEFINED", sons |-> <<>>,
                 cost |-> 0, depth |-> 0, fn |-> fn]
        BY DEF Input
    <2>3. <<>> \in Seq(Id) /\ "UNDEFINED" \in CellType \cup {"NONE"}
        BY KindFacts
    <2> HIDE DEF fn
    <2>4. ori.name = name /\ ori.leaf /\ ori.cell = "UNDEFINED" /\ ori.sons = <<>>
        <3> HIDE DEF name
        <3>1. ori.name = name
            BY <2>2
        <3>2. ori.leaf
            BY <2>2
        <3>3. ori.cell = "UNDEFINED" /\ ori.sons = <<>>
            BY <2>2
        <3>4. QED
            BY <3>1, <3>2, <3>3
    <2> HIDE DEF name, ori
    <2>5. ori \in DpState
        BY <2>1, <2>2, <2>3 DEF DpState
    <2>6. QED
        BY <2>4, <2>5 DEF name
<1> HIDE DEF ori
<1>4. /\ inv \in DpState /\ inv.name = <<p, "virtually_inverse">> /\ ~inv.leaf
      /\ inv.cell = "INV" /\ inv.sons = <<Ori(p)>>
      /\ heap' = [heap EXCEPT ![Ori(p)] = ori, ![Inv(p)] = inv]
      /\ heap'[Ori(p)] = ori /\ UpToDate(Inv(p))'
    BY <1>1, <1>3, InPlaceInverse
<1>5. UpToDate(Ori(p))'
    BY <1>3, <1>4 DEF UpToDate
<1> HIDE DEF inv
<1>6. QED
    BY <1>1, <1>2, <1>3, <1>4, <1>5, SimpleDone

\* A constant's state, and its inverse, an INV or the other constant.
LEMMA FinishConstantDone ==
    ASSUME IInv, NEW p \in Vertex, FinishConstant(p)
    PROVE  Done(p)'
<1> DEFINE out == dag.gate[p].out
           name == <<p, "">>
           tau == <<p, "virtually_inverse">>
           bit == Flip(out, 1)
           ori == Constant(name, out)
           inv == Constant(tau, bit)
           neg == InvOf(tau, Ori(p), ori)
<1>1. /\ p \in Node /\ Running(p) /\ dag' = dag /\ dp' = dp
      /\ ~IsLeaf(p) /\ WellFormed(dag) /\ Len(Src(p)) = 0
      /\ heap' = IF FanOut(p) > 1 THEN InPlace(p, ori)
                 ELSE [heap EXCEPT ![Ori(p)] = ori, ![Inv(p)] = inv]
    BY DEF FinishConstant, Vertex, IInv, TypeOK
<1>0. Len(Src(p)) # 2
    <2>1. Len(Src(p)) = 0
        BY DEF FinishConstant
    <2>2. QED
        BY <2>1
<1>2. out \in Bit /\ bit \in Bit
    <2>1. dag.gate[p] \in Gate
        BY <1>1, NetlistFacts
    <2>2. out \in Bit
        BY <2>1 DEF Gate
    <2> HIDE DEF out
    <2>3. QED
        BY <2>2, BitsOfBits, KindFacts
<1>3. name \in Vertex \X Tag
    BY <1>1 DEF Tag
<1>4. tau \in Vertex \X Tag
    BY <1>1 DEF Tag
<1>5. /\ p \in Vertex /\ Ori(p) \in Id /\ Inv(p) \in Id /\ Ori(p) # Inv(p)
    BY <1>1, PlaceholdersOfRunning
<1> HIDE DEF out, name, tau, bit
<1>6. ASSUME NEW n \in Vertex \X Tag, NEW b \in Bit
      PROVE  /\ Constant(n, b) \in DpState /\ Constant(n, b).name = n
             /\ ~Constant(n, b).leaf /\ Constant(n, b).cell \in {"ONE", "ZERO"}
             /\ Constant(n, b).sons = <<>>
    <2>1. Constant(n, b) \in DpState /\ Constant(n, b).sons = <<>>
        BY ConstantType
    <2>2. Constant(n, b).name = n
        BY DEF Constant
    <2>3. ~Constant(n, b).leaf
        BY DEF Constant
    <2>4. Constant(n, b).cell \in {"ONE", "ZERO"}
        BY DEF Constant
    <2>5. QED
        BY <2>1, <2>2, <2>3, <2>4
<1>7. /\ ori \in DpState /\ ori.name = name /\ ~ori.leaf /\ ori.cell \in {"ONE", "ZERO"}
      /\ ori.sons = <<>>
      /\ inv \in DpState /\ inv.name = tau /\ ~inv.leaf /\ inv.cell \in {"ONE", "ZERO"}
      /\ inv.sons = <<>>
    BY <1>2, <1>3, <1>4, <1>6
<1>8. heap'[Ori(p)] = ori => UpToDate(Ori(p))'
    BY <1>2, ConstantUpToDate
<1>9. heap'[Inv(p)] = inv => UpToDate(Inv(p))'
    BY <1>2, ConstantUpToDate
<1> HIDE DEF ori, inv
<1>10. CASE FanOut(p) > 1
    <2>1. heap' = InPlace(p, ori)
        BY <1>1, <1>10
    <2>2. /\ neg \in DpState /\ neg.name = tau /\ ~neg.leaf
          /\ neg.cell = "INV" /\ neg.sons = <<Ori(p)>>
          /\ heap' = [heap EXCEPT ![Ori(p)] = ori, ![Inv(p)] = neg]
          /\ heap'[Ori(p)] = ori /\ UpToDate(Inv(p))'
        BY <1>1, <1>7, <2>1, InPlaceInverse DEF tau
    <2> HIDE DEF neg
    <2>3. QED
        BY <1>0, <1>1, <1>7, <1>8, <2>2, SimpleDone DEF name, tau
<1>11. CASE ~(FanOut(p) > 1)
    <2>1. heap' = [heap EXCEPT ![Ori(p)] = ori, ![Inv(p)] = inv]
        BY <1>1, <1>11
    <2>2. heap'[Ori(p)] = ori /\ heap'[Inv(p)] = inv
        BY <1>5, <2>1 DEF IInv, TypeOK
    <2>3. QED
        BY <1>0, <1>1, <1>7, <1>8, <1>9, <2>1, <2>2, SimpleDone DEF name, tau
<1>12. QED
    BY <1>10, <1>11

\* A buffer's or an inverter's state is a SAME on one of its source's states.
LEMMA FinishUnaryDone ==
    ASSUME IInv, NEW p \in Vertex, FinishUnary(p)
    PROVE  Done(p)'
<1> DEFINE n == Src(p)[1]
           v == Truth(~(dag.gate[p].a = dag.gate[p].out))
           son == dp[n][v]
           sons == <<son>>
           name == <<p, "">>
           cell == "SAME"
           ori == OnHeap(name, cell, sons)
           inv == InvOf(<<p, "virtually_inverse">>, Ori(p), ori)
<1>1. /\ p \in Node /\ Running(p) /\ dag' = dag /\ dp' = dp
      /\ WellFormed(dag) /\ Len(Src(p)) = 1
      /\ heap' = InPlace(p, ori) /\ \A i \in DOMAIN Src(p) : Defined(Src(p)[i])
    BY DEF FinishUnary, Ready, Vertex, IInv, TypeOK
<1>0. Len(Src(p)) = 1 /\ Len(Src(p)) # 2
    <2>1. Len(Src(p)) = 1
        BY DEF FinishUnary
    <2>2. QED
        BY <2>1
<1>2. ~IsLeaf(p)
    <2>1. IsLeaf(p) => Src(p) = <<>>
        BY <1>1 DEF WellFormed, Src, IsLeaf
    <2>2. Len(<<>>) # 1
        OBVIOUS
    <2>3. QED
        BY <1>0, <2>1, <2>2
<1>3. /\ p \in Vertex /\ Ori(p) \in Id /\ Inv(p) \in Id /\ Ori(p)[1] = p /\ Inv(p)[1] = p
      /\ Ori(p) # Inv(p)
    BY <1>1, PlaceholdersOfRunning
<1>4. n \in Node /\ Finished(n) /\ n # p /\ v \in Bit
    <2>1. \A i \in DOMAIN Src(p) : Finished(Src(p)[i])
        BY <1>1, RunningFacts
    <2>2. n \in Node /\ Finished(n)
        BY <1>1, <2>1, SourcesBelow DEF Below
    <2>3. ~Finished(p)
        BY <1>1, RunningFacts
    <2>4. v \in Bit
        BY DEF Truth, Bit
    <2>5. QED
        BY <2>2, <2>3, <2>4
<1> HIDE DEF n, v
<1>5. son \in Id /\ son[1] # p /\ heap[son] \in DpState
    BY <1>4, FinishedStates
<1>6. name \in Vertex \X Tag
    BY <1>1 DEF Tag
<1>7. sons \in Seq(Id) /\ sons[1] = son /\ DOMAIN sons = {1} /\ cell \in CellType
    BY <1>5, KindFacts
<1> HIDE DEF son, name
<1>8. /\ States(sons) \in Seq(DpState) /\ Len(States(sons)) = Len(sons)
      /\ \A i \in DOMAIN sons : States(sons)[i] = heap[sons[i]]
    <2> HIDE DEF sons
    <2>1. \A i \in DOMAIN sons : heap[sons[i]] \in DpState
        BY <1>5, <1>7
    <2>2. LET s == [i \in DOMAIN sons |-> heap[sons[i]]]
          IN  /\ s \in Seq(DpState) /\ Len(s) = Len(sons)
              /\ \A i \in 1..Len(s) : i \in DOMAIN sons /\ s[i] = heap[sons[i]]
        BY <1>7, <2>1, StatesFacts
    <2>3. \A s \in Seq(Id) : DOMAIN s = 1..Len(s)
        OBVIOUS
    <2>4. QED
        BY <1>7, <2>2, <2>3 DEF States
<1>9. ori = Updated(name, cell, sons, States(sons))
    BY DEF OnHeap
<1> HIDE DEF sons, cell, ori
<1>10. ori \in DpState /\ ori.name = name /\ ~ori.leaf /\ ori.cell = cell /\ ori.sons = sons
    BY <1>6, <1>7, <1>8, <1>9, UpdatedType, UpdatedFields
<1>11. /\ inv \in DpState /\ inv.name = <<p, "virtually_inverse">> /\ ~inv.leaf
       /\ inv.cell = "INV" /\ inv.sons = <<Ori(p)>>
       /\ heap' = [heap EXCEPT ![Ori(p)] = ori, ![Inv(p)] = inv]
       /\ heap'[Ori(p)] = ori /\ UpToDate(Inv(p))'
    BY <1>1, <1>10, InPlaceInverse
<1> HIDE DEF inv
<1>12. UpToDate(Ori(p))'
    <2>1. heap'[son] = heap[son]
        <3>1. son # Ori(p) /\ son # Inv(p)
            BY <1>3, <1>5
        <3>2. DOMAIN heap = Id
            BY DEF IInv, TypeOK
        <3>3. QED
            BY <1>3, <1>5, <1>11, <3>1, <3>2
    <2>2. \A i \in DOMAIN sons : heap'[sons[i]] = States(sons)[i]
        BY <1>7, <1>8, <2>1
    <2>3. heap'[Ori(p)] = Updated(name, cell, sons, States(sons))
        BY <1>9, <1>11
    <2>4. QED
        BY <1>6, <1>7, <1>8, <2>2, <2>3, FreshlyUpdated
<1>13. ori.cell = "SAME" /\ \E w \in Bit : ori.sons = <<dp[Src(p)[1]][w]>>
    BY <1>4, <1>10 DEF cell, sons, son, n
<1>14. ori.name = <<p, "">>
    BY <1>10 DEF name
<1>15. QED
    BY <1>0, <1>1, <1>2, <1>10, <1>11, <1>12, <1>13, <1>14, SimpleDone

-----------------------------------------------------------------------------
(* The shape of a two-input gate whose call returns                        *)

\* A state that pass v of p takes as a son: another node's.
Taken(p, son) == son \in Id /\ son[1] # p /\ heap[son] \in DpState

\* The states of a node below p may be sons of what p is covered with.
LEMMA TakenFacts ==
    ASSUME IInv, NEW p \in Node, NEW n, Below(n, p), NEW w \in Bit
    PROVE  Taken(p, dp[n][w])
<1>1. n # p
    BY NetlistFacts DEF Below, IInv, TypeOK, Vertex
<1>2. QED
    BY <1>1, FinishedStates DEF Below, Taken

\* A cover of gate p, made of other nodes' states, as the step leaves it.
LEMMA CoverDone ==
    ASSUME NEW p \in Node, NEW name \in Vertex \X Tag, NEW cell \in CellType,
           NEW sons \in Seq(Id), \A i \in DOMAIN sons : Taken(p, sons[i]),
           \A id \in Id : id[1] # p => heap'[id] = heap[id],
           NEW id, heap'[id] = OnHeap(name, cell, sons)
    PROVE  /\ UpToDate(id)' /\ heap'[id].name = name /\ ~heap'[id].leaf
           /\ heap'[id].cell = cell /\ heap'[id].sons = sons
<1> DEFINE s == States(sons)
<1>1. \A i \in DOMAIN sons : heap[sons[i]] \in DpState
    BY DEF Taken
<1>2. /\ s \in Seq(DpState) /\ Len(s) = Len(sons)
      /\ \A i \in DOMAIN sons : s[i] = heap[sons[i]]
    <2>1. LET t == [i \in DOMAIN sons |-> heap[sons[i]]]
          IN  /\ t \in Seq(DpState) /\ Len(t) = Len(sons)
              /\ \A i \in 1..Len(t) : i \in DOMAIN sons /\ t[i] = heap[sons[i]]
        BY <1>1, StatesFacts
    <2>2. DOMAIN sons = 1..Len(sons)
        OBVIOUS
    <2>3. QED
        BY <2>1, <2>2 DEF States
<1>3. heap'[id] = Updated(name, cell, sons, s)
    BY DEF OnHeap
<1> HIDE DEF s
<1>4. \A i \in DOMAIN sons : heap'[sons[i]] = s[i]
    BY <1>2 DEF Taken
<1>5. UpToDate(id)'
    BY <1>2, <1>3, <1>4, FreshlyUpdated
<1> DEFINE u == Updated(name, cell, sons, s)
<1>6. u.name = name /\ ~u.leaf /\ u.cell = cell /\ u.sons = sons
    BY <1>2, UpdatedFields
<1> HIDE DEF u
<1>7. heap'[id] = u
    BY <1>3 DEF u
<1>8. QED
    BY <1>5, <1>6, <1>7

\* An INV of gate p on another state of the same node, as the step leaves it.
LEMMA InverterDone ==
    ASSUME NEW name \in Vertex \X Tag, NEW son \in Id, heap'[son] \in DpState,
           NEW id, heap'[id] = InvOf(name, son, heap'[son])
    PROVE  /\ UpToDate(id)' /\ heap'[id].name = name /\ ~heap'[id].leaf
           /\ heap'[id].cell = "INV" /\ heap'[id].sons = <<son>>
<1> DEFINE sons == <<son>>
           states == <<heap'[son]>>
           cell == "INV"
           st == Updated(name, cell, sons, states)
<1>1. sons \in Seq(Id) /\ states \in Seq(DpState) /\ cell \in CellType
    BY KindFacts
<1>2. heap'[id] = st
    BY DEF InvOf
<1>3. Len(states) = Len(sons) /\ \A i \in DOMAIN sons : heap'[sons[i]] = states[i]
    OBVIOUS
<1> HIDE DEF sons, states, cell
<1>4. st.name = name /\ ~st.leaf /\ st.cell = cell /\ st.sons = sons
    BY <1>1, UpdatedFields
<1>5. UpToDate(id)'
    BY <1>1, <1>2, <1>3, FreshlyUpdated
<1> HIDE DEF st
<1>6. QED
    BY <1>2, <1>4, <1>5 DEF cell, sons

\* The AOI cells that a pass finds.
LEMMA AOI21Made ==
    ASSUME IInv, NEW p \in Node, Len(Src(p)) = 2,
           \A i \in DOMAIN Src(p) : Finished(Src(p)[i]), NEW v \in Bit
    PROVE  LET l == Src(p)[1]   r == Src(p)[2]
           IN  \/ AOI21State(p, v) = NoState
               \/ /\ Absorbable(l)
                  /\ \E i \in AOI21Inv(dag.gate[p], dag.gate[l], v) :
                     LET sons == <<dp[Src(l)[1]][i[1]], dp[Src(l)[2]][i[2]], dp[r][i[3]]>>
                     IN  /\ AOI21State(p, v) = OnHeap(<<p, "AIO21">>, "AOI21", sons)
                         /\ sons \in Seq(Id) /\ \A j \in DOMAIN sons : Taken(p, sons[j])
<1> DEFINE l == Src(p)[1]
           r == Src(p)[2]
           invs == AOI21Inv(dag.gate[p], dag.gate[l], v)
           i == CHOOSE j \in invs : TRUE
           a == dp[Src(l)[1]][i[1]]
           b == dp[Src(l)[2]][i[2]]
           c == dp[r][i[3]]
           sons == <<a, b, c>>
<1>1. CASE ~Absorbable(l) \/ invs = {}
    BY <1>1 DEF AOI21State
<1>2. CASE Absorbable(l) /\ invs # {}
    <2>1. AOI21State(p, v) = OnHeap(<<p, "AIO21">>, "AOI21", sons)
        BY <1>2 DEF AOI21State
    <2>2. i \in invs
        BY <1>2
    <2>3. i[1] \in Bit /\ i[2] \in Bit /\ i[3] \in Bit
        BY <2>2 DEF AOI21Inv
    <2> HIDE DEF i
    <2>4. Taken(p, a) /\ Taken(p, b) /\ Taken(p, c)
        BY <1>2, <2>3, SourcesBelow, TakenFacts
    <2>5. sons \in Seq(Id) /\ \A j \in DOMAIN sons : Taken(p, sons[j])
        <3> HIDE DEF a, b, c
        <3>1. QED
            BY <2>4 DEF Taken
    <2>6. QED
        BY <1>2, <2>1, <2>2, <2>5
<1>3. QED
    BY <1>1, <1>2

\* The same for AOI12.
LEMMA AOI12Made ==
    ASSUME IInv, NEW p \in Node, Len(Src(p)) = 2,
           \A i \in DOMAIN Src(p) : Finished(Src(p)[i]), NEW v \in Bit
    PROVE  LET l == Src(p)[1]   r == Src(p)[2]
           IN  \/ AOI12State(p, v) = NoState
               \/ /\ Absorbable(r)
                  /\ \E i \in AOI12Inv(dag.gate[p], dag.gate[r], v) :
                     LET sons == <<dp[l][i[1]], dp[Src(r)[1]][i[2]], dp[Src(r)[2]][i[3]]>>
                     IN  /\ AOI12State(p, v) = OnHeap(<<p, "AIO12">>, "AOI12", sons)
                         /\ sons \in Seq(Id) /\ \A j \in DOMAIN sons : Taken(p, sons[j])
<1> DEFINE l == Src(p)[1]
           r == Src(p)[2]
           invs == AOI12Inv(dag.gate[p], dag.gate[r], v)
           i == CHOOSE j \in invs : TRUE
           a == dp[l][i[1]]
           b == dp[Src(r)[1]][i[2]]
           c == dp[Src(r)[2]][i[3]]
           sons == <<a, b, c>>
<1>1. CASE ~Absorbable(r) \/ invs = {}
    BY <1>1 DEF AOI12State
<1>2. CASE Absorbable(r) /\ invs # {}
    <2>1. AOI12State(p, v) = OnHeap(<<p, "AIO12">>, "AOI12", sons)
        BY <1>2 DEF AOI12State
    <2>2. i \in invs
        BY <1>2
    <2>3. i[1] \in Bit /\ i[2] \in Bit /\ i[3] \in Bit
        BY <2>2 DEF AOI12Inv
    <2> HIDE DEF i
    <2>4. Taken(p, a) /\ Taken(p, b) /\ Taken(p, c)
        BY <1>2, <2>3, SourcesBelow, TakenFacts
    <2>5. sons \in Seq(Id) /\ \A j \in DOMAIN sons : Taken(p, sons[j])
        <3> HIDE DEF a, b, c
        <3>1. QED
            BY <2>4 DEF Taken
    <2>6. QED
        BY <1>2, <2>1, <2>2, <2>5
<1>3. QED
    BY <1>1, <1>2

\* The same for AOI22.
LEMMA AOI22Made ==
    ASSUME IInv, NEW p \in Node, Len(Src(p)) = 2,
           \A i \in DOMAIN Src(p) : Finished(Src(p)[i]), NEW v \in Bit
    PROVE  LET l == Src(p)[1]   r == Src(p)[2]
           IN  \/ AOI22State(p, v) = NoState
               \/ /\ Absorbable(l) /\ Absorbable(r)
                  /\ \E i \in AOI22Inv(dag.gate[p], dag.gate[l], dag.gate[r], v) :
                     LET sons == <<dp[Src(l)[1]][i[1]], dp[Src(l)[2]][i[2]],
                                   dp[Src(r)[1]][i[3]], dp[Src(r)[2]][i[4]]>>
                     IN  /\ AOI22State(p, v) = OnHeap(<<p, "AOI22">>, "AOI22", sons)
                         /\ sons \in Seq(Id) /\ \A j \in DOMAIN sons : Taken(p, sons[j])
<1> DEFINE l == Src(p)[1]
           r == Src(p)[2]
           invs == AOI22Inv(dag.gate[p], dag.gate[l], dag.gate[r], v)
           i == CHOOSE j \in invs : TRUE
           a == dp[Src(l)[1]][i[1]]
           b == dp[Src(l)[2]][i[2]]
           c == dp[Src(r)[1]][i[3]]
           d == dp[Src(r)[2]][i[4]]
           sons == <<a, b, c, d>>
<1>1. CASE ~Absorbable(l) \/ ~Absorbable(r) \/ invs = {}
    BY <1>1 DEF AOI22State
<1>2. CASE Absorbable(l) /\ Absorbable(r) /\ invs # {}
    <2>1. AOI22State(p, v) = OnHeap(<<p, "AOI22">>, "AOI22", sons)
        BY <1>2 DEF AOI22State
    <2>2. i \in invs
        BY <1>2
    <2>3. i[1] \in Bit /\ i[2] \in Bit /\ i[3] \in Bit /\ i[4] \in Bit
        BY <2>2 DEF AOI22Inv
    <2> HIDE DEF i
    <2>4. Taken(p, a) /\ Taken(p, b) /\ Taken(p, c) /\ Taken(p, d)
        BY <1>2, <2>3, SourcesBelow, TakenFacts
    <2>5. sons \in Seq(Id) /\ \A j \in DOMAIN sons : Taken(p, sons[j])
        <3> HIDE DEF a, b, c, d
        <3>1. QED
            BY <2>4 DEF Taken
    <2>6. QED
        BY <1>2, <2>1, <2>2, <2>5
<1>3. QED
    BY <1>1, <1>2

\* What the passes end with, and the INVs on it.
Won(p, v) == Winner(Transfer(p, v), BaseKind(p, v))

\* The name of t3 (v = 0) or t4 (v = 1), and the state.
HeadName(p, v) == <<p, IF v = 0 THEN "HEAD_INV" ELSE "virtually_inverse_HEAD_INV">>
HeadOf(p, v) ==
    LET w == 1 - v
    IN  InvOf(HeadName(p, v), <<p, w, Won(p, w)>>, Transfer(p, w)[Won(p, w)])

\* The heap that finishing a two-input gate leaves, address by address.
LEMMA BinaryEffect ==
    ASSUME IInv, NEW p \in Vertex, FinishBinary(p)
    PROVE  /\ p \in Node /\ Running(p) /\ dag' = dag /\ Len(Src(p)) = 2
           /\ \A i \in DOMAIN Src(p) : Finished(Src(p)[i])
           /\ \A id \in Id : id[1] # p => heap'[id] = heap[id]
           /\ \A v \in Bit : heap'[<<p, v, "head">>] = HeadOf(p, v)
           /\ \A v \in Bit, a \in Kind \ {"head"} : heap'[<<p, v, a>>] = Transfer(p, v)[a]
           /\ \A n \in Vertex : n # p => dp'[n] = dp[n]
           /\ dp'[p][1] = <<p, 1, "head">>
           /\ dp'[p][0] = IF Better(HeadOf(p, 0), Transfer(p, 0)[Won(p, 0)])
                          THEN <<p, 0, "head">> ELSE <<p, 0, Won(p, 0)>>
<1> DEFINE c == Transfer(p, 0)
           d == Transfer(p, 1)
           k == Winner(c, BaseKind(p, 0))
           l == Winner(d, BaseKind(p, 1))
           t3 == InvOf(<<p, "HEAD_INV">>, <<p, 1, l>>, d[l])
           t4 == InvOf(<<p, "virtually_inverse_HEAD_INV">>, <<p, 0, k>>, c[k])
           head3 == <<p, 0, "head">>
           head4 == <<p, 1, "head">>
<1>1. /\ p \in Node /\ Running(p) /\ dag' = dag
      /\ Len(Src(p)) = 2 /\ \A i \in DOMAIN Src(p) : Defined(Src(p)[i])
    BY DEF FinishBinary, Ready, Vertex
<1>2. heap' = [id \in Id |->
            CASE id[1] # p -> heap[id]
              [] id = head3 -> t3
              [] id = head4 -> t4
              [] OTHER -> IF id[2] = 0 THEN c[id[3]] ELSE d[id[3]]]
    BY DEF FinishBinary
<1>3. dp' = [dp EXCEPT ![p] = [v \in Bit |->
            IF v = 1 THEN head4 ELSE IF Better(t3, c[k]) THEN head3 ELSE <<p, 0, k>>]]
    BY DEF FinishBinary
<1>4. \A i \in DOMAIN Src(p) : Finished(Src(p)[i])
    BY <1>1, RunningFacts
<1>5. 1 - 0 = 1 /\ 1 - 1 = 0 /\ 1 # 0
    OBVIOUS
<1>6. /\ c = Transfer(p, 0) /\ d = Transfer(p, 1) /\ k = Won(p, 0) /\ l = Won(p, 1)
    BY DEF Won
<1>7. t3 = HeadOf(p, 0) /\ t4 = HeadOf(p, 1)
    <2>1. HeadName(p, 0) = <<p, "HEAD_INV">> /\ HeadName(p, 1) = <<p, "virtually_inverse_HEAD_INV">>
        BY DEF HeadName
    <2>2. HeadOf(p, 0) = InvOf(HeadName(p, 0), <<p, 1, Won(p, 1)>>, Transfer(p, 1)[Won(p, 1)])
        BY <1>5 DEF HeadOf
    <2>3. HeadOf(p, 1) = InvOf(HeadName(p, 1), <<p, 0, Won(p, 0)>>, Transfer(p, 0)[Won(p, 0)])
        BY <1>5 DEF HeadOf
    <2> HIDE DEF c, d, k, l
    <2>4. QED
        BY <1>6, <2>1, <2>2, <2>3
<1> HIDE DEF c, d, k, l, t3, t4
<1>8. head3 \in Id /\ head4 \in Id
    BY <1>1, IdFacts, KindFacts DEF Vertex
<1>9. /\ \A id \in Id : id[1] # p => heap'[id] = heap[id]
      /\ heap'[head3] = t3 /\ heap'[head4] = t4
      /\ \A a \in Kind \ {"head"} : heap'[<<p, 0, a>>] = c[a] /\ heap'[<<p, 1, a>>] = d[a]
    <2>1. \A id \in Id : id[1] # p => heap'[id] = heap[id]
        BY <1>2
    <2>2. head3[1] = p /\ head4[1] = p /\ head4 # head3
        OBVIOUS
    <2>3. heap'[head3] = t3 /\ heap'[head4] = t4
        BY <1>2, <1>8, <2>2
    <2>4. ASSUME NEW a \in Kind \ {"head"}
          PROVE  heap'[<<p, 0, a>>] = c[a] /\ heap'[<<p, 1, a>>] = d[a]
        <3>1. <<p, 0, a>> \in Id /\ <<p, 1, a>> \in Id
            BY IdFacts, KindFacts
        <3>2. /\ <<p, 0, a>>[1] = p /\ <<p, 0, a>>[2] = 0 /\ <<p, 0, a>>[3] = a
              /\ <<p, 1, a>>[1] = p /\ <<p, 1, a>>[2] = 1 /\ <<p, 1, a>>[3] = a
              /\ <<p, 0, a>> # head3 /\ <<p, 0, a>> # head4
              /\ <<p, 1, a>> # head3 /\ <<p, 1, a>> # head4
            OBVIOUS
        <3>3. QED
            BY <1>2, <3>1, <3>2
    <2>5. QED
        BY <2>1, <2>3, <2>4
<1>10. /\ \A n \in Vertex : n # p => dp'[n] = dp[n]
       /\ dp'[p][1] = head4
       /\ dp'[p][0] = IF Better(t3, c[k]) THEN head3 ELSE <<p, 0, k>>
    <2> HIDE DEF head3, head4
    <2>1. dp \in [Vertex -> [Bit -> Id \cup {Null}]]
        BY DEF IInv, TypeOK
    <2>2. QED
        BY <1>3, <1>5, <2>1, KindFacts
<1>11. \A v \in Bit : heap'[<<p, v, "head">>] = HeadOf(p, v)
    BY <1>7, <1>9, KindFacts
<1>12. \A v \in Bit, a \in Kind \ {"head"} : heap'[<<p, v, a>>] = Transfer(p, v)[a]
    BY <1>6, <1>9, KindFacts
<1>13. dp'[p][0] = IF Better(HeadOf(p, 0), Transfer(p, 0)[Won(p, 0)])
                   THEN <<p, 0, "head">> ELSE <<p, 0, Won(p, 0)>>
    BY <1>6, <1>7, <1>10
<1>14. QED
    BY <1>1, <1>4, <1>9, <1>10, <1>11, <1>12, <1>13

\* A pass that keeps its placeholder had no base cover below the largest cost.
LEMMA WonFacts ==
    ASSUME IInv, NEW p \in Node, Running(p), Len(Src(p)) = 2,
           \A i \in DOMAIN Src(p) : Finished(Src(p)[i]), NEW v \in Bit
    PROVE  LET c == Transfer(p, v)
               k == Won(p, v)
           IN  /\ k \in {"dp", BaseKind(p, v), "aoi21", "aoi12", "aoi22"}
               /\ k \in Kind \ {"head"} /\ BaseKind(p, v) \in {"t1", "t2"}
               /\ c[k] \in DpState /\ c[k].cell # "NONE"
               /\ k = "dp" => c[BaseKind(p, v)].cost >= CostMax
<1> DEFINE c == Transfer(p, v)
           base == BaseKind(p, v)
           k1 == Release(c, "dp", base)
           k2 == Release(c, k1, "aoi21")
           k3 == Release(c, k2, "aoi12")
           k4 == Release(c, k3, "aoi22")
           k == Won(p, v)
<1>1. c["dp"] = Placeholder /\ base \in {"t1", "t2"} /\ \A a \in Kind : c[a] \in DpState
    BY TransferFacts
<1>2. k \in Kind \ {"head"} /\ c[k] \in DpState /\ c[k].cell # "NONE"
    BY PassFacts DEF Won
<1>3. k = k4
    BY DEF Won, Winner
<1> HIDE DEF c, base
<1>4. \A a \in Kind : c[a].cost \in Int
    BY <1>1 DEF DpState
<1>5. k \in {"dp", base, "aoi21", "aoi12", "aoi22"}
    <2>1. base \in Kind /\ c["dp"].cost = CostMax
        BY <1>1, PlaceholderType, KindFacts
    <2>2. Winner(c, base) \in {"dp", base, "aoi21", "aoi12", "aoi22"}
        BY <1>4, <2>1, WinnerFacts
    <2>3. QED
        BY <2>2 DEF Won, c, base
<1>6. k = "dp" => k1 = "dp"
    <2>1. \A a, b : Release(c, a, b) \in {a, b}
        BY DEF Release
    <2>2. k4 \in {k3, "aoi22"} /\ k3 \in {k2, "aoi12"} /\ k2 \in {k1, "aoi21"}
        BY <2>1
    <2> HIDE DEF k, k1, k2, k3, k4
    <2>3. QED
        BY <1>3, <2>2
<1>7. k1 = "dp" => c[base].cost >= CostMax
    <2>1. base \in Kind /\ base # "dp" /\ c["dp"].cost = CostMax /\ CostMax \in Int
        BY <1>1, PlaceholderType, ConstantFacts, KindFacts
    <2>2. c[base].cost \in Int
        BY <1>4, <2>1
    <2>3. QED
        BY <2>1, <2>2 DEF Release, Better
<1>8. QED
    BY <1>1, <1>2, <1>5, <1>6, <1>7 DEF c, base

-----------------------------------------------------------------------------
(* The two-input gates, case by case                                       *)

\* What the states of a two-input gate are called.
LEMMA GateTag ==
    ASSUME dag' = dag, NEW id \in Id, Len(Src(id[1])) = 2
    PROVE  /\ id[3] = "t1" => TagOf(id)' = Base(id[1], id[2]).cell
           /\ id[3] = "t2" => TagOf(id)' = "INV"
           /\ id[3] = "aoi21" => TagOf(id)' = "AIO21"
           /\ id[3] = "aoi12" => TagOf(id)' = "AIO12"
           /\ id[3] = "aoi22" => TagOf(id)' = "AOI22"
           /\ id[3] = "head" => <<id[1], TagOf(id)'>> = HeadName(id[1], id[2])
<1>1. TagOf(id)' =
        CASE id[3] = "t1"    -> Base(id[1], id[2]).cell
          [] id[3] = "t2"    -> "INV"
          [] id[3] = "aoi21" -> "AIO21"
          [] id[3] = "aoi12" -> "AIO12"
          [] id[3] = "aoi22" -> "AOI22"
          [] OTHER           -> IF id[2] = 0 THEN "HEAD_INV" ELSE "virtually_inverse_HEAD_INV"
    BY DEF TagOf, Src, Base
<1>2. QED
    BY <1>1 DEF HeadName

\* A state with the name its tag says, up to date, is as it should be.
LEMMA NamedByTag ==
    ASSUME NEW id, NEW tag, TagOf(id)' = tag, heap'[id].name = <<id[1], tag>>
    PROVE  Named(id)'
BY DEF Named

\* The base cover of pass v, and its INV.
LEMMA BaseDone ==
    ASSUME IInv, NEW p \in Node, Running(p), Len(Src(p)) = 2, dag' = dag,
           \A i \in DOMAIN Src(p) : Finished(Src(p)[i]), NEW v \in Bit,
           \A id \in Id : id[1] # p => heap'[id] = heap[id],
           \A a \in Kind \ {"head"} : heap'[<<p, v, a>>] = Transfer(p, v)[a],
           \A n \in Vertex : n # p => dp'[n] = dp[n]
    PROVE  /\ BaseShape(p, v)'
           /\ \A a \in {"t1", "t2"} :
                /\ ~heap'[<<p, v, a>>].leaf
                /\ UpToDate(<<p, v, a>>)' /\ Named(<<p, v, a>>)'
<1> DEFINE l == Src(p)[1]
           r == Src(p)[2]
           c == Base(p, v)
           id1 == <<p, v, "t1">>
           id2 == <<p, v, "t2">>
           cell == c.cell
           name == <<p, cell>>
           inv == <<p, "INV">>
           a == dp[l][c.ia]
           b == dp[r][c.ib]
           sons == <<a, b>>
<1>1. /\ id1 \in Id /\ id1[1] = p /\ id1[2] = v /\ id1[3] = "t1"
      /\ id2 \in Id /\ id2[1] = p /\ id2[2] = v /\ id2[3] = "t2"
    BY IdFacts, KindFacts DEF Vertex
<1>2. cell \in {"NAND2", "NOR2"} /\ c.ia \in Bit /\ c.ib \in Bit /\ c.head \in Bit
    <2>1. dag.gate[p] \in Gate
        BY NetlistFacts DEF IInv, TypeOK
    <2>2. QED
        BY <2>1, BaseCoverCorrect DEF Base
<1>3. /\ heap'[id1] = BaseState(p, v)
      /\ heap'[id2] = IF c.head = 0 THEN NoState ELSE InvOf(inv, id1, BaseState(p, v))
    BY KindFacts DEF Transfer
<1>4. BaseState(p, v) = OnHeap(name, cell, sons)
    BY DEF BaseState
<1>5. BaseState(p, v) \in DpState
    BY BaseFacts
<1>6. Below(l, p) /\ Below(r, p)
    BY SourcesBelow
<1>7. Taken(p, a) /\ Taken(p, b)
    BY <1>2, <1>6, TakenFacts
<1>8. dp'[l] = dp[l] /\ dp'[r] = dp[r]
    <2>1. \A n : Below(n, p) => n \in Vertex /\ n # p
        BY NetlistFacts DEF Below, IInv, TypeOK, Vertex
    <2>2. QED
        BY <1>6, <2>1
<1>9. TagOf(id1)' = cell /\ TagOf(id2)' = "INV"
    BY <1>1, GateTag
<1>10. name \in Vertex \X Tag /\ cell \in CellType
    <2> HIDE DEF cell
    <2>1. p \in Vertex /\ cell \in Tag /\ cell \in CellType
        BY <1>2, KindFacts DEF Tag, Vertex
    <2>2. QED
        BY <2>1
<1>11. inv \in Vertex \X Tag
    BY DEF Tag, Vertex
<1>12. Base(p, v)' = c /\ Src(p)' = Src(p)
    BY DEF Base, Src
<1> HIDE DEF l, r, c, id1, id2, cell, inv, a, b
<1>13. sons \in Seq(Id) /\ \A i \in DOMAIN sons : Taken(p, sons[i])
    BY <1>7 DEF Taken
<1> HIDE DEF name, sons
<1>14. /\ UpToDate(id1)' /\ heap'[id1].name = name /\ ~heap'[id1].leaf
       /\ heap'[id1].cell = cell /\ heap'[id1].sons = sons
    BY <1>1, <1>3, <1>4, <1>10, <1>13, CoverDone
<1>15. \/ c.head = 0 /\ heap'[id2] = NoState
       \/ /\ c.head # 0 /\ UpToDate(id2)' /\ heap'[id2].name = inv /\ ~heap'[id2].leaf
          /\ heap'[id2].cell = "INV" /\ heap'[id2].sons = <<id1>>
    <2>1. CASE c.head = 0
        BY <1>3, <2>1
    <2>2. CASE c.head # 0
        <3>1. heap'[id2] = InvOf(inv, id1, heap'[id1]) /\ heap'[id1] \in DpState
            BY <1>3, <1>5, <2>2
        <3>2. QED
            BY <1>1, <1>11, <2>2, <3>1, InverterDone
    <2>3. QED
        BY <2>1, <2>2
<1>16. Vacant(NoState)
    BY DEF Vacant, NoState
<1>17. BaseShape(p, v)'
    <2>1. heap'[id1].cell = c.cell /\ heap'[id1].sons = <<dp'[l][c.ia], dp'[r][c.ib]>>
        BY <1>8, <1>14 DEF cell, sons, a, b
    <2>2. IF c.head = 0 THEN Vacant(heap'[id2])
          ELSE heap'[id2].cell = "INV" /\ heap'[id2].sons = <<id1>>
        BY <1>15, <1>16
    <2>3. QED
        BY <1>12, <2>1, <2>2 DEF BaseShape, id1, id2, l, r
<1>18. Named(id1)'
    BY <1>1, <1>9, <1>14, NamedByTag DEF name
<1>19. UpToDate(id2)' /\ Named(id2)' /\ ~heap'[id2].leaf
    <2>1. CASE heap'[id2] = NoState
        BY <1>16, <2>1, VacantDone DEF Vacant
    <2>2. CASE UpToDate(id2)' /\ heap'[id2].name = inv /\ ~heap'[id2].leaf
        BY <1>1, <1>9, <2>2, NamedByTag DEF inv
    <2>3. QED
        BY <1>15, <2>1, <2>2
<1>20. QED
    BY <1>14, <1>17, <1>18, <1>19 DEF id1, id2

\* The AOI21 that pass v finds, or none.
LEMMA AOI21Done ==
    ASSUME IInv, NEW p \in Node, Running(p), Len(Src(p)) = 2, dag' = dag,
           \A i \in DOMAIN Src(p) : Finished(Src(p)[i]), NEW v \in Bit,
           \A id \in Id : id[1] # p => heap'[id] = heap[id],
           heap'[<<p, v, "aoi21">>] = AOI21State(p, v),
           \A n \in Vertex : n # p => dp'[n] = dp[n]
    PROVE  /\ AOI21Shape(p, v)'
           /\ ~heap'[<<p, v, "aoi21">>].leaf
           /\ UpToDate(<<p, v, "aoi21">>)' /\ Named(<<p, v, "aoi21">>)'
<1> DEFINE l == Src(p)[1]
           r == Src(p)[2]
           id == <<p, v, "aoi21">>
           cell == "AOI21"
           tag == "AIO21"
           name == <<p, tag>>
<1>1. id \in Id /\ id[1] = p /\ id[3] = "aoi21"
    BY IdFacts, KindFacts DEF Vertex
<1>2. TagOf(id)' = tag
    BY <1>1, GateTag
<1>3. name \in Vertex \X Tag /\ cell \in CellType
    BY KindFacts DEF Tag, Vertex
<1>4. Src(p)' = Src(p) /\ \A n : (Absorbable(n)' <=> Absorbable(n)) /\ Src(n)' = Src(n)
    BY DEF Absorbable, IsLeaf, FanOut, Src, Uses
<1>5. CASE heap'[id] = NoState
    <2>0. Vacant(NoState) /\ NoState.cell = "NONE"
        BY DEF Vacant, NoState
    <2>1. Vacant(heap'[id]) /\ heap'[id].cell = "NONE"
        BY <1>5, <2>0
    <2>2. ~heap'[id].leaf /\ UpToDate(id)' /\ Named(id)'
        BY <2>1, VacantDone DEF Vacant
    <2>3. QED
        BY <2>1, <2>2 DEF AOI21Shape
<1>6. ASSUME Absorbable(l), NEW i \in AOI21Inv(dag.gate[p], dag.gate[l], v),
             heap'[id] = OnHeap(name, cell, <<dp[Src(l)[1]][i[1]], dp[Src(l)[2]][i[2]], dp[r][i[3]]>>),
             <<dp[Src(l)[1]][i[1]], dp[Src(l)[2]][i[2]], dp[r][i[3]]>> \in Seq(Id),
             \A j \in DOMAIN <<dp[Src(l)[1]][i[1]], dp[Src(l)[2]][i[2]], dp[r][i[3]]>> :
                 Taken(p, <<dp[Src(l)[1]][i[1]], dp[Src(l)[2]][i[2]], dp[r][i[3]]>>[j])
      PROVE  AOI21Shape(p, v)' /\ ~heap'[id].leaf /\ UpToDate(id)' /\ Named(id)'
    <2> DEFINE sons == <<dp[Src(l)[1]][i[1]], dp[Src(l)[2]][i[2]], dp[r][i[3]]>>
    <2>1. sons = <<dp'[Src(l)[1]][i[1]], dp'[Src(l)[2]][i[2]], dp'[r][i[3]]>>
        <3>1. \A n : Below(n, p) => n \in Vertex /\ n # p
            BY NetlistFacts DEF Below, IInv, TypeOK, Vertex
        <3>2. \A n : Below(n, p) => dp'[n] = dp[n]
            BY <3>1
        <3>3. Below(l, p) /\ Below(r, p)
            BY SourcesBelow
        <3>4. /\ Absorbable(l) => Below(Src(l)[1], p) /\ Below(Src(l)[2], p)
              /\ Absorbable(r) => Below(Src(r)[1], p) /\ Below(Src(r)[2], p)
            BY SourcesBelow
        <3> HIDE DEF l, r
        <3>5. QED
            BY <1>6, <3>2, <3>3, <3>4
    <2> HIDE DEF sons
    <2>2. heap'[id] = OnHeap(name, cell, sons) /\ sons \in Seq(Id) /\ \A j \in DOMAIN sons :
        Taken(p, sons[j])
        BY <1>6 DEF sons
    <2> HIDE DEF id, name, cell, tag
    <2>3. /\ UpToDate(id)' /\ heap'[id].name = name /\ ~heap'[id].leaf
          /\ heap'[id].cell = cell /\ heap'[id].sons = sons
        BY <1>1, <1>3, <2>2, CoverDone
    <2>4. Named(id)'
        BY <1>1, <1>2, <2>3, NamedByTag DEF name
    <2>5. AOI21Shape(p, v)'
        BY <1>4, <1>6, <2>1, <2>3 DEF AOI21Shape, id, cell
    <2>6. QED
        BY <2>3, <2>4, <2>5
<1>7. \/ heap'[id] = NoState
      \/ /\ Absorbable(l)
         /\ \E i \in AOI21Inv(dag.gate[p], dag.gate[l], v) :
            /\ heap'[id] = OnHeap(name, cell, <<dp[Src(l)[1]][i[1]], dp[Src(l)[2]][i[2]], dp[r][i[3]]>>)
            /\ <<dp[Src(l)[1]][i[1]], dp[Src(l)[2]][i[2]], dp[r][i[3]]>> \in Seq(Id)
            /\ \A j \in DOMAIN <<dp[Src(l)[1]][i[1]], dp[Src(l)[2]][i[2]], dp[r][i[3]]>> :
                   Taken(p, <<dp[Src(l)[1]][i[1]], dp[Src(l)[2]][i[2]], dp[r][i[3]]>>[j])
    <2>1. \/ AOI21State(p, v) = NoState
          \/ /\ Absorbable(l)
             /\ \E i \in AOI21Inv(dag.gate[p], dag.gate[l], v) :
                /\ AOI21State(p, v) =
                       OnHeap(<<p, "AIO21">>, "AOI21", <<dp[Src(l)[1]][i[1]], dp[Src(l)[2]][i[2]], dp[r][i[3]]>>)
                /\ <<dp[Src(l)[1]][i[1]], dp[Src(l)[2]][i[2]], dp[r][i[3]]>> \in Seq(Id)
                /\ \A j \in DOMAIN <<dp[Src(l)[1]][i[1]], dp[Src(l)[2]][i[2]], dp[r][i[3]]>> :
                       Taken(p, <<dp[Src(l)[1]][i[1]], dp[Src(l)[2]][i[2]], dp[r][i[3]]>>[j])
        BY AOI21Made
    <2>2. heap'[id] = AOI21State(p, v)
        OBVIOUS
    <2>3. QED
        BY <2>1, <2>2
<1>8. QED
    BY <1>5, <1>6, <1>7

\* The AOI12 that pass v finds, or none.
LEMMA AOI12Done ==
    ASSUME IInv, NEW p \in Node, Running(p), Len(Src(p)) = 2, dag' = dag,
           \A i \in DOMAIN Src(p) : Finished(Src(p)[i]), NEW v \in Bit,
           \A id \in Id : id[1] # p => heap'[id] = heap[id],
           heap'[<<p, v, "aoi12">>] = AOI12State(p, v),
           \A n \in Vertex : n # p => dp'[n] = dp[n]
    PROVE  /\ AOI12Shape(p, v)'
           /\ ~heap'[<<p, v, "aoi12">>].leaf
           /\ UpToDate(<<p, v, "aoi12">>)' /\ Named(<<p, v, "aoi12">>)'
<1> DEFINE l == Src(p)[1]
           r == Src(p)[2]
           id == <<p, v, "aoi12">>
           cell == "AOI12"
           tag == "AIO12"
           name == <<p, tag>>
<1>1. id \in Id /\ id[1] = p /\ id[3] = "aoi12"
    BY IdFacts, KindFacts DEF Vertex
<1>2. TagOf(id)' = tag
    BY <1>1, GateTag
<1>3. name \in Vertex \X Tag /\ cell \in CellType
    BY KindFacts DEF Tag, Vertex
<1>4. Src(p)' = Src(p) /\ \A n : (Absorbable(n)' <=> Absorbable(n)) /\ Src(n)' = Src(n)
    BY DEF Absorbable, IsLeaf, FanOut, Src, Uses
<1>5. CASE heap'[id] = NoState
    <2>0. Vacant(NoState) /\ NoState.cell = "NONE"
        BY DEF Vacant, NoState
    <2>1. Vacant(heap'[id]) /\ heap'[id].cell = "NONE"
        BY <1>5, <2>0
    <2>2. ~heap'[id].leaf /\ UpToDate(id)' /\ Named(id)'
        BY <2>1, VacantDone DEF Vacant
    <2>3. QED
        BY <2>1, <2>2 DEF AOI12Shape
<1>6. ASSUME Absorbable(r), NEW i \in AOI12Inv(dag.gate[p], dag.gate[r], v),
             heap'[id] = OnHeap(name, cell, <<dp[l][i[1]], dp[Src(r)[1]][i[2]], dp[Src(r)[2]][i[3]]>>),
             <<dp[l][i[1]], dp[Src(r)[1]][i[2]], dp[Src(r)[2]][i[3]]>> \in Seq(Id),
             \A j \in DOMAIN <<dp[l][i[1]], dp[Src(r)[1]][i[2]], dp[Src(r)[2]][i[3]]>> :
                 Taken(p, <<dp[l][i[1]], dp[Src(r)[1]][i[2]], dp[Src(r)[2]][i[3]]>>[j])
      PROVE  AOI12Shape(p, v)' /\ ~heap'[id].leaf /\ UpToDate(id)' /\ Named(id)'
    <2> DEFINE sons == <<dp[l][i[1]], dp[Src(r)[1]][i[2]], dp[Src(r)[2]][i[3]]>>
    <2>1. sons = <<dp'[l][i[1]], dp'[Src(r)[1]][i[2]], dp'[Src(r)[2]][i[3]]>>
        <3>1. \A n : Below(n, p) => n \in Vertex /\ n # p
            BY NetlistFacts DEF Below, IInv, TypeOK, Vertex
        <3>2. \A n : Below(n, p) => dp'[n] = dp[n]
            BY <3>1
        <3>3. Below(l, p) /\ Below(r, p)
            BY SourcesBelow
        <3>4. /\ Absorbable(l) => Below(Src(l)[1], p) /\ Below(Src(l)[2], p)
              /\ Absorbable(r) => Below(Src(r)[1], p) /\ Below(Src(r)[2], p)
            BY SourcesBelow
        <3> HIDE DEF l, r
        <3>5. QED
            BY <1>6, <3>2, <3>3, <3>4
    <2> HIDE DEF sons
    <2>2. heap'[id] = OnHeap(name, cell, sons) /\ sons \in Seq(Id) /\ \A j \in DOMAIN sons :
        Taken(p, sons[j])
        BY <1>6 DEF sons
    <2> HIDE DEF id, name, cell, tag
    <2>3. /\ UpToDate(id)' /\ heap'[id].name = name /\ ~heap'[id].leaf
          /\ heap'[id].cell = cell /\ heap'[id].sons = sons
        BY <1>1, <1>3, <2>2, CoverDone
    <2>4. Named(id)'
        BY <1>1, <1>2, <2>3, NamedByTag DEF name
    <2>5. AOI12Shape(p, v)'
        BY <1>4, <1>6, <2>1, <2>3 DEF AOI12Shape, id, cell
    <2>6. QED
        BY <2>3, <2>4, <2>5
<1>7. \/ heap'[id] = NoState
      \/ /\ Absorbable(r)
         /\ \E i \in AOI12Inv(dag.gate[p], dag.gate[r], v) :
            /\ heap'[id] = OnHeap(name, cell, <<dp[l][i[1]], dp[Src(r)[1]][i[2]], dp[Src(r)[2]][i[3]]>>)
            /\ <<dp[l][i[1]], dp[Src(r)[1]][i[2]], dp[Src(r)[2]][i[3]]>> \in Seq(Id)
            /\ \A j \in DOMAIN <<dp[l][i[1]], dp[Src(r)[1]][i[2]], dp[Src(r)[2]][i[3]]>> :
                   Taken(p, <<dp[l][i[1]], dp[Src(r)[1]][i[2]], dp[Src(r)[2]][i[3]]>>[j])
    <2>1. \/ AOI12State(p, v) = NoState
          \/ /\ Absorbable(r)
             /\ \E i \in AOI12Inv(dag.gate[p], dag.gate[r], v) :
                /\ AOI12State(p, v) =
                       OnHeap(<<p, "AIO12">>, "AOI12", <<dp[l][i[1]], dp[Src(r)[1]][i[2]], dp[Src(r)[2]][i[3]]>>)
                /\ <<dp[l][i[1]], dp[Src(r)[1]][i[2]], dp[Src(r)[2]][i[3]]>> \in Seq(Id)
                /\ \A j \in DOMAIN <<dp[l][i[1]], dp[Src(r)[1]][i[2]], dp[Src(r)[2]][i[3]]>> :
                       Taken(p, <<dp[l][i[1]], dp[Src(r)[1]][i[2]], dp[Src(r)[2]][i[3]]>>[j])
        BY AOI12Made
    <2>2. heap'[id] = AOI12State(p, v)
        OBVIOUS
    <2>3. QED
        BY <2>1, <2>2
<1>8. QED
    BY <1>5, <1>6, <1>7

\* The AOI22 that pass v finds, or none.
LEMMA AOI22Done ==
    ASSUME IInv, NEW p \in Node, Running(p), Len(Src(p)) = 2, dag' = dag,
           \A i \in DOMAIN Src(p) : Finished(Src(p)[i]), NEW v \in Bit,
           \A id \in Id : id[1] # p => heap'[id] = heap[id],
           heap'[<<p, v, "aoi22">>] = AOI22State(p, v),
           \A n \in Vertex : n # p => dp'[n] = dp[n]
    PROVE  /\ AOI22Shape(p, v)'
           /\ ~heap'[<<p, v, "aoi22">>].leaf
           /\ UpToDate(<<p, v, "aoi22">>)' /\ Named(<<p, v, "aoi22">>)'
<1> DEFINE l == Src(p)[1]
           r == Src(p)[2]
           id == <<p, v, "aoi22">>
           cell == "AOI22"
           tag == "AOI22"
           name == <<p, tag>>
<1>1. id \in Id /\ id[1] = p /\ id[3] = "aoi22"
    BY IdFacts, KindFacts DEF Vertex
<1>2. TagOf(id)' = tag
    BY <1>1, GateTag
<1>3. name \in Vertex \X Tag /\ cell \in CellType
    BY KindFacts DEF Tag, Vertex
<1>4. Src(p)' = Src(p) /\ \A n : (Absorbable(n)' <=> Absorbable(n)) /\ Src(n)' = Src(n)
    BY DEF Absorbable, IsLeaf, FanOut, Src, Uses
<1>5. CASE heap'[id] = NoState
    <2>0. Vacant(NoState) /\ NoState.cell = "NONE"
        BY DEF Vacant, NoState
    <2>1. Vacant(heap'[id]) /\ heap'[id].cell = "NONE"
        BY <1>5, <2>0
    <2>2. ~heap'[id].leaf /\ UpToDate(id)' /\ Named(id)'
        BY <2>1, VacantDone DEF Vacant
    <2>3. QED
        BY <2>1, <2>2 DEF AOI22Shape
<1>6. ASSUME Absorbable(l), Absorbable(r), NEW i \in AOI22Inv(dag.gate[p], dag.gate[l], dag.gate[r], v),
             heap'[id] = OnHeap(name, cell, <<dp[Src(l)[1]][i[1]], dp[Src(l)[2]][i[2]],
                          dp[Src(r)[1]][i[3]], dp[Src(r)[2]][i[4]]>>),
             <<dp[Src(l)[1]][i[1]], dp[Src(l)[2]][i[2]],
                          dp[Src(r)[1]][i[3]], dp[Src(r)[2]][i[4]]>> \in Seq(Id),
             \A j \in DOMAIN <<dp[Src(l)[1]][i[1]], dp[Src(l)[2]][i[2]],
                          dp[Src(r)[1]][i[3]], dp[Src(r)[2]][i[4]]>> :
                              Taken(p, <<dp[Src(l)[1]][i[1]], dp[Src(l)[2]][i[2]],
                          dp[Src(r)[1]][i[3]], dp[Src(r)[2]][i[4]]>>[j])
      PROVE  AOI22Shape(p, v)' /\ ~heap'[id].leaf /\ UpToDate(id)' /\ Named(id)'
    <2> DEFINE sons == <<dp[Src(l)[1]][i[1]], dp[Src(l)[2]][i[2]],
                          dp[Src(r)[1]][i[3]], dp[Src(r)[2]][i[4]]>>
    <2>1. sons = <<dp'[Src(l)[1]][i[1]], dp'[Src(l)[2]][i[2]],
                          dp'[Src(r)[1]][i[3]], dp'[Src(r)[2]][i[4]]>>
        <3>1. \A n : Below(n, p) => n \in Vertex /\ n # p
            BY NetlistFacts DEF Below, IInv, TypeOK, Vertex
        <3>2. \A n : Below(n, p) => dp'[n] = dp[n]
            BY <3>1
        <3>3. Below(l, p) /\ Below(r, p)
            BY SourcesBelow
        <3>4. /\ Absorbable(l) => Below(Src(l)[1], p) /\ Below(Src(l)[2], p)
              /\ Absorbable(r) => Below(Src(r)[1], p) /\ Below(Src(r)[2], p)
            BY SourcesBelow
        <3> HIDE DEF l, r
        <3>5. QED
            BY <1>6, <3>2, <3>3, <3>4
    <2> HIDE DEF sons
    <2>2. heap'[id] = OnHeap(name, cell, sons) /\ sons \in Seq(Id) /\ \A j \in DOMAIN sons :
        Taken(p, sons[j])
        BY <1>6 DEF sons
    <2> HIDE DEF id, name, cell, tag
    <2>3. /\ UpToDate(id)' /\ heap'[id].name = name /\ ~heap'[id].leaf
          /\ heap'[id].cell = cell /\ heap'[id].sons = sons
        BY <1>1, <1>3, <2>2, CoverDone
    <2>4. Named(id)'
        BY <1>1, <1>2, <2>3, NamedByTag DEF name
    <2>5. AOI22Shape(p, v)'
        BY <1>4, <1>6, <2>1, <2>3 DEF AOI22Shape, id, cell
    <2>6. QED
        BY <2>3, <2>4, <2>5
<1>7. \/ heap'[id] = NoState
      \/ /\ Absorbable(l) /\ Absorbable(r)
         /\ \E i \in AOI22Inv(dag.gate[p], dag.gate[l], dag.gate[r], v) :
            /\ heap'[id] = OnHeap(name, cell, <<dp[Src(l)[1]][i[1]], dp[Src(l)[2]][i[2]],
                          dp[Src(r)[1]][i[3]], dp[Src(r)[2]][i[4]]>>)
            /\ <<dp[Src(l)[1]][i[1]], dp[Src(l)[2]][i[2]],
                          dp[Src(r)[1]][i[3]], dp[Src(r)[2]][i[4]]>> \in Seq(Id)
            /\ \A j \in DOMAIN <<dp[Src(l)[1]][i[1]], dp[Src(l)[2]][i[2]],
                          dp[Src(r)[1]][i[3]], dp[Src(r)[2]][i[4]]>> :
                              Taken(p, <<dp[Src(l)[1]][i[1]], dp[Src(l)[2]][i[2]],
                          dp[Src(r)[1]][i[3]], dp[Src(r)[2]][i[4]]>>[j])
    <2>1. \/ AOI22State(p, v) = NoState
          \/ /\ Absorbable(l) /\ Absorbable(r)
             /\ \E i \in AOI22Inv(dag.gate[p], dag.gate[l], dag.gate[r], v) :
                /\ AOI22State(p, v) =
                       OnHeap(<<p, "AOI22">>, "AOI22", <<dp[Src(l)[1]][i[1]], dp[Src(l)[2]][i[2]],
                          dp[Src(r)[1]][i[3]], dp[Src(r)[2]][i[4]]>>)
                /\ <<dp[Src(l)[1]][i[1]], dp[Src(l)[2]][i[2]],
                          dp[Src(r)[1]][i[3]], dp[Src(r)[2]][i[4]]>> \in Seq(Id)
                /\ \A j \in DOMAIN <<dp[Src(l)[1]][i[1]], dp[Src(l)[2]][i[2]],
                          dp[Src(r)[1]][i[3]], dp[Src(r)[2]][i[4]]>> :
                              Taken(p, <<dp[Src(l)[1]][i[1]], dp[Src(l)[2]][i[2]],
                          dp[Src(r)[1]][i[3]], dp[Src(r)[2]][i[4]]>>[j])
        BY AOI22Made
    <2>2. heap'[id] = AOI22State(p, v)
        OBVIOUS
    <2>3. QED
        BY <2>1, <2>2
<1>8. QED
    BY <1>5, <1>6, <1>7

\* What pass v leaves at the addresses of its covers.
LEMMA PassDone ==
    ASSUME IInv, NEW p \in Vertex, FinishBinary(p), NEW v \in Bit
    PROVE  /\ PassShape(p, v)'
           /\ \A a \in Kind \ {"head"} : UpToDate(<<p, v, a>>)' /\ Named(<<p, v, a>>)'
<1>1. /\ p \in Node /\ Running(p) /\ dag' = dag /\ Len(Src(p)) = 2
      /\ \A i \in DOMAIN Src(p) : Finished(Src(p)[i])
      /\ \A id \in Id : id[1] # p => heap'[id] = heap[id]
      /\ heap'[<<p, v, "head">>] = HeadOf(p, v)
      /\ \A a \in Kind \ {"head"} : heap'[<<p, v, a>>] = Transfer(p, v)[a]
      /\ \A n \in Vertex : n # p => dp'[n] = dp[n]
    BY BinaryEffect
<1>2. /\ heap'[<<p, v, "aoi21">>] = AOI21State(p, v)
      /\ heap'[<<p, v, "aoi12">>] = AOI12State(p, v)
      /\ heap'[<<p, v, "aoi22">>] = AOI22State(p, v)
    BY <1>1, KindFacts DEF Transfer
<1>3. heap'[<<p, v, "dp">>] = Placeholder
    <2>1. Transfer(p, v)["dp"] = Placeholder
        BY <1>1, TransferFacts
    <2>2. QED
        BY <1>1, <2>1, KindFacts
<1>4. /\ BaseShape(p, v)'
      /\ \A a \in {"t1", "t2"} : /\ ~heap'[<<p, v, a>>].leaf
                                 /\ UpToDate(<<p, v, a>>)' /\ Named(<<p, v, a>>)'
    BY <1>1, BaseDone
<1>5. /\ AOI21Shape(p, v)' /\ ~heap'[<<p, v, "aoi21">>].leaf
      /\ UpToDate(<<p, v, "aoi21">>)' /\ Named(<<p, v, "aoi21">>)'
    BY <1>1, <1>2, AOI21Done
<1>6. /\ AOI12Shape(p, v)' /\ ~heap'[<<p, v, "aoi12">>].leaf
      /\ UpToDate(<<p, v, "aoi12">>)' /\ Named(<<p, v, "aoi12">>)'
    BY <1>1, <1>2, AOI12Done
<1>7. /\ AOI22Shape(p, v)' /\ ~heap'[<<p, v, "aoi22">>].leaf
      /\ UpToDate(<<p, v, "aoi22">>)' /\ Named(<<p, v, "aoi22">>)'
    BY <1>1, <1>2, AOI22Done
<1>8. /\ Vacant(heap'[<<p, v, "dp">>]) /\ ~heap'[<<p, v, "dp">>].leaf
      /\ UpToDate(<<p, v, "dp">>)' /\ Named(<<p, v, "dp">>)'
    <2>1. Vacant(Placeholder)
        BY DEF Vacant, Placeholder
    <2>2. QED
        BY <1>3, <2>1, VacantDone DEF Vacant
<1>9. ~heap'[<<p, v, "head">>].leaf
    <2> DEFINE w == 1 - v
               son == <<p, w, Won(p, w)>>
               name == HeadName(p, v)
               st == Transfer(p, w)[Won(p, w)]
    <2>1. w \in Bit
        BY KindFacts DEF Bit
    <2> HIDE DEF w
    <2>2. st \in DpState /\ Won(p, w) \in Kind
        BY <1>1, <2>1, WonFacts
    <2>3. son \in Id
        BY <2>1, <2>2, IdFacts
    <2>4. name \in Vertex \X Tag
        BY DEF HeadName, Tag
    <2>5. HeadOf(p, v) = InvOf(name, son, st)
        BY DEF HeadOf, w
    <2> HIDE DEF son, name, st
    <2>6. <<son>> \in Seq(Id) /\ <<st>> \in Seq(DpState) /\ "INV" \in CellType
        BY <2>2, <2>3, KindFacts
    <2>7. ~InvOf(name, son, st).leaf
        BY <2>4, <2>6, UpdatedFields DEF InvOf
    <2>8. QED
        BY <1>1, <2>5, <2>7
<1>10. \A a \in Kind : a \in {"dp", "t1", "t2", "aoi21", "aoi12", "aoi22", "head"}
    BY DEF Kind
<1>11. PassShape(p, v)'
    <2>1. \A a \in Kind : ~heap'[<<p, v, a>>].leaf
        BY <1>4, <1>5, <1>6, <1>7, <1>8, <1>9, <1>10
    <2>2. QED
        BY <1>4, <1>5, <1>6, <1>7, <1>8, <2>1 DEF PassShape
<1>12. QED
    BY <1>4, <1>5, <1>6, <1>7, <1>8, <1>10, <1>11

\* The INVs on the winners of the two passes.
LEMMA HeadsDone ==
    ASSUME IInv, NEW p \in Vertex, FinishBinary(p)
    PROVE  /\ \E k, l \in Kind : HeadShape(p, k, l)'
           /\ \A v \in Bit : UpToDate(<<p, v, "head">>)' /\ Named(<<p, v, "head">>)'
<1>1. /\ p \in Node /\ Running(p) /\ dag' = dag /\ Len(Src(p)) = 2
      /\ \A i \in DOMAIN Src(p) : Finished(Src(p)[i])
      /\ \A v \in Bit : heap'[<<p, v, "head">>] = HeadOf(p, v)
      /\ \A v \in Bit, a \in Kind \ {"head"} : heap'[<<p, v, a>>] = Transfer(p, v)[a]
      /\ dp'[p][1] = <<p, 1, "head">>
      /\ dp'[p][0] = IF Better(HeadOf(p, 0), Transfer(p, 0)[Won(p, 0)])
                     THEN <<p, 0, "head">> ELSE <<p, 0, Won(p, 0)>>
    BY BinaryEffect
<1>2. ASSUME NEW v \in Bit
      PROVE  /\ Won(p, v) \in {"dp", BaseKind(p, v), "aoi21", "aoi12", "aoi22"}
             /\ Won(p, v) \in Kind \ {"head"} /\ <<p, v, Won(p, v)>> \in Id
             /\ heap'[<<p, v, Won(p, v)>>] = Transfer(p, v)[Won(p, v)]
             /\ heap'[<<p, v, Won(p, v)>>] \in DpState
             /\ heap'[<<p, v, Won(p, v)>>].cell # "NONE"
    <2> DEFINE k == Won(p, v)
               c == Transfer(p, v)
    <2>1. /\ k \in {"dp", BaseKind(p, v), "aoi21", "aoi12", "aoi22"}
          /\ k \in Kind \ {"head"} /\ c[k] \in DpState /\ c[k].cell # "NONE"
        BY <1>1, WonFacts
    <2> HIDE DEF k, c
    <2>2. heap'[<<p, v, k>>] = c[k] /\ <<p, v, k>> \in Id
        BY <1>1, <2>1, IdFacts DEF c
    <2>3. QED
        BY <2>1, <2>2 DEF k, c
<1>3. ASSUME NEW v \in Bit, Won(p, v) = "dp"
      PROVE  Saturated'
    <2> DEFINE base == BaseKind(p, v)
               id == <<p, v, base>>
    <2>1. base \in {"t1", "t2"} /\ Transfer(p, v)[base].cost >= CostMax
        BY <1>1, <1>3, WonFacts
    <2>2. base \in Kind \ {"head"} /\ id \in Id /\ id[1] = p /\ p # Model
        BY <1>1, <2>1, IdFacts, KindFacts, ConstantFacts
    <2>3. heap'[id].cost >= CostMax
        BY <1>1, <2>1, <2>2
    <2>4. heap'[id].cell \notin {"NONE", "UNDEFINED"}
        <3>1. BaseShape(p, v)'
            BY PassDone DEF PassShape
        <3>2. heap'[<<p, v, "t1">>].cell = Base(p, v).cell /\ Base(p, v).cell \in {"NAND2", "NOR2"}
            <4>1. dag.gate[p] \in Gate
                BY <1>1, NetlistFacts DEF IInv, TypeOK
            <4>2. Base(p, v).cell \in {"NAND2", "NOR2"}
                BY <4>1, BaseCoverCorrect DEF Base
            <4>3. Base(p, v)' = Base(p, v)
                BY <1>1 DEF Base
            <4>4. QED
                BY <3>1, <4>2, <4>3 DEF BaseShape
        <3>3. Base(p, v).head # 0 => heap'[<<p, v, "t2">>].cell = "INV"
            <4>1. Base(p, v)' = Base(p, v)
                BY <1>1 DEF Base
            <4>2. QED
                BY <3>1, <4>1 DEF BaseShape
        <3>4. QED
            BY <3>2, <3>3 DEF BaseKind
    <2> HIDE DEF id, base
    <2>5. QED
        BY <2>2, <2>3, <2>4 DEF Saturated
<1>4. ASSUME NEW v \in Bit, NEW w \in Bit, w = 1 - v
      PROVE  /\ UpToDate(<<p, v, "head">>)' /\ Named(<<p, v, "head">>)'
             /\ heap'[<<p, v, "head">>].cell = "INV"
             /\ heap'[<<p, v, "head">>].sons = << <<p, w, Won(p, w)>> >>
    <2> DEFINE id == <<p, v, "head">>
               son == <<p, w, Won(p, w)>>
               name == HeadName(p, v)
    <2>1. id \in Id /\ id[1] = p /\ id[2] = v /\ id[3] = "head"
        BY IdFacts, KindFacts
    <2>2. name \in Vertex \X Tag
        BY DEF HeadName, Tag
    <2>3. son \in Id /\ heap'[son] \in DpState /\ heap'[son] = Transfer(p, w)[Won(p, w)]
        BY <1>2
    <2>4. heap'[id] = InvOf(name, son, heap'[son])
        BY <1>1, <1>4, <2>3 DEF HeadOf
    <2>5. <<p, TagOf(id)'>> = name
        BY <1>1, <2>1, GateTag
    <2> HIDE DEF id, son, name
    <2>6. /\ UpToDate(id)' /\ heap'[id].name = name /\ heap'[id].cell = "INV" /\ heap'[id].sons = <<son>>
        BY <2>2, <2>3, <2>4, InverterDone
    <2>7. Named(id)'
        BY <2>1, <2>5, <2>6 DEF Named
    <2>8. QED
        BY <2>6, <2>7 DEF id, son
<1>5. \A v \in Bit : UpToDate(<<p, v, "head">>)' /\ Named(<<p, v, "head">>)'
    <2>1. \A v \in Bit : 1 - v \in Bit
        BY DEF Bit
    <2>2. QED
        BY <1>4, <2>1
<1>6. /\ heap'[<<p, 0, "head">>].cell = "INV" /\ heap'[<<p, 1, "head">>].cell = "INV"
      /\ heap'[<<p, 0, "head">>].sons = << <<p, 1, Won(p, 1)>> >>
      /\ heap'[<<p, 1, "head">>].sons = << <<p, 0, Won(p, 0)>> >>
    <2>1. 1 - 0 = 1 /\ 1 - 1 = 0
        OBVIOUS
    <2>2. QED
        BY <1>4, <2>1, KindFacts
<1>7. \E k, l \in Kind : HeadShape(p, k, l)'
    <2> DEFINE k == Won(p, 0)
               l == Won(p, 1)
    <2>1. \A v \in Bit : BaseKind(p, v)' = BaseKind(p, v)
        BY <1>1 DEF BaseKind, Base
    <2>2. /\ k \in {"dp", BaseKind(p, 0), "aoi21", "aoi12", "aoi22"}
          /\ l \in {"dp", BaseKind(p, 1), "aoi21", "aoi12", "aoi22"}
          /\ heap'[<<p, 0, k>>].cell # "NONE" /\ heap'[<<p, 1, l>>].cell # "NONE"
        BY <1>2, KindFacts
    <2>3. k = "dp" \/ l = "dp" => Saturated'
        BY <1>3, KindFacts
    <2>4. /\ heap'[<<p, 0, "head">>].cell = "INV" /\ heap'[<<p, 1, "head">>].cell = "INV"
          /\ heap'[<<p, 0, "head">>].sons = << <<p, 1, l>> >>
          /\ heap'[<<p, 1, "head">>].sons = << <<p, 0, k>> >>
        BY <1>6
    <2>5. /\ dp'[p][1] = <<p, 1, "head">>
          /\ dp'[p][0] = IF Better(heap'[<<p, 0, "head">>], heap'[<<p, 0, k>>])
                         THEN <<p, 0, "head">> ELSE <<p, 0, k>>
        BY <1>1, <1>2, KindFacts
    <2> HIDE DEF k, l
    <2>6. ASSUME NEW x, NEW y, x = k, y = l PROVE HeadShape(p, x, y)'
        BY <2>1, <2>2, <2>3, <2>4, <2>5, <2>6, KindFacts DEF HeadShape
    <2>7. k \in Kind /\ l \in Kind
        BY <1>2, KindFacts DEF k, l
    <2>8. QED
        BY <2>6, <2>7
<1>8. QED
    BY <1>5, <1>7

(***************************************************************************)
(* A two-input gate's states: the covers of both passes, and an INV on the *)
(* winner of each.                                                         *)
(***************************************************************************)
LEMMA FinishBinaryDone ==
    ASSUME IInv, NEW p \in Vertex, FinishBinary(p)
    PROVE  Done(p)'
<1>1. dag' = dag /\ Len(Src(p)) = 2
    BY BinaryEffect
<1>2. \A v \in Bit : /\ PassShape(p, v)'
                    /\ \A a \in Kind \ {"head"} : UpToDate(<<p, v, a>>)' /\ Named(<<p, v, a>>)'
    BY PassDone
<1>3. /\ \E k, l \in Kind : HeadShape(p, k, l)'
      /\ \A v \in Bit : UpToDate(<<p, v, "head">>)' /\ Named(<<p, v, "head">>)'
    BY HeadsDone
<1>4. Shape(p)'
    <2>1. GateShape(p)'
        BY <1>2, <1>3 DEF GateShape
    <2>2. Len(Src(p))' = 2
        BY <1>1 DEF Src
    <2>3. QED
        BY <2>1, <2>2 DEF Shape
<1>5. ASSUME NEW id \in Id, id[1] = p
      PROVE  UpToDate(id)' /\ Named(id)'
    <2>1. \A v \in Bit, a \in Kind : UpToDate(<<p, v, a>>)' /\ Named(<<p, v, a>>)'
        BY <1>2, <1>3
    <2>2. id = <<p, id[2], id[3]>> /\ id[2] \in Bit /\ id[3] \in Kind
        BY <1>5, IdFacts
    <2>3. \A v \in Bit, a \in Kind : id = <<p, v, a>> => UpToDate(id)' /\ Named(id)'
        BY <2>1
    <2>4. QED
        BY <2>2, <2>3
<1>6. QED
    BY <1>4, <1>5 DEF Done

-----------------------------------------------------------------------------
(* The heap invariant                                                      *)

\* At the start only the model has been entered.
LEMMA InitHeap == Init => HeapInv
<1> SUFFICES ASSUME Init PROVE HeapInv
    OBVIOUS
<1>1. IInv
    BY InitInvariant
<1>2. stack = <<Model>> /\ Model \in Range(stack)
    <2>1. stack = <<Model>>
        BY DEF Init
    <2>2. stack[1] = Model /\ 1 \in DOMAIN stack
        BY <2>1
    <2>3. QED
        BY <2>1, <2>2 DEF Range
<1>3. \A n \in Vertex : Defined(n) <=> n = Model
    BY IdFacts, KindFacts, ConstantFacts DEF Init, Defined, Ori, Vertex
<1>4. ~Finished(Model) /\ \A n \in Node : ~Finished(n)
    BY <1>2, <1>3, ConstantFacts DEF Finished, Vertex
<1>5. ModelShape
    <2>1. \A id \in Id : heap[id] = Placeholder \/ heap[id] = NoState
        BY DEF Init
    <2>2. /\ NoState.cell = "NONE" /\ ~NoState.leaf /\ NoState.sons = <<>>
          /\ Placeholder.cell = "UNDEFINED" /\ ~Placeholder.leaf /\ Placeholder.sons = <<>>
        BY DEF NoState, Placeholder
    <2>3. QED
        BY <1>4, <2>1, <2>2 DEF ModelShape
<1>6. NodesDone
    BY <1>4 DEF NodesDone
<1>7. QED
    BY <1>1, <1>5, <1>6 DEF HeapInv

\* A step that leaves the model's own states alone keeps what they list.
LEMMA ModelUntouched ==
    ASSUME IInv, ModelShape, dag' = dag, Finished(Model)' <=> Finished(Model),
           \A id \in Id : id[1] = Model => heap'[id] = heap[id],
           \A q \in Node : Finished(q) => dp'[q] = dp[q]
    PROVE  ModelShape'
<1>1. Finished(Model) => \A i \in DOMAIN Src(Model) : dp'[Src(Model)[i]] = dp[Src(Model)[i]]
    <2>1. Model \in Vertex /\ WellFormed(dag)
        BY DEF Vertex, IInv, TypeOK
    <2>2. \A i \in DOMAIN Src(Model) : Src(Model)[i] \in Node
        BY <2>1, NetlistFacts
    <2>3. QED
        BY <2>1, <2>2 DEF IInv, SourcesFinished
<1>2. Src(Model)' = Src(Model) /\ Ori(Model)' = Ori(Model)
    BY DEF Src, Ori
<1>3. ASSUME NEW id \in Id, id[1] = Model
      PROVE  /\ heap'[id].cell \in {"NONE", "UNDEFINED"} /\ ~heap'[id].leaf
             /\ heap'[id].sons = IF id = Ori(Model) /\ Finished(Model)'
                                 THEN [i \in DOMAIN Src(Model) |-> dp'[Src(Model)[i]][0]] ELSE <<>>
    <2>1. /\ heap[id].cell \in {"NONE", "UNDEFINED"} /\ ~heap[id].leaf
          /\ heap[id].sons = IF id = Ori(Model) /\ Finished(Model)
                             THEN [i \in DOMAIN Src(Model) |-> dp[Src(Model)[i]][0]] ELSE <<>>
        BY <1>3 DEF ModelShape
    <2>2. heap'[id] = heap[id]
        BY <1>3
    <2>3. Finished(Model) => [i \in DOMAIN Src(Model) |-> dp[Src(Model)[i]][0]]
                                = [i \in DOMAIN Src(Model) |-> dp'[Src(Model)[i]][0]]
        BY <1>1
    <2>4. QED
        BY <2>1, <2>2, <2>3
<1>4. QED
    BY <1>2, <1>3 DEF ModelShape

\* What the model's state lists, after any step.
LEMMA ModelShapeKept ==
    ASSUME IInv, ModelShape, [Next]_vars
    PROVE  ModelShape'
<1>1. TypeOK /\ WellFormed(dag) /\ Model \in Vertex /\ Node \subseteq Vertex
    BY DEF IInv, TypeOK, Vertex
<1>2. dag' = dag /\ \A q \in Node : Finished(q) => dp'[q] = dp[q]
    BY FinishedKept
<1>3. ASSUME NEW p \in Vertex, Enter(p)
      PROVE  ModelShape'
    <2>1. PICK i \in DOMAIN Src(p) :
            heap' = [heap EXCEPT ![Ori(Src(p)[i])] = Placeholder, ![Inv(Src(p)[i])] = Placeholder]
        BY <1>3 DEF Enter
    <2> DEFINE s == Src(p)[i]
    <2>2. s \in Node
        BY <1>1, <2>1, NetlistFacts
    <2>3. Ori(s)[1] = s /\ Inv(s)[1] = s /\ s # Model
        BY <2>2, ConstantFacts DEF Ori, Inv
    <2>4. \A id \in Id : id # Ori(s) /\ id # Inv(s) => heap'[id] = heap[id]
        BY <1>1, <2>1 DEF TypeOK
    <2> HIDE DEF s
    <2>5. \A id \in Id : id[1] = Model => heap'[id] = heap[id]
        BY <2>3, <2>4
    <2>6. Finished(Model)' <=> Finished(Model)
        BY <1>1, <1>3, FinishedAfter
    <2>7. QED
        BY <1>2, <2>5, <2>6, ModelUntouched
<1>4. ASSUME NEW p \in Vertex,
             FinishLeaf(p) \/ FinishConstant(p) \/ FinishUnary(p) \/ FinishBinary(p)
      PROVE  ModelShape'
    <2>1. p \in Node /\ \A id \in Id : id[1] # p => heap'[id] = heap[id]
        BY <1>4, FinishWritesOwn
    <2>2. p # Model
        BY <2>1, ConstantFacts
    <2>3. Finished(Model)' <=> Finished(Model)
        BY <1>1, <1>4, <2>2, FinishedAfter
    <2>4. QED
        BY <1>2, <2>1, <2>2, <2>3, ModelUntouched
<1>5. ASSUME FinishModel
      PROVE  ModelShape'
    <2> DEFINE refs == [i \in DOMAIN Src(Model) |-> dp[Src(Model)[i]][0]]
               main == Ori(Model)
    <2>1. dag' = dag /\ dp' = dp /\ Finished(Model)'
        <3>1. Finished(Model)'
            BY <1>1, <1>5, FinishedAfter
        <3>2. QED
            BY <1>5, <3>1 DEF FinishModel
    <2>2. main \in Id /\ main[1] = Model
        BY <1>1, IdFacts, KindFacts DEF Ori
    <2>3. heap'[main].cell = "UNDEFINED" /\ ~heap'[main].leaf /\ heap'[main].sons = refs
        BY <1>5, <2>2 DEF FinishModel
    <2>4. \A id \in Id : id # main =>
            heap'[id] = IF id \in Range(refs) THEN [heap[id] EXCEPT !.name = <<id[1], "">>]
                        ELSE heap[id]
        BY <1>5 DEF FinishModel
    <2>5. \A i \in DOMAIN Src(Model) : Src(Model)[i] \in Node /\ Finished(Src(Model)[i])
        BY <1>1, <1>5, NetlistFacts, RunningFacts DEF FinishModel, Ready
    <2>6. \A id \in Range(refs) : id[1] # Model
        <3>1. \A i \in DOMAIN refs : refs[i][1] \in Node
            BY <2>5, FinishedStates, KindFacts
        <3>2. \A id \in Range(refs) : \E i \in DOMAIN refs : id = refs[i]
            BY DEF Range
        <3>3. QED
            BY <3>1, <3>2, ConstantFacts
    <2>7. refs' = refs /\ main' = main
        BY <2>1 DEF Src, Ori
    <2> HIDE DEF refs, main
    <2>8. ASSUME NEW id \in Id, id[1] = Model
          PROVE  /\ heap'[id].cell \in {"NONE", "UNDEFINED"} /\ ~heap'[id].leaf
                 /\ heap'[id].sons = IF id = main THEN refs ELSE <<>>
        <3>1. CASE id = main
            BY <2>3, <3>1
        <3>2. CASE id # main
            <4>1. heap'[id] = heap[id]
                BY <2>4, <2>6, <2>8, <3>2
            <4>2. heap[id].cell \in {"NONE", "UNDEFINED"} /\ ~heap[id].leaf /\ heap[id].sons = <<>>
                BY <2>8, <3>2 DEF ModelShape, main
            <4>3. QED
                BY <3>2, <4>1, <4>2
        <3>3. QED
            BY <3>1, <3>2
    <2>9. QED
        BY <2>1, <2>7, <2>8 DEF ModelShape, refs, main
<1>6. CASE UNCHANGED vars
    BY <1>6 DEF vars, ModelShape, Finished, Defined, Src, Ori
<1>7. QED
    BY <1>3, <1>4, <1>5, <1>6 DEF Next, DFSStep, Returned

\* What the states of the finished nodes are, after any step.
LEMMA NodesDoneStep ==
    ASSUME IInv, NodesDone, [Next]_vars
    PROVE  NodesDone'
<1>1. Node \subseteq Vertex
    BY DEF Vertex
<1>2. \A q \in Node : Finished(q) => Done(q)'
    BY NodesDoneKept DEF Done
<1>3. ASSUME NEW p \in Vertex, Enter(p)
      PROVE  \A q \in Node : Finished(q)' => Done(q)'
    BY <1>1, <1>2, <1>3, FinishedAfter
<1>4. ASSUME NEW p \in Vertex,
             FinishLeaf(p) \/ FinishConstant(p) \/ FinishUnary(p) \/ FinishBinary(p)
      PROVE  \A q \in Node : Finished(q)' => Done(q)'
    <2>1. Done(p)'
        BY <1>4, FinishLeafDone, FinishConstantDone, FinishUnaryDone, FinishBinaryDone
    <2>2. QED
        BY <1>1, <1>2, <1>4, <2>1, FinishedAfter
<1>5. ASSUME FinishModel
      PROVE  \A q \in Node : Finished(q)' => Done(q)'
    BY <1>1, <1>2, <1>5, FinishedAfter, ConstantFacts
<1>6. ASSUME UNCHANGED vars
      PROVE  \A q \in Node : Finished(q)' => Done(q)'
    BY <1>2, <1>6 DEF vars, Finished, Defined
<1>7. \A q \in Node : Finished(q)' => Done(q)'
    BY <1>3, <1>4, <1>5, <1>6 DEF Next, DFSStep, Returned
<1>8. QED
    BY <1>7 DEF NodesDone, Done

\* Every step preserves the heap invariant.
LEMMA StepHeap == HeapInv /\ [Next]_vars => HeapInv'
BY StepPreserves, ModelShapeKept, NodesDoneStep DEF HeapInv

(***************************************************************************)
(* The heap always holds, for every node whose call has returned, the      *)
(* covers its gate calls for, each up to date with its sons.               *)
(***************************************************************************)
THEOREM HeapInvariance == Spec => []HeapInv
BY InitHeap, StepHeap, PTL DEF Spec

(***************************************************************************)
(* What a state was computed to drive is what its cell drives from its     *)
(* sons as they are now: no step, on its node or another, and not the      *)
(* renaming of the outputs either, changes a state that others refer to.   *)
(***************************************************************************)
THEOREM NetworkStaysConsistent == Spec => []NetworkConsistent
<1>1. HeapInv => NetworkConsistent
    <2> SUFFICES ASSUME HeapInv, NEW id \in Id, heap[id].cell \notin {"NONE", "UNDEFINED"}
                 PROVE  heap[id].fn = CellFn(heap[id].cell, States(heap[id].sons))
        BY DEF NetworkConsistent
    <2>1. id[1] \in Node
        BY IdFacts DEF HeapInv, ModelShape, Vertex
    <2>2. Finished(id[1])
        <3>1. id = <<id[1], id[2], id[3]>> /\ id[2] \in Bit /\ id[3] \in Kind
            BY IdFacts
        <3>2. ~Finished(id[1]) => heap[id] = Placeholder \/ heap[id] = NoState
            BY <2>1, <3>1 DEF HeapInv, IInv, Untouched
        <3>3. QED
            BY <3>2, PlaceholderType
    <2>3. heap[id] = OnHeap(heap[id].name, heap[id].cell, heap[id].sons)
        BY <2>1, <2>2 DEF HeapInv, NodesDone, UpToDate
    <2>4. \A name, cell, sons : OnHeap(name, cell, sons).fn = CellFn(cell, States(sons))
        BY DEF OnHeap, Updated
    <2>5. QED
        BY <2>3, <2>4
<1>2. QED
    BY <1>1, HeapInvariance, PTL

=============================================================================
