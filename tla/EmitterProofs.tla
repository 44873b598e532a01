--------------------------- MODULE EmitterProofs ---------------------------
(***************************************************************************)
(* What main prints is right for every netlist.                            *)
(*                                                                         *)
(* The printing phase reads a heap that no longer changes.  travel goes    *)
(* down strictly: the states on its call stack are ever lower, so a state  *)
(* that has been visited and is not an input has been printed, or its call *)
(* is still active.  Which states travel reaches follows from the shape of *)
(* the finished nodes, and with it which names it prints.  Since no name   *)
(* is driven twice, the text can be read back block by block: what its     *)
(* nets carry is what the states drive, and main keeps the mapper's        *)
(* promise.  In the same way the levels of its nets are the depths of the  *)
(* states, and what is printed is within the cost, of which every active   *)
(* call has a share left.                                                  *)
(***************************************************************************)
EXTENDS Emitter, TechMapProofs, FiniteSetTheorems, WellFoundedInduction

-----------------------------------------------------------------------------
(* The printing phase goes on from where the mapping ends                  *)

\* Every step of main is a step of DFS or leaves its variables alone.
LEMMA MainStepMaps == [MainNext]_allVars => [Next]_vars
BY DEF MainNext, MainStep, Mapping, Crash, PrintHeader, SkipSon, TravelSon, PrintBlock,
       PrintEnd, Stopped, allVars, vars, Next

(***************************************************************************)
(* main implements the mapping: whatever is proved of DFS holds until the  *)
(* text has been printed.                                                  *)
(***************************************************************************)
THEOREM MainMaps == MainSpec => Spec
<1>1. MainInit => Init
    BY DEF MainInit
<1>2. QED
    BY <1>1, MainStepMaps, PTL DEF MainSpec, Spec

\* In particular the heap invariant.
LEMMA MainHeap == MainSpec => []HeapInv
BY MainMaps, HeapInvariance, PTL

-----------------------------------------------------------------------------
(* The states that travel reaches                                          *)

\* What pass v of gate p ended with: the INV of the other pass stands on it.
Chosen(p, v) == heap[<<p, 1 - v, "head">>].sons[1]

\* A state of its node that another node, or the model, leads to.
Reached(id) ==
    LET p == id[1]
    IN  IF Len(Src(p)) # 2 THEN id[3] = "dp"
        ELSE \/ id = <<p, 1, "head">>
             \/ id = Chosen(p, 0)
             \/ id = <<p, 0, "t1">> /\ Chosen(p, 0) = <<p, 0, "t2">>
             \/ /\ dp[p][0] = <<p, 0, "head">>
                /\ \/ id = <<p, 0, "head">>
                   \/ id = Chosen(p, 1)
                   \/ id = <<p, 1, "t1">> /\ Chosen(p, 1) = <<p, 1, "t2">>

\* Such a state of a node whose call has returned.
Travelled(id) == id \in Id /\ id[1] \in Node /\ Finished(id[1]) /\ Reached(id)

\* The block that travel prints for a state.
Block(id) == [cell |-> heap[id].cell, out |-> heap[id].name,
              ins  |-> [i \in DOMAIN heap[id].sons |-> heap[heap[id].sons[i]].name]]

\* travel goes down to lower nodes, and within a node to lower states.
Lower(a, b) ==
    \/ dag.rank[a[1]] < dag.rank[b[1]]
    \/ a[1] = b[1] /\ Level(a) < Level(b)

\* Levels are numbers.
LEMMA LevelType == \A id \in Id : Level(id) \in Nat
BY IdFacts, KindFacts DEF Level, Bit

\* No state is lower than itself, and lower than lower is lower.
LEMMA LowerFacts ==
    ASSUME WellFormed(dag)
    PROVE  /\ \A a \in Id : ~Lower(a, a)
           /\ \A a, b, c \in Id : Lower(a, b) /\ Lower(b, c) => Lower(a, c)
<1>1. \A id \in Id : Level(id) \in Nat /\ dag.rank[id[1]] \in Nat
    BY LevelType, IdFacts, NetlistFacts
<1>2. QED
    BY <1>1 DEF Lower

\* The winners of the passes of a finished gate.
LEMMA ChosenFacts ==
    ASSUME HeapInv, NEW p \in Node, Finished(p), Len(Src(p)) = 2
    PROVE  /\ HeadShape(p, Chosen(p, 0)[3], Chosen(p, 1)[3])
           /\ \A v \in Bit : /\ Chosen(p, v) = <<p, v, Chosen(p, v)[3]>>
                             /\ Chosen(p, v) \in Id /\ Chosen(p, v)[3] \in Kind \ {"head"}
                             /\ Chosen(p, v)[1] = p /\ Chosen(p, v)[2] = v
                             /\ heap[<<p, 1 - v, "head">>].sons = <<Chosen(p, v)>>
                             /\ PassShape(p, v)
<1>1. GateShape(p)
    BY DEF HeapInv, NodesDone, Shape
<1>2. PICK k, l \in Kind : HeadShape(p, k, l)
    BY <1>1 DEF GateShape
<1>3. 1 - 0 = 1 /\ 1 - 1 = 0
    OBVIOUS
<1>4. /\ heap[<<p, 1, "head">>].sons = << <<p, 0, k>> >>
      /\ heap[<<p, 0, "head">>].sons = << <<p, 1, l>> >>
      /\ k # "head" /\ l # "head"
    BY <1>2 DEF HeadShape, BaseKind
<1>5. Chosen(p, 0) = <<p, 0, k>> /\ Chosen(p, 1) = <<p, 1, l>>
    BY <1>3, <1>4 DEF Chosen
<1>6. \A v \in Bit, a \in Kind : <<p, v, a>> \in Id /\ <<p, v, a>>[3] = a
    BY IdFacts DEF Vertex
<1>7. /\ Chosen(p, 0)[1] = p /\ Chosen(p, 0)[2] = 0 /\ Chosen(p, 0)[3] = k
      /\ Chosen(p, 1)[1] = p /\ Chosen(p, 1)[2] = 1 /\ Chosen(p, 1)[3] = l
    BY <1>5
<1>8. /\ Chosen(p, 0) = <<p, 0, Chosen(p, 0)[3]>> /\ Chosen(p, 0) \in Id
      /\ Chosen(p, 0)[3] \in Kind \ {"head"}
      /\ heap[<<p, 1, "head">>].sons = <<Chosen(p, 0)>> /\ PassShape(p, 0)
    BY <1>1, <1>4, <1>5, <1>6, <1>7, KindFacts DEF GateShape
<1>9. /\ Chosen(p, 1) = <<p, 1, Chosen(p, 1)[3]>> /\ Chosen(p, 1) \in Id
      /\ Chosen(p, 1)[3] \in Kind \ {"head"}
      /\ heap[<<p, 0, "head">>].sons = <<Chosen(p, 1)>> /\ PassShape(p, 1)
    BY <1>1, <1>4, <1>5, <1>6, <1>7, KindFacts DEF GateShape
<1>10. QED
    BY <1>2, <1>3, <1>7, <1>8, <1>9, KindFacts

\* The two states of a finished node are reached.
LEMMA EntriesReached ==
    ASSUME HeapInv, NEW n \in Node, Finished(n), NEW v \in Bit
    PROVE  Travelled(dp[n][v])
<1>1. dp[n][v] \in Id /\ dp[n][v][1] = n
    BY FinishedStates DEF HeapInv
<1>2. CASE Len(Src(n)) # 2
    <2>1. dp[n][0] = Ori(n) /\ dp[n][1] = Inv(n)
        BY <1>2 DEF HeapInv, NodesDone, Shape, SimpleShape
    <2>2. dp[n][v][3] = "dp"
        BY <2>1, KindFacts DEF Ori, Inv
    <2>3. QED
        BY <1>1, <1>2, <2>2 DEF Travelled, Reached
<1>3. CASE Len(Src(n)) = 2
    <2>1. HeadShape(n, Chosen(n, 0)[3], Chosen(n, 1)[3]) /\ Chosen(n, 0) = <<n, 0, Chosen(n, 0)[3]>>
        <3>1. /\ HeadShape(n, Chosen(n, 0)[3], Chosen(n, 1)[3])
              /\ \A w \in Bit : Chosen(n, w) = <<n, w, Chosen(n, w)[3]>>
            BY <1>3, ChosenFacts
        <3>2. QED
            BY <3>1, KindFacts
    <2>2. dp[n][1] = <<n, 1, "head">> /\ (dp[n][0] = <<n, 0, "head">> \/ dp[n][0] = Chosen(n, 0))
        BY <2>1 DEF HeadShape
    <2>3. Reached(dp[n][v])
        BY <1>1, <1>3, <2>2, KindFacts DEF Reached
    <2>4. QED
        BY <1>1, <2>3 DEF Travelled
<1>4. QED
    BY <1>2, <1>3

\* The sons of a state that travel reaches are reached as well, and are lower.
LEMMA SonsTravelled ==
    ASSUME HeapInv, NEW id, Travelled(id)
    PROVE  \A i \in DOMAIN heap[id].sons :
                Travelled(heap[id].sons[i]) /\ Lower(heap[id].sons[i], id)
<1> DEFINE q == id[1]
           v == id[2]
<1>1. /\ id \in Id /\ q \in Node /\ Finished(q) /\ Reached(id) /\ Shape(q)
      /\ id = <<q, v, id[3]>> /\ v \in Bit /\ id[3] \in Kind
    BY IdFacts DEF Travelled, HeapInv, NodesDone
<1>2. \A i \in DOMAIN heap[id].sons : SonBelow(id, heap[id].sons[i])
    BY <1>1, SonsOfFinished DEF HeapInv
<1>3. ASSUME NEW n \in Node, NEW w \in Bit, Below(n, q)
      PROVE  Travelled(dp[n][w]) /\ Lower(dp[n][w], id)
    <2>1. Finished(n) /\ dag.rank[n] < dag.rank[q]
        BY <1>3 DEF Below
    <2>2. dp[n][w][1] = n
        BY <2>1, FinishedStates DEF HeapInv
    <2>3. QED
        BY <2>1, <2>2, EntriesReached DEF Lower
<1>4. ASSUME NEW son \in Id, son[1] = q, Level(son) < Level(id), Reached(son)
      PROVE  Travelled(son) /\ Lower(son, id)
    BY <1>1, <1>4 DEF Travelled, Lower
<1> HIDE DEF q, v
<1>5. \A w \in Bit, a \in Kind : /\ <<q, w, a>> \in Id /\ <<q, w, a>>[1] = q
                                 /\ <<q, w, a>>[2] = w /\ <<q, w, a>>[3] = a
    BY <1>1, IdFacts DEF Vertex
<1>6. ASSUME NEW i \in DOMAIN heap[id].sons,
             heap[id].sons[i] \in Id /\ heap[id].sons[i][1] = q => Reached(heap[id].sons[i])
      PROVE  Travelled(heap[id].sons[i]) /\ Lower(heap[id].sons[i], id)
    <2>1. SonBelow(id, heap[id].sons[i])
        BY <1>2
    <2>2. QED
        BY <1>3, <1>4, <1>6, <2>1 DEF SonBelow, q
<1>7. CASE Len(Src(q)) # 2
    <2>1. SimpleShape(q) /\ id[3] = "dp"
        BY <1>1, <1>7 DEF Shape, Reached, q
    <2>2. ASSUME NEW son \in Id, son[1] = q, son[3] = "dp"
          PROVE  Reached(son)
        BY <1>7, <2>2 DEF Reached
    <2>3. ASSUME NEW i \in DOMAIN heap[id].sons, heap[id].sons[i] \in Id, heap[id].sons[i][1] = q
          PROVE  heap[id].sons[i][3] = "dp"
        <3>1. id = Ori(q) \/ id = Inv(q)
            BY <1>1, <2>1, KindFacts DEF Ori, Inv
        <3>2. CASE id = Inv(q)
            <4>1. heap[id].sons = <<>> \/ heap[id].sons = <<Ori(q)>>
                BY <2>1, <3>2 DEF SimpleShape
            <4>2. heap[id].sons[i] = Ori(q)
                BY <4>1, ShortSequences
            <4>3. QED
                BY <4>2 DEF Ori
        <3>3. CASE id = Ori(q)
            <4>1. \/ heap[id].sons = <<>>
                  \/ Len(Src(q)) = 1 /\ \E w \in Bit : heap[id].sons = <<dp[Src(q)[1]][w]>>
                BY <2>1, <3>3 DEF SimpleShape
            <4>2. PICK w \in Bit : heap[id].sons[i] = dp[Src(q)[1]][w] /\ Len(Src(q)) = 1
                BY <4>1, ShortSequences
            <4>3. Below(Src(q)[1], q)
                <5>1. \A j \in DOMAIN Src(q) : Finished(Src(q)[j])
                    BY <1>1 DEF HeapInv, IInv, SourcesFinished, Vertex
                <5>2. QED
                    BY <1>1, <4>2, <5>1, SourcesBelow DEF HeapInv
            <4>4. dp[Src(q)[1]][w][1] = Src(q)[1] /\ Src(q)[1] # q
                BY <4>3, FinishedStates, NetlistFacts DEF Below, HeapInv, IInv, TypeOK
            <4>5. QED
                BY <2>3, <4>2, <4>4
        <3>4. QED
            BY <3>1, <3>2, <3>3
    <2>4. QED
        BY <1>6, <2>2, <2>3
<1>8. CASE Len(Src(q)) = 2
    <2>1. /\ \A w \in Bit : /\ Chosen(q, w) = <<q, w, Chosen(q, w)[3]>>
                            /\ Chosen(q, w) \in Id /\ Chosen(q, w)[3] \in Kind \ {"head"}
                            /\ Chosen(q, w)[1] = q /\ Chosen(q, w)[2] = w
                            /\ heap[<<q, 1 - w, "head">>].sons = <<Chosen(q, w)>>
                            /\ PassShape(q, w)
        BY <1>1, <1>8, ChosenFacts
    <2>2. ASSUME NEW son \in Id, son[1] = q
          PROVE  Reached(son) <=>
                    \/ son = <<q, 1, "head">>
                    \/ son = Chosen(q, 0)
                    \/ son = <<q, 0, "t1">> /\ Chosen(q, 0) = <<q, 0, "t2">>
                    \/ /\ dp[q][0] = <<q, 0, "head">>
                       /\ \/ son = <<q, 0, "head">>
                          \/ son = Chosen(q, 1)
                          \/ son = <<q, 1, "t1">> /\ Chosen(q, 1) = <<q, 1, "t2">>
        BY <1>8, <2>2 DEF Reached
    <2>3. id[1] = q
        BY DEF q
    <2>4. CASE id[3] = "head"
        <3>1. heap[id].sons = <<Chosen(q, 1 - v)>> /\ 1 - v \in Bit
            <4>1. 1 - v \in Bit /\ 1 - (1 - v) = v
                BY <1>1 DEF Bit
            <4>2. heap[<<q, 1 - (1 - v), "head">>].sons = <<Chosen(q, 1 - v)>>
                BY <2>1, <4>1
            <4>3. QED
                BY <1>1, <2>4, <4>1, <4>2
        <3>2. Reached(Chosen(q, 1 - v))
            <4>1. /\ 1 - 0 = 1 /\ 1 - 1 = 0 /\ Chosen(q, 0) \in Id /\ Chosen(q, 1) \in Id
                  /\ Chosen(q, 0)[1] = q /\ Chosen(q, 1)[1] = q
                <5>1. \A w \in Bit : Chosen(q, w) \in Id /\ Chosen(q, w)[1] = q
                    BY <2>1
                <5>2. QED
                    BY <5>1, KindFacts
            <4>2. CASE v = 1
                BY <2>2, <4>1, <4>2
            <4>3. CASE v = 0
                <5>1. id = <<q, 0, "head">>
                    BY <1>1, <2>4, <4>3
                <5>2. /\ id # <<q, 1, "head">> /\ id # Chosen(q, 0)
                      /\ id # <<q, 0, "t1">>
                    <6>1. Chosen(q, 0)[3] # "head"
                        BY <2>1, KindFacts
                    <6>2. QED
                        BY <5>1, <6>1
                <5>3. dp[q][0] = <<q, 0, "head">>
                    BY <1>1, <2>2, <2>3, <5>2
                <5>4. QED
                    BY <2>2, <4>1, <4>3, <5>3
            <4>4. QED
                BY <1>1, <4>2, <4>3, KindFacts
        <3>3. QED
            BY <1>6, <3>1, <3>2, ShortSequences
    <2>5. CASE id[3] = "t2"
        <3>1. BaseShape(q, v)
            BY <1>1, <2>1 DEF PassShape
        <3>2. Vacant(heap[id]) \/ heap[id].sons = << <<q, v, "t1">> >>
            BY <1>1, <2>5, <3>1 DEF BaseShape
        <3>3. \A i \in DOMAIN heap[id].sons : heap[id].sons[i] = <<q, v, "t1">>
            BY <3>2, ShortSequences DEF Vacant
        <3>4. Reached(<<q, v, "t1">>)
            <4>1. id = <<q, v, "t2">> /\ <<q, v, "t1">> \in Id /\ <<q, v, "t1">>[1] = q
                BY <1>1, <1>5, <2>5, KindFacts
            <4>2. /\ id # <<q, 1, "head">> /\ id # <<q, 0, "head">>
                  /\ id # <<q, 0, "t1">> /\ id # <<q, 1, "t1">>
                BY <4>1
            <4>3. id = Chosen(q, 0) => v = 0
                <5>1. Chosen(q, 0)[2] = 0
                    BY <2>1, KindFacts
                <5>2. QED
                    BY <4>1, <5>1
            <4>4. id = Chosen(q, 1) => v = 1
                <5>1. Chosen(q, 1)[2] = 1
                    BY <2>1, KindFacts
                <5>2. QED
                    BY <4>1, <5>1
            <4>5. \/ id = Chosen(q, 0) /\ v = 0
                  \/ id = Chosen(q, 1) /\ v = 1 /\ dp[q][0] = <<q, 0, "head">>
                BY <1>1, <2>2, <2>3, <4>2, <4>3, <4>4
            <4>6. QED
                BY <2>2, <4>1, <4>5
        <3>5. QED
            BY <1>6, <3>3, <3>4
    <2>6. CASE id[3] = "dp"
        <3>1. Vacant(heap[<<q, v, "dp">>])
            BY <1>1, <2>1 DEF PassShape
        <3>2. heap[id].sons = <<>>
            BY <1>1, <2>6, <3>1 DEF Vacant
        <3>3. QED
            BY <3>2, ShortSequences
    <2>7. CASE id[3] \notin {"head", "t2", "dp"}
        <3>1. Level(id) = 0
            BY <2>7 DEF Level
        <3>2. ASSUME NEW i \in DOMAIN heap[id].sons
              PROVE  Travelled(heap[id].sons[i]) /\ Lower(heap[id].sons[i], id)
            <4>1. SonBelow(id, heap[id].sons[i])
                BY <1>2
            <4>2. ~(heap[id].sons[i] \in Id /\ Level(heap[id].sons[i]) < 0)
                BY LevelType
            <4>3. QED
                BY <1>3, <3>1, <4>1, <4>2 DEF SonBelow, q
        <3>3. QED
            BY <3>2
    <2>8. QED
        BY <2>4, <2>5, <2>6, <2>7
<1>9. QED
    BY <1>7, <1>8

\* An input's state is its node's first, and is called as the node is.
LEMMA LeafFacts ==
    ASSUME HeapInv, NEW id, Travelled(id), heap[id].leaf
    PROVE  /\ id[1] \in dag.leaf /\ id = dp[id[1]][0] /\ heap[id].name = <<id[1], "">>
           /\ heap[id].sons = <<>>
<1> DEFINE q == id[1]
<1>1. /\ id \in Id /\ q \in Node /\ Finished(q) /\ Shape(q) /\ Named(id)
      /\ id = <<q, id[2], id[3]>> /\ id[2] \in Bit /\ id[3] \in Kind
    BY IdFacts DEF Travelled, HeapInv, NodesDone
<1> HIDE DEF q
<1>2. Len(Src(q)) # 2
    <2>1. SUFFICES ASSUME Len(Src(q)) = 2 PROVE FALSE
        OBVIOUS
    <2>2. GateShape(q)
        BY <1>1, <2>1 DEF Shape
    <2>3. ~heap[<<q, id[2], id[3]>>].leaf
        BY <1>1, <2>2 DEF GateShape, PassShape
    <2>4. QED
        BY <1>1, <2>3
<1>3. SimpleShape(q)
    BY <1>1, <1>2 DEF Shape
<1>4. id = Ori(q)
    <2>1. id[3] = "dp"
        BY <1>2 DEF Travelled, Reached, q
    <2>2. id = Ori(q) \/ id = Inv(q)
        BY <1>1, <2>1, KindFacts DEF Ori, Inv
    <2>3. QED
        BY <1>3, <2>2 DEF SimpleShape
<1>5. IsLeaf(q) /\ dp[q][0] = id /\ heap[id].sons = <<>>
    BY <1>3, <1>4 DEF SimpleShape
<1>6. heap[id].name = <<q, "">>
    <2>1. ~Vacant(heap[id])
        BY DEF Vacant
    <2>2. TagOf(id) = ""
        <3>1. id[2] = 0
            BY <1>4 DEF Ori
        <3>2. QED
            BY <1>2, <3>1 DEF TagOf, q
    <2>3. QED
        BY <1>1, <2>1, <2>2 DEF Named, q
<1>7. QED
    BY <1>5, <1>6 DEF IsLeaf, q

\* A pass that ended without a cell ended on its placeholder.
LEMMA ChosenCell ==
    ASSUME HeapInv, NEW q \in Node, Finished(q), Len(Src(q)) = 2, NEW w \in Bit
    PROVE  /\ heap[Chosen(q, w)].cell # "NONE"
           /\ heap[Chosen(q, w)].cell = "UNDEFINED" => Saturated
           /\ heap[<<q, w, "t1">>].cell \in {"NAND2", "NOR2"}
<1>1. /\ HeadShape(q, Chosen(q, 0)[3], Chosen(q, 1)[3])
      /\ \A v \in Bit : /\ Chosen(q, v) = <<q, v, Chosen(q, v)[3]>>
                        /\ Chosen(q, v) \in Id /\ Chosen(q, v)[3] \in Kind \ {"head"}
                        /\ Chosen(q, v)[1] = q /\ Chosen(q, v)[2] = v
                        /\ heap[<<q, 1 - v, "head">>].sons = <<Chosen(q, v)>>
                        /\ PassShape(q, v)
    BY ChosenFacts
<1>2. PICK k \in Kind \ {"head"} : k = Chosen(q, w)[3] /\ Chosen(q, w) = <<q, w, k>>
    BY <1>1
<1>3. /\ heap[<<q, w, k>>].cell # "NONE" /\ (k = "dp" => Saturated)
      /\ k \in {"dp", BaseKind(q, w), "aoi21", "aoi12", "aoi22"}
    BY <1>1, <1>2, KindFacts DEF HeadShape
<1>4. heap[<<q, w, "t1">>].cell \in {"NAND2", "NOR2"}
    <2>1. dag.gate[q] \in Gate
        BY NetlistFacts DEF HeapInv, IInv, TypeOK
    <2>2. Base(q, w).cell \in {"NAND2", "NOR2"}
        BY <2>1, BaseCoverCorrect DEF Base
    <2>3. QED
        BY <1>1, <2>2 DEF PassShape, BaseShape
<1>5. CASE k = BaseKind(q, w)
    <2>1. BaseShape(q, w)
        BY <1>1 DEF PassShape
    <2>2. QED
        BY <1>2, <1>3, <1>4, <1>5, <2>1 DEF BaseKind, BaseShape
<1>6. CASE k \in {"aoi21", "aoi12", "aoi22"}
    <2>1. AOI21Shape(q, w) /\ AOI12Shape(q, w) /\ AOI22Shape(q, w)
        BY <1>1 DEF PassShape
    <2>2. /\ heap[<<q, w, "aoi21">>].cell \in {"NONE", "AOI21"}
          /\ heap[<<q, w, "aoi12">>].cell \in {"NONE", "AOI12"}
          /\ heap[<<q, w, "aoi22">>].cell \in {"NONE", "AOI22"}
        BY <2>1 DEF AOI21Shape, AOI12Shape, AOI22Shape
    <2>3. QED
        BY <1>2, <1>3, <1>4, <1>6, <2>2
<1>7. QED
    BY <1>2, <1>3, <1>4, <1>5, <1>6

\* What travel may find at a state: only where a cost overflowed is there no cell.
LEMMA TravelledFacts ==
    ASSUME HeapInv, NEW id, Travelled(id)
    PROVE  /\ heap[id] \in DpState /\ heap[id].cell # "NONE"
           /\ heap[id].cell = "UNDEFINED" /\ ~heap[id].leaf => Overflowed /\ Saturated
<1> DEFINE q == id[1]
<1>1. /\ id \in Id /\ q \in Node /\ Finished(q) /\ Shape(q) /\ heap[id] \in DpState
      /\ id = <<q, id[2], id[3]>> /\ id[2] \in Bit /\ id[3] \in Kind
    BY IdFacts, ConstantFacts DEF Travelled, HeapInv, NodesDone, IInv, TypeOK
<1> HIDE DEF q
<1>2. CASE Len(Src(q)) # 2
    <2>1. SimpleShape(q) /\ id[3] = "dp"
        BY <1>1, <1>2 DEF Shape, Travelled, Reached, q
    <2>2. id = Ori(q) \/ id = Inv(q)
        BY <1>1, <2>1, KindFacts DEF Ori, Inv
    <2>3. heap[id].cell \in {"ONE", "ZERO", "SAME", "INV"} \/ (heap[id].leaf /\ heap[id].cell = "UNDEFINED")
        BY <2>1, <2>2 DEF SimpleShape
    <2>4. QED
        BY <1>1, <2>3
<1>3. CASE Len(Src(q)) = 2
    <2>1. /\ \A w \in Bit : /\ Chosen(q, w) = <<q, w, Chosen(q, w)[3]>>
                            /\ Chosen(q, w) \in Id /\ Chosen(q, w)[3] \in Kind \ {"head"}
                            /\ heap[<<q, 1 - w, "head">>].sons = <<Chosen(q, w)>>
                            /\ PassShape(q, w)
          /\ HeadShape(q, Chosen(q, 0)[3], Chosen(q, 1)[3])
        BY <1>1, <1>3, ChosenFacts
    <2>2. /\ heap[Chosen(q, 0)].cell # "NONE" /\ heap[Chosen(q, 1)].cell # "NONE"
          /\ heap[<<q, 0, "head">>].cell = "INV" /\ heap[<<q, 1, "head">>].cell = "INV"
          /\ Chosen(q, 0)[3] = "dp" \/ Chosen(q, 1)[3] = "dp" => Saturated
        BY <2>1, KindFacts DEF HeadShape
    <2>3. \A w \in Bit : heap[<<q, w, "t1">>].cell \in {"NAND2", "NOR2"}
        <3>1. \A w \in Bit : Base(q, w).cell \in {"NAND2", "NOR2"}
            <4>1. dag.gate[q] \in Gate
                BY <1>1, NetlistFacts DEF HeapInv, IInv, TypeOK
            <4>2. QED
                BY <4>1, BaseCoverCorrect DEF Base
        <3>2. QED
            BY <2>1, <3>1 DEF PassShape, BaseShape
    <2>4. \/ \E w \in Bit : id = Chosen(q, w)
          \/ \E w \in Bit : id = <<q, w, "t1">>
          \/ \E w \in Bit : id = <<q, w, "head">>
        BY <1>3, KindFacts DEF Travelled, Reached, q
    <2>5. CASE \E w \in Bit : id = <<q, w, "t1">> \/ id = <<q, w, "head">>
        BY <1>1, <2>2, <2>3, <2>5, KindFacts
    <2>6. ASSUME NEW w \in Bit, id = Chosen(q, w)
          PROVE  /\ heap[id].cell # "NONE"
                 /\ heap[id].cell = "UNDEFINED" /\ ~heap[id].leaf => Overflowed /\ Saturated
        <3>1. heap[id].cell # "NONE"
            BY <2>2, <2>6, KindFacts
        <3>2. ASSUME heap[id].cell = "UNDEFINED", ~heap[id].leaf
              PROVE  Overflowed
            <4> DEFINE head == <<q, 1 - w, "head">>
            <4>1. head \in Id /\ head[1] = q /\ q # Model
                <5>1. 1 - w \in Bit
                    BY DEF Bit
                <5>2. QED
                    BY <1>1, <5>1, IdFacts, KindFacts, ConstantFacts DEF Vertex
            <4>2. heap[head].sons = <<id>>
                BY <2>1, <2>6
            <4> HIDE DEF head
            <4>3. 1 \in DOMAIN heap[head].sons /\ heap[head].sons[1] = id
                BY <4>2, ShortSequences
            <4>4. QED
                BY <3>2, <4>1, <4>3 DEF Overflowed
        <3>3. ASSUME heap[id].cell = "UNDEFINED"
              PROVE  Saturated
            BY <1>1, <1>3, <2>6, <3>3, ChosenCell
        <3>4. QED
            BY <3>1, <3>2, <3>3
    <2>7. QED
        BY <1>1, <2>4, <2>5, <2>6
<1>4. QED
    BY <1>2, <1>3

\* An INV on a placeholder shows that a cost has reached the largest long double.
LEMMA OverflowSaturates ==
    ASSUME HeapInv, Overflowed
    PROVE  Saturated
<1>1. PICK id \in Id : id[1] # Model /\ \E i \in DOMAIN heap[id].sons :
            heap[heap[id].sons[i]].cell = "UNDEFINED" /\ ~heap[heap[id].sons[i]].leaf
    BY DEF Overflowed
<1>2. PICK i \in DOMAIN heap[id].sons :
            heap[heap[id].sons[i]].cell = "UNDEFINED" /\ ~heap[heap[id].sons[i]].leaf
    BY <1>1
<1>3. PICK q \in Node : q = id[1]
    BY <1>1, IdFacts DEF Vertex
<1>4. IInv /\ Finished(q) /\ Shape(q)
    <2>1. ~Finished(q) => heap[id].sons = <<>>
        BY <1>3, UnfinishedFacts DEF HeapInv
    <2>2. QED
        BY <1>2, <1>3, <2>1, ShortSequences DEF HeapInv, NodesDone
<1>5. PICK son : son = heap[id].sons[i]
    OBVIOUS
<1>6. heap[son].cell = "UNDEFINED" /\ ~heap[son].leaf
    BY <1>2, <1>5
<1>7. SonBelow(id, son)
    BY <1>3, <1>4, <1>5, SonsOfFinished
<1>8. Travelled(son) => Saturated
    BY <1>6, TravelledFacts
<1>9. CASE \E n \in Node, w \in Bit : Below(n, id[1]) /\ son = dp[n][w]
    BY <1>8, <1>9, EntriesReached DEF Below
<1>10. id = <<q, id[2], id[3]>> /\ id[2] \in Bit /\ id[3] \in Kind
    BY <1>3, IdFacts
<1>11. CASE son \in Id /\ son[1] = q /\ Level(son) < Level(id)
    <2>1. CASE Len(Src(q)) # 2
        <3>1. SimpleShape(q)
            BY <1>4, <2>1 DEF Shape
        <3>2. id[3] # "dp" => heap[id].sons = <<>>
            BY <1>10, <3>1 DEF SimpleShape, Vacant
        <3>3. id = Ori(q) \/ id = Inv(q)
            BY <1>5, <1>2, <1>10, <3>2, ShortSequences, KindFacts DEF Ori, Inv
        <3>4. CASE id = Inv(q)
            <4>1. son = Ori(q)
                BY <1>2, <1>5, <3>1, <3>4, ShortSequences DEF SimpleShape
            <4>2. son = dp[q][0]
                BY <3>1, <4>1 DEF SimpleShape
            <4>3. QED
                BY <1>4, <1>8, <4>2, EntriesReached, KindFacts
        <3>5. CASE id = Ori(q)
            <4>1. Level(id) = 0 /\ Level(son) \in Nat
                BY <1>11, <3>5, LevelType DEF Level, Ori
            <4>2. QED
                BY <1>11, <4>1
        <3>6. QED
            BY <3>3, <3>4, <3>5
    <2>2. CASE Len(Src(q)) = 2
        <3>1. /\ \A v \in Bit : heap[<<q, 1 - v, "head">>].sons = <<Chosen(q, v)>> /\ PassShape(q, v)
            BY <1>4, <2>2, ChosenFacts
        <3>2. \A v \in Bit : /\ heap[Chosen(q, v)].cell = "UNDEFINED" => Saturated
                             /\ heap[<<q, v, "t1">>].cell \in {"NAND2", "NOR2"}
            BY <1>4, <2>2, ChosenCell
        <3>3. PICK v \in Bit : v = id[2]
            BY <1>10
        <3>4. CASE id[3] = "head"
            <4>1. 1 - v \in Bit /\ 1 - (1 - v) = v
                BY DEF Bit
            <4>2. heap[<<q, 1 - (1 - v), "head">>].sons = <<Chosen(q, 1 - v)>>
                BY <3>1, <4>1
            <4>3. son = Chosen(q, 1 - v)
                BY <1>2, <1>5, <1>10, <3>3, <3>4, <4>1, <4>2, ShortSequences
            <4>4. QED
                BY <1>6, <3>2, <4>1, <4>3
        <3>5. CASE id[3] = "t2"
            <4>1. Vacant(heap[id]) \/ heap[id].sons = << <<q, v, "t1">> >>
                BY <1>10, <3>1, <3>3, <3>5 DEF PassShape, BaseShape
            <4>2. son = <<q, v, "t1">>
                BY <1>2, <1>5, <4>1, ShortSequences DEF Vacant
            <4>3. QED
                BY <1>6, <3>2, <4>2
        <3>6. CASE id[3] = "dp"
            <4>1. Vacant(heap[id])
                BY <1>10, <3>1, <3>3, <3>6 DEF PassShape
            <4>2. QED
                BY <1>2, <4>1, ShortSequences DEF Vacant
        <3>7. CASE id[3] \notin {"head", "t2", "dp"}
            <4>1. Level(id) = 0 /\ Level(son) \in Nat
                BY <1>11, <3>7, LevelType DEF Level
            <4>2. QED
                BY <1>11, <4>1
        <3>8. QED
            BY <3>4, <3>5, <3>6, <3>7
    <2>3. QED
        BY <2>1, <2>2
<1>12. QED
    BY <1>3, <1>7, <1>9, <1>11 DEF SonBelow

\* Once DFS has returned to main, the model's state lists the outputs' states.
LEMMA ModelSons ==
    ASSUME HeapInv, stack = <<>>
    PROVE  /\ Finished(Model) /\ Ori(Model) \in Id
           /\ heap[Ori(Model)].sons = [i \in DOMAIN Src(Model) |-> dp[Src(Model)[i]][0]]
           /\ \A i \in DOMAIN Src(Model) : Src(Model)[i] \in Node /\ Finished(Src(Model)[i])
           /\ \A i \in DOMAIN heap[Ori(Model)].sons :
                /\ i \in DOMAIN Src(Model)
                /\ Travelled(heap[Ori(Model)].sons[i])
                /\ Lower(heap[Ori(Model)].sons[i], Ori(Model))
<1>1. TypeOK /\ WellFormed(dag) /\ Model \in Vertex
    BY DEF HeapInv, IInv, TypeOK, Vertex
<1>2. Ori(Model) \in Id /\ Ori(Model)[1] = Model
    BY <1>1, IdFacts, KindFacts DEF Ori
<1>3. Finished(Model)
    <2>1. Defined(Model)
        BY <1>1, <1>2, ConstantFacts DEF TypeOK, Defined
    <2>2. Model \notin Range(stack)
        BY DEF Range
    <2>3. QED
        BY <2>1, <2>2 DEF Finished
<1>4. heap[Ori(Model)].sons = [i \in DOMAIN Src(Model) |-> dp[Src(Model)[i]][0]]
    BY <1>2, <1>3 DEF HeapInv, ModelShape
<1>5. \A i \in DOMAIN Src(Model) :
        /\ Src(Model)[i] \in Node /\ Finished(Src(Model)[i])
        /\ dag.rank[Src(Model)[i]] < dag.rank[Model]
    BY <1>1, <1>3, NetlistFacts DEF HeapInv, IInv, SourcesFinished
<1>6. ASSUME NEW i \in DOMAIN Src(Model)
      PROVE  Travelled(dp[Src(Model)[i]][0]) /\ Lower(dp[Src(Model)[i]][0], Ori(Model))
    <2>1. Travelled(dp[Src(Model)[i]][0])
        BY <1>5, EntriesReached, KindFacts
    <2>2. dp[Src(Model)[i]][0][1] = Src(Model)[i]
        BY <1>5, FinishedStates, KindFacts DEF HeapInv
    <2>3. QED
        BY <1>2, <1>5, <2>1, <2>2 DEF Lower
<1>7. QED
    BY <1>2, <1>3, <1>4, <1>5, <1>6

-----------------------------------------------------------------------------
(* The inductive invariant of the printing phase                           *)

\* A call of travel on the state is active.
OnFrames(id) == \E j \in 1..Len(frames) : frames[j][1] = id

\* What the header says, once it is printed.
TheHeader == [inputs  |-> {heap[dp[n][0]].name : n \in dag.leaf},
              outputs |-> [i \in DOMAIN Src(Model) |-> heap[heap[Ori(Model)].sons[i]].name]]

\* Nothing is printed before DFS has returned, nor before the header.
PhaseInv ==
    /\ frames \in Seq(Id \X (Nat \ {0}))
    /\ visited \subseteq Id
    /\ oss \in Seq({Block(id) : id \in Id})
    /\ status \in {"running", "ended", "crashed"}
    /\ frames = <<>> /\ status # "ended" => visited = {} /\ oss = <<>> /\ header = NoHeader
    /\ frames # <<>> \/ status = "ended" => header = TheHeader /\ \A n \in dag.leaf : Defined(n)
    /\ frames # <<>> => status = "running"
    /\ frames # <<>> \/ status # "running" => stack = <<>>

\* The active calls go down, and each has visited the sons before its index.
FramesInv ==
    /\ frames # <<>> => frames[1][1] = Ori(Model)
    /\ \A j \in 1..Len(frames) : LET id == frames[j][1] IN
        /\ frames[j][2] <= Len(heap[id].sons) + 1
        /\ \A i \in DOMAIN heap[id].sons : i < frames[j][2] => heap[id].sons[i] \in visited
        /\ j > 1 => id \in visited /\ ~heap[id].leaf
    /\ \A i, j \in 1..Len(frames) : i < j => Lower(frames[j][1], frames[i][1])

\* Whose son a visited state is: another visited state's, or the model's.
HasUser(id) == \E up \in visited \cup {Ori(Model)} : id \in Range(heap[up].sons)

\* A visited state is an input's, or its call is active, or it has been printed.
VisitedInv == \A id \in visited :
    /\ Travelled(id) /\ HasUser(id)
    /\ heap[id].leaf \/ OnFrames(id) \/ \E k \in DOMAIN oss : oss[k] = Block(id)

\* The k-th block is that of id, and its sons are inputs or printed earlier.
PrintedAs(k, id) ==
    /\ id \in visited /\ ~heap[id].leaf /\ ~OnFrames(id) /\ oss[k] = Block(id)
    /\ \A i \in DOMAIN heap[id].sons : LET son == heap[id].sons[i] IN
        son \in visited /\ (heap[son].leaf \/ \E j \in 1..(k - 1) : oss[j] = Block(son))

\* Every block is that of a state that has been left, its sons before it.
OssInv == \A k \in DOMAIN oss : \E id \in visited : PrintedAs(k, id)

\* At the end all outputs have been visited.
EndInv == status = "ended" => Range(heap[Ori(Model)].sons) \subseteq visited

\* The inductive invariant of the printing phase.
PrintInv == HeapInv /\ PhaseInv /\ FramesInv /\ VisitedInv /\ OssInv /\ EndInv

\* Before the header nothing else needs to be shown.
LEMMA NothingPrinted ==
    ASSUME frames = <<>>, visited = {}, oss = <<>>, status # "ended"
    PROVE  FramesInv /\ VisitedInv /\ OssInv /\ EndInv
<1>1. Len(frames) = 0 /\ DOMAIN oss = {}
    OBVIOUS
<1>2. QED
    BY <1>1 DEF FramesInv, VisitedInv, OssInv, EndInv

\* At the start.
LEMMA InitPrint == MainInit => PrintInv
<1> SUFFICES ASSUME MainInit PROVE PrintInv
    OBVIOUS
<1>1. HeapInv
    BY InitHeap DEF MainInit
<1>2. frames = <<>> /\ visited = {} /\ oss = <<>> /\ status = "running" /\ header = NoHeader
    BY DEF MainInit
<1>3. PhaseInv
    BY <1>2 DEF PhaseInv
<1>4. QED
    BY <1>1, <1>2, <1>3, NothingPrinted DEF PrintInv

\* A step of DFS: nothing has been printed, and nothing is.
LEMMA MappingPrint ==
    ASSUME PrintInv, Mapping
    PROVE  PrintInv'
<1>1. stack # <<>> /\ UNCHANGED evars /\ [Next]_vars
    <2>1. DFSStep => stack # <<>>
        BY DEF DFSStep, Enter, FinishLeaf, FinishConstant, FinishUnary, FinishBinary, FinishModel,
               Ready, Running
    <2>2. QED
        BY <2>1 DEF Mapping, Next
<1>2. HeapInv'
    BY <1>1, StepHeap DEF PrintInv
<1>3. frames = <<>> /\ status = "running" /\ visited = {} /\ oss = <<>> /\ header = NoHeader
    BY <1>1 DEF PrintInv, PhaseInv
<1>4. frames' = <<>> /\ status' = "running" /\ visited' = {} /\ oss' = <<>> /\ header' = NoHeader
    BY <1>1, <1>3 DEF evars
<1>5. PhaseInv'
    BY <1>4 DEF PhaseInv, NoHeader
<1>6. FramesInv' /\ VisitedInv' /\ OssInv' /\ EndInv'
    <2>1. Len(frames') = 0 /\ DOMAIN oss' = {}
        BY <1>4
    <2>2. QED
        BY <1>4, <2>1 DEF FramesInv, VisitedInv, OssInv, EndInv
<1>7. QED
    BY <1>2, <1>5, <1>6 DEF PrintInv

\* The printing phase leaves the heap, and all that is said of it, as it is.
LEMMA SameHeap ==
    ASSUME UNCHANGED vars
    PROVE  /\ \A id : /\ (Travelled(id)' <=> Travelled(id)) /\ Block(id)' = Block(id)
                      /\ heap'[id] = heap[id]
           /\ \A a, b : Lower(a, b)' <=> Lower(a, b)
           /\ TheHeader' = TheHeader /\ Ori(Model)' = Ori(Model)
           /\ \A n : Defined(n)' <=> Defined(n)
           /\ dag' = dag /\ stack' = stack /\ dp' = dp
           /\ (Overflowed' <=> Overflowed) /\ (Saturated' <=> Saturated)
<1>1. dag' = dag /\ stack' = stack /\ dp' = dp /\ heap' = heap
    BY DEF vars
<1>2. \A p : Src(p)' = Src(p) /\ Ori(p)' = Ori(p) /\ (Defined(p)' <=> Defined(p))
    BY <1>1 DEF Src, Ori, Defined
<1>3. \A p, v : Chosen(p, v)' = Chosen(p, v)
    BY <1>1 DEF Chosen
<1>4. \A id : Reached(id)' <=> Reached(id)
    BY <1>1, <1>2, <1>3 DEF Reached
<1>5. \A id : Travelled(id)' <=> Travelled(id)
    BY <1>1, <1>2, <1>4 DEF Travelled, Finished
<1>6. \A id : Block(id)' = Block(id)
    BY <1>1 DEF Block
<1>7. \A a, b : Lower(a, b)' <=> Lower(a, b)
    BY <1>1 DEF Lower, Level
<1>8. TheHeader' = TheHeader
    BY <1>1, <1>2 DEF TheHeader
<1>9. (Overflowed' <=> Overflowed) /\ (Saturated' <=> Saturated)
    BY <1>1 DEF Overflowed, Saturated
<1>10. QED
    BY <1>1, <1>2, <1>5, <1>6, <1>7, <1>8, <1>9

\* The running call of travel.
LEMMA CurrentFacts ==
    ASSUME PrintInv, frames # <<>>
    PROVE  /\ Len(frames) \in Nat \ {0} /\ Last(frames) = frames[Len(frames)]
           /\ stack = <<>> /\ Current \in Id /\ Last(frames)[2] \in Nat \ {0}
           /\ Last(frames) = <<Current, Last(frames)[2]>>
           /\ IF Len(frames) = 1 THEN Current = Ori(Model)
              ELSE Current \in visited /\ Travelled(Current) /\ ~heap[Current].leaf
           /\ heap[Current].sons \in Seq(Id)
           /\ \A i \in DOMAIN heap[Current].sons :
                Travelled(heap[Current].sons[i]) /\ Lower(heap[Current].sons[i], Current)
           /\ \A i \in DOMAIN heap[Current].sons :
                i < Last(frames)[2] => heap[Current].sons[i] \in visited
           /\ \A j \in 1..Len(frames) :
                frames[j][1] = Current \/ Lower(Current, frames[j][1])
<1>1. frames \in Seq(Id \X (Nat \ {0})) /\ stack = <<>>
    BY DEF PrintInv, PhaseInv
<1>2. Len(frames) \in Nat \ {0} /\ Last(frames) = frames[Len(frames)]
      /\ Last(frames) \in Id \X (Nat \ {0})
    BY <1>1, PopFacts
<1>3. Current \in Id /\ Last(frames)[2] \in Nat \ {0} /\ Last(frames) = <<Current, Last(frames)[2]>>
    BY <1>2 DEF Current
<1>4. IF Len(frames) = 1 THEN Current = Ori(Model)
      ELSE Current \in visited /\ Travelled(Current) /\ ~heap[Current].leaf
    BY <1>2 DEF Current, PrintInv, FramesInv, VisitedInv
<1>5. \A i \in DOMAIN heap[Current].sons :
        Travelled(heap[Current].sons[i]) /\ Lower(heap[Current].sons[i], Current)
    BY <1>1, <1>4, SonsTravelled, ModelSons DEF PrintInv
<1>6. heap[Current].sons \in Seq(Id)
    <2>1. CASE Current[1] = Model
        BY <1>3, <2>1 DEF PrintInv, HeapInv, IInv, TypeOK
    <2>2. CASE Current[1] # Model
        <3>1. heap[Current] \in DpState
            BY <1>3, <2>2 DEF PrintInv, HeapInv, IInv, TypeOK
        <3>2. QED
            BY <3>1 DEF DpState
    <2>3. QED
        BY <2>1, <2>2
<1>7. \A i \in DOMAIN heap[Current].sons : i < Last(frames)[2] => heap[Current].sons[i] \in visited
    BY <1>2 DEF Current, PrintInv, FramesInv
<1>8. ASSUME NEW j \in 1..Len(frames)
      PROVE  frames[j][1] = Current \/ Lower(Current, frames[j][1])
    <2>1. j = Len(frames) \/ j < Len(frames)
        BY <1>2
    <2>2. QED
        BY <1>2, <2>1 DEF Current, PrintInv, FramesInv
<1>9. QED
    BY <1>1, <1>2, <1>3, <1>4, <1>5, <1>6, <1>7, <1>8

\* The next son of the running call.
LEMMA SonFacts ==
    ASSUME PrintInv, HasSon
    PROVE  /\ Son \in Id /\ Travelled(Son) /\ Lower(Son, Current) /\ ~OnFrames(Son)
           /\ Last(frames)[2] \in DOMAIN heap[Current].sons
           /\ Son = heap[Current].sons[Last(frames)[2]]
           /\ Son \in Range(heap[Current].sons)
<1> DEFINE n == Last(frames)[2]
<1>1. /\ frames # <<>> /\ n \in Nat \ {0} /\ n <= Len(heap[Current].sons)
      /\ Current \in Id /\ heap[Current].sons \in Seq(Id)
      /\ \A i \in DOMAIN heap[Current].sons :
            Travelled(heap[Current].sons[i]) /\ Lower(heap[Current].sons[i], Current)
    BY CurrentFacts DEF HasSon
<1>2. n \in DOMAIN heap[Current].sons /\ Son = heap[Current].sons[n]
    BY <1>1 DEF Son
<1> HIDE DEF n
<1>3. Son \in Id /\ Travelled(Son) /\ Lower(Son, Current) /\ Son \in Range(heap[Current].sons)
    BY <1>1, <1>2 DEF Travelled, Range
<1>4. ~OnFrames(Son)
    <2>1. \A j \in 1..Len(frames) : frames[j] \in Id \X (Nat \ {0})
        BY DEF PrintInv, PhaseInv
    <2>2. \A j \in 1..Len(frames) : frames[j][1] \in Id
        BY <2>1
    <2>3. \A j \in 1..Len(frames) : Lower(Son, frames[j][1])
        BY <1>1, <1>3, <2>2, CurrentFacts, LowerFacts DEF PrintInv, HeapInv, IInv, TypeOK
    <2>4. QED
        BY <2>2, <2>3, LowerFacts DEF OnFrames, PrintInv, HeapInv, IInv, TypeOK
<1>5. QED
    BY <1>2, <1>3, <1>4 DEF n

\* The call stack with the running call's index moved on.
LEMMA AdvancedFacts ==
    ASSUME PrintInv, HasSon, UNCHANGED vars, visited' = visited \cup {Son}
    PROVE  /\ Advanced \in Seq(Id \X (Nat \ {0})) /\ Len(Advanced) = Len(frames)
           /\ \A j \in 1..Len(frames) : LET id == Advanced[j][1] IN
                /\ id = frames[j][1]
                /\ Advanced[j][2] <= Len(heap'[id].sons) + 1
                /\ \A i \in DOMAIN heap'[id].sons :
                    i < Advanced[j][2] => heap'[id].sons[i] \in visited'
                /\ j > 1 => id \in visited' /\ ~heap'[id].leaf
<1> DEFINE n == Len(frames)
           k == Last(frames)[2]
<1>1. /\ frames # <<>> /\ n \in Nat \ {0} /\ Last(frames) = frames[n] /\ k \in Nat \ {0}
      /\ Current \in Id /\ Last(frames) = <<Current, k>> /\ heap[Current].sons \in Seq(Id)
      /\ \A i \in DOMAIN heap[Current].sons : i < k => heap[Current].sons[i] \in visited
    BY CurrentFacts DEF HasSon
<1>2. k \in DOMAIN heap[Current].sons /\ Son = heap[Current].sons[k] /\ k <= Len(heap[Current].sons)
    BY <1>1, SonFacts DEF HasSon
<1> HIDE DEF n, k
<1>3. frames \in Seq(Id \X (Nat \ {0})) /\ n = Len(frames) /\ heap' = heap
    BY DEF PrintInv, PhaseInv, n, vars
<1>4. /\ Front(frames) \in Seq(Id \X (Nat \ {0})) /\ Len(Front(frames)) = n - 1
      /\ \A j \in 1..(n - 1) : Front(frames)[j] = frames[j]
    BY <1>1, <1>3, PopFacts
<1>5. Advanced = Append(Front(frames), <<Current, k + 1>>) /\ <<Current, k + 1>> \in Id \X (Nat \ {0})
    BY <1>1 DEF Advanced, k
<1>6. /\ Advanced \in Seq(Id \X (Nat \ {0})) /\ Len(Advanced) = n
      /\ \A j \in 1..(n - 1) : Advanced[j] = frames[j]
      /\ Advanced[n] = <<Current, k + 1>>
    BY <1>1, <1>4, <1>5
<1>7. \A j \in 1..n : LET id == frames[j][1] IN
        /\ frames[j][2] <= Len(heap[id].sons) + 1
        /\ \A i \in DOMAIN heap[id].sons : i < frames[j][2] => heap[id].sons[i] \in visited
        /\ j > 1 => id \in visited /\ ~heap[id].leaf
    BY DEF PrintInv, FramesInv, n
<1>8. ASSUME NEW j \in 1..n
      PROVE  LET id == Advanced[j][1] IN
                /\ id = frames[j][1]
                /\ Advanced[j][2] <= Len(heap[id].sons) + 1
                /\ \A i \in DOMAIN heap[id].sons :
                    i < Advanced[j][2] => heap[id].sons[i] \in visited \cup {Son}
                /\ j > 1 => id \in visited \cup {Son} /\ ~heap[id].leaf
    <2>1. CASE j # n
        <3>1. j \in 1..(n - 1)
            BY <1>1, <2>1
        <3>2. Advanced[j] = frames[j]
            BY <1>6, <3>1
        <3> HIDE DEF Advanced
        <3>3. QED
            BY <1>7, <3>2
    <2>2. CASE j = n
        <3>1. Advanced[j] = <<Current, k + 1>> /\ frames[j] = <<Current, k>>
            BY <1>1, <1>6, <2>2
        <3>2. Advanced[j][1] = Current /\ Advanced[j][2] = k + 1 /\ frames[j][1] = Current
            <4> HIDE DEF Advanced, Current
            <4>1. QED
                BY <3>1
        <3>3. k + 1 <= Len(heap[Current].sons) + 1
            BY <1>1, <1>2
        <3>4. \A i \in DOMAIN heap[Current].sons : i < k + 1 => i < k \/ i = k
            BY <1>1
        <3> HIDE DEF Advanced, Current, Son
        <3>5. QED
            BY <1>1, <1>2, <1>7, <2>2, <3>2, <3>3, <3>4
    <2>3. QED
        BY <2>1, <2>2
<1>9. QED
    BY <1>3, <1>6, <1>8

\* A son visited: what is said of the visited and of the printed states still holds.
LEMMA GrownPrint ==
    ASSUME PrintInv, UNCHANGED vars, oss' = oss, NEW son, visited' = visited \cup {son},
           Travelled(son), HasUser(son), son \in visited \/ ~OnFrames(son),
           \A id : OnFrames(id)' <=> OnFrames(id) \/ (id = son /\ id \notin visited /\ ~heap[son].leaf)
    PROVE  VisitedInv' /\ OssInv'
<1>1. /\ \A id : /\ (Travelled(id)' <=> Travelled(id)) /\ Block(id)' = Block(id)
                 /\ heap'[id] = heap[id]
      /\ Ori(Model)' = Ori(Model)
    BY SameHeap
<1>2. \A id : HasUser(id) => HasUser(id)'
    BY <1>1 DEF HasUser
<1>3. VisitedInv'
    <2>1. ASSUME NEW id \in visited'
          PROVE  /\ Travelled(id) /\ HasUser(id)
                 /\ heap[id].leaf \/ OnFrames(id)' \/ \E k \in DOMAIN oss : oss[k] = Block(id)
        BY DEF PrintInv, VisitedInv
    <2>2. QED
        BY <1>1, <1>2, <2>1 DEF VisitedInv
<1>4. OssInv'
    <2>1. ASSUME NEW k, NEW id, PrintedAs(k, id)
          PROVE  PrintedAs(k, id)'
        <3>1. ~OnFrames(id)'
            BY <2>1 DEF PrintedAs
        <3>2. QED
            BY <1>1, <2>1, <3>1 DEF PrintedAs
    <2>2. QED
        BY <2>1 DEF OssInv, PrintInv
<1>5. QED
    BY <1>3, <1>4

\* travel returns at once.
LEMMA SkipSonPrint ==
    ASSUME PrintInv, SkipSon
    PROVE  PrintInv'
<1>1. /\ HasSon /\ visited' = visited \cup {Son} /\ frames' = Advanced /\ UNCHANGED vars
      /\ header' = header /\ oss' = oss /\ status' = status /\ (Son \in visited \/ heap[Son].leaf)
    BY DEF SkipSon
<1>2. /\ Son \in Id /\ Travelled(Son) /\ ~OnFrames(Son) /\ Son \in Range(heap[Current].sons)
    BY <1>1, SonFacts
<1>3. /\ frames' \in Seq(Id \X (Nat \ {0})) /\ Len(frames') = Len(frames)
      /\ \A j \in 1..Len(frames) : LET id == frames'[j][1] IN
                /\ id = frames[j][1]
                /\ frames'[j][2] <= Len(heap'[id].sons) + 1
                /\ \A i \in DOMAIN heap'[id].sons :
                    i < frames'[j][2] => heap'[id].sons[i] \in visited'
                /\ j > 1 => id \in visited' /\ ~heap'[id].leaf
    BY <1>1, AdvancedFacts
<1>4. /\ frames # <<>> /\ Len(frames) \in Nat \ {0} /\ stack = <<>> /\ status = "running"
      /\ Current \in visited \cup {Ori(Model)}
    <2>1. frames # <<>>
        BY <1>1 DEF HasSon
    <2>2. QED
        BY <2>1, CurrentFacts DEF PrintInv, PhaseInv
<1>5. /\ \A a, b : Lower(a, b)' <=> Lower(a, b)
      /\ TheHeader' = TheHeader /\ Ori(Model)' = Ori(Model) /\ dag' = dag /\ stack' = stack
      /\ \A n : Defined(n)' <=> Defined(n)
      /\ \A id : Block(id)' = Block(id)
    BY <1>1, SameHeap
<1>6. HeapInv'
    BY <1>1, StepHeap DEF PrintInv
<1>7. PhaseInv'
    <2>1. frames' # <<>>
        BY <1>3, <1>4
    <2>2. visited' \subseteq Id /\ oss' \in Seq({Block(id)' : id \in Id})
        BY <1>1, <1>2, <1>5 DEF PrintInv, PhaseInv
    <2>3. QED
        BY <1>1, <1>3, <1>4, <1>5, <2>1, <2>2 DEF PrintInv, PhaseInv
<1>8. FramesInv'
    <2>1. frames'[1][1] = Ori(Model)
        BY <1>3, <1>4 DEF PrintInv, FramesInv
    <2>2. \A i, j \in 1..Len(frames) : i < j => Lower(frames'[j][1], frames'[i][1])
        BY <1>3 DEF PrintInv, FramesInv
    <2>3. QED
        BY <1>3, <1>5, <2>1, <2>2 DEF FramesInv
<1>9. \A id : OnFrames(id)' <=> OnFrames(id)
    BY <1>3 DEF OnFrames
<1>10. VisitedInv' /\ OssInv'
    <2>1. HasUser(Son)
        BY <1>2, <1>4 DEF HasUser
    <2>2. \A id : OnFrames(id)' <=> OnFrames(id) \/ (id = Son /\ id \notin visited /\ ~heap[Son].leaf)
        BY <1>1, <1>9
    <2> HIDE DEF Son
    <2>3. QED
        BY <1>1, <1>2, <2>1, <2>2, GrownPrint
<1>11. EndInv'
    BY <1>1, <1>4 DEF EndInv
<1>12. QED
    BY <1>6, <1>7, <1>8, <1>10, <1>11 DEF PrintInv

\* travel goes on below a son: the call stack grows by one state, lower than all.
LEMMA TravelSonPrint ==
    ASSUME PrintInv, TravelSon
    PROVE  PrintInv'
<1> DEFINE n == Len(frames)
<1>1. /\ HasSon /\ visited' = visited \cup {Son} /\ frames' = Append(Advanced, <<Son, 1>>)
      /\ UNCHANGED vars /\ header' = header /\ oss' = oss /\ status' = status
      /\ Son \notin visited /\ ~heap[Son].leaf
    BY DEF TravelSon
<1>2. /\ Son \in Id /\ Travelled(Son) /\ ~OnFrames(Son) /\ Son \in Range(heap[Current].sons)
      /\ Lower(Son, Current)
    BY <1>1, SonFacts
<1>3. /\ Advanced \in Seq(Id \X (Nat \ {0})) /\ Len(Advanced) = n
      /\ \A j \in 1..n : LET id == Advanced[j][1] IN
                /\ id = frames[j][1]
                /\ Advanced[j][2] <= Len(heap'[id].sons) + 1
                /\ \A i \in DOMAIN heap'[id].sons :
                    i < Advanced[j][2] => heap'[id].sons[i] \in visited'
                /\ j > 1 => id \in visited' /\ ~heap'[id].leaf
    BY <1>1, AdvancedFacts
<1>4. /\ frames # <<>> /\ n \in Nat \ {0} /\ stack = <<>> /\ status = "running"
      /\ Current \in visited \cup {Ori(Model)} /\ Current \in Id
      /\ heap[Son].sons \in Seq(Id)
      /\ \A j \in 1..n : frames[j][1] = Current \/ Lower(Current, frames[j][1])
    <2>1. frames # <<>>
        BY <1>1 DEF HasSon
    <2>2. heap[Son].sons \in Seq(Id)
        BY <1>2, TravelledFacts DEF DpState, PrintInv
    <2>3. QED
        BY <2>1, <2>2, CurrentFacts DEF PrintInv, PhaseInv
<1> HIDE DEF n
<1>5. /\ \A a, b : Lower(a, b)' <=> Lower(a, b)
      /\ TheHeader' = TheHeader /\ Ori(Model)' = Ori(Model) /\ dag' = dag /\ stack' = stack
      /\ \A m : Defined(m)' <=> Defined(m)
      /\ \A id : Block(id)' = Block(id) /\ heap'[id] = heap[id]
    BY <1>1, SameHeap
<1>6. HeapInv'
    BY <1>1, StepHeap DEF PrintInv
<1>7. /\ frames' \in Seq(Id \X (Nat \ {0})) /\ Len(frames') = n + 1
      /\ frames'[n + 1] = <<Son, 1>> /\ \A j \in 1..n : frames'[j] = Advanced[j]
    <2>1. <<Son, 1>> \in Id \X (Nat \ {0})
        BY <1>2
    <2> HIDE DEF Advanced, Son
    <2>2. QED
        BY <1>1, <1>3, <1>4, <2>1
<1>8. /\ frames'[n + 1][1] = Son /\ frames'[n + 1][2] = 1
      /\ \A j \in 1..n : frames'[j][1] = frames[j][1]
      /\ \A j \in 1..(n + 1) : j \in 1..n \/ j = n + 1
    BY <1>3, <1>4, <1>7
<1>9. PhaseInv'
    <2>1. frames' # <<>>
        BY <1>4, <1>7
    <2>2. visited' \subseteq Id /\ oss' \in Seq({Block(id)' : id \in Id})
        BY <1>1, <1>2, <1>5 DEF PrintInv, PhaseInv
    <2>3. QED
        BY <1>1, <1>4, <1>5, <1>7, <2>1, <2>2 DEF PrintInv, PhaseInv
<1>10. FramesInv'
    <2>1. frames'[1][1] = Ori(Model)
        BY <1>4, <1>8 DEF PrintInv, FramesInv
    <2>2. ASSUME NEW j \in 1..(n + 1)
          PROVE  LET id == frames'[j][1] IN
                /\ frames'[j][2] <= Len(heap'[id].sons) + 1
                /\ \A i \in DOMAIN heap'[id].sons :
                    i < frames'[j][2] => heap'[id].sons[i] \in visited'
                /\ j > 1 => id \in visited' /\ ~heap'[id].leaf
        <3>1. CASE j \in 1..n
            <4>1. frames'[j] = Advanced[j]
                BY <1>7, <3>1
            <4> HIDE DEF Advanced
            <4>2. QED
                BY <1>3, <3>1, <4>1
        <3>2. CASE j = n + 1
            <4>1. heap'[Son].sons = heap[Son].sons /\ ~heap'[Son].leaf /\ Son \in visited'
                BY <1>1, <1>5
            <4>2. 1 <= Len(heap'[Son].sons) + 1 /\ \A i \in DOMAIN heap'[Son].sons : ~(i < 1)
                BY <1>4, <4>1
            <4> HIDE DEF Son
            <4>3. QED
                BY <1>8, <3>2, <4>1, <4>2
        <3>3. QED
            BY <1>8, <3>1, <3>2
    <2>3. ASSUME NEW i \in 1..(n + 1), NEW j \in 1..(n + 1), i < j
          PROVE  Lower(frames'[j][1], frames'[i][1])
        <3>1. i \in 1..n
            BY <1>4, <2>3
        <3>2. CASE j \in 1..n
            BY <1>8, <2>3, <3>1, <3>2 DEF PrintInv, FramesInv, n
        <3>3. CASE j = n + 1
            <4>1. frames[i][1] = Current \/ Lower(Current, frames[i][1])
                BY <1>4, <3>1
            <4>2. frames[i][1] \in Id
                <5>1. frames[i] \in Id \X (Nat \ {0})
                    BY <3>1 DEF PrintInv, PhaseInv, n
                <5>2. QED
                    BY <5>1
            <4>3. Lower(Son, frames[i][1])
                BY <1>2, <1>4, <4>1, <4>2, LowerFacts DEF PrintInv, HeapInv, IInv, TypeOK
            <4>4. QED
                BY <1>8, <3>1, <3>3, <4>3
        <3>4. QED
            BY <1>8, <3>2, <3>3
    <2>4. QED
        BY <1>5, <1>7, <2>1, <2>2, <2>3 DEF FramesInv
<1>11. \A id : OnFrames(id)' <=> OnFrames(id) \/ id = Son
    <2>1. \A id : OnFrames(id)' <=> \E j \in 1..(n + 1) : frames'[j][1] = id
        BY <1>7 DEF OnFrames
    <2>2. \A id : OnFrames(id) <=> \E j \in 1..n : frames[j][1] = id
        BY DEF OnFrames, n
    <2>3. n + 1 \in 1..(n + 1) /\ \A j \in 1..n : j \in 1..(n + 1)
        BY <1>4
    <2> HIDE DEF Son
    <2>4. QED
        BY <1>8, <2>1, <2>2, <2>3
<1>12. VisitedInv' /\ OssInv'
    <2>1. HasUser(Son)
        BY <1>2, <1>4 DEF HasUser
    <2>2. \A id : OnFrames(id)' <=> OnFrames(id) \/ (id = Son /\ id \notin visited /\ ~heap[Son].leaf)
        BY <1>1, <1>11
    <2> HIDE DEF Son
    <2>3. QED
        BY <1>1, <1>2, <2>1, <2>2, GrownPrint
<1>13. EndInv'
    BY <1>1, <1>4 DEF EndInv
<1>14. QED
    BY <1>6, <1>9, <1>10, <1>12, <1>13 DEF PrintInv

\* No state that is lower than the running call's is on the call stack.
LEMMA LowerOffFrames ==
    ASSUME PrintInv, frames # <<>>, NEW son \in Id, Lower(son, Current)
    PROVE  ~OnFrames(son)
<1>1. /\ Current \in Id /\ \A j \in 1..Len(frames) :
                frames[j][1] = Current \/ Lower(Current, frames[j][1])
    BY CurrentFacts
<1>2. \A j \in 1..Len(frames) : frames[j][1] \in Id
    <2>1. \A j \in 1..Len(frames) : frames[j] \in Id \X (Nat \ {0})
        BY DEF PrintInv, PhaseInv
    <2>2. QED
        BY <2>1
<1>3. \A j \in 1..Len(frames) : Lower(son, frames[j][1])
    BY <1>1, <1>2, LowerFacts DEF PrintInv, HeapInv, IInv, TypeOK
<1>4. QED
    BY <1>2, <1>3, LowerFacts DEF OnFrames, PrintInv, HeapInv, IInv, TypeOK

\* A block is printed: its sons have been, or are inputs.
LEMMA PrintBlockPrint ==
    ASSUME PrintInv, PrintBlock
    PROVE  PrintInv'
<1> SUFFICES ASSUME NEW n, NEW c, NEW m, n = Len(frames), c = Current, m = Len(oss)
             PROVE  PrintInv'
    OBVIOUS
<1>1. /\ frames # <<>> /\ ~HasSon /\ n > 1 /\ oss' = Append(oss, Block(c)) /\ frames' = Front(frames)
      /\ UNCHANGED vars /\ visited' = visited /\ header' = header /\ status' = status
    BY DEF PrintBlock, Block
<1>2. /\ n \in Nat /\ stack = <<>> /\ status = "running" /\ c \in Id
      /\ c \in visited /\ Travelled(c) /\ ~heap[c].leaf
      /\ Last(frames)[2] \in Nat /\ heap[c].sons \in Seq(Id) /\ frames[n][1] = c
      /\ \A i \in DOMAIN heap[c].sons : Lower(heap[c].sons[i], c)
      /\ \A i \in DOMAIN heap[c].sons : i < Last(frames)[2] => heap[c].sons[i] \in visited
    BY <1>1, CurrentFacts DEF PrintInv, PhaseInv
<1>3. \A i \in DOMAIN heap[c].sons : heap[c].sons[i] \in visited
    BY <1>1, <1>2 DEF HasSon
<1>4. \A i \in DOMAIN heap[c].sons : heap[c].sons[i] \in Id /\ ~OnFrames(heap[c].sons[i])
    BY <1>1, <1>2, LowerOffFrames
<1>5. \A j \in 1..(n - 1) : frames[j][1] # c
    <2>1. \A j \in 1..(n - 1) : Lower(frames[n][1], frames[j][1])
        BY <1>1, <1>2 DEF PrintInv, FramesInv
    <2>2. QED
        BY <1>2, <2>1, LowerFacts DEF PrintInv, HeapInv, IInv, TypeOK
<1>6. /\ frames' \in Seq(Id \X (Nat \ {0})) /\ Len(frames') = n - 1
      /\ \A j \in 1..(n - 1) : frames'[j] = frames[j]
    BY <1>1, PopFacts DEF PrintInv, PhaseInv
<1>7. /\ oss \in Seq({Block(id) : id \in Id}) /\ m \in Nat /\ m = Len(oss) /\ DOMAIN oss = 1..m
      /\ oss' \in Seq({Block(id) : id \in Id}) /\ DOMAIN oss' = 1..(m + 1)
      /\ \A k \in 1..m : oss'[k] = oss[k]
      /\ oss'[m + 1] = Block(c)
    <2>1. oss \in Seq({Block(id) : id \in Id}) /\ Block(c) \in {Block(id) : id \in Id}
        BY <1>2 DEF PrintInv, PhaseInv
    <2> HIDE DEF Block
    <2>2. \A S : \A s \in Seq(S), x \in S :
            /\ Len(s) \in Nat /\ DOMAIN s = 1..Len(s)
            /\ Append(s, x) \in Seq(S) /\ DOMAIN Append(s, x) = 1..(Len(s) + 1)
            /\ \A k \in 1..Len(s) : Append(s, x)[k] = s[k]
            /\ Append(s, x)[Len(s) + 1] = x
        OBVIOUS
    <2>3. QED
        BY <1>1, <2>1, <2>2
<1>8. /\ \A a, b : Lower(a, b)' <=> Lower(a, b)
      /\ TheHeader' = TheHeader /\ Ori(Model)' = Ori(Model) /\ dag' = dag /\ stack' = stack
      /\ \A p : Defined(p)' <=> Defined(p)
      /\ \A id : Block(id)' = Block(id) /\ heap'[id] = heap[id] /\ (Travelled(id)' <=> Travelled(id))
    BY <1>1, SameHeap
<1>9. HeapInv'
    BY <1>1, StepHeap DEF PrintInv
<1>10. PhaseInv'
    <2>1. frames' # <<>>
        BY <1>1, <1>2, <1>6
    <2>2. oss' \in Seq({Block(id)' : id \in Id})
        BY <1>7, <1>8
    <2>3. QED
        BY <1>1, <1>2, <1>6, <1>8, <2>1, <2>2 DEF PrintInv, PhaseInv
<1>11. FramesInv'
    <2>1. 1 \in 1..(n - 1) /\ \A j \in 1..(n - 1) : j \in 1..n
        BY <1>1, <1>2
    <2>2. /\ frames[1][1] = Ori(Model)
          /\ \A j \in 1..n : LET id == frames[j][1] IN
                /\ frames[j][2] <= Len(heap[id].sons) + 1
                /\ \A i \in DOMAIN heap[id].sons :
                    i < frames[j][2] => heap[id].sons[i] \in visited
                /\ j > 1 => id \in visited /\ ~heap[id].leaf
          /\ \A i, j \in 1..n : i < j => Lower(frames[j][1], frames[i][1])
        BY <1>1 DEF PrintInv, FramesInv
    <2>3. heap' = heap
        BY <1>1 DEF vars
    <2>4. frames' # <<>> => frames'[1][1] = Ori(Model)
        BY <1>6, <2>1, <2>2
    <2>5. ASSUME NEW j \in 1..(n - 1)
          PROVE  LET id == frames'[j][1] IN
                    /\ frames'[j][2] <= Len(heap[id].sons) + 1
                    /\ \A i \in DOMAIN heap[id].sons :
                        i < frames'[j][2] => heap[id].sons[i] \in visited
                    /\ j > 1 => id \in visited /\ ~heap[id].leaf
        <3>1. frames'[j] = frames[j] /\ j \in 1..n
            BY <1>6, <2>1
        <3>2. QED
            BY <2>2, <3>1
    <2>6. \A i, j \in 1..(n - 1) : i < j => Lower(frames'[j][1], frames'[i][1])
        BY <1>6, <2>1, <2>2
    <2>7. QED
        BY <1>1, <1>6, <1>8, <2>3, <2>4, <2>5, <2>6 DEF FramesInv
<1>12. \A id : OnFrames(id) <=> OnFrames(id)' \/ id = c
    <2>1. \A id : OnFrames(id)' <=> \E j \in 1..(n - 1) : frames[j][1] = id
        BY <1>6 DEF OnFrames
    <2>2. \A id : OnFrames(id) <=> \E j \in 1..n : frames[j][1] = id
        BY DEF OnFrames
    <2>3. n \in 1..n /\ \A j \in 1..n : j \in 1..(n - 1) \/ j = n
        BY <1>1, <1>2
    <2>4. \A j \in 1..(n - 1) : j \in 1..n
        BY <1>1, <1>2
    <2>5. QED
        BY <1>2, <2>1, <2>2, <2>3, <2>4
<1>13. ~OnFrames(c)'
    BY <1>5, <1>6 DEF OnFrames
<1>14. \A id : HasUser(id)' <=> HasUser(id)
    BY <1>1, <1>8 DEF HasUser
<1>15. VisitedInv'
    <2>1. ASSUME NEW id \in visited
          PROVE  /\ Travelled(id) /\ HasUser(id)
                 /\ heap[id].leaf \/ OnFrames(id)' \/ \E k \in 1..(m + 1) : oss'[k] = Block(id)
        <3>1. /\ Travelled(id) /\ HasUser(id)
              /\ heap[id].leaf \/ OnFrames(id) \/ \E k \in 1..m : oss[k] = Block(id)
            BY <1>7 DEF PrintInv, VisitedInv
        <3>2. CASE \E k \in 1..m : oss[k] = Block(id)
            BY <1>7, <3>1, <3>2
        <3>3. CASE id = c
            BY <1>7, <3>1, <3>3
        <3>4. QED
            BY <1>12, <3>1, <3>2, <3>3
    <2>2. QED
        BY <1>1, <1>7, <1>8, <1>14, <2>1 DEF VisitedInv
<1>16. ASSUME NEW k \in 1..m, NEW id \in visited, PrintedAs(k, id)
       PROVE  PrintedAs(k, id)'
    <2>1. \A j \in 1..(k - 1) : j \in 1..m
        BY <1>7
    <2>2. oss'[k] = oss[k] /\ \A j \in 1..(k - 1) : oss'[j] = oss[j]
        BY <1>7, <2>1
    <2>3. QED
        BY <1>1, <1>8, <1>12, <1>16, <2>2 DEF PrintedAs
<1>17. PrintedAs(m + 1, c)'
    <2>1. ASSUME NEW i \in DOMAIN heap[c].sons
          PROVE  LET son == heap[c].sons[i] IN
                    son \in visited /\ (heap[son].leaf \/ \E j \in 1..m : oss'[j] = Block(son))
        <3>1. heap[c].sons[i] \in visited /\ ~OnFrames(heap[c].sons[i])
            BY <1>3, <1>4
        <3>2. heap[heap[c].sons[i]].leaf \/ \E j \in 1..m : oss[j] = Block(heap[c].sons[i])
            BY <1>7, <3>1 DEF PrintInv, VisitedInv
        <3>3. QED
            BY <1>7, <3>1, <3>2
    <2>2. m + 1 - 1 = m
        BY <1>7
    <2>3. \A id : Block(id)' = Block(id)
        BY <1>8
    <2>4. heap' = heap
        BY <1>1 DEF vars
    <2>5. /\ c \in visited' /\ ~heap'[c].leaf /\ ~OnFrames(c)'
        BY <1>1, <1>2, <1>13, <2>4
    <2>6. oss'[m + 1] = Block(c)'
        BY <1>7, <2>3
    <2>7. \A i \in DOMAIN heap[c].sons : LET son == heap[c].sons[i] IN
            son \in visited' /\ (heap[son].leaf \/ \E j \in 1..(m + 1 - 1) : oss'[j] = Block(son))
        BY <1>1, <2>1, <2>2
    <2>8. QED
        BY <2>3, <2>4, <2>5, <2>6, <2>7 DEF PrintedAs
<1>18. OssInv'
    <2>1. \A k \in 1..m : \E id \in visited : PrintedAs(k, id)'
        BY <1>7, <1>16 DEF PrintInv, OssInv
    <2>2. \A k \in 1..(m + 1) : k \in 1..m \/ k = m + 1
        BY <1>7
    <2>3. QED
        BY <1>1, <1>2, <1>7, <1>17, <2>1, <2>2 DEF OssInv
<1>19. EndInv'
    BY <1>1, <1>2 DEF EndInv
<1>20. QED
    BY <1>9, <1>10, <1>11, <1>15, <1>18, <1>19 DEF PrintInv

\* The header is printed, and main's loop over the outputs begins.
LEMMA PrintHeaderPrint ==
    ASSUME PrintInv, PrintHeader
    PROVE  PrintInv'
<1>1. /\ stack = <<>> /\ frames = <<>> /\ status = "running" /\ UNCHANGED vars
      /\ \A n \in dag.leaf : Defined(n)
      /\ header' = TheHeader /\ frames' = << <<Ori(Model), 1>> >>
      /\ visited' = visited /\ oss' = oss /\ status' = status
    BY DEF PrintHeader, AtHeader, TheHeader
<1>2. visited = {} /\ oss = <<>>
    BY <1>1 DEF PrintInv, PhaseInv
<1>3. /\ TheHeader' = TheHeader /\ Ori(Model)' = Ori(Model) /\ dag' = dag /\ stack' = stack
      /\ heap' = heap /\ \A n : Defined(n)' <=> Defined(n)
    BY <1>1, SameHeap DEF vars
<1>4. HeapInv'
    BY <1>1, StepHeap DEF PrintInv
<1>5. Ori(Model) \in Id /\ heap[Ori(Model)].sons \in Seq(Id)
    <2>1. Ori(Model) \in Id /\ Ori(Model)[1] = Model
        BY <1>1, ModelSons DEF PrintInv, Ori
    <2>2. QED
        BY <2>1 DEF PrintInv, HeapInv, IInv, TypeOK
<1>6. PICK root : root = Ori(Model)
    OBVIOUS
<1>7. /\ frames' = << <<root, 1>> >> /\ root \in Id /\ heap'[root].sons \in Seq(Id)
      /\ Ori(Model)' = root
    BY <1>1, <1>3, <1>5, <1>6
<1>8. /\ frames' \in Seq(Id \X (Nat \ {0})) /\ Len(frames') = 1 /\ frames' # <<>>
      /\ \A j \in 1..1 : j = 1 /\ frames'[j] = <<root, 1>>
    BY <1>7
<1>9. PhaseInv'
    <2>1. visited' \subseteq Id /\ oss' \in Seq({Block(id)' : id \in Id})
        BY <1>1, <1>2
    <2>2. QED
        BY <1>1, <1>3, <1>8, <2>1 DEF PhaseInv
<1>10. FramesInv'
    <2>1. 1 <= Len(heap'[root].sons) + 1 /\ \A i \in DOMAIN heap'[root].sons : ~(i < 1)
        BY <1>7
    <2>2. \A i, j \in 1..1 : ~(i < j)
        OBVIOUS
    <2>3. \A j \in 1..1 : frames'[j][1] = root /\ frames'[j][2] = 1 /\ ~(j > 1)
        BY <1>8
    <2>4. frames'[1][1] = root
        BY <2>3
    <2>5. QED
        BY <1>7, <1>8, <2>1, <2>2, <2>3, <2>4 DEF FramesInv
<1>11. VisitedInv' /\ OssInv' /\ EndInv'
    <2>1. visited' = {} /\ DOMAIN oss' = {} /\ status' # "ended"
        BY <1>1, <1>2
    <2>2. QED
        BY <2>1 DEF VisitedInv, OssInv, EndInv
<1>12. QED
    BY <1>4, <1>9, <1>10, <1>11 DEF PrintInv

\* What stays true when nothing but the status, or no active call, is left.
LEMMA QuietPrint ==
    ASSUME PrintInv, UNCHANGED vars, visited' = visited, oss' = oss,
           \A id : OnFrames(id)' => OnFrames(id),
           \A id \in visited : OnFrames(id) => OnFrames(id)'
    PROVE  HeapInv' /\ VisitedInv' /\ OssInv'
<1>1. HeapInv'
    BY StepHeap DEF PrintInv
<1>2. /\ Ori(Model)' = Ori(Model) /\ heap' = heap
      /\ \A id : Block(id)' = Block(id) /\ (Travelled(id)' <=> Travelled(id))
    BY SameHeap DEF vars
<1>3. \A id : HasUser(id)' <=> HasUser(id)
    BY <1>2 DEF HasUser
<1>4. VisitedInv'
    BY <1>2, <1>3 DEF VisitedInv, PrintInv
<1>5. \A k, id : PrintedAs(k, id) => PrintedAs(k, id)'
    BY <1>2 DEF PrintedAs
<1>6. OssInv'
    BY <1>5 DEF OssInv, PrintInv
<1>7. QED
    BY <1>1, <1>4, <1>6

\* The loop over the outputs ends.
LEMMA PrintEndPrint ==
    ASSUME PrintInv, PrintEnd
    PROVE  PrintInv'
<1>1. /\ frames # <<>> /\ ~HasSon /\ Len(frames) = 1 /\ frames' = <<>> /\ status' = "ended"
      /\ UNCHANGED vars /\ visited' = visited /\ header' = header /\ oss' = oss
    BY DEF PrintEnd
<1>2. /\ Current = Ori(Model) /\ Last(frames)[2] \in Nat /\ heap[Current].sons \in Seq(Id)
      /\ stack = <<>>
      /\ \A i \in DOMAIN heap[Current].sons :
                i < Last(frames)[2] => heap[Current].sons[i] \in visited
    BY <1>1, CurrentFacts
<1>3. Range(heap[Ori(Model)].sons) \subseteq visited
    <2>1. \A i \in DOMAIN heap[Current].sons : heap[Current].sons[i] \in visited
        BY <1>1, <1>2 DEF HasSon
    <2>2. QED
        BY <1>2, <2>1 DEF Range
<1>4. /\ TheHeader' = TheHeader /\ Ori(Model)' = Ori(Model) /\ dag' = dag /\ stack' = stack
      /\ heap' = heap /\ \A n : Defined(n)' <=> Defined(n)
      /\ \A id : Block(id)' = Block(id)
    BY <1>1, SameHeap DEF vars
<1>5. Len(frames') = 0
    BY <1>1
<1>6. /\ \A id : ~OnFrames(id)'
      /\ \A id \in visited : ~OnFrames(id)
    <2>1. \A id : ~OnFrames(id)'
        BY <1>5 DEF OnFrames
    <2>2. \A id : OnFrames(id) => id = Ori(Model)
        <3>1. \A j \in 1..1 : j = 1
            OBVIOUS
        <3>2. QED
            BY <1>1, <3>1 DEF OnFrames, PrintInv, FramesInv
    <2>3. Ori(Model) \notin visited
        <3>1. Ori(Model)[1] = Model
            BY DEF Ori
        <3>2. QED
            BY <3>1, ConstantFacts DEF PrintInv, VisitedInv, Travelled
    <2>4. QED
        BY <2>1, <2>2, <2>3
<1>7. HeapInv' /\ VisitedInv' /\ OssInv'
    BY <1>1, <1>6, QuietPrint
<1>8. PhaseInv'
    <2>1. frames' \in Seq(Id \X (Nat \ {0}))
        BY <1>1
    <2>2. oss' \in Seq({Block(id)' : id \in Id})
        BY <1>1, <1>4 DEF PrintInv, PhaseInv
    <2>3. QED
        BY <1>1, <1>2, <1>4, <2>1, <2>2 DEF PrintInv, PhaseInv
<1>9. FramesInv'
    BY <1>1, <1>5 DEF FramesInv
<1>10. EndInv'
    BY <1>1, <1>3, <1>4 DEF EndInv
<1>11. QED
    BY <1>7, <1>8, <1>9, <1>10 DEF PrintInv

\* main reads the name of an input without a state.
LEMMA CrashPrint ==
    ASSUME PrintInv, Crash
    PROVE  PrintInv'
<1>1. /\ stack = <<>> /\ frames = <<>> /\ status = "running" /\ status' = "crashed"
      /\ UNCHANGED vars /\ frames' = frames /\ visited' = visited /\ header' = header /\ oss' = oss
    BY DEF Crash, AtHeader
<1>2. visited = {} /\ oss = <<>> /\ header = NoHeader
    BY <1>1 DEF PrintInv, PhaseInv
<1>3. HeapInv' /\ stack' = stack
    BY <1>1, StepHeap DEF PrintInv, vars
<1>4. PhaseInv'
    BY <1>1, <1>2, <1>3 DEF PhaseInv, NoHeader
<1>5. FramesInv' /\ VisitedInv' /\ OssInv' /\ EndInv'
    <2>1. Len(frames') = 0 /\ DOMAIN oss' = {}
        BY <1>1, <1>2
    <2>2. QED
        BY <1>1, <1>2, <2>1 DEF FramesInv, VisitedInv, OssInv, EndInv
<1>6. QED
    BY <1>3, <1>4, <1>5 DEF PrintInv

\* Nothing happens.
LEMMA StutterPrint ==
    ASSUME PrintInv, UNCHANGED allVars
    PROVE  PrintInv'
<1>1. UNCHANGED vars /\ frames' = frames /\ visited' = visited /\ header' = header /\ oss' = oss
      /\ status' = status
    BY DEF allVars, vars
<1>2. /\ TheHeader' = TheHeader /\ Ori(Model)' = Ori(Model) /\ dag' = dag /\ stack' = stack
      /\ heap' = heap /\ \A n : Defined(n)' <=> Defined(n)
      /\ \A id : Block(id)' = Block(id)
      /\ \A a, b : Lower(a, b)' <=> Lower(a, b)
    BY <1>1, SameHeap DEF vars
<1>3. \A id : OnFrames(id)' <=> OnFrames(id)
    BY <1>1 DEF OnFrames
<1>4. HeapInv' /\ VisitedInv' /\ OssInv'
    BY <1>1, <1>3, QuietPrint
<1>5. PhaseInv'
    <2>1. oss' \in Seq({Block(id)' : id \in Id})
        BY <1>1, <1>2 DEF PrintInv, PhaseInv
    <2>2. QED
        BY <1>1, <1>2, <2>1 DEF PrintInv, PhaseInv
<1>6. FramesInv' /\ EndInv'
    BY <1>1, <1>2 DEF FramesInv, EndInv, PrintInv
<1>7. QED
    BY <1>4, <1>5, <1>6 DEF PrintInv

\* The inductive invariant holds throughout.
LEMMA StepPrint == PrintInv /\ [MainNext]_allVars => PrintInv'
<1> SUFFICES ASSUME PrintInv, [MainNext]_allVars PROVE PrintInv'
    OBVIOUS
<1>1. CASE Mapping
    BY <1>1, MappingPrint
<1>2. CASE Crash
    BY <1>2, CrashPrint
<1>3. CASE PrintHeader
    BY <1>3, PrintHeaderPrint
<1>4. CASE SkipSon
    BY <1>4, SkipSonPrint
<1>5. CASE TravelSon
    BY <1>5, TravelSonPrint
<1>6. CASE PrintBlock
    BY <1>6, PrintBlockPrint
<1>7. CASE PrintEnd
    BY <1>7, PrintEndPrint
<1>8. CASE UNCHANGED allVars
    BY <1>8, StutterPrint
<1>9. QED
    BY <1>1, <1>2, <1>3, <1>4, <1>5, <1>6, <1>7, <1>8 DEF MainNext, MainStep, Stopped

(***************************************************************************)
(* What holds of every state of main: the heap invariant, a call stack     *)
(* that goes strictly down, and every visited state that is not an input   *)
(* printed or about to be.                                                 *)
(***************************************************************************)
THEOREM PrintInvariance == MainSpec => []PrintInv
BY InitPrint, StepPrint, PTL DEF MainSpec

-----------------------------------------------------------------------------
(* What the printed text is worth                                          *)

\* A travelled input is named in the header.
LEMMA LeafInHeader ==
    ASSUME PrintInv, frames # <<>> \/ status = "ended", NEW id, Travelled(id), heap[id].leaf
    PROVE  heap[id].name \in header.inputs
<1>1. id[1] \in dag.leaf /\ id = dp[id[1]][0]
    BY LeafFacts DEF PrintInv
<1>2. header.inputs = {heap[dp[n][0]].name : n \in dag.leaf}
    BY DEF PrintInv, PhaseInv, TheHeader
<1>3. QED
    BY <1>1, <1>2

\* Every block printed is that of a travelled state that is not an input.
LEMMA BlockFacts ==
    ASSUME PrintInv, NEW k \in DOMAIN oss
    PROVE  /\ k \in 1..Len(oss) /\ Len(oss) \in Nat /\ (frames # <<>> \/ status = "ended")
           /\ \E id \in Id : /\ Travelled(id) /\ HasUser(id) /\ ~heap[id].leaf
                             /\ oss[k] = Block(id) /\ PrintedAs(k, id)
<1>1. k \in 1..Len(oss) /\ Len(oss) \in Nat
    BY DEF PrintInv, PhaseInv
<1>2. PICK id \in visited : PrintedAs(k, id)
    BY DEF PrintInv, OssInv
<1>3. id \in Id /\ Travelled(id) /\ HasUser(id) /\ ~heap[id].leaf /\ oss[k] = Block(id)
    BY <1>2 DEF PrintInv, VisitedInv, Travelled, PrintedAs
<1>4. QED
    BY <1>1, <1>2, <1>3 DEF PrintInv, PhaseInv

\* The sons of a travelled state are states.
LEMMA TravelledSons ==
    ASSUME HeapInv, NEW id, Travelled(id)
    PROVE  /\ heap[id] \in DpState /\ heap[id].sons \in Seq(Id) /\ heap[id].name \in Vertex \X Tag
           /\ Block(id).cell = heap[id].cell /\ Block(id).out = heap[id].name
           /\ Block(id).ins \in Seq(Vertex \X Tag) /\ DOMAIN Block(id).ins = DOMAIN heap[id].sons
           /\ \A i \in DOMAIN heap[id].sons : Block(id).ins[i] = heap[heap[id].sons[i]].name
<1>1. heap[id] \in DpState /\ heap[id].sons \in Seq(Id) /\ heap[id].name \in Vertex \X Tag
    BY TravelledFacts DEF DpState
<1>2. \A i \in DOMAIN heap[id].sons : heap[heap[id].sons[i]].name \in Vertex \X Tag
    BY SonsTravelled, TravelledFacts DEF DpState
<1>3. [i \in DOMAIN heap[id].sons |-> heap[heap[id].sons[i]].name] \in Seq(Vertex \X Tag)
    BY <1>1, <1>2
<1>4. QED
    BY <1>1, <1>3 DEF Block

(***************************************************************************)
(* Every net a block reads is an input or driven by an earlier block, and  *)
(* in the end so is every output (travel prints the sons before the state  *)
(* and goes through each state once): for every netlist, even one whose    *)
(* costs overflow.                                                         *)
(***************************************************************************)
THEOREM NetsAreDriven == MainSpec => []DrivenBeforeUse
<1>1. PrintInv => DrivenBeforeUse
    <2> SUFFICES ASSUME PrintInv PROVE DrivenBeforeUse
        OBVIOUS
    <2>1. ASSUME NEW k \in DOMAIN oss, NEW i \in DOMAIN oss[k].ins
          PROVE  oss[k].ins[i] \in header.inputs \cup Outs(k - 1)
        <3>1. PICK id \in Id : Travelled(id) /\ oss[k] = Block(id) /\ PrintedAs(k, id)
            BY BlockFacts
        <3>2. i \in DOMAIN heap[id].sons /\ oss[k].ins[i] = heap[heap[id].sons[i]].name
            BY <3>1, TravelledSons DEF PrintInv
        <3>3. PICK son : son = heap[id].sons[i]
            OBVIOUS
        <3>4. Travelled(son)
            BY <3>1, <3>2, <3>3, SonsTravelled DEF PrintInv
        <3>5. heap[son].leaf \/ \E j \in 1..(k - 1) : oss[j] = Block(son)
            BY <3>1, <3>2, <3>3 DEF PrintedAs
        <3>6. CASE heap[son].leaf
            BY <3>2, <3>3, <3>4, <3>6, BlockFacts, LeafInHeader
        <3>7. CASE \E j \in 1..(k - 1) : oss[j] = Block(son)
            <4>1. Block(son).out = heap[son].name
                BY <3>4, TravelledSons DEF PrintInv
            <4>2. QED
                BY <3>2, <3>3, <3>7, <4>1 DEF Outs
        <3>8. QED
            BY <3>5, <3>6, <3>7
    <2>2. ASSUME status = "ended", NEW i \in DOMAIN header.outputs
          PROVE  header.outputs[i] \in header.inputs \cup Outs(Len(oss))
        <3>1. stack = <<>> /\ header = TheHeader
            BY <2>2 DEF PrintInv, PhaseInv
        <3>2. /\ i \in DOMAIN Src(Model) /\ DOMAIN heap[Ori(Model)].sons = DOMAIN Src(Model)
              /\ header.outputs[i] = heap[heap[Ori(Model)].sons[i]].name
            BY <2>2, <3>1, ModelSons DEF TheHeader, PrintInv
        <3>3. PICK son : son = heap[Ori(Model)].sons[i]
            OBVIOUS
        <3>4. son \in visited
            BY <2>2, <3>2, <3>3 DEF PrintInv, EndInv, Range
        <3>5. Len(frames) = 0
            BY <2>2 DEF PrintInv, PhaseInv
        <3>6. /\ Travelled(son)
              /\ heap[son].leaf \/ \E k \in 1..Len(oss) : oss[k] = Block(son)
            <4>1. ~OnFrames(son)
                BY <3>5 DEF OnFrames
            <4>2. DOMAIN oss = 1..Len(oss)
                BY DEF PrintInv, PhaseInv
            <4>3. QED
                BY <3>4, <4>1, <4>2 DEF PrintInv, VisitedInv
        <3>7. CASE heap[son].leaf
            BY <2>2, <3>2, <3>3, <3>6, <3>7, LeafInHeader
        <3>8. CASE \E k \in 1..Len(oss) : oss[k] = Block(son)
            <4>1. Block(son).out = heap[son].name
                BY <3>6, TravelledSons DEF PrintInv
            <4>2. QED
                BY <3>2, <3>3, <3>8, <4>1 DEF Outs
        <3>9. QED
            BY <3>6, <3>7, <3>8
    <2>3. QED
        BY <2>1, <2>2 DEF DrivenBeforeUse
<1>2. QED
    BY <1>1, PrintInvariance, PTL

(***************************************************************************)
(* Every block has a cell, names and a type, unless a cost overflowed: the *)
(* assertion on CellType::UNDEFINED at the end of travel does not fire.    *)
(***************************************************************************)
THEOREM BlocksHaveCells == MainSpec => [](Overflowed \/ EmitterTypeOK)
<1>1. PrintInv => Overflowed \/ EmitterTypeOK
    <2> SUFFICES ASSUME PrintInv, ~Overflowed PROVE EmitterTypeOK
        OBVIOUS
    <2> DEFINE PrintedBlock == [cell : CellType \ {"UNDEFINED"}, ins : Seq(Vertex \X Tag),
                                out : Vertex \X Tag]
               Headers == [inputs : SUBSET (Vertex \X Tag), outputs : Seq(Vertex \X Tag)]
    <2>1. frames \in Seq(Id \X Nat)
        <3>1. \A f \in Seq(Id \X (Nat \ {0})) : f \in Seq(Id \X Nat)
            OBVIOUS
        <3>2. QED
            BY <3>1 DEF PrintInv, PhaseInv
    <2>2. header \in Headers
        <3>1. CASE frames = <<>> /\ status # "ended"
            <4>1. header = [inputs |-> {}, outputs |-> <<>>]
                BY <3>1 DEF PrintInv, PhaseInv, NoHeader
            <4>2. <<>> \in Seq(Vertex \X Tag)
                OBVIOUS
            <4>3. QED
                BY <4>1, <4>2
        <3>2. CASE frames # <<>> \/ status = "ended"
            <4>1. stack = <<>> /\ header = TheHeader /\ \A n \in dag.leaf : Defined(n)
                BY <3>2 DEF PrintInv, PhaseInv
            <4>2. ASSUME NEW n \in dag.leaf
                  PROVE  heap[dp[n][0]].name \in Vertex \X Tag
                <5>1. n \in Node
                    BY DEF PrintInv, HeapInv, IInv, TypeOK, WellFormed
                <5>2. Finished(n)
                    BY <4>1 DEF Finished, Range
                <5>3. heap[dp[n][0]] \in DpState
                    BY <5>1, <5>2, EntriesReached, TravelledFacts, KindFacts DEF PrintInv
                <5>4. QED
                    BY <5>3 DEF DpState
            <4>3. ASSUME NEW i \in DOMAIN Src(Model)
                  PROVE  heap[heap[Ori(Model)].sons[i]].name \in Vertex \X Tag
                <5>1. Travelled(heap[Ori(Model)].sons[i])
                    BY <4>1, ModelSons DEF PrintInv
                <5>2. heap[heap[Ori(Model)].sons[i]] \in DpState
                    BY <5>1, TravelledFacts DEF PrintInv
                <5>3. QED
                    BY <5>2 DEF DpState
            <4>4. Src(Model) \in Seq(Node)
                BY NetlistFacts DEF PrintInv, HeapInv, IInv, TypeOK, Vertex
            <4>5. [i \in DOMAIN Src(Model) |-> heap[heap[Ori(Model)].sons[i]].name] \in Seq(Vertex \X Tag)
                BY <4>3, <4>4
            <4>6. {heap[dp[n][0]].name : n \in dag.leaf} \in SUBSET (Vertex \X Tag)
                BY <4>2
            <4>7. QED
                BY <4>1, <4>5, <4>6 DEF TheHeader
        <3>3. QED
            BY <3>1, <3>2
    <2>3. oss \in Seq(PrintedBlock)
        <3>1. ASSUME NEW k \in DOMAIN oss
              PROVE  oss[k] \in PrintedBlock
            <4>1. PICK id \in Id : Travelled(id) /\ ~heap[id].leaf /\ oss[k] = Block(id)
                BY BlockFacts
            <4>2. heap[id].cell \in CellType \ {"UNDEFINED"}
                BY <4>1, TravelledFacts DEF PrintInv, DpState
            <4>3. /\ heap[id].name \in Vertex \X Tag /\ Block(id).ins \in Seq(Vertex \X Tag)
                BY <4>1, TravelledSons DEF PrintInv
            <4>4. Block(id) = [cell |-> heap[id].cell, out |-> heap[id].name, ins |-> Block(id).ins]
                BY DEF Block
            <4>5. QED
                BY <4>1, <4>2, <4>3, <4>4
        <3>2. \E S : oss \in Seq(S)
            BY DEF PrintInv, PhaseInv
        <3> HIDE DEF PrintedBlock
        <3>3. QED
            BY <3>1, <3>2
    <2>4. stack # <<>> => frames = <<>> /\ visited = {} /\ header = NoHeader /\ oss = <<>>
        BY DEF PrintInv, PhaseInv
    <2>5. QED
        BY <2>1, <2>2, <2>3, <2>4 DEF EmitterTypeOK, PrintInv, PhaseInv
<1>2. QED
    BY <1>1, PrintInvariance, PTL

-----------------------------------------------------------------------------
(* No net has two drivers                                                  *)

\* A gate is one AOI cell or its complement is, never both.
LEMMA AOIForOnePass ==
    ASSUME NEW g, NEW l, NEW r
    PROVE  /\ AOI21Inv(g, l, 0) = {} \/ AOI21Inv(g, l, 1) = {}
           /\ AOI12Inv(g, r, 0) = {} \/ AOI12Inv(g, r, 1) = {}
           /\ AOI22Inv(g, l, r, 0) = {} \/ AOI22Inv(g, l, r, 1) = {}
<1>1. \A i \in Bit : \E a \in Bit : Flip(a, i) = 1
    BY DEF Bit, Flip, Truth
<1>2. /\ \A c, d : CellOut("AOI21", 1, 1, c, d) = 0
      /\ \A a, b, d : CellOut("AOI21", a, b, 1, d) = 0
      /\ \A b, c, d : CellOut("AOI12", 1, b, c, d) = 0
      /\ \A a, d : CellOut("AOI12", a, 1, 1, d) = 0
      /\ \A c, d : CellOut("AOI22", 1, 1, c, d) = 0
      /\ \A a, b : CellOut("AOI22", a, b, 1, 1) = 0
    BY DEF CellOut, Truth
<1>3. \A a, b : Flip(GateOut(g, a, b), 0) # Flip(GateOut(g, a, b), 1)
    BY DEF Flip, Truth, GateOut
<1>4. ASSUME NEW i \in AOI21Inv(g, l, 0), NEW j \in AOI21Inv(g, l, 1)
      PROVE  FALSE
    <2>1. i[1] \in Bit /\ i[2] \in Bit /\ i[3] \in Bit /\ j[1] \in Bit /\ j[2] \in Bit /\ j[3] \in Bit
        BY DEF AOI21Inv
    <2>2. PICK a, b, c \in Bit : Flip(a, i[1]) = 1 /\ Flip(b, i[2]) = 1 /\ Flip(c, j[3]) = 1
        BY <1>1, <2>1
    <2>3. /\ Flip(GateOut(g, GateOut(l, a, b), c), 0)
                = CellOut("AOI21", Flip(a, i[1]), Flip(b, i[2]), Flip(c, i[3]), 0)
          /\ Flip(GateOut(g, GateOut(l, a, b), c), 1)
                = CellOut("AOI21", Flip(a, j[1]), Flip(b, j[2]), Flip(c, j[3]), 0)
        BY DEF AOI21Inv
    <2>4. QED
        BY <1>2, <1>3, <2>2, <2>3
<1>5. ASSUME NEW i \in AOI12Inv(g, r, 0), NEW j \in AOI12Inv(g, r, 1)
      PROVE  FALSE
    <2>1. i[1] \in Bit /\ i[2] \in Bit /\ i[3] \in Bit /\ j[1] \in Bit /\ j[2] \in Bit /\ j[3] \in Bit
        BY DEF AOI12Inv
    <2>2. PICK a, b, c \in Bit : Flip(a, j[1]) = 1 /\ Flip(b, i[2]) = 1 /\ Flip(c, i[3]) = 1
        BY <1>1, <2>1
    <2>3. /\ Flip(GateOut(g, a, GateOut(r, b, c)), 0)
                = CellOut("AOI12", Flip(a, i[1]), Flip(b, i[2]), Flip(c, i[3]), 0)
          /\ Flip(GateOut(g, a, GateOut(r, b, c)), 1)
                = CellOut("AOI12", Flip(a, j[1]), Flip(b, j[2]), Flip(c, j[3]), 0)
        BY DEF AOI12Inv
    <2>4. QED
        BY <1>2, <1>3, <2>2, <2>3
<1>6. ASSUME NEW i \in AOI22Inv(g, l, r, 0), NEW j \in AOI22Inv(g, l, r, 1)
      PROVE  FALSE
    <2>1. /\ i[1] \in Bit /\ i[2] \in Bit /\ i[3] \in Bit /\ i[4] \in Bit
          /\ j[1] \in Bit /\ j[2] \in Bit /\ j[3] \in Bit /\ j[4] \in Bit
        BY DEF AOI22Inv
    <2>2. PICK a, b \in Bit : Flip(a, i[1]) = 1 /\ Flip(b, i[2]) = 1
        BY <1>1, <2>1
    <2>3. PICK c, d \in Bit : Flip(c, j[3]) = 1 /\ Flip(d, j[4]) = 1
        BY <1>1, <2>1
    <2>4. /\ Flip(GateOut(g, GateOut(l, a, b), GateOut(r, c, d)), 0)
                = CellOut("AOI22", Flip(a, i[1]), Flip(b, i[2]), Flip(c, i[3]), Flip(d, i[4]))
          /\ Flip(GateOut(g, GateOut(l, a, b), GateOut(r, c, d)), 1)
                = CellOut("AOI22", Flip(a, j[1]), Flip(b, j[2]), Flip(c, j[3]), Flip(d, j[4]))
        BY DEF AOI22Inv
    <2>5. QED
        BY <1>2, <1>3, <2>2, <2>3, <2>4
<1>7. QED
    BY <1>4, <1>5, <1>6

\* The base covers of a gate and its complement: when they use the same cell, both
\* take its inputs alike, and an INV follows in exactly one of the two.
LEMMA BasesOfPasses ==
    ASSUME NEW p, dag.gate[p] \in Gate
    PROVE  /\ Base(p, 0).head = 0 \/ Base(p, 1).head = 0
           /\ Base(p, 0).cell = Base(p, 1).cell =>
                /\ Base(p, 0).ia = Base(p, 1).ia /\ Base(p, 0).ib = Base(p, 1).ib
                /\ Base(p, 0).head # 0 \/ Base(p, 1).head # 0
<1>1. dag.gate[p].a \in {0, 1} /\ dag.gate[p].b \in {0, 1} /\ dag.gate[p].out \in {0, 1}
    BY DEF Gate, Bit
<1>2. \E s \in {0, 2, 4, 6} :
        \/ CoverState(dag.gate[p], 0) = s /\ CoverState(dag.gate[p], 1) = s + 1
        \/ CoverState(dag.gate[p], 0) = s + 1 /\ CoverState(dag.gate[p], 1) = s
    BY <1>1 DEF CoverState, Flip, Truth
<1>3. /\ BaseCover(0) = Cover("NOR2", 0, 0, 1) /\ BaseCover(1) = Cover("NOR2", 0, 0, 0)
      /\ BaseCover(2) = Cover("NAND2", 1, 0, 0) /\ BaseCover(3) = Cover("NOR2", 0, 1, 0)
      /\ BaseCover(4) = Cover("NAND2", 0, 1, 0) /\ BaseCover(5) = Cover("NOR2", 1, 0, 0)
      /\ BaseCover(6) = Cover("NAND2", 0, 0, 0) /\ BaseCover(7) = Cover("NAND2", 0, 0, 1)
    BY DEF BaseCover
<1>4. \A cell, ia, ib, head : LET c == Cover(cell, ia, ib, head)
                              IN c.cell = cell /\ c.ia = ia /\ c.ib = ib /\ c.head = head
    BY DEF Cover
<1>5. PICK s \in {0, 2, 4, 6} :
        \/ Base(p, 0) = BaseCover(s) /\ Base(p, 1) = BaseCover(s + 1)
        \/ Base(p, 0) = BaseCover(s + 1) /\ Base(p, 1) = BaseCover(s)
    BY <1>2 DEF Base
<1>6. CASE s = 0
    BY <1>3, <1>4, <1>5, <1>6
<1>7. CASE s = 2
    BY <1>3, <1>4, <1>5, <1>7
<1>8. CASE s = 4
    BY <1>3, <1>4, <1>5, <1>8
<1>9. CASE s = 6
    BY <1>3, <1>4, <1>5, <1>9
<1>10. QED
    BY <1>6, <1>7, <1>8, <1>9

\* The figures of an INV.
LEMMA InvFigures ==
    ASSUME NEW id, NEW son, UpToDate(id), heap[id].cell = "INV", heap[id].sons = <<son>>
    PROVE  /\ heap[id].cost = Rounded(heap[son].cost + 0 + 0 + 0 + 1)
           /\ heap[id].depth = Deeper(Max2(0, Max2(Max2(heap[son].depth, 0), Max2(0, 0))))
<1>1. heap[id] = OnHeap(heap[id].name, "INV", <<son>>)
    BY DEF UpToDate
<1>2. DEFINE s == [i \in DOMAIN <<son>> |-> heap[<<son>>[i]]]
<1>3. Len(s) = 1 /\ s[1] = heap[son]
    OBVIOUS
<1> HIDE DEF s
<1>4. \A name : /\ Updated(name, "INV", <<son>>, s).cost = Rounded(heap[son].cost + 0 + 0 + 0 + 1)
                /\ Updated(name, "INV", <<son>>, s).depth =
                        Deeper(Max2(0, Max2(Max2(heap[son].depth, 0), Max2(0, 0))))
    BY <1>3 DEF Updated
<1>5. QED
    BY <1>1, <1>4 DEF OnHeap, States, s

\* Unless a cost is saturated, the base covers of the two passes that share their
\* cell are not both travelled: the INV on the complement's would have to win.
LEMMA BasesNotBothUsed ==
    ASSUME HeapInv, ~Saturated, NEW p \in Node, Finished(p), Len(Src(p)) = 2,
           Chosen(p, 0)[3] = BaseKind(p, 0), Chosen(p, 1)[3] = BaseKind(p, 1),
           Base(p, 0).cell = Base(p, 1).cell
    PROVE  dp[p][0] # <<p, 0, "head">>
<1> DEFINE t1(v) == <<p, v, "t1">>
           t2(v) == <<p, v, "t2">>
           head == <<p, 0, "head">>
<1>1. /\ \A v \in Bit : Chosen(p, v) = <<p, v, BaseKind(p, v)>> /\ BaseShape(p, v)
      /\ HeadShape(p, BaseKind(p, 0), BaseKind(p, 1))
    <2>1. /\ HeadShape(p, Chosen(p, 0)[3], Chosen(p, 1)[3])
          /\ \A v \in Bit : Chosen(p, v) = <<p, v, Chosen(p, v)[3]>> /\ PassShape(p, v)
        BY ChosenFacts
    <2>2. \A v \in Bit : Chosen(p, v)[3] = BaseKind(p, v)
        BY KindFacts
    <2>3. QED
        BY <2>1, <2>2 DEF PassShape
<1>2. /\ Base(p, 0).ia = Base(p, 1).ia /\ Base(p, 0).ib = Base(p, 1).ib
      /\ (Base(p, 0).head = 0) # (Base(p, 1).head = 0)
    <2>1. dag.gate[p] \in Gate
        BY NetlistFacts DEF HeapInv, IInv, TypeOK
    <2>2. QED
        BY <2>1, BasesOfPasses
<1>3. /\ p \in Vertex /\ p # Model /\ \A id \in Id : id[1] = p => heap[id] \in DpState /\ UpToDate(id)
    BY ConstantFacts DEF HeapInv, IInv, TypeOK, NodesDone, Vertex
<1>4. \A v \in Bit : /\ t1(v) \in Id /\ t2(v) \in Id /\ head \in Id
                     /\ t1(v)[1] = p /\ t2(v)[1] = p /\ head[1] = p
    BY <1>3, IdFacts, KindFacts
<1>5. \A v \in Bit : /\ heap[t1(v)].cell = Base(p, v).cell
                     /\ heap[t1(v)].sons = <<dp[Src(p)[1]][Base(p, v).ia], dp[Src(p)[2]][Base(p, v).ib]>>
                     /\ Base(p, v).head # 0 => heap[t2(v)].cell = "INV" /\ heap[t2(v)].sons = <<t1(v)>>
    BY <1>1 DEF BaseShape
<1>6. /\ heap[head].cell = "INV" /\ heap[head].sons = << <<p, 1, BaseKind(p, 1)>> >>
      /\ dp[p][0] = head => Better(heap[head], heap[<<p, 0, BaseKind(p, 0)>>])
    <2>1. heap[head].cell = "INV" /\ heap[head].sons = << <<p, 1, BaseKind(p, 1)>> >>
        BY <1>1 DEF HeadShape
    <2>2. dp[p][0] = IF Better(heap[head], heap[<<p, 0, BaseKind(p, 0)>>])
                     THEN head ELSE <<p, 0, BaseKind(p, 0)>>
        BY <1>1 DEF HeadShape
    <2>3. <<p, 0, BaseKind(p, 0)>> # head
        <3>1. BaseKind(p, 0) # "head"
            BY DEF BaseKind
        <3>2. QED
            BY <3>1
    <2>4. QED
        BY <2>2, <2>1, <2>3
<1>7. heap[t1(0)].cost = heap[t1(1)].cost /\ heap[t1(0)].depth = heap[t1(1)].depth
    <2>1. /\ heap[t1(0)].cell = heap[t1(1)].cell /\ heap[t1(0)].sons = heap[t1(1)].sons
          /\ heap[t1(0)].cell \notin {"NONE", "UNDEFINED"}
        <3>1. dag.gate[p] \in Gate
            BY NetlistFacts DEF HeapInv, IInv, TypeOK
        <3>2. Base(p, 0).cell \in {"NAND2", "NOR2"}
            BY <3>1, BaseCoverCorrect, KindFacts DEF Base
        <3>3. QED
            <4>1. /\ heap[t1(0)].cell = Base(p, 0).cell /\ heap[t1(1)].cell = Base(p, 1).cell
                  /\ heap[t1(0)].sons = <<dp[Src(p)[1]][Base(p, 0).ia], dp[Src(p)[2]][Base(p, 0).ib]>>
                  /\ heap[t1(1)].sons = <<dp[Src(p)[1]][Base(p, 1).ia], dp[Src(p)[2]][Base(p, 1).ib]>>
                BY <1>5, KindFacts
            <4>2. QED
                BY <1>2, <3>2, <4>1
    <2>2. UpToDate(t1(0)) /\ UpToDate(t1(1))
        BY <1>3, <1>4, KindFacts
    <2> HIDE DEF t1
    <2>3. \A a, b, cell, sons : /\ OnHeap(a, cell, sons).cost = OnHeap(b, cell, sons).cost
                                /\ OnHeap(a, cell, sons).depth = OnHeap(b, cell, sons).depth
        BY DEF OnHeap, Updated
    <2>4. /\ heap[t1(0)] = OnHeap(heap[t1(0)].name, heap[t1(0)].cell, heap[t1(0)].sons)
          /\ heap[t1(1)] = OnHeap(heap[t1(1)].name, heap[t1(1)].cell, heap[t1(1)].sons)
        BY <2>1, <2>2 DEF UpToDate
    <2>5. QED
        BY <2>1, <2>3, <2>4
<1>8. \A v \in Bit : /\ heap[t1(v)].cost \in Int
                     /\ heap[t1(v)].cost < CostMax
                     /\ Base(p, v).head # 0 =>
                          /\ heap[t2(v)].cost = Rounded(heap[t1(v)].cost + 0 + 0 + 0 + 1)
                          /\ heap[t2(v)].depth =
                                Deeper(Max2(0, Max2(Max2(heap[t1(v)].depth, 0), Max2(0, 0))))
                          /\ heap[t2(v)].cost < CostMax
    <2> SUFFICES ASSUME NEW v \in Bit
                 PROVE  /\ heap[t1(v)].cost \in Int
                        /\ heap[t1(v)].cost < CostMax
                        /\ Base(p, v).head # 0 =>
                              /\ heap[t2(v)].cost = Rounded(heap[t1(v)].cost + 0 + 0 + 0 + 1)
                              /\ heap[t2(v)].depth =
                                    Deeper(Max2(0, Max2(Max2(heap[t1(v)].depth, 0), Max2(0, 0))))
                              /\ heap[t2(v)].cost < CostMax
        OBVIOUS
    <2>1. heap[t1(v)] \in DpState /\ heap[t2(v)] \in DpState /\ UpToDate(t2(v))
        BY <1>3, <1>4
    <2>2. heap[t1(v)].cost \in Int /\ heap[t2(v)].cost \in Int
        BY <2>1 DEF DpState
    <2>3. heap[t1(v)].cell \notin {"NONE", "UNDEFINED"}
        <3>1. dag.gate[p] \in Gate
            BY NetlistFacts DEF HeapInv, IInv, TypeOK
        <3>2. Base(p, v).cell \in {"NAND2", "NOR2"}
            BY <3>1, BaseCoverCorrect DEF Base
        <3>3. QED
            BY <1>5, <3>2
    <2> HIDE DEF t1, t2
    <2>4. heap[t1(v)].cost < CostMax
        BY <1>3, <1>4, <2>2, <2>3, ConstantFacts DEF Saturated
    <2>5. ASSUME Base(p, v).head # 0
          PROVE  /\ heap[t2(v)].cost = Rounded(heap[t1(v)].cost + 0 + 0 + 0 + 1)
                 /\ heap[t2(v)].depth =
                       Deeper(Max2(0, Max2(Max2(heap[t1(v)].depth, 0), Max2(0, 0))))
                 /\ heap[t2(v)].cost < CostMax
        <3>1. heap[t2(v)].cell = "INV" /\ heap[t2(v)].sons = <<t1(v)>>
            BY <1>5, <2>5
        <3>2. heap[t2(v)].cost < CostMax
            BY <1>3, <1>4, <2>2, <3>1, ConstantFacts DEF Saturated
        <3>3. QED
            BY <2>1, <3>1, <3>2, InvFigures
    <2>6. QED
        BY <2>2, <2>4, <2>5
<1>9. UpToDate(head) /\ heap[head] \in DpState
    BY <1>3, <1>4, KindFacts
<1> HIDE DEF t1, t2, head
<1>10. \A c \in Int : Rounded(c + 0 + 0 + 0 + 1) < CostMax => Rounded(c + 0 + 0 + 0 + 1) = c + 1
    BY ConstantFacts DEF Rounded
<1>11. CASE Base(p, 0).head = 0
    <2>1. BaseKind(p, 0) = "t1" /\ BaseKind(p, 1) = "t2" /\ Base(p, 1).head # 0
        BY <1>2, <1>11 DEF BaseKind
    <2>2. heap[head].sons = <<t2(1)>> /\ (dp[p][0] = head => Better(heap[head], heap[t1(0)]))
        BY <1>6, <2>1 DEF t1, t2
    <2>3. heap[head].cost = Rounded(heap[t2(1)].cost + 0 + 0 + 0 + 1)
        BY <1>6, <1>9, <2>2, InvFigures
    <2>4. heap[t2(1)].cost = heap[t1(1)].cost + 1
        BY <1>8, <1>10, <2>1, KindFacts
    <2>5. heap[head].cost > heap[t1(0)].cost
        <3>1. heap[t1(1)].cost \in Int /\ heap[t1(0)].cost = heap[t1(1)].cost
              /\ heap[t1(0)].cost < CostMax
            BY <1>7, <1>8, KindFacts
        <3>2. \A c \in Int : c < CostMax => Rounded(c + 1 + 0 + 0 + 0 + 1) > c
            BY ConstantFacts DEF Rounded
        <3>3. QED
            BY <2>3, <2>4, <3>1, <3>2
    <2>6. heap[head].cost \in Int /\ heap[t1(0)].cost \in Int
        BY <1>8, <1>9, KindFacts DEF DpState
    <2>7. ~Better(heap[head], heap[t1(0)])
        BY <2>5, <2>6 DEF Better
    <2>8. QED
        BY <2>2, <2>7 DEF head
<1>12. CASE Base(p, 0).head # 0
    <2>1. BaseKind(p, 0) = "t2" /\ BaseKind(p, 1) = "t1" /\ Base(p, 1).head = 0
        BY <1>2, <1>12 DEF BaseKind
    <2>2. heap[head].sons = <<t1(1)>> /\ (dp[p][0] = head => Better(heap[head], heap[t2(0)]))
        BY <1>6, <2>1 DEF t1, t2
    <2>3. /\ heap[head].cost = Rounded(heap[t1(1)].cost + 0 + 0 + 0 + 1)
          /\ heap[head].depth = Deeper(Max2(0, Max2(Max2(heap[t1(1)].depth, 0), Max2(0, 0))))
        BY <1>6, <1>9, <2>2, InvFigures
    <2>4. heap[head].cost = heap[t2(0)].cost /\ heap[head].depth = heap[t2(0)].depth
        BY <1>7, <1>8, <1>12, <2>3, KindFacts
    <2>5. heap[head].cost \in Int /\ heap[head].depth \in Int
        BY <1>9 DEF DpState
    <2>6. ~Better(heap[head], heap[t2(0)])
        BY <2>4, <2>5 DEF Better
    <2>7. QED
        BY <2>2, <2>6 DEF head
<1>13. QED
    BY <1>11, <1>12

\* The states of a finished gate that travel reaches, unless a cost is saturated.
LEMMA ReachedOfGate ==
    ASSUME HeapInv, ~Saturated, NEW id, Travelled(id), Len(Src(id[1])) = 2
    PROVE  /\ id[3] \in Kind \ {"dp"}
           /\ id[2] = 1 /\ id[3] # "head" => dp[id[1]][0] = <<id[1], 0, "head">>
           /\ id[3] \in {"t1", "t2"} => Chosen(id[1], id[2])[3] = BaseKind(id[1], id[2])
           /\ id[3] \in {"t2", "aoi21", "aoi12", "aoi22"} => id = Chosen(id[1], id[2])
<1> DEFINE q == id[1]
           v == id[2]
<1>1. /\ id = <<q, v, id[3]>> /\ v \in Bit /\ id[3] \in Kind /\ q \in Node /\ Finished(q)
    BY IdFacts DEF Travelled
<1>2. \A w \in Bit : /\ Chosen(q, w) = <<q, w, Chosen(q, w)[3]>>
                     /\ Chosen(q, w)[2] = w /\ Chosen(q, w)[3] # "head"
    <2> HIDE DEF q
    <2>1. Len(Src(q)) = 2
        BY DEF q
    <2>2. q \in Node /\ Finished(q)
        BY <1>1
    <2>3. \A w \in Bit : /\ Chosen(q, w) = <<q, w, Chosen(q, w)[3]>>
                         /\ Chosen(q, w) \in Id /\ Chosen(q, w)[3] \in Kind \ {"head"}
                         /\ Chosen(q, w)[1] = q /\ Chosen(q, w)[2] = w
                         /\ heap[<<q, 1 - w, "head">>].sons = <<Chosen(q, w)>>
                         /\ PassShape(q, w)
        BY <2>1, <2>2, ChosenFacts
    <2>4. QED
        BY <2>3
<1>3. HeadShape(q, Chosen(q, 0)[3], Chosen(q, 1)[3])
    BY <1>1, ChosenFacts
<1>4. \A w \in Bit : Chosen(q, w)[3] \in {BaseKind(q, w), "aoi21", "aoi12", "aoi22"}
    <2>1. /\ Chosen(q, 0)[3] \in {BaseKind(q, 0), "aoi21", "aoi12", "aoi22"}
          /\ Chosen(q, 1)[3] \in {BaseKind(q, 1), "aoi21", "aoi12", "aoi22"}
        BY <1>3 DEF HeadShape
    <2>2. QED
        BY <2>1, KindFacts
<1>5. \A w \in Bit : BaseKind(q, w) \in {"t1", "t2"}
    BY DEF BaseKind
<1>6. \/ id = <<q, 1, "head">>
      \/ id = <<q, 0, "head">> /\ dp[q][0] = <<q, 0, "head">>
      \/ /\ v = 1 => dp[q][0] = <<q, 0, "head">>
         /\ id = Chosen(q, v) \/ (id = <<q, v, "t1">> /\ Chosen(q, v) = <<q, v, "t2">>)
    <2>1. \/ id = <<q, 1, "head">>
          \/ id = Chosen(q, 0)
          \/ id = <<q, 0, "t1">> /\ Chosen(q, 0) = <<q, 0, "t2">>
          \/ /\ dp[q][0] = <<q, 0, "head">>
             /\ \/ id = <<q, 0, "head">>
                \/ id = Chosen(q, 1)
                \/ id = <<q, 1, "t1">> /\ Chosen(q, 1) = <<q, 1, "t2">>
        BY DEF Travelled, Reached
    <2>2. CASE id = Chosen(q, 0)
        <3>1. Chosen(q, 0)[2] = 0
            BY <1>2, KindFacts
        <3>2. QED
            BY <2>2, <3>1
    <2>3. CASE id = Chosen(q, 1) /\ dp[q][0] = <<q, 0, "head">>
        <3>1. Chosen(q, 1)[2] = 1
            BY <1>2, KindFacts
        <3>2. QED
            BY <2>3, <3>1
    <2>4. CASE id = <<q, 0, "t1">> /\ Chosen(q, 0) = <<q, 0, "t2">>
        <3>1. v = 0
            BY <1>1, <2>4
        <3>2. QED
            BY <2>4, <3>1
    <2>5. CASE /\ id = <<q, 1, "t1">> /\ Chosen(q, 1) = <<q, 1, "t2">>
               /\ dp[q][0] = <<q, 0, "head">>
        <3>1. v = 1
            BY <1>1, <2>5
        <3>2. QED
            BY <2>5, <3>1
    <2> HIDE DEF q, v
    <2>6. QED
        BY <2>1, <2>2, <2>3, <2>4, <2>5
<1> HIDE DEF q, v
<1>7. CASE id = <<q, 1, "head">> \/ id = <<q, 0, "head">>
    <2>1. id[3] = "head"
        BY <1>7
    <2>2. QED
        BY <2>1, KindFacts
<1>8. CASE id = Chosen(q, v) /\ (v = 1 => dp[q][0] = <<q, 0, "head">>)
    <2>1. id[3] \in {BaseKind(q, v), "aoi21", "aoi12", "aoi22"} /\ id[3] = Chosen(q, v)[3]
        BY <1>1, <1>4, <1>8
    <2>2. id[3] # "dp" /\ (id[3] \in {"t1", "t2"} => id[3] = BaseKind(q, v))
        BY <1>1, <1>5, <2>1
    <2>3. QED
        BY <1>1, <1>8, <2>1, <2>2 DEF q, v
<1>9. CASE /\ id = <<q, v, "t1">> /\ Chosen(q, v) = <<q, v, "t2">>
           /\ (v = 1 => dp[q][0] = <<q, 0, "head">>)
    <2>1. id[3] = "t1" /\ Chosen(q, v)[3] = "t2"
        BY <1>9
    <2>2. Chosen(q, v)[3] = BaseKind(q, v)
        BY <1>1, <1>4, <2>1
    <2>3. QED
        BY <1>1, <1>9, <2>1, <2>2 DEF q, v
<1>10. QED
    BY <1>6, <1>7, <1>8, <1>9

\* What the name of a travelled state says, unless a cost is saturated.
LEMMA TravelledName ==
    ASSUME HeapInv, ~Saturated, NEW id, Travelled(id)
    PROVE  \/ heap[id].name = <<id[1], TagOf(id)>>
           \/ heap[id].name = <<id[1], "">> /\ id = dp[id[1]][0]
<1>1. Named(id)
    BY DEF Travelled, HeapInv, NodesDone
<1>2. ~Vacant(heap[id])
    BY TravelledFacts DEF Vacant
<1>3. QED
    BY <1>1, <1>2 DEF Named

\* Two passes never use the same kind of state under the same name.
LEMMA PassesDiffer ==
    ASSUME HeapInv, ~Saturated, NEW q \in Node, Len(Src(q)) = 2, NEW k \in Kind,
           Travelled(<<q, 0, k>>), Travelled(<<q, 1, k>>)
    PROVE  TagOf(<<q, 0, k>>) # TagOf(<<q, 1, k>>)
<1> DEFINE x == <<q, 0, k>>
           y == <<q, 1, k>>
<1>1. /\ x[1] = q /\ x[2] = 0 /\ x[3] = k /\ y[1] = q /\ y[2] = 1 /\ y[3] = k
      /\ Travelled(x) /\ Travelled(y) /\ Finished(q)
    BY DEF Travelled
<1> HIDE DEF x, y
<1>2. k # "dp" /\ (k # "head" => dp[q][0] = <<q, 0, "head">>)
    <2>1. y[3] # "dp" /\ (y[2] = 1 /\ y[3] # "head" => dp[y[1]][0] = <<y[1], 0, "head">>)
        BY <1>1, ReachedOfGate
    <2>2. QED
        BY <1>1, <2>1
<1>3. \A id \in {x, y} :
        /\ k \in {"t1", "t2"} => Chosen(q, id[2])[3] = BaseKind(q, id[2])
        /\ k \in {"t2", "aoi21", "aoi12", "aoi22"} => id = Chosen(q, id[2])
    <2>1. \A id \in {x, y} :
            /\ id[3] \in {"t1", "t2"} => Chosen(id[1], id[2])[3] = BaseKind(id[1], id[2])
            /\ id[3] \in {"t2", "aoi21", "aoi12", "aoi22"} => id = Chosen(id[1], id[2])
        BY <1>1, ReachedOfGate
    <2>2. \A id \in {x, y} : id[1] = q /\ id[3] = k
        BY <1>1
    <2>3. QED
        BY <2>1, <2>2
<1>4. /\ k \in {"t1", "t2"} => Chosen(q, 0)[3] = BaseKind(q, 0) /\ Chosen(q, 1)[3] = BaseKind(q, 1)
      /\ k \in {"t2", "aoi21", "aoi12", "aoi22"} => x = Chosen(q, 0) /\ y = Chosen(q, 1)
    BY <1>1, <1>3
<1>5. /\ dag.gate[q] \in Gate /\ PassShape(q, 0) /\ PassShape(q, 1)
      /\ heap[x].cell # "NONE" /\ heap[y].cell # "NONE"
    <2>1. dag.gate[q] \in Gate
        BY NetlistFacts DEF HeapInv, IInv, TypeOK
    <2>2. \A w \in Bit : PassShape(q, w)
        BY <1>1, ChosenFacts
    <2>3. QED
        BY <1>1, <2>1, <2>2, KindFacts, TravelledFacts
<1>6. TagOf(x) = TagOf(y) => k # "head"
    BY <1>1 DEF TagOf
<1>7. CASE k = "t1"
    <2>1. Base(q, 0).cell # Base(q, 1).cell
        BY <1>1, <1>2, <1>4, <1>7, BasesNotBothUsed
    <2>2. QED
        BY <1>1, <1>7, <2>1 DEF TagOf, x, y
<1>8. CASE k = "t2"
    <2>1. BaseKind(q, 0) = "t2" /\ BaseKind(q, 1) = "t2"
        BY <1>1, <1>4, <1>8
    <2>2. QED
        BY <1>5, <2>1, BasesOfPasses DEF BaseKind
<1>9. CASE k = "aoi21"
    <2>1. heap[<<q, 0, "aoi21">>].cell # "NONE" /\ heap[<<q, 1, "aoi21">>].cell # "NONE"
        BY <1>5, <1>9 DEF x, y
    <2>2. /\ AOI21Inv(dag.gate[q], dag.gate[Src(q)[1]], 0) # {}
          /\ AOI21Inv(dag.gate[q], dag.gate[Src(q)[1]], 1) # {}
        BY <1>5, <2>1 DEF PassShape, AOI21Shape
    <2>3. QED
        BY <2>2, AOIForOnePass
<1>10. CASE k = "aoi12"
    <2>1. heap[<<q, 0, "aoi12">>].cell # "NONE" /\ heap[<<q, 1, "aoi12">>].cell # "NONE"
        BY <1>5, <1>10 DEF x, y
    <2>2. /\ AOI12Inv(dag.gate[q], dag.gate[Src(q)[2]], 0) # {}
          /\ AOI12Inv(dag.gate[q], dag.gate[Src(q)[2]], 1) # {}
        BY <1>5, <2>1 DEF PassShape, AOI12Shape
    <2>3. QED
        BY <2>2, AOIForOnePass
<1>11. CASE k = "aoi22"
    <2>1. heap[<<q, 0, "aoi22">>].cell # "NONE" /\ heap[<<q, 1, "aoi22">>].cell # "NONE"
        BY <1>5, <1>11 DEF x, y
    <2>2. /\ AOI22Inv(dag.gate[q], dag.gate[Src(q)[1]], dag.gate[Src(q)[2]], 0) # {}
          /\ AOI22Inv(dag.gate[q], dag.gate[Src(q)[1]], dag.gate[Src(q)[2]], 1) # {}
        BY <1>5, <2>1 DEF PassShape, AOI22Shape
    <2>3. QED
        BY <2>2, AOIForOnePass
<1>12. QED
    <2>1. k \in {"dp", "t1", "t2", "aoi21", "aoi12", "aoi22", "head"}
        BY KindFacts
    <2>2. TagOf(x) # TagOf(y)
        BY <1>2, <1>6, <1>7, <1>8, <1>9, <1>10, <1>11, <2>1 DEF x, y
    <2>3. QED
        BY <2>2 DEF x, y

\* No two states that travel reaches have the same name, unless a cost is saturated.
LEMMA SameName ==
    ASSUME HeapInv, ~Saturated, NEW a, NEW b, Travelled(a), Travelled(b),
           heap[a].name = heap[b].name
    PROVE  a = b
<1> SUFFICES ASSUME a # b PROVE FALSE
    OBVIOUS
<1> DEFINE q == a[1]
<1>1. /\ a \in Id /\ b \in Id /\ q \in Node /\ Finished(q) /\ Shape(q)
      /\ a = <<a[1], a[2], a[3]>> /\ b = <<b[1], b[2], b[3]>>
      /\ a[2] \in Bit /\ b[2] \in Bit /\ a[3] \in Kind /\ b[3] \in Kind
    BY IdFacts DEF Travelled, HeapInv, NodesDone
<1>2. PICK s, t : /\ heap[a].name = <<a[1], s>> /\ heap[b].name = <<b[1], t>>
                  /\ s = TagOf(a) \/ (s = "" /\ a = dp[a[1]][0])
                  /\ t = TagOf(b) \/ (t = "" /\ b = dp[b[1]][0])
    BY TravelledName
<1>3. /\ b[1] = q
      /\ TagOf(a) = TagOf(b) \/ (TagOf(a) = "" /\ b = dp[q][0]) \/ (TagOf(b) = "" /\ a = dp[q][0])
    <2>1. <<a[1], s>> = <<b[1], t>>
        BY <1>2
    <2>2. a[1] = b[1] /\ s = t
        BY <2>1
    <2>3. QED
        BY <1>2, <2>2
<1> HIDE DEF q
<1>4. CASE Len(Src(q)) # 2
    <2>1. a[3] = "dp" /\ b[3] = "dp" /\ dp[q][0] = Ori(q)
        BY <1>1, <1>3, <1>4 DEF Shape, SimpleShape, Travelled, Reached, q
    <2>2. (a = Ori(q) \/ a = Inv(q)) /\ (b = Ori(q) \/ b = Inv(q))
        BY <1>1, <1>3, <2>1, KindFacts DEF Ori, Inv, q
    <2>3. TagOf(Ori(q)) = "" /\ TagOf(Inv(q)) = "virtually_inverse"
        BY <1>4 DEF TagOf, Ori, Inv
    <2>4. Ori(q) # Inv(q)
        BY <2>3
    <2>5. CASE a = Ori(q) /\ b = Inv(q)
        <3>1. TagOf(a) = "" /\ TagOf(b) = "virtually_inverse"
            BY <2>3, <2>5
        <3>2. QED
            BY <1>3, <2>1, <2>4, <2>5, <3>1
    <2>6. CASE a = Inv(q) /\ b = Ori(q)
        <3>1. TagOf(b) = "" /\ TagOf(a) = "virtually_inverse"
            BY <2>3, <2>6
        <3>2. QED
            BY <1>3, <2>1, <2>4, <2>6, <3>1
    <2>7. QED
        BY <2>2, <2>5, <2>6
<1>5. CASE Len(Src(q)) = 2
    <2>0. \A id \in Id : id[1] = q => Base(q, id[2]).cell \in {"NAND2", "NOR2"}
        <3>1. dag.gate[q] \in Gate
            BY <1>1, NetlistFacts DEF HeapInv, IInv, TypeOK
        <3>2. QED
            BY <3>1, BaseCoverCorrect, IdFacts DEF Base
    <2>1. \A id \in Id : id[1] = q => TagOf(id) # ""
        BY <1>5, <2>0 DEF TagOf
    <2>2. TagOf(a) = TagOf(b)
        BY <1>1, <1>3, <2>1 DEF q
    <2>3. \A id \in Id : id[1] = q /\ Travelled(id) => id[3] # "dp"
        BY <1>5, ReachedOfGate
    <2>4. a[3] = b[3]
        <3>2. \A id \in Id : id[1] = q /\ id[3] # "dp" =>
                /\ id[3] = "t1"    <=> TagOf(id) \in {"NAND2", "NOR2"}
                /\ id[3] = "t2"    <=> TagOf(id) = "INV"
                /\ id[3] = "aoi21" <=> TagOf(id) = "AIO21"
                /\ id[3] = "aoi12" <=> TagOf(id) = "AIO12"
                /\ id[3] = "aoi22" <=> TagOf(id) = "AOI22"
            BY <1>5, <2>0, IdFacts, KindFacts DEF TagOf
        <3>3. a[3] \in Kind \ {"dp"} /\ b[3] \in Kind \ {"dp"}
            BY <1>1, <1>3, <2>3 DEF q
        <3>4. a[1] = q /\ b[1] = q /\ a \in Id /\ b \in Id
            BY <1>1, <1>3 DEF q
        <3>5. QED
            BY <2>2, <3>2, <3>3, <3>4, KindFacts
    <2>5. PICK k \in Kind : k = a[3] /\ k = b[3]
        BY <1>1, <2>4
    <2>6. \/ a = <<q, 0, k>> /\ b = <<q, 1, k>>
          \/ a = <<q, 1, k>> /\ b = <<q, 0, k>>
        BY <1>1, <1>3, <2>5, KindFacts DEF q
    <2>7. Travelled(<<q, 0, k>>) /\ Travelled(<<q, 1, k>>)
          /\ TagOf(<<q, 0, k>>) = TagOf(<<q, 1, k>>)
        BY <2>2, <2>6
    <2>8. QED
        BY <1>1, <1>5, <2>7, PassesDiffer
<1>6. QED
    BY <1>4, <1>5

\* No name is driven by two of the blocks printed so far.
UniqueInv == Saturated \/ \A k, l \in DOMAIN oss : oss[k].out = oss[l].out => k = l

\* A block is printed under a name that none of the others has.
LEMMA PrintBlockUnique ==
    ASSUME PrintInv, UniqueInv, PrintBlock, ~Saturated
    PROVE  \A k, l \in DOMAIN oss' : oss'[k].out = oss'[l].out => k = l
<1> DEFINE m == Len(oss)
           c == Current
<1>1. /\ frames # <<>> /\ Len(frames) > 1 /\ oss' = Append(oss, Block(c))
    BY DEF PrintBlock, Block
<1>2. /\ Travelled(c) /\ OnFrames(c)
    <2>1. Len(frames) \in 1..Len(frames) /\ frames[Len(frames)][1] = c
        BY <1>1, CurrentFacts
    <2>2. QED
        BY <1>1, <2>1, CurrentFacts DEF OnFrames
<1> HIDE DEF m, c
<1>3. /\ m \in Nat /\ DOMAIN oss = 1..m /\ DOMAIN oss' = 1..(m + 1)
      /\ \A k \in 1..m : oss'[k] = oss[k]
      /\ oss'[m + 1] = Block(c)
    <2>1. oss \in Seq({Block(id) : id \in Id}) /\ Block(c) \in {Block(id) : id \in Id}
        BY <1>2 DEF PrintInv, PhaseInv, Travelled
    <2> HIDE DEF Block
    <2>2. \A S : \A s \in Seq(S), x \in S :
            /\ Len(s) \in Nat /\ DOMAIN s = 1..Len(s)
            /\ DOMAIN Append(s, x) = 1..(Len(s) + 1)
            /\ \A k \in 1..Len(s) : Append(s, x)[k] = s[k]
            /\ Append(s, x)[Len(s) + 1] = x
        OBVIOUS
    <2>3. QED
        BY <1>1, <2>1, <2>2 DEF m
<1>4. \A k \in 1..m : oss[k].out # Block(c).out
    <2> SUFFICES ASSUME NEW k \in 1..m, oss[k].out = Block(c).out PROVE FALSE
        OBVIOUS
    <2>1. PICK id \in Id : Travelled(id) /\ oss[k] = Block(id) /\ PrintedAs(k, id)
        BY <1>3, BlockFacts
    <2>2. heap[id].name = heap[c].name
        BY <1>2, <2>1, TravelledSons DEF PrintInv
    <2>3. id = c
        BY <1>2, <2>1, <2>2, SameName DEF PrintInv
    <2>4. QED
        BY <1>2, <2>1, <2>3 DEF PrintedAs
<1>5. \A k, l \in 1..m : oss[k].out = oss[l].out => k = l
    BY <1>3 DEF UniqueInv
<1>6. \A k \in 1..(m + 1) : k \in 1..m \/ k = m + 1
    BY <1>3
<1>7. QED
    BY <1>3, <1>4, <1>5, <1>6

\* The inductive step.
LEMMA StepUnique == PrintInv /\ UniqueInv /\ [MainNext]_allVars => UniqueInv'
<1> SUFFICES ASSUME PrintInv, UniqueInv, [MainNext]_allVars PROVE UniqueInv'
    OBVIOUS
<1>1. Saturated => Saturated'
    BY MainStepMaps, NodesDoneKept DEF PrintInv, HeapInv
<1>2. CASE PrintBlock
    BY <1>1, <1>2, PrintBlockUnique DEF UniqueInv
<1>3. CASE ~PrintBlock
    <2>1. oss' = oss
        BY <1>3 DEF MainNext, MainStep, Mapping, Crash, PrintHeader, SkipSon, TravelSon, PrintEnd,
                    Stopped, allVars, evars
    <2>2. QED
        BY <1>1, <2>1 DEF UniqueInv
<1>4. QED
    BY <1>2, <1>3

(***************************************************************************)
(* No net of the printed text has two drivers, unless a cost has reached   *)
(* the largest long double: the names that a node's covers, INVs and       *)
(* renamed outputs take are distinct whenever travel prints two of them.   *)
(* With a saturated cost a cover can lose against its placeholder, which has*)
(* no name: two of them would be printed alike.                            *)
(***************************************************************************)
THEOREM DriversAreUnique == MainSpec => [](Saturated \/ UniqueDrivers)
<1>1. PrintInv /\ UniqueInv => Saturated \/ UniqueDrivers
    <2> SUFFICES ASSUME PrintInv, UniqueInv, ~Saturated, NEW k \in DOMAIN oss
                 PROVE  oss[k].out \notin header.inputs
        BY DEF UniqueDrivers, UniqueInv
    <2>1. PICK id \in Id : Travelled(id) /\ ~heap[id].leaf /\ oss[k] = Block(id)
        BY BlockFacts
    <2>2. oss[k].out = heap[id].name
        BY <2>1, TravelledSons DEF PrintInv
    <2>3. /\ header.inputs = {heap[dp[n][0]].name : n \in dag.leaf} /\ stack = <<>>
          /\ \A n \in dag.leaf : Defined(n)
        BY BlockFacts DEF PrintInv, PhaseInv, TheHeader
    <2>4. ASSUME NEW n \in dag.leaf
          PROVE  heap[dp[n][0]].name # heap[id].name
        <3>1. n \in Node /\ Finished(n) /\ IsLeaf(n)
            BY <2>3 DEF PrintInv, HeapInv, IInv, TypeOK, WellFormed, Finished, Range, IsLeaf
        <3>2. Travelled(dp[n][0])
            BY <3>1, EntriesReached, KindFacts DEF PrintInv
        <3>3. heap[dp[n][0]].leaf
            <4>1. Shape(n) /\ WellFormed(dag)
                BY <3>1 DEF PrintInv, HeapInv, NodesDone, IInv, TypeOK
            <4>2. Len(Src(n)) # 2
                <5>1. Src(n) = <<>>
                    BY <3>1, <4>1 DEF WellFormed, Src
                <5>2. QED
                    BY <5>1
            <4>3. QED
                BY <3>1, <4>1, <4>2 DEF Shape, SimpleShape
        <3>4. QED
            BY <2>1, <3>2, <3>3, SameName DEF PrintInv
    <2>5. QED
        BY <2>2, <2>3, <2>4
<1>2. MainInit => UniqueInv
    BY DEF MainInit, UniqueInv
<1>3. QED
    BY <1>1, <1>2, StepUnique, PrintInvariance, PTL DEF MainSpec

-----------------------------------------------------------------------------
(* The inputs that no output depends on                                    *)

\* The sets that have the model and, with a node, its sources.
Closed(S) == Model \in S /\ \A n \in S : \A i \in DOMAIN Src(n) : Src(n)[i] \in S

\* DFS enters what is needed and nothing else; main crashes on an input not entered.
NeededInv ==
    /\ \A n \in Vertex : Defined(n) => n \in Needed
    /\ status = "crashed" => ~(dag.leaf \subseteq Needed)

\* The nodes with states are closed once DFS has returned: a leaf without is not needed.
LEMMA NotNeeded ==
    ASSUME HeapInv, stack = <<>>, NEW n \in dag.leaf, ~Defined(n)
    PROVE  n \notin Needed
<1> DEFINE S == {m \in Vertex : Defined(m)}
<1>1. Model \in S
    BY ModelSons DEF Finished, Vertex
<1>2. ASSUME NEW m \in S, NEW i \in DOMAIN Src(m)
      PROVE  Src(m)[i] \in S
    <2>1. m \in Vertex /\ Finished(m)
        BY DEF Finished, Range
    <2>2. Finished(Src(m)[i]) /\ Src(m)[i] \in Vertex
        BY <2>1, NetlistFacts DEF HeapInv, IInv, SourcesFinished, TypeOK, Vertex
    <2>3. QED
        BY <2>2 DEF Finished
<1>3. S \in SUBSET Vertex /\ Closed(S) /\ n \notin S
    BY <1>1, <1>2 DEF Closed
<1> HIDE DEF S
<1>4. QED
    BY <1>3 DEF Needed, Closed

\* DFS enters the sources of nodes that are needed.
LEMMA StepNeeded == PrintInv /\ NeededInv /\ [MainNext]_allVars => NeededInv'
<1> SUFFICES ASSUME PrintInv, NeededInv, [MainNext]_allVars PROVE NeededInv'
    OBVIOUS
<1>1. /\ IInv /\ TypeOK /\ [Next]_vars /\ dag' = dag
    BY MainStepMaps, FinishedKept DEF PrintInv, HeapInv, IInv
<1>2. Needed' = Needed
    BY <1>1 DEF Needed, Src
<1>3. ASSUME NEW n \in Vertex, Defined(n)', ~Defined(n)
      PROVE  n \in Needed
    <2>1. dp'[n][0] # dp[n][0] /\ n # Model
        <3>1. Defined(Model)
            BY <1>1, IdFacts, KindFacts, ConstantFacts DEF Defined, TypeOK, Ori, Vertex
        <3>2. QED
            BY <1>3, <3>1 DEF Defined
    <2>2. PICK p \in Vertex : Enter(p)
        <3>1. DFSStep
            BY <1>1, <2>1 DEF Next, Returned, vars
        <3>2. ~FinishModel /\ \A p \in Vertex : ~FinishLeaf(p) /\ ~FinishConstant(p) /\ ~FinishUnary(p)
            BY <2>1 DEF FinishModel, FinishLeaf, FinishConstant, FinishUnary
        <3>3. \A p \in Vertex : ~FinishBinary(p)
            <4> SUFFICES ASSUME NEW p \in Vertex, FinishBinary(p) PROVE FALSE
                OBVIOUS
            <4>1. Running(p) /\ p \in Node
                BY DEF FinishBinary, Ready, Vertex
            <4>2. Defined(p)
                BY <1>1, <4>1, RunningFacts
            <4>3. p # n
                BY <1>3, <4>2
            <4>4. \E f : dp' = [dp EXCEPT ![p] = f]
                BY DEF FinishBinary
            <4>5. dp'[n] = dp[n]
                BY <1>1, <4>3, <4>4 DEF TypeOK
            <4>6. QED
                BY <2>1, <4>5
        <3>4. QED
            BY <3>1, <3>2, <3>3 DEF DFSStep
    <2>3. PICK i \in DOMAIN Src(p) : \E f : dp' = [dp EXCEPT ![Src(p)[i]] = f]
        BY <2>2 DEF Enter
    <2>4. n = Src(p)[i]
        BY <1>1, <2>1, <2>3 DEF TypeOK
    <2>5. Defined(p)
        BY <1>1, <2>2, RunningFacts DEF Enter
    <2>6. p \in Needed
        BY <2>5 DEF NeededInv
    <2>7. QED
        BY <2>4, <2>6 DEF Needed
<1>4. ASSUME status' = "crashed"
      PROVE  ~(dag.leaf \subseteq Needed)
    <2>1. CASE status = "crashed"
        BY <2>1 DEF NeededInv
    <2>2. CASE status # "crashed"
        <3>1. Crash
            BY <1>4, <2>2 DEF MainNext, MainStep, Mapping, PrintHeader, SkipSon, TravelSon, PrintBlock,
                    PrintEnd, Stopped, allVars, evars
        <3>2. QED
            BY <3>1, NotNeeded DEF Crash, AtHeader, PrintInv
    <2>3. QED
        BY <2>1, <2>2
<1>5. \A n \in Vertex : Defined(n)' => n \in Needed'
    BY <1>2, <1>3 DEF NeededInv
<1>6. QED
    BY <1>1, <1>2, <1>4, <1>5 DEF NeededInv

(***************************************************************************)
(* main crashes exactly on the netlists with an input that no output       *)
(* depends on: DFS enters what the outputs depend on and nothing else, and *)
(* the header reads the state of every input.                              *)
(***************************************************************************)
THEOREM CrashesExplained == MainSpec => []CrashesOnUnusedInput
<1>1. PrintInv /\ NeededInv => CrashesOnUnusedInput
    <2> SUFFICES ASSUME PrintInv, NeededInv, frames # <<>>
                 PROVE  dag.leaf \subseteq Needed
        BY DEF CrashesOnUnusedInput, NeededInv
    <2>1. (\A n \in dag.leaf : Defined(n)) /\ dag.leaf \subseteq Vertex
        BY DEF PrintInv, PhaseInv, HeapInv, IInv, TypeOK, WellFormed, Vertex
    <2>2. QED
        BY <2>1 DEF NeededInv
<1>2. MainInit => NeededInv
    <2> SUFFICES ASSUME MainInit PROVE NeededInv
        OBVIOUS
    <2>1. ASSUME NEW n \in Vertex, Defined(n)
          PROVE  n \in Needed
        <3>1. n = Model
            BY <2>1, KindFacts DEF MainInit, Init, Defined
        <3>2. QED
            BY <3>1 DEF Needed
    <2>2. QED
        BY <2>1 DEF NeededInv, MainInit
<1>3. QED
    BY <1>1, <1>2, StepNeeded, PrintInvariance, PTL DEF MainSpec

-----------------------------------------------------------------------------
(* The names of the outputs                                                *)

\* The model's call is the first, and ends by naming the outputs' states.
OutputsNamed ==
    /\ stack # <<>> => stack[1] = Model
    /\ stack = <<>> => \A i \in DOMAIN Src(Model) :
                            heap[dp[Src(Model)[i]][0]].name = <<Src(Model)[i], "">>

\* It is the last call to return.
LEMMA StepNames == HeapInv /\ OutputsNamed /\ [Next]_vars => OutputsNamed'
<1> SUFFICES ASSUME HeapInv, OutputsNamed, [Next]_vars PROVE OutputsNamed'
    OBVIOUS
<1>1. IInv /\ TypeOK /\ WellFormed(dag) /\ stack \in Seq(Vertex)
    BY DEF HeapInv, IInv, TypeOK
<1>2. ASSUME NEW p \in Vertex, Enter(p)
      PROVE  OutputsNamed'
    <2>1. stack # <<>>
        BY <1>2 DEF Enter, Running
    <2>2. PICK s \in Vertex : stack' = Append(stack, s)
        BY <1>1, <1>2, NetlistFacts DEF Enter
    <2>3. stack' # <<>> /\ stack'[1] = stack[1]
        <3>1. \A q \in Seq(Vertex) : \A x \in Vertex :
                q # <<>> => Append(q, x) # <<>> /\ Append(q, x)[1] = q[1]
            OBVIOUS
        <3>2. QED
            BY <1>1, <2>1, <2>2, <3>1
    <2>4. QED
        BY <2>1, <2>3 DEF OutputsNamed
<1>3. ASSUME NEW p \in Vertex,
             FinishLeaf(p) \/ FinishConstant(p) \/ FinishUnary(p) \/ FinishBinary(p)
      PROVE  OutputsNamed'
    <2>1. p \in Node /\ Running(p) /\ stack' = Front(stack)
        BY <1>1, <1>3, FinishWritesOwn
    <2>2. /\ stack # <<>> /\ Len(stack) \in Nat \ {0} /\ p = stack[Len(stack)]
          /\ Len(Front(stack)) = Len(stack) - 1
          /\ \A i \in 1..(Len(stack) - 1) : Front(stack)[i] = stack[i]
        BY <1>1, <2>1, RunningFacts, PopFacts
    <2>3. Len(stack) # 1
        BY <2>1, <2>2, ConstantFacts DEF OutputsNamed
    <2>4. stack'[1] = stack[1] /\ stack' # <<>>
        <3>1. \A n \in Nat \ {0} : n # 1 => 1 \in 1..(n - 1) /\ n - 1 # 0
            OBVIOUS
        <3>2. 1 \in 1..(Len(stack) - 1) /\ Len(Front(stack)) # 0
            BY <2>2, <2>3, <3>1
        <3>3. Len(<<>>) = 0
            OBVIOUS
        <3>4. QED
            BY <2>1, <2>2, <3>2, <3>3
    <2>5. stack[1] = Model
        BY <2>2 DEF OutputsNamed
    <2>6. QED
        BY <2>4, <2>5 DEF OutputsNamed
<1>4. ASSUME FinishModel
      PROVE  OutputsNamed'
    <2>1. Running(Model) /\ stack' = Front(stack) /\ dag' = dag /\ dp' = dp
        BY <1>4 DEF FinishModel, Ready
    <2>2. /\ stack # <<>> /\ Len(stack) \in Nat \ {0} /\ Model = stack[Len(stack)]
          /\ \A i \in 1..(Len(stack) - 1) : stack[i] # Model
          /\ \A i \in DOMAIN Src(Model) : Finished(Src(Model)[i])
        BY <1>1, <1>4, <2>1, RunningFacts DEF FinishModel, Ready, Vertex
    <2>3. Len(stack) = 1
        <3>1. stack[1] = Model /\ Len(stack) \in Nat \ {0}
            BY <2>2 DEF OutputsNamed
        <3>2. \A i \in 1..(Len(stack) - 1) : stack[i] # Model
            BY <2>2
        <3>3. \A n \in Nat \ {0} : n # 1 => 1 \in 1..(n - 1)
            OBVIOUS
        <3>4. QED
            BY <3>1, <3>2, <3>3
    <2>4. stack' = <<>>
        <3>1. Front(stack) \in Seq(Vertex) /\ Len(Front(stack)) = 0
            BY <1>1, <2>2, <2>3, PopFacts
        <3>2. QED
            BY <2>1, <3>1
    <2>5. ASSUME NEW i \in DOMAIN Src(Model)
          PROVE  heap'[dp[Src(Model)[i]][0]].name = <<Src(Model)[i], "">>
        <3>1. PICK id : id = dp[Src(Model)[i]][0]
            OBVIOUS
        <3>2. Src(Model)[i] \in Node
            BY <1>1, NetlistFacts
        <3>3. id \in Id /\ id[1] = Src(Model)[i] /\ heap[id] \in DpState
            BY <1>1, <2>2, <3>1, <3>2, FinishedStates, KindFacts
        <3>4. id # Ori(Model)
            BY <3>2, <3>3, ConstantFacts, IdFacts, KindFacts DEF Ori, Vertex
        <3>5. id \in Range([j \in DOMAIN Src(Model) |-> dp[Src(Model)[j]][0]])
            BY <3>1 DEF Range
        <3>6. heap'[id] = [heap[id] EXCEPT !.name = <<id[1], "">>]
            BY <1>4, <3>3, <3>4, <3>5 DEF FinishModel
        <3>7. QED
            BY <3>1, <3>3, <3>6 DEF DpState
    <2>7. \A i \in DOMAIN dag'.src[Model] :
            heap'[dp'[dag'.src[Model][i]][0]].name = <<dag'.src[Model][i], "">>
        BY <2>1, <2>5 DEF Src
    <2>8. QED
        BY <2>4, <2>7 DEF OutputsNamed, Src
<1>5. CASE UNCHANGED vars
    BY <1>5 DEF vars, OutputsNamed, Src
<1>6. QED
    BY <1>2, <1>3, <1>4, <1>5 DEF Next, DFSStep, Returned

\* So it is in every state of main.
LEMMA MainNames == MainSpec => []OutputsNamed
<1>1. Init => OutputsNamed
    BY DEF Init, OutputsNamed
<1>2. QED
    BY <1>1, StepNames, MainMaps, HeapInvariance, PTL DEF Spec

-----------------------------------------------------------------------------
(* Induction over the natural numbers                                     *)

\* Every set of numbers that is not empty has a least one.
LEMMA LeastNumber ==
    ASSUME NEW T \in SUBSET Nat, T # {}
    PROVE  \E n \in T : \A m \in T : n <= m
<1> DEFINE R == {ss \in Nat \X Nat : ss[1] < ss[2]}
<1>1. IsWellFoundedOn(R, Nat)
    BY NatLessThanWellFounded DEF OpToRel
<1> HIDE DEF R
<1>2. PICK n \in T : \A m \in T : ~ (<<m, n>> \in R)
    BY <1>1, WFMin
<1>3. ASSUME NEW m \in T PROVE n <= m
    <2>1. m \in Nat /\ n \in Nat
        OBVIOUS
    <2>2. m < n => <<m, n>> \in R
        BY <2>1 DEF R
    <2>3. QED
        BY <1>2, <2>1, <2>2
<1>4. QED
    BY <1>3

\* Induction, with a set for the predicate.
LEMMA NumberInduction ==
    ASSUME NEW T, 0 \in T, \A n \in T \cap Nat : n + 1 \in T
    PROVE  Nat \subseteq T
<1> SUFFICES ASSUME Nat \ T # {} PROVE FALSE
    OBVIOUS
<1>1. PICK n \in Nat \ T : \A m \in Nat \ T : n <= m
    BY LeastNumber
<1>2. n # 0 /\ n - 1 \in Nat
    BY <1>1
<1>3. n - 1 \in T
    BY <1>1, <1>2
<1>4. n - 1 + 1 = n
    BY <1>1
<1>5. QED
    BY <1>1, <1>2, <1>3, <1>4

-----------------------------------------------------------------------------
(* Reading the text back                                                   *)

\* The names that carry 1 under x after each of the first m blocks.
Reading(f, m, x) ==
    f = [k \in 0..m |-> IF k = 0 THEN {name \in header.inputs : dag.fn[name[1]][x] = 1}
                        ELSE Read(f[k - 1], oss[k])]

\* Reading goes on block by block.
LEMMA ReadingExists ==
    ASSUME NEW n \in Nat, NEW x
    PROVE  \E f : Reading(f, n, x)
<1> DEFINE base == {name \in header.inputs : dag.fn[name[1]][x] = 1}
           T == {m \in Nat : \E f : Reading(f, m, x)}
<1>1. 0 \in T
    <2>1. Reading([k \in 0..0 |-> base], 0, x)
        <3> DEFINE f == [k \in 0..0 |-> base]
        <3>1. \A k \in 0..0 : k = 0 /\ f[k] = base
            OBVIOUS
        <3> HIDE DEF base
        <3>2. [k \in 0..0 |-> IF k = 0 THEN base ELSE Read(f[k - 1], oss[k])] = f
            BY <3>1
        <3>3. QED
            BY <3>2 DEF Reading, base
    <2>2. QED
        BY <2>1
<1>2. ASSUME NEW m \in T \cap Nat
      PROVE  m + 1 \in T
    <2>1. PICK f : Reading(f, m, x)
        BY <1>2
    <2>2. m \in Nat
        BY <1>2
    <2> DEFINE g == [k \in 0..(m + 1) |-> IF k <= m THEN f[k] ELSE Read(f[m], oss[m + 1])]
    <2> HIDE DEF T, base
    <2>3. \A k \in 0..m : f[k] = IF k = 0 THEN base ELSE Read(f[k - 1], oss[k])
        BY <2>1 DEF Reading, base
    <2>4. ASSUME NEW k \in 0..(m + 1)
          PROVE  g[k] = IF k = 0 THEN base ELSE Read(g[k - 1], oss[k])
        <3>1. CASE k = 0
            <4>1. g[k] = f[k] /\ k \in 0..m
                BY <2>2, <3>1
            <4>2. QED
                BY <2>3, <3>1, <4>1
        <3>2. CASE k # 0 /\ k <= m
            <4>1. k \in 0..m /\ g[k] = f[k] /\ g[k - 1] = f[k - 1]
                BY <2>2, <3>2
            <4> HIDE DEF g
            <4>2. QED
                BY <2>3, <3>2, <4>1
        <3>3. CASE k = m + 1
            <4>1. k # 0 /\ k - 1 = m /\ g[k] = Read(f[m], oss[k]) /\ g[m] = f[m]
                BY <2>2, <3>3
            <4> HIDE DEF g
            <4>2. QED
                BY <4>1
        <3>4. QED
            BY <2>2, <3>1, <3>2, <3>3
    <2>5. g = [k \in 0..(m + 1) |-> g[k]]
        OBVIOUS
    <2> HIDE DEF g
    <2>6. Reading(g, m + 1, x)
        BY <2>4, <2>5 DEF Reading, base
    <2>7. m + 1 \in Nat
        BY <2>2
    <2>8. QED
        BY <2>6, <2>7 DEF T
<1> HIDE DEF T
<1>3. Nat \subseteq T
    BY <1>1, <1>2, NumberInduction
<1>4. QED
    BY <1>3 DEF T

\* What is carried in the end is what is carried after the last block.
LEMMA HighInTheEnd ==
    ASSUME Len(oss) \in Nat, NEW x
    PROVE  \E f : Reading(f, Len(oss), x) /\ High(x) = f[Len(oss)]
<1> DEFINE g == CHOOSE f : Reading(f, Len(oss), x)
<1>1. Reading(g, Len(oss), x)
    BY ReadingExists
<1>2. High(x) = g[Len(oss)]
    BY DEF High, Reading
<1>3. QED
    BY <1>1, <1>2

\* The states whose value can be read off the first k blocks.
Known(id, k) == Travelled(id) /\ (heap[id].leaf \/ \E j \in 1..k : oss[j] = Block(id))

\* What has been read is what these states drive.
ReadRight(high, k, x) ==
    /\ high \subseteq header.inputs \cup Outs(k)
    /\ \A id : Known(id, k) => (heap[id].name \in high <=> heap[id].fn[x] = 1)

\* A travelled state that is no input drives what its cell does, and that is a bit.
LEMMA DriveFacts ==
    ASSUME HeapInv, ~Saturated, NEW id, Travelled(id), ~heap[id].leaf, NEW x \in Assign
    PROVE  /\ heap[id].fn[x] = CellFn(heap[id].cell, States(heap[id].sons))[x]
           /\ heap[id].fn[x] \in Bit
<1>1. /\ id \in Id /\ id[1] \in Node /\ Finished(id[1]) /\ heap[id] \in DpState
      /\ heap[id].cell \notin {"NONE", "UNDEFINED"}
    BY TravelledFacts DEF Travelled
<1>2. heap[id] = OnHeap(heap[id].name, heap[id].cell, heap[id].sons)
    BY <1>1 DEF HeapInv, NodesDone, UpToDate
<1>3. \A name, cell, sons : OnHeap(name, cell, sons).fn = CellFn(cell, States(sons))
    BY DEF OnHeap, Updated
<1>4. heap[id].fn = CellFn(heap[id].cell, States(heap[id].sons))
    BY <1>2, <1>3
<1>5. QED
    BY <1>1, <1>4 DEF DpState

\* The value of a block's input, read by its name.
LEMMA InputRead ==
    ASSUME PrintInv, ~Saturated, NEW x \in Assign, NEW k \in DOMAIN oss,
           NEW high, ReadRight(high, k - 1, x),
           NEW id, Travelled(id), oss[k] = Block(id), PrintedAs(k, id), NEW i \in 1..4
    PROVE  Truth(i \in DOMAIN oss[k].ins /\ oss[k].ins[i] \in high)
            = IF i <= Len(States(heap[id].sons)) THEN States(heap[id].sons)[i].fn[x] ELSE 0
<1>1. /\ heap[id].sons \in Seq(Id) /\ DOMAIN oss[k].ins = DOMAIN heap[id].sons
      /\ \A j \in DOMAIN heap[id].sons : oss[k].ins[j] = heap[heap[id].sons[j]].name
    BY TravelledSons DEF PrintInv
<1>2. PICK n \in Nat : n = Len(heap[id].sons) /\ DOMAIN heap[id].sons = 1..n
    BY <1>1
<1>3. Len(States(heap[id].sons)) = n
    BY <1>2 DEF States
<1>4. i \in DOMAIN heap[id].sons <=> i <= n
    BY <1>2
<1>5. CASE i \notin DOMAIN heap[id].sons
    BY <1>1, <1>3, <1>4, <1>5 DEF Truth
<1>6. CASE i \in DOMAIN heap[id].sons
    <2>1. PICK son : son = heap[id].sons[i]
        OBVIOUS
    <2>2. Travelled(son)
        BY <1>6, <2>1, SonsTravelled DEF PrintInv
    <2>3. heap[son].leaf \/ \E j \in 1..(k - 1) : oss[j] = Block(son)
        BY <1>6, <2>1 DEF PrintedAs
    <2>4. heap[son].name \in high <=> heap[son].fn[x] = 1
        BY <2>2, <2>3 DEF ReadRight, Known
    <2>5. oss[k].ins[i] = heap[son].name /\ States(heap[id].sons)[i] = heap[son]
        BY <1>1, <1>6, <2>1 DEF States
    <2>6. heap[son].fn[x] = 0 \/ heap[son].fn[x] = 1
        BY <2>2, TravelledFacts DEF DpState, Bit, PrintInv
    <2>7. QED
        BY <1>1, <1>3, <1>4, <1>6, <2>4, <2>5, <2>6 DEF Truth
<1>7. QED
    BY <1>5, <1>6

\* One more block read: its output is known.
LEMMA BlockRead ==
    ASSUME PrintInv, UniqueDrivers, ~Saturated, NEW x \in Assign, NEW k \in DOMAIN oss,
           NEW high, ReadRight(high, k - 1, x)
    PROVE  ReadRight(Read(high, oss[k]), k, x)
<1>1. PICK id \in Id : Travelled(id) /\ ~heap[id].leaf /\ oss[k] = Block(id) /\ PrintedAs(k, id)
    BY BlockFacts
<1>2. k \in 1..Len(oss) /\ Len(oss) \in Nat /\ DOMAIN oss = 1..Len(oss)
      /\ (frames # <<>> \/ status = "ended")
    BY BlockFacts DEF PrintInv, PhaseInv
<1>3. HeapInv
    BY DEF PrintInv
<1>4. oss[k].out = heap[id].name /\ oss[k].cell = heap[id].cell
    BY <1>1, <1>3, TravelledSons
<1>5. Outs(k) = Outs(k - 1) \cup {oss[k].out}
    <2>1. \A j : j \in 1..k <=> j \in 1..(k - 1) \/ j = k
        BY <1>2
    <2>2. QED
        BY <2>1 DEF Outs
<1>6. oss[k].out \notin header.inputs \cup Outs(k - 1)
    <2>1. \A j \in 1..(k - 1) : j \in DOMAIN oss /\ j # k
        BY <1>2
    <2>2. QED
        BY <2>1 DEF UniqueDrivers, Outs
<1>7. oss[k].out \notin high
    BY <1>6 DEF ReadRight
<1> DEFINE in(i) == Truth(i \in DOMAIN oss[k].ins /\ oss[k].ins[i] \in high)
           st(i) == IF i <= Len(States(heap[id].sons)) THEN States(heap[id].sons)[i].fn[x] ELSE 0
<1>8. in(1) = st(1) /\ in(2) = st(2) /\ in(3) = st(3) /\ in(4) = st(4)
    <2>1. \A i \in 1..4 : in(i) = st(i)
        BY <1>1, InputRead
    <2> HIDE DEF in, st
    <2>2. QED
        BY <2>1
<1>9. heap[id].fn[x] = CellOut(heap[id].cell, st(1), st(2), st(3), st(4))
    BY <1>1, <1>3, DriveFacts DEF CellFn
<1>10. \A name : name \in Read(high, oss[k]) <=>
            \/ name \in high
            \/ name = oss[k].out /\ CellOut(oss[k].cell, in(1), in(2), in(3), in(4)) = 1
    BY DEF Read
<1> HIDE DEF in, st
<1>11. \A name : name \in Read(high, oss[k]) <=>
            name \in high \/ (name = oss[k].out /\ heap[id].fn[x] = 1)
    BY <1>4, <1>8, <1>9, <1>10
<1>12. Read(high, oss[k]) \subseteq header.inputs \cup Outs(k)
    BY <1>5, <1>11 DEF ReadRight
<1>13. ASSUME NEW b, Known(b, k)
       PROVE  heap[b].name \in Read(high, oss[k]) <=> heap[b].fn[x] = 1
    <2>1. CASE Known(b, k - 1)
        <3>1. heap[b].name \in header.inputs \cup Outs(k - 1)
            <4>1. Travelled(b) /\ (heap[b].leaf \/ \E j \in 1..(k - 1) : oss[j] = Block(b))
                BY <2>1 DEF Known
            <4>2. CASE heap[b].leaf
                BY <1>2, <4>1, <4>2, LeafInHeader
            <4>3. CASE \E j \in 1..(k - 1) : oss[j] = Block(b)
                <5>1. Block(b).out = heap[b].name
                    BY <1>3, <4>1, TravelledSons
                <5>2. QED
                    BY <4>3, <5>1 DEF Outs
            <4>4. QED
                BY <4>1, <4>2, <4>3
        <3>2. heap[b].name \in high <=> heap[b].fn[x] = 1
            BY <2>1 DEF ReadRight
        <3>3. QED
            BY <1>6, <1>11, <3>1, <3>2
    <2>2. CASE ~Known(b, k - 1)
        <3>1. Travelled(b) /\ oss[k] = Block(b)
            <4>1. \A j \in 1..k : j \in 1..(k - 1) \/ j = k
                BY <1>2
            <4>2. QED
                BY <1>13, <2>2, <4>1 DEF Known
        <3>2. heap[b].name = oss[k].out
            BY <1>3, <3>1, TravelledSons
        <3>3. b = id
            BY <1>1, <1>3, <1>4, <3>1, <3>2, SameName
        <3>4. QED
            BY <1>4, <1>7, <1>11, <3>3
    <2>3. QED
        BY <2>1, <2>2
<1>14. QED
    BY <1>12, <1>13 DEF ReadRight

\* Without overflow a node's first state drives what the node computes.
LEMMA OriDrives ==
    ASSUME HeapInv, ~Saturated, NEW n \in Node, Finished(n), NEW x \in Assign
    PROVE  heap[dp[n][0]].fn[x] = dag.fn[n][x] /\ dag.fn[n][x] \in Bit
<1>1. heap[dp[n][0]].fn[x] = Flip(dag.fn[n][x], 0) /\ dag.fn[n][x] \in Bit
    BY OverflowSaturates, FinishedStates, KindFacts DEF HeapInv
<1>2. QED
    BY <1>1 DEF Flip, Truth, Bit

\* The names of the inputs are those of the netlist.
LEMMA InputsPrinted ==
    ASSUME PrintInv, frames # <<>> \/ status = "ended"
    PROVE  /\ header.inputs = {<<n, "">> : n \in dag.leaf}
           /\ stack = <<>> /\ header = TheHeader
<1>1. HeapInv /\ stack = <<>> /\ header = TheHeader /\ \A n \in dag.leaf : Defined(n)
    BY DEF PrintInv, PhaseInv
<1>2. ASSUME NEW n \in dag.leaf
      PROVE  heap[dp[n][0]].name = <<n, "">>
    <2>1. n \in Node /\ Finished(n) /\ IsLeaf(n) /\ Shape(n) /\ Src(n) = <<>>
        BY <1>1 DEF HeapInv, NodesDone, IInv, TypeOK, WellFormed, Finished, Range, IsLeaf, Src
    <2>2. heap[dp[n][0]].leaf
        <3>1. Len(Src(n)) # 2
            BY <2>1
        <3>2. QED
            BY <2>1, <3>1 DEF Shape, SimpleShape
    <2>3. Travelled(dp[n][0]) /\ dp[n][0][1] = n
        BY <1>1, <2>1, EntriesReached, FinishedStates, KindFacts DEF HeapInv
    <2>4. QED
        BY <1>1, <2>2, <2>3, LeafFacts
<1>3. QED
    BY <1>1, <1>2 DEF TheHeader

\* Block by block, what has been read is right.
LEMMA ReadToTheEnd ==
    ASSUME PrintInv, UniqueDrivers, ~Saturated, status = "ended", NEW x \in Assign
    PROVE  ReadRight(High(x), Len(oss), x)
<1>1. HeapInv /\ Len(oss) \in Nat /\ DOMAIN oss = 1..Len(oss)
    BY DEF PrintInv, PhaseInv
<1>2. PICK f : Reading(f, Len(oss), x) /\ High(x) = f[Len(oss)]
    BY <1>1, HighInTheEnd
<1>3. \A k \in 0..Len(oss) : f[k] = IF k = 0 THEN {name \in header.inputs : dag.fn[name[1]][x] = 1}
                                    ELSE Read(f[k - 1], oss[k])
    BY <1>2 DEF Reading
<1> DEFINE T == {m \in Nat : m <= Len(oss) => ReadRight(f[m], m, x)}
<1>4. ReadRight(f[0], 0, x)
    <2>1. f[0] = {name \in header.inputs : dag.fn[name[1]][x] = 1}
        <3>1. 0 \in 0..Len(oss)
            BY <1>1
        <3>2. QED
            BY <1>3, <3>1
    <2>2. ASSUME NEW id, Known(id, 0)
          PROVE  heap[id].name \in f[0] <=> heap[id].fn[x] = 1
        <3>1. Travelled(id) /\ heap[id].leaf
            BY <2>2 DEF Known
        <3>2. id[1] \in Node /\ Finished(id[1]) /\ id = dp[id[1]][0] /\ heap[id].name = <<id[1], "">>
            BY <1>1, <3>1, LeafFacts DEF Travelled
        <3>3. heap[id].name \in header.inputs /\ heap[id].name[1] = id[1]
            <4>1. heap[id].name \in header.inputs
                BY <3>1, LeafInHeader
            <4>2. <<id[1], "">>[1] = id[1]
                OBVIOUS
            <4>3. QED
                BY <3>2, <4>1, <4>2
        <3>4. heap[id].fn[x] = dag.fn[id[1]][x]
            BY <1>1, <3>2, OriDrives
        <3>5. QED
            BY <2>1, <3>3, <3>4
    <2>3. QED
        BY <2>1, <2>2 DEF ReadRight
<1>5. ASSUME NEW m \in T \cap Nat
      PROVE  m + 1 \in T
    <2>1. m \in Nat /\ m + 1 \in Nat /\ (m <= Len(oss) => ReadRight(f[m], m, x))
        BY <1>5
    <2>2. ASSUME m + 1 <= Len(oss)
          PROVE  ReadRight(f[m + 1], m + 1, x)
        <3>1. /\ m + 1 \in DOMAIN oss /\ (m + 1) - 1 = m /\ m + 1 # 0 /\ m <= Len(oss)
              /\ m + 1 \in 0..Len(oss)
            BY <1>1, <2>1, <2>2
        <3>2. f[m + 1] = Read(f[m], oss[m + 1])
            BY <1>3, <3>1
        <3>3. PICK k \in DOMAIN oss : k = m + 1 /\ k - 1 = m
            BY <3>1
        <3>4. ReadRight(f[m], k - 1, x)
            BY <2>1, <3>1, <3>3
        <3>5. ReadRight(Read(f[m], oss[k]), k, x)
            BY <3>4, BlockRead
        <3>6. QED
            BY <3>2, <3>3, <3>5
    <2>3. QED
        BY <2>1, <2>2
<1>6. 0 \in T
    BY <1>4
<1> HIDE DEF T
<1>7. Nat \subseteq T
    BY <1>5, <1>6, NumberInduction
<1>8. QED
    BY <1>1, <1>2, <1>7 DEF T

\* The circuit read back from the whole text is the one asked for.
LEMMA PrintedIsWanted ==
    ASSUME PrintInv, OutputsNamed, UniqueDrivers, ~Saturated, status = "ended"
    PROVE  PrintedCircuit = NetlistCircuit(dag)
<1>1. HeapInv /\ Len(oss) \in Nat /\ DOMAIN oss = 1..Len(oss)
    BY DEF PrintInv, PhaseInv
<1>2. header.inputs = {<<n, "">> : n \in dag.leaf} /\ stack = <<>> /\ header = TheHeader
    BY InputsPrinted
<1>3. header.outputs = [i \in DOMAIN Src(Model) |-> heap[heap[Ori(Model)].sons[i]].name]
    BY <1>2 DEF TheHeader
<1>4. ASSUME NEW i \in DOMAIN Src(Model)
      PROVE  /\ header.outputs[i] = <<Src(Model)[i], "">>
             /\ Carried(header.outputs[i]) = dag.fn[Src(Model)[i]]
    <2>1. PICK n \in Node : n = Src(Model)[i] /\ Finished(n)
        BY <1>1, <1>2, ModelSons
    <2>2. PICK son : son = dp[n][0]
        OBVIOUS
    <2>3. heap[Ori(Model)].sons[i] = son
        BY <1>1, <1>2, <2>1, <2>2, ModelSons
    <2>4. header.outputs[i] = heap[son].name /\ heap[son].name = <<n, "">>
        BY <1>2, <1>3, <2>1, <2>2, <2>3 DEF OutputsNamed
    <2>5. Known(son, Len(oss))
        <3>1. Travelled(son)
            BY <1>1, <2>1, <2>2, EntriesReached, KindFacts
        <3>2. son \in visited
            <4>1. heap[Ori(Model)].sons = [j \in DOMAIN Src(Model) |-> dp[Src(Model)[j]][0]]
                BY <1>1, <1>2, ModelSons
            <4>2. son \in Range(heap[Ori(Model)].sons)
                BY <2>3, <4>1 DEF Range
            <4>3. QED
                BY <4>2 DEF PrintInv, EndInv
        <3>3. ~OnFrames(son)
            <4>1. Len(frames) = 0
                BY DEF PrintInv, PhaseInv
            <4>2. QED
                BY <4>1 DEF OnFrames
        <3>4. QED
            BY <1>1, <3>1, <3>2, <3>3 DEF Known, PrintInv, VisitedInv
    <2>6. ASSUME NEW x \in Assign
          PROVE  Truth(<<n, "">> \in High(x)) = dag.fn[n][x]
        <3>1. ReadRight(High(x), Len(oss), x)
            BY ReadToTheEnd
        <3>2. <<n, "">> \in High(x) <=> heap[son].fn[x] = 1
            BY <2>4, <2>5, <3>1 DEF ReadRight
        <3>3. heap[son].fn[x] = dag.fn[n][x] /\ dag.fn[n][x] \in Bit
            BY <1>1, <2>1, <2>2, OriDrives
        <3>4. QED
            BY <3>2, <3>3 DEF Truth, Bit
    <2>7. dag.fn[n] \in [Assign -> Bit]
        BY <1>1 DEF HeapInv, IInv, TypeOK, WellFormed
    <2>8. Carried(<<n, "">>) = dag.fn[n]
        BY <2>6, <2>7 DEF Carried
    <2>9. QED
        BY <2>1, <2>4, <2>8
<1>5. DOMAIN header.outputs = DOMAIN Src(Model)
    BY <1>3
<1> DEFINE outputs == [i \in DOMAIN Src(Model) |-> << <<Src(Model)[i], "">>, dag.fn[Src(Model)[i]] >>]
<1>6. PrintedCircuit = [inputs |-> {<<n, "">> : n \in dag.leaf}, outputs |-> outputs]
    BY <1>2, <1>4, <1>5 DEF PrintedCircuit, Circuit
<1>7. NetlistCircuit(dag) = [inputs |-> {<<n, "">> : n \in dag.leaf}, outputs |-> outputs]
    BY DEF NetlistCircuit, Circuit, Src
<1>8. QED
    BY <1>6, <1>7

-----------------------------------------------------------------------------
(* main implements the mapper's promise                                    *)

\* What is printed by then is what was asked for.
RightInTheEnd == status = "ended" => PrintedCircuit = NetlistCircuit(dag)

\* The text is complete once: nothing follows the end.
LEMMA EndedStays ==
    ASSUME PrintInv, [MainNext]_allVars
    PROVE  dag' = dag /\ (status = "ended" => status' = "ended")
<1>1. dag' = dag
    BY MainStepMaps, FinishedKept DEF PrintInv, HeapInv
<1>2. ASSUME status = "ended"
      PROVE  status' = "ended"
    <2>1. frames = <<>>
        BY <1>2 DEF PrintInv, PhaseInv
    <2>2. ~Crash /\ ~PrintHeader /\ ~SkipSon /\ ~TravelSon /\ ~PrintBlock /\ ~PrintEnd
        BY <1>2, <2>1 DEF Crash, PrintHeader, AtHeader, SkipSon, TravelSon, HasSon, PrintBlock, PrintEnd
    <2>3. Mapping \/ Stopped \/ UNCHANGED allVars
        BY <2>2 DEF MainNext, MainStep
    <2>4. QED
        BY <1>2, <2>3 DEF Mapping, Stopped, allVars, evars
<1>3. QED
    BY <1>1, <1>2

\* A netlist asks for a circuit over the names that can be printed.
LEMMA WantedType ==
    ASSUME WellFormed(dag)
    PROVE  NetlistCircuit(dag) \in [inputs : SUBSET (Vertex \X Tag),
                                    outputs : Seq((Vertex \X Tag) \X [Assign -> Bit])]
<1>1. /\ dag.leaf \subseteq Vertex /\ "" \in Tag
      /\ \A i \in DOMAIN Src(Model) : Src(Model)[i] \in Node /\ Src(Model)[i] \in Vertex
      /\ dag.fn \in [Node -> [Assign -> Bit]]
    BY NetlistFacts DEF WellFormed, Vertex, Tag
<1>2. PICK n \in Nat : DOMAIN Src(Model) = 1..n
    <2>1. Src(Model) \in Seq(Node)
        BY NetlistFacts DEF Vertex
    <2>2. QED
        BY <2>1
<1> DEFINE outputs == [i \in 1..n |-> << <<Src(Model)[i], "">>, dag.fn[Src(Model)[i]] >>]
           inputs == {<<m, "">> : m \in dag.leaf}
<1>3. \A i \in 1..n : outputs[i] \in (Vertex \X Tag) \X [Assign -> Bit]
    BY <1>1, <1>2
<1>4. outputs \in Seq((Vertex \X Tag) \X [Assign -> Bit])
    <2> HIDE DEF outputs
    <2>1. \A S : \A f \in [1..n -> S] : f \in Seq(S)
        BY <1>2
    <2>2. outputs = [i \in 1..n |-> outputs[i]]
        BY DEF outputs
    <2>3. QED
        BY <1>3, <2>1, <2>2
<1>5. inputs \in SUBSET (Vertex \X Tag)
    <2>1. \A m \in dag.leaf : <<m, "">> \in Vertex \X Tag
        BY <1>1
    <2>2. QED
        BY <2>1
<1>6. NetlistCircuit(dag) = [inputs |-> inputs, outputs |-> outputs]
    BY <1>2 DEF NetlistCircuit, Circuit, Src
<1> HIDE DEF inputs, outputs
<1>7. QED
    BY <1>4, <1>5, <1>6

(***************************************************************************)
(* The mapper does what it is for: as long as no cost reaches the largest  *)
(* long double, main prints, in one piece, a circuit with the inputs, the  *)
(* outputs and the output functions of the netlist that it read, whatever  *)
(* the netlist.  Read back by name, the blocks drive what DFS computed.    *)
(***************************************************************************)
THEOREM MapperKeepsItsPromise == MainSpec /\ []~Saturated => PrintsWhatItRead
<1>1. MainInit => Abstract!MCInit
    <2> SUFFICES ASSUME MainInit PROVE Abstract!MCInit
        OBVIOUS
    <2>1. WellFormed(dag) /\ status = "running"
        BY NetlistsAssumption DEF MainInit, Init
    <2>2. QED
        BY <2>1, WantedType DEF Abstract!MCInit
<1>2. ASSUME PrintInv, RightInTheEnd, RightInTheEnd', [MainNext]_allVars
      PROVE  [Abstract!Deliver]_(Abstract!mcvars)
    <2>1. dag' = dag /\ (status = "ended" => status' = "ended")
        BY <1>2, EndedStays
    <2>2. NetlistCircuit(dag') = NetlistCircuit(dag)
        BY <2>1
    <2>3. status = "ended" => PrintedCircuit = NetlistCircuit(dag)
        BY <1>2 DEF RightInTheEnd
    <2>4. status' = "ended" => PrintedCircuit' = NetlistCircuit(dag)
        BY <1>2, <2>2 DEF RightInTheEnd
    <2>5. QED
        BY <2>1, <2>2, <2>3, <2>4 DEF Abstract!Deliver, Abstract!mcvars
<1>3. PrintInv /\ OutputsNamed /\ (Saturated \/ UniqueDrivers) /\ ~Saturated => RightInTheEnd
    BY PrintedIsWanted DEF RightInTheEnd
<1>4. PrintInv /\ RightInTheEnd /\ RightInTheEnd' /\ [MainNext]_allVars
        => [Abstract!Deliver]_(Abstract!mcvars)
    BY <1>2
<1>5. QED
    BY <1>1, <1>3, <1>4, DriversAreUnique, PrintInvariance, MainNames, PTL
    DEF MainSpec, PrintsWhatItRead, Abstract!Safety

-----------------------------------------------------------------------------
(* A swallowed gate is printed only where it is read                       *)

\* A gate that can be absorbed is the source of one gate, in one place.
LEMMA OneUse ==
    ASSUME WellFormed(dag), NEW q, Absorbable(q),
           NEW p \in Node, NEW i \in DOMAIN Src(p), Src(p)[i] = q,
           NEW r \in Node, NEW j \in DOMAIN Src(r), Src(r)[j] = q
    PROVE  p = r /\ i = j
<1> DEFINE Edges == {e \in Node \X {1, 2} : e[2] \in DOMAIN dag.src[e[1]] /\ dag.src[e[1]][e[2]] = q}
<1>1. IsFiniteSet(Edges)
    <2>1. IsFiniteSet({1, 2})
        <3>1. IsFiniteSet({1})
            BY FS_Singleton
        <3>2. IsFiniteSet({1} \cup {2})
            BY <3>1, FS_AddElement
        <3>3. {1} \cup {2} = {1, 2}
            OBVIOUS
        <3>4. QED
            BY <3>2, <3>3
    <2>2. IsFiniteSet(Node \X {1, 2})
        BY <2>1, FS_Product, ConstantsAssumption
    <2>3. Edges \subseteq Node \X {1, 2}
        OBVIOUS
    <2>4. QED
        BY <2>2, <2>3, FS_Subset
<1>2. Cardinality(Edges) = 1
    BY DEF Absorbable, FanOut, Uses
<1>3. i \in {1, 2} /\ j \in {1, 2}
    <2>1. ASSUME NEW n \in Node
          PROVE  DOMAIN Src(n) \subseteq {1, 2}
        <3>1. Src(n) \in Seq(Node) /\ Len(Src(n)) \in 0..2
            BY NetlistFacts
        <3>2. QED
            BY <3>1
    <2>2. QED
        BY <2>1
<1>4. <<p, i>> \in Edges /\ <<r, j>> \in Edges
    BY <1>3 DEF Src
<1> HIDE DEF Edges
<1>5. PICK x : Edges = {x}
    BY <1>1, <1>2, FS_Singleton
<1>6. <<p, i>> = <<r, j>>
    BY <1>4, <1>5
<1>7. QED
    BY <1>6

\* Whether the cell of a state computes its node's m-th source as well.
Inside(id, m) ==
    \/ heap[id].cell \in {"AOI21", "AOI22"} /\ m = 1
    \/ heap[id].cell \in {"AOI12", "AOI22"} /\ m = 2

\* An AOI cell is what a pass found, on the sources of the gates inside it.
LEMMA InsideFacts ==
    ASSUME HeapInv, NEW p \in Node, Finished(p), NEW id \in Id, id[1] = p,
           heap[id].cell \in {"AOI21", "AOI12", "AOI22"}
    PROVE  /\ Len(Src(p)) = 2 /\ id[2] \in Bit
           /\ heap[id].cell = "AOI21" => ~Vacant(heap[<<p, id[2], "aoi21">>]) /\ id = <<p, id[2], "aoi21">>
           /\ heap[id].cell = "AOI12" => ~Vacant(heap[<<p, id[2], "aoi12">>]) /\ id = <<p, id[2], "aoi12">>
           /\ heap[id].cell = "AOI22" => ~Vacant(heap[<<p, id[2], "aoi22">>]) /\ id = <<p, id[2], "aoi22">>
           /\ \A m \in {1, 2} : Inside(id, m) => Absorbable(Src(p)[m])
<1>1. /\ Shape(p) /\ id = <<p, id[2], id[3]>> /\ id[2] \in Bit /\ id[3] \in Kind
    BY IdFacts DEF HeapInv, NodesDone
<1>2. ~Vacant(heap[id])
    BY DEF Vacant
<1>3. Len(Src(p)) = 2
    <2>1. SUFFICES ASSUME Len(Src(p)) # 2 PROVE FALSE
        OBVIOUS
    <2>2. SimpleShape(p)
        BY <1>1, <2>1 DEF Shape
    <2>3. id = Ori(p) \/ id = Inv(p)
        BY <1>1, <1>2, <2>2, KindFacts DEF SimpleShape, Ori, Inv
    <2>4. heap[id].cell \in {"UNDEFINED", "ONE", "ZERO", "SAME", "INV"}
        BY <2>2, <2>3 DEF SimpleShape
    <2>5. QED
        BY <2>4
<1>4. PICK v \in Bit : v = id[2]
    BY <1>1
<1>5. PassShape(p, v) /\ GateShape(p)
    BY <1>1, <1>3 DEF Shape, GateShape
<1>6. id[3] \in {"aoi21", "aoi12", "aoi22"}
    <2>1. heap[<<p, v, "head">>].cell = "INV"
        <3>1. PICK k, l \in Kind : HeadShape(p, k, l)
            BY <1>5 DEF GateShape
        <3>2. QED
            BY <3>1, KindFacts DEF HeadShape
    <2>2. heap[<<p, v, "t1">>].cell \in {"NAND2", "NOR2"}
        BY <1>3, ChosenCell
    <2>3. heap[<<p, v, "t2">>].cell = "INV" \/ Vacant(heap[<<p, v, "t2">>])
        BY <1>5 DEF PassShape, BaseShape
    <2>4. Vacant(heap[<<p, v, "dp">>])
        BY <1>5 DEF PassShape
    <2>5. /\ id[3] = "head" => heap[id].cell = "INV"
          /\ id[3] = "t1"   => heap[id].cell \in {"NAND2", "NOR2"}
          /\ id[3] = "t2"   => heap[id].cell = "INV" \/ Vacant(heap[id])
          /\ id[3] = "dp"   => Vacant(heap[id])
        BY <1>1, <1>4, <2>1, <2>2, <2>3, <2>4
    <2>6. QED
        BY <1>1, <1>2, <2>5, KindFacts
<1>7. /\ id[3] = "aoi21" => Absorbable(Src(p)[1]) /\ heap[id].cell = "AOI21"
      /\ id[3] = "aoi12" => Absorbable(Src(p)[2]) /\ heap[id].cell = "AOI12"
      /\ id[3] = "aoi22" => Absorbable(Src(p)[1]) /\ Absorbable(Src(p)[2]) /\ heap[id].cell = "AOI22"
    <2>1. AOI21Shape(p, v) /\ AOI12Shape(p, v) /\ AOI22Shape(p, v)
        BY <1>5 DEF PassShape
    <2>2. id[3] = "aoi21" => id = <<p, v, "aoi21">>
        BY <1>1, <1>4
    <2>3. id[3] = "aoi12" => id = <<p, v, "aoi12">>
        BY <1>1, <1>4
    <2>4. id[3] = "aoi22" => id = <<p, v, "aoi22">>
        BY <1>1, <1>4
    <2>5. QED
        BY <1>2, <2>1, <2>2, <2>3, <2>4 DEF AOI21Shape, AOI12Shape, AOI22Shape
<1>8. \A m \in {1, 2} : Inside(id, m) => Absorbable(Src(p)[m])
    BY <1>6, <1>7 DEF Inside
<1>9. QED
    BY <1>1, <1>2, <1>3, <1>6, <1>7, <1>8

\* A son of another node belongs to a source, or to a source of a source inside the cell.
LEMMA SonsElsewhere ==
    ASSUME HeapInv, NEW id, Travelled(id), NEW i \in DOMAIN heap[id].sons,
           NEW p, p = id[1], NEW n, n = heap[id].sons[i][1], n # p
    PROVE  \E m \in DOMAIN Src(p) :
              \/ ~Inside(id, m) /\ n = Src(p)[m]
              \/ Inside(id, m) /\ \E l \in DOMAIN Src(Src(p)[m]) : n = Src(Src(p)[m])[l]
<1>1. /\ id \in Id /\ p \in Node /\ p \in Vertex /\ Finished(p) /\ Shape(p)
      /\ id = <<p, id[2], id[3]>> /\ id[2] \in Bit /\ id[3] \in Kind
    BY IdFacts DEF Travelled, HeapInv, NodesDone, Vertex
<1>2. IInv /\ WellFormed(dag)
    BY DEF HeapInv, IInv, TypeOK
<1>3. \A j \in DOMAIN Src(p) : Finished(Src(p)[j])
    BY <1>1, <1>2 DEF IInv, SourcesFinished
<1>4. /\ \A j \in DOMAIN Src(p) : Below(Src(p)[j], p)
      /\ Len(Src(p)) = 1 => 1 \in DOMAIN Src(p)
      /\ Len(Src(p)) = 2 => 1 \in DOMAIN Src(p) /\ 2 \in DOMAIN Src(p)
    BY <1>1, <1>2, <1>3, SourcesBelow
<1>5. ASSUME NEW j \in DOMAIN Src(p), Absorbable(Src(p)[j])
      PROVE  /\ 1 \in DOMAIN Src(Src(p)[j]) /\ 2 \in DOMAIN Src(Src(p)[j])
             /\ Below(Src(Src(p)[j])[1], p) /\ Below(Src(Src(p)[j])[2], p)
    <2>1. Src(p)[j] \in Node /\ Finished(Src(p)[j])
        BY <1>4 DEF Below
    <2>2. Len(Src(Src(p)[j])) = 2 /\ \A m \in DOMAIN Src(Src(p)[j]) : Finished(Src(Src(p)[j])[m])
        BY <1>2, <1>5, <2>1, AbsorbableFacts
    <2>3. 1 \in DOMAIN Src(Src(p)[j]) /\ 2 \in DOMAIN Src(Src(p)[j])
        BY <1>2, <2>1, <2>2, SourcesBelow
    <2>4. Below(Src(Src(p)[j])[1], p) /\ Below(Src(Src(p)[j])[2], p)
        BY <1>1, <1>2, <1>3, <1>5, SourcesBelow
    <2>5. QED
        BY <2>3, <2>4
<1>6. \A m : Below(m, p) => \A w \in Bit : dp[m][w][1] = m
    BY <1>2, FinishedStates DEF Below
<1>7. CASE Len(Src(p)) # 2
    <2>1. SimpleShape(p) /\ heap[id].cell \notin {"AOI21", "AOI12", "AOI22"}
        BY <1>1, <1>7, InsideFacts DEF Shape
    <2>2. \A m : ~Inside(id, m)
        BY <2>1 DEF Inside
    <2>3. id = Ori(p)
        <3>1. id = Ori(p) \/ id = Inv(p) \/ heap[id].sons = <<>>
            BY <1>1, <2>1, KindFacts DEF SimpleShape, Ori, Inv, Vacant
        <3>2. id = Inv(p) => heap[id].sons = <<Ori(p)>> \/ heap[id].sons = <<>>
            BY <2>1 DEF SimpleShape
        <3>3. heap[id].sons # <<>> /\ heap[id].sons # <<Ori(p)>>
            BY ShortSequences DEF Ori
        <3>4. QED
            BY <3>1, <3>2, <3>3
    <2>4. PICK w \in Bit : Len(Src(p)) = 1 /\ heap[id].sons = <<dp[Src(p)[1]][w]>>
        <3>1. heap[Ori(p)].sons # <<>> /\ heap[id] = heap[Ori(p)]
            BY <2>3, ShortSequences
        <3>2. Len(Src(p)) = 1 /\ \E w \in Bit : heap[Ori(p)].sons = <<dp[Src(p)[1]][w]>>
            BY <2>1, <3>1 DEF SimpleShape
        <3>3. QED
            BY <3>1, <3>2
    <2>5. n = Src(p)[1] /\ 1 \in DOMAIN Src(p)
        BY <1>4, <1>6, <2>4, ShortSequences
    <2>6. QED
        BY <2>2, <2>5
<1>8. CASE Len(Src(p)) = 2
    <2>1. PICK v \in Bit : v = id[2] /\ PassShape(p, v)
        BY <1>1, <1>8 DEF Shape, GateShape
    <2>2. 1 \in DOMAIN Src(p) /\ 2 \in DOMAIN Src(p) /\ Below(Src(p)[1], p) /\ Below(Src(p)[2], p)
        BY <1>4, <1>8
    <2>3. CASE id[3] \in {"head", "t2", "dp"}
        <3>1. id[3] = "head" => heap[id].sons[i][1] = p
            <4>1. ASSUME id[3] = "head"
                  PROVE  \E k : heap[id].sons = << <<p, 1 - v, k>> >>
                <5>1. PICK k, l \in Kind : HeadShape(p, k, l)
                    BY <1>1, <1>8 DEF Shape, GateShape
                <5>2. (id = <<p, 0, "head">> /\ v = 0) \/ (id = <<p, 1, "head">> /\ v = 1)
                    BY <1>1, <2>1, <4>1, KindFacts
                <5>3. \/ heap[id].sons = << <<p, 1, l>> >> /\ v = 0
                      \/ heap[id].sons = << <<p, 0, k>> >> /\ v = 1
                    BY <5>1, <5>2 DEF HeadShape
                <5>4. QED
                    BY <5>3
            <4>2. QED
                BY <4>1, ShortSequences
        <3>2. id[3] = "t2" => heap[id].sons[i][1] = p
            <4>1. ASSUME id[3] = "t2"
                  PROVE  heap[id].sons = << <<p, v, "t1">> >> \/ heap[id].sons = <<>>
                BY <1>1, <2>1, <4>1 DEF PassShape, BaseShape, Vacant
            <4>2. QED
                BY <4>1, ShortSequences
        <3>3. id[3] = "dp" => heap[id].sons = <<>>
            BY <1>1, <2>1 DEF PassShape, Vacant
        <3>4. QED
            BY <2>3, <3>1, <3>2, <3>3, ShortSequences
    <2>4. CASE id[3] = "t1"
        <3>1. heap[id].cell \notin {"AOI21", "AOI12", "AOI22"}
            BY <1>1, <2>4, InsideFacts
        <3>2. \A m : ~Inside(id, m)
            BY <3>1 DEF Inside
        <3>3. Base(p, v).ia \in Bit /\ Base(p, v).ib \in Bit
            BY <1>1, <1>2, NetlistFacts, BaseCoverCorrect DEF Base
        <3>4. heap[id].sons = <<dp[Src(p)[1]][Base(p, v).ia], dp[Src(p)[2]][Base(p, v).ib]>>
            BY <1>1, <2>1, <2>4 DEF PassShape, BaseShape
        <3>5. n = Src(p)[1] \/ n = Src(p)[2]
            BY <1>6, <2>2, <3>3, <3>4, ShortSequences
        <3>6. QED
            BY <2>2, <3>2, <3>5
    <2>5. CASE id[3] = "aoi21"
        <3>1. AOI21Shape(p, v) /\ heap[id] = heap[<<p, v, "aoi21">>] /\ heap[id].sons # <<>>
            BY <1>1, <2>1, <2>5, ShortSequences DEF PassShape
        <3>2. /\ Absorbable(Src(p)[1]) /\ heap[id].cell = "AOI21"
              /\ \E j \in AOI21Inv(dag.gate[p], dag.gate[Src(p)[1]], v) : heap[id].sons =
                            <<dp[Src(Src(p)[1])[1]][j[1]], dp[Src(Src(p)[1])[2]][j[2]], dp[Src(p)[2]][j[3]]>>
            BY <3>1 DEF AOI21Shape, Vacant
        <3>3. PICK j : /\ j[1] \in Bit /\ j[2] \in Bit /\ j[3] \in Bit
                       /\ heap[id].sons =
                            <<dp[Src(Src(p)[1])[1]][j[1]], dp[Src(Src(p)[1])[2]][j[2]], dp[Src(p)[2]][j[3]]>>
            BY <3>2 DEF AOI21Inv
        <3>4. n = Src(Src(p)[1])[1] \/ n = Src(Src(p)[1])[2] \/ n = Src(p)[2]
            BY <1>5, <1>6, <2>2, <3>2, <3>3, ShortSequences
        <3>5. Inside(id, 1) /\ ~Inside(id, 2)
            BY <3>2 DEF Inside
        <3>6. QED
            BY <1>5, <2>2, <3>2, <3>4, <3>5
    <2>6. CASE id[3] = "aoi12"
        <3>1. AOI12Shape(p, v) /\ heap[id] = heap[<<p, v, "aoi12">>] /\ heap[id].sons # <<>>
            BY <1>1, <2>1, <2>6, ShortSequences DEF PassShape
        <3>2. /\ Absorbable(Src(p)[2]) /\ heap[id].cell = "AOI12"
              /\ \E j \in AOI12Inv(dag.gate[p], dag.gate[Src(p)[2]], v) : heap[id].sons =
                            <<dp[Src(p)[1]][j[1]], dp[Src(Src(p)[2])[1]][j[2]], dp[Src(Src(p)[2])[2]][j[3]]>>
            BY <3>1 DEF AOI12Shape, Vacant
        <3>3. PICK j : /\ j[1] \in Bit /\ j[2] \in Bit /\ j[3] \in Bit
                       /\ heap[id].sons =
                            <<dp[Src(p)[1]][j[1]], dp[Src(Src(p)[2])[1]][j[2]], dp[Src(Src(p)[2])[2]][j[3]]>>
            BY <3>2 DEF AOI12Inv
        <3>4. n = Src(Src(p)[2])[1] \/ n = Src(Src(p)[2])[2] \/ n = Src(p)[1]
            BY <1>5, <1>6, <2>2, <3>2, <3>3, ShortSequences
        <3>5. Inside(id, 2) /\ ~Inside(id, 1)
            BY <3>2 DEF Inside
        <3>6. QED
            BY <1>5, <2>2, <3>2, <3>4, <3>5
    <2>7. CASE id[3] = "aoi22"
        <3>1. AOI22Shape(p, v) /\ heap[id] = heap[<<p, v, "aoi22">>] /\ heap[id].sons # <<>>
            BY <1>1, <2>1, <2>7, ShortSequences DEF PassShape
        <3>2. /\ Absorbable(Src(p)[1]) /\ Absorbable(Src(p)[2]) /\ heap[id].cell = "AOI22"
              /\ \E j \in AOI22Inv(dag.gate[p], dag.gate[Src(p)[1]], dag.gate[Src(p)[2]], v) :
                   heap[id].sons = <<dp[Src(Src(p)[1])[1]][j[1]], dp[Src(Src(p)[1])[2]][j[2]],
                                     dp[Src(Src(p)[2])[1]][j[3]], dp[Src(Src(p)[2])[2]][j[4]]>>
            BY <3>1 DEF AOI22Shape, Vacant
        <3>3. PICK j : /\ j[1] \in Bit /\ j[2] \in Bit /\ j[3] \in Bit /\ j[4] \in Bit
                       /\ heap[id].sons = <<dp[Src(Src(p)[1])[1]][j[1]], dp[Src(Src(p)[1])[2]][j[2]],
                                            dp[Src(Src(p)[2])[1]][j[3]], dp[Src(Src(p)[2])[2]][j[4]]>>
            BY <3>2 DEF AOI22Inv
        <3>4. \/ n = Src(Src(p)[1])[1] \/ n = Src(Src(p)[1])[2]
              \/ n = Src(Src(p)[2])[1] \/ n = Src(Src(p)[2])[2]
            BY <1>5, <1>6, <2>2, <3>2, <3>3, ShortSequences
        <3>5. Inside(id, 1) /\ Inside(id, 2)
            BY <3>2 DEF Inside
        <3>6. QED
            BY <1>5, <2>2, <3>2, <3>4, <3>5
    <2>8. QED
        BY <1>1, <2>3, <2>4, <2>5, <2>6, <2>7, KindFacts
<1>9. QED
    BY <1>7, <1>8

\* A visited state is the son of a higher state of its node, or of another node's.
LEMMA UserAbove ==
    ASSUME PrintInv, NEW id \in visited
    PROVE  \E up \in visited \cup {Ori(Model)} :
              /\ id \in Range(heap[up].sons)
              /\ up[1] = id[1] => up \in visited /\ Level(id) < Level(up)
<1>1. PICK up \in visited \cup {Ori(Model)} : id \in Range(heap[up].sons)
    BY DEF PrintInv, VisitedInv, HasUser
<1>2. Travelled(id) /\ id[1] \in Node
    BY DEF PrintInv, VisitedInv, Travelled
<1>3. ASSUME up[1] = id[1]
      PROVE  up \in visited /\ Level(id) < Level(up)
    <2>1. Ori(Model)[1] = Model /\ Model \notin Node
        BY ConstantFacts DEF Ori
    <2>2. up \in visited /\ Travelled(up)
        BY <1>2, <1>3, <2>1 DEF PrintInv, VisitedInv
    <2>3. Lower(id, up)
        BY <1>1, <2>2, SonsTravelled DEF Range, PrintInv
    <2>4. dag.rank[id[1]] \in Nat
        BY <1>2, NetlistFacts DEF PrintInv, HeapInv, IInv, TypeOK
    <2>5. QED
        BY <1>3, <2>2, <2>3, <2>4 DEF Lower
<1>4. QED
    BY <1>1, <1>3

\* Some visited state of its node is the son of another node's state, or of the model's.
LEMMA UserElsewhere ==
    ASSUME PrintInv, NEW id \in visited
    PROVE  \E s \in visited, up \in visited \cup {Ori(Model)} :
              s[1] = id[1] /\ up[1] # id[1] /\ s \in Range(heap[up].sons)
<1>1. \A s \in visited : Level(s) \in Nat /\ Level(s) <= 2
    <2>1. \A s \in visited : s \in Id
        BY DEF PrintInv, PhaseInv
    <2>2. QED
        BY <2>1, LevelType, IdFacts, KindFacts DEF Level
<1>2. PICK s1 \in visited \cup {Ori(Model)} :
          id \in Range(heap[s1].sons) /\ (s1[1] = id[1] => s1 \in visited /\ Level(id) < Level(s1))
    BY UserAbove
<1>3. CASE s1[1] # id[1]
    BY <1>2, <1>3
<1>4. CASE s1[1] = id[1]
    <2>1. s1 \in visited /\ Level(s1) >= 1
        BY <1>1, <1>2, <1>4
    <2>2. PICK s2 \in visited \cup {Ori(Model)} :
              s1 \in Range(heap[s2].sons) /\ (s2[1] = s1[1] => s2 \in visited /\ Level(s1) < Level(s2))
        BY <2>1, UserAbove
    <2>3. CASE s2[1] # id[1]
        BY <1>4, <2>1, <2>2, <2>3
    <2>4. CASE s2[1] = id[1]
        <3>1. s2 \in visited /\ Level(s2) >= 2
            BY <1>1, <1>4, <2>1, <2>2, <2>4
        <3>2. PICK s3 \in visited \cup {Ori(Model)} :
                  s2 \in Range(heap[s3].sons) /\ (s3[1] = s2[1] => s3 \in visited /\ Level(s2) < Level(s3))
            BY <3>1, UserAbove
        <3>3. s3[1] # s2[1]
            BY <1>1, <3>1, <3>2
        <3>4. QED
            BY <2>4, <3>1, <3>2, <3>3
    <2>5. QED
        BY <2>3, <2>4
<1>5. QED
    BY <1>3, <1>4

\* The first part of a travelled state's name is its node.
LEMMA NamedAfterNode ==
    ASSUME HeapInv, ~Saturated, NEW id, Travelled(id)
    PROVE  heap[id].name[1] = id[1]
<1>1. PICK tag : heap[id].name = <<id[1], tag>>
    BY TravelledName
<1>2. QED
    BY <1>1

\* What a block swallows is inside the cell of its state.
LEMMA SwallowsInside ==
    ASSUME HeapInv, ~Saturated, NEW id, Travelled(id), NEW q
    PROVE  Swallows(Block(id), q) <=> \E m \in {1, 2} : Inside(id, m) /\ q = Src(id[1])[m]
<1>1. Block(id).cell = heap[id].cell /\ Block(id).out[1] = id[1]
    BY TravelledSons, NamedAfterNode
<1>2. QED
    BY <1>1 DEF Swallows, Inside

(***************************************************************************)
(* A gate swallowed by an AOI cell is printed only if it is an output, or  *)
(* if the one gate that uses it has another block which reads it, or is    *)
(* itself swallowed by one that does.                                      *)
(***************************************************************************)
THEOREM SwallowedGates == MainSpec => [](Saturated \/ AbsorbedOnlyIfRead)
<1>1. PrintInv => Saturated \/ AbsorbedOnlyIfRead
    <2> SUFFICES ASSUME PrintInv, ~Saturated, status = "ended",
                        NEW i \in DOMAIN oss, NEW j \in DOMAIN oss,
                        NEW q, q = oss[j].out[1], Swallows(oss[i], q)
                 PROVE  \/ q \in Range(Src(Model))
                        \/ \E k \in DOMAIN oss \ {i} :
                            /\ oss[k].out[1] = oss[i].out[1] \/ Swallows(oss[k], oss[i].out[1])
                            /\ \E m \in DOMAIN oss[k].ins : oss[k].ins[m][1] = q
        BY DEF AbsorbedOnlyIfRead
    <2>1. HeapInv /\ WellFormed(dag) /\ stack = <<>> /\ \A id : ~OnFrames(id)
        <3>1. Len(frames) = 0 /\ stack = <<>>
            BY DEF PrintInv, PhaseInv
        <3>2. QED
            BY <3>1 DEF PrintInv, HeapInv, IInv, TypeOK, OnFrames
    <2>2. PICK a \in Id : Travelled(a) /\ oss[i] = Block(a)
        BY BlockFacts
    <2>3. PICK b \in visited : Travelled(b) /\ oss[j] = Block(b)
        BY BlockFacts DEF PrintedAs
    <2>4. PICK p \in Node : p = a[1] /\ Finished(p) /\ p = oss[i].out[1]
        BY <2>1, <2>2, TravelledSons, NamedAfterNode DEF Travelled
    <2>5. q = b[1] /\ q \in Node
        BY <2>1, <2>3, TravelledSons, NamedAfterNode DEF Travelled
    <2>6. PICK n \in {1, 2} : Inside(a, n) /\ q = Src(p)[n]
        <3>1. Swallows(Block(a), q)
            BY <2>2
        <3>2. \E m \in {1, 2} : Inside(a, m) /\ q = Src(a[1])[m]
            BY <2>1, <2>2, <3>1, SwallowsInside
        <3>3. QED
            BY <2>4, <3>2
    <2>7. n \in DOMAIN Src(p) /\ Absorbable(q)
        <3>1. Len(Src(p)) = 2 /\ Absorbable(q)
            BY <2>1, <2>4, <2>6, InsideFacts DEF Inside
        <3>2. Src(p) \in Seq(Node)
            BY <2>1, NetlistFacts
        <3>3. QED
            BY <3>1, <3>2
    <2>8. PICK s \in visited, up \in visited \cup {Ori(Model)} :
              s[1] = q /\ up[1] # q /\ s \in Range(heap[up].sons)
        BY <2>3, <2>5, UserElsewhere
    <2>9. Travelled(s) /\ heap[s].name[1] = q
        BY <2>1, <2>8, NamedAfterNode DEF PrintInv, VisitedInv
    <2>10. PICK m \in DOMAIN heap[up].sons : s = heap[up].sons[m]
        BY <2>8 DEF Range
    <2>11. CASE up = Ori(Model)
        <3>1. m \in DOMAIN Src(Model) /\ s = dp[Src(Model)[m]][0]
              /\ Src(Model)[m] \in Node /\ Finished(Src(Model)[m])
            BY <2>1, <2>10, <2>11, ModelSons
        <3>2. s[1] = Src(Model)[m]
            BY <2>1, <3>1, FinishedStates, KindFacts DEF HeapInv
        <3>3. QED
            BY <2>8, <3>1, <3>2 DEF Range
    <2>12. CASE up \in visited
        <3>1. Travelled(up) /\ ~heap[up].leaf
            <4>1. Travelled(up)
                BY <2>12 DEF PrintInv, VisitedInv
            <4>2. QED
                BY <2>1, <2>10, <4>1, LeafFacts, ShortSequences
        <3>2. PICK k \in DOMAIN oss : oss[k] = Block(up)
            BY <2>1, <2>12, <3>1 DEF PrintInv, VisitedInv
        <3>3. PICK r \in Node : r = up[1] /\ r = oss[k].out[1] /\ r # q
            BY <2>1, <2>8, <3>1, <3>2, TravelledSons, NamedAfterNode DEF Travelled
        <3>4. m \in DOMAIN oss[k].ins /\ oss[k].ins[m][1] = q
            BY <2>1, <2>9, <2>10, <3>1, <3>2, TravelledSons
        <3>5. PICK l \in DOMAIN Src(r) :
                \/ ~Inside(up, l) /\ q = Src(r)[l]
                \/ Inside(up, l) /\ \E h \in DOMAIN Src(Src(r)[l]) : q = Src(Src(r)[l])[h]
            <4>1. q = heap[up].sons[m][1]
                BY <2>8, <2>10
            <4>2. HeapInv /\ Travelled(up) /\ m \in DOMAIN heap[up].sons /\ r = up[1] /\ q # r
                BY <2>1, <2>10, <3>1, <3>3
            <4>3. QED
                BY <4>1, <4>2, SonsElsewhere
        <3>6. CASE ~Inside(up, l) /\ q = Src(r)[l]
            <4>1. r = p /\ l = n
                BY <2>1, <2>6, <2>7, <3>6, OneUse
            <4>2. heap[up].cell # heap[a].cell
                BY <2>6, <3>6, <4>1 DEF Inside
            <4>3. k # i
                BY <2>1, <2>2, <3>1, <3>2, <4>2, TravelledSons
            <4>4. QED
                BY <2>4, <3>3, <3>4, <4>1, <4>3
        <3>7. CASE Inside(up, l) /\ \E h \in DOMAIN Src(Src(r)[l]) : q = Src(Src(r)[l])[h]
            <4>1. Src(r)[l] \in Node /\ dag.rank[Src(r)[l]] < dag.rank[r] /\ dag.rank[r] \in Nat
                BY <2>1, NetlistFacts
            <4>2. Src(r)[l] = p
                BY <2>1, <2>6, <2>7, <3>7, <4>1, OneUse
            <4>3. Swallows(oss[k], p)
                <5>1. l \in {1, 2}
                    BY <3>7 DEF Inside
                <5>2. QED
                    BY <2>1, <3>1, <3>2, <3>3, <3>7, <4>2, <5>1, SwallowsInside
            <4>4. k # i
                BY <2>4, <3>3, <4>1, <4>2
            <4>5. QED
                BY <2>4, <3>4, <4>3, <4>4
        <3>8. QED
            BY <3>5, <3>6, <3>7
    <2>13. QED
        BY <2>11, <2>12
<1>2. QED
    BY <1>1, PrintInvariance, PTL

-----------------------------------------------------------------------------
(* What main reports                                                       *)

\* A depth has gone past the largest int64_t.
Wrapped == \E id \in Id : heap[id].cell \notin {"NONE", "UNDEFINED"} /\ heap[id].depth < 0

\* A figure has left the range of its type; the model's is a sum, set when DFS has returned.
OutOfRange == Saturated \/ Wrapped \/ (stack = <<>> /\ heap[Ori(Model)].cost >= CostMax)

\* An input costs nothing.
LeavesFigured == \A p \in Node : Finished(p) /\ IsLeaf(p) =>
    heap[Ori(p)].cost = 0 /\ heap[Ori(p)].depth = 0

\* The model's figures are those of the outputs' states as they are now.
ModelFigured == stack = <<>> =>
    /\ heap[Ori(Model)].cost = TotalCost(heap[Ori(Model)].sons)
    /\ heap[Ori(Model)].depth = GreatestDepth(heap[Ori(Model)].sons)

\* A state that is kept keeps its figures.
LEMMA KeptFigures ==
    ASSUME NEW id \in Id, heap[id] \in DpState, Kept(id)
    PROVE  heap'[id].cost = heap[id].cost /\ heap'[id].depth = heap[id].depth
BY DEF Kept, DpState

\* Inputs are set once.
LEMMA StepLeaves == HeapInv /\ LeavesFigured /\ [Next]_vars => LeavesFigured'
<1> SUFFICES ASSUME HeapInv, LeavesFigured, [Next]_vars, NEW p \in Node, Finished(p)', IsLeaf(p)'
             PROVE  heap'[Ori(p)].cost = 0 /\ heap'[Ori(p)].depth = 0
    BY DEF LeavesFigured, Ori
<1>1. IInv /\ TypeOK /\ p \in Vertex /\ Ori(p) \in Id /\ Ori(p)[1] = p
    BY IdFacts, KindFacts DEF HeapInv, IInv, Vertex, Ori
<1>2. dag' = dag /\ IsLeaf(p)
    BY <1>1, FinishedKept DEF IsLeaf
<1>3. CASE Finished(p)
    <2>1. Kept(Ori(p)) /\ heap[Ori(p)] \in DpState
        BY <1>1, <1>3, FinishedKept, ConstantFacts DEF TypeOK
    <2>2. heap'[Ori(p)].cost = heap[Ori(p)].cost /\ heap'[Ori(p)].depth = heap[Ori(p)].depth
        BY <1>1, <2>1, KeptFigures
    <2>3. heap[Ori(p)].cost = 0 /\ heap[Ori(p)].depth = 0
        BY <1>2, <1>3 DEF LeavesFigured
    <2>4. QED
        BY <2>2, <2>3
<1>4. CASE ~Finished(p)
    <2>1. p # Model
        BY ConstantFacts
    <2>2. FinishLeaf(p) \/ FinishConstant(p) \/ FinishUnary(p) \/ FinishBinary(p)
        BY <1>1, <1>4, <2>1, FinishedAfter DEF Next, DFSStep, Returned, vars, Finished, Defined
    <2>3. Src(p) = <<>>
        BY <1>1, <1>2 DEF TypeOK, WellFormed, IsLeaf, Src
    <2>4. Len(Src(p)) = 0
        BY <2>3
    <2>5. FinishLeaf(p)
        BY <1>2, <2>2, <2>4 DEF FinishConstant, FinishUnary, FinishBinary
    <2>6. Ori(p) # Inv(p)
        BY DEF Ori, Inv
    <2>7. heap'[Ori(p)] = Input(p)
        BY <1>1, <2>5, <2>6 DEF FinishLeaf, InPlace, TypeOK
    <2>8. Input(p).cost = 0 /\ Input(p).depth = 0
        BY DEF Input
    <2>9. QED
        BY <2>7, <2>8
<1>5. QED
    BY <1>3, <1>4

\* The table of the sums of the costs of the first states.
Adding(f, refs, h) ==
    f = [k \in 0..Len(refs) |-> IF k = 0 THEN 0 ELSE Rounded(f[k - 1] + h[refs[k]].cost)]

\* The sum depends on the costs only.
LEMMA TotalSame ==
    ASSUME NEW refs \in Seq(Id), NEW h, \A i \in 1..Len(refs) : h[refs[i]].cost = heap[refs[i]].cost
    PROVE  \A f : Adding(f, refs, h) <=> Adding(f, refs, heap)
<1> SUFFICES ASSUME NEW f PROVE Adding(f, refs, h) <=> Adding(f, refs, heap)
    OBVIOUS
<1> DEFINE g(k) == IF k = 0 THEN 0 ELSE Rounded(f[k - 1] + h[refs[k]].cost)
           e(k) == IF k = 0 THEN 0 ELSE Rounded(f[k - 1] + heap[refs[k]].cost)
<1>1. ASSUME NEW k \in 0..Len(refs)
      PROVE  g(k) = e(k)
    <2>1. k = 0 \/ k \in 1..Len(refs)
        OBVIOUS
    <2>2. QED
        BY <2>1
<1> HIDE DEF g, e
<1>2. [k \in 0..Len(refs) |-> g(k)] = [k \in 0..Len(refs) |-> e(k)]
    BY <1>1
<1>3. QED
    BY <1>2 DEF Adding, g, e

\* The model's cost is that of the last place of the table.
LEMMA TotalIs == \A refs : TotalCost(refs) = (CHOOSE f : Adding(f, refs, heap))[Len(refs)]
BY DEF TotalCost, Adding

\* The model's figures are set from states that only change their names then.
LEMMA ModelFiguredStep ==
    ASSUME HeapInv, OutputsNamed, FinishModel
    PROVE  ModelFigured'
<1> SUFFICES ASSUME NEW refs, refs = [i \in DOMAIN Src(Model) |-> dp[Src(Model)[i]][0]]
             PROVE  ModelFigured'
    OBVIOUS
<1>1. IInv /\ TypeOK /\ WellFormed(dag) /\ Model \in Vertex /\ Ori(Model) \in Id
    BY IdFacts, KindFacts DEF HeapInv, IInv, TypeOK, Vertex, Ori
<1>2. \A i \in DOMAIN Src(Model) : Src(Model)[i] \in Node /\ Finished(Src(Model)[i])
    BY <1>1, NetlistFacts, RunningFacts DEF FinishModel, Ready
<1>3. ASSUME NEW i \in DOMAIN Src(Model)
      PROVE  /\ refs[i] \in Id /\ refs[i] # Ori(Model)
             /\ heap'[refs[i]].cost = heap[refs[i]].cost /\ heap'[refs[i]].depth = heap[refs[i]].depth
    <2>1. refs[i] \in Id /\ refs[i][1] = Src(Model)[i] /\ heap[refs[i]] \in DpState
        BY <1>1, <1>2, FinishedStates, KindFacts
    <2>2. refs[i] # Ori(Model)
        BY <1>2, <2>1, ConstantFacts DEF Ori
    <2>3. [Next]_vars
        BY DEF Next, DFSStep
    <2>4. Kept(refs[i])
        BY <1>1, <1>2, <2>1, <2>3, FinishedKept
    <2>5. QED
        BY <2>1, <2>2, <2>4, KeptFigures
<1>4. refs \in Seq(Id) /\ DOMAIN refs = DOMAIN Src(Model)
    <2>1. Src(Model) \in Seq(Node)
        BY <1>1, NetlistFacts
    <2>2. QED
        BY <1>3, <2>1
<1>5. /\ heap'[Ori(Model)].sons = refs /\ heap'[Ori(Model)].cost = TotalCost(refs)
      /\ heap'[Ori(Model)].depth = GreatestDepth(refs)
    BY <1>1 DEF FinishModel
<1>6. TotalCost(refs)' = TotalCost(refs)
    <2>1. \A i \in 1..Len(refs) : heap'[refs[i]].cost = heap[refs[i]].cost
        BY <1>3, <1>4
    <2>2. \A f : Adding(f, refs, heap') <=> Adding(f, refs, heap)
        BY <1>4, <2>1, TotalSame
    <2>3. \A s : TotalCost(s)' = (CHOOSE f : Adding(f, s, heap'))[Len(s)]
        BY DEF TotalCost, Adding
    <2>4. (CHOOSE f : Adding(f, refs, heap')) = CHOOSE f : Adding(f, refs, heap)
        BY <2>2
    <2>5. QED
        BY <2>3, <2>4, TotalIs
<1>7. GreatestDepth(refs)' = GreatestDepth(refs)
    <2>1. \A id \in Range(refs) : heap'[id].depth = heap[id].depth
        BY <1>3, <1>4 DEF Range
    <2>2. {heap'[id].depth : id \in Range(refs)} = {heap[id].depth : id \in Range(refs)}
        BY <2>1
    <2>3. QED
        BY <2>2 DEF GreatestDepth
<1>8. QED
    BY <1>5, <1>6, <1>7 DEF ModelFigured, Ori

\* DFS returns with the model's call, and nothing is changed after it.
LEMMA StepModelFigured == HeapInv /\ OutputsNamed /\ ModelFigured /\ [Next]_vars => ModelFigured'
<1> SUFFICES ASSUME HeapInv, OutputsNamed, ModelFigured, [Next]_vars PROVE ModelFigured'
    OBVIOUS
<1>1. IInv /\ TypeOK
    BY DEF HeapInv, IInv
<1>2. CASE FinishModel
    BY <1>2, ModelFiguredStep
<1>3. CASE \E p \in Vertex : Enter(p)
    <2>1. PICK p \in Vertex : Enter(p)
        BY <1>3
    <2>2. stack \in Seq(Vertex) /\ \E s \in Vertex : stack' = Append(stack, s)
        BY <1>1, <2>1, NetlistFacts DEF Enter, TypeOK
    <2>3. stack' # <<>>
        BY <2>2
    <2>4. QED
        BY <2>3 DEF ModelFigured
<1>4. CASE \E p \in Vertex : FinishLeaf(p) \/ FinishConstant(p) \/ FinishUnary(p) \/ FinishBinary(p)
    <2>1. PICK p \in Vertex : FinishLeaf(p) \/ FinishConstant(p) \/ FinishUnary(p) \/ FinishBinary(p)
        BY <1>4
    <2>2. p \in Node /\ Running(p) /\ stack' = Front(stack)
        BY <1>1, <2>1, FinishWritesOwn
    <2>3. /\ Len(stack) \in Nat \ {0} /\ stack # <<>> /\ p = stack[Len(stack)] /\ stack[1] = Model
          /\ Len(Front(stack)) = Len(stack) - 1
        BY <1>1, <2>1, <2>2, RunningFacts, PopFacts DEF OutputsNamed
    <2>4. Len(stack) # 1
        BY <2>2, <2>3, ConstantFacts
    <2>5. stack' # <<>>
        <3>1. \A m \in Nat \ {0} : m # 1 => m - 1 # 0
            OBVIOUS
        <3>2. Len(stack') # 0
            BY <2>2, <2>3, <2>4, <3>1
        <3>3. Len(<<>>) = 0
            OBVIOUS
        <3>4. QED
            BY <3>2, <3>3
    <2>6. QED
        BY <2>5 DEF ModelFigured
<1>5. CASE UNCHANGED vars
    <2>1. heap' = heap /\ stack' = stack /\ Ori(Model)' = Ori(Model)
        BY <1>5 DEF vars, Ori
    <2>2. \A refs : TotalCost(refs)' = TotalCost(refs)
        BY <2>1 DEF TotalCost
    <2>3. \A refs : GreatestDepth(refs)' = GreatestDepth(refs)
        BY <2>1 DEF GreatestDepth
    <2>4. QED
        BY <2>1, <2>2, <2>3 DEF ModelFigured
<1>6. QED
    BY <1>2, <1>3, <1>4, <1>5 DEF Next, DFSStep, Returned

\* So it is in every state of main.
LEMMA MainFigures == MainSpec => [](LeavesFigured /\ ModelFigured)
<1>1. Init => HeapInv /\ LeavesFigured /\ ModelFigured
    <2> SUFFICES ASSUME Init PROVE LeavesFigured /\ ModelFigured
        BY InitHeap
    <2>1. \A p \in Node : ~Finished(p)
        BY ConstantFacts, KindFacts DEF Init, Finished, Defined, Vertex
    <2>2. QED
        BY <2>1 DEF Init, LeavesFigured, ModelFigured
<1>2. QED
    BY <1>1, StepLeaves, StepModelFigured, MainNames, MainMaps, HeapInvariance, PTL DEF Spec

-----------------------------------------------------------------------------
(* The figures of the states that are printed                              *)

\* The largest cell has four inputs.
LEMMA SonsAreFew ==
    ASSUME HeapInv, NEW id, Travelled(id)
    PROVE  heap[id].sons \in Seq(Id) /\ Len(heap[id].sons) \in 0..4
<1> DEFINE q == id[1]
           v == id[2]
<1>1. /\ id \in Id /\ q \in Node /\ Finished(q) /\ Shape(q)
      /\ id = <<q, v, id[3]>> /\ v \in Bit /\ id[3] \in Kind
    BY IdFacts DEF Travelled, HeapInv, NodesDone
<1>2. heap[id].sons \in Seq(Id)
    BY TravelledFacts DEF DpState
<1> DEFINE Few == Len(heap[id].sons) \in 0..4
<1> SUFFICES Few
    BY <1>2
<1>3. /\ \A t : t = <<>> => Len(t) \in 0..4
      /\ \A t, a : t = <<a>> => Len(t) \in 0..4
      /\ \A t, a, b : t = <<a, b>> => Len(t) \in 0..4
      /\ \A t, a, b, c : t = <<a, b, c>> => Len(t) \in 0..4
      /\ \A t, a, b, c, d : t = <<a, b, c, d>> => Len(t) \in 0..4
    OBVIOUS
<1> HIDE DEF q, v
<1>4. Vacant(heap[id]) => Few
    BY <1>3 DEF Vacant
<1>5. CASE Len(Src(q)) # 2
    <2>1. SimpleShape(q)
        BY <1>1, <1>5 DEF Shape
    <2>2. CASE id[3] # "dp"
        <3>1. Vacant(heap[<<q, v, id[3]>>])
            BY <1>1, <2>1, <2>2 DEF SimpleShape
        <3>2. QED
            BY <1>1, <1>4, <3>1
    <2>3. CASE id[3] = "dp"
        <3>1. id = Ori(q) \/ id = Inv(q)
            BY <1>1, <2>3, KindFacts DEF Ori, Inv
        <3>2. \/ heap[Ori(q)].sons = <<>>
              \/ \E a : heap[Ori(q)].sons = <<a>>
            BY <2>1 DEF SimpleShape
        <3>3. heap[Inv(q)].sons = <<>> \/ \E a : heap[Inv(q)].sons = <<a>>
            BY <2>1 DEF SimpleShape
        <3>4. QED
            BY <1>3, <3>1, <3>2, <3>3
    <2>4. QED
        BY <2>2, <2>3
<1>6. CASE Len(Src(q)) = 2
    <2>1. PassShape(q, v) /\ \E k, l \in Kind : HeadShape(q, k, l)
        BY <1>1, <1>6 DEF Shape, GateShape
    <2>2. CASE id[3] = "dp"
        <3>1. Vacant(heap[<<q, v, "dp">>])
            BY <2>1 DEF PassShape
        <3>2. QED
            BY <1>1, <1>4, <2>2, <3>1
    <2>3. CASE id[3] = "t1"
        <3>1. \E a, b : heap[<<q, v, "t1">>].sons = <<a, b>>
            BY <2>1 DEF PassShape, BaseShape
        <3>2. id = <<q, v, "t1">>
            BY <1>1, <2>3
        <3>3. QED
            BY <1>3, <3>1, <3>2
    <2>4. CASE id[3] = "t2"
        <3>1. Vacant(heap[<<q, v, "t2">>]) \/ \E a : heap[<<q, v, "t2">>].sons = <<a>>
            BY <2>1 DEF PassShape, BaseShape
        <3>2. id = <<q, v, "t2">>
            BY <1>1, <2>4
        <3>3. QED
            BY <1>3, <1>4, <3>1, <3>2
    <2>5. CASE id[3] = "aoi21"
        <3>1. Vacant(heap[<<q, v, "aoi21">>]) \/ \E a, b, c : heap[<<q, v, "aoi21">>].sons = <<a, b, c>>
            BY <2>1 DEF PassShape, AOI21Shape
        <3>2. id = <<q, v, "aoi21">>
            BY <1>1, <2>5
        <3>3. QED
            BY <1>3, <1>4, <3>1, <3>2
    <2>6. CASE id[3] = "aoi12"
        <3>1. Vacant(heap[<<q, v, "aoi12">>]) \/ \E a, b, c : heap[<<q, v, "aoi12">>].sons = <<a, b, c>>
            BY <2>1 DEF PassShape, AOI12Shape
        <3>2. id = <<q, v, "aoi12">>
            BY <1>1, <2>6
        <3>3. QED
            BY <1>3, <1>4, <3>1, <3>2
    <2>7. CASE id[3] = "aoi22"
        <3>1. Vacant(heap[<<q, v, "aoi22">>]) \/ \E a, b, c, d : heap[<<q, v, "aoi22">>].sons = <<a, b, c, d>>
            BY <2>1 DEF PassShape, AOI22Shape
        <3>2. id = <<q, v, "aoi22">>
            BY <1>1, <2>7
        <3>3. QED
            BY <1>3, <1>4, <3>1, <3>2
    <2>8. CASE id[3] = "head"
        <3>1. (\E a : heap[<<q, 0, "head">>].sons = <<a>>) /\ (\E a : heap[<<q, 1, "head">>].sons = <<a>>)
            BY <2>1 DEF HeadShape
        <3>2. id = <<q, 0, "head">> \/ id = <<q, 1, "head">>
            BY <1>1, <2>8, KindFacts
        <3>3. QED
            BY <1>3, <3>1, <3>2
    <2>9. QED
        BY <1>1, <2>2, <2>3, <2>4, <2>5, <2>6, <2>7, <2>8, KindFacts
<1>7. QED
    BY <1>5, <1>6

\* What the i-th son adds to a state's figures.
SonCost(id, i) == IF i <= Len(heap[id].sons) THEN heap[heap[id].sons[i]].cost ELSE 0
SonDepth(id, i) == IF i <= Len(heap[id].sons) THEN heap[heap[id].sons[i]].depth ELSE 0

\* The greatest of four depths.
Max4(a, b, c, d) == Max2(0, Max2(Max2(a, b), Max2(c, d)))

\* A state's figures are those update computes.
LEMMA TravelledFigures ==
    ASSUME HeapInv, ~Saturated, NEW id, Travelled(id), ~heap[id].leaf
    PROVE  /\ heap[id].cell \notin {"NONE", "UNDEFINED"} /\ heap[id].cost < CostMax
           /\ heap[id].cost = Rounded(SonCost(id, 1) + SonCost(id, 2) + SonCost(id, 3) + SonCost(id, 4) + 1)
           /\ heap[id].depth = Deeper(Max4(SonDepth(id, 1), SonDepth(id, 2), SonDepth(id, 3), SonDepth(id, 4)))
<1>1. /\ id \in Id /\ id[1] \in Node /\ Finished(id[1]) /\ heap[id] \in DpState
      /\ heap[id].cell \notin {"NONE", "UNDEFINED"}
    BY TravelledFacts DEF Travelled
<1>2. heap[id] = OnHeap(heap[id].name, heap[id].cell, heap[id].sons)
    BY <1>1 DEF HeapInv, NodesDone, UpToDate
<1>3. PICK s : s = States(heap[id].sons)
    OBVIOUS
<1>4. heap[id].sons \in Seq(Id) /\ Len(heap[id].sons) \in 0..4
    BY SonsAreFew
<1>5. Len(s) = Len(heap[id].sons) /\ \A i \in 1..4 : i <= Len(s) => s[i] = heap[heap[id].sons[i]]
    <2>1. DOMAIN s = DOMAIN heap[id].sons /\ \A i \in DOMAIN heap[id].sons : s[i] = heap[heap[id].sons[i]]
        BY <1>3 DEF States
    <2>2. DOMAIN heap[id].sons = 1..Len(heap[id].sons)
        BY <1>4
    <2>3. Len(s) = Len(heap[id].sons)
        BY <1>3, <1>4 DEF States
    <2>4. QED
        BY <1>4, <2>1, <2>2, <2>3
<1>6. \A i \in 1..4 : /\ (IF i <= Len(s) THEN s[i].cost ELSE 0) = SonCost(id, i)
                      /\ (IF i <= Len(s) THEN s[i].depth ELSE 0) = SonDepth(id, i)
    BY <1>5 DEF SonCost, SonDepth
<1>7. \A name, cell, sons :
        LET c(i) == IF i <= Len(s) THEN s[i].cost ELSE 0
            d(i) == IF i <= Len(s) THEN s[i].depth ELSE 0
        IN  /\ Updated(name, cell, sons, s).cost = Rounded(c(1) + c(2) + c(3) + c(4) + 1)
            /\ Updated(name, cell, sons, s).depth = Deeper(Max4(d(1), d(2), d(3), d(4)))
    BY DEF Updated, Max4
<1>8. heap[id].cost < CostMax
    <2>1. heap[id].cost \in Int
        BY <1>1 DEF DpState
    <2>2. id[1] # Model
        BY <1>1, ConstantFacts
    <2>3. ~(heap[id].cost >= CostMax)
        BY <1>1, <2>2 DEF Saturated
    <2>4. QED
        BY <2>1, <2>3, ConstantFacts
<1>9. /\ heap[id].cost = Updated(heap[id].name, heap[id].cell, heap[id].sons, s).cost
      /\ heap[id].depth = Updated(heap[id].name, heap[id].cell, heap[id].sons, s).depth
    BY <1>2, <1>3 DEF OnHeap
<1>10. /\ 1 \in 1..4 /\ 2 \in 1..4 /\ 3 \in 1..4 /\ 4 \in 1..4
    OBVIOUS
<1>11. /\ Updated(heap[id].name, heap[id].cell, heap[id].sons, s).cost
            = Rounded(SonCost(id, 1) + SonCost(id, 2) + SonCost(id, 3) + SonCost(id, 4) + 1)
       /\ Updated(heap[id].name, heap[id].cell, heap[id].sons, s).depth
            = Deeper(Max4(SonDepth(id, 1), SonDepth(id, 2), SonDepth(id, 3), SonDepth(id, 4)))
    BY <1>6, <1>7, <1>10
<1>12. QED
    BY <1>1, <1>8, <1>9, <1>11

\* What holds of a state as soon as it holds of its sons holds of all that travel reaches.
LEMMA TravelledInduction ==
    ASSUME HeapInv, NEW S,
           \A id : Travelled(id) /\ (\A i \in DOMAIN heap[id].sons : heap[id].sons[i] \in S) => id \in S
    PROVE  \A id : Travelled(id) => id \in S
<1> DEFINE height(id) == 3 * dag.rank[id[1]] + Level(id)
           T == {height(id) : id \in {b \in Id : Travelled(b) /\ b \notin S}}
<1>1. \A id \in Id : dag.rank[id[1]] \in Nat /\ Level(id) \in 0..2
    <2>1. \A id \in Id : Level(id) \in 0..2
        BY IdFacts, KindFacts DEF Level, Bit
    <2>2. QED
        BY <2>1, IdFacts, NetlistFacts DEF HeapInv, IInv, TypeOK
<1>2. \A id \in Id : height(id) \in Nat
    BY <1>1
<1>3. \A a, b \in Id : Lower(a, b) => height(a) < height(b)
    BY <1>1 DEF Lower
<1> HIDE DEF height
<1> SUFFICES ASSUME T # {} PROVE FALSE
    <2>1. \A id : Travelled(id) => id \in Id
        BY DEF Travelled
    <2>2. QED
        BY <2>1
<1>4. T \in SUBSET Nat
    BY <1>2
<1>5. PICK n \in T : \A m \in T : n <= m
    BY <1>4, LeastNumber
<1>6. PICK id \in Id : Travelled(id) /\ id \notin S /\ n = height(id)
    BY <1>5
<1>7. PICK i \in DOMAIN heap[id].sons : heap[id].sons[i] \notin S
    BY <1>6
<1>8. PICK son : son = heap[id].sons[i]
    OBVIOUS
<1>9. Travelled(son) /\ Lower(son, id) /\ son \in Id /\ son \notin S
    BY <1>6, <1>7, <1>8, SonsTravelled DEF Travelled
<1>10. height(son) < height(id) /\ height(son) \in T
    BY <1>3, <1>9
<1>11. QED
    BY <1>2, <1>5, <1>6, <1>9, <1>10

\* A sum that rounds to less than the largest long double is not rounded.
LEMMA NotRounded ==
    ASSUME NEW sum \in Int
    PROVE  /\ Rounded(sum) \in Int
           /\ Rounded(sum) < CostMax => Rounded(sum) = sum
BY ConstantFacts DEF Rounded

\* The greater of two numbers is one of them, and a depth that is not negative has not wrapped.
LEMMA GreaterIs ==
    /\ \A a, b \in Int : Max2(a, b) \in {a, b} /\ a <= Max2(a, b) /\ b <= Max2(a, b)
    /\ \A d \in Int : Deeper(d) \in Int /\ (Deeper(d) >= 0 => Deeper(d) = d + 1)
BY ConstantFacts DEF Max2, Deeper

\* The greatest of four depths is one of them, or 0.
LEMMA GreatestIs ==
    ASSUME NEW a \in Int, NEW b \in Int, NEW c \in Int, NEW d \in Int
    PROVE  /\ Max4(a, b, c, d) \in {0, a, b, c, d}
           /\ Max4(a, b, c, d) \in Int /\ 0 <= Max4(a, b, c, d)
           /\ a <= Max4(a, b, c, d) /\ b <= Max4(a, b, c, d)
           /\ c <= Max4(a, b, c, d) /\ d <= Max4(a, b, c, d)
<1>0. \A x, y \in Int : Max2(x, y) \in Int
    BY GreaterIs
<1>1. PICK p, q, r \in Int : p = Max2(a, b) /\ q = Max2(c, d) /\ r = Max2(p, q)
    <2>1. PICK p, q \in Int : p = Max2(a, b) /\ q = Max2(c, d)
        BY <1>0
    <2>2. QED
        BY <1>0, <2>1
<1>2. Max4(a, b, c, d) = Max2(0, r)
    BY <1>1 DEF Max4
<1>3. /\ p \in {a, b} /\ a <= p /\ b <= p /\ q \in {c, d} /\ c <= q /\ d <= q
      /\ r \in {p, q} /\ p <= r /\ q <= r
    BY <1>1, GreaterIs
<1>4. PICK m \in Int : m = Max2(0, r) /\ m \in {0, r} /\ 0 <= m /\ r <= m
    BY GreaterIs
<1>5. QED
    BY <1>2, <1>3, <1>4

\* The sons' figures are numbers if the sons' are.
LEMMA SonFigures ==
    ASSUME HeapInv, NEW id, Travelled(id), NEW i \in 1..4
    PROVE  /\ SonCost(id, i) \in Int /\ SonDepth(id, i) \in Int
           /\ \/ SonCost(id, i) = 0 /\ SonDepth(id, i) = 0 /\ i \notin DOMAIN heap[id].sons
              \/ /\ i \in DOMAIN heap[id].sons
                 /\ SonCost(id, i) = heap[heap[id].sons[i]].cost
                 /\ SonDepth(id, i) = heap[heap[id].sons[i]].depth
<1>1. heap[id].sons \in Seq(Id) /\ Len(heap[id].sons) \in 0..4
    BY SonsAreFew
<1>2. CASE i <= Len(heap[id].sons)
    <2>1. i \in DOMAIN heap[id].sons
        BY <1>1, <1>2
    <2>2. PICK son : son = heap[id].sons[i]
        OBVIOUS
    <2>3. Travelled(son)
        BY <2>1, <2>2, SonsTravelled
    <2>4. heap[son].cost \in Int /\ heap[son].depth \in Int
        BY <2>3, TravelledFacts DEF DpState
    <2>5. SonCost(id, i) = heap[son].cost /\ SonDepth(id, i) = heap[son].depth
        BY <1>2, <2>2 DEF SonCost, SonDepth
    <2>6. QED
        BY <2>1, <2>2, <2>4, <2>5
<1>3. CASE ~(i <= Len(heap[id].sons))
    <2>1. i \notin DOMAIN heap[id].sons
        BY <1>1, <1>3
    <2>2. QED
        BY <1>3, <2>1 DEF SonCost, SonDepth
<1>4. QED
    BY <1>2, <1>3

\* The figures of an input that travel reaches.
LEMMA LeafFigures ==
    ASSUME HeapInv, LeavesFigured, NEW id, Travelled(id), heap[id].leaf
    PROVE  heap[id].cost = 0 /\ heap[id].depth = 0
<1>1. id[1] \in dag.leaf /\ id = dp[id[1]][0] /\ id[1] \in Node /\ Finished(id[1]) /\ heap[id].sons = <<>>
    BY LeafFacts DEF Travelled
<1>2. IsLeaf(id[1]) /\ Shape(id[1]) /\ Src(id[1]) = <<>>
    BY <1>1 DEF IsLeaf, HeapInv, NodesDone, IInv, TypeOK, WellFormed, Src
<1>3. Len(Src(id[1])) # 2
    BY <1>2
<1>4. id = Ori(id[1])
    BY <1>1, <1>2, <1>3 DEF Shape, SimpleShape
<1>5. QED
    BY <1>1, <1>2, <1>4 DEF LeavesFigured

\* No cost that travel reads is negative.
LEMMA CostsPositive ==
    ASSUME HeapInv, LeavesFigured, ~Saturated
    PROVE  \A id : Travelled(id) => heap[id].cost \in Nat
<1> DEFINE S == {id \in Id : heap[id].cost \in Nat}
<1>1. ASSUME NEW id, Travelled(id), \A i \in DOMAIN heap[id].sons : heap[id].sons[i] \in S
      PROVE  id \in S
    <2>1. CASE heap[id].leaf
        BY <1>1, <2>1, LeafFigures DEF Travelled
    <2>2. CASE ~heap[id].leaf
        <3>1. \A i \in 1..4 : SonCost(id, i) \in Nat
            BY <1>1, SonFigures
        <3> HIDE DEF S
        <3>2. SonCost(id, 1) \in Nat /\ SonCost(id, 2) \in Nat /\ SonCost(id, 3) \in Nat /\ SonCost(id, 4) \in Nat
            BY <3>1
        <3>3. /\ heap[id].cost < CostMax
              /\ heap[id].cost = Rounded(SonCost(id, 1) + SonCost(id, 2) + SonCost(id, 3) + SonCost(id, 4) + 1)
            BY <1>1, <2>2, TravelledFigures
        <3>4. heap[id].cost \in Nat
            <4>1. PICK sum \in Nat : sum = SonCost(id, 1) + SonCost(id, 2) + SonCost(id, 3) + SonCost(id, 4) + 1
                BY <3>2
            <4>2. QED
                BY <3>3, <4>1, NotRounded
        <3>5. QED
            BY <1>1, <3>4 DEF S, Travelled
    <2>3. QED
        BY <2>1, <2>2
<1> HIDE DEF S
<1>2. \A id : Travelled(id) => id \in S
    BY <1>1, TravelledInduction
<1>3. QED
    BY <1>2 DEF S

\* While no figure is out of range, a state's cost is the cells below it, each counted
\* once per use, and its depth one more than its deepest son's.
LEMMA ExactFigures ==
    ASSUME HeapInv, LeavesFigured, ~Saturated, ~Wrapped, NEW id, Travelled(id), ~heap[id].leaf
    PROVE  /\ heap[id].cost = SonCost(id, 1) + SonCost(id, 2) + SonCost(id, 3) + SonCost(id, 4) + 1
           /\ heap[id].depth = Max4(SonDepth(id, 1), SonDepth(id, 2), SonDepth(id, 3), SonDepth(id, 4)) + 1
<1>1. /\ heap[id].cell \notin {"NONE", "UNDEFINED"} /\ heap[id].cost < CostMax
      /\ heap[id].cost = Rounded(SonCost(id, 1) + SonCost(id, 2) + SonCost(id, 3) + SonCost(id, 4) + 1)
      /\ heap[id].depth = Deeper(Max4(SonDepth(id, 1), SonDepth(id, 2), SonDepth(id, 3), SonDepth(id, 4)))
    BY TravelledFigures
<1>2. \A i \in 1..4 : SonCost(id, i) \in Int /\ SonDepth(id, i) \in Int
    BY SonFigures
<1>3. /\ SonCost(id, 1) \in Int /\ SonCost(id, 2) \in Int /\ SonCost(id, 3) \in Int /\ SonCost(id, 4) \in Int
      /\ SonDepth(id, 1) \in Int /\ SonDepth(id, 2) \in Int /\ SonDepth(id, 3) \in Int /\ SonDepth(id, 4) \in Int
    BY <1>2
<1>4. PICK sum \in Int : sum = SonCost(id, 1) + SonCost(id, 2) + SonCost(id, 3) + SonCost(id, 4) + 1
    BY <1>3
<1>5. PICK d \in Int : d = Max4(SonDepth(id, 1), SonDepth(id, 2), SonDepth(id, 3), SonDepth(id, 4))
    BY <1>3, GreatestIs
<1>6. heap[id].cost = sum
    BY <1>1, <1>4, NotRounded
<1>7. heap[id].depth = d + 1
    <2>1. id \in Id /\ heap[id].depth \in Int
        BY TravelledFacts DEF Travelled, DpState
    <2>2. heap[id].depth >= 0
        BY <1>1, <2>1 DEF Wrapped
    <2>3. QED
        BY <1>1, <1>5, <2>2, GreaterIs
<1>8. QED
    BY <1>4, <1>5, <1>6, <1>7

\* No depth is negative.
LEMMA DepthsPositive ==
    ASSUME HeapInv, LeavesFigured, ~Saturated, ~Wrapped, NEW id, Travelled(id)
    PROVE  heap[id].depth \in Nat
<1>1. id \in Id /\ heap[id].depth \in Int
    BY TravelledFacts DEF Travelled, DpState
<1>2. CASE heap[id].leaf
    BY <1>2, LeafFigures
<1>3. CASE ~heap[id].leaf
    <2>1. heap[id].cell \notin {"NONE", "UNDEFINED"}
        BY <1>3, TravelledFigures
    <2>2. QED
        BY <1>1, <2>1 DEF Wrapped
<1>4. QED
    BY <1>2, <1>3

-----------------------------------------------------------------------------
(* The cost counts every cell                                              *)

\* The table of sums exists, however many states there are.
LEMMA AddingExists ==
    ASSUME NEW refs, NEW n \in Nat, n = Len(refs), NEW h
    PROVE  \E f : Adding(f, refs, h)
<1> DEFINE g(f, k) == IF k = 0 THEN 0 ELSE Rounded(f[k - 1] + h[refs[k]].cost)
           T == {m \in Nat : \E f : f = [k \in 0..m |-> g(f, k)]}
<1>1. 0 \in T
    <2> DEFINE f == [k \in 0..0 |-> 0]
    <2>1. \A k \in 0..0 : g(f, k) = 0
        OBVIOUS
    <2> HIDE DEF g
    <2>2. f = [k \in 0..0 |-> g(f, k)]
        BY <2>1
    <2> HIDE DEF f
    <2>3. QED
        BY <2>2
<1>2. ASSUME NEW m \in T \cap Nat
      PROVE  m + 1 \in T
    <2>1. PICK f : f = [k \in 0..m |-> g(f, k)]
        BY <1>2
    <2>2. m \in Nat /\ m + 1 \in Nat /\ (m + 1) - 1 = m /\ m + 1 # 0
        BY <1>2
    <2> DEFINE e == [k \in 0..(m + 1) |-> IF k <= m THEN f[k] ELSE Rounded(f[m] + h[refs[m + 1]].cost)]
    <2> HIDE DEF T
    <2>3. \A k \in 0..m : f[k] = g(f, k)
        <3> HIDE DEF g
        <3>1. QED
            BY <2>1
    <2>4. ASSUME NEW k \in 0..(m + 1)
          PROVE  e[k] = g(e, k)
        <3>1. CASE k = 0
            <4>1. e[k] = f[k] /\ k \in 0..m
                BY <2>2, <3>1
            <4>2. f[k] = g(f, k)
                BY <2>3, <4>1
            <4>3. g(f, k) = 0 /\ g(e, k) = 0
                BY <3>1
            <4>4. QED
                BY <4>1, <4>2, <4>3
        <3>2. CASE k # 0 /\ k <= m
            <4>1. k \in 0..m /\ e[k] = f[k] /\ e[k - 1] = f[k - 1]
                BY <2>2, <3>2
            <4>2. f[k] = g(f, k)
                BY <2>3, <4>1
            <4> HIDE DEF e
            <4>3. QED
                BY <3>2, <4>1, <4>2
        <3>3. CASE k = m + 1
            <4>1. k # 0 /\ k - 1 = m /\ e[k] = Rounded(f[m] + h[refs[k]].cost) /\ e[m] = f[m]
                BY <2>2, <3>3
            <4> HIDE DEF e
            <4>2. QED
                BY <4>1
        <3>4. QED
            BY <2>2, <3>1, <3>2, <3>3
    <2>5. e = [k \in 0..(m + 1) |-> e[k]]
        OBVIOUS
    <2> HIDE DEF e, g
    <2>6. e = [k \in 0..(m + 1) |-> g(e, k)]
        BY <2>4, <2>5
    <2>7. QED
        BY <2>2, <2>6 DEF T
<1> HIDE DEF T, g
<1>3. Nat \subseteq T
    BY <1>1, <1>2, NumberInduction
<1>4. PICK f : f = [k \in 0..n |-> g(f, k)]
    BY <1>3 DEF T
<1>5. QED
    BY <1>4 DEF Adding, g

\* The sums of the costs of the first outputs.
Sums == CHOOSE f : Adding(f, heap[Ori(Model)].sons, heap)

\* The outputs' states.
LEMMA OutputStates ==
    ASSUME HeapInv, stack = <<>>
    PROVE  /\ heap[Ori(Model)].sons \in Seq(Id) /\ Len(heap[Ori(Model)].sons) \in Nat
           /\ DOMAIN heap[Ori(Model)].sons = 1..Len(heap[Ori(Model)].sons)
           /\ \A i \in 1..Len(heap[Ori(Model)].sons) : Travelled(heap[Ori(Model)].sons[i])
<1>1. heap[Ori(Model)].sons \in Seq(Id)
    BY ModelSons DEF HeapInv, IInv, TypeOK, Ori
<1>2. QED
    BY <1>1, ModelSons

\* While the model's cost is in range, the sums are not rounded.
LEMMA SumsExact ==
    ASSUME HeapInv, LeavesFigured, ModelFigured, stack = <<>>, ~OutOfRange,
           NEW refs, refs = heap[Ori(Model)].sons, NEW n, n = Len(refs)
    PROVE  /\ Sums[0] = 0 /\ Sums[n] = heap[Ori(Model)].cost
           /\ \A k \in 0..n : Sums[k] \in Int
           /\ \A k \in 1..n : Sums[k] = Sums[k - 1] + heap[refs[k]].cost
<1>1. /\ refs \in Seq(Id) /\ n \in Nat /\ DOMAIN refs = 1..n
      /\ \A i \in 1..n : Travelled(refs[i])
    BY OutputStates
<1>2. \A i \in 1..n : heap[refs[i]].cost \in Nat
    BY <1>1, CostsPositive DEF OutOfRange
<1>3. Adding(Sums, refs, heap)
    BY <1>1, AddingExists DEF Sums
<1>4. Sums[n] = heap[Ori(Model)].cost
    BY TotalIs DEF ModelFigured, Sums
<1> DEFINE t == Sums
<1>5. \A k \in 0..n : t[k] = IF k = 0 THEN 0 ELSE Rounded(t[k - 1] + heap[refs[k]].cost)
    BY <1>3 DEF Adding
<1> HIDE DEF t
<1>6. t[0] = 0 /\ \A k \in 1..n : t[k] = Rounded(t[k - 1] + heap[refs[k]].cost)
    BY <1>1, <1>5
<1> DEFINE T == {m \in Nat : m <= n => t[m] \in Int}
           U == {m \in Nat : m <= n => \A k \in 0..m : t[m] < CostMax => t[k] < CostMax}
<1>7. Nat \subseteq T
    <2>1. 0 \in T
        BY <1>6
    <2>2. ASSUME NEW m \in T \cap Nat
          PROVE  m + 1 \in T
        <3>1. m \in Nat /\ m + 1 \in Nat /\ (m + 1) - 1 = m
            BY <2>2
        <3>2. ASSUME m + 1 <= n PROVE t[m + 1] \in Int
            <4>1. m + 1 \in 1..n /\ t[m] \in Int
                BY <1>1, <2>2, <3>1, <3>2
            <4>2. t[m + 1] = Rounded(t[m] + heap[refs[m + 1]].cost) /\ heap[refs[m + 1]].cost \in Nat
                BY <1>2, <1>6, <3>1, <4>1
            <4>3. t[m] + heap[refs[m + 1]].cost \in Int
                BY <4>1, <4>2
            <4>4. QED
                BY <4>2, <4>3, NotRounded
        <3>3. QED
            BY <3>1, <3>2
    <2> HIDE DEF T
    <2>3. QED
        BY <2>1, <2>2, NumberInduction
<1>8. \A k \in 0..n : t[k] \in Int
    BY <1>1, <1>7
<1>9. \A k \in 1..n : t[k] < CostMax => t[k] = t[k - 1] + heap[refs[k]].cost
    <2> SUFFICES ASSUME NEW k \in 1..n, t[k] < CostMax
                 PROVE  t[k] = t[k - 1] + heap[refs[k]].cost
        OBVIOUS
    <2>1. k - 1 \in 0..n /\ t[k - 1] + heap[refs[k]].cost \in Int
        BY <1>1, <1>2, <1>8
    <2>2. t[k] = Rounded(t[k - 1] + heap[refs[k]].cost)
        BY <1>6
    <2>3. QED
        BY <2>1, <2>2, NotRounded
<1>10. Nat \subseteq U
    <2>1. 0 \in U
        OBVIOUS
    <2>2. ASSUME NEW m \in U \cap Nat
          PROVE  m + 1 \in U
        <3>1. m \in Nat /\ m + 1 \in Nat /\ (m + 1) - 1 = m
            BY <2>2
        <3>2. ASSUME m + 1 <= n, NEW k \in 0..(m + 1), t[m + 1] < CostMax PROVE t[k] < CostMax
            <4>1. m + 1 \in 1..n /\ m <= n /\ m \in 0..n /\ (k \in 0..m \/ k = m + 1)
                BY <1>1, <3>1, <3>2
            <4>2. t[m + 1] = t[m] + heap[refs[m + 1]].cost /\ heap[refs[m + 1]].cost \in Nat
                BY <1>2, <1>9, <3>1, <3>2, <4>1
            <4>3. t[m] < CostMax
                BY <1>8, <3>2, <4>1, <4>2, ConstantFacts
            <4>4. \A j \in 0..m : t[m] < CostMax => t[j] < CostMax
                BY <2>2, <4>1
            <4>5. QED
                BY <3>2, <4>1, <4>3, <4>4
        <3>3. QED
            BY <3>1, <3>2
    <2> HIDE DEF U
    <2>3. QED
        BY <2>1, <2>2, NumberInduction
<1>11. t[n] < CostMax
    <2>1. t[n] \in Int /\ ~(t[n] >= CostMax)
        BY <1>1, <1>4, <1>8 DEF OutOfRange, t
    <2>2. QED
        BY <2>1, ConstantFacts
<1>12. \A k \in 1..n : t[k] < CostMax
    <2>1. n \in U
        BY <1>1, <1>10
    <2>2. \A k \in 0..n : t[n] < CostMax => t[k] < CostMax
        BY <1>1, <2>1
    <2>3. QED
        BY <1>1, <1>11, <2>2
<1>13. QED
    BY <1>4, <1>6, <1>8, <1>9, <1>12 DEF t

\* What the sons from the i-th on add to a state's cost.
Rest(id, i) == LET c(k) == IF i <= k THEN SonCost(id, k) ELSE 0
               IN  c(1) + c(2) + c(3) + c(4)

\* What a call has left to print at most: the cells counted in the sons it has still to
\* go to, and its own.
Left(id, i) == IF id = Ori(Model) THEN Sums[Len(heap[id].sons)] - Sums[i - 1]
               ELSE 1 + Rest(id, i)

\* With each son there is so much less of the rest.
LEMMA RestFacts ==
    ASSUME HeapInv, NEW id, Travelled(id)
    PROVE  /\ \A i \in Nat \ {0} : Rest(id, i) \in Int
           /\ \A i \in DOMAIN heap[id].sons :
                Rest(id, i) = heap[heap[id].sons[i]].cost + Rest(id, i + 1)
           /\ Rest(id, Len(heap[id].sons) + 1) = 0
           /\ Rest(id, 1) = SonCost(id, 1) + SonCost(id, 2) + SonCost(id, 3) + SonCost(id, 4)
<1>1. heap[id].sons \in Seq(Id) /\ Len(heap[id].sons) \in 0..4
    BY SonsAreFew
<1>2. PICK n \in 0..4 : n = Len(heap[id].sons) /\ DOMAIN heap[id].sons = 1..n
    BY <1>1
<1> DEFINE s(k) == SonCost(id, k)
<1>3. s(1) \in Int /\ s(2) \in Int /\ s(3) \in Int /\ s(4) \in Int
    <2>1. \A k \in 1..4 : s(k) \in Int
        BY SonFigures
    <2> HIDE DEF s
    <2>2. QED
        BY <2>1
<1>4. \A k \in 1..4 : n < k => s(k) = 0
    BY <1>2 DEF SonCost
<1>5. \A k \in 1..n : s(k) = heap[heap[id].sons[k]].cost
    BY <1>2 DEF SonCost
<1> HIDE DEF s
<1>6. \A i : Rest(id, i) = (IF i <= 1 THEN s(1) ELSE 0) + (IF i <= 2 THEN s(2) ELSE 0)
                         + (IF i <= 3 THEN s(3) ELSE 0) + (IF i <= 4 THEN s(4) ELSE 0)
    BY DEF Rest, s
<1>7. \A i \in Nat \ {0} : Rest(id, i) \in Int
    BY <1>3, <1>6
<1>8. Rest(id, 1) = s(1) + s(2) + s(3) + s(4)
    BY <1>3, <1>6
<1>9. Rest(id, n + 1) = 0
    BY <1>3, <1>4, <1>6
<1>10. ASSUME NEW i \in 1..n
       PROVE  Rest(id, i) = s(i) + Rest(id, i + 1)
    <2>1. i = 1 \/ i = 2 \/ i = 3 \/ i = 4
        OBVIOUS
    <2>2. QED
        BY <1>3, <1>6, <2>1
<1>11. QED
    BY <1>2, <1>5, <1>7, <1>8, <1>9, <1>10 DEF s

\* What the cost has been found to be.
Figured == PrintInv /\ LeavesFigured /\ ModelFigured /\ ~OutOfRange

\* p[j] is what the first j calls have left to print.
Pending(p) == p[0] = 0 /\ \A j \in 1..Len(frames) : p[j] = p[j - 1] + Left(frames[j][1], frames[j][2])

\* What has been printed and what the active calls have left is at most the model's cost.
Budget == frames # <<>> \/ status = "ended" =>
    \E p \in [Nat -> Int] : Pending(p) /\ Len(oss) + p[Len(frames)] <= heap[Ori(Model)].cost

\* A call that goes on to its next son has so much less left as the son costs; at its
\* end only its own block, and main's loop nothing.
LEMMA LeftFacts ==
    ASSUME Figured, frames # <<>>, NEW k, k = Last(frames)[2]
    PROVE  /\ k \in Nat \ {0} /\ Left(Current, k) \in Int
           /\ HasSon => /\ heap[Son].cost \in Nat /\ Left(Current, k + 1) \in Int
                        /\ Left(Current, k) = heap[Son].cost + Left(Current, k + 1)
           /\ ~HasSon => Left(Current, k) = IF Len(frames) = 1 THEN 0 ELSE 1
<1>1. /\ PrintInv /\ HeapInv /\ LeavesFigured /\ ModelFigured /\ ~OutOfRange /\ ~Saturated
    BY DEF Figured, PrintInv, OutOfRange
<1>2. /\ Len(frames) \in Nat \ {0} /\ Last(frames) = frames[Len(frames)]
      /\ stack = <<>> /\ k \in Nat \ {0}
      /\ IF Len(frames) = 1 THEN Current = Ori(Model) ELSE Travelled(Current)
    BY <1>1, CurrentFacts
<1>3. k <= Len(heap[Current].sons) + 1
    BY <1>1, <1>2 DEF PrintInv, FramesInv, Current
<1>4. HasSon => /\ k \in DOMAIN heap[Current].sons /\ Son = heap[Current].sons[k]
                /\ heap[Son].cost \in Nat
    BY <1>1, SonFacts, CostsPositive
<1>5. PICK refs, n : refs = heap[Current].sons /\ n = Len(refs)
    OBVIOUS
<1>6. HasSon <=> k <= n
    BY <1>5 DEF HasSon
<1>10. HasSon => k \in DOMAIN refs /\ Son = refs[k] /\ heap[refs[k]].cost \in Nat
    BY <1>4, <1>5
<1> DEFINE left(i) == Left(Current, i)
<1> HIDE DEF left
<1>11. SUFFICES /\ left(k) \in Int
                /\ HasSon => left(k + 1) \in Int /\ left(k) = heap[refs[k]].cost + left(k + 1)
                /\ ~HasSon => left(k) = IF Len(frames) = 1 THEN 0 ELSE 1
    BY <1>2, <1>10 DEF left
<1>7. CASE Len(frames) = 1
    <2>1. Current = Ori(Model)
        BY <1>2, <1>7
    <2>2. n \in Nat /\ DOMAIN refs = 1..n
        BY <1>1, <1>2, <1>5, <2>1, OutputStates
    <2>3. /\ \A j \in 0..n : Sums[j] \in Int
          /\ \A j \in 1..n : Sums[j] = Sums[j - 1] + heap[refs[j]].cost
        BY <1>1, <1>2, <1>5, <2>1, SumsExact
    <2>4. \A i : left(i) = Sums[n] - Sums[i - 1]
        BY <1>5, <2>1 DEF Left, left
    <2>5. k \in 1..(n + 1) /\ k - 1 \in 0..n /\ (k + 1) - 1 = k /\ (k <= n => k \in 0..n /\ k \in 1..n)
        BY <1>2, <1>3, <1>5, <2>2
    <2>6. PICK a, b \in Int : a = Sums[n] /\ b = Sums[k - 1] /\ (k = n + 1 => b = a)
        <3>1. n \in 0..n /\ (k = n + 1 => k - 1 = n)
            BY <2>2
        <3>2. Sums[n] \in Int /\ Sums[k - 1] \in Int
            BY <2>3, <2>5, <3>1
        <3>3. QED
            BY <3>1, <3>2
    <2>7. left(k) = a - b
        BY <2>4, <2>6
    <2>8. ASSUME HasSon
          PROVE  left(k + 1) \in Int /\ left(k) = heap[refs[k]].cost + left(k + 1)
        <3>1. PICK c \in Int : c = Sums[k]
            BY <1>6, <2>3, <2>5, <2>8
        <3>2. PICK x \in Nat : x = heap[refs[k]].cost
            BY <1>10, <2>8
        <3>3. c = b + x
            BY <1>6, <2>3, <2>5, <2>6, <2>8, <3>1, <3>2
        <3>4. left(k + 1) = a - c
            BY <2>4, <2>5, <2>6, <3>1
        <3>5. a - b = x + (a - c) /\ a - c \in Int
            BY <3>3
        <3>6. QED
            BY <2>7, <3>2, <3>4, <3>5
    <2>9. ASSUME ~HasSon
          PROVE  left(k) = 0
        <3>1. k = n + 1
            BY <1>6, <2>2, <2>5, <2>9
        <3>2. QED
            BY <2>6, <2>7, <3>1
    <2>10. left(k) \in Int
        BY <2>6, <2>7
    <2>11. QED
        BY <1>7, <2>8, <2>9, <2>10
<1>8. CASE Len(frames) # 1
    <2>1. Travelled(Current) /\ Current # Ori(Model)
        BY <1>2, <1>8, ConstantFacts DEF Travelled, Ori
    <2>2. \A i : left(i) = 1 + Rest(Current, i)
        BY <2>1 DEF Left, left
    <2>3. /\ \A i \in Nat \ {0} : Rest(Current, i) \in Int
          /\ \A i \in DOMAIN refs : Rest(Current, i) = heap[refs[i]].cost + Rest(Current, i + 1)
          /\ Rest(Current, n + 1) = 0
        BY <1>1, <1>5, <2>1, RestFacts
    <2>4. n \in 0..4
        BY <1>1, <1>5, <2>1, SonsAreFew
    <2>5. k \in Nat \ {0} /\ k + 1 \in Nat \ {0} /\ k <= n + 1
        BY <1>2, <1>3, <1>5
    <2>6. PICK a, b \in Int : a = Rest(Current, k) /\ b = Rest(Current, k + 1)
        BY <2>3, <2>5
    <2>7. left(k) = 1 + a /\ left(k + 1) = 1 + b
        BY <2>2, <2>6
    <2>8. ASSUME HasSon
          PROVE  left(k) = heap[refs[k]].cost + left(k + 1)
        <3>1. PICK x \in Nat : x = heap[refs[k]].cost
            BY <1>10, <2>8
        <3>2. Rest(Current, k) = heap[refs[k]].cost + Rest(Current, k + 1)
            BY <1>10, <2>3, <2>8
        <3>3. a = x + b
            BY <2>6, <3>1, <3>2
        <3>4. 1 + a = x + (1 + b)
            BY <3>3
        <3>5. QED
            BY <2>7, <3>1, <3>4
    <2>9. ASSUME ~HasSon
          PROVE  left(k) = 1
        <3>1. k = n + 1
            BY <1>6, <2>4, <2>5, <2>9
        <3>2. a = 0
            BY <2>3, <2>6, <3>1
        <3>3. QED
            BY <2>7, <3>2
    <2>10. left(k) \in Int /\ left(k + 1) \in Int
        BY <2>6, <2>7
    <2>11. QED
        BY <1>8, <2>8, <2>9, <2>10
<1>9. QED
    BY <1>7, <1>8

\* The printing phase changes nothing that the budget is made of but the calls.
LEMMA SameFigures ==
    ASSUME UNCHANGED vars
    PROVE  /\ \A id, i : Left(id, i)' = Left(id, i)
           /\ heap'[Ori(Model)] = heap[Ori(Model)] /\ Ori(Model)' = Ori(Model)
           /\ (OutOfRange' <=> OutOfRange)
<1>1. heap' = heap /\ stack' = stack /\ Ori(Model)' = Ori(Model) /\ (Saturated' <=> Saturated)
    BY SameHeap DEF vars
<1>2. Sums' = Sums
    BY <1>1 DEF Sums, Adding
<1>3. \A id, i : SonCost(id, i)' = SonCost(id, i)
    BY <1>1 DEF SonCost
<1>4. \A id, i : Rest(id, i)' = Rest(id, i)
    BY <1>3 DEF Rest
<1>5. \A id, i : Left(id, i)' = Left(id, i)
    BY <1>1, <1>2, <1>4 DEF Left
<1>6. Wrapped' <=> Wrapped
    BY <1>1 DEF Wrapped
<1>7. QED
    BY <1>1, <1>5, <1>6 DEF OutOfRange

\* main's loop has the model's cost left at its start.
LEMMA PrintHeaderBudget ==
    ASSUME Figured, PrintHeader
    PROVE  Budget'
<1>1. /\ stack = <<>> /\ frames = <<>> /\ status = "running" /\ UNCHANGED vars /\ oss' = oss
      /\ frames' = << <<Ori(Model), 1>> >>
    BY DEF PrintHeader, AtHeader
<1>2. oss = <<>>
    BY <1>1 DEF Figured, PrintInv, PhaseInv
<1>3. PICK refs, n : refs = heap[Ori(Model)].sons /\ n = Len(refs)
    OBVIOUS
<1>4. HeapInv /\ LeavesFigured /\ ModelFigured /\ ~OutOfRange
    BY DEF Figured, PrintInv
<1>5. n \in Nat
    BY <1>1, <1>3, <1>4, OutputStates
<1>6. Sums[0] = 0 /\ Sums[n] = heap[Ori(Model)].cost /\ Sums[n] \in Int
    BY <1>1, <1>3, <1>4, <1>5, SumsExact
<1>7. Left(Ori(Model), 1) = Sums[n] /\ heap[Ori(Model)].cost = Sums[n]
    <2>1. Left(Ori(Model), 1) = Sums[n] - Sums[0]
        BY <1>3 DEF Left
    <2>2. QED
        BY <1>6, <2>1
<1>8. PICK c \in Int : c = Sums[n]
    BY <1>6
<1>9. PICK p \in [Nat -> Int] : p[0] = 0 /\ p[1] = c
    <2> DEFINE q == [j \in Nat |-> IF j = 0 THEN 0 ELSE c]
    <2>1. q \in [Nat -> Int] /\ q[0] = 0 /\ q[1] = c
        BY <1>8
    <2> HIDE DEF q
    <2>2. QED
        BY <2>1
<1>10. Len(frames') = 1 /\ frames'[1] = <<Ori(Model), 1>> /\ Len(oss') = 0
    BY <1>1, <1>2
<1>11. /\ Left(Ori(Model), 1) = c /\ heap'[Ori(Model)].cost = c /\ Ori(Model)' = Ori(Model)
       /\ \A id, i : Left(id, i)' = Left(id, i)
    BY <1>1, <1>7, <1>8, SameFigures
<1>12. Pending(p)'
    <2>1. \A j \in 1..Len(frames') : j = 1 /\ j - 1 = 0
        BY <1>10
    <2>2. frames'[1][1] = Ori(Model) /\ frames'[1][2] = 1
        BY <1>10
    <2>3. Left(frames[1][1], frames[1][2])' = c
        BY <1>11, <2>2
    <2>4. p[1] = p[0] + Left(frames[1][1], frames[1][2])'
        BY <1>8, <1>9, <2>3
    <2>5. QED
        BY <1>9, <2>1, <2>4 DEF Pending
<1>13. Len(oss') + p[Len(frames')] <= heap'[Ori(Model)].cost
    BY <1>8, <1>9, <1>10, <1>11
<1>14. QED
    BY <1>9, <1>11, <1>12, <1>13 DEF Budget

\* A sequence with one more member.
LEMMA AppendFacts ==
    ASSUME NEW S, NEW s \in Seq(S), NEW x \in S, NEW t, t = Append(s, x)
    PROVE  /\ Len(s) \in Nat /\ Len(t) = Len(s) + 1 /\ t[Len(s) + 1] = x
           /\ \A j \in 1..Len(s) : t[j] = s[j]
OBVIOUS

\* What the calls have left once the running one has gone on to its next son.
Advances(q, p, n) ==
    /\ q[0] = 0 /\ q[n] = p[n] - heap[Son].cost
    /\ \A j \in 1..n : q[j] = q[j - 1] + Left(Advanced[j][1], Advanced[j][2])

\* When the running call goes on to its next son, so much less is left.
LEMMA AdvancedPending ==
    ASSUME Figured, HasSon, NEW p \in [Nat -> Int], Pending(p), NEW n, n = Len(frames)
    PROVE  \E q \in [Nat -> Int] : Advances(q, p, n)
<1>1. PICK k : k = Last(frames)[2]
    OBVIOUS
<1>2. PrintInv /\ frames # <<>>
    BY DEF Figured, HasSon
<1>3. /\ n \in Nat \ {0} /\ Last(frames) = frames[n] /\ Last(frames) = <<Current, k>>
      /\ k \in Nat \ {0} /\ frames \in Seq(Id \X (Nat \ {0}))
    BY <1>1, <1>2, CurrentFacts DEF PrintInv, PhaseInv
<1>4. /\ Len(Front(frames)) = n - 1 /\ Front(frames) \in Seq(Id \X (Nat \ {0}))
      /\ \A j \in 1..(n - 1) : Front(frames)[j] = frames[j]
    BY <1>2, <1>3, PopFacts
<1>5. /\ Advanced[n] = <<Current, k + 1>>
      /\ \A j \in 1..(n - 1) : Advanced[j] = frames[j]
    <2>1. Advanced = Append(Front(frames), <<Current, k + 1>>)
        BY <1>1 DEF Advanced
    <2>2. <<Current, k + 1>> \in Id \X (Nat \ {0})
        <3>1. Current \in Id
            BY <1>2, CurrentFacts
        <3>2. k + 1 \in Nat \ {0}
            BY <1>3
        <3>3. QED
            BY <3>1, <3>2
    <2>3. /\ Advanced[Len(Front(frames)) + 1] = <<Current, k + 1>>
          /\ \A j \in 1..Len(Front(frames)) : Advanced[j] = Front(frames)[j]
        BY <1>4, <2>1, <2>2, AppendFacts
    <2>4. (n - 1) + 1 = n
        BY <1>3
    <2>5. QED
        BY <1>4, <2>3, <2>4
<1>6. /\ Left(Current, k) \in Int /\ heap[Son].cost \in Nat /\ Left(Current, k + 1) \in Int
      /\ Left(Current, k) = heap[Son].cost + Left(Current, k + 1)
    BY <1>1, <1>2, LeftFacts
<1>7. PICK c \in Nat : c = heap[Son].cost
    BY <1>6
<1>8. PICK q : q = [j \in Nat |-> IF j = n THEN p[n] - c ELSE p[j]]
    OBVIOUS
<1>9. /\ q \in [Nat -> Int] /\ q[n] = p[n] - c
      /\ \A j \in Nat : j # n => q[j] = p[j]
    BY <1>3, <1>8
<1>10. /\ p[0] = 0 /\ \A j \in 1..n : p[j] = p[j - 1] + Left(frames[j][1], frames[j][2])
    BY DEF Pending
<1>11. ASSUME NEW j \in 1..n
       PROVE  q[j] = q[j - 1] + Left(Advanced[j][1], Advanced[j][2])
    <2>1. CASE j # n
        <3>0. \A m \in Nat \ {0} : \A i \in 1..m :
                i # m => i \in 1..(m - 1) /\ i - 1 # m /\ i \in Nat /\ i - 1 \in Nat
            OBVIOUS
        <3>1. j \in 1..(n - 1) /\ j - 1 # n /\ j \in Nat /\ j - 1 \in Nat
            BY <1>3, <2>1, <3>0
        <3>2. q[j] = p[j] /\ q[j - 1] = p[j - 1] /\ Advanced[j] = frames[j]
            BY <1>5, <1>9, <2>1, <3>1
        <3>3. QED
            BY <1>10, <3>2
    <2>2. CASE j = n
        <3>1. n - 1 # n /\ n - 1 \in Nat /\ n \in 1..n /\ n \in Nat
            BY <1>3
        <3>2. q[n - 1] = p[n - 1] /\ q[n] = p[n] - c
            BY <1>9, <3>1
        <3>3. Advanced[n][1] = Current /\ Advanced[n][2] = k + 1
            BY <1>5
        <3>4. frames[n][1] = Current /\ frames[n][2] = k
            BY <1>3
        <3>5. p[n] = p[n - 1] + Left(Current, k)
            BY <1>10, <3>1, <3>4
        <3>6. PICK x, y \in Int : x = Left(Current, k) /\ y = Left(Current, k + 1) /\ x = c + y
            BY <1>6, <1>7
        <3>7. p[n] \in Int /\ p[n - 1] \in Int
            BY <3>1
        <3>8. q[n] = q[n - 1] + y
            <4>1. \A u, w, z \in Int : u = w + (c + z) => u - c = w + z
                OBVIOUS
            <4>2. p[n] = p[n - 1] + (c + y)
                BY <3>5, <3>6
            <4>3. p[n] - c = p[n - 1] + y
                BY <3>7, <4>1, <4>2
            <4>4. QED
                BY <3>2, <4>3
        <3>9. QED
            BY <2>2, <3>3, <3>6, <3>8
    <2>3. QED
        BY <2>1, <2>2
<1>12. q[0] = 0
    BY <1>3, <1>9, <1>10
<1>13. QED
    BY <1>7, <1>9, <1>11, <1>12 DEF Advances

\* travel(son) returns at once: the son is not printed, or not again.
LEMMA SkipSonBudget ==
    ASSUME Figured, Budget, SkipSon
    PROVE  Budget'
<1>1. /\ HasSon /\ frames # <<>> /\ frames' = Advanced /\ UNCHANGED vars /\ oss' = oss
      /\ visited' = visited \cup {Son} /\ PrintInv
    BY DEF SkipSon, HasSon, Figured
<1>2. PICK p \in [Nat -> Int] : Pending(p) /\ Len(oss) + p[Len(frames)] <= heap[Ori(Model)].cost
    BY <1>1 DEF Budget
<1>3. PICK n : n = Len(frames)
    OBVIOUS
<1>4. PICK q \in [Nat -> Int] :
            /\ q[0] = 0 /\ q[n] = p[n] - heap[Son].cost
            /\ \A j \in 1..n : q[j] = q[j - 1] + Left(Advanced[j][1], Advanced[j][2])
    <2>1. \E q \in [Nat -> Int] : Advances(q, p, n)
        BY <1>1, <1>2, <1>3, AdvancedPending
    <2>2. QED
        BY <2>1 DEF Advances
<1>5. Len(frames') = n /\ n \in Nat
    BY <1>1, <1>3, AdvancedFacts, CurrentFacts
<1>6. /\ \A id, i : Left(id, i)' = Left(id, i)
      /\ heap'[Ori(Model)] = heap[Ori(Model)] /\ Ori(Model)' = Ori(Model)
    BY <1>1, SameFigures
<1>7. Pending(q)'
    <2>1. ASSUME NEW j \in 1..n
          PROVE  q[j] = q[j - 1] + Left(frames[j][1], frames[j][2])'
        BY <1>1, <1>4, <1>6
    <2>2. QED
        BY <1>4, <1>5, <2>1 DEF Pending
<1>8. Len(oss') + q[Len(frames')] <= heap'[Ori(Model)'].cost
    <2>1. PICK c \in Nat : c = heap[Son].cost
        BY <1>1, LeftFacts
    <2>2. PICK x, y, m \in Int : x = p[n] /\ y = q[n] /\ m = Len(oss)
        BY <1>1, <1>5 DEF PrintInv, PhaseInv
    <2>3. m + y <= m + x
        <3>1. y = x - c
            BY <1>4, <2>1, <2>2
        <3>2. QED
            BY <3>1
    <2>4. heap[Ori(Model)].cost \in Int
        <3>1. stack = <<>> /\ HeapInv /\ LeavesFigured /\ ModelFigured /\ ~OutOfRange
            BY <1>1, CurrentFacts DEF PrintInv, Figured
        <3>2. PICK refs, k : refs = heap[Ori(Model)].sons /\ k = Len(refs)
            OBVIOUS
        <3>3. k \in 0..k
            BY <3>1, <3>2, OutputStates
        <3>4. Sums[k] = heap[Ori(Model)].cost /\ Sums[k] \in Int
            BY <3>1, <3>2, <3>3, SumsExact
        <3>5. QED
            BY <3>4
    <2>5. Len(oss') + q[Len(frames')] = m + y /\ Len(oss) + p[Len(frames)] = m + x
        BY <1>1, <1>3, <1>5, <2>2
    <2>6. PICK z \in Int : z = heap[Ori(Model)].cost /\ z = heap'[Ori(Model)'].cost
        BY <1>6, <2>4
    <2>7. m + x <= z
        BY <1>2, <2>5, <2>6
    <2>8. m + y <= z
        BY <2>2, <2>3, <2>6, <2>7
    <2>9. QED
        BY <2>5, <2>6, <2>8
<1>9. QED
    BY <1>7, <1>8 DEF Budget

\* travel(son): the new call has left what its caller has no more.
LEMMA TravelSonBudget ==
    ASSUME Figured, Budget, TravelSon
    PROVE  Budget'
<1>1. /\ HasSon /\ frames # <<>> /\ frames' = Append(Advanced, <<Son, 1>>) /\ UNCHANGED vars
      /\ oss' = oss /\ visited' = visited \cup {Son} /\ PrintInv /\ ~heap[Son].leaf
    BY DEF TravelSon, HasSon, Figured
<1>2. PICK p \in [Nat -> Int] : Pending(p) /\ Len(oss) + p[Len(frames)] <= heap[Ori(Model)].cost
    BY <1>1 DEF Budget
<1>3. PICK n : n = Len(frames)
    OBVIOUS
<1>4. PICK q \in [Nat -> Int] :
            /\ q[0] = 0 /\ q[n] = p[n] - heap[Son].cost
            /\ \A j \in 1..n : q[j] = q[j - 1] + Left(Advanced[j][1], Advanced[j][2])
    <2>1. \E q \in [Nat -> Int] : Advances(q, p, n)
        BY <1>1, <1>2, <1>3, AdvancedPending
    <2>2. QED
        BY <2>1 DEF Advances
<1>5. Advanced \in Seq(Id \X (Nat \ {0})) /\ Len(Advanced) = n /\ n \in Nat \ {0}
    BY <1>1, <1>3, AdvancedFacts, CurrentFacts
<1>6. /\ Len(frames') = n + 1 /\ frames'[n + 1] = <<Son, 1>>
      /\ \A j \in 1..n : frames'[j] = Advanced[j]
    <2>1. <<Son, 1>> \in Id \X (Nat \ {0})
        BY <1>1, SonFacts
    <2>2. frames' = Append(Advanced, <<Son, 1>>)
        BY <1>1
    <2>3. /\ Len(frames') = Len(Advanced) + 1 /\ frames'[Len(Advanced) + 1] = <<Son, 1>>
          /\ \A j \in 1..Len(Advanced) : frames'[j] = Advanced[j]
        <3>1. PICK S : Advanced \in Seq(S) /\ <<Son, 1>> \in S
            BY <1>5, <2>1
        <3>2. QED
            BY ONLY <2>2, <3>1, AppendFacts
    <2>4. Len(Advanced) = n
        BY <1>5
    <2>5. QED
        BY <2>3, <2>4
<1>7. /\ \A id, i : Left(id, i)' = Left(id, i)
      /\ heap'[Ori(Model)] = heap[Ori(Model)] /\ Ori(Model)' = Ori(Model)
    BY <1>1, SameFigures
<1>8. PICK c \in Nat : c = heap[Son].cost
    BY <1>1, LeftFacts
<1>9. Left(Son, 1) = c
    <2>1. Travelled(Son) /\ HeapInv /\ LeavesFigured /\ ~Saturated /\ ~Wrapped
        BY <1>1, SonFacts DEF Figured, PrintInv, OutOfRange
    <2>2. Son # Ori(Model)
        BY <2>1, ConstantFacts DEF Travelled, Ori
    <2>3. Left(Son, 1) = 1 + Rest(Son, 1)
        BY <2>2 DEF Left
    <2>4. PICK x \in Int : x = Rest(Son, 1)
        BY <2>1, RestFacts
    <2>5. x = SonCost(Son, 1) + SonCost(Son, 2) + SonCost(Son, 3) + SonCost(Son, 4)
        BY <2>1, <2>4, RestFacts
    <2>6. c = x + 1
        BY <1>1, <1>8, <2>1, <2>5, ExactFigures
    <2>7. QED
        BY <2>3, <2>4, <2>6
<1>10. PICK r : r = [j \in Nat |-> IF j = n + 1 THEN p[n] ELSE q[j]]
    OBVIOUS
<1>11. r \in [Nat -> Int] /\ r[n + 1] = p[n] /\ \A j \in 0..n : r[j] = q[j]
    BY <1>5, <1>10
<1>12. Pending(r)'
    <2>1. ASSUME NEW j \in 1..(n + 1)
          PROVE  r[j] = r[j - 1] + Left(frames[j][1], frames[j][2])'
        <3>1. CASE j = n + 1
            <4>1. frames'[j][1] = Son /\ frames'[j][2] = 1
                BY <1>6, <3>1
            <4>2. Left(frames[j][1], frames[j][2])' = c
                BY <1>7, <1>9, <4>1
            <4>3. j - 1 = n /\ n \in 0..n /\ p[n] \in Int
                BY <1>5, <3>1
            <4>4. r[j] = p[n] /\ r[j - 1] = p[n] - c
                BY <1>4, <1>8, <1>11, <3>1, <4>3
            <4>5. QED
                BY <1>8, <4>2, <4>3, <4>4
        <3>2. CASE j # n + 1
            <4>1. j \in 1..n /\ j \in 0..n /\ j - 1 \in 0..n
                BY <1>5, <3>2
            <4>2. Left(frames[j][1], frames[j][2])' = Left(Advanced[j][1], Advanced[j][2])
                BY <1>6, <1>7, <4>1
            <4>3. r[j] = q[j] /\ r[j - 1] = q[j - 1]
                BY <1>11, <4>1
            <4>4. QED
                BY <1>4, <4>1, <4>2, <4>3
        <3>3. QED
            BY <3>1, <3>2
    <2>2. r[0] = 0
        BY <1>4, <1>5, <1>11
    <2>3. QED
        BY <1>6, <2>1, <2>2 DEF Pending
<1>13. Len(oss') + r[Len(frames')] <= heap'[Ori(Model)'].cost
    BY <1>1, <1>2, <1>3, <1>6, <1>7, <1>11
<1>14. QED
    BY <1>11, <1>12, <1>13 DEF Budget

\* A call that prints its block has no more than that block left.
LEMMA PrintBlockBudget ==
    ASSUME Figured, Budget, PrintBlock
    PROVE  Budget'
<1>1. /\ ~HasSon /\ frames # <<>> /\ frames' = Front(frames) /\ UNCHANGED vars
      /\ Len(frames) > 1 /\ PrintInv /\ oss' = Append(oss, Block(Current))
    BY DEF PrintBlock, Figured, Block
<1>2. PICK p \in [Nat -> Int] : Pending(p) /\ Len(oss) + p[Len(frames)] <= heap[Ori(Model)].cost
    BY <1>1 DEF Budget
<1>3. PICK n : n = Len(frames)
    OBVIOUS
<1>4. PICK k : k = Last(frames)[2]
    OBVIOUS
<1>5. /\ n \in Nat \ {0} /\ Last(frames) = frames[n] /\ Last(frames) = <<Current, k>>
      /\ frames \in Seq(Id \X (Nat \ {0})) /\ Current \in Id
    BY <1>1, <1>3, <1>4, CurrentFacts DEF PrintInv, PhaseInv
<1>6. Len(frames') = n - 1 /\ \A j \in 1..(n - 1) : frames'[j] = frames[j]
    BY <1>1, <1>3, <1>5, PopFacts
<1>7. Left(Current, k) = 1
    <2>1. Left(Current, k) = IF Len(frames) = 1 THEN 0 ELSE 1
        BY <1>1, <1>4, LeftFacts
    <2>2. Len(frames) # 1
        <3>1. \A m \in Nat : m > 1 => m # 1
            OBVIOUS
        <3>2. Len(frames) \in Nat /\ Len(frames) > 1
            BY <1>1, <1>3, <1>5
        <3>3. QED
            BY <3>1, <3>2
    <2>3. QED
        BY <2>1, <2>2
<1>8. p[n] = p[n - 1] + 1 /\ p[n - 1] \in Int /\ p[n] \in Int
    <2>1. n \in 1..n /\ n - 1 \in Nat /\ frames[n][1] = Current /\ frames[n][2] = k
        BY <1>5
    <2>2. p[n] = p[n - 1] + Left(frames[n][1], frames[n][2])
        BY <1>2, <1>3, <2>1 DEF Pending
    <2>3. QED
        BY <1>5, <1>7, <2>1, <2>2
<1>9. /\ \A id, i : Left(id, i)' = Left(id, i)
      /\ heap'[Ori(Model)] = heap[Ori(Model)] /\ Ori(Model)' = Ori(Model)
    BY <1>1, SameFigures
<1>10. Pending(p)'
    <2>1. ASSUME NEW j \in 1..(n - 1)
          PROVE  p[j] = p[j - 1] + Left(frames[j][1], frames[j][2])'
        <3>1. j \in 1..n
            BY <1>5
        <3>2. p[j] = p[j - 1] + Left(frames[j][1], frames[j][2])
            BY <1>2, <1>3, <3>1 DEF Pending
        <3>3. Left(frames[j][1], frames[j][2])' = Left(frames[j][1], frames[j][2])
            BY <1>6, <1>9
        <3>4. QED
            BY <3>2, <3>3
    <2>2. p[0] = 0
        BY <1>2 DEF Pending
    <2>3. QED
        BY <1>6, <2>1, <2>2 DEF Pending
<1>11. Len(oss') = Len(oss) + 1 /\ Len(oss) \in Nat
    <2>1. oss \in Seq({Block(id) : id \in Id}) /\ Block(Current) \in {Block(id) : id \in Id}
        BY <1>1, <1>5 DEF PrintInv, PhaseInv
    <2> HIDE DEF Block
    <2>2. QED
        BY <1>1, <2>1, AppendFacts
<1>12. Len(oss') + p[Len(frames')] <= heap'[Ori(Model)'].cost
    <2>1. Len(oss') + p[Len(frames')] = Len(oss) + p[n]
        BY <1>6, <1>8, <1>11
    <2>2. QED
        BY <1>2, <1>3, <1>9, <2>1
<1>13. QED
    BY <1>10, <1>12 DEF Budget

\* When main's loop is over, nothing is left.
LEMMA PrintEndBudget ==
    ASSUME Figured, Budget, PrintEnd
    PROVE  Budget'
<1>1. /\ ~HasSon /\ frames # <<>> /\ frames' = <<>> /\ UNCHANGED vars
      /\ Len(frames) = 1 /\ PrintInv /\ oss' = oss
    BY DEF PrintEnd, Figured
<1>2. PICK p \in [Nat -> Int] : Pending(p) /\ Len(oss) + p[Len(frames)] <= heap[Ori(Model)].cost
    BY <1>1 DEF Budget
<1>3. PICK k : k = Last(frames)[2]
    OBVIOUS
<1>4. Last(frames) = frames[1] /\ Last(frames) = <<Current, k>>
    BY <1>1, <1>3, CurrentFacts
<1>5. Left(Current, k) = 0
    BY <1>1, <1>3, LeftFacts
<1>6. p[1] = 0 /\ p[0] = 0
    <2>1. frames[1][1] = Current /\ frames[1][2] = k
        BY <1>4
    <2>2. 1 \in 1..Len(frames) /\ 1 - 1 = 0
        BY <1>1
    <2>3. p[0] = 0 /\ p[1] = p[0] + Left(frames[1][1], frames[1][2])
        BY <1>2, <2>2 DEF Pending
    <2>4. QED
        BY <1>5, <2>1, <2>3
<1>7. heap'[Ori(Model)] = heap[Ori(Model)] /\ Ori(Model)' = Ori(Model)
    BY <1>1, SameFigures
<1>8. Len(frames') = 0
    BY <1>1
<1>9. Pending(p)'
    BY <1>6, <1>8 DEF Pending
<1>10. Len(oss') + p[Len(frames')] <= heap'[Ori(Model)'].cost
    BY <1>1, <1>2, <1>6, <1>7, <1>8
<1>11. QED
    BY <1>9, <1>10 DEF Budget

\* In every state of main, unless a figure has left its range.
LEMMA StepBudget ==
    PrintInv /\ LeavesFigured /\ ModelFigured /\ (OutOfRange \/ Budget) /\ [MainNext]_allVars
        => OutOfRange' \/ Budget'
<1> SUFFICES ASSUME PrintInv, LeavesFigured, ModelFigured, OutOfRange \/ Budget, [MainNext]_allVars, ~OutOfRange'
             PROVE  Budget'
    OBVIOUS
<1>1. CASE Mapping \/ Crash
    <2>1. frames' = <<>> /\ status' # "ended"
        BY <1>1, MappingPrint DEF Mapping, Crash, AtHeader, evars, PrintInv, PhaseInv, DFSStep, Enter,
           FinishLeaf, FinishConstant, FinishUnary, FinishBinary, FinishModel, Ready, Running
    <2>2. QED
        BY <2>1 DEF Budget
<1>2. CASE ~(Mapping \/ Crash)
    <2>1. UNCHANGED vars
        BY <1>2 DEF MainNext, MainStep, PrintHeader, SkipSon, TravelSon, PrintBlock, PrintEnd, Stopped,
                    allVars, vars
    <2>2. ~OutOfRange /\ Budget /\ Figured
        BY <2>1, SameFigures DEF Figured
    <2>3. CASE UNCHANGED allVars
        <3>1. /\ \A id, i : Left(id, i)' = Left(id, i)
              /\ heap'[Ori(Model)] = heap[Ori(Model)] /\ Ori(Model)' = Ori(Model)
            BY <2>1, SameFigures
        <3>2. frames' = frames /\ oss' = oss /\ status' = status
            BY <2>3 DEF allVars
        <3>3. \A p : Pending(p) => Pending(p)'
            BY <3>1, <3>2 DEF Pending
        <3>4. QED
            BY <2>2, <3>1, <3>2, <3>3 DEF Budget
    <2>4. QED
        BY <1>2, <2>2, <2>3, PrintHeaderBudget, SkipSonBudget, TravelSonBudget, PrintBlockBudget,
           PrintEndBudget DEF MainNext, MainStep, Stopped
<1>3. QED
    BY <1>1, <1>2

\* So no more cells are printed than the cost says.
LEMMA MainBudget == MainSpec => [](OutOfRange \/ Budget)
<1>1. MainInit => Budget
    BY DEF MainInit, Budget
<1>2. QED
    BY <1>1, StepBudget, PrintInvariance, MainFigures, PTL DEF MainSpec

-----------------------------------------------------------------------------
(* The depth is that of the text                                           *)

\* The levels of the names after each of the first m blocks.
Levelling(f, m) ==
    f = [k \in 0..m |-> IF k = 0 THEN [name \in header.inputs |-> 0] ELSE Placed(f[k - 1], oss[k])]

\* Levels are found block by block.
LEMMA LevellingExists ==
    ASSUME NEW n \in Nat
    PROVE  \E f : Levelling(f, n)
<1> DEFINE base == [name \in header.inputs |-> 0]
           T == {m \in Nat : \E f : Levelling(f, m)}
<1>1. 0 \in T
    <2>1. Levelling([k \in 0..0 |-> base], 0)
        <3> DEFINE f == [k \in 0..0 |-> base]
        <3>1. \A k \in 0..0 : k = 0 /\ f[k] = base
            OBVIOUS
        <3> HIDE DEF base
        <3>2. [k \in 0..0 |-> IF k = 0 THEN base ELSE Placed(f[k - 1], oss[k])] = f
            BY <3>1
        <3>3. QED
            BY <3>2 DEF Levelling, base
    <2>2. QED
        BY <2>1
<1>2. ASSUME NEW m \in T \cap Nat
      PROVE  m + 1 \in T
    <2>1. PICK f : Levelling(f, m)
        BY <1>2
    <2>2. m \in Nat
        BY <1>2
    <2> DEFINE g == [k \in 0..(m + 1) |-> IF k <= m THEN f[k] ELSE Placed(f[m], oss[m + 1])]
    <2> HIDE DEF T, base
    <2>3. \A k \in 0..m : f[k] = IF k = 0 THEN base ELSE Placed(f[k - 1], oss[k])
        BY <2>1 DEF Levelling, base
    <2>4. ASSUME NEW k \in 0..(m + 1)
          PROVE  g[k] = IF k = 0 THEN base ELSE Placed(g[k - 1], oss[k])
        <3>1. CASE k = 0
            <4>1. g[k] = f[k] /\ k \in 0..m
                BY <2>2, <3>1
            <4>2. QED
                BY <2>3, <3>1, <4>1
        <3>2. CASE k # 0 /\ k <= m
            <4>1. k \in 0..m /\ g[k] = f[k] /\ g[k - 1] = f[k - 1]
                BY <2>2, <3>2
            <4> HIDE DEF g
            <4>2. QED
                BY <2>3, <3>2, <4>1
        <3>3. CASE k = m + 1
            <4>1. k # 0 /\ k - 1 = m /\ g[k] = Placed(f[m], oss[k]) /\ g[m] = f[m]
                BY <2>2, <3>3
            <4> HIDE DEF g
            <4>2. QED
                BY <4>1
        <3>4. QED
            BY <2>2, <3>1, <3>2, <3>3
    <2>5. g = [k \in 0..(m + 1) |-> g[k]]
        OBVIOUS
    <2> HIDE DEF g
    <2>6. Levelling(g, m + 1)
        BY <2>4, <2>5 DEF Levelling, base
    <2>7. m + 1 \in Nat
        BY <2>2
    <2>8. QED
        BY <2>6, <2>7 DEF T
<1> HIDE DEF T
<1>3. Nat \subseteq T
    BY <1>1, <1>2, NumberInduction
<1>4. QED
    BY <1>3 DEF T

\* The levels in the end are those after the last block.
LEMMA LevelsInTheEnd ==
    ASSUME Len(oss) \in Nat
    PROVE  \E f : Levelling(f, Len(oss)) /\ Levels = f[Len(oss)]
<1> DEFINE g == CHOOSE f : Levelling(f, Len(oss))
<1>1. Levelling(g, Len(oss))
    BY LevellingExists
<1>2. Levels = g[Len(oss)]
    BY DEF Levels, Levelling
<1>3. QED
    BY <1>1, <1>2

\* A number of a set that none of them exceeds is its greatest.
LEMMA GreatestOf ==
    ASSUME NEW S \in SUBSET Int, NEW m \in S, \A x \in S : x <= m
    PROVE  Max(S) = m
<1>1. Max(S) = CHOOSE x \in S : \A y \in S : x >= y
    BY DEF Max
<1>2. m \in S /\ \A y \in S : m >= y
    OBVIOUS
<1>3. Max(S) \in S /\ \A y \in S : Max(S) >= y
    BY <1>1, <1>2
<1>4. PICK x \in S : x = Max(S) /\ x >= m /\ x <= m
    BY <1>3
<1>5. QED
    BY <1>4

\* The levels so far are the depths of the states that have been printed.
LevelRight(level, k) ==
    /\ DOMAIN level = header.inputs \cup Outs(k)
    /\ \A id : Known(id, k) => level[heap[id].name] = heap[id].depth

\* A known name is an input or driven by one of the blocks.
LEMMA KnownNamed ==
    ASSUME PrintInv, frames # <<>> \/ status = "ended", NEW k, NEW id, Known(id, k)
    PROVE  heap[id].name \in header.inputs \cup Outs(k)
<1>1. Travelled(id) /\ (heap[id].leaf \/ \E j \in 1..k : oss[j] = Block(id))
    BY DEF Known
<1>2. CASE heap[id].leaf
    BY <1>1, <1>2, LeafInHeader
<1>3. CASE \E j \in 1..k : oss[j] = Block(id)
    <2>1. Block(id).out = heap[id].name
        BY <1>1, TravelledSons DEF PrintInv
    <2>2. QED
        BY <1>3, <2>1 DEF Outs
<1>4. QED
    BY <1>1, <1>2, <1>3

\* The depth of a state is that of its block's inputs, and one.
LEMMA BlockDepth ==
    ASSUME Figured, NEW id, Travelled(id), ~heap[id].leaf, NEW level,
           \A i \in DOMAIN heap[id].sons :
                level[heap[heap[id].sons[i]].name] = heap[heap[id].sons[i]].depth
    PROVE  heap[id].depth = 1 + Deepest(level, Block(id).ins)
<1>1. HeapInv /\ LeavesFigured /\ ~Saturated /\ ~Wrapped
    BY DEF Figured, PrintInv, OutOfRange
<1>2. PICK n \in 0..4 : n = Len(heap[id].sons) /\ DOMAIN heap[id].sons = 1..n
    BY <1>1, SonsAreFew
<1>3. /\ DOMAIN Block(id).ins = 1..n
      /\ \A i \in 1..n : Block(id).ins[i] = heap[heap[id].sons[i]].name
    BY <1>1, <1>2, TravelledSons
<1> DEFINE S == {0} \cup {level[name] : name \in Range(Block(id).ins)}
           d(i) == SonDepth(id, i)
<1>4. S = {0} \cup {heap[heap[id].sons[i]].depth : i \in 1..n}
    <2>1. Range(Block(id).ins) = {heap[heap[id].sons[i]].name : i \in 1..n}
        BY <1>3 DEF Range
    <2>2. QED
        BY <1>2, <2>1
<1>5. \A i \in 1..n : d(i) = heap[heap[id].sons[i]].depth
    BY <1>2 DEF SonDepth
<1>6. S = {0} \cup {d(i) : i \in 1..n}
    BY <1>4, <1>5
<1>7. \A i \in 1..4 : d(i) \in Int /\ (n < i => d(i) = 0)
    <2>1. \A i \in 1..4 : d(i) \in Int
        BY <1>1, SonFigures
    <2>2. \A i \in 1..4 : n < i => d(i) = 0
        BY <1>2 DEF SonDepth
    <2>3. QED
        BY <2>1, <2>2
<1>8. Deepest(level, Block(id).ins) = Max(S)
    BY DEF Deepest
<1> HIDE DEF S, d
<1>9. S \in SUBSET Int /\ 0 \in S
    BY <1>2, <1>6, <1>7
<1>10. \A i \in 1..4 : d(i) \in S
    <2> SUFFICES ASSUME NEW i \in 1..4 PROVE d(i) \in S
        OBVIOUS
    <2>1. i \in 1..n \/ n < i
        BY <1>2
    <2>2. QED
        BY <1>6, <1>7, <1>9, <2>1
<1>11. \A x \in S : x = 0 \/ x = d(1) \/ x = d(2) \/ x = d(3) \/ x = d(4)
    <2>1. \A i \in 1..n : i = 1 \/ i = 2 \/ i = 3 \/ i = 4
        BY <1>2
    <2>2. QED
        BY <1>6, <2>1
<1>12. /\ d(1) \in Int /\ d(2) \in Int /\ d(3) \in Int /\ d(4) \in Int
       /\ d(1) \in S /\ d(2) \in S /\ d(3) \in S /\ d(4) \in S
    BY <1>7, <1>10
<1>13. PICK m : m = Max4(d(1), d(2), d(3), d(4))
    OBVIOUS
<1>14. /\ m \in {0, d(1), d(2), d(3), d(4)} /\ m \in Int /\ 0 <= m
       /\ d(1) <= m /\ d(2) <= m /\ d(3) <= m /\ d(4) <= m
    BY <1>12, <1>13, GreatestIs
<1>15. m \in S /\ \A x \in S : x <= m
    BY <1>9, <1>11, <1>12, <1>14
<1>16. Max(S) = m
    BY <1>9, <1>15, GreatestOf
<1>17. heap[id].depth = m + 1
    BY <1>1, <1>13, ExactFigures DEF d
<1>18. QED
    BY <1>8, <1>14, <1>16, <1>17

\* One more block: its output's level is its state's depth.
LEMMA BlockPlaced ==
    ASSUME Figured, UniqueDrivers, NEW k \in DOMAIN oss, NEW level, LevelRight(level, k - 1)
    PROVE  LevelRight(Placed(level, oss[k]), k)
<1>1. PrintInv /\ HeapInv /\ ~Saturated
    BY DEF Figured, PrintInv, OutOfRange
<1>2. PICK id \in Id : Travelled(id) /\ ~heap[id].leaf /\ oss[k] = Block(id) /\ PrintedAs(k, id)
    BY <1>1, BlockFacts
<1>3. k \in 1..Len(oss) /\ Len(oss) \in Nat /\ DOMAIN oss = 1..Len(oss)
      /\ (frames # <<>> \/ status = "ended")
    BY <1>1, BlockFacts DEF PrintInv, PhaseInv
<1>4. oss[k].out = heap[id].name
    BY <1>1, <1>2, TravelledSons
<1>5. Outs(k) = Outs(k - 1) \cup {oss[k].out}
    <2>1. \A j : j \in 1..k <=> j \in 1..(k - 1) \/ j = k
        BY <1>3
    <2>2. QED
        BY <2>1 DEF Outs
<1>6. oss[k].out \notin header.inputs \cup Outs(k - 1)
    <2>1. \A j \in 1..(k - 1) : j \in DOMAIN oss /\ j # k
        BY <1>3
    <2>2. QED
        BY <2>1 DEF UniqueDrivers, Outs
<1>7. DOMAIN level = header.inputs \cup Outs(k - 1)
    BY DEF LevelRight
<1>8. heap[id].depth = 1 + Deepest(level, oss[k].ins)
    <2>1. ASSUME NEW i \in DOMAIN heap[id].sons
          PROVE  level[heap[heap[id].sons[i]].name] = heap[heap[id].sons[i]].depth
        <3>1. Travelled(heap[id].sons[i])
            BY <1>1, <1>2, SonsTravelled
        <3>2. Known(heap[id].sons[i], k - 1)
            BY <1>2, <3>1 DEF Known, PrintedAs
        <3>3. QED
            BY <3>2 DEF LevelRight
    <2>2. QED
        BY <1>2, <2>1, BlockDepth
<1> DEFINE next == Placed(level, oss[k])
<1>9. /\ DOMAIN next = header.inputs \cup Outs(k)
      /\ \A name \in DOMAIN level : next[name] = level[name]
      /\ next[oss[k].out] = heap[id].depth
    BY <1>5, <1>6, <1>7, <1>8 DEF Placed
<1> HIDE DEF next
<1>10. ASSUME NEW b, Known(b, k)
       PROVE  next[heap[b].name] = heap[b].depth
    <2>1. CASE Known(b, k - 1)
        <3>1. heap[b].name \in DOMAIN level
            BY <1>1, <1>3, <1>7, <2>1, KnownNamed
        <3>2. level[heap[b].name] = heap[b].depth
            BY <2>1 DEF LevelRight
        <3>3. QED
            BY <1>9, <3>1, <3>2
    <2>2. CASE ~Known(b, k - 1)
        <3>1. Travelled(b) /\ oss[k] = Block(b)
            <4>1. \A j \in 1..k : j \in 1..(k - 1) \/ j = k
                BY <1>3
            <4>2. QED
                BY <1>10, <2>2, <4>1 DEF Known
        <3>2. heap[b].name = oss[k].out
            BY <1>1, <3>1, TravelledSons
        <3>3. b = id
            BY <1>1, <1>2, <1>4, <3>1, <3>2, SameName
        <3>4. QED
            BY <1>9, <3>2, <3>3
    <2>3. QED
        BY <2>1, <2>2
<1>11. QED
    BY <1>9, <1>10 DEF LevelRight, next

\* In the end every printed name has its state's depth.
LEMMA PlacedToTheEnd ==
    ASSUME Figured, UniqueDrivers, status = "ended"
    PROVE  LevelRight(Levels, Len(oss))
<1>1. PrintInv /\ HeapInv /\ LeavesFigured /\ Len(oss) \in Nat /\ DOMAIN oss = 1..Len(oss)
    BY DEF Figured, PrintInv, PhaseInv
<1>2. PICK f : Levelling(f, Len(oss)) /\ Levels = f[Len(oss)]
    BY <1>1, LevelsInTheEnd
<1>3. \A k \in 0..Len(oss) : f[k] = IF k = 0 THEN [name \in header.inputs |-> 0]
                                    ELSE Placed(f[k - 1], oss[k])
    BY <1>2 DEF Levelling
<1> DEFINE T == {m \in Nat : m <= Len(oss) => LevelRight(f[m], m)}
<1>4. LevelRight(f[0], 0)
    <2>1. f[0] = [name \in header.inputs |-> 0]
        <3>1. 0 \in 0..Len(oss)
            BY <1>1
        <3>2. QED
            BY <1>3, <3>1
    <2>2. ASSUME NEW id, Known(id, 0)
          PROVE  f[0][heap[id].name] = heap[id].depth
        <3>1. Travelled(id) /\ heap[id].leaf
            BY <2>2 DEF Known
        <3>2. heap[id].name \in header.inputs
            BY <1>1, <3>1, LeafInHeader
        <3>3. heap[id].depth = 0
            BY <1>1, <3>1, LeafFigures
        <3>4. QED
            BY <2>1, <3>2, <3>3
    <2>3. Outs(0) = {}
        BY DEF Outs
    <2>4. QED
        BY <2>1, <2>2, <2>3 DEF LevelRight
<1>5. ASSUME NEW m \in T \cap Nat
      PROVE  m + 1 \in T
    <2>1. m \in Nat /\ m + 1 \in Nat /\ (m <= Len(oss) => LevelRight(f[m], m))
        BY <1>5
    <2>2. ASSUME m + 1 <= Len(oss)
          PROVE  LevelRight(f[m + 1], m + 1)
        <3>1. /\ m + 1 \in DOMAIN oss /\ (m + 1) - 1 = m /\ m + 1 # 0 /\ m <= Len(oss)
              /\ m + 1 \in 0..Len(oss)
            BY <1>1, <2>1, <2>2
        <3>2. f[m + 1] = Placed(f[m], oss[m + 1])
            BY <1>3, <3>1
        <3>3. PICK k \in DOMAIN oss : k = m + 1 /\ k - 1 = m
            BY <3>1
        <3>4. LevelRight(f[m], k - 1)
            BY <2>1, <3>1, <3>3
        <3>5. LevelRight(Placed(f[m], oss[k]), k)
            BY <3>4, BlockPlaced
        <3>6. QED
            BY <3>2, <3>3, <3>5
    <2>3. QED
        BY <2>1, <2>2
<1>6. 0 \in T
    BY <1>4
<1> HIDE DEF T
<1>7. Nat \subseteq T
    BY <1>5, <1>6, NumberInduction
<1>8. QED
    BY <1>1, <1>2, <1>7 DEF T

\* The greatest depth of the outputs' states is the greatest level of the outputs' names.
LEMMA ReportedDepth ==
    ASSUME Figured, UniqueDrivers, status = "ended"
    PROVE  heap[Ori(Model)].depth = Deepest(Levels, header.outputs)
<1>1. /\ PrintInv /\ HeapInv /\ stack = <<>> /\ header = TheHeader /\ Len(oss) \in Nat
      /\ DOMAIN oss = 1..Len(oss) /\ ModelFigured
    BY DEF Figured, PrintInv, PhaseInv
<1>2. PICK refs, n : refs = heap[Ori(Model)].sons /\ n = Len(refs)
    OBVIOUS
<1>3. DOMAIN refs = 1..n /\ n \in Nat /\ DOMAIN refs = DOMAIN Src(Model)
    BY <1>1, <1>2, OutputStates, ModelSons
<1>4. heap[Ori(Model)].depth = GreatestDepth(refs)
    BY <1>1, <1>2 DEF ModelFigured
<1>5. DOMAIN header.outputs = 1..n /\ \A i \in 1..n : header.outputs[i] = heap[refs[i]].name
    BY <1>1, <1>2, <1>3 DEF TheHeader
<1>6. ASSUME NEW i \in 1..n
      PROVE  Levels[heap[refs[i]].name] = heap[refs[i]].depth
    <2>1. refs[i] \in visited
        BY <1>1, <1>2, <1>3 DEF PrintInv, EndInv, Range
    <2>2. Len(frames) = 0
        BY <1>1 DEF PrintInv, PhaseInv
    <2>3. ~OnFrames(refs[i])
        BY <2>2 DEF OnFrames
    <2>4. Known(refs[i], Len(oss))
        BY <1>1, <2>1, <2>3 DEF PrintInv, VisitedInv, Known
    <2>5. QED
        BY <2>4, PlacedToTheEnd DEF LevelRight
<1>7. {Levels[name] : name \in Range(header.outputs)} = {Levels[heap[refs[i]].name] : i \in 1..n}
    BY <1>5 DEF Range
<1>8. {heap[r].depth : r \in Range(refs)} = {heap[refs[i]].depth : i \in 1..n}
    BY <1>3 DEF Range
<1>9. {Levels[name] : name \in Range(header.outputs)} = {heap[r].depth : r \in Range(refs)}
    BY <1>6, <1>7, <1>8
<1>10. QED
    BY <1>4, <1>9 DEF GreatestDepth, Deepest

(***************************************************************************)
(* What main reports is true of what it printed, for every netlist, unless *)
(* a cost or a depth has left the range of its type (DpStateImpl::update,  *)
(* the two decrements after it, and the last lines of main): the maximal   *)
(* depth is the depth of the text, and the minimal cost, which counts a    *)
(* shared cell once per use, is not less than the number of its cells.     *)
(***************************************************************************)
THEOREM ReportHolds == MainSpec => [](OutOfRange \/ ReportIsTrue)
<1>1. /\ PrintInv /\ LeavesFigured /\ ModelFigured /\ (Saturated \/ UniqueDrivers) /\ (OutOfRange \/ Budget)
      => OutOfRange \/ ReportIsTrue
    <2> SUFFICES ASSUME PrintInv, LeavesFigured, ModelFigured, Saturated \/ UniqueDrivers, Budget,
                        ~OutOfRange, status = "ended"
                 PROVE  /\ heap[Ori(Model)].depth = Deepest(Levels, header.outputs)
                        /\ heap[Ori(Model)].cost >= Len(oss)
        BY DEF ReportIsTrue
    <2>1. heap[Ori(Model)].depth = Deepest(Levels, header.outputs)
        BY ReportedDepth DEF Figured, OutOfRange
    <2>2. PICK p \in [Nat -> Int] : Pending(p) /\ Len(oss) + p[Len(frames)] <= heap[Ori(Model)].cost
        BY DEF Budget
    <2>3. Len(frames) = 0 /\ Len(oss) \in Nat
        BY DEF PrintInv, PhaseInv
    <2>4. p[0] = 0
        BY <2>2 DEF Pending
    <2>5. Len(oss) <= heap[Ori(Model)].cost
        BY <2>2, <2>3, <2>4
    <2>6. QED
        BY <2>1, <2>5
<1>2. QED
    BY <1>1, PrintInvariance, MainFigures, DriversAreUnique, MainBudget, PTL

=============================================================================
