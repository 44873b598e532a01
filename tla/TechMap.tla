------------------------------ MODULE TechMap ------------------------------
(***************************************************************************)
(* The technology mapper's dynamic programming (DFS and transferState).    *)
(* DFS walks the gate DAG depth first and leaves two DpStates at each      *)
(* node: one whose network of library cells computes the node's function   *)
(* (ori, inverse = 0) and one for its complement (inv, inverse = 1).  A    *)
(* DpState is a heap object shared by pointer: a node's two states and the *)
(* sons of a state are references (Id) into the heap.                      *)
(*                                                                         *)
(* A node is entered (its placeholders allocated, its frame pushed) and    *)
(* finished (its states computed, its frame popped) in two steps, so that  *)
(* what an unfinished call leaves in memory while its callees run is part  *)
(* of the state.                                                           *)
(***************************************************************************)
EXTENDS Netlist, SequencesExt

CONSTANTS
    Netlists,     \* the netlists that may have been read
    CostMax,      \* the largest long double
    HalfUlp,      \* half the gap between CostMax and its predecessor
    DepthMax,     \* the largest int64_t
    Null          \* a null pointer

VARIABLES
    dag,          \* the netlist, as the reader left it
    stack,        \* the active calls of DFS, the last one running
    dp,           \* dp[n][inverse]: the DpState of node n
    heap          \* every DpState allocated so far

vars == <<dag, stack, dp, heap>>

(***************************************************************************)
(* A DpState's address.  The two placeholders of a node are its "dp"       *)
(* objects; transferState(p, state, v) allocates the others of pass v, and *)
(* "head" is t3 (v = 0) or t4 (v = 1).                                     *)
(***************************************************************************)
Kind == {"dp", "t1", "t2", "aoi21", "aoi12", "aoi22", "head"}
Id == Vertex \X Bit \X Kind

-----------------------------------------------------------------------------
(* Netlists                                                                *)

Src(p) == dag.src[p]
IsLeaf(p) == p \in dag.leaf

\* num_fan_out.
FanOut(n) == Uses(dag, n)

ASSUME ConstantsAssumption ==
    /\ IsFiniteSet(Node)
    /\ Model \notin Node
    /\ CostMax \in Nat \ {0}
    /\ HalfUlp \in Nat \ {0}
    /\ DepthMax \in Nat \ {0}
    /\ Null \notin Id

ASSUME NetlistsAssumption == \A d \in Netlists : WellFormed(d)

-----------------------------------------------------------------------------
(* DpStates                                                                *)

(***************************************************************************)
(* Costs are long doubles.  A sum past CostMax rounds back to it until it  *)
(* is half a gap away, then it is infinite.  (That sums below CostMax      *)
(* round as well is left out, and the roundings of one update are taken    *)
(* together: this can change which of two nearly equal covers wins, never  *)
(* whether one does.)  A depth is an int64_t that wraps.                   *)
(***************************************************************************)
Inf == CostMax + HalfUlp
Rounded(sum) == IF sum <= CostMax THEN sum ELSE IF sum < Inf THEN CostMax ELSE Inf
Max2(x, y) == IF x > y THEN x ELSE y
\* Mutant: a cell adds nothing to the depth.
DeeperFlat(d) == d
Deeper(d) == IF d = DepthMax THEN -DepthMax - 1 ELSE d + 1

\* What the generated names add to a node's own, an output's and a leaf's adding nothing.
Tag == {"", "NOR2", "NAND2", "INV", "AIO21", "AIO12", "AOI22", "HEAD_INV",
        "virtually_inverse", "virtually_inverse_HEAD_INV"}

DpState == [name : Vertex \X Tag, leaf : BOOLEAN, cell : CellType \cup {"NONE"},
            sons : Seq(Id), cost : Int, depth : Int, fn : [Assign -> Bit]]

NoFn == [x \in Assign |-> 0]

\* An address at which nothing has been allocated: worse than any state.
NoState == [name |-> <<Model, "">>, leaf |-> FALSE, cell |-> "NONE", sons |-> <<>>,
            cost |-> Inf, depth |-> DepthMax, fn |-> NoFn]

\* makeDpState: allocated, nothing assigned yet.
Placeholder == [name |-> <<Model, "">>, leaf |-> FALSE, cell |-> "UNDEFINED", sons |-> <<>>,
                cost |-> CostMax, depth |-> DepthMax, fn |-> NoFn]

(***************************************************************************)
(* A state given its name, cell and sons and then brought up to date       *)
(* (DpStateImpl::update), states being the states its sons refer to.  fn,  *)
(* what the state drives, is the model's own: computed here, once.         *)
(***************************************************************************)
CellFn(cell, states) ==
    LET in(i, x) == IF i <= Len(states) THEN states[i].fn[x] ELSE 0
    IN  [x \in Assign |-> CellOut(cell, in(1, x), in(2, x), in(3, x), in(4, x))]

\* Mutant: the depth of the last son of an AOI22 is forgotten.
UpdatedThreeSons(name, cell, sons, states) ==
    LET cost(i)  == IF i <= Len(states) THEN states[i].cost ELSE 0
        depth(i) == IF i <= Len(states) THEN states[i].depth ELSE 0
    IN  [name  |-> name, leaf |-> FALSE, cell |-> cell, sons |-> sons,
         cost  |-> Rounded(cost(1) + cost(2) + cost(3) + cost(4) + 1),
         depth |-> Deeper(Max2(0, Max2(Max2(depth(1), depth(2)), depth(3)))),
         fn    |-> CellFn(cell, states)]

Updated(name, cell, sons, states) ==
    LET cost(i)  == IF i <= Len(states) THEN states[i].cost ELSE 0
        depth(i) == IF i <= Len(states) THEN states[i].depth ELSE 0
    IN  [name  |-> name, leaf |-> FALSE, cell |-> cell, sons |-> sons,
         cost  |-> Rounded(cost(1) + cost(2) + cost(3) + cost(4) + 1),
         depth |-> Deeper(Max2(0, Max2(Max2(depth(1), depth(2)), Max2(depth(3), depth(4))))),
         fn    |-> CellFn(cell, states)]

\* States whose sons are in the heap already, and an INV on a state being made.
States(sons) == [i \in DOMAIN sons |-> heap[sons[i]]]
OnHeap(name, cell, sons) == Updated(name, cell, sons, States(sons))
InvOf(name, son, state) == Updated(name, "INV", <<son>>, <<state>>)

\* ONE or ZERO: a state without sons is never updated, its figures are set.
Constant(name, bit) ==
    [name |-> name, leaf |-> FALSE, cell |-> IF bit = 1 THEN "ONE" ELSE "ZERO",
     sons |-> <<>>, cost |-> 1, depth |-> 1, fn |-> [x \in Assign |-> bit]]

\* An input's ori: it has no cell.
Input(p) == [name |-> <<p, "">>, leaf |-> TRUE, cell |-> "UNDEFINED", sons |-> <<>>,
             cost |-> 0, depth |-> 0, fn |-> dag.fn[p]]

\* Mutant: the comparison reversed.
BetterReversed(b, a) == b.cost > a.cost \/ (b.cost = a.cost /\ b.depth > a.depth)

Better(b, a) == b.cost < a.cost \/ (b.cost = a.cost /\ b.depth < a.depth)

-----------------------------------------------------------------------------
(* transferState: the covers of one two-input gate                         *)

\* Mutant: a gate is absorbed however often it is used.
AbsorbableShared(n) == ~IsLeaf(n) /\ Len(Src(n)) = 2

Absorbable(n) == ~IsLeaf(n) /\ FanOut(n) = 1 /\ Len(Src(n)) = 2

Base(p, v) == BaseCover(CoverState(dag.gate[p], v))

\* Mutant: the cover takes the node's own name, without a suffix.
BaseStateUnnamed(p, v) == LET c == Base(p, v) IN
    OnHeap(<<p, "">>, c.cell, <<dp[Src(p)[1]][c.ia], dp[Src(p)[2]][c.ib]>>)

BaseState(p, v) == LET c == Base(p, v) IN
    OnHeap(<<p, c.cell>>, c.cell, <<dp[Src(p)[1]][c.ia], dp[Src(p)[2]][c.ib]>>)

\* At most one inversion matches, so the loops over inv_in keep one candidate.
AOI21State(p, v) ==
    LET l == Src(p)[1]   r == Src(p)[2]
        invs == AOI21Inv(dag.gate[p], dag.gate[l], v)
        i == CHOOSE j \in invs : TRUE
    IN  IF ~Absorbable(l) \/ invs = {} THEN NoState
        ELSE OnHeap(<<p, "AIO21">>, "AOI21",
                    <<dp[Src(l)[1]][i[1]], dp[Src(l)[2]][i[2]], dp[r][i[3]]>>)

AOI12State(p, v) ==
    LET l == Src(p)[1]   r == Src(p)[2]
        invs == AOI12Inv(dag.gate[p], dag.gate[r], v)
        i == CHOOSE j \in invs : TRUE
    IN  IF ~Absorbable(r) \/ invs = {} THEN NoState
        ELSE OnHeap(<<p, "AIO12">>, "AOI12",
                    <<dp[l][i[1]], dp[Src(r)[1]][i[2]], dp[Src(r)[2]][i[3]]>>)

\* Mutant: the absorbed gates' inputs in the wrong order.
AOI22StateCrossed(p, v) ==
    LET l == Src(p)[1]   r == Src(p)[2]
        invs == AOI22Inv(dag.gate[p], dag.gate[l], dag.gate[r], v)
        i == CHOOSE j \in invs : TRUE
    IN  IF ~Absorbable(l) \/ ~Absorbable(r) \/ invs = {} THEN NoState
        ELSE OnHeap(<<p, "AOI22">>, "AOI22",
                    <<dp[Src(l)[1]][i[1]], dp[Src(r)[1]][i[2]],
                      dp[Src(l)[2]][i[3]], dp[Src(r)[2]][i[4]]>>)

AOI22State(p, v) ==
    LET l == Src(p)[1]   r == Src(p)[2]
        invs == AOI22Inv(dag.gate[p], dag.gate[l], dag.gate[r], v)
        i == CHOOSE j \in invs : TRUE
    IN  IF ~Absorbable(l) \/ ~Absorbable(r) \/ invs = {} THEN NoState
        ELSE OnHeap(<<p, "AOI22">>, "AOI22",
                    <<dp[Src(l)[1]][i[1]], dp[Src(l)[2]][i[2]],
                      dp[Src(r)[1]][i[3]], dp[Src(r)[2]][i[4]]>>)

\* What pass v leaves at p's addresses; v asks for the complement.
Transfer(p, v) ==
    LET t1 == BaseState(p, v)
    IN  [dp    |-> heap[<<p, v, "dp">>],
         t1    |-> t1,
         t2    |-> IF Base(p, v).head = 0 THEN NoState
                   ELSE InvOf(<<p, "INV">>, <<p, v, "t1">>, t1),
         aoi21 |-> AOI21State(p, v),
         aoi12 |-> AOI12State(p, v),
         aoi22 |-> AOI22State(p, v),
         head  |-> NoState]

\* releaseState(a, b): which of the two a refers to afterwards.
Release(c, a, b) == IF Better(c[b], c[a]) THEN b ELSE a

\* What state refers to after a pass that left c: an absent candidate never wins.
Winner(c, base) ==
    Release(c, Release(c, Release(c, Release(c, "dp", base), "aoi21"), "aoi12"), "aoi22")

BaseKind(p, v) == IF Base(p, v).head = 0 THEN "t1" ELSE "t2"

-----------------------------------------------------------------------------
(* DFS                                                                     *)

Defined(n) == dp[n][0] # Null
Finished(n) == Defined(n) /\ n \notin Range(stack)

Running(p) == stack # <<>> /\ Last(stack) = p
Ready(p) == Running(p) /\ \A i \in DOMAIN Src(p) : Defined(Src(p)[i])

Ori(p) == <<p, 0, "dp">>
Inv(p) == <<p, 1, "dp">>

Init ==
    /\ dag \in Netlists
    /\ stack = <<Model>>
    /\ dp = [n \in Vertex |-> [v \in Bit |-> IF n = Model /\ v = 0 THEN Ori(Model) ELSE Null]]
    /\ heap = [id \in Id |-> IF id = Ori(Model) THEN Placeholder ELSE NoState]

\* Mutant: no memo test, a source is mapped again by each of its users.
EnterAgain(p) ==
    /\ Running(p)
    /\ \E i \in DOMAIN Src(p) : LET s == Src(p)[i] IN
        /\ \A j \in 1..(i - 1) : Defined(Src(p)[j])
        /\ stack' = Append(stack, s)
        /\ dp' = [dp EXCEPT ![s] = [v \in Bit |-> <<s, v, "dp">>]]
        /\ heap' = [heap EXCEPT ![Ori(s)] = Placeholder, ![Inv(s)] = Placeholder]
    /\ UNCHANGED dag

(***************************************************************************)
(* The call running on p calls DFS for its first source without states:    *)
(* the source is entered and its placeholders allocated.  A source that    *)
(* has states is returned at once, which changes nothing.                  *)
(***************************************************************************)
Enter(p) ==
    /\ Running(p)
    /\ \E i \in DOMAIN Src(p) : LET s == Src(p)[i] IN
        /\ ~Defined(s)
        /\ \A j \in 1..(i - 1) : Defined(Src(p)[j])
        /\ stack' = Append(stack, s)
        /\ dp' = [dp EXCEPT ![s] = [v \in Bit |-> <<s, v, "dp">>]]
        /\ heap' = [heap EXCEPT ![Ori(s)] = Placeholder, ![Inv(s)] = Placeholder]
    /\ UNCHANGED dag

\* p's placeholders filled in place, the inverse an INV behind ori.
InPlace(p, ori) == [heap EXCEPT
    ![Ori(p)] = ori,
    ![Inv(p)] = InvOf(<<p, "virtually_inverse">>, Ori(p), ori)]

FinishLeaf(p) ==
    /\ Running(p) /\ p # Model /\ IsLeaf(p)
    /\ heap' = InPlace(p, Input(p))
    /\ stack' = Front(stack)
    /\ UNCHANGED <<dag, dp>>

FinishConstant(p) ==
    /\ Running(p) /\ p # Model /\ ~IsLeaf(p) /\ Len(Src(p)) = 0
    /\ LET out == dag.gate[p].out
           ori == Constant(<<p, "">>, out)
       IN  heap' = IF FanOut(p) > 1 THEN InPlace(p, ori)
                   ELSE [heap EXCEPT ![Ori(p)] = ori,
                            ![Inv(p)] = Constant(<<p, "virtually_inverse">>, Flip(out, 1))]
    /\ stack' = Front(stack)
    /\ UNCHANGED <<dag, dp>>

\* Mutant: buffers and inverters confused.
FinishUnaryInverted(p) ==
    /\ Ready(p) /\ p # Model /\ Len(Src(p)) = 1
    /\ LET isSame == dag.gate[p].a = dag.gate[p].out
       IN  heap' = InPlace(p, OnHeap(<<p, "">>, "SAME",
                                     <<dp[Src(p)[1]][Truth(isSame)]>>))
    /\ stack' = Front(stack)
    /\ UNCHANGED <<dag, dp>>

FinishUnary(p) ==
    /\ Ready(p) /\ p # Model /\ Len(Src(p)) = 1
    /\ LET isSame == dag.gate[p].a = dag.gate[p].out
       IN  heap' = InPlace(p, OnHeap(<<p, "">>, "SAME",
                                     <<dp[Src(p)[1]][Truth(~isSame)]>>))
    /\ stack' = Front(stack)
    /\ UNCHANGED <<dag, dp>>

(***************************************************************************)
(* Both passes of transferState, then an INV on each result: t3 = !inv may *)
(* replace ori, and t4 = !ori (of the ori before that) replaces inv        *)
(* whatever inv had found.                                                 *)
(***************************************************************************)
FinishBinary(p) ==
    /\ Ready(p) /\ p # Model /\ Len(Src(p)) = 2
    /\ \E c \in {Transfer(p, 0)}, d \in {Transfer(p, 1)} :
       \E k \in {Winner(c, BaseKind(p, 0))}, l \in {Winner(d, BaseKind(p, 1))} :
       LET t3 == InvOf(<<p, "HEAD_INV">>, <<p, 1, l>>, d[l])
           t4 == InvOf(<<p, "virtually_inverse_HEAD_INV">>, <<p, 0, k>>, c[k])
       IN  /\ heap' = [id \in Id |->
                CASE id[1] # p            -> heap[id]
                  [] id = <<p, 0, "head">> -> t3
                  [] id = <<p, 1, "head">> -> t4
                  [] OTHER                 -> IF id[2] = 0 THEN c[id[3]] ELSE d[id[3]]]
           /\ dp' = [dp EXCEPT ![p] = [v \in Bit |->
                IF v = 1 THEN <<p, 1, "head">>
                ELSE IF Better(t3, c[k]) THEN <<p, 0, "head">> ELSE <<p, 0, k>>]]
    /\ stack' = Front(stack)
    /\ UNCHANGED dag

\* Mutant: the outputs keep the names of their covers.
FinishModelUnnamed ==
    /\ Ready(Model)
    /\ heap' = [heap EXCEPT ![Ori(Model)].sons =
                    [i \in DOMAIN Src(Model) |-> dp[Src(Model)[i]][0]]]
    /\ stack' = Front(stack)
    /\ UNCHANGED <<dag, dp>>

\* The model's figures.
TotalCost(refs) ==
    LET total[k \in 0..Len(refs)] == IF k = 0 THEN 0 ELSE Rounded(total[k - 1] + heap[refs[k]].cost)
    IN  total[Len(refs)]

GreatestDepth(refs) == Max({0} \cup {heap[r].depth : r \in Range(refs)})

(***************************************************************************)
(* The model's call ends: its state lists the outputs' states, which take  *)
(* the outputs' names (a state's address begins with its node).  update    *)
(* and the two decrements after it leave the sum and the maximum.          *)
(***************************************************************************)
FinishModel ==
    /\ Ready(Model)
    /\ LET refs == [i \in DOMAIN Src(Model) |-> dp[Src(Model)[i]][0]]
           total == [name  |-> <<Model, "">>, leaf |-> FALSE, cell |-> "UNDEFINED", sons |-> refs,
                     cost  |-> TotalCost(refs), depth |-> GreatestDepth(refs),
                     fn    |-> NoFn]
       IN  heap' = [id \in Id |->
               IF id = Ori(Model) THEN total
               ELSE IF id \in Range(refs) THEN [heap[id] EXCEPT !.name = <<id[1], "">>]
               ELSE heap[id]]
    /\ stack' = Front(stack)
    /\ UNCHANGED <<dag, dp>>

DFSStep ==
    \/ \E p \in Vertex :
        \/ Enter(p)
        \/ FinishLeaf(p)
        \/ FinishConstant(p)
        \/ FinishUnary(p)
        \/ FinishBinary(p)
    \/ FinishModel

\* DFS has returned to main; any other state without a successor is a deadlock.
Returned == stack = <<>> /\ UNCHANGED vars

Next == DFSStep \/ Returned

Spec == Init /\ [][Next]_vars

-----------------------------------------------------------------------------
(* Properties                                                              *)

(***************************************************************************)
(* Every variable has its type (the model's own figures apart, which are   *)
(* sums over the outputs).  A node that has one state has both (the model  *)
(* has only ori), and they are states of that node.                        *)
(***************************************************************************)
TypeOK ==
    /\ WellFormed(dag)
    /\ stack \in Seq(Vertex)
    /\ dp \in [Vertex -> [Bit -> Id \cup {Null}]]
    /\ DOMAIN heap = Id
    /\ \A id \in Id : IF id[1] = Model THEN heap[id].sons \in Seq(Id) ELSE heap[id] \in DpState
    /\ dp[Model][0] = Ori(Model)
    /\ \A n \in Node, v \in Bit :
        Defined(n) => dp[n][v] \in Id /\ dp[n][v][1] = n /\ heap[dp[n][v]].cell # "NONE"

\* A gate's INV stands on a placeholder: no cover had beaten the largest cost.
Overflowed == \E id \in Id : id[1] # Model /\ \E i \in DOMAIN heap[id].sons :
    LET son == heap[heap[id].sons[i]] IN son.cell = "UNDEFINED" /\ ~son.leaf

(***************************************************************************)
(* The mapping is correct: when DFS has returned from a node, its two      *)
(* states drive the node's function and its complement, whatever cells     *)
(* were chosen and whatever gates they absorbed, unless the cost of some   *)
(* gate had passed the largest long double.                                *)
(***************************************************************************)
EquivalentStates == Overflowed \/
    \A n \in Node : Finished(n) =>
        \A v \in Bit, x \in Assign : heap[dp[n][v]].fn[x] = Flip(dag.fn[n][x], v)

\* The costs of the netlists at hand stay within a long double.
NoOverflow == ~Overflowed

(***************************************************************************)
(* What a state was computed to drive is still what its cell drives from   *)
(* its sons as they are now: no later step, on this node or another,       *)
(* changes a state behind the back of the states that refer to it.         *)
(***************************************************************************)
NetworkConsistent == \A id \in Id :
    heap[id].cell \notin {"NONE", "UNDEFINED"} =>
        heap[id].fn = CellFn(heap[id].cell, States(heap[id].sons))

(***************************************************************************)
(* No state is built from a half-built one: the sons of a state belong to  *)
(* the same node or to one whose call has returned, so the memo test at    *)
(* the head of DFS never hands out a placeholder still to be filled.       *)
(***************************************************************************)
NoHalfBuiltSons == \A id \in Id : \A i \in DOMAIN heap[id].sons :
    LET son == heap[id].sons[i]
    IN  heap[son].cell # "NONE" /\ (son[1] = id[1] \/ Finished(son[1]))

(***************************************************************************)
(* A node is mapped once: after its call has returned its two references   *)
(* never change, and of the states they lead to nothing but the name does  *)
(* (an output takes its own name when the model's call ends).              *)
(***************************************************************************)
MappedOnce == [][\A n \in Node, v \in Bit : Finished(n) =>
    /\ dp'[n][v] = dp[n][v]
    /\ [heap'[dp[n][v]] EXCEPT !.name = <<>>] = [heap[dp[n][v]] EXCEPT !.name = <<>>] ]_vars

=============================================================================
