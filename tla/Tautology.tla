----------------------------- MODULE Tautology -----------------------------
(***************************************************************************)
(* The tautology checker: SOPFactory::parseFromFile reads the cubes,       *)
(* BddFactory::genFromSop makes a BDD of every cube, BDDOperator::OR joins *)
(* them by Shannon expansion and travelBDD looks for a path to a FALSE     *)
(* leaf.  groundTruth, which main no longer calls, is the judge.           *)
(***************************************************************************)
EXTENDS Integers, Sequences, FiniteSets

CONSTANT Files   \* sequences of lines, a line being a sequence of words

VARIABLES
    file, phase,  \* "header", "parse", "line", "gen", "or", "travel", "done"; "crashed": an exception or CHECK
    pos,          \* the next line, then the next term
    vars_num, terms,
    heap,         \* the BDD nodes allocated; a reference is a place in it, 0 is null
    bdds,         \* bdds_array
    col,          \* the words read of a line, then the next variable of a term
    root, false_leaf,  \* two locals of genFromSop
    stack, ret,   \* calls of OR, and the node the last one returned
    todo,         \* calls of travelBDD still to be made, the next one first
    answer

cubes == <<file, vars_num, terms>>
gen == <<col, root, false_leaf>>
vars == <<cubes, phase, pos, heap, bdds, gen, stack, ret, todo, answer>>

Words == {"01", "10", "11"}  \* TRUE, COMPLEMENT, IRRELEVANCE
Variables == 1..vars_num
Assignments == [Variables -> BOOLEAN]

\* fn is what a node computes, fixed when it is made; the code has no such field.
Leaf(b) == [is_leaf |-> TRUE, leaf_value |-> b, var_id |-> 0, true_son |-> 0, false_son |-> 0,
            is_visited |-> FALSE, fn |-> IF b THEN Assignments ELSE {}]
Inner(v, t, f) ==
    [is_leaf |-> FALSE, leaf_value |-> FALSE, var_id |-> v, true_son |-> t, false_son |-> f,
     is_visited |-> FALSE,
     fn |-> {a \in Assignments : a \in heap[IF a[v] THEN t ELSE f].fn}]

Init ==
    /\ file \in Files
    /\ phase = "header" /\ pos = 1
    /\ vars_num = 0 /\ terms = <<>> /\ heap = <<>> /\ bdds = <<>>
    /\ col = 0 /\ root = 0 /\ false_leaf = 0
    /\ stack = <<>> /\ ret = 0 /\ todo = <<>> /\ answer = FALSE

-----------------------------------------------------------------------------
(* parseFromFile                                                           *)

\* The first line is dropped, whatever it says; there may be none.
SkipHeader ==
    /\ phase = "header"
    /\ phase' = "parse" /\ pos' = 2
    /\ UNCHANGED <<cubes, heap, bdds, gen, stack, ret, todo, answer>>

BeginLine ==
    /\ phase = "parse" /\ pos <= Len(file)
    /\ phase' = "line"
    /\ terms' = Append(terms, <<>>)
    /\ col' = 0
    /\ UNCHANGED <<file, vars_num, pos, heap, bdds, root, false_leaf, stack, ret, todo, answer>>

\* A word that is not supported is logged, counted and dropped: what follows it moves up.
ReadWord ==
    /\ phase = "line" /\ col < Len(file[pos])
    /\ LET w == file[pos][col + 1]
       IN  terms' = IF w \in Words THEN [terms EXCEPT ![Len(terms)] = Append(@, w)] ELSE terms
    /\ col' = col + 1
    /\ UNCHANGED <<file, phase, vars_num, pos, heap, bdds, root, false_leaf, stack, ret, todo, answer>>

EndLine ==
    /\ phase = "line" /\ col = Len(file[pos])
    /\ phase' = "parse"
    /\ vars_num' = IF vars_num = 0 THEN col ELSE vars_num
    /\ pos' = pos + 1
    /\ UNCHANGED <<file, terms, heap, bdds, gen, stack, ret, todo, answer>>

EndParse ==
    /\ phase = "parse" /\ pos > Len(file)
    /\ phase' = "gen" /\ pos' = 1
    /\ UNCHANGED <<cubes, heap, bdds, gen, stack, ret, todo, answer>>

-----------------------------------------------------------------------------
(* genFromSop                                                              *)

BeginTerm ==
    /\ phase = "gen" /\ pos <= Len(terms) /\ root = 0
    /\ heap' = Append(Append(heap, Leaf(TRUE)), Leaf(FALSE))
    /\ root' = Len(heap) + 1 /\ false_leaf' = Len(heap) + 2
    /\ col' = vars_num
    /\ UNCHANGED <<cubes, phase, pos, bdds, stack, ret, todo, answer>>

InTerm == phase = "gen" /\ root # 0 /\ col > 0

Literal(w) == IF w = "01" THEN Inner(col, root, false_leaf) ELSE Inner(col, false_leaf, root)

Column ==
    /\ InTerm /\ col <= Len(terms[pos])
    /\ LET w == terms[pos][col]
       IN  IF w = "11" THEN UNCHANGED <<heap, root>>
           ELSE heap' = Append(heap, Literal(w)) /\ root' = Len(heap) + 1
    /\ col' = col - 1
    /\ UNCHANGED <<cubes, phase, pos, bdds, false_leaf, stack, ret, todo, answer>>

\* Mutant: what is missing of a cube is taken for irrelevant.
SkipMissing ==
    /\ InTerm /\ col > Len(terms[pos])
    /\ col' = col - 1
    /\ UNCHANGED <<cubes, phase, pos, heap, bdds, root, false_leaf, stack, ret, todo, answer>>

\* term.at throws, and nothing catches it.
ThrowShort ==
    /\ InTerm /\ col > Len(terms[pos])
    /\ phase' = "crashed"
    /\ UNCHANGED <<cubes, pos, heap, bdds, gen, stack, ret, todo, answer>>

EndTerm ==
    /\ phase = "gen" /\ root # 0 /\ col = 0
    /\ bdds' = Append(bdds, root)
    /\ pos' = pos + 1 /\ root' = 0
    /\ UNCHANGED <<cubes, phase, heap, col, false_leaf, stack, ret, todo, answer>>

\* An array of OR: its places, of which erasing leaves some, and the reference at each.
Call(bs) == [bdds |-> bs, at |-> "entry", var |-> 0, true_son |-> 0]

\* Mutant: an empty array is left to OR's own test.
EndGenUnchecked ==
    /\ phase = "gen" /\ pos > Len(terms)
    /\ phase' = "or" /\ stack' = <<Call(bdds)>>
    /\ UNCHANGED <<cubes, pos, heap, bdds, gen, ret, todo, answer>>

\* The first call of OR checks that there is a cube.
EndGen ==
    /\ phase = "gen" /\ pos > Len(terms)
    /\ IF bdds = <<>> THEN phase' = "crashed" /\ UNCHANGED stack
       ELSE phase' = "or" /\ stack' = <<Call(bdds)>>
    /\ UNCHANGED <<cubes, pos, heap, bdds, gen, ret, todo, answer>>

-----------------------------------------------------------------------------
(* OR                                                                      *)

Top == stack[Len(stack)]
Callers == SubSeq(stack, 1, Len(stack) - 1)
Entering == phase = "or" /\ ret = 0 /\ stack # <<>> /\ Top.at = "entry"
TrueLeaves(bs) == {i \in DOMAIN bs : heap[bs[i]].is_leaf /\ heap[bs[i]].leaf_value}
Inners(bs) == [i \in {i \in DOMAIN bs : ~heap[bs[i]].is_leaf} |-> bs[i]]

ReturnTrue ==
    /\ Entering
    /\ \E i \in TrueLeaves(Top.bdds) :
        /\ \A j \in TrueLeaves(Top.bdds) : i <= j
        /\ ret' = Top.bdds[i]
    /\ stack' = Callers
    /\ UNCHANGED <<cubes, phase, pos, heap, bdds, gen, todo, answer>>

ReturnFalse ==
    /\ Entering /\ TrueLeaves(Top.bdds) = {} /\ DOMAIN Inners(Top.bdds) = {}
    /\ heap' = Append(heap, Leaf(FALSE))
    /\ ret' = Len(heap) + 1
    /\ stack' = Callers
    /\ UNCHANGED <<cubes, phase, pos, bdds, gen, todo, answer>>

\* Mutant: the variable of the first root is taken.
IsRootVar(v, bs) == \E i \in DOMAIN bs : v = heap[bs[i]].var_id /\ \A j \in DOMAIN bs : i <= j

\* The first variable of the order (vars_rank is the identity) among the roots.
IsFirstVar(v, bs) ==
    /\ \E i \in DOMAIN bs : heap[bs[i]].var_id = v
    /\ \A i \in DOMAIN bs : v <= heap[bs[i]].var_id

Cofactors(bs, v, b) ==
    [i \in DOMAIN bs |->
        IF heap[bs[i]].var_id # v THEN bs[i]
        ELSE IF b THEN heap[bs[i]].true_son ELSE heap[bs[i]].false_son]

Split ==
    /\ Entering /\ TrueLeaves(Top.bdds) = {} /\ DOMAIN Inners(Top.bdds) # {}
    /\ \E v \in Variables :
        /\ IsFirstVar(v, Inners(Top.bdds))
        /\ stack' = Append(Append(Callers, [Top EXCEPT !.bdds = Inners(@), !.at = "true", !.var = v]),
                           Call(Cofactors(Inners(Top.bdds), v, TRUE)))
    /\ UNCHANGED <<cubes, phase, pos, heap, bdds, gen, ret, todo, answer>>

Returned == phase = "or" /\ ret # 0

\* Mutant: both recursive calls get the true sons.
OtherBranchSame ==
    /\ Returned /\ stack # <<>> /\ Top.at = "true"
    /\ stack' = Append(Append(Callers, [Top EXCEPT !.at = "false", !.true_son = ret]),
                       Call(Cofactors(Top.bdds, Top.var, TRUE)))
    /\ ret' = 0
    /\ UNCHANGED <<cubes, phase, pos, heap, bdds, gen, todo, answer>>

OtherBranch ==
    /\ Returned /\ stack # <<>> /\ Top.at = "true"
    /\ stack' = Append(Append(Callers, [Top EXCEPT !.at = "false", !.true_son = ret]),
                       Call(Cofactors(Top.bdds, Top.var, FALSE)))
    /\ ret' = 0
    /\ UNCHANGED <<cubes, phase, pos, heap, bdds, gen, todo, answer>>

Join ==
    /\ Returned /\ stack # <<>> /\ Top.at = "false"
    /\ heap' = Append(heap, Inner(Top.var, Top.true_son, ret))
    /\ ret' = Len(heap) + 1
    /\ stack' = Callers
    /\ UNCHANGED <<cubes, phase, pos, bdds, gen, todo, answer>>

EndOr ==
    /\ Returned /\ stack = <<>>
    /\ phase' = "travel"
    /\ todo' = <<ret>>
    /\ UNCHANGED <<cubes, pos, heap, bdds, gen, stack, ret, answer>>

-----------------------------------------------------------------------------
(* travelBDD                                                               *)

Travelling == phase = "travel" /\ todo # <<>>
Node == heap[Head(todo)]

\* A call that returns false makes every call before it return false.
FindFalse ==
    /\ Travelling /\ Node.is_leaf /\ ~Node.leaf_value
    /\ phase' = "done" /\ answer' = FALSE
    /\ UNCHANGED <<cubes, pos, heap, bdds, gen, stack, ret, todo>>

PassBy ==
    /\ Travelling
    /\ IF Node.is_leaf THEN Node.leaf_value ELSE Node.is_visited
    /\ todo' = Tail(todo)
    /\ UNCHANGED <<cubes, phase, pos, heap, bdds, gen, stack, ret, answer>>

\* Mutant: the false son is forgotten.
VisitTrueSon ==
    /\ Travelling /\ ~Node.is_leaf /\ ~Node.is_visited
    /\ heap' = [heap EXCEPT ![Head(todo)].is_visited = TRUE]
    /\ todo' = <<Node.true_son>> \o Tail(todo)
    /\ UNCHANGED <<cubes, phase, pos, bdds, gen, stack, ret, answer>>

\* Mutant: the flag is not set but tested, for the son.
VisitAgain ==
    /\ Travelling /\ ~Node.is_leaf /\ ~Node.is_visited
    /\ todo' = <<Node.true_son, Node.false_son>> \o todo
    /\ UNCHANGED <<cubes, phase, pos, heap, bdds, gen, stack, ret, answer>>

Visit ==
    /\ Travelling /\ ~Node.is_leaf /\ ~Node.is_visited
    /\ heap' = [heap EXCEPT ![Head(todo)].is_visited = TRUE]
    /\ todo' = <<Node.true_son, Node.false_son>> \o Tail(todo)
    /\ UNCHANGED <<cubes, phase, pos, bdds, gen, stack, ret, answer>>

EndTravel ==
    /\ phase = "travel" /\ todo = <<>>
    /\ phase' = "done" /\ answer' = TRUE
    /\ UNCHANGED <<cubes, pos, heap, bdds, gen, stack, ret, todo>>

Step ==
    \/ SkipHeader
    \/ BeginLine
    \/ ReadWord
    \/ EndLine
    \/ EndParse
    \/ BeginTerm
    \/ Column
    \/ ThrowShort
    \/ EndTerm
    \/ EndGen
    \/ ReturnTrue
    \/ ReturnFalse
    \/ Split
    \/ OtherBranch
    \/ Join
    \/ EndOr
    \/ FindFalse
    \/ PassBy
    \/ Visit
    \/ EndTravel

Stopped == phase \in {"done", "crashed"} /\ UNCHANGED vars

Next == Step \/ Stopped

\* One thread: main runs until it returns or is terminated.
Spec == Init /\ [][Next]_vars /\ WF_vars(Step)

-----------------------------------------------------------------------------
(* groundTruth                                                             *)

Satisfies(a, term) == \A v \in Variables : term[v] # "11" => (a[v] <=> term[v] = "01")
Output(a) == \E i \in DOMAIN terms : Satisfies(a, terms[i])
GroundTruth == \A a \in Assignments : Output(a)

\* A cube without a column for each variable; the first row that is not empty tells how many.
Short == \E i \in DOMAIN terms : Len(terms[i]) < vars_num

\* The disjunction of some nodes.
AnyOf(bs) == UNION {heap[bs[i]].fn : i \in DOMAIN bs}

-----------------------------------------------------------------------------
(* Properties                                                              *)

References == DOMAIN heap
NodeType ==
    [is_leaf : BOOLEAN, leaf_value : BOOLEAN, var_id : Variables \cup {0},
     true_son : References \cup {0}, false_son : References \cup {0},
     is_visited : BOOLEAN, fn : SUBSET Assignments]

Arrays == UNION {[I -> References] : I \in (SUBSET DOMAIN bdds) \ {{}}}

(***************************************************************************)
(* Every variable has its type; no call of OR and no node holds a null     *)
(* reference where the code follows one.                                   *)
(***************************************************************************)
TypeOK ==
    /\ phase \in {"header", "parse", "line", "gen", "or", "travel", "done", "crashed"}
    /\ pos \in Nat \ {0} /\ vars_num \in Nat
    /\ terms \in Seq(Seq(Words))
    /\ phase \in {"header", "parse", "line"} => heap = <<>>
    /\ heap \in Seq(NodeType)
    /\ \A r \in References : ~heap[r].is_leaf =>
            0 \notin {heap[r].var_id, heap[r].true_son, heap[r].false_son}
    /\ bdds \in Seq(References)
    /\ col \in Nat /\ {root, false_leaf, ret} \subseteq References \cup {0}
    /\ stack \in Seq([bdds : Arrays, at : {"entry", "true", "false"},
                      var : Variables \cup {0}, true_son : References \cup {0}])
    /\ todo \in Seq(References)
    /\ answer \in BOOLEAN

(***************************************************************************)
(* Along every path of every BDD made the variables increase, so that no   *)
(* variable is decided twice.  travelBDD relies on it: each path is an     *)
(* input of the function, and a FALSE leaf on it an input where it is 0.   *)
(***************************************************************************)
Ordered ==
    \A r \in References : ~heap[r].is_leaf =>
        \A s \in {heap[r].true_son, heap[r].false_son} :
            /\ s < r
            /\ ~heap[s].is_leaf => heap[r].var_id < heap[s].var_id

(***************************************************************************)
(* What OR returns to a call is the disjunction of the BDDs the call was   *)
(* given: of the cubes, at the end, and of the cofactors in between.       *)
(***************************************************************************)
ReturnsDisjunction == Returned =>
    heap[ret].fn =
        IF stack = <<>> THEN {a \in Assignments : Output(a)}
        ELSE AnyOf(Cofactors(Top.bdds, Top.var, Top.at = "true"))

(***************************************************************************)
(* The answer is the one groundTruth would have given.                     *)
(***************************************************************************)
AnswersGroundTruth == phase = "done" => (answer <=> GroundTruth)

(***************************************************************************)
(* main is terminated by an exception or a CHECK exactly for files with a  *)
(* short cube or without cubes; groundTruth would read past the cube, too. *)
(***************************************************************************)
CrashesOnBadFiles ==
    /\ phase = "crashed" => Short \/ terms = <<>>
    /\ phase \in {"or", "travel", "done"} => ~Short /\ terms # <<>>

(***************************************************************************)
(* The shared and revisited nodes do not keep main from ending.            *)
(***************************************************************************)
Ends == <>(phase \in {"done", "crashed"})

=============================================================================
