---------------------------- MODULE SequencePair ----------------------------
(***************************************************************************)
(* The sequence pair floorplanner: ConstraintGraph::construct, which       *)
(* derives the two constraint graphs from a sequence pair, and             *)
(* ConstraintGraph::floorplan, which places the modules by a pass over     *)
(* each graph, taking (distance, module) pairs from a max-heap.            *)
(***************************************************************************)
EXTENDS Integers, FiniteSets, Bags

CONSTANTS
    N,            \* the number of modules
    Problems      \* the sequence pairs and sizes that may be read

VARIABLES
    problem,      \* what parser read: pos, neg, width and length
    right,        \* horizontal_out_vertices_ of every module
    above,        \* vertical_out_vertices_ of every module
    pass,         \* how far main has come
    que,          \* the priority queue, a bag
    visited,      \* the modules marked by the pass
    x,            \* x_left_
    y             \* y_bottom_

vars == <<problem, right, above, pass, que, visited, x, y>>

ASSUME NAssumption == N \in Nat \ {0}

Modules == 0..(N - 1)

\* Both sequences list every module once; sizes are positive.
WellPosed(p) ==
    /\ {p.pos, p.neg} \subseteq [Modules -> Modules]
    /\ \A i, j \in Modules : i # j => p.pos[i] # p.pos[j] /\ p.neg[i] # p.neg[j]
    /\ {p.width, p.length} \subseteq [Modules -> Nat \ {0}]

ASSUME ProblemsAssumption == \A p \in Problems : WellPosed(p)

-----------------------------------------------------------------------------
(* construct                                                               *)

Before(seq, a, b) == \E i, j \in Modules : i < j /\ seq[i] = a /\ seq[j] = b

\* The modules that come behind a in pos_seq, by their order in neg_seq.
Right(p, a) == {b \in Modules : Before(p.pos, a, b) /\ Before(p.neg, a, b)}
Above(p, a) == {b \in Modules : Before(p.pos, a, b) /\ Before(p.neg, b, a)}

\* The modules with in-degree 0.
Roots(out) == {v \in Modules : \A u \in Modules : v \notin out[u]}

Entries(dist, modules) == {<<dist, v>> : v \in modules}

Init ==
    /\ problem \in Problems
    /\ right = [a \in Modules |-> {}]
    /\ above = [a \in Modules |-> {}]
    /\ pass = "construct"
    /\ que = EmptyBag
    /\ visited = {}
    /\ x = [v \in Modules |-> 0]
    /\ y = [v \in Modules |-> 0]

Construct ==
    /\ pass = "construct"
    /\ right' = [a \in Modules |-> Right(problem, a)]
    /\ above' = [a \in Modules |-> Above(problem, a)]
    /\ pass' = "horizontal"
    /\ que' = SetToBag(Entries(0, Roots(right')))
    /\ UNCHANGED <<problem, visited, x, y>>

-----------------------------------------------------------------------------
(* floorplan                                                               *)

\* <<dist, u>> is the pair at the top: the largest distance and, among equals, the last module.
Greatest(dist, u) ==
    /\ BagIn(<<dist, u>>, que)
    /\ \A s \in BagToSet(que) : s[1] < dist \/ (s[1] = dist /\ s[2] <= u)

Popped(dist, u) == que (-) SetToBag({<<dist, u>>})

\* Mutant: an edge is as long as the module it leads to.
ReachedByTarget(dist, size, out, u) == {<<dist + size[v], v>> : v \in out[u]}

\* The entries that placing u at dist pushes.
Reached(dist, size, out, u) == Entries(dist + size[u], out[u])

\* Mutant: a module that has been placed stays at the top.
SkipVisitedKept(dist, u) ==
    /\ pass = "horizontal" /\ Greatest(dist, u)
    /\ u \in visited
    /\ UNCHANGED vars

\* A module that has been placed is passed over.
SkipVisited(dist, u) ==
    /\ pass = "horizontal" /\ Greatest(dist, u)
    /\ u \in visited
    /\ que' = Popped(dist, u)
    /\ UNCHANGED <<problem, right, above, pass, visited, x, y>>

PlaceHorizontally(dist, u) ==
    /\ pass = "horizontal" /\ Greatest(dist, u)
    /\ u \notin visited
    /\ visited' = visited \cup {u}
    /\ x' = [x EXCEPT ![u] = dist]
    /\ que' = Popped(dist, u) (+) SetToBag(Reached(dist, problem.width, right, u))
    /\ UNCHANGED <<problem, right, above, pass, y>>

\* The horizontal pass ends and the vertical one begins with its own queue and marks.
BeginVertical ==
    /\ pass = "horizontal" /\ que = EmptyBag
    /\ pass' = "vertical"
    /\ que' = SetToBag(Entries(0, Roots(above)))
    /\ visited' = {}
    /\ UNCHANGED <<problem, right, above, x, y>>

\* Mutant: a module that is marked is moved, and what stands on it is not.
PlaceVerticallyAlone(dist, u) ==
    /\ pass = "vertical" /\ Greatest(dist, u)
    /\ visited' = visited \cup {u}
    /\ y' = [y EXCEPT ![u] = dist]
    /\ que' = IF u \in visited THEN Popped(dist, u)
              ELSE Popped(dist, u) (+) SetToBag(Reached(dist, problem.length, above, u))
    /\ UNCHANGED <<problem, right, above, pass, x>>

\* Here the marks are not read: a module is placed anew each time it is taken.
PlaceVertically(dist, u) ==
    /\ pass = "vertical" /\ Greatest(dist, u)
    /\ visited' = visited \cup {u}
    /\ y' = [y EXCEPT ![u] = dist]
    /\ que' = Popped(dist, u) (+) SetToBag(Reached(dist, problem.length, above, u))
    /\ UNCHANGED <<problem, right, above, pass, x>>

EndVertical ==
    /\ pass = "vertical" /\ que = EmptyBag
    /\ pass' = "done"
    /\ UNCHANGED <<problem, right, above, que, visited, x, y>>

Step ==
    \/ Construct
    \/ \E top \in BagToSet(que) :
        \/ SkipVisited(top[1], top[2])
        \/ PlaceHorizontally(top[1], top[2])
        \/ PlaceVertically(top[1], top[2])
    \/ BeginVertical
    \/ EndVertical

Written == pass = "done" /\ UNCHANGED vars

Next == Step \/ Written

\* main is an ordinary sequential program: it runs until it ends.
Spec == Init /\ [][Next]_vars /\ WF_vars(Step)

-----------------------------------------------------------------------------
(* Properties                                                              *)

\* A module stands at 0, having no predecessor, or touches one that is placed.
Supported(v, at, size, out, placed) ==
    \/ at[v] = 0 /\ v \in Roots(out)
    \/ \E u \in placed : v \in out[u] /\ at[v] = at[u] + size[u]

(***************************************************************************)
(* Every variable has its type, and the two graphs are those of the        *)
(* problem once construct has been called.                                 *)
(***************************************************************************)
TypeOK ==
    /\ WellPosed(problem)
    /\ pass \in {"construct", "horizontal", "vertical", "done"}
    /\ IsABag(que) /\ BagToSet(que) \subseteq Nat \X Modules
    /\ visited \in SUBSET Modules
    /\ {x, y} \subseteq [Modules -> Nat]
    /\ {right, above} \subseteq [Modules -> SUBSET Modules]
    /\ pass # "construct" => \A a \in Modules : right[a] = Right(problem, a) /\ above[a] = Above(problem, a)

(***************************************************************************)
(* No module floats: whatever order the heap gives, a module that has been *)
(* placed horizontally touches on its left one that it must stand right    *)
(* of, or stands at 0 because there is none; that one is never moved       *)
(* afterwards.  When the pass ends this holds of all modules.              *)
(***************************************************************************)
TouchesLeft ==
    \A v \in IF pass \in {"vertical", "done"} THEN Modules
             ELSE IF pass = "horizontal" THEN visited ELSE {} :
        Supported(v, x, problem.width, right,
                  IF pass = "horizontal" THEN visited ELSE Modules)

(***************************************************************************)
(* In the end no module floats vertically either, although the pass moves  *)
(* modules that others have been placed on: whatever is moved moves them   *)
(* again.                                                                  *)
(***************************************************************************)
RestsOnBelow == pass = "done" =>
    \A v \in Modules : Supported(v, y, problem.length, above, Modules)

(***************************************************************************)
(* floorplan ends: the vertical pass pushes a module once per path, but    *)
(* the paths are finite.                                                   *)
(***************************************************************************)
Ends == <>(pass = "done")

(***************************************************************************)
(* The right boundary of A is on the left hand side of the left boundary   *)
(* of B when A is before B in both sequences, and modules that are not so  *)
(* related are apart vertically: no two modules overlap.                   *)
(***************************************************************************)
Apart == pass = "done" =>
    \A a \in Modules :
        /\ \A b \in right[a] : x[a] + problem.width[a] <= x[b]
        /\ \A b \in above[a] : y[a] + problem.length[a] <= y[b]

=============================================================================
