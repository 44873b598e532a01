------------------------------- MODULE RcTree -------------------------------
(***************************************************************************)
(* The RC tree delay calculator of exercise 1: Rct::read for every net of  *)
(* the file, then the four recursive passes of update_rc_timing from the   *)
(* root, each following all edges but those back to the caller's node.     *)
(***************************************************************************)
EXTENDS Integers, Sequences, FiniteSets, FiniteSetsExt, Functions

CONSTANTS
    NetName, NodeName,
    Files,        \* sequences of nets
    MaxDepth,     \* calls the machine's stack has room for
    NoNet, NoNode \* no net is being computed; nullptr

\* The files are those that are read without an error of the stream.
ASSUME RcTreeAssumption ==
    /\ Files \subseteq Seq([name : NetName, root : NodeName, caps : Seq(NodeName \X Int),
                            edges : Seq([fr : NodeName, to : NodeName, res : Int])])
    /\ MaxDepth \in Nat \ {0}
    /\ NoNet \notin NetName /\ NoNode \notin NodeName

VARIABLES
    file, phase,  \* "read", "update", "done"; "crashed": the call stack is exhausted
    pos,          \* the next net of the file
    rctrees,      \* per net name: nodes' capacitances, edges, root
    waiting,      \* the nets still to be computed, in any order (unordered_map)
    net, pass,    \* the net being computed, and which of the passes
    stack,        \* calls of the pass: node, parent, numbers of edges still to be followed
    load, delay, ldelay, beta, impulse  \* per net and node

figures == <<load, delay, ldelay, beta, impulse>>
vars == <<file, phase, pos, rctrees, waiting, net, pass, stack, figures>>

Passes == <<"load", "delay", "ldelay", "response">>

Init ==
    /\ file \in Files
    /\ phase = "read" /\ pos = 1
    /\ rctrees = <<>> /\ waiting = {}
    /\ net = NoNet /\ pass = 0 /\ stack = <<>>
    /\ load = <<>> /\ delay = <<>> /\ ldelay = <<>> /\ beta = <<>> /\ impulse = <<>>

-----------------------------------------------------------------------------
(* read                                                                    *)

Caps(n) == {n.caps[i][1] : i \in DOMAIN n.caps}
Ends2(es) == UNION {{es[i].fr, es[i].to} : i \in DOMAIN es}
LastCap(n, v) == n.caps[Max({i \in DOMAIN n.caps : n.caps[i][1] = v})][2]

\* One net of the file; a second net of a name is read into the first, whose root it takes.
ReadNet ==
    /\ phase = "read" /\ pos <= Len(file)
    /\ LET n == file[pos]
           old == IF n.name \in DOMAIN rctrees THEN rctrees[n.name] ELSE [ncap |-> <<>>, edges |-> <<>>]
           nodes == DOMAIN old.ncap \cup Caps(n) \cup Ends2(n.edges) \cup {n.root}
           ncap == [v \in nodes |-> IF v \in Caps(n) THEN LastCap(n, v)
                                    ELSE IF v \in DOMAIN old.ncap THEN old.ncap[v] ELSE 0]
       IN  rctrees' = [x \in DOMAIN rctrees \cup {n.name} |->
                           IF x # n.name THEN rctrees[x]
                           ELSE [ncap |-> ncap, edges |-> old.edges \o n.edges, root |-> n.root]]
    /\ pos' = pos + 1
    /\ UNCHANGED <<file, phase, waiting, net, pass, stack, figures>>

Zero == [x \in DOMAIN rctrees |-> [v \in DOMAIN rctrees[x].ncap |-> 0]]

EndRead ==
    /\ phase = "read" /\ pos > Len(file)
    /\ phase' = "update"
    /\ waiting' = DOMAIN rctrees
    /\ load' = Zero /\ delay' = Zero /\ ldelay' = Zero /\ beta' = Zero /\ impulse' = Zero
    /\ UNCHANGED <<file, pos, rctrees, net, pass, stack>>

-----------------------------------------------------------------------------
(* update_rc_timing                                                        *)

\* The edges from v, by their numbers, which is the order of the list.
Fanout(rct, v) == {i \in DOMAIN rct.edges : rct.edges[i].fr = v}
Frame(rct, v, parent) == [node |-> v, parent |-> parent, todo |-> Fanout(rct, v)]
Rct == rctrees[net]
Running == Passes[pass]
Top == stack[Len(stack)]
Below == stack[Len(stack) - 1]
Callers == SubSeq(stack, 1, Len(stack) - 1)

Entered(f, x, v) == [f EXCEPT ![x][v] = 0]

\* The call of the next pass on the root.
CallRoot(x, p) ==
    /\ net' = x /\ pass' = p
    /\ stack' = <<Frame(rctrees[x], rctrees[x].root, NoNode)>>
    /\ load' = IF Passes[p] = "load" THEN Entered(load, x, rctrees[x].root) ELSE load
    /\ ldelay' = IF Passes[p] = "ldelay" THEN Entered(ldelay, x, rctrees[x].root) ELSE ldelay
    /\ UNCHANGED <<delay, beta, impulse>>

NextNet(x) ==
    /\ phase = "update" /\ net = NoNet /\ x \in waiting
    /\ waiting' = waiting \ {x}
    /\ CallRoot(x, 1)
    /\ UNCHANGED <<file, phase, pos, rctrees>>

NextPass ==
    /\ phase = "update" /\ net # NoNet /\ stack = <<>>
    /\ IF pass < Len(Passes) THEN CallRoot(net, pass + 1)
       ELSE net' = NoNet /\ pass' = 0 /\ UNCHANGED <<stack, figures>>
    /\ UNCHANGED <<file, phase, pos, rctrees, waiting>>

Following == phase = "update" /\ stack # <<>> /\ Top.todo # {}
Edge == Rct.edges[Min(Top.todo)]
Advanced == [stack EXCEPT ![Len(stack)].todo = @ \ {Min(@)}]

\* Mutant: the way back is not told from the others.
BackNever == FALSE

Back == Edge.to = Top.parent

SkipParent ==
    /\ Following /\ Back
    /\ stack' = Advanced
    /\ UNCHANGED <<file, phase, pos, rctrees, waiting, net, pass, figures>>

\* What the two passes from the root assign before the call along an edge.
DelayAlong(e) == delay[net][e.fr] + e.res * load[net][e.to]

BetaAlong(e) == beta[net][e.fr] + e.res * ldelay[net][e.to]

\* These assignments, and those on entry of the callee.
Assigned(e) ==
    /\ load' = IF Running = "load" THEN Entered(load, net, e.to) ELSE load
    /\ ldelay' = IF Running = "ldelay" THEN Entered(ldelay, net, e.to) ELSE ldelay
    /\ delay' = IF Running = "delay" THEN [delay EXCEPT ![net][e.to] = DelayAlong(e)] ELSE delay
    /\ IF Running = "response"
       THEN /\ beta' = [beta EXCEPT ![net][e.to] = BetaAlong(e)]
            /\ impulse' = [impulse EXCEPT ![net][e.to] =
                              2 * BetaAlong(e) - delay[net][e.to] * delay[net][e.to]]
       ELSE UNCHANGED <<beta, impulse>>

\* Mutant: the callee is given the caller's parent.
DescendSameParent ==
    /\ Following /\ ~Back
    /\ Len(stack) < MaxDepth
    /\ stack' = Append(Advanced, Frame(Rct, Edge.to, Top.parent))
    /\ Assigned(Edge)
    /\ UNCHANGED <<file, phase, pos, rctrees, waiting, net, pass>>

Descend ==
    /\ Following /\ ~Back
    /\ Len(stack) < MaxDepth
    /\ stack' = Append(Advanced, Frame(Rct, Edge.to, Top.node))
    /\ Assigned(Edge)
    /\ UNCHANGED <<file, phase, pos, rctrees, waiting, net, pass>>

Exhaust ==
    /\ Following /\ ~Back
    /\ Len(stack) = MaxDepth
    /\ phase' = "crashed"
    /\ UNCHANGED <<file, pos, rctrees, waiting, net, pass, stack, figures>>

\* Mutant: a node's own part is added once per child.
SummedOften(f, own) ==
    LET sum == f[net][Top.node] + own * Cardinality(Fanout(Rct, Top.node))
        g == [f EXCEPT ![net][Top.node] = sum]
    IN  IF Len(stack) = 1 THEN g ELSE [g EXCEPT ![net][Below.node] = @ + sum]

\* A sum over the subtree, with the node's own part, which its caller then adds to its own.
Summed(f, own) ==
    LET sum == f[net][Top.node] + own
        g == [f EXCEPT ![net][Top.node] = sum]
    IN  IF Len(stack) = 1 THEN g ELSE [g EXCEPT ![net][Below.node] = @ + sum]

Return ==
    /\ phase = "update" /\ stack # <<>> /\ Top.todo = {}
    /\ LET c == Rct.ncap[Top.node]
       IN  /\ load' = IF Running = "load" THEN Summed(load, c) ELSE load
           /\ ldelay' = IF Running = "ldelay" THEN Summed(ldelay, c * delay[net][Top.node]) ELSE ldelay
    /\ stack' = Callers
    /\ UNCHANGED <<file, phase, pos, rctrees, waiting, net, pass, delay, beta, impulse>>

EndUpdate ==
    /\ phase = "update" /\ net = NoNet /\ waiting = {}
    /\ phase' = "done"
    /\ UNCHANGED <<file, pos, rctrees, waiting, net, pass, stack, figures>>

Step ==
    \/ ReadNet
    \/ EndRead
    \/ \E x \in waiting : NextNet(x)
    \/ NextPass
    \/ SkipParent
    \/ Descend
    \/ Exhaust
    \/ Return
    \/ EndUpdate

Stopped == phase \in {"done", "crashed"} /\ UNCHANGED vars

Next == Step \/ Stopped

\* One thread computes until it is done.
Spec == Init /\ [][Next]_vars /\ WF_vars(Step)

-----------------------------------------------------------------------------
(* The networks, apart from any traversal                                  *)

Nodes(rct) == DOMAIN rct.ncap
Edges(rct) == {rct.edges[i] : i \in DOMAIN rct.edges}
Pairs(rct) == {{e.fr, e.to} : e \in Edges(rct)}

\* The nodes the root is connected to when some pairs of nodes are cut.
Connected(rct, cut) ==
    LET C[i \in Nat] ==
            IF i = 0 THEN {rct.root}
            ELSE LET D == C[i - 1]
                 IN  D \cup {e.to : e \in {f \in Edges(rct) : f.fr \in D /\ {f.fr, f.to} \notin cut}}
    IN  C[Cardinality(Nodes(rct))]

Reached(rct) == Connected(rct, {})

\* No resistor twice, and cutting any pair that the root reaches cuts off a node.
IsTree(rct) ==
    /\ \A i, j \in DOMAIN rct.edges :
         LET d == rct.edges[i]  e == rct.edges[j]
         IN  /\ d.fr = e.fr /\ d.to = e.to => i = j
             /\ d.fr = e.to /\ d.to = e.fr => d.res = e.res
    /\ \A p \in Pairs(rct) : p \cap Reached(rct) # {} => Connected(rct, {p}) # Reached(rct)

\* The nodes behind an edge; none, when the edge leads back to the root.
Behind(rct, e) ==
    LET C == Connected(rct, {{e.fr, e.to}})
    IN  IF e.fr \in C THEN Reached(rct) \ C ELSE {}

\* Elmore: every resistor on the way delays what is stored behind it.
Moment(rct, v, charge) ==
    SumFunctionOnSet([e \in Edges(rct) |-> e.res * SumFunctionOnSet(charge, Behind(rct, e))],
                     {e \in Edges(rct) : v \in Behind(rct, e)})

-----------------------------------------------------------------------------
(* Properties                                                              *)

NetType(rct) ==
    /\ Nodes(rct) \subseteq NodeName /\ IsFiniteSet(Nodes(rct))
    /\ rct.root \in Nodes(rct) /\ rct.ncap \in [Nodes(rct) -> Int]
    /\ rct.edges \in Seq([fr : Nodes(rct), to : Nodes(rct), res : Int])

\* A call has followed some of its node's edges, in their order; the call before it, one to its node.
CallType(rct, calls, i) ==
    /\ calls[i].todo \subseteq Fanout(rct, calls[i].node)
    /\ \A a \in Fanout(rct, calls[i].node) \ calls[i].todo, b \in calls[i].todo : a < b
    /\ i = 1 => calls[i].node = rct.root /\ calls[i].parent = NoNode
    /\ i # 1 => /\ calls[i].parent = calls[i - 1].node
                /\ calls[i].node # calls[i - 1].parent
                /\ \E a \in Fanout(rct, calls[i - 1].node) \ calls[i - 1].todo : rct.edges[a].to = calls[i].node

CallsType(rct, calls) == \A i \in DOMAIN calls : CallType(rct, calls, i)

(***************************************************************************)
(* Every variable has its type; the calls in progress are of nodes of the  *)
(* net, each made along an edge from its caller's node and not back to     *)
(* that node's caller.                                                     *)
(***************************************************************************)
TypeOK ==
    /\ phase \in {"read", "update", "done", "crashed"} /\ pos \in Nat \ {0}
    /\ waiting \subseteq DOMAIN rctrees
    /\ net \in DOMAIN rctrees \cup {NoNet} /\ pass \in 0..Len(Passes)
    /\ \A x \in DOMAIN rctrees :
        /\ NetType(rctrees[x])
        /\ phase # "read" => \A f \in {load, delay, ldelay, beta, impulse} : f[x] \in [Nodes(rctrees[x]) -> Int]
    /\ stack \in Seq([node : NodeName, parent : NodeName \cup {NoNode}, todo : SUBSET Nat])
    /\ Len(stack) <= MaxDepth /\ (stack # <<>> => CallsType(Rct, stack))

\* The figures of net x are the first and second moments of its network.
HasMoments(x) ==
    LET rct == rctrees[x]
        charge == [v \in Nodes(rct) |-> rct.ncap[v] * delay[x][v]]
    IN  /\ load[x][rct.root] = SumFunctionOnSet(rct.ncap, Reached(rct))
        /\ \A v \in Nodes(rct) :
            /\ delay[x][v] = Moment(rct, v, rct.ncap)
            /\ beta[x][v] = Moment(rct, v, charge)
            /\ impulse[x][v] = 2 * beta[x][v] - delay[x][v] * delay[x][v]

(***************************************************************************)
(* The figures of every net that is a tree are the first and second        *)
(* moments of its network, each given as a sum over resistors, however the *)
(* file lists its edges (both ways or away from the root only); a node the *)
(* root does not reach keeps 0.                                            *)
(***************************************************************************)
MomentsOfTrees == phase = "done" => \A x \in DOMAIN rctrees : IsTree(rctrees[x]) => HasMoments(x)

(***************************************************************************)
(* Only a circle of resistors, which skipping the parent does not cut, can *)
(* exhaust a call stack with room for every node the root reaches; of a    *)
(* tree, no two calls in progress are of the same node.                    *)
(***************************************************************************)
CallsStayInTree ==
    /\ phase = "crashed" => ~IsTree(Rct) \/ Cardinality(Reached(Rct)) > MaxDepth
    /\ net # NoNet /\ IsTree(Rct) =>
        \A i, j \in DOMAIN stack : stack[i].node = stack[j].node => i = j

(***************************************************************************)
(* A file is computed to its end, all four passes over all its nets,       *)
(* unless a net that is no tree, or too deep, exhausts the stack.          *)
(***************************************************************************)
EndsUnlessCircle ==
    <>(\/ phase = "done"
       \/ phase = "crashed" /\ (~IsTree(Rct) \/ Cardinality(Reached(Rct)) > MaxDepth))

=============================================================================
