------------------------------- MODULE Timer -------------------------------
(***************************************************************************)
(* The static timer of exercise 2: read_delay and read_clock_at, which     *)
(* fill the timing graph line by line, and compute_slack, which propagates *)
(* the earliest and latest arrival times through the graph by counting     *)
(* down the edges into every node, then takes the worst slack over the     *)
(* constraints.                                                            *)
(***************************************************************************)
EXTENDS Integers, Sequences, FiniteSets

CONSTANTS
    Pin,          \* names of inputs and outputs
    Name,         \* names of nodes; the node of input s is called Source(s)
    Source(_),    \* "vsource:" + s
    Sink(_),      \* "vsink:" + s
    Files,        \* the pairs of input files that may be read
    Far,          \* the largest double, and INF: no arrival time, no slack yet
    Garbage,      \* what an uninitialised clock_period may hold
    NoNode        \* no node is being propagated

\* The lines of the delay file and of the timing file.
DelayLine ==
    [keyword : {"input", "output"}, pin : Pin]
    \cup [keyword : {"setup", "hold"}, data : Name, clk : Name, value : Int]
    \cup [keyword : {"edge"}, from : Name, to : Name, early : Int, late : Int]
TimingLine ==
    [keyword : {"clock"}, pin : Pin, period : Int]
    \cup [keyword : {"at"}, pin : Pin, early : Int, late : Int]

ASSUME TimerAssumption ==
    /\ \A p \in Pin : Source(p) \in Name /\ Sink(p) \in Name
    /\ Files \subseteq [delay : Seq(DelayLine), timing : Seq(TimingLine)]
    /\ Garbage \subseteq Int /\ Far \in Int
    /\ NoNode \notin Name

VARIABLES
    file,         \* the two files, as sequences of lines
    phase,        \* how far main has come
    pos,          \* the next line, arrival time or constraint of the phase
    nodes,        \* the names that have a node (name2id is a bijection)
    edges,        \* all edges, in the order they were read
    pi_ats, setup_constraints, hold_constraints, clock_period,
    at_early, at_late,
    rev_counts,   \* edges into a node that are still to be relaxed
    que,          \* the queue of nodes to be propagated
    from, todo,   \* the node whose edges are being relaxed, and which are left
    taken,        \* the nodes taken from the queue (for the specification only)
    slack_setup, slack_hold

graph == <<file, nodes, edges, pi_ats, setup_constraints, hold_constraints, clock_period>>
times == <<at_early, at_late, rev_counts>>
queue == <<que, from, todo, taken>>
slacks == <<slack_setup, slack_hold>>
vars == <<graph, phase, pos, times, queue, slacks>>

Min2(a, b) == IF a < b THEN a ELSE b
Max2(a, b) == IF a > b THEN a ELSE b

\* A delay added to a time; the two extremes absorb it.
Later(t, d) == IF t \in {Far, -Far} THEN t ELSE t + d

Init ==
    /\ file \in Files
    /\ phase = "delay" /\ pos = 1
    /\ nodes = {} /\ edges = <<>>
    /\ pi_ats = <<>> /\ setup_constraints = <<>> /\ hold_constraints = <<>>
    /\ clock_period \in Garbage
    /\ at_early = <<>> /\ at_late = <<>> /\ rev_counts = <<>>
    /\ que = <<>> /\ from = NoNode /\ todo = {} /\ taken = {}
    /\ slack_setup = Far /\ slack_hold = Far

-----------------------------------------------------------------------------
(* read_delay and read_clock_at                                            *)

Line == IF phase = "delay" THEN file.delay[pos] ELSE file.timing[pos]
AtLine(p, keyword) ==
    /\ phase = p
    /\ pos <= Len(IF p = "delay" THEN file.delay ELSE file.timing)
    /\ Line.keyword = keyword
    /\ pos' = pos + 1
    /\ UNCHANGED <<file, phase, times, queue, slacks>>

\* is_pi and is_po serve for warnings only: such a line just makes the node.
ReadPort(keyword) ==
    /\ AtLine("delay", keyword)
    /\ nodes' = nodes \cup {IF keyword = "input" THEN Source(Line.pin) ELSE Sink(Line.pin)}
    /\ UNCHANGED <<edges, pi_ats, setup_constraints, hold_constraints, clock_period>>

ReadConstraint(keyword) ==
    /\ AtLine("delay", keyword)
    /\ nodes' = nodes \cup {Line.data, Line.clk}
    /\ LET c == [clk |-> Line.clk, data |-> Line.data, value |-> Line.value]
       IN  IF keyword = "setup"
           THEN /\ setup_constraints' = Append(setup_constraints, c)
                /\ UNCHANGED hold_constraints
           ELSE /\ hold_constraints' = Append(hold_constraints, c)
                /\ UNCHANGED setup_constraints
    /\ UNCHANGED <<edges, pi_ats, clock_period>>

ReadEdge ==
    /\ AtLine("delay", "edge")
    /\ nodes' = nodes \cup {Line.from, Line.to}
    /\ edges' = Append(edges, [from |-> Line.from, to |-> Line.to,
                               early |-> Line.early, late |-> Line.late])
    /\ UNCHANGED <<pi_ats, setup_constraints, hold_constraints, clock_period>>

EndDelay ==
    /\ phase = "delay" /\ pos > Len(file.delay)
    /\ phase' = "timing" /\ pos' = 1
    /\ UNCHANGED <<graph, times, queue, slacks>>

ReadClock ==
    /\ AtLine("timing", "clock")
    /\ nodes' = nodes \cup {Source(Line.pin)}
    /\ clock_period' = Line.period
    /\ UNCHANGED <<edges, pi_ats, setup_constraints, hold_constraints>>

\* Mutant: an at line makes no node for a pin the delay file does not have.
ReadAtKnown ==
    /\ AtLine("timing", "at")
    /\ pi_ats' = Append(pi_ats, [to |-> Source(Line.pin), early |-> Line.early, late |-> Line.late])
    /\ UNCHANGED <<nodes, edges, setup_constraints, hold_constraints, clock_period>>

ReadAt ==
    /\ AtLine("timing", "at")
    /\ nodes' = nodes \cup {Source(Line.pin)}
    /\ pi_ats' = Append(pi_ats, [to |-> Source(Line.pin), early |-> Line.early, late |-> Line.late])
    /\ UNCHANGED <<edges, setup_constraints, hold_constraints, clock_period>>

-----------------------------------------------------------------------------
(* compute_slack                                                           *)

EdgesInto(n) == {k \in DOMAIN edges : edges[k].to = n}
EdgesOf(n) == {k \in DOMAIN edges : edges[k].from = n}

EndTiming ==
    /\ phase = "timing" /\ pos > Len(file.timing)
    /\ phase' = "seed" /\ pos' = 1
    /\ at_early' = [n \in nodes |-> Far]
    /\ at_late' = [n \in nodes |-> -Far]
    /\ rev_counts' = [n \in nodes |-> Cardinality(EdgesInto(n))]
    /\ UNCHANGED <<graph, queue, slacks>>

\* An arrival time from the file: it replaces an earlier one, the node is queued each time.
Seed ==
    /\ phase = "seed" /\ pos <= Len(pi_ats)
    /\ LET at == pi_ats[pos]
       IN  /\ at_early' = [at_early EXCEPT ![at.to] = at.early]
           /\ at_late' = [at_late EXCEPT ![at.to] = at.late]
           /\ que' = Append(que, at.to)
    /\ pos' = pos + 1
    /\ UNCHANGED <<graph, phase, rev_counts, from, todo, taken, slacks>>

EndSeed ==
    /\ phase = "seed" /\ pos > Len(pi_ats)
    /\ phase' = "propagate"
    /\ UNCHANGED <<graph, pos, times, queue, slacks>>

\* Mutant: a node without edges is passed over before it is taken off the queue.
PopKept ==
    /\ phase = "propagate" /\ todo = {} /\ que # <<>>
    /\ from' = Head(que)
    /\ que' = IF EdgesOf(Head(que)) = {} THEN que ELSE Tail(que)
    /\ todo' = EdgesOf(Head(que))
    /\ taken' = taken \cup {Head(que)}
    /\ UNCHANGED <<graph, phase, pos, times, slacks>>

Pop ==
    /\ phase = "propagate" /\ todo = {} /\ que # <<>>
    /\ from' = Head(que)
    /\ que' = Tail(que)
    /\ todo' = EdgesOf(Head(que))
    /\ taken' = taken \cup {Head(que)}
    /\ UNCHANGED <<graph, phase, pos, times, slacks>>

\* Mutant: a node is queued with the first edge that reaches it.
RelaxAtOnce(k) ==
    /\ phase = "propagate" /\ k \in todo /\ \A j \in todo : k <= j
    /\ LET to == edges[k].to
           left == rev_counts[to] - 1
       IN  /\ at_early' = [at_early EXCEPT ![to] = Min2(@, Later(at_early[from], edges[k].early))]
           /\ at_late' = [at_late EXCEPT ![to] = Max2(@, Later(at_late[from], edges[k].late))]
           /\ rev_counts' = [rev_counts EXCEPT ![to] = left]
           /\ que' = IF left = Cardinality(EdgesInto(to)) - 1 THEN Append(que, to) ELSE que
    /\ todo' = todo \ {k}
    /\ UNCHANGED <<graph, phase, pos, from, taken, slacks>>

\* Mutant: the last edge into a node decides its latest time.
RelaxLast(k) ==
    /\ phase = "propagate" /\ k \in todo /\ \A j \in todo : k <= j
    /\ LET to == edges[k].to
           left == rev_counts[to] - 1
       IN  /\ at_early' = [at_early EXCEPT ![to] = Min2(@, Later(at_early[from], edges[k].early))]
           /\ at_late' = [at_late EXCEPT ![to] = Later(at_late[from], edges[k].late)]
           /\ rev_counts' = [rev_counts EXCEPT ![to] = left]
           /\ que' = IF left = 0 THEN Append(que, to) ELSE que
    /\ todo' = todo \ {k}
    /\ UNCHANGED <<graph, phase, pos, from, taken, slacks>>

\* One round of the loop over the edges of the node that was taken.
Relax(k) ==
    /\ phase = "propagate" /\ k \in todo /\ \A j \in todo : k <= j
    /\ LET to == edges[k].to
           left == rev_counts[to] - 1
       IN  /\ at_early' = [at_early EXCEPT ![to] = Min2(@, Later(at_early[from], edges[k].early))]
           /\ at_late' = [at_late EXCEPT ![to] = Max2(@, Later(at_late[from], edges[k].late))]
           /\ rev_counts' = [rev_counts EXCEPT ![to] = left]
           /\ que' = IF left = 0 THEN Append(que, to) ELSE que
    /\ todo' = todo \ {k}
    /\ UNCHANGED <<graph, phase, pos, from, taken, slacks>>

EndPropagate ==
    /\ phase = "propagate" /\ todo = {} /\ que = <<>>
    /\ phase' = "setup" /\ pos' = 1
    /\ UNCHANGED <<graph, times, queue, slacks>>

\* A time that never arrived makes the slack larger than any that counts.
Difference(early, late, rest) == IF early = Far \/ late = -Far THEN Far ELSE early - late + rest

SetupSlack ==
    /\ phase = "setup" /\ pos <= Len(setup_constraints)
    /\ LET c == setup_constraints[pos]
       IN  slack_setup' = Min2(slack_setup,
                Difference(at_early[c.clk], at_late[c.data], clock_period - c.value))
    /\ pos' = pos + 1
    /\ UNCHANGED <<graph, phase, times, queue, slack_hold>>

EndSetup ==
    /\ phase = "setup" /\ pos > Len(setup_constraints)
    /\ phase' = "hold" /\ pos' = 1
    /\ UNCHANGED <<graph, times, queue, slacks>>

\* Mutant: the latest data is compared with the earliest clock.
HoldSlackSwapped ==
    /\ phase = "hold" /\ pos <= Len(hold_constraints)
    /\ LET c == hold_constraints[pos]
       IN  slack_hold' = Min2(slack_hold,
                Difference(at_early[c.clk], at_late[c.data], -c.value))
    /\ pos' = pos + 1
    /\ UNCHANGED <<graph, phase, times, queue, slack_setup>>

HoldSlack ==
    /\ phase = "hold" /\ pos <= Len(hold_constraints)
    /\ LET c == hold_constraints[pos]
       IN  slack_hold' = Min2(slack_hold,
                Difference(at_early[c.data], at_late[c.clk], -c.value))
    /\ pos' = pos + 1
    /\ UNCHANGED <<graph, phase, times, queue, slack_setup>>

EndHold ==
    /\ phase = "hold" /\ pos > Len(hold_constraints)
    /\ phase' = "done"
    /\ UNCHANGED <<graph, pos, times, queue, slacks>>

Step ==
    \/ \E keyword \in {"input", "output"} : ReadPort(keyword)
    \/ \E keyword \in {"setup", "hold"} : ReadConstraint(keyword)
    \/ ReadEdge
    \/ EndDelay
    \/ ReadClock
    \/ ReadAt
    \/ EndTiming
    \/ Seed
    \/ EndSeed
    \/ Pop
    \/ \E k \in todo : Relax(k)
    \/ EndPropagate
    \/ SetupSlack
    \/ EndSetup
    \/ HoldSlack
    \/ EndHold

Printed == phase = "done" /\ UNCHANGED vars

Next == Step \/ Printed

\* main is an ordinary sequential program: it runs until it ends.
Spec == Init /\ [][Next]_vars /\ WF_vars(Step)

-----------------------------------------------------------------------------
(* What the timing graph says                                              *)

Given == {pi_ats[i].to : i \in DOMAIN pi_ats}

\* Every input is given one arrival time and no edge leads to it.
Ordinary ==
    /\ \A i, j \in DOMAIN pi_ats : pi_ats[i].to = pi_ats[j].to => i = j
    /\ \A n \in Given : EdgesInto(n) = {}

\* The nodes all of whose ways back end, within so many edges, at a given arrival time.
WithinReach[i \in Nat] ==
    IF i = 0 THEN Given
    ELSE LET W == WithinReach[i - 1]
         IN  W \cup {n \in nodes : EdgesInto(n) # {} /\ \A k \in EdgesInto(n) : edges[k].from \in W}

Determined == WithinReach[Cardinality(nodes)]

\* The paths through nodes of D only, of so many edges and fewer: end, and the two sums.
PathsWithin(D) ==
    LET P[i \in Nat] ==
            IF i = 0 THEN {<<pi_ats[j].to, pi_ats[j].early, pi_ats[j].late>> : j \in DOMAIN pi_ats}
            ELSE LET Q == P[i - 1]
                 IN  Q \cup UNION {{<<edges[k].to, q[2] + edges[k].early, q[3] + edges[k].late>> :
                                       q \in {r \in Q : r[1] = edges[k].from /\ r[1] \in D}}
                                   : k \in DOMAIN edges}
    IN  P[Cardinality(nodes)]

EndingAt(n, P) == {p \in P : p[1] = n}

\* The least of these numbers, or Far when there is none.
Least(S, s) == s \in S \cup {Far} /\ \A t \in S : s <= t

ClockLines == {i \in DOMAIN file.timing : file.timing[i].keyword = "clock"}
LastClock == file.timing[CHOOSE i \in ClockLines : \A j \in ClockLines : j <= i]

\* What a constraint leaves of the cycle, for each pair of a clock path and a data path.
SetupMargins(c, P) == {LastClock.period + p[2] - c.value - q[3] :
                          p \in EndingAt(c.clk, P), q \in EndingAt(c.data, P)}
HoldMargins(c, P) == {q[2] - p[3] - c.value : p \in EndingAt(c.clk, P), q \in EndingAt(c.data, P)}

-----------------------------------------------------------------------------
(* Properties                                                              *)

(***************************************************************************)
(* Every variable has its type; the tables of compute_slack cover the      *)
(* nodes of both files, those that only an at line names included.         *)
(***************************************************************************)
TypeOK ==
    /\ phase \in {"delay", "timing", "seed", "propagate", "setup", "hold", "done"}
    /\ pos \in Nat \ {0}
    /\ nodes \subseteq Name
    /\ edges \in Seq([from : nodes, to : nodes, early : Int, late : Int])
    /\ pi_ats \in Seq([to : nodes, early : Int, late : Int])
    /\ {setup_constraints, hold_constraints} \subseteq Seq([clk : nodes, data : nodes, value : Int])
    /\ clock_period \in Int
    /\ phase \notin {"delay", "timing"} =>
        {at_early, at_late, rev_counts} \subseteq [nodes -> Int]
    /\ que \in Seq(nodes) /\ from \in nodes \cup {NoNode}
    /\ todo \subseteq EdgesOf(from) /\ taken \subseteq nodes
    /\ slack_setup \in Int /\ slack_hold \in Int

(***************************************************************************)
(* An arrival time is final when its node is taken from the queue: the     *)
(* counters let a node in only after everything before it.  (With two at   *)
(* lines for one input, or edges into an input, they do not.)              *)
(***************************************************************************)
NeverRevised == [][Ordinary =>
    \A n \in taken : at_early'[n] = at_early[n] /\ at_late'[n] = at_late[n]]_vars

(***************************************************************************)
(* Propagation takes exactly the nodes that the given inputs determine,    *)
(* and gives every node, taken or not, the least and the greatest sum of   *)
(* delays over the paths that reach it through such nodes.                 *)
(***************************************************************************)
ArrivalsAreExtremes == phase = "done" /\ Ordinary =>
    LET D == Determined
        P == PathsWithin(D)
    IN  /\ taken = D
        /\ \A n \in nodes :
            /\ Least({p[2] : p \in EndingAt(n, P)}, at_early[n])
            /\ Least({-p[3] : p \in EndingAt(n, P)}, -at_late[n])

(***************************************************************************)
(* The slacks reported are the worst over all pairs of a clock path and a  *)
(* data path of a constraint, with the period of the clock line; without a *)
(* clock line the setup slack is computed from an uninitialised period.    *)
(***************************************************************************)
SlackIsWorst == phase = "done" /\ Ordinary =>
    LET P == PathsWithin(Determined)
    IN  /\ ClockLines # {} =>
            Least(UNION {SetupMargins(setup_constraints[i], P) : i \in DOMAIN setup_constraints}, slack_setup)
        /\ Least(UNION {HoldMargins(hold_constraints[i], P) : i \in DOMAIN hold_constraints}, slack_hold)

(***************************************************************************)
(* compute_slack ends on every file, those with cycles or inputs given     *)
(* twice included: however early a counter passes zero, it passes it once. *)
(***************************************************************************)
Ends == <>(phase = "done")

=============================================================================
