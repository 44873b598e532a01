----------------------------- MODULE TimerProofs -----------------------------
(***************************************************************************)
(* Proofs about compute_slack for any timing graph whose inputs are given  *)
(* one arrival time each and have no edge behind them: it never revises    *)
(* the arrival times of a node it has taken from its queue, the times it   *)
(* ends with are the extremes over the paths that reach a node, and the    *)
(* slacks are the worst over the pairs of a clock path and a data path.    *)
(***************************************************************************)
EXTENDS Timer, FiniteSetTheorems, WellFoundedInduction, TLAPS

Reading == phase \in {"delay", "timing"}
Propagating == phase \in {"seed", "propagate"}

\* The edges into n that are still to be relaxed.
Unrelaxed(n) == {k \in EdgesInto(n) : edges[k].from \notin taken \/ k \in todo}

Queued == {que[a] : a \in DOMAIN que}

NothingTaken == phase \in {"delay", "timing", "seed"} => taken = {} /\ todo = {}
NothingQueued == Reading => que = <<>>
Seeded == phase = "seed" =>
    /\ pos - 1 = Len(que) /\ Len(que) <= Len(pi_ats)
    /\ \A a \in DOMAIN que : que[a] = pi_ats[a].to

\* The counters count.
Counted == Propagating => \A n \in nodes : rev_counts[n] = Cardinality(Unrelaxed(n))

\* A node enters the queue once, when all edges into it have been relaxed.
Settled == Propagating =>
    /\ \A a, b \in DOMAIN que : que[a] = que[b] => a = b
    /\ Queued \cap taken = {}
    /\ \A n \in Queued \cup taken : Unrelaxed(n) = {}
    /\ todo # {} => from \in taken

IInv == TypeOK /\ file \in Files /\ NothingTaken /\ NothingQueued
        /\ (Ordinary => Seeded /\ Counted /\ Settled)

-----------------------------------------------------------------------------
(* Types                                                                   *)

LEMMA ElementOfSeq == ASSUME NEW S, NEW s \in Seq(S) PROVE \A n \in 1 .. Len(s) : s[n] \in S
OBVIOUS

LEMMA SeqOfAppend == ASSUME NEW S, NEW s \in Seq(S), NEW x \in S PROVE Append(s, x) \in Seq(S)
OBVIOUS

LEMMA SeqOfMore == ASSUME NEW S, NEW T, S \subseteq T, NEW s \in Seq(S) PROVE s \in Seq(T)
OBVIOUS

LEMMA LineType ==
  ASSUME file \in Files, pos \in Nat \ {0}
  PROVE  /\ phase = "delay" /\ pos <= Len(file.delay) => Line \in DelayLine
         /\ phase = "timing" /\ pos <= Len(file.timing) => Line \in TimingLine
<1>1. file.delay \in Seq(DelayLine) /\ file.timing \in Seq(TimingLine)
  BY TimerAssumption
<1>2. CASE phase = "delay" /\ pos <= Len(file.delay)
  <2>1. pos \in 1 .. Len(file.delay) /\ Line = file.delay[pos]
    BY <1>1, <1>2 DEF Line
  <2> QED BY <1>1, <1>2, <2>1, ElementOfSeq
<1>3. CASE phase = "timing" /\ pos <= Len(file.timing)
  <2>1. pos \in 1 .. Len(file.timing) /\ Line = file.timing[pos]
    BY <1>1, <1>3 DEF Line
  <2> QED BY <1>1, <1>3, <2>1, ElementOfSeq
<1> QED BY <1>2, <1>3

\* The collections of the timing graph, over the nodes ns.
EdgeSeq(ns) == Seq([from : ns, to : ns, early : Int, late : Int])
AtSeq(ns) == Seq([to : ns, early : Int, late : Int])
ConstraintSeq(ns) == Seq([clk : ns, data : ns, value : Int])

\* They stay typed when nodes are added.
LEMMA MoreNodes ==
  ASSUME TypeOK, NEW ns, nodes \subseteq ns, ns \subseteq Name
  PROVE  /\ edges \in EdgeSeq(ns) /\ pi_ats \in AtSeq(ns)
         /\ setup_constraints \in ConstraintSeq(ns) /\ hold_constraints \in ConstraintSeq(ns)
         /\ que \in Seq(ns) /\ taken \subseteq ns /\ from \in ns \cup {NoNode}
<1>1. [from : nodes, to : nodes, early : Int, late : Int] \subseteq [from : ns, to : ns, early : Int, late : Int]
  OBVIOUS
<1>2. [to : nodes, early : Int, late : Int] \subseteq [to : ns, early : Int, late : Int]
  OBVIOUS
<1>3. [clk : nodes, data : nodes, value : Int] \subseteq [clk : ns, data : ns, value : Int]
  OBVIOUS
<1>4. edges \in Seq([from : ns, to : ns, early : Int, late : Int])
  BY <1>1, SeqOfMore DEF TypeOK
<1>5. pi_ats \in Seq([to : ns, early : Int, late : Int])
  BY <1>2, SeqOfMore DEF TypeOK
<1>6. setup_constraints \in Seq([clk : ns, data : ns, value : Int])
      /\ hold_constraints \in Seq([clk : ns, data : ns, value : Int])
  BY <1>3, SeqOfMore DEF TypeOK
<1>7. que \in Seq(ns)
  BY SeqOfMore DEF TypeOK
<1> QED BY <1>4, <1>5, <1>6, <1>7 DEF TypeOK, EdgeSeq, AtSeq, ConstraintSeq

-----------------------------------------------------------------------------
(* Reading                                                                 *)

LEMMA InitInv == Init => IInv
<1> SUFFICES ASSUME Init PROVE IInv
  OBVIOUS
<1>1. TypeOK
  BY TimerAssumption DEF Init, TypeOK, EdgesOf
<1> QED BY <1>1 DEF Init, IInv, NothingTaken, NothingQueued, Seeded, Counted, Settled, Propagating, Reading

\* What a step that reads a line must show: it changes neither tables nor queue.
LEMMA ReadStepInv ==
  ASSUME IInv, Reading, phase' = phase, pos' = pos + 1, UNCHANGED <<file, times, queue, slacks>>,
         nodes \subseteq nodes', nodes' \subseteq Name,
         edges' \in EdgeSeq(nodes'), pi_ats' \in AtSeq(nodes'),
         setup_constraints' \in ConstraintSeq(nodes'), hold_constraints' \in ConstraintSeq(nodes'),
         clock_period' \in Int
  PROVE  IInv'
<1>1. que' \in Seq(nodes') /\ taken' \subseteq nodes' /\ from' \in nodes' \cup {NoNode} /\ todo' = {}
  BY MoreNodes DEF IInv, queue, NothingTaken, Reading
<1>2. pos' \in Nat \ {0} /\ slack_setup' \in Int /\ slack_hold' \in Int
  BY DEF IInv, TypeOK, slacks
<1>3. TypeOK'
  BY <1>1, <1>2 DEF TypeOK, Reading, EdgeSeq, AtSeq, ConstraintSeq
<1> QED BY <1>3 DEF IInv, NothingTaken, NothingQueued, Seeded, Counted, Settled, Propagating, Reading, queue

LEMMA ReadPortInv == ASSUME IInv, NEW keyword \in {"input", "output"}, ReadPort(keyword) PROVE IInv'
<1>1. phase = "delay" /\ pos <= Len(file.delay) /\ Line.keyword = keyword
  BY DEF ReadPort, AtLine
<1>2. Line.pin \in Pin
  <2>1. Line \in DelayLine
    BY <1>1, LineType DEF IInv, TypeOK
  <2> QED BY <1>1, <2>1 DEF DelayLine
<1> DEFINE n == IF keyword = "input" THEN Source(Line.pin) ELSE Sink(Line.pin)
<1>3. n \in Name
  BY <1>2, TimerAssumption
<1>4. nodes' = nodes \cup {n}
  BY DEF ReadPort
<1> HIDE DEF n
<1>5. nodes \subseteq nodes' /\ nodes' \subseteq Name
  BY <1>3, <1>4 DEF IInv, TypeOK
<1>6. UNCHANGED <<edges, pi_ats, setup_constraints, hold_constraints, clock_period>>
  BY DEF ReadPort
<1>7. Reading /\ AtLine("delay", keyword) /\ TypeOK /\ clock_period \in Int
  BY <1>1 DEF ReadPort, Reading, IInv, TypeOK
<1> QED BY <1>5, <1>6, <1>7, MoreNodes, ReadStepInv DEF AtLine

LEMMA ReadConstraintInv == ASSUME IInv, NEW keyword \in {"setup", "hold"}, ReadConstraint(keyword) PROVE IInv'
<1>1. phase = "delay" /\ pos <= Len(file.delay) /\ Line.keyword = keyword
  BY DEF ReadConstraint, AtLine
<1>2. Line.data \in Name /\ Line.clk \in Name /\ Line.value \in Int
  <2>1. Line \in DelayLine
    BY <1>1, LineType DEF IInv, TypeOK
  <2> QED BY <1>1, <2>1 DEF DelayLine
<1>3. nodes' = nodes \cup {Line.data, Line.clk}
  BY DEF ReadConstraint
<1>4. nodes \subseteq nodes' /\ nodes' \subseteq Name
  BY <1>2, <1>3 DEF IInv, TypeOK
<1> DEFINE S == [clk : nodes', data : nodes', value : Int]
           c == [clk |-> Line.clk, data |-> Line.data, value |-> Line.value]
<1>5. c \in S /\ setup_constraints \in Seq(S) /\ hold_constraints \in Seq(S)
  BY <1>2, <1>3, <1>4, MoreNodes DEF IInv, ConstraintSeq
<1>6. \/ setup_constraints' = Append(setup_constraints, c) /\ hold_constraints' = hold_constraints
      \/ setup_constraints' = setup_constraints /\ hold_constraints' = Append(hold_constraints, c)
  BY DEF ReadConstraint
<1> HIDE DEF S, c
<1>7. setup_constraints' \in Seq(S) /\ hold_constraints' \in Seq(S)
  <2>1. Append(setup_constraints, c) \in Seq(S) /\ Append(hold_constraints, c) \in Seq(S)
    BY <1>5, SeqOfAppend
  <2> QED BY <1>5, <1>6, <2>1
<1>8. setup_constraints' \in ConstraintSeq(nodes') /\ hold_constraints' \in ConstraintSeq(nodes')
  BY <1>7 DEF ConstraintSeq, S
<1>9. Reading /\ AtLine("delay", keyword) /\ TypeOK /\ clock_period \in Int
      /\ UNCHANGED <<edges, pi_ats, clock_period>>
  BY <1>1 DEF ReadConstraint, Reading, IInv, TypeOK
<1> QED BY <1>4, <1>8, <1>9, MoreNodes, ReadStepInv DEF AtLine

LEMMA ReadEdgeInv == IInv /\ ReadEdge => IInv'
<1> SUFFICES ASSUME IInv, ReadEdge PROVE IInv'
  OBVIOUS
<1>1. phase = "delay" /\ pos <= Len(file.delay) /\ Line.keyword = "edge"
  BY DEF ReadEdge, AtLine
<1>2. Line.from \in Name /\ Line.to \in Name /\ Line.early \in Int /\ Line.late \in Int
  <2>1. Line \in DelayLine
    BY <1>1, LineType DEF IInv, TypeOK
  <2> QED BY <1>1, <2>1 DEF DelayLine
<1>3. nodes' = nodes \cup {Line.from, Line.to}
  BY DEF ReadEdge
<1>4. nodes \subseteq nodes' /\ nodes' \subseteq Name
  BY <1>2, <1>3 DEF IInv, TypeOK
<1> DEFINE S == [from : nodes', to : nodes', early : Int, late : Int]
           e == [from |-> Line.from, to |-> Line.to, early |-> Line.early, late |-> Line.late]
<1>5. e \in S /\ edges \in Seq(S) /\ edges' = Append(edges, e)
  BY <1>2, <1>3, <1>4, MoreNodes DEF IInv, ReadEdge, EdgeSeq
<1> HIDE DEF S, e
<1>6. edges' \in Seq(S)
  BY <1>5, SeqOfAppend
<1>7. edges' \in EdgeSeq(nodes')
  BY <1>6 DEF EdgeSeq, S
<1>8. Reading /\ AtLine("delay", "edge") /\ TypeOK /\ clock_period \in Int
      /\ UNCHANGED <<pi_ats, setup_constraints, hold_constraints, clock_period>>
  BY <1>1 DEF ReadEdge, Reading, IInv, TypeOK
<1> QED BY <1>4, <1>7, <1>8, MoreNodes, ReadStepInv DEF AtLine

LEMMA ReadClockInv == IInv /\ ReadClock => IInv'
<1> SUFFICES ASSUME IInv, ReadClock PROVE IInv'
  OBVIOUS
<1>1. phase = "timing" /\ pos <= Len(file.timing) /\ Line.keyword = "clock"
  BY DEF ReadClock, AtLine
<1>2. Line.pin \in Pin /\ Line.period \in Int
  <2>1. Line \in TimingLine
    BY <1>1, LineType DEF IInv, TypeOK
  <2> QED BY <1>1, <2>1 DEF TimingLine
<1>3. nodes \subseteq nodes' /\ nodes' \subseteq Name
  BY <1>2, TimerAssumption DEF IInv, TypeOK, ReadClock
<1>4. Reading /\ AtLine("timing", "clock") /\ TypeOK /\ clock_period' \in Int
      /\ UNCHANGED <<edges, pi_ats, setup_constraints, hold_constraints>>
  BY <1>1, <1>2 DEF ReadClock, Reading, IInv
<1> QED BY <1>3, <1>4, MoreNodes, ReadStepInv DEF AtLine

LEMMA ReadAtInv == IInv /\ ReadAt => IInv'
<1> SUFFICES ASSUME IInv, ReadAt PROVE IInv'
  OBVIOUS
<1>1. phase = "timing" /\ pos <= Len(file.timing) /\ Line.keyword = "at"
  BY DEF ReadAt, AtLine
<1>2. Line.pin \in Pin /\ Line.early \in Int /\ Line.late \in Int
  <2>1. Line \in TimingLine
    BY <1>1, LineType DEF IInv, TypeOK
  <2> QED BY <1>1, <2>1 DEF TimingLine
<1>3. nodes \subseteq nodes' /\ nodes' \subseteq Name /\ Source(Line.pin) \in nodes'
  BY <1>2, TimerAssumption DEF IInv, TypeOK, ReadAt
<1> DEFINE S == [to : nodes', early : Int, late : Int]
           at == [to |-> Source(Line.pin), early |-> Line.early, late |-> Line.late]
<1>4. at \in S /\ pi_ats \in Seq(S) /\ pi_ats' = Append(pi_ats, at)
  BY <1>2, <1>3, MoreNodes DEF IInv, ReadAt, AtSeq
<1> HIDE DEF S, at
<1>5. pi_ats' \in Seq(S)
  BY <1>4, SeqOfAppend
<1>6. pi_ats' \in AtSeq(nodes')
  BY <1>5 DEF AtSeq, S
<1>7. Reading /\ AtLine("timing", "at") /\ TypeOK /\ clock_period \in Int
      /\ UNCHANGED <<edges, setup_constraints, hold_constraints, clock_period>>
  BY <1>1 DEF ReadAt, Reading, IInv, TypeOK
<1> QED BY <1>3, <1>6, <1>7, MoreNodes, ReadStepInv DEF AtLine

-----------------------------------------------------------------------------
(* Propagation                                                             *)

\* The sets of edges that are counted are finite.
LEMMA EdgesFinite ==
  ASSUME TypeOK
  PROVE  \A n : IsFiniteSet(EdgesInto(n)) /\ IsFiniteSet(Unrelaxed(n))
<1>1. DOMAIN edges = 1 .. Len(edges) /\ Len(edges) \in Nat
  BY DEF TypeOK
<1>2. IsFiniteSet(DOMAIN edges)
  BY <1>1, FS_Interval
<1>3. \A n : EdgesInto(n) \in SUBSET DOMAIN edges /\ Unrelaxed(n) \in SUBSET DOMAIN edges
  BY DEF EdgesInto, Unrelaxed
<1> QED BY <1>2, <1>3, FS_Subset

\* The parts of TypeOK, for a step disturbs one or two of them.
GraphType ==
    /\ nodes \subseteq Name
    /\ edges \in Seq([from : nodes, to : nodes, early : Int, late : Int])
    /\ pi_ats \in Seq([to : nodes, early : Int, late : Int])
    /\ {setup_constraints, hold_constraints} \subseteq Seq([clk : nodes, data : nodes, value : Int])
    /\ clock_period \in Int

TimesType == {at_early, at_late, rev_counts} \subseteq [nodes -> Int]

QueueType ==
    /\ que \in Seq(nodes) /\ from \in nodes \cup {NoNode}
    /\ todo \subseteq EdgesOf(from) /\ taken \subseteq nodes

SlackType == slack_setup \in Int /\ slack_hold \in Int

LEMMA GraphTypeStays == ASSUME TypeOK, UNCHANGED graph PROVE GraphType'
BY DEF TypeOK, GraphType, graph

LEMMA QueueTypeStays == ASSUME TypeOK, UNCHANGED <<graph, queue>> PROVE QueueType'
BY DEF TypeOK, QueueType, graph, queue, EdgesOf

LEMMA TypeIntro ==
  ASSUME phase' \in {"delay", "timing", "seed", "propagate", "setup", "hold", "done"},
         pos' \in Nat \ {0}, GraphType', QueueType', SlackType',
         phase' \notin {"delay", "timing"} => TimesType'
  PROVE  TypeOK'
BY DEF TypeOK, GraphType, QueueType, SlackType, TimesType

LEMMA OrdinaryStays == ASSUME UNCHANGED graph PROVE Ordinary' => Ordinary
BY DEF Ordinary, Given, EdgesInto, graph

LEMMA EndDelayInv == IInv /\ EndDelay => IInv'
<1> SUFFICES ASSUME IInv, EndDelay PROVE IInv'
  OBVIOUS
<1>1. phase = "delay" /\ phase' = "timing" /\ pos' = 1 /\ UNCHANGED <<graph, times, queue, slacks>>
  BY DEF EndDelay
<1>2. TypeOK'
  <2>1. GraphType'
    BY <1>1, GraphTypeStays DEF IInv
  <2>2. QueueType'
    BY <1>1, QueueTypeStays DEF IInv
  <2>3. SlackType'
    BY <1>1 DEF IInv, TypeOK, SlackType, slacks
  <2> QED BY <1>1, <2>1, <2>2, <2>3, TypeIntro
<1> QED BY <1>1, <1>2 DEF IInv, NothingTaken, NothingQueued, Seeded, Counted, Settled, Propagating, Reading,
                         graph, queue

LEMMA EndTimingInv == IInv /\ EndTiming => IInv'
<1> SUFFICES ASSUME IInv, EndTiming PROVE IInv'
  OBVIOUS
<1>1. phase = "timing" /\ phase' = "seed" /\ pos' = 1 /\ UNCHANGED <<graph, queue, slacks>>
      /\ at_early' = [n \in nodes |-> Far] /\ at_late' = [n \in nodes |-> -Far]
      /\ rev_counts' = [n \in nodes |-> Cardinality(EdgesInto(n))]
  BY DEF EndTiming
<1>2. taken = {} /\ todo = {} /\ que = <<>>
  BY <1>1 DEF IInv, NothingTaken, NothingQueued, Reading
<1>3. {at_early', at_late', rev_counts'} \subseteq [nodes -> Int]
  <2>1. \A n \in nodes : Cardinality(EdgesInto(n)) \in Int
    BY EdgesFinite, FS_CardinalityType DEF IInv
  <2> QED BY <1>1, <2>1, TimerAssumption
<1>4. TypeOK'
  <2>1. GraphType'
    BY <1>1, GraphTypeStays DEF IInv
  <2>2. QueueType'
    BY <1>1, QueueTypeStays DEF IInv
  <2>3. SlackType'
    BY <1>1 DEF IInv, TypeOK, SlackType, slacks
  <2>4. TimesType'
    BY <1>1, <1>3 DEF TimesType, graph
  <2> QED BY <1>1, <2>1, <2>2, <2>3, <2>4, TypeIntro
<1>5. \A n : Unrelaxed(n)' = EdgesInto(n)
  BY <1>1, <1>2 DEF Unrelaxed, EdgesInto, graph, queue
<1>6. Counted'
  BY <1>1, <1>5 DEF Counted, graph
<1>7. Settled'
  BY <1>1, <1>2 DEF Settled, Queued, queue
<1>8. Seeded'
  BY <1>1, <1>2 DEF Seeded, graph, queue, IInv, TypeOK
<1> QED BY <1>1, <1>2, <1>4, <1>6, <1>7, <1>8 DEF IInv, NothingTaken, NothingQueued, Reading, graph, queue

LEMMA SeedInv == IInv /\ Seed => IInv'
<1> SUFFICES ASSUME IInv, Seed PROVE IInv'
  OBVIOUS
<1> DEFINE at == pi_ats[pos]
<1>1. /\ phase = "seed" /\ phase' = "seed" /\ pos <= Len(pi_ats) /\ pos' = pos + 1
      /\ at_early' = [at_early EXCEPT ![at.to] = at.early]
      /\ at_late' = [at_late EXCEPT ![at.to] = at.late]
      /\ que' = Append(que, at.to)
      /\ UNCHANGED <<graph, rev_counts, from, todo, taken, slacks>>
  BY DEF Seed
<1>2. pos \in DOMAIN pi_ats /\ at.to \in nodes /\ at.early \in Int /\ at.late \in Int
  <2>1. pos \in 1 .. Len(pi_ats) /\ pi_ats \in Seq([to : nodes, early : Int, late : Int])
    BY <1>1 DEF IInv, TypeOK
  <2>2. at \in [to : nodes, early : Int, late : Int]
    BY <2>1, ElementOfSeq
  <2> QED BY <2>1, <2>2
<1>3. taken = {} /\ todo = {} /\ que \in Seq(nodes) /\ pos \in Nat
  BY <1>1 DEF IInv, NothingTaken, TypeOK
<1>4. TypeOK'
  <2>1. {at_early', at_late', rev_counts'} \subseteq [nodes -> Int]
    BY <1>1, <1>2 DEF IInv, TypeOK
  <2>2. que' \in Seq(nodes) /\ pos' \in Nat \ {0}
    <3>1. Append(que, at.to) \in Seq(nodes)
      BY <1>2, <1>3, SeqOfAppend
    <3> QED BY <1>1, <1>3, <3>1
  <2>3. todo' = {} /\ taken' = {} /\ from' = from
    BY <1>1, <1>3
  <2>4. GraphType' /\ nodes' = nodes
    BY <1>1, GraphTypeStays DEF IInv, graph
  <2>5. QueueType'
    BY <1>1, <2>2, <2>3, <2>4 DEF IInv, TypeOK, QueueType
  <2>6. SlackType'
    BY <1>1 DEF IInv, TypeOK, SlackType, slacks
  <2>7. TimesType'
    BY <2>1, <2>4 DEF TimesType
  <2> QED BY <1>1, <2>2, <2>4, <2>5, <2>6, <2>7, TypeIntro
<1>5. Ordinary' => Ordinary
  BY <1>1, OrdinaryStays
<1>6. ASSUME Ordinary PROVE Seeded' /\ Counted' /\ Settled'
  <2>1. Seeded /\ Counted /\ Settled
    BY <1>6 DEF IInv
  <2>2. /\ Len(que) = pos - 1 /\ DOMAIN que = 1 .. Len(que) /\ Len(que) \in Nat
        /\ \A a \in DOMAIN que : que[a] = pi_ats[a].to
    BY <1>1, <1>3, <2>1 DEF Seeded
  <2>3. /\ Len(que') = pos /\ DOMAIN que' = 1 .. pos
        /\ \A a \in DOMAIN que' : que'[a] = pi_ats[a].to
    BY <1>1, <1>3, <2>2
  <2>4. Seeded'
    BY <1>1, <1>3, <2>3 DEF Seeded, graph
  <2>5. \A n : Unrelaxed(n)' = Unrelaxed(n)
    BY <1>1 DEF Unrelaxed, EdgesInto, graph
  <2>6. Counted'
    BY <1>1, <2>1, <2>5 DEF Counted, Propagating, graph
  <2>7. DOMAIN que' \subseteq DOMAIN pi_ats
    BY <1>1, <1>3, <2>3 DEF IInv, TypeOK
  <2>8. \A a, b \in DOMAIN que' : que'[a] = que'[b] => a = b
    BY <2>3, <2>7, <1>6 DEF Ordinary
  <2>9. \A n \in Queued' : Unrelaxed(n)' = {}
    <3>1. \A n \in Queued' : n \in Given
      BY <2>3, <2>7 DEF Queued, Given
    <3> QED BY <3>1, <2>5, <1>6 DEF Ordinary, Unrelaxed
  <2> QED BY <1>1, <1>3, <2>4, <2>6, <2>8, <2>9 DEF Settled
<1> QED BY <1>1, <1>3, <1>4, <1>5, <1>6 DEF IInv, NothingTaken, NothingQueued, Reading, graph

LEMMA EndSeedInv == IInv /\ EndSeed => IInv'
<1> SUFFICES ASSUME IInv, EndSeed PROVE IInv'
  OBVIOUS
<1>1. phase = "seed" /\ phase' = "propagate" /\ UNCHANGED <<graph, pos, times, queue, slacks>>
  BY DEF EndSeed
<1>2. TypeOK'
  <2>1. GraphType'
    BY <1>1, GraphTypeStays DEF IInv
  <2>2. QueueType'
    BY <1>1, QueueTypeStays DEF IInv
  <2>3. SlackType'
    BY <1>1 DEF IInv, TypeOK, SlackType, slacks
  <2>4. TimesType'
    BY <1>1 DEF IInv, TypeOK, TimesType, graph, times
  <2>5. pos' \in Nat \ {0}
    BY <1>1 DEF IInv, TypeOK
  <2> QED BY <1>1, <2>1, <2>2, <2>3, <2>4, <2>5, TypeIntro
<1>3. Ordinary' => Ordinary
  BY <1>1, OrdinaryStays
<1>4. \A n : Unrelaxed(n)' = Unrelaxed(n)
  BY <1>1 DEF Unrelaxed, EdgesInto, graph, queue
<1>5. Counted => Counted'
  BY <1>1, <1>4 DEF Counted, Propagating, graph, times
<1>6. Settled => Settled'
  BY <1>1, <1>4 DEF Settled, Propagating, Queued, queue
<1> QED BY <1>1, <1>2, <1>3, <1>5, <1>6 DEF IInv, NothingTaken, NothingQueued, Seeded, Reading, graph

LEMMA PopInv == IInv /\ Pop => IInv'
<1> SUFFICES ASSUME IInv, Pop PROVE IInv'
  OBVIOUS
<1>1. /\ phase = "propagate" /\ phase' = phase /\ todo = {} /\ que # <<>>
      /\ from' = Head(que) /\ que' = Tail(que) /\ todo' = EdgesOf(Head(que))
      /\ taken' = taken \cup {Head(que)}
      /\ UNCHANGED <<graph, pos, times, slacks>>
  BY DEF Pop
<1>2. que \in Seq(nodes) /\ taken \subseteq nodes
  BY DEF IInv, TypeOK
<1>3. /\ Head(que) = que[1] /\ 1 \in DOMAIN que /\ DOMAIN que' = 1 .. Len(que) - 1
      /\ Len(que) \in Nat /\ DOMAIN que = 1 .. Len(que)
      /\ \A a \in DOMAIN que' : a + 1 \in DOMAIN que /\ que'[a] = que[a + 1]
      /\ que' \in Seq(nodes) /\ Head(que) \in nodes
  BY <1>1, <1>2
<1>4. TypeOK'
  <2>1. GraphType' /\ nodes' = nodes
    BY <1>1, GraphTypeStays DEF IInv, graph
  <2>2. QueueType'
    <3>1. todo' = EdgesOf(from)'
      BY <1>1 DEF EdgesOf, graph
    <3> QED BY <1>1, <1>2, <1>3, <2>1, <3>1 DEF QueueType
  <2>3. SlackType'
    BY <1>1 DEF IInv, TypeOK, SlackType, slacks
  <2>4. TimesType'
    BY <1>1 DEF IInv, TypeOK, TimesType, graph, times
  <2>5. pos' \in Nat \ {0}
    BY <1>1 DEF IInv, TypeOK
  <2> QED BY <1>1, <2>1, <2>2, <2>3, <2>4, <2>5, TypeIntro
<1>5. Ordinary' => Ordinary
  BY <1>1, OrdinaryStays
<1>6. ASSUME Ordinary PROVE Counted' /\ Settled'
  <2>1. Counted /\ Settled
    BY <1>6 DEF IInv
  <2>2. Head(que) \in Queued /\ Head(que) \notin taken
    BY <1>1, <1>3, <2>1 DEF Settled, Propagating, Queued
  <2>3. \A n : Unrelaxed(n)' = Unrelaxed(n)
    <3> SUFFICES ASSUME NEW n, NEW k \in EdgesInto(n)
                 PROVE  (edges[k].from \notin taken' \/ k \in todo') <=> (edges[k].from \notin taken \/ k \in todo)
      BY <1>1 DEF Unrelaxed, EdgesInto, graph
    <3>1. k \in todo' <=> edges[k].from = Head(que)
      BY <1>1 DEF EdgesOf, EdgesInto
    <3> QED BY <1>1, <2>2, <3>1
  <2>4. Counted'
    BY <1>1, <2>1, <2>3 DEF Counted, Propagating, graph, times
  <2>5. \A a, b \in DOMAIN que' : que'[a] = que'[b] => a = b
    <3> SUFFICES ASSUME NEW a \in DOMAIN que', NEW b \in DOMAIN que', que'[a] = que'[b] PROVE a = b
      OBVIOUS
    <3>1. a + 1 = b + 1
      BY <1>1, <1>3, <2>1 DEF Settled, Propagating
    <3>2. a \in Int /\ b \in Int
      BY <1>3
    <3> QED BY <3>1, <3>2
  <2>6. \A a \in DOMAIN que' : que'[a] \in Queued /\ que'[a] # Head(que)
    <3> SUFFICES ASSUME NEW a \in DOMAIN que' PROVE que'[a] \in Queued /\ que'[a] # Head(que)
      OBVIOUS
    <3>1. a + 1 # 1 /\ a + 1 \in DOMAIN que
      BY <1>3
    <3>2. que[a + 1] # que[1]
      BY <1>1, <1>3, <2>1, <3>1 DEF Settled, Propagating
    <3> QED BY <1>3, <3>1, <3>2 DEF Queued
  <2>7. Queued' \subseteq Queued /\ Queued' \cap taken' = {}
    BY <1>1, <2>1, <2>6 DEF Queued, Settled, Propagating
  <2>8. \A n \in Queued' \cup taken' : Unrelaxed(n)' = {}
    BY <1>1, <2>1, <2>2, <2>3, <2>7 DEF Settled, Propagating
  <2> QED BY <1>1, <2>4, <2>5, <2>7, <2>8 DEF Settled
<1> QED BY <1>1, <1>4, <1>5, <1>6 DEF IInv, NothingTaken, NothingQueued, Seeded, Reading, graph

\* An edge about to be relaxed leads to a node that is neither queued nor taken.
LEMMA TargetIsOpen ==
  ASSUME IInv, Ordinary, NEW k, Relax(k), NEW to, to = edges[k].to
  PROVE  /\ to \notin Queued \cup taken
         /\ Unrelaxed(to) \ {k} = Unrelaxed(to)'
         /\ k \in Unrelaxed(to)
<1>1. phase = "propagate" /\ k \in todo /\ todo' = todo \ {k} /\ UNCHANGED <<graph, from, taken>>
  BY DEF Relax
<1>2. k \in EdgesInto(to) /\ todo \subseteq EdgesOf(from)
  BY <1>1 DEF IInv, TypeOK, EdgesInto, EdgesOf
<1>3. from \in taken
  BY <1>1 DEF IInv, Settled, Propagating
<1>4. Unrelaxed(to) \ {k} = Unrelaxed(to)'
  <2>1. edges[k].from = from
    BY <1>1, <1>2 DEF EdgesOf
  <2> QED BY <1>1, <1>3, <2>1 DEF Unrelaxed, EdgesInto, graph
<1>5. k \in Unrelaxed(to)
  BY <1>1, <1>2 DEF Unrelaxed
<1> QED BY <1>1, <1>4, <1>5 DEF IInv, Settled, Propagating

LEMMA RelaxInv == ASSUME IInv, NEW k, Relax(k) PROVE IInv'
<1>0. PICK to : to = edges[k].to
  OBVIOUS
<1> DEFINE left == rev_counts[to] - 1
<1>1. /\ phase = "propagate" /\ phase' = phase /\ k \in todo /\ todo' = todo \ {k}
      /\ at_early' = [at_early EXCEPT ![to] = Min2(@, Later(at_early[from], edges[k].early))]
      /\ at_late' = [at_late EXCEPT ![to] = Max2(@, Later(at_late[from], edges[k].late))]
      /\ rev_counts' = [rev_counts EXCEPT ![to] = left]
      /\ que' = IF left = 0 THEN Append(que, to) ELSE que
      /\ UNCHANGED <<graph, pos, from, taken, slacks>>
  BY <1>0 DEF Relax
<1>2. que \in Seq(nodes) /\ {at_early, at_late, rev_counts} \subseteq [nodes -> Int]
  BY <1>1 DEF IInv, TypeOK
<1>3. k \in DOMAIN edges /\ edges[k].from = from
  BY <1>1 DEF IInv, TypeOK, EdgesOf
<1>4. to \in nodes /\ from \in nodes /\ edges[k].early \in Int /\ edges[k].late \in Int
  <2>1. edges \in Seq([from : nodes, to : nodes, early : Int, late : Int])
    BY DEF IInv, TypeOK
  <2>2. edges[k] \in [from : nodes, to : nodes, early : Int, late : Int]
    <3> DEFINE E == [from : nodes, to : nodes, early : Int, late : Int]
    <3> HIDE DEF E
    <3>1. edges \in Seq(E)
      BY <2>1 DEF E
    <3>2. k \in 1 .. Len(edges)
      BY <1>3, <3>1
    <3>3. edges[k] \in E
      BY <3>1, <3>2, ElementOfSeq
    <3> QED BY <3>3 DEF E
  <2> QED BY <1>0, <1>3, <2>2
<1>5. TypeOK'
  <2>1. que' \in Seq(nodes)
    <3>1. Append(que, to) \in Seq(nodes)
      BY <1>2, <1>4, SeqOfAppend
    <3> QED BY <1>1, <1>2, <3>1
  <2>2. Later(at_early[from], edges[k].early) \in Int /\ Later(at_late[from], edges[k].late) \in Int
    BY <1>2, <1>4 DEF Later
  <2>3. at_early' \in [nodes -> Int] /\ at_late' \in [nodes -> Int] /\ rev_counts' \in [nodes -> Int]
    BY <1>1, <1>2, <1>4, <2>2 DEF Min2, Max2
  <2>4. GraphType' /\ nodes' = nodes /\ EdgesOf(from)' = EdgesOf(from)
    BY <1>1, GraphTypeStays DEF IInv, graph, EdgesOf
  <2>5. QueueType'
    BY <1>1, <2>1, <2>4 DEF IInv, TypeOK, QueueType
  <2>6. SlackType'
    BY <1>1 DEF IInv, TypeOK, SlackType, slacks
  <2>7. TimesType'
    BY <2>3, <2>4 DEF TimesType
  <2>8. pos' \in Nat \ {0}
    BY <1>1 DEF IInv, TypeOK
  <2> QED BY <1>1, <2>4, <2>5, <2>6, <2>7, <2>8, TypeIntro
<1>6. Ordinary' => Ordinary
  BY <1>1, OrdinaryStays
<1>7. ASSUME Ordinary PROVE Counted' /\ Settled'
  <2>1. Counted /\ Settled
    BY <1>7 DEF IInv
  <2>2. to \notin Queued \cup taken /\ Unrelaxed(to) \ {k} = Unrelaxed(to)' /\ k \in Unrelaxed(to)
    BY <1>0, <1>7, TargetIsOpen
  <2>3. \A n : n # to => Unrelaxed(n)' = Unrelaxed(n)
    BY <1>0, <1>1 DEF Unrelaxed, EdgesInto, graph
  <2>4. left = Cardinality(Unrelaxed(to)') /\ IsFiniteSet(Unrelaxed(to)')
    <3>1. IsFiniteSet(Unrelaxed(to)) /\ rev_counts[to] = Cardinality(Unrelaxed(to))
      BY <1>1, <1>4, <2>1, EdgesFinite DEF IInv, Counted, Propagating
    <3>2. Cardinality(Unrelaxed(to) \ {k}) = Cardinality(Unrelaxed(to)) - 1 /\ IsFiniteSet(Unrelaxed(to) \ {k})
      BY <2>2, <3>1, FS_RemoveElement
    <3> QED BY <2>2, <3>1, <3>2
  <2>5. Counted'
    <3>1. ASSUME NEW n \in nodes PROVE rev_counts'[n] = Cardinality(Unrelaxed(n)')
      <4>1. CASE n = to
        BY <1>1, <1>2, <1>4, <2>4, <4>1
      <4>2. CASE n # to
        <5>1. rev_counts'[n] = rev_counts[n] /\ Unrelaxed(n)' = Unrelaxed(n)
          BY <1>1, <1>2, <2>3, <4>2
        <5> QED BY <1>1, <2>1, <5>1 DEF Counted, Propagating
      <4> QED BY <4>1, <4>2
    <3> QED BY <1>1, <3>1 DEF Counted, graph
  <2>6. left = 0 => Unrelaxed(to)' = {}
    BY <2>4, FS_EmptySet
  <2>7. \A n \in taken : Unrelaxed(n)' = {}
    BY <1>1, <2>1, <2>2, <2>3 DEF Settled, Propagating
  <2>8. todo' # {} => from' \in taken'
    BY <1>1, <2>1 DEF Settled, Propagating
  <2>9. CASE left = 0
    <3>1. que' = Append(que, to) /\ Unrelaxed(to)' = {}
      BY <1>1, <2>6, <2>9
    <3>2. /\ DOMAIN que = 1 .. Len(que) /\ Len(que) \in Nat /\ DOMAIN que' = 1 .. Len(que) + 1
          /\ que'[Len(que) + 1] = to /\ \A a \in DOMAIN que : que'[a] = que[a]
      BY <1>2, <3>1
    <3>3. \A a \in DOMAIN que' : a \in DOMAIN que \/ a = Len(que) + 1
      BY <3>2
    <3>4. Queued' = Queued \cup {to}
      BY <3>2, <3>3 DEF Queued
    <3>5. \A a, b \in DOMAIN que' : que'[a] = que'[b] => a = b
      <4>1. \A a \in DOMAIN que : que'[a] # to
        BY <2>2, <3>2 DEF Queued
      <4> QED BY <1>1, <2>1, <3>2, <3>3, <4>1 DEF Settled, Propagating
    <3>6. Queued' \cap taken' = {} /\ \A n \in Queued' : Unrelaxed(n)' = {}
      <4>1. Queued \cap taken = {} /\ \A n \in Queued : Unrelaxed(n) = {}
        BY <1>1, <2>1 DEF Settled, Propagating
      <4>2. taken' = taken /\ to \notin taken
        BY <1>1, <2>2
      <4>3. ASSUME NEW n \in Queued' PROVE Unrelaxed(n)' = {}
        <5>1. CASE n = to
          BY <3>1, <5>1
        <5>2. CASE n # to
          BY <2>3, <3>4, <4>1, <5>2
        <5> QED BY <5>1, <5>2
      <4> QED BY <3>4, <4>1, <4>2, <4>3
    <3> QED BY <1>1, <2>5, <2>7, <2>8, <3>5, <3>6 DEF Settled
  <2>10. CASE left # 0
    <3>1. que' = que /\ Queued' = Queued
      BY <1>1, <2>10 DEF Queued
    <3>2. \A n \in Queued' : Unrelaxed(n)' = {}
      BY <1>1, <2>1, <2>2, <2>3, <3>1 DEF Settled, Propagating
    <3> QED BY <1>1, <2>1, <2>5, <2>7, <2>8, <3>1, <3>2 DEF Settled, Propagating
  <2> QED BY <2>9, <2>10
<1> QED BY <1>1, <1>5, <1>6, <1>7 DEF IInv, NothingTaken, NothingQueued, Seeded, Reading, graph

-----------------------------------------------------------------------------
(* Slacks                                                                  *)

LEMMA DifferenceType ==
  ASSUME NEW early \in Int, NEW late \in Int, NEW rest \in Int
  PROVE  Difference(early, late, rest) \in Int
BY TimerAssumption DEF Difference

Finishing == EndPropagate \/ SetupSlack \/ EndSetup \/ HoldSlack \/ EndHold

LEMMA FinishingInv == IInv /\ Finishing => IInv'
<1> SUFFICES ASSUME IInv, Finishing PROVE IInv'
  OBVIOUS
<1>1. /\ phase \in {"propagate", "setup", "hold"} /\ phase' \in {"setup", "hold", "done"}
      /\ pos' \in {1, pos, pos + 1} /\ UNCHANGED <<graph, times, queue>>
  BY DEF Finishing, EndPropagate, SetupSlack, EndSetup, HoldSlack, EndHold
<1>2. slack_setup' \in Int /\ slack_hold' \in Int
  <2>1. slack_setup \in Int /\ slack_hold \in Int /\ clock_period \in Int
        /\ {at_early, at_late} \subseteq [nodes -> Int]
    BY <1>1 DEF IInv, TypeOK
  <2>2. ASSUME SetupSlack PROVE slack_setup' \in Int /\ slack_hold' = slack_hold
    <3> DEFINE c == setup_constraints[pos]
    <3>1. c \in [clk : nodes, data : nodes, value : Int]
      <4>1. pos \in 1 .. Len(setup_constraints)
            /\ setup_constraints \in Seq([clk : nodes, data : nodes, value : Int])
        BY <2>2 DEF IInv, TypeOK, SetupSlack
      <4> QED BY <4>1, ElementOfSeq
    <3>2. at_early[c.clk] \in Int /\ at_late[c.data] \in Int /\ clock_period - c.value \in Int
      BY <2>1, <3>1
    <3>3. Difference(at_early[c.clk], at_late[c.data], clock_period - c.value) \in Int
      BY <3>2, DifferenceType
    <3> QED BY <2>1, <2>2, <3>3 DEF SetupSlack, Min2
  <2>3. ASSUME HoldSlack PROVE slack_hold' \in Int /\ slack_setup' = slack_setup
    <3> DEFINE c == hold_constraints[pos]
    <3>1. c \in [clk : nodes, data : nodes, value : Int]
      <4>1. pos \in 1 .. Len(hold_constraints)
            /\ hold_constraints \in Seq([clk : nodes, data : nodes, value : Int])
        BY <2>3 DEF IInv, TypeOK, HoldSlack
      <4> QED BY <4>1, ElementOfSeq
    <3>2. at_early[c.data] \in Int /\ at_late[c.clk] \in Int /\ -c.value \in Int
      BY <2>1, <3>1
    <3>3. Difference(at_early[c.data], at_late[c.clk], -c.value) \in Int
      BY <3>2, DifferenceType
    <3> QED BY <2>1, <2>3, <3>3 DEF HoldSlack, Min2
  <2>4. ASSUME EndPropagate \/ EndSetup \/ EndHold PROVE UNCHANGED slacks
    BY <2>4 DEF EndPropagate, EndSetup, EndHold
  <2> QED BY <2>1, <2>2, <2>3, <2>4 DEF Finishing, slacks
<1>3. TypeOK'
  <2>1. pos' \in Nat \ {0}
    BY <1>1 DEF IInv, TypeOK
  <2>2. TimesType'
    BY <1>1 DEF IInv, TypeOK, TimesType, graph, times
  <2>3. GraphType' /\ QueueType'
    BY <1>1, GraphTypeStays, QueueTypeStays DEF IInv
  <2>4. SlackType'
    BY <1>2 DEF SlackType
  <2> QED BY <1>1, <2>1, <2>2, <2>3, <2>4, TypeIntro
<1> QED BY <1>1, <1>3 DEF IInv, NothingTaken, NothingQueued, Seeded, Counted, Settled, Propagating, Reading, graph

LEMMA UnchangedInv == IInv /\ UNCHANGED vars => IInv'
<1> SUFFICES ASSUME IInv, UNCHANGED vars PROVE IInv'
  OBVIOUS
<1> USE DEF vars, graph, times, queue, slacks
<1>1. TypeOK'
  BY DEF IInv, TypeOK, EdgesOf
<1>2. \A n : Unrelaxed(n)' = Unrelaxed(n) /\ Queued' = Queued
  BY DEF Unrelaxed, EdgesInto, Queued
<1>3. Ordinary' => Ordinary
  BY OrdinaryStays
<1>4. (Counted => Counted') /\ (Settled => Settled')
  BY <1>2 DEF Counted, Settled, Propagating
<1> QED BY <1>1, <1>3, <1>4 DEF IInv, NothingTaken, NothingQueued, Seeded, Reading

LEMMA StepInv == IInv /\ [Next]_vars => IInv'
<1> SUFFICES ASSUME IInv, [Next]_vars PROVE IInv'
  OBVIOUS
<1>1. CASE \E keyword \in {"input", "output"} : ReadPort(keyword)
  BY <1>1, ReadPortInv
<1>2. CASE \E keyword \in {"setup", "hold"} : ReadConstraint(keyword)
  BY <1>2, ReadConstraintInv
<1>3. CASE ReadEdge
  BY <1>3, ReadEdgeInv
<1>4. CASE EndDelay
  BY <1>4, EndDelayInv
<1>5. CASE ReadClock
  BY <1>5, ReadClockInv
<1>6. CASE ReadAt
  BY <1>6, ReadAtInv
<1>7. CASE EndTiming
  BY <1>7, EndTimingInv
<1>8. CASE Seed
  BY <1>8, SeedInv
<1>9. CASE EndSeed
  BY <1>9, EndSeedInv
<1>10. CASE Pop
  BY <1>10, PopInv
<1>11. CASE \E k \in todo : Relax(k)
  BY <1>11, RelaxInv
<1>12. CASE Finishing
  BY <1>12, FinishingInv
<1>13. CASE UNCHANGED vars
  BY <1>13, UnchangedInv
<1> QED BY <1>1, <1>2, <1>3, <1>4, <1>5, <1>6, <1>7, <1>8, <1>9, <1>10, <1>11, <1>12, <1>13
        DEF Next, Step, Printed, Finishing

(***************************************************************************)
(* The inductive invariant, for any files: the counters count the edges    *)
(* still to be relaxed, and a node enters the queue once, after the last.  *)
(***************************************************************************)
THEOREM TimerInvariance == Spec => []IInv
BY InitInv, StepInv, PTL DEF Spec

(***************************************************************************)
(* Type correctness: the tables of compute_slack have a place for every    *)
(* node of the two files.                                                  *)
(***************************************************************************)
THEOREM TimerTypeCorrect == Spec => []TypeOK
BY TimerInvariance, PTL DEF IInv

(***************************************************************************)
(* The arrival times of a node taken from the queue are final, if every    *)
(* input is given one arrival time and has no edge behind it.              *)
(***************************************************************************)
THEOREM ArrivalsAreFinal == Spec => NeverRevised
<1> DEFINE Kept == Ordinary => \A n \in taken : at_early'[n] = at_early[n] /\ at_late'[n] = at_late[n]
<1>1. IInv /\ [Next]_vars => [Kept]_vars
  <2> SUFFICES ASSUME IInv, Next, Ordinary, NEW n \in taken
               PROVE  at_early'[n] = at_early[n] /\ at_late'[n] = at_late[n]
    BY DEF vars
  <2>1. taken # {} /\ phase \notin {"delay", "timing", "seed"}
    BY DEF IInv, NothingTaken
  <2>2. n \in nodes /\ at_early \in [nodes -> Int] /\ at_late \in [nodes -> Int]
    BY <2>1 DEF IInv, TypeOK
  <2>3. ASSUME NEW k \in todo, Relax(k) PROVE at_early'[n] = at_early[n] /\ at_late'[n] = at_late[n]
    <3>1. n # edges[k].to
      BY <2>3, TargetIsOpen
    <3> QED BY <2>2, <2>3, <3>1 DEF Relax
  <2>4. CASE \E k \in todo : Relax(k)
    BY <2>3, <2>4
  <2>5. ASSUME Pop \/ EndPropagate \/ SetupSlack \/ EndSetup \/ HoldSlack \/ EndHold \/ Printed
        PROVE  UNCHANGED times
    BY <2>5 DEF Pop, EndPropagate, SetupSlack, EndSetup, HoldSlack, EndHold, Printed, vars
  <2> QED BY <2>1, <2>4, <2>5 DEF times, Next, Step, ReadPort, ReadConstraint, ReadEdge, EndDelay, ReadClock,
                                 ReadAt, AtLine, EndTiming, Seed, EndSeed
<1> QED BY <1>1, TimerInvariance, PTL DEF Spec, NeverRevised

-----------------------------------------------------------------------------
(* Induction and recursion over the natural numbers                        *)

\* Every set of numbers that is not empty has a least one.
LEMMA LeastNumber ==
  ASSUME NEW T \in SUBSET Nat, T # {}
  PROVE  \E n \in T : \A m \in T : n <= m
<1> DEFINE R == {ss \in Nat \X Nat : ss[1] < ss[2]}
<1>1. IsWellFoundedOn(R, Nat)
  BY NatLessThanWellFounded DEF OpToRel
<1> HIDE DEF R
<1>2. PICK n \in T : \A m \in T : ~ (<<m, n>> \in R)
  BY <1>1, WFMin
<1>3. ASSUME NEW m \in T PROVE n <= m
  <2>1. m \in Nat /\ n \in Nat
    OBVIOUS
  <2>2. m < n => <<m, n>> \in R
    BY <2>1 DEF R
  <2> QED BY <1>2, <2>1, <2>2
<1> QED BY <1>3

\* Induction, with a set for the predicate.
LEMMA NumberInduction ==
  ASSUME NEW T, 0 \in T, \A n \in T \cap Nat : n + 1 \in T
  PROVE  Nat \subseteq T
<1> SUFFICES ASSUME Nat \ T # {} PROVE FALSE
  OBVIOUS
<1>1. PICK n \in Nat \ T : \A m \in Nat \ T : n <= m
  BY LeastNumber
<1>2. n # 0 /\ n - 1 \in Nat
  BY <1>1
<1>3. n - 1 \in T
  BY <1>1, <1>2
<1>4. n - 1 + 1 = n
  BY <1>1
<1> QED BY <1>1, <1>2, <1>3, <1>4

\* The first n steps of the recursion that starts at base and goes on by F.
Unfolds(g, n, base, F) == g[0] = base /\ \A i \in Nat : i < n => g[i + 1] = F[g[i]]

\* A recursion over the natural numbers, its step being a function, has a solution.
LEMMA Recursion ==
  ASSUME NEW S, NEW base \in S, NEW F \in [S -> S]
  PROVE  \E f \in [Nat -> S] : f[0] = base /\ \A i \in Nat : f[i + 1] = F[f[i]]
<1> DEFINE T == {n \in Nat : \E g \in [0..n -> S] : Unfolds(g, n, base, F)}
<1>1. 0 \in T
  <2> DEFINE g == [i \in 0..0 |-> base]
  <2>1. g \in [0..0 -> S] /\ g[0] = base
    OBVIOUS
  <2>2. \A i \in Nat : ~(i < 0)
    OBVIOUS
  <2> HIDE DEF g
  <2>3. Unfolds(g, 0, base, F)
    BY <2>1, <2>2 DEF Unfolds
  <2> QED BY <2>1, <2>3
<1>2. ASSUME NEW n \in T \cap Nat PROVE n + 1 \in T
  <2>1. PICK g \in [0..n -> S] : Unfolds(g, n, base, F)
    BY <1>2
  <2> HIDE DEF T
  <2>2. n \in Nat /\ n \in 0..n /\ 0 \in 0..n
    BY <1>2
  <2> DEFINE h == [i \in 0..(n + 1) |-> IF i <= n THEN g[i] ELSE F[g[n]]]
  <2>3. h \in [0..(n + 1) -> S] /\ h[0] = base
    BY <2>1, <2>2 DEF Unfolds
  <2>4. ASSUME NEW i \in Nat, i < n + 1 PROVE h[i + 1] = F[h[i]]
    <3>1. CASE i < n
      <4>1. h[i + 1] = g[i + 1] /\ h[i] = g[i]
        BY <2>2, <3>1
      <4> QED BY <2>1, <3>1, <4>1 DEF Unfolds
    <3>2. CASE i = n
      BY <2>2, <3>2
    <3> QED BY <2>2, <2>4, <3>1, <3>2
  <2>5. n + 1 \in Nat
    BY <2>2
  <2> HIDE DEF h
  <2>6. Unfolds(h, n + 1, base, F)
    BY <2>3, <2>4 DEF Unfolds
  <2> QED BY <2>3, <2>5, <2>6 DEF T
<1>3. Nat \subseteq T
  <2> HIDE DEF T
  <2> QED BY <1>1, <1>2, NumberInduction
<1> DEFINE part(n) == CHOOSE g \in [0..n -> S] : Unfolds(g, n, base, F)
<1>4. \A n \in Nat : part(n) \in [0..n -> S] /\ Unfolds(part(n), n, base, F)
  BY <1>3
<1> HIDE DEF part, T
\* Two of them agree as far as both go.
<1>5. ASSUME NEW n \in Nat PROVE part(n)[n] = part(n + 1)[n]
  <2> DEFINE U == {i \in Nat : i <= n => part(n)[i] = part(n + 1)[i]}
  <2>1. Unfolds(part(n), n, base, F) /\ Unfolds(part(n + 1), n + 1, base, F)
    <3>1. n + 1 \in Nat
      OBVIOUS
    <3> QED BY <1>4, <3>1
  <2>2. 0 \in U
    BY <2>1 DEF Unfolds
  <2>3. ASSUME NEW i \in U \cap Nat PROVE i + 1 \in U
    <3>1. i + 1 <= n => i < n /\ i < n + 1 /\ i <= n
      OBVIOUS
    <3> QED BY <2>1, <3>1 DEF Unfolds
  <2> HIDE DEF U
  <2>4. Nat \subseteq U
    BY <2>2, <2>3, NumberInduction
  <2> QED BY <2>4 DEF U
<1> DEFINE f == [n \in Nat |-> part(n)[n]]
<1>6. \A n \in Nat : part(n)[n] \in S
  <2> TAKE n \in Nat
  <2>1. n \in 0..n
    OBVIOUS
  <2> QED BY <1>4, <2>1
<1>7. f \in [Nat -> S] /\ f[0] = base
  BY <1>4, <1>6 DEF Unfolds
<1>8. ASSUME NEW i \in Nat PROVE f[i + 1] = F[f[i]]
  <2>1. i + 1 \in Nat /\ i < i + 1
    OBVIOUS
  <2>2. part(i + 1)[i + 1] = F[part(i + 1)[i]]
    BY <1>4, <2>1 DEF Unfolds
  <2>3. part(i)[i] = part(i + 1)[i]
    BY <1>5
  <2> QED BY <2>1, <2>2, <2>3
<1> HIDE DEF f
<1> QED BY <1>7, <1>8

-----------------------------------------------------------------------------
(* What the two recursive definitions compute                              *)

\* A set of nodes and those of which all predecessors are in it.
Grown(W) == W \cup {n \in nodes : EdgesInto(n) # {} /\ \A k \in EdgesInto(n) : edges[k].from \in W}

\* The elements of the three sequences are records over the nodes.
LEMMA ElementTypes ==
  ASSUME GraphType
  PROVE  /\ \A k \in DOMAIN edges : /\ edges[k].from \in nodes /\ edges[k].to \in nodes
                                    /\ edges[k].early \in Int /\ edges[k].late \in Int
         /\ \A j \in DOMAIN pi_ats : /\ pi_ats[j].to \in nodes
                                     /\ pi_ats[j].early \in Int /\ pi_ats[j].late \in Int
<1> DEFINE E == [from : nodes, to : nodes, early : Int, late : Int]
           A == [to : nodes, early : Int, late : Int]
<1>1. \A e \in E : e.from \in nodes /\ e.to \in nodes /\ e.early \in Int /\ e.late \in Int
  OBVIOUS
<1>2. \A a \in A : a.to \in nodes /\ a.early \in Int /\ a.late \in Int
  OBVIOUS
<1>3. edges \in Seq(E) /\ pi_ats \in Seq(A)
  BY DEF GraphType
<1> HIDE DEF E, A
<1>4. /\ \A k \in DOMAIN edges : edges[k] \in E
      /\ \A j \in DOMAIN pi_ats : pi_ats[j] \in A
  BY <1>3
<1> QED BY <1>1, <1>2, <1>4

LEMMA Reach ==
  ASSUME GraphType
  PROVE  /\ WithinReach \in [Nat -> SUBSET nodes]
         /\ WithinReach[0] = Given
         /\ \A i \in Nat : WithinReach[i + 1] = Grown(WithinReach[i])
<1> DEFINE S == SUBSET nodes
           F == [W \in S |-> Grown(W)]
<1>1. Given \in SUBSET nodes
  BY ElementTypes DEF Given
<1>2. F \in [S -> S]
  BY DEF Grown
<1> HIDE DEF F, S
<1>3. PICK f \in [Nat -> S] : f[0] = Given /\ \A i \in Nat : f[i + 1] = F[f[i]]
  <2>1. Given \in S
    BY <1>1 DEF S
  <2> QED BY <1>2, <2>1, Recursion
<1> DEFINE Solves(g) == g = [i \in Nat |-> IF i = 0 THEN Given ELSE Grown(g[i - 1])]
<1>4. Solves(f)
  <2>1. ASSUME NEW i \in Nat PROVE f[i] = IF i = 0 THEN Given ELSE Grown(f[i - 1])
    <3>1. CASE i = 0
      BY <1>3, <3>1
    <3>2. CASE i # 0
      <4>1. i - 1 \in Nat /\ i - 1 + 1 = i
        BY <3>2
      <4>2. f[i] = F[f[i - 1]] /\ f[i - 1] \in S
        BY <1>3, <4>1
      <4> QED BY <3>2, <4>2 DEF F
    <3> QED BY <3>1, <3>2
  <2>2. f = [i \in Nat |-> f[i]]
    BY <1>3
  <2> QED BY <2>1, <2>2
<1>5. WithinReach = CHOOSE g : Solves(g)
  BY DEF WithinReach, Grown
<1>6. Solves(WithinReach)
  <2> HIDE DEF Solves
  <2> QED BY <1>4, <1>5
<1> DEFINE W == WithinReach
<1> HIDE DEF W
<1>7. W = [i \in Nat |-> IF i = 0 THEN Given ELSE Grown(W[i - 1])]
  BY <1>6 DEF W
<1>8. W[0] = Given /\ \A i \in Nat : W[i + 1] = Grown(W[i])
  <2>1. W[0] = Given
    BY <1>7
  <2>2. ASSUME NEW i \in Nat PROVE W[i + 1] = Grown(W[i])
    <3>1. i + 1 \in Nat /\ i + 1 # 0 /\ (i + 1) - 1 = i
      OBVIOUS
    <3> QED BY <1>7, <3>1
  <2> QED BY <2>1, <2>2
<1>9. \A i \in Nat : W[i] \in SUBSET nodes
  <2> DEFINE T == {i \in Nat : W[i] \in SUBSET nodes}
  <2>1. 0 \in T
    BY <1>1, <1>8
  <2>2. ASSUME NEW i \in T \cap Nat PROVE i + 1 \in T
    BY <1>8 DEF Grown
  <2> HIDE DEF T
  <2>3. Nat \subseteq T
    BY <2>1, <2>2, NumberInduction
  <2> QED BY <2>3 DEF T
<1>10. W \in [Nat -> SUBSET nodes]
  BY <1>7, <1>9
<1> QED BY <1>8, <1>10 DEF W

\* A path's end and its two sums.
Triple == nodes \X Int \X Int

\* The paths without an edge, and those of Q that end in D, by one edge longer.
Starts == {<<pi_ats[j].to, pi_ats[j].early, pi_ats[j].late>> : j \in DOMAIN pi_ats}
Extended(D, Q) ==
    UNION {{<<edges[k].to, q[2] + edges[k].early, q[3] + edges[k].late>> :
                q \in {r \in Q : r[1] = edges[k].from /\ r[1] \in D}} : k \in DOMAIN edges}

LEMMA ExtendedFacts ==
  ASSUME NEW D, NEW Q, NEW p
  PROVE  p \in Extended(D, Q) <=>
             \E k \in DOMAIN edges : \E q \in Q :
                 /\ q[1] = edges[k].from /\ q[1] \in D
                 /\ p = <<edges[k].to, q[2] + edges[k].early, q[3] + edges[k].late>>
BY DEF Extended

LEMMA PathTypes ==
  ASSUME GraphType, NEW D, NEW Q \in SUBSET Triple
  PROVE  Starts \in SUBSET Triple /\ Extended(D, Q) \in SUBSET Triple
<1>1. Starts \in SUBSET Triple
  BY ElementTypes DEF Starts, Triple
<1>2. ASSUME NEW p \in Extended(D, Q) PROVE p \in Triple
  <2>1. PICK k \in DOMAIN edges, q \in Q :
            p = <<edges[k].to, q[2] + edges[k].early, q[3] + edges[k].late>>
    BY ExtendedFacts
  <2>2. q[2] \in Int /\ q[3] \in Int
    BY DEF Triple
  <2> QED BY <2>1, <2>2, ElementTypes DEF Triple
<1> QED BY <1>1, <1>2

\* PathsWithin is where so many steps of the recursion lead.
LEMMA PathSteps ==
  ASSUME GraphType, NEW D, Cardinality(nodes) \in Nat
  PROVE  \E P \in [Nat -> SUBSET Triple] :
             /\ P[0] = Starts
             /\ \A i \in Nat : P[i + 1] = P[i] \cup Extended(D, P[i])
             /\ PathsWithin(D) = P[Cardinality(nodes)]
<1> DEFINE S == SUBSET Triple
           F == [Q \in S |-> Q \cup Extended(D, Q)]
<1>1. Starts \in S
  BY PathTypes
<1>2. F \in [S -> S]
  BY PathTypes
<1> HIDE DEF F, S
<1>3. \A Q \in S : F[Q] = Q \cup Extended(D, Q)
  BY DEF F
<1>4. PICK f \in [Nat -> S] : f[0] = Starts /\ \A i \in Nat : f[i + 1] = F[f[i]]
  <2>1. Starts \in S
    BY <1>1 DEF S
  <2>2. F \in [S -> S]
    BY <1>2
  <2> QED BY ONLY <2>1, <2>2, Recursion
<1> DEFINE Solves(g) == g = [i \in Nat |-> IF i = 0 THEN Starts ELSE g[i - 1] \cup Extended(D, g[i - 1])]
<1>5. Solves(f)
  <2>1. ASSUME NEW i \in Nat PROVE f[i] = IF i = 0 THEN Starts ELSE f[i - 1] \cup Extended(D, f[i - 1])
    <3>1. CASE i = 0
      BY <1>4, <3>1
    <3>2. CASE i # 0
      <4>1. i - 1 \in Nat /\ i - 1 + 1 = i
        BY <3>2
      <4>2. f[i] = F[f[i - 1]] /\ f[i - 1] \in S
        BY <1>4, <4>1
      <4> QED BY <1>3, <3>2, <4>2
    <3> QED BY <3>1, <3>2
  <2>2. f = [i \in Nat |-> f[i]]
    BY <1>4
  <2> QED BY <2>1, <2>2
<1> DEFINE P == CHOOSE g : Solves(g)
<1>6. PathsWithin(D) = P[Cardinality(nodes)]
  BY DEF PathsWithin, Starts, Extended
<1>7. Solves(P)
  <2> HIDE DEF Solves
  <2> QED BY <1>5
<1> HIDE DEF P
<1>8. P = [i \in Nat |-> IF i = 0 THEN Starts ELSE P[i - 1] \cup Extended(D, P[i - 1])]
  BY <1>7
<1>9. P[0] = Starts /\ \A i \in Nat : P[i + 1] = P[i] \cup Extended(D, P[i])
  <2>1. P[0] = Starts
    BY <1>8
  <2>2. ASSUME NEW i \in Nat PROVE P[i + 1] = P[i] \cup Extended(D, P[i])
    <3>1. i + 1 \in Nat /\ i + 1 # 0 /\ (i + 1) - 1 = i
      OBVIOUS
    <3> QED BY <1>8, <3>1
  <2> QED BY <2>1, <2>2
<1>10. \A i \in Nat : P[i] \in S
  <2> DEFINE T == {i \in Nat : P[i] \in S}
  <2>1. 0 \in T
    BY <1>1, <1>9
  <2>2. ASSUME NEW i \in T \cap Nat PROVE i + 1 \in T
    <3>1. P[i] \in SUBSET Triple
      BY DEF S
    <3>2. Extended(D, P[i]) \in SUBSET Triple
      BY <3>1, PathTypes
    <3> QED BY <1>9, <3>1, <3>2 DEF S
  <2> HIDE DEF T
  <2>3. Nat \subseteq T
    BY <2>1, <2>2, NumberInduction
  <2> QED BY <2>3 DEF T
<1>11. P \in [Nat -> S]
  BY <1>8, <1>10
<1> QED BY <1>6, <1>9, <1>11 DEF S

\* Within as many steps as there are nodes the reach stops growing.
LEMMA ReachStops ==
  ASSUME GraphType, IsFiniteSet(nodes), NEW n \in Nat, n + 1 = Cardinality(nodes)
  PROVE  WithinReach[n + 1] = WithinReach[n]
<1> DEFINE W == WithinReach
<1>1. /\ W \in [Nat -> SUBSET nodes] /\ W[0] = Given
      /\ \A i \in Nat : W[i + 1] = Grown(W[i])
  BY Reach
<1> HIDE DEF W
<1>2. \A i \in Nat : i + 1 \in Nat /\ W[i] \subseteq nodes /\ W[i] \subseteq W[i + 1]
  BY <1>1 DEF Grown
<1>3. \A i \in Nat : IsFiniteSet(W[i]) /\ Cardinality(W[i]) \in Nat
                     /\ Cardinality(W[i]) <= Cardinality(nodes)
                     /\ (Cardinality(W[i]) = Cardinality(nodes) => W[i] = nodes)
  <2> TAKE i \in Nat
  <2>1. W[i] \in SUBSET nodes
    BY <1>2
  <2>2. IsFiniteSet(W[i]) /\ Cardinality(W[i]) <= Cardinality(nodes)
        /\ (Cardinality(nodes) = Cardinality(W[i]) => nodes = W[i])
    BY <2>1, FS_Subset
  <2>3. Cardinality(W[i]) \in Nat
    BY <2>2, FS_CardinalityType
  <2> QED BY <2>2, <2>3
<1>4. CASE Given = {}
  <2> DEFINE T == {i \in Nat : W[i] = {}}
  <2>1. 0 \in T
    BY <1>1, <1>4
  <2>2. ASSUME NEW i \in T \cap Nat PROVE i + 1 \in T
    <3>1. W[i] = {} /\ W[i + 1] = Grown(W[i])
      BY <1>1
    <3>2. Grown({}) = {}
      BY DEF Grown
    <3> QED BY <3>1, <3>2
  <2> HIDE DEF T
  <2>3. Nat \subseteq T
    BY <2>1, <2>2, NumberInduction
  <2> QED BY <1>2, <2>3 DEF T, W
<1>5. CASE Given # {}
  <2> DEFINE T == {i \in Nat : W[i + 1] = W[i] \/ Cardinality(W[i]) >= i + 1}
  <2>1. 0 \in T
    <3>1. W[0] # {} /\ 0 \in Nat
      BY <1>1, <1>5
    <3>2. Cardinality(W[0]) # 0
      BY <1>3, <3>1, FS_EmptySet
    <3> QED BY <1>3, <3>1, <3>2
  <2>2. ASSUME NEW i \in T \cap Nat PROVE i + 1 \in T
    <3>0. i \in Nat /\ i + 1 \in Nat /\ i + 2 \in Nat /\ (i + 1) + 1 = i + 2
      BY <2>2
    <3>1. CASE W[i + 1] = W[i]
      <4>1. W[(i + 1) + 1] = Grown(W[i + 1]) /\ W[i + 1] = Grown(W[i])
        BY <1>1, <3>0
      <4> QED BY <3>0, <3>1, <4>1
    <3>2. CASE W[i + 1] # W[i] /\ Cardinality(W[i]) >= i + 1
      <4>1. W[i] \in SUBSET W[i + 1]
        BY <1>2, <3>0
      <4>2. Cardinality(W[i]) <= Cardinality(W[i + 1])
            /\ (Cardinality(W[i + 1]) = Cardinality(W[i]) => W[i + 1] = W[i])
        BY <1>3, <3>0, <4>1, FS_Subset
      <4>3. Cardinality(W[i + 1]) >= (i + 1) + 1
        BY <1>3, <3>0, <3>2, <4>2
      <4> QED BY <3>0, <4>3
    <3> QED BY <2>2, <3>1, <3>2
  <2> HIDE DEF T
  <2>3. Nat \subseteq T
    BY <2>1, <2>2, NumberInduction
  <2>4. W[n + 1] = W[n] \/ Cardinality(W[n]) >= n + 1
    BY <2>3 DEF T
  <2>5. Cardinality(W[n]) >= n + 1 => W[n] = nodes
    BY <1>3
  <2>6. W[n] = nodes => W[n + 1] = nodes
    BY <1>2
  <2> QED BY <2>4, <2>5, <2>6 DEF W
<1> QED BY <1>4, <1>5

(***************************************************************************)
(* Determined is the least set that holds the inputs given and every node  *)
(* all of whose predecessors it holds; its nodes are reached a step before *)
(* the last.                                                               *)
(***************************************************************************)
LEMMA DeterminedFacts ==
  ASSUME GraphType, IsFiniteSet(nodes)
  PROVE  /\ Determined \in SUBSET nodes
         /\ Given \subseteq Determined
         /\ Grown(Determined) = Determined
         /\ \A X : Given \subseteq X /\ Grown(X) \subseteq X => Determined \subseteq X
         /\ \A m \in Determined : \E n \in Nat : n + 1 = Cardinality(nodes) /\ m \in WithinReach[n]
<1> DEFINE W == WithinReach
           c == Cardinality(nodes)
<1>1. /\ W \in [Nat -> SUBSET nodes] /\ W[0] = Given
      /\ \A i \in Nat : W[i + 1] = Grown(W[i])
  BY Reach
<1>2. c \in Nat /\ Determined = W[c]
  BY FS_CardinalityType DEF Determined
<1> HIDE DEF W
<1>3. \A i \in Nat : i + 1 \in Nat /\ W[i] \subseteq nodes /\ W[i] \subseteq W[i + 1]
  BY <1>1 DEF Grown
<1>4. \A i \in Nat : Given \subseteq W[i]
  <2> DEFINE T == {i \in Nat : Given \subseteq W[i]}
  <2>1. 0 \in T
    BY <1>1
  <2>2. \A i \in T \cap Nat : i + 1 \in T
    BY <1>3
  <2> HIDE DEF T
  <2>3. Nat \subseteq T
    BY <2>1, <2>2, NumberInduction
  <2> QED BY <2>3 DEF T
<1>5. ASSUME NEW X, Given \subseteq X, Grown(X) \subseteq X PROVE Determined \subseteq X
  <2> DEFINE T == {i \in Nat : W[i] \subseteq X}
  <2>1. 0 \in T
    BY <1>1, <1>5
  <2>2. ASSUME NEW i \in T \cap Nat PROVE i + 1 \in T
    <3>1. W[i] \subseteq X /\ W[i + 1] = Grown(W[i]) /\ i + 1 \in Nat
      BY <1>1
    <3>2. Grown(W[i]) \subseteq Grown(X)
      BY <3>1 DEF Grown
    <3> QED BY <1>5, <3>1, <3>2
  <2> HIDE DEF T
  <2>3. Nat \subseteq T
    BY <2>1, <2>2, NumberInduction
  <2> QED BY <1>2, <2>3 DEF T
<1>6. CASE c = 0
  <2>1. nodes = {}
    BY <1>6, FS_EmptySet
  <2>2. Determined = {} /\ Grown({}) = {}
    BY <1>1, <1>2, <2>1 DEF Grown
  <2> QED BY <1>2, <1>4, <1>5, <2>1, <2>2
<1>7. CASE c # 0
  <2>1. c - 1 \in Nat /\ (c - 1) + 1 = c
    BY <1>2, <1>7
  <2>2. W[(c - 1) + 1] = W[c - 1]
    BY <2>1, ReachStops DEF W
  <2>3. W[c] = W[c - 1] /\ W[c] = Grown(W[c - 1])
    BY <1>1, <2>1, <2>2
  <2>4. Grown(Determined) = Determined /\ \A m \in Determined : m \in W[c - 1]
    BY <1>2, <2>3
  <2> QED BY <1>1, <1>2, <1>4, <1>5, <2>1, <2>4 DEF W
<1> QED BY <1>6, <1>7

\* All paths through nodes that the inputs determine.
Paths == PathsWithin(Determined)

(***************************************************************************)
(* The paths are those without an edge and those by one edge longer than a *)
(* path that ends at a node that is determined: so many steps collect them *)
(* all, since such a path has no more edges than its end is away.          *)
(***************************************************************************)
LEMMA PathFacts ==
  ASSUME GraphType, IsFiniteSet(nodes), Ordinary
  PROVE  Paths \in SUBSET Triple /\ Paths = Starts \cup Extended(Determined, Paths)
<1> DEFINE D == Determined
           W == WithinReach
           c == Cardinality(nodes)
<1>1. c \in Nat
  BY FS_CardinalityType
<1>2. /\ W \in [Nat -> SUBSET nodes] /\ W[0] = Given
      /\ \A i \in Nat : W[i + 1] = Grown(W[i])
  BY Reach
<1>3. PICK P \in [Nat -> SUBSET Triple] :
          /\ P[0] = Starts
          /\ \A i \in Nat : P[i + 1] = P[i] \cup Extended(D, P[i])
          /\ Paths = P[c]
  BY <1>1, PathSteps DEF Paths
<1>4. \A m \in D : \E n \in Nat : n + 1 = c /\ m \in W[n]
  BY DeterminedFacts
<1> HIDE DEF D, W, c
<1>5. \A i \in Nat : i + 1 \in Nat /\ P[i] \subseteq P[i + 1] /\ Extended(D, P[i]) \subseteq P[i + 1]
  BY <1>3
<1>6. \A i \in Nat : Starts \subseteq P[i]
  <2> DEFINE T == {i \in Nat : Starts \subseteq P[i]}
  <2>1. 0 \in T
    BY <1>3
  <2>2. \A i \in T \cap Nat : i + 1 \in T
    BY <1>5
  <2> HIDE DEF T
  <2>3. Nat \subseteq T
    BY <2>1, <2>2, NumberInduction
  <2> QED BY <2>3 DEF T
\* Whatever precedes the last edge is in the set too.
<1>7. \A i \in Nat : P[i] \subseteq Starts \cup Extended(D, P[i])
  <2> DEFINE T == {i \in Nat : P[i] \subseteq Starts \cup Extended(D, P[i])}
  <2>1. 0 \in T
    BY <1>3
  <2>2. ASSUME NEW i \in T \cap Nat PROVE i + 1 \in T
    <3>1. i \in Nat /\ i + 1 \in Nat /\ P[i] \subseteq P[i + 1]
      BY <1>5
    <3>2. Extended(D, P[i]) \subseteq Extended(D, P[i + 1])
      BY <3>1, ExtendedFacts
    <3>3. P[i + 1] = P[i] \cup Extended(D, P[i]) /\ P[i] \subseteq Starts \cup Extended(D, P[i])
      BY <1>3, <3>1
    <3> QED BY <3>1, <3>2, <3>3
  <2> HIDE DEF T
  <2>3. Nat \subseteq T
    BY <2>1, <2>2, NumberInduction
  <2> QED BY <2>3 DEF T
\* A path is collected in as many steps as its end is away.
<1>8. \A j \in Nat : \A i \in Nat : \A q \in P[j] : q[1] \in W[i] => q \in P[i]
  <2> DEFINE T == {j \in Nat : \A i \in Nat : \A q \in P[j] : q[1] \in W[i] => q \in P[i]}
  <2>1. 0 \in T
    BY <1>3, <1>6
  <2>2. ASSUME NEW j \in T \cap Nat PROVE j + 1 \in T
    <3>0. j \in Nat /\ j + 1 \in Nat /\ \A i \in Nat : \A q \in P[j] : q[1] \in W[i] => q \in P[i]
      BY <2>2
    <3> HIDE DEF T
    <3> DEFINE U == {i \in Nat : \A q \in P[j + 1] : q[1] \in W[i] => q \in P[i]}
    <3>1. ASSUME NEW q \in P[j + 1], NEW i \in Nat, q[1] \in W[i], q \notin P[i]
          PROVE  \E k \in DOMAIN edges : \E r \in P[j] :
                     /\ r[1] = edges[k].from /\ r[1] \in D /\ k \in EdgesInto(q[1])
                     /\ q = <<edges[k].to, r[2] + edges[k].early, r[3] + edges[k].late>>
      <4>1. q \in Extended(D, P[j])
        BY <1>3, <3>0, <3>1
      <4>2. PICK k \in DOMAIN edges, r \in P[j] :
                /\ r[1] = edges[k].from /\ r[1] \in D
                /\ q = <<edges[k].to, r[2] + edges[k].early, r[3] + edges[k].late>>
        BY <4>1, ExtendedFacts
      <4>3. k \in EdgesInto(q[1])
        BY <4>2 DEF EdgesInto
      <4> QED BY <4>2, <4>3
    <3>2. 0 \in U
      <4> SUFFICES ASSUME NEW q \in P[j + 1], q[1] \in W[0], q \notin P[0] PROVE FALSE
        OBVIOUS
      <4>1. EdgesInto(q[1]) = {}
        BY <1>2 DEF Ordinary
      <4> QED BY <3>1, <4>1
    <3>3. ASSUME NEW i \in U \cap Nat PROVE i + 1 \in U
      <4>0. i \in Nat /\ i + 1 \in Nat /\ \A q \in P[j + 1] : q[1] \in W[i] => q \in P[i]
        BY <3>3
      <4> HIDE DEF U
      <4> SUFFICES ASSUME NEW q \in P[j + 1], q[1] \in W[i + 1], q \notin P[i + 1] PROVE FALSE
        BY <4>0 DEF U
      <4>1. PICK k \in DOMAIN edges, r \in P[j] :
                /\ r[1] = edges[k].from /\ r[1] \in D /\ k \in EdgesInto(q[1])
                /\ q = <<edges[k].to, r[2] + edges[k].early, r[3] + edges[k].late>>
        BY <3>1, <4>0
      <4>2. q[1] \notin W[i]
        BY <1>5, <4>0
      <4>3. W[i + 1] = Grown(W[i])
        BY <1>2, <4>0
      <4>4. r[1] \in W[i]
        BY <4>1, <4>2, <4>3 DEF Grown
      <4>5. r \in P[i]
        BY <3>0, <4>0, <4>4
      <4>6. q \in Extended(D, P[i])
        BY <4>1, <4>5, ExtendedFacts
      <4> QED BY <1>5, <4>0, <4>6
    <3> HIDE DEF U
    <3>4. Nat \subseteq U
      BY <3>2, <3>3, NumberInduction
    <3> QED BY <3>0, <3>4 DEF T, U
  <2> HIDE DEF T
  <2>3. Nat \subseteq T
    BY <2>1, <2>2, NumberInduction
  <2> QED BY <2>3 DEF T
<1>9. Extended(D, P[c]) \subseteq P[c]
  <2> SUFFICES ASSUME NEW p \in Extended(D, P[c]) PROVE p \in P[c]
    OBVIOUS
  <2>1. PICK k \in DOMAIN edges, q \in P[c] :
            /\ q[1] = edges[k].from /\ q[1] \in D
            /\ p = <<edges[k].to, q[2] + edges[k].early, q[3] + edges[k].late>>
    BY ExtendedFacts
  <2>2. PICK n \in Nat : n + 1 = c /\ q[1] \in W[n]
    BY <1>4, <2>1
  <2>3. q \in P[n]
    BY <1>1, <1>8, <2>2
  <2>4. p \in Extended(D, P[n])
    BY <2>1, <2>3, ExtendedFacts
  <2> QED BY <1>5, <2>2, <2>4
<1>10. P[c] = Starts \cup Extended(D, P[c])
  BY <1>1, <1>6, <1>7, <1>9
<1> QED BY <1>1, <1>3, <1>10 DEF D

-----------------------------------------------------------------------------
(* Arrival times                                                           *)

\* A sum of delays beyond the largest double, which stands for no arrival time.
TooFar == \E p \in Paths : ~(-Far < p[2] /\ p[2] < Far /\ -Far < p[3] /\ p[3] < Far)

\* The nodes that propagation has come to so far, and those it will come to.
OnlyDetermined == Queued \cup taken \subseteq Determined
NoneForgotten ==
    /\ \A n \in nodes : EdgesInto(n) # {} /\ Unrelaxed(n) = {} => n \in Queued \cup taken
    /\ phase = "propagate" => Given \subseteq Queued \cup taken

\* A time that has arrived is the sum over a path.
TimesOfPaths == \A n \in nodes :
    /\ at_early[n] = Far \/ \E p \in Paths : p[1] = n /\ p[2] = at_early[n]
    /\ at_late[n] = -Far \/ \E p \in Paths : p[1] = n /\ p[3] = at_late[n]

\* The times given and the edges relaxed so far have been counted.
SeedsCount == \A j \in DOMAIN pi_ats : phase = "propagate" \/ j < pos =>
    at_early[pi_ats[j].to] <= pi_ats[j].early /\ pi_ats[j].late <= at_late[pi_ats[j].to]
EdgesCount == \A k \in DOMAIN edges : edges[k].from \in taken /\ k \notin todo =>
    \A q \in Paths : q[1] = edges[k].from =>
        at_early[edges[k].to] <= q[2] + edges[k].early /\ q[3] + edges[k].late <= at_late[edges[k].to]

Arriving == OnlyDetermined /\ NoneForgotten /\ TimesOfPaths /\ SeedsCount /\ EdgesCount

\* What ArrivalsAreExtremes says of the end of propagation.
Extremes ==
    /\ taken = Determined
    /\ \A n \in nodes : /\ Least({p[2] : p \in EndingAt(n, Paths)}, at_early[n])
                        /\ Least({-p[3] : p \in EndingAt(n, Paths)}, -at_late[n])

Usual == Ordinary /\ ~TooFar

AInv ==
    /\ IInv /\ IsFiniteSet(nodes)
    /\ Usual => /\ Propagating => Arriving
                /\ phase \in {"setup", "hold", "done"} => Extremes

LEMMA GraphStays ==
  ASSUME UNCHANGED graph
  PROVE  /\ Determined' = Determined /\ Paths' = Paths /\ Given' = Given
         /\ Usual' = Usual /\ Ordinary' = Ordinary
         /\ \A n : EdgesInto(n)' = EdgesInto(n)
<1>1. Given' = Given /\ \A n : EdgesInto(n)' = EdgesInto(n)
  BY DEF Given, EdgesInto, graph
<1>2. Ordinary' = Ordinary
  BY <1>1 DEF Ordinary, graph
<1>3. Determined' = Determined
  BY DEF Determined, WithinReach, Given, EdgesInto, graph
<1>4. Paths' = Paths
  <2>1. \A D : PathsWithin(D)' = PathsWithin(D)
    BY DEF PathsWithin, graph
  <2> QED BY <1>3, <2>1 DEF Paths
<1>5. TooFar' = TooFar
  BY <1>4 DEF TooFar
<1> QED BY <1>1, <1>2, <1>3, <1>4, <1>5 DEF Usual

\* A path given ends at its input, and one extended where its edge leads.
LEMMA PathIntro ==
  ASSUME GraphType, IsFiniteSet(nodes), Ordinary
  PROVE  /\ \A j \in DOMAIN pi_ats : <<pi_ats[j].to, pi_ats[j].early, pi_ats[j].late>> \in Paths
         /\ \A k \in DOMAIN edges : \A q \in Paths : q[1] = edges[k].from /\ q[1] \in Determined =>
                <<edges[k].to, q[2] + edges[k].early, q[3] + edges[k].late>> \in Paths
<1>1. Paths = Starts \cup Extended(Determined, Paths)
  BY PathFacts
<1>2. \A j \in DOMAIN pi_ats : <<pi_ats[j].to, pi_ats[j].early, pi_ats[j].late>> \in Starts
  BY DEF Starts
<1>3. ASSUME NEW k \in DOMAIN edges, NEW q \in Paths, q[1] = edges[k].from, q[1] \in Determined
      PROVE  <<edges[k].to, q[2] + edges[k].early, q[3] + edges[k].late>> \in Extended(Determined, Paths)
  BY <1>3, ExtendedFacts
<1> QED BY <1>1, <1>2, <1>3

LEMMA PathCases ==
  ASSUME GraphType, IsFiniteSet(nodes), Ordinary, NEW p \in Paths
  PROVE  \/ \E j \in DOMAIN pi_ats : p = <<pi_ats[j].to, pi_ats[j].early, pi_ats[j].late>>
         \/ \E k \in DOMAIN edges : \E q \in Paths :
                /\ q[1] = edges[k].from /\ q[1] \in Determined
                /\ p = <<edges[k].to, q[2] + edges[k].early, q[3] + edges[k].late>>
<1>1. p \in Starts \/ p \in Extended(Determined, Paths)
  BY PathFacts
<1>2. CASE p \in Starts
  BY <1>2 DEF Starts
<1>3. CASE p \in Extended(Determined, Paths)
  BY <1>3, ExtendedFacts
<1> QED BY <1>1, <1>2, <1>3

LEMMA PathNumbers ==
  ASSUME GraphType, IsFiniteSet(nodes), Ordinary
  PROVE  \A p \in Paths : p[1] \in nodes /\ p[2] \in Int /\ p[3] \in Int
<1>1. Paths \in SUBSET Triple
  BY PathFacts
<1> QED BY <1>1 DEF Triple

LEMMA TypeParts == ASSUME IInv PROVE GraphType /\ (Propagating => TimesType) /\ QueueType
BY DEF IInv, TypeOK, GraphType, TimesType, QueueType, Propagating

\* A node that every edge into it has reached has its final times.
LEMMA Final ==
  ASSUME AInv, Usual, phase = "propagate", NEW n \in nodes, Unrelaxed(n) = {}
  PROVE  \A q \in Paths : q[1] = n => at_early[n] <= q[2] /\ q[3] <= at_late[n]
<1>1. GraphType /\ IsFiniteSet(nodes) /\ Ordinary /\ Arriving
  BY TypeParts DEF AInv, Usual, Propagating
<1> SUFFICES ASSUME NEW q \in Paths, q[1] = n PROVE at_early[n] <= q[2] /\ q[3] <= at_late[n]
  OBVIOUS
<1>2. CASE \E j \in DOMAIN pi_ats : q = <<pi_ats[j].to, pi_ats[j].early, pi_ats[j].late>>
  <2>1. PICK j \in DOMAIN pi_ats : q = <<pi_ats[j].to, pi_ats[j].early, pi_ats[j].late>>
    BY <1>2
  <2>2. pi_ats[j].to = n /\ q[2] = pi_ats[j].early /\ q[3] = pi_ats[j].late
    BY <2>1
  <2> QED BY <1>1, <2>2 DEF Arriving, SeedsCount
<1>3. CASE \E k \in DOMAIN edges : \E r \in Paths :
               /\ r[1] = edges[k].from /\ r[1] \in Determined
               /\ q = <<edges[k].to, r[2] + edges[k].early, r[3] + edges[k].late>>
  <2>1. PICK k \in DOMAIN edges, r \in Paths :
            /\ r[1] = edges[k].from
            /\ q = <<edges[k].to, r[2] + edges[k].early, r[3] + edges[k].late>>
    BY <1>3
  <2>2. edges[k].to = n /\ q[2] = r[2] + edges[k].early /\ q[3] = r[3] + edges[k].late
    BY <2>1
  <2>3. edges[k].from \in taken /\ k \notin todo
    BY <2>2 DEF Unrelaxed, EdgesInto
  <2> QED BY <1>1, <2>1, <2>2, <2>3 DEF Arriving, EdgesCount
<1> QED BY <1>1, <1>2, <1>3, PathCases

\* Unprimed facts a step out of a usual state starts from.
LEMMA Before ==
  ASSUME AInv, Usual
  PROVE  /\ IInv /\ GraphType /\ IsFiniteSet(nodes) /\ Ordinary
         /\ QueueType /\ (Propagating => TimesType /\ Arriving /\ Settled /\ Counted)
BY TypeParts DEF AInv, Usual, IInv, Propagating

LEMMA EndTimingArrives == ASSUME AInv, EndTiming, Usual PROVE Arriving'
<1>1. /\ phase' = "seed" /\ pos' = 1 /\ UNCHANGED <<graph, queue>> /\ phase = "timing"
      /\ at_early' = [n \in nodes |-> Far] /\ at_late' = [n \in nodes |-> -Far]
  BY DEF EndTiming
<1>2. taken = {} /\ que = <<>>
  BY <1>1 DEF AInv, IInv, NothingTaken, NothingQueued, Reading
<1>3. Queued' = {} /\ taken' = {} /\ \A n : Unrelaxed(n)' = EdgesInto(n)
  BY <1>1, <1>2 DEF Queued, Unrelaxed, EdgesInto, graph, queue
<1>4. nodes' = nodes /\ pi_ats' = pi_ats /\ edges' = edges /\ \A n : EdgesInto(n)' = EdgesInto(n)
  BY <1>1, GraphStays DEF graph
<1>5. OnlyDetermined' /\ NoneForgotten'
  BY <1>1, <1>3, <1>4 DEF OnlyDetermined, NoneForgotten
<1>6. TimesOfPaths'
  BY <1>1, <1>4 DEF TimesOfPaths
<1>7. SeedsCount'
  <2>1. pi_ats \in Seq([to : nodes, early : Int, late : Int])
    BY Before DEF GraphType
  <2>2. \A j \in DOMAIN pi_ats : ~(j < 1)
    BY <2>1
  <2> QED BY <1>1, <1>4, <2>2 DEF SeedsCount
<1>8. EdgesCount'
  BY <1>3 DEF EdgesCount
<1> QED BY <1>5, <1>6, <1>7, <1>8 DEF Arriving

LEMMA SeedArrives == ASSUME AInv, Seed, Usual PROVE Arriving'
<1> DEFINE at == pi_ats[pos]
<1>1. /\ phase = "seed" /\ phase' = "seed" /\ pos <= Len(pi_ats) /\ pos' = pos + 1
      /\ at_early' = [at_early EXCEPT ![at.to] = at.early]
      /\ at_late' = [at_late EXCEPT ![at.to] = at.late]
      /\ que' = Append(que, at.to)
      /\ UNCHANGED <<graph, from, todo, taken>>
  BY DEF Seed
<1>2. /\ GraphType /\ IsFiniteSet(nodes) /\ Ordinary /\ TimesType /\ Arriving
      /\ taken = {} /\ todo = {} /\ que \in Seq(nodes) /\ pos \in Nat \ {0}
  BY <1>1, Before DEF Propagating, AInv, IInv, NothingTaken, TypeOK
<1>3. pos \in DOMAIN pi_ats /\ pi_ats \in Seq([to : nodes, early : Int, late : Int])
  BY <1>1, <1>2 DEF GraphType
<1>4. at.to \in nodes /\ at.early \in Int /\ at.late \in Int /\ at.to \in Given
  BY <1>2, <1>3, ElementTypes DEF Given
<1>5. /\ nodes' = nodes /\ pi_ats' = pi_ats /\ edges' = edges /\ \A n : EdgesInto(n)' = EdgesInto(n)
      /\ Determined' = Determined /\ Paths' = Paths
  BY <1>1, GraphStays DEF graph
<1>6. Queued' = Queued \cup {at.to} /\ taken' = {} /\ \A n : Unrelaxed(n)' = Unrelaxed(n)
  <2>1. /\ DOMAIN que' = 1 .. Len(que) + 1 /\ DOMAIN que = 1 .. Len(que) /\ Len(que) \in Nat
        /\ que'[Len(que) + 1] = at.to /\ \A a \in DOMAIN que : que'[a] = que[a]
    BY <1>1, <1>2, <1>4
  <2>2. \A a \in DOMAIN que' : a \in DOMAIN que \/ a = Len(que) + 1
    BY <2>1
  <2>3. Queued' = Queued \cup {at.to}
    BY <2>1, <2>2 DEF Queued
  <2> QED BY <1>1, <1>2, <2>3 DEF Unrelaxed, EdgesInto, graph
<1>7. at.to \in Determined
  BY <1>2, <1>4, DeterminedFacts
<1>8. OnlyDetermined' /\ NoneForgotten'
  BY <1>1, <1>2, <1>5, <1>6, <1>7 DEF Arriving, OnlyDetermined, NoneForgotten
<1>9. at_early \in [nodes -> Int] /\ at_late \in [nodes -> Int]
  BY <1>2 DEF TimesType
<1> DEFINE p == <<at.to, at.early, at.late>>
<1>10. p \in Paths /\ p[1] = at.to /\ p[2] = at.early /\ p[3] = at.late
  BY <1>2, <1>3, PathIntro
<1>11. TimesOfPaths'
  <2> HIDE DEF p
  <2>1. ASSUME NEW n \in nodes
        PROVE  /\ at_early'[n] = Far \/ \E q \in Paths : q[1] = n /\ q[2] = at_early'[n]
               /\ at_late'[n] = -Far \/ \E q \in Paths : q[1] = n /\ q[3] = at_late'[n]
    <3>1. CASE n = at.to
      <4>1. at_early'[n] = at.early /\ at_late'[n] = at.late
        BY <1>1, <1>4, <1>9, <3>1
      <4> QED BY <1>10, <3>1, <4>1
    <3>2. CASE n # at.to
      <4>1. at_early'[n] = at_early[n] /\ at_late'[n] = at_late[n]
        BY <1>1, <1>9, <3>2
      <4> QED BY <1>2, <4>1 DEF Arriving, TimesOfPaths
    <3> QED BY <3>1, <3>2
  <2> QED BY <1>5, <2>1 DEF TimesOfPaths
<1>12. SeedsCount'
  <2>1. ASSUME NEW j \in DOMAIN pi_ats, j < pos + 1
        PROVE  at_early'[pi_ats[j].to] <= pi_ats[j].early /\ pi_ats[j].late <= at_late'[pi_ats[j].to]
    <3>1. CASE j = pos
      BY <1>1, <1>4, <1>9, <3>1
    <3>2. CASE j # pos
      <4>1. j < pos
        BY <1>2, <1>3, <2>1, <3>2
      <4>2. pi_ats[j].to # at.to /\ pi_ats[j].to \in nodes
        BY <1>2, <1>3, <3>2, ElementTypes DEF Ordinary
      <4>3. at_early[pi_ats[j].to] <= pi_ats[j].early /\ pi_ats[j].late <= at_late[pi_ats[j].to]
        BY <1>2, <4>1 DEF Arriving, SeedsCount
      <4> QED BY <1>1, <1>9, <4>2, <4>3
    <3> QED BY <3>1, <3>2
  <2> QED BY <1>1, <1>5, <2>1 DEF SeedsCount
<1>13. EdgesCount'
  BY <1>6 DEF EdgesCount
<1> QED BY <1>8, <1>11, <1>12, <1>13 DEF Arriving

LEMMA EndSeedArrives == ASSUME AInv, EndSeed, Usual PROVE Arriving'
<1>1. /\ phase = "seed" /\ phase' = "propagate" /\ pos > Len(pi_ats) /\ UNCHANGED <<graph, pos, times, queue>>
  BY DEF EndSeed
<1>2. /\ GraphType /\ Arriving /\ Ordinary /\ pos \in Nat
  BY <1>1, Before DEF Propagating, AInv, IInv, TypeOK
<1>3. /\ nodes' = nodes /\ pi_ats' = pi_ats /\ edges' = edges /\ \A n : EdgesInto(n)' = EdgesInto(n)
      /\ Determined' = Determined /\ Paths' = Paths /\ Given' = Given
  BY <1>1, GraphStays DEF graph
<1>4. Queued' = Queued /\ taken' = taken /\ todo' = todo /\ \A n : Unrelaxed(n)' = Unrelaxed(n)
  BY <1>1 DEF Queued, Unrelaxed, EdgesInto, graph, queue
<1>5. DOMAIN pi_ats = 1 .. Len(pi_ats) /\ Len(pi_ats) \in Nat
  BY <1>2 DEF GraphType
<1>6. OnlyDetermined'
  BY <1>2, <1>3, <1>4 DEF Arriving, OnlyDetermined
<1>7. NoneForgotten'
  <2>1. Given \subseteq Queued
    <3>1. Len(que) = Len(pi_ats) /\ \A a \in DOMAIN que : que[a] = pi_ats[a].to
      <4>1. Seeded /\ que \in Seq(nodes)
        BY <1>2 DEF AInv, IInv, TypeOK
      <4>2. pos - 1 = Len(que) /\ Len(que) <= Len(pi_ats) /\ Len(que) \in Nat
        BY <1>1, <4>1 DEF Seeded
      <4> QED BY <1>1, <1>2, <1>5, <4>1, <4>2 DEF Seeded
    <3>2. que \in Seq(nodes)
      BY DEF AInv, IInv, TypeOK
    <3>3. DOMAIN que = DOMAIN pi_ats
      BY <1>5, <3>1, <3>2
    <3> QED BY <3>1, <3>3 DEF Queued, Given
  <2> QED BY <1>2, <1>3, <1>4, <2>1 DEF Arriving, NoneForgotten
<1>8. TimesOfPaths'
  BY <1>1, <1>2, <1>3 DEF Arriving, TimesOfPaths, times
<1>9. SeedsCount'
  <2>1. \A j \in DOMAIN pi_ats : j < pos
    BY <1>1, <1>2, <1>5
  <2>2. \A j \in DOMAIN pi_ats : at_early[pi_ats[j].to] <= pi_ats[j].early /\ pi_ats[j].late <= at_late[pi_ats[j].to]
    BY <1>2, <2>1 DEF Arriving, SeedsCount
  <2> QED BY <1>1, <1>3, <2>2 DEF SeedsCount, times
<1>10. EdgesCount'
  BY <1>1, <1>2, <1>3, <1>4 DEF Arriving, EdgesCount, times
<1> QED BY <1>6, <1>7, <1>8, <1>9, <1>10 DEF Arriving

\* Pop leaves the edges still to be relaxed alone.
LEMMA PopArrives == ASSUME AInv, Pop, Usual PROVE Arriving'
<1> DEFINE h == Head(que)
<1>1. /\ phase = "propagate" /\ phase' = phase /\ todo = {} /\ que # <<>>
      /\ from' = h /\ que' = Tail(que) /\ todo' = EdgesOf(h)
      /\ taken' = taken \cup {h}
      /\ UNCHANGED <<graph, pos, times>>
  BY DEF Pop
<1>2. GraphType /\ Arriving /\ Ordinary /\ Settled /\ que \in Seq(nodes)
  BY <1>1, Before DEF Propagating, AInv, IInv, TypeOK
<1>3. /\ h = que[1] /\ 1 \in DOMAIN que
      /\ \A a \in DOMAIN que' : a + 1 \in DOMAIN que /\ que'[a] = que[a + 1]
      /\ \A a \in DOMAIN que : a = 1 \/ (a - 1 \in DOMAIN que' /\ que'[a - 1] = que[a])
  BY <1>1, <1>2
<1>4. h \in Queued /\ h \notin taken
  BY <1>1, <1>2, <1>3 DEF Settled, Propagating, Queued
<1>5. Queued' \cup taken' = Queued \cup taken
  <2>1. Queued' \subseteq Queued
    BY <1>3 DEF Queued
  <2>2. Queued \subseteq Queued' \cup {h}
    <3> SUFFICES ASSUME NEW a \in DOMAIN que PROVE que[a] \in Queued' \cup {h}
      BY DEF Queued
    <3>1. CASE a = 1
      BY <1>3, <3>1
    <3>2. CASE a # 1
      <4>1. a - 1 \in DOMAIN que' /\ que'[a - 1] = que[a]
        BY <1>3, <3>2
      <4> QED BY <4>1 DEF Queued
    <3> QED BY <3>1, <3>2
  <2> QED BY <1>1, <1>4, <2>1, <2>2
<1>6. /\ nodes' = nodes /\ pi_ats' = pi_ats /\ edges' = edges /\ \A n : EdgesInto(n)' = EdgesInto(n)
      /\ Determined' = Determined /\ Paths' = Paths /\ Given' = Given
  BY <1>1, GraphStays DEF graph
<1>7. \A k \in DOMAIN edges : (edges[k].from \in taken' /\ k \notin todo')
                                <=> (edges[k].from \in taken /\ k \notin todo)
  <2> TAKE k \in DOMAIN edges
  <2>1. k \in todo' <=> edges[k].from = h
    BY <1>1 DEF EdgesOf
  <2> QED BY <1>1, <1>4, <2>1
<1>8. \A n : Unrelaxed(n)' = Unrelaxed(n)
  BY <1>6, <1>7 DEF Unrelaxed, EdgesInto
<1>9. OnlyDetermined' /\ NoneForgotten'
  BY <1>1, <1>2, <1>5, <1>6, <1>8 DEF Arriving, OnlyDetermined, NoneForgotten
<1>10. TimesOfPaths' /\ SeedsCount'
  BY <1>1, <1>2, <1>6 DEF Arriving, TimesOfPaths, SeedsCount, times
<1>11. EdgesCount'
  BY <1>1, <1>2, <1>6, <1>7 DEF Arriving, EdgesCount, times
<1> QED BY <1>9, <1>10, <1>11 DEF Arriving

\* What relaxing edge k does to the two times of its target.
LEMMA RelaxTimes ==
  ASSUME AInv, NEW k, Relax(k), Usual
  PROVE  LET n == edges[k].to
         IN  /\ k \in DOMAIN edges /\ edges[k].from = from /\ n \in nodes /\ from \in taken
             /\ at_early \in [nodes -> Int] /\ at_late \in [nodes -> Int]
             /\ at_early'[n] \in Int /\ at_late'[n] \in Int
             /\ \A m \in nodes : m # n => at_early'[m] = at_early[m] /\ at_late'[m] = at_late[m]
             /\ at_early'[n] <= at_early[n] /\ at_late[n] <= at_late'[n]
             /\ \/ at_early'[n] = at_early[n]
                \/ \E q \in Paths : q[1] = from /\ at_early'[n] = q[2] + edges[k].early
             /\ \/ at_late'[n] = at_late[n]
                \/ \E q \in Paths : q[1] = from /\ at_late'[n] = q[3] + edges[k].late
             /\ \A q \in Paths : q[1] = from =>
                    at_early'[n] <= q[2] + edges[k].early /\ q[3] + edges[k].late <= at_late'[n]
<1> DEFINE n == edges[k].to
           e == edges[k].early
           l == edges[k].late
<1>1. /\ phase = "propagate" /\ k \in todo
      /\ at_early' = [at_early EXCEPT ![n] = Min2(@, Later(at_early[from], e))]
      /\ at_late' = [at_late EXCEPT ![n] = Max2(@, Later(at_late[from], l))]
  BY DEF Relax
<1>2. GraphType /\ IsFiniteSet(nodes) /\ Ordinary /\ TimesType /\ Arriving /\ Settled /\ QueueType
  BY <1>1, Before DEF Propagating
<1>3. k \in DOMAIN edges /\ edges[k].from = from
  BY <1>1, <1>2 DEF QueueType, EdgesOf
<1>4. n \in nodes /\ e \in Int /\ l \in Int /\ from \in nodes
  BY <1>2, <1>3, ElementTypes
<1>5. from \in taken /\ Unrelaxed(from) = {}
  BY <1>1, <1>2 DEF Settled, Propagating
<1>6. at_early \in [nodes -> Int] /\ at_late \in [nodes -> Int]
  BY <1>2 DEF TimesType
<1>7. \A q \in Paths : q[1] = from => at_early[from] <= q[2] /\ q[3] <= at_late[from]
  BY <1>1, <1>4, <1>5, Final
<1>8. \A q \in Paths : /\ q[2] \in Int /\ q[3] \in Int
                       /\ -Far < q[2] /\ q[2] < Far /\ -Far < q[3] /\ q[3] < Far
  BY <1>2, PathNumbers DEF Usual, TooFar
<1>9. /\ at_early[from] = Far \/ \E q \in Paths : q[1] = from /\ q[2] = at_early[from]
      /\ at_late[from] = -Far \/ \E q \in Paths : q[1] = from /\ q[3] = at_late[from]
  BY <1>2, <1>4 DEF Arriving, TimesOfPaths
<1>10. /\ at_early'[n] = Min2(at_early[n], Later(at_early[from], e))
       /\ at_late'[n] = Max2(at_late[n], Later(at_late[from], l))
       /\ \A m \in nodes : m # n => at_early'[m] = at_early[m] /\ at_late'[m] = at_late[m]
  BY <1>1, <1>4, <1>6
<1>11. Far \in Int /\ at_early[n] \in Int /\ at_late[n] \in Int /\ at_early[from] \in Int /\ at_late[from] \in Int
  BY <1>4, <1>6, TimerAssumption
\* No path ends at the node before, or its times are sums that a delay can be added to.
<1>12. \/ at_early[from] = Far /\ \A q \in Paths : q[1] # from
       \/ \E q \in Paths : /\ q[1] = from /\ q[2] = at_early[from]
                           /\ Later(at_early[from], e) = q[2] + e
  <2>1. CASE at_early[from] = Far
    <3>1. ASSUME NEW q \in Paths, q[1] = from PROVE FALSE
      <4>1. Far <= q[2] /\ q[2] < Far /\ q[2] \in Int
        BY <1>7, <1>8, <2>1, <3>1
      <4> QED BY <1>11, <4>1
    <3> QED BY <2>1, <3>1
  <2>2. ASSUME NEW q \in Paths, q[1] = from, q[2] = at_early[from]
        PROVE  Later(at_early[from], e) = q[2] + e
    <3>1. q[2] \in Int /\ -Far < q[2] /\ q[2] < Far
      BY <1>8
    <3>2. q[2] # Far /\ q[2] # -Far
      BY <1>11, <3>1
    <3> QED BY <2>2, <3>2 DEF Later
  <2> QED BY <1>9, <2>1, <2>2
<1>13. \/ at_late[from] = -Far /\ \A q \in Paths : q[1] # from
       \/ \E q \in Paths : /\ q[1] = from /\ q[3] = at_late[from]
                           /\ Later(at_late[from], l) = q[3] + l
  <2>1. CASE at_late[from] = -Far
    <3>1. ASSUME NEW q \in Paths, q[1] = from PROVE FALSE
      <4>1. q[3] <= -Far /\ -Far < q[3] /\ q[3] \in Int
        BY <1>7, <1>8, <2>1, <3>1
      <4> QED BY <1>11, <4>1
    <3> QED BY <2>1, <3>1
  <2>2. ASSUME NEW q \in Paths, q[1] = from, q[3] = at_late[from]
        PROVE  Later(at_late[from], l) = q[3] + l
    <3>1. q[3] \in Int /\ -Far < q[3] /\ q[3] < Far
      BY <1>8
    <3>2. q[3] # Far /\ q[3] # -Far
      BY <1>11, <3>1
    <3> QED BY <2>2, <3>2 DEF Later
  <2> QED BY <1>9, <2>1, <2>2
<1>14. \A m \in nodes : /\ at_early[m] <= Far
                        /\ -Far <= at_late[m]
  <2> TAKE m \in nodes
  <2>1. at_early[m] \in Int /\ at_late[m] \in Int
    BY <1>6
  <2>2. at_early[m] = Far \/ at_early[m] < Far
    BY <1>2, <1>8 DEF Arriving, TimesOfPaths
  <2>3. at_late[m] = -Far \/ -Far < at_late[m]
    BY <1>2, <1>8 DEF Arriving, TimesOfPaths
  <2> QED BY <1>11, <2>1, <2>2, <2>3
<1>15. /\ at_early'[n] \in Int /\ at_early'[n] <= at_early[n]
       /\ at_early'[n] = at_early[n] \/ \E q \in Paths : q[1] = from /\ at_early'[n] = q[2] + e
       /\ \A q \in Paths : q[1] = from => at_early'[n] <= q[2] + e
  <2>1. CASE at_early[from] = Far /\ \A q \in Paths : q[1] # from
    <3>1. Later(at_early[from], e) = Far /\ at_early[n] <= Far
      BY <1>4, <1>14, <2>1 DEF Later
    <3>2. at_early'[n] = at_early[n]
      BY <1>10, <1>11, <3>1 DEF Min2
    <3> QED BY <1>11, <2>1, <3>2
  <2>2. ASSUME NEW q \in Paths, q[1] = from, q[2] = at_early[from], Later(at_early[from], e) = q[2] + e
        PROVE  /\ at_early'[n] \in Int /\ at_early'[n] <= at_early[n]
               /\ at_early'[n] = at_early[n] \/ \E r \in Paths : r[1] = from /\ at_early'[n] = r[2] + e
               /\ \A r \in Paths : r[1] = from => at_early'[n] <= r[2] + e
    <3>1. q[2] + e \in Int
      BY <1>4, <1>8
    <3>2. at_early'[n] = Min2(at_early[n], q[2] + e)
      BY <1>10, <2>2
    <3> DEFINE v == q[2] + e
    <3>3. /\ at_early'[n] \in Int /\ at_early'[n] <= at_early[n] /\ at_early'[n] <= v
          /\ at_early'[n] = at_early[n] \/ at_early'[n] = v
      <4> HIDE DEF v
      <4>1. v \in Int /\ at_early'[n] = Min2(at_early[n], v)
        BY <3>1, <3>2 DEF v
      <4> QED BY <1>11, <4>1 DEF Min2
    <3>4. ASSUME NEW r \in Paths, r[1] = from PROVE at_early'[n] <= r[2] + e
      <4>1. q[2] <= r[2] /\ r[2] \in Int /\ q[2] \in Int
        BY <1>7, <1>8, <2>2, <3>4
      <4>2. v <= r[2] + e
        BY <1>4, <4>1
      <4> HIDE DEF v
      <4>3. v \in Int /\ r[2] + e \in Int
        BY <1>4, <3>1, <4>1 DEF v
      <4> QED BY <3>3, <4>2, <4>3
    <3> QED BY <2>2, <3>3, <3>4
  <2> QED BY <1>12, <2>1, <2>2
<1>16. /\ at_late'[n] \in Int /\ at_late[n] <= at_late'[n]
       /\ at_late'[n] = at_late[n] \/ \E q \in Paths : q[1] = from /\ at_late'[n] = q[3] + l
       /\ \A q \in Paths : q[1] = from => q[3] + l <= at_late'[n]
  <2>1. CASE at_late[from] = -Far /\ \A q \in Paths : q[1] # from
    <3>1. Later(at_late[from], l) = -Far /\ -Far <= at_late[n]
      BY <1>4, <1>14, <2>1 DEF Later
    <3>2. at_late'[n] = at_late[n]
      BY <1>10, <1>11, <3>1 DEF Max2
    <3> QED BY <1>11, <2>1, <3>2
  <2>2. ASSUME NEW q \in Paths, q[1] = from, q[3] = at_late[from], Later(at_late[from], l) = q[3] + l
        PROVE  /\ at_late'[n] \in Int /\ at_late[n] <= at_late'[n]
               /\ at_late'[n] = at_late[n] \/ \E r \in Paths : r[1] = from /\ at_late'[n] = r[3] + l
               /\ \A r \in Paths : r[1] = from => r[3] + l <= at_late'[n]
    <3>1. q[3] + l \in Int
      BY <1>4, <1>8
    <3>2. at_late'[n] = Max2(at_late[n], q[3] + l)
      BY <1>10, <2>2
    <3> DEFINE v == q[3] + l
    <3>3. /\ at_late'[n] \in Int /\ at_late[n] <= at_late'[n] /\ v <= at_late'[n]
          /\ at_late'[n] = at_late[n] \/ at_late'[n] = v
      <4> HIDE DEF v
      <4>1. v \in Int /\ at_late'[n] = Max2(at_late[n], v)
        BY <3>1, <3>2 DEF v
      <4> QED BY <1>11, <4>1 DEF Max2
    <3>4. ASSUME NEW r \in Paths, r[1] = from PROVE r[3] + l <= at_late'[n]
      <4>1. r[3] <= q[3] /\ r[3] \in Int /\ q[3] \in Int
        BY <1>7, <1>8, <2>2, <3>4
      <4>2. r[3] + l <= v
        BY <1>4, <4>1
      <4> HIDE DEF v
      <4>3. v \in Int /\ r[3] + l \in Int
        BY <1>4, <3>1, <4>1 DEF v
      <4> QED BY <3>3, <4>2, <4>3
    <3> QED BY <2>2, <3>3, <3>4
  <2> QED BY <1>13, <2>1, <2>2
<1> HIDE DEF n, e, l
<1>17. /\ k \in DOMAIN edges /\ edges[k].from = from /\ n \in nodes /\ from \in taken
       /\ at_early \in [nodes -> Int] /\ at_late \in [nodes -> Int]
  BY <1>3, <1>4, <1>5, <1>6
<1> QED BY <1>10, <1>15, <1>16, <1>17 DEF n, e, l

\* The target of the edge is queued if it was the last one into it.
LEMMA RelaxQueues ==
  ASSUME AInv, NEW k, Relax(k), Usual, NEW n, n = edges[k].to
  PROVE  /\ Unrelaxed(n)' = {} => Queued' = Queued \cup {n}
         /\ Unrelaxed(n)' # {} => Queued' = Queued
         /\ \A m : m # n => Unrelaxed(m)' = Unrelaxed(m)
         /\ Unrelaxed(n) # {} /\ k \in EdgesInto(n) /\ n \notin Queued \cup taken
<1> DEFINE left == rev_counts[n] - 1
<1>1. /\ phase = "propagate" /\ k \in todo /\ todo' = todo \ {k}
      /\ que' = IF left = 0 THEN Append(que, n) ELSE que
      /\ UNCHANGED <<graph, taken>>
  BY DEF Relax
<1>2. IInv /\ Ordinary /\ Counted /\ GraphType /\ QueueType /\ que \in Seq(nodes)
  BY <1>1, Before DEF Propagating, QueueType
<1>3. k \in DOMAIN edges /\ n \in nodes
  BY <1>1, <1>2, ElementTypes DEF QueueType, EdgesOf
<1>4. n \notin Queued \cup taken /\ Unrelaxed(n) \ {k} = Unrelaxed(n)' /\ k \in Unrelaxed(n)
  BY <1>2, TargetIsOpen
<1>5. left = Cardinality(Unrelaxed(n)') /\ IsFiniteSet(Unrelaxed(n)')
  <2>1. IsFiniteSet(Unrelaxed(n)) /\ rev_counts[n] = Cardinality(Unrelaxed(n))
    BY <1>1, <1>2, <1>3, EdgesFinite DEF IInv, Counted, Propagating
  <2>2. Cardinality(Unrelaxed(n) \ {k}) = Cardinality(Unrelaxed(n)) - 1 /\ IsFiniteSet(Unrelaxed(n) \ {k})
    BY <1>4, <2>1, FS_RemoveElement
  <2> QED BY <1>4, <2>1, <2>2
<1>6. left = 0 <=> Unrelaxed(n)' = {}
  BY <1>5, FS_EmptySet
<1>7. ASSUME left = 0 PROVE Queued' = Queued \cup {n}
  <2>1. /\ DOMAIN que' = 1 .. Len(que) + 1 /\ DOMAIN que = 1 .. Len(que) /\ Len(que) \in Nat
        /\ que'[Len(que) + 1] = n /\ \A a \in DOMAIN que : que'[a] = que[a]
    BY <1>1, <1>2, <1>3, <1>7
  <2>2. \A a \in DOMAIN que' : a \in DOMAIN que \/ a = Len(que) + 1
    BY <2>1
  <2> QED BY <2>1, <2>2 DEF Queued
<1>8. ASSUME left # 0 PROVE Queued' = Queued
  BY <1>1, <1>8 DEF Queued
<1>9. \A m : m # n => Unrelaxed(m)' = Unrelaxed(m)
  BY <1>1 DEF Unrelaxed, EdgesInto, graph
<1>10. k \in EdgesInto(n)
  BY <1>3 DEF EdgesInto
<1> HIDE DEF left
<1> QED BY <1>4, <1>6, <1>7, <1>8, <1>9, <1>10

LEMMA RelaxArrives == ASSUME AInv, NEW k, Relax(k), Usual PROVE Arriving'
<1>0. PICK n : n = edges[k].to
  OBVIOUS
<1>1. phase = "propagate" /\ k \in todo /\ todo' = todo \ {k} /\ UNCHANGED <<graph, phase, pos, from, taken>>
  BY DEF Relax
<1>2. GraphType /\ IsFiniteSet(nodes) /\ Ordinary /\ Arriving /\ QueueType /\ Settled
  BY <1>1, Before DEF Propagating
<1>3. /\ nodes' = nodes /\ pi_ats' = pi_ats /\ edges' = edges /\ \A m : EdgesInto(m)' = EdgesInto(m)
      /\ Determined' = Determined /\ Paths' = Paths /\ Given' = Given
  BY <1>1, GraphStays DEF graph
<1>4. /\ k \in DOMAIN edges /\ edges[k].from = from /\ n \in nodes /\ from \in taken
      /\ at_early \in [nodes -> Int] /\ at_late \in [nodes -> Int]
      /\ at_early'[n] \in Int /\ at_late'[n] \in Int
      /\ \A m \in nodes : m # n => at_early'[m] = at_early[m] /\ at_late'[m] = at_late[m]
      /\ at_early'[n] <= at_early[n] /\ at_late[n] <= at_late'[n]
      /\ \/ at_early'[n] = at_early[n]
         \/ \E q \in Paths : q[1] = from /\ at_early'[n] = q[2] + edges[k].early
      /\ \/ at_late'[n] = at_late[n]
         \/ \E q \in Paths : q[1] = from /\ at_late'[n] = q[3] + edges[k].late
      /\ \A q \in Paths : q[1] = from =>
             at_early'[n] <= q[2] + edges[k].early /\ q[3] + edges[k].late <= at_late'[n]
  BY <1>0, RelaxTimes
<1>5. /\ Unrelaxed(n)' = {} => Queued' = Queued \cup {n}
      /\ Unrelaxed(n)' # {} => Queued' = Queued
      /\ \A m : m # n => Unrelaxed(m)' = Unrelaxed(m)
      /\ Unrelaxed(n) # {} /\ k \in EdgesInto(n) /\ n \notin Queued \cup taken
  BY <1>0, RelaxQueues
<1>6. OnlyDetermined'
  <2>1. Queued \cup taken \subseteq Determined
    BY <1>2 DEF Arriving, OnlyDetermined
  <2>2. ASSUME Unrelaxed(n)' = {} PROVE n \in Determined
    <3>1. \A j \in EdgesInto(n) : edges[j].from \in taken
      BY <1>1, <1>3, <2>2 DEF Unrelaxed
    <3>2. n \in Grown(Determined)
      BY <1>4, <1>5, <2>1, <3>1 DEF Grown
    <3> QED BY <1>2, <3>2, DeterminedFacts
  <2>3. taken' = taken
    BY <1>1
  <2> QED BY <1>3, <1>5, <2>1, <2>2, <2>3 DEF OnlyDetermined
<1>7. NoneForgotten'
  <2>1. \A m \in nodes : EdgesInto(m) # {} /\ Unrelaxed(m) = {} => m \in Queued \cup taken
    BY <1>2 DEF Arriving, NoneForgotten
  <2>2. ASSUME NEW m \in nodes, EdgesInto(m) # {}, Unrelaxed(m)' = {} PROVE m \in Queued' \cup taken'
    <3>1. CASE m = n
      BY <1>5, <2>2, <3>1
    <3>2. CASE m # n
      BY <1>1, <1>5, <2>1, <2>2, <3>2
    <3> QED BY <3>1, <3>2
  <2>3. Given \subseteq Queued' \cup taken'
    BY <1>1, <1>2, <1>5 DEF Arriving, NoneForgotten
  <2> QED BY <1>3, <2>2, <2>3 DEF NoneForgotten
<1>8. TimesOfPaths'
  <2>1. ASSUME NEW m \in nodes
        PROVE  /\ at_early[m] = Far \/ \E p \in Paths : p[1] = m /\ p[2] = at_early[m]
               /\ at_late[m] = -Far \/ \E p \in Paths : p[1] = m /\ p[3] = at_late[m]
    BY <1>2 DEF Arriving, TimesOfPaths
  <2>2. ASSUME NEW q \in Paths, q[1] = from
        PROVE  \E p \in Paths : p[1] = n /\ p[2] = q[2] + edges[k].early /\ p[3] = q[3] + edges[k].late
    <3> DEFINE p == <<edges[k].to, q[2] + edges[k].early, q[3] + edges[k].late>>
    <3>1. from \in Determined
      BY <1>2, <1>4 DEF Arriving, OnlyDetermined
    <3>2. p \in Paths
      BY <1>2, <1>4, <2>2, <3>1, PathIntro
    <3>3. p[1] = n /\ p[2] = q[2] + edges[k].early /\ p[3] = q[3] + edges[k].late
      BY <1>0
    <3> HIDE DEF p
    <3> QED BY <3>2, <3>3
  <2>3. ASSUME NEW m \in nodes
        PROVE  /\ at_early'[m] = Far \/ \E p \in Paths : p[1] = m /\ p[2] = at_early'[m]
               /\ at_late'[m] = -Far \/ \E p \in Paths : p[1] = m /\ p[3] = at_late'[m]
    <3>1. CASE m # n
      BY <1>4, <2>1, <3>1
    <3>2. CASE m = n
      <4>1. at_early'[n] = Far \/ \E p \in Paths : p[1] = n /\ p[2] = at_early'[n]
        <5>1. CASE at_early'[n] = at_early[n]
          BY <1>4, <2>1, <5>1
        <5>2. CASE \E q \in Paths : q[1] = from /\ at_early'[n] = q[2] + edges[k].early
          BY <2>2, <5>2
        <5> QED BY <1>4, <5>1, <5>2
      <4>2. at_late'[n] = -Far \/ \E p \in Paths : p[1] = n /\ p[3] = at_late'[n]
        <5>1. CASE at_late'[n] = at_late[n]
          BY <1>4, <2>1, <5>1
        <5>2. CASE \E q \in Paths : q[1] = from /\ at_late'[n] = q[3] + edges[k].late
          BY <2>2, <5>2
        <5> QED BY <1>4, <5>1, <5>2
      <4> QED BY <3>2, <4>1, <4>2
    <3> QED BY <3>1, <3>2
  <2> QED BY <1>3, <2>3 DEF TimesOfPaths
\* Whatever bounds the times of a node before bounds them after.
<1>9. ASSUME NEW m \in nodes, NEW x \in Int, NEW y \in Int, at_early[m] <= x, y <= at_late[m]
      PROVE  at_early'[m] <= x /\ y <= at_late'[m]
  <2>1. CASE m = n
    <3>1. at_early[n] \in Int /\ at_late[n] \in Int
      BY <1>4
    <3> QED BY <1>4, <1>9, <2>1, <3>1
  <2>2. CASE m # n
    BY <1>4, <1>9, <2>2
  <2> QED BY <2>1, <2>2
<1>10. SeedsCount'
  <2>1. ASSUME NEW j \in DOMAIN pi_ats
        PROVE  at_early'[pi_ats[j].to] <= pi_ats[j].early /\ pi_ats[j].late <= at_late'[pi_ats[j].to]
    <3>1. pi_ats[j].to \in nodes /\ pi_ats[j].early \in Int /\ pi_ats[j].late \in Int
      BY <1>2, ElementTypes
    <3>2. at_early[pi_ats[j].to] <= pi_ats[j].early /\ pi_ats[j].late <= at_late[pi_ats[j].to]
      BY <1>1, <1>2 DEF Arriving, SeedsCount
    <3> QED BY <1>9, <3>1, <3>2
  <2> QED BY <1>3, <2>1 DEF SeedsCount
<1>11. EdgesCount'
  <2>1. ASSUME NEW j \in DOMAIN edges, edges[j].from \in taken, j \notin todo \ {k},
               NEW q \in Paths, q[1] = edges[j].from
        PROVE  /\ at_early'[edges[j].to] <= q[2] + edges[j].early
               /\ q[3] + edges[j].late <= at_late'[edges[j].to]
    <3>1. CASE j = k
      BY <1>0, <1>4, <2>1, <3>1
    <3>2. CASE j # k
      <4>1. /\ at_early[edges[j].to] <= q[2] + edges[j].early
            /\ q[3] + edges[j].late <= at_late[edges[j].to]
        BY <1>2, <2>1, <3>2 DEF Arriving, EdgesCount
      <4>2. edges[j].to \in nodes /\ edges[j].early \in Int /\ edges[j].late \in Int
        BY <1>2, ElementTypes
      <4>3. q[2] \in Int /\ q[3] \in Int
        BY <1>2, PathNumbers
      <4>4. q[2] + edges[j].early \in Int /\ q[3] + edges[j].late \in Int
        BY <4>2, <4>3
      <4> QED BY <1>9, <4>1, <4>2, <4>4
    <3> QED BY <3>1, <3>2
  <2>2. taken' = taken /\ todo' = todo \ {k}
    BY <1>1
  <2> QED BY <1>3, <2>1, <2>2 DEF EdgesCount
<1> QED BY <1>6, <1>7, <1>8, <1>10, <1>11 DEF Arriving

\* When the queue is empty, everything that is determined has been taken.
LEMMA EndPropagateArrives == ASSUME AInv, EndPropagate, Usual PROVE Extremes'
<1>1. phase = "propagate" /\ todo = {} /\ que = <<>> /\ UNCHANGED <<graph, times, queue>>
  BY DEF EndPropagate
<1>2. GraphType /\ IsFiniteSet(nodes) /\ Ordinary /\ Arriving /\ TimesType
  BY <1>1, Before DEF Propagating
<1>3. Queued = {}
  BY <1>1 DEF Queued
<1>4. taken = Determined
  <2>1. taken \subseteq Determined /\ Given \subseteq taken
    BY <1>1, <1>2, <1>3 DEF Arriving, OnlyDetermined, NoneForgotten
  <2>2. Grown(taken) \subseteq taken
    <3> SUFFICES ASSUME NEW n \in nodes, EdgesInto(n) # {}, \A k \in EdgesInto(n) : edges[k].from \in taken
                 PROVE  n \in taken
      BY DEF Grown
    <3>1. Unrelaxed(n) = {}
      BY <1>1 DEF Unrelaxed
    <3> QED BY <1>2, <1>3, <3>1 DEF Arriving, NoneForgotten
  <2>3. Determined \subseteq taken
    BY <1>2, <2>1, <2>2, DeterminedFacts
  <2> QED BY <2>1, <2>3
<1>5. ASSUME NEW n \in nodes, NEW q \in Paths, q[1] = n
      PROVE  at_early[n] <= q[2] /\ q[3] <= at_late[n]
  <2>1. CASE \E j \in DOMAIN pi_ats : q = <<pi_ats[j].to, pi_ats[j].early, pi_ats[j].late>>
    <3>1. PICK j \in DOMAIN pi_ats : q = <<pi_ats[j].to, pi_ats[j].early, pi_ats[j].late>>
      BY <2>1
    <3>2. pi_ats[j].to = n /\ q[2] = pi_ats[j].early /\ q[3] = pi_ats[j].late
      BY <1>5, <3>1
    <3> QED BY <1>1, <1>2, <3>2 DEF Arriving, SeedsCount
  <2>2. CASE \E k \in DOMAIN edges : \E r \in Paths :
                 /\ r[1] = edges[k].from /\ r[1] \in Determined
                 /\ q = <<edges[k].to, r[2] + edges[k].early, r[3] + edges[k].late>>
    <3>1. PICK k \in DOMAIN edges, r \in Paths :
              /\ r[1] = edges[k].from /\ r[1] \in Determined
              /\ q = <<edges[k].to, r[2] + edges[k].early, r[3] + edges[k].late>>
      BY <2>2
    <3>2. edges[k].to = n /\ q[2] = r[2] + edges[k].early /\ q[3] = r[3] + edges[k].late
      BY <1>5, <3>1
    <3> QED BY <1>1, <1>2, <1>4, <3>1, <3>2 DEF Arriving, EdgesCount
  <2> QED BY <1>2, <2>1, <2>2, PathCases
<1>6. ASSUME NEW n \in nodes
      PROVE  /\ Least({p[2] : p \in EndingAt(n, Paths)}, at_early[n])
             /\ Least({-p[3] : p \in EndingAt(n, Paths)}, -at_late[n])
  <2>1. /\ at_early[n] = Far \/ \E p \in Paths : p[1] = n /\ p[2] = at_early[n]
        /\ at_late[n] = -Far \/ \E p \in Paths : p[1] = n /\ p[3] = at_late[n]
    BY <1>2 DEF Arriving, TimesOfPaths
  <2>2. at_early[n] \in {p[2] : p \in EndingAt(n, Paths)} \cup {Far}
    BY <2>1 DEF EndingAt
  <2>3. -at_late[n] \in {-p[3] : p \in EndingAt(n, Paths)} \cup {Far}
    <3>1. CASE at_late[n] = -Far
      <4>1. -at_late[n] = Far
        BY <3>1, TimerAssumption
      <4> QED BY <4>1
    <3>2. CASE \E p \in Paths : p[1] = n /\ p[3] = at_late[n]
      BY <3>2 DEF EndingAt
    <3> QED BY <2>1, <3>1, <3>2
  <2>4. \A t \in {p[2] : p \in EndingAt(n, Paths)} : at_early[n] <= t
    BY <1>5 DEF EndingAt
  <2>5. \A t \in {-p[3] : p \in EndingAt(n, Paths)} : -at_late[n] <= t
    <3> SUFFICES ASSUME NEW p \in EndingAt(n, Paths) PROVE -at_late[n] <= -p[3]
      OBVIOUS
    <3>1. p \in Paths /\ p[1] = n
      BY DEF EndingAt
    <3>2. p[3] <= at_late[n]
      BY <1>5, <3>1
    <3>3. p[3] \in Int /\ at_late[n] \in Int
      BY <1>2, <3>1, PathNumbers DEF TimesType
    <3> QED BY <3>2, <3>3
  <2> QED BY <2>2, <2>3, <2>4, <2>5 DEF Least
<1>7. Extremes
  BY <1>4, <1>6 DEF Extremes
<1>8. Paths' = Paths /\ Determined' = Determined /\ nodes' = nodes
  BY <1>1, GraphStays DEF graph
<1>9. taken' = taken /\ at_early' = at_early /\ at_late' = at_late
  BY <1>1 DEF queue, times
<1> QED BY <1>7, <1>8, <1>9 DEF Extremes, EndingAt, Least

LEMMA NodesStayFinite == ASSUME IsFiniteSet(nodes), [Next]_vars PROVE IsFiniteSet(nodes)'
<1>1. nodes' = nodes \/ (\E x : nodes' = nodes \cup {x}) \/ (\E x, y : nodes' = nodes \cup {x, y})
  <2>1. CASE \E keyword \in {"input", "output"} : ReadPort(keyword)
    BY <2>1 DEF ReadPort
  <2>2. CASE \E keyword \in {"setup", "hold"} : ReadConstraint(keyword)
    BY <2>2 DEF ReadConstraint
  <2>3. CASE ReadEdge
    BY <2>3 DEF ReadEdge
  <2>4. CASE ReadClock
    BY <2>4 DEF ReadClock
  <2>5. CASE ReadAt
    BY <2>5 DEF ReadAt
  <2>6. CASE UNCHANGED graph
    BY <2>6 DEF graph
  <2>7. UNCHANGED vars => UNCHANGED graph
    BY DEF vars
  <2>8. ASSUME NEW k, Relax(k) PROVE UNCHANGED graph
    BY <2>8 DEF Relax
  <2>9. EndDelay \/ EndTiming \/ Seed \/ EndSeed \/ Pop \/ EndPropagate \/ SetupSlack \/ EndSetup
        \/ HoldSlack \/ EndHold => UNCHANGED graph
    BY DEF EndDelay, EndTiming, Seed, EndSeed, Pop, EndPropagate, SetupSlack, EndSetup, HoldSlack, EndHold
  <2> QED BY <2>1, <2>2, <2>3, <2>4, <2>5, <2>6, <2>7, <2>8, <2>9 DEF Next, Step, Printed
<1>2. ASSUME NEW x, NEW y PROVE IsFiniteSet(nodes \cup {x}) /\ IsFiniteSet(nodes \cup {x, y})
  <2>1. IsFiniteSet({x}) /\ IsFiniteSet({x, y})
    BY FS_Singleton, FS_EmptySet, FS_AddElement
  <2> QED BY <2>1, FS_Union
<1>3. CASE nodes' = nodes
  BY <1>3
<1>4. ASSUME NEW x, nodes' = nodes \cup {x} PROVE IsFiniteSet(nodes')
  BY <1>2, <1>4
<1>5. ASSUME NEW x, NEW y, nodes' = nodes \cup {x, y} PROVE IsFiniteSet(nodes')
  BY <1>2, <1>5
<1> QED BY <1>1, <1>3, <1>4, <1>5

LEMMA ArrivalsStep == AInv /\ [Next]_vars => AInv'
<1> SUFFICES ASSUME AInv, [Next]_vars PROVE AInv'
  OBVIOUS
<1>1. IInv' /\ IsFiniteSet(nodes)'
  BY StepInv, NodesStayFinite DEF AInv
<1> DEFINE Goal == Usual' => /\ Propagating' => Arriving'
                             /\ phase' \in {"setup", "hold", "done"} => Extremes'
<1> SUFFICES Goal
  BY <1>1 DEF AInv
<1>2. UNCHANGED graph => Usual' = Usual
  BY GraphStays
<1> HIDE DEF AInv
<1>3. CASE Reading'
  BY <1>3 DEF Reading, Propagating
<1>4. CASE EndTiming
  <2>1. UNCHANGED graph /\ phase' = "seed"
    BY <1>4 DEF EndTiming
  <2> QED BY <1>2, <1>4, <2>1, EndTimingArrives
<1>5. CASE Seed
  <2>1. UNCHANGED graph /\ phase' = "seed"
    BY <1>5 DEF Seed
  <2> QED BY <1>2, <1>5, <2>1, SeedArrives
<1>6. CASE EndSeed
  <2>1. UNCHANGED graph /\ phase' = "propagate"
    BY <1>6 DEF EndSeed
  <2> QED BY <1>2, <1>6, <2>1, EndSeedArrives
<1>7. CASE Pop
  <2>1. UNCHANGED graph /\ phase' = "propagate"
    BY <1>7 DEF Pop
  <2> QED BY <1>2, <1>7, <2>1, PopArrives
<1>8. ASSUME NEW k \in todo, Relax(k) PROVE Goal
  <2>1. UNCHANGED graph /\ phase' = "propagate"
    BY <1>8 DEF Relax
  <2> QED BY <1>2, <1>8, <2>1, RelaxArrives
<1>9. CASE EndPropagate
  <2>1. UNCHANGED graph /\ phase' = "setup"
    BY <1>9 DEF EndPropagate
  <2> QED BY <1>2, <1>9, <2>1, EndPropagateArrives DEF Propagating
<1>10. CASE SetupSlack \/ EndSetup \/ HoldSlack \/ EndHold
  <2>1. /\ UNCHANGED <<graph, times, queue>> /\ phase \in {"setup", "hold"}
        /\ phase' \in {"setup", "hold", "done"}
    BY <1>10 DEF SetupSlack, EndSetup, HoldSlack, EndHold
  <2>2. Extremes => Extremes'
    BY <2>1, GraphStays DEF Extremes, graph, times, queue, Least, EndingAt
  <2> QED BY <1>2, <2>1, <2>2 DEF AInv, Propagating
<1>11. CASE UNCHANGED vars
  <2>1. UNCHANGED <<graph, phase, pos, times, queue>>
    BY <1>11 DEF vars
  <2>2. Extremes => Extremes'
    BY <2>1, GraphStays DEF Extremes, graph, times, queue, Least, EndingAt
  <2>3. Queued' = Queued /\ \A n : Unrelaxed(n)' = Unrelaxed(n)
    BY <2>1 DEF Queued, Unrelaxed, EdgesInto, graph, queue
  <2>4. Arriving => Arriving'
    BY <2>1, <2>3, GraphStays DEF Arriving, OnlyDetermined, NoneForgotten, TimesOfPaths, SeedsCount, EdgesCount,
       graph, times, queue
  <2> QED BY <1>2, <2>1, <2>2, <2>4 DEF AInv, Propagating
<1>12. CASE (\E keyword \in {"input", "output"} : ReadPort(keyword))
            \/ (\E keyword \in {"setup", "hold"} : ReadConstraint(keyword))
            \/ ReadEdge \/ ReadClock \/ ReadAt \/ EndDelay
  <2>1. Reading'
    BY <1>12 DEF ReadPort, ReadConstraint, ReadEdge, ReadClock, ReadAt, EndDelay, AtLine, Reading
  <2> QED BY <2>1, <1>3
<1> HIDE DEF Goal
<1> QED BY <1>4, <1>5, <1>6, <1>7, <1>8, <1>9, <1>10, <1>11, <1>12 DEF Next, Step, Printed

LEMMA InitArrival == Init => AInv
<1> SUFFICES ASSUME Init PROVE AInv
  OBVIOUS
<1>1. IInv
  BY InitInv
<1>2. IsFiniteSet(nodes) /\ ~Propagating /\ phase \notin {"setup", "hold", "done"}
  BY FS_EmptySet DEF Init, Propagating
<1> QED BY <1>1, <1>2 DEF AInv

(***************************************************************************)
(* The inductive invariant of the propagation: the queue holds determined  *)
(* nodes only and forgets none, a time that has arrived is the sum over a  *)
(* path, and every edge relaxed has counted every path to its start; at    *)
(* the end the times are the extremes over all paths.                      *)
(***************************************************************************)
THEOREM ArrivalInvariance == Spec => []AInv
BY InitArrival, ArrivalsStep, PTL DEF Spec

(***************************************************************************)
(* Propagation takes exactly the nodes that the inputs given determine and *)
(* gives every node the least and the greatest sum of delays over the      *)
(* paths that reach it through such nodes, for every timing graph, those   *)
(* with cycles included, unless a sum reaches the largest double, which    *)
(* the code takes for no arrival time.                                     *)
(***************************************************************************)
THEOREM ArrivalsCorrect == Spec => [](TooFar \/ ArrivalsAreExtremes)
<1>1. AInv => TooFar \/ ArrivalsAreExtremes
  <2> SUFFICES ASSUME AInv, ~TooFar, phase = "done", Ordinary PROVE ArrivalsAreExtremes
    BY DEF ArrivalsAreExtremes
  <2>1. Extremes
    BY DEF AInv, Usual
  <2> QED BY <2>1 DEF ArrivalsAreExtremes, Extremes, Paths
<1> QED BY <1>1, ArrivalInvariance, PTL

-----------------------------------------------------------------------------
(* Slacks                                                                  *)

\* SetupMargins, with the period that has been read.
SetupSums(c) == {clock_period + p[2] - c.value - q[3] :
                    p \in EndingAt(c.clk, Paths), q \in EndingAt(c.data, Paths)}

\* Those of the constraints before the n-th.
SetupBefore(n) == UNION {SetupSums(setup_constraints[i]) : i \in {j \in DOMAIN setup_constraints : j < n}}
HoldBefore(n) == UNION {HoldMargins(hold_constraints[i], Paths) : i \in {j \in DOMAIN hold_constraints : j < n}}

\* The period is that of the last clock line that has been read.
ClockRead == {i \in ClockLines : phase # "delay" /\ (phase = "timing" => i < pos)}
ClockInv == ClockRead # {} =>
    \E i \in ClockRead : (\A j \in ClockRead : j <= i) /\ clock_period = file.timing[i].period

SInv ==
    /\ AInv /\ ClockInv
    /\ phase \notin {"setup", "hold", "done"} => slack_setup = Far
    /\ phase \notin {"hold", "done"} => slack_hold = Far
    /\ Usual =>
        /\ phase = "setup" => Least(SetupBefore(pos), slack_setup)
        /\ phase \in {"hold", "done"} => Least(SetupBefore(Len(setup_constraints) + 1), slack_setup)
        /\ phase = "hold" => Least(HoldBefore(pos), slack_hold)
        /\ phase = "done" => Least(HoldBefore(Len(hold_constraints) + 1), slack_hold)

LEMMA LeastOfBoth ==
  ASSUME NEW S \in SUBSET Int, NEW T \in SUBSET Int, NEW s \in Int, NEW t \in Int, Least(S, s), Least(T, t)
  PROVE  Least(S \cup T, Min2(s, t))
<1>1. Min2(s, t) \in (S \cup T) \cup {Far}
  BY DEF Least, Min2
<1>2. \A x \in S \cup T : Min2(s, t) <= x
  <2>1. \A x \in S : s <= x
    BY DEF Least
  <2>2. \A x \in T : t <= x
    BY DEF Least
  <2>3. Min2(s, t) <= s /\ Min2(s, t) <= t /\ Min2(s, t) \in Int
    BY DEF Min2
  <2> QED BY <2>1, <2>2, <2>3
<1> QED BY <1>1, <1>2 DEF Least

\* The difference of the two extremes is the worst over the pairs of paths.
LEMMA DifferenceIsWorst ==
  ASSUME AInv, Usual, Extremes, TimesType, NEW n \in nodes, NEW m \in nodes, NEW rest \in Int
  PROVE  /\ \/ Difference(at_early[n], at_late[m], rest) = Far
            \/ \E p \in EndingAt(n, Paths) : \E q \in EndingAt(m, Paths) :
                   Difference(at_early[n], at_late[m], rest) = p[2] - q[3] + rest
         /\ \A p \in EndingAt(n, Paths) : \A q \in EndingAt(m, Paths) :
                Difference(at_early[n], at_late[m], rest) <= p[2] - q[3] + rest
<1> DEFINE e == at_early[n]
           l == at_late[m]
<1>1. GraphType /\ IsFiniteSet(nodes) /\ Ordinary
  BY Before
<1>2. e \in Int /\ l \in Int /\ Far \in Int
  BY TimerAssumption DEF TimesType
<1>3. \A p \in Paths : /\ p[2] \in Int /\ p[3] \in Int
                       /\ -Far < p[2] /\ p[2] < Far /\ -Far < p[3] /\ p[3] < Far
  BY <1>1, PathNumbers DEF Usual, TooFar
<1>4. /\ e = Far \/ \E p \in EndingAt(n, Paths) : e = p[2]
      /\ \A p \in EndingAt(n, Paths) : e <= p[2]
  BY DEF Extremes, Least
<1>5. /\ l = -Far \/ \E q \in EndingAt(m, Paths) : l = q[3]
      /\ \A q \in EndingAt(m, Paths) : q[3] <= l
  <2>1. Least({-p[3] : p \in EndingAt(m, Paths)}, -l)
    BY DEF Extremes
  <2>2. -l \in {-p[3] : p \in EndingAt(m, Paths)} \cup {Far} /\ \A q \in EndingAt(m, Paths) : -l <= -q[3]
    BY <2>1 DEF Least
  <2> HIDE DEF l
  <2>3. -l = Far => l = -Far
    BY <1>2
  <2>4. \A q \in EndingAt(m, Paths) : q[3] \in Int
    BY <1>3 DEF EndingAt
  <2>5. \A x \in Int : (-l = -x => l = x) /\ (-l <= -x => x <= l)
    BY <1>2
  <2> QED BY <2>2, <2>3, <2>4, <2>5
<1>6. EndingAt(n, Paths) \subseteq Paths /\ EndingAt(m, Paths) \subseteq Paths
  BY DEF EndingAt
<1> HIDE DEF e, l
<1>7. CASE e = Far \/ l = -Far
  <2>1. Difference(e, l, rest) = Far
    BY <1>7 DEF Difference
  <2>2. e = Far => EndingAt(n, Paths) = {}
    <3> SUFFICES ASSUME e = Far, NEW p \in EndingAt(n, Paths) PROVE FALSE
      OBVIOUS
    <3>1. Far <= p[2] /\ p[2] < Far /\ p[2] \in Int
      BY <1>3, <1>4, <1>6
    <3> QED BY <1>2, <3>1
  <2>3. l = -Far => EndingAt(m, Paths) = {}
    <3> SUFFICES ASSUME l = -Far, NEW q \in EndingAt(m, Paths) PROVE FALSE
      OBVIOUS
    <3>1. q[3] <= -Far /\ -Far < q[3] /\ q[3] \in Int
      BY <1>3, <1>5, <1>6
    <3> QED BY <1>2, <3>1
  <2> QED BY <1>7, <2>1, <2>2, <2>3 DEF e, l
<1>8. CASE e # Far /\ l # -Far
  <2>1. Difference(e, l, rest) = e - l + rest
    BY <1>8 DEF Difference
  <2>2. PICK p \in EndingAt(n, Paths), q \in EndingAt(m, Paths) : e = p[2] /\ l = q[3]
    BY <1>4, <1>5, <1>8
  <2>3. Difference(e, l, rest) = p[2] - q[3] + rest
    BY <2>1, <2>2
  <2>4. ASSUME NEW r \in EndingAt(n, Paths), NEW s \in EndingAt(m, Paths)
        PROVE  Difference(e, l, rest) <= r[2] - s[3] + rest
    <3>1. e <= r[2] /\ s[3] <= l /\ r[2] \in Int /\ s[3] \in Int
      BY <1>3, <1>4, <1>5, <1>6
    <3>2. \A x, y \in Int : e <= x /\ y <= l => e - l + rest <= x - y + rest
      BY <1>2
    <3> QED BY <2>1, <3>1, <3>2
  <2> QED BY <2>3, <2>4 DEF e, l
<1> QED BY <1>7, <1>8

LEMMA ConstraintTypes ==
  ASSUME GraphType
  PROVE  /\ \A i \in DOMAIN setup_constraints : /\ setup_constraints[i].clk \in nodes
                /\ setup_constraints[i].data \in nodes /\ setup_constraints[i].value \in Int
         /\ \A i \in DOMAIN hold_constraints : /\ hold_constraints[i].clk \in nodes
                /\ hold_constraints[i].data \in nodes /\ hold_constraints[i].value \in Int
         /\ DOMAIN setup_constraints = 1 .. Len(setup_constraints) /\ Len(setup_constraints) \in Nat
         /\ DOMAIN hold_constraints = 1 .. Len(hold_constraints) /\ Len(hold_constraints) \in Nat
<1> DEFINE C == [clk : nodes, data : nodes, value : Int]
<1>1. \A c \in C : c.clk \in nodes /\ c.data \in nodes /\ c.value \in Int
  OBVIOUS
<1>2. setup_constraints \in Seq(C) /\ hold_constraints \in Seq(C)
  BY DEF GraphType
<1> HIDE DEF C
<1>3. /\ \A i \in DOMAIN setup_constraints : setup_constraints[i] \in C
      /\ \A i \in DOMAIN hold_constraints : hold_constraints[i] \in C
      /\ DOMAIN setup_constraints = 1 .. Len(setup_constraints) /\ Len(setup_constraints) \in Nat
      /\ DOMAIN hold_constraints = 1 .. Len(hold_constraints) /\ Len(hold_constraints) \in Nat
  BY <1>2
<1> QED BY <1>1, <1>3

\* The sums are numbers.
LEMMA SumTypes ==
  ASSUME AInv, Usual
  PROVE  /\ \A i \in DOMAIN setup_constraints : SetupSums(setup_constraints[i]) \in SUBSET Int
         /\ \A i \in DOMAIN hold_constraints : HoldMargins(hold_constraints[i], Paths) \in SUBSET Int
         /\ \A n : SetupBefore(n) \in SUBSET Int /\ HoldBefore(n) \in SUBSET Int
<1>1. \A n : \A p \in EndingAt(n, Paths) : p[2] \in Int /\ p[3] \in Int
  BY Before, PathNumbers DEF EndingAt
<1>2. GraphType /\ clock_period \in Int
  BY Before DEF GraphType
<1>3. ASSUME NEW i \in DOMAIN setup_constraints PROVE SetupSums(setup_constraints[i]) \in SUBSET Int
  BY <1>1, <1>2, ConstraintTypes DEF SetupSums
<1>4. ASSUME NEW i \in DOMAIN hold_constraints PROVE HoldMargins(hold_constraints[i], Paths) \in SUBSET Int
  BY <1>1, <1>2, ConstraintTypes DEF HoldMargins
<1>5. \A n : SetupBefore(n) \in SUBSET Int
  BY <1>3 DEF SetupBefore
<1>6. \A n : HoldBefore(n) \in SUBSET Int
  BY <1>4 DEF HoldBefore
<1> QED BY <1>3, <1>4, <1>5, <1>6

LEMMA SetupStep ==
  ASSUME SInv, Usual, SetupSlack
  PROVE  Least(SetupBefore(pos + 1), slack_setup')
<1> DEFINE c == setup_constraints[pos]
           d == Difference(at_early[c.clk], at_late[c.data], clock_period - c.value)
<1>1. phase = "setup" /\ pos <= Len(setup_constraints) /\ slack_setup' = Min2(slack_setup, d)
  BY DEF SetupSlack
<1>2. AInv /\ GraphType /\ Extremes /\ TimesType /\ pos \in Nat \ {0} /\ slack_setup \in Int /\ clock_period \in Int
  BY <1>1 DEF SInv, AInv, IInv, TypeOK, GraphType, TimesType
<1>3. pos \in DOMAIN setup_constraints /\ c.clk \in nodes /\ c.data \in nodes /\ c.value \in Int
  <2>1. pos \in DOMAIN setup_constraints
    BY <1>1, <1>2, ConstraintTypes
  <2> QED BY <1>2, <2>1, ConstraintTypes
<1>4. SetupBefore(pos + 1) = SetupBefore(pos) \cup SetupSums(c)
  <2>1. \A j \in DOMAIN setup_constraints : j < pos + 1 <=> j < pos \/ j = pos
    BY <1>2, ConstraintTypes
  <2> QED BY <1>3, <2>1 DEF SetupBefore
<1>5. clock_period - c.value \in Int /\ at_early[c.clk] \in Int /\ at_late[c.data] \in Int
  BY <1>2, <1>3 DEF TimesType
<1>6. d \in Int
  BY <1>5, DifferenceType
<1>7. Least(SetupSums(c), d)
  <2> DEFINE rest == clock_period - c.value
  <2>1. /\ d = Far \/ \E p \in EndingAt(c.clk, Paths) : \E q \in EndingAt(c.data, Paths) : d = p[2] - q[3] + rest
        /\ \A p \in EndingAt(c.clk, Paths) : \A q \in EndingAt(c.data, Paths) : d <= p[2] - q[3] + rest
    BY <1>2, <1>3, <1>5, DifferenceIsWorst
  <2>2. ASSUME NEW p \in EndingAt(c.clk, Paths), NEW q \in EndingAt(c.data, Paths)
        PROVE  p[2] - q[3] + rest = clock_period + p[2] - c.value - q[3]
    <3>1. p[2] \in Int /\ q[3] \in Int
      BY Before, <1>2, PathNumbers DEF EndingAt
    <3> QED BY <1>2, <1>3, <3>1
  <2> HIDE DEF d, c, rest
  <2> QED BY <2>1, <2>2 DEF Least, SetupSums
<1>8. SetupBefore(pos) \in SUBSET Int /\ SetupSums(c) \in SUBSET Int
  BY <1>2, <1>3, SumTypes
<1>9. Least(SetupBefore(pos), slack_setup)
  BY <1>1 DEF SInv
<1> HIDE DEF c, d
<1> QED BY <1>1, <1>2, <1>4, <1>6, <1>7, <1>8, <1>9, LeastOfBoth

LEMMA HoldStep ==
  ASSUME SInv, Usual, HoldSlack
  PROVE  Least(HoldBefore(pos + 1), slack_hold')
<1> DEFINE c == hold_constraints[pos]
           d == Difference(at_early[c.data], at_late[c.clk], -c.value)
<1>1. phase = "hold" /\ pos <= Len(hold_constraints) /\ slack_hold' = Min2(slack_hold, d)
  BY DEF HoldSlack
<1>2. AInv /\ GraphType /\ Extremes /\ TimesType /\ pos \in Nat \ {0} /\ slack_hold \in Int
  BY <1>1 DEF SInv, AInv, IInv, TypeOK, GraphType, TimesType
<1>3. pos \in DOMAIN hold_constraints /\ c.clk \in nodes /\ c.data \in nodes /\ c.value \in Int
  <2>1. pos \in DOMAIN hold_constraints
    BY <1>1, <1>2, ConstraintTypes
  <2> QED BY <1>2, <2>1, ConstraintTypes
<1>4. HoldBefore(pos + 1) = HoldBefore(pos) \cup HoldMargins(c, Paths)
  <2>1. \A j \in DOMAIN hold_constraints : j < pos + 1 <=> j < pos \/ j = pos
    BY <1>2, ConstraintTypes
  <2> QED BY <1>3, <2>1 DEF HoldBefore
<1>5. -c.value \in Int /\ at_early[c.data] \in Int /\ at_late[c.clk] \in Int
  BY <1>2, <1>3 DEF TimesType
<1>6. d \in Int
  BY <1>5, DifferenceType
<1>7. Least(HoldMargins(c, Paths), d)
  <2> DEFINE rest == -c.value
  <2>1. /\ d = Far \/ \E q \in EndingAt(c.data, Paths) : \E p \in EndingAt(c.clk, Paths) : d = q[2] - p[3] + rest
        /\ \A q \in EndingAt(c.data, Paths) : \A p \in EndingAt(c.clk, Paths) : d <= q[2] - p[3] + rest
    BY <1>2, <1>3, <1>5, DifferenceIsWorst
  <2>2. ASSUME NEW q \in EndingAt(c.data, Paths), NEW p \in EndingAt(c.clk, Paths)
        PROVE  q[2] - p[3] + rest = q[2] - p[3] - c.value
    <3>1. q[2] \in Int /\ p[3] \in Int
      BY Before, <1>2, PathNumbers DEF EndingAt
    <3> QED BY <1>2, <1>3, <3>1
  <2> HIDE DEF d, c, rest
  <2> QED BY <2>1, <2>2 DEF Least, HoldMargins
<1>8. HoldBefore(pos) \in SUBSET Int /\ HoldMargins(c, Paths) \in SUBSET Int
  BY <1>2, <1>3, SumTypes
<1>9. Least(HoldBefore(pos), slack_hold)
  BY <1>1 DEF SInv
<1> HIDE DEF c, d
<1> QED BY <1>1, <1>2, <1>4, <1>6, <1>7, <1>8, <1>9, LeastOfBoth

LEMMA ClockLinesAreLines ==
  ASSUME IInv
  PROVE  /\ ClockLines = {i \in 1 .. Len(file.timing) : file.timing[i].keyword = "clock"}
         /\ Len(file.timing) \in Nat
<1>1. file.timing \in Seq(TimingLine)
  BY TimerAssumption DEF IInv
<1>2. DOMAIN file.timing = 1 .. Len(file.timing) /\ Len(file.timing) \in Nat
  BY <1>1
<1> QED BY <1>2 DEF ClockLines

LEMMA ClockStep == IInv /\ ClockInv /\ [Next]_vars => ClockInv'
<1> SUFFICES ASSUME IInv, ClockInv, [Next]_vars PROVE ClockInv'
  OBVIOUS
<1>1. /\ \A i \in ClockLines : i \in Nat /\ 1 <= i /\ i <= Len(file.timing)
      /\ Len(file.timing) \in Nat
  BY ClockLinesAreLines
<1>2. pos \in Nat \ {0}
  BY DEF IInv, TypeOK
<1>3. CASE phase = "delay" /\ phase' = "delay"
  BY <1>3 DEF ClockInv, ClockRead
<1>4. CASE EndDelay
  <2>1. phase' = "timing" /\ pos' = 1 /\ file' = file
    BY <1>4 DEF EndDelay, graph
  <2>2. ClockRead' = {}
    BY <1>1, <2>1 DEF ClockRead, ClockLines
  <2> QED BY <2>2 DEF ClockInv
<1>5. CASE ReadClock
  <2>1. /\ phase = "timing" /\ phase' = "timing" /\ pos <= Len(file.timing) /\ pos' = pos + 1 /\ file' = file
        /\ file.timing[pos].keyword = "clock" /\ clock_period' = file.timing[pos].period
    BY <1>5 DEF ReadClock, AtLine, Line
  <2>2. pos \in ClockLines
    BY <1>2, <2>1, ClockLinesAreLines
  <2>3. ClockRead' = {i \in ClockLines : i < pos + 1}
    BY <2>1 DEF ClockRead, ClockLines
  <2>4. pos \in ClockRead' /\ \A j \in ClockRead' : j <= pos
    BY <1>1, <1>2, <2>2, <2>3
  <2> QED BY <2>1, <2>4 DEF ClockInv
<1>6. CASE ReadAt
  <2>1. /\ phase = "timing" /\ phase' = "timing" /\ pos' = pos + 1 /\ file' = file
        /\ file.timing[pos].keyword = "at" /\ clock_period' = clock_period
    BY <1>6 DEF ReadAt, AtLine, Line
  <2>2. pos \notin ClockLines
    BY <2>1 DEF ClockLines
  <2>3. ClockRead' = {i \in ClockLines : i < pos + 1} /\ ClockRead = {i \in ClockLines : i < pos}
    BY <2>1 DEF ClockRead, ClockLines
  <2>4. ClockRead' = ClockRead
    BY <1>1, <1>2, <2>2, <2>3
  <2> QED BY <2>1, <2>4 DEF ClockInv
<1>7. CASE EndTiming
  <2>1. /\ phase = "timing" /\ phase' = "seed" /\ pos > Len(file.timing) /\ file' = file
        /\ clock_period' = clock_period
    BY <1>7 DEF EndTiming, graph
  <2>2. ClockRead' = ClockLines /\ ClockRead = {i \in ClockLines : i < pos}
    BY <2>1 DEF ClockRead, ClockLines
  <2>3. \A i \in ClockLines : i < pos
    BY <1>1, <1>2, <2>1
  <2>4. ClockRead' = ClockRead
    BY <2>2, <2>3
  <2> QED BY <2>1, <2>4 DEF ClockInv
<1>8. ASSUME phase \notin {"delay", "timing"}, phase' \notin {"delay", "timing"},
             file' = file, clock_period' = clock_period
      PROVE  ClockInv'
  <2>1. ClockRead' = ClockLines /\ ClockRead = ClockLines
    BY <1>8 DEF ClockRead, ClockLines
  <2> QED BY <1>8, <2>1 DEF ClockInv
<1>9. CASE Seed \/ EndSeed \/ Pop \/ (\E k \in todo : Relax(k)) \/ EndPropagate \/ SetupSlack \/ EndSetup
           \/ HoldSlack \/ EndHold
  <2>1. UNCHANGED graph /\ phase \notin {"delay", "timing"} /\ phase' \notin {"delay", "timing"}
    BY <1>9 DEF Seed, EndSeed, Pop, Relax, EndPropagate, SetupSlack, EndSetup, HoldSlack, EndHold
  <2> QED BY <1>8, <2>1 DEF graph
<1>10. CASE UNCHANGED vars
  <2>1. UNCHANGED <<file, phase, pos, clock_period>>
    BY <1>10 DEF vars, graph
  <2> QED BY <2>1 DEF ClockInv, ClockRead, ClockLines
<1>11. CASE (\E keyword \in {"input", "output"} : ReadPort(keyword))
            \/ (\E keyword \in {"setup", "hold"} : ReadConstraint(keyword)) \/ ReadEdge
  <2>1. phase = "delay" /\ phase' = "delay"
    BY <1>11 DEF ReadPort, ReadConstraint, ReadEdge, AtLine
  <2> QED BY <1>3, <2>1
<1> QED BY <1>4, <1>5, <1>6, <1>7, <1>9, <1>10, <1>11 DEF Next, Step, Printed

\* The sums do not change with the phase.
LEMMA SumsStay ==
  ASSUME UNCHANGED graph
  PROVE  \A n : SetupBefore(n)' = SetupBefore(n) /\ HoldBefore(n)' = HoldBefore(n)
<1>1. Paths' = Paths
  BY GraphStays
<1> QED BY <1>1 DEF SetupBefore, HoldBefore, SetupSums, HoldMargins, EndingAt, graph

LEMMA SlackStep == SInv /\ [Next]_vars => SInv'
<1> SUFFICES ASSUME SInv, [Next]_vars PROVE SInv'
  OBVIOUS
<1>1. AInv' /\ ClockInv'
  BY ArrivalsStep, ClockStep DEF SInv, AInv
<1>2. GraphType /\ pos \in Nat \ {0}
  BY TypeParts DEF SInv, AInv, IInv, TypeOK
<1> DEFINE Early == {"delay", "timing", "seed", "propagate"}
\* Nothing is compared before the propagation has ended.
<1>3. ASSUME phase \in Early, phase' \in Early, UNCHANGED slacks PROVE SInv'
  BY <1>1, <1>3 DEF SInv, slacks
<1>4. CASE EndPropagate
  <2>1. phase = "propagate" /\ phase' = "setup" /\ pos' = 1 /\ UNCHANGED <<graph, slacks>>
    BY <1>4 DEF EndPropagate
  <2>2. slack_setup' = Far /\ slack_hold' = Far
    BY <2>1 DEF SInv, slacks
  <2>3. SetupBefore(pos)' = {}
    <3>1. setup_constraints' = setup_constraints
      BY <2>1 DEF graph
    <3>2. \A j \in DOMAIN setup_constraints' : ~(j < pos')
      BY <1>2, <2>1, <3>1, ConstraintTypes
    <3> QED BY <3>2 DEF SetupBefore
  <2>4. Least(SetupBefore(pos), slack_setup)'
    BY <2>2, <2>3 DEF Least
  <2> QED BY <1>1, <2>1, <2>2, <2>4 DEF SInv
<1>5. CASE SetupSlack
  <2>1. phase = "setup" /\ phase' = "setup" /\ pos' = pos + 1 /\ UNCHANGED <<graph, slack_hold>>
    BY <1>5 DEF SetupSlack
  <2>2. Usual => Least(SetupBefore(pos), slack_setup)'
    BY <1>5, <2>1, SetupStep, SumsStay DEF Least
  <2>3. Usual' = Usual
    BY <2>1, GraphStays
  <2> QED BY <1>1, <2>1, <2>2, <2>3 DEF SInv
<1>6. CASE EndSetup
  <2>1. phase = "setup" /\ phase' = "hold" /\ pos > Len(setup_constraints) /\ pos' = 1 /\ UNCHANGED <<graph, slacks>>
    BY <1>6 DEF EndSetup
  <2>2. SetupBefore(pos) = SetupBefore(Len(setup_constraints) + 1)
    <3>1. \A j \in DOMAIN setup_constraints : j < pos /\ j < Len(setup_constraints) + 1
      BY <1>2, <2>1, ConstraintTypes
    <3> QED BY <3>1 DEF SetupBefore
  <2>3. Usual => Least(SetupBefore(Len(setup_constraints) + 1), slack_setup)'
    <3>1. setup_constraints' = setup_constraints
      BY <2>1 DEF graph
    <3>2. SetupBefore(Len(setup_constraints) + 1)' = SetupBefore(Len(setup_constraints) + 1)
      BY <2>1, <3>1, SumsStay
    <3> QED BY <2>1, <2>2, <3>2 DEF SInv, slacks, Least
  <2>4. slack_hold' = Far
    BY <2>1 DEF SInv, slacks
  <2>5. HoldBefore(pos)' = {}
    <3>1. hold_constraints' = hold_constraints
      BY <2>1 DEF graph
    <3>2. \A j \in DOMAIN hold_constraints' : ~(j < pos')
      BY <1>2, <2>1, <3>1, ConstraintTypes
    <3> QED BY <3>2 DEF HoldBefore
  <2>6. Least(HoldBefore(pos), slack_hold)'
    BY <2>4, <2>5 DEF Least
  <2>7. Usual' = Usual
    BY <2>1, GraphStays
  <2> QED BY <1>1, <2>1, <2>3, <2>6, <2>7 DEF SInv
<1>7. CASE HoldSlack
  <2>1. phase = "hold" /\ phase' = "hold" /\ pos' = pos + 1 /\ UNCHANGED <<graph, slack_setup>>
    BY <1>7 DEF HoldSlack
  <2>2. Usual => Least(HoldBefore(pos), slack_hold)'
    BY <1>7, <2>1, HoldStep, SumsStay DEF Least
  <2>3. Usual' = Usual
    BY <2>1, GraphStays
  <2>4. Usual => Least(SetupBefore(Len(setup_constraints) + 1), slack_setup)'
    <3>1. setup_constraints' = setup_constraints
      BY <2>1 DEF graph
    <3>2. SetupBefore(Len(setup_constraints) + 1)' = SetupBefore(Len(setup_constraints) + 1)
      BY <2>1, <3>1, SumsStay
    <3> QED BY <2>1, <3>2 DEF SInv, Least
  <2> QED BY <1>1, <2>1, <2>2, <2>3, <2>4 DEF SInv
<1>8. CASE EndHold
  <2>1. phase = "hold" /\ phase' = "done" /\ pos > Len(hold_constraints) /\ UNCHANGED <<graph, slacks>>
    BY <1>8 DEF EndHold
  <2>2. HoldBefore(pos) = HoldBefore(Len(hold_constraints) + 1)
    <3>1. \A j \in DOMAIN hold_constraints : j < pos /\ j < Len(hold_constraints) + 1
      BY <1>2, <2>1, ConstraintTypes
    <3> QED BY <3>1 DEF HoldBefore
  <2>3. /\ HoldBefore(Len(hold_constraints) + 1)' = HoldBefore(Len(hold_constraints) + 1)
        /\ SetupBefore(Len(setup_constraints) + 1)' = SetupBefore(Len(setup_constraints) + 1)
    <3>1. hold_constraints' = hold_constraints /\ setup_constraints' = setup_constraints
      BY <2>1 DEF graph
    <3> QED BY <2>1, <3>1, SumsStay
  <2>4. Usual' = Usual
    BY <2>1, GraphStays
  <2> QED BY <1>1, <2>1, <2>2, <2>3, <2>4 DEF SInv, slacks, Least
<1>9. CASE UNCHANGED vars
  <2>1. UNCHANGED <<graph, phase, pos, slacks>>
    BY <1>9 DEF vars
  <2>2. /\ HoldBefore(Len(hold_constraints) + 1)' = HoldBefore(Len(hold_constraints) + 1)
        /\ SetupBefore(Len(setup_constraints) + 1)' = SetupBefore(Len(setup_constraints) + 1)
        /\ SetupBefore(pos)' = SetupBefore(pos) /\ HoldBefore(pos)' = HoldBefore(pos)
    <3>1. hold_constraints' = hold_constraints /\ setup_constraints' = setup_constraints /\ pos' = pos
      BY <2>1 DEF graph
    <3> QED BY <2>1, <3>1, SumsStay
  <2>3. Usual' = Usual
    BY <2>1, GraphStays
  <2> QED BY <1>1, <2>1, <2>2, <2>3 DEF SInv, slacks, Least
<1>10. CASE (\E keyword \in {"input", "output"} : ReadPort(keyword))
            \/ (\E keyword \in {"setup", "hold"} : ReadConstraint(keyword))
            \/ ReadEdge \/ ReadClock \/ ReadAt \/ EndDelay \/ EndTiming \/ Seed \/ EndSeed \/ Pop
            \/ (\E k \in todo : Relax(k))
  <2>1. phase \in Early /\ phase' \in Early /\ UNCHANGED slacks
    BY <1>10 DEF ReadPort, ReadConstraint, ReadEdge, ReadClock, ReadAt, AtLine, EndDelay, EndTiming, Seed, EndSeed,
                Pop, Relax
  <2> QED BY <1>3, <2>1
<1> QED BY <1>4, <1>5, <1>6, <1>7, <1>8, <1>9, <1>10 DEF Next, Step, Printed

\* At the end the period is that of the last clock line.
LEMMA PeriodOfLastClock ==
  ASSUME IInv, ClockInv, phase = "done", ClockLines # {}
  PROVE  clock_period = LastClock.period
<1>1. PICK i \in ClockLines : (\A j \in ClockLines : j <= i) /\ clock_period = file.timing[i].period
  BY DEF ClockInv, ClockRead
<1>2. \A j \in ClockLines : j \in Nat
  BY ClockLinesAreLines
<1> DEFINE last == CHOOSE j \in ClockLines : \A m \in ClockLines : m <= j
<1>3. last \in ClockLines /\ \A m \in ClockLines : m <= last
  BY <1>1
<1> HIDE DEF last
<1>4. last = i
  BY <1>1, <1>2, <1>3
<1> QED BY <1>1, <1>4 DEF LastClock, last

(***************************************************************************)
(* The inductive invariant of the slacks: each is the worst over the       *)
(* constraints it has been compared with, and the period is that of the    *)
(* last clock line read.                                                   *)
(***************************************************************************)
THEOREM SlackInvariance == Spec => []SInv
<1>1. Init => AInv
  BY InitArrival
<1>2. Init => SInv
  BY <1>1 DEF Init, SInv, ClockInv, ClockRead
<1> QED BY <1>2, SlackStep, PTL DEF Spec

(***************************************************************************)
(* The slacks reported are the worst over all pairs of a clock path and a  *)
(* data path of a constraint, for every timing graph, unless a sum of      *)
(* delays reaches the largest double.                                      *)
(***************************************************************************)
THEOREM SlackCorrect == Spec => [](TooFar \/ SlackIsWorst)
<1>1. SInv => TooFar \/ SlackIsWorst
  <2> SUFFICES ASSUME SInv, ~TooFar, phase = "done", Ordinary PROVE SlackIsWorst
    BY DEF SlackIsWorst
  <2>1. /\ Least(SetupBefore(Len(setup_constraints) + 1), slack_setup)
        /\ Least(HoldBefore(Len(hold_constraints) + 1), slack_hold)
    BY DEF SInv, Usual
  <2>2. GraphType
    BY TypeParts DEF SInv, AInv
  <2>3. ClockLines # {} => clock_period = LastClock.period
    BY PeriodOfLastClock DEF SInv, AInv
  <2>4. ClockLines # {} =>
            SetupBefore(Len(setup_constraints) + 1)
                = UNION {SetupMargins(setup_constraints[i], Paths) : i \in DOMAIN setup_constraints}
    <3>1. \A j \in DOMAIN setup_constraints : j < Len(setup_constraints) + 1
      BY <2>2, ConstraintTypes
    <3> QED BY <2>3, <3>1 DEF SetupBefore, SetupSums, SetupMargins
  <2>5. HoldBefore(Len(hold_constraints) + 1)
            = UNION {HoldMargins(hold_constraints[i], Paths) : i \in DOMAIN hold_constraints}
    <3>1. \A j \in DOMAIN hold_constraints : j < Len(hold_constraints) + 1
      BY <2>2, ConstraintTypes
    <3> QED BY <3>1 DEF HoldBefore, HoldMargins
  <2> QED BY <2>1, <2>4, <2>5 DEF SlackIsWorst, Paths
<1> QED BY <1>1, SlackInvariance, PTL

=============================================================================
