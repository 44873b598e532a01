------------------------------ MODULE MCTimer ------------------------------
(***************************************************************************)
(* Small timing graphs: two inputs, two nodes behind them and edges back.  *)
(***************************************************************************)
EXTENDS Timer, TLC

SourceOf(s) == <<"vsource:", s>>
SinkOf(s) == <<"vsink:", s>>
PinOf(p) == <<"", p>>

A == SourceOf("A")
B == SourceOf("B")
U == PinOf("U")
V == PinOf("V")

Pins == {"A", "B", "C", "Z"}
Names == {U, V} \cup {SourceOf(p) : p \in Pins} \cup {SinkOf(p) : p \in Pins}

Short == [early |-> 0, late |-> 1]
Long == [early |-> 1, late |-> 3]

Port(k, p) == [keyword |-> k, pin |-> p]
Edge(f, t, d) == [keyword |-> "edge", from |-> f, to |-> t] @@ d
Check(k, d, c) == [keyword |-> k, data |-> d, clk |-> c, value |-> 1]

\* Where an edge can be, and the files with none, a short or a long one at each place.
Places == << <<A, U>>, <<B, U>>, <<U, V>>, <<A, V>> >>

RECURSIVE EdgeLines(_)
EdgeLines(i) ==
    IF i > Len(Places) THEN {<<>>}
    ELSE {d \o rest : d \in {<<>>} \cup {<<Edge(Places[i][1], Places[i][2], d)>> : d \in {Short, Long}},
                      rest \in EdgeLines(i + 1)}

\* No edge more, one that closes a cycle, one behind an input, one parallel to another.
Extra == {<<>>, <<Edge(V, U, Short)>>, <<Edge(U, A, Short)>>, <<Edge(B, U, Short)>>}

DelayFiles ==
    {<<Port("input", "A"), Port("input", "B"), Port("output", "Z"), Check("setup", V, U),
       Check("setup", U, B), Check("hold", V, B)>> \o e \o x : e \in EdgeLines(1), x \in Extra}

At(p, e, l) == [keyword |-> "at", pin |-> p, early |-> e, late |-> l]
Clock == [keyword |-> "clock", pin |-> "B", period |-> 5]

TimingFiles == {
    <<Clock, At("A", 0, 0), At("B", 1, 2)>>,
    <<At("B", 0, 0), At("A", 0, 2), At("C", 0, 0)>>,  \* no clock; C is not in the delay file
    <<Clock, At("A", 0, 1)>>,                         \* B is given no time
    <<Clock, At("A", 0, 0), At("B", 1, 1), At("A", 2, 2)>> }

AllFiles == {[delay |-> d, timing |-> t] : d \in DelayFiles, t \in TimingFiles}
=============================================================================
