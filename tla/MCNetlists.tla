----------------------------- MODULE MCNetlists -----------------------------
(***************************************************************************)
(* Small families of netlists for model checking the technology mapper.    *)
(* Nodes are numbered in topological order, the inputs first.              *)
(***************************************************************************)
EXTENDS Cells, Sequences, SequencesExt

CONSTANTS NumInputs, NumNodes,
          Wiring          \* which family of netlists

Nodes == 1..NumNodes
Inputs == 1..NumInputs
Gates == (NumInputs + 1)..NumNodes
TheModel == NumNodes + 1
Zero == [a |-> 0, b |-> 0, out |-> 0]
Assignments == [Inputs -> Bit]

\* The netlist of these sources, gates and outputs, with what its nodes compute.
Netlist(src, gate, outs) ==
    LET fn[n \in Nodes] ==
            IF n \in Inputs THEN [x \in Assignments |-> x[n]]
            ELSE [x \in Assignments |->
                CASE Len(src[n]) = 0 -> gate[n].out
                  [] Len(src[n]) = 1 -> UnaryOut(gate[n], fn[src[n][1]][x])
                  [] Len(src[n]) = 2 -> GateOut(gate[n], fn[src[n][1]][x], fn[src[n][2]][x])]
    IN  [leaf |-> Inputs,
         src  |-> [n \in Nodes \cup {TheModel} |->
                     IF n = TheModel THEN outs ELSE IF n \in Inputs THEN <<>> ELSE src[n]],
         gate |-> [n \in Nodes |-> IF n \in Inputs THEN Zero ELSE gate[n]],
         rank |-> [n \in Nodes \cup {TheModel} |-> n],
         fn   |-> fn]

\* Gates that can have these sources, the bits the code does not read set to 0.
GatesFor(s) == {g \in Gate : (Len(s) < 2 => g.b = 0) /\ (Len(s) < 1 => g.a = 0)}

SourcesBelow(n) == {<<>>} \cup {<<i>> : i \in 1..(n - 1)}
                     \cup {<<i, j>> : i, j \in 1..(n - 1)}

First == NumInputs + 1
Second == NumInputs + 2
Third == NumInputs + 3

\* Every netlist with one or two gates above the inputs and these outputs, up to a renaming of
\* the inputs; the third gate is there, and not used.
TwoGates(Outputs) ==
    LET Circuits == UNION {{w} \X GatesFor(w[1]) \X GatesFor(w[2]) \X Outputs
                           : w \in {<<>>, <<1>>, <<1, 1>>, <<1, 2>>} \X SourcesBelow(Second)}
    IN  {Netlist(First :> c[1][1] @@ Second :> c[1][2] @@ Third :> <<>>,
                 First :> c[2] @@ Second :> c[3] @@ Third :> Zero, c[4]) : c \in Circuits}

\* Every choice of two-input gates over a fixed wiring.
Wired(src, outs) == {Netlist(src, gate, outs) : gate \in [Gates -> Gate]}

\* The same with a first gate that is 1 on its row: its users take it in both polarities.
Chain(src, outs) ==
    {Netlist(src, gate, outs) : gate \in {g \in [Gates -> Gate] : g[First].out = 1}}

Family ==
    CASE Wiring = "two gates and chains" ->
            TwoGates({<<Second>>, <<First, Second>>})
            \cup
            \* chains of three in which the first gate is used twice and the second can be absorbed
            Chain(First :> <<1, 2>> @@ Second :> <<First, 1>> @@ Third :> <<Second, First>>, <<Third>>)
            \cup
            Chain(First :> <<1, 2>> @@ Second :> <<2, First>> @@ Third :> <<First, Second>>,
                  <<First, Third>>)
            \cup
            \* chains of three in which two gates can be absorbed and the second is an output
            Chain(First :> <<1, 2>> @@ Second :> <<First, 1>> @@ Third :> <<Second, 2>>,
                  <<Second, Third>>)
      \* an output the only other use of which is one gate
      [] Wiring = "output inside" ->
            Wired(First :> <<1, 2>> @@ Second :> <<First, 1>>, <<First, Second>>)
      \* two gates of distinct inputs joined by a third: the shape of an AOI22
      [] Wiring = "joined" ->
            Wired(First :> <<1, 2>> @@ Second :> <<3, 4>> @@ Third :> <<First, Second>>, <<Third>>)
=============================================================================
