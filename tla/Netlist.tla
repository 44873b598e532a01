------------------------------- MODULE Netlist -------------------------------
(***************************************************************************)
(* What the reader of BLIF files hands to the technology mapper: the DAG   *)
(* of the netlist's nodes.  BlifReader promises it, TechMap relies on it.  *)
(***************************************************************************)
EXTENDS Cells, Sequences, FiniteSets

CONSTANTS
    Node,         \* the inputs and gates of the netlist
    Model,        \* the node standing for the whole netlist
    Assign        \* the input assignments

Vertex == Node \cup {Model}

(***************************************************************************)
(* The netlists the mapper is written for: inputs have no sources, gates   *)
(* at most two, there is an output, and no gate depends on itself (rank is *)
(* an order that shows it, such as the one gates are read in).  fn is what *)
(* every node computes, the reference the mapping is judged against: it    *)
(* solves the equations of the gates.                                      *)
(***************************************************************************)
WellFormed(d) ==
    /\ d.leaf \in SUBSET Node
    /\ d.src \in [Vertex -> Seq(Node)]
    /\ d.src[Model] # <<>>
    /\ d.gate \in [Node -> Gate]
    /\ d.fn \in [Node -> [Assign -> Bit]]
    /\ \A n \in Node :
        /\ Len(d.src[n]) \in 0..2
        /\ n \in d.leaf => d.src[n] = <<>>
        /\ n \notin d.leaf =>
            \A x \in Assign : d.fn[n][x] =
                CASE Len(d.src[n]) = 0 -> d.gate[n].out
                  [] Len(d.src[n]) = 1 -> UnaryOut(d.gate[n], d.fn[d.src[n][1]][x])
                  [] OTHER -> GateOut(d.gate[n], d.fn[d.src[n][1]][x], d.fn[d.src[n][2]][x])
    /\ d.rank \in [Vertex -> Nat]
    /\ \A p \in Vertex : \A i \in DOMAIN d.src[p] : d.rank[d.src[p][i]] < d.rank[p]

\* The uses of n by gates; being an output is not counted.
Uses(d, n) == Cardinality({e \in Node \X {1, 2} :
                  e[2] \in DOMAIN d.src[e[1]] /\ d.src[e[1]][e[2]] = n})
=============================================================================
