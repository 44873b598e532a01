------------------------------ MODULE BlifReader ------------------------------
(***************************************************************************)
(* Blif2DAGReader: the callbacks through which the technology mapper       *)
(* receives a BLIF file from the lorina parser and builds the DAG of the   *)
(* netlist.                                                                *)
(*                                                                         *)
(* The parser is external.  It reports the declarations (model, inputs and *)
(* outputs) in the order of the file, and a .names block when the signals  *)
(* it reads are known: blocks may stand in the file in any order, and the  *)
(* order in which on_gate is called is any in which inputs and blocks      *)
(* already reported come first.                                            *)
(***************************************************************************)
EXTENDS Cells, Sequences, FiniteSets, SequencesExt

CONSTANTS
    Name,         \* signal names, the model's included
    Assign,       \* the input assignments
    Files,        \* the files that may be read
    NoNode        \* a name that name2node_ does not have

VARIABLES
    file,         \* the file being read
    pos,          \* how many declarations have been reported
    read,         \* the signals whose .names block has been reported
    nodes,        \* the nodes allocated so far: a node is its place in this sequence
    name2node,    \* name2node_
    leaves,       \* leaves_
    model         \* model_node_

vars == <<file, pos, read, nodes, name2node, leaves, model>>

(***************************************************************************)
(* A file: its declarations, and for every signal that a .names block      *)
(* drives the signals the block reads and its one row.  fn is what the     *)
(* file says every signal computes and rank, below top, an order in which  *)
(* the blocks can be read; the reader knows none of them.                  *)
(***************************************************************************)
Decl == [kind : {"model", "input", "output"}, name : Name]

Driven(f) == DOMAIN f.reads
Declared(f, kind) == {f.decls[i].name : i \in {j \in DOMAIN f.decls : f.decls[j].kind = kind}}
ModelName(f) == f.decls[1].name

\* The row's function of the signals the block reads.
RowOut(f, s, x) ==
    LET in == f.reads[s]   g == f.row[s]
    IN  CASE Len(in) = 0 -> g.out
          [] Len(in) = 1 -> UnaryOut(g, f.fn[in[1]][x])
          [] OTHER -> GateOut(g, f.fn[in[1]][x], f.fn[in[2]][x])

(***************************************************************************)
(* A BLIF file of the kind the mapper is for: one model, at least one      *)
(* output, every output and every other signal that is read driven by one  *)
(* block of at most two inputs and one row, no cycle.                      *)
(***************************************************************************)
LegalFile(f) ==
    /\ f.decls \in Seq(Decl)
    /\ f.decls # <<>>
    /\ \A i \in DOMAIN f.decls : f.decls[i].kind = "model" <=> i = 1
    /\ Declared(f, "output") # {}
    /\ Driven(f) \in SUBSET Name
    /\ Driven(f) \cap Declared(f, "input") = {}
    /\ Declared(f, "output") \in SUBSET (Driven(f) \cup Declared(f, "input"))
    /\ f.row \in [Driven(f) -> Gate]
    /\ f.fn \in [Name -> [Assign -> Bit]]
    /\ f.rank \in [Name -> 0..(f.top - 1)] /\ f.top \in Nat
    /\ f.reads \in [Driven(f) -> Seq(Driven(f) \cup Declared(f, "input"))]
    /\ \A s \in Driven(f) :
        /\ Len(f.reads[s]) \in 0..2
        /\ \A x \in Assign : f.fn[s][x] = RowOut(f, s, x)
        /\ \A i \in DOMAIN f.reads[s] : f.rank[f.reads[s][i]] < f.rank[s]

(***************************************************************************)
(* What the reader needs on top of it, and BLIF does not ask for: inputs   *)
(* and outputs are declared once, and a signal that is neither does not    *)
(* have the model's name.                                                  *)
(***************************************************************************)
DistinctNames(f) ==
    /\ \A i, j \in DOMAIN f.decls \ {1} : f.decls[i].name = f.decls[j].name => i = j
    /\ ModelName(f) \in Driven(f) => ModelName(f) \in Declared(f, "output")

ASSUME FilesAssumption == \A f \in Files : LegalFile(f)

ASSUME NoNodeAssumption == NoNode \notin Nat

-----------------------------------------------------------------------------
(* Nodes                                                                   *)

Ref == DOMAIN nodes
NewRef == Len(nodes) + 1

\* A NodeImpl as it is made, then named.
NewNode(name, leaf) == [name |-> name, leaf |-> leaf, sources |-> <<>>, fanOut |-> 0,
                        row |-> [a |-> 0, b |-> 0, out |-> 0]]

Init ==
    /\ file \in Files
    /\ pos = 0
    /\ read = {}
    /\ nodes = <<>>
    /\ name2node = [s \in Name |-> NoNode]
    /\ leaves = <<>>
    /\ model = NoNode

-----------------------------------------------------------------------------
(* The callbacks                                                           *)

\* The parser's next declaration is of this kind and name.
Reports(kind, name) ==
    /\ pos < Len(file.decls)
    /\ file.decls[pos + 1] = [kind |-> kind, name |-> name]
    /\ pos' = pos + 1
    /\ UNCHANGED <<file, read>>

OnModel(name) ==
    /\ Reports("model", name)
    /\ nodes' = Append(nodes, NewNode(name, FALSE))
    /\ name2node' = [s \in Name |-> IF s = name THEN NewRef ELSE NoNode]
    /\ leaves' = <<>>
    /\ model' = NewRef

\* Mutant: an input is listed but not marked as a leaf.
OnInputUnmarked(name) ==
    /\ Reports("input", name)
    /\ nodes' = Append(nodes, NewNode(name, FALSE))
    /\ leaves' = Append(leaves, NewRef)
    /\ name2node' = [name2node EXCEPT ![name] = NewRef]
    /\ UNCHANGED model

OnInput(name) ==
    /\ Reports("input", name)
    /\ nodes' = Append(nodes, NewNode(name, TRUE))
    /\ leaves' = Append(leaves, NewRef)
    /\ name2node' = [name2node EXCEPT ![name] = NewRef]
    /\ UNCHANGED model

\* An output gets a node of its own, whatever its name stood for.
OnOutput(name) ==
    /\ Reports("output", name)
    /\ nodes' = Append([nodes EXCEPT ![model].sources = Append(@, NewRef)], NewNode(name, FALSE))
    /\ name2node' = [name2node EXCEPT ![name] = NewRef]
    /\ UNCHANGED <<leaves, model>>

\* The parser's order: the declarations, then blocks whose signals are known.
Known == Declared(file, "input") \cup read
Reportable(s) ==
    /\ pos = Len(file.decls)
    /\ s \in Driven(file) \ read
    /\ Range(file.reads[s]) \subseteq Known

\* Mutant: a block that reads a signal twice counts one use of it.
CountOnce(sources, n) == IF n \in Range(sources) THEN 1 ELSE 0

\* How often a block that reads these nodes uses node n.
Count(sources, n) == Cardinality({i \in DOMAIN sources : sources[i] = n})

\* The bits of the row that a block with this many signals has.
Row(old, new, inputs) == [a   |-> IF inputs >= 1 THEN new.a ELSE old.a,
                          b   |-> IF inputs = 2 THEN new.b ELSE old.b,
                          out |-> new.out]

\* Mutant: a block always gets a node of its own, as an output does.
OnGateFresh(s) ==
    /\ Reportable(s)
    /\ LET in      == file.reads[s]
           n       == NewRef
           sources == [i \in DOMAIN in |-> name2node[in[i]]]
       IN  /\ name2node' = [name2node EXCEPT ![s] = n]
           /\ nodes' = [k \in Ref \cup {n} |->
                LET old == IF k = NewRef THEN NewNode(s, FALSE) ELSE nodes[k]
                IN  [old EXCEPT !.sources = IF k = n THEN @ \o sources ELSE @,
                                !.fanOut  = @ + Count(sources, k),
                                !.row     = IF k = n THEN Row(@, file.row[s], Len(in)) ELSE @]]
    /\ read' = read \cup {s}
    /\ UNCHANGED <<file, pos, leaves, model>>

(***************************************************************************)
(* A .names block for signal s: the node its name stands for, or a new     *)
(* one, takes the nodes of the signals read as sources (a constant's       *)
(* sources are cleared), and each of those counts one more user.           *)
(***************************************************************************)
OnGate(s) ==
    /\ Reportable(s)
    /\ LET in      == file.reads[s]
           n       == IF name2node[s] = NoNode THEN NewRef ELSE name2node[s]
           sources == [i \in DOMAIN in |-> name2node[in[i]]]
       IN  /\ name2node' = [name2node EXCEPT ![s] = n]
           /\ nodes' = [k \in Ref \cup {n} |->
                LET old == IF k = NewRef THEN NewNode(s, FALSE) ELSE nodes[k]
                IN  [name    |-> IF k = n THEN s ELSE old.name,
                     leaf    |-> old.leaf,
                     sources |-> IF k # n THEN old.sources
                                 ELSE IF in = <<>> THEN <<>> ELSE old.sources \o sources,
                     fanOut  |-> old.fanOut + Count(sources, k),
                     row     |-> IF k = n THEN Row(old.row, file.row[s], Len(in)) ELSE old.row]]
    /\ read' = read \cup {s}
    /\ UNCHANGED <<file, pos, leaves, model>>

Callback ==
    \/ \E name \in Name : OnModel(name) \/ OnInput(name) \/ OnOutput(name)
    \/ \E s \in Name : OnGate(s)

\* read_blif returns when everything has been reported.
Done == pos = Len(file.decls) /\ read = Driven(file)
Return == Done /\ UNCHANGED vars

Next == Callback \/ Return

Spec == Init /\ [][Next]_vars

-----------------------------------------------------------------------------
(* Properties                                                              *)

\* The netlist as main passes it on, every node but the model's an input or a gate.
Dag == [leaf |-> {n \in Ref : nodes[n].leaf},
        src  |-> [n \in Ref |-> nodes[n].sources],
        gate |-> [n \in Ref \ {model} |-> nodes[n].row],
        fn   |-> [n \in Ref \ {model} |-> file.fn[nodes[n].name]],
        rank |-> [n \in Ref |-> IF n = model THEN file.top ELSE file.rank[nodes[n].name]]]

N == INSTANCE Netlist WITH Node <- Ref \ {model}, Model <- model

NodeRecord == [name : Name, leaf : BOOLEAN, sources : Seq(Ref), fanOut : Nat, row : Gate]

(***************************************************************************)
(* Every variable has its type: references lead to nodes.                  *)
(***************************************************************************)
TypeOK ==
    /\ LegalFile(file)
    /\ pos \in 0..Len(file.decls)
    /\ read \in SUBSET Driven(file)
    /\ nodes \in Seq(NodeRecord)
    /\ name2node \in [Name -> Ref \cup {NoNode}]
    /\ leaves \in Seq(Ref)
    /\ IF pos = 0 THEN model = NoNode ELSE model \in Ref

\* These nodes have the names declared as this kind, in the order of the file.
Lists(refs, kind) ==
    LET decl(i) == [kind |-> kind, name |-> nodes[refs[i]].name]
    IN  /\ {decl(i).name : i \in DOMAIN refs} = Declared(file, kind)
        /\ \A i, j \in DOMAIN refs : i < j =>
            \E k, l \in DOMAIN file.decls :
                k < l /\ file.decls[k] = decl(i) /\ file.decls[l] = decl(j)

(***************************************************************************)
(* The reader delivers what the mapper relies on: when read_blif returns,  *)
(* the DAG is a well-formed netlist in which every node computes what the  *)
(* file says its signal does, the inputs and the outputs being the file's. *)
(***************************************************************************)
ReadsTheFile == Done =>
    /\ N!WellFormed(Dag)
    /\ Lists(leaves, "input")
    /\ Lists(nodes[model].sources, "output")

(***************************************************************************)
(* num_fan_out is at all times the number of uses of the node by gates.    *)
(* transferState looks through a gate on the strength of this counter.     *)
(***************************************************************************)
FanOutCounts == \A n \in Ref \ {model} : nodes[n].fanOut = N!Uses(Dag, n)

(***************************************************************************)
(* Nobody holds a node that has lost its name: the nodes that a block, the *)
(* model or leaves_ refer to are those that their names still stand for,   *)
(* so a block read later defines what earlier users refer to.              *)
(***************************************************************************)
NoStaleNode ==
    \A n \in Range(leaves) \cup UNION {Range(nodes[k].sources) : k \in Ref} :
        name2node[nodes[n].name] = n

=============================================================================
