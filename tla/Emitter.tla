------------------------------ MODULE Emitter ------------------------------
(***************************************************************************)
(* The rest of the mapper's main: after DFS has returned it prints the     *)
(* header, then travels the network below every output (DpStateTraveler)   *)
(* and prints one .names block for each DpState that is not an input, its  *)
(* sons first.  travel is recursive; a frame of its call stack is a state  *)
(* and the index of its next son.  The bottom frame, whose state is the    *)
(* model's, is main's own loop over the outputs.                           *)
(***************************************************************************)
EXTENDS TechMap

VARIABLES
    frames,       \* the active calls of travel, the last one running
    visited,      \* the states whose visited flag is set
    header,       \* the names printed after .inputs and .outputs
    oss,          \* the .names blocks printed so far
    status        \* "running", "ended" or "crashed"

evars == <<frames, visited, header, oss, status>>
allVars == <<dag, stack, dp, heap, frames, visited, header, oss, status>>

NoHeader == [inputs |-> {}, outputs |-> <<>>]

MainInit ==
    /\ Init
    /\ frames = <<>>
    /\ visited = {}
    /\ header = NoHeader
    /\ oss = <<>>
    /\ status = "running"

Mapping == DFSStep /\ UNCHANGED evars

AtHeader == stack = <<>> /\ frames = <<>> /\ status = "running"

\* An input that no output depends on has no state: its name is read through null.
Crash ==
    /\ AtHeader
    /\ \E n \in dag.leaf : ~Defined(n)
    /\ status' = "crashed"
    /\ UNCHANGED <<vars, frames, visited, header, oss>>

\* Mutant: inputs without a state are left out.
PrintHeaderSkipping ==
    /\ AtHeader
    /\ header' = [inputs  |-> {heap[dp[n][0]].name : n \in {m \in dag.leaf : Defined(m)}},
                  outputs |-> [i \in DOMAIN Src(Model) |-> heap[heap[Ori(Model)].sons[i]].name]]
    /\ frames' = << <<Ori(Model), 1>> >>
    /\ UNCHANGED <<vars, visited, oss, status>>

PrintHeader ==
    /\ AtHeader
    /\ \A n \in dag.leaf : Defined(n)
    /\ header' = [inputs  |-> {heap[dp[n][0]].name : n \in dag.leaf},
                  outputs |-> [i \in DOMAIN Src(Model) |-> heap[heap[Ori(Model)].sons[i]].name]]
    /\ frames' = << <<Ori(Model), 1>> >>
    /\ UNCHANGED <<vars, visited, oss, status>>

-----------------------------------------------------------------------------
Current == Last(frames)[1]
Son == heap[Current].sons[Last(frames)[2]]
\* Mutant: the loop over the sons stops before the last.
HasSonButLast == frames # <<>> /\ Last(frames)[2] < Len(heap[Current].sons)

HasSon == frames # <<>> /\ Last(frames)[2] <= Len(heap[Current].sons)
Advanced == Append(Front(frames), <<Current, Last(frames)[2] + 1>>)

\* Mutant: the loop does not go on to the next son.
SkipSonStuck ==
    /\ HasSon
    /\ Son \in visited \/ heap[Son].leaf
    /\ visited' = visited \cup {Son}
    /\ UNCHANGED <<vars, frames, header, oss, status>>

\* travel(son) returns at once: the son was visited before, or is an input.
SkipSon ==
    /\ HasSon
    /\ Son \in visited \/ heap[Son].leaf
    /\ visited' = visited \cup {Son}
    /\ frames' = Advanced
    /\ UNCHANGED <<vars, header, oss, status>>

\* Mutant: the visited flag is not tested.
TravelSonAgain ==
    /\ HasSon
    /\ ~heap[Son].leaf
    /\ visited' = visited \cup {Son}
    /\ frames' = Append(Advanced, <<Son, 1>>)
    /\ UNCHANGED <<vars, header, oss, status>>

\* Mutant: inputs are not told from gates.
TravelLeaf ==
    /\ HasSon
    /\ Son \notin visited
    /\ visited' = visited \cup {Son}
    /\ frames' = Append(Advanced, <<Son, 1>>)
    /\ UNCHANGED <<vars, header, oss, status>>

TravelSon ==
    /\ HasSon
    /\ Son \notin visited /\ ~heap[Son].leaf
    /\ visited' = visited \cup {Son}
    /\ frames' = Append(Advanced, <<Son, 1>>)
    /\ UNCHANGED <<vars, header, oss, status>>

\* All sons travelled: the state's block is printed and its call returns.
PrintBlock ==
    /\ frames # <<>> /\ ~HasSon /\ Len(frames) > 1
    /\ LET st == heap[Current]
       IN  oss' = Append(oss, [cell |-> st.cell, out |-> st.name,
                               ins  |-> [i \in DOMAIN st.sons |-> heap[st.sons[i]].name]])
    /\ frames' = Front(frames)
    /\ UNCHANGED <<vars, visited, header, status>>

PrintEnd ==
    /\ frames # <<>> /\ ~HasSon /\ Len(frames) = 1
    /\ frames' = <<>>
    /\ status' = "ended"
    /\ UNCHANGED <<vars, visited, header, oss>>

Stopped == status # "running" /\ UNCHANGED allVars

MainStep ==
    \/ Mapping
    \/ Crash
    \/ PrintHeader
    \/ SkipSon
    \/ TravelSon
    \/ PrintBlock
    \/ PrintEnd

MainNext == MainStep \/ Stopped

MainSpec == MainInit /\ [][MainNext]_allVars

\* main is an ordinary sequential program: it runs until it ends.
FairMainSpec == MainSpec /\ WF_allVars(MainStep)

-----------------------------------------------------------------------------
(* The printed text, read back by name                                     *)

Outs(k) == {oss[i].out : i \in 1..k}

\* The names that carry 1 once one more block has been read.
Read(high, b) ==
    LET in(i) == Truth(i \in DOMAIN b.ins /\ b.ins[i] \in high)
    IN  high \cup {name \in {b.out} : CellOut(b.cell, in(1), in(2), in(3), in(4)) = 1}

\* The names that carry 1 under x once the blocks have been read in order.
High(x) ==
    LET high[k \in 0..Len(oss)] == IF k = 0 THEN {name \in header.inputs : dag.fn[name[1]][x] = 1}
                                   ELSE Read(high[k - 1], oss[k])
    IN  high[Len(oss)]

Carried(name) == [x \in Assign |-> Truth(name \in High(x))]

Deepest(level, names) == Max({0} \cup {level[name] : name \in Range(names)})

\* The levels of the names once one more block has been read; the first driver counts.
Placed(level, b) == [name \in DOMAIN level \cup {b.out} |->
    IF name \in DOMAIN level THEN level[name] ELSE 1 + Deepest(level, b.ins)]

\* The number of blocks on the longest way from an input or constant to a name.
Levels ==
    LET level[k \in 0..Len(oss)] == IF k = 0 THEN [name \in header.inputs |-> 0]
                                    ELSE Placed(level[k - 1], oss[k])
    IN  level[Len(oss)]

Circuit(inputs, names, fns) ==
    [inputs |-> inputs, outputs |-> [i \in DOMAIN names |-> <<names[i], fns[i]>>]]

NetlistCircuit(d) == Circuit({<<n, "">> : n \in d.leaf},
                             [i \in DOMAIN d.src[Model] |-> <<d.src[Model][i], "">>],
                             [i \in DOMAIN d.src[Model] |-> d.fn[d.src[Model][i]]])

PrintedCircuit == Circuit(header.inputs, header.outputs,
                          [i \in DOMAIN header.outputs |-> Carried(header.outputs[i])])

-----------------------------------------------------------------------------
(* Properties                                                              *)

(***************************************************************************)
(* Every variable of the printing phase has its type, nothing of it has    *)
(* begun before DFS has returned, and every block printed has a cell (the  *)
(* assertion on CellType::UNDEFINED at the end of travel).                 *)
(***************************************************************************)
EmitterTypeOK ==
    /\ frames \in Seq(Id \X Nat)
    /\ visited \in SUBSET Id
    /\ header \in [inputs : SUBSET (Vertex \X Tag), outputs : Seq(Vertex \X Tag)]
    /\ oss \in Seq([cell : CellType \ {"UNDEFINED"}, ins : Seq(Vertex \X Tag), out : Vertex \X Tag])
    /\ status \in {"running", "ended", "crashed"}
    /\ stack # <<>> => frames = <<>> /\ visited = {} /\ header = NoHeader /\ oss = <<>>

(***************************************************************************)
(* No net has two drivers: the names that a node's covers, inverters and   *)
(* renamed outputs get are distinct whenever two of them are printed, and  *)
(* no state is printed twice.                                              *)
(***************************************************************************)
UniqueDrivers ==
    /\ \A i, j \in DOMAIN oss : oss[i].out = oss[j].out => i = j
    /\ \A i \in DOMAIN oss : oss[i].out \notin header.inputs

(***************************************************************************)
(* Every net a block reads is an input or driven by an earlier block: the  *)
(* printed netlist has no open net and no combinational cycle.  In the end *)
(* the outputs are driven as well.                                         *)
(***************************************************************************)
DrivenBeforeUse ==
    /\ \A k \in DOMAIN oss : \A i \in DOMAIN oss[k].ins :
        oss[k].ins[i] \in header.inputs \cup Outs(k - 1)
    /\ status = "ended" =>
        \A i \in DOMAIN header.outputs :
            header.outputs[i] \in header.inputs \cup Outs(Len(oss))

(***************************************************************************)
(* What main reports is true of what it printed: the maximal depth is the  *)
(* depth of the printed netlist, and the cost the mapping minimised, which *)
(* counts a shared cell once per use, is never less than the cells.        *)
(***************************************************************************)
ReportIsTrue == status = "ended" =>
    /\ heap[Ori(Model)].depth = Deepest(Levels, header.outputs)
    /\ heap[Ori(Model)].cost >= Len(oss)

(***************************************************************************)
(* The mapper implements its promise: the circuit read back from the text  *)
(* has the inputs, the output names and the output functions of the        *)
(* netlist that was read.                                                  *)
(***************************************************************************)
Abstract == INSTANCE MappedCircuit WITH
    Circuits <- [inputs : SUBSET (Vertex \X Tag),
                 outputs : Seq((Vertex \X Tag) \X [Assign -> Bit])],
    Nothing  <- [inputs |-> {}, outputs |-> <<>>],
    wanted   <- NetlistCircuit(dag),
    printed  <- IF status = "ended" THEN PrintedCircuit ELSE [inputs |-> {}, outputs |-> <<>>]

PrintsWhatItRead == Abstract!Safety

(***************************************************************************)
(* The promise with its liveness: the program ends, having printed.        *)
(***************************************************************************)
PrintsInTheEnd == Abstract!Promise

(***************************************************************************)
(* main crashes, reading the name of an input without a state, exactly for *)
(* netlists with an input that no output depends on.                       *)
(***************************************************************************)
Needed ==
    LET closed == {S \in SUBSET Vertex :
                    Model \in S /\ \A n \in S : \A i \in DOMAIN Src(n) : Src(n)[i] \in S}
    IN  {n \in Vertex : \A S \in closed : n \in S}

CrashesOnUnusedInput ==
    /\ status = "crashed" => ~(dag.leaf \subseteq Needed)
    /\ frames # <<>> => dag.leaf \subseteq Needed

(***************************************************************************)
(* Whether a block of gate p computes gate q as well: q is one of p's      *)
(* sources and the block an AOI cell on the sources of q.                  *)
(***************************************************************************)
Swallows(block, q) ==
    LET p == block.out[1]
    IN  \/ block.cell \in {"AOI21", "AOI22"} /\ q = Src(p)[1]
        \/ block.cell \in {"AOI12", "AOI22"} /\ q = Src(p)[2]

(***************************************************************************)
(* A gate inside an AOI cell has a fan-out of 1 (doc/hw1.md, line 86), so  *)
(* that it need not be printed as well.  Fan-out does not show every use:  *)
(* a block is printed for a swallowed gate if the gate is an output, or if *)
(* the gate that swallows it has another block that does not, or if that   *)
(* gate is swallowed in turn.  There is no other way to print it.          *)
(***************************************************************************)
AbsorbedOnlyIfRead == status = "ended" =>
    \A i, j \in DOMAIN oss : Swallows(oss[i], oss[j].out[1]) =>
        \/ oss[j].out[1] \in Range(Src(Model))
        \/ \E k \in DOMAIN oss \ {i} :
            /\ oss[k].out[1] = oss[i].out[1] \/ Swallows(oss[k], oss[i].out[1])
            /\ \E m \in DOMAIN oss[k].ins : oss[k].ins[m][1] = oss[j].out[1]

=============================================================================
