--------------------------- MODULE BlifReaderProofs ---------------------------
(***************************************************************************)
(* The reader delivers well-formed netlists: proof of TypeOK and           *)
(* ReadsTheFile for all legal files whose names are distinct, whatever     *)
(* order the parser reports the blocks in.                                 *)
(***************************************************************************)
EXTENDS BlifReader, FiniteSetTheorems, TLAPS

\* A name stands for the node that has it, the model apart: its name may be taken by a signal.
NamesMatch ==
    /\ \A n \in Ref : n # model => name2node[nodes[n].name] = n
    /\ \A s \in Name : name2node[s] # NoNode => nodes[name2node[s]].name = s

\* The first nodes are the declarations', in their order; the others are made by blocks.
DeclNodes ==
    /\ pos <= Len(nodes)
    /\ pos < Len(file.decls) => Len(nodes) = pos /\ read = {}
    /\ \A i \in 1..pos : nodes[i].name = file.decls[i].name
    /\ \A n \in Ref : IF n <= pos THEN nodes[n].leaf = (file.decls[n].kind = "input")
                      ELSE nodes[n].name \in read /\ ~nodes[n].leaf
    /\ pos > 0 => model = 1

\* refs are, in increasing order, the first so many declarations that have this kind.
InOrder(refs, kind, decls, upto) ==
    /\ \A n \in 1..upto : decls[n].kind = kind => \E i \in DOMAIN refs : refs[i] = n
    /\ \A i \in DOMAIN refs : refs[i] \in 1..upto /\ decls[refs[i]].kind = kind
    /\ \A i, j \in DOMAIN refs : i < j => refs[i] < refs[j]

\* A signal whose block has been read has a node, and so had those its block reads.
KnownNodes == \A s \in read :
    name2node[s] # NoNode /\ \A i \in DOMAIN file.reads[s] : file.reads[s][i] \in Known

\* The nodes of the signals a block reads; the row a node is made with.
BlockSources(s) == [i \in DOMAIN file.reads[s] |-> name2node[file.reads[s][i]]]
NoRow == [a |-> 0, b |-> 0, out |-> 0]

\* A node's sources and row are its block's once that has been read, and none before.
Blocks == \A n \in Ref : n # model =>
    LET s == nodes[n].name
    IN  IF s \in read
        THEN /\ nodes[n].sources = BlockSources(s)
             /\ nodes[n].row = Row(NoRow, file.row[s], Len(file.reads[s]))
        ELSE nodes[n].sources = <<>> /\ nodes[n].row = NoRow

IInv ==
    /\ DistinctNames(file)
    /\ TypeOK
    /\ NamesMatch
    /\ DeclNodes
    /\ InOrder(leaves, "input", file.decls, pos)
    /\ pos > 0 => InOrder(nodes[model].sources, "output", file.decls, pos)
    /\ KnownNodes
    /\ Blocks

-----------------------------------------------------------------------------
(* The declarations                                                        *)

\* What is known of the file stays known.
LEMMA SameFile ==
  ASSUME file' = file
  PROVE  /\ LegalFile(file)' <=> LegalFile(file)
         /\ DistinctNames(file)' <=> DistinctNames(file)
         /\ Driven(file') = Driven(file)
         /\ Declared(file, "input")' = Declared(file, "input")
BY DEF LegalFile, DistinctNames, Driven, Declared, ModelName, RowOut

\* A node has the fields of a node.
LEMMA NodesTyped ==
  ASSUME nodes \in Seq(NodeRecord), NEW n \in Ref
  PROVE  nodes[n] \in NodeRecord /\ nodes[n].name \in Name /\ nodes[n].sources \in Seq(Ref)
<1>1. nodes[n] \in NodeRecord
  BY DEF Ref
<1> QED
  BY <1>1 DEF NodeRecord

\* Before the first callback there are no nodes.
LEMMA InitIInv ==
  ASSUME \A f \in Files : DistinctNames(f), Init
  PROVE  IInv
<1>1. file \in Files /\ LegalFile(file) /\ DistinctNames(file)
  BY FilesAssumption DEF Init
<1>2. file.decls \in Seq(Decl)
  BY <1>1 DEF LegalFile
<1>3. TypeOK
  BY <1>1, <1>2, NoNodeAssumption DEF Init, TypeOK, Ref
<1>4. NamesMatch /\ KnownNodes /\ Blocks
  BY DEF Init, NamesMatch, KnownNodes, Blocks, Ref
<1>5. DeclNodes
  BY <1>2 DEF Init, DeclNodes, Ref
<1>6. InOrder(leaves, "input", file.decls, pos)
  BY DEF Init, InOrder
<1> QED
  BY <1>1, <1>3, <1>4, <1>5, <1>6 DEF IInv, Init

(***************************************************************************)
(* While declarations are reported there is one node for each, the next    *)
(* one's name is new, and no block has been read.                          *)
(***************************************************************************)
LEMMA Declaring ==
  ASSUME IInv, NEW kind, NEW name \in Name, Reports(kind, name)
  PROVE  /\ pos \in Nat /\ pos' = pos + 1 /\ pos' \in 1..Len(file.decls)
         /\ file' = file /\ read' = {} /\ read = {}
         /\ file.decls[pos'] = [kind |-> kind, name |-> name]
         /\ Ref = 1..pos /\ NewRef = pos'
         /\ \A n \in Ref : n # model => nodes[n].name # name
<1>1. /\ pos \in Nat /\ pos' = pos + 1 /\ pos' \in 1..Len(file.decls)
      /\ file' = file /\ read' = read
      /\ file.decls[pos'] = [kind |-> kind, name |-> name]
  BY DEF IInv, TypeOK, LegalFile, Reports
<1>2. Len(nodes) = pos /\ read = {}
  BY DEF IInv, DeclNodes, Reports
<1>3. Ref = 1..pos /\ NewRef = pos'
  BY <1>1, <1>2 DEF IInv, TypeOK, Ref, NewRef
<1>4. \A n \in Ref : n # model => nodes[n].name # name
  <2>1. \A n \in 1..pos : nodes[n].name = file.decls[n].name /\ model = 1
    BY <1>1 DEF IInv, DeclNodes
  <2>2. \A n \in 1..pos : n \in DOMAIN file.decls /\ pos' \in DOMAIN file.decls \ {1} /\ n # pos'
    BY <1>1 DEF IInv, TypeOK, LegalFile
  <2> QED
    BY <1>1, <1>3, <2>1, <2>2 DEF IInv, DistinctNames
<1> QED
  BY <1>1, <1>2, <1>3, <1>4

(***************************************************************************)
(* A declaration that makes one node for its name, changing at most the    *)
(* model's sources besides: what it leaves to show.                        *)
(***************************************************************************)
LEMMA DeclarationPreserves ==
  ASSUME IInv, NEW kind \in {"input", "output"}, NEW name \in Name, Reports(kind, name),
         TypeOK',
         NEW node, node.name = name, node.leaf = (kind = "input"), node.sources = <<>>,
         node.row = [a |-> 0, b |-> 0, out |-> 0],
         Len(nodes') = Len(nodes) + 1, nodes'[NewRef] = node,
         \A n \in Ref : /\ nodes'[n].name = nodes[n].name
                        /\ nodes'[n].leaf = nodes[n].leaf
                        /\ n # model => nodes'[n] = nodes[n],
         name2node' = [name2node EXCEPT ![name] = NewRef],
         pos > 0, model' = model
  PROVE  DistinctNames(file)' /\ NamesMatch' /\ DeclNodes' /\ KnownNodes' /\ Blocks'
<1>1. /\ pos \in Nat /\ pos' = pos + 1 /\ pos' \in 1..Len(file.decls)
      /\ file' = file /\ read' = {} /\ read = {}
      /\ file.decls[pos'] = [kind |-> kind, name |-> name]
      /\ Ref = 1..pos /\ NewRef = pos'
      /\ \A n \in Ref : n # model => nodes[n].name # name
  BY Declaring
<1>2. Ref' = 1..pos' /\ Ref' = Ref \cup {pos'} /\ pos' \notin Ref /\ Len(nodes') = pos'
  BY <1>1 DEF TypeOK, Ref, IInv, DeclNodes
<1>3. DistinctNames(file)'
  BY <1>1, SameFile DEF IInv
<1>4. model = 1 /\ model \in Ref
  BY <1>1 DEF IInv, DeclNodes
<1>5. name2node' \in [Name -> Ref' \cup {NoNode}] /\ name2node \in [Name -> Ref \cup {NoNode}]
  BY DEF TypeOK, IInv
<1>6. \A n \in Ref : nodes[n].name \in Name
  BY NodesTyped DEF IInv, TypeOK
<1>7. NamesMatch'
  <2>1. \A n \in Ref' : n # model' => name2node'[nodes'[n].name] = n
    <3> SUFFICES ASSUME NEW n \in Ref', n # model PROVE name2node'[nodes'[n].name] = n
      OBVIOUS
    <3>1. CASE n = pos'
      BY <3>1, <1>1, <1>5
    <3>2. CASE n \in Ref
      BY <3>2, <1>1, <1>5, <1>6 DEF IInv, NamesMatch
    <3> QED
      BY <3>1, <3>2, <1>2
  <2>2. \A s \in Name : name2node'[s] # NoNode => nodes'[name2node'[s]].name = s
    <3> SUFFICES ASSUME NEW s \in Name, name2node'[s] # NoNode
                 PROVE  nodes'[name2node'[s]].name = s
      OBVIOUS
    <3>1. CASE s = name
      BY <3>1, <1>1, <1>5
    <3>2. CASE s # name
      BY <3>2, <1>1, <1>5 DEF IInv, NamesMatch
    <3> QED
      BY <3>1, <3>2
  <2> QED
    BY <2>1, <2>2 DEF NamesMatch
<1>8. DeclNodes'
  <2>1. pos' <= Len(nodes') /\ (pos' < Len(file'.decls) => Len(nodes') = pos' /\ read' = {})
    BY <1>1, <1>2
  <2>2. \A i \in 1..pos' : nodes'[i].name = file'.decls[i].name
    BY <1>1, <1>2 DEF IInv, DeclNodes
  <2>3. \A n \in Ref' : nodes'[n].leaf = (file'.decls[n].kind = "input")
    <3> SUFFICES ASSUME NEW n \in Ref' PROVE nodes'[n].leaf = (file'.decls[n].kind = "input")
      OBVIOUS
    <3>1. CASE n = pos'
      BY <3>1, <1>1
    <3>2. CASE n \in Ref
      BY <3>2, <1>1 DEF IInv, DeclNodes
    <3> QED
      BY <3>1, <3>2, <1>2
  <2> QED
    BY <2>1, <2>2, <2>3, <1>1, <1>2, <1>4 DEF DeclNodes
<1>9. KnownNodes'
  BY <1>1 DEF KnownNodes
<1>10. Blocks'
  <2> SUFFICES ASSUME NEW n \in Ref', n # model
               PROVE  nodes'[n].sources = <<>> /\ nodes'[n].row = [a |-> 0, b |-> 0, out |-> 0]
    BY <1>1 DEF Blocks, NoRow
  <2>1. CASE n = pos'
    BY <2>1, <1>1
  <2>2. CASE n \in Ref
    BY <2>2, <1>1 DEF IInv, Blocks, NoRow
  <2> QED
    BY <2>1, <2>2, <1>2
<1> QED
  BY <1>3, <1>7, <1>8, <1>9, <1>10

\* A function on 1..n is a sequence of length n.
LEMMA SeqOfFunction ==
  ASSUME NEW m \in Nat, NEW S, NEW f \in [1..m -> S]
  PROVE  f \in Seq(S) /\ Len(f) = m
OBVIOUS

\* A sequence over one set is one over any set that has its elements.
LEMMA SeqByElements ==
  ASSUME NEW R, NEW s \in Seq(R), NEW S, \A i \in 1..Len(s) : s[i] \in S
  PROVE  s \in Seq(S)
OBVIOUS

\* References stay references when nodes are added.
LEMMA MoreRefs ==
  ASSUME NEW R, NEW s \in Seq(R), NEW S, R \subseteq S
  PROVE  s \in Seq(S)
OBVIOUS

\* A declaration of another kind is not listed, one of this kind is listed last.
LEMMA ListedOther ==
  ASSUME NEW refs, NEW kind, NEW decls, NEW upto \in Nat,
         InOrder(refs, kind, decls, upto), decls[upto + 1].kind # kind
  PROVE  InOrder(refs, kind, decls, upto + 1)
BY DEF InOrder

\* The declaration of this kind that is listed last keeps the list in order.
LEMMA ListedLast ==
  ASSUME NEW refs \in Seq(Nat), NEW kind, NEW decls, NEW upto \in Nat,
         InOrder(refs, kind, decls, upto), decls[upto + 1].kind = kind
  PROVE  InOrder(Append(refs, upto + 1), kind, decls, upto + 1)
<1> DEFINE longer == Append(refs, upto + 1)
<1>1. /\ DOMAIN longer = 1..(Len(refs) + 1) /\ DOMAIN refs = 1..Len(refs)
      /\ Len(refs) \in Nat /\ longer[Len(refs) + 1] = upto + 1
      /\ \A i \in 1..Len(refs) : longer[i] = refs[i]
  OBVIOUS
<1> HIDE DEF longer
<1>2. \A n \in 1..(upto + 1) : decls[n].kind = kind => \E i \in DOMAIN longer : longer[i] = n
  <2> SUFFICES ASSUME NEW n \in 1..(upto + 1), decls[n].kind = kind
               PROVE  \E i \in DOMAIN longer : longer[i] = n
    OBVIOUS
  <2>1. CASE n = upto + 1
    BY <2>1, <1>1
  <2>2. CASE n \in 1..upto
    <3>1. PICK i \in DOMAIN refs : refs[i] = n
      BY <2>2 DEF InOrder
    <3>2. i \in DOMAIN longer /\ longer[i] = n
      BY <3>1, <1>1
    <3> QED
      BY <3>2
  <2> QED
    BY <2>1, <2>2
<1>3. \A i \in DOMAIN longer : longer[i] \in 1..(upto + 1) /\ decls[longer[i]].kind = kind
  BY <1>1 DEF InOrder
<1>4. \A i, j \in DOMAIN longer : i < j => longer[i] < longer[j]
  <2> SUFFICES ASSUME NEW i \in DOMAIN longer, NEW j \in DOMAIN longer, i < j
               PROVE  longer[i] < longer[j]
    OBVIOUS
  <2>1. i \in 1..Len(refs) /\ longer[i] = refs[i] /\ refs[i] \in 1..upto
    BY <1>1 DEF InOrder
  <2>2. CASE j = Len(refs) + 1
    BY <2>1, <2>2, <1>1
  <2>3. CASE j \in 1..Len(refs)
    BY <2>1, <2>3, <1>1 DEF InOrder
  <2> QED
    BY <2>2, <2>3, <1>1
<1> QED
  BY <1>2, <1>3, <1>4 DEF InOrder, longer

\* on_model starts the netlist with the model's node.
LEMMA OnModelPreserves ==
  ASSUME IInv, NEW name \in Name, OnModel(name)
  PROVE  IInv'
<1>1. /\ pos \in Nat /\ pos' = pos + 1 /\ pos' \in 1..Len(file.decls)
      /\ file' = file /\ read' = {} /\ read = {}
      /\ file.decls[pos'] = [kind |-> "model", name |-> name]
      /\ Ref = 1..pos /\ NewRef = pos'
  BY Declaring DEF OnModel
<1>2. pos' = 1
  BY <1>1 DEF IInv, TypeOK, LegalFile
<1>3. nodes \in Seq(NodeRecord) /\ Len(nodes) = 0
  BY <1>1, <1>2 DEF IInv, TypeOK, Ref
<1>4. NewNode(name, FALSE) \in NodeRecord
  BY DEF NewNode, NodeRecord, Gate, Bit
<1>5. nodes' \in Seq(NodeRecord) /\ Len(nodes') = 1 /\ nodes'[1] = NewNode(name, FALSE)
  <2> DEFINE node == NewNode(name, FALSE)
  <2>1. node \in NodeRecord /\ nodes' = Append(nodes, node)
    BY <1>4 DEF OnModel
  <2> HIDE DEF node
  <2>2. nodes' \in Seq(NodeRecord) /\ Len(nodes') = 1 /\ nodes'[1] = node
    BY <2>1, <1>3
  <2> QED
    BY <2>2 DEF node
<1>6. Ref' = {1}
  BY <1>5 DEF Ref
<1>7. NewRef = 1 /\ model' = 1 /\ leaves' = <<>>
      /\ name2node' = [s \in Name |-> IF s = name THEN 1 ELSE NoNode]
  BY <1>1, <1>2 DEF OnModel
<1>8. nodes' \in Seq(NodeRecord')
  <2>1. NodeRecord' = [name : Name, leaf : BOOLEAN, sources : Seq(Ref'), fanOut : Nat, row : Gate]
    BY DEF NodeRecord
  <2>2. nodes'[1] \in NodeRecord'
    BY <1>5, <2>1 DEF NewNode, Gate, Bit
  <2>3. Len(nodes') = 1
    BY <1>5
  <2>4. \A i \in 1..Len(nodes') : i = 1
    BY <2>3
  <2>5. \A i \in 1..Len(nodes') : nodes'[i] \in NodeRecord'
    BY <2>2, <2>4
  <2> QED
    BY <1>5, <2>5, SeqByElements
<1>9. TypeOK'
  <2>1. LegalFile(file)' /\ pos' \in 0..Len(file'.decls) /\ read' \in SUBSET Driven(file')
    BY <1>1, SameFile DEF TypeOK, IInv
  <2>2. /\ name2node' \in [Name -> Ref' \cup {NoNode}]
        /\ leaves' \in Seq(Ref')
        /\ model' \in Ref' /\ pos' # 0
    BY <1>2, <1>6, <1>7
  <2> QED
    BY <2>1, <2>2, <1>8 DEF TypeOK
<1>10. DistinctNames(file)'
  BY <1>1, SameFile DEF IInv
<1>11. NamesMatch'
  BY <1>5, <1>6, <1>7, NoNodeAssumption DEF NamesMatch, NewNode
<1>12. DeclNodes'
  <2>1. nodes'[1].name = file'.decls[1].name
    BY <1>1, <1>2, <1>5 DEF NewNode
  <2>2. nodes'[1].leaf = FALSE /\ file'.decls[1].kind = "model"
    BY <1>1, <1>2, <1>5 DEF NewNode
  <2>3. pos' <= Len(nodes') /\ (pos' < Len(file'.decls) => Len(nodes') = pos' /\ read' = {})
    BY <1>1, <1>2, <1>5
  <2>4. \A i \in 1..pos' : nodes'[i].name = file'.decls[i].name
    BY <2>1, <1>2
  <2>5. \A n \in Ref' : IF n <= pos' THEN nodes'[n].leaf = (file'.decls[n].kind = "input")
                        ELSE nodes'[n].name \in read' /\ ~nodes'[n].leaf
    <3>1. 1 <= pos'
      BY <1>2
    <3>2. "model" # "input"
      OBVIOUS
    <3> QED
      BY <2>2, <3>1, <3>2, <1>6
  <2> QED
    BY <2>3, <2>4, <2>5, <1>7 DEF DeclNodes
<1>13. InOrder(leaves, "input", file.decls, pos)'
  BY <1>1, <1>2, <1>7 DEF InOrder
<1>14. InOrder(nodes[model].sources, "output", file.decls, pos)'
  BY <1>1, <1>2, <1>5, <1>7 DEF InOrder, NewNode
<1>15. KnownNodes' /\ Blocks'
  BY <1>1, <1>6, <1>7 DEF KnownNodes, Blocks
<1> QED
  BY <1>9, <1>10, <1>11, <1>12, <1>13, <1>14, <1>15 DEF IInv

\* The model is declared before anything else.
LEMMA ModelFirst ==
  ASSUME IInv, NEW kind \in {"input", "output"}, NEW name \in Name, Reports(kind, name)
  PROVE  pos > 0 /\ model = 1 /\ model \in Ref
<1>1. pos \in Nat /\ pos' = pos + 1 /\ pos' \in 1..Len(file.decls)
      /\ file.decls[pos'] = [kind |-> kind, name |-> name] /\ Ref = 1..pos
  BY Declaring
<1>2. file.decls[pos'].kind # "model"
  BY <1>1
<1>3. pos' # 1
  BY <1>1, <1>2 DEF IInv, TypeOK, LegalFile
<1> QED
  BY <1>1, <1>3 DEF IInv, DeclNodes

\* on_input adds a leaf.
LEMMA OnInputPreserves ==
  ASSUME IInv, NEW name \in Name, OnInput(name)
  PROVE  IInv'
<1> DEFINE node == [name |-> name, leaf |-> TRUE, sources |-> <<>>, fanOut |-> 0,
                    row |-> [a |-> 0, b |-> 0, out |-> 0]]
<1>0. Reports("input", name)
  BY DEF OnInput
<1>1. /\ pos \in Nat /\ pos' = pos + 1 /\ pos' \in 1..Len(file.decls)
      /\ file' = file /\ read' = {} /\ read = {}
      /\ file.decls[pos'] = [kind |-> "input", name |-> name]
      /\ Ref = 1..pos /\ NewRef = pos'
  BY <1>0, Declaring
<1>2. pos > 0 /\ model = 1 /\ model \in Ref /\ model' = model
  BY <1>0, ModelFirst DEF OnInput
<1>3. nodes \in Seq(NodeRecord) /\ leaves \in Seq(Ref)
  BY DEF IInv, TypeOK
<1>4. nodes' = Append(nodes, node)
  BY DEF OnInput, NewNode
<1>5. /\ Len(nodes') = Len(nodes) + 1 /\ nodes'[NewRef] = node
      /\ \A n \in Ref : nodes'[n] = nodes[n]
  BY <1>3, <1>4 DEF NewRef, Ref
<1>6. Ref' = Ref \cup {pos'}
  BY <1>1, <1>3, <1>4 DEF Ref
<1>7. name2node' = [name2node EXCEPT ![name] = pos'] /\ leaves' = Append(leaves, pos')
  BY <1>1 DEF OnInput
<1> HIDE DEF node
<1>8. nodes' \in Seq(NodeRecord')
  <2>1. NodeRecord' = [name : Name, leaf : BOOLEAN, sources : Seq(Ref'), fanOut : Nat, row : Gate]
    BY DEF NodeRecord
  <2>2. node \in NodeRecord'
    BY <2>1 DEF node, Gate, Bit
  <2>3. \A n \in Ref : nodes[n] \in NodeRecord'
    BY <1>3, <1>6, <2>1, NodesTyped, MoreRefs DEF NodeRecord
  <2>4. Len(nodes) \in Nat /\ Ref = 1..Len(nodes)
    BY <1>3 DEF Ref
  <2>5. nodes \in Seq(NodeRecord')
    BY <1>3, <2>3, <2>4, SeqByElements
  <2> QED
    BY <1>4, <2>2, <2>5
<1>9. TypeOK'
  <2>1. LegalFile(file)' /\ pos' \in 0..Len(file'.decls) /\ read' \in SUBSET Driven(file')
    BY <1>1, SameFile DEF TypeOK, IInv
  <2>2. name2node' \in [Name -> Ref' \cup {NoNode}]
    BY <1>6, <1>7 DEF IInv, TypeOK
  <2>3. leaves' \in Seq(Ref')
    <3>1. leaves \in Seq(Ref')
      BY <1>3, <1>6, MoreRefs
    <3> QED
      BY <3>1, <1>6, <1>7
  <2>4. model' \in Ref' /\ pos' # 0
    BY <1>1, <1>2, <1>6
  <2> QED
    BY <2>1, <2>2, <2>3, <2>4, <1>8 DEF TypeOK
<1>10. DistinctNames(file)' /\ NamesMatch' /\ DeclNodes' /\ KnownNodes' /\ Blocks'
  <2>1. /\ node.name = name /\ node.leaf = ("input" = "input") /\ node.sources = <<>>
        /\ node.row = [a |-> 0, b |-> 0, out |-> 0]
    BY DEF node
  <2>2. \A n \in Ref : /\ nodes'[n].name = nodes[n].name
                       /\ nodes'[n].leaf = nodes[n].leaf
                       /\ n # model => nodes'[n] = nodes[n]
    BY <1>5
  <2>3. name2node' = [name2node EXCEPT ![name] = NewRef]
    BY <1>1, <1>7
  <2> QED
    BY <1>0, <1>2, <1>5, <1>9, <2>1, <2>2, <2>3, DeclarationPreserves
<1>11. InOrder(leaves, "input", file.decls, pos)'
  <2>1. leaves \in Seq(Nat)
    <3>1. Ref \subseteq Nat
      BY <1>1
    <3> QED
      BY <3>1, <1>3, MoreRefs
  <2>2. InOrder(leaves, "input", file.decls, pos) /\ file.decls[pos + 1].kind = "input"
    BY <1>1 DEF IInv
  <2>3. InOrder(Append(leaves, pos + 1), "input", file.decls, pos + 1)
    BY <1>1, <2>1, <2>2, ListedLast
  <2> QED
    BY <2>3, <1>1, <1>7
<1>12. InOrder(nodes[model].sources, "output", file.decls, pos)'
  <2>1. InOrder(nodes[model].sources, "output", file.decls, pos)
    BY <1>2 DEF IInv
  <2>2. file.decls[pos + 1].kind # "output"
    BY <1>1
  <2>3. InOrder(nodes[model].sources, "output", file.decls, pos + 1)
    BY <1>1, <2>1, <2>2, ListedOther
  <2> QED
    BY <2>3, <1>1, <1>2, <1>5
<1> QED
  BY <1>9, <1>10, <1>11, <1>12 DEF IInv

\* on_output adds a node that the model refers to.
LEMMA OnOutputPreserves ==
  ASSUME IInv, NEW name \in Name, OnOutput(name)
  PROVE  IInv'
<1> DEFINE node == [name |-> name, leaf |-> FALSE, sources |-> <<>>, fanOut |-> 0,
                    row |-> [a |-> 0, b |-> 0, out |-> 0]]
           outputs == Append(nodes[model].sources, pos')
           relinked == [nodes[model] EXCEPT !.sources = outputs]
           linked == [nodes EXCEPT ![model] = relinked]
<1>0. Reports("output", name)
  BY DEF OnOutput
<1>1. /\ pos \in Nat /\ pos' = pos + 1 /\ pos' \in 1..Len(file.decls)
      /\ file' = file /\ read' = {} /\ read = {}
      /\ file.decls[pos'] = [kind |-> "output", name |-> name]
      /\ Ref = 1..pos /\ NewRef = pos'
  BY <1>0, Declaring
<1>2. pos > 0 /\ model = 1 /\ model \in Ref /\ model' = model
  BY <1>0, ModelFirst DEF OnOutput
<1>3. nodes \in Seq(NodeRecord) /\ leaves \in Seq(Ref)
  BY DEF IInv, TypeOK
<1>4. nodes' = Append(linked, node)
  BY <1>1 DEF OnOutput, NewNode
<1>5. Ref' = Ref \cup {pos'}
  BY <1>1, <1>3, <1>4 DEF Ref
<1>6. NodeRecord' = [name : Name, leaf : BOOLEAN, sources : Seq(Ref'), fanOut : Nat, row : Gate]
  BY DEF NodeRecord
<1>7. nodes[model] \in NodeRecord /\ nodes[model].sources \in Seq(Ref)
  BY <1>2, <1>3, NodesTyped
<1>8. outputs \in Seq(Ref')
  <2>1. nodes[model].sources \in Seq(Ref')
    BY <1>5, <1>7, MoreRefs
  <2> QED
    BY <2>1, <1>5
<1> HIDE DEF node, outputs, relinked
<1>9. /\ Len(linked) = Len(nodes) /\ DOMAIN linked = Ref
      /\ \A n \in Ref : linked[n] = IF n = model THEN relinked ELSE nodes[n]
  BY <1>2, <1>3 DEF Ref
<1>10. linked \in Seq(NodeRecord')
  <2>1. \A n \in Ref : nodes[n] \in NodeRecord'
    BY <1>3, <1>5, <1>6, NodesTyped, MoreRefs DEF NodeRecord
  <2>2. relinked \in NodeRecord'
    BY <2>1, <1>2, <1>6, <1>8 DEF relinked
  <2>3. nodes \in Seq(NodeRecord')
    <3>1. Ref = 1..Len(nodes)
      BY <1>3 DEF Ref
    <3> QED
      BY <1>3, <2>1, <3>1, SeqByElements
  <2> QED
    BY <2>2, <2>3, <1>2 DEF Ref
<1> HIDE DEF linked
<1>11. nodes' \in Seq(NodeRecord')
  <2>1. node \in NodeRecord'
    BY <1>6 DEF node, Gate, Bit
  <2> QED
    BY <2>1, <1>4, <1>10
<1>12. /\ Len(nodes') = Len(nodes) + 1 /\ nodes'[NewRef] = node
       /\ \A n \in Ref : nodes'[n] = linked[n]
  BY <1>1, <1>4, <1>9, <1>10, <1>3 DEF NewRef, Ref
<1>13. /\ name2node' = [name2node EXCEPT ![name] = NewRef] /\ leaves' = leaves
  BY <1>1 DEF OnOutput
<1>14. TypeOK'
  <2>1. LegalFile(file)' /\ pos' \in 0..Len(file'.decls) /\ read' \in SUBSET Driven(file')
    BY <1>1, SameFile DEF TypeOK, IInv
  <2>2. name2node' \in [Name -> Ref' \cup {NoNode}]
    BY <1>1, <1>5, <1>13 DEF IInv, TypeOK
  <2>3. leaves' \in Seq(Ref')
    BY <1>3, <1>5, <1>13, MoreRefs
  <2>4. model' \in Ref' /\ pos' # 0
    BY <1>1, <1>2, <1>5
  <2> QED
    BY <2>1, <2>2, <2>3, <2>4, <1>11 DEF TypeOK
<1>15. DistinctNames(file)' /\ NamesMatch' /\ DeclNodes' /\ KnownNodes' /\ Blocks'
  <2>1. /\ node.name = name /\ node.leaf = ("output" = "input") /\ node.sources = <<>>
        /\ node.row = [a |-> 0, b |-> 0, out |-> 0]
    BY DEF node
  <2>2. \A n \in Ref : /\ nodes'[n].name = nodes[n].name
                       /\ nodes'[n].leaf = nodes[n].leaf
                       /\ n # model => nodes'[n] = nodes[n]
    <3>1. \A n \in Ref : nodes[n] \in NodeRecord
      BY <1>3, NodesTyped
    <3>2. \A n \in Ref : n # model => nodes'[n] = nodes[n]
      BY <1>9, <1>12
    <3>3. nodes'[model] = [nodes[model] EXCEPT !.sources = outputs]
      BY <1>2, <1>9, <1>12 DEF relinked
    <3>4. nodes'[model].name = nodes[model].name /\ nodes'[model].leaf = nodes[model].leaf
      BY <3>3, <1>7 DEF NodeRecord
    <3> QED
      BY <3>2, <3>4
  <2> QED
    BY <1>0, <1>2, <1>12, <1>13, <1>14, <2>1, <2>2, DeclarationPreserves
<1>16. InOrder(leaves, "input", file.decls, pos)'
  <2>1. InOrder(leaves, "input", file.decls, pos) /\ file.decls[pos + 1].kind # "input"
    BY <1>1 DEF IInv
  <2>2. InOrder(leaves, "input", file.decls, pos + 1)
    BY <1>1, <2>1, ListedOther
  <2> QED
    BY <2>2, <1>1, <1>13
<1>17. InOrder(nodes[model].sources, "output", file.decls, pos)'
  <2>1. nodes[model].sources \in Seq(Nat)
    <3>1. Ref \subseteq Nat
      BY <1>1
    <3> QED
      BY <3>1, <1>7, MoreRefs
  <2>2. InOrder(nodes[model].sources, "output", file.decls, pos)
        /\ file.decls[pos + 1].kind = "output"
    BY <1>1, <1>2 DEF IInv
  <2>3. InOrder(Append(nodes[model].sources, pos + 1), "output", file.decls, pos + 1)
    BY <1>1, <2>1, <2>2, ListedLast
  <2>4. nodes'[model'].sources = outputs
    BY <1>2, <1>7, <1>9, <1>12 DEF NodeRecord, relinked
  <2> QED
    BY <2>3, <2>4, <1>1 DEF outputs
<1> QED
  BY <1>14, <1>15, <1>16, <1>17 DEF IInv

-----------------------------------------------------------------------------
(* The blocks                                                              *)

\* How often a block uses a node is a number.
LEMMA CountType ==
  ASSUME NEW S, NEW sources \in Seq(S), NEW n
  PROVE  Count(sources, n) \in Nat
<1>1. IsFiniteSet(1..Len(sources))
  BY FS_Interval
<1>2. IsFiniteSet({i \in DOMAIN sources : sources[i] = n})
  BY <1>1, FS_Subset
<1> QED
  BY <1>2, FS_CardinalityType DEF Count

\* Once all declarations have been reported, an input's or output's name stands for its node.
LEMMA DeclaredNode ==
  ASSUME IInv, pos = Len(file.decls), NEW j \in DOMAIN file.decls, j # 1
  PROVE  /\ j \in Ref \ {model} /\ j <= pos /\ nodes[j].name = file.decls[j].name
         /\ name2node[file.decls[j].name] = j
<1>1. j \in 1..pos /\ pos \in Nat
  BY DEF IInv, TypeOK, LegalFile
<1>2. j \in Ref /\ nodes[j].name = file.decls[j].name /\ model = 1
  BY <1>1 DEF IInv, TypeOK, DeclNodes, Ref
<1> QED
  BY <1>1, <1>2 DEF IInv, NamesMatch

\* A driven signal does not have the model's name, or it is an output and has a node.
LEMMA DrivenNode ==
  ASSUME IInv, pos = Len(file.decls), NEW s \in Driven(file)
  PROVE  s = ModelName(file) => name2node[s] \in Ref \ {model}
<1> SUFFICES ASSUME s = ModelName(file) PROVE name2node[s] \in Ref \ {model}
  OBVIOUS
<1>1. PICK j \in DOMAIN file.decls : file.decls[j].kind = "output" /\ file.decls[j].name = s
  BY DEF IInv, DistinctNames, Declared
<1>2. j # 1
  BY <1>1 DEF IInv, TypeOK, LegalFile
<1> QED
  BY <1>1, <1>2, DeclaredNode

\* The signals a block may read have nodes, none of them the model's.
LEMMA KnownHaveNodes ==
  ASSUME IInv, pos = Len(file.decls), NEW t \in Known
  PROVE  name2node[t] \in Ref \ {model} /\ nodes[name2node[t]].name = t /\ t \in Name
<1>1. /\ pos \in Nat \ {0} /\ model = 1 /\ 1 \in DOMAIN file.decls
      /\ file.decls \in Seq(Decl) /\ file.decls[1].kind = "model"
  <2>1. file.decls \in Seq(Decl) /\ file.decls # <<>>
    BY DEF IInv, TypeOK, LegalFile
  <2>2. pos \in Nat \ {0} /\ 1 \in DOMAIN file.decls
    BY <2>1
  <2> QED
    BY <2>1, <2>2 DEF IInv, TypeOK, LegalFile, DeclNodes
<1>2. /\ nodes \in Seq(NodeRecord) /\ 1..pos \subseteq Ref
      /\ name2node \in [Name -> Ref \cup {NoNode}]
  BY <1>1 DEF IInv, TypeOK, DeclNodes, Ref
<1>3. nodes[1].name = ModelName(file)
  BY <1>1 DEF IInv, DeclNodes, ModelName
<1>4. CASE t \in Declared(file, "input")
  <2>1. PICK j \in DOMAIN file.decls : file.decls[j].kind = "input" /\ file.decls[j].name = t
    BY <1>4 DEF Declared
  <2>2. j \in 1..pos /\ j # 1
    BY <2>1, <1>1
  <2>3. nodes[j].name = t /\ j \in Ref
    BY <2>1, <2>2, <1>2 DEF IInv, DeclNodes
  <2>4. name2node[t] = j
    BY <2>1, <2>2, DeclaredNode
  <2>5. t \in Name
    BY <2>3, <1>2, NodesTyped
  <2> QED
    BY <2>2, <2>3, <2>4, <2>5, <1>1
<1>5. CASE t \in read
  <2>1. t \in Driven(file) /\ t \in Name
    BY <1>5 DEF IInv, TypeOK, LegalFile
  <2>2. name2node[t] # NoNode
    BY <1>5 DEF IInv, KnownNodes
  <2>3. name2node[t] \in Ref /\ nodes[name2node[t]].name = t
    BY <2>1, <2>2, <1>2 DEF IInv, NamesMatch
  <2>4. t = ModelName(file) => name2node[t] # model
    BY <2>1, DrivenNode
  <2> QED
    BY <2>1, <2>3, <2>4, <1>1, <1>3
<1> QED
  BY <1>4, <1>5 DEF Known

\* The node a block is for: a new one, or the one its output was declared with.
LEMMA BlockNode ==
  ASSUME IInv, pos = Len(file.decls), NEW s \in Driven(file), s \notin read
  PROVE  /\ s \in Name
         /\ name2node[s] = NoNode => \A n \in Ref : n # model => nodes[n].name # s
         /\ name2node[s] # NoNode =>
               /\ name2node[s] \in Ref \ {model} /\ name2node[s] <= pos
               /\ nodes[name2node[s]].name = s /\ nodes[name2node[s]].leaf = FALSE
               /\ nodes[name2node[s]].sources = <<>>
               /\ nodes[name2node[s]].row = [a |-> 0, b |-> 0, out |-> 0]
<1>1. s \in Name /\ name2node \in [Name -> Ref \cup {NoNode}] /\ nodes \in Seq(NodeRecord)
  BY DEF IInv, TypeOK, LegalFile
<1>2. ASSUME name2node[s] = NoNode PROVE \A n \in Ref : n # model => nodes[n].name # s
  <2>1. \A n \in Ref : n # NoNode
    BY <1>1, NoNodeAssumption DEF Ref
  <2> QED
    BY <1>2, <2>1 DEF IInv, NamesMatch
<1>3. ASSUME name2node[s] # NoNode
      PROVE  /\ name2node[s] \in Ref \ {model} /\ name2node[s] <= pos
             /\ nodes[name2node[s]].name = s /\ nodes[name2node[s]].leaf = FALSE
             /\ nodes[name2node[s]].sources = <<>>
             /\ nodes[name2node[s]].row = [a |-> 0, b |-> 0, out |-> 0]
  <2> DEFINE n == name2node[s]
  <2>1. n \in Ref /\ nodes[n].name = s
    BY <1>1, <1>3 DEF IInv, NamesMatch
  <2> HIDE DEF n
  <2>2. n \in Nat /\ pos \in Nat /\ n >= 1 /\ nodes[n] \in NodeRecord
    BY <2>1, <1>1 DEF IInv, TypeOK, LegalFile, Ref
  <2>3. n <= pos
    BY <2>1, <2>2 DEF IInv, DeclNodes
  <2>4. n \in DOMAIN file.decls /\ file.decls[n].name = s /\ n \in 1..pos
    BY <2>1, <2>2, <2>3 DEF IInv, DeclNodes, TypeOK, LegalFile
  <2>5. n # model
    <3>1. pos > 0 /\ (s = ModelName(file) => n # model)
      BY <2>2, <2>3, DrivenNode DEF n
    <3> QED
      BY <3>1, <2>4 DEF IInv, DeclNodes, ModelName
  <2>6. file.decls[n].kind # "input"
    <3>1. s \notin Declared(file, "input")
      BY DEF IInv, TypeOK, LegalFile
    <3> QED
      BY <3>1, <2>4 DEF Declared
  <2>7. nodes[n].leaf = FALSE
    BY <2>1, <2>2, <2>3, <2>6 DEF IInv, DeclNodes, NodeRecord
  <2>8. nodes[n].sources = <<>> /\ nodes[n].row = [a |-> 0, b |-> 0, out |-> 0]
    BY <2>1, <2>5 DEF IInv, Blocks, NoRow
  <2> QED
    BY <2>1, <2>3, <2>5, <2>7, <2>8 DEF n
<1> QED
  BY <1>1, <1>2, <1>3

\* The node a block is for.
BlockRef(s) == IF name2node[s] = NoNode THEN NewRef ELSE name2node[s]

\* What the node of a block becomes, and what the others keep.
LEMMA OnGateNodes ==
  ASSUME IInv, NEW s \in Name, OnGate(s)
  PROVE  /\ name2node' = [name2node EXCEPT ![s] = BlockRef(s)]
         /\ BlockSources(s) \in Seq(Ref)
         /\ nodes' = [k \in Ref \cup {BlockRef(s)} |-> nodes'[k]]
         /\ \A k \in Ref \cup {BlockRef(s)} : nodes'[k].fanOut \in Nat
         /\ nodes'[BlockRef(s)] =
               [name |-> s, leaf |-> FALSE, sources |-> BlockSources(s),
                fanOut |-> nodes'[BlockRef(s)].fanOut,
                row |-> Row(NoRow, file.row[s], Len(file.reads[s]))]
         /\ \A k \in Ref \ {BlockRef(s)} : nodes'[k] =
               [name |-> nodes[k].name, leaf |-> nodes[k].leaf, sources |-> nodes[k].sources,
                fanOut |-> nodes'[k].fanOut, row |-> nodes[k].row]
<1> DEFINE n == BlockRef(s)
           in == file.reads[s]
           sources == BlockSources(s)
<1>0. /\ n = IF name2node[s] = NoNode THEN NewRef ELSE name2node[s]
      /\ sources = [i \in DOMAIN in |-> name2node[in[i]]]
  BY DEF BlockRef, BlockSources
<1> HIDE DEF n, sources
<1> DEFINE old(k) == IF k = NewRef THEN NewNode(s, FALSE) ELSE nodes[k]
<1>1. /\ pos = Len(file.decls) /\ s \in Driven(file) /\ s \notin read /\ Range(in) \subseteq Known
  BY DEF OnGate, Reportable
<1>2. nodes \in Seq(NodeRecord) /\ Len(nodes) \in Nat /\ Ref = 1..Len(nodes) /\ NewRef = Len(nodes) + 1
  BY DEF IInv, TypeOK, Ref, NewRef
<1>3. in \in Seq(Driven(file) \cup Declared(file, "input"))
  BY <1>1 DEF IInv, TypeOK, LegalFile
<1>4. \A i \in DOMAIN in : in[i] \in Known
  BY <1>1 DEF Range
<1>5. \A i \in DOMAIN in : name2node[in[i]] \in Ref
  BY <1>1, <1>4, KnownHaveNodes
<1>6. DOMAIN in = 1..Len(in) /\ Len(in) \in Nat
  BY <1>3
<1>7. sources \in Seq(Ref) /\ Len(sources) = Len(in) /\ (in = <<>> => sources = <<>>)
  BY <1>0, <1>5, <1>6
<1>8. n \in Nat /\ (name2node[s] # NoNode => n \in Ref /\ n # NewRef)
  <2>1. name2node[s] # NoNode => name2node[s] \in Ref
    BY <1>1, BlockNode
  <2> QED
    BY <2>1, <1>0, <1>2
<1>9. /\ name2node' = [name2node EXCEPT ![s] = n]
      /\ nodes' = [k \in Ref \cup {n} |->
            [name    |-> IF k = n THEN s ELSE old(k).name,
             leaf    |-> old(k).leaf,
             sources |-> IF k # n THEN old(k).sources
                         ELSE IF in = <<>> THEN <<>> ELSE old(k).sources \o sources,
             fanOut  |-> old(k).fanOut + Count(sources, k),
             row     |-> IF k = n THEN Row(old(k).row, file.row[s], Len(in)) ELSE old(k).row]]
  BY <1>0 DEF OnGate
<1>10. \A k \in Nat : Count(sources, k) \in Nat
  BY <1>7, CountType
<1>11. old(n).leaf = FALSE /\ old(n).sources = <<>> /\ old(n).row = [a |-> 0, b |-> 0, out |-> 0]
       /\ old(n).fanOut \in Nat
  <2>1. CASE name2node[s] = NoNode
    BY <2>1, <1>0 DEF NewNode
  <2>2. CASE name2node[s] # NoNode
    <3>1. n = name2node[s] /\ old(n) = nodes[n]
      BY <2>2, <1>0, <1>8
    <3>2. nodes[n].fanOut \in Nat
      BY <3>1, <1>2, <1>8, <2>2, NodesTyped DEF NodeRecord
    <3> HIDE DEF old
    <3> QED
      BY <3>1, <3>2, <2>2, <1>1, BlockNode
  <2> QED
    BY <2>1, <2>2
<1>12. \A k \in Ref : old(k) = nodes[k] /\ k \in Nat
  <2>1. \A k \in Ref : k \in Nat /\ k # NewRef
    BY <1>2
  <2> QED
    BY <2>1
<1>13. \A k \in Ref : nodes[k].fanOut \in Nat
  BY <1>2, NodesTyped DEF NodeRecord
<1> HIDE DEF old
<1>14. \A k \in Ref \cup {n} : nodes'[k].fanOut \in Nat
  <2> SUFFICES ASSUME NEW k \in Ref \cup {n} PROVE nodes'[k].fanOut \in Nat
    OBVIOUS
  <2>1. nodes'[k].fanOut = old(k).fanOut + Count(sources, k)
    BY <1>9
  <2>2. k \in Nat /\ old(k).fanOut \in Nat
    BY <1>8, <1>11, <1>12, <1>13
  <2> QED
    BY <2>1, <2>2, <1>10
<1>15. <<>> \o sources = sources
  BY <1>7
<1>16. nodes'[n] =
          [name |-> s, leaf |-> FALSE, sources |-> sources, fanOut |-> nodes'[n].fanOut,
           row |-> Row([a |-> 0, b |-> 0, out |-> 0], file.row[s], Len(in))]
  BY <1>7, <1>9, <1>11, <1>15
<1>17. \A k \in Ref \ {n} : nodes'[k] =
          [name |-> nodes[k].name, leaf |-> nodes[k].leaf, sources |-> nodes[k].sources,
           fanOut |-> nodes'[k].fanOut, row |-> nodes[k].row]
  BY <1>9, <1>12
<1>18. nodes' = [k \in Ref \cup {n} |-> nodes'[k]]
  BY <1>9
<1> QED
  BY <1>7, <1>9, <1>14, <1>16, <1>17, <1>18 DEF n, sources, NoRow

\* on_gate completes the node its output was declared with, or adds one.
LEMMA OnGatePreserves ==
  ASSUME IInv, NEW s \in Name, OnGate(s)
  PROVE  IInv'
<1> DEFINE in == file.reads[s]
           sources == BlockSources(s)
           n == BlockRef(s)
           row == Row(NoRow, file.row[s], Len(in))
<1>0. n = IF name2node[s] = NoNode THEN NewRef ELSE name2node[s]
  BY DEF BlockRef
<1>1. /\ pos = Len(file.decls) /\ s \in Driven(file) /\ s \notin read /\ Range(in) \subseteq Known
      /\ read' = read \cup {s} /\ file' = file /\ pos' = pos /\ leaves' = leaves /\ model' = model
  BY DEF OnGate, Reportable
<1>2. /\ name2node' = [name2node EXCEPT ![s] = n]
      /\ sources \in Seq(Ref)
      /\ nodes' = [k \in Ref \cup {n} |-> nodes'[k]]
      /\ \A k \in Ref \cup {n} : nodes'[k].fanOut \in Nat
      /\ nodes'[n] = [name |-> s, leaf |-> FALSE, sources |-> sources,
                      fanOut |-> nodes'[n].fanOut, row |-> row]
      /\ \A k \in Ref \ {n} : nodes'[k] =
            [name |-> nodes[k].name, leaf |-> nodes[k].leaf, sources |-> nodes[k].sources,
             fanOut |-> nodes'[k].fanOut, row |-> nodes[k].row]
  BY OnGateNodes
<1> HIDE DEF n, in, sources, row
<1>3. /\ nodes \in Seq(NodeRecord) /\ Len(nodes) \in Nat /\ Ref = 1..Len(nodes)
      /\ name2node \in [Name -> Ref \cup {NoNode}] /\ pos \in Nat \ {0} /\ model = 1 /\ 1 \in Ref
      /\ pos <= Len(nodes)
  <2>1. file.decls \in Seq(Decl) /\ file.decls # <<>>
    BY DEF IInv, TypeOK, LegalFile
  <2>2. nodes \in Seq(NodeRecord) /\ name2node \in [Name -> Ref \cup {NoNode}]
    BY DEF IInv, TypeOK
  <2>3. Len(nodes) \in Nat /\ Ref = 1..Len(nodes)
    BY <2>2 DEF Ref
  <2>4. pos \in Nat \ {0}
    BY <1>1, <2>1
  <2>5. model = 1 /\ pos <= Len(nodes)
    BY <2>4 DEF IInv, DeclNodes
  <2> QED
    BY <2>2, <2>3, <2>4, <2>5
<1>4. /\ n \in Ref \cup {NewRef} /\ n # model /\ n \in Nat
      /\ NewRef = Len(nodes) + 1
      /\ n \in Ref => n <= pos /\ nodes[n].name = s /\ nodes[n].leaf = FALSE /\ name2node[s] = n
      /\ n \notin Ref => n = NewRef /\ \A k \in Ref : k # model => nodes[k].name # s
  <2>1. NewRef = Len(nodes) + 1 /\ NewRef \notin Ref /\ NewRef # model
    BY <1>3 DEF NewRef
  <2>2. CASE name2node[s] = NoNode
    <3>1. n = NewRef
      BY <1>0, <2>2
    <3>2. \A k \in Ref : k # model => nodes[k].name # s
      BY <1>1, <2>2, BlockNode
    <3> QED
      BY <3>1, <3>2, <2>1, <1>3
  <2>3. CASE name2node[s] # NoNode
    <3>1. n = name2node[s]
      BY <1>0, <2>3
    <3>2. name2node[s] \in Ref \ {model} /\ name2node[s] <= pos
          /\ nodes[name2node[s]].name = s /\ nodes[name2node[s]].leaf = FALSE
      BY <2>3, <1>1, BlockNode
    <3> QED
      BY <3>1, <3>2, <2>1, <1>3
  <2> QED
    BY <2>2, <2>3
<1>5. /\ Ref' = Ref \cup {n} /\ nodes' \in Seq(NodeRecord')
      /\ Len(nodes') \in Nat /\ Len(nodes) <= Len(nodes')
  <2> DEFINE m == IF n \in Ref THEN Len(nodes) ELSE Len(nodes) + 1
  <2>1. m \in Nat /\ Len(nodes) <= m /\ Ref \cup {n} = 1..m
    BY <1>3, <1>4
  <2> HIDE DEF m
  <2>2. Ref' = Ref \cup {n}
    BY <1>2 DEF Ref
  <2>3. NodeRecord' = [name : Name, leaf : BOOLEAN, sources : Seq(Ref'), fanOut : Nat, row : Gate]
    BY DEF NodeRecord
  <2>4. \A k \in Ref \ {n} : nodes'[k] \in NodeRecord'
    <3> SUFFICES ASSUME NEW k \in Ref \ {n} PROVE nodes'[k] \in NodeRecord'
      OBVIOUS
    <3>1. nodes[k] \in NodeRecord /\ nodes[k].sources \in Seq(Ref)
      BY <1>3, NodesTyped
    <3>2. nodes[k].sources \in Seq(Ref')
      BY <2>2, <3>1, MoreRefs
    <3>3. nodes[k].name \in Name /\ nodes[k].leaf \in BOOLEAN /\ nodes[k].row \in Gate
      BY <3>1 DEF NodeRecord
    <3>4. nodes'[k].fanOut \in Nat
      BY <1>2
    <3> QED
      BY <1>2, <2>3, <3>2, <3>3, <3>4
  <2>5. nodes'[n] \in NodeRecord'
    <3>1. sources \in Seq(Ref')
      BY <1>2, <2>2, MoreRefs
    <3>2. row \in Gate
      <4>1. file.row[s] \in Gate
        BY <1>1 DEF IInv, TypeOK, LegalFile
      <4> QED
        BY <4>1 DEF row, Row, NoRow, Gate, Bit
    <3>3. nodes'[n].fanOut \in Nat
      BY <1>2
    <3>4. nodes'[n] = [name |-> s, leaf |-> FALSE, sources |-> sources,
                       fanOut |-> nodes'[n].fanOut, row |-> row]
      BY <1>2
    <3>5. [name |-> s, leaf |-> FALSE, sources |-> sources, fanOut |-> nodes'[n].fanOut, row |-> row]
            \in NodeRecord'
      BY <2>3, <3>1, <3>2, <3>3
    <3> QED
      BY <3>4, <3>5
  <2>6. nodes' \in [1..m -> NodeRecord']
    <3>1. \A k \in Ref \cup {n} : nodes'[k] \in NodeRecord'
      BY <2>4, <2>5
    <3> QED
      BY <1>2, <2>1, <3>1
  <2>7. nodes' \in Seq(NodeRecord') /\ Len(nodes') = m
    BY <2>1, <2>6, SeqOfFunction
  <2> QED
    BY <2>1, <2>2, <2>7
<1>6. \A k \in Ref : nodes[k] \in NodeRecord /\ nodes[k].name \in Name
  BY <1>3, NodesTyped
<1>8. nodes'[n].name = s /\ nodes'[n].leaf = FALSE /\ nodes'[n].sources = sources /\ nodes'[n].row = row
  BY <1>2
<1>9. \A k \in Ref \ {n} : /\ nodes'[k].name = nodes[k].name /\ nodes'[k].leaf = nodes[k].leaf
                           /\ nodes'[k].sources = nodes[k].sources /\ nodes'[k].row = nodes[k].row
  BY <1>2
<1>7. \A k \in Ref : nodes'[k].name = nodes[k].name /\ nodes'[k].leaf = nodes[k].leaf
  BY <1>4, <1>8, <1>9
<1>10. TypeOK'
  <2>1. LegalFile(file)' /\ pos' \in 0..Len(file'.decls) /\ read' \in SUBSET Driven(file')
    BY <1>1, SameFile DEF TypeOK, IInv
  <2>2. name2node' \in [Name -> Ref' \cup {NoNode}]
    BY <1>2, <1>3, <1>5
  <2>3. leaves' \in Seq(Ref')
    <3>1. leaves \in Seq(Ref)
      BY DEF IInv, TypeOK
    <3> QED
      BY <1>1, <1>5, <3>1, MoreRefs
  <2>4. model' \in Ref' /\ pos' # 0
    BY <1>1, <1>3, <1>5
  <2> QED
    BY <2>1, <2>2, <2>3, <2>4, <1>5 DEF TypeOK
<1>11. DistinctNames(file)'
  BY <1>1, SameFile DEF IInv
<1>12. NamesMatch'
  <2>1. \A k \in Ref' : k # model' => name2node'[nodes'[k].name] = k
    <3> SUFFICES ASSUME NEW k \in Ref', k # model PROVE name2node'[nodes'[k].name] = k
      BY <1>1
    <3>1. CASE k = n
      BY <3>1, <1>2, <1>3, <1>8
    <3>2. CASE k \in Ref /\ k # n
      <4>1. name2node[nodes[k].name] = k /\ nodes[k].name # s
        BY <3>2, <1>4 DEF IInv, NamesMatch
      <4> QED
        BY <3>2, <4>1, <1>2, <1>3, <1>6, <1>7
    <3> QED
      BY <3>1, <3>2, <1>5
  <2>2. \A t \in Name : name2node'[t] # NoNode => nodes'[name2node'[t]].name = t
    <3> SUFFICES ASSUME NEW t \in Name, name2node'[t] # NoNode
                 PROVE  nodes'[name2node'[t]].name = t
      OBVIOUS
    <3>1. CASE t = s
      BY <3>1, <1>2, <1>3, <1>8
    <3>2. CASE t # s
      <4>1. name2node'[t] = name2node[t] /\ name2node[t] \in Ref
        BY <3>2, <1>2, <1>3
      <4> QED
        BY <4>1, <1>7 DEF IInv, NamesMatch
    <3> QED
      BY <3>1, <3>2
  <2> QED
    BY <2>1, <2>2 DEF NamesMatch
<1>13. DeclNodes'
  <2>1. pos' <= Len(nodes') /\ (pos' < Len(file'.decls) => Len(nodes') = pos' /\ read' = {})
    BY <1>1, <1>3, <1>5
  <2>2. \A i \in 1..pos' : nodes'[i].name = file'.decls[i].name
    BY <1>1, <1>3, <1>7 DEF IInv, DeclNodes
  <2>3. \A k \in Ref' : IF k <= pos' THEN nodes'[k].leaf = (file'.decls[k].kind = "input")
                        ELSE nodes'[k].name \in read' /\ ~nodes'[k].leaf
    <3> SUFFICES ASSUME NEW k \in Ref'
                 PROVE  IF k <= pos THEN nodes'[k].leaf = (file.decls[k].kind = "input")
                        ELSE nodes'[k].name \in read' /\ ~nodes'[k].leaf
      BY <1>1
    <3>1. CASE k \in Ref
      BY <3>1, <1>1, <1>7 DEF IInv, DeclNodes
    <3>2. CASE k \notin Ref
      <4>1. k = n /\ n = NewRef
        BY <3>2, <1>4, <1>5
      <4>2. ~(k <= pos)
        BY <4>1, <1>3, <1>4
      <4> QED
        BY <4>1, <4>2, <1>1, <1>8
    <3> QED
      BY <3>1, <3>2
  <2> QED
    BY <2>1, <2>2, <2>3, <1>1, <1>3 DEF DeclNodes
<1>14. InOrder(leaves, "input", file.decls, pos)'
  BY <1>1 DEF IInv
<1>15. InOrder(nodes[model].sources, "output", file.decls, pos)'
  <2>1. nodes'[model'].sources = nodes[model].sources
    BY <1>1, <1>3, <1>4, <1>9
  <2>2. InOrder(nodes[model].sources, "output", file.decls, pos)
    BY <1>3 DEF IInv
  <2> QED
    BY <2>1, <2>2, <1>1
<1>18. \A t \in read \cup {s} : \A i \in DOMAIN file.reads[t] :
          file.reads[t][i] \in Known /\ file.reads[t][i] # s
  <2>1. s \notin Known
    BY <1>1 DEF IInv, TypeOK, LegalFile, Known
  <2>2. \A i \in DOMAIN file.reads[s] : file.reads[s][i] \in Known
    BY <1>1 DEF Range, in
  <2> QED
    BY <2>1, <2>2 DEF IInv, KnownNodes
<1>16. KnownNodes'
  <2>1. \A t \in read : t \in Name /\ t # s
    BY <1>1 DEF IInv, TypeOK, LegalFile
  <2>2. n # NoNode
    BY <1>4, NoNodeAssumption
  <2>3. \A t \in read' : name2node'[t] # NoNode
    BY <2>1, <2>2, <1>1, <1>2, <1>3 DEF IInv, KnownNodes
  <2>4. Known \subseteq Known'
    BY <1>1, SameFile DEF Known
  <2> QED
    BY <2>3, <2>4, <1>1, <1>18 DEF KnownNodes
<1>17. Blocks'
  <2> DEFINE now(t) == [i \in DOMAIN file.reads[t] |-> name2node'[file.reads[t][i]]]
  <2>1. \A t \in read \cup {s} : now(t) = BlockSources(t)
    <3> SUFFICES ASSUME NEW t \in read \cup {s}
                 PROVE  \A i \in DOMAIN file.reads[t] :
                            name2node'[file.reads[t][i]] = name2node[file.reads[t][i]]
      BY DEF BlockSources
    <3>1. \A i \in DOMAIN file.reads[t] : file.reads[t][i] \in Name /\ file.reads[t][i] # s
      BY <1>1, <1>18, KnownHaveNodes
    <3> QED
      BY <3>1, <1>2, <1>3
  <2>2. ASSUME NEW k \in Ref', k # 1
        PROVE  LET t == nodes'[k].name
               IN  IF t \in read \cup {s}
                   THEN /\ nodes'[k].sources = BlockSources(t)
                        /\ nodes'[k].row = Row(NoRow, file.row[t], Len(file.reads[t]))
                   ELSE nodes'[k].sources = <<>> /\ nodes'[k].row = NoRow
    <3>1. CASE k = n
      BY <3>1, <1>8 DEF row, sources, in
    <3>2. CASE k # n
      <4>1. k \in Ref /\ nodes[k].name # s
        BY <2>2, <3>2, <1>3, <1>4, <1>5 DEF IInv, NamesMatch
      <4>2. LET t == nodes[k].name
            IN  IF t \in read
                THEN /\ nodes[k].sources = BlockSources(t)
                     /\ nodes[k].row = Row(NoRow, file.row[t], Len(file.reads[t]))
                ELSE nodes[k].sources = <<>> /\ nodes[k].row = NoRow
        BY <2>2, <4>1, <1>3 DEF IInv, Blocks
      <4> QED
        BY <3>2, <4>1, <4>2, <1>9
    <3> QED
      BY <3>1, <3>2
  <2> HIDE DEF now
  <2>3. ASSUME NEW k \in Ref', k # 1
        PROVE  LET t == nodes'[k].name
               IN  IF t \in read \cup {s}
                   THEN /\ nodes'[k].sources = now(t)
                        /\ nodes'[k].row = Row(NoRow, file.row[t], Len(file.reads[t]))
                   ELSE nodes'[k].sources = <<>> /\ nodes'[k].row = NoRow
    BY <2>1, <2>2, <2>3
  <2> QED
    BY <2>3, <1>1, <1>3 DEF Blocks, BlockSources, NoRow, Row, now
<1> QED
  BY <1>10, <1>11, <1>12, <1>13, <1>14, <1>15, <1>16, <1>17 DEF IInv

(***************************************************************************)
(* When the names declared are distinct, the invariant holds whatever      *)
(* order the parser reports the blocks in.                                 *)
(***************************************************************************)
THEOREM ReaderInvariance ==
  ASSUME \A f \in Files : DistinctNames(f)
  PROVE  Spec => []IInv
<1>1. Init => IInv
  BY InitIInv
<1>2. IInv /\ [Next]_vars => IInv'
  <2> SUFFICES ASSUME IInv, [Next]_vars PROVE IInv'
    OBVIOUS
  <2>1. CASE \E name \in Name : OnModel(name)
    BY <2>1, OnModelPreserves
  <2>2. CASE \E name \in Name : OnInput(name)
    BY <2>2, OnInputPreserves
  <2>3. CASE \E name \in Name : OnOutput(name)
    BY <2>3, OnOutputPreserves
  <2>4. CASE \E s \in Name : OnGate(s)
    BY <2>4, OnGatePreserves
  <2>5. CASE UNCHANGED vars
    <3>1. /\ file' = file /\ pos' = pos /\ read' = read /\ nodes' = nodes
          /\ name2node' = name2node /\ leaves' = leaves /\ model' = model
      BY <2>5 DEF vars
    <3>2. TypeOK' /\ DistinctNames(file)'
      BY <3>1, SameFile DEF IInv, TypeOK, NodeRecord, Ref
    <3>3. NamesMatch' /\ DeclNodes'
      BY <3>1 DEF IInv, NamesMatch, DeclNodes, Ref
    <3>4. KnownNodes'
      BY <3>1, SameFile DEF IInv, KnownNodes, Known
    <3>5. Blocks'
      BY <3>1 DEF IInv, Blocks, BlockSources, Ref
    <3> QED
      BY <3>1, <3>2, <3>3, <3>4, <3>5 DEF IInv
  <2> QED
    BY <2>1, <2>2, <2>3, <2>4, <2>5 DEF Next, Callback, Return
<1> QED
  BY <1>1, <1>2, PTL DEF Spec

-----------------------------------------------------------------------------
(* What has been read                                                      *)

\* In the end every node but the model's is an input or the node of a block.
LEMMA InputOrBlock ==
  ASSUME IInv, Done, NEW n \in Ref, n # model
  PROVE  LET s == nodes[n].name
         IN  \/ /\ nodes[n].leaf /\ s \in Declared(file, "input")
                /\ nodes[n].sources = <<>> /\ nodes[n].row = NoRow
             \/ /\ ~nodes[n].leaf /\ s \in Driven(file)
                /\ nodes[n].sources = BlockSources(s)
                /\ nodes[n].row = Row(NoRow, file.row[s], Len(file.reads[s]))
<1> DEFINE s == nodes[n].name
<1>1. pos = Len(file.decls) /\ read = Driven(file)
  BY DEF Done
<1>2. file.decls \in Seq(Decl) /\ DOMAIN file.decls = 1..pos /\ pos \in Nat \ {0}
  <2>1. file.decls \in Seq(Decl) /\ file.decls # <<>>
    BY DEF IInv, TypeOK, LegalFile
  <2> QED
    BY <2>1, <1>1
<1>3. n \in Nat \ {0} /\ nodes[n] \in NodeRecord /\ model = 1
  BY <1>2, NodesTyped DEF IInv, TypeOK, Ref, DeclNodes
<1>4. IF s \in Driven(file)
      THEN nodes[n].sources = BlockSources(s) /\ nodes[n].row = Row(NoRow, file.row[s], Len(file.reads[s]))
      ELSE nodes[n].sources = <<>> /\ nodes[n].row = NoRow
  BY <1>1 DEF IInv, Blocks
<1>5. Driven(file) \cap Declared(file, "input") = {}
  BY DEF IInv, TypeOK, LegalFile
<1>6. CASE n <= pos
  <2>1. n \in DOMAIN file.decls /\ file.decls[n].name = s /\ file.decls[n] \in Decl
    BY <1>2, <1>3, <1>6 DEF IInv, DeclNodes
  <2>2. nodes[n].leaf = (file.decls[n].kind = "input")
    BY <1>6 DEF IInv, DeclNodes
  <2>3. file.decls[n].kind \in {"input", "output"}
    BY <2>1, <1>3 DEF IInv, TypeOK, LegalFile, Decl
  <2>4. CASE file.decls[n].kind = "input"
    <3>1. s \in Declared(file, "input")
      BY <2>1, <2>4 DEF Declared
    <3> QED
      BY <3>1, <2>2, <2>4, <1>3, <1>4, <1>5 DEF NodeRecord
  <2>5. CASE file.decls[n].kind = "output"
    <3>1. s \in Declared(file, "output")
      BY <2>1, <2>5 DEF Declared
    <3>2. s \notin Declared(file, "input")
      <4> SUFFICES ASSUME NEW j \in DOMAIN file.decls, file.decls[j].kind = "input",
                          file.decls[j].name = s
                   PROVE  FALSE
        BY DEF Declared
      <4>1. j = n
        <5>1. j # 1 /\ n # 1
          BY <1>3 DEF IInv, TypeOK, LegalFile
        <5> QED
          BY <5>1, <2>1 DEF IInv, DistinctNames
      <4> QED
        BY <4>1, <2>5
    <3>3. s \in Driven(file)
      BY <3>1, <3>2 DEF IInv, TypeOK, LegalFile
    <3>4. ~nodes[n].leaf
      BY <2>2, <2>5
    <3> QED
      BY <3>3, <3>4, <1>4
  <2> QED
    BY <2>3, <2>4, <2>5
<1>7. CASE ~(n <= pos)
  <2>1. s \in Driven(file) /\ ~nodes[n].leaf
    BY <1>1, <1>7 DEF IInv, DeclNodes
  <2> QED
    BY <2>1, <1>4
<1> QED
  BY <1>6, <1>7

\* A block's sources are nodes of the signals it reads.
LEMMA SourcesNamed ==
  ASSUME IInv, Done, NEW s \in Driven(file)
  PROVE  /\ DOMAIN BlockSources(s) = DOMAIN file.reads[s]
         /\ BlockSources(s) \in Seq(Ref \ {model})
         /\ Len(BlockSources(s)) = Len(file.reads[s])
         /\ \A i \in DOMAIN file.reads[s] :
                BlockSources(s)[i] \in Ref \ {model} /\ nodes[BlockSources(s)[i]].name = file.reads[s][i]
<1>1. pos = Len(file.decls) /\ s \in read
  BY DEF Done
<1>2. \A i \in DOMAIN file.reads[s] : file.reads[s][i] \in Known
  BY <1>1 DEF IInv, KnownNodes
<1>3. \A i \in DOMAIN file.reads[s] :
          /\ name2node[file.reads[s][i]] \in Ref \ {model}
          /\ nodes[name2node[file.reads[s][i]]].name = file.reads[s][i]
  BY <1>1, <1>2, KnownHaveNodes
<1>4. DOMAIN file.reads[s] = 1..Len(file.reads[s]) /\ Len(file.reads[s]) \in Nat
  BY DEF IInv, TypeOK, LegalFile
<1>5. BlockSources(s) \in [1..Len(file.reads[s]) -> Ref \ {model}]
  BY <1>3, <1>4 DEF BlockSources
<1>6. BlockSources(s) \in Seq(Ref \ {model}) /\ Len(BlockSources(s)) = Len(file.reads[s])
  BY <1>4, <1>5, SeqOfFunction
<1> QED
  BY <1>3, <1>6 DEF BlockSources

\* The model's sources are nodes of declared outputs.
LEMMA OutputsNamed ==
  ASSUME IInv, Done
  PROVE  /\ pos = Len(file.decls) /\ DOMAIN file.decls = 1..pos /\ model = 1 /\ model \in Ref
         /\ 1 \in 1..pos
         /\ \A n \in 1..pos : n \in Ref /\ nodes[n].name = file.decls[n].name
         /\ InOrder(nodes[model].sources, "output", file.decls, pos)
         /\ InOrder(leaves, "input", file.decls, pos)
         /\ nodes[model].sources \in Seq(Ref) /\ leaves \in Seq(Ref)
<1>1. pos = Len(file.decls)
  BY DEF Done
<1>2. file.decls \in Seq(Decl) /\ DOMAIN file.decls = 1..pos /\ pos \in Nat \ {0}
  <2>1. file.decls \in Seq(Decl) /\ file.decls # <<>>
    BY DEF IInv, TypeOK, LegalFile
  <2> QED
    BY <2>1, <1>1
<1>3. Ref = 1..Len(nodes) /\ Len(nodes) \in Nat /\ pos <= Len(nodes) /\ model = 1 /\ leaves \in Seq(Ref)
  BY <1>2 DEF IInv, TypeOK, Ref, DeclNodes
<1>4. model \in Ref
  BY <1>2, <1>3
<1>5. nodes[model].sources \in Seq(Ref)
  BY <1>4, NodesTyped DEF IInv, TypeOK
<1>6. \A n \in 1..pos : n \in Ref /\ nodes[n].name = file.decls[n].name
  BY <1>2, <1>3 DEF IInv, DeclNodes
<1> QED
  BY <1>1, <1>2, <1>3, <1>4, <1>5, <1>6 DEF IInv

\* When the reader is done, its netlist is well-formed.
LEMMA DagIsWellFormed ==
  ASSUME IInv, Done
  PROVE  N!WellFormed(Dag)
<1> DEFINE Gates == Ref \ {model}
           src(n) == nodes[n].sources
           name(n) == nodes[n].name
<1>1. \A n \in Ref : nodes[n] \in NodeRecord /\ name(n) \in Name /\ src(n) \in Seq(Ref)
  BY NodesTyped DEF IInv, TypeOK
<1>2. model \in Ref /\ model = 1 /\ N!Vertex = Ref
  BY OutputsNamed DEF N!Vertex
<1>3. /\ N!Gate = Gate /\ N!Bit = Bit
      /\ \A g, a : N!UnaryOut(g, a) = UnaryOut(g, a)
      /\ \A g, a, b : N!GateOut(g, a, b) = GateOut(g, a, b)
  BY DEF N!Gate, N!Bit, N!UnaryOut, N!GateOut, N!Truth, Gate, Bit, UnaryOut, GateOut, Truth
<1>4. \A n \in Gates : src(n) \in Seq(Gates)
  <2> SUFFICES ASSUME NEW n \in Gates PROVE src(n) \in Seq(Gates)
    OBVIOUS
  <2>1. CASE src(n) = <<>>
    BY <2>1
  <2>2. CASE src(n) = BlockSources(name(n)) /\ name(n) \in Driven(file)
    BY <2>2, SourcesNamed
  <2> QED
    BY <2>1, <2>2, InputOrBlock
<1>5. src(model) \in Seq(Gates) /\ src(model) # <<>>
  <2>1. \A i \in DOMAIN src(model) : src(model)[i] \in 1..pos /\ file.decls[src(model)[i]].kind = "output"
    BY OutputsNamed DEF InOrder
  <2>2. file.decls[1].kind = "model" /\ Declared(file, "output") # {}
    BY OutputsNamed DEF IInv, TypeOK, LegalFile
  <2>3. \A i \in DOMAIN src(model) : src(model)[i] \in Gates
    BY <2>1, <2>2, <1>2, OutputsNamed
  <2>4. src(model) \in Seq(Gates)
    <3>1. src(model) \in Seq(Ref) /\ DOMAIN src(model) = 1..Len(src(model))
      BY OutputsNamed
    <3> QED
      BY <3>1, <2>3, SeqByElements
  <2>5. PICK j \in DOMAIN file.decls : file.decls[j].kind = "output"
    BY <2>2 DEF Declared
  <2>6. \E i \in DOMAIN src(model) : src(model)[i] = j
    BY <2>5, OutputsNamed DEF InOrder
  <2> QED
    BY <2>4, <2>6
<1>6. \A n \in Gates : nodes[n].row \in Gate
  BY <1>1 DEF NodeRecord
<1>7. \A n \in Gates : file.fn[name(n)] \in [Assign -> Bit]
  BY <1>1 DEF IInv, TypeOK, LegalFile
<1> DEFINE rank(n) == IF n = model THEN file.top ELSE file.rank[name(n)]
<1>8. \A n \in Ref : rank(n) \in Nat
  <2>1. \A n \in Ref : file.rank[name(n)] \in 0..(file.top - 1) /\ file.top \in Nat
    BY <1>1 DEF IInv, TypeOK, LegalFile
  <2> QED
    BY <2>1
<1>9. {n \in Ref : nodes[n].leaf} \in SUBSET Gates
  <2>1. nodes[model].leaf = (file.decls[1].kind = "input") /\ file.decls[1].kind = "model"
    BY OutputsNamed DEF IInv, TypeOK, LegalFile, DeclNodes
  <2> QED
    BY <2>1, <1>2
<1>10. \A n \in Gates : Len(src(n)) \in 0..2 /\ (nodes[n].leaf => src(n) = <<>>)
  <2> SUFFICES ASSUME NEW n \in Gates
               PROVE  Len(src(n)) \in 0..2 /\ (nodes[n].leaf => src(n) = <<>>)
    OBVIOUS
  <2>1. CASE src(n) = <<>>
    BY <2>1
  <2>2. CASE src(n) = BlockSources(name(n)) /\ name(n) \in Driven(file) /\ ~nodes[n].leaf
    <3>1. Len(src(n)) = Len(file.reads[name(n)])
      BY <2>2, SourcesNamed
    <3> QED
      BY <3>1, <2>2 DEF IInv, TypeOK, LegalFile
  <2> QED
    BY <2>1, <2>2, InputOrBlock
<1>11. ASSUME NEW n \in Gates, ~nodes[n].leaf, NEW x \in Assign
       PROVE  file.fn[name(n)][x] =
                 CASE Len(src(n)) = 0 -> nodes[n].row.out
                   [] Len(src(n)) = 1 -> UnaryOut(nodes[n].row, file.fn[name(src(n)[1])][x])
                   [] OTHER -> GateOut(nodes[n].row, file.fn[name(src(n)[1])][x],
                                                     file.fn[name(src(n)[2])][x])
  <2> DEFINE s == name(n)
             in == file.reads[s]
             row == file.row[s]
  <2>1. s \in Driven(file) /\ src(n) = BlockSources(s) /\ nodes[n].row = Row(NoRow, row, Len(in))
    BY <1>11, InputOrBlock
  <2>2. Len(src(n)) = Len(in) /\ Len(in) \in 0..2 /\ DOMAIN in = 1..Len(in)
        /\ \A i \in DOMAIN in : name(src(n)[i]) = in[i]
    <3>1. Len(in) \in 0..2 /\ DOMAIN in = 1..Len(in)
      BY <2>1 DEF IInv, TypeOK, LegalFile
    <3> QED
      BY <2>1, <3>1, SourcesNamed
  <2>3. file.fn[s][x] =
           CASE Len(in) = 0 -> row.out
             [] Len(in) = 1 -> UnaryOut(row, file.fn[in[1]][x])
             [] OTHER -> GateOut(row, file.fn[in[1]][x], file.fn[in[2]][x])
    BY <2>1 DEF IInv, TypeOK, LegalFile, RowOut
  <2>4. nodes[n].row.out = row.out /\ (Len(in) >= 1 => nodes[n].row.a = row.a)
        /\ (Len(in) = 2 => nodes[n].row.b = row.b)
    BY <2>1 DEF Row
  <2> HIDE DEF in, row
  <2>5. CASE Len(in) = 0
    <3>1. file.fn[s][x] = row.out
      BY <2>3, <2>5
    <3> QED
      BY <3>1, <2>2, <2>4, <2>5
  <2>6. CASE Len(in) = 1
    <3>1. file.fn[s][x] = UnaryOut(row, file.fn[in[1]][x])
      BY <2>3, <2>6
    <3>2. name(src(n)[1]) = in[1]
      BY <2>2, <2>6
    <3>3. UnaryOut(nodes[n].row, file.fn[in[1]][x]) = UnaryOut(row, file.fn[in[1]][x])
      BY <2>4, <2>6 DEF UnaryOut
    <3>4. file.fn[name(n)][x] = UnaryOut(nodes[n].row, file.fn[name(src(n)[1])][x])
      BY <3>1, <3>2, <3>3
    <3>5. Len(src(n)) = 1
      BY <2>2, <2>6
    <3> HIDE DEF src, name
    <3> QED
      BY <3>4, <3>5
  <2>7. CASE Len(in) = 2
    <3>1. file.fn[s][x] = GateOut(row, file.fn[in[1]][x], file.fn[in[2]][x])
      BY <2>3, <2>7
    <3>2. name(src(n)[1]) = in[1] /\ name(src(n)[2]) = in[2]
      BY <2>2, <2>7
    <3>3. GateOut(nodes[n].row, file.fn[in[1]][x], file.fn[in[2]][x])
            = GateOut(row, file.fn[in[1]][x], file.fn[in[2]][x])
      BY <2>4, <2>7 DEF GateOut
    <3>4. file.fn[name(n)][x] = GateOut(nodes[n].row, file.fn[name(src(n)[1])][x],
                                               file.fn[name(src(n)[2])][x])
      BY <3>1, <3>2, <3>3
    <3>5. Len(src(n)) = 2
      BY <2>2, <2>7
    <3> HIDE DEF src, name
    <3> QED
      BY <3>4, <3>5
  <2>8. Len(in) = 0 \/ Len(in) = 1 \/ Len(in) = 2
    BY <2>2
  <2> HIDE DEF s, src, name
  <2> QED
    BY <2>5, <2>6, <2>7, <2>8
<1>12. \A n \in Ref : \A i \in DOMAIN src(n) : rank(src(n)[i]) < rank(n)
  <2> SUFFICES ASSUME NEW n \in Ref, NEW i \in DOMAIN src(n)
               PROVE  rank(src(n)[i]) < rank(n)
    OBVIOUS
  <2>1. src(n)[i] \in Gates
    BY <1>4, <1>5
  <2>2. rank(src(n)[i]) = file.rank[name(src(n)[i])]
    BY <2>1
  <2>3. CASE n = model
    <3>1. file.rank[name(src(n)[i])] \in 0..(file.top - 1) /\ file.top \in Nat
      BY <2>1, <1>1 DEF IInv, TypeOK, LegalFile
    <3>2. rank(n) = file.top
      BY <2>3
    <3>3. file.rank[name(src(n)[i])] < file.top
      <4> HIDE DEF src, name
      <4> QED
        BY <3>1
    <3> QED
      BY <3>2, <3>3, <2>2
  <2>4. CASE n # model
    <3>1. name(n) \in Driven(file) /\ src(n) = BlockSources(name(n))
      BY <2>4, InputOrBlock
    <3>2. i \in DOMAIN file.reads[name(n)] /\ name(src(n)[i]) = file.reads[name(n)][i]
      BY <3>1, SourcesNamed
    <3>3. file.rank[name(src(n)[i])] < file.rank[name(n)]
      BY <3>1, <3>2 DEF IInv, TypeOK, LegalFile
    <3> QED
      BY <3>3, <2>2, <2>4
  <2> QED
    BY <2>3, <2>4
<1>13. /\ Dag.leaf \in SUBSET Gates /\ DOMAIN Dag.src = Ref /\ DOMAIN Dag.gate = Gates
       /\ \A n \in Ref : Dag.src[n] = src(n) /\ (n \in Dag.leaf <=> nodes[n].leaf)
       /\ \A n \in Gates : Dag.gate[n] = nodes[n].row /\ Dag.fn[n] = file.fn[name(n)]
       /\ \A n \in Ref : Dag.rank[n] = rank(n)
  BY <1>1, <1>9 DEF Dag
<1>14. /\ Dag.src \in [Ref -> Seq(Gates)]
       /\ Dag.gate \in [Gates -> Gate]
       /\ Dag.fn \in [Gates -> [Assign -> Bit]]
       /\ Dag.rank \in [Ref -> Nat]
  BY <1>4, <1>5, <1>6, <1>7, <1>8 DEF Dag
<1>15. \A n \in Gates :
         /\ Len(Dag.src[n]) \in 0..2
         /\ n \in Dag.leaf => Dag.src[n] = <<>>
  BY <1>10, <1>13
<1>16. ASSUME NEW n \in Gates, n \notin Dag.leaf, NEW x \in Assign
       PROVE  Dag.fn[n][x] =
                CASE Len(Dag.src[n]) = 0 -> Dag.gate[n].out
                  [] Len(Dag.src[n]) = 1 -> UnaryOut(Dag.gate[n], Dag.fn[Dag.src[n][1]][x])
                  [] OTHER -> GateOut(Dag.gate[n], Dag.fn[Dag.src[n][1]][x], Dag.fn[Dag.src[n][2]][x])
  <2>1. Dag.src[n] = src(n) /\ Dag.gate[n] = nodes[n].row /\ ~nodes[n].leaf
        /\ Dag.fn[n] = file.fn[name(n)]
    BY <1>13, <1>16
  <2>2. \A i \in 1..Len(src(n)) : Dag.fn[src(n)[i]] = file.fn[name(src(n)[i])]
    <3>1. \A i \in 1..Len(src(n)) : src(n)[i] \in Gates
      BY <1>4
    <3> QED
      BY <3>1, <1>13
  <2>3. Len(src(n)) \in 0..2
    BY <1>10
  <2> HIDE DEF src, name
  <2>4. file.fn[name(n)][x] =
           CASE Len(src(n)) = 0 -> nodes[n].row.out
             [] Len(src(n)) = 1 -> UnaryOut(nodes[n].row, file.fn[name(src(n)[1])][x])
             [] OTHER -> GateOut(nodes[n].row, file.fn[name(src(n)[1])][x],
                                               file.fn[name(src(n)[2])][x])
    BY <2>1, <1>11
  <2>5. CASE Len(src(n)) = 0
    BY <2>1, <2>4, <2>5
  <2>6. CASE Len(src(n)) = 1
    BY <2>1, <2>2, <2>4, <2>6
  <2>7. CASE Len(src(n)) = 2
    BY <2>1, <2>2, <2>4, <2>7
  <2> QED
    BY <2>3, <2>5, <2>6, <2>7
<1>17. \A p \in Ref : \A i \in DOMAIN Dag.src[p] : Dag.rank[Dag.src[p][i]] < Dag.rank[p]
  <2> SUFFICES ASSUME NEW p \in Ref, NEW i \in DOMAIN Dag.src[p]
               PROVE  Dag.rank[Dag.src[p][i]] < Dag.rank[p]
    OBVIOUS
  <2>1. Dag.src[p] = src(p) /\ i \in DOMAIN src(p) /\ src(p)[i] \in Ref
    BY <1>1, <1>13
  <2>2. rank(src(p)[i]) < rank(p)
    BY <2>1, <1>12
  <2>3. Dag.rank[src(p)[i]] = rank(src(p)[i]) /\ Dag.rank[p] = rank(p)
    BY <2>1 DEF Dag
  <2> HIDE DEF src, name, rank
  <2> QED
    BY <2>1, <2>2, <2>3
<1> HIDE DEF src, name, rank, Gates
<1> QED
  <2> DEFINE d == Dag
  <2>1. d.leaf \in SUBSET Gates /\ d.src \in [Ref -> Seq(Gates)] /\ d.src[model] # <<>>
        /\ d.gate \in [Gates -> N!Gate] /\ d.fn \in [Gates -> [Assign -> N!Bit]]
        /\ d.rank \in [Ref -> Nat]
    BY <1>2, <1>3, <1>5, <1>13, <1>14
  <2>2. \A n \in Gates :
          /\ Len(d.src[n]) \in 0..2
          /\ n \in d.leaf => d.src[n] = <<>>
          /\ n \notin d.leaf =>
              \A x \in Assign : d.fn[n][x] =
                CASE Len(d.src[n]) = 0 -> d.gate[n].out
                  [] Len(d.src[n]) = 1 -> N!UnaryOut(d.gate[n], d.fn[d.src[n][1]][x])
                  [] OTHER -> N!GateOut(d.gate[n], d.fn[d.src[n][1]][x], d.fn[d.src[n][2]][x])
    <3> HIDE DEF d
    <3> QED
      BY <1>3, <1>15, <1>16 DEF d
  <2> HIDE DEF d
  <2> QED
    BY <1>2, <1>17, <2>1, <2>2 DEF N!WellFormed, Gates, d

\* Nodes that are, in order, the declarations of a kind bear their names in order.
LEMMA ListsFromOrder ==
  ASSUME IInv, Done, NEW kind, NEW refs \in Seq(Ref), InOrder(refs, kind, file.decls, pos)
  PROVE  Lists(refs, kind)
<1> DEFINE decl(i) == [kind |-> kind, name |-> nodes[refs[i]].name]
<1>1. \A i \in DOMAIN refs : refs[i] \in DOMAIN file.decls /\ file.decls[refs[i]] = decl(i)
  <2> SUFFICES ASSUME NEW i \in DOMAIN refs
               PROVE  refs[i] \in DOMAIN file.decls /\ file.decls[refs[i]] = decl(i)
    OBVIOUS
  <2>1. refs[i] \in 1..pos /\ file.decls[refs[i]].kind = kind
    BY DEF InOrder
  <2>2. refs[i] \in DOMAIN file.decls /\ nodes[refs[i]].name = file.decls[refs[i]].name
    BY <2>1, OutputsNamed
  <2>3. file.decls[refs[i]] \in Decl
    BY <2>2 DEF IInv, TypeOK, LegalFile
  <2> QED
    BY <2>1, <2>2, <2>3 DEF Decl
<1>2. \A k \in DOMAIN file.decls : file.decls[k].kind = kind => \E i \in DOMAIN refs : refs[i] = k
  BY OutputsNamed DEF InOrder
<1>3. {decl(i).name : i \in DOMAIN refs} = Declared(file, kind)
  <2>1. ASSUME NEW i \in DOMAIN refs PROVE decl(i).name \in Declared(file, kind)
    <3>1. refs[i] \in DOMAIN file.decls /\ file.decls[refs[i]].kind = kind
          /\ file.decls[refs[i]].name = nodes[refs[i]].name
      <4>1. refs[i] \in 1..pos /\ file.decls[refs[i]].kind = kind
        BY <2>1 DEF InOrder
      <4> QED
        BY <4>1, OutputsNamed
    <3>2. decl(i).name = nodes[refs[i]].name
      OBVIOUS
    <3> HIDE DEF decl
    <3> QED
      BY <3>1, <3>2 DEF Declared
  <2>2. ASSUME NEW t \in Declared(file, kind) PROVE \E i \in DOMAIN refs : decl(i).name = t
    <3>1. PICK k \in DOMAIN file.decls : file.decls[k].kind = kind /\ file.decls[k].name = t
      BY DEF Declared
    <3>2. PICK i \in DOMAIN refs : refs[i] = k
      BY <3>1, <1>2
    <3> QED
      BY <3>1, <3>2, <1>1
  <2> QED
    BY <2>1, <2>2
<1>4. \A i, j \in DOMAIN refs : i < j =>
          \E k, l \in DOMAIN file.decls :
              k < l /\ file.decls[k] = decl(i) /\ file.decls[l] = decl(j)
  BY <1>1 DEF InOrder
<1> QED
  BY <1>3, <1>4 DEF Lists

-----------------------------------------------------------------------------
(* The theorems                                                            *)

(***************************************************************************)
(* Every variable has its type: references lead to nodes.                  *)
(***************************************************************************)
THEOREM ReaderTypeCorrect ==
  ASSUME \A f \in Files : DistinctNames(f)
  PROVE  Spec => []TypeOK
<1>1. IInv => TypeOK
  BY DEF IInv
<1> QED
  BY <1>1, ReaderInvariance, PTL

(***************************************************************************)
(* A user of a node refers to the node its name stands for.                *)
(***************************************************************************)
THEOREM ReaderNoStaleNode ==
  ASSUME \A f \in Files : DistinctNames(f)
  PROVE  Spec => []NoStaleNode
<1>1. IInv => NoStaleNode
  <2> SUFFICES ASSUME IInv, NEW n \in Range(leaves) \cup UNION {Range(nodes[k].sources) : k \in Ref}
               PROVE  name2node[nodes[n].name] = n
    BY DEF NoStaleNode
  <2>1. pos \in Nat /\ (pos > 0 => model = 1) /\ file.decls \in Seq(Decl)
        /\ pos <= Len(file.decls) /\ nodes \in Seq(NodeRecord) /\ leaves \in Seq(Ref)
        /\ Ref \subseteq Nat
    BY DEF IInv, TypeOK, LegalFile, DeclNodes, Ref
  <2>2. ASSUME NEW refs \in Seq(Ref), NEW kind \in {"input", "output"},
               InOrder(refs, kind, file.decls, pos), NEW i \in DOMAIN refs
        PROVE  refs[i] \in Ref \ {model}
    <3>1. refs[i] \in Ref /\ refs[i] \in 1..pos /\ file.decls[refs[i]].kind = kind
      BY <2>2 DEF InOrder
    <3>2. refs[i] # 1 /\ pos > 0
      BY <3>1, <2>1 DEF IInv, TypeOK, LegalFile
    <3> QED
      BY <3>1, <3>2, <2>1
  <2>3. CASE n \in Range(leaves)
    <3>1. PICK i \in DOMAIN leaves : leaves[i] = n
      BY <2>3 DEF Range
    <3>2. InOrder(leaves, "input", file.decls, pos)
      BY DEF IInv
    <3>3. n \in Ref \ {model}
      BY <3>1, <3>2, <2>1, <2>2
    <3> QED
      BY <3>3 DEF IInv, NamesMatch
  <2>4. ASSUME NEW k \in Ref, n \in Range(nodes[k].sources) PROVE name2node[nodes[n].name] = n
    <3>1. PICK i \in DOMAIN nodes[k].sources : nodes[k].sources[i] = n
      BY <2>4 DEF Range
    <3>2. nodes[k].sources \in Seq(Ref)
      BY <2>1, NodesTyped
    <3>3. CASE k = model
      <4>1. pos > 0
        BY <3>3, <2>1, NoNodeAssumption DEF IInv, TypeOK
      <4>2. InOrder(nodes[k].sources, "output", file.decls, pos)
        BY <4>1, <3>3 DEF IInv
      <4>3. n \in Ref \ {model}
        BY <4>2, <3>1, <3>2, <2>2
      <4> QED
        BY <4>3 DEF IInv, NamesMatch
    <3>4. CASE k # model
      <4> DEFINE s == nodes[k].name
      <4>1. s \in read /\ nodes[k].sources = BlockSources(s)
        BY <3>1, <3>4 DEF IInv, Blocks
      <4> HIDE DEF s
      <4>2. pos = Len(file.decls)
        BY <4>1, <2>1 DEF IInv, DeclNodes
      <4>3. i \in DOMAIN file.reads[s] /\ n = name2node[file.reads[s][i]]
        BY <3>1, <4>1 DEF BlockSources
      <4>4. file.reads[s][i] \in Known
        BY <4>1, <4>3 DEF IInv, KnownNodes
      <4>5. n \in Ref \ {model}
        BY <4>2, <4>3, <4>4, KnownHaveNodes
      <4> QED
        BY <4>5 DEF IInv, NamesMatch
    <3> QED
      BY <3>3, <3>4
  <2> QED
    BY <2>3, <2>4
<1> QED
  BY <1>1, ReaderInvariance, PTL

(***************************************************************************)
(* The reader delivers a well-formed netlist that computes what the file   *)
(* says: what TechMap assumes of Netlists.                                 *)
(***************************************************************************)
THEOREM ReaderCorrect ==
  ASSUME \A f \in Files : DistinctNames(f)
  PROVE  Spec => []ReadsTheFile
<1>1. IInv => ReadsTheFile
  <2> SUFFICES ASSUME IInv, Done
               PROVE  /\ N!WellFormed(Dag)
                      /\ Lists(leaves, "input")
                      /\ Lists(nodes[model].sources, "output")
    BY DEF ReadsTheFile
  <2> QED
    BY DagIsWellFormed, ListsFromOrder, OutputsNamed
<1> QED
  BY <1>1, ReaderInvariance, PTL

-----------------------------------------------------------------------------
(* Fan-outs                                                                *)

\* The uses of a node by gates: the gate and the place among its sources.
UsesOf(n) == {e \in (Ref \ {model}) \X {1, 2} :
                 e[2] \in DOMAIN nodes[e[1]].sources /\ nodes[e[1]].sources[e[2]] = n}

\* What FanOutCounts says, without the netlist.
Counted == \A n \in Ref \ {model} : nodes[n].fanOut = Cardinality(UsesOf(n))

\* The two are the same.
LEMMA CountedIsFanOut == FanOutCounts <=> Counted
<1>1. \A k \in Ref : Dag.src[k] = nodes[k].sources
  BY DEF Dag
<1>2. \A n : N!Uses(Dag, n) = Cardinality(UsesOf(n))
  <2>1. \A n : N!Uses(Dag, n) = Cardinality({e \in (Ref \ {model}) \X {1, 2} :
                  e[2] \in DOMAIN Dag.src[e[1]] /\ Dag.src[e[1]][e[2]] = n})
    BY DEF N!Uses, N!Cardinality, Cardinality
  <2>2. \A n : UsesOf(n) = {e \in (Ref \ {model}) \X {1, 2} :
                  e[2] \in DOMAIN Dag.src[e[1]] /\ Dag.src[e[1]][e[2]] = n}
    BY <1>1 DEF UsesOf
  <2> QED
    BY <2>1, <2>2
<1> QED
  BY <1>2 DEF FanOutCounts, Counted

\* A node has finitely many uses.
LEMMA UsesFinite ==
  ASSUME nodes \in Seq(NodeRecord), NEW n
  PROVE  IsFiniteSet(UsesOf(n))
<1>1. IsFiniteSet(Ref) /\ IsFiniteSet({1, 2})
  <2>1. Len(nodes) \in Nat /\ Ref = 1..Len(nodes)
    BY DEF Ref
  <2>2. IsFiniteSet(Ref)
    BY <2>1, FS_Interval
  <2>3. IsFiniteSet({1}) /\ {1, 2} = {1} \cup {2}
    BY FS_Singleton
  <2>4. IsFiniteSet({1, 2})
    BY <2>3, FS_AddElement
  <2> QED
    BY <2>2, <2>4
<1>2. IsFiniteSet(Ref \X {1, 2})
  BY <1>1, FS_Product
<1>3. UsesOf(n) \in SUBSET (Ref \X {1, 2})
  BY DEF UsesOf
<1> QED
  BY <1>2, <1>3, FS_Subset

\* The places at which a gate uses a node.
Places(n, sources, k) == {<<n, i>> : i \in {j \in DOMAIN sources : sources[j] = k}}

\* They are as many as Count says.
LEMMA PlacesCounted ==
  ASSUME NEW S, NEW sources \in Seq(S), NEW n, NEW k
  PROVE  IsFiniteSet(Places(n, sources, k)) /\ Cardinality(Places(n, sources, k)) = Count(sources, k)
<1> DEFINE I == {j \in DOMAIN sources : sources[j] = k}
           places == {<<n, i>> : i \in I}
           f == [i \in I |-> <<n, i>>]
<1>0. Places(n, sources, k) = places
  BY DEF Places
<1>1. IsFiniteSet(I)
  <2>1. IsFiniteSet(1..Len(sources))
    BY FS_Interval
  <2> QED
    BY <2>1, FS_Subset
<1>2. Count(sources, k) = Cardinality(I)
  BY DEF Count
<1> HIDE DEF I
<1>3. f \in Bijection(I, places)
  <2>1. f \in [I -> places]
    OBVIOUS
  <2>2. \A i, j \in I : f[i] = f[j] => i = j
    OBVIOUS
  <2>3. \A p \in places : \E i \in I : f[i] = p
    OBVIOUS
  <2> QED
    BY <2>1, <2>2, <2>3 DEF Bijection, Injection, Surjection, IsInjective
<1>4. ExistsBijection(I, places)
  BY <1>3 DEF ExistsBijection
<1>5. IsFiniteSet(places) /\ Cardinality(places) = Cardinality(I)
  BY <1>1, <1>4, FS_Bijection
<1> QED
  BY <1>0, <1>2, <1>5

\* A declaration adds a node that nobody uses and that uses nobody.
LEMMA DeclarationCounts ==
  ASSUME IInv, Counted, NEW name \in Name, OnModel(name) \/ OnInput(name) \/ OnOutput(name)
  PROVE  Counted'
<1>1. /\ pos \in Nat /\ pos' = pos + 1 /\ Ref = 1..pos /\ NewRef = pos'
  BY Declaring DEF OnModel, OnInput, OnOutput
<1>2. nodes \in Seq(NodeRecord) /\ Len(nodes) = pos
  <2>1. nodes \in Seq(NodeRecord)
    BY DEF IInv, TypeOK
  <2> QED
    BY <2>1, <1>1 DEF Ref
<1>3. CASE OnModel(name)
  <2>1. pos = 0
    BY <1>1, <1>3 DEF IInv, TypeOK, LegalFile, Reports, OnModel
  <2>2. Ref' = {1} /\ model' = 1
    <3> DEFINE node == NewNode(name, FALSE)
    <3>1. nodes' = Append(nodes, node) /\ model' = NewRef
      BY <1>3 DEF OnModel
    <3> HIDE DEF node
    <3>2. nodes = <<>> /\ nodes' = <<node>>
      BY <3>1, <1>2, <2>1
    <3> QED
      BY <3>1, <3>2, <1>1, <2>1 DEF Ref
  <2> QED
    BY <2>2 DEF Counted
<1>4. CASE OnInput(name) \/ OnOutput(name)
  <2>1. pos > 0 /\ model = 1 /\ model \in Ref /\ model' = model
    <3>1. pos > 0
      BY <1>4, ModelFirst DEF OnInput, OnOutput
    <3> QED
      BY <3>1, <1>4, ModelFirst DEF OnInput, OnOutput
  <2>2. /\ Ref' = Ref \cup {NewRef} /\ NewRef \notin Ref
        /\ nodes'[NewRef].sources = <<>> /\ nodes'[NewRef].fanOut = 0
        /\ \A k \in Ref \ {model} : nodes'[k] = nodes[k]
    <3> DEFINE linked == IF OnInput(name) THEN nodes
                         ELSE [nodes EXCEPT ![model].sources = Append(@, NewRef)]
    <3>1. PICK leaf : nodes' = Append(linked, NewNode(name, leaf))
      BY <1>4 DEF OnInput, OnOutput
    <3>2. /\ linked = [k \in 1..pos |-> linked[k]]
          /\ \A k \in Ref \ {model} : linked[k] = nodes[k]
      <4>1. CASE OnInput(name)
        BY <4>1, <1>1, <1>2 DEF Ref
      <4>2. CASE ~OnInput(name)
        BY <4>2, <1>1, <1>2, <2>1 DEF Ref
      <4> QED
        BY <4>1, <4>2
    <3>3. NewNode(name, leaf).sources = <<>> /\ NewNode(name, leaf).fanOut = 0
      BY DEF NewNode
    <3> HIDE DEF linked
    <3> DEFINE new == NewNode(name, leaf)
    <3>4. new.sources = <<>> /\ new.fanOut = 0 /\ nodes' = Append(linked, new)
      BY <3>1, <3>3
    <3> HIDE DEF new
    <3>5. /\ DOMAIN nodes' = 1..(pos + 1) /\ nodes'[pos + 1] = new
          /\ \A k \in 1..pos : nodes'[k] = linked[k]
      <4> DEFINE S == {linked[k] : k \in 1..pos}
      <4>1. \A k \in 1..pos : linked[k] \in S
        OBVIOUS
      <4> HIDE DEF S
      <4>2. linked \in [1..pos -> S]
        BY <3>2, <4>1
      <4>3. linked \in Seq(S) /\ Len(linked) = pos
        BY <4>2, <1>1, SeqOfFunction
      <4> QED
        BY <4>3, <3>4, <1>1
    <3> QED
      BY <3>2, <3>4, <3>5, <1>1 DEF Ref
  <2>3. \A k : UsesOf(k)' = UsesOf(k)
    <3> TAKE k
    <3> DEFINE new == {e \in (Ref' \ {model}) \X {1, 2} :
                           e[2] \in DOMAIN nodes'[e[1]].sources /\ nodes'[e[1]].sources[e[2]] = k}
    <3>1. UsesOf(k)' = new
      BY <2>1 DEF UsesOf
    <3>2. \A e \in new : e \in UsesOf(k)
      <4> TAKE e \in new
      <4>1. /\ e \in (Ref' \ {model}) \X {1, 2} /\ e[1] \in Ref'
            /\ e[2] \in DOMAIN nodes'[e[1]].sources /\ nodes'[e[1]].sources[e[2]] = k
        OBVIOUS
      <4> HIDE DEF new
      <4>2. e[1] # NewRef
        <5>1. DOMAIN <<>> = {}
          OBVIOUS
        <5> QED
          BY <2>2, <4>1, <5>1
      <4>3. e[1] \in Ref \ {model} /\ e[2] \in {1, 2} /\ e = <<e[1], e[2]>>
        BY <2>2, <4>1, <4>2
      <4>4. nodes'[e[1]] = nodes[e[1]]
        BY <2>2, <4>3
      <4> QED
        BY <4>1, <4>3, <4>4 DEF UsesOf
    <3>3. \A e \in UsesOf(k) : e \in new
      BY <2>1, <2>2 DEF UsesOf
    <3> HIDE DEF new
    <3> QED
      BY <3>1, <3>2, <3>3
  <2>4. UsesOf(NewRef) = {}
    <3>1. ASSUME NEW e \in UsesOf(NewRef) PROVE FALSE
      <4>1. /\ e[1] \in Ref \ {model} /\ e[2] \in DOMAIN nodes[e[1]].sources
            /\ nodes[e[1]].sources[e[2]] = NewRef
        BY DEF UsesOf
      <4>2. nodes[e[1]].sources \in Seq(Ref)
        BY <1>2, <4>1, NodesTyped
      <4>3. nodes[e[1]].sources[e[2]] \in Ref
        BY <4>1, <4>2
      <4> QED
        BY <2>2, <4>1, <4>3
    <3>2. UsesOf(NewRef) = {}
      BY <3>1
    <3> QED
      BY <3>2
  <2>5. Cardinality({}) = 0
    BY FS_EmptySet
  <2>6. ASSUME NEW k \in Ref' \ {model'} PROVE nodes'[k].fanOut = Cardinality(UsesOf(k)')
    <3>1. CASE k = NewRef
      BY <3>1, <2>2, <2>3, <2>4, <2>5
    <3>2. CASE k # NewRef
      <4>1. k \in Ref \ {model}
        BY <2>1, <2>2, <2>6, <3>2
      <4> QED
        BY <4>1, <2>2, <2>3 DEF Counted
    <3> QED
      BY <3>1, <3>2
  <2> QED
    BY <2>6 DEF Counted
<1> QED
  BY <1>3, <1>4

\* A block adds to each node's counter the places at which it uses the node.
LEMMA OnGateCounts ==
  ASSUME IInv, Counted, NEW s \in Name, OnGate(s)
  PROVE  Counted'
<1> DEFINE n == BlockRef(s)
           sources == BlockSources(s)
           places(k) == Places(n, sources, k)
<1>1. /\ pos = Len(file.decls) /\ s \in Driven(file) /\ s \notin read /\ model' = model
  BY DEF OnGate, Reportable
<1>2. /\ sources \in Seq(Ref) /\ DOMAIN sources \subseteq {1, 2}
      /\ Ref' = Ref \cup {n}
      /\ nodes'[n].sources = sources
      /\ \A k \in Ref \ {n} : nodes'[k].sources = nodes[k].sources
  <2>1. DOMAIN sources \subseteq {1, 2}
    <3>1. Len(file.reads[s]) \in 0..2 /\ file.reads[s] \in Seq(Driven(file) \cup Declared(file, "input"))
      BY <1>1 DEF IInv, TypeOK, LegalFile
    <3>2. DOMAIN sources = DOMAIN file.reads[s]
      BY DEF BlockSources
    <3>3. DOMAIN file.reads[s] = 1..Len(file.reads[s])
      BY <3>1
    <3>4. \A m \in 0..2 : 1..m \subseteq {1, 2}
      OBVIOUS
    <3> QED
      BY <3>1, <3>2, <3>3, <3>4
  <2>2. /\ sources \in Seq(Ref) /\ nodes' = [k \in Ref \cup {n} |-> nodes'[k]]
        /\ nodes'[n] = [name |-> s, leaf |-> FALSE, sources |-> sources,
                        fanOut |-> nodes'[n].fanOut,
                        row |-> Row(NoRow, file.row[s], Len(file.reads[s]))]
        /\ \A k \in Ref \ {n} : nodes'[k] =
              [name |-> nodes[k].name, leaf |-> nodes[k].leaf, sources |-> nodes[k].sources,
               fanOut |-> nodes'[k].fanOut, row |-> nodes[k].row]
    BY OnGateNodes
  <2> HIDE DEF n, sources
  <2>3. Ref' = Ref \cup {n}
    BY <2>2 DEF Ref
  <2> QED
    BY <2>1, <2>2, <2>3
<1>3. nodes \in Seq(NodeRecord) /\ NewRef \notin Ref /\ NewRef # model
  <2>1. nodes \in Seq(NodeRecord) /\ file.decls \in Seq(Decl) /\ file.decls # <<>>
    BY DEF IInv, TypeOK, LegalFile
  <2>2. NewRef \notin Ref
    BY <2>1 DEF NewRef, Ref
  <2>3. model \in Ref
    BY <1>1, <2>1 DEF IInv, TypeOK
  <2> QED
    BY <2>1, <2>2, <2>3
<1>4. /\ n \in Ref \cup {NewRef} /\ n # model
      /\ n \in Ref => nodes[n].sources = <<>>
  BY <1>1, <1>3, BlockNode DEF BlockRef
<1>5. /\ \A k \in Ref : nodes'[k].fanOut = nodes[k].fanOut + Count(sources, k)
      /\ n \notin Ref => nodes'[n].fanOut = 0 + Count(sources, n)
  <2> DEFINE in == file.reads[s]
             old(k) == IF k = NewRef THEN NewNode(s, FALSE) ELSE nodes[k]
  <2>1. n = IF name2node[s] = NoNode THEN NewRef ELSE name2node[s]
    BY DEF BlockRef
  <2>2. sources = [i \in DOMAIN in |-> name2node[in[i]]]
    BY DEF BlockSources
  <2> HIDE DEF n, sources
  <2>3. nodes' = [k \in Ref \cup {n} |->
                     [name    |-> IF k = n THEN s ELSE old(k).name,
                      leaf    |-> old(k).leaf,
                      sources |-> IF k # n THEN old(k).sources
                                  ELSE IF in = <<>> THEN <<>> ELSE old(k).sources \o sources,
                      fanOut  |-> old(k).fanOut + Count(sources, k),
                      row     |-> IF k = n THEN Row(old(k).row, file.row[s], Len(in)) ELSE old(k).row]]
    BY <2>1, <2>2 DEF OnGate
  <2>4. \A k \in Ref \cup {n} : nodes'[k].fanOut = old(k).fanOut + Count(sources, k)
    BY <2>3
  <2>5. \A k \in Ref : old(k) = nodes[k]
    BY <1>3
  <2>6. old(NewRef).fanOut = 0
    BY DEF NewNode
  <2> HIDE DEF old
  <2> QED
    BY <2>4, <2>5, <2>6, <1>4
<1>6. \A k : UsesOf(k)' = UsesOf(k) \cup places(k) /\ UsesOf(k) \cap places(k) = {}
  <2> HIDE DEF n, sources
  <2>1. \A k : UsesOf(k)' = {e \in (Ref' \ {model}) \X {1, 2} :
                  e[2] \in DOMAIN nodes'[e[1]].sources /\ nodes'[e[1]].sources[e[2]] = k}
    BY <1>1 DEF UsesOf
  <2>2. ASSUME NEW k, NEW g \in Ref' \ {model}, NEW i \in {1, 2}
        PROVE  <<g, i>> \in UsesOf(k)' <=> <<g, i>> \in UsesOf(k) \cup places(k)
    <3>1. <<g, i>> \in UsesOf(k)' <=> i \in DOMAIN nodes'[g].sources /\ nodes'[g].sources[i] = k
      BY <2>1
    <3>2. <<g, i>> \in UsesOf(k) <=> g \in Ref /\ i \in DOMAIN nodes[g].sources /\ nodes[g].sources[i] = k
      BY DEF UsesOf
    <3>3. <<g, i>> \in places(k) <=> g = n /\ i \in DOMAIN sources /\ sources[i] = k
      BY DEF Places
    <3>4. CASE g = n
      BY <3>1, <3>2, <3>3, <3>4, <1>2, <1>4
    <3>5. CASE g # n
      BY <3>1, <3>2, <3>3, <3>5, <1>2
    <3> QED
      BY <3>4, <3>5
  <2>3. \A k : /\ UsesOf(k)' \subseteq (Ref' \ {model}) \X {1, 2}
               /\ UsesOf(k) \subseteq (Ref' \ {model}) \X {1, 2}
               /\ places(k) \subseteq (Ref' \ {model}) \X {1, 2}
    <3>1. \A k : UsesOf(k) \subseteq (Ref' \ {model}) \X {1, 2}
      BY <1>2 DEF UsesOf
    <3>2. \A k : places(k) \subseteq (Ref' \ {model}) \X {1, 2}
      BY <1>2, <1>4 DEF Places
    <3> QED
      BY <2>1, <3>1, <3>2
  <2>4. \A k : UsesOf(k)' = UsesOf(k) \cup places(k)
    <3> TAKE k
    <3> DEFINE new == UsesOf(k)'   old == UsesOf(k) \cup places(k)
    <3>1. \A g \in Ref' \ {model}, i \in {1, 2} : <<g, i>> \in new <=> <<g, i>> \in old
      BY <2>2
    <3>2. new \subseteq (Ref' \ {model}) \X {1, 2} /\ old \subseteq (Ref' \ {model}) \X {1, 2}
      BY <2>3
    <3> HIDE DEF new, old
    <3>3. \A e \in (Ref' \ {model}) \X {1, 2} : e \in new <=> e \in old
      <4> TAKE e \in (Ref' \ {model}) \X {1, 2}
      <4>1. e = <<e[1], e[2]>> /\ e[1] \in Ref' \ {model} /\ e[2] \in {1, 2}
        OBVIOUS
      <4> QED
        BY <3>1, <4>1
    <3>4. new = old
      BY <3>2, <3>3
    <3> QED
      BY <3>4 DEF new, old
  <2>5. ASSUME NEW k, NEW e \in UsesOf(k), e \in places(k) PROVE FALSE
    <3>1. e[1] \in Ref /\ e[2] \in DOMAIN nodes[e[1]].sources
      BY <2>5 DEF UsesOf
    <3>2. e[1] = n
      BY <2>5 DEF Places
    <3> QED
      BY <3>1, <3>2, <1>4
  <2> QED
    BY <2>4, <2>5
<1>7. \A k : /\ IsFiniteSet(UsesOf(k)) /\ IsFiniteSet(places(k))
             /\ Cardinality(UsesOf(k)) \in Nat /\ Cardinality(places(k)) = Count(sources, k)
             /\ Count(sources, k) \in Nat
  <2> HIDE DEF n, sources
  <2>1. \A k : IsFiniteSet(UsesOf(k)) /\ Cardinality(UsesOf(k)) \in Nat
    BY <1>3, UsesFinite, FS_CardinalityType
  <2>2. \A k : IsFiniteSet(places(k)) /\ Cardinality(places(k)) = Count(sources, k)
    BY <1>2, PlacesCounted
  <2>3. \A k : Count(sources, k) \in Nat
    BY <1>2, CountType
  <2> QED
    BY <2>1, <2>2, <2>3
<1> HIDE DEF n, sources, places
<1>8. \A k : Cardinality(UsesOf(k)') = Cardinality(UsesOf(k)) + Count(sources, k)
  <2> TAKE k
  <2>1. Cardinality(UsesOf(k) \cup places(k)) =
            Cardinality(UsesOf(k)) + Cardinality(places(k)) - Cardinality(UsesOf(k) \cap places(k))
    BY <1>7, FS_Union
  <2>2. UsesOf(k) \cap places(k) = {} /\ Cardinality({}) = 0
    BY <1>6, FS_EmptySet
  <2>3. \A a, b \in Nat : a + b - 0 = a + b
    OBVIOUS
  <2>4. Cardinality(UsesOf(k) \cap places(k)) = 0
    BY <2>2
  <2>5. Cardinality(UsesOf(k) \cup places(k)) = Cardinality(UsesOf(k)) + Count(sources, k)
    BY <1>7, <2>1, <2>3, <2>4
  <2> QED
    BY <1>6, <2>5
<1>9. n \notin Ref => Cardinality(UsesOf(n)) = 0
  <2>1. ASSUME n \notin Ref, NEW e \in UsesOf(n) PROVE FALSE
    <3>1. e[1] \in Ref /\ e[2] \in DOMAIN nodes[e[1]].sources /\ nodes[e[1]].sources[e[2]] = n
      BY DEF UsesOf
    <3>2. nodes[e[1]].sources \in Seq(Ref)
      BY <1>3, <3>1, NodesTyped
    <3> QED
      BY <2>1, <3>1, <3>2
  <2>2. n \notin Ref => UsesOf(n) = {}
    BY <2>1
  <2> QED
    BY <2>2, FS_EmptySet
<1>10. ASSUME NEW k \in Ref' \ {model} PROVE nodes'[k].fanOut = Cardinality(UsesOf(k)')
  <2>1. CASE k \in Ref
    BY <2>1, <1>5, <1>8, <1>10 DEF Counted
  <2>2. CASE k \notin Ref
    BY <2>2, <1>2, <1>5, <1>8, <1>9
  <2> QED
    BY <2>1, <2>2
<1> QED
  BY <1>1, <1>10 DEF Counted

(***************************************************************************)
(* num_fan_out is at all times the number of uses by gates.                *)
(***************************************************************************)
THEOREM ReaderCounts ==
  ASSUME \A f \in Files : DistinctNames(f)
  PROVE  Spec => []FanOutCounts
<1>1. Init => Counted
  BY DEF Init, Counted, Ref
<1>2. IInv /\ Counted /\ [Next]_vars => Counted'
  <2> SUFFICES ASSUME IInv, Counted, [Next]_vars PROVE Counted'
    OBVIOUS
  <2>1. CASE \E name \in Name : OnModel(name) \/ OnInput(name) \/ OnOutput(name)
    BY <2>1, DeclarationCounts
  <2>2. CASE \E s \in Name : OnGate(s)
    BY <2>2, OnGateCounts
  <2>3. CASE UNCHANGED vars
    BY <2>3 DEF vars, Counted, UsesOf, Ref
  <2> QED
    BY <2>1, <2>2, <2>3 DEF Next, Callback, Return
<1> QED
  BY <1>1, <1>2, ReaderInvariance, CountedIsFanOut, PTL DEF Spec
=============================================================================
