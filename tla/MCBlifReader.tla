---------------------------- MODULE MCBlifReader ----------------------------
(***************************************************************************)
(* Small BLIF files for BlifReader: two inputs, two .names blocks, one or  *)
(* two outputs, the inputs and outputs declared in any order.              *)
(***************************************************************************)
EXTENDS BlifReader

CONSTANTS FileKind     \* which family of files

Signals == {"a", "b", "p", "q"}
AllNames == Signals \cup {"top"}
Inputs == {"a", "b"}
Assignments == [Inputs -> Bit]
Rank == [s \in AllNames |-> CASE s = "a" -> 0 [] s = "b" -> 1 [] s = "p" -> 2 [] s = "q" -> 3 [] OTHER -> 4]

Reads(below) == {<<>>} \cup {<<s>> : s \in below} \cup {<<s, t>> : s, t \in below}

\* A constant, or a row that decides between a buffer and an inverter, or two of the covers.
Rows(in) == {g \in Gate : g.b = 0 /\ IF in = <<>> THEN g.a = 0 ELSE g.out = 1}

\* The file in which p and q are driven by these blocks.
File(decls, p, g, q, h) ==
    LET reads == "p" :> p @@ "q" :> q
        row == "p" :> g @@ "q" :> h
        fn[s \in AllNames] ==
            IF s \notin {"p", "q"} THEN [x \in Assignments |-> IF s \in Inputs THEN x[s] ELSE 0]
            ELSE [x \in Assignments |->
                CASE Len(reads[s]) = 0 -> row[s].out
                  [] Len(reads[s]) = 1 -> UnaryOut(row[s], fn[reads[s][1]][x])
                  [] OTHER -> GateOut(row[s], fn[reads[s][1]][x], fn[reads[s][2]][x])]
    IN  [decls |-> decls, reads |-> reads, row |-> row, fn |-> fn, rank |-> Rank, top |-> 5]

In(s) == [kind |-> "input", name |-> s]
Out(s) == [kind |-> "output", name |-> s]

\* The model of this name, then the inputs and these outputs in any order that leaves
\* a before b and p before q.
Orders(top, outs) ==
    {<<[kind |-> "model", name |-> top]>> \o d : d \in
        {e \in SetToSeqs({In("a"), In("b")} \cup {Out(s) : s \in outs}) :
            \A i, j \in DOMAIN e : e[i].kind = e[j].kind /\ Rank[e[i].name] < Rank[e[j].name] => i < j}}

FilesOf(top, outputs) ==
    UNION {{File(decls, p, g, q, h) : decls \in UNION {Orders(top, outs) : outs \in outputs},
                                      g \in Rows(p), h \in Rows(q)}
           : p \in Reads(Inputs), q \in {r \in Reads({"a", "p"}) : "p" \in Range(r)} \cup {<<>>, <<"b">>}}

AllFiles ==
    CASE FileKind = "ordinary"   -> FilesOf("top", {{"q"}, {"p", "q"}}) \cup FilesOf("q", {{"q"}})
      \* an input that is an output as well
      [] FileKind = "feedthrough" -> FilesOf("top", {{"a", "q"}})
=============================================================================
