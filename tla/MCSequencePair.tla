--------------------------- MODULE MCSequencePair ---------------------------
(* All sequence pairs of squares of these sizes.                           *)
EXTENDS SequencePair

CONSTANTS Sizes

Sequences == {s \in [Modules -> Modules] : \A i, j \in Modules : i # j => s[i] # s[j]}

AllProblems == {[pos |-> p, neg |-> n, width |-> s, length |-> s] :
                   p \in Sequences, n \in Sequences, s \in [Modules -> Sizes]}
=============================================================================
