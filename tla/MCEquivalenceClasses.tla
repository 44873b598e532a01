------------------------ MODULE MCEquivalenceClasses ------------------------
(***************************************************************************)
(* Directories of up to four circuits in any order, two of which may have  *)
(* the same number.                                                        *)
(***************************************************************************)
EXTENDS EquivalenceClasses, TLC

CONSTANT NaN
Bad == [key |-> NaN, circuit |-> 1]
File == [key : 1..4, circuit : {1, 2}]
Same == [key : 1..4, circuit : {1}]

AllListings ==
    UNION {[1..n -> File] : n \in 0..3}
    \cup {f \in [1..4 -> Same] : \A m, n \in 1..4 : m # n => f[m].key # f[n].key}
    \cup {<<f, Bad>> : f \in File}
=============================================================================
