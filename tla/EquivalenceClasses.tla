------------------------- MODULE EquivalenceClasses -------------------------
(***************************************************************************)
(* equivalence_test.py: compares the circuits of a directory in pairs, by  *)
(* an external solver, and prints the classes of equivalent ones.  The     *)
(* files are listed and compared in the order the system returns them.     *)
(***************************************************************************)
EXTENDS Integers, Sequences, FiniteSets

CONSTANTS
    Circuits,     \* what the files hold, each standing for the function it computes
    Listings,     \* directories: sequences of files [key, circuit]
    NotANumber    \* the key of a file whose name int() does not accept

ASSUME ListingsAssumption == Listings \subseteq Seq([key : Int \cup {NotANumber}, circuit : Circuits])

VARIABLES
    listing,
    complete,     \* does the solver decide every pair?  Else it may give up on some.
    phase,        \* "list", "compare", "printed"; "raised": ended by an exception
    order,        \* keys of test_file and pa, in the order of their insertion
    test_file,    \* key -> circuit
    pa,           \* key -> key of its representative
    i, j,         \* places in order of k1 and k2
    sets          \* what is printed

vars == <<listing, complete, phase, order, test_file, pa, i, j, sets>>

Keys == DOMAIN test_file
K1 == order[i]
K2 == order[j]

Init ==
    /\ listing \in Listings
    /\ complete \in BOOLEAN
    /\ phase = "list"
    /\ order = <<>> /\ test_file = <<>> /\ pa = <<>>
    /\ i = 1 /\ j = 1
    /\ sets = {}

\* One file of the directory; of files with one number the last counts, in the first's place.
ListFile ==
    /\ phase = "list" /\ i <= Len(listing) /\ listing[i].key # NotANumber
    /\ LET f == listing[i]
       IN  /\ test_file' = [k \in Keys \cup {f.key} |-> IF k = f.key THEN f.circuit ELSE test_file[k]]
           /\ order' = IF f.key \in Keys THEN order ELSE Append(order, f.key)
    /\ i' = i + 1
    /\ UNCHANGED <<listing, complete, phase, pa, j, sets>>

RaiseValueError ==
    /\ phase = "list" /\ i <= Len(listing) /\ listing[i].key = NotANumber
    /\ phase' = "raised"
    /\ UNCHANGED <<listing, complete, order, test_file, pa, i, j, sets>>

EndList ==
    /\ phase = "list" /\ i > Len(listing)
    /\ phase' = "compare"
    /\ pa' = [k \in Keys |-> k]
    /\ i' = 1 /\ j' = 1
    /\ UNCHANGED <<listing, complete, order, test_file, sets>>

Comparing == phase = "compare" /\ i <= Len(order)

EndRow ==
    /\ Comparing /\ j > Len(order)
    /\ i' = i + 1 /\ j' = 1
    /\ UNCHANGED <<listing, complete, phase, order, test_file, pa, sets>>

SkipSame ==
    /\ Comparing /\ j <= Len(order) /\ K1 = K2
    /\ j' = j + 1
    /\ UNCHANGED <<listing, complete, phase, order, test_file, pa, i, sets>>

\* External: whether the solver's output contains UNSATISFIABLE.
Verdicts(k1, k2) ==
    IF test_file[k1] # test_file[k2] THEN {FALSE}
    ELSE IF complete THEN {TRUE} ELSE BOOLEAN

\* Mutant: the smaller number becomes the representative, instead of the one it has.
MergedNumber(k1, k2) == IF k1 < k2 THEN [pa EXCEPT ![k2] = k1] ELSE [pa EXCEPT ![k1] = k2]

\* The file with the larger number takes over the representative the other has now.
Merged(k1, k2) == IF k1 < k2 THEN [pa EXCEPT ![k2] = pa[k1]] ELSE [pa EXCEPT ![k1] = pa[k2]]

Compare ==
    /\ Comparing /\ j <= Len(order) /\ K1 # K2
    /\ \E rv \in Verdicts(K1, K2) : pa' = IF rv THEN Merged(K1, K2) ELSE pa
    /\ j' = j + 1
    /\ UNCHANGED <<listing, complete, phase, order, test_file, i, sets>>

\* External: the solver's shell command fails, and check_output raises.
RaiseProcessError ==
    /\ Comparing /\ j <= Len(order) /\ K1 # K2
    /\ phase' = "raised"
    /\ UNCHANGED <<listing, complete, order, test_file, pa, i, j, sets>>

\* Mutant: every value of pa gives a set, whether or not it represents itself.
PrintAll ==
    /\ phase = "compare" /\ i > Len(order)
    /\ sets' = {{k2 \in Keys : pa[k2] = pa[k]} : k \in Keys}
    /\ phase' = "printed"
    /\ UNCHANGED <<listing, complete, order, test_file, pa, i, j>>

PrintSets ==
    /\ phase = "compare" /\ i > Len(order)
    /\ sets' = {{k2 \in Keys : pa[k2] = k} : k \in {k \in Keys : pa[k] = k}}
    /\ phase' = "printed"
    /\ UNCHANGED <<listing, complete, order, test_file, pa, i, j>>

Step ==
    \/ ListFile
    \/ RaiseValueError
    \/ EndList
    \/ EndRow
    \/ SkipSame
    \/ Compare
    \/ RaiseProcessError
    \/ PrintSets

Stopped == phase \in {"printed", "raised"} /\ UNCHANGED vars

Next == Step \/ Stopped

Spec == Init /\ [][Next]_vars

-----------------------------------------------------------------------------
(* Properties                                                              *)

(***************************************************************************)
(* Every variable has its type; order lists the keys, each once.           *)
(***************************************************************************)
TypeOK ==
    /\ complete \in BOOLEAN
    /\ phase \in {"list", "compare", "printed", "raised"}
    /\ Keys \subseteq Int
    /\ order \in Seq(Keys)
    /\ \A k \in Keys : \E n \in DOMAIN order : order[n] = k
    /\ \A m, n \in DOMAIN order : order[m] = order[n] => m = n
    /\ phase \in {"compare", "printed"} => pa \in [Keys -> Keys]
    /\ i \in Nat \ {0} /\ j \in Nat \ {0}
    /\ sets \subseteq SUBSET Keys

Equivalent(k) == {l \in Keys : test_file[l] = test_file[k]}

(***************************************************************************)
(* If the solver decides every pair the sets printed are the classes of    *)
(* equivalent circuits, in whatever order the directory is listed: merging *)
(* by current representatives loses nobody in the end, though a            *)
(* representative may grow again on the way.                               *)
(***************************************************************************)
SetsAreClasses == phase = "printed" /\ complete => sets = {Equivalent(k) : k \in Keys}

(***************************************************************************)
(* Whatever the solver gives up on, no set mixes circuits that differ, the *)
(* sets are disjoint and each is listed under its least member.  (A file   *)
(* can be missing from all of them then.)                                  *)
(***************************************************************************)
NeverMixed == phase = "printed" =>
    /\ \A s \in sets : \E k \in s : s \subseteq Equivalent(k) /\ pa[k] = k /\ \A l \in s : k <= l
    /\ \A s, t \in sets : s = t \/ s \cap t = {}

=============================================================================
