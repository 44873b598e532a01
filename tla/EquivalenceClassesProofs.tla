----------------------- MODULE EquivalenceClassesProofs -----------------------
(***************************************************************************)
(* Proof that equivalence_test.py prints the classes of equivalent         *)
(* circuits, for any directory listed in any order, and that a pair the    *)
(* solver gives up on never makes it mix two classes.                      *)
(***************************************************************************)
EXTENDS EquivalenceClasses, FiniteSetTheorems, WellFoundedInduction, TLAPS

Compared == phase \in {"compare", "printed"}

Same(k, l) == test_file[k] = test_file[l]

\* A representative is equivalent to its file, and has no larger number.
Represents == Compared => \A k \in Keys : Same(pa[k], k) /\ pa[k] <= k

Least(m) == m \in Keys /\ \A l \in Keys : Same(l, m) => m <= l

\* Has the row of the m-th file come to the n-th?
Passed(m, n) ==
    \/ i > m
    \/ i = m /\ n < j

\* From the row of the least member of a class on, the class gathers under it.
Gathered == complete /\ phase = "compare" =>
    \A m, n \in DOMAIN order :
        Least(order[m]) /\ Same(order[n], order[m]) /\ Passed(m, n) => pa[order[n]] = order[m]

\* What has been printed, and in which state.
Printed == phase = "printed" =>
    /\ sets = {{k2 \in Keys : pa[k2] = k} : k \in {k \in Keys : pa[k] = k}}
    /\ complete => \A m, k \in Keys : Least(m) /\ Same(k, m) => pa[k] = m

IInv ==
    /\ listing \in Listings
    /\ IsFiniteSet(Keys)
    /\ TypeOK
    /\ Represents
    /\ Gathered
    /\ Printed

-----------------------------------------------------------------------------
(* Finite sets of numbers have a least member.                             *)

LEMMA LeastMember ==
  ASSUME NEW S \in SUBSET Int, IsFiniteSet(S), S # {}
  PROVE  \E m \in S : \A l \in S : m <= l
<1> DEFINE Bad == {T \in FiniteSubsetsOf(Int) : T # {} /\ ~ \E m \in T : \A l \in T : m <= l}
           R == StrictSubsetOrdering(Int)
<1>1. SUFFICES ASSUME Bad # {} PROVE FALSE
  BY DEF FiniteSubsetsOf
<1>2. IsWellFoundedOn(R, FiniteSubsetsOf(Int))
  BY FS_StrictSubsetOrderingWellFounded
<1>3. PICK T \in Bad : \A U \in Bad : ~ (<<U, T>> \in R)
  <2> HIDE DEF R
  <2> QED BY <1>1, <1>2, WFMin, Zenon
<1>4. PICK x \in T : TRUE
  OBVIOUS
<1> DEFINE U == T \ {x}
<1>5. U \in FiniteSubsetsOf(Int) /\ <<U, T>> \in R
  <2>1. IsFiniteSet(U)
    BY FS_RemoveElement DEF FiniteSubsetsOf
  <2>2. T \in SUBSET Int /\ U \in SUBSET Int /\ U \subseteq T /\ U # T
    BY <1>4 DEF FiniteSubsetsOf
  <2> QED BY <2>1, <2>2 DEF FiniteSubsetsOf, StrictSubsetOrdering
<1>6. U \notin Bad
  BY <1>3, <1>5
<1>7. CASE U = {}
  <2>1. T = {x} /\ x \in Int
    BY <1>7, <1>4 DEF FiniteSubsetsOf
  <2> QED BY <2>1
<1>8. CASE U # {}
  <2>1. PICK m \in U : \A l \in U : m <= l
    BY <1>5, <1>6, <1>8
  <2>2. T \subseteq Int /\ x \in Int /\ m \in Int /\ m \in T
    BY <1>4 DEF FiniteSubsetsOf
  <2>3. \A l \in T : l = x \/ l \in U
    OBVIOUS
  <2>4. CASE m <= x
    BY <2>1, <2>2, <2>3, <2>4
  <2>5. CASE x < m
    <3>1. \A l \in T : x <= l
      BY <2>1, <2>2, <2>3, <2>5
    <3> QED BY <3>1, <1>4
  <2> QED BY <2>2, <2>4, <2>5
<1> QED BY <1>7, <1>8

LEMMA ElementOfSeq == ASSUME NEW S, NEW s \in Seq(S) PROVE \A n \in 1 .. Len(s) : s[n] \in S
OBVIOUS

-----------------------------------------------------------------------------
(* The invariant                                                           *)

LEMMA InitInv == Init => IInv
<1> SUFFICES ASSUME Init PROVE IInv
  OBVIOUS
<1>1. test_file = <<>> /\ Keys = {} /\ order = <<>> /\ sets = {} /\ phase = "list" /\ i = 1 /\ j = 1
      /\ listing \in Listings /\ complete \in BOOLEAN
  BY DEF Init, Keys
<1>2. TypeOK
  BY <1>1 DEF TypeOK
<1>3. IsFiniteSet(Keys)
  BY <1>1, FS_EmptySet
<1> QED BY <1>1, <1>2, <1>3 DEF IInv, Represents, Gathered, Printed, Compared

LEMMA ListFileInv == IInv /\ ListFile => IInv'
<1> SUFFICES ASSUME IInv, ListFile PROVE IInv'
  OBVIOUS
<1> USE DEF IInv
<1> DEFINE f == listing[i]
<1>1. listing \in Seq([key : Int \cup {NotANumber}, circuit : Circuits])
  BY ListingsAssumption
<1>2. f.key \in Int
  <2>1. i \in 1 .. Len(listing) /\ f.key # NotANumber
    BY <1>1 DEF ListFile, TypeOK
  <2>2. \A n \in 1 .. Len(listing) : listing[n] \in [key : Int \cup {NotANumber}, circuit : Circuits]
    BY <1>1, ElementOfSeq
  <2> QED BY <2>1, <2>2
<1>3. Keys' = Keys \cup {f.key} /\ phase = "list" /\ phase' = "list"
  BY DEF ListFile, Keys
<1>4. IsFiniteSet(Keys')
  BY <1>3, FS_AddElement
<1>5. /\ order' \in Seq(Keys')
      /\ \A k \in Keys' : \E n \in DOMAIN order' : order'[n] = k
      /\ \A m, n \in DOMAIN order' : order'[m] = order'[n] => m = n
  <2>1. order \in Seq(Keys) /\ (\A k \in Keys : \E n \in DOMAIN order : order[n] = k)
        /\ (\A m, n \in DOMAIN order : order[m] = order[n] => m = n)
    BY DEF TypeOK
  <2>2. CASE f.key \in Keys
    <3>1. order' = order /\ Keys' = Keys
      BY <1>3, <2>2 DEF ListFile
    <3> QED BY <3>1, <2>1
  <2>3. CASE f.key \notin Keys
    <3>1. order' = Append(order, f.key)
      BY <2>3 DEF ListFile
    <3>2. order \in Seq(Keys') /\ f.key \in Keys'
      BY <2>1, <1>3
    <3>3. order' \in Seq(Keys') /\ DOMAIN order' = 1 .. Len(order) + 1 /\ DOMAIN order = 1 .. Len(order)
          /\ order'[Len(order) + 1] = f.key /\ \A n \in DOMAIN order : order'[n] = order[n]
      BY <3>1, <3>2
    <3>4. \A k \in Keys' : \E n \in DOMAIN order' : order'[n] = k
      BY <3>3, <1>3, <2>1
    <3>5. \A n \in DOMAIN order' : n \in DOMAIN order \/ n = Len(order) + 1
      BY <3>3
    <3>6. \A n \in DOMAIN order : order'[n] # f.key
      BY <3>3, <2>1, <2>3
    <3>7. \A m, n \in DOMAIN order' : order'[m] = order'[n] => m = n
      BY <3>3, <3>5, <3>6, <2>1
    <3> QED BY <3>3, <3>4, <3>7
  <2> QED BY <2>2, <2>3
<1>6. TypeOK'
  <2>1. sets' \subseteq SUBSET Keys'
    BY <1>3 DEF TypeOK, ListFile
  <2>2. i' \in Nat \ {0} /\ j' \in Nat \ {0} /\ complete' \in BOOLEAN
    BY DEF TypeOK, ListFile
  <2>3. Keys' \subseteq Int
    BY <1>2, <1>3 DEF TypeOK
  <2> QED BY <1>3, <1>5, <2>1, <2>2, <2>3 DEF TypeOK
<1>7. listing' \in Listings
  BY DEF ListFile
<1> QED BY <1>3, <1>4, <1>6, <1>7 DEF Represents, Gathered, Printed, Compared

LEMMA EndListInv == IInv /\ EndList => IInv'
<1> SUFFICES ASSUME IInv, EndList PROVE IInv'
  OBVIOUS
<1> USE DEF IInv
<1>1. /\ phase' = "compare" /\ pa' = [k \in Keys |-> k] /\ i' = 1 /\ j' = 1
      /\ UNCHANGED <<listing, complete, order, test_file, sets>> /\ Keys' = Keys
  BY DEF EndList, Keys
<1>2. TypeOK'
  BY <1>1 DEF TypeOK
<1>3. Represents'
  BY <1>1 DEF Represents, Same, TypeOK
<1>4. Gathered'
  BY <1>1 DEF Gathered, Passed, TypeOK
<1> QED BY <1>1, <1>2, <1>3, <1>4 DEF Printed

LEMMA EndRowInv == IInv /\ EndRow => IInv'
<1> SUFFICES ASSUME IInv, EndRow PROVE IInv'
  OBVIOUS
<1> USE DEF IInv
<1>1. /\ phase = "compare" /\ j > Len(order) /\ i' = i + 1 /\ j' = 1
      /\ UNCHANGED <<listing, complete, phase, order, test_file, pa, sets>> /\ Keys' = Keys
  BY DEF EndRow, Comparing, Keys
<1>2. TypeOK'
  BY <1>1 DEF TypeOK
<1>3. Represents'
  BY <1>1 DEF Represents, Same, Compared
<1>4. Gathered'
  <2>1. \A m, n \in DOMAIN order : Passed(m, n)' => Passed(m, n)
    BY <1>1 DEF Passed, TypeOK
  <2>2. \A k : Least(k)' <=> Least(k)
    BY <1>1 DEF Least, Same
  <2> QED BY <1>1, <2>1, <2>2 DEF Gathered, Same
<1> QED BY <1>1, <1>2, <1>3, <1>4 DEF Printed

\* The least member of a class represents itself.
LEMMA LeastRepresentsItself ==
  ASSUME IInv, Compared, NEW m, Least(m)
  PROVE  pa[m] = m
<1>1. m \in Keys /\ pa[m] \in Keys /\ Same(pa[m], m) /\ pa[m] <= m /\ Keys \subseteq Int
  BY DEF IInv, Represents, Least, TypeOK, Compared
<1>2. m <= pa[m]
  BY <1>1 DEF Least
<1>3. m \in Int /\ pa[m] \in Int
  BY <1>1
<1> QED BY <1>1, <1>2, <1>3

LEMMA SkipSameInv == IInv /\ SkipSame => IInv'
<1> SUFFICES ASSUME IInv, SkipSame PROVE IInv'
  OBVIOUS
<1> USE DEF IInv
<1>1. /\ phase = "compare" /\ i \in DOMAIN order /\ j \in DOMAIN order /\ order[i] = order[j] /\ j' = j + 1
      /\ DOMAIN order = 1 .. Len(order) /\ Len(order) \in Nat /\ i \in Nat /\ j \in Nat
      /\ UNCHANGED <<listing, complete, phase, order, test_file, pa, i, sets>> /\ Keys' = Keys
  BY DEF SkipSame, Comparing, Keys, K1, K2, TypeOK
<1>2. TypeOK'
  BY <1>1 DEF TypeOK
<1>3. Represents'
  BY <1>1 DEF Represents, Same, Compared
<1>4. Gathered'
  <2>1. \A k : Least(k)' <=> Least(k)
    BY <1>1 DEF Least, Same
  <2>2. \A m, n \in DOMAIN order : Passed(m, n)' => Passed(m, n) \/ (i = m /\ n = j)
    BY <1>1 DEF Passed
  <2>3. \A m \in DOMAIN order : Least(order[m]) => pa[order[m]] = order[m]
    BY <1>1, LeastRepresentsItself DEF Compared
  <2> QED BY <1>1, <2>1, <2>2, <2>3 DEF Gathered, Same
<1> QED BY <1>1, <1>2, <1>3, <1>4 DEF Printed

LEMMA CompareInv == IInv /\ Compare => IInv'
<1> SUFFICES ASSUME IInv, Compare PROVE IInv'
  OBVIOUS
<1> USE DEF IInv
<1>1. /\ phase = "compare" /\ i \in DOMAIN order /\ j \in DOMAIN order /\ K1 # K2 /\ j' = j + 1
      /\ DOMAIN order = 1 .. Len(order) /\ Len(order) \in Nat /\ i \in Nat /\ j \in Nat
      /\ UNCHANGED <<listing, complete, phase, order, test_file, i, sets>> /\ Keys' = Keys
      /\ K1 = order[i] /\ K2 = order[j]
  BY DEF Compare, Comparing, Keys, K1, K2, TypeOK
<1>2. PICK rv \in Verdicts(K1, K2) : pa' = IF rv THEN Merged(K1, K2) ELSE pa
  BY DEF Compare
<1>3. K1 \in Keys /\ K2 \in Keys /\ K1 \in Int /\ K2 \in Int /\ Keys \subseteq Int /\ pa \in [Keys -> Keys]
  <2>1. Keys \subseteq Int /\ pa \in [Keys -> Keys] /\ order \in Seq(Keys)
    BY <1>1 DEF TypeOK
  <2>2. order[i] \in Keys /\ order[j] \in Keys
    BY <1>1, <2>1
  <2> QED BY <1>1, <2>1, <2>2
<1>4. rv = FALSE \/ (rv = TRUE /\ Same(K1, K2))
  BY DEF Verdicts, Same
<1>5. complete /\ Same(K1, K2) => rv = TRUE
  BY DEF Verdicts, Same
<1>6. \/ rv = FALSE /\ pa' = pa
      \/ rv = TRUE /\ K1 < K2 /\ pa' = [pa EXCEPT ![K2] = pa[K1]]
      \/ rv = TRUE /\ K2 < K1 /\ pa' = [pa EXCEPT ![K1] = pa[K2]]
  BY <1>1, <1>2, <1>3, <1>4 DEF Merged
<1>7. pa' \in [Keys -> Keys]
  BY <1>3, <1>6
<1>8. TypeOK'
  BY <1>1, <1>7 DEF TypeOK
<1>9. Represents'
  <2>1. \A k \in Keys : Same(pa[k], k) /\ pa[k] <= k
    BY <1>1 DEF Represents, Compared
  <2>2. \A k \in Keys : pa[k] \in Keys /\ pa[k] \in Int /\ k \in Int
    BY <1>3
  <2>3. \A k \in Keys : test_file[pa'[k]] = test_file[k] /\ pa'[k] <= k
    BY <1>3, <1>4, <1>6, <2>1, <2>2 DEF Same
  <2> QED BY <1>1, <2>3 DEF Represents, Same
<1>10. Gathered'
  <2> SUFFICES ASSUME complete, NEW m \in DOMAIN order, NEW n \in DOMAIN order,
                      Least(order[m]), Same(order[n], order[m]), Passed(m, n)'
               PROVE  pa'[order[n]] = order[m]
    <3>1. \A k : Least(k)' <=> Least(k)
      BY <1>1 DEF Least, Same
    <3> QED BY <1>1, <3>1 DEF Gathered, Same
  <2>1. order[m] \in Keys /\ order[n] \in Keys
    BY DEF TypeOK
  <2>2. pa[order[m]] = order[m]
    BY <1>1, LeastRepresentsItself DEF Compared
  <2>3. \A l \in DOMAIN order : Same(order[l], order[m]) /\ Passed(m, l) => pa[order[l]] = order[m]
    BY <1>1 DEF Gathered
  <2>4. CASE Passed(m, n) /\ ~ (rv = TRUE /\ order[n] \in {K1, K2})
    BY <2>1, <2>3, <2>4, <1>3, <1>6
  <2>5. CASE Passed(m, n) /\ rv = TRUE /\ order[n] \in {K1, K2}
    <3>1. Same(K1, order[m]) /\ Same(K2, order[m])
      BY <2>5, <1>4 DEF Same
    <3>2. CASE i > m
      <4>1. pa[K1] = order[m] /\ pa[K2] = order[m]
        BY <1>1, <2>3, <3>1, <3>2 DEF Passed
      <4> QED BY <1>3, <1>6, <2>1, <2>5, <4>1
    <3>3. CASE i = m
      <4>1. K1 = order[m] /\ K1 < K2
        BY <1>1, <1>3, <3>1, <3>3 DEF Least
      <4> QED BY <4>1, <1>3, <1>6, <2>2, <2>5, <2>1, <2>3
    <3> QED BY <2>5, <3>2, <3>3 DEF Passed
  <2>6. CASE ~ Passed(m, n)
    <3>1. i = m /\ n = j
      BY <1>1, <2>6 DEF Passed
    <3>2. K1 = order[m] /\ K2 = order[n] /\ K1 < K2 /\ rv = TRUE
      BY <1>1, <1>3, <1>5, <3>1 DEF Least, Same
    <3> QED BY <3>2, <1>3, <1>6, <2>2
  <2> QED BY <1>4, <2>4, <2>5, <2>6
<1> QED BY <1>1, <1>8, <1>9, <1>10 DEF Printed

LEMMA PrintSetsInv == IInv /\ PrintSets => IInv'
<1> SUFFICES ASSUME IInv, PrintSets PROVE IInv'
  OBVIOUS
<1> USE DEF IInv
<1>1. /\ phase = "compare" /\ i > Len(order) /\ phase' = "printed" /\ Keys' = Keys
      /\ sets' = {{k2 \in Keys : pa[k2] = k} : k \in {k \in Keys : pa[k] = k}}
      /\ UNCHANGED <<listing, complete, order, test_file, pa, i, j>>
  BY DEF PrintSets, Keys
<1>2. TypeOK'
  <2>1. sets' \subseteq SUBSET Keys'
    BY <1>1
  <2> QED BY <1>1, <2>1 DEF TypeOK
<1>3. Represents'
  BY <1>1 DEF Represents, Same, Compared
<1>4. Printed'
  <2>1. ASSUME complete, NEW m \in Keys, NEW k \in Keys, Least(m), Same(k, m) PROVE pa[k] = m
    <3>1. PICK p, n \in DOMAIN order : order[p] = m /\ order[n] = k
      BY DEF TypeOK
    <3>2. i > p
      <4>1. order \in Seq(Keys) /\ i \in Nat
        BY DEF TypeOK
      <4> QED BY <1>1, <4>1
    <3>3. Passed(p, n)
      BY <3>2 DEF Passed
    <3> QED BY <1>1, <2>1, <3>1, <3>3 DEF Gathered
  <2>2. \A k : Least(k)' <=> Least(k)
    BY <1>1 DEF Least, Same
  <2> QED BY <1>1, <2>1, <2>2 DEF Printed, Same
<1> QED BY <1>1, <1>2, <1>3, <1>4 DEF Gathered

LEMMA UnchangedInv == IInv /\ UNCHANGED vars => IInv'
BY DEF IInv, vars, TypeOK, Represents, Gathered, Printed, Compared, Same, Least, Passed, Keys

LEMMA RaiseInv == IInv /\ (RaiseValueError \/ RaiseProcessError) => IInv'
<1> SUFFICES ASSUME IInv, RaiseValueError \/ RaiseProcessError PROVE IInv'
  OBVIOUS
<1>1. phase' = "raised" /\ UNCHANGED <<listing, complete, order, test_file, pa, i, j, sets>> /\ Keys' = Keys
  BY DEF RaiseValueError, RaiseProcessError, Keys
<1>2. TypeOK'
  BY <1>1 DEF IInv, TypeOK
<1> QED BY <1>1, <1>2 DEF IInv, Represents, Gathered, Printed, Compared

(***************************************************************************)
(* The inductive invariant, for every set of directories.                  *)
(***************************************************************************)
THEOREM EquivalenceClassesInvariance == Spec => []IInv
<1>1. IInv /\ [Next]_vars => IInv'
  <2> SUFFICES ASSUME IInv, [Next]_vars PROVE IInv'
    OBVIOUS
  <2>1. CASE ListFile
    BY <2>1, ListFileInv
  <2>2. CASE RaiseValueError \/ RaiseProcessError
    BY <2>2, RaiseInv
  <2>3. CASE EndList
    BY <2>3, EndListInv
  <2>4. CASE EndRow
    BY <2>4, EndRowInv
  <2>5. CASE SkipSame
    BY <2>5, SkipSameInv
  <2>6. CASE Compare
    BY <2>6, CompareInv
  <2>7. CASE PrintSets
    BY <2>7, PrintSetsInv
  <2>8. CASE UNCHANGED vars
    BY <2>8, UnchangedInv
  <2> QED BY <2>1, <2>2, <2>3, <2>4, <2>5, <2>6, <2>7, <2>8 DEF Next, Step, Stopped
<1> QED BY <1>1, InitInv, PTL DEF Spec

(***************************************************************************)
(* Type correctness.                                                       *)
(***************************************************************************)
THEOREM EquivalenceClassesTypeCorrect == Spec => []TypeOK
BY EquivalenceClassesInvariance, PTL DEF IInv

(***************************************************************************)
(* No set mixes circuits that differ, whatever the solver gives up on: a   *)
(* representative is always equivalent to its file and never larger.       *)
(***************************************************************************)
THEOREM SetsNeverMix == Spec => []NeverMixed
<1>1. IInv => NeverMixed
  <2> SUFFICES ASSUME IInv, phase = "printed" PROVE NeverMixed
    BY DEF NeverMixed
  <2>1. sets = {{k2 \in Keys : pa[k2] = k} : k \in {k \in Keys : pa[k] = k}}
    BY DEF IInv, Printed
  <2>2. \A k \in Keys : Same(pa[k], k) /\ pa[k] <= k
    BY DEF IInv, Represents, Compared
  <2>3. ASSUME NEW s \in sets
        PROVE  \E k \in s : s \subseteq Equivalent(k) /\ pa[k] = k /\ \A l \in s : k <= l
    <3>1. PICK k \in Keys : pa[k] = k /\ s = {k2 \in Keys : pa[k2] = k}
      BY <2>1
    <3>2. k \in s /\ s \subseteq Equivalent(k) /\ \A l \in s : k <= l
      BY <2>2, <3>1 DEF Equivalent, Same
    <3> QED BY <3>1, <3>2
  <2>4. ASSUME NEW s \in sets, NEW t \in sets, s \cap t # {} PROVE s = t
    <3>1. PICK k, l \in Keys : s = {k2 \in Keys : pa[k2] = k} /\ t = {k2 \in Keys : pa[k2] = l}
      BY <2>1
    <3> QED BY <2>4, <3>1
  <2> QED BY <2>3, <2>4 DEF NeverMixed
<1> QED BY <1>1, EquivalenceClassesInvariance, PTL

(***************************************************************************)
(* If the solver decides every pair, the sets printed are the classes, in  *)
(* whatever order the directory is listed: from the row of the least       *)
(* member of a class on, nothing can take its members from it.             *)
(***************************************************************************)
THEOREM PrintedSetsAreClasses == Spec => []SetsAreClasses
<1>1. IInv => SetsAreClasses
  <2> SUFFICES ASSUME IInv, phase = "printed", complete PROVE sets = {Equivalent(k) : k \in Keys}
    BY DEF SetsAreClasses
  <2>1. sets = {{k2 \in Keys : pa[k2] = k} : k \in {k \in Keys : pa[k] = k}}
    BY DEF IInv, Printed
  <2>2. \A k \in Keys : Same(pa[k], k)
    BY DEF IInv, Represents, Compared
  <2>3. \A m, k \in Keys : Least(m) /\ Same(k, m) => pa[k] = m
    BY DEF IInv, Printed
  <2>4. ASSUME NEW k \in Keys PROVE \E m \in Keys : Least(m) /\ Same(k, m)
    <3>1. Equivalent(k) \in SUBSET Int /\ k \in Equivalent(k) /\ Equivalent(k) \subseteq Keys /\ IsFiniteSet(Keys)
      BY DEF IInv, TypeOK, Equivalent
    <3>2. IsFiniteSet(Equivalent(k))
      BY <3>1, FS_Subset
    <3>3. PICK m \in Equivalent(k) : \A l \in Equivalent(k) : m <= l
      BY <3>1, <3>2, LeastMember
    <3> QED BY <3>1, <3>3 DEF Equivalent, Least, Same
  <2>5. ASSUME NEW m \in Keys, Least(m) PROVE {k2 \in Keys : pa[k2] = m} = Equivalent(m) /\ pa[m] = m
    BY <2>2, <2>3, <2>5 DEF Equivalent, Same
  <2>6. \A s \in sets : s \in {Equivalent(k) : k \in Keys}
    <3> SUFFICES ASSUME NEW k \in Keys, pa[k] = k PROVE {k2 \in Keys : pa[k2] = k} \in {Equivalent(l) : l \in Keys}
      BY <2>1
    <3>1. PICK m \in Keys : Least(m) /\ Same(k, m)
      BY <2>4
    <3>2. k = m
      BY <2>3, <3>1
    <3> QED BY <2>5, <3>1, <3>2
  <2>7. ASSUME NEW k \in Keys PROVE Equivalent(k) \in sets
    <3>1. PICK m \in Keys : Least(m) /\ Same(k, m)
      BY <2>4
    <3>2. Equivalent(k) = Equivalent(m)
      BY <3>1 DEF Equivalent, Same
    <3> QED BY <2>1, <2>5, <3>1, <3>2
  <2> QED BY <2>6, <2>7
<1> QED BY <1>1, EquivalenceClassesInvariance, PTL

=============================================================================
