----------------------------- MODULE MCTautology -----------------------------
(***************************************************************************)
(* Cube files for Tautology: well formed, and with rows too short, too     *)
(* long, empty or with a word that is not supported.                       *)
(***************************************************************************)
EXTENDS Tautology, TLC

Header(n) == << <<n>> >>
W == {"01", "10", "11"}
Row2 == {<<a, b>> : a \in W, b \in W}
Row3 == {<<a, b, c>> : a \in W, b \in W, c \in W}

\* Up to three cubes over two variables, two or three over three, all minterms of two.
Regular ==
    {Header("2") \o r : r \in {<<a>> : a \in Row2} \cup {<<a, b>> : a, b \in Row2}
                              \cup {<<a, b, c>> : a, b, c \in Row2}}
    \cup {Header("3") \o <<a, b>> : a, b \in Row3}
    \cup {Header("3") \o << <<"01", "11", "10">>, a, <<"10", "11", "11">>, b >> : a, b \in Row3}
    \cup {Header("2") \o << <<"01", "01">>, <<"01", "10">>, <<"10", "01">>, a >> : a \in Row2}

Odd == {<<>>, <<"01">>, <<"xx", "11">>, <<"10", "11", "01">>, <<"10", "xx", "11">>, <<"11", "11">>}

Irregular == {<<>>, Header("2")}
    \cup {Header("2") \o r : r \in {<<a>> : a \in Odd} \cup {<<a, b>> : a, b \in Odd}}

AllFiles == Regular \cup Irregular
=============================================================================
