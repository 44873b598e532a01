------------------------------ MODULE MCRcTree ------------------------------
(***************************************************************************)
(* Nets of four nodes for RcTree, alone or followed by a second net.       *)
(***************************************************************************)
EXTENDS RcTree, TLC

\* Every tree over r, a, b, c with the root r, up to names.
Parents == {<<"r", b, c>> : b \in {"r", "a"}, c \in {"r", "a", "b"}}

Down(p, c, r) == [fr |-> p, to |-> c, res |-> r]
Up(p, c, r) == [fr |-> c, to |-> p, res |-> r]

\* A resistor as the file may list it: both ways, in either order, or from the root only.
Listings(p, c, r) == {<<Down(p, c, r), Up(p, c, r)>>, <<Up(p, c, r), Down(p, c, r)>>, <<Down(p, c, r)>>}

EdgeLists == UNION {
    {x \o y \o z : x \in Listings(p[1], "a", 2), y \in Listings(p[2], "b", 1), z \in Listings(p[3], "c", r)}
    : p \in Parents, r \in {3}}

CapLists == {<<<<"r", 1>>, <<"a", 2>>, <<"b", k>>, <<"c", 1>>>> : k \in {0, 3}}

Net(name, root, caps, edges) == [name |-> name, root |-> root, caps |-> caps, edges |-> edges]

Seconds == {
    <<>>,
    <<Net("other", "s", <<<<"t", 2>>>>, <<Down("s", "t", 1)>>)>>,
    <<Net("net", "r", <<<<"b", 2>>, <<"d", 1>>>>, <<Down("c", "d", 2), Up("c", "d", 2)>>)>>,  \* a branch
    <<Net("net", "b", <<>>, <<>>)>>,                                         \* another root
    <<Net("net", "r", <<<<"e", 1>>>>, <<>>)>>,                               \* a node without edges
    <<Net("net", "r", <<>>, <<Down("c", "r", 1), Up("c", "r", 1)>>)>>,       \* a circle or a parallel edge
    <<Net("net", "r", <<>>, <<Down("r", "r", 1)>>)>> }

NetNames == {"net", "other"}
NodeNames == {"r", "a", "b", "c", "d", "e", "s", "t"}

AllFiles == {<<Net("net", "r", c, e)>> \o s : c \in CapLists, e \in EdgeLists, s \in Seconds}
=============================================================================
