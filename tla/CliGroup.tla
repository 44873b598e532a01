------------------------------ MODULE CliGroup ------------------------------
(***************************************************************************)
(* clipp.h, the library main of the partitioner reads its command line     *)
(* with: parameters, groups of them, the operators that combine them into  *)
(* a command line interface, and the depth-first walk over an interface.   *)
(* An argument is the sequence of its pieces (a flag, a text); a flag is   *)
(* one piece, and no flag begins another.  Documentation strings, joinable *)
(* groups and greedy parameters are left out.                              *)
(***************************************************************************)
EXTENDS Integers, Sequences, SequencesExt

VARIABLE
    interface    \* the group being parsed

\* The element of a set with one: The({f(v) : v \in {e}}) is f(e), with e evaluated once.
The(S) == CHOOSE e \in S : TRUE

\* The last and the first of a set of places in a sequence, 0 if there is none.
LastOf(S)  == The({Max({0} \cup I) : I \in {S}})
FirstOf(S) == The({IF I = {} THEN 0 ELSE Min(I) : I \in {S}})

-----------------------------------------------------------------------------
(* Parameters; one without flags takes any text.                           *)

Parameter(flags, isRequired, isBlocking, isRepeatable) ==
    [group |-> FALSE, flags |-> flags, required |-> isRequired, blocking |-> isBlocking,
     repeatable |-> isRepeatable, exclusive |-> FALSE, scoped |-> FALSE, children |-> <<>>]

command(flags)  == Parameter(flags, TRUE, TRUE, FALSE)
required(flags) == Parameter(flags, TRUE, FALSE, FALSE)
option(flags)   == Parameter(flags, FALSE, FALSE, FALSE)
value           == Parameter({}, TRUE, TRUE, FALSE)
values          == Parameter({}, TRUE, TRUE, TRUE)
opt_value       == Parameter({}, FALSE, FALSE, FALSE)
opt_values      == Parameter({}, FALSE, FALSE, TRUE)

\* How much of an argument a parameter matches, from its start.
MatchLength(param, arg) ==
    IF param.flags = {} THEN Len(arg)
    ELSE IF arg # <<>> /\ arg[1] \in param.flags THEN 1 ELSE 0

(* Groups. A group of alternatives is required if all of them are, and     *)
(* blocks if all of them do.                                               *)

AllOf(children, property) == \A c \in ToSet(children) : c[property]
AnyOf(children, property) == \E c \in ToSet(children) : c[property]
AllBlocking(g) == AllOf(g.children, "blocking")

Group(children, isExclusive, isScoped) ==
    [group |-> TRUE, flags |-> {},
     required   |-> IF isExclusive THEN AllOf(children, "required") ELSE AnyOf(children, "required"),
     blocking   |-> isExclusive /\ AllOf(children, "blocking"),
     repeatable |-> FALSE, exclusive |-> isExclusive, scoped |-> isScoped, children |-> children]

Regroup(g, children) ==
    [Group(children, g.exclusive, g.scoped) EXCEPT
        !.repeatable = g.repeatable, !.blocking = IF g.exclusive THEN @ ELSE g.blocking]

repeatable(node) == [node EXCEPT !.repeatable = TRUE]
Blocking(node)   == [node EXCEPT !.blocking = TRUE]

\* operator , : merges into a plain group that no other operator has closed.
Open(g) == g.group /\ ~ g.scoped /\ ~ g.blocking /\ ~ g.exclusive /\ ~ g.repeatable
Comma(left, right) == The({
    IF ~ a.group /\ Open(b) THEN Regroup(b, <<a>> \o b.children)
    ELSE IF Open(a) THEN Regroup(a, Append(a.children, b))
    ELSE Group(<<a, b>>, FALSE, FALSE) : a \in {left}, b \in {right}})

\* operator | : alternatives.
Alternatives(g) == g.group /\ ~ g.scoped /\ g.exclusive /\ ~ g.repeatable
Or(left, right) == The({
    IF ~ a.group /\ Alternatives(b) /\ ~ b.blocking THEN Regroup(b, <<a>> \o b.children)
    ELSE IF Alternatives(a) /\ a.blocking = b.blocking THEN Regroup(a, Append(a.children, b))
    ELSE Group(<<a, b>>, TRUE, FALSE) : a \in {left}, b \in {right}})

\* operator & : a sequence; what it joins is made blocking.
And(left, right) ==
    LET Second(a, b) == IF b.group /\ (~ a.group \/ AllBlocking(b)) THEN b ELSE Blocking(b)
        First(a) == IF a.group /\ AllBlocking(a) THEN a ELSE Blocking(a)
    IN  The({IF a.group /\ AllBlocking(a) /\ ~ a.exclusive /\ ~ a.repeatable
             THEN Regroup(a, Append(a.children, Second(a, b)))
             ELSE Group(<<First(a), Second(a, b)>>, FALSE, TRUE) : a \in {left}, b \in {right}})

-----------------------------------------------------------------------------
(* A place in the interface: a stack of contexts [parent, cur, end], where *)
(* parent is the path of a group and cur and end number its children.  The *)
(* empty stack is past the end.                                            *)

NoGroup == <<0>>

Node(path) == FoldLeft(LAMBDA n, k : n.children[k], interface, path)
Enter(path) == [parent |-> path, cur |-> 1, end |-> Len(Node(path).children) + 1]
PathOf(c) == Append(c.parent, c.cur)
Path(t) == PathOf(Last(t))
At(t) == Node(Path(t))
Valid(t) == t # <<>>
Level(t) == Len(t)
Start == <<Enter(<<>>)>>

Parent(c) == Node(c.parent)
GroupAt(t, k) == IF k = 0 THEN NoGroup ELSE t[k].parent
InnermostRepeat(t)   == The({GroupAt(t, k) : k \in {LastOf({i \in DOMAIN t : Parent(t[i]).repeatable})}})
InnermostBlocking(t) == The({GroupAt(t, k) : k \in {LastOf({i \in DOMAIN t : Parent(t[i]).blocking})}})

IsInside(t, path) == \E c \in ToSet(t) : c.parent = path
IsAlternative(t)  == \E c \in ToSet(t) : Parent(c).exclusive
AtLast(c) == c.cur + 1 = c.end
IsLastInPath(t) == Valid(t) /\ (\A c \in ToSet(t) : AtLast(c)) /\ ~ At(t).group

\* The innermost context with more children; the outermost blocking group that the next step leaves.
LastOpen(t) == LastOf({k \in DOMAIN t : ~ AtLast(t[k])})
OutermostExplored(t) ==
    The({GroupAt(t, FirstOf({k \in open + 1 .. Len(t) : Parent(t[k]).blocking})) : open \in {LastOpen(t)}})

\* ++ on the innermost group that has more children; the groups within it are left.
NextSibling(t) ==
    The({IF k = 0 THEN <<>> ELSE [SubSeq(t, 1, k) EXCEPT ![k].cur = @ + 1] : k \in {LastOpen(t)}})

NextAfterSiblings(t) ==
    IF Valid(t) THEN NextSibling([t EXCEPT ![Len(t)].cur = t[Len(t)].end - 1]) ELSE t

Increment(t) ==
    IF ~ Valid(t) THEN t
    ELSE IF At(t).group THEN Append(t, Enter(Path(t)))
    ELSE NextSibling(t)

BackToAncestor(t, path) ==
    IF path = NoGroup THEN t
    ELSE SubSeq(t, 1, LastOf({k \in DOMAIN t : PathOf(t[k]) = path}))

\* The alternatives to what has been chosen are no longer visited.
SkipAlternatives(t) ==
    [k \in DOMAIN t |-> IF Parent(t[k]).exclusive /\ t[k].cur < t[k].end
                        THEN [t[k] EXCEPT !.end = t[k].cur + 1] ELSE t[k]]

SamePlace(s, t) ==
    /\ Valid(s) /\ Valid(t)
    /\ PathOf(Last(s)) = PathOf(Last(t))

\* A memento keeps the innermost context only; undo drops what is deeper.
UndoPoint(t) == [level |-> Len(t), context |-> IF Valid(t) THEN Last(t) ELSE Enter(<<>>)]
Undo(t, m) ==
    IF m.level > 0 /\ m.level <= Len(t) + (IF Valid(t) THEN 0 ELSE 1)
    THEN Append(SubSeq(t, 1, m.level - 1), m.context)
    ELSE t
=============================================================================
