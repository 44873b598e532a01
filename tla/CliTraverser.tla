---------------------------- MODULE CliTraverser ----------------------------
(***************************************************************************)
(* clipp.h, scoped_dfs_traverser: the walk of the parser.  It remembers    *)
(* the place of the last match and, on a stack of mementos (scopes), the   *)
(* places it has to return to; a blocking parameter or group that has not  *)
(* matched hides what follows it.                                          *)
(***************************************************************************)
EXTENDS CliGroup

NewTraverser ==
    [pos |-> Start, lastMatch |-> <<>>, posAfterLastMatch |-> <<>>, scopes |-> <<>>,
     ignoreBlocks |-> FALSE, repeatGroupStarted |-> FALSE, repeatGroupContinues |-> FALSE]

matched(s) == SamePlace(s.pos, s.lastMatch)

\* Returns to the scopes on top of the stack for as long as While holds of scope and place.
Unwind(s, While(_, _)) ==
    FoldRight(LAMBDA m, acc : The({
                  IF a.more /\ While(m, a.now.pos)
                  THEN [a EXCEPT !.now.pos = Undo(a.now.pos, m), !.now.scopes = Front(@)]
                  ELSE [a EXCEPT !.more = FALSE] : a \in {acc}}),
              s.scopes, [now |-> s, more |-> TRUE]).now

Continue(s) ==
    [s EXCEPT !.repeatGroupContinues =
        /\ @ /\ Valid(s.posAfterLastMatch)
        /\ InnermostRepeat(s.pos) \in {InnermostRepeat(s.lastMatch)} \ {NoGroup}]

check_if_left_scope(s) ==
    The({Continue(v) : v \in {Unwind(u, LAMBDA m, t : m.level > Level(t)) : u \in
        {IF Valid(s.posAfterLastMatch) /\ Level(s.pos) < Level(s.posAfterLastMatch)
         THEN Unwind([s EXCEPT !.posAfterLastMatch = <<>>], LAMBDA m, t : m.level >= Level(t))
         ELSE s}}})

\* All scopes are undone, the last one first.
return_to_outermost_scope(s) ==
    LET from == IF s.scopes = <<>> THEN <<>> ELSE s.pos
    IN  [s EXCEPT !.pos = FoldRight(LAMBDA m, t : Undo(t, m), s.scopes, from), !.scopes = <<>>,
                  !.posAfterLastMatch = <<>>, !.repeatGroupContinues = FALSE]

return_to_level(s, level) == Unwind(s, LAMBDA m, t : Level(t) > level)

\* operator ++: where the walk goes from a place that is not the last one, empty if nowhere
NextPlace(s) ==
    The({IF s.ignoreBlocks \/ At(s.pos).group \/ matched(s) THEN Increment(s.pos)
         ELSE IF g # NoGroup /\ ~ IsInside(s.lastMatch, g)
         THEN NextAfterSiblings(BackToAncestor(s.pos, g))
         ELSE IF ~ At(s.pos).blocking \/ Parent(Last(s.pos)).exclusive THEN NextSibling(s.pos)
         ELSE NextAfterSiblings(s.pos) : g \in {OutermostExplored(s.pos)}})

Advance(s) ==
    IF ~ Valid(s.pos) THEN s
    ELSE IF IsLastInPath(s.pos) THEN return_to_outermost_scope(s)
    ELSE The({check_if_left_scope(v) : v \in
             {IF Valid(u.pos) THEN u ELSE return_to_outermost_scope(u) :
              u \in {[s EXCEPT !.pos = NextPlace(s)]}}})

repeat_group_started(s, match) ==
    \E g \in {InnermostRepeat(match.pos)} \ {NoGroup} :
        \/ InnermostRepeat(s.lastMatch) # g
        \/ ~ s.repeatGroupContinues \/ ~ match.repeatGroupContinues
        \/ s.scopes = <<>>
        \/ g = s.pos[1].parent /\ PathOf(Last(s.scopes).context) = Append(g, 1)

is_last_in_current_scope(s, t) ==
    IF s.scopes = <<>> THEN IsLastInPath(t)
    ELSE Level(Increment(t)) < Last(s.scopes).level

\* A blocking place matched: the walk goes on from there.
AfterBlocking(s, t, stays) ==
    IF is_last_in_current_scope(s, t)
    THEN [s EXCEPT !.pos = IF ~ stays /\ s.scopes # <<>> THEN Undo(t, Last(s.scopes)) ELSE t]
    ELSE The({IF Level(n) < Level(s.pos) THEN return_to_level(s, Level(n))
              ELSE [s EXCEPT !.pos = n,
                             !.scopes = IF Level(n) > Level(s.pos) THEN Append(@, UndoPoint(s.pos)) ELSE @] :
              n \in {IF stays THEN t ELSE Increment(t)}})

\* From the match back to the blocking group around it, unless it blocks itself.
MatchPlace(t) ==
    IF At(t).blocking THEN t ELSE BackToAncestor(t, InnermostBlocking(t))

\* A blocking place that was not the one matched is stepped over.
SteppedTo(s, match, t) ==
    The({[s EXCEPT !.pos = IF ~ SamePlace(t, @) /\ At(@).blocking THEN NextSibling(@) ELSE @,
                   !.lastMatch = match.pos,
                   !.repeatGroupStarted = started, !.repeatGroupContinues = started] :
         started \in {repeat_group_started(s, match)}})

Discarded(t) == IF IsAlternative(t) THEN SkipAlternatives(t) ELSE t

next_after_match(s, match) ==
    IF s.ignoreBlocks THEN s
    ELSE The({Continue([u EXCEPT !.posAfterLastMatch = u.pos]) : u \in
             {IF ~ At(t).blocking THEN return_to_level(v, Level(t))
              ELSE AfterBlocking(v, Discarded(t), At(t).repeatable \/ At(t).group) :
              v \in {SteppedTo(s, match, MatchPlace(match.pos))}, t \in {MatchPlace(match.pos)}}})

\* All places from s on, s included: what the searches for a match go through.
RECURSIVE Places(_)
Places(s) == IF Valid(s.pos) THEN <<s>> \o The({Places(u) : u \in {Advance(s)}}) ELSE <<>>
=============================================================================
