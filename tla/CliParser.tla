----------------------------- MODULE CliParser -----------------------------
(***************************************************************************)
(* clipp.h, parser and parsing_result: maps the arguments of a command     *)
(* line, one after the other, to the parameters of an interface, keeps the *)
(* required parameters that have not been met, and executes the actions of *)
(* the parameters whose mappings have no error.                            *)
(***************************************************************************)
EXTENDS CliTraverser

CONSTANTS
    Interfaces,            \* the groups that are parsed with
    ArgumentsOf(_),        \* an interface -> the command lines given to it
    Digits,                \* the pieces that are numbers, with or without a sign
    Point                  \* the piece "."

VARIABLES
    argv,     \* the arguments, program name left out
    phase,    \* "start", "parse", "parsed", then whatever the caller does
    parser,   \* the parser object
    next,     \* number of the argument to be parsed
    actions   \* the actions executed: pairs [param, arg]

parserVars == <<interface, argv, phase, parser, next, actions>>

-----------------------------------------------------------------------------
\* The required parameters met from t on, at its level or deeper.
RECURSIVE PotentialMisses(_, _)
PotentialMisses(t, level) ==
    IF Level(t) = 0 \/ Level(t) < level THEN <<>>
    ELSE (IF At(t).required /\ ~ At(t).group THEN <<t>> ELSE <<>>) \o
         The({PotentialMisses(u, level) : u \in
             {IF At(t).required THEN Increment(t)
              ELSE IF At(t).blocking /\ ~ At(t).group THEN NextAfterSiblings(t)
              ELSE NextSibling(t)}})

miss_candidate(t, index, first) == [pos |-> t, index |-> index, startsRepeatGroup |-> first]
Candidates(ts, index, first) ==
    The({[k \in DOMAIN us |-> miss_candidate(us[k], index, first)] : us \in {ts}})

NewParser(index) ==
    [pos |-> NewTraverser, index |-> index, eaten |-> 0, args |-> <<>>,
     missCand |-> Candidates(PotentialMisses(Start, 1), index, FALSE), blocked |-> FALSE]

\* A mapping of an argument; match is empty if no parameter took it.
arg_mapping(index, arg, match) ==
    [index |-> index, arg |-> arg, match |-> match, repeat |-> 0,
     startsRepeatGroup |-> FALSE, blocked |-> FALSE, conflict |-> FALSE]

bad_repeat(a) ==
    /\ Valid(a.match) /\ a.repeat > 0
    /\ ~ At(a.match).repeatable /\ InnermostRepeat(a.match) = NoGroup

\* Mutant: the action of a parameter that could not be reached is executed.
UnlessMisplaced(a) == ~ Valid(a.match) \/ a.conflict \/ bad_repeat(a)

any_error(a) == ~ Valid(a.match) \/ a.blocked \/ a.conflict \/ bad_repeat(a)

occurrences_of(args, path) ==
    The({IF k = 0 THEN 0 ELSE args[k].repeat + 1 :
         k \in {LastOf({i \in DOMAIN args : Valid(args[i].match) /\ Path(args[i].match) = path})}})

\* Two contexts that chose different members of one group of alternatives.
OtherAlternative(c, d) == Parent(c).exclusive /\ d.parent = c.parent /\ d.cur # c.cur
Excludes(t, u) == \E c \in ToSet(t), d \in ToSet(u) : OtherAlternative(c, d)

\* The mappings of the current repeat cycle that the match t contradicts.
Conflicts(p, t) ==
    LET StartsCycle(k) == p.args[k].startsRepeatGroup
        Contradicts(k) == ~ p.args[k].blocked /\ Excludes(t, p.args[k].match)
    IN  IF p.pos.repeatGroupStarted THEN {}
        ELSE {k \in DOMAIN p.args : Contradicts(k) /\ \A l \in k + 1 .. Len(p.args) : ~ StartsCycle(l)}

clean_miss_candidates_for(cands, t) ==
    The({IF k = 0 THEN cands ELSE RemoveAt(cands, k) :
         k \in {LastOf({i \in DOMAIN cands : SamePlace(cands[i].pos, t)})}})

\* For one context of the match: back to the start of the repeat cycle, as far as it is noticed.
DiscardFor(cands, context) ==
    LET hit(k) == \E d \in ToSet(cands[k].pos) : OtherAlternative(context, d)
        stops(k) == IF hit(k) THEN k > 1 /\ cands[k - 1].startsRepeatGroup
                    ELSE cands[k].startsRepeatGroup
        S == {k \in DOMAIN cands : stops(k)}
        first == IF S = {} THEN 1 ELSE CHOOSE k \in S : \A l \in S : l <= k
        kept == SelectSeq([k \in DOMAIN cands |-> k], LAMBDA k : k < first \/ ~ hit(k))
    IN  [k \in DOMAIN kept |-> cands[kept[k]]]
discard_alternative_miss_candidates(cands, t) == FoldLeft(DiscardFor, cands, t)

\* Mutant: nothing is expected after an option that takes a value.
NoMissesAfter(p, t) == <<>>

\* The required parameters that follow t: in a new repeat cycle, or after an optional blocking one.
FollowUps(p, t, npos) ==
    IF InnermostRepeat(t) # NoGroup
    THEN IF p.pos.repeatGroupStarted
         THEN SelectSeq(PotentialMisses(npos, Level(npos)), LAMBDA u : InnermostRepeat(u) = InnermostRepeat(t))
         ELSE <<>>
    ELSE IF At(t).blocking /\ ~ At(t).required /\ Level(npos) >= Level(t)
    THEN SelectSeq(PotentialMisses(npos, Level(npos)),
                   LAMBDA u : \A k \in DOMAIN p.missCand : ~ SamePlace(p.missCand[k].pos, u))
    ELSE <<>>

add_miss_candidates_after(p, t) ==
    The({Candidates(FollowUps(p, t, npos), p.index, InnermostRepeat(t) # NoGroup) :
         npos \in {Increment(Discarded(t))}})

\* p has moved on; S are the mappings in conflict with t.
Mapped(p, str, t, S) ==
    LET Marked == [k \in DOMAIN p.args |-> [p.args[k] EXCEPT !.conflict = @ \/ k \in S]]
    IN  [p EXCEPT !.args = Append(Marked,
            [arg_mapping(p.index, str, t) EXCEPT
                !.repeat = occurrences_of(p.args, Path(t)), !.conflict = S # {},
                !.startsRepeatGroup = p.pos.repeatGroupStarted])]

\* match = [str, pos], pos a place of the walk.
add_match(p, match) ==
    The({[r EXCEPT !.missCand = The({discard_alternative_miss_candidates(c, match.pos.pos) :
            c \in {clean_miss_candidates_for(@ \o add_miss_candidates_after(r, match.pos.pos), match.pos.pos)}})] :
         r \in {Mapped(q, match.str, match.pos.pos, Conflicts(q, match.pos.pos)) :
                q \in {[p EXCEPT !.pos = next_after_match(@, match.pos)]}}})

-----------------------------------------------------------------------------
(* The searches: each returns the matches to be added, none if it fails.   *)

\* Which parameters a search considers: those with flags, those without, all.
Selects(select, param) ==
    \/ select = "all"
    \/ select = "flags" /\ param.flags # {}
    \/ select = "values" /\ param.flags = {}

Match(arg, s) == [str |-> arg, pos |-> s]
Takes(s, arg) == MatchLength(At(s.pos), arg)
TakesIf(s, arg, select) == IF ~ At(s.pos).group /\ Selects(select, At(s.pos)) THEN Takes(s, arg) ELSE 0

\* The first place that takes n pieces of the argument.
TakenBy(places, lengths, arg, n) ==
    The({IF n = 0 \/ k = 0 THEN <<>> ELSE <<Match(SubSeq(arg, 1, n), places[k])>> :
         k \in {FirstOf({i \in DOMAIN places : lengths[i] = n})}})

full_match(places, arg, select) ==
    TakenBy(places, [k \in DOMAIN places |-> TakesIf(places[k], arg, select)], arg, Len(arg))

longest_prefix_match(places, arg, select) ==
    The({TakenBy(places, lengths, arg, LastOf(ToSet(lengths))) :
         lengths \in {[k \in DOMAIN places |-> TakesIf(places[k], arg, select)]}})

\* What is left of an argument, taken by the blocking parameters that follow in one group.
RECURSIVE JoinRest(_, _, _, _)
JoinRest(s, arg, group, matches) ==
    IF arg = <<>> THEN matches
    ELSE IF \/ ~ Valid(s.pos) \/ Last(s.pos).parent # group
            \/ At(s.pos).group \/ ~ At(s.pos).blocking
            \/ Takes(s, arg) = 0 /\ ~ At(s.pos).repeatable
    THEN <<>>
    ELSE The({JoinRest(u, SubSeq(arg, n + 1, Len(arg)), group,
                       IF n > 0 THEN Append(matches, Match(SubSeq(arg, 1, n), s)) ELSE matches) :
              n \in {Takes(s, arg)},
              u \in {IF Takes(s, arg) > 0 /\ At(s.pos).repeatable THEN s ELSE Advance(s)}})

\* s is where the first n pieces were taken, with blocking ignored.
Join(s, n, arg, first) ==
    IF n = Len(arg) THEN first
    ELSE IF ~ At(s.pos).blocking THEN <<>>
    ELSE The({JoinRest(u, SubSeq(arg, n + 1, Len(arg)), Last(s.pos).parent, first) :
              u \in {IF At(s.pos).repeatable THEN s ELSE Advance(s)}})

try_match_joined_sequence(places, arg, acceptFirst) ==
    The({IF first = <<>> THEN <<>>
         ELSE Join([first[1].pos EXCEPT !.ignoreBlocks = TRUE], Len(first[1].str), arg, first) :
         first \in {longest_prefix_match(places, arg, acceptFirst)}})

FirstFound(tries) ==
    The({IF k = 0 THEN <<>> ELSE tries[k] : k \in {FirstOf({i \in DOMAIN tries : tries[i] # <<>>})}})

\* Flags before values, whole arguments before joined ones.
try_match(p, arg) ==
    The({FirstFound(tries) : tries \in
        {<< full_match(places, arg, "flags"),
            try_match_joined_sequence(places, arg, "flags"),
            full_match(places, arg, "values"),
            try_match_joined_sequence(places, arg, "all") >> : places \in {Places(p.pos)}}})

\* Mutant: of a joined argument only the first part is added.
AddFirst(p, matches) == IF matches = <<>> THEN p ELSE add_match(p, matches[1])

AddMatches(p, matches) ==
    LET Adding[k \in 0 .. Len(matches)] == IF k = 0 THEN p ELSE add_match(Adding[k - 1], matches[k])
    IN  Adding[Len(matches)]

\* Mappings by parameters that cannot be reached now: ahead of the walk, or from the start.
Attempt(p, arg) ==
    The({SubSeq(AddMatches(q, ms).args, Len(q.args) + 1, Len(q.args) + Len(ms)) :
         q \in {[p EXCEPT !.pos.ignoreBlocks = TRUE]},
         ms \in {try_match([p EXCEPT !.pos.ignoreBlocks = TRUE], arg)}})

Unreachable(p, arg) ==
    The({FirstFound(found) : found \in
        {[k \in 1 .. 2 |-> Attempt(<<p, NewParser(p.index)>>[k], arg)]}})

NotMatched(p, arg) ==
    LET node == At(p.pos.pos)
        blocks == ~ matched(p.pos) /\ node.required /\ node.blocking
    IN  The({IF found # <<>>
             THEN [p EXCEPT !.args = @ \o [k \in DOMAIN found |-> [found[k] EXCEPT !.blocked = TRUE]]]
             ELSE [p EXCEPT !.args = Append(@, arg_mapping(p.index, arg, <<>>)), !.blocked = @ \/ blocks] :
             found \in {Unreachable(p, arg)}})

\* parser::operator()
Consume(p, arg) ==
    The({The({IF matches # <<>> THEN AddMatches(q, matches) ELSE NotMatched(q, arg) :
              matches \in {IF q.blocked THEN <<>> ELSE try_match(q, arg)}}) :
         q \in {[p EXCEPT !.eaten = @ + 1, !.index = @ + 1]}})

-----------------------------------------------------------------------------
\* A number cut in two ("-o12" ".34") is put together in the second argument.
sanitize_args(args) ==
    LET Fraction(arg) == Len(arg) > 1 /\ arg[1] = Point /\ arg[2] \in Digits
        Move(as, k) ==
            LET prev == as[k - 1]
            IN  IF k > 1 /\ Fraction(as[k]) /\ prev # <<>> /\ Last(prev) \in Digits
                THEN [as EXCEPT ![k] = <<Last(prev)>> \o as[k], ![k - 1] = Front(prev)]
                ELSE as
    IN  FoldLeft(Move, args, [k \in DOMAIN args |-> k])

NoParser == [index |-> 0, args |-> <<>>, missCand |-> <<>>]

ParserInit ==
    /\ interface \in Interfaces
    /\ argv \in ArgumentsOf(interface)
    /\ phase = "start"
    /\ parser = NoParser
    /\ next = 1
    /\ actions = <<>>

Sanitize ==
    /\ phase = "start"
    /\ argv' = sanitize_args(argv)
    /\ phase' = "parse"
    /\ parser' = NewParser(0)
    /\ UNCHANGED <<interface, next, actions>>

\* The loop of parse_args: it ends early when the walk has nowhere left to go.
ParseArgument ==
    /\ phase = "parse" /\ next <= Len(argv) /\ Valid(parser.pos.pos)
    /\ parser' = Consume(parser, argv[next])
    /\ next' = next + 1
    /\ UNCHANGED <<interface, argv, phase, actions>>

execute_actions ==
    /\ phase = "parse" /\ (next > Len(argv) \/ ~ Valid(parser.pos.pos))
    /\ phase' = "parsed"
    /\ LET good == SelectSeq(parser.args, LAMBDA a : ~ any_error(a))
       IN  actions' = [k \in DOMAIN good |-> [param |-> Path(good[k].match), arg |-> good[k].arg]]
    /\ UNCHANGED <<interface, argv, parser, next>>

ParserNext == Sanitize \/ ParseArgument \/ execute_actions

\* parsing_result::any_error
AnyError == parser.missCand # <<>> \/ \E k \in DOMAIN parser.args : any_error(parser.args[k])

-----------------------------------------------------------------------------
(* What an interface without repeatable groups means: the words            *)
(* (sequences of parameters) that a node derives.  A blocking child comes  *)
(* before all that follows it, and hides them when nothing of it is given. *)

RECURSIVE Derives(_, _)
Derives(path, w) ==
    LET node == Node(path)
        children == node.children
        Of(k) == SelectSeq(w, LAMBDA q : IsPrefix(Append(path, k), q))
        ChildOf(q) == q[Len(path) + 1]
        Reached(k) == \A j \in 1 .. k - 1 : children[j].blocking => Of(j) # <<>>
        InOrder(i, j) == i <= j \/ \A k \in j .. i : ~ children[k].blocking
    IN  IF ~ node.group
        THEN (w = <<>> => ~ node.required) /\ (Len(w) > 1 => node.repeatable)
        ELSE IF node.exclusive
        THEN \E k \in DOMAIN children : Len(Of(k)) = Len(w) /\ Derives(Append(path, k), w)
        ELSE /\ \A k \in DOMAIN children :
                    IF Reached(k) THEN Derives(Append(path, k), Of(k)) ELSE Of(k) = <<>>
             /\ \A x, y \in DOMAIN w : x < y => InOrder(ChildOf(w[x]), ChildOf(w[y]))

(***************************************************************************)
(* The errors that parsing_result reports are those of the grammar: when   *)
(* every argument has been mapped to a parameter that could be reached,    *)
(* and to none in a repeatable group, an error (a parameter missing,       *)
(* repeated, or in conflict with another) is reported exactly if the       *)
(* parameters, in order, are no word of the interface.                     *)
(***************************************************************************)
Word == [k \in DOMAIN parser.args |-> Path(parser.args[k].match)]
ErrorsFollowGrammar ==
    (phase = "parsed" /\ \A a \in ToSet(parser.args) :
                            Valid(a.match) /\ ~ a.blocked /\ InnermostRepeat(a.match) = NoGroup)
        => (AnyError <=> ~ Derives(<<>>, Word))

(***************************************************************************)
(* No argument is passed over: the mappings, those without a parameter     *)
(* included, spell the command line, in its order.                         *)
(***************************************************************************)
NothingDropped ==
    phase = "parsed" =>
        FlattenSeq([k \in DOMAIN parser.args |-> parser.args[k].arg]) = FlattenSeq(argv)
=============================================================================
