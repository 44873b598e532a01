----------------------------- MODULE Partition -----------------------------
(***************************************************************************)
(* hw2_pnr/partition: main reads the command line with clipp, ignores what *)
(* clipp returns, reads the hypergraph from the file named, calls the      *)
(* partitioner, whose body is still to be written, and prints the result.  *)
(* A character of the file is a digit, Blank (a space) or anything else.   *)
(***************************************************************************)
EXTENDS CliParser

CONSTANTS
    MainInterface,      \* the one of Interfaces that main builds
    Texts,              \* contents of files: [netNum, nodeNum, lines, newline]
    Garbage,            \* netNum or nodeNum where the text has something that is no number
    Absent,             \* netNum or nodeNum where the text has ended
    MaxUninitialized,   \* bound on what an uninitialized int holds
    DigitOf,            \* a character that is a digit -> its value
    Blank

VARIABLES
    inputFile,    \* the name given, <<>> if none
    text,         \* the file as opened: a text, or NotOpened
    netNum,       \* the local variable of parse_input
    line,         \* the string s of parse_input
    nodes,        \* HyperGraph: the nets of each node,
    nets          \* and the nodes of each net, all numbered from 0

partitionVars == <<inputFile, text, netNum, line, nodes, nets>>
vars == <<parserVars, partitionVars>>

\* From a stream that could not be opened as little can be read as from an empty text.
NotOpened == [netNum |-> Absent, nodeNum |-> Absent, lines |-> <<>>, newline |-> FALSE]
Uninitialized == 0 .. MaxUninitialized

Init ==
    /\ ParserInit
    /\ inputFile = <<>> /\ text = NotOpened
    /\ netNum = 0 /\ line = <<>>
    /\ nodes = <<>> /\ nets = <<>>

Parse == ParserNext /\ UNCHANGED partitionVars

\* The target of value(...) holds what the last executed action of that parameter wrote.
Given == LET k == SelectLastInSeq(actions, LAMBDA a : Node(a.param).flags = {})
         IN  IF k = 0 THEN <<>> ELSE actions[k].arg

OpenFile ==
    /\ phase = "parsed" /\ interface = MainInterface
    /\ inputFile' = Given
    /\ text' \in {NotOpened} \cup (IF Given = <<>> THEN {} ELSE Texts)
    /\ phase' = "opened"
    /\ UNCHANGED <<interface, argv, parser, next, actions, netNum, line, nodes, nets>>

\* What is >> leaves in an int: 0 if a word is no number, but nothing is written at the
\* end of the text or once the stream has failed.
NoNumbers == {Garbage, Absent}
Extracted(number, good) ==
    IF number = Absent \/ ~ good THEN Uninitialized ELSE {IF number = Garbage THEN 0 ELSE number}

\* is >> netNum >> nodeNum, then addNode for each.
ReadHeader ==
    /\ phase = "opened"
    /\ netNum' \in Extracted(text.netNum, TRUE)
    /\ \E n \in Extracted(text.nodeNum, text.netNum \notin NoNumbers) :
          nodes' = [k \in 1 .. n |-> <<>>]
    /\ phase' = "nets"
    /\ UNCHANGED <<interface, argv, parser, next, actions, inputFile, text, line, nets>>

\* getline: at the end of a text that ends in a newline it empties the string, else it keeps it.
NextLine ==
    LET k == Len(nets) + 1
        failed == \/ {text.netNum, text.nodeNum} \cap NoNumbers # {}
                  \/ k > Len(text.lines) /\ ~ text.newline
    IN  IF failed THEN line ELSE IF k <= Len(text.lines) THEN text.lines[k] ELSE <<>>

\* A line being read: the number put together so far (now, flag), the numbers insertNode
\* has put into the net, and the nodes whose insertNet has been called.

\* Lines 31 to 37: a space ends a number.
EndNumber(r) ==
    [now |-> 0, flag |-> FALSE, net |-> Append(r.net, r.now - 1), called |-> Append(r.called, r.now - 1)]

ReadCharacter(r, c) ==
    IF c = Blank /\ r.flag THEN EndNumber(r)
    ELSE IF c \in DOMAIN DigitOf THEN [r EXCEPT !.now = @ * 10 + DigitOf[c], !.flag = TRUE]
    ELSE r

\* Mutant: the number that ends a line is put into the net only.
EndLineOfNet(r) == IF r.flag THEN [r EXCEPT !.net = Append(@, r.now - 1)] ELSE r

\* Lines 43 to 47: so does the end of the line.
EndLine(r) ==
    IF r.flag THEN [r EXCEPT !.net = Append(@, r.now - 1), !.called = Append(@, r.now - 1)] ELSE r

ReadLine(s) ==
    EndLine(FoldLeft(ReadCharacter, [now |-> 0, flag |-> FALSE, net |-> <<>>, called |-> <<>>], s))

\* insertNet for each number; nodes are kept from 1 on, their numbers start at 0.
InsertNets(ns, net, numbers) ==
    [v \in DOMAIN ns |->
        FoldLeft(LAMBDA acc, n : IF n = v - 1 THEN Append(acc, net) ELSE acc, ns[v], numbers)]

ReadNet ==
    /\ phase = "nets" /\ Len(nets) < netNum
    /\ line' = NextLine
    /\ LET r == ReadLine(line')
       IN  IF ToSet(r.called) \subseteq 0 .. Len(nodes) - 1
           THEN /\ nets' = Append(nets, r.net)
                /\ nodes' = InsertNets(nodes, Len(nets), r.called)
                /\ phase' = phase
           ELSE /\ phase' = "undefined"    \* getNode is past the vector
                /\ UNCHANGED <<nodes, nets>>
    /\ UNCHANGED <<interface, argv, parser, next, actions, inputFile, text, netNum>>

\* run() does nothing; print_result reads blockNodeNum[0], and nothing has filled that vector.
PrintResult ==
    /\ phase = "nets" /\ Len(nets) = netNum
    /\ phase' = "undefined"
    /\ UNCHANGED <<interface, argv, parser, next, actions, partitionVars>>

Next == Parse \/ OpenFile \/ ReadHeader \/ ReadNet \/ PrintResult
Spec == Init /\ [][Next]_vars

(***************************************************************************)
(* Although main ignores the errors clipp reports, the name it goes on     *)
(* with is the argument right after the flag, or the rest of the flag's    *)
(* own, and only if the flag comes first; no later argument changes it.    *)
(***************************************************************************)
Flags == interface.children[1].flags
NameAfter(args) ==
    IF args = <<>> \/ args[1] = <<>> \/ args[1][1] \notin Flags THEN <<>>
    ELSE IF Len(args[1]) > 1 THEN Tail(args[1])
    ELSE IF Len(args) > 1 THEN args[2] ELSE <<>>
NameFollowsFlag == phase \in {"opened", "nets", "undefined"} => inputFile = NameAfter(argv)

(***************************************************************************)
(* The two tables of the hypergraph are inverse to each other, repetitions *)
(* counted: insertNode and insertNet are called in two places of           *)
(* parse_input, within a line and for a number that ends it.               *)
(***************************************************************************)
Times(s, e) == Len(SelectSeq(s, LAMBDA x : x = e))
Incidence ==
    \A v \in DOMAIN nodes, n \in DOMAIN nets : Times(nodes[v], n - 1) = Times(nets[n], v - 1)
=============================================================================
