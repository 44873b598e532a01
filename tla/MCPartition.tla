---------------------------- MODULE MCPartition ----------------------------
(***************************************************************************)
(* main of the partitioner with every short command line and a few texts;  *)
(* and the parser with interfaces that use what main's does not:           *)
(* alternatives, options, optional sequences, repeatable groups.           *)
(***************************************************************************)
EXTENDS Partition

CONSTANTS
    MaxMain, MaxOther,    \* lengths of the command lines of main and of the other interfaces
    NoNumber,             \* stands in a header for what is no number
    Nothing               \* and for the end of the text

HgrFile == And(required({"-h", "--hgr"}), value)

Choice   == Comma(Or(command({"a"}), command({"b"})), option({"-v"}))
Options  == Comma(Comma(option({"-v"}), option({"-w"})), values)
Output   == Comma(And(option({"-o"}), value), option({"-v"}))
Settings == Comma(Or(required({"-v"}), required({"-w"})), opt_values)
Modes    == Or(And(And(command({"a"}), Comma(option({"-v"}), option({"-w"}))), value), command({"b"}))
Nested   == And(command({"a"}), Or(And(command({"b"}), value), Comma(command({"c"}), option({"-v"}))))
Pairs    == repeatable(And(required({"-p"}), value))

AllInterfaces == {HgrFile, Choice, Options, Output, Settings, Modes, Nested, Pairs}

FlagsUsed(g) == CASE g = Choice -> {"a", "b", "-v"} [] g = Options -> {"-v", "-w"}
                  [] g = Output -> {"-o", "-v"} [] g = Settings -> {"-v", "-w"}
                  [] g = Modes -> {"a", "b", "-v", "-w"} [] g = Nested -> {"a", "b", "c", "-v"}
                  [] g = Pairs -> {"-p"}

CommandLines(g) ==
    IF g = HgrFile
    THEN BoundedSeq({<<>>, <<"-h">>, <<"--hgr">>, <<"x">>, <<"-h", "x">>, <<"-h", "1">>, <<".", "5">>}, MaxMain)
    ELSE BoundedSeq({<<"x">>} \cup {<<f>> : f \in FlagsUsed(g)}
                    \cup {<<f, "x">> : f \in FlagsUsed(g) \cap {"-o", "-p"}}, MaxOther)

Digit == [c \in {"0", "1", "2", "3"} |-> CASE c = "0" -> 0 [] c = "1" -> 1 [] c = "2" -> 2 [] c = "3" -> 3]

T(n, m, ls, nl) == [netNum |-> n, nodeNum |-> m, lines |-> ls, newline |-> nl]
TwoNets == {<<"1", " ", "2">>, <<"2", " ", "2", " ">>, <<"1", "\t", "2">>, <<"3", " ", "x", " ", "1">>, <<"0">>, <<>>}
Files == {T(2, 3, ls, nl) : ls \in BoundedSeq(TwoNets, 2), nl \in BOOLEAN}
         \cup {T(NoNumber, 2, <<>>, TRUE), T(2, NoNumber, <<>>, TRUE), T(2, Nothing, <<>>, FALSE),
               T(1, 12, <<<<"1", "2">>>>, FALSE)}
=============================================================================
