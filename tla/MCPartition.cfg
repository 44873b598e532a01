SPECIFICATION Spec
CONSTANTS
    MaxMain = 3
    MaxOther = 4
    NoNumber = NoNumber
    Nothing = Nothing
    Garbage = NoNumber
    Absent = Nothing
    MaxUninitialized = 2
    Interfaces <- AllInterfaces
    MainInterface <- HgrFile
    ArgumentsOf <- CommandLines
    Digits = {"1", "5"}
    Point = "."
    Texts <- Files
    DigitOf <- Digit
    Blank = " "
INVARIANTS
    ErrorsFollowGrammar
    NothingDropped
    NameFollowsFlag
    Incidence
CHECK_DEADLOCK FALSE
