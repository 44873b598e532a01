SPECIFICATION MainSpec
CONSTANTS
    NumInputs = 2
    NumNodes = 5
    Wiring = "two gates and chains"
    Node <- Nodes
    Model <- TheModel
    Assign <- Assignments
    Netlists <- Family
    CostMax = 1000
    HalfUlp = 100
    DepthMax = 1000
    Null = Null
INVARIANTS
    EquivalentStates
    NetworkConsistent
    NoHalfBuiltSons
    UniqueDrivers
    DrivenBeforeUse
    CrashesOnUnusedInput
    AbsorbedOnlyIfRead
PROPERTIES
    MappedOnce
    PrintsWhatItRead
