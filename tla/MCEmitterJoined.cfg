SPECIFICATION MainSpec
CONSTANTS
    NumInputs = 4
    NumNodes = 7
    Wiring = "joined"
    Node <- Nodes
    Model <- TheModel
    Assign <- Assignments
    Netlists <- Family
    CostMax = 1000
    HalfUlp = 100
    DepthMax = 1000
    Null = Null
INVARIANTS
    EmitterTypeOK
    EquivalentStates
    ReportIsTrue
