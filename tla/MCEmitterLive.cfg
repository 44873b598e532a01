SPECIFICATION FairMainSpec
CONSTANTS
    NumInputs = 2
    NumNodes = 4
    Wiring = "output inside"
    Node <- Nodes
    Model <- TheModel
    Assign <- Assignments
    Netlists <- Family
    CostMax = 1000
    HalfUlp = 100
    DepthMax = 1000
    Null = Null
PROPERTY
    PrintsInTheEnd
