SPECIFICATION Spec
CONSTANTS
    NetName <- NetNames
    NodeName <- NodeNames
    Files <- AllFiles
    MaxDepth = 8
    NoNet = NoNet
    NoNode = NoNode
INVARIANTS
    TypeOK
    MomentsOfTrees
    CallsStayInTree
PROPERTIES
    EndsUnlessCircle
