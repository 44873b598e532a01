SPECIFICATION Spec
CONSTANTS
    FileKind = "ordinary"
    Name <- AllNames
    Assign <- Assignments
    Files <- AllFiles
    NoNode = NoNode
INVARIANTS
    ReadsTheFile
    FanOutCounts
    NoStaleNode
