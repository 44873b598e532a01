SPECIFICATION Spec
CONSTANTS
    FileKind = "feedthrough"
    Name <- AllNames
    Assign <- Assignments
    Files <- AllFiles
    NoNode = NoNode
INVARIANTS
    ReadsTheFile
