SPECIFICATION Spec
CONSTANT Files <- AllFiles
INVARIANTS
    TypeOK
    Ordered
    ReturnsDisjunction
    AnswersGroundTruth
    CrashesOnBadFiles
PROPERTIES
    Ends
