SPECIFICATION Spec
CONSTANTS
    N = 4
    Sizes = {1, 3}
    Problems <- AllProblems
INVARIANTS
    TouchesLeft
    RestsOnBelow
PROPERTIES
    Ends
