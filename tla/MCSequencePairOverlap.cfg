SPECIFICATION Spec
CONSTANTS
    N = 3
    Sizes = {1, 3}
    Problems <- AllProblems
INVARIANTS
    Apart
