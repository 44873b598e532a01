SPECIFICATION Spec
CONSTANTS
    Circuits = {1, 2}
    Listings <- AllListings
    NotANumber = NaN
    NaN = NaN
INVARIANTS
    SetsAreClasses
    NeverMixed
