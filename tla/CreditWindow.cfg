SPECIFICATION Spec
CONSTANTS
    Window = 7
    MaxFrame = 2
INVARIANTS
    TypeOK
    Conserved
    NeverExceeded
    NeverStarved
