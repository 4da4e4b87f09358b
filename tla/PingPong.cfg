SPECIFICATION Spec
CONSTANTS
    KC = 4
    Depths = {0, 1, 2, 4, 5, 7, 8, 11}
    Junk = Junk
INVARIANTS
    DrainedInOrder
    NothingLeftBehind
