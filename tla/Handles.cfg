SPECIFICATION Spec
CONSTANTS
    Handle = {h1, h2, h3}
    Cell = {1, 2, 3, 4}
    Null = Null
    Unmade = Unmade
SYMMETRY MCSymmetry
INVARIANTS
    TypeOK
    HandlesActAsValues
CHECK_DEADLOCK FALSE
