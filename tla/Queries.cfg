SPECIFICATION Spec
CONSTANTS
    Null = Null
    Queried = "Person"
    Columns <- MCColumns
    Cells <- MCCells
    Comparisons <- MCComparisons
    Later <- MCLater
    MaxOperands = 4
    SortColumn = "enum"
    LinkColumn = "link"
INVARIANTS
    TypeOK
    QueryMeansExpression
    ClauseAgreesWithObjects
    LoopsSeeEachOnce
CHECK_DEADLOCK FALSE
