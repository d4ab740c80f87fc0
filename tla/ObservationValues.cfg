SPECIFICATION Spec
CONSTANTS
    Schema <- CollectionBetween
    Values = {0, 1}
    Items = {i}
    NoValue = NoValue
    MaxVersion = 3
INVARIANTS NewValuesAreSupplied
CHECK_DEADLOCK FALSE
