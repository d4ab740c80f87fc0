SPECIFICATION Spec
CONSTANTS
    Schema <- ScalarsFirst
    Values = {0, 1}
    Items = {i}
    NoValue = NoValue
    MaxVersion = 3
PROPERTIES RootDeletionIsReported
CHECK_DEADLOCK FALSE
