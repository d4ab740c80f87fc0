SPECIFICATION FairSpec
CONSTANTS
    Schema <- ScalarsFirst
    Values = {0, 1}
    Items = {i, j}
    NoValue = NoValue
    MaxVersion = 3
INVARIANTS TypeOK ObjectCopyFollows CollectionCopyFollows
PROPERTIES OldValuesArePrevious DeletionIsReported
CHECK_DEADLOCK FALSE
