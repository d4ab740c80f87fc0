SPECIFICATION Spec
CONSTANTS
    Nil = Nil
    Null = Nil
    Classes <- MCClasses
    Embedded <- MCEmbedded
    Schema <- MCSchema
    Heap <- MCHeap
    ClassOf <- MCClassOf
    Numbers = {1, 2}
    MapKeys = {"k"}
    MaxKeys = 4
    MaxLen = 2
    MaxSteps = 70
    MaxOps = 3
INVARIANTS TypeOK GraphIsSound OneRowPerKey
PROPERTIES AddedIsDetached OnlyNamedRowsChange IteratorDenotes
CHECK_DEADLOCK FALSE
