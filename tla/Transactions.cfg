SPECIFICATION FairSpec
CONSTANTS
  Threads = {t1, t2}
  NoThread = NoThread
  Dbs = {a, b, c}
  Keys = {k}
  MaxVersion = 3
  MaxDepth = 2
INVARIANTS
  TypeOK
  WriterOnLatest
  LockIsReleasable
PROPERTIES
  WritesCommitTheirWork
  MonotonicReads
  WaitsOnlyForAbandoned
