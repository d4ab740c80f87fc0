SPECIFICATION FairSpec
CONSTANTS
  Threads = {t1, t2}
  Requests = {r1, r2}
CHECK_DEADLOCK FALSE
INVARIANTS
  TypeOK
  SentOnlyWhenSecured
PROPERTIES
  HangsOnlyOnPeer
  ImplementsCall
