SPECIFICATION FairSpec
CONSTANTS
  Threads = {t1}
  Requests = {r1}
CHECK_DEADLOCK FALSE
PROPERTIES
  RoundTripIsBounded
