SPECIFICATION FairSpec
CONSTANTS
  Threads = {loop, worker}
  LoopThread = loop
  Schedulers = {s1, s2}
  Fns = {f1, f2, f3}
  NoScheduler = NoScheduler
  NoFn = NoFn
INVARIANTS
  TypeOK
  RunsInPushOrder
  WakeupOnTheWay
  InvokeSeesLiveHandle
PROPERTIES
  InvokedFunctionsRun
  HandleReclaimed
  ImplementsExecutor
