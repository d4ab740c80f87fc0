SPECIFICATION Spec
CONSTANTS
  Threads = {loop, worker}
  LoopThread = loop
  Schedulers = {s1}
  Fns = {f1, f2}
  NoScheduler = NoScheduler
  NoFn = NoFn
INVARIANTS
  DestructorSignalsLiveHandle
