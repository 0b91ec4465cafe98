\* A run deferred behind another of its thread, two slots, no requeue.
CONSTANTS
  r1 = r1
  r2 = r2
  Runs <- TwoRuns
  Workers = {w1, w2}
  Users = {}
  NoRun = NoRun
  NoWorker = NoWorker
  Up = Up
  Stopping = Stopping
  Stopped = Stopped
  MaxRequeues = 0
  RootOf <- SelfRooted
  After <- SecondAfterFirst
  OlderInThread <- FirstIsOlder
  Dated <- AllDated
SPECIFICATION Spec
SYMMETRY WorkerSymmetry
INVARIANTS
  DeferredRunsWait
