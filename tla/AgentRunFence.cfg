\* A slot without the claim fails the run of the slot that has it.
CONSTANTS
  r1 = r1
  r2 = r2
  Runs <- OneRun
  Workers = {w1, w2}
  Users = {}
  NoRun = NoRun
  NoWorker = NoWorker
  Up = Up
  Stopping = Stopping
  Stopped = Stopped
  MaxRequeues = 1
  RootOf <- SelfRooted
  After <- NoneDeferred
  OlderInThread <- NoOlder
  Dated <- AllDated
SPECIFICATION Spec
PROPERTIES
  OwnerFailsItsRun
