\* A root run and its child, one slot: the reaper takes the root first.
CONSTANTS
  r1 = r1
  r2 = r2
  Runs <- TwoRuns
  Workers = {w1}
  Users = {}
  NoRun = NoRun
  NoWorker = NoWorker
  Up = Up
  Stopping = Stopping
  Stopped = Stopped
  MaxRequeues = 1
  RootOf <- ChildOfFirst
  After <- NoneDeferred
  OlderInThread <- NoOlder
  Dated <- RootDated
SPECIFICATION ReapedSpec
PROPERTIES
  AbandonedIsRequeued
