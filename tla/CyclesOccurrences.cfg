SPECIFICATION FairSpec
CONSTANTS
  NumRuns = 2
  MaxConcurrency = 1
  Limit = 1
  Schedulers = {loop}
  Callers = {api}
  Calls = {f1}
  Suspects = {1}
  None = None
  MaxFaults = 1
INVARIANTS
  TypeOK
  CapacityRespected
  AgentCounted
  CompletedHonestly
PROPERTIES
  ImplementsContract
  SettledStays
  OccurrenceSettles
  SlotIsTaken
