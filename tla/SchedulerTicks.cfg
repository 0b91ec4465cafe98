SPECIFICATION FairSpec
CONSTANTS
  NumFires = 1
  NumSteps = 2
  MaxAttempts = 2
  Daemon = daemon
  Ticks = {daemon, api}
  NoResume = {api}
  None = None
  MaxFaults = 1
  MaxDispatches = 2
INVARIANTS
  TypeOK
  OneRunAtATime
  AttemptsCountExecutions
  AgentAwaited
PROPERTIES
  
  SettledIsFinal
  FireSettles
