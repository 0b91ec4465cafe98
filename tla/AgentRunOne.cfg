\* One run, two slots, one user, one requeue allowed; no symmetry, for the
\* liveness of the deadline sweep.
CONSTANTS
  r1 = r1
  r2 = r2
  Runs <- OneRun
  Workers = {w1, w2}
  Users = {u1}
  NoRun = NoRun
  NoWorker = NoWorker
  Up = Up
  Stopping = Stopping
  Stopped = Stopped
  MaxRequeues = 1
  RootOf <- SelfRooted
  After <- NoneDeferred
  OlderInThread <- NoOlder
  Dated <- AllDated
SPECIFICATION SweptSpec
INVARIANTS
  TypeOK
  FencedByAttempt
  AttemptsArePaidFor
  OutcomeAnnounced
PROPERTIES
  TerminalIsFinal
  CompletedByOwner
  ImplementsContract
  EveryRunSettles
