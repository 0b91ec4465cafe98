SPECIFICATION FairSpec
CONSTANTS
  Users = {u1, u2}
  Slots = {w1, w2}
  First = w1
  ById = {c1}
  ByThread = {t1}
  None = None
  MaxTop = 2
INVARIANTS
  TypeOK
  DrainedOnce
PROPERTIES
  ImplementsInbox
  SteeringIsTaken
CHECK_DEADLOCK FALSE
