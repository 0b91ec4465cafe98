SPECIFICATION Spec
CONSTANTS
  Users = {u1}
  Slots = {w1}
  First = w1
  ById = {c1}
  ByThread = {}
  None = None
  MaxTop = 2
INVARIANT
  NoCrossSessionCycle
CHECK_DEADLOCK FALSE
