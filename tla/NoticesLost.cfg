SPECIFICATION FairSpec
CONSTANTS
  Conditions = {spec, lost}
  SpecCondition = spec
  Passes = {p1}
  Runs = {r1}
  None = None
  MaxFaults = 1
  Sweeps = FALSE
PROPERTY
  NoticeSettles
CHECK_DEADLOCK FALSE
