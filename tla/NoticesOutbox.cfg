SPECIFICATION FairSpec
CONSTANTS
  Conditions = {spec, lost}
  SpecCondition = spec
  Passes = {p1, p2}
  Runs = {r1, r2}
  None = None
  MaxFaults = 2
  Sweeps = TRUE
INVARIANTS
  TypeOK
  NoSecondPost
  HonestOutbox
PROPERTIES
  SettledDeferralStays
  DeferralIsNoticed
CHECK_DEADLOCK FALSE
