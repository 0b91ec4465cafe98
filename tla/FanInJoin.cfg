\* Two workers, every run may be canceled, the watchdog runs.
CONSTANTS
  Anchor = anchor
  Workers = {w1, w2}
  Cancelable = {anchor, w1, w2}
  Nobody = Nobody
SPECIFICATION FairSpec
INVARIANTS
  TypeOK
  EvidenceHonest
  QueuedOnce
  ContinuedUnlessCanceled
PROPERTIES
  NoWorkerLeftBehind
  BlockedRecovers
