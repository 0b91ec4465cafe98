\* A person cancels the last worker of the fan-out.
CONSTANTS
  Anchor = anchor
  Workers = {w1, w2}
  Cancelable = {w1, w2}
  Nobody = Nobody
SPECIFICATION Spec
INVARIANTS
  BarrierContinued
