SPECIFICATION Spec
CONSTANTS
  Ed = {e1, e2}
  NoEd = NoEd
  TxSize = 2
  MaxRetries = 1
  TimerMod = 4
  AirCap = 2
  Overlap = FALSE
  Preempted = TRUE
  MaxMsg = 2
  MaxRestarts = 1
SYMMETRY Devices
INVARIANTS TypeOK
PROPERTIES ImplementsTransfer
