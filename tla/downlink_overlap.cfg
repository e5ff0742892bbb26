SPECIFICATION TimedSpec
CONSTANTS
  Ed = {e1, e2}
  NoEd = NoEd
  TxSize = 2
  MaxRetries = 1
  TimerMod = 4
  AirCap = 2
  Overlap = TRUE
  Preempted = FALSE
  MaxMsg = 2
  MaxRestarts = 0
INVARIANTS RetransmissionArmed
PROPERTIES GiveUpIsPerDevice TransferEnds
