SPECIFICATION TimedSpec
CONSTANTS
  Ed = {e1}
  NoEd = NoEd
  MaxRetries = 1
  TimerMod = 4
  AirCap = 2
  MaxMsg = 2
  Preempted = TRUE
  EdRestarts = TRUE
  RxSize = 2
  MaxRestarts = 1
INVARIANTS TypeOK RetransmissionArmed OneSlotPerSender InOrder
PROPERTIES ImplementsTransfer TransferEnds
