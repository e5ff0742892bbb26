SPECIFICATION AckSpec
CONSTANTS
  Ed = {e1, e2}
  NoEd = NoEd
  MaxRetries = 1
  TimerMod = 4
  AirCap = 1
  MaxMsg = 3
  Preempted = FALSE
  EdRestarts = FALSE
  RxSize = 1
  MaxRestarts = 0
SYMMETRY Devices
INVARIANTS InOrderAtMostOnce AckMeansStored DoneMeansHandedOver
PROPERTIES ImplementsTransfer
