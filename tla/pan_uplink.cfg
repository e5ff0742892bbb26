SPECIFICATION Spec
CONSTANTS
  Ed = {e1, e2}
  NoEd = NoEd
  MaxRetries = 0
  TimerMod = 4
  AirCap = 1
  MaxMsg = 2
  Preempted = FALSE
  EdRestarts = FALSE
  BufferSize = 2
  MaxSends = 2
  MaxRestarts = 1
SYMMETRY Devices
INVARIANTS TypeOK AckMeansStoredUnlessAddressed
