SPECIFICATION Spec
CONSTANTS
  A = A
  B = B
  C = 1
  Router <- Routers
  NoNetwork = NoNetwork
  MaxChannel = 1
  Refused = {}
  HomeChannel = 0
  MoveDelay = 2
  JoinDelay = 1
  AckDelay = 1
  DataDelay = 1
  ByteMod = 4
  AirCap = 2
INVARIANTS TypeOK TrueMeansAnswered ParentOfNetwork MoveTimerArmed
PROPERTIES MoveRetried
