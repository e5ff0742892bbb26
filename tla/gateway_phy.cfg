SPECIFICATION Spec
CONSTANTS
  Sender = {timer, app}
  Radio = Radio
  Nobody = Nobody
  MaxPolls = 2
  FifoSize = 4
  MaxAnswers = 1
INVARIANTS TypeOK PacketsIntact ListensAtRest
PROPERTIES LockReleased
