SPECIFICATION Spec
CONSTANTS
  ea = ea
  eb = eb
  Ed <- Devices
  Addressees <- ToEither
  Messages = {1, 2}
  Nothing = Nothing
  MaxSleepy = 1
  BufferSize = 1
  Overlap = TRUE
  MaxInbox = 2
  MaxLosses = 0
INVARIANT MailForAddressee
