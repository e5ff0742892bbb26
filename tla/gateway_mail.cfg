SPECIFICATION Spec
CONSTANTS
  ea = ea
  eb = eb
  Ed <- Devices
  Addressees <- ToEither
  Messages = {1, 2}
  Nothing = Nothing
  MaxSleepy = 1
  BufferSize = 1
  Overlap = FALSE
  MaxInbox = 1
  MaxLosses = 1
INVARIANT TypeOK
INVARIANT Accounted
INVARIANT RequestIsQueued
PROPERTY MailLeaves
