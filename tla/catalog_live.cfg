SPECIFICATION FairSpec
CONSTANTS
  Request = {r1, r2}
  Payload = {a}
  Operation <- Creations
  None = None
  Torn = Torn
  LockTimeout = FALSE
  MaxWorkspace = 2
  MaxRequests = 4
  MaxRestarts = 0
PROPERTIES
  EventuallyPersisted
CHECK_DEADLOCK FALSE
