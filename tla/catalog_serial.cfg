SPECIFICATION Spec
CONSTANTS
  Request = {r1}
  Payload = {a, b}
  Operation <- AllOperations
  None = None
  Torn = Torn
  LockTimeout = FALSE
  MaxWorkspace = 2
  MaxRequests = 5
  MaxRestarts = 2
INVARIANTS
  AnsweredAsGiven
  JobsHaveSnapshots
CHECK_DEADLOCK FALSE
