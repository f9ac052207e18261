SPECIFICATION Spec
CONSTANTS
  Request = {r1, r2}
  Payload = {a}
  Operation <- AllOperations
  None = None
  Torn = Torn
  LockTimeout = TRUE
  MaxWorkspace = 2
  MaxRequests = 4
  MaxRestarts = 1
SYMMETRY Symmetry
INVARIANTS
  TypeOK
  Covering
  AnsweredIsLoaded
  QuiescentInSync
  DetailsCoverSnapshots
PROPERTIES
  CommittedNeverShrinks
CHECK_DEADLOCK FALSE
