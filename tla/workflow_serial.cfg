SPECIFICATION Spec
CONSTANTS
  PlanId = {p1}
  Request = {r1}
  parent = parent
  child = child
  b1 = b1
  b2 = b2
  Table = {parent, child}
  InsertRank <- MCInsertRank
  Parents <- MCParents
  EmptyBatch = empty
  Batch = {empty, b1, b2}
  Upload <- EveryUpload
  Reply <- EveryReply
  NoTable = NoTable
  UnknownTable = UnknownTable
  None = None
  LiveAdapter = FALSE
  EveryTool = TRUE
  MaxRequests = 5
  MaxRestarts = 1
INVARIANTS
  TypeOK
  OneRunPerConfirmation
  SubtasksAllRecorded
  ApprovedRowsOnly
  CompletedOnApproved
PROPERTIES
  StartsFromConfirmed
  DispatchKeepsStatus
  ImplementsLifecycle
CHECK_DEADLOCK FALSE
