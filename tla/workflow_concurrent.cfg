SPECIFICATION FairSpec
CONSTANTS
  PlanId = {p1}
  Request = {r1, r2}
  parent = parent
  child = child
  b1 = b1
  b2 = b2
  Table = {parent, child}
  InsertRank <- MCInsertRank
  Parents <- MCParents
  EmptyBatch = empty
  Batch = {empty, b1, b2}
  Upload <- EmptyFileUpload
  Reply <- ActingReply
  NoTable = NoTable
  UnknownTable = UnknownTable
  None = None
  LiveAdapter = TRUE
  EveryTool = FALSE
  MaxRequests = 4
  MaxRestarts = 1
INVARIANTS
  ExecutionAuthorised
  CompletedHasResult
  ParentsFirst
PROPERTIES
  ExecutingEnds
CHECK_DEADLOCK FALSE
