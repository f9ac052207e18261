SPECIFICATION Spec
CONSTANTS
  PlanId = {p1}
  Request = {r1, r2}
  parent = parent
  child = child
  b1 = b1
  b2 = b2
  Table = {parent, child}
  InsertRank <- MCInsertRank
  Parents <- MCParents
  EmptyBatch = empty
  Batch = {empty, b1, b2}
  Upload <- OneUpload
  Reply <- FanOutReply
  NoTable = NoTable
  UnknownTable = UnknownTable
  None = None
  LiveAdapter = FALSE
  EveryTool = FALSE
  MaxRequests = 6
  MaxRestarts = 0
PROPERTIES
  StartsFromConfirmed
CHECK_DEADLOCK FALSE
