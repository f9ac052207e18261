SPECIFICATION FairSpec
CONSTANTS
  User = {ann, bob}
  Role = {"OPERATOR", "ADMIN"}
  Request = {r1, r2}
  Absent = Absent
  Empty = Empty
  Torn = Torn
  MaxRequests = 3
  MaxRestarts = 1
PROPERTIES
  AloneKeepsAdmin
  AloneSaves
  RevocationTakesEffect
CHECK_DEADLOCK FALSE
