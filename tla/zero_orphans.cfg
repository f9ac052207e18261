SPECIFICATION Spec
CONSTANTS
  Satellites <- MCSatellites
  StartScale = 1000
  Schema <- MCSchema
  Tops = {0, 9}
  Audited = {TRUE, FALSE}
  Rows = 2
  Attempts = 3
  Plain = {0, 2}
  AuditUser = 1
  Constraint <- MCConstraint
  Null = Null
  NoFile = NoFile
  MaxFailures = 1
INVARIANTS
  ZeroOrphans
