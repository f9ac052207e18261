SPECIFICATION MCSpec
CONSTANTS
  Null = Null
  Blank = Blank
  Value = {ada, sal}
  Datum = {ada}
  ada = ada
  sal = sal
  Batch <- MCBatch
  Valid <- MCValid
  MaxIterations = 3
  Column <- MCColumn
  Link <- MCLink
  Sensitive <- MCSensitive
  HumanName = {}
  Salt = {salt}
  salt = salt
  Ruleset <- MCRuleset
  Strategy = {"deterministic", "synthetic", "random", "static", "nullify"}
  Request = {r1, r2}
  NoRule = NoRule
  Free = Free
  MaxChanges = 3
  MaxMasked = 2
INVARIANTS
  VerdictExact
  ValidatedLoads
  MaskedJoins
PROPERTY NeverWorse
CHECK_DEADLOCK FALSE
