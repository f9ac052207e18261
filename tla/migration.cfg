SPECIFICATION MCSpec
CONSTANTS
  Script <- MCScript
  Definitions <- MCDefinitions
  Source <- MCSource
  Mentions <- MCMentions
  Sample <- MCSample
  MaxRows = 3
  Null = Null
  MaxFaults = 2
  MaxRuns = 3
INVARIANTS
  SplitExact
  BodyExact
  RerunConverges
CHECK_DEADLOCK FALSE
