SPECIFICATION Spec
CONSTANTS
  Observations <- MCObservations
  Variables = {"x", "y"}
  Statements <- MCStatements
  MaxStatements = 2
  Names <- MCNames
  PatternDepth = 1
  ExcludedEntities <- MCExcluded
  PrefetchedCommands <- MCPrefetchedCommands
  TimerangeStart <- MCTimerangeStart
  TimerangeStop = 3
  SupportId = FALSE
  NameChanged = 2
  PidAndName = 4
  PidAndPpid = 4
  PidNameAndPpid = 5
INVARIANTS GetKeepsItsMatches BothNamesKept NoStrangers ReferencesCovered FindHonorsWhere
CHECK_DEADLOCK FALSE
