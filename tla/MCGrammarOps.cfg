SPECIFICATION OpsSpec
CONSTANTS
  RuleOffset = 2
  MaxWidth = 8
  StackLimit = 4
  Inputs <- MCInputs
INVARIANTS
  PostOrder
  WildMoveOnlyIfUnreachable
  DependencyOrdered
  StatsRight
  AverageIfReachable
  Reproduced
PROPERTIES
  Returns
