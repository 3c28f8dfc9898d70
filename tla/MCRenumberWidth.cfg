SPECIFICATION Spec
CONSTANTS
  RuleOffset = 2
  MaxWidth = 8
  StackLimit = 4
  Inputs <- FileInputs
INVARIANT TextKept
