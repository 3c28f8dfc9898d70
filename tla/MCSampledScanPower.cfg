SPECIFICATION Spec
CONSTANTS
  RuleOffset = 2
  MaxWidth = 8
  Sampling = 3
  Inputs <- LongInputs
INVARIANT RuleLengthExact
