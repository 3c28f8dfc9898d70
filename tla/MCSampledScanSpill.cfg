SPECIFICATION Spec
CONSTANTS
  RuleOffset = 2
  MaxWidth = 8
  Sampling = 3
  Inputs <- ExactGrammars
INVARIANT WritesInBounds
