SPECIFICATION Spec
CONSTANTS
  RuleOffset = 2
  MaxWidth = 8
  Inputs <- ExactGrammars
PROPERTY KeepsPromise
