SPECIFICATION Spec
CONSTANTS
  RuleOffset = 2
  MaxWidth = 8
  Sampling = 3
  Inputs <- MCInputs
INVARIANTS
  SummedExactly
  LossOnlyAtPowersOfTwo
  SamplesSound
  SamplesDeepest
  WalkFollowsText
  SpillOnlyAtBoundary
  AtFollowsText
  WrittenSoFar
PROPERTIES
  KeepsPromise
