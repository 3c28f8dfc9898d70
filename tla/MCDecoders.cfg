SPECIFICATION LoadSpec
CONSTANTS
  TrailerBits = 3
  LongestInt = 30
  RuleOffset = 256
  MaxWidth = 25
  IntBytes = 3
  HeaderBytes = 2
  StackLimit = 3
  Short = 8
  Long = 30
  Inputs <- Files
INVARIANTS
  ReadsContent
  EofExact
  IntIsItsBits
  RulesDecoded
  ParsingDecoded
  EndsUnlessCyclic
