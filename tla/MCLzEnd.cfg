SPECIFICATION Spec
CONSTANTS
  MaxWidth = 8
  WordBits = 4
  MaxPhrases = 5
  MaxLength = 8
  Inputs <- Parsings
INVARIANTS
  NoSourceMissed
  SourcesFound
  WorkFollowsText
PROPERTIES
  KeepsPromise
