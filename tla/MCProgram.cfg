CONSTANTS
  Threads = {t1, t2}
  Window = 2
  Ticks = 3
  Sizes = 8
  Chars <- MCChars
  Cases <- MCCases
  Garbage <- MCGarbage
  Memory = 4
  Sources <- MCSources
  Inputs <- MCInputs
  Junk = {0, 3}
  MaxDescriptor = 1
  Options <- MCOptions
SPECIFICATION Spec
INVARIANTS NoFalseAlarm EveryVisibleErrorReported TicksCounted CrashesIfShort PrintsWhatWasAsked FailsOnlyOutside DescriptorOwned StaleOnlyInBenchmark
PROPERTIES ProgramEnds
