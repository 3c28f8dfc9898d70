SPECIFICATION Spec
CONSTANTS
  MaxWidth = 8
  Inputs <- MCInputs
INVARIANTS
  ShortcutsLeadBack
  PreviousInTime
