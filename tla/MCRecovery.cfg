SPECIFICATION Spec
CONSTANTS
  Chips = {c1}
  Values = {zero, v1}
  Zero = zero
  MaxOps = 2
  MaxGeneration = 3
  MaxObservations = 4
  MaxEdits = 1
  None = None
SYMMETRY ChipSymmetry
INVARIANTS
  OriginalIsKept
PROPERTIES
  InstallKeepsTables
  ReceiptIsTrue
  FinishedIsArchived
  NoRunIsRepeated
CHECK_DEADLOCK FALSE
