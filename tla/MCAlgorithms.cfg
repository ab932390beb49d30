SPECIFICATION MCSpec
CONSTANTS
  Chips = {c1, c2}
  Target = c1
  PhaseCount = 2
  MaxFaults = 2
  Board <- MCBoard
  Layouts <- MCLayouts
  Explicit <- MCExplicit
  Unnamed = Unnamed
  None = None
INVARIANTS
  EvidenceIsTrue
  GoodEvidenceIsAccepted
  TotalsAreExact
CHECK_DEADLOCK FALSE
