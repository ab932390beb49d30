SPECIFICATION Spec
CONSTANTS
  Chips = {c1, c2}
  Target = c1
  PhaseCount = 2
  MaxFaults = 0
  None = None
INVARIANTS
  StockDumpMayOmitOffsets
CHECK_DEADLOCK FALSE
