CONSTANTS
  Tasks = {t1, t2}
  Conns = {c1, c2}
  Values = {0, 1}
  Operations = {"connect", "reconnect", "shutdown", "check", "window", "absolute", "number", "dump", "guard", "restart", "sources", "gain"}
  SampleCount = 2
  MaxHistory = 2
  MaxFlight = 2
  None = None
SPECIFICATION Spec
SYMMETRY MCSymmetry
CHECK_DEADLOCK FALSE
INVARIANTS ConnectionIsTrue NoClientIsForgotten
PROPERTIES WindowsAreFresh AcknowledgedIsApplied DumpIsComplete
