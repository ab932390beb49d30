SPECIFICATION Spec
CONSTANTS
  None = None
  Callers = {c1, c2, c3}
  Conns = {s1, s2}
SYMMETRY Symmetric
INVARIANTS
  CanConnectAgain
  NobodyIsStranded
  NoSocketIsLost
PROPERTIES
  DisconnectWins
