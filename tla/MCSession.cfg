SPECIFICATION CourseSpec
CONSTANTS
  Tasks = {t1, t2}
  Sessions = {s1, s2}
  GainTables = {g1}
  OffsetTables = {o1}
  Values = {v1, v2, Apart, Beside}
  Claims = {"gains", "offsets", "verify", "verify_gains", "check", "prepare",
            "resume", "review", "reconcile", "cycle", "clear", "recover"}
  None = None
  Apart = Apart
  Beside = Beside
ACTION_CONSTRAINT Keep
SYMMETRY Symmetry
INVARIANTS
  MeterHasOneUser
  RevokedIsQuiet
  VerifiedLeavesNothing
PROPERTIES
  VerifiedIsInFlash
  NoSessionLosesTables
  RunsAreAnnounced
CHECK_DEADLOCK FALSE
