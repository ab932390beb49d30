SPECIFICATION FairSpec
CONSTANTS
  Tasks = {t1, t2}
  Sessions = {s1, s2}
  GainTables = {}
  OffsetTables = {o1}
  Values = {v1}
  Claims = {"prepare", "status"}
  None = None
PROPERTIES
  CleanupEnds
CHECK_DEADLOCK FALSE
