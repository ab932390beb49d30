SPECIFICATION FairSpec
CONSTANTS
  Calls = {c1, c2}
  Works = {w1}
  Kinds = {"adopt", "readopt", "create", "preview", "use", "rescan", "intent"}
  MaxSetups = 2
  MaxFaults = 1
  MaxChanges = 1
  None = None
ACTION_CONSTRAINT KeptSeparate
INVARIANTS
  StragglersAreHarmless
  CommitSurvivesUnload
  NothingOutlivesTheEntry
  NoChangeIsMissed
PROPERTIES
  RebindSparesNewSessions
  NobodyWaitsForever
CHECK_DEADLOCK FALSE
