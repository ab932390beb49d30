SPECIFICATION Spec
CONSTANTS
  None = None
  Base = Base
  Foreign = Foreign
  v1 = v1
  Txns = {t1, t2}
  Vids = {v1}
  OtherYaml = {Base, Foreign}
  InitialMeters <- Calibrated
  InitialYaml = Base
  Kinds = {"install", "calib"}
  Faults = {"builder", "lost", "unacked"}
  Edits = {Foreign}
  UploadRebuilds = FALSE
SYMMETRY TxnSymmetry
INVARIANTS
  UploadRevokesReceipt
PROPERTIES
  HandsGainsOverOnce
  RollbackRestores
  UncompiledWriteIsRestored
\* Closed transactions are not reopened: the meter may come to rest.
CHECK_DEADLOCK FALSE
