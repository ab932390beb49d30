SPECIFICATION Spec
CONSTANTS
  None = None
  Base = Base
  Foreign = Foreign
  v1 = v1
  Txns = {t1, t2}
  Vids = {v1}
  OtherYaml = {Base, Foreign}
  InitialMeters <- Everywhere
  InitialYaml = Base
  Kinds = {"install", "calib"}
  Faults = {"builder", "lost", "cancel", "crash"}
  Edits = {}
  UploadRebuilds = TRUE
SYMMETRY TxnSymmetry
INVARIANTS
  ExclusiveLease
  OtaIsRecoverable
  RecordIsSound
  ReceiptMatchesFirmware
PROPERTIES
  VerifiedIsRecorded
\* Closed transactions are not reopened: the meter may come to rest.
CHECK_DEADLOCK FALSE
