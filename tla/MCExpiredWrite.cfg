SPECIFICATION AttendedSpec
CONSTANTS
  None = None
  Base = Base
  Foreign = Foreign
  v1 = v1
  Txns = {t1, t2}
  Vids = {v1}
  OtherYaml = {Base, Foreign}
  InitialMeters <- Everywhere
  InitialYaml = Base
  Kinds = {"install"}
  Faults = {"builder"}
  Edits = {}
  UploadRebuilds = FALSE
PROPERTIES
  ExpiredWriteIsRecovered
\* Closed transactions are not reopened: the meter may come to rest.
CHECK_DEADLOCK FALSE
