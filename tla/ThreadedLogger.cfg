CONSTANTS
  Size = 2
  MaxRecords = 3
  MaxFiles = 2
SPECIFICATION Spec
INVARIANTS
  Accounted
  OneStrayPerSwitch
  FilesReadable
PROPERTIES
  CallsReturn
  Consumed
CHECK_DEADLOCK FALSE
