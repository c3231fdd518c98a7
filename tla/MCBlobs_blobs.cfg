CONSTANTS
  Drives = {"d1", "d2"}
  Writer = "d1"
  FirstDrives = {"d1"}
  Folders <- MCOneFolder
  Other <- MCOther
  MaxFiles = 3
  MaxErrors = 1
SPECIFICATION BlobsFairSpec
CHECK_DEADLOCK FALSE
INVARIANTS
  EveryFileOnce
PROPERTIES
  EndsDownloaded
