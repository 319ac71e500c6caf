SPECIFICATION Spec
CONSTANTS
  None = None
  Malformed = Malformed
  NoValue = NoValue
  Processes = {p, q}
  ExeDir <- MCExeDir
  Starts <- MCStarts
  Disks <- MCDisks
  Edits <- MCEdits
  MaxEdits = 1
  DefaultText <- MCDefaultText
CHECK_DEADLOCK FALSE
INVARIANTS
  FollowsItsConfig
  SameConfigSameDatabase
  WarnedOfPlainS3
