SPECIFICATION FairSpec
CONSTANTS
  docs = docs
  docsPadded = docsPadded
  notes = notes
  None = None
  Clients = {c1, c2, c3}
  LockIds = {1, 2, 3}
  Names <- MCNames
  Trim <- MCTrim
INVARIANTS
  TypeOK
  TableExclusion
  NoLeakedRequest
  BlockedOnlyByOwnTable
PROPERTIES
  EntryIsPermanent
  WaiterAdmitted
