SPECIFICATION Spec
CONSTANTS
  docs = docs
  docsPadded = docsPadded
  spaces = spaces
  dotdot = dotdot
  default = default
  rootDocs = rootDocs
  rootDefault = rootDefault
  defaultPath = defaultPath
  blank = blank
  None = None
  Opens = {o1, o2, o3}
  Names <- MCNames
  Trim <- MCTrim
  Blank = blank
  ValidNames = {docs, default}
  DefaultKey = default
  DefaultPath = defaultPath
  HasRoot = TRUE
  Join <- MCJoin
  LocalPaths = {rootDocs, rootDefault}
CHECK_DEADLOCK FALSE
INVARIANTS
  TypeOK
  OneConnectionPerDatabase
  OpensNamedPath
PROPERTIES
  CacheIsStable
