SPECIFICATION MCSpec
CONSTANTS
  None = None
  Omitted = Omitted
  I64 <- MCI64
  U64 <- MCU64
  I32 <- MCI32
  U32 <- MCU32
  One = 8
  F64 <- MCF64
  F32 <- MCF32
  Beyond <- MCBeyond
  Slip = 2
  Short <- MCShort
  InfinityAt = 128
  Definitions <- MCDefinitions
  Payloads <- MCPayloads
  Limits = {0, 1, 3}
  DefaultLimit = 1
  MaxSearchLimit = 2
  MaxRows = 3
  MaxTrips = 2
CHECK_DEADLOCK FALSE
INVARIANTS
  RowsFitColumn
  ReadBack
  WrittenBackIsSame
  AnswerIsAsAsked
PROPERTIES
  WriteBackIsAccepted
