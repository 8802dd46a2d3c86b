CONSTANTS
  Parts = {"localbus"}
  slavesAddress <- TwoUnits
  TX_RQ_N_LOC = 2
  MsgsPerPacket = 2
  MaxPn = 3
  MaxBlocks = 3
  MaxInFlight = 1
  DATA_BUFFERS_N = 3
  MaxPacket = 2
  MaxSync = 1
  Letter = {"w"}
  Commands <- WriteCommand
  CSTR_SZ = 4
  Done = 3
  RxRing = 3
  kMaxRxSz = 2
  MaxChars = 4
  MaxBytes = 2
SPECIFICATION DeviceSpec
PROPERTY OnlyKeptBlocksDeleted
