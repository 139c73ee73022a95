SPECIFICATION InstallFairSpec
CONSTANTS
  BYTE = 32
  BLOCK_SIZE = 3
  RAM_SIZE = 5
  BUFFER_SIZE = 9
  SOH = 1
  EOT = 4
  CAN = 24
  ACK = 6
  NAK = 21
  Unset = Unset
  NULL = NULL
  MAGIC <- Magic
  Files <- PlainFiles
  Garbled <- OneGarbled
  MaxNoise = 1
  MaxLost = 1
  MaxWait = 2
  MaxLoads = 2
  ROM_SIZE = 6
  PAGE_SIZE = 2
  ROMBUF_SIZE = 10
  MAX_TRIES = 3
  Programs <- MotFiles
  Kzload = "kzload"
  OldByte = 17
  Glitch <- Glitches
  MaxGlitches = 1
  MaxPairs = 2
  MaxRuns = 2
INVARIANTS InstallTypeOK HostIsRight StartsWhatWasSent SuccessIsHeard
PROPERTIES ImplementsTransfer TransferEnds ImplementsFlashing FlashingEnds StartsKzload
CHECK_DEADLOCK FALSE
