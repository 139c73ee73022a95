SPECIFICATION Spec
CONSTANTS
  BYTE = 32
  BLOCK_SIZE = 3
  RAM_SIZE = 5
  BUFFER_SIZE = 9
  SOH = 1
  EOT = 4
  CAN = 24
  ACK = 6
  NAK = 21
  Unset = Unset
  NULL = NULL
  MAGIC <- Magic
  Files <- EotFiles
  Garbled <- OneGarbled
  MaxNoise = 1
  MaxLost = 0
  MaxWait = 2
  MaxLoads = 1
INVARIANTS ReturnsFileSize
CHECK_DEADLOCK FALSE
