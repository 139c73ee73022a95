SPECIFICATION Spec
CONSTANTS
  THREAD_NUM = 3
  PRIORITY_NUM = 2
  NULL = NULL
  STATIC = STATIC
  MsgBox = {box}
  PoolSize <- OnePool
  PoolNum <- TwoBlocks
  HEADER_SIZE = 8
  STACK_NUM = 3
  MSGBUF_SIZE = 16
  CONS_SIZE = 24
  Calls <- RoughCalls
  RunPriorities <- LowPriority
  NewPriorities <- LowPriority
  AllocSizes <- Small
  IntrTypes <- AnyVector
  HandlerCalls <- BothHandlers
  WakeReady = TRUE
  MaxPending = 2

INVARIANTS TypeOK CallerIsHead NoMessageWaits BlockExclusive
PROPERTIES PreemptionOnlyByHigher
