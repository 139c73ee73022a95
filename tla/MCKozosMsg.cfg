SPECIFICATION Spec
CONSTANTS
  THREAD_NUM = 3
  PRIORITY_NUM = 2
  NULL = NULL
  STATIC = STATIC
  MsgBox = {box}
  PoolSize <- OnePool
  PoolNum <- ThreeBlocks
  HEADER_SIZE = 8
  STACK_NUM = 3
  MSGBUF_SIZE = 16
  CONS_SIZE = 24
  Calls <- PlainCalls
  RunPriorities <- LowPriority
  NewPriorities <- NoNumbers
  AllocSizes <- Small
  IntrTypes <- SerialOnly
  HandlerCalls <- SendHandler
  WakeReady = FALSE
  MaxPending = 2
INVARIANTS OnlyBlockingCallsBlock WaiterIsBlocked NoBlockLeaked
PROPERTIES ImplementsMailbox
