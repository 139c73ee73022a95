SPECIFICATION FairSpec
CONSTANTS
  THREAD_NUM = 3
  PRIORITY_NUM = 2
  NULL = NULL
  STATIC = STATIC
  MsgBox <- NoBoxes
  PoolSize <- OnePool
  PoolNum <- TwoBlocks
  HEADER_SIZE = 8
  STACK_NUM = 4
  MSGBUF_SIZE = 16
  CONS_SIZE = 24
  Calls <- SchedCalls
  RunPriorities <- Priorities
  NewPriorities <- OddPriorities
  AllocSizes <- NoNumbers
  IntrTypes <- SerialOnly
  HandlerCalls <- WakeHandler
  WakeReady = FALSE
  MaxPending = 0
INVARIANTS NoLostThread
PROPERTIES ImplementsFifoScheduler NoStarvation
