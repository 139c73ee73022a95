SPECIFICATION ConsoleSpec
CONSTANTS
  THREAD_NUM = 3
  PRIORITY_NUM = 16
  NULL = NULL
  STATIC = STATIC
  CONSINPUT = CONSINPUT
  CONSOUTPUT = CONSOUTPUT
  MsgBox = {CONSINPUT, CONSOUTPUT}
  PoolSize <- RealPoolSize
  PoolNum <- RealPoolNum
  HEADER_SIZE = 8
  STACK_NUM = 4
  MSGBUF_SIZE = 16
  CONS_SIZE = 24
  Calls <- ItsCalls
  RunPriorities = {1, 8}
  NewPriorities = {15}
  AllocSizes <- ItsSizes
  IntrTypes = {2}
  HandlerCalls = {"NONE", "SEND"}
  WakeReady = FALSE
  MaxPending = 2
  NoChar = NoChar
  CR = "CR"
  LF = "LF"
  Prompt <- RealPrompt
  EchoWord <- RealEcho
  Unknown <- RealUnknown
  Lines <- Echo5
  TypeAhead = 1
  OutLimit = 0
INVARIANTS MessageFits
