SPECIFICATION Spec
CONSTANTS
  THREAD_NUM = 2
  NULL = NULL
  LastReg = 2
  STACK = 6
  STACK_NUM = 3
  Files <- CallFiles
  MaxDepth = 1
INVARIANTS TypeOK KernelIsMasked CallIsCallers FramesInPlace
PROPERTIES ImplementsProcessors
