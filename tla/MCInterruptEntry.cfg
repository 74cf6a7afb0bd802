CONSTANTS
  N = 4
  StackSize = 49
  Lines = {0, 1, 2, 3, 4, 5, 6, 7, 8, 9, 10, 11, 12, 13, 14, 15}
  Exceptions = {0, 1, 2, 3, 4, 5, 6, 7, 8, 9, 10, 11, 12, 13, 14, 15, 16, 17, 18, 19,
                20, 21, 22, 23, 24, 25, 26, 27, 28, 29, 30, 31}
  Nested = {2, 14}
  Arguments = {201, 202}
  Count <- MCCount
  Numbers = {0, 1, 2, 17}
  MaxCalls = 1
  MaxInterrupts = 2
SPECIFICATION Spec
INVARIANTS
  HandlerSeesInterrupt
  SyscallsAnswered
PROPERTY InterruptedCodeResumes
CHECK_DEADLOCK FALSE
