CONSTANTS
  CONSOLE_ROWS = 2
  CONSOLE_COLUMNS = 2
  Procs = {1, 2}
  Texts <- MCTexts
  KernelTexts <- MCKernelTexts
  KernelPositions = {2}
SPECIFICATION CSpec
INVARIANTS
  CTypeOK
  PrintsItsText
