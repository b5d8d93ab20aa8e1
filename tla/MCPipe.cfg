CONSTANTS
  NPROC = 4
  NPAGES = 7
  NVPAGES = 7
  KERNEL_START_ADDR = 1
  KERNEL_END = 2
  KERNEL_STACK_TOP = 2
  KERNEL_PAGETABLE = 1
  EXCEPTION_ENTRY = 1
  IOPHYSMEM = 2
  EXTPHYSMEM = 3
  CONSOLE_ADDR = 2
  PROC_START_ADDR = 3
  PROC_SIZE = 2
  Image <- MCImage
  FIRST_PROCESS = "pipe"
  Keys = {"p", "q"}
  show_memory = FALSE
  Bytes = {1, 2, 9}
  MaxSize = 5
  Messages <- LongMessages
  NL = 9
  BUFSZ = 3
  MaxWait = 2
SPECIFICATION PipeFairSpec
INVARIANTS
  StopsOnlyWhenTooLong
PROPERTIES
  MessagesKeepComing
  ImplementsChannel
CHECK_DEADLOCK FALSE
