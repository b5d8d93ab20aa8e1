CONSTANTS
  NPROC = 4
  NPAGES = 11
  NVPAGES = 12
  KERNEL_START_ADDR = 1
  KERNEL_END = 3
  KERNEL_STACK_TOP = 4
  KERNEL_PAGETABLE = 2
  EXCEPTION_ENTRY = 1
  IOPHYSMEM = 4
  EXTPHYSMEM = 5
  CONSOLE_ADDR = 4
  PROC_START_ADDR = 5
  PROC_SIZE = 3
  Image <- MCImage
  FIRST_PROCESS = "hello"
  Keys = {"f", "p", "q"}
  show_memory = TRUE
  Bytes = {7}
  MaxSize = 1
SPECIFICATION FairSpec
INVARIANTS
  TypeOK
  InternalAssertsHold
  RefcountCountsUses
  NothingSkipped
  MemoryOfProcesses
  UserPages
  ViewerDrawsProcesses
  EveryProcessShown
PROPERTIES
  RunnableRuns
  FaultedStaysFaulted
  ImplementsRoundRobin
CHECK_DEADLOCK FALSE
