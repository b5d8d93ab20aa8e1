SPECIFICATION ASpec
CONSTANTS
  INTBITS = 4
  LONGBITS = 8
  WINDOW = 1
  PREFIX = 2
  PANICBUF = 6
  SECTOR = 2
  ALIGN = 4
  DISKSECTORS = 5
  LOADADDR = 20
  SLOTS = 3
  FUNCS = 2
  SPACE = 12
  PAGEWORDS = 4
  SECOND = 3
  Memories <- MCMemories
  Strings2 <- MCStrings2
  NumberTexts <- MCNumberTexts
  Specs <- MCSpecs
  Arguments <- MCArguments
  Pieces <- MCPieces
  Messages <- MCMessages
  Arrays <- MCArrays
  Kernels <- MCKernels
  Files <- MCFiles
  Images <- MCImages
  Devices <- MCDevices
  Stacks <- MCStacks
INVARIANTS
  StringFunctions
  NumberFunctions
  FormatsNumbers
  PartsIndependent
  StaysInBuffers
  FilesReachMemory
  ScanFindsAll
  BacktraceFollowsFrames
