CONSTANTS
  ENTRIES = 2
  PAGESIZE = 2
  NTABLES = 5
  Addresses <- RangeAddresses
  Frames = {3}
  Perms <- MCPerms
  UnmapLarge = FALSE
  MaxRange = 11
SPECIFICATION PTSpec
INVARIANTS
  IteratorTranslates
  NeverUninitialized
  NothingPassedOver
  PtiterFreesSafely
  RangePermExact
PROPERTIES
  ImplementsAddressSpace
