CONSTANTS
  ENTRIES = 2
  PAGESIZE = 1
  NTABLES = 6
  Addresses <- MCAddresses
  Frames = {3}
  Perms <- MCPerms
  UnmapLarge = TRUE
  MaxRange = 1
SPECIFICATION PTSpec
INVARIANTS
  MapsWhatItSays
