CONSTANTS
  Symbols <- AliasSymbols
  MaxSymbols = 3
  Addresses <- MCAddresses
  LASTSPAN = 3
SPECIFICATION RSpec
INVARIANTS
  LookupDocumented
