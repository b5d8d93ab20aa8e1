CONSTANTS
  Symbols <- MCSymbols
  MaxSymbols = 4
  Addresses <- MCAddresses
  LASTSPAN = 3
SPECIFICATION RSpec
INVARIANTS
  LookupFindsOwner
  TablesAlwaysHold
  StartsFresh
PROPERTIES
  LookupEnds
  ImplementsSymtab
