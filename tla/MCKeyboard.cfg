CONSTANTS
  Keys <- MCKeys
  MaxQueue = 3
SPECIFICATION KSpec
INVARIANTS
  NoStuckModifier
  ReadAsTyped
PROPERTIES
  QuitQuits
