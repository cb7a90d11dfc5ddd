\* Two names, two storage servers, two slots, a cache of two entries.
SPECIFICATION Spec
CONSTANTS
  Name = {f, g}
  Sock = {a, b}
  Slot = {i, j}
  CacheSize = 2
  NoName = NoName  NoSock = NoSock  NoSlot = NoSlot  NoEntry = NoEntry
  MaxNodes = 2
SYMMETRY Symmetry
INVARIANTS
  TypeOK
  CacheIsInTable
  LookupsFindTheFile
PROPERTY
  ImplementsDirectory
