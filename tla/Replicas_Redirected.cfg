\* Two machines, two names, two failures.
SPECIFICATION RSpec
CONSTANTS
  Name = {f, g}
  Sock = {a, b}
  Slot = {i, j}
  CacheSize = 0
  NoName = NoName  NoSock = NoSock  NoSlot = NoSlot  NoEntry = NoEntry
  MaxNodes = 2
  Machine = {m, n}
  Nobody = Nobody
  Version = {e, v}
  Empty = e
  Missing = Missing
  Away = Away
  MaxFailures = 2
  MaxDoubt = 1
SYMMETRY Symmetry
INVARIANT Redirected
