\* One file with two names in turn, two users, a server that may end anywhere.
SPECIFICATION Spec
CONSTANTS
  Name = {alice, bob}
  User = {alice, bob}
  Path = {f, g}
  System = system
  NoEntry = NoEntry
  NoRecord = NoRecord
  MaxPerms = 2
  MaxRequests = 1
  MaxIds = 2
  MaxFiles = 1
  GivenPerm = {"READ_WRITE"}
  AskedPerm = {"READ_ONLY"}
  MaxQueue = 2
SYMMETRY Symmetry
INVARIANTS
  TypeOK
  OnlyGranted
  
