\* A word glued to a mark: the commit that is rejected stays in memory.
SPECIFICATION CSpec
CONSTANTS
  s1 = s1  s2 = s2  f1 = f1
  o1 = o1  o2 = o2  w1 = w1  w2 = w2
  NoFile = NoFile  NoAddr = NoAddr  NoSock = NoSock  NoWord = NoWord  Missing = Missing
  File = {f1}
  Sock = {s1, s2}
  Addr = {1, 2, 3, 4, 5}
  Word = {o1, o2, w1, w2}
  MaxLocks = 2
  MaxDocs = 1
  MaxLoad = 4
  MaxNew = 3
  MaxEdits = 2
  MaxAt = 2
  Inputs <- MarkInputs
  Files <- OneFile
  MidSave = FALSE
SYMMETRY Symmetry
INVARIANT
  CommitsAreAtomic
