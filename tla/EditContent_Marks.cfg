\* Two editors, one lock slot: marks of all kinds, a blank line, and a server that may end inside a save.
SPECIFICATION CSpec
CONSTANTS
  s1 = s1  s2 = s2  f1 = f1
  o1 = o1  o2 = o2  w1 = w1  w2 = w2
  NoFile = NoFile  NoAddr = NoAddr  NoSock = NoSock  NoWord = NoWord  Missing = Missing
  File = {f1}
  Sock = {s1, s2}
  Addr = {1, 2, 3, 4}
  Word = {o1, o2, w1, w2}
  MaxLocks = 1
  MaxDocs = 1
  MaxLoad = 2
  MaxNew = 3
  MaxEdits = 2
  MaxAt = 1
  Inputs <- MarkInputs
  Files <- MarkFiles
  MidSave = TRUE
SYMMETRY Symmetry
INVARIANTS
  ContentTypeOK
  OpenSentenceIsLast
  ReloadKeepsSentences
PROPERTY LossIsBackedUp
