\* Two editors, a lock slot each: words and words that end a sentence.
SPECIFICATION CSpec
CONSTANTS
  s1 = s1  s2 = s2  f1 = f1
  o1 = o1  o2 = o2  w1 = w1  w2 = w2
  NoFile = NoFile  NoAddr = NoAddr  NoSock = NoSock  NoWord = NoWord  Missing = Missing
  File = {f1}
  Sock = {s1, s2}
  Addr = {1, 2, 3, 4}
  Word = {o1, o2, w1, w2}
  MaxLocks = 2
  MaxDocs = 1
  MaxLoad = 3
  MaxNew = 2
  MaxEdits = 2
  MaxAt = 1
  Inputs <- PlainInputs
  Files <- OneFile
  MidSave = FALSE
SYMMETRY Symmetry
INVARIANTS
  MemoryIsDisk
  CommitsAreAtomic
  CommitsAreDurable
  AcceptedEditsApply
  BaselineUnmoved
PROPERTY ImplementsSharedDocument
