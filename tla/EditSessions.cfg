\* Two connections, two files, a lock slot for each, the fairness of server and client.
SPECIFICATION FairSpec
CONSTANTS
  s1 = s1  s2 = s2  s3 = s3
  f1 = f1  f2 = f2
  a1 = a1  a2 = a2  a3 = a3  a4 = a4
  File = {f1, f2}
  Sock = {s1, s2}
  Addr = {a1, a2, a3}
  NoFile = NoFile
  NoAddr = NoAddr
  NoSock = NoSock
  MaxLocks = 2
  MaxDocs = 2
  MaxLoad = 2
  MaxNew = 2
INVARIANTS
  TypeOK
  UsersAreSessions
  LockHasOwner
  MutualExclusion
  NoDanglingPointer
  OneCopyPerFile
  SessionNeedsConnection
PROPERTIES
  ImplementsSentenceLock
  CommitEnds
