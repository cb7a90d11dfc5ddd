\* Two messages one way, five headers and bodies the other.
SPECIFICATION FairSpec
CONSTANTS
  Capacity = 2
  MaxUnread = 5
INVARIANTS
  TypeOK
  AnswersAreOwn
PROPERTY
  WaitEnds
