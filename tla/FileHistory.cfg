\* Two paths; at one of them the server may end inside UNDO, REVERT or a commit.
SPECIFICATION Spec
CONSTANTS
  p = p  q = q  v1 = v1
  Path = {p, q}
  Tag = {"t1"}
  Version = {e, v1}
  Empty = e
  Missing = Missing
  MaxDocs = 1
  MaxEntries = 2
  Dies = {p}
INVARIANT
  TypeOK
PROPERTIES
  UndoTakesBack
  CheckpointsStay
  ReplacedIsKept
