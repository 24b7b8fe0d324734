SPECIFICATION Spec
CONSTANTS
  a = a  b = b
  Job = {a, b}
  Exclusive = TRUE
  Size = 2
  LastSecond = 1
  Inode = {1, 2, 3, 4, 5, 6, 7, 8}
  NoInode = NoInode
  OldConfig = OldConfig  NoConfig = NoConfig  Torn = Torn
INVARIANTS TypeOK NeverHalfWritten
PROPERTIES DeploysAtomically
CHECK_DEADLOCK FALSE
