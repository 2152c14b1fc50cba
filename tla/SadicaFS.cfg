SPECIFICATION Spec
CONSTANTS
  NoFile = NoFile  Nul = Nul
  Path = {f,g}
  Bytes = 1
  ByteBits = 3
  BlockSize = 2
  Byte = {x,y}
  Offset = {0, 2}
  Size = {1, 3}
  CrashIn = {"create", "save"}
INVARIANTS TypeOK  BlocksAreMarked
 
SYMMETRY Symmetry
CHECK_DEADLOCK FALSE
