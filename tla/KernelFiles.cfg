SPECIFICATION Spec
CONSTANTS
  Nobody = Nobody
  NoPath = NoPath
  Pid = {p1,p2}
  Path = {a,b}
  Flags <- ReadOrCreate
  MaxOpen = 2
SYMMETRY Symmetry
INVARIANTS TypeOK   
 
CHECK_DEADLOCK FALSE
