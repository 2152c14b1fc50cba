SPECIFICATION Spec
CONSTANTS
  p1 = p1  p2 = p2
  Kernel = Kernel  None = None  Adm = Adm  Zero = f0
  Pid = {p1,p2}
  Cpu = {c1}
  Frame = {f0,f1,f2,f3,f4}
  Slot = {s1,s2}
  CodePages <- OneCodePage
  StackSize = 1
  MaxPage = 1
  CacheXProc = 2
  Wild = TRUE
  Flushes = TRUE
INVARIANTS TypeOK CacheIsCoherent
SYMMETRY PidSymmetry
CHECK_DEADLOCK FALSE
