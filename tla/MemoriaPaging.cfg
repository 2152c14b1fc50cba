SPECIFICATION Spec
CONSTANTS
  p1 = p1  p2 = p2
  Kernel = Kernel  None = None  Adm = Adm  Zero = f0
  Pid = {p1,p2}
  Cpu = {c1,c2}
  Frame = {f0,f1,f2,f3,f4,f5}
  Slot = {s1,s2,s3,s4}
  CodePages <- TwoAndOne
  StackSize = 1
  MaxPage = 3
  CacheXProc = 2
  Wild = FALSE
  Flushes = FALSE
INVARIANTS PagesAreKept   
SYMMETRY Symmetry
CHECK_DEADLOCK FALSE
