SPECIFICATION FairSpec
CONSTANTS
  p1 = p1  p2 = p2
  Kernel = Kernel  None = None  Adm = Adm  Zero = f0
  Pid = {p1,p2}
  Cpu = {c1}
  Frame = {f0,f1,f2,f3,f4}
  Slot = {s1,s2}
  CodePages <- OneCodePage
  StackSize = 1
  MaxPage = 2
  CacheXProc = 1
  Wild = FALSE
  Flushes = FALSE
PROPERTIES FramesMutexIsReleased

CHECK_DEADLOCK FALSE
