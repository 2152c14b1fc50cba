SPECIFICATION FairSpec
CONSTANTS
  p1 = p1  p2 = p2  p3 = p3  s1 = s1
  Mem = Mem  Menu = Menu  None = None
  Pid = {p1,p2,p3}
  Cpu = {c1,c2}
  SemIds <- OneSem
  SemInit <- SemZero
  Preloaded = {p1,p2,p3}
  InitialMultiprog = 3
  MemCapacity = 3
  Algorithm = "RR"
  Quantum = 1
  Code <- Waiting
  Operator = {}
  Multiprogs = {}
  MaxRequests = 0
  MaxSem = 1
INVARIANTS OneCpuPerProcess WaitersAreCounted
PROPERTIES SemaphoreIsFifo CpuKeepsItsProcess SemsMutexIsReleased
CHECK_DEADLOCK FALSE
