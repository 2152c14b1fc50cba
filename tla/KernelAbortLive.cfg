SPECIFICATION FairSpec
CONSTANTS
  p1 = p1  p2 = p2  p3 = p3  s1 = s1
  Mem = Mem  Menu = Menu  None = None
  Pid = {p1,p2}
  Cpu = {c1}
  SemIds <- NoSems
  SemInit <- NoSemInit
  Preloaded = {p1,p2}
  InitialMultiprog = 2
  MemCapacity = 2
  Algorithm = "RR"
  Quantum = 1
  Code <- Ending
  Operator = {"abort"}
  Multiprogs = {}
  MaxRequests = 2
  MaxSem = 0
PROPERTIES AbortIsFinal ReadyIsDispatched
CHECK_DEADLOCK FALSE
