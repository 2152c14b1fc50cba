SPECIFICATION Spec
CONSTANTS
  p1 = p1  p2 = p2  p3 = p3  s1 = s1
  Mem = Mem  Menu = Menu  None = None
  Pid = {p1,p2}
  Cpu = {c1}
  SemIds <- NoSems
  SemInit <- NoSemInit
  Preloaded = {}
  InitialMultiprog = 2
  MemCapacity = 1
  Algorithm = "FIFO"
  Quantum = 1
  Code <- EndingAtOnce
  Operator = {"load"}
  Multiprogs = {}
  MaxRequests = 0
  MaxSem = 0
INVARIANTS  QueuesMatchStates
PROPERTIES AdmissionIsFifo
SYMMETRY PidSymmetry
CHECK_DEADLOCK FALSE
