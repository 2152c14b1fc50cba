SPECIFICATION Spec
CONSTANTS
  p1 = p1  p2 = p2  p3 = p3  s1 = s1
  Mem = Mem  Menu = Menu  None = None
  Pid = {p1,p2}
  Cpu = {c1}
  SemIds <- OneSem
  SemInit <- SemOne
  Preloaded = {p1,p2}
  InitialMultiprog = 2
  MemCapacity = 2
  Algorithm = "FIFO"
  Quantum = 1
  Code <- WaitingAndEnding
  Operator = {"abort", "stop", "multiprog", "planning"}
  Multiprogs = {1, 2}
  MaxRequests = 1
  MaxSem = 1
INVARIANTS TypeOK QueuesMatchStates
SYMMETRY PidSymmetry
CHECK_DEADLOCK FALSE
