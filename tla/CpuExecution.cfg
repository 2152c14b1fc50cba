SPECIFICATION FairSpec
CONSTANTS
  Null = Null
  NoId = NoId
  a = a  b = b
  Name = {a, b}
  Program <- Programs
  Value <- Values
  PageC = 1
  Cells = 2
  StackSize = 2
  Quantum = 1
  Hash = 2
INVARIANTS TypeOK VariablesAreApart
PROPERTIES TurnsEnd 
CHECK_DEADLOCK FALSE
