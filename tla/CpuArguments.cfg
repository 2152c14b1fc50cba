SPECIFICATION Spec
CONSTANTS
  Null = Null
  NoId = NoId
  a = a  b = b
  Name = {a, b}
  Program <- WithArgument
  Value <- Values
  PageC = 1
  Cells = 2
  StackSize = 2
  Quantum = 3
  Hash = 2
INVARIANTS ArgumentsAreApart
CHECK_DEADLOCK FALSE
