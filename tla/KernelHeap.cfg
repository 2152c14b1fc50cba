SPECIFICATION FairSpec
CONSTANTS
  NoPid = NoPid
  Pid = {p1,p2}
  HeaderSize = 2
  PageSize = 9
  FirstPage = 1
  MaxPage = 2
  FreeFrames = 2
  Sizes = {1, 3, 6}
  Variable = 4
  Overlap = FALSE
INVARIANTS TypeOK BlocksTileThePage AllocationsAreKept FreeSizeIsThere PagesAreGranted
PROPERTIES HeapIsAnswered
CHECK_DEADLOCK FALSE
