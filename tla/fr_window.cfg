\* A fileinfo that comes before state_ is WAITING again is forgotten.
SPECIFICATION FairSpec
CONSTANTS
  f1 = f1
  f2 = f2
  f3 = f3
  NoFile = NoFile
  Files <- TwoFiles
  Size <- SizeMixed
  Objs = {1, 2, 3, 4, 5, 6}
  NoObj = 0
  PackUnits = 2
  QueueCap = 2
  Clients <- OrderlyTwo
PROPERTY InfoIsAnswered
\* The client has no more files, or the process has died.
CHECK_DEADLOCK FALSE
