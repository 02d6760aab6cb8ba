\* A notification between the test and the wait is lost.
SPECIFICATION FairSpec
CONSTANTS
  r1 = r1
  r2 = r2
  f1 = f1
  f2 = f2
  NoFile = NoFile
  Receivers <- OneReceiver
  Files <- TwoFiles
PROPERTY QueuedIsSaved
CHECK_DEADLOCK FALSE
