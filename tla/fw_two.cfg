\* Two connections push at the same time: a file is lost.
SPECIFICATION Spec
CONSTANTS
  r1 = r1
  r2 = r2
  f1 = f1
  f2 = f2
  NoFile = NoFile
  Receivers <- TwoReceivers
  Files <- TwoFiles
INVARIANT NoAcceptedFileLost
CHECK_DEADLOCK FALSE
