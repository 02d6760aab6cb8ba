\* One connection: the writer keeps, orders and stores what it accepted.
SPECIFICATION FairSpec
CONSTANTS
  r1 = r1
  r2 = r2
  f1 = f1
  f2 = f2
  NoFile = NoFile
  Receivers <- OneReceiver
  Files <- TwoFiles
INVARIANTS
  TypeOK
  NoAcceptedFileLost
  GiveUpOnlyAfterFiveFailures
PROPERTIES
  FailedSaveIsResolved
  DestructionEnds
  ImplementsStore
\* The daemon may stop, crash, or have nothing left to save.
CHECK_DEADLOCK FALSE
