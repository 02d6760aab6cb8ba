\* A client with three files that follows the protocol, one with a split line and a
\* heartbeat, and one with two files of which one has grown; each may leave at any
\* moment.
SPECIFICATION FairSpec
CONSTANTS
  f1 = f1
  f2 = f2
  f3 = f3
  NoFile = NoFile
  Files <- ThreeFiles
  Size <- SizesOneTwo
  Objs = {1, 2, 3, 4, 5, 6}
  NoObj = 0
  PackUnits = 2
  QueueCap = 1
  Clients <- OrderlyAndRude
INVARIANTS
  TypeOK
  SavedIsSent
  ToldIsKept
  NoUseAfterReset
PROPERTIES
  QueuedIntact
  ImplementsTransfer
  SentIsAnswered
  DisconnectReleases
\* The client has no more files, or the process has died.
CHECK_DEADLOCK FALSE
