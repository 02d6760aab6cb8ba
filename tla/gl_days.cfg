\* Days of eight seconds and months of two days; the clock is set back once.
SPECIFICATION FairSpec
CONSTANTS
  DaySecs = 8
  MonthDays = 2
  BufLines = 3
  MaxTime = 24
  SetsBack = 1
  NoFile = NoFile
INVARIANTS
  QuietIsFlushed
PROPERTIES
  EntryInOwnDay
  DestructionEnds
\* The log is destroyed, the process has died, or time is up.
CHECK_DEADLOCK FALSE
