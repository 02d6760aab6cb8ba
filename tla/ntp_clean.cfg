\* Answers come in time, late, behind the next request, or never, and the clock drifts
\* beyond what the client must not leave it at.
SPECIFICATION FairSpec
CONSTANTS
  Period = 2
  Timeout = 1
  SyncLimit = 1
  MaxDelay = 3
  MaxLate = 1
  Drift = 2
INVARIANTS
  TypeOK
  FailuresInvalidate
PROPERTIES
  AnsweredIsAccurate
  DestructionEnds
\* The client is destroyed.
CHECK_DEADLOCK FALSE
