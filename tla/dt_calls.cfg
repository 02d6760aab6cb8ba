\* Three calls of one object, with replies of up to two pieces.
SPECIFICATION Spec
CONSTANTS
  MaxCalls = 3
  MaxPieces = 2
  StatusUnits = 1
INVARIANTS
  NoMisuse
  OnlyFailuresLeak
  SuccessIsAnswer
\* The object is destroyed, or the process has died.
CHECK_DEADLOCK FALSE
