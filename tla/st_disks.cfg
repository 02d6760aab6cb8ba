\* One disk or two, a host at Greenwich.
SPECIFICATION Spec
CONSTANTS
  g1 = g1
  g2 = g2
  MaxStorage = 2
  Dirs <- TwoDirs
  Capacity = 2
  MinFree = 1
  Keep = 1
  FailLimit = 2
  Zone = 0
SYMMETRY Symmetry
INVARIANTS
  TypeOK
  RootIsCurrent
  FirstWithRoom
PROPERTIES
  RecentIsKept
  SavesMeetNoCleaning
\* The service may not start, the process may die, files may stop coming.
CHECK_DEADLOCK FALSE
