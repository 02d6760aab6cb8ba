\* Three instances, started, stopped and killed, and an administrator.
SPECIFICATION Spec
CONSTANTS
  p1 = p1
  p2 = p2
  p3 = p3
  Procs <- ThreeProcs
  NoProc = NoProc
  Settings <- AllSettings
  Default = "default"
  Cut <- CutSettings
  Disks <- DisksOf
  Indexes = {0, 1, 2}
  NoXml = NoXml
INVARIANTS
  AtMostOneServes
  PidFileNamesIt
  SettingsAreAsked
PROPERTIES
  StopKeepsDisk
