SPECIFICATION RSpec
CONSTANTS
  NumTargets = 2
  m1 = m1
  m2 = m2
  v1 = v1
  meshes = meshes
  Mod <- MCMod
  Vanilla <- MCVanilla
  Local = m2
  Dir <- MCDir
  DirOf <- MCDirOf
  DataRoot = DataRoot
  VanillaDirs = {}
  Torn = Torn
  Absent = Absent
  None = None
  Faults = {"crash", "torn_backup", "torn_place", "torn_restore", "unstage", "touch_managed"}
  MaxFaults = 3
  MaxPending = 1
INVARIANTS
  OriginalsSafe
  UnmanagedIsOriginal
PROPERTIES
  RepairSettles
  RepairSparesOthers
