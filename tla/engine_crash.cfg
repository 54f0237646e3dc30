SPECIFICATION Spec
CONSTANTS
  NumTargets = 2
  m1 = m1
  m2 = m2
  v1 = v1
  v2 = v2
  meshes = meshes
  Mod <- MCMod
  Vanilla <- MCVanilla
  Local = None
  Dir <- MCDir
  DirOf <- MCDirOf
  DataRoot = DataRoot
  VanillaDirs = {}
  Torn = Torn
  Absent = Absent
  None = None
  Faults = {"crash", "torn_backup", "torn_place", "torn_restore", "write"}
  MaxFaults = 2
  MaxPending = 1
INVARIANTS
  OriginalsSafe
  LedgerClean
  PathsExplained
PROPERTIES
  ReversibleSpec
  MovesEnd
  RecoveryConverges
