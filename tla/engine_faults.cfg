SPECIFICATION Spec
CONSTANTS
  NumTargets = 1
  m1 = m1
  m2 = m2
  v1 = v1
  v2 = v2
  meshes = meshes
  Mod <- MCMod
  Vanilla <- MCVanilla
  Local = m2
  Dir <- MCDir
  DirOf <- MCDirOf
  DataRoot = DataRoot
  VanillaDirs = {}
  Torn = Torn
  Absent = Absent
  None = None
  Faults <- AllFaults
  MaxFaults = 3
  MaxPending = 2
INVARIANT
  TypeOK
PROPERTIES
  RowsClosedConsistent
  CommandsReturn
