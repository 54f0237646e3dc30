SPECIFICATION Spec
CONSTANTS
  NumTargets = 2
  m1 = m1
  m2 = m2
  v1 = v1
  v2 = v2
  meshes = meshes
  Mod <- MCMod
  Vanilla <- MCVanilla
  Local = None
  Dir <- MCDir
  DirOf <- MCDirOf
  DataRoot = DataRoot
  VanillaDirs = {}
  Torn = Torn
  Absent = Absent
  None = None
  Faults = {"fail_commit"}
  MaxFaults = 1
  MaxPending = 2
INVARIANT
  OriginalsSafe
