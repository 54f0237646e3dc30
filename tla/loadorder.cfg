SPECIFICATION Spec
CONSTANTS
  p1 = p1
  p2 = p2
  None = None
  Plugin = {1, 2, 3, 4}
  Early = {4}
  Master = {2, 4}
  Profile = {p1, p2}
  Start <- MCStart
  MaxWrites = 1
  MaxEdits = 2
INVARIANT
  InSyncIsLoaded
  WrittenIsInSync
PROPERTY
  WrittenIsRecorded
SYMMETRY
  Profiles
CHECK_DEADLOCK FALSE
