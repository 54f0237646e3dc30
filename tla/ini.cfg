SPECIFICATION Spec
CONSTANTS
  NoFile = NoFile
  Utf16 = Utf16
  None = None
  Marker = Marker
  UserFiles <- MCUserFiles
  Edits = {"own", "active"}
  Faults = {"crash", "fail", "torn"}
  MaxEdits = 1
  MaxFaults = 2
  MaxPending = 2
INVARIANTS
  OriginalIniSafe
  InactiveIsUntouched
PROPERTIES
  EnsureSettles
  UserDirsKept
  PurgeNeverStrandsIni
  IniRecovered
