SPECIFICATION Spec
CONSTANTS
  first = first
  second = second
  Tasks <- MCTasks
  Archive <- MCArchive
  Format <- MCFormat
  Entries <- MCEntries
  Recognized = {"Data", "data", "skse"}
  Torn <- MCTorn
INVARIANTS
  OnlyVettedContent
  OkIsComplete
  LockedDown
SYMMETRY Symmetry
CHECK_DEADLOCK FALSE
