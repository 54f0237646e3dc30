SPECIFICATION Spec
CONSTANTS
  window = window
  link = link
  Tasks <- MCTasks
  Invoked <- MCInvoked
  Root <- MCRoot
  File <- MCTwoFiles
  Cap = 1
  Resets = {0, 1, 2}
  MaxChunks = 2
INVARIANTS
  NoOrphanArchive
  ListedIsStaged
  CancelStops
PROPERTIES
  BackoffHeld
  InvokedRowSettles
CHECK_DEADLOCK FALSE
