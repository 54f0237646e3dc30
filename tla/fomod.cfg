SPECIFICATION Spec
CONSTANTS
  None = None
  NoFomod = NoFomod
  Broken = Broken
  two_pages = two_pages
  overfull = overfull
  Module <- MCModule
  Schema <- MCSchema
  Composite <- MCComposite
  MaxReplaced = 1
  MaxRefreshes = 1
  MaxInstalls = 2
INVARIANTS
  
  FirstHighestWins
  ReplayIsTheWizard
PROPERTY
  AskedIsComplete
