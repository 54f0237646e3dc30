SPECIFICATION Spec
CONSTANTS
  p1 = p1
  p2 = p2
  a = a
  b = b
  local = local
  c1 = c1
  c2 = c2
  mine = mine
  Proc <- MCTwoTasks
  Root <- MCRoot
  Local = local
  Slug <- MCSlug
  Members <- MCOwnMembers
  UserName <- MCUserName
  Free = Free
  Commands <- AllCommands
  Faults <- AllFaults
  MaxCalls = 4
INVARIANTS
  NoDanglingRows
  NobodyStuck
PROPERTIES
  SwitchSettles
  ActiveProfileKept
CHECK_DEADLOCK FALSE
