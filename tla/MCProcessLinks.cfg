CONSTANTS
  p1 = p1
  p2 = p2
  p3 = p3
  p4 = p4
  l1 = l1
  l2 = l2
  Nil = Nil
  Processes <- MCProcesses
  Lists <- MCLists
SPECIFICATION Spec
INVARIANTS
  TypeOK
  ListsWellFormed
  FreeIsUnlinked
PROPERTY LinksImplementQueues
