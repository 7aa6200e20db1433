CONSTANTS
  p1 = p1
  p2 = p2
  Procs = {p1, p2}
  NumPages = 6
  MaxAllocations = 2
  Sizes = {1, 2}
  MaxArgs = 2
  MaxCopies = 2
SPECIFICATION Spec
SYMMETRY Symmetric
INVARIANTS AllocationsAccounted AllocationsMapped Confined NoForeignFree ArgumentsArrive EndsClean
PROPERTY InjectedWhole
CHECK_DEADLOCK FALSE
