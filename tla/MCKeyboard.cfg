SPECIFICATION Spec
CONSTANTS
  NULL = NULL
  Procs = {p1, p2}
  BufferSize = 3
  ScanSet <- MCScanSet
  ScanSize = 3
  AfterTable <- MCAfterTable
  CapsLockKey = 2
  Scancodes <- MCScancodes
SYMMETRY Symmetry
INVARIANTS RingInv
PROPERTY ImplementsKeyQueue
