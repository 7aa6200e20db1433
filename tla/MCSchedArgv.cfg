SPECIFICATION RSpec
CONSTANTS
  NULL = NULL
  Procs = {p1, p2, p3}
  MaxProcesses = 3
  Failures = {"argv"}
INVARIANT ContextBound
