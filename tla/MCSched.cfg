SPECIFICATION RSpec
CONSTANTS
  NULL = NULL
  Procs = {p1, p2, p3, p4}
  MaxProcesses = 3
  Failures <- LoadFailures
INVARIANTS ListIntegrity SlotsComplete ContextBound CalleeSaved
PROPERTY ImplementsRunQueue OnlyTheRunnerEnds HeadRegainsControl
