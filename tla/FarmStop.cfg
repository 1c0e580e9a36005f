\* A start and a stop of one farm, on one orchestrator.
SPECIFICATION Spec
CONSTANTS
  Caller = {c1, c2}
  Orch = {o1}
  Row = {a1}
  None = None
  MaxStarts = 1
  MaxCalls = 2
INVARIANT
  StopIsFinal
CHECK_DEADLOCK FALSE
