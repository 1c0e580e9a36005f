\* Two calls at a time on one orchestrator, a farm with one row, started twice at most.
SPECIFICATION FairSpec
CONSTANTS
  Caller = {c1, c2}
  Orch = {o1}
  Row = {a1}
  None = None
  MaxStarts = 2
  MaxCalls = 4
INVARIANTS
  TypeOK
  LastComment
  RestRespected
  StopHoldsOn
PROPERTIES
  StopEnds
CHECK_DEADLOCK FALSE
