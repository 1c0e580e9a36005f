\* One worker, killed once.
SPECIFICATION Spec
CONSTANTS
  Task = {t1}
  Consumer = {c1}
  NoLease = NoLease
  NoTask = NoTask
  Outcomes = {"ok", "error"}
  MaxAttempts = 1
  MaxAtt = 2
  MaxFaults = 1
INVARIANT ReservedIsLeased
