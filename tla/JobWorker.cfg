\* Two assistant workers, which dead-letter the first error, and two tasks.
SPECIFICATION FairSpec
CONSTANTS
  Task = {t1, t2}
  Consumer = {c1, c2}
  NoLease = NoLease
  NoTask = NoTask
  Outcomes = {"ok", "error"}
  MaxAttempts = 0
  MaxAtt = 1
  MaxFaults = 1
PROPERTIES
  EventuallySettled
  PromiseKept
