\* Two workers of one queue with the retry policy, one task, every fault.
SPECIFICATION Spec
CONSTANTS
  Task = {t1}
  Consumer = {c1, c2}
  NoLease = NoLease
  NoTask = NoTask
  Outcomes = {"ok", "error", "fatal"}
  MaxAttempts = 1
  MaxAtt = 3
  MaxFaults = 2
SYMMETRY Symmetry
INVARIANTS
  TypeOK
  NothingVanishes
  OneCopyUnlessOverrun
  SettlesOwnDelivery
  AttemptsAreDeliveries
  StrandedOnlyByFault
  SettledIsFinal
