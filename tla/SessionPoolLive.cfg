\* Every call returns: two tasks, two accounts, room for one client in the pool, no mishap.
SPECIFICATION FairSpec
CONSTANTS
  Account = {a1, a2}
  Task = {t1, t2}
  Nobody = Nobody
  MaxConcurrent = 1
  MaxAccountLocks = 1
  MaxClients = 1
  MaxMishaps = 0
PROPERTIES
  CallsReturn
\* A deadlock here is a call that does not return: CallsReturn reports it as what it is.
CHECK_DEADLOCK FALSE
