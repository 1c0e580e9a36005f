\* Two tasks, two accounts, room for one client in the pool and for one lock in the dict.
SPECIFICATION Spec
CONSTANTS
  Account = {a1, a2}
  Task = {t1, t2}
  Nobody = Nobody
  MaxConcurrent = 1
  MaxAccountLocks = 1
  MaxClients = 2
  MaxMishaps = 1
SYMMETRY Symmetry
CONSTRAINT Few
INVARIANTS
  TypeOK
  PoolWithinCeiling
  ConnectedWithinReach
  OneClientUnlessReplaced
  QuietIsUnlocked
  NoCircularWait
  NoClientForgotten
