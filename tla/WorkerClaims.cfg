\* Two workers, two accounts.
SPECIFICATION Spec
CONSTANTS
  Worker = {w1, w2}
  Phone = {p1, p2}
  Nobody = Nobody
  MaxAccounts = 2
  Ttl = 2
  MaxIncidents = 1
SYMMETRY Symmetry
INVARIANTS
  TypeOK
  ExclusiveClaims
  OneClientPerAccount
PROPERTIES
  ClaimEndsByOwner
  RunningKeepsClaims
