\* Two workers, one account, and incidents enough to lose a claim twice.
SPECIFICATION FairSpec
CONSTANTS
  Worker = {w1, w2}
  Phone = {p1}
  Nobody = Nobody
  MaxAccounts = 1
  Ttl = 2
  MaxIncidents = 2
PROPERTIES
  LossNoticed
  OrphanExpires
