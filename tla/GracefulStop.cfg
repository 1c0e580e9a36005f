\* One worker, told to stop once.
SPECIFICATION Spec
CONSTANTS
  Worker = {w1}
  Phone = {p1}
  Nobody = Nobody
  MaxAccounts = 1
  Ttl = 2
  MaxIncidents = 1
PROPERTY ShutdownReleases
