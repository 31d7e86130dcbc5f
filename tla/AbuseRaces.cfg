CONSTANTS
  alice = alice
  bob = bob
  here = here
  Users = {alice, bob}
  Ips = {here}
  login = login
  Signals = {login}
  Nobody = Nobody
  Slots = {s1, s2}
  UserLimit = 1
  IpLimit = 2
  Threshold = 2
  Window = 2
  Headroom = 1
  MaxNow = 4
  Faults = TRUE
SPECIFICATION MCSpec
SYMMETRY Symmetry
INVARIANT FailsClosed
INVARIANT EscalatesOnce
INVARIANT BucketsSelfExpire
INVARIANT WithinLimit
INVARIANT LoneUserNeverTripsIp
