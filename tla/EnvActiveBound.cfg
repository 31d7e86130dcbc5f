CONSTANTS
  alice = alice
  bob = bob
  root = root
  Users = {alice}
  Admins = {}
  System = System
  Keys = {}
  NoKey = NoKey
  EnvIds = {e1, e2}
  NoId = NoId
  Slots = {s1}
  MaxActive = 1
  MaxTotal = 2
  Ttl = 1
  MaxLifetime = 2
  IdemTtl = 2
  MaxNow = 0
  Faults = TRUE
SPECIFICATION Spec
INVARIANT ActiveBound
