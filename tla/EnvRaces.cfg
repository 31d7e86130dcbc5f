CONSTANTS
  alice = alice
  bob = bob
  root = root
  Users = {alice, root}
  Admins = {root}
  System = System
  Keys = {}
  NoKey = NoKey
  EnvIds = {e1}
  NoId = NoId
  Slots = {s1, s2}
  MaxActive = 1
  MaxTotal = 1
  Ttl = 1
  MaxLifetime = 1
  IdemTtl = 2
  MaxNow = 1
  Faults = TRUE
SPECIFICATION MCSpec
SYMMETRY Symmetry
INVARIANT SlidingWindow
INVARIANT Isolation
INVARIANT OnlyFailedStartEscapes
PROPERTY SettledIsFinal
