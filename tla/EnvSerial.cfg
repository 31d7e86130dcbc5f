CONSTANTS
  alice = alice
  bob = bob
  root = root
  Users = {alice}
  Admins = {}
  System = System
  Keys = {k1}
  NoKey = NoKey
  EnvIds = {e1, e2}
  NoId = NoId
  Slots = {s1}
  MaxActive = 1
  MaxTotal = 1
  Ttl = 1
  MaxLifetime = 2
  IdemTtl = 1
  MaxNow = 2
  Faults = TRUE
SPECIFICATION MCFairSpec
INVARIANT RetainedBound
INVARIANT AnswerIsTheRow
INVARIANT SweepReclaims
PROPERTY ImplementsLifecycle
PROPERTY ExpiryOnlySlidesForward
PROPERTY RememberedKeyMintsNothing
PROPERTY EveryCallAnswered
