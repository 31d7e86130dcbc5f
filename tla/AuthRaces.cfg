CONSTANTS
  alice = alice
  bob = bob
  Users = {alice}
  NoUser = NoUser
  Sessions = {c1, c2}
  NoSession = NoSession
  Slots = {s1, s2}
  SessionTtl = 1
  MaxNow = 2
SPECIFICATION Spec
SYMMETRY Symmetry
INVARIANT DeadTokenAdmitsNobody
INVARIANT OnlySweptSessionsFail
INVARIANT OneWelcomePerEmail
PROPERTY RevocationStands
