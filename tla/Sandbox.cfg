CONSTANTS
  Envs = {e1}
  Keys = {k1}
  NoKey = NoKey
  Slots = {s1, s2}
SPECIFICATION Spec
INVARIANT AnswersAreEarned
INVARIANT OnlyCrossingsLeaveStale
PROPERTY EveryCallReturns
