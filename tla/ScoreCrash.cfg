CONSTANTS
  xss = xss
  sqli = sqli
  Users = {alice}
  Slugs = {xss}
  Points <- OneWorth
  NoUser = NoUser
  NoSlug = NoSlug
  Slots = {s1}
  MaxAttempts = 2
  Faults = TRUE
SPECIFICATION Spec
INVARIANT AnsweredSolveIsRecorded
