CONSTANTS
  xss = xss
  sqli = sqli
  Users = {alice}
  Slugs = {xss, sqli}
  Points <- TwoWorth
  NoUser = NoUser
  NoSlug = NoSlug
  Slots = {s1, s2}
  MaxAttempts = 2
  Faults = TRUE
SPECIFICATION FairSpec
INVARIANT LedgerBacksProgress
INVARIANT TotalIsCurrent
INVARIANT SummaryIsBacked
INVARIANT NoAwardForgotten
PROPERTY ImplementsScoreBook
PROPERTY AwardReachesProgress
