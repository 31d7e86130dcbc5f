CONSTANTS
  Proposals <- MCProposals
  Environments <- MCEnvironments
  ClientWired = FALSE
  Users = {"a", "b"}
  Slugs = {"x", "y"}
  Kinds = {"challenge", "learning"}
  Paths = {"x"}
  Marks <- MCMarks
  Ids = {1, 2}
  Times = {1, 2}
  Worth = 10
  Tries = 3
  Players = {"ann", "root"}
  Staff = {"root"}
  Catalog = {"reflected-xss", "idor"}
  Registered = {"reflected-xss"}
  Rows = {1, 2}
  Key = "key"
  Visits = {1}
  Period = 1
  Horizon = 1
  Challenges <- LabChallenges
  LearningPaths <- LabLearningPaths
  Missions <- LabMissions
  SecurityTools <- LabTools
  Panels <- LabPanels
  Unknown = "gone"
  MaxLoads = 1
  MaxFilters = 2
  Queries <- MCQueries
  Messages = {"first", "second"}
SPECIFICATION PartsSpec
CHECK_DEADLOCK FALSE
 
INVARIANT BootIsCoherent
INVARIANT StoresAgree
INVARIANT ChallengeCallsAreBound
INVARIANT PagesTellTheRoute
INVARIANT ListsLeadOn
INVARIANT ContactIsHonest
INVARIANT MenuGivesThePageBack
