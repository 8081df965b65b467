\* Two models, one repair or retry for each, and two mishaps, under fairness.
CONSTANTS
  m1 = m1  m2 = m2
  Missing = Missing
  DocTypes = {"invoice"}
  InSource <- Written
  Ceiling = 3
  Candidates <- SomeAnswers
  MAX_REPAIR_ATTEMPTS = 1
  Reads = 1
  ReadTimeout = 1
  CallTimeout = 2
  ScoresTimeout = 0
  BudgetMargin = 3
  StaleSeconds = 3
  Models = {m1, m2}
  ModelOf <- OneEach
  Cooldown = 3
  DryRun = FALSE
  MaxMishaps = 2
SPECIFICATION FairSpec
INVARIANTS TypeOK HeartbeatFresh WithinPoll  ReviewSaysWhy
PROPERTIES Heals
CHECK_DEADLOCK FALSE
