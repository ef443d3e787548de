SPECIFICATION Spec
CONSTANTS
  Webs <- AllWebs
  Tasks = {"loop a", "loop b", "p1", "p2", "p3"}
  HostOf <- TaskHost
  Loop <- LoopOf
  Hosts = {"a", "b"}
  Answers = {"absent", "rules", "slow"}
  Parsed = {"rules", "slow"}
  Slow = {"slow"}
  Nothing = "nothing"
  Concurrency = 2
  MaxSitemaps = 5
  DefaultLimit = 2
  OverloadStreak = 1
  RecoveryStreak = 2
  MaxWait = 1
INVARIANTS
    OneDownload
    SameRulesForAll
    EachReadOnce
    BudgetedAndTold
PROPERTY
    DiscoveryEnds
