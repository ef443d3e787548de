SPECIFICATION CompareSpec
CONSTANTS
  Sites <- AllSites
  MaxSessions <- SessionsOf
  MaxClickDepth = 1
  MaxRedirectHops = 4
  MaxOgImageHops = 2
  SignatureLen = 4
  BandRows = 2
  SimilarBytes = 3
  NearDupWindow = 2
  TemplateMin = 3
  TemplateFloor = 2
  PervasiveMin = 2
  MaxTrail = 3
  ListLimits <- Limits
  GivenRules <- Given
  FailOn <- Tokens
INVARIANTS
    IssuesAreTheFiles
    TruncatedSaysNoLies
    EveryPageHasItsPlace
    RedirectsToldOnce
    NearGroupsAreComponents
    UnchangedSiteNoNews
    TurnedAround
    GateNeverSilent
    SavedDiffKeepsItsDoubts
    ReportAddsUp
    PanelCountsSites
