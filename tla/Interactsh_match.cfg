SPECIFICATION Spec
CONSTANTS
  Events <- ThreeEvents
  Ids <- ThreeIds
  UrlsOf <- ThreeUrls
  Earlier <- OneAfterOther
  Hash <- SameHost
  MaxInteractions = 2
  MaxForgotten = 1
INVARIANTS HitReported WrittenOnce StopsAtFirstMatch CloseTells
CHECK_DEADLOCK FALSE
