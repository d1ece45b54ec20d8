SPECIFICATION FairSpec
CONSTANTS
  NumTemplates = 2
  NumTargets = 2
  TypeConcurrency = 1
  InputConcurrency = 2
  HostErrors = TRUE
  MaxSessions = 2
INVARIANTS TypeOK NothingForgotten
PROPERTIES SessionEnds ImplementsPlan
