SPECIFICATION Spec
CONSTANTS
  NumTemplates = 1
  NumTargets = 2
  TypeConcurrency = 1
  InputConcurrency = 1
  HostErrors = FALSE
  MaxSessions = 2
INVARIANTS SkippedWasProcessed
