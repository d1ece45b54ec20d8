SPECIFICATION Spec
CONSTANTS
  Events <- OneEvent
  Ids <- OneId
  UrlsOf <- OneUrl
  Earlier <- OneAlone
  Hash <- OneHash
  MaxInteractions = 1
  MaxForgotten = 0
INVARIANTS Correlated
CHECK_DEADLOCK FALSE
