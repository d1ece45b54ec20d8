SPECIFICATION FairSpec
CONSTANTS
  N = 3
  Threads = 2
  MaxResults = 2
  Errors = {"e1"}
  Hosts = {"target", "other"}
  Target = "target"
  HostOf <- TwoHosts
INVARIANTS TypeOK NoSendAfterClose MatchReported ErrorsAnswered NothingLost
PROPERTIES Settles
CHECK_DEADLOCK FALSE
