SPECIFICATION Spec
CONSTANTS
  N = 2
  Threads = 2
  MaxResults = 3
  Errors = {"e1", "e2"}
  Hosts = {"target"}
  Target = "target"
  HostOf <- OneHost
INVARIANTS FirstMatchWasFound
CHECK_DEADLOCK FALSE
