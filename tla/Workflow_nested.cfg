SPECIFICATION WorkflowSpec
CONSTANTS
  Steps <- Nodes
  Roots <- DeepRoots
  Subtemplates <- DeepSubtemplates
  Matchers <- DeepMatchers
  MaxEvents = 1
  TemplateThreads = 1
INVARIANTS SubtemplatesGoThrough
CHECK_DEADLOCK FALSE
