CONSTANTS
    RuleLists <- MCRules
    NumKeys = 2
SPECIFICATION FuzzSpec
CHECK_DEADLOCK FALSE
PROPERTY StopSkipsFurther
