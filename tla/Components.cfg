CONSTANTS
    NumTpls = 2
    NumHosts = 2
    NumSelf = 1
    BulkSize = 2
    TplConcurrency = 1
    MatcherStatus = TRUE
    EventBounds <- MCEventBounds
    Fuzzers = {w1, w2}
    Params = {p1, p2}
    FreqThreshold = 2
    MaxTrackCount = 1
    MaxMarks = 3
    Scripts = {s1, s2, s3}
    Ephemeral = {s3}
    PoolSize = 1
    EphemeralSize = 1
    Requests = {r1, r2}
    Entries = {d1, d2}
    NumFields = 2
    MaxLogins = 2
    Plans <- MCPlans
    RuleLists <- MCRuleLists
    NumKeys = 2
    TemplateLists <- MCTemplateLists
    Responses <- MCResponses
    WithStatus = TRUE
    LineSizes <- MCLineSizes
    MaxChunkSize = 3
    ChannelSize = 2
    PipeLines = 1
    MaxUnheard = 1
    Steps <- Nodes
    Roots <- FlatRoots
    Subtemplates <- FlatSubtemplates
    Matchers <- FlatMatchers
    MaxEvents = 3
    TemplateThreads = 1
    e1 = e1
    e2 = e2
    e3 = e3
    e4 = e4
    t1 = t1
    t2 = t2
    t3 = t3
    target = target
    atPort = atPort
    NoHash = NoHash
    Executions = {e1, e2, e3, e4}
    Executed = {e1, e2, e4}
    Templates = {t1, t2, t3}
    MetaInputs = {target, atPort}
    Inputs = {target, atPort}
    TemplateOf <- MCTemplateOf
    MetaInputOf <- MCMetaInputOf
    InputOf <- MCInputOf
    AtPort <- MCAtPort
    Kinds <- MCKinds
SPECIFICATION Spec
CHECK_DEADLOCK FALSE
INVARIANTS
    StatusOfEveryRun
    IssueNotLost
    HostScanResult
    FewLateStarts
    ArgsIsolated
    OneLoginPerEntry
    SentAsPlanned
    ProgressAccounted
    OnePointAtATime
    ClusterTransparent
    UploadAccounted
    ReturnsWhenDone
    SubtemplatesGoThrough
    PassedOnUnlessAstray
    NoForeignValues
    RemovedUnlessStrayed
PROPERTIES
    HostImplementsPlan
    HostScanEnds
    UnmarkHolds
    EveryCallReturns
    RawOnlyWhileFetching
    StopHoldsForValues
    Returns
