SPECIFICATION SafetySpec
CONSTANTS
    PRs = {1, 2}
    NomadJobs = {j, k}
    Reported = {{}, {j, k}}
    Chunked = {1}
    Final = {1}
    RiverWorkers = {1, 2}
    RolloutAttempts = 2
    MaxReports = 2
    MaxMishaps = 2
    BuildChecks = {build}
    CheckWorkers = {1, 2}
    CheckAttempts = 2
    MaxRemediations = 1
    MaxHeads = 2
    MaxCheckEvents = 3
    MaxCheckFaults = 1
    PoststopTask = TRUE
    EvalShapes <- SafetyShapes
    MaxAllocs = 2
    MaxTaskRestarts = 1
    MaxStreamLag = 1
    StreamBudgets <- SafetyStreamBudgets
    Lessees = {1, 2}
    MaxSpawns = 2
    MaxSessionTurns = 2
    MinSessionTurns = 1
    PoolBudgets <- SafetyPoolBudgets
    Repos = {"aerial", "config"}
    GitJobs = {"hangar", "eri"}
    HangarJob = "hangar"
    ConfigRepo = "config"
    PushHandlers = {"h1", "h2"}
    HomeOf <- SafetyHomes
    GitBudgets <- SafetyGitBudgets
    VarOrder <- SafetyVarOrder
    VarCallers = {1, 2}
    VarBudgets <- SafetyVarBudgets
    SkillCases <- SafetyCases
    CliqueMax = 4
    AlertRepeats = 3
    SkillBudgets <- SafetySkillBudgets
    SchedIds = {"c", "b", "o"}
    SchedKind <- SafetyKinds
    Viewers = {v1, v2}
    CacheTTL = 1
    SchedHorizon = 2
    DefaultPage = 2
    MaxPage = 2
    RunInstants = 3
    PageRequests = {0, 1, 3}
    ViewBudgets <- SafetyViewBudgets
    Hooks = {h1, h2}
    GuardFiles = {f, g}
    CallSteps = {1, 2}
    ReadRanges <- SafetyRanges
    PageLines = 6
    AnchorLines = 3
    GapLines = 1
    MaxRecords = 2
    GuardBudgets <- SafetyGuardBudgets
    StoreIds = {i1, i2}
    Snowflakes = {t1}
    NamedThreads = {u1}
    Conversations = {"", "c", "d"}
    BornTimes = {1, 2}
    StepNumbers <- SafetySteps
    MinTurns = 1
    TaskLimit = 2
    CallBudgets <- SafetyCallBudgets
INVARIANTS
    SynapseIsSound HangarIsSound AgentPoolIsSound SkillDesignIsSound ScheduleViewsAreSound
    BatchGuardIsSound StoreDoubleIsSound
PROPERTIES
    NothingIsTakenBack
CHECK_DEADLOCK FALSE
