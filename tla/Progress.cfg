SPECIFICATION ProgressSpec
CONSTANTS
    Watches = {a, b}
    OneShot = {a}
    Targets = {1}
    VanadisTargets = {1}
    TargetOf <- ProgressTargetOf
    EventTypes = {"merged"}
    TypeOf <- WatchedTypes
    Handlers = {1}
    HTTPAttempts = 2
    RiverAttempts = 2
    MaxEvents = 1
    MaxCrashes = 1
    MaxFaults = 1
    MaxTurns <- ProgressTurns
    MaxCallFaults = 0
    FrameMs = 20
    SpeechMs = 30
    SilenceMs = 60
    HoldMs = 120
    MaxRecording = 1
    MaxFrames = 1
    InitialChunks = 2
    ChunkAttempts = 2
    BuildBudgets <- ProgressBuilds
    TurnRows = {1, 2}
    ToolAtoms = {4}
    TurnLimit = 2
    MaxCandidates = 2
    MaxPasses = 2
    MemoryBudgets <- ProgressMemories
    AttemptLimit = 2
    ResumeLimit = 1
    RotateAfter = 2
    AttemptBudgets <- ProgressAttempts
    MaxHistoryTurns = 1
    MaxToolRounds = 2
    VoiceBudgets <- ProgressVoices
    StaleTTL = 3
    PageLimit = 1
    CommandAttempts = 1
    IngressBudgets <- ProgressIngress
    Procs = {1, 2}
    HandoffBudgets <- ProgressHandoffs
    NPaths = 2
    Mistakes = {"category", "policy"}
    Slots = {1}
    ReloadBudgets <- ProgressReloads
    TargetOrder <- PartsTargetOrder
    PullOrder <- PartsPullOrder
    Skills = {"s1"}
    SkillCategory <- PartsCategories
    Servers = {"m"}
    ServerPlans <- PartsPlans
    Sessions = {"c"}
    EnvBudgets = {}
    BurstSize = 3
    FailureThreshold = 2
    BurstScripts <- ProgressScripts
PROPERTIES
    EverythingEnds
CHECK_DEADLOCK FALSE
