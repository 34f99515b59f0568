SPECIFICATION PartsSpec
CONSTANTS
    Watches = {a, b}
    OneShot = {a}
    Targets = {1, 2}
    VanadisTargets = {1}
    TargetOf <- PartsTargetOf
    EventTypes = {"merged", "failed"}
    TypeOf <- WatchedTypes
    Handlers = {1, 2}
    HTTPAttempts = 2
    RiverAttempts = 2
    MaxEvents = 1
    MaxCrashes = 1
    MaxFaults = 1
    MaxTurns <- PartsTurns
    MaxCallFaults = 1
    FrameMs = 20
    SpeechMs = 30
    SilenceMs = 60
    HoldMs = 120
    MaxRecording = 6
    MaxFrames = 9
    InitialChunks = 2
    ChunkAttempts = 2
    BuildBudgets <- PartsBuilds
    TurnRows = {1, 2, 3}
    ToolAtoms = {4}
    TurnLimit = 2
    MaxCandidates = 2
    MaxPasses = 2
    MemoryBudgets <- PartsMemories
    AttemptLimit = 2
    ResumeLimit = 1
    RotateAfter = 2
    AttemptBudgets <- PartsAttempts
    MaxHistoryTurns = 1
    MaxToolRounds = 2
    VoiceBudgets <- PartsVoices
    StaleTTL = 3
    PageLimit = 1
    CommandAttempts = 1
    IngressBudgets <- PartsIngress
    Procs = {1, 2}
    HandoffBudgets <- PartsHandoffs
    NPaths = 2
    Mistakes = {"category", "policy"}
    Slots = {1}
    ReloadBudgets <- PartsReloads
    TargetOrder <- PartsTargetOrder
    PullOrder <- PartsPullOrder
    Skills = {"s1"}
    SkillCategory <- PartsCategories
    Servers = {"m"}
    ServerPlans <- PartsPlans
    Sessions = {"c"}
    EnvBudgets <- PartsEnvs
    BurstSize = 3
    FailureThreshold = 2
    BurstScripts <- PartsScripts
INVARIANTS
    EventWatchesAreSound PhoneIsSound ChunkBuildIsSound CovenMemoryIsSound TurnAttemptsAreSound
    VoicePoolIsSound DiscordIngressIsSound LeaderHandoffIsSound SettingsAreSound BurstPlanIsSound
PROPERTIES
    NoStepBack
CHECK_DEADLOCK FALSE
