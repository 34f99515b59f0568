----------- MODULE MCProgress -----------
(* Parts of the system that share no state, side by side: a behaviour *)
(* picks one of them and runs it under its fairness, the others are *)
(* switched off. *)
EXTENDS EventWatches, PhoneCall, CallAudio, ChunkBuild, CovenMemory, TurnAttempts, VoicePool,
        DiscordIngress, LeaderHandoff, ConfigReload, EnvSync, BurstPlan, TLC

\* The part that runs.
VARIABLE part

Parts == {"watches", "call", "audio", "build", "memory", "attempts", "voice", "ingress", "handoff", "config", "env", "bursts"}

Off == 0

WatchOff ==
    /\ reg = Off /\ held = Off /\ ended = Off /\ happened = Off /\ notice = Off /\ fire = Off /\ events = Off
    /\ watchCrashes = Off /\ watchFaults = Off /\ prompts = Off /\ doubts = Off
    /\ cancelled = Off /\ lost = Off /\ missed = Off /\ late = Off
CallOff ==
    /\ kind = Off /\ callRow = Off /\ line = Off /\ hooks = Off /\ amdRead = Off
    /\ dialler = Off /\ token = Off /\ media = Off /\ poster = Off /\ ending = Off
    /\ livePosted = Off /\ summaries = Off /\ recording = Off /\ spoken = Off /\ cutOff = Off
    /\ callFaults = Off
AudioOff ==
    /\ amd = Off /\ cadence = Off /\ webhooked = Off /\ greetings = Off /\ rec = Off
    /\ code = Off
BuildOff ==
    /\ build = Off /\ chunks = Off /\ chunkJobs = Off /\ recent = Off /\ threads = Off
    /\ briefed = Off /\ prs = Off /\ budget = Off
MemoryOff ==
    /\ aged = Off /\ turns = Off /\ facts = Off /\ nextFact = Off /\ watermark = Off /\ dreamt = Off
    /\ rested = Off /\ jobs = Off /\ excused = Off /\ calm = Off /\ memBudget = Off
AttemptOff ==
    /\ row = Off /\ daemon = Off /\ born = Off /\ corrupt = Off /\ te = Off /\ item = Off
    /\ tries = Off /\ told = Off /\ stopping = Off /\ quotaLock = Off /\ attemptBudget = Off
VoiceOff ==
    /\ script = Off /\ torn = Off /\ heard = Off /\ elder = Off /\ vpools = Off /\ vcur = Off /\ reload = Off /\ closing = Off
    /\ objects = Off /\ vturn = Off /\ voiceBudget = Off
IngressOff ==
    /\ clock = Off /\ posted = Off /\ link = Off /\ missedPosts = Off /\ gatewayEvents = Off
    /\ wm = Off /\ sweep = Off /\ refused = Off /\ river = Off /\ moved = Off /\ worker = Off
    /\ orphans = Off /\ discordThreads = Off /\ known = Off /\ unfiled = Off /\ table = Off
    /\ command = Off /\ igBudget = Off
HandoffOff ==
    /\ phase = Off /\ leader = Off /\ hold = Off /\ lock = Off /\ batch = Off /\ copies = Off
    /\ running = Off /\ request = Off /\ rowState = Off /\ forfeited = Off /\ leftOut = Off
    /\ hoBudget = Off
ReloadOff ==
    /\ files = Off /\ secretsFile = Off /\ unsignalled = Off /\ hup = Off /\ process = Off
    /\ published = Off /\ redacted = Off /\ passedOver = Off /\ loader = Off /\ homes = Off /\ poolModel = Off
    /\ agents = Off /\ reloadBudget = Off
EnvOff ==
    /\ source = Off /\ pull = Off /\ servers = Off /\ sync = Off /\ rules = Off /\ mcp = Off
    /\ skills = Off /\ installId = Off /\ replaced = Off /\ jetski = Off /\ canonical = Off /\ runtimes = Off
    /\ envBudget = Off
BurstOff ==
    /\ burstScript = Off /\ mail = Off /\ lanes = Off /\ burstTurns = Off /\ fate = Off /\ stranded = Off /\ unseen = Off
    /\ verdict = Off /\ poolUp = Off /\ circuit = Off

ProgressInit ==
    /\ part \in Parts
    /\ IF part = "watches" THEN WatchInit ELSE WatchOff
    /\ IF part = "call" THEN CallInit ELSE CallOff
    /\ IF part = "audio" THEN AudioInit ELSE AudioOff
    /\ IF part = "build" THEN BuildInit ELSE BuildOff
    /\ IF part = "memory" THEN MemoryInit ELSE MemoryOff
    /\ IF part = "attempts" THEN AttemptInit ELSE AttemptOff
    /\ IF part = "voice" THEN VoiceInit ELSE VoiceOff
    /\ IF part = "ingress" THEN IngressInit ELSE IngressOff
    /\ IF part = "handoff" THEN HandoffInit ELSE HandoffOff
    /\ IF part = "config" THEN ReloadInit ELSE ReloadOff
    /\ IF part = "env" THEN EnvInit ELSE EnvOff
    /\ IF part = "bursts" THEN BurstInit ELSE BurstOff

\* The variables of every part but p stay as they are.
Others(p) ==
    /\ UNCHANGED part
    /\ IF p = "watches" THEN TRUE ELSE UNCHANGED watchVars
    /\ IF p = "call" THEN TRUE ELSE UNCHANGED callVars
    /\ IF p = "audio" THEN TRUE ELSE UNCHANGED audioVars
    /\ IF p = "build" THEN TRUE ELSE UNCHANGED buildVars
    /\ IF p = "memory" THEN TRUE ELSE UNCHANGED memVars
    /\ IF p = "attempts" THEN TRUE ELSE UNCHANGED attemptVars
    /\ IF p = "voice" THEN TRUE ELSE UNCHANGED voiceVars
    /\ IF p = "ingress" THEN TRUE ELSE UNCHANGED igVars
    /\ IF p = "handoff" THEN TRUE ELSE UNCHANGED hoVars
    /\ IF p = "config" THEN TRUE ELSE UNCHANGED reloadVars
    /\ IF p = "env" THEN TRUE ELSE UNCHANGED envVars
    /\ IF p = "bursts" THEN TRUE ELSE UNCHANGED burstVars

ProgressNext ==
    \/ part = "watches" /\ WatchNext /\ Others("watches")
    \/ part = "call" /\ CallNext /\ Others("call")
    \/ part = "audio" /\ AudioNext /\ Others("audio")
    \/ part = "build" /\ BuildNext /\ Others("build")
    \/ part = "memory" /\ MemoryNext /\ Others("memory")
    \/ part = "attempts" /\ AttemptNext /\ Others("attempts")
    \/ part = "voice" /\ VoiceNext /\ Others("voice")
    \/ part = "ingress" /\ IngressNext /\ Others("ingress")
    \/ part = "handoff" /\ HandoffNext /\ Others("handoff")
    \/ part = "config" /\ ReloadNext /\ Others("config")
    \/ part = "env" /\ EnvNext /\ Others("env")
    \/ part = "bursts" /\ BurstNext /\ Others("bursts")

progressVars == <<part, watchVars, callVars, audioVars, buildVars, memVars, attemptVars,
              voiceVars, igVars, hoVars, reloadVars, envVars, burstVars>>

\* What the programs do by themselves: River's workers, goroutines and timers run.
ProgressWork ==
    \/ part = "watches" /\ WatchWork /\ Others("watches")
    \/ part = "call" /\ CallSteps /\ Others("call")
    \/ part = "build" /\ ChunkWork /\ Others("build")
    \/ part = "memory" /\ MemoryWork /\ Others("memory")
    \/ part = "attempts" /\ TurnWork /\ Others("attempts")
    \/ part = "voice" /\ VoiceWork /\ Others("voice")
    \/ part = "ingress" /\ DeliveryWork /\ Others("ingress")
    \/ part = "config" /\ ConfigWork /\ Others("config")
    \/ part = "bursts" /\ BurstWork /\ Others("bursts")
\* The second goroutine of a part that has two.
SecondWork ==
    \/ part = "voice" /\ ReloadWork /\ Others("voice")
    \/ part = "ingress" /\ SweepWork /\ Others("ingress")

ProgressFairness ==
    /\ WF_progressVars(ProgressWork) /\ WF_progressVars(SecondWork)
    /\ \A p \in Procs :
        /\ WF_progressVars(part = "handoff" /\ LeaderWork(p) /\ Others("handoff"))
        /\ WF_progressVars(part = "handoff" /\ ShutdownWork(p) /\ Others("handoff"))

PartsSpec == ProgressInit /\ [][ProgressNext]_progressVars
ProgressSpec == PartsSpec /\ ProgressFairness
--------------------
(* Bounds. *)
PartsTargetOf == [w \in Watches |-> IF w \in OneShot THEN 1 ELSE 2]
ProgressTargetOf == [w \in Watches |-> 1]
WatchedTypes == [w \in Watches |-> "merged"]

PartsTurns == [k \in CallKinds |-> IF k = "inbound" THEN 2 ELSE 0]
ProgressTurns == [k \in CallKinds |-> IF k = "inbound" THEN 1 ELSE 0]

BuildBudget(advances, edits, faults, cancels, periods, syncs) ==
    [advances |-> advances, edits |-> edits, faults |-> faults, cancels |-> cancels,
     periods |-> periods, syncs |-> syncs]
PartsBuilds ==
    {BuildBudget(2, 1, 0, 0, 1, 0), BuildBudget(1, 0, 2, 0, 0, 1), BuildBudget(2, 0, 1, 0, 1, 1),
     BuildBudget(2, 1, 0, 1, 0, 0), BuildBudget(2, 2, 0, 0, 0, 0), BuildBudget(1, 1, 1, 1, 0, 1),
     BuildBudget(3, 1, 0, 0, 0, 0)}
ProgressBuilds ==
    {BuildBudget(2, 1, 0, 0, 0, 0), BuildBudget(1, 0, 2, 0, 0, 0), BuildBudget(1, 0, 0, 1, 0, 0)}

MemoryBudget(faults, crashes, tools, dreams, longs, days) ==
    [faults |-> faults, crashes |-> crashes, tools |-> tools, dreams |-> dreams, longs |-> longs, days |-> days]
PartsMemories ==
    {MemoryBudget(1, 0, 0, 1, 0, 0), MemoryBudget(2, 0, 0, 0, 0, 0), MemoryBudget(0, 1, 0, 1, 0, 0),
     MemoryBudget(0, 0, 1, 1, 0, 0), MemoryBudget(0, 0, 0, 2, 0, 0), MemoryBudget(0, 0, 2, 0, 0, 0),
     MemoryBudget(1, 0, 1, 0, 0, 0), MemoryBudget(0, 0, 0, 0, 2, 1)}
ProgressMemories == {MemoryBudget(2, 0, 0, 0, 0, 1), MemoryBudget(0, 1, 0, 1, 0, 0), MemoryBudget(1, 0, 0, 1, 0, 0)}

AttemptBudget(n, interrupts, stops, faults) ==
    [turns |-> n, interrupts |-> interrupts, stops |-> stops, faults |-> faults]
PartsAttempts == {AttemptBudget(2, 1, 0, 0), AttemptBudget(2, 0, 1, 0), AttemptBudget(2, 0, 0, 1),
                  AttemptBudget(1, 1, 0, 1), AttemptBudget(1, 0, 0, 2)}
ProgressAttempts == {AttemptBudget(1, 1, 0, 0), AttemptBudget(1, 0, 1, 0), AttemptBudget(1, 0, 0, 1)}

VoiceBudget(n, changes, closes, restarts, failures) ==
    [turns |-> n, reloads |-> changes, closes |-> closes, restarts |-> restarts, failures |-> failures]
PartsVoices == {VoiceBudget(3, 1, 0, 0, 0), VoiceBudget(2, 1, 1, 0, 1), VoiceBudget(3, 0, 0, 1, 1)}
ProgressVoices == {VoiceBudget(1, 1, 1, 0, 1), VoiceBudget(1, 0, 0, 1, 1)}

IngressBudget(posts, ticks, drops, stops, crashes, faults, commands) ==
    [posts |-> posts, ticks |-> ticks, drops |-> drops, stops |-> stops, crashes |-> crashes,
     faults |-> faults, commands |-> commands]
PartsIngress ==
    {IngressBudget(<<"thread", "chat">>, 0, 1, 0, 0, 1, 0),
     IngressBudget(<<"poison", "thread">>, 0, 0, 0, 0, 1, 0),
     IngressBudget(<<"thread", "own">>, 1, 1, 1, 0, 0, 0),
     IngressBudget(<<"quiet", "thread">>, 0, 0, 0, 1, 1, 0),
     IngressBudget(<<"thread">>, 0, 0, 1, 1, 1, 0), IngressBudget(<<>>, 0, 0, 1, 0, 1, 1)}
ProgressIngress ==
    {IngressBudget(<<"poison", "thread">>, 0, 0, 0, 0, 1, 0), IngressBudget(<<"thread">>, 0, 1, 1, 0, 1, 0)}

HandoffBudget(requests, boots, terms, crashes, faults) ==
    [requests |-> requests, boots |-> boots, terms |-> terms, crashes |-> crashes, faults |-> faults]
PartsHandoffs == {HandoffBudget(2, 2, 1, 0, 0), HandoffBudget(1, 2, 1, 1, 1), HandoffBudget(2, 2, 2, 0, 0),
                  HandoffBudget(2, 1, 1, 0, 1), HandoffBudget(1, 1, 1, 0, 2)}
ProgressHandoffs == {HandoffBudget(1, 2, 2, 0, 0), HandoffBudget(0, 2, 1, 1, 1), HandoffBudget(1, 2, 1, 0, 1)}

ReloadBudget(edits, kills, faults, leases) ==
    [edits |-> edits, kills |-> kills, faults |-> faults, agents |-> leases]
PartsReloads == {ReloadBudget(3, 0, 0, 0), ReloadBudget(2, 1, 0, 0), ReloadBudget(2, 0, 1, 2)}
ProgressReloads == {ReloadBudget(2, 1, 0, 0), ReloadBudget(1, 0, 1, 1)}

PartsTargetOrder == <<"discord", "ephemeral">>
PartsPullOrder == <<"s1", "common", "discord", "ephemeral", "user">>
PartsCategories == "s1" :> "common"
EnvBudget(pulls, syncs, crashes, faults, edits) ==
    [pulls |-> pulls, syncs |-> syncs, crashes |-> crashes, faults |-> faults, edits |-> edits]
PartsEnvs == {EnvBudget(0, 2, 1, 1, 1), EnvBudget(1, 2, 0, 0, 0), EnvBudget(0, 2, 0, 2, 0)}
\* One server, listed for one category.
ServersOf(category) == [c \in Categories |-> IF c = category THEN {"m"} ELSE {}]
PartsPlans == {ServersOf("ephemeral"), ServersOf("common")}

Draft(author, to, banter, effort, model) ==
    [author |-> author, to |-> to, banter |-> banter, effort |-> effort, model |-> model]
Asking == Draft("u", "aerial", FALSE, "", "")
Musing == Draft("u", "none", FALSE, "", "")
Calling == Draft("v", "role", FALSE, "", "")
Talk == {Asking, Musing, Draft("u", "other", FALSE, "", ""), Draft("v", "none", TRUE, "", "")}
Mixed == {Asking, Draft("http-client", "none", FALSE, "low", ""), Draft("u", "none", FALSE, "", "medium"),
          Draft("u", "none", FALSE, "max", "flash")}
Lanes == {Musing, Draft("u", "none", FALSE, "low", ""), Draft("u", "none", FALSE, "medium", "")}
High == {<<FALSE, "high">>}
AllPools == High \cup {<<FALSE, "low">>, <<TRUE, "medium">>}
Script == [drafts |-> {Asking, Musing}, posts |-> 3, channel |-> TRUE, mode |-> "", threshold |-> TRUE,
           hook |-> "", onTimeout |-> "drop", pools |-> High, protocol |-> "agy", stops |-> 0, cooldowns |-> 0, faults |-> 0]
PartsScripts ==
    {[Script EXCEPT !.drafts = Talk, !.mode = m, !.stops = 1] : m \in {"ambient", "mentions", "always"}}
    \cup {[Script EXCEPT !.hook = h] : h \in {"wake", "timeout"}}
    \cup {[Script EXCEPT !.threshold = FALSE]}
    \cup {[Script EXCEPT !.drafts = {Musing}, !.posts = 4, !.protocol = p, !.cooldowns = 2] :
            p \in {"agy", "systemone"}}
    \cup {[Script EXCEPT !.drafts = Mixed, !.channel = c, !.mode = "always", !.pools = ps] :
            c \in BOOLEAN, ps \in {High, AllPools}}
    \cup {[Script EXCEPT !.drafts = Lanes, !.pools = AllPools, !.cooldowns = 1]}
    \cup {[Script EXCEPT !.drafts = {Musing, Calling}, !.stops = 1, !.faults = 1]}
ProgressScripts ==
    {[Script EXCEPT !.drafts = Talk, !.posts = 2, !.mode = m, !.stops = 1] : m \in {"ambient", "always"}}
    \cup {[Script EXCEPT !.hook = "timeout"],
          [Script EXCEPT !.drafts = {Musing}, !.posts = 4, !.cooldowns = 1]}
--------------------
\* haro's event watches fire once and are neither lost nor stranded.
EventWatchesAreSound == part = "watches" => WatchesAreSound

\* prospera: a call is reported once and completely, its audio is judged by its cadence.
PhoneIsSound ==
    /\ part = "call" => CallIsSound
    /\ part = "audio" => AudioIsSound

\* vanadis: a build's jobs, its chunks and the agents' briefs agree.
ChunkBuildIsSound == part = "build" => BuildIsSound

\* coven: a turn is read and its facts are kept once, through crashes and dreams.
CovenMemoryIsSound == part = "memory" => MemoryIsSound

\* eri's attempts at a turn: bounded, in the right session, told when they fail.
TurnAttemptsAreSound == part = "attempts" => AttemptsAreSound

\* eri's voice pool: histories, requests and reloads fit together.
VoicePoolIsSound == part = "voice" => VoiceIsSound

\* From Discord's gateway to the message table: order and thread survive.
DiscordIngressIsSound == part = "ingress" => IngressIsSound

\* Two eri processes of a deployment: the lock decides who runs turns.
LeaderHandoffIsSound == part = "handoff" => HandoffIsSound

\* eri's settings: what was published, synced and given to agents is whole.
SettingsAreSound ==
    /\ part = "config" => ConfigIsSound
    /\ part = "env" => EnvIsSound

\* eri's bursts: no message lost, doubled or misfiled.
BurstPlanIsSound == part = "bursts" => BurstsAreSound

\* What a step may never do: ring a cancelled watch, move a call's cursor back, brief
\* chunks out of order, complete a build that is not merged, change the session row of
\* a foreign turn, sweep over a message, lose rules or shared conversations.
NoStepBack ==
    [][/\ part = "watches" => SilentWhenCancelled
       /\ part = "call" => CursorAdvances
       /\ part = "build" => BriefsInOrder /\ CompletesWhenMerged /\ UnmergesWhenStale
       /\ part = "attempts" => RowIsLeft
       /\ part = "ingress" => HidesNothing
       /\ part = "env" => GivesRulesBack /\ ConversationsStay]_progressVars

\* What has begun comes to its end in every part: a webhook's notice is answered or
\* given up, a call's report settled and its hangup made, a chunk's job dispatched, a
\* finished turn read by coven, a turn of eri and of its voice ended, synapse's queue
\* drained, a process stopped, an edit of the configuration published, a message
\* settled.  The i-th target, job, row, process or message of the part that runs:
Begun(i) ==
    \/ part = "watches" /\ i \in Targets /\ NoticeOpen(i)
    \/ part = "call" /\ i = 1 /\ ReportDue
    \/ part = "call" /\ i = 2 /\ HangupAsked
    \/ part = "build" /\ i \in JobNumbers /\ JobQueued(i)
    \/ part = "memory" /\ i \in TurnRows /\ TurnOver(i)
    \/ part = "attempts" /\ TurnBegun
    \/ part = "voice" /\ ~VoiceTurnOver
    \/ part = "ingress" /\ ~QueueEmpty
    \/ part = "handoff" /\ i \in Procs /\ Stopping(i)
    \/ part = "config" /\ EditSaved
    \/ part = "bursts" /\ MessageWaits(i)
Over(i) ==
    \/ part = "watches" /\ i \in Targets /\ NoticeOver(i)
    \/ part = "call" /\ i = 1 /\ ReportSettled
    \/ part = "call" /\ i = 2 /\ HangupDone
    \/ part = "build" /\ JobSettled(i)
    \/ part = "memory" /\ TurnRead(i)
    \/ part = "attempts" /\ TurnEnded
    \/ part = "voice" /\ VoiceTurnOver
    \/ part = "ingress" /\ QueueEmpty
    \/ part = "handoff" /\ i \in Procs /\ Stopped(i)
    \/ part = "config" /\ EditPublished
    \/ part = "bursts" /\ MessageSettled(i)
EverythingEnds == \A i \in 1..3 : Begun(i) ~> Over(i)
====================
