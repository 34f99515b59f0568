----------- MODULE MCSafety -----------
(* Parts of the system that share no state, side by side: a behaviour *)
(* picks one of them and runs it, the others are switched off. *)
EXTENDS Rollout, PRChecks, NomadStream, ProcessPool, GitOps, NomadVars,
        SkillDesign, ScheduleViews, BatchGuard, StoreDouble, TLC

\* The part that runs.
VARIABLE part

Parts == {"rollout", "checks", "stream", "pool", "git", "vars", "skills", "views", "guard", "store"}

Off == 0

RolloutOff ==
    /\ prRows = Off /\ byUpdate = Off /\ riverWork = Off /\ widgetDue = Off /\ reports = Off
    /\ mishaps = Off /\ restarted = Off /\ untold = Off /\ advanced = Off /\ forsaken = Off
ChecksOff ==
    /\ ghHead = Off /\ prRow = Off /\ failCount = Off /\ noted = Off /\ cancelledAt = Off
    /\ checkRuns = Off /\ checkJob = Off /\ checkEvents = Off /\ checkFaults = Off
    /\ broken = Off /\ asked = Off /\ uncounted = Off /\ answered = Off /\ dropped = Off
    /\ overtaken = Off
NomadOff ==
    /\ jobKind = Off /\ jobVersion = Off /\ allocs = Off /\ deployment = Off /\ nomadLog = Off
    /\ lastIndex = Off /\ readTo = Off /\ riverKeys = Off /\ nomadJobs = Off /\ evals = Off
    /\ streamBudget = Off /\ lossy = Off /\ toldOk = Off /\ toldBad = Off
PoolOff ==
    /\ mode = Off /\ available = Off /\ daemons = Off /\ pinned = Off /\ locks = Off
    /\ lockOf = Off /\ flight = Off /\ proc = Off /\ closers = Off /\ record = Off
    /\ poolClosed = Off /\ prewarming = Off /\ reloads = Off /\ poolFaults = Off
GitOff ==
    /\ remote = Off /\ disk = Off /\ registry = Off /\ nomad = Off /\ pending = Off
    /\ wake = Off /\ rollouts = Off /\ rollWake = Off /\ imageEvents = Off /\ task = Off
    /\ nomadMu = Off /\ commits = Off /\ pushes = Off /\ gitBudget = Off /\ strayed = Off
VarOff ==
    /\ confRemote = Off /\ confDisk = Off /\ confHead = Off /\ nomadVar = Off
    /\ pushedCache = Off /\ caller = Off /\ varBudget = Off /\ varDoubt = Off
SkillOff ==
    /\ kase = Off /\ staged = Off /\ status = Off /\ skillDisk = Off /\ designer = Off
    /\ skillPRs = Off /\ reasons = Off /\ blind = Off /\ overlooked = Off /\ skillBudget = Off
ViewOff ==
    /\ scheds = Off /\ instant = Off /\ cache = Off /\ viewer = Off /\ reply = Off /\ tool = Off
    /\ goneAt = Off /\ unseen = Off /\ runRows = Off /\ pager = Off /\ viewBudget = Off
GuardOff ==
    /\ guardFile = Off /\ lockFile = Off /\ hooks = Off /\ serial = Off /\ shaped = Off
    /\ pruned = Off /\ unguarded = Off /\ guardBudget = Off
StoreOff ==
    /\ sql = Off /\ fake = Off /\ said = Off /\ armed = Off /\ parted = Off /\ callBudget = Off

SafetyInit ==
    /\ part \in Parts
    /\ IF part = "rollout" THEN RolloutInit ELSE RolloutOff
    /\ IF part = "checks" THEN ChecksInit ELSE ChecksOff
    /\ IF part = "stream" THEN NomadInit ELSE NomadOff
    /\ IF part = "pool" THEN PoolInit ELSE PoolOff
    /\ IF part = "git" THEN GitInit ELSE GitOff
    /\ IF part = "vars" THEN VarInit ELSE VarOff
    /\ IF part = "skills" THEN SkillInit ELSE SkillOff
    /\ IF part = "views" THEN ViewInit ELSE ViewOff
    /\ IF part = "guard" THEN GuardInit ELSE GuardOff
    /\ IF part = "store" THEN StoreInit ELSE StoreOff

\* The variables of every part but p stay as they are.
Others(p) ==
    /\ UNCHANGED part
    /\ IF p = "rollout" THEN TRUE ELSE UNCHANGED rolloutVars
    /\ IF p = "checks" THEN TRUE ELSE UNCHANGED checkVars
    /\ IF p = "stream" THEN TRUE ELSE UNCHANGED nomadVars
    /\ IF p = "pool" THEN TRUE ELSE UNCHANGED poolVars
    /\ IF p = "git" THEN TRUE ELSE UNCHANGED gitVars
    /\ IF p = "vars" THEN TRUE ELSE UNCHANGED varVars
    /\ IF p = "skills" THEN TRUE ELSE UNCHANGED skillVars
    /\ IF p = "views" THEN TRUE ELSE UNCHANGED viewVars
    /\ IF p = "guard" THEN TRUE ELSE UNCHANGED guardVars
    /\ IF p = "store" THEN TRUE ELSE UNCHANGED storeVars

SafetyNext ==
    \/ part = "rollout" /\ RolloutNext /\ Others("rollout")
    \/ part = "checks" /\ ChecksNext /\ Others("checks")
    \/ part = "stream" /\ NomadNext /\ Others("stream")
    \/ part = "pool" /\ PoolNext /\ Others("pool")
    \/ part = "git" /\ GitNext /\ Others("git")
    \/ part = "vars" /\ VarNext /\ Others("vars")
    \/ part = "skills" /\ SkillNext /\ Others("skills")
    \/ part = "views" /\ ViewNext /\ Others("views")
    \/ part = "guard" /\ GuardNext /\ Others("guard")
    \/ part = "store" /\ StoreNext /\ Others("store")

safetyVars == <<part, rolloutVars, checkVars, nomadVars, poolVars, gitVars, varVars,
              skillVars, viewVars, guardVars, storeVars>>
SafetySpec == SafetyInit /\ [][SafetyNext]_safetyVars
--------------------
(* Bounds. *)
EvalShape(st, unqueued, hard) ==
    [status |-> st, unqueued |-> unqueued, hard |-> hard, queued |-> FALSE, blockedEval |-> FALSE,
     superseded |-> FALSE, ofDeployment |-> FALSE]
SafetyShapes == {EvalShape("complete", FALSE, FALSE), EvalShape("blocked", TRUE, TRUE)}

StreamBudget(k, v, e, f, lag) == [kind |-> k, versions |-> v, evals |-> e, faults |-> f, lag |-> lag]
SafetyStreamBudgets ==
    {StreamBudget("rolling", 1, 0, 1, 1), StreamBudget("rolling", 2, 0, 0, 1),
     StreamBudget("rolling", 1, 0, 0, 2), StreamBudget("service", 1, 1, 1, 1),
     StreamBudget("service", 1, 0, 0, 2), StreamBudget("oneshot", 1, 1, 0, 2),
     StreamBudget("template", 2, 1, 1, 2)}

SafetyPoolBudgets == {[reloads |-> 1, faults |-> 0], [reloads |-> 0, faults |-> 1]}

SafetyHomes == [j \in GitJobs |-> "aerial"]
GitBudget(c, p, f, files) == [commits |-> c, pushes |-> p, faults |-> f, files |-> files]
SafetyGitBudgets ==
    {GitBudget(2, 1, 1, {"aerial"} \X GitJobs), GitBudget(2, 2, 0, Repos \X {"eri"})}
SafetyVarOrder == <<"eri", "hangar">>

SafetyVarBudgets == {[commits |-> 2, faults |-> 0], [commits |-> 1, faults |-> 1]}

Novel == [loaded |-> "none", like |-> "none", long |-> TRUE, avoid |-> FALSE]
CoreNovel == [Novel EXCEPT !.loaded = "core"]
Short == [Novel EXCEPT !.long = FALSE]
Loaded == [Novel EXCEPT !.loaded = "s"]
Alike == [Novel EXCEPT !.like = "s"]
Warning == [Loaded EXCEPT !.avoid = TRUE]
\* Similarity of four candidates: equal, alike or different in pairs.
Levels(equal, alike) == [e \in kSubset(2, 1..4) |-> IF e \in equal THEN 2 ELSE IF e \in alike THEN 1 ELSE 0]
SafetyCases ==
    {[cands |-> c, sim |-> Levels({}, g), channel |-> TRUE] :
        c \in {<<Novel, Novel, Novel, Novel>>, <<Novel, CoreNovel, Novel, Novel>>},
        g \in {h \in SUBSET kSubset(2, 1..4) : Cardinality(h) \in {4, 5}}}
    \cup {[cands |-> c, sim |-> Levels(g, kSubset(2, 1..4)), channel |-> TRUE] :
        c \in {<<Short, Short, Novel, Short>>, <<Loaded, Alike, Alike, Novel>>,
               <<Warning, Novel, CoreNovel, Novel>>, <<Loaded, Loaded, Alike, CoreNovel>>},
        g \in {{}, {{1, 2}}, {{3, 4}}}}
    \cup {[cands |-> <<Short, Short, Novel, Short>>, sim |-> Levels({}, kSubset(2, 1..4)), channel |-> FALSE]}
SafetySkillBudgets == {[runs |-> 2, faults |-> 1]}

SafetyKinds == [c |-> "cron", b |-> "beat", o |-> "once"]
ViewBudget(stock, views, asks, tools, ticks, faults, runs, pagings) ==
    [stock |-> stock, views |-> views, asks |-> asks, tools |-> tools, ticks |-> ticks, faults |-> faults,
     runs |-> runs, pagings |-> pagings]
SafetyViewBudgets ==
    {ViewBudget({"o", "c"}, 2, 0, 0, 1, 1, 0, 0), ViewBudget({"o"}, 2, 0, 1, 0, 0, 0, 0),
     ViewBudget({}, 1, 0, 2, 0, 1, 0, 0), ViewBudget({"b"}, 1, 0, 1, 1, 1, 0, 0),
     ViewBudget({}, 0, 1, 1, 0, 1, 0, 0), ViewBudget({}, 0, 0, 0, 1, 0, 4, 1)}

SafetyRanges == {Lines(5, 0), Lines(4, 5), Lines(9, 9)}
GuardBudget(calls, turns, expiries, prunings, crashes, faults) ==
    [calls |-> calls, turns |-> turns, expiries |-> expiries, prunings |-> prunings, crashes |-> crashes,
     faults |-> faults]
SafetyGuardBudgets == {GuardBudget(3, 1, 0, 0, 0, 0), GuardBudget(2, 1, 1, 0, 1, 0), GuardBudget(2, 0, 0, 1, 0, 0),
                       GuardBudget(2, 1, 0, 0, 0, 1)}

SafetySteps == {-2, -1, 0, 1}
CallBudget(messages, dispatches, sessions, summaries, faults, ages) ==
    [messages |-> messages, dispatches |-> dispatches, sessions |-> sessions, summaries |-> summaries,
     faults |-> faults, ages |-> ages]
SafetyCallBudgets ==
    {CallBudget(4, 0, 0, 0, 0, 0), CallBudget(0, 4, 0, 0, 0, 0), CallBudget(2, 1, 1, 0, 0, 0),
     CallBudget(1, 0, 3, 0, 0, 1), CallBudget(0, 0, 0, 3, 1, 0), CallBudget(2, 0, 1, 0, 1, 0)}
--------------------
\* synapse follows a pull request from its checks to its roll-out: what Nomad says
\* reaches the row, the row's outcome reaches a person, repairs stay bounded.
SynapseIsSound ==
    /\ part = "rollout" => RolloutIsSound
    /\ part = "checks" => ChecksAreSound
    /\ part = "stream" => StreamIsSound

\* hangar keeps the cluster and its variables at what git holds: nothing checked
\* out, deleted or changed is forgotten between webhooks, syncs and roll-outs.
HangarIsSound ==
    /\ part = "git" => GitOpsIsSound
    /\ part = "vars" => VarsAreSound

\* eri's process pool: leases, sessions, answers and daemons match, whatever
\* reloads, evictions, rotations and dying processes meet.
AgentPoolIsSound == part = "pool" => PoolIsSound

\* coven's skill designer: sound plans, one pull request, nothing settled unheard.
SkillDesignIsSound == part = "skills" => SkillsAreSound

\* haro's pages: the cache races with changes, the summary with the lists, the
\* pages with new runs, and the answers stay right.
ScheduleViewsAreSound == part = "views" => ViewsAreSound

\* eri's batching guard: parallel hooks on one state file lose nothing.
BatchGuardIsSound == part = "guard" => GuardIsSound

\* The store the unit tests use stands for the real one.
StoreDoubleIsSound == part = "store" => DoubleIsSound

\* No step takes back what is over: a merged or closed pull request stays so for
\* synapse, and hangar restarts itself only behind everything else of a batch.
NothingIsTakenBack ==
    [][/\ part = "checks" => OverStaysOver
       /\ part = "git" => OwnJobComesLast]_safetyVars
====================
