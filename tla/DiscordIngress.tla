----------- MODULE DiscordIngress -----------
(* How a Discord message reaches eri: synapse's gateway handlers and its *)
(* catch-up sweep (services/synapse/discord.go), the single-consumer River *)
(* queue discord_ingress (workers.go), and eri's endpoint that files the *)
(* message under a thread (handlers.go, funnel.go).  Slash commands take *)
(* the queue discord_interaction, which never retries. *)
(*  *)
(* One channel.  A message is the moment it was posted, which is what a *)
(* snowflake orders by; of its content only the kind is kept: *)
(*   "thread"  answered in a thread of its own *)
(*   "chat"    answered in the channel (policy, DM or already a thread) *)
(*   "quiet"   not meant for the bot *)
(*   "own"     written by the bot *)
(*   "poison"  one the message table refuses on every attempt *)
EXTENDS Naturals, Sequences, SequencesExt, FiniteSets, FiniteSetsExt

CONSTANTS
    StaleTTL,        \* discordCatchUpStaleTTL, the worker's maxAge and Timeout, and ByPeriod
    PageLimit,       \* messages fetched per channel by a sweep (50)
    CommandAttempts, \* MaxAttempts of an interaction job (1)
    IngressBudgets   \* bounds: kinds to post, ticks, drops, stops, crashes, faults, commands

ASSUME IngressAssumption ==
    StaleTTL \in Nat \ {0} /\ PageLimit \in Nat \ {0} /\ CommandAttempts \in Nat \ {0}

VARIABLES
    clock,     \* now
    posted,    \* the channel: message -> kind
    link,      \* the gateway connection: "up", "down"
    missedPosts,    \* posted while the connection was down, not replayed
    gatewayEvents,    \* MESSAGE_CREATE events whose handler has not run
    wm,        \* channelWatermarks of the channel
    sweep,     \* the catch-up sweep
    refused,   \* messages River's insert failed for
    river,      \* the River queue, in fetch order
    moved,     \* messages whose job River put back
    worker,    \* the one DiscordIngressWorker and eri's handler of its request
    orphans,   \* messages whose handler outlived its request
    discordThreads,   \* threads that exist at Discord
    known,     \* eri's channel cache: the threads in it
    unfiled,   \* messages a thread start failed for
    table,     \* eri's messages in the order they were inserted
    command,   \* the slash command
    igBudget

igVars == <<clock, posted, link, missedPosts, gatewayEvents, wm, sweep, refused, river, moved,
            worker, orphans, discordThreads, known, unfiled, table, command, igBudget>>

synapseVars == <<link, missedPosts, gatewayEvents, wm, sweep, refused>>
queueVars == <<river, moved>>
eriVars == <<orphans, discordThreads, known, unfiled, table>>

NoSweep == [pc |-> "idle", from |-> 0, last |-> 0, page |-> {}, full |-> FALSE]
NoDelivery == [pc |-> "idle", id |-> 0, since |-> 0, inThread |-> FALSE]
NoCommand == [st |-> "none", attempt |-> 0, runs |-> 0]

IngressInit ==
    /\ clock = 0 /\ posted = << >> /\ link = "up" /\ missedPosts = {} /\ gatewayEvents = {}
    /\ wm = 0 /\ sweep = NoSweep /\ refused = {} /\ river = << >> /\ moved = {}
    /\ worker = NoDelivery /\ orphans = {} /\ discordThreads = {} /\ known = {} /\ unfiled = {}
    /\ table = << >> /\ command = NoCommand
    /\ igBudget \in IngressBudgets

SpendIngress(what) == igBudget[what] > 0 /\ igBudget' = [igBudget EXCEPT ![what] = @ - 1]
IngressFault == SpendIngress("faults")

Messages == DOMAIN posted
RunningJobs == {i \in DOMAIN river : river[i].st = "running"}
CurrentJob == river[CHOOSE i \in RunningJobs : TRUE]
Latest(a, b) == IF a > b THEN a ELSE b

--------------------
(* Discord: a channel, a connection that may drop and be resumed. *)

Post ==
    /\ igBudget.posts # << >>
    /\ clock' = clock + 1
    /\ posted' = [m \in Messages \union {clock + 1} |->
                    IF m = clock + 1 THEN Head(igBudget.posts) ELSE posted[m]]
    /\ igBudget' = [igBudget EXCEPT !.posts = Tail(@)]
    /\ gatewayEvents' = IF link = "up" THEN gatewayEvents \union {clock + 1} ELSE gatewayEvents
    /\ missedPosts' = IF link = "up" THEN missedPosts ELSE missedPosts \union {clock + 1}
    /\ UNCHANGED <<link, wm, sweep, refused, command, worker>>
    /\ UNCHANGED queueVars /\ UNCHANGED eriVars

Tick ==
    /\ SpendIngress("ticks") /\ clock' = clock + 1
    /\ UNCHANGED <<posted, command, worker>>
    /\ UNCHANGED synapseVars /\ UNCHANGED queueVars /\ UNCHANGED eriVars

LinkDrops ==
    /\ link = "up" /\ SpendIngress("drops") /\ link' = "down"
    /\ UNCHANGED <<clock, posted, missedPosts, gatewayEvents, wm, sweep, refused, command, worker>>
    /\ UNCHANGED queueVars /\ UNCHANGED eriVars

\* A session that is resumed replays what was missed, and no READY is sent.
Resume ==
    /\ link = "down" /\ link' = "up"
    /\ gatewayEvents' = gatewayEvents \union missedPosts /\ missedPosts' = {}
    /\ UNCHANGED <<clock, posted, wm, sweep, refused, command, worker, igBudget>>
    /\ UNCHANGED queueVars /\ UNCHANGED eriVars

\* handleGatewayReady: a new session replays nothing and starts a sweep, unless
\* the previous one still runs.
HandleGatewayReady ==
    /\ link = "down" /\ link' = "up" /\ missedPosts' = {}
    /\ sweep' = IF sweep.pc = "idle" THEN [NoSweep EXCEPT !.pc = "collect", !.from = clock] ELSE sweep
    /\ UNCHANGED <<clock, posted, gatewayEvents, wm, refused, command, worker, igBudget>>
    /\ UNCHANGED queueVars /\ UNCHANGED eriVars

--------------------
(* Into the River queue. *)

\* UniqueOpts{ByArgs, ByPeriod}: a job of the same message in the same period,
\* unless that job was cancelled.
UniqueSkipped(m) ==
    \E i \in DOMAIN river : /\ river[i].id = m /\ river[i].st # "cancelled"
                            /\ river[i].at \div StaleTTL = clock \div StaleTTL

\* enqueueDiscordMessage: a failed insert is logged and the message dropped.
EnqueueDiscordMessage(m) ==
    \/ /\ river' = IF UniqueSkipped(m) THEN river
                  ELSE Append(river, [id |-> m, at |-> clock, st |-> "available"])
       /\ UNCHANGED <<refused, igBudget>>
    \/ IngressFault /\ refused' = refused \union {m} /\ UNCHANGED river

\* handleGatewayMessageCreate: handlers run in goroutines of their own
\* (SyncEvents is off), so in any order.
HandleGatewayMessageCreate ==
    \E m \in gatewayEvents :
        /\ gatewayEvents' = gatewayEvents \ {m}
        /\ wm' = Latest(wm, m)
        /\ IF posted[m] = "own" THEN UNCHANGED <<river, refused, igBudget>> ELSE EnqueueDiscordMessage(m)
        /\ UNCHANGED <<clock, posted, link, missedPosts, sweep, moved, worker, command>>
        /\ UNCHANGED eriVars

\* resolveCatchUpGuilds and collectCandidateChannels: the channel and its
\* newest message, or nothing when Discord cannot be asked.
CollectCandidateChannels ==
    /\ sweep.pc = "collect"
    /\ \/ /\ sweep' = IF Messages = {} THEN NoSweep
                      ELSE [sweep EXCEPT !.pc = "fetch", !.last = Max(Messages)]
          /\ UNCHANGED igBudget
       \/ IngressFault /\ sweep' = NoSweep
    /\ UNCHANGED <<clock, posted, link, missedPosts, gatewayEvents, wm, refused, worker, command>>
    /\ UNCHANGED queueVars /\ UNCHANGED eriVars

MinSnowflake(now) == IF now > StaleTTL THEN now - StaleTTL ELSE 0
AfterID == Latest(wm, MinSnowflake(sweep.from))
Newer == {m \in Messages : m > AfterID}
OldestOf(S) == {m \in S : Cardinality({n \in S : n < m}) < PageLimit}

\* The mutant treats a failed fetch as an empty page.
FetchErrorAsEmpty ==
    /\ sweep.pc = "fetch"
    /\ \/ sweep' = [sweep EXCEPT !.pc = "offer", !.page = {}] /\ IngressFault
       \/ /\ UNCHANGED igBudget
          /\ sweep' = [sweep EXCEPT !.pc = "offer", !.page = OldestOf(Newer),
                                    !.full = Cardinality(Newer) > PageLimit]
    /\ UNCHANGED <<clock, posted, link, missedPosts, gatewayEvents, wm, refused, worker, command>>
    /\ UNCHANGED queueVars /\ UNCHANGED eriVars
\* catchUpChannelMessages: nothing newer than the watermark, a fetch that
\* fails, or the oldest PageLimit messages after it.
FetchChannelMessages ==
    /\ sweep.pc = "fetch"
    /\ \/ sweep.last <= AfterID /\ sweep' = NoSweep /\ UNCHANGED igBudget
       \/ sweep.last > AfterID /\ sweep' = NoSweep /\ IngressFault
       \/ /\ sweep.last > AfterID /\ UNCHANGED igBudget
          /\ sweep' = [sweep EXCEPT !.pc = "offer", !.page = OldestOf(Newer),
                                    !.full = Cardinality(Newer) > PageLimit]
    /\ UNCHANGED <<clock, posted, link, missedPosts, gatewayEvents, wm, refused, worker, command>>
    /\ UNCHANGED queueVars /\ UNCHANGED eriVars

IsCatchUpMessageEligible(m) == posted[m] # "own" /\ m > MinSnowflake(sweep.from)

\* The oldest message left of the page: the watermark first, the job after it.
OfferMissedMessage ==
    /\ sweep.pc = "offer" /\ sweep.page # {}
    /\ LET m == Min(sweep.page)
       IN /\ wm' = Latest(wm, m)
          /\ IF IsCatchUpMessageEligible(m) THEN EnqueueDiscordMessage(m) ELSE UNCHANGED <<river, refused, igBudget>>
    /\ sweep' = [sweep EXCEPT !.page = @ \ {Min(@)}]
    /\ UNCHANGED <<clock, posted, link, missedPosts, gatewayEvents, moved, worker, command>>
    /\ UNCHANGED eriVars

\* The watermark ends at the channel's newest message, also when the page was full.
SweepEnds ==
    /\ sweep.pc = "offer" /\ sweep.page = {}
    /\ wm' = Latest(wm, sweep.last)
    /\ sweep' = NoSweep
    /\ UNCHANGED <<clock, posted, link, missedPosts, gatewayEvents, refused, worker, command, igBudget>>
    /\ UNCHANGED queueVars /\ UNCHANGED eriVars

--------------------
(* Out of the River queue. *)

NextAvailable == {i \in DOMAIN river : river[i].st = "available"}
SetJob(st) == river' = [i \in DOMAIN river |-> IF river[i].st = "running" THEN [river[i] EXCEPT !.st = st] ELSE river[i]]

TakeJob ==
    /\ worker.pc = "idle" /\ RunningJobs = {} /\ NextAvailable # {}
    /\ LET i == Min(NextAvailable)
       IN /\ river' = [river EXCEPT ![i].st = "running"]
          /\ worker' = [NoDelivery EXCEPT !.pc = "check", !.id = river[i].id, !.since = clock]
    /\ UNCHANGED <<clock, posted, moved, command, igBudget>>
    /\ UNCHANGED synapseVars /\ UNCHANGED eriVars

Answered2xx == worker' = NoDelivery /\ SetJob("done")
AnsweredError == worker' = [worker EXCEPT !.pc = "failed"] /\ UNCHANGED river

\* The mutant hands the job back to River instead of waiting in place.
GiveUpAfterOneFailure ==
    /\ worker.pc = "failed" /\ worker' = NoDelivery
    /\ \/ clock - CurrentJob.at >= StaleTTL /\ SetJob("cancelled") /\ UNCHANGED clock
       \/ /\ clock - CurrentJob.at < StaleTTL /\ clock' = clock + 1
          /\ LET i == CHOOSE j \in RunningJobs : TRUE
             IN river' = Append(RemoveAt(river, i), [river[i] EXCEPT !.st = "available"])
    /\ UNCHANGED <<posted, moved, command, igBudget>>
    /\ UNCHANGED synapseVars /\ UNCHANGED eriVars
\* The mutant keeps retrying a message whatever its age.
NoTTL ==
    /\ worker.pc = "failed"
    /\ worker' = [worker EXCEPT !.pc = "check", !.inThread = FALSE]
    /\ clock' = IF clock < 10 THEN clock + 1 ELSE clock
    /\ UNCHANGED <<posted, river, moved, command, igBudget>>
    /\ UNCHANGED synapseVars /\ UNCHANGED eriVars
TriesAgain == worker' = [worker EXCEPT !.pc = "check", !.inThread = FALSE] /\ UNCHANGED river
\* DiscordIngressWorker.Work after an error: the job is dropped once it is
\* older than maxAge; otherwise the same worker tries it again after a delay,
\* so that nothing behind it is delivered first, unless the attempt's Timeout
\* ends the wait: then Work returns the context's error and River puts the job
\* back for NextRetry.
WorkRetries ==
    /\ worker.pc = "failed"
    /\ \/ /\ clock - CurrentJob.at >= StaleTTL /\ UNCHANGED clock
          /\ SetJob("cancelled") /\ worker' = NoDelivery
       \/ /\ clock - CurrentJob.at < StaleTTL /\ clock' = clock + 1
          /\ \/ TriesAgain
             \/ clock + 1 - worker.since >= StaleTTL /\ SetJob("rescue") /\ worker' = NoDelivery
    /\ UNCHANGED <<posted, moved, command, igBudget>>
    /\ UNCHANGED synapseVars /\ UNCHANGED eriVars

\* A 4xx answer (is4xxClientError) cancels the job at once.
Refuse4xx ==
    /\ worker.pc = "check" /\ IngressFault
    /\ SetJob("cancelled") /\ worker' = NoDelivery
    /\ UNCHANGED <<clock, posted, moved, command>>
    /\ UNCHANGED synapseVars /\ UNCHANGED eriVars

\* postDiscordInternalJSON's timeout: eri's handler goes on without its caller.
RequestTimesOut ==
    /\ worker.pc \in {"check", "thread", "insert"} /\ IngressFault
    /\ AnsweredError
    /\ orphans' = IF worker.pc = "thread" THEN orphans \union {worker.id} ELSE orphans
    /\ UNCHANGED <<clock, posted, moved, command, discordThreads, known, unfiled, table>>
    /\ UNCHANGED synapseVars

\* Synapse restarts: watermarks and running handlers are gone, and the running
\* job waits to be put back, as one whose context was cancelled or as a stuck one.
SynapseRestarts ==
    /\ SpendIngress("stops")
    /\ link' = "down" /\ gatewayEvents' = {} /\ wm' = 0 /\ sweep' = NoSweep
    /\ worker' = NoDelivery
    /\ orphans' = IF worker.pc = "thread" THEN orphans \union {worker.id} ELSE orphans
    /\ SetJob("rescue")
    /\ command' = IF command.st = "running" THEN [command EXCEPT !.st = "rescue"] ELSE command
    /\ UNCHANGED <<clock, posted, missedPosts, refused, moved, discordThreads, known, unfiled, table>>

\* River's retry or rescue of a job: behind those that are already available.
RescueJob ==
    \E i \in DOMAIN river :
        /\ river[i].st = "rescue"
        /\ river' = Append(RemoveAt(river, i), [river[i] EXCEPT !.st = "available"])
        /\ moved' = moved \union {river[i].id}
        /\ UNCHANGED <<clock, posted, worker, command, igBudget>>
        /\ UNCHANGED synapseVars /\ UNCHANGED eriVars

--------------------
(* Eri files the message. *)

Filed(m) == \E i \in DOMAIN table : table[i].id = m

\* processFunnelMessageIngress up to the duplicate check.
CheckMessage ==
    /\ worker.pc = "check"
    /\ \/ (posted[worker.id] = "quiet" \/ Filed(worker.id)) /\ Answered2xx /\ UNCHANGED igBudget
       \/ /\ posted[worker.id] # "quiet" /\ ~Filed(worker.id)
          /\ worker' = [worker EXCEPT !.pc = "thread"] /\ UNCHANGED <<river, igBudget>>
       \/ IngressFault /\ AnsweredError
    /\ UNCHANGED <<clock, posted, moved, command>>
    /\ UNCHANGED synapseVars /\ UNCHANGED eriVars

WantsThread(m) == posted[m] \in {"thread", "poison"}
ToInsert(inThread) == worker' = [worker EXCEPT !.pc = "insert", !.inThread = inThread]

\* getOrCreateThreadID: the cached thread, a new one, the one that already
\* exists (code 160004), or the channel itself when Discord cannot start one;
\* the thread may exist although its answer was lost.
GetOrCreateThreadID ==
    /\ worker.pc = "thread"
    /\ \/ ~WantsThread(worker.id) /\ ToInsert(FALSE) /\ UNCHANGED <<discordThreads, known, unfiled, igBudget>>
       \/ WantsThread(worker.id) /\ worker.id \in known /\ ToInsert(TRUE) /\ UNCHANGED <<discordThreads, known, unfiled, igBudget>>
       \/ /\ WantsThread(worker.id) /\ worker.id \notin known /\ ToInsert(TRUE)
          /\ discordThreads' = discordThreads \union {worker.id} /\ known' = known \union {worker.id}
          /\ UNCHANGED <<unfiled, igBudget>>
       \/ /\ WantsThread(worker.id) /\ worker.id \notin known /\ IngressFault /\ ToInsert(FALSE)
          /\ unfiled' = unfiled \union {worker.id}
          /\ discordThreads' \in {discordThreads, discordThreads \union {worker.id}} /\ UNCHANGED known
    /\ UNCHANGED <<clock, posted, orphans, table, command>>
    /\ UNCHANGED synapseVars /\ UNCHANGED queueVars

\* A handler without a caller still starts its thread; its insert fails, for
\* its context is cancelled.
OrphanStartsThread ==
    \E m \in orphans :
        /\ orphans' = orphans \ {m}
        /\ IF WantsThread(m) THEN discordThreads' = discordThreads \union {m} /\ known' = known \union {m}
           ELSE UNCHANGED <<discordThreads, known>>
        /\ UNCHANGED <<clock, posted, worker, unfiled, table, command, igBudget>>
        /\ UNCHANGED synapseVars /\ UNCHANGED queueVars

InsertRow == table' = IF Filed(worker.id) THEN table
                      ELSE Append(table, [id |-> worker.id, inThread |-> worker.inThread])

\* buildAndInsertFunnelMessage and pool.Enqueue; an error may hide a commit.
InsertFunnelMessage ==
    /\ worker.pc = "insert"
    /\ \/ posted[worker.id] # "poison" /\ InsertRow /\ Answered2xx /\ UNCHANGED igBudget
       \/ posted[worker.id] = "poison" /\ AnsweredError /\ UNCHANGED <<table, igBudget>>
       \/ posted[worker.id] # "poison" /\ IngressFault /\ AnsweredError /\ (InsertRow \/ UNCHANGED table)
    /\ UNCHANGED <<clock, posted, moved, orphans, discordThreads, known, unfiled, command>>
    /\ UNCHANGED synapseVars

\* Eri restarts: the cache is hydrated from Discord, or stays empty when that
\* fails (openDiscordSessionWithRetry goes on in the background).
EriRestarts ==
    /\ SpendIngress("crashes")
    /\ IF worker.pc \in {"check", "thread", "insert"} THEN AnsweredError ELSE UNCHANGED <<worker, river>>
    /\ orphans' = {}
    /\ known' \in {discordThreads, {}}
    /\ UNCHANGED <<clock, posted, moved, discordThreads, unfiled, table, command>>
    /\ UNCHANGED synapseVars

--------------------
(* Slash commands. *)

HandleGatewayInteractionCreate ==
    /\ link = "up" /\ command.st = "none" /\ SpendIngress("commands")
    /\ command' = [command EXCEPT !.st = "available"]
    /\ UNCHANGED <<clock, posted, worker>>
    /\ UNCHANGED synapseVars /\ UNCHANGED queueVars /\ UNCHANGED eriVars

\* A job that used all its attempts is discarded, whether eri ran it or not.
CommandFails ==
    \E ran \in {0, 1} :
        command' = [command EXCEPT !.runs = @ + ran,
                      !.st = IF command.attempt < CommandAttempts THEN "available" ELSE "discarded"]

\* DiscordInteractionWorker: one request, whose answer may be lost after
\* eri's router handled the command.
InteractionWork ==
    /\ \/ /\ command.st = "available"
          /\ command' = [command EXCEPT !.st = "running", !.attempt = @ + 1] /\ UNCHANGED igBudget
       \/ /\ command.st = "running"
          /\ \/ command' = [command EXCEPT !.st = "done", !.runs = @ + 1] /\ UNCHANGED igBudget
             \/ IngressFault /\ CommandFails
       \/ command.st = "rescue" /\ CommandFails /\ UNCHANGED igBudget
    /\ UNCHANGED <<clock, posted, worker>>
    /\ UNCHANGED synapseVars /\ UNCHANGED queueVars /\ UNCHANGED eriVars

--------------------
SweepWork == CollectCandidateChannels \/ FetchChannelMessages \/ OfferMissedMessage \/ SweepEnds
DeliveryWork ==
    TakeJob \/ WorkRetries \/ CheckMessage \/ GetOrCreateThreadID \/ InsertFunnelMessage \/ RescueJob

IngressNext ==
    \/ Post \/ Tick \/ LinkDrops \/ Resume \/ HandleGatewayReady
    \/ HandleGatewayMessageCreate \/ SweepWork
    \/ DeliveryWork \/ Refuse4xx \/ RequestTimesOut \/ SynapseRestarts
    \/ OrphanStartsThread \/ EriRestarts
    \/ HandleGatewayInteractionCreate \/ InteractionWork

\* The goroutines of both processes run.
IngressSpec ==
    IngressInit /\ [][IngressNext]_igVars
    /\ WF_igVars(DeliveryWork) /\ WF_igVars(SweepWork)

--------------------
IngressTypeOK ==
    /\ clock \in Nat /\ DOMAIN posted \subseteq 1..clock /\ link \in {"up", "down"}
    /\ missedPosts \subseteq Messages /\ gatewayEvents \subseteq Messages /\ wm \in 0..clock
    /\ sweep.pc \in {"idle", "collect", "fetch", "offer"}
    /\ \A i \in DOMAIN river : /\ river[i].id \in Messages /\ river[i].at \in 0..clock
                               /\ river[i].st \in {"available", "running", "rescue", "done", "cancelled"}
    /\ worker.pc \in {"idle", "check", "thread", "insert", "failed"}
    /\ (worker.pc = "idle") = (RunningJobs = {}) /\ Cardinality(RunningJobs) <= 1
    /\ known \subseteq discordThreads \union orphans /\ discordThreads \subseteq Messages

Offered(m) == \E i \in DOMAIN river : river[i].id = m

(* Messages the watermark has passed that nothing will offer to eri again. *)
Hidden == {m \in Messages :
             /\ m <= wm /\ m > MinSnowflake(clock) /\ posted[m] # "own"
             /\ ~Offered(m) /\ m \notin refused /\ m \notin gatewayEvents
             /\ m \notin sweep.page}

(* A sweep never moves the channel's watermark past a recent message that *)
(* it has not put into the queue, whatever live events do meanwhile; only *)
(* a page that was full ends with messages left out *)
(* (catchUpChannelMessages). *)
HidesNothing ==
    ~HandleGatewayMessageCreate /\ ~sweep.full => Hidden' \subseteq Hidden
SweepHidesNothing == [][HidesNothing]_igVars

Place(m) == CHOOSE i \in DOMAIN river : river[i].id = m
Undisturbed(m) == m \notin moved /\ Cardinality({i \in DOMAIN river : river[i].id = m}) = 1

(* Messages are filed in the order they were queued, also when eri fails *)
(* for some of them: the single consumer retries in place *)
(* (DiscordIngressWorker.Work).  A job River put back, after a restart of *)
(* synapse or when the attempt's Timeout ended its wait, is exempt. *)
FiledInQueueOrder ==
    \A i, j \in DOMAIN table :
        i < j /\ Undisturbed(table[i].id) /\ Undisturbed(table[j].id) =>
            Place(table[i].id) < Place(table[j].id)

(* A message that wants a thread is filed under it, also when an earlier *)
(* attempt, or a handler that outlived its request or its process, has *)
(* created the thread: only a failed thread start files it in the channel *)
(* (getOrCreateThreadID, recoverExistingThreadOnConflict). *)
FiledUnderItsThread ==
    \A i \in DOMAIN table :
        posted[table[i].id] = "thread" /\ ~table[i].inThread => table[i].id \in unfiled

(* A slash command is executed at most once, although its answer may be *)
(* lost and its worker restarted (DiscordInteractionArgs.InsertOpts). *)
CommandRunsOnce == command.runs <= 1

(* The queue runs empty again and again, for each message is filed, found *)
(* to be filed or not for the bot, or dropped for its age: a message eri *)
(* refuses forever does not block the ones behind it (the TTL of *)
(* DiscordIngressWorker.Work). *)
QueueEmpty == \A i \in DOMAIN river : river[i].st \in {"done", "cancelled"}
QueueDrains == ~QueueEmpty ~> QueueEmpty

(* From the gateway to the message table: the order and the thread of the *)
(* messages survive retries and restarts, and a command runs once. *)
IngressIsSound ==
    /\ IngressTypeOK /\ FiledInQueueOrder /\ FiledUnderItsThread /\ CommandRunsOnce
====================
