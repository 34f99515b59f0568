# A TLA+ model of Aerial

Aerial is a personal assistant made of Go services around one Postgres and one
Nomad cluster: `eri` takes messages from Discord and HTTP and runs agent turns
for them, `haro` keeps schedules and event watches and sends prompts to `eri`
when they are due, `synapse` follows GitHub, Nomad and Discord events through a
River queue, `hangar` keeps the cluster at what git holds, `vanadis` runs builds
chunk by chunk, `coven` remembers, `prospera` makes phone calls.  This directory
models the parts in which goroutines, processes, the database and the outside
world meet in ways that a test hardly reaches, model-checks small instances with
TLC and proves the central facts for all instances with TLAPS.  `PROJECT.json`
has the machine-readable side: components, runs, mutants, the map from
definitions to source lines, findings, hazards and theorems.

    tlc -workers 2 -config TurnQueueSafety.cfg MCTurnQueue   # a run
    tlapm ScopeWorkersProofs.tla                             # a proof

## 1. Inventory

| part | state | operations | what is hard |
|---|---|---|---|
| eri turn queue (`pkg/queue`) | rows in Postgres; channels, turns, timers in memory | submit, recover, burst, claim, triage, lease, attempts, settle, hand back, interrupt, rotate, stop | every step may meet an interrupt, a stop, a crash or a failed statement; several copies of one row are in memory |
| eri scope workers (`burst.go`, `pool.go`) | `threadChs`, a bounded channel and a goroutine per scope | enqueue, block, spawn, pop, drain, prune, interrupt drain | senders blocked without the lock, workers that retire themselves, a drain that holds the lock |
| eri bursts and classifier | the lanes of a thread, a circuit breaker | plan, classify, cut, put back, route | what a cut drops or doubles; a classifier that is down or cut off by a stop |
| eri attempts at a turn | session row, daemon, counters | lease, run, judge, resume, back off, rotate, tell | failures that reset the session they are retried in |
| eri runner pools (`pkg/runner`) | agent processes, target locks, dirty marks; voice sessions | lease, release, rotate, evict, reload, close | a lease held across rotation and reconfiguration |
| eri leadership (`main.go`) | Postgres advisory lock, leader hold | hold, promote, release, stop | two processes during a deployment |
| eri configuration and homes | published configuration, rendered files, homes | render, signal, load, publish, sync | a reload that is overtaken; a sync that ends half way |
| eri store and its test double | four tables; maps in memory | insert, claim, complete, rotate, list | a test passes on the double what the database refuses |
| eri batching guard | a state file, a lock file | hook before and after a tool call | parallel hooks; the lock file is pruned |
| haro schedules (`db.go`, `tools.go`, `ticker.go`) | three schedule tables, `schedule_runs` | create, update, cancel; tick: query, claim, dispatch, log, prune | claims by row count, stale result sets, several tickers, crashes between claim and dispatch |
| haro event watches (with synapse) | `event_triggers` | watch, check, claim, fire, re-insert | ambiguous answers, retries of what was already done |
| haro pages | a cached answer | view, ask, page | a cache filled by a query that is older than the change |
| synapse | pull request rows, River jobs, Nomad stream cursor, Discord watermarks | webhook, job, retry, sweep | duplicate, lost and reordered events; retries from the start |
| hangar | checkouts, pending changes, Nomad jobs, a cache of variables | push, sync, reconcile, roll out | partial failure; hangar restarts itself |
| vanadis | builds and chunks | claim, brief, report, edit, cancel | late results and edits of what is under way |
| coven | facts, watermark, skill candidates | extract, dream, store, forget; plan, publish | background jobs beside tools that take no lock |
| prospera | a call's row, media session, recording | dial, webhook, bridge, batch, report | webhooks in any order, one report only |
| dashboard, docs, proxy, MCP servers, shared packages | none of their own | views and wrappers | - |

Interaction: `haro` and `synapse` post prompts and dispatches to `eri` over HTTP;
the handler of `eri` inserts a row (`funnel.go`), then puts a copy into the
channel of the row's scope (`burst.go`); the scope's worker claims the row,
leases an agent process and delivers the answer.  Operators interrupt a thread
through Discord interactions.  Rows are the only thing that survives a process;
recovery reads them at start-up, while a *leader hold* keeps new arrivals out of
the channels.  `synapse` reports pull requests to `vanadis` and events to
`haro`; `hangar` acts on the pushes that `synapse` sees as roll-outs.

What makes the parts correct:

* queue: an accepted row is never forgotten and is settled in the end; no two
  turns own it; its answer is delivered once per life of the process; a settled
  row stays settled; a crash loop is bounded;
* scope workers: one worker per scope, no channel without a reader, every item
  in exactly one place, blocked senders and interrupts complete;
* schedules: an occurrence fires once, in order and truthfully logged, a
  one-shot fires once under any number of tickers, a cancelled schedule is
  silent, nothing stays due, the next run is one of the schedule's own;
* the other parts: what was reported once is acted on once; nothing is lost
  between two steps of which one failed; what is cached is what was put; what is
  over stays over; what has begun ends.

## 2. Modules

Core, each with its own runs and proofs:

| module | models | state and actions against the code |
|---|---|---|
| `MessageRows` | the message table | one operator per SQL statement: what it does to a row |
| `TurnQueue` | one eri process over the table | below |
| `ScopeMailbox` | abstract: what the pool promises about scopes | items are offered, queued, running, trailing, settled or dropped |
| `ScopeWorkers` | channels, senders, workers, pruning, drain, lock | below |
| `Scheduler` | haro's tables, tools and tickers | below |

Other parts, each a module with its own `...Next`, type invariant and properties:

| module | part | properties |
|---|---|---|
| `BurstPlan` | which messages of a channel wake the agent; lanes, cuts, breaker | `AddressIsNeverAmbient`, `NoVerdictFromShutdown`, `OneTurnPerProcess`, `OutageIsCheap`, `RowsArePlaced`, `MessagesAreSettled` |
| `TurnAttempts` | executeWithRetries with session row and daemon | `ExecutionsAreBounded`, `RetriesMatchAttempts`, `ResumesStayInSession`, `AnsweredSessionIsStored`, `FailuresAreTold`, `RowIsLeft`, `TurnsEnd` |
| `ProcessPool` | one target of UnifiedProcessPool and its StreamingDaemons | `LeaseIsExclusive`, `NoForgottenDaemon`, `NoStuckTurn`, `AnswersMatchQuestions`, `LeaseKeepsItsSession`, `EphemeralTurnIsFresh`, `RotationIsRecorded` |
| `VoicePool` | voice turns of a device, DynamicVoicePool | `MemoryHasNoGap`, `RequestsAlternate`, `NothingIsSpokenTwice`, `RequestsAreBounded`, `PoolsAreAccountedFor`, `VoiceTurnsEnd` |
| `LeaderHandoff` | a deployment: two processes, the advisory lock, the hold | `OnlyTheLeaderRuns`, `HeldRequestsAreAdopted`, `ShutdownEnds`, `NoSplitBrain` |
| `ConfigReload` | loading and hot reload | `RunsOnValidConfig`, `SecretsAreRedacted`, `CleanAgentsAreCurrent`, `EditsArePublished` |
| `EnvSync` | Provisioner.Sync into the homes | `RulesAreWhole`, `CleanSyncIsComplete`, `ProxyKnowsServers`, `JetskiNamesInstallation`, `GivesRulesBack`, `ConversationsStay` |
| `BatchGuard` | the hook around tool calls | `HooksAreSerial`, `ReadsAreCovered`, `PagesAreBounded`, `EditsStartAfresh` |
| `StoreDouble` | SQLStore and FakeStore under the same calls | `FakePartsOnlyThere` |
| `DiscordIngress` | gateway, sweep, River queue, filing in eri | `FiledInQueueOrder`, `FiledUnderItsThread`, `CommandRunsOnce`, `HidesNothing`; the queue drains |
| `EventWatches` | haro's watches and synapse's jobs | `OneShotWatchFiresOnce`, `NoWatchVanishes`, `NoStrandedWatch`, `SilentWhenCancelled`; a notice is answered or given up |
| `ScheduleViews` | cached page, lists and paging of haro | `UnracedCacheIsCurrent`, `AnswersAreRecent`, `SummaryAgrees`, `PagingSkipsNothing` |
| `PRRegistry` | synapse's rows: one operator per statement | used by the next two |
| `PRChecks` | CI of an open pull request | `RepairsAreCapped`, `FailureIsAnswered`, `NoInheritedFailure`, `OverStaysOver` |
| `Rollout` | a merged pull request until its jobs are healthy | `OutcomeIsTold`, `JobInOneList` |
| `NomadStream` | subscriber, filter and jobs | `HealthIsReported`, `FailureIsReported`, `FilterLosesNothing` |
| `GitOps` | checkouts, pending changes, roll-outs of hangar | `CheckoutsAreRunning`, `NoForgottenDeletion`, `OwnJobComesLast` |
| `NomadVars` | configurations as Nomad variables | `ConfigsArePut`, `CacheIsTruthful` |
| `ChunkBuild` | one vanadis build | `JobFindsItsChunk`, `BriefIsCurrent`, `BriefsInOrder`, `CompletesWhenMerged`, `UnmergesWhenStale`; a queued job is settled |
| `CovenMemory` | facts, extraction, dreaming, tools | `NothingLost`, `MergeIsDurable`, `NoTwins`; a finished turn is read |
| `SkillDesign` | candidates to a pull request | `PlanIsSound`, `OneSkillPR`, `CoreNeedsReview`, `OneChangePerFile`, `SettledForAReason`, `NoPendingTwins` |
| `PhoneCall` | a call from its row to its report | `SummaryPostedOnce`, `VoicemailWaitsForRecording`, `NothingSkippedLive`, `WordsAreKept`, `CursorAdvances`; report and hangup come |
| `CallAudio` | answering-machine detection, recording, mu-law | `ReleasedByCadence`, `RecordingHasNoGap`, `CodecRoundTrip` |

Composition.  `TurnQueue` uses the table of `MessageRows` and `StoreDouble` the
same table; `ScopeWorkers` instantiates `ScopeMailbox` under its refinement
mapping; `PRChecks` and `Rollout` use `PRRegistry`.  `MCSafety` and `MCProgress`
put parts that share no state side by side: the variable `part` is chosen in the
initial state, the part that was chosen runs, the variables of the others are
`Off`.  A property of such a part is stated as `part = "..." => ...`; nothing is
composed in parallel that the code does not run on common state, and each
behaviour of the composition is a behaviour of one part.

`MC*` modules give the constants their values for TLC; `*Proofs` hold theorems
(section 4).

### TurnQueue

`row` is the table; everything else dies with the process (`LoseMemory`).  A
copy in memory carries the retry count it was read with and not the status.
`turn[s].pc` follows `processBurst` / `processDispatch` and
`executeWithRetries`: every SQL statement, every call that may block and every
check of the interrupt flag is a step of its own, so an operator command, a stop
or a crash falls between any two.  `rec` is `RecoverInterrupted`, `irq` the four
steps of `InterruptThread`, `timers` the `time.AfterFunc`s of a rescheduled
burst.  Channels are unbounded sequences here; their bound and the goroutines
around them are the subject of `ScopeWorkers`.  A failing statement is a
nondeterministic choice limited by the budget; the runner's answer, the
classifier's verdict and the hook's decision are unconstrained choices.
`delivered`, `hit` (a failed statement left the row behind), `shed` (trailing
messages of an interrupted triage) and `spent` are ghost variables.

### ScopeWorkers

`<<s, g>>` is the g-th `threadWorkerState` of scope s.  `p.mu` is modelled where
it is held over several steps (`MuFree`); short critical sections are single
steps.  A Go channel is a buffer `ch` and a queue of parked senders `sendq`; a
receive moves the first parked sender in, as the runtime does.  The refinement
mapping to `ScopeMailbox` reads an item's place: offered by a goroutine, queued
(buffer, parked or held aside), running, trailing, settled or dropped by a
stopping pool.

### Scheduler

One step per SQL statement and per request.  A result set is a set of rows as
they were read, taken in `next_run_at` order.  `sent` is what eri has accepted,
by the occurrence it was meant for.  Several missed occurrences coalesce, as in
the code: the ticker fires the one in `next_run_at` and computes the next from
its own `now`.  Ids are fresh UUIDs, so each id is created once.  SIGTERM is a
`Crash`: the cancelled context fails the statement in hand and nothing after it
runs.  `NextRun` is the cron library (external): any later time.

## 3. Runs

| run | instance | shows |
|---|---|---|
| `turns` | two messages of a channel; a message and a dispatch of an ignored thread; nine budgets of stops, crashes, interrupts, failed statements and resubmissions | `TypeOK`, `NoForgottenWork`, `DeliveredOncePerLife`, `ClaimIsExclusive`, `RestartBudget`, `TerminalIsFinal` |
| `settled` | a message or a dispatch with a stop, a crash and a resubmission, fairness | `EventuallySettled` |
| `workers` | two messages and a dispatch of one scope, channels of one and of three, two generations, an interrupt, a stop, fairness | `TypeOK`, `OneWorkerPerScope`, `NoOrphanedChannel`, `ExactlyOnePlace`, `ImplementsMailbox`, `EveryItemSettles` |
| `ticker` | a cron schedule with an edit and a failed statement or a crash, a reminder under two tickers, a heartbeat with an edit, fairness | `TypeOK`, `OncePerOccurrence`, `LogIsTruthful`, `OneShotOnce`, `CancelledStaysSilent`, `DueIsHandled`, `DueIsAnswered` |
| `safety` | `Rollout`, `PRChecks`, `NomadStream`, `ProcessPool`, `GitOps`, `NomadVars`, `SkillDesign`, `ScheduleViews`, `BatchGuard`, `StoreDouble` | one invariant per service or part (`SynapseIsSound`, `HangarIsSound`, ...), each the conjunction of the properties above, and the action property `NothingIsTakenBack` |
| `parts` | the other twelve parts | the same, and `NoStepBack` |
| `progress` | ten of these in smaller instances, fairness | `EverythingEnds`: the leads-to property of each part |
| `shutdown` | one message, one stop | **violation**: a stop settles a turn that has never run |
| `interrupt_block` | one message, two dispatches, a channel of one, fairness | **violation**: the drain blocks with `p.mu` held |
| `cron_update` | one schedule, two timezones, one update | **violation**: the next run is not one of the schedule's |
| `corrupt_session` | two turns of a thread | **violation**: the retry goes to the session that was reset |
| `leader_overlap` | two processes, two requests | **violation**: both run one message |

Bounds.  What may happen in a behaviour is a *budget*, chosen in its initial
state from a small set: how many requests, edits, stops, crashes, operator
commands and failed statements.  Each set lists the combinations that meet, and
leaves out their product; the budgets are constants of the modules, so the
proofs do not depend on them.  Two items of one scope are enough for a burst, a
trailing message, a held dispatch and a second copy; one more restart than the
budget shows a wrong comparison; a channel of capacity one is full with one item
and blocks the second, and what a capacity of 100 adds is only more items in the
same places.  Three instants give a schedule that is early, due, overdue and
(with `MaxOverdue = 1`) stale, and two firings to compare.  A failed statement
may be any of them.  `MessageSymmetry` is used in `turns`, where every property
is symmetric in the two messages of the channel.  `CHECK_DEADLOCK FALSE` stands
where the system may really come to rest (all work settled, the budget used);
the clock of `Scheduler` ticks for ever, and deadlock is checked there.

Fairness.  Go runs every goroutine that can run: weak fairness of workers,
senders, recovery, timers and of an operator command under way; the supervisor
restarts a process and a stopping process exits (`Start`, `Exit`).  Nobody is
obliged to submit, edit, interrupt, stop or crash, the quota need not return and
the idle timer need not fire.  Receiving from a channel is strongly fair: Go's
`select` chooses at random among ready cases, so a ready channel is not passed
over for ever in favour of the idle timer.  In `progress`, `ProgressWork` is
what a part does by itself (River's workers retry, goroutines and timers run)
and `SecondWork` the second goroutine of a part that has two; in the hand-over
each process has its own leader goroutine and its own shutdown, and each is
weakly fair.  Faults and crashes are never fair.

Each property of a passing run has a mutant in `PROJECT.json`: a definition of
the model changed the way a plausible bug would change the code, under which TLC
finds the property violated.  The mutated forms stand in the modules before the
definitions they replace and are marked as seeded faults.

### Where code and documentation disagree

The five violation runs are listed as findings with the lines they contradict.
While modelling, further disagreements were met that have no run of their own:

* an invalid configuration at start-up falls back to the next search path, where
  `README.md:184` promises the last known good configuration; `all` "responds to
  every incoming message" (`README.md:176`), while trailing messages of a burst
  are not answered one by one;
* `handleTrailing` and `rescheduleBurst` may reopen a row an interrupt has
  failed; an interrupted triage leaves claimed trailing messages to the next
  restart;
* a graceful stop is charged as a restart;
* messages of one thread with different efforts run in any order;
* a worker that hands a trailing message back to its own full channel waits for
  itself;
* two tickers, or an overlapping `update_heartbeat`, fire one occurrence twice.

The properties are stated so that each such exception is visible in them
(`shed`, the operator clause of `ClaimIsExclusive`, the hypothesis of
`SingleTickerFiresOnce`, the room that `EveryItemSettles` asks for).

## 4. Proofs

The theorems hold for every value of the constants that satisfies the named
`ASSUME`s of the modules (disjoint messages and dispatches, each item in one
scope, limits that are naturals, budgets whose entries are naturals and one of
which allows the most edits of a build, a positive channel capacity, a next run
that is later than its argument, a first process, pull requests and revisions
numbered from 1, that Nomad calls only a canceled evaluation superseded, positive
lengths of the audio cadence, pages and ages of at least one, a search path, configuration mistakes
among those the loader knows, and homes in the order of a sequence of runtimes);
TLC evaluates these on every run.  No budget, number of items, scopes, tickers,
processes, chunks, turns of a call or watches is fixed.  Each safety property of
the runs `turns`, `workers` and `ticker` has a theorem, and so have fourteen of
the parts.

| module | theorems | stated property |
|---|---|---|
| `TurnQueueProofs` | `TypeCorrect`, `RestartBudgetHolds`, `ClaimExclusive`, `SettledIsFinal`, `AnsweredOncePerLife`, `NoWorkForgotten` | `TypeOK`, `RestartBudget`, `ClaimIsExclusive`, `TerminalIsFinal`, `DeliveredOncePerLife`, `NoForgottenWork` |
| `ScopeWorkersProofs` | `Accounting`, `TypeCorrect`, `OneWorker`, `ChannelsAreServed`, `ItemsHaveOnePlace`, `ItemsStayInTheirScope`, `PoolImplementsMailbox` | `TypeOK`, `OneWorkerPerScope`, `NoOrphanedChannel`, `ExactlyOnePlace`, `ImplementsMailbox` |
| `SchedulerProofs` | `TypeCorrect`, `OneShotFiresOnce`, `NoFiringAfterCancel`, `SingleTickerFiresOnce`, `SingleTickerLogsTheTruth` | `TypeOK`, `OneShotOnce`, `CancelledStaysSilent`, `OncePerOccurrence`, `LogIsTruthful` |
| `PoolProofs` | `PoolIsSafe` | |
| `DeployProofs` | `ChecksAreSafe`, `RolloutIsSafe`, `StreamIsSafe`, `GitIsSafe`, `VarsAreSafe` | |
| `SafetyProofs` | `AgentPoolHolds`, `HangarHolds`, `SynapseHolds`, `WhatIsOverStaysOver` | `AgentPoolIsSound`, `HangarIsSound`, `SynapseIsSound`, `NothingIsTakenBack` |
| `ServiceProofs` | `BuildIsSafe`, `ChunksAreDoneInOrder`, `MergedIsNotLost`, `CallIsSafe`, `CursorNeverGoesBack`, `AudioIsSafe`, `NoMessageIsHidden` | |
| `PartsProofs` | `HandoffIsSafe`, `LeaderHandoffHolds`, `WatchesAreSafe`, `CancelledWatchesAreSilent`, `EventWatchesHold`, `AttemptsAreSafe`, `ForeignTurnsLeaveTheRow`, `TurnAttemptsHold`, `ReloadIsSafe`, `EnvIsSafe`, `EnvTakesNothing`, `SettingsHold`, `ChunkBuildHolds`, `PhoneHolds`, `NoStepBackHolds` | `LeaderHandoffIsSound`, `EventWatchesAreSound`, `TurnAttemptsAreSound`, `SettingsAreSound`, `ChunkBuildIsSound`, `PhoneIsSound`, `NoStepBack` |

A theorem without a stated property is about one part by itself; `SafetyProofs` and
the last theorems of `PartsProofs` put the parts together as the runs do.

### The turn queue

* *Types.*  `TypeOK` alone is not inductive: a loop over a burst indexes it, and
  that the index is in range depends on where the turn stands.  `IInv` therefore
  types a turn by its `pc` (`WellFormed`).
* *Restarts.*  The budget is spent from a count that recovery has read before it
  writes.  `BInv` adds that what recovery holds was read from the row and that
  nobody else raises it meanwhile (`SeenRestarts`).
* *Ownership.*  A turn keeps the rows it has claimed in two sequences that depend
  on where it stands (`First`, `Second`).  `OInv` says that these name every row
  once (`Orderly`), that their rows are PROCESSING unless an operator settled them
  (`Claimed`), that all copies a scope has are of items of that scope (`Homely`),
  so that no two turns meet in a row, that an operator command touches only its
  own thread (`IrqInv`) and that no worker runs before recovery has finished
  writing (`LifeInv`).  The actions of a worker are each
  reduced to one `Summary`: which rows changed, from which status, and that the
  claim moved with them.  All others (handlers, recovery, timers, operators,
  crashes) satisfy `Kept` and `Aside`: they leave the claims and the rows of
  running turns alone, an operator's commands excepted.  Exclusive claims follow
  from the invariant, and that a settled row is final from the summaries.
* *Deliveries.*  `SendInv`: a row that may still be delivered in this life has
  been delivered at most as often as recovery handed it back; the step that
  delivers settles the turn of the row.
* *Memory.*  `MemInv` says where a row that is not settled is to be found, while
  the process is live (`LiveMem`), while arrivals are held (`HeldMem`) and while
  recovery still has rows to place (`TodoMem`).  The proof goes from the place an
  item leaves to the place it enters, action by action.

### The scope workers

* *Accounting.*  The registry, the channels, the blocked senders, the counters
  and the drain only make sense together: a channel is served because its worker
  looks once more under the lock, and a worker retires because no sender counts
  itself in.  `IInv` is the conjunction of `Registry`, `Channels`, `Senders`,
  `Counts` and `Drainer`; the listed properties are consequences.
* *One place.*  All places are read as one family of boxes (`Box`), each a
  sequence of items.  `Placed` says that an open item is in exactly one box at
  exactly one position.  Every action is a move between boxes or a removal, and
  two lemmas (`MoveKeeps`, `RemoveKeeps`) do the rest; `Shapes` says which boxes
  are empty at which `pc`.
* *Refinement.*  The kind of an item's box (`Kind`) is its state in
  `ScopeMailbox`.  Because the boxes are disjoint, a move changes the state of
  the moved items only (`StatFrame`), and `Homes` gives the scope of what moves.
  Each action is shown to be one of `Accept`, `Begin`, `Finish`, `CutShort`,
  `Resolve`, `Withdraw`, `Close`, `Lose`, or a stutter.

### The schedules

* A one-shot is claimed by a delete that counts rows: `OneShotInv` says that while
  its row is there no ticker is committed to it and nothing was sent, and that at
  most one ticker is ever committed to it.
* Recurring schedules need the hypothesis of one ticker.  This is what the code
  deploys and does not enforce; with two, the instance of `ticker` shows the
  double firing (the property carries that hypothesis too).  `OccurrenceInv`
  relates what was sent to what is in hand and to `next_run_at`.
* The log is truthful: an entry *completed* is written after the request was
  accepted, for any number of tickers (`DoneInv`).  An entry *stale* is about an
  occurrence that no ticker sends later: it is judged by the clock of its tick,
  later ticks have later clocks and `next_run_at` only grows until
  `update_heartbeat` writes back a row it read earlier (`SkipInv`, `AlwaysAhead`).

### The runner pools

A lease is exclusive because every path to a daemon goes through the lock of its
session, and the lock is there as long as somebody counts himself in.  `PoolInv`
therefore says what each goroutine holds at its place in the code, and that the
shared state agrees with it:

* *goroutines* (`Roles`): at which steps a turn, the pre-warmer and the recycler of
  a worker may be (`MayBe`), and that an interchangeable worker has one user;
* *locks* (`LocksMatch`): whoever has a lock has the one the map holds; the
  semaphore is taken exactly while somebody is between lock and unlock, and the
  reference count is the number of goroutines that hold or await it.  The count is
  where finite sets and their cardinality come in, so the theorems assume that the
  turns are finitely many (`PoolAssumption`);
* *the flight* (`FlightMatches`): single-flight has one leader, who is where the
  stage of the flight says, and nobody else knows the daemon it has spawned;
* *daemons* (`DaemonsMatch`): none is used before it is spawned, a closed one is
  gone, and one that lives is pinned, in flight, or about to be closed;
* *turns* (`TurnsMatch`): the queue of a daemon names only turns that wait for its
  answer, and is what was written to it, but for the turn that is just writing;
* *sessions* (`SessionsMatch`, `WorkersFresh`): a turn asks for the session it was
  given when it read the record, and a worker that has answered anybody is recycled
  before anybody else gets it.

### From a pull request to the cluster

* *Checks.*  A worker writes with what it read earlier.  `Compared` says what it
  still knows then: the commit it is about to fail has failed, and is the row's
  unless the head moved after the comparison.  `Counted` bounds the repairs asked
  for and those about to be asked for together by the counter and by the failures
  that could not be counted; the workers are finitely many.
* *Roll-outs.*  `Fits` says what a handler knows at its place, `Tellers` that an
  untold outcome has a handler at a place from which it tells or undoes it
  (`Tells`), and `RowsAgree` that it is the one the row has.  The
  statement that gives a row its outcome also takes it out of the rows another
  handler may take, so one handler owes the answer; this is why an undo puts the row
  back before River runs the handler again.
* *The stream.*  The log orders what Nomad did, River's keys say what synapse saw
  of it.  `TakenIn` relates the two: a key belongs to an event that
  the filter keeps, and unless an event was lost every kept event up to the cursor
  has its key.  A failed allocation is told by the event of its task that gave up,
  which comes first under the same key (`GivingUpIsLogged`, `FailureInHand`).  A
  healthy job that was not reported has a *good* event ahead of it, in River or
  under a key River has not seen (`HealthInHand`); that an allocation comes up
  under a new key is because each start has its own number (`StartsAreNumbered`).
* *Checkouts and jobs.*  `GitInv` says who has a change of a job in hand (`Known`:
  the queue, a batch, a roll-out or a reconciliation), that a job off its checkout
  is known, waits for its image or has gone astray (`Cared`), and where each
  process may be (`GitPlaces`).  That hangar's own job is last follows from the same
  invariant: whoever applies it has nothing else left in his hands.
* *Variables.*  A variable that lags behind its file is yet to be put by a pass that
  has not come to it (`OnTheirWay`); revisions only grow from GitHub to the cache
  (`Revisions`), so an equal hash is an equal content.

### Builds and calls

* *A build.*  `BuildInv` numbers its rows without gaps (`RowsAreDense`).  An index
  is *reached* when no row up to it is pending and the pull requests of all rows
  before it are merged (`Reached`).  An edit moves pending rows only, so a reached
  index keeps its row; every job of River, every statement a handler has still to
  execute and every brief is about a reached index (`JobsFit`, `HandlersFit`,
  `BriefsFit`).  A new row needs a number that no row has and the least such number
  exists because the edits of a build are bounded by the budget it began with.
* *What was merged.*  `UpdateChunkStatus` asks nothing about the status it
  overwrites.  `FailuresFit` says that a job under way had read its chunk before
  that was merged (`SeenBefore`), that the statements which mark a chunk failed
  stand in the list of one handler, ahead of the one that discards the job
  (`Serves`, `Owned`), and that no other handler has them (`ServedOnce`).
* *A call.*  `EveryWord` says where a turn that was spoken is: in the row, cut off
  by the end of the session, in the session's buffer or about to be appended.  The
  compare-and-swap that starts a report leaves one goroutine with it
  (`OneReporter`); what a poster has read of the transcript is ahead of the cursor
  it will write (`CursorsFit`).
* *Its audio.*  The clocks of the answering-machine detector are counts of frames,
  in all and in the run of loud or quiet frames at the end (`Clocks`).  The codec is
  proved for all 256 codes, segment by segment: the sixteen codes of a segment
  decode to multiples of one power of two, so that only numbers remain to be
  compared (`Segment0` to `Segment7`).

### Configuration and homes

* `ReloadInv` follows the loader: what it may do in each state of the process
  (`LoaderFits`), that a process which has published anything has published a good
  configuration with its secret redacted (`PublishedFits`), and that between two
  reloads a clean agent has the model and the homes of the last one (`AgentsFit`).
* `EnvInv` follows a sync through the homes in their order (`AtFits`): what it has
  passed has the rules, servers and skills of the clones (`RulesFit`, `ServersFit`,
  `SkillsFit`), while no clone has changed since it began.

### Hand-over, event watches, attempts and messages

* `HandoffInv` ties the state of each process to the owner of the advisory lock
  (`Seat`), to what its workers may run (`Works`), and what it accepted while it
  was held to what it adopts when promoted (`Adopted`); a request is *fresh* only
  while its row is pending (`Unbegun`).
* `WatchInv` says that a one-shot watch is owned by the table or by one request
  (`WatchOwned`), that while it is owned it was prompted for no more often than an
  answer was in doubt (`WatchAsked`), that a watch which was registered and not
  cancelled is in the table or in a request (`WatchThere`), that synapse waits for
  one request per target (`WatchServed`), and that such a request leaves no watch
  of its target behind unless it reports an error (`WatchHeard`).
* `AttemptInv` counts the calls of a turn by the attempt it is at
  (`CallsCounted`): the retry that the row keeps is one less than the attempt,
  and a call more than the attempts is a resumption.  The last call went to the
  session that the turn has leased (`CallsFollowLease`), and the session row names
  that one unless the turn is ephemeral, was interrupted, or had the row reset
  under it (`RowFollowsLease`).  No session is younger than the last one that was
  opened (`SessionsExist`), so a fresh one is never a stored one.  For any number
  of attempts, resumptions and restarts.
* `IngressInv` says of a sweep that offers a page which was not full that every
  message between the watermark and where the sweep will set it is still in the
  page or needs nothing more: it is the bot's own, too old, queued or refused
  (`PageCovers`).  The watermark may then move to the newest message the sweep
  knew of; a message posted after the sweep began is newer than that one.
* `NoStepBack` follows from the invariants of its six parts together (`PartsInv`),
  for a step of the parts is a step of the one that runs (`PartThatRuns`).
* As parts of `MCProgress`: the variable `part` never changes, and the part that
  was chosen takes exactly its own steps, so the invariants carry over under
  `part = "..."`.

### Only model-checked

* liveness, which is beyond the proof system: `EventuallySettled`,
  `EveryItemSettles`, `DueIsHandled`, `DueIsAnswered`, `EverythingEnds`;
* the invariants of `SkillDesign`, `ScheduleViews`, `BatchGuard`, `StoreDouble`,
  `CovenMemory`, `VoicePool`, `DiscordIngress` (but for `HidesNothing`) and
  `BurstPlan`;
* the definitions that use recursion over data (the
  cuts of `BurstPlan`, the pages of `ScheduleViews`), compared with their
  reference definitions over bounded inputs;
* the refuted statements, each by the counterexample of its run:
  `ShutdownKeepsWork`, `InterruptCompletes`, `OnSchedule`,
  `CorruptSessionIsLeft`, `NoSplitBrain`.

## 5. Not modelled

* The wording of prompts, messages, rules and pages, their rendering and their
  formatting; a text is what the control distinguishes of it.
* Metrics, tracing and logging.
* What a language model, a classifier or a transcriber answers: any answer of the
  right kind.
* The contents of agent sessions; a session is its identity, its length and
  whether it is corrupt.
* The dashboard, the docs site, the proxy, the MCP servers and the shared packages:
  they keep no state of their own and wrap calls that other modules model.
* Postgres, River, Nomad, GitHub and Discord beyond what the calls rely on; a
  statement is atomic, a request may fail before or after it took effect.

## 6. Plan

What is left: the invariants of `DiscordIngress`, `VoicePool` and `BatchGuard` with
the pattern of `PartsProofs`.
