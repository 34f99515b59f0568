----------- MODULE ScheduleViews -----------
(* The reading side of haro (server.go, tools.go, db.go): GET /schedules *)
(* with its five-second cache, the MCP tools that list, look up, create *)
(* and cancel schedules, and GET /schedules/runs with its pages.  Every *)
(* SQL statement is a step of its own and the cache's mutex is held only *)
(* to look at it and to store into it.  What the ticker does with a due *)
(* schedule is Scheduler's; here it only changes the tables. *)
(*  *)
(* A due time of 0 is Go's zero time, which CalculateNextCronRun returns *)
(* for an expression that never matches. *)
EXTENDS Integers, Sequences, FiniteSets, FiniteSetsExt

CONSTANTS
    SchedIds,      \* the ids schedules are created with
    SchedKind,     \* their tables: "cron", "beat" or "once"
    Viewers,       \* concurrent readers
    CacheTTL,      \* 5 seconds
    SchedHorizon,  \* bound: last instant of the clock
    DefaultPage,   \* 50 runs
    MaxPage,       \* 100 runs
    RunInstants,   \* bound: the instants at which runs begin
    PageRequests,  \* limits that requests ask for
    ViewBudgets    \* the schedules there are at first, and bounds: pages, tool reads, changes by
                   \* tools and by the ticker, failed statements, runs, pagings

ASSUME ViewAssumption ==
    /\ SchedKind \in [SchedIds -> {"cron", "beat", "once"}]
    /\ CacheTTL \in Nat \ {0} /\ SchedHorizon \in Nat
    /\ DefaultPage \in 1..MaxPage /\ MaxPage \in Nat

VARIABLES
    scheds,    \* the rows of the three tables
    instant,   \* the clock
    cache,     \* schedulesCache
    viewer,    \* the readers
    reply,     \* the last answer of GET /schedules
    tool,      \* the tool call that changes the tables
    goneAt,    \* history: when a row went
    unseen,    \* history: rows that went without an invalidation
    runRows,   \* schedule_runs: when each began
    pager,     \* a client that pages through the runs
    viewBudget

viewVars == <<scheds, instant, cache, viewer, reply, tool, goneAt, unseen, runRows, pager, viewBudget>>

None == "none"
NoNextRun == -1
NoCache == [set |-> FALSE, rows |-> {}, raced |-> FALSE, start |-> 0, expires |-> 0, summary |-> None]
NoReply == [rows |-> {}, summary |-> None, at |-> 0, start |-> 0, own |-> 0, moved |-> TRUE]
IdleViewer == [pc |-> "idle", want |-> "page", start |-> 0, got |-> << >>, raced |-> FALSE, moved |-> FALSE]
IdleTool == [pc |-> "idle", id |-> None, hits |-> 0]
IdlePager == [pc |-> "idle", ask |-> 1, offset |-> 0, total |-> 0, owed |-> {}, got |-> {}]

ViewInit ==
    /\ viewBudget \in ViewBudgets
    /\ scheds = {[id |-> i, due |-> 1, enabled |-> TRUE] : i \in viewBudget.stock}
    /\ instant = 1 /\ cache = NoCache
    /\ viewer = [v \in Viewers |-> IdleViewer]
    /\ reply = NoReply /\ tool = IdleTool
    /\ goneAt = [i \in SchedIds |-> 0] /\ unseen = {}
    /\ runRows = {} /\ pager = IdlePager

SpendView(what) == viewBudget[what] > 0 /\ viewBudget' = [viewBudget EXCEPT ![what] = @ - 1]

--------------------
(* The tables. *)

\* ListCronSchedules and ListHeartbeatSchedules leave out what is disabled.
ListAll(kind) == {r \in scheds : SchedKind[r.id] = kind}
ListKind(kind) == {r \in scheds : SchedKind[r.id] = kind /\ r.enabled}

FindEarliestNextRun(rows) ==
    LET real == {r.due : r \in rows} \ {0} IN IF real = {} THEN NoNextRun ELSE Min(real)

\* ParseRunAtWithTimezone: a duration from now or a moment, which may be past.
ParseRunAt == {instant, instant + 1} \cup {1}
CalculateNextCronRun == {0, instant + 1}

\* The statement moves the tables under every read that is under way.
Disturbed(byTool) ==
    [v \in Viewers |-> IF viewer[v].pc = "idle" THEN viewer[v]
                       ELSE [viewer[v] EXCEPT !.moved = TRUE, !.raced = @ \/ byTool]]

\* A new UUID, or the id of the POST that the primary key accepts.
NewId(i) == i \notin {s.id : s \in scheds} /\ goneAt[i] = 0

InsertSchedule(r, next) ==
    /\ SpendView("tools") /\ tool.pc = "idle" /\ NewId(r.id)
    /\ scheds' = scheds \cup {r} /\ viewer' = Disturbed(TRUE)
    /\ tool' = [tool EXCEPT !.pc = next]
    /\ UNCHANGED <<instant, cache, reply, goneAt, unseen, runRows, pager>>

NoInvalidation == "idle"
AfterChange == "invalidate"

HandleScheduleRecurring ==
    \E i \in SchedIds, due \in CalculateNextCronRun :
        SchedKind[i] = "cron" /\ InsertSchedule([id |-> i, due |-> due, enabled |-> TRUE], AfterChange)

HandleScheduleHeartbeat ==
    \E i \in SchedIds, due \in CalculateNextCronRun :
        SchedKind[i] = "beat" /\ InsertSchedule([id |-> i, due |-> due, enabled |-> TRUE], AfterChange)

\* The schedule_once tool and POST /schedules/oneshot.
HandleScheduleOnce ==
    \E i \in SchedIds, due \in ParseRunAt :
        SchedKind[i] = "once" /\ InsertSchedule([id |-> i, due |-> due, enabled |-> TRUE], AfterChange)

\* update_heartbeat turning a schedule off or on.
SetEnabled ==
    /\ SpendView("tools") /\ tool.pc = "idle"
    /\ \E r \in scheds : SchedKind[r.id] = "beat"
        /\ scheds' = (scheds \ {r}) \cup {[r EXCEPT !.enabled = ~@]}
    /\ viewer' = Disturbed(TRUE)
    /\ tool' = [tool EXCEPT !.pc = AfterChange]
    /\ UNCHANGED <<instant, cache, reply, goneAt, unseen, runRows, pager>>

StartCancel ==
    /\ SpendView("tools") /\ tool.pc = "idle"
    /\ \E i \in SchedIds : tool' = [pc |-> "cron", id |-> i, hits |-> 0]
    /\ UNCHANGED <<scheds, instant, cache, viewer, reply, goneAt, unseen, runRows, pager>>

NextTable == [cron |-> "once", once |-> "beat", beat |-> "triggers"]

\* One DELETE of DeleteSchedule's four; the last is the table of event watches.
DeleteStatement ==
    /\ tool.pc \in DOMAIN NextTable
    /\ LET hit == {r \in scheds : r.id = tool.id /\ SchedKind[r.id] = tool.pc} IN
       /\ scheds' = scheds \ hit
       /\ viewer' = IF hit = {} THEN viewer ELSE Disturbed(TRUE)
       /\ goneAt' = IF hit = {} THEN goneAt ELSE [goneAt EXCEPT ![tool.id] = instant]
       /\ tool' = [tool EXCEPT !.pc = NextTable[tool.pc], !.hits = @ + Cardinality(hit)]
    /\ UNCHANGED <<instant, cache, reply, unseen, runRows, pager, viewBudget>>

\* Nothing was found, or everything was deleted: only the latter invalidates.
CancelSchedule ==
    /\ tool.pc = "triggers"
    /\ tool' = IF tool.hits > 0 THEN [tool EXCEPT !.pc = AfterChange] ELSE IdleTool
    /\ UNCHANGED <<scheds, instant, cache, viewer, reply, goneAt, unseen, runRows, pager, viewBudget>>

\* A failed DELETE ends the call; rows deleted before it stay deleted.
DeleteFails ==
    /\ SpendView("faults") /\ tool.pc \in DOMAIN NextTable \cup {"triggers"}
    /\ unseen' = IF tool.hits > 0 THEN unseen \cup {tool.id} ELSE unseen
    /\ tool' = IdleTool
    /\ UNCHANGED <<scheds, instant, cache, viewer, reply, goneAt, runRows, pager>>

InvalidateSchedulesCache ==
    /\ tool.pc = "invalidate" /\ tool' = IdleTool /\ cache' = NoCache
    /\ UNCHANGED <<scheds, instant, viewer, reply, goneAt, unseen, runRows, pager, viewBudget>>

\* The ticker advances a recurring schedule or removes a one-shot that fired.
TickerChange ==
    /\ SpendView("ticks")
    /\ \E r \in scheds : r.enabled /\ r.due <= instant
        /\ IF SchedKind[r.id] = "once"
           THEN /\ scheds' = scheds \ {r} /\ unseen' = unseen \cup {r.id}
                /\ goneAt' = [goneAt EXCEPT ![r.id] = instant]
           ELSE /\ \E due \in CalculateNextCronRun : scheds' = (scheds \ {r}) \cup {[r EXCEPT !.due = due]}
                /\ UNCHANGED <<goneAt, unseen>>
    /\ viewer' = Disturbed(FALSE)
    /\ UNCHANGED <<instant, cache, reply, tool, runRows, pager>>

ClockTicks ==
    /\ instant < SchedHorizon /\ instant' = instant + 1
    /\ UNCHANGED <<scheds, cache, viewer, reply, tool, goneAt, unseen, runRows, pager, viewBudget>>

--------------------
(* The readers.  A page reads the tables for the summary and again for the *)
(* lists; the tools read each table once. *)

ReadsOf(want) ==
    IF want = "page" THEN <<"cron", "beat", "once", "runs", "cron", "beat", "once">>
    ELSE <<"cron", "once", "beat">>

\* The head of handleSchedules: the cache, or the first query.
Served(t) == cache.set /\ t < cache.expires

HandleSchedulesCached(v) ==
    /\ SpendView("views") /\ viewer[v].pc = "idle" /\ Served(instant)
    /\ reply' = [rows |-> cache.rows, summary |-> cache.summary, at |-> instant, start |-> cache.start,
                 own |-> instant, moved |-> TRUE]
    /\ UNCHANGED <<scheds, instant, cache, viewer, tool, goneAt, unseen, runRows, pager>>

HandleSchedulesMiss(v) ==
    /\ SpendView("views") /\ viewer[v].pc = "idle" /\ ~Served(instant)
    /\ viewer' = [viewer EXCEPT ![v] = [IdleViewer EXCEPT !.pc = "reading", !.start = instant]]
    /\ UNCHANGED <<scheds, instant, cache, reply, tool, goneAt, unseen, runRows, pager>>

\* list_schedules and get_schedule, which know no cache.
ToolReads(v) ==
    /\ SpendView("asks") /\ viewer[v].pc = "idle"
    /\ \E want \in {"list", "get"} :
        viewer' = [viewer EXCEPT ![v] = [IdleViewer EXCEPT !.pc = "reading", !.want = want, !.start = instant]]
    /\ UNCHANGED <<scheds, instant, cache, reply, tool, goneAt, unseen, runRows, pager>>

\* One query.  get_schedule sees disabled rows too.
QuerySchedules(v) ==
    /\ viewer[v].pc = "reading"
    /\ LET me == viewer[v]
           reads == ReadsOf(me.want)
           table == reads[Len(me.got) + 1]
           rows == IF me.want = "get" THEN ListAll(table) ELSE ListKind(table)
       IN /\ Len(me.got) < Len(reads)
          /\ viewer' = [viewer EXCEPT ![v].got = Append(@, rows),
                                      ![v].pc = IF Len(me.got) + 1 = Len(reads) THEN "done" ELSE "reading"]
    /\ UNCHANGED <<scheds, instant, cache, reply, tool, goneAt, unseen, runRows, pager, viewBudget>>

\* A failed query answers 500 and stores nothing.
QueryFails(v) ==
    /\ SpendView("faults") /\ viewer[v].pc = "reading"
    /\ viewer' = [viewer EXCEPT ![v] = IdleViewer]
    /\ UNCHANGED <<scheds, instant, cache, reply, tool, goneAt, unseen, runRows, pager>>

GetScheduleSummaryMetrics(got) ==
    [cron |-> Cardinality(got[1]), beat |-> Cardinality(got[2]), once |-> Cardinality(got[3]),
     next |-> FindEarliestNextRun(got[1] \cup got[2] \cup got[3])]

Expiry(me) == me.start + CacheTTL

\* The page is stored and answered; its lists are the last three reads.
StorePage(v) ==
    /\ viewer[v].pc = "done" /\ viewer[v].want = "page"
    /\ LET me == viewer[v]
           lists == me.got[5] \cup me.got[6] \cup me.got[7]
           summary == GetScheduleSummaryMetrics(me.got)
       IN /\ cache' = [set |-> TRUE, rows |-> lists, raced |-> me.raced, start |-> me.start,
                       expires |-> Expiry(me), summary |-> summary]
          /\ reply' = [rows |-> lists, summary |-> summary, at |-> instant, start |-> me.start,
                       own |-> me.start, moved |-> me.moved]
          /\ viewer' = [viewer EXCEPT ![v] = IdleViewer]
    /\ UNCHANGED <<scheds, instant, tool, goneAt, unseen, runRows, pager, viewBudget>>

\* list_schedules and get_schedule answer; the answers leave no state behind.
ToolAnswers(v) ==
    /\ viewer[v].pc = "done" /\ viewer[v].want # "page"
    /\ viewer' = [viewer EXCEPT ![v] = IdleViewer]
    /\ UNCHANGED <<scheds, instant, cache, reply, tool, goneAt, unseen, runRows, pager, viewBudget>>

--------------------
(* GET /schedules/runs. *)

ClampLimit(l) == IF l <= 0 THEN DefaultPage ELSE IF l > MaxPage THEN MaxPage ELSE l
\* handleScheduleRuns repeats the clamp for the limit that the answer names.
AnsweredLimit(l) == IF l <= 0 THEN DefaultPage ELSE Min({l, MaxPage})

\* All runs of a tick began at one instant.
Tied(r, rows) == {x \in rows : x.start = r.start}
Newer(r, rows) == {x \in rows : x.start > r.start}
Untied(rows) == {r \in rows : Tied(r, rows) = {r}}

\* Runs are saved when they end.
SaveRun ==
    /\ SpendView("runs")
    /\ \E t \in 1..RunInstants :
        runRows' = runRows \cup {[id |-> viewBudget.runs, start |-> t]}
    /\ pager' = [pager EXCEPT !.owed = @ \cap Untied(runRows')]
    /\ UNCHANGED <<scheds, instant, cache, viewer, reply, tool, goneAt, unseen>>

\* PruneScheduleRuns, by the ticker: the oldest go.
PruneScheduleRuns ==
    /\ SpendView("ticks")
    /\ \E old \in SUBSET runRows :
        /\ \A r \in old, k \in runRows \ old : r.start <= k.start
        /\ runRows' = runRows \ old
        /\ pager' = [pager EXCEPT !.owed = @ \ old]
    /\ UNCHANGED <<scheds, instant, cache, viewer, reply, tool, goneAt, unseen>>

StartPaging ==
    /\ SpendView("pagings") /\ pager.pc = "idle"
    /\ \E l \in PageRequests :
        pager' = [IdlePager EXCEPT !.pc = "count", !.ask = l, !.owed = Untied(runRows)]
    /\ UNCHANGED <<scheds, instant, cache, viewer, reply, tool, goneAt, unseen, runRows>>

CountRuns ==
    /\ pager.pc = "count"
    /\ pager' = [pager EXCEPT !.pc = "select", !.total = Cardinality(runRows)]
    /\ UNCHANGED <<scheds, instant, cache, viewer, reply, tool, goneAt, unseen, runRows, viewBudget>>

\* ORDER BY started_at DESC LIMIT OFFSET: which of the runs of one instant
\* come first may differ from query to query.
IsPage(page, offset, limit) ==
    \A r \in runRows :
        LET before == Cardinality(Newer(r, runRows)) tied == Tied(r, runRows) IN
        Cardinality(page \cap tied) =
            Cardinality((before + 1..before + Cardinality(tied)) \cap (offset + 1..offset + limit))

\* The client goes on by the limit it was told until a page is not full; the
\* total may be older than the page.
GetScheduleRunsPaginated ==
    /\ pager.pc = "select"
    /\ \E page \in SUBSET runRows :
        /\ IsPage(page, pager.offset, ClampLimit(pager.ask))
        /\ pager' = [pager EXCEPT !.got = @ \cup page, !.offset = @ + AnsweredLimit(pager.ask),
                       !.pc = IF Cardinality(page) = AnsweredLimit(pager.ask) THEN "count" ELSE "read"]
    /\ UNCHANGED <<scheds, instant, cache, viewer, reply, tool, goneAt, unseen, runRows, viewBudget>>

EndPaging ==
    /\ pager.pc = "read" /\ pager' = IdlePager
    /\ UNCHANGED <<scheds, instant, cache, viewer, reply, tool, goneAt, unseen, runRows, viewBudget>>

ViewNext ==
    \/ HandleScheduleRecurring \/ HandleScheduleHeartbeat \/ HandleScheduleOnce \/ SetEnabled
    \/ StartCancel \/ DeleteStatement \/ CancelSchedule \/ DeleteFails \/ InvalidateSchedulesCache
    \/ TickerChange \/ ClockTicks
    \/ \E v \in Viewers : HandleSchedulesCached(v) \/ HandleSchedulesMiss(v) \/ ToolReads(v)
                          \/ QuerySchedules(v) \/ QueryFails(v) \/ StorePage(v) \/ ToolAnswers(v)
    \/ SaveRun \/ PruneScheduleRuns \/ StartPaging \/ CountRuns \/ GetScheduleRunsPaginated \/ EndPaging

ViewSpec == ViewInit /\ [][ViewNext]_viewVars

--------------------
(* Properties. *)

SchedRows == [id : SchedIds, due : 0..SchedHorizon + 1, enabled : BOOLEAN]

\* Every variable has its type; no table holds an id twice.
ViewTypeOK ==
    /\ scheds \subseteq SchedRows /\ Cardinality({r.id : r \in scheds}) = Cardinality(scheds)
    /\ instant \in 1..SchedHorizon
    /\ cache.rows \subseteq SchedRows /\ cache.expires \in 0..SchedHorizon + CacheTTL
    /\ \A v \in Viewers : viewer[v].pc \in {"idle", "reading", "done"}
                          /\ Len(viewer[v].got) <= Len(ReadsOf(viewer[v].want))
    /\ tool.pc \in DOMAIN NextTable \cup {"idle", "triggers", "invalidate"}
    /\ goneAt \in [SchedIds -> 0..SchedHorizon] /\ unseen \subseteq SchedIds
    /\ pager.owed \subseteq Untied(runRows)

\* A cached page that no tool call overlapped with shows every schedule that
\* is enabled, and of those that are gone only what the ticker or a cancel
\* that failed half-way removed: create, update and cancel all drop the page
\* (InvalidateSchedulesCache).  A page read before the change and stored
\* after it escapes, which is why overlapped pages are left out.
UnracedCacheIsCurrent ==
    (cache.set /\ ~cache.raced /\ tool.pc = "idle") =>
        /\ {r.id : r \in {s \in scheds : s.enabled}} \subseteq {r.id : r \in cache.rows}
        /\ \A r \in cache.rows : r.id \in unseen \/ \E s \in scheds : s.id = r.id /\ s.enabled

\* Whatever races, an answer names no schedule that had gone CacheTTL before
\* it was given, except one that went while the request itself was reading:
\* the entry expires five seconds after its reads began, not after it was
\* stored.
AnswersAreRecent ==
    \A r \in reply.rows : goneAt[r.id] = 0 \/ goneAt[r.id] >= reply.own
                          \/ reply.at - goneAt[r.id] < CacheTTL

\* The summary and the lists of one page come from different queries: they
\* agree when nothing changed during the reads, and the next run is then the
\* earliest real one, never the zero time of an expression that cannot match.
SummaryAgrees ==
    ~reply.moved =>
        /\ \A k \in {"cron", "beat", "once"} :
             reply.summary[k] = Cardinality({r \in reply.rows : SchedKind[r.id] = k})
        /\ reply.summary.next # 0
        /\ (reply.summary.next = NoNextRun) <=> (\A r \in reply.rows : r.due = 0)

\* A client that follows the pages misses no run that was there when it
\* began, however many runs are saved and pruned meanwhile, except the pruned
\* ones and those that began together with another: the count and the page
\* are two queries, the clamped limit is the one that is answered, and what is
\* pruned or saved moves no older run to an earlier page.
PagingSkipsNothing == pager.pc = "read" => pager.owed \subseteq pager.got

\* What haro shows of its schedules and runs: current but for the races the cache
\* allows, never older than its lifetime, consistent, and complete over the pages.
ViewsAreSound ==
    /\ ViewTypeOK /\ UnracedCacheIsCurrent /\ AnswersAreRecent /\ SummaryAgrees
    /\ PagingSkipsNothing
====================
