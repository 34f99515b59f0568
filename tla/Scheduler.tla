----------- MODULE Scheduler -----------
(* haro: the persistent schedules, the MCP tools that edit them, and the *)
(* ticker that fires the due ones (services/haro ticker.go, db.go, *)
(* tools.go).  Every SQL statement and every request to eri is one step; *)
(* a deployment with a canary runs several tickers on one database. *)
EXTENDS Naturals, Sequences, FiniteSets

CONSTANTS
    Crons, Beats, Shots,     \* ids of the recurring, heartbeat and one-shot schedules
    Tickers,                 \* haro processes (nomad: count 1, canary 1)
    CronExprs,               \* cron expressions
    Zones, ServerZone,       \* timezones LoadLocation accepts; cfg.Timezone
    BadZone,                 \* a timezone it does not accept
    NextRun(_, _, _),        \* sched.Next of the cron library
    NoSlot,
    MaxTime,                 \* bound: the clock stops here at the latest
    MaxOverdue,              \* 24 hours, in units of the clock
    Retention, MaxRuns,      \* PruneScheduleRuns: 30 days, 1000 rows
    Budgets                  \* bound: which schedules and tickers there are, until when, with
                             \* how many failing SQL statements, crashes, calls of
                             \* update_cron_schedule and of update_heartbeat

Ids == Crons \cup Beats \cup Shots
Recurring == Crons \cup Beats
Times == 0 .. MaxTime

\* A due row as a ticker has read it.
Slot == [id : Ids, slot : Nat, expr : CronExprs, zone : Zones \cup {BadZone}]

ASSUME NextRunAssumption ==
    \A e \in CronExprs, z \in Zones, t \in Times :
        NextRun(e, z, t) \in Nat /\ NextRun(e, z, t) > t

ASSUME ConstantsAssumption ==
    /\ MaxTime \in Nat
    /\ {MaxOverdue, Retention, MaxRuns} \subseteq Nat \ {0}
    /\ ServerZone \in Zones /\ BadZone \notin Zones
    /\ NoSlot \notin Nat /\ NoSlot \notin Zones /\ NoSlot \notin Slot
    /\ Crons \cap Beats = {} /\ Shots \cap Recurring = {}
    /\ CronExprs # {}

ASSUME BudgetsAssumption ==
    Budgets \in Seq([ids : SUBSET Ids, tickers : SUBSET Tickers, until : Times,
                     fault : Nat, crash : Nat, cron : Nat, beat : Nat])

VARIABLES
    now,       \* the wall clock
    row,       \* the row of each schedule in Postgres
    tk,        \* the goroutine of each ticker
    upd,       \* the row an update_heartbeat call has read and not yet written
    sent,      \* the occurrences of each schedule that eri has accepted, in order
    runs,      \* table schedule_runs
    spent      \* the number of the budget and what is used of it

vars == <<now, row, tk, upd, sent, runs, spent>>

Unread == [read |-> FALSE]
AnyExpr == CHOOSE e \in CronExprs : TRUE

\* next_run_at (run_at of a one-shot), cron_expr and timezone, enabled.
NewRow == [st |-> "new", on |-> TRUE, due |-> 0, expr |-> AnyExpr, zone |-> ServerZone]

\* A ticker: where it is, the `now` of its tick, the tick waiting in ticker.C,
\* the table it evaluates, the rows it has read, the one in hand and its status.
Down == [pc |-> "down", at |-> 0, tick |-> NoSlot, stage |-> "cron", todo |-> {},
         cur |-> NoSlot, status |-> "none", lastPrune |-> NoSlot]

Init ==
    /\ now = 0
    /\ row = [id \in Ids |-> NewRow]
    /\ tk = [k \in Tickers |-> Down]
    /\ upd = [id \in Beats |-> Unread]
    /\ sent = [id \in Ids |-> <<>>]
    /\ runs = {}
    /\ \E b \in DOMAIN Budgets :
          spent = [what \in {"budget", "fault", "crash", "cron", "beat"} |->
                      IF what = "budget" THEN b ELSE 0]

Spend(what) == spent' = [spent EXCEPT ![what] = @ + 1]
Budget == Budgets[spent["budget"]]
May(what) == spent[what] < Budget[what]
MayFault == May("fault")

--------------------
(* The clock, and time.NewTicker: a channel of one tick; while a tick *)
(* waits there, later ones are dropped.  Start makes it after the first *)
(* evaluation, which ends with the first prune. *)
Clock ==
    /\ now' = IF now < MaxTime /\ now < Budget.until THEN now + 1 ELSE now
    /\ tk' = [k \in Tickers |->
                IF tk[k].lastPrune # NoSlot /\ tk[k].tick = NoSlot
                THEN [tk[k] EXCEPT !.tick = now'] ELSE tk[k]]
    /\ UNCHANGED <<row, upd, sent, runs, spent>>

--------------------
(* The tools. *)

\* The fallback of processDueCron when the expression cannot be evaluated is
\* 24 hours later.
CalculateNextRun(e, z, t) ==
    IF z = BadZone THEN t + MaxOverdue ELSE NextRun(e, z, t)

\* schedule_recurring and schedule_heartbeat.
ScheduleRecurring(id) ==
    /\ id \in Recurring \cap Budget.ids /\ row[id].st = "new"
    /\ \E e \in CronExprs, z \in Zones :
          row' = [row EXCEPT ![id] = [st |-> "live", on |-> TRUE, expr |-> e, zone |-> z,
                                      due |-> CalculateNextRun(e, z, now)]]
    /\ UNCHANGED <<now, tk, upd, sent, runs, spent>>

\* schedule_once and POST /schedules/oneshot; an absolute time may be past.
ScheduleOnce(id) ==
    /\ id \in Shots \cap Budget.ids /\ row[id].st = "new"
    /\ \E t \in Times :
          t <= Budget.until /\ row' = [row EXCEPT ![id].st = "live", ![id].due = t]
    /\ UNCHANGED <<now, tk, upd, sent, runs, spent>>

CancelSchedule(id) ==
    /\ row[id].st = "live"
    /\ row' = [row EXCEPT ![id].st = "cancelled"]
    /\ UNCHANGED <<now, tk, upd, sent, runs, spent>>

\* update_cron_schedule with a cron expression recomputes next_run_at in the
\* timezone of the call or else of the server, never in that of the row.
UpdateCronExpr(id) ==
    /\ id \in Crons /\ row[id].st = "live" /\ May("cron")
    /\ \E e \in CronExprs, z \in Zones \cup {NoSlot} :
          LET zone == IF z = NoSlot THEN ServerZone ELSE z IN
          row' = [row EXCEPT ![id].expr = e,
                             ![id].zone = IF z = NoSlot THEN @ ELSE z,
                             ![id].due = CalculateNextRun(e, zone, now)]
    /\ Spend("cron")
    /\ UNCHANGED <<now, tk, upd, sent, runs>>

\* update_cron_schedule with a timezone alone stores it unchecked and leaves
\* next_run_at as it is.
UpdateCronZone(id) ==
    /\ id \in Crons /\ row[id].st = "live" /\ May("cron")
    /\ \E z \in Zones \cup {BadZone} : row' = [row EXCEPT ![id].zone = z]
    /\ Spend("cron")
    /\ UNCHANGED <<now, tk, upd, sent, runs>>

\* update_heartbeat reads the row ...
UpdateBeatRead(id) ==
    /\ id \in Beats /\ row[id].st = "live" /\ ~upd[id].read
    /\ May("beat")
    /\ upd' = [upd EXCEPT ![id] = [read |-> TRUE, row |-> row[id]]]
    /\ Spend("beat")
    /\ UNCHANGED <<now, row, tk, sent, runs>>

\* ... and writes every column of it back.  The call may name a timing (a cron
\* expression or a timezone, perhaps the old one) or set the enabled flag, which
\* recomputes next_run_at, or neither.  A row deleted meanwhile is an error.
UpdateBeatWrite(id) ==
    /\ id \in Beats /\ upd[id].read
    /\ upd' = [upd EXCEPT ![id] = Unread]
    /\ \E e \in CronExprs, z \in Zones, on, timing \in BOOLEAN :
          LET old == upd[id].row
              recompute == timing \/ on # old.on
              new == [old EXCEPT !.expr = e, !.zone = z, !.on = on,
                                 !.due = IF recompute /\ on
                                         THEN CalculateNextRun(e, z, now) ELSE @]
          IN  /\ timing \/ <<e, z>> = <<old.expr, old.zone>>
              /\ row' = IF row[id].st = "live" THEN [row EXCEPT ![id] = new] ELSE row
    /\ UNCHANGED <<now, tk, sent, runs, spent>>

--------------------
(* The ticker. *)

\* Start evaluates at once, then waits for ticker.C.
Start(k) ==
    /\ tk[k].pc = "down" /\ k \in Budget.tickers
    /\ tk' = [tk EXCEPT ![k] = [Down EXCEPT !.pc = "query", !.at = now]]
    /\ UNCHANGED <<now, row, upd, sent, runs, spent>>

\* A kill, or SIGTERM: the context is cancelled, so the statement or request
\* in hand fails and nothing after it runs.
Crash(k) ==
    /\ tk[k].pc # "down" /\ May("crash")
    /\ tk' = [tk EXCEPT ![k] = Down]
    /\ Spend("crash")
    /\ UNCHANGED <<now, row, upd, sent, runs>>

Tick(k) ==
    /\ tk[k].pc = "idle" /\ tk[k].tick # NoSlot
    /\ tk' = [tk EXCEPT ![k].pc = "query", ![k].stage = "cron",
                        ![k].at = tk[k].tick, ![k].tick = NoSlot]
    /\ UNCHANGED <<now, row, upd, sent, runs, spent>>

Table(stage) ==
    CASE stage = "cron" -> Crons [] stage = "shot" -> Shots [] stage = "beat" -> Beats

\* GetDueCronSchedules, GetDueOneShotSchedules, GetDueHeartbeatSchedules.
DueRows(stage, t) ==
    {[id |-> id, slot |-> row[id].due, expr |-> row[id].expr, zone |-> row[id].zone] :
        id \in {i \in Table(stage) : row[i].st = "live" /\ row[i].on /\ row[i].due <= t}}

\* A failed query leaves the table for the next tick.
Query(k) ==
    /\ tk[k].pc = "query"
    /\ \/ /\ tk' = [tk EXCEPT ![k].pc = "loop", ![k].todo = DueRows(tk[k].stage, tk[k].at)]
          /\ UNCHANGED spent
       \/ /\ MayFault /\ Spend("fault")
          /\ tk' = [tk EXCEPT ![k].pc = "loop"]
    /\ UNCHANGED <<now, row, upd, sent, runs>>

IsScheduleStale(slot, t) == slot + MaxOverdue < t

\* ORDER BY next_run_at ASC.
Picks(k) == {x \in tk[k].todo : \A y \in tk[k].todo : x.slot <= y.slot}

Take(k, x, pc, status) ==
    tk' = [tk EXCEPT ![k].pc = pc, ![k].todo = @ \ {x},
                     ![k].cur = IF pc = "loop" THEN NoSlot ELSE x, ![k].status = status]

\* The UPDATE of advanceScheduleNextRun names the row only: not the occurrence
\* it was read for, nor whether it is still enabled.
AdvanceScheduleNextRun(k, x) ==
    row' = [row EXCEPT ![x.id].due = CalculateNextRun(x.expr, x.zone, tk[k].at)]

Stale(k, x) == IsScheduleStale(x.slot, tk[k].at)

\* Where the goroutine goes when its statement has found the row, and when not.
Claimed(k, x) == Take(k, x, IF Stale(k, x) THEN "save" ELSE "send",
                            IF Stale(k, x) THEN "stale" ELSE "none")
Skipped(k, x) == Take(k, x, "loop", "none")

\* Mutants: the UPDATE's row count is not looked at; its error is not; a stale
\* row is logged and left as it is.
RowCountIgnored(k, x) ==
    /\ x.id \in Recurring
    /\ AdvanceScheduleNextRun(k, x) /\ Claimed(k, x) /\ UNCHANGED spent

AdvanceErrorIgnored(k, x) ==
    /\ x.id \in Recurring
    /\ \/ /\ row[x.id].st = "live" /\ Claimed(k, x)
          /\ \/ AdvanceScheduleNextRun(k, x) /\ UNCHANGED spent
             \/ MayFault /\ Spend("fault") /\ UNCHANGED row
       \/ row[x.id].st # "live" /\ Skipped(k, x) /\ UNCHANGED <<row, spent>>

StaleStays(k, x) ==
    /\ x.id \in Recurring
    /\ Claimed(k, x) /\ UNCHANGED spent
    /\ IF Stale(k, x) THEN UNCHANGED row ELSE AdvanceScheduleNextRun(k, x)

\* processDueCron and processDueHeartbeat: a stale occurrence is logged whether
\* or not the UPDATE succeeds; any other is fired only once the row is advanced,
\* and is otherwise left for the next tick.
ProcessDueRecurring(k, x) ==
    /\ x.id \in Recurring
    /\ \/ /\ row[x.id].st = "live"
          /\ AdvanceScheduleNextRun(k, x) /\ Claimed(k, x) /\ UNCHANGED spent
       \/ /\ \/ row[x.id].st # "live" /\ UNCHANGED spent
             \/ MayFault /\ Spend("fault")
          /\ UNCHANGED row
          /\ IF Stale(k, x) THEN Claimed(k, x) ELSE Skipped(k, x)

\* Mutants: whoever has read the row fires it; the row is not deleted.
DeleteCountIgnored(k, x) ==
    /\ x.id \in Shots
    /\ row' = [row EXCEPT ![x.id].st = "fired"] /\ Claimed(k, x) /\ UNCHANGED spent

ShotLeftBehind(k, x) ==
    /\ x.id \in Shots /\ row[x.id].st = "live"
    /\ Claimed(k, x) /\ UNCHANGED <<row, spent>>

\* The DELETE is the claim: who deletes the row, and nobody else, fires it.
ProcessDueOneShot(k, x) ==
    /\ x.id \in Shots
    /\ \/ /\ row[x.id].st = "live"
          /\ row' = [row EXCEPT ![x.id].st = "fired"] /\ Claimed(k, x) /\ UNCHANGED spent
       \/ /\ \/ row[x.id].st # "live" /\ UNCHANGED spent
             \/ MayFault /\ Spend("fault")
          /\ UNCHANGED row
          /\ Skipped(k, x)

Process(k) ==
    /\ tk[k].pc = "loop"
    /\ \E x \in Picks(k) : ProcessDueRecurring(k, x) \/ ProcessDueOneShot(k, x)
    /\ UNCHANGED <<now, upd, sent, runs>>

\* What the answer of eri makes of the row in hand.
Logs(k, status) == tk' = [tk EXCEPT ![k].pc = "save", ![k].status = status]
LetsGo(k) == tk' = [tk EXCEPT ![k].pc = "loop", ![k].cur = NoSlot, ![k].status = "none"]
Accepted(k) == sent' = [sent EXCEPT ![tk[k].cur.id] = Append(@, tk[k].cur.slot)]

\* Mutants: an error of the dispatch is logged as a success, or not at all.
SendErrorIgnored(k) ==
    /\ tk[k].pc = "send"
    /\ Logs(k, "completed") /\ (Accepted(k) \/ UNCHANGED sent)
    /\ UNCHANGED <<now, row, upd, runs, spent>>

SendErrorUnlogged(k) ==
    /\ tk[k].pc = "send"
    /\ \/ Accepted(k) /\ Logs(k, "completed")
       \/ UNCHANGED sent /\ LetsGo(k)
    /\ UNCHANGED <<now, row, upd, runs, spent>>

\* DispatchPrompt and Dispatch: eri accepts or refuses; an accepted request
\* whose answer is lost is an error too.  A heartbeat whose session has a turn
\* in progress is skipped and not logged.
Send(k) ==
    /\ tk[k].pc = "send"
    /\ \/ Accepted(k) /\ (Logs(k, "completed") \/ Logs(k, "failed"))
       \/ UNCHANGED sent /\ Logs(k, "failed")
       \/ tk[k].cur.id \in Beats /\ UNCHANGED sent /\ LetsGo(k)
    /\ UNCHANGED <<now, row, upd, runs, spent>>

\* Mutant: the row stays in hand.
SaveKeepsRow(k) ==
    /\ tk[k].pc = "save" /\ tk' = [tk EXCEPT ![k].pc = "loop"]
    /\ UNCHANGED <<now, row, upd, sent, runs, spent>>

\* CreateScheduleRun; its error is only reported.
Save(k) ==
    /\ tk[k].pc = "save" /\ LetsGo(k)
    /\ \/ /\ runs' = runs \cup {[id |-> tk[k].cur.id, slot |-> tk[k].cur.slot,
                                 status |-> tk[k].status, at |-> tk[k].at]}
          /\ UNCHANGED spent
       \/ MayFault /\ Spend("fault") /\ UNCHANGED runs
    /\ UNCHANGED <<now, row, upd, sent>>

NextStage(k) ==
    /\ tk[k].pc = "loop" /\ tk[k].todo = {} /\ tk[k].stage # "beat"
    /\ tk' = [tk EXCEPT ![k].pc = "query",
                        ![k].stage = IF @ = "cron" THEN "shot" ELSE "beat"]
    /\ UNCHANGED <<now, row, upd, sent, runs, spent>>

ShouldPruneRuns(k) ==
    tk[k].lastPrune = NoSlot \/ tk[k].lastPrune + MaxOverdue <= tk[k].at

\* What the DELETE keeps: the newest MaxRuns rows that are not too old.
Kept(t) ==
    {S \in SUBSET {r \in runs : r.at + Retention >= t} :
        /\ Cardinality(S) <= MaxRuns
        /\ \A r \in runs \ S : r.at + Retention < t \/ Cardinality(S) = MaxRuns
        /\ \A r \in S, q \in runs \ S : q.at <= r.at}

\* The end of EvaluateDueSchedules: the runs are pruned once a day.
EndTick(k) ==
    /\ tk[k].pc = "loop" /\ tk[k].todo = {} /\ tk[k].stage = "beat"
    /\ IF ShouldPruneRuns(k)
       THEN /\ tk' = [tk EXCEPT ![k].pc = "idle", ![k].lastPrune = tk[k].at]
            /\ \/ runs' \in Kept(tk[k].at) /\ UNCHANGED spent
               \/ MayFault /\ Spend("fault") /\ UNCHANGED runs
       ELSE /\ tk' = [tk EXCEPT ![k].pc = "idle"]
            /\ UNCHANGED <<runs, spent>>
    /\ UNCHANGED <<now, row, upd, sent>>

--------------------
EvaluateDueSchedules(k) ==
    Query(k) \/ Process(k) \/ Send(k) \/ Save(k) \/ NextStage(k) \/ EndTick(k)

Tools(id) ==
    \/ ScheduleRecurring(id) \/ ScheduleOnce(id) \/ CancelSchedule(id)
    \/ UpdateCronExpr(id) \/ UpdateCronZone(id)
    \/ UpdateBeatRead(id) \/ UpdateBeatWrite(id)

Next ==
    \/ Clock
    \/ \E id \in Ids : Tools(id)
    \/ \E k \in Tickers : Start(k) \/ Crash(k) \/ Tick(k) \/ EvaluateDueSchedules(k)

Spec == Init /\ [][Next]_vars

\* Time passes, the supervisor restarts a process, and a goroutine that can run
\* does; the users and the faults owe nothing.
Fairness ==
    /\ WF_vars(Clock)
    /\ \A k \in Tickers :
          WF_vars(Start(k)) /\ WF_vars(Tick(k)) /\ WF_vars(EvaluateDueSchedules(k))

FairSpec == Spec /\ Fairness

--------------------
Row == [st : {"new", "live", "fired", "cancelled"}, on : BOOLEAN, due : Nat, expr : CronExprs,
        zone : Zones \cup {BadZone}]
Ticker == [pc : {"down", "idle", "query", "loop", "send", "save"}, at : Times,
           tick : Times \cup {NoSlot}, stage : {"cron", "shot", "beat"},
           todo : SUBSET Slot, cur : Slot \cup {NoSlot},
           status : {"none", "stale", "failed", "completed"},
           lastPrune : Times \cup {NoSlot}]

\* A ticker that sends or logs has a row in hand, one that waits has none, and
\* every row it holds is of the table it is evaluating.
Held(r) ==
    /\ r.pc \in {"send", "save"} <=> r.cur # NoSlot
    /\ r.pc \in {"down", "idle", "query"} => r.todo = {}
    /\ \A x \in r.todo : x.id \in Table(r.stage)
    /\ r.cur # NoSlot => r.cur.id \in Table(r.stage)

InHand == \A k \in Tickers : Held(tk[k])

\* Every column, goroutine and log entry has its type, and the tickers hold only
\* rows of the table they evaluate (EvaluateDueSchedules).
TypeOK ==
    /\ now \in Times
    /\ row \in [Ids -> Row]
    /\ tk \in [Tickers -> Ticker]
    /\ upd \in [Beats -> {Unread} \cup [read : {TRUE}, row : Row]]
    /\ sent \in [Ids -> Seq(Nat)]
    /\ runs \subseteq [id : Ids, slot : Nat, status : {"none", "stale", "failed", "completed"},
                       at : Times]
    /\ spent \in [{"budget", "fault", "crash", "cron", "beat"} -> Nat]
    /\ InHand

\* Ticker k has claimed id and is about to dispatch it.
Committed(k, id) == tk[k].pc = "send" /\ tk[k].cur.id = id

\* A one-shot reminder reaches eri at most once, whatever the tickers that see
\* it due together, their crashes and failed statements (processDueOneShot).
OneShotOnce == \A id \in Shots : Len(sent[id]) <= 1

\* What was sent of a recurring schedule is in order and has no occurrence twice.
InOrder ==
    \A id \in Recurring : \A i, j \in 1 .. Len(sent[id]) :
        i < j => sent[id][i] < sent[id][j]

\* A single ticker fires each occurrence of a recurring schedule at most once and never
\* goes back to an earlier one, until update_heartbeat writes a row back that it has
\* read before (processDueCron, processDueHeartbeat).
OncePerOccurrence == spent["beat"] = 0 => InOrder

\* A schedule that is cancelled, or fired by another ticker, while it waits in a
\* ticker's result set is not dispatched by it any more (the row count of the
\* statement, ticker.go).
CancelledStaysSilent ==
    [][\A k \in Tickers, id \in Ids :
          row[id].st \in {"fired", "cancelled"} /\ ~Committed(k, id) => ~Committed(k, id)']_vars

\* The log never calls an occurrence completed that eri has not run, nor skipped as
\* stale one that it has, until update_heartbeat writes an old next_run_at back
\* (processDueCron, processDueOneShot).
LogIsTruthful ==
    \A r \in runs :
        LET fired == \E i \in 1 .. Len(sent[r.id]) : sent[r.id][i] = r.slot IN
        /\ r.status = "completed" => fired
        /\ r.status = "stale" => ~fired \/ spent["beat"] > 0

\* next_run_at is an occurrence of the schedule's own expression in its own
\* timezone (update_cron_schedule, advanceScheduleNextRun).
OnSchedule ==
    \A id \in Crons :
        row[id].st = "live" /\ row[id].zone # BadZone /\ row[id].due \in 1 .. MaxTime =>
            NextRun(row[id].expr, row[id].zone, row[id].due - 1) = row[id].due

Due(id) == row[id].st = "live" /\ row[id].on /\ row[id].due <= now

\* A due row does not stay due: some tick advances or deletes it, whatever
\* queries fail and processes crash (EvaluateDueSchedules).
DueIsHandled == \A id \in Ids : Due(id) ~> ~Due(id)

\* An occurrence of a cron schedule that comes due is accepted by eri or accounted for in
\* the log, unless its schedule is cancelled or updated, a process crashes or an SQL
\* statement fails (processDueCron).
DueIsAnswered ==
    \A id \in Crons, s \in Times :
        (Due(id) /\ row[id].due = s) ~>
            \/ \E i \in 1 .. Len(sent[id]) : sent[id][i] = s
            \/ \E r \in runs : r.id = id /\ r.slot = s
            \/ row[id].st = "cancelled"
            \/ spent["fault"] + spent["crash"] + spent["cron"] > 0
====================
