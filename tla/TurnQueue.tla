----------- MODULE TurnQueue -----------
(* One eri process and its Postgres rows: the worker pool of pkg/queue. *)
(* Handlers insert a row and enqueue a copy of it; one worker per scope *)
(* pops copies, drains a burst, claims the rows and runs a turn; operators *)
(* interrupt a thread; the process stops, crashes, starts again and *)
(* recovers what it finds in the table. *)
(*  *)
(* The rows are durable; everything else dies with the process.  A copy in *)
(* memory is not the row: it carries the retry count it was read with, and *)
(* the row may have moved on since.  How a copy reaches its scope's worker *)
(* (bounded channel, blocked senders, pruning of idle workers) is *)
(* ScopeWorkers; here the channel is an unbounded sequence. *)
EXTENDS MessageRows, Integers, Sequences, FiniteSets

CONSTANTS
    Msgs, Disps,         \* Discord or HTTP messages; headless dispatches
    Scopes, Threads,
    ScopeOf,             \* item -> scope key (resolveScopeKey, dispatch session)
    ThreadOf,            \* scope -> Discord thread it belongs to
    Mode,                \* thread -> policy mode
    ApiKey,              \* an API key is configured: no quota lockout
    MaxAttempts,         \* WorkerPoolConfig.MaxAttempts
    MaxHardRestarts, DefaultMaxRestarts,
    BurstMax,            \* messages per burst (5 in the code)
    MaxResumes           \* MaxYieldTrapAutoResumes

\* Bounds of the model, not of the code.
CONSTANT Budgets         \* which items may arrive together with how many stops, crashes,
                         \* operator commands, SQL faults and resubmissions

Items == Msgs \cup Disps

ASSUME ItemsAssumption == Msgs \cap Disps = {}
ASSUME ScopeAssumption ==
    /\ Threads # {}
    /\ ScopeOf \in [Items -> Scopes]
    /\ ThreadOf \in [Scopes -> Threads]
    /\ Mode \in [Threads -> {"thread", "channel", "ignored"}]
    /\ ApiKey \in BOOLEAN
ASSUME LimitAssumption ==
    /\ MaxAttempts \in Nat \ {0} /\ MaxResumes \in Nat /\ BurstMax \in Nat \ {0}
    /\ MaxHardRestarts \in Nat /\ DefaultMaxRestarts \in Nat
ASSUME BudgetAssumption ==
    Budgets \subseteq [items : SUBSET Items, stops : Nat, crashes : Nat,
                       irqs : Nat, faults : Nat, resubs : Nat]

VARIABLES
    row,         \* the table
    arrived,     \* items in created_at order
    phase,       \* of the process: down, held (no leader lock yet), live, stopping
    rec,         \* RecoverInterrupted: [pc, todo, ready, seen]
    ingest,      \* inserted by a handler that has not called Enqueue yet
    ch,          \* scope -> queued copies
    held,        \* scope -> the dispatch a burst drain ran into
    timers,      \* copies waiting in a time.AfterFunc
    turn,        \* scope -> the turn of its worker
    quotaLocked, \* quotaLockedUntil is in the future
    irq,         \* the operator command under way: [pc, thread, drain, ids, turns,
                 \* chans, back]
    delivered,   \* ghost: item -> answers delivered
    hit,         \* ghost: items a failed SQL statement left behind
    shed,        \* ghost: trailing items an interrupted triage let go of
    spent        \* ghost: the budget of this behaviour and what is used of it

vars == <<row, arrived, phase, rec, ingest, ch, held, timers, turn,
          quotaLocked, irq, delivered, hit, shed, spent>>

--------------------
Copies == [id : Items, retry : Nat, wake : BOOLEAN]

Copy(i, r) == [id |-> i, retry |-> r, wake |-> FALSE]

Ids(q) == {q[k].id : k \in DOMAIN q}

Outcomes == {"ok", "yield", "quota", "blip", "watchdog", "transient", "fatal"}

TurnPCs == {"idle", "popped", "drained", "claim", "dclaim", "policy", "triage",
            "lead", "lease", "hook", "defer", "run", "exec", "eval", "backoff",
            "final", "trail", "trailing", "end"}

Turns == [pc : TurnPCs, burst : Seq(Copies), todo : Seq(Copies),
          got : Seq(Copies), trail : Seq(Copies), intr : BOOLEAN,
          cancelled : BOOLEAN, attempt : Nat, yields : Nat,
          res : Outcomes \cup {"none"}, target : Terminal,
          quota : BOOLEAN, panicked : BOOLEAN]

IdleTurn == [pc |-> "idle", burst |-> <<>>, todo |-> <<>>, got |-> <<>>,
             trail |-> <<>>, intr |-> FALSE, cancelled |-> FALSE,
             attempt |-> 0, yields |-> 0, res |-> "none", target |-> Failed,
             quota |-> FALSE, panicked |-> FALSE]

NoRec == [pc |-> "idle", todo |-> {}, ready |-> {},
          seen |-> [i \in Items |-> NoRow]]

NoIrq(t) == [pc |-> "idle", thread |-> t, drain |-> FALSE, ids |-> {},
             turns |-> {}, chans |-> {}, back |-> <<>>]

SomeThread == CHOOSE t \in Threads : TRUE

\* The turn is in activeTurns.
Registered(s) == turn[s].pc \notin {"idle", "popped", "drained", "dclaim"}

\* p.mu: an interrupt holds it between latching the turns and the end of its drain.
MuFree == irq.pc \notin {"snap", "chans"}

Stopping == phase = "stopping"

IsDispatch(s) == turn[s].burst # <<>> /\ turn[s].burst[1].id \in Disps

\* Enqueue and EnqueueDispatch: a stopped or held pool drops the copy, the row stays.
Enqueued(c) ==
    IF phase = "live" THEN [ch EXCEPT ![ScopeOf[c.id]] = Append(@, c)] ELSE ch

\* What the budget of this behaviour still allows.
MaySpend(k) == spent[k] < spent.budget[k]
MaySubmit(i) == i \in spent.budget.items

\* One SQL statement that sets a status.  An error is logged and nothing else.
SetStatus(i, st) ==
    \/ /\ row' = UpdateMessageStatus(row, i, st)
       /\ UNCHANGED <<hit, spent>>
    \/ /\ MaySpend("faults")
       /\ spent' = [spent EXCEPT !.faults = @ + 1]
       /\ hit' = hit \cup {i}
       /\ UNCHANGED row

queueVars == <<arrived, rec, ingest, timers, irq, phase>>
storeVars == <<row, hit, spent>>

Init ==
    /\ row = [i \in Items |-> NoRow]
    /\ arrived = <<>>
    /\ phase = "down"
    /\ rec = NoRec
    /\ ingest = {}
    /\ ch = [s \in Scopes |-> <<>>]
    /\ held = [s \in Scopes |-> <<>>]
    /\ timers = <<>>
    /\ turn = [s \in Scopes |-> IdleTurn]
    /\ quotaLocked = FALSE
    /\ irq = NoIrq(SomeThread)
    /\ delivered = [i \in Items |-> 0]
    /\ hit = {}
    /\ shed = {}
    /\ \E b \in Budgets :
         spent = [budget |-> b, stops |-> 0, crashes |-> 0, irqs |-> 0, faults |-> 0,
                  resubs |-> 0]

--------------------
(* Intake *)

\* A handler persists the item before anything else.  A caller that repeats a
\* message_id inserts nothing and is enqueued all the same.
Submit(i) ==
    /\ phase # "down"
    /\ \/ row[i].st = Absent /\ MaySubmit(i) /\ UNCHANGED spent
       \/ /\ row[i].st # Absent /\ MaySpend("resubs")
          /\ spent' = [spent EXCEPT !.resubs = @ + 1]
    /\ row' = InsertMessage(row, i)
    /\ arrived' = IF row[i].st = Absent THEN Append(arrived, i) ELSE arrived
    /\ ingest' = ingest \cup {i}
    /\ UNCHANGED <<phase, rec, ch, held, timers, turn, quotaLocked, irq,
                   delivered, hit, shed>>

HandlerEnqueue(i) ==
    /\ MuFree /\ i \in ingest
    /\ ingest' = ingest \ {i}
    /\ ch' = Enqueued(Copy(i, 0))
    /\ UNCHANGED <<row, arrived, phase, rec, held, timers, turn, quotaLocked,
                   irq, delivered, hit, shed, spent>>

TimerFires(k) ==
    /\ MuFree
    /\ timers' = SubSeq(timers, 1, k - 1) \o SubSeq(timers, k + 1, Len(timers))
    /\ ch' = Enqueued(timers[k])
    /\ UNCHANGED <<row, arrived, phase, rec, ingest, held, turn, quotaLocked,
                   irq, delivered, hit, shed, spent>>

--------------------
(* Life of the process *)

LoseMemory ==
    /\ rec' = NoRec
    /\ ingest' = {}
    /\ ch' = [s \in Scopes |-> <<>>]
    /\ held' = [s \in Scopes |-> <<>>]
    /\ timers' = <<>>
    /\ turn' = [s \in Scopes |-> IdleTurn]
    /\ quotaLocked' = FALSE
    /\ irq' = NoIrq(SomeThread)

Start ==
    /\ phase = "down"
    /\ phase' = "held"
    /\ UNCHANGED <<row, arrived, rec, ingest, ch, held, timers, turn,
                   quotaLocked, irq, delivered, hit, shed, spent>>

\* SIGTERM: the leader hand-off is awaited first, then stopped and p.cancel().
Stop ==
    /\ MuFree /\ phase \in {"held", "live"} /\ rec.pc = "idle"
    /\ MaySpend("stops")
    /\ spent' = [spent EXCEPT !.stops = @ + 1]
    /\ phase' = "stopping"
    /\ UNCHANGED <<row, arrived, rec, ingest, ch, held, timers, turn,
                   quotaLocked, irq, delivered, hit, shed>>

\* Stop waits two seconds for the workers, then the process ends wherever they are.
Exit ==
    /\ Stopping
    /\ phase' = "down"
    /\ LoseMemory
    /\ UNCHANGED <<row, arrived, delivered, hit, shed, spent>>

Crash ==
    /\ phase # "down"
    /\ MaySpend("crashes")
    /\ spent' = [spent EXCEPT !.crashes = @ + 1]
    /\ phase' = "down"
    /\ LoseMemory
    /\ UNCHANGED <<row, arrived, delivered, hit, shed>>

--------------------
(* RecoverInterrupted, run once the leader lock is held: the two tables one after the *)
(* other, then the rows that arrived while the pool was held, then the enqueues. *)

Before(i, j) ==
    \E k, l \in DOMAIN arrived : k < l /\ arrived[k] = i /\ arrived[l] = j

\* ORDER BY created_at, and messages before dispatches.
Leads(i, S) ==
    \A j \in S \ {i} : IF (i \in Msgs) = (j \in Msgs) THEN Before(i, j) ELSE i \in Msgs

LiveRows == {i \in Items : row[i].st \in Live}

\* A failing query drops its table from the recovery.
RecoverQuery(kind, from, to) ==
    /\ phase = "held" /\ rec.pc = from /\ rec.todo = {}
    /\ \/ /\ rec' = [rec EXCEPT !.pc = to, !.todo = LiveRows \cap kind, !.seen = row]
          /\ UNCHANGED <<hit, spent>>
       \/ /\ MaySpend("faults")
          /\ spent' = [spent EXCEPT !.faults = @ + 1]
          /\ hit' = hit \cup (LiveRows \cap kind)
          /\ rec' = [rec EXCEPT !.pc = to]
    /\ UNCHANGED <<row, arrived, phase, ingest, ch, held, timers, turn,
                   quotaLocked, irq, delivered, shed>>

\* Seeded fault: > for >=.
IsPoisonLate(r, instant) ==
    /\ r.st = Processing
    /\ \/ r.restart > MaxHardRestarts
       \/ r.restart > DefaultMaxRestarts /\ instant
       \/ r.retry >= MaxAttempts

\* evaluatePoisonPill on the row as it was read; instant: updated less than
\* CrashLoopVelocityThreshold ago.
IsPoison(r, instant) ==
    /\ r.st = Processing
    /\ \/ r.restart >= MaxHardRestarts
       \/ r.restart >= DefaultMaxRestarts /\ instant
       \/ r.retry >= MaxAttempts

\* One row of prepareInterruptedMessages or prepareInterruptedDispatches.
RecoverRow ==
    /\ rec.pc \in {"msgs", "disps"}
    /\ \E i \in rec.todo :
       LET r == rec.seen[i]
           drop == [rec EXCEPT !.todo = @ \ {i}, !.seen[i] = NoRow]
           keep == [drop EXCEPT !.ready = @ \cup {Copy(i, r.retry)}]
       IN /\ Leads(i, rec.todo)
          /\ \/ /\ r.st = Pending
                /\ rec' = keep
                /\ UNCHANGED storeVars
             \/ \E instant \in BOOLEAN :
                  /\ IsPoison(r, instant)
                  /\ rec' = drop
                  /\ SetStatus(i, Failed)
             \/ /\ r.st = Processing
                /\ \E instant \in BOOLEAN : ~IsPoison(r, instant)
                /\ rec' = keep
                /\ \/ /\ row' = ResetMessageToPendingWithRestart(row, i)
                      /\ UNCHANGED <<hit, spent>>
                   \/ /\ MaySpend("faults")
                      /\ spent' = [spent EXCEPT !.faults = @ + 1]
                      /\ hit' = hit \cup {i}
                      /\ UNCHANGED row
    /\ UNCHANGED <<arrived, phase, ingest, ch, held, timers, turn, quotaLocked,
                   irq, delivered, shed>>

ReleaseLeaderHold ==
    /\ MuFree /\ rec.pc = "disps" /\ rec.todo = {}
    /\ phase' = "live"
    /\ rec' = [rec EXCEPT !.pc = "merge", !.seen = NoRec.seen]
    /\ UNCHANGED <<row, arrived, ingest, ch, held, timers, turn, quotaLocked,
                   irq, delivered, hit, shed, spent>>

\* Seeded fault: the hold is released without a second look at the table.
MergeNothing(kind, from, to) ==
    /\ rec.pc = from
    /\ rec' = [rec EXCEPT !.pc = to]
    /\ UNCHANGED <<row, arrived, phase, ingest, ch, held, timers, turn,
                   quotaLocked, irq, delivered, hit, shed, spent>>

\* mergeHeldPendingEntries: rows that arrived while the pool was held.
MergeHeldPendingEntries(kind, from, to) ==
    /\ rec.pc = from
    /\ LET extra == {i \in kind : row[i].st = Pending} \ {c.id : c \in rec.ready}
       IN \/ /\ rec' = [rec EXCEPT !.pc = to,
                          !.ready = @ \cup {Copy(i, row[i].retry) : i \in extra}]
             /\ UNCHANGED <<hit, spent>>
          \/ /\ MaySpend("faults")
             /\ spent' = [spent EXCEPT !.faults = @ + 1]
             /\ hit' = hit \cup extra
             /\ rec' = [rec EXCEPT !.pc = to]
    /\ UNCHANGED <<row, arrived, phase, ingest, ch, held, timers, turn,
                   quotaLocked, irq, delivered, shed>>

RecoverEnqueue ==
    /\ MuFree /\ rec.pc = "enqueue"
    /\ \/ rec.ready = {} /\ rec' = NoRec /\ UNCHANGED ch
       \/ \E c \in rec.ready :
            /\ Leads(c.id, {d.id : d \in rec.ready})
            /\ rec' = [rec EXCEPT !.ready = @ \ {c}]
            /\ ch' = Enqueued(c)
    /\ UNCHANGED <<row, arrived, phase, ingest, held, timers, turn, quotaLocked,
                   irq, delivered, hit, shed, spent>>

--------------------
(* A worker up to its claim *)

turnOnly == <<row, arrived, phase, rec, ingest, timers, quotaLocked, irq,
              delivered, hit, shed, spent>>

\* The turn of s becomes the record u.
Becomes(s, u) == turn' = [turn EXCEPT ![s] = u]

Goto(s, pc) == [turn[s] EXCEPT !.pc = pc]

\* Settle the burst: finalizeBurstMessages, one statement per row.
Settling(s, st) ==
    [turn[s] EXCEPT !.pc = "final", !.todo = turn[s].burst, !.target = st,
                 !.attempt = 0, !.yields = 0, !.res = "none"]

\* The turn is left without settling its rows, or has settled them: deferred calls next.
Leaving(s) ==
    [turn[s] EXCEPT !.pc = "trail", !.todo = <<>>,
                 !.attempt = 0, !.yields = 0, !.res = "none"]

\* The last call of a loop over todo goes on to the next state of the turn.
Popped(s, next) ==
    IF Len(turn[s].todo) > 1 THEN [turn[s] EXCEPT !.todo = Tail(@)] ELSE next

\* waitForNextQueueItem; a held dispatch goes first.  When the context is done the
\* select may still pick the channel: the turn then returns before its claim.
Pop(s) ==
    /\ phase \in {"live", "stopping"} /\ turn[s].pc = "idle"
    /\ \/ /\ held[s] # <<>>
          /\ held' = [held EXCEPT ![s] = <<>>]
          /\ Becomes(s, [turn[s] EXCEPT !.pc = "popped", !.burst = held[s]])
          /\ UNCHANGED ch
       \/ /\ held[s] = <<>> /\ ch[s] # <<>>
          /\ ch' = [ch EXCEPT ![s] = Tail(@)]
          /\ Becomes(s, [turn[s] EXCEPT !.pc = "popped", !.burst = <<Head(ch[s])>>])
          /\ UNCHANGED held
    /\ UNCHANGED turnOnly

\* A drain takes the n messages at the head of the queue q: up to BurstMax with the one
\* that was popped, and none behind a dispatch.
BurstEndsAt(q, n) ==
    /\ n < BurstMax
    /\ \A k \in 1..n : q[k].id \in Msgs
    /\ n < Len(q) /\ n < BurstMax - 1 => q[n + 1].id \in Disps

\* executeWorkerBurst and executeWorkerDispatch, under p.mu.  A dispatch the drain runs
\* into is taken out of the channel and held.
DrainBurstMessages(s) ==
    /\ MuFree /\ turn[s].pc = "popped"
    /\ \/ IsDispatch(s) /\ Becomes(s, Goto(s, "dclaim")) /\ UNCHANGED <<ch, held>>
       \/ \E n \in 0..Len(ch[s]) :
            LET q == ch[s]
                onto == IF n < BurstMax - 1 /\ n < Len(q) THEN <<q[n + 1]>> ELSE <<>>
            IN /\ ~IsDispatch(s) /\ BurstEndsAt(q, n)
               /\ Becomes(s, [turn[s] EXCEPT !.pc = "drained",
                                       !.burst = @ \o SubSeq(q, 1, n)])
               /\ held' = [held EXCEPT ![s] = onto]
               /\ ch' = [ch EXCEPT ![s] = SubSeq(q, n + Len(onto) + 1, Len(q))]
    /\ UNCHANGED turnOnly

\* processBurst up to registerActiveTurn.
BeginTurn(s) ==
    /\ MuFree /\ turn[s].pc = "drained"
    /\ Becomes(s, IF Stopping THEN IdleTurn
               ELSE [turn[s] EXCEPT !.pc = "claim", !.todo = turn[s].burst])
    /\ UNCHANGED <<ch, held>> /\ UNCHANGED turnOnly

\* claimAndFilterStale: the burst becomes what was claimed.
AfterClaim(s, claimed) ==
    IF claimed = <<>> THEN Leaving(s)
    ELSE [turn[s] EXCEPT !.pc = "policy", !.burst = claimed, !.got = <<>>,
                      !.todo = <<>>]

\* ClaimPendingMessage for one message; pool.ctx is its context, so that a stopped
\* pool claims nothing.
ClaimMessage(s) ==
    /\ turn[s].pc = "claim"
    /\ LET c == Head(turn[s].todo)
           skip == Popped(s, AfterClaim(s, turn[s].got))
       IN \/ /\ Stopping \/ ~Claimable(row, c.id)
             /\ Becomes(s, skip)
             /\ UNCHANGED storeVars
          \/ /\ ~Stopping /\ Claimable(row, c.id)
             /\ row' = ClaimPendingMessage(row, c.id)
             /\ Becomes(s, IF Len(turn[s].todo) > 1
                        THEN [turn[s] EXCEPT !.todo = Tail(@), !.got = Append(@, c)]
                        ELSE AfterClaim(s, Append(turn[s].got, c)))
             /\ UNCHANGED <<hit, spent>>
          \/ /\ MaySpend("faults")
             /\ spent' = [spent EXCEPT !.faults = @ + 1]
             /\ hit' = hit \cup {c.id}
             /\ Becomes(s, skip)
             /\ UNCHANGED row
    /\ UNCHANGED <<ch, held, quotaLocked, delivered, shed>> /\ UNCHANGED queueVars

\* processDispatch up to registerActiveTurn: the claim comes first.
ClaimDispatch(s) ==
    /\ MuFree /\ turn[s].pc = "dclaim"
    /\ LET i == turn[s].burst[1].id IN
          \/ /\ Stopping \/ ~Claimable(row, i)
             /\ Becomes(s, IdleTurn)
             /\ UNCHANGED storeVars
          \/ /\ ~Stopping /\ Claimable(row, i)
             /\ row' = ClaimPendingMessage(row, i)
             /\ Becomes(s, Goto(s, "lease"))
             /\ UNCHANGED <<hit, spent>>
          \/ /\ MaySpend("faults")
             /\ spent' = [spent EXCEPT !.faults = @ + 1]
             /\ hit' = hit \cup {i}
             /\ Becomes(s, IdleTurn)
             /\ UNCHANGED row
    /\ UNCHANGED <<ch, held, quotaLocked, delivered, shed>> /\ UNCHANGED queueVars

--------------------
(* From the claim to the first attempt *)

ResolveTurnPolicy(s) ==
    /\ turn[s].pc = "policy"
    /\ Becomes(s, IF Mode[ThreadOf[s]] = "ignored" THEN Settling(s, Completed)
                  ELSE Goto(s, IF Mode[ThreadOf[s]] = "channel" THEN "triage" ELSE "lease"))
    /\ UNCHANGED <<ch, held>> /\ UNCHANGED turnOnly

\* The plan of a burst: the active message b[k] and the trailing ones, marked when they
\* wake the agent too.
FromActive(b, k, wakes) ==
    [j \in 1..(Len(b) - k + 1) |-> [b[k + j - 1] EXCEPT !.wake = k + j - 1 \in wakes]]

\* runChannelAmbientTriage: which message wakes the agent is BurstPlan's subject and
\* any choice here.
AmbientTriage(s) ==
    /\ turn[s].pc = "triage"
    /\ LET b == turn[s].burst IN
       \/ Becomes(s, IF Stopping THEN Leaving(s) ELSE Settling(s, Completed))
       \/ \E k \in DOMAIN b : \E wakes \in SUBSET (k + 1 .. Len(b)) :
            Becomes(s, [turn[s] EXCEPT !.pc = "lead", !.todo = SubSeq(b, 1, k - 1),
                                       !.got = FromActive(b, k, wakes)])
    /\ UNCHANGED <<ch, held>> /\ UNCHANGED turnOnly

CompleteLeadingAmbient(s) ==
    /\ turn[s].pc = "lead" /\ turn[s].todo # <<>>
    /\ SetStatus(Head(turn[s].todo).id, Completed)
    /\ Becomes(s, [turn[s] EXCEPT !.todo = Tail(@)])
    /\ UNCHANGED <<ch, held, quotaLocked, delivered, shed>> /\ UNCHANGED queueVars

\* The critical section of the triage: an interrupted turn keeps no trailing messages.
NarrowBurst(s) ==
    /\ turn[s].pc = "lead" /\ turn[s].todo = <<>>
    /\ LET g == turn[s].got IN
       /\ Becomes(s, [turn[s] EXCEPT !.pc = "lease", !.burst = <<Head(g)>>,
                               !.got = <<>>,
                               !.trail = IF turn[s].intr THEN <<>> ELSE Tail(g)])
       /\ shed' = IF turn[s].intr THEN shed \cup Ids(Tail(g)) ELSE shed
    /\ UNCHANGED <<row, hit, spent, ch, held, quotaLocked, delivered>>
    /\ UNCHANGED queueVars

\* acquirePoolAndLease: the lease fails when its 65 seconds pass and when the turn's
\* context is cancelled, by an interrupt or by the shutdown.  The attempts start after
\* the highest retry count of the copies (maxBurstRetryCount).
AcquirePoolAndLease(s) ==
    /\ turn[s].pc = "lease"
    /\ \/ Becomes(s, Settling(s, Failed))
       \/ \E k \in DOMAIN turn[s].burst :
            LET b == turn[s].burst IN
            /\ ~turn[s].intr
            /\ \A j \in DOMAIN b : b[j].retry <= b[k].retry
            /\ Becomes(s, [turn[s] EXCEPT !.pc = IF IsDispatch(s) THEN "run" ELSE "hook",
                                    !.attempt = b[k].retry + 1])
    /\ UNCHANGED <<ch, held>> /\ UNCHANGED turnOnly

\* runPreTurnHook: allow, drop or retry, by its answer or by on_timeout when it fails.
RunPreTurnHook(s) ==
    /\ turn[s].pc = "hook"
    /\ \/ Becomes(s, Goto(s, "run"))
       \/ Becomes(s, Settling(s, Completed))
       \/ Becomes(s, [turn[s] EXCEPT !.pc = "defer", !.todo = turn[s].burst])
    /\ UNCHANGED <<ch, held>> /\ UNCHANGED turnOnly

\* rescheduleBurst, one message: the retry budget is checked on the copy.
RescheduleMessage(s) ==
    /\ turn[s].pc = "defer"
    /\ LET c == Head(turn[s].todo) IN
       IF c.retry + 1 >= MaxAttempts
       THEN SetStatus(c.id, Failed) /\ UNCHANGED timers
       ELSE /\ timers' = Append(timers, Copy(c.id, c.retry + 1))
            /\ \/ /\ row' = UpdateMessageStatus(IncrementMessageRetry(row, {c.id}), c.id, Pending)
                  /\ UNCHANGED <<hit, spent>>
               \/ /\ MaySpend("faults")
                  /\ spent' = [spent EXCEPT !.faults = @ + 1]
                  /\ hit' = hit \cup {c.id}
                  /\ row' = IncrementMessageRetry(row, {c.id})
    /\ Becomes(s, Popped(s, Leaving(s)))
    /\ UNCHANGED <<ch, held, quotaLocked, delivered, shed, arrived, phase, rec, ingest, irq>>

--------------------
(* executeWithRetries *)

StartAttempt(s) ==
    /\ turn[s].pc = "run"
    /\ Becomes(s, IF turn[s].attempt > MaxAttempts
                  THEN IF Stopping THEN Leaving(s) ELSE Settling(s, Failed)
                  ELSE IF turn[s].intr THEN Settling(s, Failed)
                  ELSE IF quotaLocked /\ ~ApiKey
                  THEN [Settling(s, Failed) EXCEPT !.quota = TRUE]
                  ELSE Goto(s, "exec"))
    /\ UNCHANGED <<ch, held>> /\ UNCHANGED turnOnly

\* executeLeaseAttempt and the interrupt check after it; what follows the check does
\* not look at the flag again.
ExecuteLeaseAttempt(s) ==
    /\ turn[s].pc = "exec"
    /\ \/ turn[s].intr /\ Becomes(s, Settling(s, Failed))
       \/ \E r \in Outcomes :
            /\ ~turn[s].intr
            /\ Becomes(s, [turn[s] EXCEPT !.pc = "eval", !.res = r])
    /\ UNCHANGED <<ch, held>> /\ UNCHANGED turnOnly

\* A panic in a hook or in the runner: the deferred calls run handleTrailing first and
\* fail the burst after it.
Panic(s) ==
    /\ turn[s].pc \in {"hook", "exec"}
    /\ Becomes(s, [turn[s] EXCEPT !.pc = "trail", !.panicked = TRUE])
    /\ UNCHANGED <<ch, held>> /\ UNCHANGED turnOnly

\* incrementTurnRetries.
CountRetry(s) ==
    \/ /\ row' = IncrementMessageRetry(row, Ids(turn[s].burst))
       /\ UNCHANGED <<hit, spent>>
    \/ /\ MaySpend("faults")
       /\ spent' = [spent EXCEPT !.faults = @ + 1]
       /\ UNCHANGED <<row, hit>>

\* deliverSuccessAndFinalize: the answer leaves before the rows are written.
DeliverSuccess(s) ==
    /\ turn[s].pc = "eval"
    /\ \/ turn[s].res = "ok"
       \/ turn[s].res = "yield" /\ turn[s].yields >= MaxResumes
    /\ delivered' = [i \in Items |->
                       IF i \in Ids(turn[s].burst) THEN delivered[i] + 1 ELSE delivered[i]]
    /\ Becomes(s, Settling(s, Completed))
    /\ UNCHANGED <<row, hit, spent, ch, held, quotaLocked, shed>> /\ UNCHANGED queueVars

\* handleYieldTrap: an automatic resumption does not use up an attempt.
AutoResume(s) ==
    /\ turn[s].pc = "eval" /\ turn[s].res = "yield" /\ turn[s].yields < MaxResumes
    /\ Becomes(s, [turn[s] EXCEPT !.pc = "run", !.yields = @ + 1])
    /\ UNCHANGED <<ch, held>> /\ UNCHANGED turnOnly

QuotaPause(s) ==
    /\ turn[s].pc = "eval" /\ turn[s].res = "quota"
    /\ quotaLocked' = TRUE
    /\ Becomes(s, [Settling(s, Failed) EXCEPT !.quota = TRUE])
    /\ UNCHANGED <<row, hit, spent, ch, held, delivered, shed>> /\ UNCHANGED queueVars

QuotaExpires ==
    /\ quotaLocked
    /\ quotaLocked' = FALSE
    /\ UNCHANGED <<row, arrived, phase, rec, ingest, ch, held, timers, turn, irq,
                   delivered, hit, shed, spent>>

\* handleCapacityBlip.
CapacityBlip(s) ==
    /\ turn[s].pc = "eval" /\ turn[s].res = "blip"
    /\ IF turn[s].attempt < MaxAttempts
       THEN CountRetry(s) /\ Becomes(s, Goto(s, "backoff"))
       ELSE Becomes(s, Settling(s, Failed)) /\ UNCHANGED storeVars
    /\ UNCHANGED <<ch, held, quotaLocked, delivered, shed>> /\ UNCHANGED queueVars

\* handleWatchdogFailure.
WatchdogFailure(s) ==
    /\ turn[s].pc = "eval" /\ turn[s].res = "watchdog"
    /\ CountRetry(s)
    /\ Becomes(s, IF turn[s].attempt < MaxAttempts THEN Goto(s, "backoff")
               ELSE IF Stopping THEN Leaving(s) ELSE Settling(s, Failed))
    /\ UNCHANGED <<ch, held, quotaLocked, delivered, shed>> /\ UNCHANGED queueVars

\* handleTransientRetry and handleSessionCorruptionRetry through dispatchFailedAttempt.
TransientFailure(s) ==
    /\ turn[s].pc = "eval" /\ turn[s].res = "transient"
    /\ IF Stopping
       THEN Becomes(s, Leaving(s)) /\ UNCHANGED storeVars
       ELSE /\ CountRetry(s)
            /\ Becomes(s, IF turn[s].attempt < MaxAttempts THEN Goto(s, "backoff")
                       ELSE [turn[s] EXCEPT !.pc = "run", !.attempt = @ + 1])
    /\ UNCHANGED <<ch, held, quotaLocked, delivered, shed>> /\ UNCHANGED queueVars

\* handleNonTransientFailure; an empty answer is one too.
NonTransientFailure(s) ==
    /\ turn[s].pc = "eval" /\ turn[s].res = "fatal"
    /\ IF Stopping
       THEN Becomes(s, Leaving(s)) /\ UNCHANGED storeVars
       ELSE CountRetry(s) /\ Becomes(s, Settling(s, Failed))
    /\ UNCHANGED <<ch, held, quotaLocked, delivered, shed>> /\ UNCHANGED queueVars

BackoffElapses(s) ==
    /\ turn[s].pc = "backoff"
    /\ Becomes(s, [turn[s] EXCEPT !.pc = "run", !.attempt = @ + 1])
    /\ UNCHANGED <<ch, held>> /\ UNCHANGED turnOnly

\* turnDone in a backoff: cancelBurstOnShutdown writes nothing to the table.
BackoffCancelled(s) ==
    /\ turn[s].pc = "backoff" /\ (turn[s].cancelled \/ Stopping)
    /\ Becomes(s, IF turn[s].intr THEN Settling(s, Failed) ELSE Leaving(s))
    /\ UNCHANGED <<ch, held>> /\ UNCHANGED turnOnly

--------------------
(* The end of a turn *)

FinalizeMessage(s) ==
    /\ turn[s].pc = "final"
    /\ SetStatus(Head(turn[s].todo).id, turn[s].target)
    /\ Becomes(s, Popped(s, IF turn[s].panicked
                         THEN [turn[s] EXCEPT !.pc = "end", !.todo = <<>>] ELSE Leaving(s)))
    /\ UNCHANGED <<ch, held, quotaLocked, delivered, shed>> /\ UNCHANGED queueVars

AfterTrailing(s) ==
    IF turn[s].panicked THEN [Settling(s, Failed) EXCEPT !.trail = <<>>]
    ELSE [turn[s] EXCEPT !.pc = "end", !.trail = <<>>, !.todo = <<>>]

\* Seeded fault: the trailing messages are not handled.
TakeTrailingNever(s) ==
    /\ turn[s].pc = "trail"
    /\ Becomes(s, AfterTrailing(s))
    /\ UNCHANGED <<ch, held>> /\ UNCHANGED turnOnly

\* handleTrailing takes the trailing messages; during a shutdown their rows stay.
TakeTrailing(s) ==
    /\ turn[s].pc = "trail"
    /\ Becomes(s, IF turn[s].trail = <<>> \/ (~turn[s].quota /\ Stopping)
               THEN AfterTrailing(s)
               ELSE [turn[s] EXCEPT !.pc = "trailing", !.todo = turn[s].trail,
                                 !.trail = <<>>])
    /\ UNCHANGED <<ch, held>> /\ UNCHANGED turnOnly

\* One trailing message: failed in a quota pause, completed when ambient, else pending
\* again and at the end of the queue.
HandleTrailing(s) ==
    /\ turn[s].pc = "trailing"
    /\ LET c == Head(turn[s].todo) IN
       \/ turn[s].quota /\ SetStatus(c.id, Failed) /\ UNCHANGED ch
       \/ ~turn[s].quota /\ ~c.wake /\ SetStatus(c.id, Completed) /\ UNCHANGED ch
       \/ /\ ~turn[s].quota /\ c.wake /\ MuFree
          /\ SetStatus(c.id, Pending)
          /\ ch' = Enqueued([c EXCEPT !.wake = FALSE])
    /\ Becomes(s, Popped(s, AfterTrailing(s)))
    /\ UNCHANGED <<held, quotaLocked, delivered, shed>> /\ UNCHANGED queueVars

\* unregisterActiveTurn, the scope lock, inFlight.
EndTurn(s) ==
    /\ MuFree /\ turn[s].pc = "end"
    /\ Becomes(s, IdleTurn)
    /\ irq' = [irq EXCEPT !.turns = @ \ {s}]
    /\ UNCHANGED <<row, arrived, phase, rec, ingest, ch, held, timers, quotaLocked,
                   delivered, hit, shed, spent>>

--------------------
(* Operator commands: InterruptThread in its four steps, and CloseThreadProcesses, *)
(* which /rotate calls on its own. *)

ActiveTurns(t) == {s \in Scopes : ThreadOf[s] = t /\ Registered(s)}

Latched(S) == [s \in Scopes |-> IF s \in S THEN [turn[s] EXCEPT !.intr = TRUE] ELSE turn[s]]

memoryVars == <<arrived, phase, rec, ingest, held, timers, quotaLocked, delivered, shed>>

\* Step 1, under p.mu: interrupted.Store(true) on the thread's turns ...
InterruptThread(t, drain) ==
    /\ irq.pc = "idle" /\ phase # "down" /\ MaySpend("irqs")
    /\ spent' = [spent EXCEPT !.irqs = @ + 1]
    /\ turn' = Latched(ActiveTurns(t))
    /\ irq' = [NoIrq(t) EXCEPT !.pc = "snap", !.drain = drain, !.turns = ActiveTurns(t)]
    /\ UNCHANGED <<row, hit, ch>> /\ UNCHANGED memoryVars

\* ... then, under each turn's own lock, its burst and its trailing messages ...
LatchActiveTurns ==
    /\ irq.pc = "snap"
    /\ LET T == {s \in irq.turns : ~IsDispatch(s)}
           burst == UNION {Ids(turn[s].burst) : s \in T}
           trail == UNION {Ids(turn[s].trail) : s \in T}
       IN /\ irq' = [irq EXCEPT
                !.pc = IF irq.drain THEN "chans" ELSE "fail",
                !.ids = IF irq.drain THEN burst \cup trail ELSE burst,
                !.chans = IF irq.drain THEN {s \in Scopes : ThreadOf[s] = irq.thread} ELSE {}]
          /\ turn' = [s \in Scopes |->
                        IF irq.drain /\ s \in T THEN [turn[s] EXCEPT !.trail = <<>>] ELSE turn[s]]
    /\ UNCHANGED storeVars /\ UNCHANGED ch /\ UNCHANGED memoryVars

\* Seeded fault: the dispatches are not sent back.
DrainChannelDropsDispatches(s) ==
    /\ irq.pc = "chans" /\ s \in irq.chans
    /\ \/ /\ ch[s] # <<>>
          /\ ch' = [ch EXCEPT ![s] = Tail(@)]
          /\ irq' = [irq EXCEPT !.ids = @ \cup ({Head(ch[s]).id} \cap Msgs)]
       \/ /\ ch[s] = <<>>
          /\ irq' = [irq EXCEPT !.chans = @ \ {s}]
          /\ UNCHANGED ch
    /\ UNCHANGED <<storeVars, turn>> /\ UNCHANGED memoryVars

\* ... and the channels, item by item while their workers go on receiving; dispatches
\* are sent back when a channel is empty.
DrainChannelMessages(s) ==
    /\ irq.pc = "chans" /\ s \in irq.chans
    /\ \A i \in Ids(irq.back) : ScopeOf[i] = s
    /\ \/ /\ ch[s] # <<>>
          /\ ch' = [ch EXCEPT ![s] = Tail(@)]
          /\ LET c == Head(ch[s]) IN
             irq' = IF c.id \in Msgs THEN [irq EXCEPT !.ids = @ \cup {c.id}]
                    ELSE [irq EXCEPT !.back = Append(@, c)]
       \/ /\ ch[s] = <<>>
          /\ ch' = [ch EXCEPT ![s] = irq.back]
          /\ irq' = [irq EXCEPT !.chans = @ \ {s}, !.back = <<>>]
    /\ UNCHANGED <<storeVars, turn>> /\ UNCHANGED memoryVars

UnlockPool ==
    /\ irq.pc = "chans" /\ irq.chans = {}
    /\ irq' = [irq EXCEPT !.pc = "fail"]
    /\ UNCHANGED <<storeVars, turn, ch>> /\ UNCHANGED memoryVars

\* Step 2: FAILED, row by row.
InterruptFail ==
    /\ irq.pc \in {"fail", "drain"}
    /\ \E i \in irq.ids :
         /\ SetStatus(i, Failed)
         /\ irq' = [irq EXCEPT !.ids = @ \ {i}]
    /\ UNCHANGED <<turn, ch>> /\ UNCHANGED memoryVars

\* DrainThreadPendingMessages, whose query may fail.
DrainThreadPendingMessages ==
    /\ irq.pc = "fail" /\ irq.ids = {} /\ irq.drain
    /\ \/ /\ irq' = [irq EXCEPT !.pc = "drain",
                       !.ids = {i \in Msgs : /\ ThreadOf[ScopeOf[i]] = irq.thread
                                             /\ row[i].st \in Live}]
          /\ UNCHANGED spent
       \/ /\ MaySpend("faults")
          /\ spent' = [spent EXCEPT !.faults = @ + 1]
          /\ irq' = [irq EXCEPT !.pc = "drain"]
    /\ UNCHANGED <<row, hit, turn, ch>> /\ UNCHANGED memoryVars

\* Step 3: cancel the contexts of the turns latched in step 1.
CancelTurns ==
    /\ irq.ids = {} /\ irq.pc = (IF irq.drain THEN "drain" ELSE "fail")
    /\ turn' = [s \in Scopes |->
                  IF s \in irq.turns THEN [turn[s] EXCEPT !.cancelled = TRUE] ELSE turn[s]]
    /\ irq' = [irq EXCEPT !.pc = "close"]
    /\ UNCHANGED storeVars /\ UNCHANGED ch /\ UNCHANGED memoryVars

\* Step 4, and all of /rotate's: latch and cancel whatever the thread runs now.
CloseThreadProcesses ==
    /\ irq.pc = "close"
    /\ turn' = [s \in Scopes |->
                  IF s \in ActiveTurns(irq.thread)
                  THEN [turn[s] EXCEPT !.intr = TRUE, !.cancelled = TRUE] ELSE turn[s]]
    /\ irq' = NoIrq(irq.thread)
    /\ UNCHANGED storeVars /\ UNCHANGED ch /\ UNCHANGED memoryVars

Rotate(t) ==
    /\ irq.pc = "idle" /\ phase # "down" /\ MaySpend("irqs")
    /\ spent' = [spent EXCEPT !.irqs = @ + 1]
    /\ irq' = [NoIrq(t) EXCEPT !.pc = "close"]
    /\ UNCHANGED <<row, hit, turn, ch>> /\ UNCHANGED memoryVars

--------------------
Recovery ==
    \/ RecoverQuery(Msgs, "idle", "msgs") \/ RecoverQuery(Disps, "msgs", "disps")
    \/ RecoverRow \/ ReleaseLeaderHold
    \/ MergeHeldPendingEntries(Msgs, "merge", "mergeDisps")
    \/ MergeHeldPendingEntries(Disps, "mergeDisps", "enqueue")
    \/ RecoverEnqueue

Worker(s) ==
    \/ Pop(s) \/ DrainBurstMessages(s) \/ BeginTurn(s)
    \/ ClaimMessage(s) \/ ClaimDispatch(s)
    \/ ResolveTurnPolicy(s) \/ AmbientTriage(s)
    \/ CompleteLeadingAmbient(s) \/ NarrowBurst(s)
    \/ AcquirePoolAndLease(s) \/ RunPreTurnHook(s)
    \/ RescheduleMessage(s) \/ StartAttempt(s) \/ ExecuteLeaseAttempt(s) \/ Panic(s)
    \/ DeliverSuccess(s) \/ AutoResume(s) \/ QuotaPause(s) \/ CapacityBlip(s)
    \/ WatchdogFailure(s) \/ TransientFailure(s) \/ NonTransientFailure(s)
    \/ BackoffElapses(s) \/ BackoffCancelled(s)
    \/ FinalizeMessage(s)
    \/ TakeTrailing(s) \/ HandleTrailing(s) \/ EndTurn(s)

Operator ==
    \/ LatchActiveTurns \/ \E s \in Scopes : DrainChannelMessages(s)
    \/ UnlockPool \/ InterruptFail \/ DrainThreadPendingMessages
    \/ CancelTurns \/ CloseThreadProcesses

Next ==
    \/ \E i \in Items : Submit(i) \/ HandlerEnqueue(i)
    \/ \E k \in DOMAIN timers : TimerFires(k)
    \/ Start \/ Stop \/ Exit \/ Crash \/ QuotaExpires
    \/ Recovery
    \/ \E s \in Scopes : Worker(s)
    \/ \E t \in Threads : Rotate(t) \/ \E drain \in BOOLEAN : InterruptThread(t, drain)
    \/ Operator

Spec == Init /\ [][Next]_vars

\* The Go scheduler runs every goroutine, timers fire, the supervisor restarts the
\* process and a stopping process exits.  Nothing obliges anybody to submit, to
\* interrupt, to stop or to crash, or the quota to return.
Fairness ==
    /\ \A i \in Items : WF_vars(HandlerEnqueue(i))
    /\ WF_vars(\E k \in DOMAIN timers : TimerFires(k))
    /\ WF_vars(Start) /\ WF_vars(Exit)
    /\ WF_vars(Recovery)
    /\ \A s \in Scopes : WF_vars(Worker(s))
    /\ WF_vars(Operator)

FairSpec == Spec /\ Fairness

--------------------
(* Properties *)

TypeOK ==
    /\ row \in [Items -> Row]
    /\ arrived \in Seq(Items)
    /\ phase \in {"down", "held", "live", "stopping"}
    /\ rec \in [pc : {"idle", "msgs", "disps", "merge", "mergeDisps", "enqueue"},
                todo : SUBSET Items, ready : SUBSET Copies, seen : [Items -> Row]]
    /\ ingest \subseteq Items
    /\ ch \in [Scopes -> Seq(Copies)]
    /\ held \in [Scopes -> Seq(Copies)]
    /\ timers \in Seq(Copies)
    /\ turn \in [Scopes -> Turns]
    /\ quotaLocked \in BOOLEAN
    /\ irq \in [pc : {"idle", "snap", "chans", "fail", "drain", "close"}, thread : Threads,
                drain : BOOLEAN, ids : SUBSET Items, turns : SUBSET Scopes,
                chans : SUBSET Scopes, back : Seq(Copies)]
    /\ delivered \in [Items -> Nat]
    /\ hit \subseteq Items /\ shed \subseteq Items
    /\ spent \in [budget : Budgets, stops : Nat, crashes : Nat, irqs : Nat,
                  faults : Nat, resubs : Nat]

\* Rows the turn of s has claimed and still has to settle or hand on.
Owned(s) ==
    LET t == turn[s]
        late == IF t.panicked THEN Ids(t.burst) ELSE {}
    IN CASE t.pc = "claim" -> Ids(t.got)
         [] t.pc \in {"policy", "triage"} -> Ids(t.burst)
         [] t.pc = "lead" -> Ids(t.todo) \cup Ids(t.got)
         [] t.pc \in {"lease", "hook", "run", "exec", "eval", "backoff"} ->
              Ids(t.burst) \cup Ids(t.trail)
         [] t.pc \in {"final", "defer"} -> Ids(t.todo) \cup Ids(t.trail)
         [] t.pc = "trail" -> Ids(t.trail) \cup late
         [] t.pc = "trailing" -> Ids(t.todo) \cup late
         [] OTHER -> {}

\* Copies of s on their way to a claim.
Queued(s) ==
    LET t == turn[s] IN
    Ids(ch[s]) \cup Ids(held[s])
      \cup (IF t.pc \in {"popped", "drained", "dclaim"} THEN Ids(t.burst) ELSE {})
      \cup (IF t.pc = "claim" THEN Ids(t.todo) ELSE {})

\* Items somebody in the process will still act on.
Remembered ==
    ingest \cup Ids(timers) \cup irq.ids \cup Ids(irq.back) \cup {c.id : c \in rec.ready}
      \cup UNION {Owned(s) \cup Queued(s) : s \in Scopes}

\* No work is forgotten (pool.go, burst.go, worker.go, recovery.go): once recovery has
\* run, every PENDING or PROCESSING row is in somebody's hands: a handler, a channel, a
\* turn, a timer, the recovery's list or an operator command.  The exceptions are rows
\* whose SQL statement failed and trailing messages of an interrupted triage.
NoForgottenWork ==
    phase = "live" /\ rec.pc \notin {"merge", "mergeDisps"} =>
        \A i \in Items : row[i].st \in Live => i \in Remembered \cup hit \cup shed

\* An answer is delivered at most once per life of the message: deliverSuccessAndFinalize
\* sends before it writes the row (turn_outcome.go:165, 178), so only a restart of the
\* process may repeat it, whatever copies, retries, interrupts and resubmissions do.
DeliveredOncePerLife == \A i \in Items : delivered[i] <= 1 + row[i].restart

\* An operator works on the thread of s, or has cancelled the turn of s.
Disturbed(s) == turn[s].intr \/ (irq.pc # "idle" /\ irq.thread = ThreadOf[s])

\* A claimed row stays PROCESSING until its own turn writes it, unless an operator works
\* on the thread: no second copy, recovery or timer touches it (worker.go:616).
ClaimIsExclusive ==
    \A s \in Scopes : \A i \in Owned(s) : row[i].st = Processing \/ Disturbed(s)

\* evaluatePoisonPill bounds what a crash loop costs: a row is never handed back more
\* than MaxHardRestarts times (recovery.go:24).
RestartBudget == \A i \in Items : row[i].restart <= MaxHardRestarts

\* A settled row is not reopened: COMPLETED and FAILED are final ("Commit terminal FAILED
\* status", pool.go:1017), but for the turn an operator interrupts, which may still hand
\* back a message the interrupt has failed (rescheduleBurst, handleTrailing).
TerminalIsFinal ==
    [][\A i \in Items : row[i].st \in Terminal =>
          row'[i].st \in Terminal \/ Disturbed(ScopeOf[i])]_vars

\* Every accepted item is settled in the end, across stops and crashes (docs/specs/
\* 2026-08-28-message-handling-redesign.md:12, "Deterministic Crash Recovery").
EventuallySettled ==
    \A i \in Items : row[i].st = Pending ~> row[i].st \in Terminal

\* A shutdown settles nothing that has not run: rows stay for startup recovery
\* (worker.go:760, "Leaving PROCESSING for startup recovery").
ShutdownKeepsWork ==
    [][\A s \in Scopes :
          Stopping /\ turn[s].pc \in {"lease", "hook"} /\ ~turn[s].intr
            => turn'[s].pc # "final"]_vars

====================
