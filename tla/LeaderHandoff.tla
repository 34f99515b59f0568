----------- MODULE LeaderHandoff -----------
(* A deployment of eri: the canary starts while the old process still *)
(* serves, and a PostgreSQL advisory lock decides whose worker pool runs *)
(* turns (RunBrainApp, startLeaderHandoff and serveBrainHTTP of main.go, *)
(* RecoverInterrupted of pkg/queue).  Both processes accept requests; a *)
(* pool that is held writes the row and runs nothing. *)
(*  *)
(* Poison pills and retries are TurnQueue's; here a row is pending, run or *)
(* settled, and what matters is which process works on it. *)
EXTENDS Naturals, Sequences, FiniteSets

CONSTANTS
    Procs,           \* processes, in the order they are deployed
    HandoffBudgets   \* bounds: requests, boots, terms, crashes, faults

ASSUME HandoffAssumption == Procs \subseteq Nat \ {0} /\ 1 \in Procs

VARIABLES
    phase,     \* RunBrainApp of a process
    leader,    \* its leader goroutine
    hold,      \* WorkerPool.leaderHold
    lock,      \* the advisory lock: its owner or 0
    batch,     \* what RecoverInterrupted has collected: row -> status read
    copies,    \* rows in the queues of a pool
    running,   \* rows a pool's workers run
    request,   \* the row an HTTP handler has inserted and not enqueued yet, or 0
    rowState,  \* the messages table: status, who accepted it, not touched since
    forfeited, \* processes whose lock session has ended unnoticed (a ghost)
    leftOut,    \* rows that a failed second read left out (a ghost)
    hoBudget

hoVars == <<phase, leader, hold, lock, batch, copies, running, request, rowState, forfeited, leftOut, hoBudget>>
\* The tallies of what failed without a trace in the program.
hoGhosts == <<forfeited, leftOut>>

RowIds == DOMAIN rowState

HandoffInit ==
    /\ phase = [p \in Procs |-> "down"] /\ leader = [p \in Procs |-> "none"]
    /\ hold = [p \in Procs |-> FALSE] /\ lock = 0
    /\ batch = [p \in Procs |-> << >>] /\ copies = [p \in Procs |-> {}]
    /\ running = [p \in Procs |-> {}] /\ request = [p \in Procs |-> 0]
    /\ rowState = << >>
    /\ forfeited = {} /\ leftOut = [p \in Procs |-> {}]
    /\ hoBudget \in HandoffBudgets

SpendHandoff(what) == hoBudget[what] > 0 /\ hoBudget' = [hoBudget EXCEPT ![what] = @ - 1]

Alive(p) == phase[p] \in {"serving", "draining", "handback", "released", "stopping"}
SetRow(r, st) == rowState' = [rowState EXCEPT ![r] = [@ EXCEPT !.st = st, !.fresh = FALSE]]

\* RunBrainApp: the pools are built, the worker pool is held and started, the
\* listener opens, and only then is the lock asked for.
Boot(p) ==
    /\ phase[p] = "down" /\ \A q \in Procs : q < p => phase[q] # "down"
    /\ SpendHandoff("boots")
    /\ phase' = [phase EXCEPT ![p] = "serving"]
    /\ leader' = [leader EXCEPT ![p] = "waiting"]
    /\ hold' = [hold EXCEPT ![p] = TRUE]
    /\ UNCHANGED <<hoGhosts, lock, batch, copies, running, request, rowState>>

--------------------
(* The leader goroutine. *)

AcquireLeaderLock(p) ==
    /\ leader[p] = "waiting" /\ lock = 0 /\ phase[p] \in {"serving", "draining"}
    /\ lock' = p /\ leader' = [leader EXCEPT ![p] = "owner"]
    /\ UNCHANGED <<hoGhosts, phase, hold, batch, copies, running, request, rowState, hoBudget>>

\* The lock lives on one connection that nobody watches: when the server
\* ends its session, the process goes on as if it still owned the lock.
LockSessionEnds(p) ==
    /\ lock = p /\ SpendHandoff("faults")
    /\ lock' = 0 /\ forfeited' = forfeited \union {p}
    /\ UNCHANGED <<leftOut, phase, leader, hold, batch, copies, running, request, rowState>>

\* errCh: the server is shut down and the process ends with the error.
LeaderLockFails(p) ==
    /\ leader[p] = "waiting" /\ phase[p] = "serving" /\ SpendHandoff("faults")
    /\ leader' = [leader EXCEPT ![p] = "ended"]
    /\ phase' = [phase EXCEPT ![p] = "draining"]
    /\ UNCHANGED <<hoGhosts, hold, lock, batch, copies, running, request, rowState>>

Open(r) == rowState[r].st \in {"pending", "processing"}

\* prepareInterruptedMessages reads every open row, or nothing when the
\* query fails, ...
ReadInterrupted(p) ==
    /\ leader[p] = "owner" /\ phase[p] \in {"serving", "draining"}
    /\ \/ /\ batch' = [batch EXCEPT ![p] = [r \in {x \in RowIds : Open(x)} |-> rowState[r].st]]
          /\ UNCHANGED hoBudget
       \/ UNCHANGED batch /\ SpendHandoff("faults")
    /\ leader' = [leader EXCEPT ![p] = "reset"]
    /\ UNCHANGED <<hoGhosts, phase, hold, lock, copies, running, request, rowState>>

\* ... and resets the ones that were processing, if they still are.  A
\* statement that fails is logged; the copy counts as pending all the same.
ResetInterruptedProcessing(p) ==
    /\ leader[p] = "reset"
    /\ \E r \in DOMAIN batch[p] :
        /\ batch[p][r] = "processing"
        /\ batch' = [batch EXCEPT ![p][r] = "pending"]
        /\ \/ /\ IF rowState[r].st = "processing" THEN SetRow(r, "pending") ELSE UNCHANGED rowState
              /\ UNCHANGED hoBudget
           \/ UNCHANGED rowState /\ SpendHandoff("faults")
    /\ UNCHANGED <<hoGhosts, phase, leader, hold, lock, copies, running, request>>

Pendings == {r \in RowIds : rowState[r].st = "pending"}
BatchReset(p) == \A r \in DOMAIN batch[p] : batch[p][r] = "pending"
WithPendings(b) == [r \in DOMAIN b \union Pendings |-> "pending"]

\* The mutant collects the held rows before it releases the hold.
MergeThenRelease(p) ==
    \/ /\ leader[p] = "reset" /\ BatchReset(p)
       /\ batch' = [batch EXCEPT ![p] = WithPendings(@)]
       /\ leader' = [leader EXCEPT ![p] = "merge"]
       /\ UNCHANGED <<hoGhosts, phase, hold, lock, copies, running, request, rowState, hoBudget>>
    \/ /\ leader[p] = "merge"
       /\ hold' = [hold EXCEPT ![p] = FALSE]
       /\ leader' = [leader EXCEPT ![p] = "enqueue"]
       /\ UNCHANGED <<hoGhosts, phase, lock, batch, copies, running, request, rowState, hoBudget>>
\* ReleaseLeaderHold, then mergeHeldPendingEntries, which goes on without the
\* rows it could not read.
ReleaseHoldAndMerge(p) ==
    \/ /\ leader[p] = "reset" /\ BatchReset(p)
       /\ hold' = [hold EXCEPT ![p] = FALSE]
       /\ leader' = [leader EXCEPT ![p] = "merge"]
       /\ UNCHANGED <<hoGhosts, phase, lock, batch, copies, running, request, rowState, hoBudget>>
    \/ /\ leader[p] = "merge"
       /\ \/ /\ batch' = [batch EXCEPT ![p] = WithPendings(@)]
             /\ UNCHANGED <<leftOut, hoBudget>>
          \/ /\ leftOut' = [leftOut EXCEPT ![p] = Pendings \ DOMAIN batch[p]]
             /\ UNCHANGED batch /\ SpendHandoff("faults")
       /\ leader' = [leader EXCEPT ![p] = "enqueue"]
       /\ UNCHANGED <<forfeited, phase, hold, lock, copies, running, request, rowState>>

\* The rows go to the pool; the process pools are warmed up and the
\* transcript sync is started.
ResumeRecovered(p) ==
    /\ leader[p] = "enqueue"
    /\ copies' = [copies EXCEPT ![p] = @ \union DOMAIN batch[p]]
    /\ batch' = [batch EXCEPT ![p] = << >>]
    /\ leader' = [leader EXCEPT ![p] = "promoted"]
    /\ UNCHANGED <<hoGhosts, phase, hold, lock, running, request, rowState, hoBudget>>

--------------------
(* Requests and turns. *)

InsertRequest(p) ==
    /\ phase[p] = "serving" /\ request[p] = 0 /\ SpendHandoff("requests")
    /\ LET r == Len(rowState) + 1
       IN /\ rowState' = Append(rowState, [st |-> "pending", by |-> p, fresh |-> TRUE])
          /\ request' = [request EXCEPT ![p] = r]
    /\ UNCHANGED <<hoGhosts, phase, leader, hold, lock, batch, copies, running>>

\* EnqueueBurst returns at once when the pool is held or stopped.
EnqueueRequest(p) ==
    /\ Alive(p) /\ request[p] # 0
    /\ request' = [request EXCEPT ![p] = 0]
    /\ copies' = [copies EXCEPT ![p] = IF hold[p] \/ phase[p] = "stopping" THEN @ ELSE @ \union {request[p]}]
    /\ UNCHANGED <<hoGhosts, phase, leader, hold, lock, batch, running, rowState, hoBudget>>

\* ClaimPendingMessage: a copy whose row is not pending is dropped.
ClaimRow(p) ==
    /\ phase[p] \in {"serving", "draining", "handback", "released"}
    /\ \E r \in copies[p] :
        /\ copies' = [copies EXCEPT ![p] = @ \ {r}]
        /\ IF rowState[r].st = "pending"
           THEN SetRow(r, "processing") /\ running' = [running EXCEPT ![p] = @ \union {r}]
           ELSE UNCHANGED <<rowState, running>>
    /\ UNCHANGED <<hoGhosts, phase, leader, hold, lock, batch, request, hoBudget>>

TurnCompletes(p) ==
    /\ Alive(p)
    /\ \E r \in running[p] : SetRow(r, "completed") /\ running' = [running EXCEPT ![p] = @ \ {r}]
    /\ UNCHANGED <<hoGhosts, phase, leader, hold, lock, batch, copies, request, hoBudget>>

\* A turn whose pool is cancelled puts its row back, or settles it when the
\* cancellation meets it outside the agent (TurnQueue has the cases).
TurnIsCancelled(p) ==
    /\ phase[p] = "stopping"
    /\ \E r \in running[p] :
        /\ running' = [running EXCEPT ![p] = @ \ {r}]
        /\ \/ IF rowState[r].st = "processing" THEN SetRow(r, "pending") ELSE UNCHANGED rowState
           \/ SetRow(r, "completed")
    /\ UNCHANGED <<hoGhosts, phase, leader, hold, lock, batch, copies, request, hoBudget>>

--------------------
(* Shutdown: the deferred calls of RunBrainApp, last one first. *)

Sigterm(p) ==
    /\ phase[p] = "serving" /\ SpendHandoff("terms")
    /\ phase' = [phase EXCEPT ![p] = "draining"]
    /\ UNCHANGED <<hoGhosts, leader, hold, lock, batch, copies, running, request, rowState>>

\* srv.Shutdown waits five seconds for the handlers; then cancelLeader ends a
\* goroutine that waits for the lock or has not looked at its context since.
HTTPShutdown(p) ==
    /\ phase[p] = "draining"
    /\ IF request[p] = 0 THEN UNCHANGED hoBudget ELSE SpendHandoff("faults")
    /\ phase' = [phase EXCEPT ![p] = "handback"]
    /\ leader' = IF leader[p] \in {"waiting", "owner"} THEN [leader EXCEPT ![p] = "ended"] ELSE leader
    /\ UNCHANGED <<hoGhosts, hold, lock, batch, copies, running, request, rowState>>

\* releaseLeader gives the lock back while the pool still runs.
ReleaseLeader(p) ==
    /\ phase[p] = "handback" /\ leader[p] \in {"ended", "promoted"}
    /\ lock' = IF lock = p THEN 0 ELSE lock
    /\ phase' = [phase EXCEPT ![p] = "released"]
    /\ UNCHANGED <<hoGhosts, leader, hold, batch, copies, running, request, rowState, hoBudget>>

\* pool.Stop cancels the workers and waits for them, at most two seconds.
StopPool(p) ==
    /\ phase[p] = "released"
    /\ phase' = [phase EXCEPT ![p] = "stopping"]
    /\ copies' = [copies EXCEPT ![p] = {}]
    /\ UNCHANGED <<hoGhosts, leader, hold, lock, batch, running, request, rowState, hoBudget>>

ProcessExits(p) ==
    /\ phase[p] = "stopping"
    /\ \/ running[p] = {} /\ UNCHANGED hoBudget
       \/ running[p] # {} /\ SpendHandoff("faults")
    /\ phase' = [phase EXCEPT ![p] = "gone"]
    /\ running' = [running EXCEPT ![p] = {}] /\ request' = [request EXCEPT ![p] = 0]
    /\ UNCHANGED <<hoGhosts, leader, hold, lock, batch, copies, rowState>>

\* The session of the lock ends with the process.
ProcessCrashes(p) ==
    /\ Alive(p) /\ SpendHandoff("crashes")
    /\ phase' = [phase EXCEPT ![p] = "gone"] /\ leader' = [leader EXCEPT ![p] = "ended"]
    /\ lock' = IF lock = p THEN 0 ELSE lock
    /\ batch' = [batch EXCEPT ![p] = << >>] /\ copies' = [copies EXCEPT ![p] = {}]
    /\ running' = [running EXCEPT ![p] = {}] /\ request' = [request EXCEPT ![p] = 0]
    /\ UNCHANGED <<hoGhosts, hold, rowState>>

--------------------
LeaderWork(p) ==
    \/ AcquireLeaderLock(p) \/ ReadInterrupted(p) \/ ResetInterruptedProcessing(p)
    \/ ReleaseHoldAndMerge(p) \/ ResumeRecovered(p)
ShutdownWork(p) ==
    \/ EnqueueRequest(p) \/ HTTPShutdown(p) \/ ReleaseLeader(p) \/ StopPool(p)
    \/ TurnIsCancelled(p) \/ ProcessExits(p)

HandoffNext ==
    \E p \in Procs :
        \/ Boot(p) \/ LeaderLockFails(p) \/ LockSessionEnds(p) \/ LeaderWork(p)
        \/ InsertRequest(p) \/ ClaimRow(p) \/ TurnCompletes(p)
        \/ Sigterm(p) \/ ShutdownWork(p) \/ ProcessCrashes(p)

\* The goroutines of a live process run.
HandoffSpec ==
    /\ HandoffInit /\ [][HandoffNext]_hoVars
    /\ \A p \in Procs : WF_hoVars(LeaderWork(p)) /\ WF_hoVars(ShutdownWork(p))

--------------------
HandoffTypeOK ==
    /\ phase \in [Procs -> {"down", "serving", "draining", "handback", "released", "stopping", "gone"}]
    /\ leader \in [Procs -> {"none", "waiting", "owner", "reset", "merge", "enqueue", "promoted", "ended"}]
    /\ hold \in [Procs -> BOOLEAN] /\ lock \in Procs \union {0}
    /\ lock # 0 => phase[lock] \in {"serving", "draining", "handback"}
    /\ \A p \in Procs : copies[p] \union running[p] \union DOMAIN batch[p] \subseteq RowIds
    /\ \A r \in RowIds : rowState[r].st \in {"pending", "processing", "completed"}
    /\ forfeited \subseteq Procs /\ \A p \in Procs : leftOut[p] \subseteq RowIds

(* Outside a hand-over only the owner of the lock runs turns: whoever else *)
(* does has given the lock back and is stopping, or the database has ended *)
(* the lock's session behind its back (WorkerPool.HoldUntilLeader, *)
(* startLeaderHandoff, AcquireLeaderLock). *)
OnlyTheLeaderRuns ==
    \A p \in Procs : running[p] # {} =>
        lock = p \/ p \in forfeited \/ phase[p] \in {"released", "stopping"}

(* A request that a pool accepted while it was held, and that nobody has *)
(* begun, is in its queue once the process is promoted, whatever instant *)
(* the hold was released at and also when the first read failed; what a *)
(* failed second read leaves out are the rows the first one did not see *)
(* (RecoverInterrupted, mergeHeldPendingEntries). *)
HeldRequestsAreAdopted ==
    \A p \in Procs : leader[p] = "promoted" /\ phase[p] = "serving" =>
        \A r \in RowIds : rowState[r].by = p /\ rowState[r].fresh =>
            r \in copies[p] \union leftOut[p] \/ request[p] = r

(* A process that is told to stop ends, also when it waits for a lock that *)
(* another process keeps (the release function of startLeaderHandoff). *)
Stopping(p) == phase[p] = "draining"
Stopped(p) == phase[p] = "gone"
ShutdownEnds == \A p \in Procs : Stopping(p) ~> Stopped(p)

(* No message is run by two processes at once (the plan of graceful *)
(* deployments: the reset "prevents duplicate work or split-brain"). *)
NoSplitBrain ==
    \A p, q \in Procs : p # q => running[p] \intersect running[q] = {}

(* The hand-over of two processes: the lock decides who runs turns, and *)
(* what the waiting one accepted is in its queue when it takes over. *)
HandoffIsSound ==
    /\ HandoffTypeOK /\ OnlyTheLeaderRuns /\ HeldRequestsAreAdopted
====================
