----------- MODULE TurnAttempts -----------
(* The attempts of one agent turn: executeWithRetries and its handlers *)
(* (pkg/queue/worker.go, turn_outcome.go, turn_prompt.go), with the *)
(* session row of the thread and the agent process pinned to it.  TurnQueue *)
(* takes an attempt as one step with an outcome; here are the prompt that *)
(* is sent, the session it is sent to, the classes of failure and what *)
(* each one does to the session and the counters. *)
(*  *)
(* Sessions are numbers in the order of their creation, 0 for none.  A *)
(* lease always names a session, since a process that starts reports one. *)
(* What the release of the lease does after the turn, where a worn process *)
(* is rotated (by size, age or an empty answer), is ProcessPool's. *)
(* Writes of the session row are made in a step of their own, since they *)
(* may fail, and since an operator's interrupt may come in between. *)
EXTENDS Naturals, Sequences, SequencesExt, FiniteSets

CONSTANTS
    AttemptLimit,     \* WorkerPoolConfig.MaxAttempts
    ResumeLimit,      \* MaxYieldTrapAutoResumes
    RotateAfter,      \* session.DefaultMaxSessionTurns, for dispatches
    AttemptBudgets    \* bounds: turns, interrupts, shutdowns, failures of what a turn calls

ASSUME AttemptAssumption == AttemptLimit \in Nat \ {0} /\ ResumeLimit \in Nat /\ RotateAfter \in Nat \ {0}

VARIABLES
    row,        \* the thread's row of sessions: active and previous session, turns
    daemon,     \* the process pinned to the thread: its session (0: none), dirty or not, still busy
    born,       \* sessions created so far
    corrupt,    \* sessions an execution has reported as corrupt
    te,         \* the turnExecution
    item,       \* the message or dispatch: status, retry_count, restart_count
    tries,      \* the executions of this turn
    told,       \* what the thread was sent last in this turn
    stopping,   \* pool.ctx is cancelled
    quotaLock,  \* quotaLockedUntil lies in the future
    attemptBudget

attemptVars == <<row, daemon, born, corrupt, te, item, tries, told, stopping, quotaLock, attemptBudget>>

\* write is the write of the session row that the turn waits for, operator the
\* rotation that an interrupt has still to make, missed the retries not counted
\* because the statement failed, and excused says that the row does not follow
\* the turn because a write of it failed, or a busy process kept the session.
NoTurn ==
    [pc |-> "idle", kind |-> "message", eph |-> FALSE, current |-> 0, previous |-> 0, active |-> 0,
     lease |-> 0, attempt |-> 0, first |-> 0, resumes |-> 0, prompt |-> "full", last |-> "none",
     interrupted |-> FALSE, reset |-> FALSE, leased |-> FALSE, result |-> << >>, write |-> << >>,
     operator |-> FALSE, excused |-> FALSE, missed |-> 0]

NoProcess == [sess |-> 0, dirty |-> FALSE, busy |-> FALSE]
NoRecord == [cur |-> 0, prev |-> 0, turns |-> 0]
NewItem == [status |-> "PENDING", retry |-> 0, restart |-> 0, quotaRetry |-> FALSE]

AttemptInit ==
    /\ row = NoRecord
    /\ daemon = NoProcess
    /\ born = 0 /\ corrupt = {} /\ te = NoTurn /\ item = NewItem
    /\ tries = << >> /\ told = "nothing"
    /\ stopping = FALSE /\ quotaLock = FALSE
    /\ attemptBudget \in AttemptBudgets

SpendAttempt(what) == attemptBudget[what] > 0 /\ attemptBudget' = [attemptBudget EXCEPT ![what] = @ - 1]

\* What fails of the calls a step makes: f is among the calls named.
Fails(f) ==
    /\ Cardinality(f) <= attemptBudget.faults
    /\ attemptBudget' = [attemptBudget EXCEPT !.faults = @ - Cardinality(f)]

--------------------
(* The session row.  Neither an ephemeral nor an interrupted turn writes it; *)
(* the look at the interrupt comes before the statement. *)

MayWrite(t) == ~t.eph /\ ~t.interrupted
Save(s) == << [op |-> "save", sess |-> s] >>
Rotation == << [op |-> "rotate", sess |-> 0] >>

SaveSessionID(t, s) == IF MayWrite(t) THEN [t EXCEPT !.write = Save(s)] ELSE t
RotateSessionID(t) == IF MayWrite(t) THEN [t EXCEPT !.write = Rotation] ELSE t

RotatedTo(r, s) == [cur |-> s, prev |-> IF r.cur # 0 THEN r.cur ELSE r.prev, turns |-> 0]
Written(r, w) == IF w.op = "save" THEN [r EXCEPT !.cur = w.sess] ELSE RotatedTo(r, 0)

\* The statement; its error is only logged.
WriteRow ==
    /\ te.write # << >>
    /\ \E f \in SUBSET {"write"} :
         /\ Fails(f)
         /\ row' = IF f = {} THEN Written(row, Head(te.write)) ELSE row
         /\ te' = [te EXCEPT !.write = << >>, !.excused = @ \/ f # {}]
    /\ UNCHANGED <<daemon, born, corrupt, item, tries, told, stopping, quotaLock>>

\* resolveAndPersistSessionID with the session s an outcome names.
Persisted(t, s, allow) ==
    IF allow /\ ~t.eph /\ s \notin {t.previous, t.current}
    THEN SaveSessionID([t EXCEPT !.active = s, !.lease = s, !.current = s], s)
    ELSE [t EXCEPT !.active = s, !.lease = s]

--------------------
(* AcquireLease on the pinned process: the session it will speak in.  A *)
(* process that does not fit is replaced.  When the row names no session *)
(* (or cannot be read) the replacement starts a new one, unless the dirty *)
(* process is still busy: then it is not rotated but resumed. *)

Fits(s) == daemon.sess # 0 /\ ~daemon.dirty /\ s \in {0, daemon.sess}

LeaseSession(r) ==
    IF Fits(r.cur) \/ (r.cur = 0 /\ daemon.sess # 0 /\ daemon.busy) THEN daemon.sess
    ELSE IF r.cur # 0 THEN r.cur
    ELSE born + 1

Lease(eph, r) == IF eph THEN born + 1 ELSE LeaseSession(r)

Proc(s) == [sess |-> s, dirty |-> FALSE, busy |-> FALSE]

\* The process after a lease of session s.
Leased(eph, s) ==
    /\ born' = IF s > born THEN s ELSE born
    /\ daemon' = IF eph THEN daemon ELSE Proc(s)

--------------------
(* The end of a turn. *)

Finish(t, status, out) ==
    /\ te' = [t EXCEPT !.pc = "done", !.result = << out >>]
    /\ item' = [item EXCEPT !.status = status]

\* cancelBurstOnShutdown: the row stays PROCESSING for the next process.
CancelBurstOnShutdown(t) == te' = [t EXCEPT !.pc = "done", !.result = << "shutdown" >>]

\* finalizeInterruptedTurn
FinalizeInterruptedTurn ==
    /\ Finish(te, "FAILED", "interrupted")
    /\ UNCHANGED <<row, daemon, born, corrupt, tries, told, stopping, quotaLock, attemptBudget>>

\* A notice goes to the thread of a message, if Discord takes it; a dispatch has
\* no thread.  The error of the delivery is only logged.
Tell(what, f) ==
    told' = IF te.kind = "dispatch" THEN told ELSE IF "notice" \in f THEN "lost" ELSE what

\* handleBurstPanic: the turn fails without a word.
HandleBurstPanic ==
    /\ te.pc \in {"check", "run", "judge", "backoff", "relet"}
    /\ SpendAttempt("faults")
    /\ Finish([te EXCEPT !.write = << >>], "FAILED", "panic")
    /\ UNCHANGED <<row, daemon, born, corrupt, tries, told, stopping, quotaLock>>

--------------------
(* A turn starts: claim, lease, prompt. *)

StartTurn(kind, eph) ==
    /\ te.pc = "idle" /\ item.status = "PENDING" /\ ~stopping
    /\ attemptBudget.turns > 0
    /\ \E f \in SUBSET {"read"} :
         LET r == IF f = {} THEN row ELSE NoRecord
             s == Lease(eph, r)
             t == [NoTurn EXCEPT !.pc = "check", !.kind = kind, !.eph = eph, !.current = s,
                                 !.previous = IF eph THEN 0 ELSE r.prev, !.lease = s, !.leased = TRUE,
                                 !.attempt = item.retry + 1, !.first = item.retry + 1]
         IN /\ te' = IF r.cur = 0 \/ r.turns <= 1 THEN SaveSessionID(t, s) ELSE t
            /\ Leased(eph, s)
            /\ Cardinality(f) <= attemptBudget.faults
            /\ attemptBudget' = [attemptBudget EXCEPT !.turns = @ - 1, !.faults = @ - Cardinality(f)]
    /\ item' = [item EXCEPT !.status = "PROCESSING"]
    /\ tries' = << >> /\ told' = "nothing"
    /\ UNCHANGED <<row, corrupt, stopping, quotaLock>>

\* acquirePoolAndLease fails the burst without a word when no process starts.
LeaseFails(kind) ==
    /\ te.pc = "idle" /\ item.status = "PENDING" /\ ~stopping
    /\ SpendAttempt("faults")
    /\ Finish([NoTurn EXCEPT !.kind = kind], "FAILED", "unleased")
    /\ tries' = << >> /\ told' = "nothing"
    /\ UNCHANGED <<row, daemon, born, corrupt, stopping, quotaLock>>

\* InterruptThread: the gate is latched, then the row is rotated to a fresh
\* session when a reset was asked for.
Interrupt ==
    /\ te.pc # "idle" /\ (te.pc = "done" => te.write # << >>) /\ ~te.interrupted
    /\ SpendAttempt("interrupts")
    /\ \E reset \in BOOLEAN : te' = [te EXCEPT !.interrupted = TRUE, !.operator = reset]
    /\ UNCHANGED <<row, daemon, born, corrupt, item, tries, told, stopping, quotaLock>>

OperatorResets ==
    /\ te.operator /\ te' = [te EXCEPT !.operator = FALSE]
    /\ \/ row' = RotatedTo(row, born + 1) /\ born' = born + 1 /\ Fails({})
       \/ UNCHANGED <<row, born>> /\ Fails({"rotate"})
    /\ UNCHANGED <<daemon, corrupt, item, tries, told, stopping, quotaLock>>

\* The process is done with a request that nobody waits for any more.
ProcessIdles ==
    /\ daemon.busy /\ daemon' = [daemon EXCEPT !.busy = FALSE]
    /\ UNCHANGED <<row, born, corrupt, te, item, tries, told, stopping, quotaLock, attemptBudget>>

Stop ==
    /\ ~stopping
    /\ SpendAttempt("stops")
    /\ stopping' = TRUE
    /\ UNCHANGED <<row, daemon, born, corrupt, te, item, tries, told, quotaLock>>

\* The next process: no agent processes, no quota lock, the row is pending again.
Restart ==
    /\ stopping /\ te.pc \in {"idle", "done"} /\ te.write = << >> /\ ~te.operator
    /\ stopping' = FALSE /\ quotaLock' = FALSE
    /\ daemon' = NoProcess
    /\ te' = NoTurn
    /\ item' = IF item.status = "PROCESSING"
               THEN [item EXCEPT !.status = "PENDING", !.restart = @ + 1] ELSE item
    /\ tries' = << >> /\ told' = "nothing"
    /\ UNCHANGED <<row, born, corrupt, attemptBudget>>

\* Another message of the thread; one-shot retries are marked [QUOTA_RETRY].
NextItem ==
    /\ te.pc = "done" /\ te.write = << >> /\ ~te.operator /\ item.status \in {"COMPLETED", "FAILED"}
    /\ te' = NoTurn
    /\ item' = [NewItem EXCEPT !.quotaRetry = (te.result = << "rescheduled" >>)]
    /\ tries' = << >> /\ told' = "nothing"
    /\ UNCHANGED <<row, daemon, born, corrupt, stopping, quotaLock, attemptBudget>>

QuotaLockEnds ==
    /\ quotaLock /\ quotaLock' = FALSE
    /\ UNCHANGED <<row, daemon, born, corrupt, te, item, tries, told, stopping, attemptBudget>>

--------------------
(* The head of the loop. *)

\* prepareAttemptPrompt: a resume prompt is kept; otherwise the full prompt,
\* as a continuation after a timeout or when the row was handed on by a restart.
PrepareAttemptPrompt(t) ==
    IF t.prompt = "full" /\ (\/ t.attempt > 1 /\ t.last \in {"deadline", "watchdog"}
                             \/ t.last = "none" /\ item.restart > 0)
    THEN "continuation" ELSE t.prompt

\* buildLeaseTurnContext: the lease's session becomes the thread's.
StartExecution ==
    /\ te.pc = "check" /\ te.attempt <= AttemptLimit /\ ~te.interrupted /\ ~quotaLock
    /\ LET p == PrepareAttemptPrompt(te)
           s == te.lease
           moved == s # 0 /\ s # te.current /\ ~te.eph
           t == [te EXCEPT !.pc = "run", !.prompt = p, !.current = IF moved THEN s ELSE @]
       IN /\ te' = IF moved THEN SaveSessionID(t, s) ELSE t
          /\ tries' = IF s = 0 THEN tries ELSE Append(tries, [sess |-> s, prompt |-> p])
          /\ daemon' = IF te.eph \/ s = 0 THEN daemon ELSE Proc(s)
    /\ UNCHANGED <<row, born, corrupt, item, told, stopping, quotaLock, attemptBudget>>

InterruptedAtHead ==
    /\ te.pc = "check" /\ te.attempt <= AttemptLimit /\ te.interrupted
    /\ FinalizeInterruptedTurn

\* checkGlobalQuotaLockout
CheckGlobalQuotaLockout ==
    /\ te.pc = "check" /\ te.attempt <= AttemptLimit /\ ~te.interrupted /\ quotaLock
    /\ \E f \in SUBSET {"notice"} : Tell("paused", f) /\ Fails(f)
    /\ Finish(te, "FAILED", "quota")
    /\ UNCHANGED <<row, daemon, born, corrupt, tries, stopping, quotaLock>>

HandleAttemptsExhausted ==
    /\ te.pc = "check" /\ te.attempt > AttemptLimit
    /\ IF stopping
       THEN CancelBurstOnShutdown(te) /\ UNCHANGED <<item, told, attemptBudget>>
       ELSE /\ \E f \in SUBSET {"notice"} : Tell("failed", f) /\ Fails(f)
            /\ Finish(te, "FAILED", "exhausted")
    /\ UNCHANGED <<row, daemon, born, corrupt, tries, stopping, quotaLock>>

--------------------
(* The execution returns.  A success carries an answer; a failure has the *)
(* class the resolver gave it (flag) and the class of its error text, which *)
(* may come from the transcript instead (detail).  For a watchdog or quota *)
(* text the class makes no difference. *)

Successes == [ok : {TRUE}, flag : {"answer", "stripped", "yield"}, detail : {"none"}]
Failures ==
    [ok : {FALSE}, flag : {"transient", "corrupt", "fatal"}, detail : {"plain", "deadline"}]
      \cup [ok : {FALSE}, flag : {"transient"}, detail : {"watchdog", "quota", "blip"}]

\* An error marks the process dirty, unless it speaks of the quota; one that came
\* of a deadline may leave it busy.
Dirtied(res) ==
    IF res.ok THEN {daemon}
    ELSE LET dirty == [daemon EXCEPT !.dirty = TRUE] IN
         CASE res.detail \in {"quota", "blip"} -> {daemon, dirty}
           [] res.detail \in {"deadline", "watchdog"} -> {dirty, [dirty EXCEPT !.busy = TRUE]}
           [] OTHER -> {dirty}

ExecutionReturns(res) ==
    /\ te.pc = "run"
    /\ te.lease = 0 => res \in {f \in Failures : f.flag = "transient" /\ f.detail = "plain"}
    /\ daemon' \in IF te.eph \/ te.lease = 0 THEN {daemon} ELSE Dirtied(res)
    /\ corrupt' = IF ~res.ok /\ res.flag = "corrupt" THEN corrupt \cup {te.lease} ELSE corrupt
    /\ IF te.interrupted
       THEN Finish(te, "FAILED", "interrupted")
       ELSE /\ LET p == IF te.lease = 0 THEN te
                        ELSE Persisted(te, te.lease, res.ok \/ (res.flag # "corrupt" /\ te.current = 0))
               IN te' = [p EXCEPT !.pc = "judge", !.result = << res >>,
                                  !.prompt = IF res.ok THEN @ ELSE "full",
                                  !.last = IF res.ok THEN "none" ELSE res.detail]
            /\ UNCHANGED item
    /\ UNCHANGED <<row, born, tries, told, stopping, quotaLock, attemptBudget>>

Judging(res) == te.pc = "judge" /\ te.result = << res >>

\* incrementTurnRetries; the error of the statement is only logged.
CountRetryOnce(t, st, f) ==
    LET n == IF "count" \in f THEN 1 ELSE 0
    IN /\ te' = [t EXCEPT !.missed = @ + n]
       /\ item' = [item EXCEPT !.retry = @ + 1 - n, !.status = st]

--------------------
(* What a success does. *)

YieldUncounted(t) == [t EXCEPT !.pc = "check", !.prompt = "resume", !.result = << >>]
YieldResumed(t) == [t EXCEPT !.pc = "check", !.prompt = "resume", !.resumes = @ + 1,
                                !.result = << >>]

\* handleYieldTrap: the attempt is not counted, the auto-resumes are.
HandleYieldTrap ==
    /\ \E res \in Successes : Judging(res) /\ res.flag = "yield"
    /\ te.resumes < ResumeLimit
    /\ te' = YieldResumed(te)
    /\ UNCHANGED <<row, daemon, born, corrupt, item, tries, told, stopping, quotaLock, attemptBudget>>

DeliverSuccessAndFinalize ==
    /\ \E res \in Successes :
         /\ Judging(res)
         /\ \/ res.flag = "answer" \/ (res.flag = "stripped" /\ te.kind = "dispatch")
            \/ res.flag = "yield" /\ te.resumes >= ResumeLimit
    /\ \E f \in SUBSET {"notice"} : Tell("answer", f) /\ Fails(f)
    /\ Finish(te, "COMPLETED", "answered")
    /\ UNCHANGED <<row, daemon, born, corrupt, tries, stopping, quotaLock>>

\* handleDispatchSessionRotation, after the dispatch is completed; a count that
\* fails rotates nothing.
CountTurn ==
    /\ te.pc = "done" /\ te.result = << "answered" >> /\ te.kind = "dispatch" /\ ~te.eph
    /\ \/ /\ row' = [row EXCEPT !.turns = @ + 1] /\ Fails({})
          /\ LET t == [te EXCEPT !.result = << "counted" >>]
             IN te' = IF row'.turns >= RotateAfter THEN RotateSessionID(t) ELSE t
       \/ row' = row /\ Fails({"count"}) /\ te' = [te EXCEPT !.result = << "counted" >>]
    /\ UNCHANGED <<daemon, born, corrupt, item, tries, told, stopping, quotaLock>>

--------------------
(* What a failure does. *)

\* handleRetryBackoff: counted, and waited for unless it was the last one.
Backoff(t, f) ==
    LET last == t.attempt >= AttemptLimit
    IN CountRetryOnce([t EXCEPT !.result = << >>, !.pc = IF last THEN "check" ELSE "backoff",
                                !.attempt = IF last THEN @ + 1 ELSE @], item.status, f)

BackoffEnds ==
    /\ te.pc = "backoff"
    /\ te' = [te EXCEPT !.pc = "check", !.attempt = @ + 1]
    /\ UNCHANGED <<row, daemon, born, corrupt, item, tries, told, stopping, quotaLock, attemptBudget>>

BackoffCancelled ==
    /\ te.pc = "backoff" /\ (te.interrupted \/ stopping)
    /\ IF te.interrupted THEN Finish(te, "FAILED", "interrupted")
       ELSE CancelBurstOnShutdown(te) /\ UNCHANGED item
    /\ UNCHANGED <<row, daemon, born, corrupt, tries, told, stopping, quotaLock, attemptBudget>>

\* handleCapacityBlip
HandleCapacityBlip ==
    /\ \E res \in Failures : Judging(res) /\ res.detail = "blip"
    /\ \E f \in SUBSET {"count", "notice"} :
         /\ Fails(f)
         /\ IF te.attempt < AttemptLimit
            THEN Backoff(te, f) /\ UNCHANGED told
            ELSE Tell("paused", f) /\ Finish(te, "FAILED", "quota")
    /\ UNCHANGED <<row, daemon, born, corrupt, tries, stopping, quotaLock>>

\* handleQuotaPause: one retry is scheduled in haro (which may refuse), unless
\* the turn is such a retry or a dispatch.
HandleQuotaPause ==
    /\ \E res \in Failures : Judging(res) /\ res.detail = "quota"
    /\ quotaLock' = TRUE
    /\ \E f \in SUBSET {"notice"} : Tell("paused", f) /\ Fails(f)
    /\ \/ Finish(te, "FAILED", "quota")
       \/ ~item.quotaRetry /\ te.kind = "message" /\ Finish(te, "FAILED", "rescheduled")
    /\ UNCHANGED <<row, daemon, born, corrupt, tries, stopping>>

\* handleWatchdogFailure
HandleWatchdogFailure ==
    /\ \E res \in Failures : Judging(res) /\ res.detail = "watchdog"
    /\ \E f \in SUBSET {"count", "notice"} :
         /\ Fails(f)
         /\ IF te.attempt < AttemptLimit THEN Backoff(te, f) /\ UNCHANGED told
            ELSE IF stopping
            THEN /\ CountRetryOnce([te EXCEPT !.pc = "done", !.result = << "shutdown" >>], item.status, f)
                 /\ UNCHANGED told
            ELSE /\ Tell("failed", f)
                 /\ CountRetryOnce(RotateSessionID([te EXCEPT !.pc = "done", !.result = << "timeout" >>]),
                                   "FAILED", f)
    /\ UNCHANGED <<row, daemon, born, corrupt, tries, stopping, quotaLock>>

\* The results dispatchFailedAttempt sees: a failure that is neither of the
\* above, or an answer with nothing left to deliver.
Dispatched(flag) ==
    \/ \E res \in Failures : Judging(res) /\ res.flag = flag /\ res.detail \in {"plain", "deadline"}
    \/ /\ flag = "fatal" /\ te.kind = "message"
       /\ \E res \in Successes : Judging(res) /\ res.flag = "stripped"

FailedAtShutdown ==
    /\ stopping /\ \E flag \in {"transient", "corrupt", "fatal"} : Dispatched(flag)
    /\ CancelBurstOnShutdown(te)
    /\ UNCHANGED <<row, daemon, born, corrupt, item, tries, told, stopping, quotaLock, attemptBudget>>

\* handleTransientRetry
HandleTransientRetry ==
    /\ ~stopping /\ Dispatched("transient")
    /\ \E f \in SUBSET {"count"} : Backoff(te, f) /\ Fails(f)
    /\ daemon' = IF te.eph \/ te.lease = 0 THEN daemon ELSE [daemon EXCEPT !.dirty = TRUE]
    /\ UNCHANGED <<row, born, corrupt, tries, told, stopping, quotaLock>>

\* handleSessionCorruptionRetry: a notice, the rotation, and another lease (or none).
HandleSessionCorruptionRetry ==
    /\ ~stopping /\ Dispatched("corrupt")
    /\ \/ Fails({}) /\ told' = IF te.kind = "dispatch" THEN told ELSE "reset"
       \/ Fails({"notice"}) /\ told' = told
    /\ te' = RotateSessionID([te EXCEPT !.pc = "relet", !.current = 0, !.active = 0, !.lease = 0,
                                        !.reset = TRUE])
    /\ UNCHANGED <<row, daemon, born, corrupt, item, tries, stopping, quotaLock>>

Relet ==
    /\ te.pc = "relet"
    /\ \E f \in SUBSET {"read", "lease", "count"} :
         LET s == Lease(te.eph, IF "read" \in f THEN NoRecord ELSE row)
         IN /\ Fails(f)
            /\ IF "lease" \in f THEN Backoff(te, f) /\ UNCHANGED <<born, daemon>>
               ELSE /\ Leased(te.eph, s)
                    /\ Backoff([te EXCEPT !.current = s, !.lease = s,
                                          !.excused = @ \/ (~te.eph /\ daemon.busy)], f)
    /\ UNCHANGED <<row, corrupt, tries, told, stopping, quotaLock>>

\* handleNonTransientFailure
HandleNonTransientFailure ==
    /\ ~stopping /\ Dispatched("fatal")
    /\ \E f \in SUBSET {"notice", "count"} :
         LET t == [te EXCEPT !.pc = "done", !.previous = te.current, !.current = 0, !.active = 0,
                             !.result = << "failed" >>]
         IN /\ Fails(f) /\ Tell("failed", f)
            /\ CountRetryOnce(IF te.current # 0 THEN RotateSessionID(t) ELSE t, "FAILED", f)
    /\ UNCHANGED <<row, daemon, born, corrupt, tries, stopping, quotaLock>>

--------------------
Proceed ==
    \/ StartExecution \/ InterruptedAtHead \/ CheckGlobalQuotaLockout \/ HandleAttemptsExhausted
    \/ \E res \in Successes \cup Failures : ExecutionReturns(res)
    \/ HandleYieldTrap \/ DeliverSuccessAndFinalize
    \/ BackoffEnds \/ BackoffCancelled
    \/ HandleCapacityBlip \/ HandleQuotaPause \/ HandleWatchdogFailure
    \/ FailedAtShutdown \/ HandleTransientRetry \/ HandleSessionCorruptionRetry \/ Relet
    \/ HandleNonTransientFailure \/ CountTurn

\* The statement on the row is waited for.
TurnWork == WriteRow \/ (te.write = << >> /\ Proceed)

AttemptNext ==
    \/ \E kind \in {"message", "dispatch"}, eph \in BOOLEAN : StartTurn(kind, eph)
    \/ \E kind \in {"message", "dispatch"} : LeaseFails(kind)
    \/ Interrupt \/ OperatorResets \/ ProcessIdles \/ HandleBurstPanic
    \/ Stop \/ Restart \/ NextItem \/ QuotaLockEnds
    \/ TurnWork

AttemptSpec == AttemptInit /\ [][AttemptNext]_attemptVars /\ WF_attemptVars(TurnWork)

--------------------
(* Properties. *)

\* The type of the state; no session is used before it was created.
AttemptTypeOK ==
    /\ {row.cur, row.prev, daemon.sess, te.current, te.previous, te.active, te.lease} \subseteq 0..born
    /\ corrupt \subseteq 1..born
    /\ te.pc \in {"idle", "check", "run", "judge", "relet", "backoff", "done"}
    /\ te.attempt \in 0..(AttemptLimit + 1)
    /\ item.status \in {"PENDING", "PROCESSING", "COMPLETED", "FAILED"}

\* executeWithRetries: a turn calls the agent at most once for each attempt it
\* may still make and once for each auto-resume, whatever the mixture of yields
\* and failures is.
ExecutionsAreBounded ==
    Len(tries) <= (AttemptLimit + 1 - te.first) + ResumeLimit

\* handleRetryBackoff, handleCapacityBlip, handleWatchdogFailure and
\* handleNonTransientFailure count a failed attempt once: the stored count is that
\* of the attempts of all lives of the item but for the statements that failed.
RetriesMatchAttempts ==
    /\ item.retry <= AttemptLimit
    /\ te.pc \in {"check", "run", "judge", "relet"} => item.retry = te.attempt - 1 - te.missed

\* handleYieldTrap: the resume prompt does not repeat the request, so it goes
\* only to the session that was sent the request just before.
ResumesStayInSession ==
    \A i \in DOMAIN tries :
      tries[i].prompt = "resume" => i > 1 /\ tries[i - 1].sess = tries[i].sess

\* resolveAndPersistSessionID: after an answered turn, while the turn still has
\* its lease, the row names the session of the answer, unless a statement failed,
\* the turn had to reset its session or was interrupted, or it was the dispatch
\* after which the session is rotated.
AnsweredSessionIsStored ==
    (/\ te.pc = "done" /\ te.result \in {<< "answered" >>, << "counted" >>} /\ te.write = << >>
     /\ ~te.eph /\ ~te.interrupted /\ ~te.reset /\ ~te.excused)
      => \/ row.cur = Last(tries).sess
         \/ te.kind = "dispatch" /\ row.turns = 0 /\ row.prev = Last(tries).sess

\* A message that failed after its turn had started is not dropped in silence:
\* the thread was told, or its notice was lost at Discord, the operator
\* interrupted the turn, or it panicked.
FailuresAreTold ==
    (te.pc = "done" /\ te.kind = "message" /\ item.status = "FAILED" /\ te.leased)
      => te.result \in {<< "interrupted" >>, << "panic" >>} \/ told \notin {"nothing", "answer", "reset"}

\* handleSessionCorruptionRetry resets a corrupt session, and the notice says so
\* ("The conversation context became corrupted and has been reset"): the turn goes
\* on in another, unless the rotation was not stored or the process was still busy.
CorruptSessionIsLeft ==
    (te.pc \in {"check", "run"} /\ te.reset /\ ~te.excused /\ ~te.interrupted) => te.lease \notin corrupt

\* saveSessionID and rotateSessionID: an ephemeral turn leaves the sessions of the
\* thread's row as they are, and one that was interrupted asks for no write of them
\* any more: only a statement under way when the interrupt came, and the reset of
\* the operator himself, still change them.
RowIsLeft ==
    (te.pc # "idle" /\ te'.pc # "idle" /\ (te.eph \/ te.interrupted)) =>
      /\ te'.write \in {te.write, << >>}
      /\ (te.eph \/ te.write = << >>) /\ te'.operator = te.operator =>
            row'.cur = row.cur /\ row'.prev = row.prev
ForeignTurnsLeaveRow == [][RowIsLeft]_attemptVars

\* Every turn that has begun ends, whatever fails.
TurnBegun == te.pc = "check"
TurnEnded == te.pc \in {"done", "idle"}
TurnsEnd == TurnBegun ~> TurnEnded

\* The attempts of a turn are bounded and counted, a resumption stays in its
\* session, the answer's session is stored and a failure is told.
AttemptsAreSound ==
    /\ AttemptTypeOK /\ ExecutionsAreBounded /\ RetriesMatchAttempts /\ ResumesStayInSession
    /\ AnsweredSessionIsStored /\ FailuresAreTold /\ CorruptSessionIsLeft
====================
