----------- MODULE Rollout -----------
(* How synapse follows a merged pull request until its jobs are healthy. *)
(* GitHub, hangar, flux and the Nomad stream report events; each becomes a *)
(* River job, and the workers run the handlers side by side on the rows of *)
(* pr_registry.  One step of a worker is one SQL statement or one request *)
(* to eri or vanadis.  A handler that returns an error is run again from *)
(* its start, at most RolloutAttempts times. *)
EXTENDS PRRegistry, Naturals

CONSTANTS PRs,                 \* pull requests of one repository, numbers
          NomadJobs, Reported,      \* Nomad jobs, and the sets of them a report names
          Chunked, Final,      \* PRs of a vanadis build, and its last ones
          RiverWorkers,        \* River jobs that run at the same time
          RolloutAttempts,     \* MaxAttempts: 5 in the code
          MaxReports,          \* bound: events reported
          MaxMishaps           \* bound: failed statements and requests, restarts

ASSUME RolloutAssumption ==
    /\ PRs \subseteq Nat \ {0} /\ RiverWorkers \subseteq Nat
    /\ Final \subseteq Chunked /\ Chunked \subseteq PRs
    /\ RolloutAttempts \in Nat \ {0}
    /\ Reported \subseteq SUBSET NomadJobs
    /\ MaxReports \in Nat /\ MaxMishaps \in Nat

VARIABLES
    prRows,     \* pr_registry
    byUpdate,   \* <<p, q>> of two pull requests of which p was updated later
    riverWork,  \* the River job in the hands of each worker
    widgetDue,  \* queued widget_sync jobs
    reports, mishaps, restarted,
    untold,     \* ghost: outcomes written to a row that nobody was told of
    advanced,   \* ghost: PRs whose chunk vanadis has advanced
    forsaken    \* ghost: PRs whose River job ran out of attempts, died in a
                \* crash, or was run again after it had written the outcome,
                \* the statement that undoes it having failed with a log line

rolloutVars == <<prRows, byUpdate, riverWork, widgetDue, reports, mishaps, restarted,
                 untold, advanced, forsaken>>

ReportKinds == {"nomad_ok", "nomad_fail", "started", "images", "sync_ok", "deploy_ok",
          "deploy_bad", "sync_bad", "merged"}

\* Where a handler begins; workflow_run without a matching job completes the PR.
FirstStep(k, J) ==
    CASE k = "nomad_ok"               -> "transition"
      [] k = "nomad_fail"             -> "select"
      [] k \in {"started", "sync_ok"} -> "expect"
      [] k = "images"                 -> IF J = {} THEN "check" ELSE "start"
      [] k = "deploy_bad"             -> "mark"
      [] k = "merged"                 -> "merge"
      [] OTHER                        -> "state"

NewTask(k, p, J, n) ==
    [kind |-> k, pr |-> p, jobs |-> J, pc |-> FirstStep(k, J), seen |-> {},
     flag |-> FALSE, tries |-> n]

NoTask == [kind |-> "none", pr |-> 0, jobs |-> {}, pc |-> "idle", seen |-> {},
           flag |-> FALSE, tries |-> 0]

RolloutTypeOK ==
    /\ \A p \in PRs : /\ prRows[p].status \in PRStatus
                      /\ prRows[p].jobs \cup prRows[p].started \cup prRows[p].deployed \subseteq NomadJobs
    /\ \A w \in RiverWorkers : /\ riverWork[w].kind \in ReportKinds \cup {"none"}
                               /\ riverWork[w].pr \in PRs \cup {0}
                               /\ riverWork[w].tries \in 0..RolloutAttempts-1
    /\ untold \in [PRs -> {"none", "success", "failure"}]
    /\ advanced \subseteq Chunked
    /\ byUpdate \subseteq PRs \X PRs
    /\ \A p, q \in PRs : p # q => (<<p, q>> \in byUpdate <=> <<q, p>> \notin byUpdate)

RolloutInit ==
    /\ prRows = [p \in PRs |-> NewRow("h")]
    /\ byUpdate = {pq \in PRs \X PRs : pq[1] > pq[2]}
    /\ riverWork = [w \in RiverWorkers |-> NoTask]
    /\ widgetDue = {} /\ reports = 0 /\ mishaps = 0 /\ restarted = FALSE
    /\ untold = [p \in PRs |-> "none"]
    /\ advanced = {} /\ forsaken = {}

\* Every UPDATE sets updated_at.
SetRow(p, r) ==
    /\ prRows' = [prRows EXCEPT ![p] = r]
    /\ byUpdate' = {pq \in byUpdate : pq[2] # p} \cup ({p} \X (PRs \ {p}))

NoRowChange == UNCHANGED <<prRows, byUpdate>>

StepTo(w, pc) == riverWork' = [riverWork EXCEPT ![w].pc = pc]
JobDone(w) == riverWork' = [riverWork EXCEPT ![w] = NoTask]

\* SyncPRWidget queues one widget_sync job per pull request; it touches no row
\* but those of older ones.
QueueWidget(p) == widgetDue' = IF \E q \in PRs : q < p THEN widgetDue \cup {p} ELSE widgetDue
JobDoneWithWidget(w) == JobDone(w) /\ QueueWidget(riverWork[w].pr)

RolloutMishap == mishaps < MaxMishaps /\ mishaps' = mishaps + 1

OneRunTooMany(w) ==
    LET t == riverWork[w]
    IN  /\ riverWork' = [riverWork EXCEPT ![w] =
                           IF t.tries < RolloutAttempts
                           THEN NewTask(t.kind, IF t.kind \in {"nomad_ok", "nomad_fail"} THEN 0 ELSE t.pr,
                                        t.jobs, t.tries + 1)
                           ELSE NoTask]
        /\ forsaken' = IF t.pr # 0 /\ untold[t.pr] # "none" THEN forsaken \cup {t.pr} ELSE forsaken

\* The handler returns an error: River runs it again or discards it.
ReturnError(w) ==
    LET t == riverWork[w]
        again == t.tries + 1 < RolloutAttempts
    IN  /\ riverWork' = [riverWork EXCEPT ![w] = IF again THEN NewTask(t.kind,
                        IF t.kind \in {"nomad_ok", "nomad_fail"} THEN 0 ELSE t.pr, t.jobs, t.tries + 1)
                        ELSE NoTask]
        /\ forsaken' = IF t.pr # 0 /\ untold[t.pr] # "none" THEN forsaken \cup {t.pr} ELSE forsaken

rolloutBounds == <<reports, mishaps, restarted>>
--------------------
(* Events *)

RiverIdle(w) == riverWork[w] = NoTask

\* Workers are alike: a job goes to the first that is idle.
TakesJob(w) == RiverIdle(w) /\ \A v \in RiverWorkers : v < w => ~RiverIdle(v)

ReportArrives(w, t) ==
    /\ TakesJob(w) /\ reports < MaxReports
    /\ reports' = reports + 1
    /\ riverWork' = [riverWork EXCEPT ![w] = t]
    /\ UNCHANGED <<prRows, byUpdate, widgetDue, mishaps, restarted,
                   untold, advanced, forsaken>>

\* hangar and flux report by pull request; GitHub's workflow_run names the jobs
\* its images belong to; Nomad reports by job.
PullRequestReport(w, p) ==
    \/ \E k \in {"deploy_ok", "deploy_bad", "sync_bad", "merged"} : ReportArrives(w, NewTask(k, p, {}, 0))
    \/ \E J \in Reported : \E k \in {"images", "sync_ok"} : ReportArrives(w, NewTask(k, p, J, 0))
    \/ \E j \in NomadJobs : ReportArrives(w, NewTask("started", p, {j}, 0))

NomadReport(w, j) ==
    \E k \in {"nomad_ok", "nomad_fail"} : ReportArrives(w, NewTask(k, 0, {j}, 0))
--------------------
(* Statements *)

AtMerge(w) ==
    LET p == riverWork[w].pr
    IN  /\ riverWork[w].pc = "merge"
        /\ SetRow(p, UpdatePRMerged(prRows[p]))
        /\ IF p \in Final THEN JobDoneWithWidget(w)
                          ELSE StepTo(w, "advance") /\ UNCHANGED widgetDue
        /\ UNCHANGED <<rolloutBounds, untold, advanced, forsaken>>

\* recordHangarSyncExpectedJobs, and the first half of deploy_started.
AtExpect(w) ==
    LET t == riverWork[w]
        r == prRows[t.pr]
    IN  /\ t.pc = "expect"
        /\ IF t.jobs # {} /\ Expectable(r) THEN SetRow(t.pr, RecordExpectedJobs(r, t.jobs)) ELSE NoRowChange
        /\ riverWork' = [riverWork EXCEPT ![w].pc = IF t.kind = "started" THEN "start" ELSE "state",
                                ![w].flag = t.jobs # {} \/ HasExpectedDeployJobs(r)]
        /\ UNCHANGED <<rolloutBounds, widgetDue, untold, advanced, forsaken>>

\* A started job that is a batch template, or reloads in place, is healthy at
\* once: the handler goes on with HandleNomadJobSuccess and only logs its error.
AtStart(w) ==
    LET t == riverWork[w]
        r == prRows[t.pr]
    IN  /\ t.pc = "start"
        /\ \/ /\ CanStart(r, t.jobs)
              /\ SetRow(t.pr, TransitionDeploying(r, t.jobs))
              /\ untold' = [untold EXCEPT ![t.pr] = "none"]
              /\ \/ JobDoneWithWidget(w)
                 \/ /\ t.kind = "started"
                    /\ riverWork' = [riverWork EXCEPT ![w] = NewTask("nomad_ok", 0, t.jobs, RolloutAttempts - 1)]
                    /\ UNCHANGED widgetDue
           \/ /\ ~CanStart(r, t.jobs)
              /\ NoRowChange /\ JobDone(w) /\ UNCHANGED <<widgetDue, untold>>
        /\ UNCHANGED <<rolloutBounds, advanced, forsaken>>

\* completeNoDeployWorkflowRun
AtCheck(w) ==
    /\ riverWork[w].pc = "check"
    /\ IF HasExpectedDeployJobs(prRows[riverWork[w].pr]) THEN JobDone(w) ELSE StepTo(w, "state")
    /\ NoRowChange /\ UNCHANGED <<rolloutBounds, widgetDue, untold, advanced, forsaken>>

\* The state a handler without a job gives the row.
StateFor(t) ==
    IF t.kind = "sync_bad" THEN "deploy_failed" ELSE IF t.flag THEN "synced" ELSE "deployed"

AfterState(t) ==
    IF t.kind = "sync_bad" THEN "alert" ELSE IF t.kind = "deploy_ok" THEN "tell" ELSE "advance"

AtState(w) ==
    LET t == riverWork[w]
        r == SetPRWidgetState(prRows[t.pr], StateFor(t))
    IN  /\ t.pc = "state"
        /\ SetRow(t.pr, r)
        /\ untold' = [untold EXCEPT ![t.pr] =
                         IF r.status = prRows[t.pr].status THEN @
                         ELSE IF r.status = "deployed" THEN "success"
                         ELSE IF r.status = "deploy_failed" THEN "failure" ELSE "none"]
        /\ StepTo(w, AfterState(t))
        /\ UNCHANGED <<rolloutBounds, widgetDue, advanced, forsaken>>

\* advanceVanadisChunk, by the merge, by a sync and by a run without jobs.  The
\* last chunk of a build waits for its deployment.
AtAdvance(w) ==
    LET t == riverWork[w]
    IN  /\ t.pc = "advance"
        /\ advanced' = IF t.pr \in Chunked /\ ~(t.flag /\ t.pr \in Final)
                       THEN advanced \cup {t.pr} ELSE advanced
        /\ \/ /\ t.kind = "merged" \/ t.flag \/ t.pr \in Chunked
              /\ JobDoneWithWidget(w)
              /\ untold' = IF t.kind # "merged" /\ ~t.flag /\ untold[t.pr] = "success"
                           THEN [untold EXCEPT ![t.pr] = "none"] ELSE untold
           \/ /\ ~(t.kind = "merged" \/ t.flag \/ t.pr \in Chunked)
              /\ StepTo(w, "tell") /\ UNCHANGED <<widgetDue, untold>>
        /\ NoRowChange /\ UNCHANGED <<rolloutBounds, forsaken>>
--------------------
(* HandleNomadJobSuccess *)

\* Of the rows the statement may take, the one updated last.
NewestRow(p, S) == p \in S /\ \A q \in S \ {p} : <<p, q>> \in byUpdate

JobOf(t) == CHOOSE j \in t.jobs : TRUE

AtTransition(w) ==
    LET t == riverWork[w]
        S == {p \in PRs : AwaitsJob(prRows[p], JobOf(t))}
    IN  /\ t.pc = "transition"
        /\ \/ /\ S = {}
              /\ NoRowChange /\ JobDone(w) /\ UNCHANGED <<widgetDue, untold>>
           \/ \E p \in PRs :
              LET r == DeployedByJob(prRows[p], JobOf(t))
              IN  /\ NewestRow(p, S)
                  /\ SetRow(p, r)
                  /\ riverWork' = [riverWork EXCEPT ![w].pr = p, ![w].seen = @ \cup {p},
                                          ![w].pc = IF r.status = "deployed" THEN "tell" ELSE "list"]
                  /\ IF r.status = "deployed"
                     THEN untold' = [untold EXCEPT ![p] = "success"] /\ UNCHANGED widgetDue
                     ELSE QueueWidget(p) /\ UNCHANGED untold
        /\ UNCHANGED <<rolloutBounds, advanced, forsaken>>

\* hasUnseenDeployingPRForJob
AtList(w) ==
    LET t == riverWork[w]
    IN  /\ t.pc = "list"
        /\ IF \E p \in PRs \ t.seen : IsDeploying(prRows[p]) /\ JobOf(t) \in prRows[p].started
           THEN StepTo(w, "transition") ELSE JobDone(w)
        /\ NoRowChange /\ UNCHANGED <<rolloutBounds, widgetDue, untold, advanced, forsaken>>

\* dispatchDeploymentSuccessPrompt: eri is asked to confirm, or the chunk of a
\* vanadis build is advanced.
AtTell(w) ==
    LET t == riverWork[w]
    IN  /\ t.pc = "tell"
        /\ untold' = [untold EXCEPT ![t.pr] = IF @ = "success" THEN "none" ELSE @]
        /\ advanced' = IF t.pr \in Chunked THEN advanced \cup {t.pr} ELSE advanced
        /\ QueueWidget(t.pr)
        /\ IF t.kind = "nomad_ok" THEN StepTo(w, "list") ELSE JobDone(w)
        /\ NoRowChange /\ UNCHANGED <<rolloutBounds, forsaken>>

TellFails(w) ==
    /\ riverWork[w].pc \in {"tell", "advance"}
    /\ RolloutMishap
    /\ IF riverWork[w].kind = "nomad_ok" THEN StepTo(w, "undo") /\ UNCHANGED forsaken ELSE ReturnError(w)
    /\ NoRowChange /\ UNCHANGED <<reports, restarted, widgetDue, untold, advanced>>

\* revertDeployedJobFailure, three statements: the first leaves a deployed row
\* alone.
AtUndo(w) ==
    LET t == riverWork[w]
        r == SetPRWidgetState(prRows[t.pr], "deploying")
    IN  /\ t.pc = "undo"
        /\ SetRow(t.pr, r)
        /\ untold' = IF r.status = "deploying" /\ untold[t.pr] = "failure"
                     THEN [untold EXCEPT ![t.pr] = "none"] ELSE untold
        /\ StepTo(w, "append")
        /\ UNCHANGED <<rolloutBounds, widgetDue, advanced, forsaken>>

AtAppend(w) ==
    LET t == riverWork[w]
    IN  /\ t.pc = "append"
        /\ SetRow(t.pr, AppendPRJobs(prRows[t.pr], t.jobs))
        /\ StepTo(w, "status")
        /\ UNCHANGED <<rolloutBounds, widgetDue, untold, advanced, forsaken>>

AtStatus(w) ==
    LET t == riverWork[w]
    IN  /\ t.pc = "status"
        /\ SetRow(t.pr, UpdatePRStatus(prRows[t.pr], "deploying"))
        /\ untold' = [untold EXCEPT ![t.pr] = "none"]
        /\ riverWork' = [riverWork EXCEPT ![w] = IF t.tries + 1 < RolloutAttempts
                                       THEN NewTask(t.kind, 0, t.jobs, t.tries + 1) ELSE NoTask]
        /\ UNCHANGED <<rolloutBounds, widgetDue, advanced, forsaken>>
--------------------
(* HandleNomadJobFailure and handleHangarDeployFailedOrRollback *)

AtSelect(w) ==
    LET t == riverWork[w]
        S == {p \in PRs : MayBlameJob(prRows[p], JobOf(t))}
    IN  /\ t.pc = "select"
        /\ \/ S = {} /\ JobDone(w)
           \/ \E p \in PRs :
                /\ NewestRow(p, S)
                /\ IF prRows[p].status = "deployed"
                   THEN JobDone(w)                          \* an unmanaged crash alert
                   ELSE riverWork' = [riverWork EXCEPT ![w].pc = "mark", ![w].pr = p]
        /\ NoRowChange /\ UNCHANGED <<rolloutBounds, widgetDue, untold, advanced, forsaken>>

AtMark(w) ==
    LET t == riverWork[w]
    IN  /\ t.pc = "mark"
        /\ \/ /\ CanFailDeploy(prRows[t.pr])
              /\ SetRow(t.pr, UpdatePRStatus(prRows[t.pr], "deploy_failed"))
              /\ untold' = [untold EXCEPT ![t.pr] = "failure"]
              /\ StepTo(w, "banner")
           \/ /\ ~CanFailDeploy(prRows[t.pr])
              /\ NoRowChange /\ JobDone(w) /\ UNCHANGED untold
        /\ UNCHANGED <<rolloutBounds, widgetDue, advanced, forsaken>>

\* The banner comes with a second write of the status.
AtBanner(w) ==
    LET t == riverWork[w]
        r == SetPRWidgetState(prRows[t.pr], "deploy_failed")
    IN  /\ t.pc = "banner"
        /\ SetRow(t.pr, r)
        /\ untold' = IF r.status # prRows[t.pr].status
                     THEN [untold EXCEPT ![t.pr] = "failure"] ELSE untold
        /\ StepTo(w, "alert")
        /\ UNCHANGED <<rolloutBounds, widgetDue, advanced, forsaken>>

AtAlert(w) ==
    LET t == riverWork[w]
    IN  /\ t.pc = "alert"
        /\ untold' = [untold EXCEPT ![t.pr] = IF @ = "failure" THEN "none" ELSE @]
        /\ JobDoneWithWidget(w)
        /\ NoRowChange /\ UNCHANGED <<rolloutBounds, advanced, forsaken>>

AlertFails(w) ==
    /\ riverWork[w].pc = "alert"
    /\ RolloutMishap
    /\ IF riverWork[w].kind = "sync_bad" THEN ReturnError(w) ELSE StepTo(w, "reset") /\ UNCHANGED forsaken
    /\ NoRowChange /\ UNCHANGED <<reports, restarted, widgetDue, untold, advanced>>

NoReset(w) ==
    LET t == riverWork[w]
    IN  /\ t.pc = "reset"
        /\ riverWork' = [riverWork EXCEPT ![w] = IF t.tries + 1 < RolloutAttempts
                                       THEN NewTask(t.kind, IF t.kind = "nomad_fail" THEN 0 ELSE t.pr,
                                                    t.jobs, t.tries + 1)
                                       ELSE NoTask]
        /\ NoRowChange /\ UNCHANGED <<rolloutBounds, widgetDue, untold, advanced, forsaken>>

\* The row goes back to deploying, so that the job that runs again marks it anew.
AtReset(w) ==
    LET t == riverWork[w]
        r == SetPRWidgetState(prRows[t.pr], "deploying")
    IN  /\ t.pc = "reset"
        /\ SetRow(t.pr, r)
        /\ untold' = IF r.status = "deploying" /\ untold[t.pr] = "failure"
                     THEN [untold EXCEPT ![t.pr] = "none"] ELSE untold
        /\ riverWork' = [riverWork EXCEPT ![w] = IF t.tries + 1 < RolloutAttempts
                                       THEN NewTask(t.kind, IF t.kind = "nomad_fail" THEN 0 ELSE t.pr,
                                                    t.jobs, t.tries + 1)
                                       ELSE NoTask]
        /\ UNCHANGED <<rolloutBounds, widgetDue, advanced, forsaken>>

--------------------
\* syncSinglePRWidget: the widget of a deployed PR first declares every older
\* unfinished one of the repository deployed.
WidgetSync(p) ==
    /\ p \in widgetDue
    /\ widgetDue' = widgetDue \ {p}
    /\ LET old == IF prRows[p].status = "deployed" THEN {q \in PRs : q < p} ELSE {}
           hit == {q \in old : SweptRow(prRows[q]) # prRows[q]}
       IN  /\ prRows' = [q \in PRs |-> IF q \in old THEN SweptRow(prRows[q]) ELSE prRows[q]]
           /\ byUpdate' = {pq \in byUpdate : pq[2] \in hit => pq[1] \in hit} \cup hit \X (PRs \ hit)
           /\ untold' = [q \in PRs |-> IF q \in hit THEN "none" ELSE untold[q]]
    /\ UNCHANGED <<rolloutBounds, riverWork, advanced, forsaken>>

\* The process stops: River runs its jobs again; what a job had written stays.
SynapseRestart ==
    /\ RolloutMishap
    /\ restarted' = TRUE
    /\ forsaken' = forsaken \cup {p \in PRs : \E w \in RiverWorkers : riverWork[w].pr = p}
    /\ riverWork' = [w \in RiverWorkers |->
                  LET t == riverWork[w]
                  IN  IF ~RiverIdle(w) /\ t.tries + 1 < RolloutAttempts
                      THEN NewTask(t.kind, IF t.kind \in {"nomad_ok", "nomad_fail"} THEN 0 ELSE t.pr,
                                   t.jobs, t.tries + 1)
                      ELSE NoTask]
    /\ NoRowChange /\ UNCHANGED <<reports, widgetDue, untold, advanced>>

\* ReconcileActiveDeployments at the start: jobs that Nomad calls healthy.
StartupSweep(w, j) ==
    /\ TakesJob(w) /\ restarted /\ reports < MaxReports
    /\ \E p \in PRs : IsDeploying(prRows[p]) /\ j \in prRows[p].started
    /\ reports' = reports + 1
    /\ riverWork' = [riverWork EXCEPT ![w] = NewTask("nomad_ok", 0, {j}, RolloutAttempts - 1)]
    /\ NoRowChange /\ UNCHANGED <<mishaps, restarted, widgetDue, untold, advanced, forsaken>>

StatementFails(w) ==
    /\ \/ riverWork[w].pc \in {"transition", "select", "mark", "merge", "check"}
       \/ riverWork[w].pc = "start" /\ riverWork[w].kind = "images"
    /\ RolloutMishap
    /\ ReturnError(w)
    /\ NoRowChange /\ UNCHANGED <<reports, restarted, widgetDue, untold, advanced>>

\* A statement whose error is only logged: the handler goes on as if it were
\* written.  Where it was to undo an outcome, the job that runs again finds its
\* row marked already.
LoggedFailure(w) ==
    LET t == riverWork[w]
    IN  /\ RolloutMishap
        /\ \/ /\ t.pc = "expect"
              /\ riverWork' = [riverWork EXCEPT ![w].pc = IF t.kind = "started" THEN "start" ELSE "state",
                                                ![w].flag = t.jobs # {}]
              /\ UNCHANGED <<widgetDue, forsaken>>
           \/ /\ t.pc = "state" /\ StepTo(w, AfterState(t))
              /\ UNCHANGED <<widgetDue, forsaken>>
           \/ /\ t.pc = "banner" /\ StepTo(w, "alert") /\ UNCHANGED <<widgetDue, forsaken>>
           \/ /\ t.pc = "undo" /\ StepTo(w, "append") /\ UNCHANGED <<widgetDue, forsaken>>
           \/ /\ t.pc = "append" /\ StepTo(w, "status") /\ UNCHANGED <<widgetDue, forsaken>>
           \/ /\ t.pc = "list" /\ JobDone(w) /\ UNCHANGED <<widgetDue, forsaken>>
           \/ /\ t.pc = "start" /\ t.kind = "started"
              /\ JobDoneWithWidget(w) /\ UNCHANGED forsaken
           \/ /\ t.pc \in {"reset", "status"} /\ ReturnError(w) /\ UNCHANGED widgetDue
        /\ NoRowChange /\ UNCHANGED <<reports, restarted, untold, advanced>>

WorkerStep(w) ==
    \/ AtMerge(w) \/ AtExpect(w) \/ AtStart(w) \/ AtCheck(w) \/ AtState(w) \/ AtAdvance(w)
    \/ AtTransition(w) \/ AtList(w) \/ AtTell(w) \/ AtUndo(w) \/ AtAppend(w) \/ AtStatus(w)
    \/ AtSelect(w) \/ AtMark(w) \/ AtBanner(w) \/ AtAlert(w) \/ AtReset(w)

RolloutNext ==
    \/ \E w \in RiverWorkers : WorkerStep(w) \/ TellFails(w) \/ AlertFails(w) \/ StatementFails(w) \/ LoggedFailure(w)
    \/ \E w \in RiverWorkers, p \in PRs : PullRequestReport(w, p)
    \/ \E w \in RiverWorkers, j \in NomadJobs : NomadReport(w, j) \/ StartupSweep(w, j)
    \/ \E p \in PRs : WidgetSync(p)
    \/ SynapseRestart

RolloutSpec == RolloutInit /\ [][RolloutNext]_rolloutVars
--------------------
InWork(p) == \E w \in RiverWorkers : riverWork[w].pr = p

\* Whoever marks a row deployed or deploy_failed also tells somebody: while an
\* outcome is untold, a handler still has it in hand.  The undo steps after a
\* failed request keep this true when River runs the handler again; the
\* exceptions are handlers that died, and those that were run again past the
\* written row because a logged error had left it as it was.
OutcomeIsTold ==
    \A p \in PRs : untold[p] # "none" => InWork(p) \/ p \in forsaken

\* A job is never both waited for and done, whichever order its reports and
\* their undo steps come in, so that a row with jobs left can still finish.
JobInOneList == \A p \in PRs : prRows[p].jobs \cap prRows[p].deployed = {}

\* synapse's roll-out bookkeeping: an outcome that was written is told, and a job
\* is awaited or done but never both, through retries, undo steps and restarts.
RolloutIsSound ==
    /\ RolloutTypeOK /\ OutcomeIsTold /\ JobInOneList
====================
