----------- MODULE NomadStream -----------
(* How synapse learns from Nomad's event stream whether a job is healthy. *)
(* A subscriber reads the stream in order, filters the events and turns *)
(* each into a River job under an idempotency key; workers process the jobs *)
(* in any order, looking up the live state of the job as they do.  One *)
(* Nomad job is modelled, with its allocations, its evaluations and, for a *)
(* rolling service, its deployment.  An allocation has one task and perhaps *)
(* a dormant poststop task. *)
EXTENDS Naturals, Sequences, FiniteSets

CONSTANTS PoststopTask,       \* the job has a poststop task
          EvalShapes,         \* the evaluations Nomad may report
          MaxAllocs, MaxTaskRestarts,   \* bounds: Nomad's side
          MaxStreamLag,       \* bound: events the subscriber is behind
          StreamBudgets       \* the kind of job, and bounds: versions registered, evaluations
                              \* reported, faults (disconnects, restarts, failed requests),
                              \* events waiting in River

\* Only a canceled evaluation is "canceled after more recent eval was processed".
ASSUME StreamAssumption ==
    /\ PoststopTask \in BOOLEAN /\ MaxAllocs \in Nat /\ MaxTaskRestarts \in Nat /\ MaxStreamLag \in Nat
    /\ \A e \in EvalShapes : e.superseded => e.status = "canceled"
    /\ StreamBudgets \subseteq [kind : {"rolling", "service", "oneshot", "template"}, versions : Nat,
                                evals : Nat, faults : Nat, lag : Nat]

VARIABLES
    jobKind, jobVersion,
    allocs,     \* the allocations Nomad lists, in the order they were made
    deployment, \* status of the latest deployment
    nomadLog,   \* Nomad's event log
    lastIndex,  \* the subscriber's index
    readTo,     \* how much of the log this connection has delivered
    riverKeys,  \* idempotency keys River has seen
    nomadJobs,  \* events waiting in River
    evals, streamBudget,
    lossy,      \* ghost: an event was lost
    toldOk,     \* ghost: a good report was made since the job became healthy
    toldBad     \* ghost: the allocations that were reported as failed

nomadVars == <<jobKind, jobVersion, allocs, deployment, nomadLog, lastIndex, readTo,
               riverKeys, nomadJobs, evals, streamBudget, lossy, toldOk, toldBad>>
nomadSide == <<jobKind, jobVersion, allocs, deployment, nomadLog>>
nomadGhosts == <<lossy, toldOk, toldBad>>

NewAlloc(v) == [version |-> v, desired |-> "run", client |-> "pending", task |-> "new", restarts |-> 0]

AllocEvent(i, a) == [topic |-> "Allocation", id |-> i, alloc |-> a]
JobEvent(v) == [topic |-> "Job", id |-> v]
DeploymentEvent(v, st) == [topic |-> "Deployment", id |-> v, status |-> st]
EvalEvent(n, e) == [topic |-> "Evaluation", id |-> n, eval |-> e]
--------------------
(* Predicates on an allocation *)

\* "Not Restarting", or "Exceeded allowed attempts" after a failure.
RestartExhausted(a) == a.task = "gaveup"
HasFailedTask(a) == a.task = "gaveup"

\* isAllocationRestarting: a pending task counts, unless it is a poststop task;
\* the lookup of those may fail.
TaskRestarting(a, lookup) == a.task \in {"new", "again"} \/ (PoststopTask /\ ~lookup)

IsCandidate(a) ==
    \/ a.desired = "run" /\ a.client = "running"
    \/ a.desired = "run" /\ a.client = "complete" /\ ~HasFailedTask(a)
    \/ a.client = "failed"
    \/ a.desired = "run" /\ RestartExhausted(a)

AllocKey(i, a) ==
    IF a.client = "failed" \/ (a.desired = "run" /\ RestartExhausted(a))
    THEN <<"allocation", i, "failed", 0>>
    ELSE <<"allocation", i, a.client, IF a.client = "running" THEN a.restarts ELSE 0>>

KeepOnlyRunning(a, lookup) ==
    /\ IsCandidate(a)
    /\ ~(a.desired = "run" /\ a.client = "running" /\ TaskRestarting(a, lookup))
    /\ ~RestartExhausted(a)

KeepAlloc(a, lookup) ==
    /\ IsCandidate(a)
    /\ ~( /\ a.desired = "run" /\ a.client = "running"
          /\ ~RestartExhausted(a)
          /\ TaskRestarting(a, lookup) )
--------------------
(* Predicates on an evaluation: [status, unqueued, hard, queued, blockedEval,
   superseded, ofDeployment], the failed task groups without a queued allocation,
   whether one of them is no transient shortage, and whether all are queued. *)

ExplicitFailure(e) ==
    \/ e.status = "failed"
    \/ e.status = "canceled" /\ ~e.superseded /\ ~e.ofDeployment

KeepEval(e) ==
    IF e.status = "blocked" THEN ~e.ofDeployment /\ e.hard
    ELSE \/ e.unqueued \/ ExplicitFailure(e)
         \/ /\ ~(e.blockedEval \/ e.queued \/ e.superseded)
            /\ e.status = "complete"

\* What processNomadEvaluationEvent reports when the job's health is h.
EvalOutcome(e, h) ==
    IF e.status = "blocked"
    THEN IF e.ofDeployment \/ ~e.hard \/ h THEN "none" ELSE "bad"
    ELSE IF e.unqueued \/ ExplicitFailure(e) THEN (IF h THEN "none" ELSE "bad")
    ELSE IF e.blockedEval \/ e.queued THEN "none"
    ELSE IF e.status = "complete" /\ h THEN "ok" ELSE "none"

ExhaustedChecksHealth(a, h, lookup) ==
    IF a.client = "failed" \/ (a.desired = "run" /\ RestartExhausted(a))
    THEN (IF h THEN "none" ELSE "bad")
    ELSE IF ~TaskRestarting(a, lookup) /\ a.desired = "run" /\ h THEN "ok" ELSE "none"

\* processNomadAllocationEvent
AllocOutcome(a, h, lookup) ==
    CASE a.client = "failed"                            -> IF h THEN "none" ELSE "bad"
      [] a.client # "failed" /\ a.desired = "run" /\ RestartExhausted(a) -> "bad"
      [] OTHER -> IF ~TaskRestarting(a, lookup) /\ a.desired = "run" /\ h
                     /\ (a.client = "running" \/ (a.client = "complete" /\ ~HasFailedTask(a)))
                  THEN "ok" ELSE "none"
--------------------
(* isNomadJobHealthy *)

RunningAllocs(s) == {i \in DOMAIN allocs : allocs[i].desired = "run" /\ allocs[i].client \in s}

BatchTemplateHealthy == RunningAllocs({"failed", "pending"}) = {}

OneShotBatchHealthy ==
    LET current == {i \in DOMAIN allocs : allocs[i].version = jobVersion}
    IN  /\ RunningAllocs({"failed", "pending", "running"}) \cap current = {}
        /\ RunningAllocs({"complete"}) \cap current # {}

ServiceHealthy == RunningAllocs({"failed", "pending"}) = {} /\ RunningAllocs({"running"}) # {}

JobHealthy ==
    CASE jobKind = "rolling"  -> deployment = "successful"
      [] jobKind = "template" -> BatchTemplateHealthy
      [] jobKind = "oneshot"  -> OneShotBatchHealthy
      [] OTHER                -> ServiceHealthy

KeyOf(ev) == IF ev.topic = "Allocation" THEN AllocKey(ev.id, ev.alloc) ELSE <<ev.topic, ev.id, "end", 0>>

\* resolveNomadEventIdempotencyKey
KeepEvent(ev, lookup) ==
    CASE ev.topic = "Allocation" -> KeepAlloc(ev.alloc, lookup)
      [] ev.topic = "Evaluation" -> KeepEval(ev.eval)
      [] ev.topic = "Deployment" -> ev.status \in {"successful", "failed", "cancelled"}
      [] OTHER                   -> TRUE

\* ProcessNomadEvent
EventOutcome(ev, h, lookup) ==
    CASE ev.topic = "Allocation" -> AllocOutcome(ev.alloc, h, lookup)
      [] ev.topic = "Evaluation" -> EvalOutcome(ev.eval, h)
      [] ev.topic = "Deployment" -> IF ev.status = "successful" THEN "ok"
                                    ELSE IF ev.status = "running" THEN "none" ELSE "bad"
      [] OTHER -> IF jobKind = "template" THEN "ok" ELSE "none"
--------------------
(* Nomad *)

NomadTypeOK ==
    /\ jobKind = streamBudget.kind /\ jobVersion \in 0..streamBudget.versions
    /\ Len(allocs) <= MaxAllocs
    /\ deployment \in {"none", "running", "successful", "failed"}
    /\ lastIndex \in 0..Len(nomadLog) /\ readTo \in 0..Len(nomadLog)
    /\ \A ev \in nomadJobs : KeyOf(ev) \in riverKeys
    /\ lossy \in BOOLEAN /\ toldOk \in BOOLEAN /\ toldBad \subseteq DOMAIN allocs

NomadInit ==
    /\ streamBudget \in StreamBudgets /\ jobKind = streamBudget.kind /\ jobVersion = 0
    /\ allocs = <<>> /\ deployment = "none" /\ nomadLog = <<>>
    /\ lastIndex = 0 /\ readTo = 0 /\ riverKeys = {} /\ nomadJobs = {}
    /\ evals = 0
    /\ lossy = FALSE /\ toldOk = FALSE /\ toldBad = {}

Emits(ev) ==
    /\ Len(nomadLog) - readTo < MaxStreamLag
    /\ nomadLog' = Append(nomadLog, ev)

SynapseRests == UNCHANGED <<lastIndex, readTo, riverKeys, nomadJobs, streamBudget, lossy>>

\* A good report counts for as long as the job stays healthy.
StillHealthy == toldOk' = (toldOk /\ JobHealthy') /\ UNCHANGED toldBad

\* hangar registers a new version: the old allocations are stopped and a new one
\* is placed; a template has none between its runs.
RegisterJob ==
    /\ jobVersion < streamBudget.versions
    /\ jobKind # "template" => Len(allocs) < MaxAllocs
    /\ jobVersion' = jobVersion + 1
    /\ LET old == [i \in DOMAIN allocs |-> [allocs[i] EXCEPT !.desired = "stop"]]
       IN  allocs' = IF jobKind = "template" THEN old ELSE Append(old, NewAlloc(jobVersion + 1))
    /\ deployment' = IF jobKind = "rolling" THEN "running" ELSE "none"
    /\ Emits(JobEvent(jobVersion + 1))
    /\ toldOk' = FALSE
    /\ UNCHANGED <<jobKind, evals, toldBad>> /\ SynapseRests

Becomes(i, a) ==
    /\ allocs' = [allocs EXCEPT ![i] = a]
    /\ Emits(AllocEvent(i, a))
    /\ UNCHANGED <<jobKind, jobVersion, deployment, evals>> /\ SynapseRests /\ StillHealthy

\* The life of an allocation: its task starts, crashes and restarts within its
\* policy, gives up, or completes.
AllocChanges(i) ==
    LET a == allocs[i]
    IN  /\ a.desired = "run"
        /\ \/ /\ a.task = "new"
              /\ Becomes(i, [a EXCEPT !.client = "running"])       \* another task is up
              /\ a.client = "pending"
           \/ /\ a.task \in {"new", "again"}
              /\ Becomes(i, [a EXCEPT !.client = "running", !.task = "up"])
           \/ /\ a.task = "up" /\ a.restarts < MaxTaskRestarts
              /\ Becomes(i, [a EXCEPT !.task = "again", !.restarts = @ + 1])
           \/ /\ a.task = "up" /\ a.restarts = MaxTaskRestarts
              /\ Becomes(i, [a EXCEPT !.task = "gaveup"])
           \/ /\ a.task = "gaveup" /\ a.client = "running"
              /\ Becomes(i, [a EXCEPT !.client = "failed"])
           \/ /\ a.task = "up" /\ jobKind = "oneshot"
              /\ Becomes(i, [a EXCEPT !.client = "complete", !.task = "done"])

\* Nomad replaces a failed allocation.
Reschedule(i) ==
    /\ allocs[i].desired = "run" /\ allocs[i].client = "failed"
    /\ Len(allocs) < MaxAllocs
    /\ allocs' = Append([allocs EXCEPT ![i].desired = "stop"], NewAlloc(allocs[i].version))
    /\ UNCHANGED <<jobKind, jobVersion, deployment, nomadLog, evals>> /\ SynapseRests /\ StillHealthy

DeploymentEnds ==
    /\ deployment = "running"
    /\ deployment' = IF ServiceHealthy THEN "successful" ELSE "failed"
    /\ Emits(DeploymentEvent(jobVersion, deployment'))
    /\ UNCHANGED <<jobKind, jobVersion, allocs, evals>> /\ SynapseRests /\ StillHealthy

Evaluated(e) ==
    /\ jobVersion > 0 /\ evals < streamBudget.evals
    /\ evals' = evals + 1
    /\ Emits(EvalEvent(evals + 1, e))
    /\ UNCHANGED <<jobKind, jobVersion, allocs, deployment, toldOk, toldBad>> /\ SynapseRests
--------------------
(* synapse *)

StreamFault == streamBudget.faults > 0 /\ streamBudget' = [streamBudget EXCEPT !.faults = @ - 1]

QueueEveryRepeat(ev) ==
    /\ IF KeepEvent(ev, TRUE) THEN nomadJobs' = nomadJobs \cup {ev} ELSE UNCHANGED nomadJobs
    /\ UNCHANGED <<riverKeys, streamBudget, lossy>>

\* handleNomadEvent: an event that River could not take is gone.
HandleNomadEvent(ev) ==
    \/ /\ KeepEvent(ev, TRUE)
       /\ IF KeyOf(ev) \in riverKeys THEN UNCHANGED <<riverKeys, nomadJobs>>
          ELSE riverKeys' = riverKeys \cup {KeyOf(ev)} /\ nomadJobs' = nomadJobs \cup {ev}
       /\ UNCHANGED <<streamBudget, lossy>>
    \/ /\ KeepEvent(ev, TRUE)
       /\ StreamFault /\ lossy' = TRUE
       /\ UNCHANGED <<riverKeys, nomadJobs>>
    \/ /\ ~KeepEvent(ev, TRUE)
       /\ UNCHANGED <<riverKeys, nomadJobs, streamBudget, lossy>>

\* processStreamLine: the index moves before the event is handled.
ReadLine ==
    LET i == readTo + 1
    IN  /\ readTo < Len(nomadLog) /\ Cardinality(nomadJobs) < streamBudget.lag
        /\ readTo' = i
        /\ lastIndex' = IF i > lastIndex THEN i ELSE lastIndex
        /\ HandleNomadEvent(nomadLog[i])
        /\ UNCHANGED <<nomadSide, evals, toldOk, toldBad>>

ReconnectPast ==
    /\ StreamFault
    /\ readTo' = IF lastIndex < Len(nomadLog) THEN lastIndex + 1 ELSE lastIndex
    /\ UNCHANGED <<nomadSide, lastIndex, lossy, riverKeys, nomadJobs, evals, toldOk, toldBad>>

\* Start opens the stream again at lastIndex, and Nomad repeats that event; when
\* Nomad has dropped the index, the stream goes on somewhere later.
Reconnect ==
    /\ StreamFault
    /\ \/ /\ readTo' = IF lastIndex = 0 THEN 0 ELSE lastIndex - 1
          /\ UNCHANGED <<lastIndex, lossy>>
       \/ /\ lastIndex' = 0
          /\ \E n \in readTo..Len(nomadLog) : readTo' = n /\ lossy' = (lossy \/ n > readTo)
    /\ UNCHANGED <<nomadSide, riverKeys, nomadJobs, evals, toldOk, toldBad>>

\* A new process starts where the stream is; ReconcileActiveDeployments reports
\* the jobs that are healthy by then.
StreamRestart ==
    /\ StreamFault
    /\ lastIndex' = 0
    /\ readTo' = Len(nomadLog)
    /\ lossy' = (lossy \/ readTo < Len(nomadLog))
    /\ toldOk' = (toldOk \/ JobHealthy)
    /\ UNCHANGED <<nomadSide, riverKeys, nomadJobs, evals, toldBad>>

\* A worker processes an event; a lookup of the poststop tasks that fails counts
\* as none.
NomadWorker(ev) ==
    /\ ev \in nomadJobs
    /\ nomadJobs' = nomadJobs \ {ev}
    /\ \E lookup \in BOOLEAN :
        /\ \/ lookup /\ UNCHANGED <<streamBudget, lossy>>
           \/ ~lookup /\ PoststopTask /\ StreamFault /\ lossy' = TRUE
        /\ LET o == EventOutcome(ev, JobHealthy, lookup)
           IN  /\ toldOk' = (toldOk \/ (o = "ok" /\ JobHealthy))
               /\ toldBad' = IF ev.topic = "Allocation" /\ o = "bad" THEN toldBad \cup {ev.id} ELSE toldBad
    /\ UNCHANGED <<nomadSide, lastIndex, readTo, riverKeys, evals>>

NomadNext ==
    \/ RegisterJob \/ DeploymentEnds
    \/ \E i \in DOMAIN allocs : AllocChanges(i) \/ Reschedule(i)
    \/ \E e \in EvalShapes : Evaluated(e)
    \/ ReadLine \/ Reconnect \/ StreamRestart
    \/ \E ev \in nomadJobs : NomadWorker(ev)

NomadSpec == NomadInit /\ [][NomadNext]_nomadVars
--------------------
\* Everything Nomad has said is processed, nothing was lost on the way, and no
\* allocation is about to change.
CaughtUp ==
    /\ ~lossy /\ readTo = Len(nomadLog) /\ nomadJobs = {}
    /\ \A i \in DOMAIN allocs : allocs[i].client = "running" => allocs[i].task = "up"

\* A job that is healthy has been reported healthy: no combination of filter,
\* idempotency key, order of the workers and live look-ups swallows the last
\* event that could tell, so a roll-out does not stay "deploying".
HealthIsReported == CaughtUp /\ jobVersion > 0 /\ JobHealthy => toldOk

\* An allocation that has failed and was not replaced has been reported as
\* failed, by its own event or by the one of the task that gave up before it.
FailureIsReported == CaughtUp => RunningAllocs({"failed"}) \subseteq toldBad

\* The subscriber's filter repeats the conditions of the workers: an event it
\* drops is one that no worker would have reported anything for.
FilterLosesNothing ==
    \A i \in DOMAIN nomadLog :
        ~KeepEvent(nomadLog[i], TRUE) => \A h \in BOOLEAN : EventOutcome(nomadLog[i], h, TRUE) = "none"

\* What Nomad says of a job reaches the roll-out although the stream filters,
\* de-duplicates, lags and re-reads: its health and each failure are reported.
StreamIsSound ==
    /\ NomadTypeOK /\ HealthIsReported /\ FailureIsReported /\ FilterLosesNothing
====================
