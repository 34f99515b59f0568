----------- MODULE PRChecks -----------
(* What synapse makes of the CI of one open pull request.  GitHub's events *)
(* become River jobs that run side by side and in any order; a job that *)
(* fails is run again from its start.  The row of the pull request is in *)
(* the database, what is known about the checks of a commit is in maps that *)
(* a restart empties.  A failing check marks the row ci_failed and asks eri *)
(* for a repair, MaxRemediations times at most; a check that recovers opens *)
(* the row again.  Commits are numbered in the order they were pushed. *)
EXTENDS PRRegistry, Naturals, FiniteSets

CONSTANTS BuildChecks,        \* ordinary checks; "gate" and "roborev" are special
          CheckWorkers,       \* River jobs that run at the same time
          CheckAttempts,      \* MaxAttempts: 5 in the code
          MaxRemediations,    \* maxCIRemediationAttempts: 3 in the code
          MaxHeads,           \* bound: commits pushed
          MaxCheckEvents,     \* bound: events reported
          MaxCheckFaults      \* bound: failed statements and requests, restarts

ASSUME ChecksAssumption ==
    /\ IsFiniteSet(CheckWorkers) /\ CheckWorkers \subseteq Nat
    /\ CheckAttempts \in Nat \ {0} /\ MaxRemediations \in Nat
    /\ MaxHeads \in Nat \ {0} /\ MaxCheckEvents \in Nat /\ MaxCheckFaults \in Nat

AllChecks == BuildChecks \cup {"gate", "roborev"}

VARIABLES
    ghHead,     \* the head of the branch on GitHub
    prRow,      \* the row of pr_registry
    failCount,  \* ci_fail_count of its metadata
    noted,      \* nonRoboRevFailedSHAs: the commit it names, 0 if none
    cancelledAt,\* cancelledCheckSHAs
    checkRuns,  \* failedCheckRuns: commit, checks that have failed, that still do
    checkJob,   \* the River job of each worker
    checkEvents, checkFaults,
    broken,     \* ghost: commits that a handled report called failing
    asked,      \* ghost: repairs eri was asked for
    uncounted,  \* ghost: repairs asked for while the counter could not be read
    answered,   \* ghost: somebody was told that the row is ci_failed
    dropped,    \* ghost: the job that should tell it has died or is run again
    overtaken   \* ghost: the head moved under a job that had looked at it

checkVars == <<ghHead, prRow, failCount, noted, cancelledAt, checkRuns, checkJob,
               checkEvents, checkFaults, broken, asked, uncounted, answered,
               dropped, overtaken>>

checkMaps == <<noted, cancelledAt, checkRuns>>
checkGhosts == <<broken, asked, uncounted, answered, dropped, overtaken>>

NoRuns == [at |-> 0, ever |-> {}, active |-> {}]
NoJob == [kind |-> "none", name |-> "none", sha |-> 0, pc |-> "idle", tries |-> 0]

\* Where the handler of an event starts.
FirstPc(kind) ==
    CASE kind \in {"success", "failure"} -> "look"
      [] kind = "synchronize"            -> "forget"
      [] OTHER                           -> "note"

CheckJob(kind, name, h, n) ==
    [kind |-> kind, name |-> name, sha |-> h, pc |-> FirstPc(kind), tries |-> n]

ChecksTypeOK ==
    /\ ghHead \in 1..MaxHeads
    /\ prRow.status \in {"open", "ci_failed", "conflict", "merged", "closed"}
    /\ prRow.head \in 1..MaxHeads
    /\ failCount \in Nat
    /\ noted \in 0..MaxHeads /\ cancelledAt \in 0..MaxHeads
    /\ checkRuns.active \subseteq checkRuns.ever /\ checkRuns.ever \subseteq BuildChecks
    /\ \A w \in CheckWorkers : checkJob[w].tries \in 0..CheckAttempts - 1

ChecksInit ==
    /\ ghHead = 1 /\ prRow = NewRow(1) /\ failCount = 0
    /\ noted = 0 /\ cancelledAt = 0 /\ checkRuns = NoRuns
    /\ checkJob = [w \in CheckWorkers |-> NoJob]
    /\ checkEvents = 0 /\ checkFaults = 0
    /\ broken = {} /\ asked = 0 /\ uncounted = 0
    /\ answered = TRUE /\ dropped = FALSE /\ overtaken = FALSE

CheckStep(w, pc) == checkJob' = [checkJob EXCEPT ![w].pc = pc]
CheckDone(w) == checkJob' = [checkJob EXCEPT ![w] = NoJob]
CheckFault == checkFaults < MaxCheckFaults /\ checkFaults' = checkFaults + 1

Rerun(j) == IF j.kind # "none" /\ j.tries + 1 < CheckAttempts
            THEN CheckJob(j.kind, j.name, j.sha, j.tries + 1) ELSE NoJob

\* The statement that marked the row may have been this job's.
Owes(j) == j.pc \in {"count", "prompt"}
--------------------
(* Events *)

CheckEvent(w, kind, name, h) ==
    /\ checkJob[w] = NoJob
    /\ \A v \in CheckWorkers : v < w => checkJob[v] # NoJob
    /\ checkEvents < MaxCheckEvents
    /\ checkEvents' = checkEvents + 1
    /\ checkJob' = [checkJob EXCEPT ![w] = CheckJob(kind, name, h, 0)]
    /\ UNCHANGED <<prRow, failCount, checkMaps, checkFaults, checkGhosts>>

\* A check_run of any commit of the branch, however late.
CheckRunEvent(w) ==
    /\ \E kind \in {"success", "failure", "cancelled", "pending"}, n \in AllChecks, h \in 1..ghHead :
           CheckEvent(w, kind, n, h)
    /\ UNCHANGED ghHead

PushToBranch(w) ==
    /\ ghHead < MaxHeads
    /\ ghHead' = ghHead + 1
    /\ CheckEvent(w, "synchronize", "none", ghHead + 1)

PullRequestEvent(w) ==
    /\ \E kind \in {"auto_merge_disabled", "closed", "merged"} : CheckEvent(w, kind, "none", ghHead)
    /\ UNCHANGED ghHead
--------------------
(* processGitHubCheckRunEvent, a successful check *)

\* canRecoverNonGateCheckSuccess takes the check off the list as it looks.
Recovers(j) ==
    CASE j.name = "gate"    -> noted = j.sha \/ cancelledAt = j.sha
      [] j.name = "roborev" -> noted # j.sha
      [] OTHER -> checkRuns.at = j.sha /\ j.name \in checkRuns.ever /\ checkRuns.active \subseteq {j.name}

TakeOff(j) ==
    IF j.name \in BuildChecks /\ checkRuns.at = j.sha /\ j.name \in checkRuns.ever
    THEN [checkRuns EXCEPT !.active = @ \ {j.name}] ELSE checkRuns

CheckSucceeds(w) ==
    LET j == checkJob[w]
    IN  /\ j.pc = "look" /\ j.kind = "success"
        /\ checkRuns' = TakeOff(j)
        /\ \/ Recovers(j) /\ CheckStep(w, "forget")
           \/ /\ ~Recovers(j) \/ j.name = "roborev"     \* unless the review was overruled
              /\ CheckDone(w)
        /\ UNCHANGED <<ghHead, prRow, failCount, noted, cancelledAt, checkEvents,
                       checkFaults, checkGhosts>>

\* clearFailedCISHA, by a recovery and by synchronize.
Forget(w) ==
    /\ checkJob[w].pc = "forget"
    /\ noted' = 0 /\ cancelledAt' = 0 /\ checkRuns' = NoRuns
    /\ CheckStep(w, "reopen")
    /\ UNCHANGED <<ghHead, prRow, failCount, checkEvents, checkFaults, checkGhosts>>

\* UpdatePRSync writes the head of the event, whatever the row's is.
Reopen(w) ==
    LET j == checkJob[w]
    IN  /\ j.pc = "reopen"
        /\ prRow' = IF CanSync(prRow, j.sha, FALSE) THEN UpdatePRSync(prRow, j.sha) ELSE prRow
        /\ IF prRow' # prRow
           THEN /\ overtaken' = (overtaken \/ j.sha < prRow.head
                                  \/ \E v \in CheckWorkers : checkJob[v].pc \in {"note", "mark"})
                /\ answered' = TRUE
           ELSE UNCHANGED <<overtaken, answered>>
        /\ CheckDone(w)
        /\ UNCHANGED <<ghHead, failCount, checkMaps, checkEvents, checkFaults, broken,
                       asked, uncounted, dropped>>

\* recordCheckRunStatus
CheckNotDecided(w) ==
    LET j == checkJob[w]
    IN  /\ j.pc = "note" /\ j.kind \in {"cancelled", "pending"}
        /\ cancelledAt' = IF j.kind = "cancelled" /\ j.name # "gate" THEN j.sha ELSE cancelledAt
        /\ checkRuns' = IF j.kind = "pending" /\ checkRuns.at = j.sha
                        THEN [checkRuns EXCEPT !.active = @ \ {j.name}] ELSE checkRuns
        /\ CheckDone(w)
        /\ UNCHANGED <<ghHead, prRow, failCount, noted, checkEvents, checkFaults, checkGhosts>>
--------------------
(* handleCIFailureTransition *)

HeedStaleFailure(w) ==
    LET j == checkJob[w]
    IN  /\ j.pc = "look" /\ j.kind = "failure"
        /\ CheckStep(w, "note")
        /\ UNCHANGED <<ghHead, prRow, failCount, checkMaps, checkEvents, checkFaults, checkGhosts>>

\* isStaleOrIgnoredCIFailure: the gate only counts beside a cancelled check, and
\* a commit that is not the row's head does not count at all.
IgnoreStaleFailure(w) ==
    LET j == checkJob[w]
        ignored == (j.name = "gate" /\ cancelledAt # j.sha) \/ j.sha # prRow.head
    IN  /\ j.pc = "look" /\ j.kind = "failure"
        /\ IF ignored THEN CheckDone(w) ELSE CheckStep(w, "note")
        /\ UNCHANGED <<ghHead, prRow, failCount, checkMaps, checkEvents, checkFaults, checkGhosts>>

NoteOnlyActive(w) ==
    LET j == checkJob[w]
    IN  /\ j.pc = "note" /\ j.kind = "failure"
        /\ noted' = j.sha
        /\ checkRuns' = IF j.name \in BuildChecks
                        THEN [checkRuns EXCEPT !.at = j.sha, !.active = @ \cup {j.name}] ELSE checkRuns
        /\ CheckStep(w, "mark")
        /\ UNCHANGED <<ghHead, prRow, failCount, cancelledAt, checkEvents, checkFaults, checkGhosts>>

\* recordFailedCheckRun and nonRoboRevFailedSHAs
NoteFailure(w) ==
    LET j == checkJob[w]
        fresh == IF checkRuns.at = j.sha THEN checkRuns ELSE [NoRuns EXCEPT !.at = j.sha]
    IN  /\ j.pc = "note" /\ j.kind = "failure"
        /\ broken' = broken \cup {j.sha}
        /\ IF j.name \in BuildChecks
           THEN /\ noted' = j.sha
                /\ checkRuns' = [fresh EXCEPT !.ever = @ \cup {j.name}, !.active = @ \cup {j.name}]
           ELSE UNCHANGED <<noted, checkRuns>>
        /\ CheckStep(w, "mark")
        /\ UNCHANGED <<ghHead, prRow, failCount, cancelledAt, checkEvents, checkFaults,
                       asked, uncounted, answered, dropped, overtaken>>

MarkFinished(w) ==
    /\ checkJob[w].pc = "mark"
    /\ prRow' = UpdatePRStatus(prRow, "ci_failed")
    /\ CheckDone(w)
    /\ UNCHANGED <<ghHead, failCount, checkMaps, checkEvents, checkFaults, checkGhosts>>

MarkConflictSilently(w) ==
    /\ checkJob[w].pc = "mark"
    /\ prRow' = IF CanFailCI(prRow) THEN UpdatePRStatus(prRow, "ci_failed") ELSE prRow
    /\ answered' = (answered /\ prRow' = prRow)
    /\ IF prRow.status = "open" THEN CheckStep(w, "count") ELSE CheckDone(w)
    /\ UNCHANGED <<ghHead, failCount, checkMaps, checkEvents, checkFaults, broken, asked,
                   uncounted, dropped, overtaken>>

\* AtomicTransitionCIFailed: only the job that changed the row goes on.
MarkFailed(w) ==
    /\ checkJob[w].pc = "mark"
    /\ \/ /\ CanFailCI(prRow)
          /\ prRow' = UpdatePRStatus(prRow, "ci_failed")
          /\ answered' = FALSE /\ dropped' = FALSE
          /\ CheckStep(w, "count")
       \/ /\ ~CanFailCI(prRow)
          /\ CheckDone(w)
          /\ UNCHANGED <<prRow, answered, dropped>>
    /\ UNCHANGED <<ghHead, failCount, checkMaps, checkEvents, checkFaults, broken, asked,
                   uncounted, overtaken>>

CountTooLate(w) ==
    /\ checkJob[w].pc = "count"
    /\ failCount' = failCount + 1
    /\ IF failCount <= MaxRemediations
       THEN CheckStep(w, "prompt") /\ UNCHANGED answered
       ELSE CheckDone(w) /\ answered' = TRUE
    /\ UNCHANGED <<ghHead, prRow, checkMaps, checkEvents, checkFaults, broken, asked,
                   uncounted, dropped, overtaken>>

\* checkRemediationCapReached: past the cap a notice replaces the repair, and
\* errors of the notice are only logged.  A counter that fails reads 0.
CountFailure(w) ==
    /\ checkJob[w].pc = "count"
    /\ \/ /\ failCount' = failCount + 1
          /\ IF failCount' <= MaxRemediations
             THEN CheckStep(w, "prompt") /\ UNCHANGED answered
             ELSE CheckDone(w) /\ answered' = TRUE
          /\ UNCHANGED <<checkFaults, uncounted>>
       \/ /\ CheckFault
          /\ uncounted' = uncounted + 1
          /\ CheckStep(w, "prompt")
          /\ UNCHANGED <<failCount, answered>>
    /\ UNCHANGED <<ghHead, prRow, checkMaps, checkEvents, broken, asked, dropped, overtaken>>

\* dispatchCIFailurePrompt
AskForRepair(w) ==
    /\ checkJob[w].pc = "prompt"
    /\ asked' = asked + 1
    /\ answered' = TRUE
    /\ CheckDone(w)
    /\ UNCHANGED <<ghHead, prRow, failCount, checkMaps, checkEvents, checkFaults, broken,
                   uncounted, dropped, overtaken>>
--------------------
(* Other pull_request actions *)

\* handlePRAutoMergeDisabledAction with a merge conflict, and transitionRegisteredConflict
Conflict(w) ==
    LET j == checkJob[w]
    IN  /\ j.pc = "note" /\ j.kind = "auto_merge_disabled"
        /\ noted' = j.sha
        /\ prRow' = IF CanConflict(prRow) THEN UpdatePRStatus(prRow, "conflict") ELSE prRow
        /\ answered' = (answered \/ prRow' # prRow)
        /\ CheckDone(w)
        /\ UNCHANGED <<ghHead, failCount, cancelledAt, checkRuns, checkEvents, checkFaults,
                       broken, asked, uncounted, dropped, overtaken>>

\* handlePRClosedAction
ClosePR(w) ==
    LET j == checkJob[w]
    IN  /\ j.pc = "note" /\ j.kind \in {"closed", "merged"}
        /\ noted' = 0 /\ cancelledAt' = 0 /\ checkRuns' = NoRuns
        /\ prRow' = IF j.kind = "merged" THEN UpdatePRMerged(prRow) ELSE UpdatePRClosedUnmerged(prRow)
        /\ answered' = TRUE
        /\ CheckDone(w)
        /\ UNCHANGED <<ghHead, failCount, checkEvents, checkFaults, broken, asked, uncounted,
                       dropped, overtaken>>

\* A statement or the request to eri fails, and River runs the job again.
CheckJobFails(w) ==
    LET j == checkJob[w]
    IN  /\ j.pc \in {"reopen", "mark", "prompt"}
        /\ CheckFault
        /\ checkJob' = [checkJob EXCEPT ![w] = Rerun(j)]
        /\ dropped' = (dropped \/ Owes(j))
        /\ UNCHANGED <<ghHead, prRow, failCount, checkMaps, checkEvents, broken, asked,
                       uncounted, answered, overtaken>>

\* The maps are lost; the jobs and the row are not.
ChecksRestart ==
    /\ CheckFault
    /\ noted' = 0 /\ cancelledAt' = 0 /\ checkRuns' = NoRuns
    /\ checkJob' = [w \in CheckWorkers |-> Rerun(checkJob[w])]
    /\ dropped' = (dropped \/ \E w \in CheckWorkers : Owes(checkJob[w]))
    /\ UNCHANGED <<ghHead, prRow, failCount, checkEvents, broken, asked, uncounted,
                   answered, overtaken>>

CheckWork(w) ==
    \/ CheckSucceeds(w) \/ Forget(w) \/ Reopen(w) \/ CheckNotDecided(w)
    \/ IgnoreStaleFailure(w) \/ NoteFailure(w) \/ MarkFailed(w) \/ CountFailure(w)
    \/ AskForRepair(w) \/ Conflict(w) \/ ClosePR(w) \/ CheckJobFails(w)

ChecksNext ==
    \/ \E w \in CheckWorkers : CheckWork(w) \/ CheckRunEvent(w) \/ PushToBranch(w) \/ PullRequestEvent(w)
    \/ ChecksRestart

ChecksSpec == ChecksInit /\ [][ChecksNext]_checkVars
--------------------
\* However checks fail, recover, conflict and fail again, and whatever is run
\* twice, eri is asked for at most MaxRemediations repairs of a pull request;
\* only a counter that could not be written lets one more through.
RepairsAreCapped == asked <= MaxRemediations + uncounted

\* A row that became ci_failed is followed by a repair or by the notice that no
\* more are made: of two checks that fail at the same time exactly one job goes
\* on to tell, and it does unless it is interrupted.
FailureIsAnswered ==
    ~answered => dropped \/ \E w \in CheckWorkers : Owes(checkJob[w])

\* The row is ci_failed only for a commit of which a check has failed; a report
\* about an older commit does not fail the new one, unless the head moved after
\* the job had compared it.
NoInheritedFailure ==
    prRow.status = "ci_failed" /\ ~overtaken => prRow.head \in broken

\* A merged or closed pull request is not opened or failed again by a report
\* that was under way.
OverStaysOver ==
    prRow.status \in {"merged", "closed"} => prRow'.status \in {"merged", "closed"}
NoLateReopening == [][OverStaysOver]_checkVars

\* synapse's answer to failing checks: a bounded number of repairs, none of them
\* forgotten, and none for the failure of another commit.
ChecksAreSound ==
    /\ ChecksTypeOK /\ RepairsAreCapped /\ FailureIsAnswered /\ NoInheritedFailure
====================
