----------- MODULE DeployProofs -----------
(* How a change reaches the cluster, for every value of the constants: *)
(* the checks of a pull request, its roll-out and the event stream that *)
(* tells of it (synapse), the checkouts, jobs and variables that follow *)
(* (hangar).  The five parts share no state.  Each has its inductive *)
(* invariant, proved action by action: ...Starts, ...Kept, and ...Enough *)
(* for the property that the runs check. *)
EXTENDS PRChecks, Rollout, NomadStream, GitOps, NomadVars, FiniteSetTheorems, SequenceTheorems, TLAPS
--------------------
(* The checks of a pull request (PRChecks).  A worker works from a row it *)
(* has read: Compared says what it still knows of the row when it writes, *)
(* Counted that each repair is asked for by somebody who was counted. *)

PRRecords ==
    [status : {"open", "ci_failed", "conflict", "merged", "closed"}, head : 1..MaxHeads,
     merged : BOOLEAN, jobs : {{}}, started : {{}}, deployed : {{}}]
RunsNoted == [at : 0..MaxHeads, ever : SUBSET BuildChecks, active : SUBSET BuildChecks]
CheckJobs ==
    [kind : {"none", "success", "failure", "cancelled", "pending", "synchronize", "auto_merge_disabled",
             "closed", "merged"},
     name : AllChecks \cup {"none"}, sha : 0..MaxHeads,
     pc : {"idle", "look", "forget", "note", "reopen", "mark", "count", "prompt"},
     tries : 0..CheckAttempts - 1]

ChecksTypes ==
    /\ ghHead \in 1..MaxHeads /\ prRow \in PRRecords /\ failCount \in Nat
    /\ noted \in 0..MaxHeads /\ cancelledAt \in 0..MaxHeads
    /\ checkRuns \in RunsNoted /\ checkRuns.active \subseteq checkRuns.ever
    /\ checkJob \in [CheckWorkers -> CheckJobs]
    /\ \A w \in CheckWorkers : checkJob[w].pc # "idle" \/ checkJob[w].kind # "none" => checkJob[w].sha \in 1..MaxHeads
    /\ asked \in Nat /\ uncounted \in Nat
    /\ answered \in BOOLEAN /\ dropped \in BOOLEAN /\ overtaken \in BOOLEAN

\* A job that is about to fail the row has noted the failure of its commit, and a job
\* that got past the comparison has the row's head, until somebody moves it.
Compared ==
    \A w \in CheckWorkers :
      /\ checkJob[w].pc = "mark" =>
           checkJob[w].sha \in broken /\ (~overtaken => checkJob[w].sha = prRow.head)
      /\ checkJob[w].pc = "note" /\ checkJob[w].kind = "failure" /\ ~overtaken => checkJob[w].sha = prRow.head

\* Every repair asked for, and every job about to ask, was counted or could not be.
Prompting == {w \in CheckWorkers : checkJob[w].pc = "prompt"}
Granted == (IF failCount <= MaxRemediations THEN failCount ELSE MaxRemediations) + uncounted
Counted == asked + Cardinality(Prompting) <= Granted

ChecksInv == ChecksTypes /\ Compared /\ Counted /\ FailureIsAnswered /\ NoInheritedFailure

LEMMA CheckNumbers ==
    /\ IsFiniteSet(CheckWorkers) /\ MaxHeads \in Nat /\ MaxHeads >= 1 /\ 1..MaxHeads \subseteq 0..MaxHeads
    /\ CheckAttempts \in Nat /\ CheckAttempts >= 1 /\ 0 \in 0..CheckAttempts - 1
    /\ MaxRemediations \in Nat
    /\ NoJob \in CheckJobs /\ NoJob.pc = "idle" /\ NoRuns \in RunsNoted
    /\ NoRuns.active \subseteq NoRuns.ever
BY ChecksAssumption DEF NoJob, CheckJobs, NoRuns, RunsNoted

LEMMA Granting == ASSUME ChecksInv PROVE Granted \in Nat /\ failCount \in Nat /\ uncounted \in Nat /\ asked \in Nat
  BY CheckNumbers DEF ChecksInv, ChecksTypes, Granted

LEMMA FewPrompting ==
    /\ IsFiniteSet(Prompting) /\ Cardinality(Prompting) \in Nat
    /\ Prompting = {} => Cardinality(Prompting) = 0
BY CheckNumbers, FS_Subset, FS_CardinalityType, FS_EmptySet DEF Prompting

LEMMA ChecksStart == ChecksInit => ChecksInv
<1> SUFFICES ASSUME ChecksInit PROVE ChecksInv
  OBVIOUS
<1> USE CheckNumbers
<1>1. NewRow(1) \in PRRecords /\ NewRow(1).status = "open"
  BY DEF NewRow, PRRecords
<1>2. \A w \in CheckWorkers : checkJob[w] = NoJob
  BY DEF ChecksInit
<1>3. ChecksTypes
  <2>1. 1 \in 1..MaxHeads /\ 0 \in 0..MaxHeads
    OBVIOUS
  <2>2. NoJob.kind = "none"
    BY DEF NoJob
  <2>3. checkJob \in [CheckWorkers -> CheckJobs]
    BY DEF ChecksInit
  <2> QED
    BY <1>1, <1>2, <2>1, <2>2, <2>3 DEF ChecksInit, ChecksTypes
<1>4. Compared
  BY <1>2 DEF Compared
<1>5. Counted
  BY <1>2, FewPrompting DEF Prompting, Counted, Granted, ChecksInit
<1>6. FailureIsAnswered /\ NoInheritedFailure
  BY <1>1 DEF ChecksInit, FailureIsAnswered, NoInheritedFailure
<1> QED
  BY <1>3, <1>4, <1>5, <1>6 DEF ChecksInv

LEMMA ChecksEnough == ChecksInv => ChecksAreSound
<1> SUFFICES ASSUME ChecksInv PROVE ChecksAreSound
  OBVIOUS
<1> USE CheckNumbers
<1>1. ChecksTypeOK
  BY DEF ChecksInv, ChecksTypes, ChecksTypeOK, PRRecords, RunsNoted, CheckJobs
<1>2. RepairsAreCapped
  BY Granting, FewPrompting DEF Granted, ChecksInv, Counted, RepairsAreCapped
<1> QED
  BY <1>1, <1>2 DEF ChecksAreSound, ChecksInv

\* Worker w goes on with r, the others stay where they are.
Takes(w, r) == checkJob' = [checkJob EXCEPT ![w] = r]

LEMMA TakesFacts ==
    ASSUME ChecksInv, NEW w \in CheckWorkers, NEW r \in CheckJobs, Takes(w, r)
    PROVE  /\ checkJob' \in [CheckWorkers -> CheckJobs] /\ checkJob'[w] = r
           /\ \A v \in CheckWorkers \ {w} : checkJob'[v] = checkJob[v]
           /\ Cardinality(Prompting) \in Nat /\ Cardinality(Prompting)' \in Nat
           /\ Cardinality(Prompting)' <=
                Cardinality(Prompting) + (IF r.pc = "prompt" /\ checkJob[w].pc # "prompt" THEN 1 ELSE 0)
           /\ r.pc # "prompt" /\ checkJob[w].pc = "prompt" => Cardinality(Prompting)' = Cardinality(Prompting) - 1
<1>1. /\ checkJob' \in [CheckWorkers -> CheckJobs] /\ checkJob'[w] = r
      /\ \A v \in CheckWorkers \ {w} : checkJob'[v] = checkJob[v]
  BY DEF ChecksInv, ChecksTypes, Takes
<1>2. IsFiniteSet(Prompting) /\ Cardinality(Prompting) \in Nat
  BY FewPrompting
<1>3. CASE r.pc = "prompt"
  <2>1. Prompting' = Prompting \cup {w}
    BY <1>1, <1>3 DEF Prompting
  <2>2. w \in Prompting <=> checkJob[w].pc = "prompt"
    BY DEF Prompting
  <2>3. Cardinality(Prompting') = IF w \in Prompting THEN Cardinality(Prompting) ELSE Cardinality(Prompting) + 1
    BY <1>2, <2>1, FS_AddElement
  <2> QED
    BY <1>1, <1>2, <1>3, <2>2, <2>3
<1>4. CASE r.pc # "prompt"
  <2>1. Prompting' = Prompting \ {w}
    BY <1>1, <1>4 DEF Prompting
  <2>2. w \in Prompting <=> checkJob[w].pc = "prompt"
    BY DEF Prompting
  <2>3. Cardinality(Prompting') = IF w \in Prompting THEN Cardinality(Prompting) - 1 ELSE Cardinality(Prompting)
    BY <1>2, <2>1, FS_RemoveElement
  <2>4. Cardinality(Prompting') \in Nat
    BY <1>2, <2>1, FS_RemoveElement, FS_CardinalityType
  <2> QED
    BY <1>1, <1>2, <1>4, <2>2, <2>3, <2>4
<1> QED
  BY <1>3, <1>4

\* What a step of w has to show.
LEMMA CheckKeeps ==
    ASSUME ChecksInv, NEW w \in CheckWorkers, NEW r \in CheckJobs, Takes(w, r),
           r.pc # "idle" \/ r.kind # "none" => r.sha \in 1..MaxHeads,
           ghHead' \in 1..MaxHeads, prRow' \in PRRecords, failCount' \in Nat,
           noted' \in 0..MaxHeads, cancelledAt' \in 0..MaxHeads,
           checkRuns' \in RunsNoted, checkRuns'.active \subseteq checkRuns'.ever,
           asked' \in Nat, uncounted' \in Nat,
           answered' \in BOOLEAN, dropped' \in BOOLEAN, overtaken' \in BOOLEAN,
           broken \subseteq broken', overtaken => overtaken',
           \/ prRow'.head = prRow.head \/ overtaken'
           \/ \A v \in CheckWorkers \ {w} : checkJob[v].pc \notin {"note", "mark"},
           r.pc = "mark" => r.sha \in broken' /\ (~overtaken' => r.sha = prRow'.head),
           r.pc = "note" /\ r.kind = "failure" /\ ~overtaken' => r.sha = prRow'.head,
           prRow'.status = "ci_failed" /\ ~overtaken' => prRow'.head \in broken',
           ~answered' => \/ dropped' \/ Owes(r)
                         \/ ~answered /\ (dropped => dropped') /\ ~Owes(checkJob[w]),
           Counted'
    PROVE  ChecksInv'
BY TakesFacts DEF ChecksInv, ChecksTypes, Compared, FailureIsAnswered, Owes, NoInheritedFailure

\* The count stays right when nobody new is about to ask.
LEMMA CountedKept ==
    ASSUME ChecksInv, NEW w \in CheckWorkers, NEW r \in CheckJobs, Takes(w, r), r.pc # "prompt",
           UNCHANGED <<failCount, uncounted, asked>>
    PROVE  Counted'
BY TakesFacts, Granting DEF Granted, ChecksInv, Counted

\* The next place of a job, and the job that is run again.
LEMMA StepTypes ==
    ASSUME ChecksInv, NEW w \in CheckWorkers, checkJob[w].pc # "idle",
           NEW pc \in {"forget", "note", "reopen", "mark", "count", "prompt"}, CheckStep(w, pc)
    PROVE  \E r \in CheckJobs :
             /\ Takes(w, r) /\ r.pc = pc /\ r.sha = checkJob[w].sha /\ r.kind = checkJob[w].kind
             /\ r.sha \in 1..MaxHeads
<1> DEFINE j == checkJob[w]
           r == [j EXCEPT !.pc = pc]
<1>1. j \in CheckJobs /\ j.sha \in 1..MaxHeads
  BY DEF ChecksInv, ChecksTypes
<1>2. r \in CheckJobs /\ r.pc = pc /\ r.sha = j.sha /\ r.kind = j.kind
  BY <1>1 DEF CheckJobs
<1>3. Takes(w, r)
  BY DEF Takes, CheckStep, ChecksInv, ChecksTypes
<1> HIDE DEF r
<1> QED
  BY <1>1, <1>2, <1>3

LEMMA FirstPlace ==
    \A k : /\ FirstPc(k) \in {"look", "forget", "note"}
           /\ k = "failure" => FirstPc(k) = "look"
  BY DEF FirstPc

LEMMA RerunTypes ==
    ASSUME ChecksInv, NEW w \in CheckWorkers
    PROVE  /\ Rerun(checkJob[w]) \in CheckJobs
           /\ Rerun(checkJob[w]).pc \in {"idle", "look", "forget", "note"}
           /\ Rerun(checkJob[w]).pc # "idle" \/ Rerun(checkJob[w]).kind # "none"
                => Rerun(checkJob[w]).sha \in 1..MaxHeads
           /\ Rerun(checkJob[w]).pc = "note" => Rerun(checkJob[w]).kind # "failure"
BY CheckNumbers, FirstPlace DEF ChecksInv, ChecksTypes, Rerun, CheckJobs, CheckJob, NoJob

\* The types before a step.
LEMMA ChecksBefore ==
    ASSUME ChecksInv
    PROVE  /\ ghHead \in 1..MaxHeads /\ prRow \in PRRecords /\ failCount \in Nat
           /\ noted \in 0..MaxHeads /\ cancelledAt \in 0..MaxHeads
           /\ checkRuns \in RunsNoted /\ checkRuns.active \subseteq checkRuns.ever
           /\ asked \in Nat /\ uncounted \in Nat
           /\ answered \in BOOLEAN /\ dropped \in BOOLEAN /\ overtaken \in BOOLEAN
           /\ ~answered => dropped \/ \E w \in CheckWorkers : Owes(checkJob[w])
           /\ prRow.status = "ci_failed" /\ ~overtaken => prRow.head \in broken
           /\ \A w \in CheckWorkers :
                checkJob[w] \in CheckJobs /\ (checkJob[w].pc # "idle" => checkJob[w].sha \in 1..MaxHeads)
  BY DEF ChecksInv, ChecksTypes, FailureIsAnswered, NoInheritedFailure

LEMMA NoJobFacts == NoJob \in CheckJobs /\ NoJob.pc = "idle" /\ NoJob.kind = "none" /\ ~Owes(NoJob)
  BY CheckNumbers DEF NoJob, Owes

\* A report arrives: the job has looked at nothing yet.
LEMMA CheckEventKeeps ==
    ASSUME ChecksInv, NEW w \in CheckWorkers, NEW h \in 1..MaxHeads,
           NEW name \in AllChecks \cup {"none"},
           NEW kind \in {"success", "failure", "cancelled", "pending", "synchronize", "auto_merge_disabled",
                         "closed", "merged"},
           CheckEvent(w, kind, name, h), ghHead' \in 1..MaxHeads
    PROVE  ChecksInv'
<1> DEFINE r == CheckJob(kind, name, h, 0)
<1>1. /\ checkJob[w] = NoJob /\ Takes(w, r)
      /\ UNCHANGED <<prRow, failCount, noted, cancelledAt, checkRuns, broken, asked, uncounted, answered,
                     dropped, overtaken>>
  BY DEF CheckEvent, Takes, checkMaps, checkGhosts
<1>2. r \in CheckJobs /\ r.pc = FirstPc(kind) /\ r.kind = kind /\ r.sha = h
  BY FirstPlace, CheckNumbers DEF CheckJob, CheckJobs
<1>3. r.pc \in {"look", "forget", "note"} /\ (r.kind = "failure" => r.pc = "look") /\ r.sha \in 1..MaxHeads
  BY <1>2, FirstPlace
<1> HIDE DEF r
<1>4. Counted'
  BY <1>1, <1>2, <1>3, CountedKept
<1>5. ~Owes(checkJob[w])
  BY <1>1, NoJobFacts
<1> QED
  BY <1>1, <1>2, <1>3, <1>4, <1>5, CheckKeeps, ChecksBefore

LEMMA EventKeeps ==
    ASSUME ChecksInv, NEW w \in CheckWorkers, CheckRunEvent(w) \/ PushToBranch(w) \/ PullRequestEvent(w)
    PROVE  ChecksInv'
<1> USE CheckNumbers
<1>0. ghHead \in 1..MaxHeads
  BY ChecksBefore
<1>1. CASE CheckRunEvent(w)
  BY <1>1, <1>0, CheckEventKeeps DEF CheckRunEvent
<1>2. CASE PushToBranch(w)
  BY <1>0, <1>2, CheckEventKeeps DEF PushToBranch
<1>3. CASE PullRequestEvent(w)
  BY <1>3, <1>0, CheckEventKeeps DEF PullRequestEvent
<1> QED
  BY <1>1, <1>2, <1>3

\* Steps that only move the job of w, and the maps.
LEMMA MapStepKeeps ==
    ASSUME ChecksInv, NEW w \in CheckWorkers, NEW r \in CheckJobs, Takes(w, r),
           r.pc \in {"idle", "forget", "reopen"},
           r.pc # "idle" \/ r.kind # "none" => r.sha \in 1..MaxHeads,
           ~Owes(checkJob[w]), UNCHANGED <<ghHead, prRow, failCount, checkGhosts>>,
           noted' \in 0..MaxHeads, cancelledAt' \in 0..MaxHeads,
           checkRuns' \in RunsNoted, checkRuns'.active \subseteq checkRuns'.ever
    PROVE  ChecksInv'
BY CountedKept, CheckKeeps, ChecksBefore DEF checkGhosts

LEMMA CheckSucceedsKeeps == ASSUME ChecksInv, NEW w \in CheckWorkers, CheckSucceeds(w) PROVE ChecksInv'
BY ChecksBefore, StepTypes, MapStepKeeps, NoJobFacts DEF CheckSucceeds, Owes, TakeOff, RunsNoted,
   CheckDone, Takes

LEMMA ForgetKeeps == ASSUME ChecksInv, NEW w \in CheckWorkers, Forget(w) PROVE ChecksInv'
BY StepTypes, CheckNumbers, MapStepKeeps DEF Forget, Owes

LEMMA CheckNotDecidedKeeps == ASSUME ChecksInv, NEW w \in CheckWorkers, CheckNotDecided(w) PROVE ChecksInv'
BY ChecksBefore, CheckNumbers, NoJobFacts, MapStepKeeps DEF CheckNotDecided, Owes, CheckDone,
   Takes, RunsNoted

\* The rows the statements write.
LEMMA RowFacts ==
    ASSUME ChecksInv
    PROVE  /\ \A h \in 1..MaxHeads :
                UpdatePRSync(prRow, h) \in PRRecords /\ UpdatePRSync(prRow, h).status = "open"
           /\ \A s \in {"ci_failed", "conflict"} :
                UpdatePRStatus(prRow, s) \in PRRecords /\ UpdatePRStatus(prRow, s).status = s
                /\ UpdatePRStatus(prRow, s).head = prRow.head
           /\ UpdatePRMerged(prRow) \in PRRecords /\ UpdatePRMerged(prRow).status = "merged"
           /\ UpdatePRMerged(prRow).head = prRow.head
           /\ UpdatePRClosedUnmerged(prRow) \in PRRecords /\ UpdatePRClosedUnmerged(prRow).status = "closed"
           /\ UpdatePRClosedUnmerged(prRow).head = prRow.head
BY ChecksBefore DEF UpdatePRSync, PRRecords, UpdatePRStatus, UpdatePRMerged, UpdatePRClosedUnmerged

LEMMA ReopenKeeps == ASSUME ChecksInv, NEW w \in CheckWorkers, Reopen(w) PROVE ChecksInv'
<1> DEFINE j == checkJob[w]
<1>1. /\ j.pc = "reopen" /\ ~Owes(j) /\ Takes(w, NoJob)
      /\ UNCHANGED <<ghHead, failCount, noted, cancelledAt, checkRuns, broken, asked, uncounted, dropped>>
  BY DEF Reopen, Owes, CheckDone, Takes, checkMaps
<1>2. j.sha \in 1..MaxHeads
  BY <1>1, ChecksBefore
<1>3. Counted'
  BY <1>1, NoJobFacts, CountedKept
<1>4. prRow' \in PRRecords
  BY <1>2, RowFacts, ChecksBefore DEF Reopen
<1>5. CASE prRow' = prRow
  <2>1. UNCHANGED <<overtaken, answered>>
    BY <1>5 DEF Reopen
  <2> QED
    BY <1>1, <1>3, <1>5, <2>1, NoJobFacts, CheckKeeps, ChecksBefore
<1>6. CASE prRow' # prRow
  BY <1>6, <1>2, RowFacts, <1>1, <1>3, <1>4, NoJobFacts, CheckKeeps, ChecksBefore DEF Reopen
<1> QED
  BY <1>5, <1>6

LEMMA IgnoreStaleFailureKeeps == ASSUME ChecksInv, NEW w \in CheckWorkers, IgnoreStaleFailure(w) PROVE ChecksInv'
BY NoJobFacts, MapStepKeeps, ChecksBefore, StepTypes, CountedKept,
   CheckKeeps DEF IgnoreStaleFailure, Owes, checkMaps, CheckDone, Takes, checkGhosts

LEMMA NoteFailureKeeps == ASSUME ChecksInv, NEW w \in CheckWorkers, NoteFailure(w) PROVE ChecksInv'
<1> DEFINE j == checkJob[w]
           fresh == IF checkRuns.at = j.sha THEN checkRuns ELSE [NoRuns EXCEPT !.at = j.sha]
<1>1. /\ j.pc = "note" /\ j.kind = "failure" /\ ~Owes(j) /\ CheckStep(w, "mark")
      /\ broken' = broken \cup {j.sha}
      /\ UNCHANGED <<ghHead, prRow, failCount, cancelledAt, asked, uncounted, answered, dropped, overtaken>>
  BY DEF NoteFailure, Owes
<1>2. PICK r \in CheckJobs : Takes(w, r) /\ r.pc = "mark" /\ r.sha = j.sha /\ r.sha \in 1..MaxHeads
  BY <1>1, StepTypes
<1>3. ~overtaken => j.sha = prRow.head
  BY <1>1 DEF ChecksInv, Compared
<1>4. j.sha \in 0..MaxHeads
  BY <1>2, CheckNumbers
<1>5. noted' \in 0..MaxHeads
  BY <1>4, ChecksBefore DEF NoteFailure
<1>6. checkRuns' \in RunsNoted /\ checkRuns'.active \subseteq checkRuns'.ever
  <2>1. fresh \in RunsNoted /\ fresh.active \subseteq fresh.ever
    BY <1>4, ChecksBefore, CheckNumbers DEF RunsNoted, NoRuns
  <2>2. CASE j.name \in BuildChecks
    <3>1. checkRuns' = [fresh EXCEPT !.ever = @ \cup {j.name}, !.active = @ \cup {j.name}]
      BY <2>2 DEF NoteFailure
    <3> HIDE DEF fresh
    <3> QED
      BY <2>1, <2>2, <3>1 DEF RunsNoted
  <2>3. CASE j.name \notin BuildChecks
    BY <2>3, ChecksBefore DEF NoteFailure
  <2> QED
    BY <2>2, <2>3
<1>7. Counted'
  BY <1>1, <1>2, CountedKept
<1> QED
  BY <1>1, <1>2, <1>3, <1>5, <1>6, <1>7, CheckKeeps, ChecksBefore

LEMMA MarkFailedKeeps == ASSUME ChecksInv, NEW w \in CheckWorkers, MarkFailed(w) PROVE ChecksInv'
<1> DEFINE j == checkJob[w]
<1>1. /\ j.pc = "mark" /\ ~Owes(j)
      /\ UNCHANGED <<ghHead, failCount, noted, cancelledAt, checkRuns, broken, asked, uncounted, overtaken>>
  BY DEF MarkFailed, Owes, checkMaps
<1>2. CASE /\ CanFailCI(prRow) /\ prRow' = UpdatePRStatus(prRow, "ci_failed")
           /\ answered' = FALSE /\ dropped' = FALSE /\ CheckStep(w, "count")
  <2>1. PICK r \in CheckJobs : Takes(w, r) /\ r.pc = "count" /\ r.sha \in 1..MaxHeads
    BY <1>1, <1>2, StepTypes
  <2>2. j.sha \in broken /\ (~overtaken => j.sha = prRow.head)
    BY <1>1 DEF ChecksInv, Compared
  <2>3. prRow' \in PRRecords /\ prRow'.head = prRow.head
    BY <1>2, RowFacts
  <2>4. Counted'
    BY <1>1, <2>1, CountedKept
  <2>5. Owes(r)
    BY <2>1 DEF Owes
  <2> QED
    BY <1>1, <1>2, <2>1, <2>2, <2>3, <2>4, <2>5, CheckKeeps, ChecksBefore
<1>3. CASE UNCHANGED <<prRow, answered, dropped>> /\ CheckDone(w)
  BY <1>3, <1>1, NoJobFacts, CountedKept, CheckKeeps, ChecksBefore DEF CheckDone, Takes
<1> QED
  BY <1>2, <1>3 DEF MarkFailed

LEMMA CountFailureKeeps == ASSUME ChecksInv, NEW w \in CheckWorkers, CountFailure(w) PROVE ChecksInv'
<1> DEFINE j == checkJob[w]
<1>1. /\ j.pc = "count"
      /\ UNCHANGED <<ghHead, prRow, noted, cancelledAt, checkRuns, broken, asked, dropped, overtaken>>
  BY DEF CountFailure, checkMaps
<1>2. asked + Cardinality(Prompting) <= Granted /\ Granted \in Nat
  BY Granting DEF ChecksInv, Counted
<1>3. CASE /\ failCount' = failCount + 1 /\ failCount' <= MaxRemediations
           /\ CheckStep(w, "prompt") /\ UNCHANGED <<answered, uncounted>>
  BY <1>1, <1>3, StepTypes, TakesFacts, ChecksBefore, CheckNumbers, <1>2, Granting,
     CheckKeeps DEF Granted, Counted, Owes
<1>4. CASE /\ failCount' = failCount + 1 /\ ~(failCount' <= MaxRemediations)
           /\ CheckDone(w) /\ answered' = TRUE /\ UNCHANGED uncounted
  <2>1. Takes(w, NoJob)
    BY <1>4 DEF CheckDone, Takes
  <2>2. Cardinality(Prompting)' <= Cardinality(Prompting) /\ Cardinality(Prompting) \in Nat
        /\ Cardinality(Prompting)' \in Nat
    BY <2>1, NoJobFacts, TakesFacts
  <2>3. Granted' >= Granted /\ Granted' \in Nat
    BY <1>4, ChecksBefore, CheckNumbers DEF Granted
  <2>4. Counted'
    BY <1>1, <1>2, <2>2, <2>3, Granting DEF Counted
  <2>5. failCount' \in Nat
    BY <1>4, ChecksBefore
  <2> QED
    BY <1>1, <1>4, <2>1, <2>4, <2>5, NoJobFacts, CheckKeeps, ChecksBefore
<1>5. CASE uncounted' = uncounted + 1 /\ CheckStep(w, "prompt") /\ UNCHANGED <<failCount, answered>>
  BY <1>1, <1>5, StepTypes, TakesFacts, ChecksBefore, CheckNumbers, <1>2, Granting,
     CheckKeeps DEF Granted, Counted, Owes
<1> QED
  BY <1>3, <1>4, <1>5 DEF CountFailure

LEMMA AskForRepairKeeps == ASSUME ChecksInv, NEW w \in CheckWorkers, AskForRepair(w) PROVE ChecksInv'
<1>1. /\ checkJob[w].pc = "prompt" /\ asked' = asked + 1 /\ answered' = TRUE /\ Takes(w, NoJob)
      /\ UNCHANGED <<ghHead, prRow, failCount, noted, cancelledAt, checkRuns, broken, uncounted, dropped, overtaken>>
  BY DEF AskForRepair, CheckDone, Takes, checkMaps
<1>2. asked + Cardinality(Prompting) <= Granted /\ Granted \in Nat
  BY Granting DEF ChecksInv, Counted
<1>3. Cardinality(Prompting)' = Cardinality(Prompting) - 1 /\ Cardinality(Prompting) \in Nat
      /\ Cardinality(Prompting)' \in Nat
  BY <1>1, NoJobFacts, TakesFacts
<1>4. Granted' = Granted
  BY <1>1 DEF Granted
<1>5. Counted'
  BY <1>1, <1>2, <1>3, <1>4, Granting DEF Counted
<1>6. asked' \in Nat
  BY <1>1, ChecksBefore
<1> QED
  BY <1>1, <1>5, <1>6, NoJobFacts, CheckKeeps, ChecksBefore

LEMMA ConflictKeeps == ASSUME ChecksInv, NEW w \in CheckWorkers, Conflict(w) PROVE ChecksInv'
BY ChecksBefore, CheckNumbers, RowFacts, NoJobFacts, CountedKept, CheckKeeps DEF Conflict, Owes,
   CheckDone, Takes

LEMMA ClosePRKeeps == ASSUME ChecksInv, NEW w \in CheckWorkers, ClosePR(w) PROVE ChecksInv'
<1>1. /\ Takes(w, NoJob) /\ noted' = 0 /\ cancelledAt' = 0 /\ checkRuns' = NoRuns /\ answered' = TRUE
      /\ UNCHANGED <<ghHead, failCount, broken, asked, uncounted, dropped, overtaken>>
  BY DEF ClosePR, CheckDone, Takes
<1>2. 0 \in 0..MaxHeads
  BY CheckNumbers
<1>3. prRow' \in PRRecords /\ prRow'.head = prRow.head /\ prRow'.status # "ci_failed"
  BY RowFacts DEF ClosePR
<1>4. Counted'
  BY <1>1, NoJobFacts, CountedKept
<1> QED
  BY <1>1, <1>2, <1>3, <1>4, NoJobFacts, CheckNumbers, CheckKeeps, ChecksBefore

LEMMA CheckJobFailsKeeps == ASSUME ChecksInv, NEW w \in CheckWorkers, CheckJobFails(w) PROVE ChecksInv'
BY RerunTypes, CountedKept, ChecksBefore, CheckKeeps DEF CheckJobFails, Takes, checkMaps, Owes

LEMMA ChecksRestartKeeps == ASSUME ChecksInv, ChecksRestart PROVE ChecksInv'
<1>1. /\ noted' = 0 /\ cancelledAt' = 0 /\ checkRuns' = NoRuns
      /\ checkJob' = [w \in CheckWorkers |-> Rerun(checkJob[w])]
      /\ dropped' = (dropped \/ \E w \in CheckWorkers : Owes(checkJob[w]))
      /\ UNCHANGED <<ghHead, prRow, failCount, broken, asked, uncounted, answered, overtaken>>
  BY DEF ChecksRestart
<1>2. \A w \in CheckWorkers :
         /\ checkJob'[w] \in CheckJobs /\ checkJob'[w].pc \in {"idle", "look", "forget", "note"}
         /\ checkJob'[w].pc # "idle" \/ checkJob'[w].kind # "none" => checkJob'[w].sha \in 1..MaxHeads
         /\ checkJob'[w].pc = "note" => checkJob'[w].kind # "failure"
  BY <1>1, RerunTypes
<1>3. dropped' \in BOOLEAN /\ (dropped => dropped') /\ ~(~answered /\ ~dropped')
  BY <1>1, ChecksBefore
<1>4. ChecksTypes'
  BY <1>1, <1>2, CheckNumbers, <1>3, ChecksBefore DEF ChecksTypes
<1>5. Compared'
  BY <1>2 DEF Compared
<1>6. Counted'
  <2>1. Prompting' = {}
    BY <1>2 DEF Prompting
  <2>2. Cardinality(Prompting)' = 0
    BY <2>1, FS_EmptySet
  <2>3. Granted' = Granted
    BY <1>1 DEF Granted
  <2>4. asked + Cardinality(Prompting) <= Granted /\ Cardinality(Prompting) \in Nat
    BY FewPrompting DEF ChecksInv, Counted
  <2> QED
    BY <1>1, <2>2, <2>3, <2>4, Granting DEF Counted
<1>7. FailureIsAnswered' /\ NoInheritedFailure'
  BY <1>1, <1>3, ChecksBefore DEF FailureIsAnswered, NoInheritedFailure
<1> QED
  BY <1>4, <1>5, <1>6, <1>7 DEF ChecksInv

LEMMA ChecksKept == ChecksInv /\ [ChecksNext]_checkVars => ChecksInv'
<1> SUFFICES ASSUME ChecksInv, [ChecksNext]_checkVars PROVE ChecksInv'
  OBVIOUS
<1>1. CASE UNCHANGED checkVars
  <2>1. UNCHANGED <<ghHead, prRow, failCount, noted, cancelledAt, checkRuns, checkJob, broken, asked, uncounted,
                    answered, dropped, overtaken>>
    BY <1>1 DEF checkVars
  <2>2. ChecksTypes' /\ Compared'
    BY <2>1 DEF ChecksInv, ChecksTypes, Compared
  <2>3. Counted'
    BY <2>1 DEF ChecksInv, Counted, Granted, Prompting
  <2> QED
    BY <2>1, <2>2, <2>3 DEF ChecksInv, FailureIsAnswered, NoInheritedFailure
<1>2. CASE ChecksRestart
  BY <1>2, ChecksRestartKeeps
<1>3. ASSUME NEW w \in CheckWorkers, CheckWork(w) \/ CheckRunEvent(w) \/ PushToBranch(w) \/ PullRequestEvent(w)
      PROVE  ChecksInv'
  <2>1. CASE CheckWork(w)
    BY <2>1, CheckSucceedsKeeps, ForgetKeeps, ReopenKeeps, CheckNotDecidedKeeps, IgnoreStaleFailureKeeps,
       NoteFailureKeeps, MarkFailedKeeps, CountFailureKeeps, AskForRepairKeeps, ConflictKeeps, ClosePRKeeps,
       CheckJobFailsKeeps DEF CheckWork
  <2> QED
    BY <1>3, <2>1, EventKeeps
<1> QED
  BY <1>1, <1>2, <1>3 DEF ChecksNext

\* What keeps a pull request over: the guards of the statements.
LEMMA OverKept == ChecksInv /\ [ChecksNext]_checkVars => OverStaysOver
<1> SUFFICES ASSUME ChecksInv, [ChecksNext]_checkVars, prRow.status \in {"merged", "closed"}, prRow' # prRow
             PROVE  prRow'.status \in {"merged", "closed"}
  BY DEF OverStaysOver
<1>1. prRow.status \in Finished
  BY DEF Finished, Rolling
<1>2. ASSUME NEW w \in CheckWorkers, CheckWork(w) \/ CheckRunEvent(w) \/ PushToBranch(w) \/ PullRequestEvent(w)
      PROVE  ClosePR(w)
  <2>1. ~CheckRunEvent(w) /\ ~PushToBranch(w) /\ ~PullRequestEvent(w)
    BY DEF CheckRunEvent, PushToBranch, PullRequestEvent, CheckEvent
  <2>2. ~Reopen(w)
    BY <1>1 DEF Reopen, CanSync
  <2>3. ~MarkFailed(w)
    BY <1>1 DEF MarkFailed, CanFailCI
  <2>4. ~Conflict(w)
    BY <1>1 DEF Conflict, CanConflict
  <2>5. /\ ~CheckSucceeds(w) /\ ~Forget(w) /\ ~CheckNotDecided(w) /\ ~IgnoreStaleFailure(w) /\ ~NoteFailure(w)
        /\ ~CountFailure(w) /\ ~AskForRepair(w) /\ ~CheckJobFails(w)
    BY DEF CheckSucceeds, Forget, CheckNotDecided, IgnoreStaleFailure, NoteFailure, CountFailure, AskForRepair,
           CheckJobFails
  <2> QED
    BY <1>2, <2>1, <2>2, <2>3, <2>4, <2>5 DEF CheckWork
<1>3. ~ChecksRestart /\ ~UNCHANGED checkVars
  BY DEF ChecksRestart, checkVars
<1>4. ASSUME NEW w \in CheckWorkers, ClosePR(w) PROVE prRow'.status \in {"merged", "closed"}
  BY <1>4, RowFacts DEF ClosePR
<1> QED
  BY <1>2, <1>3, <1>4 DEF ChecksNext

\* For any number of heads, checks, workers and attempts: at most MaxRemediations repairs
\* are asked for beside the uncounted ones, a row that failed is answered, and it fails
\* for its own commit (processGitHubCheckRunEvent, handleCIFailureTransition).
THEOREM ChecksAreSafe == ChecksSpec => []ChecksAreSound
<1>1. ChecksInit => ChecksInv
  BY ChecksStart
<1>2. ChecksInv /\ [ChecksNext]_checkVars => ChecksInv'
  BY ChecksKept
<1> QED
  BY <1>1, <1>2, ChecksEnough, PTL DEF ChecksSpec
--------------------
(* Its roll-out (Rollout).  Fits says what a handler knows at its place, *)
(* Tellers that an outcome nobody was told of is in the hands of a handler *)
(* that will tell it. *)

\* What keeps the roll-out in order.
RowsKept ==
    [status : PRStatus, head : {"h"}, merged : BOOLEAN,
     jobs : SUBSET NomadJobs, started : SUBSET NomadJobs, deployed : SUBSET NomadJobs]
NomadKinds == {"nomad_ok", "nomad_fail"}
RiverTasks ==
    [kind : ReportKinds \cup {"none"}, pr : PRs \cup {0}, jobs : SUBSET NomadJobs,
     pc : {"idle", "transition", "select", "expect", "check", "start", "mark", "merge", "state", "advance",
           "list", "tell", "undo", "append", "status", "banner", "alert", "reset"},
     seen : SUBSET PRs, flag : BOOLEAN, tries : 0..RolloutAttempts - 1]

\* Where a handler can be, and what it knows there.
Fits(t) ==
    /\ t.kind = "none" <=> t.pc = "idle"
    /\ t.kind = "none" => t = NoTask
    /\ t.kind \in NomadKinds \cup {"started"} => t.jobs # {}
    /\ t.kind \notin NomadKinds \cup {"none"} => t.pr \in PRs
    /\ t.pc \in {"list", "tell", "undo", "append", "status", "mark", "banner", "alert", "reset"} => t.pr \in PRs
    /\ t.pc \in {"transition", "list", "undo", "append", "status"} => t.kind = "nomad_ok"
    /\ t.pc = "select" => t.kind = "nomad_fail"
    /\ t.pc \in {"expect", "check", "start", "merge", "state", "advance"} => t.kind \notin NomadKinds
    /\ t.pc = "expect" => t.kind \in {"started", "sync_ok"}
    /\ t.pc \in {"check", "state"} => t.kind # "merged"
    /\ t.pc = "start" => t.kind # "merged"

RolloutTypes ==
    /\ prRows \in [PRs -> RowsKept]
    /\ byUpdate \subseteq PRs \X PRs
    /\ \A p, q \in PRs : p # q => (<<p, q>> \in byUpdate <=> <<q, p>> \notin byUpdate)
    /\ riverWork \in [RiverWorkers -> RiverTasks]
    /\ \A w \in RiverWorkers : Fits(riverWork[w])
    /\ untold \in [PRs -> {"none", "success", "failure"}]
    /\ advanced \subseteq Chunked

\* The handler that has the outcome o of p in hand, at a place where it tells it or undoes it.
Tells(t, p, o) ==
    /\ t.pr = p
    /\ \/ o = "success" /\ t.pc \in {"tell", "undo", "append", "status"}
       \/ o = "success" /\ t.pc = "advance" /\ t.kind # "merged" /\ ~t.flag
       \/ o = "failure" /\ t.pc \in {"banner", "alert", "reset"}

Tellers ==
    \A p \in PRs : untold[p] # "none" /\ p \notin forsaken =>
                     \E w \in RiverWorkers : Tells(riverWork[w], p, untold[p])

\* An outcome that is untold is the one the row has.
RowsAgree ==
    \A p \in PRs : /\ untold[p] = "success" => prRows[p].status = "deployed"
                   /\ untold[p] = "failure" => prRows[p].status = "deploy_failed"

RolloutInv == RolloutTypes /\ Tellers /\ RowsAgree /\ JobInOneList

LEMMA RolloutNumbers ==
    /\ RolloutAttempts \in Nat /\ RolloutAttempts >= 1 /\ 0 \in 0..RolloutAttempts - 1
    /\ RolloutAttempts - 1 \in 0..RolloutAttempts - 1
    /\ \A p \in PRs : p # 0 /\ p \in Nat
    /\ Chunked \subseteq PRs /\ \A J \in Reported : J \in SUBSET NomadJobs
  BY RolloutAssumption

LEMMA IdleFits ==
    /\ NoTask \in RiverTasks /\ Fits(NoTask) /\ NoTask.pc = "idle" /\ NoTask.pr = 0
    /\ \A p, o : ~Tells(NoTask, p, o)
BY RolloutNumbers DEF NoTask, RiverTasks, Fits, NomadKinds, Tells

\* A handler that begins.
LEMMA BeginFits ==
    ASSUME NEW k \in ReportKinds, NEW p \in PRs \cup {0}, NEW J \in SUBSET NomadJobs,
           NEW n \in 0..RolloutAttempts - 1,
           k \in NomadKinds \cup {"started"} => J # {}, k \notin NomadKinds => p \in PRs
    PROVE  NewTask(k, p, J, n) \in RiverTasks /\ Fits(NewTask(k, p, J, n))
<1>1. PICK t : t = NewTask(k, p, J, n)
  OBVIOUS
<1>2. t.kind = k /\ t.pr = p /\ t.jobs = J /\ t.seen = {} /\ t.flag = FALSE /\ t.tries = n /\ t.pc = FirstStep(k, J)
  BY <1>1 DEF NewTask
<1>3. /\ k = "nomad_ok" => FirstStep(k, J) = "transition"
      /\ k = "nomad_fail" => FirstStep(k, J) = "select"
      /\ k \in {"started", "sync_ok"} => FirstStep(k, J) = "expect"
      /\ k = "images" => FirstStep(k, J) \in {"check", "start"}
      /\ k = "deploy_bad" => FirstStep(k, J) = "mark"
      /\ k = "merged" => FirstStep(k, J) = "merge"
      /\ k \in {"deploy_ok", "sync_bad"} => FirstStep(k, J) = "state"
  BY DEF FirstStep
<1>4. k \in {"nomad_ok", "nomad_fail", "started", "images", "sync_ok", "deploy_ok", "deploy_bad", "sync_bad", "merged"}
  BY DEF ReportKinds
<1>5. t.pc \in {"transition", "select", "expect", "check", "start", "mark", "merge", "state"}
  BY <1>2, <1>3, <1>4
<1>6. t \in RiverTasks
  BY <1>1, <1>5 DEF NewTask, RiverTasks
<1>7. Fits(t)
  BY <1>2, <1>3, <1>4 DEF Fits, NomadKinds
<1> QED
  BY <1>1, <1>6, <1>7

LEMMA RolloutStarts == RolloutInit => RolloutInv
<1> SUFFICES ASSUME RolloutInit PROVE RolloutInv
  OBVIOUS
<1> USE RolloutNumbers
<1>1. NewRow("h") \in RowsKept /\ NewRow("h").jobs = {} /\ NewRow("h").deployed = {}
  BY DEF NewRow, RowsKept, PRStatus
<1>2. riverWork \in [RiverWorkers -> RiverTasks] /\ \A w \in RiverWorkers : Fits(riverWork[w])
  BY IdleFits DEF RolloutInit
<1>3. /\ byUpdate \subseteq PRs \X PRs
      /\ \A p, q \in PRs : p # q => (<<p, q>> \in byUpdate <=> <<q, p>> \notin byUpdate)
  BY DEF RolloutInit
<1>4. RolloutTypes
  BY <1>1, <1>2, <1>3 DEF RolloutTypes, RolloutInit
<1>5. Tellers /\ RowsAgree /\ JobInOneList
  BY <1>1 DEF Tellers, RowsAgree, JobInOneList, RolloutInit
<1> QED
  BY <1>4, <1>5 DEF RolloutInv

LEMMA RolloutEnough == RolloutInv => RolloutIsSound
<1> SUFFICES ASSUME RolloutInv PROVE RolloutIsSound
  OBVIOUS
<1>1. RolloutTypeOK
  BY DEF RolloutInv, RolloutTypes, RolloutTypeOK, RowsKept, RiverTasks
<1>2. OutcomeIsTold
  BY DEF RolloutInv, Tellers, Tells, OutcomeIsTold, InWork
<1> QED
  BY <1>1, <1>2 DEF RolloutInv, RolloutIsSound

\* What a step with the handlers and the rows has to show.
Assigns(w, t) == riverWork' = [riverWork EXCEPT ![w] = t]

LEMMA AssignsFacts ==
    ASSUME RolloutInv, NEW w \in RiverWorkers, NEW t \in RiverTasks, Fits(t), Assigns(w, t)
    PROVE  /\ riverWork' \in [RiverWorkers -> RiverTasks] /\ \A v \in RiverWorkers : Fits(riverWork'[v])
           /\ riverWork'[w] = t /\ \A v \in RiverWorkers \ {w} : riverWork'[v] = riverWork[v]
  BY DEF RolloutInv, RolloutTypes, Assigns

Outcomes == {"none", "success", "failure"}

\* A handler makes a step: the row of one pull request may change with it.
LEMMA HandlerKeeps ==
    ASSUME RolloutInv, NEW w \in RiverWorkers, NEW t \in RiverTasks, Fits(t), Assigns(w, t),
           NEW p \in PRs, NEW r \in RowsKept, NEW o \in Outcomes,
           SetRow(p, r) \/ (NoRowChange /\ r = prRows[p]),
           untold' = [untold EXCEPT ![p] = o],
           advanced' \subseteq Chunked, forsaken \subseteq forsaken',
           r.jobs \cap r.deployed = {},
           o = "success" => r.status = "deployed", o = "failure" => r.status = "deploy_failed",
           \/ o = "none" \/ p \in forsaken' \/ Tells(t, p, o)
           \/ o = untold[p] /\ ~Tells(riverWork[w], p, o),
           \A q \in PRs \ {p} : q \in forsaken' \/ ~Tells(riverWork[w], q, untold[q])
    PROVE  RolloutInv'
<1>1. /\ riverWork' \in [RiverWorkers -> RiverTasks] /\ \A v \in RiverWorkers : Fits(riverWork'[v])
      /\ riverWork'[w] = t /\ \A v \in RiverWorkers \ {w} : riverWork'[v] = riverWork[v]
  BY AssignsFacts
<1>2. prRows' = [prRows EXCEPT ![p] = r] /\ prRows \in [PRs -> RowsKept]
  BY DEF RolloutInv, RolloutTypes, SetRow, NoRowChange
<1>3. prRows' \in [PRs -> RowsKept] /\ prRows'[p] = r /\ \A q \in PRs \ {p} : prRows'[q] = prRows[q]
  BY <1>2
<1>4. /\ byUpdate' \subseteq PRs \X PRs
      /\ \A x, y \in PRs : x # y => (<<x, y>> \in byUpdate' <=> <<y, x>> \notin byUpdate')
  BY DEF RolloutInv, RolloutTypes, SetRow, NoRowChange
<1>5. /\ untold' \in [PRs -> {"none", "success", "failure"}] /\ untold'[p] = o
      /\ \A q \in PRs \ {p} : untold'[q] = untold[q]
  BY DEF RolloutInv, RolloutTypes, Outcomes
<1>6. RolloutTypes'
  BY <1>1, <1>3, <1>4, <1>5 DEF RolloutTypes
<1>7. RowsAgree' /\ JobInOneList'
  BY <1>3, <1>5 DEF RolloutInv, RowsAgree, JobInOneList
<1>8. Tellers'
  BY <1>1, <1>5 DEF Tellers, RolloutInv
<1> QED
  BY <1>6, <1>7, <1>8 DEF RolloutInv

\* A handler makes a step that changes no row and no outcome.
LEMMA MovesKeep ==
    ASSUME RolloutInv, NEW w \in RiverWorkers, NEW t \in RiverTasks, Fits(t), Assigns(w, t),
           NoRowChange, UNCHANGED untold, advanced' \subseteq Chunked, forsaken \subseteq forsaken',
           \A q \in PRs : q \in forsaken' \/ untold[q] = "none" \/ ~Tells(riverWork[w], q, untold[q])
                          \/ Tells(t, q, untold[q])
    PROVE  RolloutInv'
BY AssignsFacts DEF NoRowChange, RolloutInv, RolloutTypes, RowsAgree, JobInOneList, Tellers

LEMMA HandlerBefore ==
    ASSUME RolloutInv
    PROVE  /\ \A p \in PRs : /\ prRows[p] \in RowsKept /\ prRows[p].jobs \cap prRows[p].deployed = {}
                             /\ untold[p] \in {"none", "success", "failure"}
                             /\ untold[p] = "success" => prRows[p].status = "deployed"
                             /\ untold[p] = "failure" => prRows[p].status = "deploy_failed"
           /\ \A w \in RiverWorkers : riverWork[w] \in RiverTasks /\ Fits(riverWork[w])
           /\ untold \in [PRs -> {"none", "success", "failure"}] /\ advanced \subseteq Chunked
           /\ \A p \in PRs : untold = [untold EXCEPT ![p] = untold[p]]
  BY DEF RolloutInv, RolloutTypes, RowsAgree, JobInOneList

Places == {"idle", "transition", "select", "expect", "check", "start", "mark", "merge", "state", "advance",
           "list", "tell", "undo", "append", "status", "banner", "alert", "reset"}

LEMMA StepsTo ==
    ASSUME RolloutInv, NEW w \in RiverWorkers, NEW pc \in Places, StepTo(w, pc)
    PROVE  \E t \in RiverTasks :
             /\ Assigns(w, t) /\ t.pc = pc /\ t.kind = riverWork[w].kind /\ t.pr = riverWork[w].pr
             /\ t.jobs = riverWork[w].jobs /\ t.flag = riverWork[w].flag
<1>1. riverWork[w] \in RiverTasks /\ riverWork \in [RiverWorkers -> RiverTasks]
  BY DEF RolloutInv, RolloutTypes
<1>2. PICK t : t = [riverWork[w] EXCEPT !.pc = pc]
  OBVIOUS
<1>3. t \in RiverTasks /\ t.pc = pc /\ t.kind = riverWork[w].kind /\ t.pr = riverWork[w].pr
      /\ t.jobs = riverWork[w].jobs /\ t.flag = riverWork[w].flag
  BY <1>1, <1>2 DEF RiverTasks, Places
<1>4. Assigns(w, t)
  BY <1>1, <1>2 DEF StepTo, Assigns
<1> QED
  BY <1>3, <1>4

LEMMA DoneMoves == ASSUME NEW w, JobDone(w) PROVE Assigns(w, NoTask)
  BY DEF JobDone, Assigns

\* The handler that is run again, or discarded.
LEMMA AgainFits ==
    ASSUME RolloutInv, NEW w \in RiverWorkers, riverWork[w].kind # "none", NEW p \in PRs \cup {0},
           riverWork[w].kind \notin NomadKinds => p = riverWork[w].pr
    PROVE  LET t == riverWork[w]
               n == IF t.tries + 1 < RolloutAttempts THEN NewTask(t.kind, p, t.jobs, t.tries + 1) ELSE NoTask
           IN  n \in RiverTasks /\ Fits(n)
<1> DEFINE t == riverWork[w]
<1>1. t \in RiverTasks /\ Fits(t)
  BY HandlerBefore
<1>2. t.kind \in ReportKinds /\ t.jobs \in SUBSET NomadJobs /\ t.tries \in Nat
      /\ (t.kind \in NomadKinds \cup {"started"} => t.jobs # {}) /\ (t.kind \notin NomadKinds => p \in PRs)
  BY <1>1 DEF RiverTasks, Fits
<1>3. CASE t.tries + 1 < RolloutAttempts
  <2>1. PICK n \in 0..RolloutAttempts - 1 : n = t.tries + 1
    BY <1>2, <1>3, RolloutNumbers
  <2>2. NewTask(t.kind, p, t.jobs, n) \in RiverTasks /\ Fits(NewTask(t.kind, p, t.jobs, n))
    BY <1>2, BeginFits
  <2> QED
    BY <1>3, <2>1, <2>2
<1>4. CASE ~(t.tries + 1 < RolloutAttempts)
  BY <1>4, IdleFits
<1> QED
  BY <1>3, <1>4

LEMMA ReturnErrorKeeps ==
    ASSUME RolloutInv, NEW w \in RiverWorkers, riverWork[w].kind # "none", ReturnError(w), NoRowChange,
           UNCHANGED <<untold, advanced>>
    PROVE  RolloutInv'
<1> DEFINE t == riverWork[w]
           p == IF t.kind \in {"nomad_ok", "nomad_fail"} THEN 0 ELSE t.pr
           n == IF t.tries + 1 < RolloutAttempts THEN NewTask(t.kind, p, t.jobs, t.tries + 1) ELSE NoTask
<1>1. t \in RiverTasks /\ Fits(t) /\ p \in PRs \cup {0}
  BY HandlerBefore DEF RiverTasks
<1>2. n \in RiverTasks /\ Fits(n)
  BY <1>1, AgainFits DEF NomadKinds
<1>3. Assigns(w, n)
  BY DEF ReturnError, Assigns
<1>4. forsaken' = IF t.pr # 0 /\ untold[t.pr] # "none" THEN forsaken \cup {t.pr} ELSE forsaken
  BY DEF ReturnError
<1>5. \A q \in PRs : Tells(t, q, untold[q]) => t.pr = q
  BY DEF Tells
<1>6. \A q \in PRs : q \in forsaken' \/ untold[q] = "none" \/ ~Tells(t, q, untold[q])
  BY <1>4, <1>5, RolloutNumbers
<1> HIDE DEF n
<1> QED
  BY <1>2, <1>3, <1>4, <1>6, MovesKeep, HandlerBefore

\* A handler that has no outcome in hand changes a row and no outcome.
LEMMA RowKeeps ==
    ASSUME RolloutInv, NEW w \in RiverWorkers, NEW t \in RiverTasks, Fits(t), Assigns(w, t),
           NEW p \in PRs, NEW r \in RowsKept, SetRow(p, r) \/ (NoRowChange /\ r = prRows[p]),
           UNCHANGED <<untold, advanced, forsaken>>, r.jobs \cap r.deployed = {},
           untold[p] = "success" => r.status = "deployed", untold[p] = "failure" => r.status = "deploy_failed",
           \A q : ~Tells(riverWork[w], q, untold[q])
    PROVE  RolloutInv'
<1>1. PICK o \in Outcomes : o = untold[p]
  BY HandlerBefore DEF Outcomes
<1>2. untold' = [untold EXCEPT ![p] = o]
  BY <1>1, HandlerBefore
<1>3. advanced' \subseteq Chunked
  BY HandlerBefore
<1>4. ~Tells(riverWork[w], p, o) /\ \A q \in PRs \ {p} : ~Tells(riverWork[w], q, untold[q])
  BY <1>1
<1>5. (o = "success" => r.status = "deployed") /\ (o = "failure" => r.status = "deploy_failed")
  BY <1>1
<1>6. \/ o = "none" \/ p \in forsaken' \/ Tells(t, p, o)
      \/ o = untold[p] /\ ~Tells(riverWork[w], p, o)
  BY <1>1, <1>4
<1>7. \A q \in PRs \ {p} : q \in forsaken' \/ ~Tells(riverWork[w], q, untold[q])
  BY <1>4
<1>8. forsaken \subseteq forsaken'
  OBVIOUS
<1> QED
  BY <1>2, <1>3, <1>5, <1>6, <1>7, <1>8, HandlerKeeps, ZenonT(40)

\* A handler that has no outcome in hand writes one, and has it then.
LEMMA OutcomeKeeps ==
    ASSUME RolloutInv, NEW w \in RiverWorkers, NEW t \in RiverTasks, Fits(t), Assigns(w, t),
           NEW p \in PRs, NEW r \in RowsKept, NEW o \in Outcomes, SetRow(p, r), untold' = [untold EXCEPT ![p] = o],
           UNCHANGED <<advanced, forsaken>>, r.jobs \cap r.deployed = {},
           o = "success" => r.status = "deployed", o = "failure" => r.status = "deploy_failed",
           o = "none" \/ Tells(t, p, o) \/ o = untold[p],
           \A q : ~Tells(riverWork[w], q, untold[q])
    PROVE  RolloutInv'
<1>1. advanced' \subseteq Chunked /\ forsaken \subseteq forsaken'
  BY HandlerBefore
<1>2. \/ o = "none" \/ p \in forsaken' \/ Tells(t, p, o)
      \/ o = untold[p] /\ ~Tells(riverWork[w], p, o)
  OBVIOUS
<1>3. \A q \in PRs \ {p} : q \in forsaken' \/ ~Tells(riverWork[w], q, untold[q])
  OBVIOUS
<1> QED
  BY <1>1, <1>2, <1>3, HandlerKeeps

LEMMA AtMergeKeeps == ASSUME RolloutInv, NEW w \in RiverWorkers, AtMerge(w) PROVE RolloutInv'
<1> DEFINE t == riverWork[w]
<1>1. t \in RiverTasks /\ Fits(t) /\ t.pc = "merge"
  BY HandlerBefore DEF AtMerge
<1>2. PICK p \in PRs : p = t.pr
  BY <1>1 DEF Fits, NomadKinds
<1>3. PICK r : r = UpdatePRMerged(prRows[p])
  OBVIOUS
<1>4. r \in RowsKept /\ r.jobs = prRows[p].jobs /\ r.deployed = prRows[p].deployed
      /\ (prRows[p].status \in {"deployed", "deploy_failed"} => r.status = prRows[p].status)
  <2>1. prRows[p] \in RowsKept
    BY HandlerBefore
  <2>2. PICK s \in PRStatus : s = r.status
    BY <1>3, <2>1 DEF UpdatePRMerged, RowsKept, PRStatus, Finished, Rolling
  <2>3. r = [prRows[p] EXCEPT !.merged = TRUE, !.status = s]
    BY <1>3, <2>1, <2>2 DEF UpdatePRMerged, RowsKept
  <2>4. r \in RowsKept /\ r.jobs = prRows[p].jobs /\ r.deployed = prRows[p].deployed
    BY <2>1, <2>2, <2>3 DEF RowsKept
  <2>5. prRows[p].status \in {"deployed", "deploy_failed"} => r.status = prRows[p].status
    BY <1>3, <2>1 DEF UpdatePRMerged, RowsKept
  <2> QED
    BY <2>4, <2>5
<1>5. SetRow(p, r) /\ UNCHANGED <<untold, advanced, forsaken>>
  BY <1>2, <1>3 DEF AtMerge
<1>6. \A q : ~Tells(t, q, untold[q])
  BY <1>1 DEF Tells
<1>7. \E n \in RiverTasks : Fits(n) /\ Assigns(w, n)
  BY DoneMoves, IdleFits, StepsTo, <1>1 DEF Places, Fits, NomadKinds, AtMerge, JobDoneWithWidget
<1>8. PICK n \in RiverTasks : Fits(n) /\ Assigns(w, n)
  BY <1>7
<1>9. (untold[p] = "success" => r.status = "deployed") /\ (untold[p] = "failure" => r.status = "deploy_failed")
  BY <1>4, HandlerBefore
<1>10. r.jobs \cap r.deployed = {}
  BY <1>4, HandlerBefore
<1> QED
  BY <1>4, <1>5, <1>6, <1>8, <1>9, <1>10, RowKeeps

LEMMA AtExpectKeeps == ASSUME RolloutInv, NEW w \in RiverWorkers, AtExpect(w) PROVE RolloutInv'
<1> DEFINE t == riverWork[w]
<1>1. t \in RiverTasks /\ Fits(t) /\ t.pc = "expect"
  BY HandlerBefore DEF AtExpect
<1>2. PICK p \in PRs : p = t.pr
  BY <1>1 DEF Fits, NomadKinds
<1>3. PICK r : r = IF t.jobs # {} /\ Expectable(prRows[p]) THEN RecordExpectedJobs(prRows[p], t.jobs) ELSE prRows[p]
  OBVIOUS
<1>4. prRows[p] \in RowsKept /\ t.jobs \in SUBSET NomadJobs /\ prRows[p].jobs \cap prRows[p].deployed = {}
  BY <1>1, HandlerBefore DEF RiverTasks
<1>5. r \in RowsKept /\ r.jobs \cap r.deployed = {} /\ r.status = prRows[p].status
  BY <1>3, <1>4 DEF RecordExpectedJobs, RowsKept
<1>6. SetRow(p, r) \/ (NoRowChange /\ r = prRows[p])
  BY <1>2, <1>3 DEF AtExpect
<1>7. \A q : ~Tells(t, q, untold[q])
  BY <1>1 DEF Tells
<1>8. PICK n : n = [t EXCEPT !.pc = IF t.kind = "started" THEN "start" ELSE "state",
                            !.flag = t.jobs # {} \/ HasExpectedDeployJobs(prRows[p])]
  OBVIOUS
<1>9. Assigns(w, n)
  BY <1>2, <1>8 DEF AtExpect, Assigns, RolloutInv, RolloutTypes
<1>10. n \in RiverTasks /\ n.kind = t.kind /\ n.pr = t.pr /\ n.jobs = t.jobs
       /\ n.pc = IF t.kind = "started" THEN "start" ELSE "state"
  BY <1>1, <1>8 DEF RiverTasks
<1>11. Fits(n)
  BY <1>1, <1>10 DEF Fits, NomadKinds
<1>12. UNCHANGED <<untold, advanced, forsaken>>
  BY DEF AtExpect
<1> QED
  BY <1>5, <1>6, <1>7, <1>9, <1>10, <1>11, <1>12, RowKeeps, HandlerBefore

LEMMA AtStartKeeps == ASSUME RolloutInv, NEW w \in RiverWorkers, AtStart(w) PROVE RolloutInv'
<1> DEFINE t == riverWork[w]
<1>1. t \in RiverTasks /\ Fits(t) /\ t.pc = "start" /\ t.jobs \in SUBSET NomadJobs
  BY HandlerBefore DEF AtStart, RiverTasks
<1>2. PICK p \in PRs : p = t.pr
  BY <1>1 DEF Fits, NomadKinds
<1>3. \A q : ~Tells(t, q, untold[q])
  BY <1>1 DEF Tells
<1>4. UNCHANGED <<advanced, forsaken>>
  BY DEF AtStart
<1>5. CASE NoRowChange /\ JobDone(w) /\ UNCHANGED untold
  BY <1>3, <1>4, <1>5, DoneMoves, IdleFits, MovesKeep, HandlerBefore
<1>6. CASE /\ SetRow(p, TransitionDeploying(prRows[p], t.jobs)) /\ untold' = [untold EXCEPT ![p] = "none"]
           /\ \/ JobDone(w)
              \/ /\ t.kind = "started"
                 /\ riverWork' = [riverWork EXCEPT ![w] = NewTask("nomad_ok", 0, t.jobs, RolloutAttempts - 1)]
  <2>1. PICK r : r = TransitionDeploying(prRows[p], t.jobs)
    OBVIOUS
  <2>2. r \in RowsKept /\ r.jobs \cap r.deployed = {} /\ r.status = "deploying"
    BY <1>1, <2>1, HandlerBefore, ZenonT(40) DEF TransitionDeploying, RowsKept, PRStatus, Finished, Rolling
  <2>3. \E n \in RiverTasks : Fits(n) /\ Assigns(w, n)
    <3>1. CASE JobDone(w)
      BY <3>1, DoneMoves, IdleFits
    <3>2. CASE /\ t.kind = "started"
               /\ riverWork' = [riverWork EXCEPT ![w] = NewTask("nomad_ok", 0, t.jobs, RolloutAttempts - 1)]
      <4>1. t.jobs # {}
        BY <1>1, <3>2 DEF Fits
      <4>2. PICK m \in 0..RolloutAttempts - 1 : m = RolloutAttempts - 1
        BY RolloutNumbers
      <4>3. NewTask("nomad_ok", 0, t.jobs, m) \in RiverTasks /\ Fits(NewTask("nomad_ok", 0, t.jobs, m))
        BY <1>1, <4>1, BeginFits DEF ReportKinds, NomadKinds
      <4> QED
        BY <3>2, <4>2, <4>3 DEF Assigns
    <3> QED
      BY <1>6, <3>1, <3>2
  <2>4. PICK n \in RiverTasks : Fits(n) /\ Assigns(w, n)
    BY <2>3
  <2>5. PICK o \in Outcomes : o = "none"
    BY DEF Outcomes
  <2>6. untold' = [untold EXCEPT ![p] = o] /\ SetRow(p, r)
    BY <1>6, <2>1, <2>5
  <2> QED
    BY <1>3, <1>4, <2>2, <2>4, <2>5, <2>6, HandlerKeeps, HandlerBefore
<1> QED
  BY <1>2, <1>5, <1>6 DEF AtStart, JobDoneWithWidget

\* Where the next place of a handler is allowed.
LEMMA StepFits ==
    ASSUME RolloutInv, NEW w \in RiverWorkers, NEW pc \in Places, StepTo(w, pc), riverWork[w].kind # "none",
           pc \in {"list", "tell", "undo", "append", "status", "mark", "banner", "alert", "reset"} => riverWork[w].pr \in PRs,
           pc \in {"transition", "list", "undo", "append", "status"} => riverWork[w].kind = "nomad_ok",
           pc \notin {"idle", "select", "expect", "start", "check"},
           pc \in {"merge", "state", "advance"} => riverWork[w].kind \notin NomadKinds,
           pc = "state" => riverWork[w].kind # "merged"
    PROVE  \E t \in RiverTasks :
             /\ Fits(t) /\ Assigns(w, t) /\ t.pc = pc /\ t.kind = riverWork[w].kind /\ t.pr = riverWork[w].pr
             /\ t.flag = riverWork[w].flag
BY StepsTo, HandlerBefore DEF Fits

LEMMA AtCheckKeeps == ASSUME RolloutInv, NEW w \in RiverWorkers, AtCheck(w) PROVE RolloutInv'
BY HandlerBefore, DoneMoves, IdleFits, StepFits, MovesKeep DEF AtCheck, Tells, Places, Fits

LEMMA AtStateKeeps == ASSUME RolloutInv, NEW w \in RiverWorkers, AtState(w) PROVE RolloutInv'
<1> DEFINE t == riverWork[w]
<1>1. t \in RiverTasks /\ Fits(t) /\ t.pc = "state" /\ UNCHANGED <<advanced, forsaken>>
  BY HandlerBefore DEF AtState
<1>2. PICK p \in PRs : p = t.pr
  BY <1>1 DEF Fits, NomadKinds
<1>3. \A q : ~Tells(t, q, untold[q])
  BY <1>1 DEF Tells
<1>4. PICK r : r = SetPRWidgetState(prRows[p], StateFor(t))
  OBVIOUS
<1>5. StateFor(t) \in {"deploy_failed", "synced", "deployed"}
      /\ (StateFor(t) = "deploy_failed" => t.kind = "sync_bad")
      /\ (StateFor(t) = "deployed" => t.kind # "sync_bad" /\ ~t.flag)
  BY DEF StateFor
<1>6. r \in RowsKept /\ r.jobs = prRows[p].jobs /\ r.deployed = prRows[p].deployed
  BY <1>4, <1>5, HandlerBefore DEF SetPRWidgetState, RowsKept, PRStatus, Finished, Rolling
<1>7. r.status = prRows[p].status \/ r.status = StateFor(t)
  BY <1>4, HandlerBefore DEF SetPRWidgetState, RowsKept
<1>8. PICK o : o = IF r.status = prRows[p].status THEN untold[p]
                   ELSE IF r.status = "deployed" THEN "success"
                   ELSE IF r.status = "deploy_failed" THEN "failure" ELSE "none"
  OBVIOUS
<1>9. o \in Outcomes /\ (o = "success" => r.status = "deployed") /\ (o = "failure" => r.status = "deploy_failed")
  BY <1>8, HandlerBefore DEF Outcomes
<1>10. SetRow(p, r) /\ untold' = [untold EXCEPT ![p] = o]
  BY <1>2, <1>4, <1>8, HandlerBefore DEF AtState
<1>11. PICK pc \in Places : /\ pc = AfterState(t)
                            /\ pc = IF t.kind = "sync_bad" THEN "alert" ELSE IF t.kind = "deploy_ok" THEN "tell" ELSE "advance"
  BY DEF Places, AfterState
<1>12. StepTo(w, pc) /\ t.kind # "none" /\ t.kind \notin NomadKinds /\ t.kind # "merged"
  BY <1>1, <1>11 DEF AtState, Fits
<1>13. PICK n \in RiverTasks : Fits(n) /\ Assigns(w, n) /\ n.pc = pc /\ n.kind = t.kind /\ n.pr = t.pr /\ n.flag = t.flag
  BY <1>2, <1>11, <1>12, StepFits
<1>14. \/ o = "none" \/ Tells(n, p, o)
       \/ o = untold[p]
  BY <1>3, <1>8, <1>2, <1>7, <1>13, <1>9, <1>5, <1>11, <1>12 DEF Tells, Outcomes
<1>15. r.jobs \cap r.deployed = {}
  BY <1>6, HandlerBefore
<1> QED
  BY <1>1, <1>3, <1>6, <1>9, <1>10, <1>13, <1>14, <1>15, OutcomeKeeps

LEMMA AtAdvanceKeeps == ASSUME RolloutInv, NEW w \in RiverWorkers, AtAdvance(w) PROVE RolloutInv'
<1> DEFINE t == riverWork[w]
<1>1. t \in RiverTasks /\ Fits(t) /\ t.pc = "advance" /\ NoRowChange /\ UNCHANGED forsaken
  BY HandlerBefore DEF AtAdvance
<1>2. PICK p \in PRs : p = t.pr
  BY <1>1 DEF Fits, NomadKinds
<1>3. advanced' \subseteq Chunked
  BY <1>2, HandlerBefore DEF AtAdvance
<1>4. t.kind # "none" /\ t.kind \notin NomadKinds
  BY <1>1 DEF Fits
<1>5. CASE /\ JobDone(w)
           /\ untold' = IF t.kind # "merged" /\ ~t.flag /\ untold[t.pr] = "success"
                        THEN [untold EXCEPT ![t.pr] = "none"] ELSE untold
  <2>1. Assigns(w, NoTask)
    BY <1>5, DoneMoves
  <2>2. CASE t.kind # "merged" /\ ~t.flag /\ untold[p] = "success"
    <3>1. PICK o \in Outcomes : o = "none"
      BY DEF Outcomes
    <3>2. untold' = [untold EXCEPT ![p] = o]
      BY <1>2, <1>5, <2>2, <3>1
    <3>3. PICK r \in RowsKept : r = prRows[p]
      BY HandlerBefore
    <3>4. \A q \in PRs \ {p} : ~Tells(t, q, untold[q])
      BY <1>2 DEF Tells
    <3>5. r.jobs \cap r.deployed = {} /\ (NoRowChange /\ r = prRows[p])
      BY <1>1, <3>3, HandlerBefore
    <3> QED
      BY <1>1, <1>3, <2>1, <3>1, <3>2, <3>4, <3>5, IdleFits, HandlerKeeps
  <2>3. CASE ~(t.kind # "merged" /\ ~t.flag /\ untold[p] = "success")
    BY <1>2, <1>5, <2>3, <1>1, <1>3, <2>1, IdleFits, MovesKeep DEF Tells
  <2> QED
    BY <2>2, <2>3
<1>6. CASE StepTo(w, "tell") /\ UNCHANGED untold
  BY <1>2, <1>4, <1>6, StepFits, <1>1, <1>3, MovesKeep DEF Places, Tells
<1> QED
  BY <1>5, <1>6 DEF AtAdvance, JobDoneWithWidget

LEMMA JobOfIsOne ==
    ASSUME RolloutInv, NEW w \in RiverWorkers, riverWork[w].kind \in NomadKinds
    PROVE  JobOf(riverWork[w]) \in NomadJobs
BY HandlerBefore DEF Fits, RiverTasks, JobOf

LEMMA AtTransitionKeeps == ASSUME RolloutInv, NEW w \in RiverWorkers, AtTransition(w) PROVE RolloutInv'
<1> DEFINE t == riverWork[w]
           S == {p \in PRs : AwaitsJob(prRows[p], JobOf(t))}
<1>1. t \in RiverTasks /\ Fits(t) /\ t.pc = "transition" /\ UNCHANGED <<advanced, forsaken>>
  BY HandlerBefore DEF AtTransition
<1>2. \A q : ~Tells(t, q, untold[q])
  BY <1>1 DEF Tells
<1>3. t.kind = "nomad_ok" /\ t.jobs # {}
  BY <1>1 DEF Fits, NomadKinds
<1>4. PICK j \in NomadJobs : j = JobOf(t)
  BY <1>3, JobOfIsOne DEF NomadKinds
<1>5. CASE NoRowChange /\ JobDone(w) /\ UNCHANGED untold
  BY <1>1, <1>2, <1>5, DoneMoves, IdleFits, MovesKeep, HandlerBefore
<1>6. ASSUME NEW p \in PRs, NewestRow(p, S), SetRow(p, DeployedByJob(prRows[p], j)),
             riverWork' = [riverWork EXCEPT ![w].pr = p, ![w].seen = @ \cup {p},
                             ![w].pc = IF DeployedByJob(prRows[p], j).status = "deployed" THEN "tell" ELSE "list"],
             IF DeployedByJob(prRows[p], j).status = "deployed"
             THEN untold' = [untold EXCEPT ![p] = "success"] ELSE UNCHANGED untold
      PROVE  RolloutInv'
  <2>1. PICK r : r = DeployedByJob(prRows[p], j)
    OBVIOUS
  <2>2. prRows[p].status \in Rolling
    BY <1>4, <1>6 DEF NewestRow, AwaitsJob
  <2>3. untold[p] = "none"
    BY <2>2, HandlerBefore DEF Rolling
  <2>4. r \in RowsKept /\ r.jobs \cap r.deployed = {} /\ r.status \in {"deployed", "deploying"}
    <3>1. PICK old \in RowsKept : old = prRows[p] /\ old.jobs \cap old.deployed = {}
      BY HandlerBefore
    <3>2. /\ r = [old EXCEPT !.status = IF old.jobs = {j} THEN "deployed" ELSE "deploying",
                            !.jobs = old.jobs \ {j}, !.deployed = old.deployed \cup {j}]
      BY <2>1, <3>1 DEF DeployedByJob, RowsKept
    <3>3. PICK s \in PRStatus : s = IF old.jobs = {j} THEN "deployed" ELSE "deploying"
      BY DEF PRStatus, Finished, Rolling
    <3>4. r.status = s /\ r.jobs = old.jobs \ {j} /\ r.deployed = old.deployed \cup {j}
      BY <3>2, <3>3 DEF RowsKept
    <3>5. r \in RowsKept
      BY <3>2, <3>3 DEF RowsKept
    <3> QED
      BY <3>1, <3>3, <3>4, <3>5
  <2>5. PICK n : n = [t EXCEPT !.pr = p, !.seen = @ \cup {p}, !.pc = IF r.status = "deployed" THEN "tell" ELSE "list"]
    OBVIOUS
  <2>6. /\ n \in RiverTasks /\ n.pr = p /\ n.kind = t.kind /\ n.jobs = t.jobs
        /\ n.pc = IF r.status = "deployed" THEN "tell" ELSE "list"
    BY <1>1, <2>5 DEF RiverTasks
  <2>7. Fits(n)
    BY <1>1, <1>3, <2>6 DEF Fits, NomadKinds
  <2>8. Assigns(w, n)
    BY <1>6, <2>1, <2>5 DEF Assigns, RolloutInv, RolloutTypes
  <2>9. PICK o \in Outcomes : o = IF r.status = "deployed" THEN "success" ELSE "none"
    BY DEF Outcomes
  <2>10. untold' = [untold EXCEPT ![p] = o] /\ SetRow(p, r)
    BY <1>6, <2>1, <2>3, <2>9, HandlerBefore
  <2>11. o = "none" \/ Tells(n, p, o)
    BY <2>6, <2>9 DEF Tells
  <2>12. (o = "success" => r.status = "deployed") /\ (o = "failure" => r.status = "deploy_failed")
    BY <2>9
  <2> QED
    BY <1>1, <1>2, <2>4, <2>6, <2>7, <2>8, <2>10, <2>11, <2>12, OutcomeKeeps
<1> QED
  BY <1>4, <1>5, <1>6 DEF AtTransition

LEMMA AtListKeeps == ASSUME RolloutInv, NEW w \in RiverWorkers, AtList(w) PROVE RolloutInv'
BY HandlerBefore, DoneMoves, IdleFits, StepFits, MovesKeep DEF AtList, Tells, Places, Fits

LEMMA AtTellKeeps == ASSUME RolloutInv, NEW w \in RiverWorkers, AtTell(w) PROVE RolloutInv'
<1> DEFINE t == riverWork[w]
<1>1. t \in RiverTasks /\ Fits(t) /\ t.pc = "tell" /\ NoRowChange /\ UNCHANGED forsaken
  BY HandlerBefore DEF AtTell
<1>2. PICK p \in PRs : p = t.pr
  BY <1>1 DEF Fits
<1>3. advanced' \subseteq Chunked
  BY <1>2, HandlerBefore DEF AtTell
<1>4. \E n \in RiverTasks : Fits(n) /\ Assigns(w, n)
  BY DoneMoves, IdleFits, <1>2, StepFits DEF Places, AtTell
<1>5. PICK n \in RiverTasks : Fits(n) /\ Assigns(w, n)
  BY <1>4
<1>6. PICK o \in Outcomes : o = IF untold[p] = "success" THEN "none" ELSE untold[p]
  BY HandlerBefore DEF Outcomes
<1>7. untold' = [untold EXCEPT ![p] = o]
  BY <1>2, <1>6, HandlerBefore DEF AtTell
<1>8. PICK r \in RowsKept : r = prRows[p]
  BY HandlerBefore
<1>9. (o = "success" => r.status = "deployed") /\ (o = "failure" => r.status = "deploy_failed")
      /\ r.jobs \cap r.deployed = {}
  BY <1>6, <1>8, HandlerBefore
<1>10. o = "none" \/ (o = untold[p] /\ ~Tells(t, p, o))
  BY <1>1, <1>6 DEF Tells
<1>11. \A q \in PRs \ {p} : ~Tells(t, q, untold[q])
  BY <1>2 DEF Tells
<1> QED
  BY <1>1, <1>3, <1>5, <1>7, <1>8, <1>9, <1>10, <1>11, HandlerKeeps

LEMMA TellFailsKeeps == ASSUME RolloutInv, NEW w \in RiverWorkers, TellFails(w) PROVE RolloutInv'
BY HandlerBefore, ReturnErrorKeeps, StepFits, MovesKeep DEF TellFails, Fits, Places, NomadKinds,
   Tells

LEMMA AtAppendKeeps == ASSUME RolloutInv, NEW w \in RiverWorkers, AtAppend(w) PROVE RolloutInv'
<1> DEFINE t == riverWork[w]
<1>1. t \in RiverTasks /\ Fits(t) /\ t.pc = "append" /\ UNCHANGED <<untold, advanced, forsaken>> /\ t.kind = "nomad_ok"
      /\ t.jobs \in SUBSET NomadJobs
  BY HandlerBefore DEF AtAppend, Fits, RiverTasks
<1>2. PICK p \in PRs : p = t.pr
  BY <1>1 DEF Fits
<1>3. PICK r : r = AppendPRJobs(prRows[p], t.jobs)
  OBVIOUS
<1>4. r \in RowsKept /\ r.jobs \cap r.deployed = {} /\ r.status = prRows[p].status
  BY <1>1, <1>3, HandlerBefore, ZenonT(40) DEF AppendPRJobs, RowsKept
<1>5. PICK pc \in Places : pc = "status"
  BY DEF Places
<1>6. SetRow(p, r) /\ StepTo(w, pc)
  BY <1>2, <1>3, <1>5 DEF AtAppend
<1>7. PICK n \in RiverTasks : Fits(n) /\ Assigns(w, n) /\ n.pc = pc /\ n.pr = t.pr
  BY <1>1, <1>2, <1>5, <1>6, StepFits
<1>8. PICK o \in Outcomes : o = untold[p]
  BY HandlerBefore DEF Outcomes
<1>9. untold' = [untold EXCEPT ![p] = o]
  BY <1>1, <1>8, HandlerBefore
<1>10. (o = "success" => r.status = "deployed") /\ (o = "failure" => r.status = "deploy_failed")
  BY <1>4, <1>8, HandlerBefore
<1>11. o = "none" \/ Tells(n, p, o) \/ (o = untold[p] /\ ~Tells(t, p, o))
  BY <1>1, <1>2, <1>5, <1>7, <1>8 DEF Tells
<1>12. \A q \in PRs \ {p} : ~Tells(t, q, untold[q])
  BY <1>2 DEF Tells
<1>13. advanced' \subseteq Chunked /\ forsaken \subseteq forsaken'
  BY <1>1, HandlerBefore
<1> QED
  BY <1>4, <1>6, <1>7, <1>9, <1>10, <1>11, <1>12, <1>13, HandlerKeeps

LEMMA AtStatusKeeps == ASSUME RolloutInv, NEW w \in RiverWorkers, AtStatus(w) PROVE RolloutInv'
<1> DEFINE t == riverWork[w]
           z == IF t.tries + 1 < RolloutAttempts THEN NewTask(t.kind, 0, t.jobs, t.tries + 1) ELSE NoTask
<1>1. t \in RiverTasks /\ Fits(t) /\ t.pc = "status" /\ UNCHANGED <<advanced, forsaken>> /\ t.kind = "nomad_ok"
  BY HandlerBefore DEF AtStatus, Fits
<1>2. PICK p \in PRs : p = t.pr
  BY <1>1 DEF Fits
<1>3. PICK r : r = UpdatePRStatus(prRows[p], "deploying")
  OBVIOUS
<1>4. r \in RowsKept /\ r.jobs \cap r.deployed = {}
  BY <1>3, HandlerBefore DEF UpdatePRStatus, RowsKept, PRStatus, Finished, Rolling
<1>5. PICK n : n = z
  OBVIOUS
<1>6. n \in RiverTasks /\ Fits(n) /\ Assigns(w, n)
  BY <1>1, <1>5, AgainFits DEF AtStatus, Assigns, NomadKinds
<1>7. PICK o \in Outcomes : o = "none"
  BY DEF Outcomes
<1>8. untold' = [untold EXCEPT ![p] = o] /\ SetRow(p, r)
  BY <1>2, <1>3, <1>7 DEF AtStatus
<1>9. \A q \in PRs \ {p} : ~Tells(t, q, untold[q])
  BY <1>2 DEF Tells
<1>10. advanced' \subseteq Chunked /\ forsaken \subseteq forsaken'
  BY <1>1, HandlerBefore
<1> QED
  BY <1>4, <1>6, <1>7, <1>8, <1>9, <1>10, HandlerKeeps

LEMMA AtSelectKeeps == ASSUME RolloutInv, NEW w \in RiverWorkers, AtSelect(w) PROVE RolloutInv'
<1> DEFINE t == riverWork[w]
<1>1. t \in RiverTasks /\ Fits(t) /\ t.pc = "select" /\ NoRowChange /\ UNCHANGED <<untold, advanced, forsaken>>
  BY HandlerBefore DEF AtSelect
<1>2. \A q : ~Tells(t, q, untold[q])
  BY <1>1 DEF Tells
<1>3. \E n \in RiverTasks : Fits(n) /\ Assigns(w, n)
  <2>1. CASE JobDone(w)
    BY <2>1, DoneMoves, IdleFits
  <2>2. ASSUME NEW p \in PRs, riverWork' = [riverWork EXCEPT ![w].pc = "mark", ![w].pr = p]
        PROVE  \E n \in RiverTasks : Fits(n) /\ Assigns(w, n)
    <3>1. PICK n : n = [t EXCEPT !.pc = "mark", !.pr = p]
      OBVIOUS
    <3>2. n \in RiverTasks /\ n.pc = "mark" /\ n.pr = p /\ n.kind = t.kind /\ n.jobs = t.jobs
      BY <1>1, <3>1 DEF RiverTasks
    <3>3. Assigns(w, n)
      BY <2>2, <3>1 DEF Assigns, RolloutInv, RolloutTypes
    <3>4. Fits(n)
      BY <1>1, <3>2 DEF Fits, NomadKinds
    <3> QED
      BY <3>2, <3>3, <3>4
  <2> QED
    BY <2>1, <2>2 DEF AtSelect
<1> QED
  BY <1>1, <1>2, <1>3, MovesKeep, HandlerBefore

LEMMA AtMarkKeeps == ASSUME RolloutInv, NEW w \in RiverWorkers, AtMark(w) PROVE RolloutInv'
<1> DEFINE t == riverWork[w]
<1>1. t \in RiverTasks /\ Fits(t) /\ t.pc = "mark" /\ UNCHANGED <<advanced, forsaken>>
  BY HandlerBefore DEF AtMark
<1>2. \A q : ~Tells(t, q, untold[q])
  BY <1>1 DEF Tells
<1>3. PICK p \in PRs : p = t.pr
  BY <1>1 DEF Fits
<1>4. CASE NoRowChange /\ JobDone(w) /\ UNCHANGED untold
  BY <1>1, <1>2, <1>4, DoneMoves, IdleFits, MovesKeep, HandlerBefore
<1>5. CASE /\ SetRow(p, UpdatePRStatus(prRows[p], "deploy_failed"))
           /\ untold' = [untold EXCEPT ![p] = "failure"] /\ StepTo(w, "banner")
  <2>1. PICK r : r = UpdatePRStatus(prRows[p], "deploy_failed")
    OBVIOUS
  <2>2. r \in RowsKept /\ r.jobs \cap r.deployed = {} /\ r.status = "deploy_failed"
    BY <2>1, HandlerBefore DEF UpdatePRStatus, RowsKept, PRStatus, Finished, Rolling
  <2>3. PICK pc \in Places : pc = "banner"
    BY DEF Places
  <2>4. t.kind # "none"
    BY <1>1 DEF Fits
  <2>5. PICK n \in RiverTasks : Fits(n) /\ Assigns(w, n) /\ n.pc = pc /\ n.pr = t.pr
    BY <1>3, <1>5, <2>3, <2>4, StepFits
  <2>6. PICK o \in Outcomes : o = "failure"
    BY DEF Outcomes
  <2>7. Tells(n, p, o)
    BY <1>3, <2>3, <2>5, <2>6 DEF Tells
  <2>8. untold' = [untold EXCEPT ![p] = o] /\ SetRow(p, r)
    BY <1>5, <2>1, <2>6
  <2> QED
    BY <1>1, <1>2, <2>2, <2>5, <2>6, <2>7, <2>8, OutcomeKeeps
<1> QED
  BY <1>3, <1>4, <1>5 DEF AtMark

\* A status and a banner in one statement, by a handler that goes on.
WidgetWrite(w, p, x, r, o, pc) ==
    /\ p = riverWork[w].pr /\ r = SetPRWidgetState(prRows[p], x)
    /\ \/ x = "deploying" /\ pc = "append" /\ riverWork[w].pc = "undo"
          /\ o = IF r.status = "deploying" /\ untold[p] = "failure" THEN "none" ELSE untold[p]
       \/ x = "deploy_failed" /\ pc = "alert" /\ riverWork[w].pc = "banner"
          /\ o = IF r.status # prRows[p].status THEN "failure" ELSE untold[p]
    /\ SetRow(p, r) /\ StepTo(w, pc) /\ untold' = [untold EXCEPT ![p] = o]
    /\ UNCHANGED <<advanced, forsaken>>

LEMMA WidgetStateKeeps ==
    ASSUME RolloutInv, NEW w \in RiverWorkers, NEW p \in PRs, NEW x, NEW r, NEW o, NEW pc,
           WidgetWrite(w, p, x, r, o, pc)
    PROVE  RolloutInv'
<1> DEFINE t == riverWork[w]
<1>1. t \in RiverTasks /\ Fits(t) /\ UNCHANGED <<advanced, forsaken>> /\ p = t.pr
  BY HandlerBefore DEF WidgetWrite
<1>2. /\ (x = "deploying" /\ t.pc = "undo") \/ (x = "deploy_failed" /\ t.pc = "banner")
      /\ pc = IF x = "deploying" THEN "append" ELSE "alert"
      /\ o = IF x = "deploying"
             THEN IF r.status = "deploying" /\ untold[p] = "failure" THEN "none" ELSE untold[p]
             ELSE IF r.status # prRows[p].status THEN "failure" ELSE untold[p]
  BY DEF WidgetWrite
<1>3. r \in RowsKept /\ r.jobs \cap r.deployed = {}
      /\ r.status = IF prRows[p].status \in {"deployed", "closed"} THEN prRows[p].status ELSE x
  <2>1. r = SetPRWidgetState(prRows[p], x)
    BY DEF WidgetWrite
  <2>2. CASE x = "deploying"
    BY <2>1, <2>2, HandlerBefore DEF SetPRWidgetState, RowsKept, PRStatus, Finished, Rolling
  <2>3. CASE x = "deploy_failed"
    BY <2>1, <2>3, HandlerBefore DEF SetPRWidgetState, RowsKept, PRStatus, Finished, Rolling
  <2> QED
    BY <1>2, <2>2, <2>3
<1>4. pc \in Places /\ t.kind # "none" /\ (pc = "append" => t.kind = "nomad_ok")
  BY <1>1, <1>2 DEF Places, Fits
<1>5. SetRow(p, r) /\ StepTo(w, pc) /\ untold' = [untold EXCEPT ![p] = o]
  BY DEF WidgetWrite
<1>6. PICK n \in RiverTasks : Fits(n) /\ Assigns(w, n) /\ n.pc = pc /\ n.pr = p
  BY <1>1, <1>2, <1>4, <1>5, StepFits
<1>7. o \in Outcomes /\ (o = "success" => r.status = "deployed") /\ (o = "failure" => r.status = "deploy_failed")
  BY <1>2, <1>3, HandlerBefore DEF Outcomes
<1>8. o = "none" \/ Tells(n, p, o) \/ (o = untold[p] /\ ~Tells(t, p, o))
  BY <1>2, <1>3, <1>6, HandlerBefore DEF Tells
<1>9. \A q \in PRs \ {p} : ~Tells(t, q, untold[q])
  BY <1>1 DEF Tells
<1>10. advanced' \subseteq Chunked /\ forsaken \subseteq forsaken'
  BY <1>1, HandlerBefore
<1> QED
  BY <1>3, <1>5, <1>6, <1>7, <1>8, <1>9, <1>10, HandlerKeeps

LEMMA AtBannerKeeps == ASSUME RolloutInv, NEW w \in RiverWorkers, AtBanner(w) PROVE RolloutInv'
<1>1. PICK p \in PRs : p = riverWork[w].pr
  BY HandlerBefore DEF AtBanner, Fits
<1>2. PICK r : r = SetPRWidgetState(prRows[p], "deploy_failed")
  OBVIOUS
<1>3. PICK o : o = IF r.status # prRows[p].status THEN "failure" ELSE untold[p]
  OBVIOUS
<1>4. WidgetWrite(w, p, "deploy_failed", r, o, "alert")
  BY <1>1, <1>2, <1>3, HandlerBefore DEF WidgetWrite, AtBanner
<1> QED
  BY <1>4, WidgetStateKeeps

LEMMA AtUndoKeeps == ASSUME RolloutInv, NEW w \in RiverWorkers, AtUndo(w) PROVE RolloutInv'
<1>1. PICK p \in PRs : p = riverWork[w].pr
  BY HandlerBefore DEF AtUndo, Fits
<1>2. PICK r : r = SetPRWidgetState(prRows[p], "deploying")
  OBVIOUS
<1>3. PICK o : o = IF r.status = "deploying" /\ untold[p] = "failure" THEN "none" ELSE untold[p]
  OBVIOUS
<1>4. WidgetWrite(w, p, "deploying", r, o, "append")
  BY <1>1, <1>2, <1>3, HandlerBefore DEF WidgetWrite, AtUndo
<1> QED
  BY <1>4, WidgetStateKeeps

LEMMA AtAlertKeeps == ASSUME RolloutInv, NEW w \in RiverWorkers, AtAlert(w) PROVE RolloutInv'
<1> DEFINE t == riverWork[w]
<1>1. t \in RiverTasks /\ Fits(t) /\ t.pc = "alert" /\ NoRowChange /\ UNCHANGED <<advanced, forsaken>>
  BY HandlerBefore DEF AtAlert
<1>2. PICK p \in PRs : p = t.pr
  BY <1>1 DEF Fits
<1>3. Assigns(w, NoTask)
  BY DoneMoves DEF AtAlert, JobDoneWithWidget
<1>4. PICK o \in Outcomes : o = IF untold[p] = "failure" THEN "none" ELSE untold[p]
  BY HandlerBefore DEF Outcomes
<1>5. untold' = [untold EXCEPT ![p] = o]
  BY <1>2, <1>4, HandlerBefore DEF AtAlert
<1>6. PICK r \in RowsKept : r = prRows[p]
  BY HandlerBefore
<1>7. (o = "success" => r.status = "deployed") /\ (o = "failure" => r.status = "deploy_failed")
      /\ r.jobs \cap r.deployed = {}
  BY <1>4, <1>6, HandlerBefore
<1>8. o = "none" \/ (o = untold[p] /\ ~Tells(t, p, o))
  BY <1>1, <1>4 DEF Tells
<1>9. \A q \in PRs \ {p} : ~Tells(t, q, untold[q])
  BY <1>2 DEF Tells
<1>10. advanced' \subseteq Chunked /\ forsaken \subseteq forsaken'
  BY <1>1, HandlerBefore
<1> QED
  BY <1>1, <1>3, <1>5, <1>6, <1>7, <1>8, <1>9, <1>10, IdleFits, HandlerKeeps

LEMMA AlertFailsKeeps == ASSUME RolloutInv, NEW w \in RiverWorkers, AlertFails(w) PROVE RolloutInv'
BY HandlerBefore, ReturnErrorKeeps, StepFits, MovesKeep DEF AlertFails, Fits, Places, Tells

LEMMA AtResetKeeps == ASSUME RolloutInv, NEW w \in RiverWorkers, AtReset(w) PROVE RolloutInv'
<1> DEFINE t == riverWork[w]
           a == IF t.kind = "nomad_fail" THEN 0 ELSE t.pr
           z == IF t.tries + 1 < RolloutAttempts THEN NewTask(t.kind, a, t.jobs, t.tries + 1) ELSE NoTask
<1>1. t \in RiverTasks /\ Fits(t) /\ t.pc = "reset" /\ UNCHANGED <<advanced, forsaken>>
  BY HandlerBefore DEF AtReset
<1>2. PICK p \in PRs : p = t.pr
  BY <1>1 DEF Fits
<1>3. PICK r : r = SetPRWidgetState(prRows[p], "deploying")
  OBVIOUS
<1>4. r \in RowsKept /\ r.jobs \cap r.deployed = {}
      /\ r.status = IF prRows[p].status \in {"deployed", "closed"} THEN prRows[p].status ELSE "deploying"
  BY <1>3, HandlerBefore DEF SetPRWidgetState, RowsKept, PRStatus, Finished, Rolling
<1>5. a \in PRs \cup {0} /\ t.kind # "none" /\ (t.kind \notin NomadKinds => a = t.pr)
  BY <1>1, <1>2 DEF Fits, NomadKinds
<1>6. PICK n : n = z
  OBVIOUS
<1>7. n \in RiverTasks /\ Fits(n)
  BY <1>5, <1>6, AgainFits
<1>8. Assigns(w, n)
  BY <1>6 DEF AtReset, Assigns
<1>9. PICK o \in Outcomes : o = IF r.status = "deploying" /\ untold[p] = "failure" THEN "none" ELSE untold[p]
  BY HandlerBefore DEF Outcomes
<1>10. untold' = [untold EXCEPT ![p] = o] /\ SetRow(p, r)
  BY <1>2, <1>3, <1>9, HandlerBefore DEF AtReset
<1>11. (o = "success" => r.status = "deployed") /\ (o = "failure" => r.status = "deploy_failed") /\ o # "failure"
  BY <1>4, <1>9, HandlerBefore
<1>12. o = "none" \/ (o = untold[p] /\ ~Tells(t, p, o))
  BY <1>1, <1>9, <1>11 DEF Tells
<1>13. \A q \in PRs \ {p} : ~Tells(t, q, untold[q])
  BY <1>2 DEF Tells
<1>14. advanced' \subseteq Chunked /\ forsaken \subseteq forsaken'
  BY <1>1, HandlerBefore
<1> QED
  BY <1>4, <1>7, <1>8, <1>10, <1>11, <1>12, <1>13, <1>14, HandlerKeeps

LEMMA WidgetSyncKeeps == ASSUME RolloutInv, NEW p \in PRs, WidgetSync(p) PROVE RolloutInv'
<1> DEFINE old == IF prRows[p].status = "deployed" THEN {q \in PRs : q < p} ELSE {}
           hit == {q \in old : SweptRow(prRows[q]) # prRows[q]}
<1>1. /\ UNCHANGED <<riverWork, advanced, forsaken>>
      /\ prRows' = [q \in PRs |-> IF q \in old THEN SweptRow(prRows[q]) ELSE prRows[q]]
      /\ byUpdate' = {pq \in byUpdate : pq[2] \in hit => pq[1] \in hit} \cup hit \X (PRs \ hit)
      /\ untold' = [q \in PRs |-> IF q \in hit THEN "none" ELSE untold[q]]
  BY DEF WidgetSync
<1>2. \A q \in PRs : SweptRow(prRows[q]) \in RowsKept /\ SweptRow(prRows[q]).jobs \cap SweptRow(prRows[q]).deployed = {}
  BY HandlerBefore, ZenonT(40) DEF SweptRow, RowsKept, PRStatus, Finished, Rolling
<1>3. \A q \in PRs : /\ prRows'[q] \in RowsKept /\ prRows'[q].jobs \cap prRows'[q].deployed = {}
                     /\ q \in hit => untold'[q] = "none"
                     /\ q \notin hit => untold'[q] = untold[q] /\ prRows'[q] = prRows[q]
  BY <1>1, <1>2, HandlerBefore
<1>4. hit \subseteq PRs
  OBVIOUS
<1>5. /\ byUpdate' \subseteq PRs \X PRs
      /\ \A x, y \in PRs : x # y => (<<x, y>> \in byUpdate' <=> <<y, x>> \notin byUpdate')
  BY <1>1, <1>4 DEF RolloutInv, RolloutTypes
<1>6. untold' \in [PRs -> {"none", "success", "failure"}] /\ prRows' \in [PRs -> RowsKept]
  BY <1>1, <1>3, HandlerBefore
<1> HIDE DEF old, hit
<1>7. RolloutTypes'
  BY <1>1, <1>5, <1>6 DEF RolloutInv, RolloutTypes
<1>8. Tellers'
  BY <1>1, <1>3 DEF RolloutInv, Tellers
<1>9. RowsAgree' /\ JobInOneList'
  BY <1>3, HandlerBefore DEF RowsAgree, JobInOneList
<1> QED
  BY <1>7, <1>8, <1>9 DEF RolloutInv

LEMMA SynapseRestartKeeps == ASSUME RolloutInv, SynapseRestart PROVE RolloutInv'
<1> DEFINE n(w) == LET t == riverWork[w]
                   IN  IF ~RiverIdle(w) /\ t.tries + 1 < RolloutAttempts
                       THEN NewTask(t.kind, IF t.kind \in {"nomad_ok", "nomad_fail"} THEN 0 ELSE t.pr,
                                    t.jobs, t.tries + 1)
                       ELSE NoTask
<1>1. /\ UNCHANGED <<prRows, byUpdate, untold, advanced>> /\ riverWork' = [w \in RiverWorkers |-> n(w)]
      /\ forsaken' = forsaken \cup {p \in PRs : \E w \in RiverWorkers : riverWork[w].pr = p}
  BY DEF SynapseRestart, NoRowChange
<1>2. ASSUME NEW w \in RiverWorkers PROVE n(w) \in RiverTasks /\ Fits(n(w))
  <2> DEFINE t == riverWork[w]
  <2>1. CASE t.kind = "none" \/ RiverIdle(w)
    BY IdleFits, HandlerBefore, <2>1 DEF Fits, RiverIdle
  <2>2. CASE t.kind # "none" /\ ~RiverIdle(w)
    BY HandlerBefore, <2>2, AgainFits DEF RiverTasks, NomadKinds
  <2> QED
    BY <2>1, <2>2
<1> HIDE DEF n
<1>3. riverWork' \in [RiverWorkers -> RiverTasks] /\ \A w \in RiverWorkers : Fits(riverWork'[w])
  BY <1>1, <1>2
<1>4. RolloutTypes' /\ RowsAgree' /\ JobInOneList'
  BY <1>1, <1>3 DEF RolloutInv, RolloutTypes, RowsAgree, JobInOneList
<1>5. Tellers'
  BY <1>1 DEF Tellers, RolloutInv, Tells
<1> QED
  BY <1>4, <1>5 DEF RolloutInv

LEMMA StartupSweepKeeps == ASSUME RolloutInv, NEW w \in RiverWorkers, NEW j \in NomadJobs, StartupSweep(w, j)
                           PROVE RolloutInv'
<1>1. /\ riverWork[w] = NoTask /\ NoRowChange /\ UNCHANGED <<untold, advanced, forsaken>>
      /\ riverWork' = [riverWork EXCEPT ![w] = NewTask("nomad_ok", 0, {j}, RolloutAttempts - 1)]
  BY DEF StartupSweep, TakesJob, RiverIdle
<1>2. PICK m \in 0..RolloutAttempts - 1 : m = RolloutAttempts - 1
  BY RolloutNumbers
<1>3. PICK n : n = NewTask("nomad_ok", 0, {j}, m)
  OBVIOUS
<1>4. n \in RiverTasks /\ Fits(n)
  BY <1>3, BeginFits DEF ReportKinds, NomadKinds
<1>5. Assigns(w, n)
  BY <1>1, <1>2, <1>3 DEF Assigns
<1>6. \A q \in PRs : ~Tells(riverWork[w], q, untold[q])
  BY <1>1, IdleFits
<1> QED
  BY <1>1, <1>4, <1>5, <1>6, MovesKeep, HandlerBefore

LEMMA StatementFailsKeeps == ASSUME RolloutInv, NEW w \in RiverWorkers, StatementFails(w) PROVE RolloutInv'
BY HandlerBefore, ReturnErrorKeeps DEF StatementFails, Fits

LEMMA LoggedFailureKeeps == ASSUME RolloutInv, NEW w \in RiverWorkers, LoggedFailure(w) PROVE RolloutInv'
<1> DEFINE t == riverWork[w]
<1>1. t \in RiverTasks /\ Fits(t) /\ NoRowChange /\ UNCHANGED <<untold, advanced>>
  BY HandlerBefore DEF LoggedFailure
<1>2. CASE t.pc \in {"reset", "status"} /\ ReturnError(w)
  BY <1>1, <1>2, ReturnErrorKeeps DEF Fits
<1>3. CASE t.pc \in {"list", "start"} /\ JobDone(w) /\ UNCHANGED forsaken
  BY <1>1, <1>3, DoneMoves, IdleFits, MovesKeep, HandlerBefore DEF Tells
<1>4. ASSUME NEW pc \in {"tell", "advance", "append", "status", "alert"}, StepTo(w, pc), UNCHANGED forsaken,
             \/ t.pc = "state" /\ pc \in {"tell", "advance", "alert"}
             \/ t.pc = "banner" /\ pc = "alert"
             \/ t.pc = "undo" /\ pc = "append"
             \/ t.pc = "append" /\ pc = "status"
      PROVE  RolloutInv'
  <2>1. pc \in Places /\ t.kind # "none" /\ t.pr \in PRs
        /\ (pc \in {"append", "status"} => t.kind = "nomad_ok") /\ (pc = "advance" => t.kind \notin NomadKinds)
    BY <1>1, <1>4 DEF Places, Fits, NomadKinds
  <2>2. PICK n \in RiverTasks : Fits(n) /\ Assigns(w, n) /\ n.pc = pc /\ n.pr = t.pr
    BY <1>4, <2>1, StepFits
  <2>3. \A q \in PRs : untold[q] = "none" \/ ~Tells(t, q, untold[q]) \/ Tells(n, q, untold[q])
    BY <1>4, <2>2 DEF Tells
  <2> QED
    BY <1>1, <1>4, <2>2, <2>3, MovesKeep, HandlerBefore
<1>5. CASE /\ t.pc = "expect" /\ UNCHANGED forsaken
           /\ riverWork' = [riverWork EXCEPT ![w].pc = IF t.kind = "started" THEN "start" ELSE "state",
                                             ![w].flag = t.jobs # {}]
  <2>1. PICK n : n = [t EXCEPT !.pc = IF t.kind = "started" THEN "start" ELSE "state", !.flag = t.jobs # {}]
    OBVIOUS
  <2>2. n \in RiverTasks /\ n.pc = (IF t.kind = "started" THEN "start" ELSE "state")
        /\ n.pr = t.pr /\ n.kind = t.kind /\ n.jobs = t.jobs
    BY <1>1, <2>1 DEF RiverTasks
  <2>3. Assigns(w, n)
    BY <1>5, <2>1 DEF Assigns, RolloutInv, RolloutTypes
  <2>4. Fits(n)
    BY <1>1, <1>5, <2>2 DEF Fits, NomadKinds
  <2>5. \A q : ~Tells(t, q, untold[q])
    BY <1>5 DEF Tells
  <2> QED
    BY <1>1, <1>5, <2>2, <2>3, <2>4, <2>5, MovesKeep, HandlerBefore
<1>6. t.pc = "state" => AfterState(t) \in {"tell", "advance", "alert"}
  BY DEF AfterState
<1> QED
  BY <1>2, <1>3, <1>4, <1>5, <1>6 DEF LoggedFailure, JobDoneWithWidget

LEMMA ReportKeeps ==
    ASSUME RolloutInv, NEW w \in RiverWorkers, NEW n \in RiverTasks, Fits(n), ReportArrives(w, n) PROVE RolloutInv'
BY IdleFits, MovesKeep, HandlerBefore DEF ReportArrives, TakesJob, RiverIdle, NoRowChange, Assigns

LEMMA PullRequestReportKeeps ==
    ASSUME RolloutInv, NEW w \in RiverWorkers, NEW p \in PRs, PullRequestReport(w, p) PROVE RolloutInv'
BY RolloutNumbers, BeginFits, ReportKeeps DEF NomadKinds, ReportKinds, PullRequestReport

LEMMA NomadReportKeeps ==
    ASSUME RolloutInv, NEW w \in RiverWorkers, NEW j \in NomadJobs, NomadReport(w, j) PROVE RolloutInv'
BY RolloutNumbers, BeginFits, ReportKeeps DEF NomadReport, ReportKinds, NomadKinds

LEMMA RolloutKept == RolloutInv /\ [RolloutNext]_rolloutVars => RolloutInv'
<1> SUFFICES ASSUME RolloutInv, [RolloutNext]_rolloutVars PROVE RolloutInv'
  OBVIOUS
<1>1. CASE UNCHANGED rolloutVars
  BY <1>1 DEF rolloutVars, RolloutInv, RolloutTypes, Tellers, RowsAgree, JobInOneList
<1>2. ASSUME NEW w \in RiverWorkers, WorkerStep(w) \/ TellFails(w) \/ AlertFails(w) \/ StatementFails(w)
                                        \/ LoggedFailure(w)
      PROVE  RolloutInv'
  <2>1. CASE WorkerStep(w)
    BY <2>1, AtMergeKeeps, AtExpectKeeps, AtStartKeeps, AtCheckKeeps, AtStateKeeps, AtAdvanceKeeps,
       AtTransitionKeeps, AtListKeeps, AtTellKeeps, AtUndoKeeps, AtAppendKeeps, AtStatusKeeps, AtSelectKeeps, AtMarkKeeps,
       AtBannerKeeps, AtAlertKeeps, AtResetKeeps DEF WorkerStep
  <2> QED
    BY <1>2, <2>1, TellFailsKeeps, AlertFailsKeeps, StatementFailsKeeps, LoggedFailureKeeps
<1> QED
  BY <1>1, <1>2, PullRequestReportKeeps, NomadReportKeeps, StartupSweepKeeps, WidgetSyncKeeps, SynapseRestartKeeps
  DEF RolloutNext

\* For any pull requests, jobs and River workers: an outcome that was written is in the
\* hands of a handler until it was told, and no job is awaited and done
\* (HandleNomadJobSuccess, HandleNomadJobFailure, revertDeployedJobFailure).
THEOREM RolloutIsSafe == RolloutSpec => []RolloutIsSound
<1>1. RolloutInit => RolloutInv
  BY RolloutStarts
<1>2. RolloutInv /\ [RolloutNext]_rolloutVars => RolloutInv'
  BY RolloutKept
<1> QED
  BY <1>1, <1>2, RolloutEnough, PTL DEF RolloutSpec
--------------------
(* What Nomad's event stream tells of a job (NomadStream).  As long as *)
(* nothing was lost, a healthy job that was not reported has a telling *)
(* event before it: waiting in River, or in the log under a key that River *)
(* has not seen.  A failed allocation is told by the event of its task that *)
(* gave up, which comes first under the same key. *)

AllocRecords ==
    [version : Nat, desired : {"run", "stop"}, client : {"pending", "running", "failed", "complete"},
     task : {"new", "up", "again", "gaveup", "done"}, restarts : Nat]

\* What an allocation is like, in the cluster and in an event.
AllocFits(a) ==
    /\ a.client = "failed" => a.task = "gaveup"
    /\ a.client = "complete" <=> a.task = "done"
    /\ a.client = "pending" => a.task = "new"

AnyEvents ==
    [topic : {"Allocation"}, id : Nat, alloc : AllocRecords]
    \cup [topic : {"Job"}, id : Nat]
    \cup [topic : {"Deployment"}, id : Nat, status : {"successful", "failed"}]
    \cup [topic : {"Evaluation"}, id : Nat, eval : EvalShapes]

EventFits(ev) ==
    /\ ev.topic = "Allocation" => ev.id \in DOMAIN allocs /\ AllocFits(ev.alloc) /\ ev.alloc.desired = "run"
    /\ ev.topic \in {"Job", "Deployment"} => ev.id <= jobVersion

Logged == {nomadLog[k] : k \in 1..Len(nomadLog)}

Budgets == [kind : {"rolling", "service", "oneshot", "template"}, versions : Nat, evals : Nat, faults : Nat, lag : Nat]

StreamTypes ==
    /\ streamBudget \in Budgets
    /\ jobKind = streamBudget.kind /\ jobVersion \in Nat /\ jobVersion <= streamBudget.versions
    /\ allocs \in Seq(AllocRecords) /\ Len(allocs) <= MaxAllocs
    /\ deployment \in {"none", "running", "successful", "failed"}
    /\ nomadLog \in Seq(AnyEvents)
    /\ lastIndex \in 0..Len(nomadLog) /\ readTo \in 0..Len(nomadLog)
    /\ evals \in Nat
    /\ lossy \in BOOLEAN /\ toldOk \in BOOLEAN /\ toldBad \subseteq DOMAIN allocs

\* Nomad's side: what is placed belongs to the last version, and the log tells what happened.
Placed ==
    /\ \A i \in DOMAIN allocs : AllocFits(allocs[i]) /\ (allocs[i].desired = "run" => allocs[i].version = jobVersion)
    /\ jobKind = "template" => DOMAIN allocs = {}
    /\ deployment # "none" => jobVersion > 0 /\ jobKind = "rolling"
    /\ \A ev \in Logged : EventFits(ev)
    /\ \A ev \in Logged : ev.topic = "Deployment" /\ ev.id = jobVersion => ev.status = deployment
    /\ \A e, f \in Logged : e.topic = "Deployment" /\ f.topic = "Deployment" /\ e.id = f.id => e.status = f.status

\* An event of a running task tells of this start or an earlier one.
StartsAreNumbered ==
    \A ev \in Logged : ev.topic = "Allocation" =>
        /\ ev.alloc.client = "running" /\ ev.alloc.task = "up" =>
             \/ ev.alloc.restarts < allocs[ev.id].restarts
             \/ ev.alloc.restarts = allocs[ev.id].restarts /\ allocs[ev.id].task \notin {"new", "again"}
        /\ ev.alloc.client = "complete" => allocs[ev.id].client = "complete"

\* The event of a task that gave up comes before the one of the failed allocation.
GaveUp(ev, i) == ev.topic = "Allocation" /\ ev.id = i /\ ev.alloc.client = "running" /\ ev.alloc.task = "gaveup"
GivingUpIsLogged ==
    /\ \A i \in DOMAIN allocs : allocs[i].task = "gaveup" => \E ev \in Logged : GaveUp(ev, i)
    /\ \A m \in 1..Len(nomadLog) :
         nomadLog[m].topic = "Allocation" /\ nomadLog[m].alloc.client = "failed"
           => \E k \in 1..Len(nomadLog) : k < m /\ GaveUp(nomadLog[k], nomadLog[m].id)

\* The subscriber's side.
FailedKey(i) == <<"allocation", i, "failed", 0>>
TakenIn ==
    /\ \A key \in riverKeys : \E ev \in Logged : KeepEvent(ev, TRUE) /\ KeyOf(ev) = key
    /\ nomadJobs \subseteq Logged
    /\ \A ev \in nomadJobs : KeepEvent(ev, TRUE) /\ KeyOf(ev) \in riverKeys
    /\ ~lossy => \A k \in 1..Len(nomadLog) :
                   (k <= readTo \/ k <= lastIndex) /\ KeepEvent(nomadLog[k], TRUE) => KeyOf(nomadLog[k]) \in riverKeys

FailureInHand ==
    ~lossy =>
      /\ \A ev \in nomadJobs : ev.topic = "Allocation" => ev.alloc.client # "failed"
      /\ \A i \in DOMAIN allocs : FailedKey(i) \in riverKeys =>
           i \in toldBad \/ \E ev \in nomadJobs : GaveUp(ev, i)

\* An event that tells of a healthy job.
Good(ev) == ev.topic # "Evaluation" /\ EventOutcome(ev, TRUE, TRUE) = "ok"
Steady == jobKind = "rolling" \/ \A i \in DOMAIN allocs : allocs[i].client = "running" => allocs[i].task = "up"
HealthInHand ==
    ~lossy /\ jobVersion > 0 /\ JobHealthy /\ Steady /\ ~toldOk =>
      \E ev \in Logged : Good(ev) /\ (ev \in nomadJobs \/ KeyOf(ev) \notin riverKeys)

StreamInv ==
    /\ StreamTypes /\ Placed /\ StartsAreNumbered /\ GivingUpIsLogged /\ TakenIn /\ FailureInHand /\ HealthInHand

LEMMA StreamStarts == NomadInit => StreamInv
<1> SUFFICES ASSUME NomadInit PROVE StreamInv
  OBVIOUS
<1>1. streamBudget \in Budgets /\ MaxAllocs \in Nat /\ streamBudget.versions \in Nat
  BY StreamAssumption DEF NomadInit, Budgets
<1>2. Len(allocs) = 0 /\ DOMAIN allocs = {} /\ Len(nomadLog) = 0 /\ Logged = {} /\ allocs \in Seq(AllocRecords)
      /\ nomadLog \in Seq(AnyEvents)
  BY DEF NomadInit, Logged
<1>3. StreamTypes
  <2>1. /\ jobKind = streamBudget.kind /\ jobVersion = 0 /\ deployment = "none" /\ lastIndex = 0 /\ readTo = 0
        /\ evals = 0 /\ lossy = FALSE /\ toldOk = FALSE /\ toldBad = {}
    BY DEF NomadInit
  <2>2. jobVersion \in Nat /\ jobVersion <= streamBudget.versions /\ Len(allocs) <= MaxAllocs
        /\ lastIndex \in 0..Len(nomadLog) /\ readTo \in 0..Len(nomadLog) /\ evals \in Nat
    BY <1>1, <1>2, <2>1
  <2> QED
    BY <1>1, <1>2, <2>1, <2>2 DEF StreamTypes
<1>4. Placed /\ StartsAreNumbered /\ GivingUpIsLogged /\ TakenIn /\ FailureInHand
  BY <1>2 DEF NomadInit, Placed, StartsAreNumbered, GivingUpIsLogged, TakenIn, FailureInHand
<1>5. HealthInHand
  BY DEF NomadInit, HealthInHand
<1> QED
  BY <1>3, <1>4, <1>5 DEF StreamInv

\* A task that gave up is kept under the key of the failure, and reported.
LEMMA GaveUpFacts ==
    ASSUME NEW ev, NEW i, GaveUp(ev, i), EventFits(ev)
    PROVE  /\ KeepEvent(ev, TRUE) /\ KeyOf(ev) = FailedKey(i)
           /\ \A h, lookup \in BOOLEAN : EventOutcome(ev, h, lookup) = "bad"
<1>1. ev.topic = "Allocation" /\ ev.id = i /\ ev.alloc.client = "running" /\ ev.alloc.task = "gaveup"
      /\ ev.alloc.desired = "run"
  BY DEF GaveUp, EventFits
<1>2. RestartExhausted(ev.alloc)
  BY <1>1 DEF RestartExhausted
<1>3. KeepAlloc(ev.alloc, TRUE)
  BY <1>1, <1>2 DEF KeepAlloc, IsCandidate
<1>4. AllocKey(ev.id, ev.alloc) = FailedKey(i)
  BY <1>1, <1>2 DEF AllocKey, FailedKey
<1>5. \A h, lookup \in BOOLEAN : AllocOutcome(ev.alloc, h, lookup) = "bad"
  BY <1>1, <1>2 DEF AllocOutcome
<1> QED
  BY <1>1, <1>3, <1>4, <1>5 DEF KeepEvent, KeyOf, EventOutcome

\* A dropped event is one that no worker would report.
LEMMA DroppedTellsNothing ==
    ASSUME NEW ev \in AnyEvents, ~KeepEvent(ev, TRUE), NEW h \in BOOLEAN
    PROVE  EventOutcome(ev, h, TRUE) = "none"
<1>1. CASE ev \in [topic : {"Allocation"}, id : Nat, alloc : AllocRecords]
  BY <1>1 DEF KeepEvent, KeepAlloc, AllocOutcome, IsCandidate, RestartExhausted, HasFailedTask,
     TaskRestarting, EventOutcome
<1>2. CASE ev \in [topic : {"Job"}, id : Nat]
  BY <1>2 DEF KeepEvent
<1>3. CASE ev \in [topic : {"Deployment"}, id : Nat, status : {"successful", "failed"}]
  BY <1>3 DEF KeepEvent
<1>4. CASE ev \in [topic : {"Evaluation"}, id : Nat, eval : EvalShapes]
  BY <1>4, StreamAssumption DEF KeepEvent, KeepEval, EvalOutcome, EventOutcome
<1> QED
  BY <1>1, <1>2, <1>3, <1>4 DEF AnyEvents

LEMMA StreamBefore ==
    ASSUME StreamInv
    PROVE  /\ streamBudget \in Budgets /\ streamBudget.versions \in Nat /\ jobKind = streamBudget.kind
           /\ jobKind \in {"rolling", "service", "oneshot", "template"}
           /\ jobVersion \in Nat /\ jobVersion <= streamBudget.versions
           /\ allocs \in Seq(AllocRecords) /\ Len(allocs) \in Nat /\ Len(allocs) <= MaxAllocs
           /\ DOMAIN allocs = 1..Len(allocs) /\ \A i \in DOMAIN allocs : allocs[i] \in AllocRecords
           /\ deployment \in {"none", "running", "successful", "failed"}
           /\ nomadLog \in Seq(AnyEvents) /\ Len(nomadLog) \in Nat
           /\ DOMAIN nomadLog = 1..Len(nomadLog) /\ \A k \in 1..Len(nomadLog) : nomadLog[k] \in AnyEvents
           /\ lastIndex \in Nat /\ lastIndex <= Len(nomadLog) /\ readTo \in Nat /\ readTo <= Len(nomadLog)
           /\ evals \in Nat /\ lossy \in BOOLEAN /\ toldOk \in BOOLEAN /\ toldBad \subseteq DOMAIN allocs
BY DEF StreamInv, StreamTypes, Budgets

LEMMA StreamEnough == StreamInv => StreamIsSound
<1> SUFFICES ASSUME StreamInv PROVE StreamIsSound
  OBVIOUS
<1>1. NomadTypeOK
  <2>1. jobVersion \in 0..streamBudget.versions /\ lastIndex \in 0..Len(nomadLog) /\ readTo \in 0..Len(nomadLog)
    BY StreamBefore
  <2>2. \A ev \in nomadJobs : KeyOf(ev) \in riverKeys
    BY DEF StreamInv, TakenIn
  <2> QED
    BY <2>1, <2>2, StreamBefore DEF NomadTypeOK
<1>2. ASSUME CaughtUp PROVE \A ev \in Logged : KeepEvent(ev, TRUE) => KeyOf(ev) \in riverKeys
  <2> SUFFICES ASSUME NEW k \in 1..Len(nomadLog), KeepEvent(nomadLog[k], TRUE) PROVE KeyOf(nomadLog[k]) \in riverKeys
    BY DEF Logged
  <2>1. k <= readTo /\ ~lossy
    BY <1>2, StreamBefore DEF CaughtUp
  <2> QED
    BY <2>1 DEF StreamInv, TakenIn
<1>3. HealthIsReported
  <2> SUFFICES ASSUME CaughtUp, jobVersion > 0, JobHealthy, ~toldOk PROVE FALSE
    BY DEF HealthIsReported
  <2>1. Steady
    BY DEF Steady, CaughtUp
  <2>2. PICK ev \in Logged : Good(ev) /\ KeyOf(ev) \notin riverKeys
    BY <2>1 DEF StreamInv, HealthInHand, CaughtUp
  <2>3. ~KeepEvent(ev, TRUE)
    BY <1>2, <2>2
  <2>4. ev \in AnyEvents
    BY DEF StreamInv, StreamTypes, Logged
  <2> QED
    BY <2>2, <2>3, <2>4, DroppedTellsNothing DEF Good
<1>4. FailureIsReported
  <2> SUFFICES ASSUME CaughtUp, NEW i \in RunningAllocs({"failed"}) PROVE i \in toldBad
    BY DEF FailureIsReported
  <2>1. i \in DOMAIN allocs /\ allocs[i].client = "failed"
    BY DEF RunningAllocs
  <2>2. allocs[i].task = "gaveup"
    BY <2>1 DEF StreamInv, Placed, AllocFits
  <2>3. PICK ev \in Logged : GaveUp(ev, i)
    BY <2>1, <2>2 DEF StreamInv, GivingUpIsLogged
  <2>4. KeepEvent(ev, TRUE) /\ KeyOf(ev) = FailedKey(i)
    BY <2>3, GaveUpFacts DEF StreamInv, Placed
  <2>5. FailedKey(i) \in riverKeys
    BY <1>2, <2>3, <2>4
  <2> QED
    BY <2>1, <2>5 DEF StreamInv, FailureInHand, CaughtUp
<1>5. FilterLosesNothing
  BY StreamBefore, DroppedTellsNothing DEF FilterLosesNothing
<1> QED
  BY <1>1, <1>3, <1>4, <1>5 DEF StreamIsSound

\* The log grows at its end.
LEMMA LogGrows ==
    ASSUME StreamInv, NEW ev \in AnyEvents, nomadLog' = Append(nomadLog, ev)
    PROVE  /\ nomadLog' \in Seq(AnyEvents) /\ Len(nomadLog') = Len(nomadLog) + 1
           /\ \A k \in 1..Len(nomadLog) : nomadLog'[k] = nomadLog[k]
           /\ nomadLog'[Len(nomadLog) + 1] = ev
           /\ Logged' = Logged \cup {ev}
BY StreamBefore DEF Logged

\* An event that is kept under the key of a good one is good itself.
LEMMA GoodKey ==
    ASSUME StreamInv, NEW g \in Logged, Good(g), NEW e \in Logged, KeepEvent(e, TRUE), KeyOf(e) = KeyOf(g)
    PROVE  Good(e)
<1>1. g \in AnyEvents /\ e \in AnyEvents /\ EventFits(g) /\ EventFits(e)
  BY StreamBefore DEF Logged, StreamInv, Placed
<1>2. g.topic \in {"Allocation", "Job", "Deployment"} /\ e.topic \in {"Allocation", "Job", "Deployment", "Evaluation"}
  BY <1>1 DEF AnyEvents, Good
<1>3. CASE g.topic = "Allocation"
  <2>1. AllocOutcome(g.alloc, TRUE, TRUE) = "ok"
    BY <1>3 DEF Good, EventOutcome
  <2>2. g.alloc.client \in {"running", "complete"} /\ ~RestartExhausted(g.alloc) /\ g.alloc.desired = "run"
    BY <1>1, <1>3, <2>1 DEF AllocOutcome, EventFits
  <2>3. KeyOf(g)[1] = "allocation" /\ KeyOf(g)[3] = g.alloc.client
    BY <1>3, <2>2 DEF KeyOf, AllocKey
  <2>4. e.topic = "Allocation"
    BY <1>2, <2>3 DEF KeyOf
  <2>5. KeepAlloc(e.alloc, TRUE) /\ AllocFits(e.alloc) /\ e.alloc.desired = "run"
    BY <1>1, <2>4 DEF KeepEvent, EventFits
  <2>6. KeyOf(e)[3] = IF e.alloc.client = "failed" \/ RestartExhausted(e.alloc) THEN "failed" ELSE e.alloc.client
    BY <2>4, <2>5 DEF KeyOf, AllocKey
  <2>7. e.alloc.client \in {"running", "complete"} /\ ~RestartExhausted(e.alloc)
    BY <2>2, <2>3, <2>6
  <2>8. AllocOutcome(e.alloc, TRUE, TRUE) = "ok"
    BY <2>5, <2>7 DEF KeepAlloc, AllocOutcome, AllocFits, TaskRestarting, HasFailedTask, RestartExhausted
  <2> QED
    BY <2>4, <2>8 DEF Good, EventOutcome
<1>4. CASE g.topic # "Allocation"
  BY <1>4, <1>2 DEF KeyOf, AllocKey, StreamInv, Placed, Good, EventOutcome
<1> QED
  BY <1>3, <1>4

\* A key that River has seen is the key of an event in the log.
LEMMA SeenIsLogged ==
    ASSUME StreamInv, NEW key \in riverKeys
    PROVE  \E ev \in Logged : /\ KeepEvent(ev, TRUE) /\ KeyOf(ev) = key /\ EventFits(ev) /\ ev \in AnyEvents
                              /\ ev.topic \in {"Allocation", "Job", "Deployment", "Evaluation"}
<1>1. PICK ev \in Logged : KeepEvent(ev, TRUE) /\ KeyOf(ev) = key
  BY DEF StreamInv, TakenIn
<1>2. EventFits(ev) /\ ev \in AnyEvents
  BY StreamBefore DEF Logged, StreamInv, Placed
<1> QED
  BY <1>1, <1>2 DEF AnyEvents

\* What a step of Nomad has to show: one event more in the log, and synapse rests.
LEMMA NomadSideKeeps ==
    ASSUME StreamInv, SynapseRests, UNCHANGED <<toldBad, jobKind>>,
           \A k \in 1..Len(nomadLog) : nomadLog'[k] = nomadLog[k],
           Len(nomadLog') >= Len(nomadLog), Logged \subseteq Logged',
           DOMAIN allocs \subseteq DOMAIN allocs',
           StreamTypes', Placed', StartsAreNumbered', GivingUpIsLogged',
           ~lossy /\ jobVersion' > 0 /\ JobHealthy' /\ Steady' /\ ~toldOk' =>
             \/ jobVersion > 0 /\ JobHealthy /\ Steady /\ ~toldOk
             \/ \E ev \in Logged' : Good(ev)' /\ KeyOf(ev) \notin riverKeys
    PROVE  StreamInv'
<1>1. UNCHANGED <<lastIndex, readTo, riverKeys, nomadJobs, streamBudget, lossy>>
  BY DEF SynapseRests
<1>2. lastIndex <= Len(nomadLog) /\ readTo <= Len(nomadLog) /\ lastIndex \in Nat /\ readTo \in Nat /\ Len(nomadLog) \in Nat
      /\ Len(nomadLog') \in Nat
  BY StreamBefore DEF StreamTypes
<1>3. TakenIn'
  <2>1. \A key \in riverKeys' : \E ev \in Logged' : KeepEvent(ev, TRUE) /\ KeyOf(ev) = key
    BY <1>1 DEF StreamInv, TakenIn
  <2>2. nomadJobs' \subseteq Logged' /\ \A ev \in nomadJobs' : KeepEvent(ev, TRUE) /\ KeyOf(ev) \in riverKeys'
    BY <1>1 DEF StreamInv, TakenIn
  <2>3. ASSUME ~lossy', NEW k \in 1..Len(nomadLog'), k <= readTo' \/ k <= lastIndex', KeepEvent(nomadLog'[k], TRUE)
        PROVE  KeyOf(nomadLog'[k]) \in riverKeys'
    <3>1. k \in 1..Len(nomadLog)
      BY <1>1, <1>2, <2>3
    <3> QED
      BY <1>1, <2>3, <3>1 DEF StreamInv, TakenIn
  <2> QED
    BY <2>1, <2>2, <2>3 DEF TakenIn
<1>4. FailureInHand'
  BY <1>1, SeenIsLogged DEF FailureInHand, FailedKey, KeyOf, AllocKey, EventFits, StreamInv
<1>5. HealthInHand'
  BY <1>1 DEF HealthInHand, StreamInv, Good, EventOutcome
<1> QED
  BY <1>3, <1>4, <1>5 DEF StreamInv

AllocEventOf(ev, i, key) ==
    /\ ev \in Logged /\ KeepEvent(ev, TRUE) /\ EventFits(ev) /\ ev.topic = "Allocation" /\ ev.id = i
    /\ ev.alloc \in AllocRecords /\ AllocKey(i, ev.alloc) = key

\* A key of an allocation is seen only if its event is in the log.
LEMMA SeenAllocation ==
    ASSUME StreamInv, NEW i, NEW c, NEW n, NEW key \in riverKeys, key = <<"allocation", i, c, n>>
    PROVE  \E ev : AllocEventOf(ev, i, key)
BY SeenIsLogged DEF KeyOf, AllocKey, AnyEvents, AllocEventOf

\* The event of a task that came up, and the one of an allocation that completed, are new to River.
LEMMA UpIsNew ==
    ASSUME StreamInv, NEW i \in DOMAIN allocs, NEW a \in AllocRecords, a.desired = "run", AllocFits(a),
           \/ a.client = "running" /\ a.task = "up" /\ a.restarts = allocs[i].restarts /\ allocs[i].task \in {"new", "again"}
           \/ a.client = "complete" /\ allocs[i].client # "complete"
    PROVE  Good(AllocEvent(i, a)) /\ KeyOf(AllocEvent(i, a)) \notin riverKeys
<1> DEFINE ev == AllocEvent(i, a)
<1>1. ev.topic = "Allocation" /\ ev.id = i /\ ev.alloc = a
  BY DEF AllocEvent
<1>2. a.task \in {"up", "done"} /\ (a.client = "running" => a.task = "up")
  BY DEF AllocFits
<1>3. AllocOutcome(a, TRUE, TRUE) = "ok"
  BY <1>2 DEF AllocOutcome, TaskRestarting, RestartExhausted, HasFailedTask
<1>4. Good(ev)
  BY <1>1, <1>3 DEF Good, EventOutcome
<1>5. KeyOf(ev) = <<"allocation", i, a.client, IF a.client = "running" THEN a.restarts ELSE 0>>
  BY <1>1, <1>2 DEF KeyOf, AllocKey, RestartExhausted
<1>6. ASSUME KeyOf(ev) \in riverKeys PROVE FALSE
  <2>1. PICK n : n = IF a.client = "running" THEN a.restarts ELSE 0
    OBVIOUS
  <2>0. PICK c : c = a.client
    OBVIOUS
  <2>7. PICK key : key = <<"allocation", i, c, n>>
    OBVIOUS
  <2>9. key \in riverKeys
    BY <1>5, <1>6, <2>0, <2>1, <2>7
  <2>8. PICK e : AllocEventOf(e, i, key)
    BY <2>7, <2>9, SeenAllocation
  <2>2. /\ e \in Logged /\ KeepEvent(e, TRUE) /\ EventFits(e) /\ e.topic = "Allocation" /\ e.id = i
        /\ e.alloc \in AllocRecords /\ AllocKey(i, e.alloc) = <<"allocation", i, a.client, n>>
    BY <2>0, <2>7, <2>8 DEF AllocEventOf
  <2>3. KeepAlloc(e.alloc, TRUE) /\ e.alloc.desired = "run" /\ AllocFits(e.alloc)
    BY <2>2 DEF KeepEvent, EventFits
  <2>4. AllocKey(i, e.alloc)[3] = (IF e.alloc.client = "failed" \/ RestartExhausted(e.alloc) THEN "failed" ELSE e.alloc.client)
    BY <2>3 DEF AllocKey
  <2>5. e.alloc.client = a.client /\ ~RestartExhausted(e.alloc)
    BY <2>2, <2>4
  <2>6. CASE a.client = "complete"
    BY <2>2, <2>5, <2>6 DEF StreamInv, StartsAreNumbered
  <2>10. CASE a.client = "running"
    <3>1. AllocKey(i, e.alloc)[4] = e.alloc.restarts
      BY <2>3, <2>5, <2>10 DEF AllocKey
    <3>2. e.alloc.restarts = allocs[i].restarts /\ allocs[i].task \in {"new", "again"}
      BY <2>1, <2>2, <2>10, <3>1
    <3>3. e.alloc.task = "up"
      BY <2>2, <2>3, <2>5, <2>10 DEF KeepAlloc, TaskRestarting, RestartExhausted, AllocFits, AllocRecords
    <3>4. allocs[i].restarts \in Nat
      BY StreamBefore DEF AllocRecords
    <3> QED
      BY <2>2, <2>5, <2>10, <3>2, <3>3, <3>4 DEF StreamInv, StartsAreNumbered
  <2> QED
    BY <2>6, <2>10
<1> QED
  BY <1>4, <1>6

\* A job is not healthy while an allocation of its version is placed or has failed.
LEMMA HealthNext ==
    ASSUME JobHealthy'
    PROVE  /\ jobKind' = "rolling" => deployment' = "successful"
           /\ jobKind' = "service" => \A i \in DOMAIN allocs' : allocs'[i].desired = "run" =>
                                                   allocs'[i].client \notin {"failed", "pending"}
           /\ jobKind' = "oneshot" =>
                \A i \in DOMAIN allocs' : allocs'[i].desired = "run" /\ allocs'[i].version = jobVersion' =>
                                             allocs'[i].client \notin {"failed", "pending", "running"}
  BY DEF JobHealthy, ServiceHealthy, OneShotBatchHealthy, RunningAllocs

LEMMA BecomesFacts ==
    ASSUME StreamInv, NEW i \in DOMAIN allocs, NEW a \in AllocRecords, allocs' = [allocs EXCEPT ![i] = a]
    PROVE  /\ allocs' \in Seq(AllocRecords) /\ Len(allocs') = Len(allocs) /\ DOMAIN allocs' = DOMAIN allocs
           /\ allocs'[i] = a /\ \A k \in DOMAIN allocs \ {i} : allocs'[k] = allocs[k]
BY StreamBefore, ExceptSeq

LEMMA BecomesKeeps ==
    ASSUME StreamInv, NEW i \in DOMAIN allocs, NEW a \in AllocRecords, Becomes(i, a), AllocFits(a),
           allocs[i].desired = "run", a.desired = "run", a.version = allocs[i].version,
           \/ a.restarts > allocs[i].restarts
           \/ a.restarts = allocs[i].restarts /\ (allocs[i].task \notin {"new", "again"} => a.task \notin {"new", "again"}),
           allocs[i].client # "complete",
           a.client = "failed" => allocs[i].task = "gaveup",
           \/ a.client = "running" /\ a.task = "up" /\ a.restarts = allocs[i].restarts /\ allocs[i].task \in {"new", "again"}
           \/ a.client = "running" /\ a.task # "up"
           \/ a.client = "complete" \/ a.client = "failed"
    PROVE  StreamInv'
<1> DEFINE ev == AllocEvent(i, a)
<1>1. /\ allocs' = [allocs EXCEPT ![i] = a] /\ nomadLog' = Append(nomadLog, ev)
      /\ UNCHANGED <<jobKind, jobVersion, deployment, evals, toldBad, lastIndex, readTo, streamBudget, lossy>>
      /\ SynapseRests /\ toldOk' = (toldOk /\ JobHealthy')
  BY DEF Becomes, Emits, SynapseRests, StillHealthy
<1>2. ev \in AnyEvents /\ ev.topic = "Allocation" /\ ev.id = i /\ ev.alloc = a
  BY StreamBefore DEF AllocEvent, AnyEvents
<1>3. /\ nomadLog' \in Seq(AnyEvents) /\ Len(nomadLog') = Len(nomadLog) + 1
      /\ \A k \in 1..Len(nomadLog) : nomadLog'[k] = nomadLog[k]
      /\ nomadLog'[Len(nomadLog) + 1] = ev /\ Logged' = Logged \cup {ev}
  BY <1>1, <1>2, LogGrows
<1>4. /\ allocs' \in Seq(AllocRecords) /\ Len(allocs') = Len(allocs) /\ DOMAIN allocs' = DOMAIN allocs
      /\ allocs'[i] = a /\ \A k \in DOMAIN allocs \ {i} : allocs'[k] = allocs[k]
  BY <1>1, BecomesFacts
<1> HIDE DEF ev
<1>5. StreamTypes'
  BY <1>1, <1>3, <1>4, StreamBefore DEF StreamTypes
<1>6. Placed'
  BY <1>1, <1>4, <1>2, <1>3 DEF StreamInv, Placed, EventFits
<1>7. StartsAreNumbered'
  <2> SUFFICES ASSUME NEW e \in Logged', e.topic = "Allocation"
               PROVE  /\ e.alloc.client = "running" /\ e.alloc.task = "up" =>
                           \/ e.alloc.restarts < allocs'[e.id].restarts
                           \/ e.alloc.restarts = allocs'[e.id].restarts /\ allocs'[e.id].task \notin {"new", "again"}
                      /\ e.alloc.client = "complete" => allocs'[e.id].client = "complete"
    BY DEF StartsAreNumbered
  <2>1. CASE e = ev
    BY <1>2, <1>4, <2>1
  <2>2. CASE e \in Logged
    <3>1. /\ e.id \in DOMAIN allocs /\ e \in AnyEvents /\ e.alloc \in AllocRecords /\ e.alloc.restarts \in Nat
      <4>1. e.id \in DOMAIN allocs
        BY <2>2 DEF StreamInv, Placed, EventFits
      <4>2. e \in AnyEvents
        BY <2>2, StreamBefore DEF Logged
      <4>3. e.alloc \in AllocRecords
        BY <4>2 DEF AnyEvents
      <4>4. e.alloc.restarts \in Nat
        BY <4>3 DEF AllocRecords
      <4> QED
        BY <4>1, <4>2, <4>3, <4>4
    <3>2. /\ e.alloc.client = "running" /\ e.alloc.task = "up" =>
               \/ e.alloc.restarts < allocs[e.id].restarts
               \/ e.alloc.restarts = allocs[e.id].restarts /\ allocs[e.id].task \notin {"new", "again"}
          /\ e.alloc.client = "complete" => allocs[e.id].client = "complete"
      BY <2>2 DEF StreamInv, StartsAreNumbered
    <3>3. CASE e.id = i
      <4>1. a.restarts \in Nat /\ allocs[i].restarts \in Nat
        BY StreamBefore DEF AllocRecords
      <4> QED
        BY <1>4, <3>1, <3>2, <3>3, <4>1
    <3>4. CASE e.id # i
      BY <1>4, <3>1, <3>2, <3>4
    <3> QED
      BY <3>3, <3>4
  <2> QED
    BY <1>3, <2>1, <2>2
<1>8. GivingUpIsLogged'
  <2>1. ASSUME a.task = "gaveup" PROVE \E e \in Logged' : GaveUp(e, i)
    BY <1>2, <1>3, <2>1 DEF GaveUp, StreamInv, GivingUpIsLogged, AllocFits
  <2>2. \A k \in DOMAIN allocs' : allocs'[k].task = "gaveup" => \E e \in Logged' : GaveUp(e, k)
    BY <1>3, <1>4, <2>1 DEF StreamInv, GivingUpIsLogged
  <2>3. ASSUME NEW m \in 1..Len(nomadLog'), nomadLog'[m].topic = "Allocation", nomadLog'[m].alloc.client = "failed"
        PROVE  \E k \in 1..Len(nomadLog') : k < m /\ GaveUp(nomadLog'[k], nomadLog'[m].id)
    <3>1. Len(nomadLog) \in Nat
      BY StreamBefore
    <3>2. CASE m \in 1..Len(nomadLog)
      BY <1>3, <2>3, <3>2, <3>1 DEF StreamInv, GivingUpIsLogged
    <3>3. CASE m = Len(nomadLog) + 1
      BY <1>2, <1>3, <2>3, <3>3, <3>1 DEF StreamInv, GivingUpIsLogged, Logged
    <3> QED
      BY <1>3, <3>1, <3>2, <3>3
  <2> QED
    BY <2>2, <2>3 DEF GivingUpIsLogged
<1>9. ASSUME JobHealthy', Steady', ~toldOk'
      PROVE  \/ JobHealthy /\ Steady /\ ~toldOk
             \/ \E e \in Logged' : Good(e)' /\ KeyOf(e) \notin riverKeys
  <2>1. jobKind \in {"rolling", "service", "oneshot", "template"}
    BY StreamBefore
  <2>2. CASE jobKind = "rolling"
    BY <1>1, <1>9, <2>2 DEF JobHealthy, Steady
  <2>3. CASE jobKind = "template"
    BY <2>3 DEF StreamInv, Placed
  <2>4. CASE jobKind \in {"service", "oneshot"}
    <3>1. ~(a.client = "running" /\ a.task # "up")
      BY <1>1, <1>4, <1>9, <2>4 DEF Steady
    <3>2. a.client # "failed"
      BY <1>1, <1>4, <1>9, <2>4, HealthNext DEF StreamInv, Placed
    <3>3. Good(ev) /\ KeyOf(ev) \notin riverKeys
      BY <3>1, <3>2, UpIsNew DEF ev
    <3>4. Good(ev)'
      BY <1>1, <1>2, <3>3 DEF Good, EventOutcome
    <3> QED
      BY <1>3, <3>3, <3>4
  <2> QED
    BY <2>1, <2>2, <2>3, <2>4
<1>10. Logged \subseteq Logged' /\ Len(nomadLog') >= Len(nomadLog) /\ DOMAIN allocs \subseteq DOMAIN allocs'
  BY <1>3, <1>4, StreamBefore
<1>11. ~lossy /\ jobVersion' > 0 /\ JobHealthy' /\ Steady' /\ ~toldOk' =>
             \/ jobVersion > 0 /\ JobHealthy /\ Steady /\ ~toldOk
             \/ \E e \in Logged' : Good(e)' /\ KeyOf(e) \notin riverKeys
  BY <1>1, <1>9
<1> QED
  BY <1>1, <1>3, <1>5, <1>6, <1>7, <1>8, <1>10, <1>11, NomadSideKeeps

LEMMA AllocChangesKeeps ==
    ASSUME StreamInv, NEW i \in DOMAIN allocs, AllocChanges(i)
    PROVE  StreamInv'
<1>1. /\ allocs[i] \in AllocRecords /\ AllocFits(allocs[i]) /\ allocs[i].desired = "run" /\ MaxTaskRestarts \in Nat
  BY StreamBefore, StreamAssumption DEF StreamInv, Placed, AllocChanges
<1>2. PICK old : old = allocs[i]
  OBVIOUS
<1>3. /\ old.version \in Nat /\ old.desired = "run" /\ old.client \in {"pending", "running", "failed", "complete"}
      /\ old.task \in {"new", "up", "again", "gaveup", "done"} /\ old.restarts \in Nat
      /\ old = [version |-> old.version, desired |-> old.desired, client |-> old.client, task |-> old.task,
                restarts |-> old.restarts]
  BY <1>1, <1>2 DEF AllocRecords
<1>4. AllocFits(old)
  BY <1>1, <1>2
<1>5. CASE old.task = "new" /\ old.client = "pending" /\ Becomes(i, [old EXCEPT !.client = "running"])
  BY <1>3, <1>5, <1>2, BecomesKeeps DEF AllocRecords, AllocFits
<1>6. CASE old.task \in {"new", "again"} /\ Becomes(i, [old EXCEPT !.client = "running", !.task = "up"])
  BY <1>3, <1>6, <1>4, <1>2, BecomesKeeps DEF AllocRecords, AllocFits
<1>7. CASE old.task = "up" /\ Becomes(i, [old EXCEPT !.task = "again", !.restarts = old.restarts + 1])
  <2>1. PICK a : a = [old EXCEPT !.task = "again", !.restarts = old.restarts + 1]
    OBVIOUS
  <2>5. PICK n : n = old.restarts + 1
    OBVIOUS
  <2>7. n \in Nat
    BY <1>3, <2>5
  <2>8. a = [version |-> old.version, desired |-> old.desired, client |-> old.client, task |-> "again", restarts |-> n]
    BY <1>3, <2>1, <2>5
  <2>6. n \in Nat /\ a = [version |-> old.version, desired |-> "run", client |-> old.client, task |-> "again", restarts |-> n]
    BY <1>3, <2>7, <2>8
  <2>2. a \in AllocRecords /\ a.desired = "run" /\ a.client = old.client /\ a.task = "again" /\ a.restarts = old.restarts + 1
        /\ a.version = old.version
    BY <1>3, <2>5, <2>6 DEF AllocRecords
  <2>3. old.client = "running"
    BY <1>3, <1>4, <1>7 DEF AllocFits
  <2>4. AllocFits(a) /\ Becomes(i, a) /\ a.restarts > old.restarts
    BY <1>3, <1>7, <2>1, <2>2, <2>3 DEF AllocFits
  <2> QED
    BY <1>2, <1>3, <1>7, <2>2, <2>3, <2>4, BecomesKeeps
<1>8. CASE old.task = "up" /\ Becomes(i, [old EXCEPT !.task = "gaveup"])
  BY <1>3, <1>8, <1>4, <1>2, BecomesKeeps DEF AllocRecords, AllocFits
<1>9. CASE old.task = "gaveup" /\ old.client = "running" /\ Becomes(i, [old EXCEPT !.client = "failed"])
  BY <1>3, <1>9, <1>2, BecomesKeeps DEF AllocRecords, AllocFits
<1>10. CASE old.task = "up" /\ Becomes(i, [old EXCEPT !.client = "complete", !.task = "done"])
  BY <1>3, <1>10, <1>4, <1>2, BecomesKeeps DEF AllocRecords, AllocFits
<1> QED
  BY <1>2, <1>5, <1>6, <1>7, <1>8, <1>9, <1>10 DEF AllocChanges

\* A key that is no allocation's is seen only if its event is in the log.
LEMMA SeenOther ==
    ASSUME StreamInv, NEW t, t # "allocation", NEW n, NEW key \in riverKeys, key = <<t, n, "end", 0>>
    PROVE  \E ev \in Logged : ev.topic = t /\ ev.id = n /\ EventFits(ev) /\ ev \in AnyEvents
BY SeenIsLogged DEF KeyOf, AllocKey

\* An event that is no allocation's tells nothing of the starts.
LEMMA OtherEvents ==
    ASSUME StreamInv, Logged \subseteq Logged', \A ev \in Logged' : ev.topic = "Allocation" => ev \in Logged,
           Len(nomadLog') \in Nat, Len(nomadLog') >= Len(nomadLog),
           \A k \in 1..Len(nomadLog) : nomadLog'[k] = nomadLog[k],
           \A k \in 1..Len(nomadLog') : k > Len(nomadLog) => nomadLog'[k].topic # "Allocation",
           \A k \in DOMAIN allocs : /\ allocs'[k].task = allocs[k].task /\ allocs'[k].restarts = allocs[k].restarts
                                    /\ allocs'[k].client = allocs[k].client,
           \A k \in DOMAIN allocs' : k \notin DOMAIN allocs => allocs'[k].task # "gaveup"
    PROVE  StartsAreNumbered' /\ GivingUpIsLogged'
<1>1. Len(nomadLog) \in Nat
  BY StreamBefore
<1>2. StartsAreNumbered'
  BY DEF StartsAreNumbered, StreamInv, Placed, EventFits
<1>3. \A i \in DOMAIN allocs' : allocs'[i].task = "gaveup" => \E ev \in Logged' : GaveUp(ev, i)
  BY DEF StreamInv, GivingUpIsLogged
<1>4. ASSUME NEW m \in 1..Len(nomadLog'), nomadLog'[m].topic = "Allocation", nomadLog'[m].alloc.client = "failed"
      PROVE  \E k \in 1..Len(nomadLog') : k < m /\ GaveUp(nomadLog'[k], nomadLog'[m].id)
  BY <1>1, <1>4 DEF StreamInv, GivingUpIsLogged
<1> QED
  BY <1>2, <1>3, <1>4 DEF GivingUpIsLogged

LEMMA RescheduleKeeps ==
    ASSUME StreamInv, NEW i \in DOMAIN allocs, Reschedule(i)
    PROVE  StreamInv'
<1>1. /\ allocs' = Append([allocs EXCEPT ![i].desired = "stop"], NewAlloc(allocs[i].version))
      /\ UNCHANGED <<jobKind, jobVersion, deployment, nomadLog, evals, toldBad, lastIndex, readTo, streamBudget, lossy>>
      /\ SynapseRests /\ toldOk' = (toldOk /\ JobHealthy')
      /\ Len(allocs) < MaxAllocs /\ allocs[i].desired = "run"
  BY DEF Reschedule, SynapseRests, StillHealthy
<1>2. /\ allocs \in Seq(AllocRecords) /\ Len(allocs) \in Nat /\ allocs[i] \in AllocRecords /\ MaxAllocs \in Nat
      /\ DOMAIN allocs = 1..Len(allocs) /\ allocs[i].version = jobVersion /\ jobVersion \in Nat
  BY <1>1, StreamBefore, StreamAssumption DEF StreamInv, Placed
<1>3. PICK old : old = [allocs[i] EXCEPT !.desired = "stop"]
  OBVIOUS
<1>4. old \in AllocRecords /\ old.desired = "stop" /\ old.client = allocs[i].client /\ old.task = allocs[i].task
      /\ old.restarts = allocs[i].restarts
  BY <1>2, <1>3 DEF AllocRecords
<1>5. PICK new : new = NewAlloc(jobVersion)
  OBVIOUS
<1>6. new \in AllocRecords /\ new.desired = "run" /\ new.client = "pending" /\ new.task = "new" /\ new.version = jobVersion
  BY <1>2, <1>5 DEF NewAlloc, AllocRecords
<1>7. PICK mid : mid = [allocs EXCEPT ![i] = old]
  OBVIOUS
<1>8. mid \in Seq(AllocRecords) /\ Len(mid) = Len(allocs) /\ mid[i] = old /\ \A k \in DOMAIN allocs \ {i} : mid[k] = allocs[k]
  BY <1>2, <1>4, <1>7, ExceptSeq
<1>9. allocs' = Append(mid, new)
  BY <1>1, <1>2, <1>3, <1>5, <1>7
<1>10. /\ allocs' \in Seq(AllocRecords) /\ Len(allocs') = Len(allocs) + 1 /\ DOMAIN allocs' = 1..(Len(allocs) + 1)
       /\ allocs'[i] = old /\ allocs'[Len(allocs) + 1] = new
       /\ \A k \in DOMAIN allocs \ {i} : allocs'[k] = allocs[k]
  BY <1>2, <1>6, <1>8, <1>9
<1>11. /\ Logged' = Logged /\ Len(nomadLog) \in Nat /\ DOMAIN allocs \subseteq DOMAIN allocs'
       /\ \A k \in DOMAIN allocs' : k \notin DOMAIN allocs => k = Len(allocs) + 1
  BY <1>1, <1>2, <1>10, StreamBefore DEF Logged
<1>12. StreamTypes'
  BY <1>1, <1>2, <1>10, <1>11, StreamBefore DEF StreamTypes
<1>13. Placed'
  BY <1>1, <1>4, <1>10, <1>6, <1>11 DEF StreamInv, Placed, AllocFits, EventFits
<1>14. StartsAreNumbered' /\ GivingUpIsLogged'
  BY <1>4, <1>10, <1>6, <1>11, <1>1, OtherEvents
<1>15. ASSUME JobHealthy', Steady', ~toldOk' PROVE JobHealthy /\ Steady /\ ~toldOk
  <2>1. jobKind \in {"rolling", "service", "oneshot", "template"} /\ jobKind # "template"
    BY StreamBefore DEF StreamInv, Placed
  <2>2. CASE jobKind = "rolling"
    BY <1>1, <1>15, <2>2 DEF JobHealthy, Steady
  <2>3. CASE jobKind \in {"service", "oneshot"}
    BY <1>2, <1>10, <1>1, <1>6, <1>15, <2>3, HealthNext
  <2> QED
    BY <2>1, <2>2, <2>3
<1>16. ~lossy /\ jobVersion' > 0 /\ JobHealthy' /\ Steady' /\ ~toldOk' =>
             \/ jobVersion > 0 /\ JobHealthy /\ Steady /\ ~toldOk
             \/ \E e \in Logged' : Good(e)' /\ KeyOf(e) \notin riverKeys
  BY <1>1, <1>15
<1> QED
  BY <1>1, <1>11, <1>12, <1>13, <1>14, <1>16, NomadSideKeeps

LEMMA RegisterJobKeeps ==
    ASSUME StreamInv, RegisterJob
    PROVE  StreamInv'
<1>1. PICK ev : ev = JobEvent(jobVersion + 1)
  OBVIOUS
<1>2. PICK old : old = [i \in DOMAIN allocs |-> [allocs[i] EXCEPT !.desired = "stop"]]
  OBVIOUS
<1>3. PICK new : new = NewAlloc(jobVersion + 1)
  OBVIOUS
<1>4. /\ jobVersion < streamBudget.versions /\ jobVersion' = jobVersion + 1
      /\ jobKind # "template" => Len(allocs) < MaxAllocs
      /\ allocs' = IF jobKind = "template" THEN old ELSE Append(old, new)
      /\ deployment' = IF jobKind = "rolling" THEN "running" ELSE "none"
      /\ nomadLog' = Append(nomadLog, ev)
      /\ UNCHANGED <<jobKind, evals, toldBad, lastIndex, readTo, streamBudget, lossy>>
      /\ SynapseRests /\ toldOk' = FALSE
  BY <1>1, <1>2, <1>3 DEF RegisterJob, Emits, SynapseRests
<1>5. /\ allocs \in Seq(AllocRecords) /\ Len(allocs) \in Nat /\ MaxAllocs \in Nat
      /\ DOMAIN allocs = 1..Len(allocs) /\ jobVersion \in Nat /\ Len(allocs) <= MaxAllocs
      /\ jobKind \in {"rolling", "service", "oneshot", "template"}
  BY StreamBefore, StreamAssumption
<1>6. ev \in AnyEvents /\ ev.topic = "Job" /\ ev.id = jobVersion + 1 /\ KeyOf(ev) = <<"Job", jobVersion + 1, "end", 0>>
  BY <1>1, <1>5 DEF JobEvent, AnyEvents, KeyOf
<1>7. /\ nomadLog' \in Seq(AnyEvents) /\ Len(nomadLog') = Len(nomadLog) + 1
      /\ \A k \in 1..Len(nomadLog) : nomadLog'[k] = nomadLog[k]
      /\ nomadLog'[Len(nomadLog) + 1] = ev /\ Logged' = Logged \cup {ev}
  BY <1>4, <1>6, LogGrows
<1>8. \A k \in DOMAIN allocs : /\ old[k] \in AllocRecords /\ old[k].desired = "stop" /\ old[k].client = allocs[k].client
                               /\ old[k].task = allocs[k].task /\ old[k].restarts = allocs[k].restarts
  BY StreamBefore, <1>2 DEF AllocRecords
<1>9. old \in Seq(AllocRecords) /\ Len(old) = Len(allocs)
  BY <1>2, <1>5, <1>8, SeqDef
<1>10. new \in AllocRecords /\ new.desired = "run" /\ new.client = "pending" /\ new.task = "new" /\ new.version = jobVersion + 1
  BY <1>3, <1>5 DEF NewAlloc, AllocRecords
<1>11. /\ allocs' \in Seq(AllocRecords) /\ Len(allocs') <= MaxAllocs /\ DOMAIN allocs \subseteq DOMAIN allocs'
       /\ \A k \in DOMAIN allocs : allocs'[k] = old[k]
       /\ \A k \in DOMAIN allocs' : k \notin DOMAIN allocs => allocs'[k] = new
       /\ jobKind = "template" => DOMAIN allocs' = {}
       /\ jobKind # "template" => \E k \in DOMAIN allocs' : allocs'[k] = new
  <2>1. CASE jobKind = "template"
    BY <1>2, <1>4, <2>1, <1>5, <1>9 DEF StreamInv, Placed
  <2>2. CASE jobKind # "template"
    BY <1>4, <2>2, <1>5, <1>9, <1>10
  <2> QED
    BY <2>1, <2>2
<1>12. StreamTypes'
  <2>1. jobVersion' \in Nat /\ jobVersion' <= streamBudget'.versions
    BY <1>4, <1>5, StreamBefore
  <2>2. lastIndex' \in 0..Len(nomadLog') /\ readTo' \in 0..Len(nomadLog') /\ toldBad' \subseteq DOMAIN allocs'
    BY <1>4, <1>7, <1>11, StreamBefore
  <2>3. deployment' \in {"none", "running", "successful", "failed"} /\ lossy' \in BOOLEAN /\ toldOk' \in BOOLEAN
        /\ streamBudget' \in Budgets /\ jobKind' = streamBudget'.kind /\ evals' \in Nat
    BY <1>4, StreamBefore
  <2> QED
    BY <1>7, <1>11, <2>1, <2>2, <2>3 DEF StreamTypes
<1>13. Placed'
  <2>1. \A k \in DOMAIN allocs' : AllocFits(allocs'[k]) /\ (allocs'[k].desired = "run" => allocs'[k].version = jobVersion')
    <3> SUFFICES ASSUME NEW k \in DOMAIN allocs'
                 PROVE  AllocFits(allocs'[k]) /\ (allocs'[k].desired = "run" => allocs'[k].version = jobVersion')
      OBVIOUS
    <3>1. CASE k \in DOMAIN allocs
      BY <1>8, <1>11, <3>1 DEF StreamInv, Placed, AllocFits
    <3>2. CASE k \notin DOMAIN allocs
      BY <1>4, <1>10, <1>11, <3>2 DEF AllocFits
    <3> QED
      BY <3>1, <3>2
  <2>2. \A e \in Logged' : EventFits(e)'
    <3> SUFFICES ASSUME NEW e \in Logged' PROVE EventFits(e)'
      OBVIOUS
    <3>1. CASE e \in Logged
      <4>1. EventFits(e) /\ e \in AnyEvents
        BY <3>1, StreamBefore DEF StreamInv, Placed, Logged
      <4>2. e.topic \in {"Job", "Deployment"} => e.id \in Nat
        BY <4>1 DEF AnyEvents
      <4> QED
        BY <1>4, <1>5, <1>11, <4>1, <4>2 DEF EventFits
    <3>2. CASE e = ev
      BY <1>4, <1>5, <1>6, <3>2 DEF EventFits
    <3> QED
      BY <1>7, <3>1, <3>2
  <2>3. \A e \in Logged' : e.topic = "Deployment" => e \in Logged /\ e.id # jobVersion'
    BY <1>6, <1>7, <1>4, <1>5 DEF StreamInv, Placed, EventFits
  <2>4. deployment' # "none" => jobVersion' > 0 /\ jobKind' = "rolling"
    BY <1>4, <1>5
  <2> QED
    BY <1>4, <1>11, <2>1, <2>2, <2>3, <2>4 DEF StreamInv, Placed
<1>14. StartsAreNumbered' /\ GivingUpIsLogged'
  <2>1. \A k \in DOMAIN allocs : /\ allocs'[k].task = allocs[k].task /\ allocs'[k].restarts = allocs[k].restarts
                                 /\ allocs'[k].client = allocs[k].client
    BY <1>8, <1>11
  <2>2. \A k \in DOMAIN allocs' : k \notin DOMAIN allocs => allocs'[k].task # "gaveup"
    BY <1>10, <1>11
  <2>3. Len(nomadLog) \in Nat /\ Len(nomadLog') \in Nat /\ Len(nomadLog') >= Len(nomadLog)
    BY <1>7, StreamBefore
  <2>4. \A k \in 1..Len(nomadLog') : k > Len(nomadLog) => nomadLog'[k].topic # "Allocation"
    BY <1>6, <1>7, <2>3
  <2>5. Logged \subseteq Logged' /\ \A e \in Logged' : e.topic = "Allocation" => e \in Logged
    BY <1>6, <1>7
  <2> QED
    BY <1>7, <2>1, <2>2, <2>3, <2>4, <2>5, OtherEvents
<1>15. ASSUME JobHealthy' PROVE \E e \in Logged' : Good(e)' /\ KeyOf(e) \notin riverKeys
  <2>1. CASE jobKind = "template"
    <3>1. ev \in Logged' /\ Good(ev)'
      BY <1>4, <1>6, <1>7, <2>1 DEF Good, EventOutcome
    <3>2. PICK key : key = KeyOf(ev)
      OBVIOUS
    <3>3. PICK v : v = jobVersion + 1
      OBVIOUS
    <3>4. key = <<"Job", v, "end", 0>>
      BY <1>6, <3>2, <3>3
    <3>5. ASSUME key \in riverKeys PROVE FALSE
      <4>1. PICK e \in Logged : e.topic = "Job" /\ e.id = v /\ EventFits(e) /\ e \in AnyEvents
        BY <3>4, <3>5, SeenOther
      <4> QED
        BY <1>5, <3>3, <4>1 DEF EventFits
    <3> QED
      BY <3>1, <3>2, <3>5
  <2>2. CASE jobKind = "rolling"
    BY <1>4, <1>15, <2>2, HealthNext
  <2>3. CASE jobKind \in {"service", "oneshot"}
    BY <1>11, <2>3, <1>4, <1>10, <1>15, HealthNext
  <2> QED
    BY <1>5, <2>1, <2>2, <2>3
<1>16. Len(nomadLog') >= Len(nomadLog) /\ Logged \subseteq Logged'
  BY <1>7, StreamBefore
<1>17. UNCHANGED <<toldBad, jobKind>>
  BY <1>4
<1> QED
  BY <1>4, <1>7, <1>11, <1>12, <1>13, <1>14, <1>15, <1>16, <1>17, NomadSideKeeps

\* An event of a deployment or an evaluation, while the allocations rest.
LEMMA DeploymentEndsKeeps ==
    ASSUME StreamInv, DeploymentEnds
    PROVE  StreamInv'
<1>1. PICK ev : ev = DeploymentEvent(jobVersion, deployment')
  OBVIOUS
<1>2. /\ deployment = "running" /\ deployment' \in {"successful", "failed"}
      /\ nomadLog' = Append(nomadLog, ev)
      /\ UNCHANGED <<jobKind, jobVersion, allocs, evals, toldBad, lastIndex, readTo, streamBudget, lossy>>
      /\ SynapseRests /\ toldOk' = (toldOk /\ JobHealthy')
  BY <1>1 DEF DeploymentEnds, Emits, SynapseRests, StillHealthy
<1>3. ev \in AnyEvents /\ ev.topic = "Deployment" /\ ev.id = jobVersion /\ ev.status = deployment'
      /\ KeyOf(ev) = <<"Deployment", jobVersion, "end", 0>> /\ jobVersion \in Nat
  BY <1>1, <1>2, StreamBefore DEF DeploymentEvent, AnyEvents, KeyOf
<1>4. /\ nomadLog' \in Seq(AnyEvents) /\ Len(nomadLog') = Len(nomadLog) + 1
      /\ \A k \in 1..Len(nomadLog) : nomadLog'[k] = nomadLog[k]
      /\ nomadLog'[Len(nomadLog) + 1] = ev /\ Logged' = Logged \cup {ev}
  BY <1>2, <1>3, LogGrows
<1>5. StreamTypes'
  BY <1>2, <1>4, StreamBefore DEF StreamTypes
\* The deployment of this version had no end before.
<1>6. \A e \in Logged : e.topic = "Deployment" => e.id # jobVersion
  BY <1>2, StreamBefore DEF StreamInv, Placed, Logged, AnyEvents
<1>7. Placed'
  BY <1>2, <1>3, <1>4, <1>6 DEF StreamInv, Placed, EventFits
<1>8. StartsAreNumbered' /\ GivingUpIsLogged'
  BY <1>4, StreamBefore, <1>3, <1>2, OtherEvents
<1>9. ASSUME JobHealthy' PROVE \E e \in Logged' : Good(e)' /\ KeyOf(e) \notin riverKeys
  <2>1. jobKind = "rolling"
    BY <1>2 DEF StreamInv, Placed
  <2>2. deployment' = "successful"
    BY <1>2, <1>9, <2>1, HealthNext
  <2>3. Good(ev)'
    BY <1>3, <2>2 DEF Good, EventOutcome
  <2>4. PICK key : key = KeyOf(ev)
    OBVIOUS
  <2>5. key = <<"Deployment", jobVersion, "end", 0>>
    BY <1>3, <2>4
  <2>6. ASSUME key \in riverKeys PROVE FALSE
    BY <2>5, <2>6, SeenOther, <1>6
  <2> QED
    BY <1>4, <2>3, <2>4, <2>6
<1>10. Len(nomadLog') >= Len(nomadLog) /\ Logged \subseteq Logged' /\ DOMAIN allocs \subseteq DOMAIN allocs'
  BY <1>2, <1>4, StreamBefore
<1>11. UNCHANGED <<toldBad, jobKind>>
  BY <1>2
<1> QED
  BY <1>2, <1>4, <1>5, <1>7, <1>8, <1>9, <1>10, <1>11, NomadSideKeeps

LEMMA EvaluatedKeeps ==
    ASSUME StreamInv, NEW x \in EvalShapes, Evaluated(x)
    PROVE  StreamInv'
<1>1. PICK ev : ev = EvalEvent(evals + 1, x)
  OBVIOUS
<1>2. /\ nomadLog' = Append(nomadLog, ev) /\ evals' = evals + 1 /\ evals \in Nat
      /\ UNCHANGED <<jobKind, jobVersion, allocs, deployment, toldOk, toldBad, lastIndex, readTo, streamBudget, lossy>>
      /\ SynapseRests
  BY <1>1, StreamBefore DEF Evaluated, Emits, SynapseRests
<1>3. ev \in AnyEvents /\ ev.topic = "Evaluation"
  BY <1>1, <1>2 DEF EvalEvent, AnyEvents
<1>4. /\ nomadLog' \in Seq(AnyEvents) /\ Len(nomadLog') = Len(nomadLog) + 1
      /\ \A k \in 1..Len(nomadLog) : nomadLog'[k] = nomadLog[k]
      /\ nomadLog'[Len(nomadLog) + 1] = ev /\ Logged' = Logged \cup {ev}
  BY <1>2, <1>3, LogGrows
<1>5. StreamTypes'
  BY <1>2, <1>4, StreamBefore DEF StreamTypes
<1>6. Placed'
  BY <1>2, <1>3, <1>4 DEF StreamInv, Placed, EventFits
<1>7. StartsAreNumbered' /\ GivingUpIsLogged'
  BY <1>4, StreamBefore, <1>3, <1>2, OtherEvents
<1>8. JobHealthy' /\ Steady' => JobHealthy /\ Steady
  BY <1>2 DEF JobHealthy, Steady, BatchTemplateHealthy, OneShotBatchHealthy, ServiceHealthy, RunningAllocs
<1>9. Len(nomadLog') >= Len(nomadLog) /\ Logged \subseteq Logged' /\ DOMAIN allocs \subseteq DOMAIN allocs'
  BY <1>2, <1>4, StreamBefore
<1>10. UNCHANGED <<toldBad, jobKind>>
  BY <1>2
<1>11. ~lossy /\ jobVersion' > 0 /\ JobHealthy' /\ Steady' /\ ~toldOk' =>
             \/ jobVersion > 0 /\ JobHealthy /\ Steady /\ ~toldOk
             \/ \E e \in Logged' : Good(e)' /\ KeyOf(e) \notin riverKeys
  BY <1>2, <1>8
<1> QED
  BY <1>2, <1>4, <1>5, <1>6, <1>7, <1>9, <1>10, <1>11, NomadSideKeeps

\* What a step of synapse leaves as it is.
LEMMA SynapseSideKeeps ==
    ASSUME StreamInv, UNCHANGED <<jobKind, jobVersion, allocs, deployment, nomadLog, evals>>,
           lastIndex' \in 0..Len(nomadLog), readTo' \in 0..Len(nomadLog),
           lossy' \in BOOLEAN, toldOk' \in BOOLEAN, toldBad' \subseteq DOMAIN allocs,
           streamBudget' \in Budgets, streamBudget'.kind = streamBudget.kind, streamBudget'.versions = streamBudget.versions
    PROVE  /\ StreamTypes' /\ Placed' /\ StartsAreNumbered' /\ GivingUpIsLogged' /\ Logged' = Logged
           /\ (JobHealthy' <=> JobHealthy) /\ (Steady' <=> Steady)
<1>1. StreamTypes'
  BY StreamBefore DEF StreamTypes
<1>2. Logged' = Logged
  BY DEF Logged
<1>3. Placed'
  BY <1>2 DEF StreamInv, Placed, EventFits
<1>4. StartsAreNumbered' /\ GivingUpIsLogged'
  BY <1>2 DEF StreamInv, StartsAreNumbered, GivingUpIsLogged
<1>5. (JobHealthy' <=> JobHealthy) /\ (Steady' <=> Steady)
  BY DEF JobHealthy, Steady, BatchTemplateHealthy, OneShotBatchHealthy, ServiceHealthy, RunningAllocs
<1> QED
  BY <1>1, <1>2, <1>3, <1>4, <1>5

LEMMA FaultFacts ==
    ASSUME StreamInv, StreamFault
    PROVE  streamBudget' \in Budgets /\ streamBudget'.kind = streamBudget.kind /\ streamBudget'.versions = streamBudget.versions
<1>1. PICK b : b = streamBudget
  OBVIOUS
<1>2. b \in Budgets /\ b.faults > 0
  BY <1>1, StreamBefore DEF StreamFault
<1>3. PICK n : n = b.faults - 1
  OBVIOUS
<1>4. n \in Nat
  BY <1>2, <1>3 DEF Budgets
<1>5. streamBudget' = [b EXCEPT !.faults = n]
  BY <1>1, <1>3 DEF StreamFault
<1> QED
  BY <1>1, <1>2, <1>4, <1>5 DEF Budgets

\* An event that is kept under the key of a failure tells of a task that gave up, or of the failure.
LEMMA FailedKeyFacts ==
    ASSUME NEW ev \in AnyEvents, EventFits(ev), NEW i, KeyOf(ev) = FailedKey(i)
    PROVE  ev.topic = "Allocation" /\ ev.id = i /\ (ev.alloc.client # "failed" => GaveUp(ev, i))
<1>1. FailedKey(i)[1] = "allocation" /\ FailedKey(i)[2] = i /\ FailedKey(i)[3] = "failed"
  BY DEF FailedKey
<1>2. ev.topic = "Allocation"
  BY <1>1 DEF KeyOf, AnyEvents
<1>3. KeyOf(ev)[2] = ev.id
  BY <1>2 DEF KeyOf, AllocKey
<1>4. ASSUME ev.alloc.client # "failed" PROVE GaveUp(ev, i)
  BY <1>2, <1>4, <1>1, <1>3 DEF EventFits, KeyOf, AllocKey, RestartExhausted, AnyEvents,
     AllocFits, AllocRecords, GaveUp
<1> QED
  BY <1>1, <1>2, <1>3, <1>4

\* Whatever is moved in River, the health and the failures in hand only need what is known of it.
LEMMA ReadLineKeeps == StreamInv /\ ReadLine => StreamInv'
<1> SUFFICES ASSUME StreamInv, ReadLine PROVE StreamInv'
  OBVIOUS
<1>1. PICK n : n = readTo + 1
  OBVIOUS
<1>2. n \in 1..Len(nomadLog) /\ readTo \in Nat /\ lastIndex \in Nat /\ lastIndex <= Len(nomadLog) /\ Len(nomadLog) \in Nat
  BY <1>1, StreamBefore DEF ReadLine
<1>3. PICK ev : ev = nomadLog[n]
  OBVIOUS
<1>4. ev \in AnyEvents /\ ev \in Logged /\ EventFits(ev)
  BY <1>2, <1>3, StreamBefore DEF Logged, StreamInv, Placed
<1>5. /\ readTo' = n /\ lastIndex' = IF n > lastIndex THEN n ELSE lastIndex
      /\ HandleNomadEvent(ev)
      /\ UNCHANGED <<jobKind, jobVersion, allocs, deployment, nomadLog, evals, toldOk, toldBad>>
  BY <1>1, <1>3 DEF ReadLine, nomadSide
<1>6. streamBudget' \in Budgets /\ streamBudget'.kind = streamBudget.kind /\ streamBudget'.versions = streamBudget.versions
      /\ lossy' \in BOOLEAN /\ (~lossy' => ~lossy)
  <2>1. StreamFault \/ UNCHANGED streamBudget
    BY <1>5 DEF HandleNomadEvent
  <2>2. lossy' = TRUE \/ lossy' = lossy
    BY <1>5 DEF HandleNomadEvent
  <2>3. lossy \in BOOLEAN
    BY StreamBefore
  <2>6. ASSUME lossy' = TRUE PROVE lossy' \in BOOLEAN /\ (~lossy' => ~lossy)
    BY <2>6
  <2>7. ASSUME lossy' = lossy PROVE lossy' \in BOOLEAN /\ (~lossy' => ~lossy)
    BY <2>3, <2>7
  <2>4. lossy' \in BOOLEAN /\ (~lossy' => ~lossy)
    BY <2>2, <2>6, <2>7, Zenon
  <2>5. streamBudget' \in Budgets /\ streamBudget'.kind = streamBudget.kind /\ streamBudget'.versions = streamBudget.versions
    BY <2>1, FaultFacts, StreamBefore
  <2> QED
    BY <2>4, <2>5
<1>7. /\ StreamTypes' /\ Placed' /\ StartsAreNumbered' /\ GivingUpIsLogged' /\ Logged' = Logged
      /\ (JobHealthy' <=> JobHealthy) /\ (Steady' <=> Steady)
  BY <1>2, <1>5, <1>6, StreamBefore, SynapseSideKeeps
<1>8. CASE lossy'
  BY <1>5, <1>4, <1>7, <1>8 DEF HandleNomadEvent, StreamInv, TakenIn, FailureInHand, HealthInHand
<1>9. CASE ~lossy' /\ UNCHANGED <<riverKeys, nomadJobs>> /\ (KeepEvent(ev, TRUE) => KeyOf(ev) \in riverKeys)
  <2>1. TakenIn'
    <3>1. ASSUME NEW k \in 1..Len(nomadLog), k <= readTo' \/ k <= lastIndex', KeepEvent(nomadLog[k], TRUE)
          PROVE  KeyOf(nomadLog[k]) \in riverKeys
      <4>1. k <= readTo \/ k <= lastIndex \/ k = n
        BY <1>1, <1>2, <1>5, <3>1
      <4> QED
        BY <1>3, <1>6, <1>9, <3>1, <4>1 DEF StreamInv, TakenIn
    <3> QED
      BY <1>5, <1>7, <1>9, <3>1 DEF StreamInv, TakenIn
  <2>2. FailureInHand' /\ HealthInHand'
    BY <1>5, <1>6, <1>7, <1>9 DEF StreamInv, FailureInHand, HealthInHand, Good, EventOutcome
  <2> QED
    BY <1>7, <2>1, <2>2 DEF StreamInv
<1>10. CASE /\ ~lossy' /\ KeepEvent(ev, TRUE) /\ KeyOf(ev) \notin riverKeys
            /\ riverKeys' = riverKeys \cup {KeyOf(ev)} /\ nomadJobs' = nomadJobs \cup {ev}
  <2>1. TakenIn'
    <3>1. ASSUME NEW k \in 1..Len(nomadLog), k <= readTo' \/ k <= lastIndex', KeepEvent(nomadLog[k], TRUE)
          PROVE  KeyOf(nomadLog[k]) \in riverKeys'
      <4>1. k <= readTo \/ k <= lastIndex \/ k = n
        BY <1>1, <1>2, <1>5, <3>1
      <4> QED
        BY <1>3, <1>6, <1>10, <3>1, <4>1 DEF StreamInv, TakenIn
    <3>2. \A key \in riverKeys' : \E e \in Logged : KeepEvent(e, TRUE) /\ KeyOf(e) = key
      BY <1>4, <1>10 DEF StreamInv, TakenIn
    <3>3. nomadJobs' \subseteq Logged /\ \A e \in nomadJobs' : KeepEvent(e, TRUE) /\ KeyOf(e) \in riverKeys'
      BY <1>4, <1>10 DEF StreamInv, TakenIn
    <3> QED
      BY <1>5, <1>7, <3>1, <3>2, <3>3 DEF TakenIn
  <2>2. ev.topic = "Allocation" => ev.alloc.client # "failed"
    <3> SUFFICES ASSUME ev.topic = "Allocation", ev.alloc.client = "failed" PROVE FALSE
      OBVIOUS
    <3>1. PICK k \in 1..Len(nomadLog) : k < n /\ GaveUp(nomadLog[k], ev.id)
      BY <1>2, <1>3 DEF StreamInv, GivingUpIsLogged
    <3>2. EventFits(nomadLog[k])
      BY DEF Logged, StreamInv, Placed
    <3>3. KeepEvent(nomadLog[k], TRUE) /\ KeyOf(nomadLog[k]) = FailedKey(ev.id)
      BY <3>1, <3>2, GaveUpFacts
    <3>4. k <= readTo
      BY <1>1, <1>2, <3>1
    <3>5. FailedKey(ev.id) \in riverKeys
      BY <1>6, <1>10, <3>3, <3>4 DEF StreamInv, TakenIn
    <3>6. KeyOf(ev) = FailedKey(ev.id)
      BY DEF KeyOf, AllocKey, FailedKey
    <3> QED
      BY <1>10, <3>5, <3>6
  <2>3. FailureInHand'
    BY <1>6, <1>10, <2>2, <1>4, FailedKeyFacts, <1>5 DEF StreamInv, FailureInHand
  <2>4. HealthInHand'
    BY <1>5, <1>7, <1>6, <1>10, <1>4, GoodKey DEF HealthInHand, StreamInv, Good, EventOutcome
  <2> QED
    BY <1>7, <2>1, <2>3, <2>4 DEF StreamInv
<1>11. \/ lossy'
       \/ UNCHANGED <<riverKeys, nomadJobs>> /\ (KeepEvent(ev, TRUE) => KeyOf(ev) \in riverKeys)
       \/ /\ KeepEvent(ev, TRUE) /\ KeyOf(ev) \notin riverKeys
          /\ riverKeys' = riverKeys \cup {KeyOf(ev)} /\ nomadJobs' = nomadJobs \cup {ev}
  BY <1>5 DEF HandleNomadEvent
<1> QED
  BY <1>8, <1>9, <1>10, <1>11

LEMMA ReconnectKeeps == StreamInv /\ Reconnect => StreamInv'
<1> SUFFICES ASSUME StreamInv, Reconnect PROVE StreamInv'
  OBVIOUS
<1>1. /\ StreamFault
      /\ UNCHANGED <<jobKind, jobVersion, allocs, deployment, nomadLog, evals, riverKeys, nomadJobs, toldOk, toldBad>>
  BY DEF Reconnect, nomadSide
<1>2. readTo \in Nat /\ lastIndex \in Nat /\ lastIndex <= Len(nomadLog) /\ readTo <= Len(nomadLog) /\ Len(nomadLog) \in Nat
      /\ lossy \in BOOLEAN
  BY StreamBefore
<1>3. /\ readTo' \in 0..Len(nomadLog) /\ lastIndex' \in 0..Len(nomadLog) /\ lossy' \in BOOLEAN /\ (~lossy' => ~lossy)
      /\ ~lossy' => \A k \in Nat : k <= readTo' \/ k <= lastIndex' => k <= readTo \/ k <= lastIndex
  <2>1. CASE readTo' = (IF lastIndex = 0 THEN 0 ELSE lastIndex - 1) /\ UNCHANGED <<lastIndex, lossy>>
    BY <1>2, <2>1
  <2>2. CASE lastIndex' = 0 /\ \E n \in readTo..Len(nomadLog) : readTo' = n /\ lossy' = (lossy \/ n > readTo)
    <3>1. PICK n \in readTo..Len(nomadLog) : readTo' = n /\ lossy' = (lossy \/ n > readTo)
      BY <2>2
    <3>2. readTo' \in 0..Len(nomadLog) /\ lastIndex' \in 0..Len(nomadLog)
      BY <1>2, <2>2, <3>1
    <3>3. lossy' \in BOOLEAN /\ (~lossy' => ~lossy) /\ (~lossy' => ~(n > readTo))
      BY <3>1, Zenon
    <3>4. ASSUME ~lossy' PROVE \A k \in Nat : k <= readTo' \/ k <= lastIndex' => k <= readTo \/ k <= lastIndex
      BY <1>2, <3>3, <3>4, <2>2, <3>1
    <3> QED
      BY <3>2, <3>3, <3>4
  <2> QED
    BY <2>1, <2>2 DEF Reconnect
<1>4. streamBudget' \in Budgets /\ streamBudget'.kind = streamBudget.kind /\ streamBudget'.versions = streamBudget.versions
  BY <1>1, FaultFacts
<1>5. /\ StreamTypes' /\ Placed' /\ StartsAreNumbered' /\ GivingUpIsLogged' /\ Logged' = Logged
      /\ (JobHealthy' <=> JobHealthy) /\ (Steady' <=> Steady)
  BY <1>1, <1>3, <1>4, StreamBefore, SynapseSideKeeps
<1>6. TakenIn'
  <2>1. ASSUME ~lossy', NEW k \in 1..Len(nomadLog), k <= readTo' \/ k <= lastIndex', KeepEvent(nomadLog[k], TRUE)
        PROVE  KeyOf(nomadLog[k]) \in riverKeys
    <3>1. ~lossy /\ (k <= readTo \/ k <= lastIndex)
      BY <1>3, <2>1
    <3> QED
      BY <2>1, <3>1 DEF StreamInv, TakenIn
  <2> QED
    BY <1>1, <1>5, <2>1 DEF StreamInv, TakenIn
<1>7. FailureInHand' /\ HealthInHand'
  BY <1>1, <1>3, <1>5 DEF StreamInv, FailureInHand, HealthInHand, Good, EventOutcome
<1> QED
  BY <1>5, <1>6, <1>7 DEF StreamInv

LEMMA StreamRestartKeeps == StreamInv /\ StreamRestart => StreamInv'
<1> SUFFICES ASSUME StreamInv, StreamRestart PROVE StreamInv'
  OBVIOUS
<1>1. /\ StreamFault /\ lastIndex' = 0 /\ readTo' = Len(nomadLog)
      /\ lossy' = (lossy \/ readTo < Len(nomadLog)) /\ toldOk' = (toldOk \/ JobHealthy)
      /\ UNCHANGED <<jobKind, jobVersion, allocs, deployment, nomadLog, evals, riverKeys, nomadJobs, toldBad>>
  BY DEF StreamRestart, nomadSide
<1>2. readTo \in Nat /\ readTo <= Len(nomadLog) /\ Len(nomadLog) \in Nat /\ lossy \in BOOLEAN /\ toldOk \in BOOLEAN
  BY StreamBefore
<1>3. readTo' \in 0..Len(nomadLog) /\ lastIndex' \in 0..Len(nomadLog) /\ (~lossy' => ~lossy /\ readTo = Len(nomadLog))
  <2>1. ~lossy' => ~lossy /\ ~(readTo < Len(nomadLog))
    BY <1>1, Zenon
  <2> QED
    BY <1>1, <1>2, <2>1
<1>4. lossy' \in BOOLEAN /\ toldOk' \in BOOLEAN
  BY <1>1, Zenon
<1>5. streamBudget' \in Budgets /\ streamBudget'.kind = streamBudget.kind /\ streamBudget'.versions = streamBudget.versions
  BY <1>1, FaultFacts
<1>6. /\ StreamTypes' /\ Placed' /\ StartsAreNumbered' /\ GivingUpIsLogged' /\ Logged' = Logged
      /\ (JobHealthy' <=> JobHealthy) /\ (Steady' <=> Steady)
  BY <1>1, <1>3, <1>4, <1>5, StreamBefore, SynapseSideKeeps
<1>7. TakenIn'
  <2>1. ASSUME ~lossy', NEW k \in 1..Len(nomadLog), KeepEvent(nomadLog[k], TRUE) PROVE KeyOf(nomadLog[k]) \in riverKeys
    <3>1. ~lossy /\ k <= readTo
      BY <1>2, <1>3, <2>1
    <3> QED
      BY <2>1, <3>1 DEF StreamInv, TakenIn
  <2> QED
    BY <1>1, <1>6, <2>1 DEF StreamInv, TakenIn
<1>8. FailureInHand'
  BY <1>1, <1>3, <1>6 DEF StreamInv, FailureInHand
<1>9. HealthInHand'
  BY <1>1, <1>6 DEF HealthInHand
<1> QED
  BY <1>6, <1>7, <1>8, <1>9 DEF StreamInv

LEMMA NomadWorkerKeeps == ASSUME StreamInv, NEW ev \in nomadJobs, NomadWorker(ev) PROVE StreamInv'
<1>1. PICK lookup \in BOOLEAN :
        /\ \/ lookup /\ UNCHANGED <<streamBudget, lossy>>
           \/ ~lookup /\ PoststopTask /\ StreamFault /\ lossy' = TRUE
        /\ toldOk' = (toldOk \/ (EventOutcome(ev, JobHealthy, lookup) = "ok" /\ JobHealthy))
        /\ toldBad' = IF ev.topic = "Allocation" /\ EventOutcome(ev, JobHealthy, lookup) = "bad"
                      THEN toldBad \cup {ev.id} ELSE toldBad
  BY DEF NomadWorker
<1>2. /\ nomadJobs' = nomadJobs \ {ev}
      /\ UNCHANGED <<jobKind, jobVersion, allocs, deployment, nomadLog, evals, lastIndex, readTo, riverKeys>>
  BY DEF NomadWorker, nomadSide
<1>3. ev \in AnyEvents /\ ev \in Logged /\ EventFits(ev)
  BY StreamBefore DEF Logged, StreamInv, Placed, TakenIn
<1>4. lossy \in BOOLEAN /\ toldOk \in BOOLEAN /\ toldBad \subseteq DOMAIN allocs
  BY StreamBefore
<1>5. lossy' \in BOOLEAN /\ (~lossy' => ~lossy)
  BY <1>1, <1>4
<1>6. toldOk' \in BOOLEAN
  BY <1>1, <1>4
<1>7. toldBad \subseteq toldBad' /\ toldBad' \subseteq DOMAIN allocs
  BY <1>1, <1>3, <1>4 DEF EventFits
<1>8. streamBudget' \in Budgets /\ streamBudget'.kind = streamBudget.kind /\ streamBudget'.versions = streamBudget.versions
  BY <1>1, FaultFacts, StreamBefore
<1>9. /\ StreamTypes' /\ Placed' /\ StartsAreNumbered' /\ GivingUpIsLogged' /\ Logged' = Logged
      /\ (JobHealthy' <=> JobHealthy) /\ (Steady' <=> Steady)
  BY <1>2, <1>5, <1>6, <1>7, <1>8, StreamBefore, SynapseSideKeeps
<1>10. TakenIn'
  BY <1>2, <1>5, <1>9 DEF StreamInv, TakenIn
<1>11. FailureInHand'
  <2> SUFFICES ASSUME ~lossy' PROVE
         /\ \A e \in nomadJobs' : e.topic = "Allocation" => e.alloc.client # "failed"
         /\ \A i \in DOMAIN allocs : FailedKey(i) \in riverKeys => i \in toldBad' \/ \E e \in nomadJobs' : GaveUp(e, i)
    BY <1>2 DEF FailureInHand
  <2>1. \A e \in nomadJobs' : e.topic = "Allocation" => e.alloc.client # "failed"
    BY <1>2, <1>5 DEF StreamInv, FailureInHand
  <2>2. ASSUME NEW i \in DOMAIN allocs, FailedKey(i) \in riverKeys
        PROVE  i \in toldBad' \/ \E e \in nomadJobs' : GaveUp(e, i)
    <3>1. CASE i \in toldBad
      BY <1>7, <3>1
    <3>2. CASE i \notin toldBad
      <4>1. PICK e \in nomadJobs : GaveUp(e, i)
        BY <1>5, <2>2, <3>2 DEF StreamInv, FailureInHand
      <4>2. CASE e # ev
        BY <1>2, <4>1, <4>2
      <4>3. CASE e = ev
        BY <1>3, <4>1, <4>3, GaveUpFacts, <1>1 DEF JobHealthy, BatchTemplateHealthy,
           OneShotBatchHealthy, ServiceHealthy, GaveUp
      <4> QED
        BY <4>2, <4>3
    <3> QED
      BY <3>1, <3>2
  <2> QED
    BY <2>1, <2>2
<1>12. HealthInHand'
  BY <1>2, <1>9, <1>1, <1>4, <1>5 DEF HealthInHand, Good, EventOutcome, StreamInv, JobHealthy,
     BatchTemplateHealthy, OneShotBatchHealthy, ServiceHealthy
<1> QED
  BY <1>9, <1>10, <1>11, <1>12 DEF StreamInv

LEMMA StreamKept == StreamInv /\ [NomadNext]_nomadVars => StreamInv'
<1> SUFFICES ASSUME StreamInv, [NomadNext]_nomadVars PROVE StreamInv'
  OBVIOUS
<1>1. CASE UNCHANGED nomadVars
  <2>1. UNCHANGED <<jobKind, jobVersion, allocs, deployment, nomadLog, lastIndex, readTo,
                    riverKeys, nomadJobs, evals, streamBudget, lossy, toldOk, toldBad>>
    BY <1>1 DEF nomadVars
  <2>2. /\ StreamTypes' /\ Placed' /\ StartsAreNumbered' /\ GivingUpIsLogged' /\ Logged' = Logged
        /\ (JobHealthy' <=> JobHealthy) /\ (Steady' <=> Steady)
    BY <2>1, StreamBefore, SynapseSideKeeps
  <2>3. TakenIn' /\ FailureInHand' /\ HealthInHand'
    BY <2>1, <2>2 DEF StreamInv, TakenIn, FailureInHand, HealthInHand, Good, EventOutcome
  <2> QED
    BY <2>2, <2>3 DEF StreamInv
<1> QED
  BY <1>1, RegisterJobKeeps, DeploymentEndsKeeps, AllocChangesKeeps, RescheduleKeeps, EvaluatedKeeps, ReadLineKeeps,
     ReconnectKeeps, StreamRestartKeeps, NomadWorkerKeeps DEF NomadNext

\* For any allocations, restarts, versions, evaluations and lag: once everything was
\* processed and nothing lost, a healthy job and every failed allocation were reported
\* (processStreamLine, resolveNomadEventIdempotencyKey, ProcessNomadEvent).
THEOREM StreamIsSafe == NomadSpec => []StreamIsSound
<1>1. NomadInit => StreamInv
  BY StreamStarts
<1>2. StreamInv /\ [NomadNext]_nomadVars => StreamInv'
  BY StreamKept
<1> QED
  BY <1>1, <1>2, StreamEnough, PTL DEF NomadSpec
--------------------
(* hangar's checkouts and jobs (GitOps).  Known says who has a change of a *)
(* job in hand, in the queue, in a batch or in a roll-out. *)

FileRecords == [spec : Nat, src : Nat]
RunRecords == [spec : Nat, img : Nat]
Changes == [repo : Repos, dels : SUBSET GitJobs, apps : SUBSET GitJobs]
TaskRecords ==
    [pc : {"idle", "decide", "stop", "teardown", "apply", "sweep", "next", "image"}, repo : Repos,
     dels : SUBSET (Repos \X GitJobs), apps : SUBSET (Repos \X GitJobs), build : SUBSET GitJobs,
     orphans : SUBSET GitJobs, images : SUBSET GitJobs, evs : Seq(Changes)]

GitTypes ==
    /\ remote \in [Repos -> [GitJobs -> FileRecords]] /\ disk \in [Repos -> [GitJobs -> FileRecords]]
    /\ registry \in [GitJobs -> Nat] /\ nomad \in [GitJobs -> RunRecords]
    /\ pending \in Seq(Changes)
    /\ wake \subseteq {"signal", "timer"} /\ rollWake \subseteq {"signal", "timer"}
    /\ rollouts \subseteq GitJobs /\ imageEvents \subseteq GitJobs
    /\ task \in [GitProcs -> TaskRecords]
    /\ commits \in Nat /\ pushes \in Nat
    /\ gitBudget \in [commits : Nat, pushes : Nat, faults : Nat, files : SUBSET (Repos \X GitJobs)]
    /\ strayed \subseteq GitJobs

\* Revisions are numbers of commits, and an image is one that was built.
Numbered ==
    /\ \A r \in Repos, j \in GitJobs :
         /\ remote[r][j].spec <= commits /\ remote[r][j].src <= commits
         /\ disk[r][j].spec <= commits /\ disk[r][j].src <= commits
    /\ \A j \in GitJobs : nomad[j].spec <= commits /\ nomad[j].img <= registry[j]

\* What a process has in hand at its place in the code.
Shape(t) ==
    /\ t.pc \in {"idle", "image", "next", "sweep", "apply"} => t.dels = {}
    /\ t.pc \in {"idle", "image", "next"} => t.apps = {}
    /\ t.pc # "sweep" => t.orphans = {}
    /\ t.pc = "idle" => t.images = {}
    /\ t.pc \in {"idle", "teardown", "sweep"} => t.evs = <<>>

GitPlaces ==
    /\ \A p \in GitProcs : Shape(task[p])
    /\ \A p \in PushHandlers :
         /\ task[p].pc \in {"idle", "decide", "stop", "apply"}
         /\ task[p].images = {} /\ task[p].evs = <<>>
    /\ \A p \in GitProcs \ {Roller} : \A a \in task[p].apps : a[1] = task[p].repo
    /\ task[Reconciler].pc \in {"idle", "teardown", "sweep", "next", "decide", "stop", "apply"}
    /\ task[Reconciler].images = {}
    /\ task[Reconciler].pc \in {"teardown", "sweep"} => task[Reconciler].apps = {}
    /\ task[Roller].pc \in {"idle", "image", "teardown", "sweep", "apply"}
    /\ task[Roller].evs = <<>>
    /\ \A a, b \in task[Roller].apps : a = b
    /\ \A a \in task[Roller].apps : a[2] = HangarJob => task[Roller].images = {}
    /\ nomadMu \in {Hangar, Reconciler, Roller}
    /\ nomadMu = Reconciler => task[Reconciler].pc \in {"decide", "stop", "apply"}
    /\ nomadMu = Roller => task[Roller].pc \in {"teardown", "sweep", "apply"}

\* A change of j that somebody has yet to carry out: a deletion, or a file that is there.
InTask(t, j) == \E r \in Repos : <<r, j>> \in t.dels \/ (<<r, j>> \in t.apps /\ disk[r][j].spec > 0)
InEvents(evs, j) ==
    \E i \in DOMAIN evs : j \in evs[i].dels \/ (j \in evs[i].apps /\ disk[evs[i].repo][j].spec > 0)
Known(j) == InEvents(pending, j) \/ \E p \in GitProcs : InTask(task[p], j) \/ InEvents(task[p].evs, j)

\* Nomad runs what a checkout defines, and nothing when none does.
Settled(j) ==
    /\ DefinedIn(j) = {} => nomad[j] = NotRunning
    /\ DefinedIn(j) # {} => \E r \in DefinedIn(j) : nomad[j].spec = disk[r][j].spec

Cared == \A j \in GitJobs \ strayed : Settled(j) \/ Known(j)

GitInv == GitTypes /\ Numbered /\ GitPlaces /\ Cared

LEMMA GitCast ==
    /\ GitProcs = PushHandlers \cup {Reconciler, Roller}
    /\ Reconciler # Roller /\ Reconciler \notin PushHandlers /\ Roller \notin PushHandlers
    /\ Hangar # Reconciler /\ Hangar # Roller
    /\ Resting \in TaskRecords /\ NotRunning \in RunRecords /\ NoFile \in FileRecords
<1>1. Resting \in TaskRecords
  BY GitAssumption DEF Resting, TaskRecords, Changes
<1>2. NotRunning \in RunRecords /\ NoFile \in FileRecords
  BY DEF NotRunning, RunRecords, NoFile, FileRecords
<1>3. Reconciler # Roller /\ Hangar # Reconciler /\ Hangar # Roller
  BY DEF Reconciler, Roller, Hangar
<1> QED
  BY <1>1, <1>2, <1>3, GitAssumption DEF GitProcs, Reconciler, Roller

LEMMA GitStarts == GitInit => GitInv
<1> SUFFICES ASSUME GitInit PROVE GitInv
  OBVIOUS
<1> USE GitCast, GitAssumption
<1>1. GitTypes
  BY DEF GitInit, GitTypes, FileRecords, RunRecords, NoFile
<1>2. Numbered
  BY DEF GitInit, Numbered, NoFile
<1>3. \A p \in GitProcs : task[p] = Resting
  BY DEF GitInit
<1>4. GitPlaces
  BY <1>3 DEF GitInit, GitPlaces, Shape, Resting
<1>5. ASSUME NEW j \in GitJobs PROVE Settled(j)
  <2>1. HomeOf[j] \in DefinedIn(j) /\ nomad[j].spec = disk[HomeOf[j]][j].spec
    BY DEF GitInit, DefinedIn
  <2> QED
    BY <2>1 DEF Settled
<1> QED
  BY <1>1, <1>2, <1>4, <1>5 DEF GitInv, Cared

LEMMA GitEnough == GitInv => GitOpsIsSound
<1> SUFFICES ASSUME GitInv PROVE GitOpsIsSound
  OBVIOUS
<1> USE GitCast
<1>1. GitTypeOK
  BY DEF GitInv, GitTypes, Numbered, GitPlaces, GitTypeOK, Shape
<1>2. CheckoutsAreRunning
  <2> SUFFICES ASSUME HangarQuiet, NEW j \in GitJobs \ strayed PROVE Settled(j)
    BY DEF CheckoutsAreRunning, Settled
  <2>1. \A p \in GitProcs : task[p].dels = {} /\ task[p].apps = {} /\ task[p].evs = <<>>
    BY DEF GitInv, GitPlaces, Shape, HangarQuiet
  <2>2. ~ InEvents(<<>>, j)
    BY DEF InEvents
  <2>3. \A p \in GitProcs : ~ InTask(task[p], j)
    BY <2>1 DEF InTask
  <2>4. ~ Known(j)
    BY <2>1, <2>2, <2>3 DEF Known, HangarQuiet
  <2> QED
    BY <2>4 DEF GitInv, Cared
<1>3. NoForgottenDeletion
  <2> SUFFICES ASSUME NEW j \in GitJobs \ strayed, DefinedIn(j) = {}, nomad[j] # NotRunning
               PROVE  \/ j \in ChangedJobs(pending)
                      \/ \E p \in GitProcs : j \in InHand(task[p]) \cup task[p].orphans
    BY DEF NoForgottenDeletion
  <2>1. Known(j) /\ \A r \in Repos : ~(disk[r][j].spec > 0)
    BY DEF GitInv, Cared, Settled, DefinedIn
  <2>2. CASE InEvents(pending, j)
    BY <2>2 DEF InEvents, ChangedJobs
  <2>3. ASSUME NEW p \in GitProcs, InTask(task[p], j) PROVE j \in InHand(task[p])
    BY <2>1, <2>3 DEF InTask, InHand
  <2>4. ASSUME NEW p \in GitProcs, InEvents(task[p].evs, j) PROVE j \in InHand(task[p])
    <3>1. PICK i \in DOMAIN task[p].evs : j \in task[p].evs[i].dels \cup task[p].evs[i].apps
      BY <2>4 DEF InEvents
    <3>2. j \in ChangedJobs(task[p].evs)
      BY <3>1 DEF ChangedJobs
    <3> QED
      BY <3>2 DEF InHand
  <2> QED
    BY <2>1, <2>2, <2>3, <2>4 DEF Known
<1> QED
  BY <1>1, <1>2, <1>3 DEF GitOpsIsSound

\* Only p moves: what it has is r, the others have what they had.
GitMoves(p, r) == task' = [task EXCEPT ![p] = r]

LEMMA MoveTypes ==
    ASSUME GitTypes, NEW p \in GitProcs, NEW r \in TaskRecords, GitMoves(p, r)
    PROVE  /\ task' \in [GitProcs -> TaskRecords] /\ task'[p] = r
           /\ \A q \in GitProcs \ {p} : task'[q] = task[q]
  BY DEF GitTypes, GitMoves

\* A step that moves p keeps the places when p has its place afterwards.
LEMMA PlacesKept ==
    ASSUME GitTypes, GitPlaces, NEW p \in GitProcs, NEW r \in TaskRecords, GitMoves(p, r), Shape(r),
           p \in PushHandlers =>
             r.pc \in {"idle", "decide", "stop", "apply"} /\ r.images = {} /\ r.evs = <<>>,
           p # Roller => \A a \in r.apps : a[1] = r.repo,
           p = Reconciler =>
             /\ r.pc \in {"idle", "teardown", "sweep", "next", "decide", "stop", "apply"} /\ r.images = {}
             /\ r.pc \in {"teardown", "sweep"} => r.apps = {},
           p = Roller =>
             /\ r.pc \in {"idle", "image", "teardown", "sweep", "apply"} /\ r.evs = <<>>
             /\ \A a, b \in r.apps : a = b
             /\ \A a \in r.apps : a[2] = HangarJob => r.images = {},
           nomadMu' \in {Hangar, nomadMu, p},
           nomadMu' = Reconciler /\ p = Reconciler => r.pc \in {"decide", "stop", "apply"},
           nomadMu' = Roller /\ p = Roller => r.pc \in {"teardown", "sweep", "apply"},
           p \in PushHandlers => nomadMu' = nomadMu
    PROVE  GitPlaces'
<1> USE GitCast
<1>1. /\ task'[p] = r /\ \A q \in GitProcs \ {p} : task'[q] = task[q]
  BY MoveTypes
<1>2. \A q \in GitProcs : Shape(task[q])'
  BY <1>1 DEF GitPlaces, Shape
<1>3. \A q \in PushHandlers :
         /\ task'[q].pc \in {"idle", "decide", "stop", "apply"}
         /\ task'[q].images = {} /\ task'[q].evs = <<>>
  BY <1>1 DEF GitPlaces
<1>7. \A q \in GitProcs \ {Roller} : \A a \in task'[q].apps : a[1] = task'[q].repo
  BY <1>1 DEF GitPlaces
<1>4. /\ task'[Reconciler].pc \in {"idle", "teardown", "sweep", "next", "decide", "stop", "apply"}
      /\ task'[Reconciler].images = {}
      /\ task'[Reconciler].pc \in {"teardown", "sweep"} => task'[Reconciler].apps = {}
  BY <1>1 DEF GitPlaces
<1>5. /\ task'[Roller].pc \in {"idle", "image", "teardown", "sweep", "apply"}
      /\ task'[Roller].evs = <<>>
      /\ \A a, b \in task'[Roller].apps : a = b
      /\ \A a \in task'[Roller].apps : a[2] = HangarJob => task'[Roller].images = {}
  BY <1>1 DEF GitPlaces
<1>6. /\ nomadMu' \in {Hangar, Reconciler, Roller}
      /\ nomadMu' = Reconciler => task'[Reconciler].pc \in {"decide", "stop", "apply"}
      /\ nomadMu' = Roller => task'[Roller].pc \in {"teardown", "sweep", "apply"}
  BY <1>1 DEF GitPlaces
<1> QED
  BY <1>2, <1>3, <1>4, <1>5, <1>6, <1>7 DEF GitPlaces

\* What somebody knows of j is still known when only p moves and gives up nothing of j.
LEMMA KnownKept ==
    ASSUME disk' = disk, NEW p \in GitProcs, NEW j, Known(j),
           \A q \in GitProcs \ {p} : task'[q] = task[q],
           InEvents(pending, j) => Known(j)',
           InTask(task[p], j) \/ InEvents(task[p].evs, j) => Known(j)'
    PROVE  Known(j)'
BY DEF InTask, InEvents, Known

LEMMA SettledKept ==
    ASSUME NEW j, disk' = disk, nomad'[j] = nomad[j], Settled(j)
    PROVE  Settled(j)'
  BY DEF Settled, DefinedIn

\* Steps that leave the checkouts as they are.
LEMMA CaredKept ==
    ASSUME Cared, disk' = disk,
           \A j \in GitJobs \ strayed' :
             Settled(j)' \/ (j \notin strayed /\ nomad'[j] = nomad[j] /\ (Known(j) => Known(j)'))
    PROVE  Cared'
  BY SettledKept DEF Cared

\* Steps that move nobody.
LEMMA StillKeeps ==
    ASSUME GitInv, GitTypes', Numbered', UNCHANGED <<disk, nomad, pending, task, nomadMu, strayed>>
    PROVE  GitInv'
<1>1. GitPlaces'
  BY DEF GitInv, GitPlaces, Shape
<1>2. \A j : Known(j)' = Known(j)
  BY DEF Known, InTask, InEvents
<1>3. Cared'
  BY <1>2, CaredKept DEF GitInv
<1> QED
  BY <1>1, <1>3 DEF GitInv

LEMMA CommitKeeps == ASSUME GitInv, NEW r \in Repos, NEW j \in GitJobs, Commit(r, j) PROVE GitInv'
<1>0. /\ remote[r][j].src \in Nat /\ remote[r][j].src <= commits /\ commits \in Nat
      /\ remote \in [Repos -> [GitJobs -> FileRecords]]
  BY DEF GitInv, GitTypes, Numbered, FileRecords
<1>1. PICK f \in {[spec |-> commits + 1, src |-> remote[r][j].src],
                  [spec |-> commits + 1, src |-> commits + 1],
                  [spec |-> 0, src |-> remote[r][j].src]} :
             remote' = [remote EXCEPT ![r][j] = f]
  BY DEF Commit
<1>2. f \in FileRecords /\ f.spec <= commits + 1 /\ f.src <= commits + 1
  BY <1>0 DEF FileRecords
<1>3. GitTypes'
  BY <1>1, <1>2 DEF Commit, GitInv, GitTypes
<1>4. \A q \in Repos, k \in GitJobs : remote'[q][k] = IF q = r /\ k = j THEN f ELSE remote[q][k]
  BY <1>0, <1>1
<1>5. \A n \in Nat : n <= commits => n <= commits'
  BY <1>0 DEF Commit
<1>6. \A q \in Repos, k \in GitJobs : /\ remote[q][k].spec \in Nat /\ remote[q][k].src \in Nat
                                      /\ disk[q][k].spec \in Nat /\ disk[q][k].src \in Nat
                                      /\ nomad[k].spec \in Nat
  <2>1. ASSUME NEW q \in Repos, NEW k \in GitJobs
        PROVE  remote[q][k] \in FileRecords /\ disk[q][k] \in FileRecords /\ nomad[k] \in RunRecords
    BY DEF GitInv, GitTypes
  <2> QED
    BY <2>1 DEF FileRecords, RunRecords
<1>7. Numbered'
  BY <1>0, <1>2, <1>4, <1>5, <1>6 DEF Commit, GitInv, Numbered
<1> QED
  BY <1>3, <1>7, StillKeeps DEF Commit

LEMMA BuildImageKeeps == ASSUME GitInv, NEW r \in Repos, NEW j \in GitJobs, BuildImage(r, j) PROVE GitInv'
<1>1. GitTypes'
  BY DEF BuildImage, GitInv, GitTypes, FileRecords
<1>2. Numbered'
  <2>1. /\ registry \in [GitJobs -> Nat] /\ registry[j] < remote[r][j].src
        /\ registry' = [registry EXCEPT ![j] = remote[r][j].src]
        /\ UNCHANGED <<remote, disk, nomad, commits>>
    BY DEF BuildImage, GitInv, GitTypes
  <2>2. nomad[j].img \in Nat /\ remote[r][j].src \in Nat /\ registry[j] \in Nat
    BY <2>1 DEF GitInv, GitTypes, RunRecords, FileRecords
  <2>3. \A k \in GitJobs : registry'[k] = IF k = j THEN remote[r][j].src ELSE registry[k]
    BY <2>1
  <2>4. \A k \in GitJobs : nomad[k].img <= registry'[k]
    BY <2>1, <2>2, <2>3 DEF GitInv, Numbered
  <2> QED
    BY <2>1, <2>4 DEF GitInv, Numbered
<1> QED
  BY <1>1, <1>2, StillKeeps DEF BuildImage

LEMMA ImageReadyKeeps == ASSUME GitInv, NEW j \in GitJobs, ImageReady(j) PROVE GitInv'
BY StillKeeps DEF ImageReady, GitInv, GitTypes, Numbered

LEMMA ArmKeeps == ASSUME GitInv, ArmReconciler \/ ArmRollouts PROVE GitInv'
<1>1. GitTypes'
  BY DEF ArmReconciler, ArmRollouts, gitWorld, GitInv, GitTypes
<1>2. Numbered'
  BY DEF ArmReconciler, ArmRollouts, gitWorld, GitInv, Numbered
<1> QED
  BY <1>1, <1>2, StillKeeps DEF ArmReconciler, ArmRollouts, gitWorld

\* Steps of p that change neither the checkouts nor Nomad.
LEMMA MoveKeeps ==
    ASSUME GitInv, NEW p \in GitProcs, NEW r \in TaskRecords, GitMoves(p, r), GitPlaces',
           UNCHANGED <<gitWorld, disk, nomad>>, pending' \in Seq(Changes),
           wake' \subseteq {"signal", "timer"}, rollWake' \subseteq {"signal", "timer"},
           rollouts' \subseteq GitJobs, pushes' \in Nat,
           gitBudget' \in [commits : Nat, pushes : Nat, faults : Nat, files : SUBSET (Repos \X GitJobs)],
           strayed' \subseteq GitJobs, strayed \subseteq strayed',
           \A j \in GitJobs \ strayed' :
             InEvents(pending, j) \/ InTask(task[p], j) \/ InEvents(task[p].evs, j)
               => Known(j)'
    PROVE  GitInv'
BY MoveTypes, KnownKept, CaredKept DEF GitInv, GitTypes, gitWorld, Numbered

\* The hands of the process that moved, and the queue, in the next state.
LEMMA KnownNow ==
    ASSUME NEW p \in GitProcs, NEW j,
           InEvents(pending, j)' \/ InTask(task[p], j)' \/ InEvents(task[p].evs, j)'
    PROVE  Known(j)'
  BY DEF Known

\* What p is known to have before it moves.
LEMMA Before ==
    ASSUME GitInv, NEW p \in GitProcs
    PROVE  /\ task[p] \in TaskRecords /\ Shape(task[p])
           /\ pending \in Seq(Changes) /\ pushes \in Nat /\ rollouts \subseteq GitJobs
           /\ wake \subseteq {"signal", "timer"} /\ rollWake \subseteq {"signal", "timer"}
           /\ gitBudget \in [commits : Nat, pushes : Nat, faults : Nat, files : SUBSET (Repos \X GitJobs)]
           /\ strayed \subseteq GitJobs
  BY DEF GitInv, GitTypes, GitPlaces

LEMMA RecordFacts ==
    \A q \in Seq(Changes), r \in Repos, d \in SUBSET GitJobs, a \in SUBSET GitJobs :
      /\ Record(q, r, d, a) \in Seq(Changes)
      /\ \A i \in DOMAIN q : i \in DOMAIN Record(q, r, d, a) /\ Record(q, r, d, a)[i] = q[i]
      /\ d \cup a # {} => \E i \in DOMAIN Record(q, r, d, a) : Record(q, r, d, a)[i] = ChangeEvent(r, d, a)
<1> TAKE q \in Seq(Changes), r \in Repos, d \in SUBSET GitJobs, a \in SUBSET GitJobs
<1>1. ChangeEvent(r, d, a) \in Changes
  BY DEF ChangeEvent, Changes
<1>2. /\ Append(q, ChangeEvent(r, d, a)) \in Seq(Changes)
      /\ \A i \in DOMAIN q : /\ i \in DOMAIN Append(q, ChangeEvent(r, d, a))
                             /\ Append(q, ChangeEvent(r, d, a))[i] = q[i]
      /\ Len(q) + 1 \in DOMAIN Append(q, ChangeEvent(r, d, a))
      /\ Append(q, ChangeEvent(r, d, a))[Len(q) + 1] = ChangeEvent(r, d, a)
  BY <1>1
<1> QED
  BY <1>2 DEF Record

LEMMA DecideKeeps == ASSUME GitInv, NEW p \in GitProcs, Decide(p) PROVE GitInv'
<1> USE GitCast
<1> DEFINE t == task[p]
           c == Classify(t.repo, {a[2] : a \in t.apps}, t.build)
           gone == {d[2] : d \in t.dels}
           r == [t EXCEPT !.pc = "stop", !.apps = {<<t.repo, j>> : j \in c.ready},
                          !.dels = IF c.deferred = {} THEN t.dels ELSE {}]
<1>0. t \in TaskRecords /\ Shape(t)
  BY Before
<1>3. t.pc = "decide" /\ t.repo \in Repos
  BY <1>0 DEF Decide, TaskRecords
<1>1. c.ready \subseteq GitJobs /\ c.deferred \subseteq GitJobs /\ gone \subseteq GitJobs
  BY <1>0 DEF Classify, TaskRecords
<1>2. \A a \in t.apps : disk[t.repo][a[2]].spec > 0 => a[2] \in c.ready \cup c.deferred
  BY DEF Classify
<1> HIDE DEF c
<1>4. r \in TaskRecords
  <2>1. {<<t.repo, j>> : j \in c.ready} \in SUBSET (Repos \X GitJobs)
    BY <1>1, <1>3
  <2>2. (IF c.deferred = {} THEN t.dels ELSE {}) \in SUBSET (Repos \X GitJobs)
    BY <1>0 DEF TaskRecords
  <2> QED
    BY <1>0, <2>1, <2>2 DEF TaskRecords
<1>5. GitMoves(p, r)
  BY DEF Decide, GitMoves, GitInv, GitTypes, c
<1>6. r.pc = "stop" /\ r.repo = t.repo /\ r.images = t.images /\ r.evs = t.evs /\ r.orphans = t.orphans
      /\ r.apps = {<<t.repo, j>> : j \in c.ready} /\ r.dels = IF c.deferred = {} THEN t.dels ELSE {}
  BY <1>0 DEF TaskRecords
<1> HIDE DEF r
<1>7. p # Roller
  BY <1>3 DEF GitInv, GitPlaces
<1>8. \A a \in t.apps : a[1] = t.repo
  BY <1>7 DEF GitInv, GitPlaces
<1>9. Shape(r) /\ \A a \in r.apps : a[1] = r.repo
  BY <1>0, <1>3, <1>6 DEF Shape
<1>10. p \in PushHandlers => r.images = {} /\ r.evs = <<>>
  BY <1>6 DEF GitInv, GitPlaces
<1>11. p = Reconciler => r.images = {}
  BY <1>6 DEF GitInv, GitPlaces
<1>12. nomadMu' = nomadMu /\ nomadMu \in {Hangar, Reconciler, Roller}
  BY DEF Decide, GitInv, GitPlaces
<1>13. GitPlaces'
  BY <1>4, <1>5, <1>6, <1>7, <1>9, <1>10, <1>11, <1>12, PlacesKept DEF GitInv
<1>14. pending' = (IF c.deferred = {} THEN pending ELSE Record(pending, t.repo, gone, {}))
       /\ strayed' = strayed \cup c.deferred
  BY DEF Decide, c
<1>15. pending' \in Seq(Changes) /\ \A i \in DOMAIN pending : i \in DOMAIN pending' /\ pending'[i] = pending[i]
  <2>1. pending \in Seq(Changes) /\ {} \in SUBSET GitJobs
    BY Before
  <2>2. /\ Record(pending, t.repo, gone, {}) \in Seq(Changes)
        /\ \A i \in DOMAIN pending : /\ i \in DOMAIN Record(pending, t.repo, gone, {})
                                     /\ Record(pending, t.repo, gone, {})[i] = pending[i]
    <3> HIDE DEF gone
    <3>1. gone \in SUBSET GitJobs /\ t.repo \in Repos
      BY <1>1, <1>3
    <3> HIDE DEF t
    <3>2. PICK x \in Repos, d \in SUBSET GitJobs : x = t.repo /\ d = gone
      BY <3>1
    <3>3. Record(pending, x, d, {}) \in Seq(Changes)
      BY <2>1, RecordFacts
    <3>4. \A i \in DOMAIN pending : i \in DOMAIN Record(pending, x, d, {}) /\ Record(pending, x, d, {})[i] = pending[i]
      BY <2>1, RecordFacts
    <3> QED
      BY <3>2, <3>3, <3>4
  <2> QED
    BY <1>14, <2>1, <2>2
<1>16. \A j : InEvents(pending, j) => InEvents(pending, j)'
  BY <1>15 DEF InEvents, Decide
<1>17. ASSUME NEW j \in GitJobs \ strayed', InTask(t, j) PROVE Known(j)'
  <2>1. task'[p] = r /\ disk' = disk
    BY <1>4, <1>5, MoveTypes DEF GitInv, Decide
  <2>2. PICK q \in Repos : <<q, j>> \in t.dels \/ (<<q, j>> \in t.apps /\ disk[q][j].spec > 0)
    BY <1>17 DEF InTask
  <2>3. CASE <<q, j>> \in t.apps /\ disk[q][j].spec > 0
    BY <1>2, <1>8, <1>14, <2>3, <1>3, <1>6, <2>1 DEF Known, InTask
  <2>4. CASE <<q, j>> \in t.dels /\ c.deferred = {}
    BY <1>6, <2>1, <2>4 DEF Known, InTask
  <2>5. CASE <<q, j>> \in t.dels /\ c.deferred # {}
    <3>1. j \in gone
      BY <2>5
    <3>2. pending' = Append(pending, ChangeEvent(t.repo, gone, {}))
      BY <1>14, <2>5, <3>1 DEF Record
    <3>3. Len(pending) + 1 \in DOMAIN pending' /\ pending'[Len(pending) + 1].dels = gone
      BY <3>2, Before DEF ChangeEvent
    <3> QED
      BY <3>1, <3>3 DEF Known, InEvents
  <2> QED
    BY <2>2, <2>3, <2>4, <2>5
<1>18. ASSUME NEW j, InEvents(t.evs, j) PROVE Known(j)'
  <2>1. task'[p] = r /\ disk' = disk
    BY <1>4, <1>5, MoveTypes DEF GitInv, Decide
  <2> QED
    BY <1>6, <1>18, <2>1 DEF Known, InEvents
<1> QED
  BY <1>1, <1>4, <1>5, <1>13, <1>14, <1>15, <1>16, <1>17, <1>18, MoveKeeps, Before DEF Decide, Known

\* Steps of p that change what runs.
LEMMA RunKeeps ==
    ASSUME GitInv, NEW p \in GitProcs, NEW r \in TaskRecords, GitMoves(p, r), GitPlaces', Numbered',
           UNCHANGED <<gitWorld, disk, pending, wake, rollWake, rollouts, pushes>>,
           nomad' \in [GitJobs -> RunRecords],
           gitBudget' \in [commits : Nat, pushes : Nat, faults : Nat, files : SUBSET (Repos \X GitJobs)],
           strayed' \subseteq GitJobs, r.evs = task[p].evs,
           \A j \in GitJobs \ strayed' :
             Settled(j)' \/ (j \notin strayed /\ nomad'[j] = nomad[j] /\ (InTask(task[p], j) => InTask(r, j)))
    PROVE  GitInv'
<1>1. /\ task' \in [GitProcs -> TaskRecords] /\ task'[p] = r
      /\ \A q \in GitProcs \ {p} : task'[q] = task[q]
  BY MoveTypes DEF GitInv
<1>2. GitTypes'
  BY <1>1 DEF GitInv, GitTypes, gitWorld
<1>3. ASSUME NEW j \in GitJobs, Known(j), InTask(task[p], j) => InTask(r, j) PROVE Known(j)'
  BY <1>1, <1>3, KnownKept DEF Known, InEvents, InTask
<1>4. Cared'
  BY <1>3, CaredKept DEF GitInv
<1> QED
  BY <1>2, <1>4 DEF GitInv

LEMMA GitFaultTypes == ASSUME GitInv, GitFault
    PROVE  gitBudget' \in [commits : Nat, pushes : Nat, faults : Nat, files : SUBSET (Repos \X GitJobs)]
<1>1. gitBudget \in [commits : Nat, pushes : Nat, faults : Nat, files : SUBSET (Repos \X GitJobs)]
  BY DEF GitInv, GitTypes
<1>2. gitBudget.faults > 0 /\ gitBudget' = [gitBudget EXCEPT !.faults = gitBudget.faults - 1]
  BY DEF GitFault
<1>3. gitBudget.faults \in Nat /\ gitBudget.faults - 1 \in Nat
  BY <1>1, <1>2
<1> QED
  BY <1>1, <1>2, <1>3

\* What may run: a job that is stopped, one that is started from a checkout with the newest image.
LEMMA RunTypes ==
    ASSUME GitInv, NEW j \in GitJobs, NEW v \in RunRecords, v.spec <= commits, v.img <= registry[j],
           nomad' = [nomad EXCEPT ![j] = v] \/ nomad' = nomad, UNCHANGED <<gitWorld, disk>>
    PROVE  /\ nomad' \in [GitJobs -> RunRecords] /\ Numbered'
           /\ \A k \in GitJobs \ {j} : nomad'[k] = nomad[k]
<1>1. /\ nomad' \in [GitJobs -> RunRecords]
      /\ \A k \in GitJobs \ {j} : nomad'[k] = nomad[k]
      /\ nomad'[j] = v \/ nomad'[j] = nomad[j]
  BY DEF GitInv, GitTypes
<1>2. \A k \in GitJobs : nomad'[k].spec <= commits /\ nomad'[k].img <= registry[k]
  BY <1>1 DEF GitInv, Numbered
<1> QED
  BY <1>1, <1>2 DEF GitInv, Numbered, gitWorld

LEMMA StopDeletedKeeps == ASSUME GitInv, NEW p \in GitProcs, StopDeleted(p) PROVE GitInv'
<1> USE GitCast
<1> DEFINE t == task[p]
<1>1. PICK d \in t.dels : task' = [task EXCEPT ![p].dels = @ \ {d}] /\ StopJob(p, d[1], d[2])
  BY DEF StopDeleted
<1>2. /\ t \in TaskRecords /\ Shape(t) /\ strayed \subseteq GitJobs /\ nomad \in [GitJobs -> RunRecords]
      /\ disk \in [Repos -> [GitJobs -> FileRecords]] /\ registry \in [GitJobs -> Nat] /\ commits \in Nat
  BY Before DEF GitInv, GitTypes
<1>3. PICK r0 \in Repos, j \in GitJobs : d = <<r0, j>>
  BY <1>1, <1>2 DEF TaskRecords
<1> DEFINE r == [t EXCEPT !.dels = t.dels \ {d}]
<1>4. r \in TaskRecords /\ GitMoves(p, r)
  BY <1>2, <1>1 DEF TaskRecords, GitMoves, GitInv, GitTypes
<1>5. /\ r.pc = t.pc /\ r.repo = t.repo /\ r.images = t.images /\ r.evs = t.evs /\ r.orphans = t.orphans
      /\ r.apps = t.apps /\ r.dels = t.dels \ {d}
  BY <1>2 DEF TaskRecords
<1> HIDE DEF r
<1>6. UNCHANGED <<gitWorld, disk, pending, wake, rollWake, rollouts, pushes, nomadMu>>
  BY <1>1 DEF StopJob
<1>7. GitPlaces'
  <2>1. Shape(r)
    BY <1>2, <1>5 DEF Shape
  <2> QED
    BY <1>4, <1>5, <1>6, <2>1, PlacesKept DEF GitInv, GitPlaces
<1>8. nomad' = nomad \/ nomad' = [nomad EXCEPT ![j] = NotRunning]
  BY <1>1, <1>3 DEF StopJob
<1>9. /\ nomad' \in [GitJobs -> RunRecords] /\ Numbered'
      /\ \A k \in GitJobs \ {j} : nomad'[k] = nomad[k]
  BY <1>2, <1>6, <1>8, RunTypes DEF NotRunning
<1>10. gitBudget' \in [commits : Nat, pushes : Nat, faults : Nat, files : SUBSET (Repos \X GitJobs)]
  BY <1>1, GitFaultTypes, Before DEF StopJob
<1>11. strayed \subseteq strayed' /\ strayed' \subseteq GitJobs
  BY <1>1, <1>2, <1>3 DEF StopJob
<1>12. j \notin strayed' => Settled(j)'
  BY <1>1, <1>2, <1>3 DEF StopJob, Settled, DefinedIn
<1>13. ASSUME NEW k \in GitJobs \ strayed', k # j, InTask(t, k) PROVE InTask(r, k)
  BY <1>3, <1>5, <1>13 DEF InTask
<1> QED
  BY <1>4, <1>5, <1>6, <1>7, <1>9, <1>10, <1>11, <1>12, <1>13, RunKeeps

\* The position of an event that stays, among those that stay.
Kept(evs) == {i \in DOMAIN evs : evs[i].apps # {}}
Rank(evs, i) == Cardinality({k \in Kept(evs) : k <= i})

LEMMA RankFacts ==
    \A evs \in Seq(Changes) :
      /\ Cardinality(Kept(evs)) \in Nat
      /\ \A i \in Kept(evs) : Rank(evs, i) \in 1..Cardinality(Kept(evs))
      /\ \A i, k \in Kept(evs) : Rank(evs, i) = Rank(evs, k) => i = k
      /\ \A n \in 1..Cardinality(Kept(evs)) : \E i \in Kept(evs) : Rank(evs, i) = n
<1> TAKE evs \in Seq(Changes)
<1> DEFINE K == Kept(evs)
           C == Cardinality(K)
           UpTo(i) == {k \in K : k <= i}
<1>1. K \subseteq 1..Len(evs) /\ Len(evs) \in Nat /\ K \subseteq Nat
  BY DEF Kept
<1>2. IsFiniteSet(K)
  <2>1. IsFiniteSet(1..Len(evs))
    BY <1>1, FS_Interval
  <2> QED
    BY <1>1, <2>1, FS_Subset
<1> HIDE DEF K
<1>3. C \in Nat /\ IsFiniteSet(1..C) /\ Cardinality(1..C) = C
  BY <1>2, FS_CardinalityType, FS_Interval
<1>4. ASSUME NEW i \in K PROVE IsFiniteSet(UpTo(i)) /\ Cardinality(UpTo(i)) \in 1..C
  <2>1. UpTo(i) \in SUBSET K /\ i \in UpTo(i)
    BY <1>1
  <2>2. IsFiniteSet(UpTo(i)) /\ Cardinality(UpTo(i)) <= C
    BY <1>2, <2>1, FS_Subset
  <2>3. Cardinality(UpTo(i)) \in Nat /\ Cardinality(UpTo(i)) # 0
    BY <2>1, <2>2, FS_CardinalityType, FS_EmptySet
  <2> QED
    BY <1>3, <2>2, <2>3
<1>5. ASSUME NEW i \in K, NEW k \in K, i < k PROVE Cardinality(UpTo(i)) # Cardinality(UpTo(k))
  <2>1. i \in Nat /\ k \in Nat
    BY <1>1
  <2>2. \A m \in Nat : m <= i => m <= k
    BY <1>5, <2>1
  <2>3. UpTo(i) \in SUBSET UpTo(k)
    BY <1>1, <2>2
  <2>4. k \in UpTo(k) /\ k \notin UpTo(i)
    BY <1>5, <2>1
  <2> QED
    BY <1>4, <2>3, <2>4, FS_Subset
<1>6. \A i \in K : Rank(evs, i) = Cardinality(UpTo(i))
  BY DEF Rank, K
<1>7. \A i, k \in K : Rank(evs, i) = Rank(evs, k) => i = k
  <2> SUFFICES ASSUME NEW i \in K, NEW k \in K, Rank(evs, i) = Rank(evs, k), i # k PROVE FALSE
    OBVIOUS
  <2>1. i < k \/ k < i
    BY <1>1
  <2>2. Cardinality(UpTo(i)) = Cardinality(UpTo(k))
    BY <1>6
  <2> HIDE DEF UpTo
  <2> QED
    BY <1>5, <2>1, <2>2
<1> DEFINE f == [i \in K |-> Rank(evs, i)]
<1>8. f \in Injection(K, 1..C)
  BY <1>4, <1>6, <1>7 DEF Injection, IsInjective
<1>9. f \in Surjection(K, 1..C)
  BY <1>3, <1>8, FS_Injection
<1>10. \A n \in 1..C : \E i \in K : Rank(evs, i) = n
  BY <1>9 DEF Surjection
<1> QED
  BY <1>3, <1>4, <1>6, <1>7, <1>10, ZenonT(40) DEF K

\* What stays in the queue of pending changes when the deletions are taken out: every
\* event with something to apply.
LEMMA WithoutDeletesFacts ==
    \A evs \in Seq(Changes) :
      /\ WithoutDeletes(evs) \in Seq(Changes)
      /\ \A i \in DOMAIN evs : evs[i].apps # {} =>
           \E n \in DOMAIN WithoutDeletes(evs) :
              WithoutDeletes(evs)[n] = ChangeEvent(evs[i].repo, {}, evs[i].apps)
<1> TAKE evs \in Seq(Changes)
<1> DEFINE K == Kept(evs)
           C == Cardinality(K)
           Place(n) == CHOOSE i \in K : Rank(evs, i) = n
           W == [n \in 1..C |-> ChangeEvent(evs[Place(n)].repo, {}, evs[Place(n)].apps)]
<1>1. WithoutDeletes(evs) = W
  BY DEF WithoutDeletes, Kept, Rank
<1>2. /\ C \in Nat /\ \A i \in K : Rank(evs, i) \in 1..C
      /\ \A i, k \in K : Rank(evs, i) = Rank(evs, k) => i = k
      /\ \A n \in 1..C : \E i \in K : Rank(evs, i) = n
  BY RankFacts
<1>3. \A i \in K : evs[i] \in Changes
  BY DEF Kept
<1>4. K = {i \in DOMAIN evs : evs[i].apps # {}}
  BY DEF Kept
<1> HIDE DEF K
<1>5. \A n \in 1..C : Place(n) \in K /\ Rank(evs, Place(n)) = n
  BY <1>2
<1>6. \A i \in K : Place(Rank(evs, i)) = i
  BY <1>2, <1>5
<1> HIDE DEF Place, C
<1>7. \A n \in 1..C : W[n] \in Changes
  BY <1>3, <1>5 DEF ChangeEvent, Changes
<1>8. W \in Seq(Changes)
  BY <1>2, <1>7
<1>9. ASSUME NEW i \in DOMAIN evs, evs[i].apps # {}
      PROVE  \E n \in DOMAIN W : W[n] = ChangeEvent(evs[i].repo, {}, evs[i].apps)
  BY <1>4, <1>9, <1>2, <1>6
<1> QED
  BY <1>1, <1>8, <1>9

LEMMA DeletesFacts ==
    \A evs \in Seq(Changes) :
      /\ Deletes(evs) \in SUBSET (Repos \X GitJobs)
      /\ \A i \in DOMAIN evs : \A j \in evs[i].dels : <<evs[i].repo, j>> \in Deletes(evs)
<1> TAKE evs \in Seq(Changes)
<1>1. \A i \in DOMAIN evs : evs[i] \in Changes
  OBVIOUS
<1>2. \A i \in DOMAIN evs : evs[i].repo \in Repos /\ evs[i].dels \subseteq GitJobs
  BY <1>1 DEF Changes
<1> QED
  BY <1>2 DEF Deletes

\* Taking the deletions out of the queue: whoever takes them has them in hand.
LEMMA Taken ==
    ASSUME GitInv, NEW p \in GitProcs, task'[p].dels = Deletes(pending), disk' = disk,
           pending' = WithoutDeletes(pending), NEW j, InEvents(pending, j)
    PROVE  Known(j)'
<1>1. pending \in Seq(Changes)
  BY Before
<1>2. PICK i \in DOMAIN pending : j \in pending[i].dels \/ (j \in pending[i].apps /\ disk[pending[i].repo][j].spec > 0)
  BY DEF InEvents
<1>3. pending[i] \in Changes
  BY <1>1
<1>4. CASE j \in pending[i].dels
  BY <1>1, <1>3, <1>4, DeletesFacts DEF Changes, Known, InTask
<1>5. CASE j \in pending[i].apps /\ disk[pending[i].repo][j].spec > 0
  BY <1>1, <1>5, WithoutDeletesFacts DEF ChangeEvent, Known, InEvents
<1> QED
  BY <1>2, <1>4, <1>5

\* Empty hands.
LEMMA NothingInHand ==
    ASSUME NEW t, t.dels = {}, t.apps = {}, t.evs = <<>>
    PROVE  \A j : ~ InTask(t, j) /\ ~ InEvents(t.evs, j)
BY DEF InTask, InEvents

\* Steps of p that hand nothing to the queue and give nothing up.
LEMMA QuietKeeps ==
    ASSUME GitInv, NEW p \in GitProcs, NEW r \in TaskRecords, GitMoves(p, r), GitPlaces',
           UNCHANGED <<gitWorld, disk, nomad, pending, pushes, gitBudget, strayed>>,
           wake' \subseteq {"signal", "timer"}, rollWake' \subseteq {"signal", "timer"},
           rollouts' \subseteq GitJobs,
           \A j : InTask(task[p], j) \/ InEvents(task[p].evs, j) => InTask(r, j) \/ InEvents(r.evs, j)
    PROVE  GitInv'
<1>1. task'[p] = r
  BY MoveTypes DEF GitInv
<1>2. \A j : InTask(task[p], j) \/ InEvents(task[p].evs, j) => Known(j)'
  BY <1>1 DEF Known, InTask, InEvents
<1>3. \A j : InEvents(pending, j) => Known(j)'
  BY DEF Known, InEvents
<1> QED
  BY <1>2, <1>3, MoveKeeps, Before

LEMMA ApplyFirstKeeps == ASSUME GitInv, NEW p \in GitProcs, ApplyFirst(p) PROVE GitInv'
<1> USE GitCast
<1> DEFINE t == task[p]
           r == [t EXCEPT !.pc = "apply"]
<1>1. t \in TaskRecords /\ Shape(t) /\ p \in GitProcs
  BY Before
<1>3. r \in TaskRecords
  BY <1>1 DEF TaskRecords
<1>4. GitMoves(p, r)
  BY DEF ApplyFirst, GitMoves, GitInv, GitTypes
<1>5. /\ r.pc = "apply"
      /\ r.repo = t.repo /\ r.dels = t.dels /\ r.apps = t.apps /\ r.build = t.build /\ r.orphans = t.orphans /\ r.images = t.images /\ r.evs = t.evs
  BY <1>1 DEF TaskRecords
<1> HIDE DEF r
<1>6. t.pc = "stop" /\ t.dels = {} /\ nomadMu' = nomadMu
  BY DEF ApplyFirst
<1>7. Shape(r)
  BY <1>1, <1>5, <1>6 DEF Shape
<1>8. GitPlaces'
  BY <1>1, <1>3, <1>4, <1>5, <1>6, <1>7, PlacesKept DEF GitPlaces, GitInv
<1>9. \A j : InTask(t, j) \/ InEvents(t.evs, j) => InTask(r, j) \/ InEvents(r.evs, j)
  BY <1>5 DEF InTask
<1> QED
  BY <1>3, <1>4, <1>8, <1>9, QuietKeeps, Before DEF ApplyFirst

LEMMA SweepListKeeps == ASSUME GitInv, NEW p \in {Reconciler, Roller}, SweepList(p) PROVE GitInv'
<1> USE GitCast
<1> DEFINE t == task[p]
<1>1. t \in TaskRecords /\ Shape(t) /\ p \in GitProcs
  BY Before
<1>2. PICK stops \in SUBSET GitJobs : task' = [task EXCEPT ![p].pc = "sweep", ![p].orphans = stops]
  BY DEF SweepList
<1> DEFINE r == [t EXCEPT !.pc = "sweep", !.orphans = stops]
<1>3. r \in TaskRecords
  BY <1>1 DEF TaskRecords
<1>4. GitMoves(p, r)
  BY <1>1, <1>2 DEF GitMoves, GitInv, GitTypes
<1>5. /\ r.pc = "sweep" /\ r.orphans = stops
      /\ r.repo = t.repo /\ r.dels = t.dels /\ r.apps = t.apps /\ r.build = t.build /\ r.images = t.images /\ r.evs = t.evs
  BY <1>1 DEF TaskRecords
<1> HIDE DEF r
<1>6. t.pc = "teardown" /\ t.dels = {} /\ nomadMu' = nomadMu
  BY DEF SweepList
<1>7. Shape(r)
  BY <1>1, <1>5, <1>6 DEF Shape
<1>8. GitPlaces'
  BY <1>1, <1>3, <1>4, <1>5, <1>6, <1>7, PlacesKept DEF GitPlaces, GitInv
<1>9. \A j : InTask(t, j) \/ InEvents(t.evs, j) => InTask(r, j) \/ InEvents(r.evs, j)
  BY <1>5 DEF InTask
<1> QED
  BY <1>1, <1>3, <1>4, <1>8, <1>9, QuietKeeps, Before DEF SweepList

LEMMA PushDoneKeeps == ASSUME GitInv, NEW p \in PushHandlers, PushDone(p) PROVE GitInv'
<1> USE GitCast
<1>1. task[p] \in TaskRecords /\ Shape(task[p]) /\ p \in GitProcs /\ task[p].pc = "apply" /\ task[p].apps = {}
  BY Before DEF PushDone
<1>2. GitMoves(p, Resting) /\ nomadMu' = nomadMu
  BY DEF PushDone, GitMoves
<1>3. Shape(Resting) /\ Resting.pc = "idle" /\ Resting.images = {} /\ Resting.evs = <<>> /\ Resting.apps = {}
  BY DEF Shape, Resting
<1>4. GitPlaces'
  BY <1>1, <1>2, <1>3, PlacesKept DEF GitInv, GitPlaces
<1>5. \A j : ~ InTask(task[p], j) /\ ~ InEvents(task[p].evs, j)
  BY <1>1, NothingInHand DEF Shape, GitInv, GitPlaces
<1> QED
  BY <1>1, <1>2, <1>4, <1>5, QuietKeeps, Before DEF PushDone

LEMMA EventDoneKeeps == ASSUME GitInv, EventDone PROVE GitInv'
<1> USE GitCast
<1> DEFINE t == task[Reconciler]
           r == [t EXCEPT !.pc = "next"]
<1>1. t \in TaskRecords /\ Shape(t) /\ Reconciler \in GitProcs
  BY Before
<1>3. r \in TaskRecords
  BY <1>1 DEF TaskRecords
<1>4. GitMoves(Reconciler, r)
  BY DEF EventDone, GitMoves, GitInv, GitTypes
<1>5. /\ r.pc = "next"
      /\ r.repo = t.repo /\ r.dels = t.dels /\ r.apps = t.apps /\ r.build = t.build /\ r.orphans = t.orphans /\ r.images = t.images /\ r.evs = t.evs
  BY <1>1 DEF TaskRecords
<1> HIDE DEF r
<1>6. t.pc = "apply" /\ t.apps = {} /\ nomadMu' = Hangar
  BY DEF EventDone
<1>7. Shape(r)
  BY <1>1, <1>5, <1>6 DEF Shape
<1>8. GitPlaces'
  BY <1>1, <1>3, <1>4, <1>5, <1>6, <1>7, PlacesKept DEF GitPlaces, GitInv
<1>9. \A j : InTask(t, j) \/ InEvents(t.evs, j) => InTask(r, j) \/ InEvents(r.evs, j)
  BY <1>5 DEF InTask
<1> QED
  BY <1>1, <1>3, <1>4, <1>8, <1>9, QuietKeeps, Before DEF EventDone

LEMMA RollApplyKeeps == ASSUME GitInv, RollApply PROVE GitInv'
<1> USE GitCast
<1> DEFINE t == task[Roller]
           r == [t EXCEPT !.pc = "apply"]
<1>1. t \in TaskRecords /\ Shape(t) /\ Roller \in GitProcs
  BY Before
<1>3. r \in TaskRecords
  BY <1>1 DEF TaskRecords
<1>4. GitMoves(Roller, r)
  BY DEF RollApply, GitMoves, GitInv, GitTypes
<1>5. /\ r.pc = "apply"
      /\ r.repo = t.repo /\ r.dels = t.dels /\ r.apps = t.apps /\ r.build = t.build /\ r.orphans = t.orphans /\ r.images = t.images /\ r.evs = t.evs
  BY <1>1 DEF TaskRecords
<1> HIDE DEF r
<1>6. t.pc = "sweep" /\ nomadMu' = nomadMu /\ t.orphans = {}
  BY DEF RollApply
<1>7. Shape(r)
  BY <1>1, <1>5, <1>6 DEF Shape
<1>8. GitPlaces'
  BY <1>1, <1>3, <1>4, <1>5, <1>6, <1>7, PlacesKept DEF GitPlaces, GitInv
<1>9. \A j : InTask(t, j) \/ InEvents(t.evs, j) => InTask(r, j) \/ InEvents(r.evs, j)
  BY <1>5 DEF InTask
<1> QED
  BY <1>1, <1>3, <1>4, <1>8, <1>9, QuietKeeps, Before DEF RollApply

LEMMA RollDoneKeeps == ASSUME GitInv, RollDone PROVE GitInv'
<1> USE GitCast
<1> DEFINE t == task[Roller]
           r == [t EXCEPT !.pc = "image"]
<1>1. t \in TaskRecords /\ Shape(t) /\ Roller \in GitProcs
  BY Before
<1>3. r \in TaskRecords
  BY <1>1 DEF TaskRecords
<1>4. GitMoves(Roller, r)
  BY DEF RollDone, GitMoves, GitInv, GitTypes
<1>5. /\ r.pc = "image"
      /\ r.repo = t.repo /\ r.dels = t.dels /\ r.apps = t.apps /\ r.build = t.build /\ r.orphans = t.orphans /\ r.images = t.images /\ r.evs = t.evs
  BY <1>1 DEF TaskRecords
<1> HIDE DEF r
<1>6. t.pc = "apply" /\ t.apps = {} /\ nomadMu' = Hangar
  BY DEF RollDone
<1>7. Shape(r)
  BY <1>1, <1>5, <1>6 DEF Shape, GitInv, GitPlaces
<1>8. GitPlaces'
  BY <1>1, <1>3, <1>4, <1>5, <1>6, <1>7, PlacesKept DEF GitPlaces, GitInv
<1>9. \A j : InTask(t, j) \/ InEvents(t.evs, j) => InTask(r, j) \/ InEvents(r.evs, j)
  BY <1>5 DEF InTask
<1> QED
  BY <1>1, <1>3, <1>4, <1>8, <1>9, QuietKeeps, Before DEF RollDone

LEMMA TakeRolloutsKeeps == ASSUME GitInv, TakeRollouts PROVE GitInv'
<1> USE GitCast
<1> DEFINE t == task[Roller]
           r == [t EXCEPT !.pc = "image", !.images = rollouts]
<1>1. t \in TaskRecords /\ Shape(t) /\ Roller \in GitProcs
  BY Before
<1>2. rollouts \subseteq GitJobs
  BY Before
<1>3. r \in TaskRecords
  BY <1>1, <1>2 DEF TaskRecords
<1>4. GitMoves(Roller, r)
  BY DEF TakeRollouts, GitMoves, GitInv, GitTypes
<1>5. /\ r.pc = "image" /\ r.images = rollouts
      /\ r.repo = t.repo /\ r.dels = t.dels /\ r.apps = t.apps /\ r.build = t.build /\ r.orphans = t.orphans /\ r.evs = t.evs
  BY <1>1 DEF TaskRecords
<1> HIDE DEF r
<1>6. t.pc = "idle" /\ nomadMu' = nomadMu
  BY DEF TakeRollouts
<1>7. Shape(r)
  BY <1>1, <1>5, <1>6 DEF Shape
<1>8. GitPlaces'
  BY <1>1, <1>3, <1>4, <1>5, <1>6, <1>7, PlacesKept DEF GitPlaces, GitInv, Shape
<1>9. \A j : InTask(t, j) \/ InEvents(t.evs, j) => InTask(r, j) \/ InEvents(r.evs, j)
  BY <1>5 DEF InTask
<1> QED
  BY <1>1, <1>3, <1>4, <1>8, <1>9, QuietKeeps, Before DEF TakeRollouts

LEMMA ReconcileKeeps == ASSUME GitInv, Reconcile PROVE GitInv'
<1> USE GitCast
<1> DEFINE t == task[Reconciler]
           r == [t EXCEPT !.pc = "teardown", !.dels = Deletes(pending)]
<1>1. t \in TaskRecords /\ Shape(t) /\ Reconciler \in GitProcs
  BY Before
<1>2. pending \in Seq(Changes) /\ Deletes(pending) \in SUBSET (Repos \X GitJobs) /\ WithoutDeletes(pending) \in Seq(Changes)
  BY Before, DeletesFacts, WithoutDeletesFacts
<1>3. r \in TaskRecords
  BY <1>1, <1>2 DEF TaskRecords
<1>4. GitMoves(Reconciler, r)
  BY DEF Reconcile, GitMoves, GitInv, GitTypes
<1>5. /\ r.pc = "teardown" /\ r.dels = Deletes(pending)
      /\ r.repo = t.repo /\ r.apps = t.apps /\ r.build = t.build /\ r.orphans = t.orphans /\ r.images = t.images /\ r.evs = t.evs
  BY <1>1 DEF TaskRecords
<1> HIDE DEF r
<1>6. t.pc = "idle" /\ nomadMu' = nomadMu
  BY DEF Reconcile
<1>7. Shape(r)
  BY <1>1, <1>5, <1>6 DEF Shape
<1>8. GitPlaces'
  BY <1>1, <1>3, <1>4, <1>5, <1>6, <1>7, PlacesKept DEF GitPlaces, GitInv, Shape
<1>9. \A j : ~ InTask(t, j) /\ ~ InEvents(t.evs, j)
  BY <1>1, <1>6, NothingInHand DEF Shape
<1>10. task'[Reconciler].dels = Deletes(pending)
  BY <1>1, <1>3, <1>4, <1>5, MoveTypes DEF GitInv
<1>11. \A j : InEvents(pending, j) => Known(j)'
  BY <1>1, <1>10, Taken DEF Reconcile
<1> QED
  BY <1>1, <1>2, <1>3, <1>4, <1>8, <1>9, <1>11, MoveKeeps, Before DEF Reconcile

LEMMA DrainPendingKeeps == ASSUME GitInv, DrainPending PROVE GitInv'
<1> USE GitCast
<1> DEFINE t == task[Reconciler]
           r == [t EXCEPT !.pc = "next", !.evs = pending]
<1>1. t \in TaskRecords /\ Shape(t) /\ Reconciler \in GitProcs
  BY Before
<1>2. pending \in Seq(Changes)
  BY Before
<1>3. r \in TaskRecords
  BY <1>1, <1>2 DEF TaskRecords
<1>4. GitMoves(Reconciler, r)
  BY DEF DrainPending, GitMoves, GitInv, GitTypes
<1>5. /\ r.pc = "next" /\ r.evs = pending
      /\ r.repo = t.repo /\ r.dels = t.dels /\ r.apps = t.apps /\ r.build = t.build /\ r.orphans = t.orphans /\ r.images = t.images
  BY <1>1 DEF TaskRecords
<1> HIDE DEF r
<1>6. t.pc = "sweep" /\ t.orphans = {} /\ nomadMu' = nomadMu
  BY DEF DrainPending
<1>7. Shape(r)
  BY <1>1, <1>5, <1>6 DEF Shape, GitInv, GitPlaces
<1>8. GitPlaces'
  BY <1>1, <1>3, <1>4, <1>5, <1>6, <1>7, PlacesKept DEF GitPlaces, GitInv, Shape
<1>9. \A j : ~ InTask(t, j) /\ ~ InEvents(t.evs, j)
  BY <1>1, <1>6, NothingInHand DEF Shape, GitInv, GitPlaces
<1>10. task'[Reconciler].evs = pending
  BY <1>1, <1>3, <1>4, <1>5, MoveTypes DEF GitInv
<1>11. \A j : InEvents(pending, j) => Known(j)'
  BY <1>1, <1>10 DEF DrainPending, Known, InEvents
<1> QED
  BY <1>1, <1>2, <1>3, <1>4, <1>8, <1>9, <1>11, MoveKeeps, Before DEF DrainPending

LEMMA NextEventKeeps == ASSUME GitInv, NextEvent PROVE GitInv'
<1> USE GitCast
<1> DEFINE t == task[Reconciler]
           e == Head(t.evs)
<1>1. t \in TaskRecords /\ Shape(t) /\ t.pc = "next" /\ t.apps = {} /\ t.dels = {} /\ t.images = {} /\ t.orphans = {}
  BY Before DEF NextEvent, Shape, GitInv, GitPlaces
<1>2. CASE t.evs = <<>>
  <2>1. GitMoves(Reconciler, Resting) /\ nomadMu' = nomadMu
    BY <1>2 DEF NextEvent, GitMoves
  <2>2. Shape(Resting) /\ Resting.pc = "idle" /\ Resting.images = {} /\ Resting.evs = <<>> /\ Resting.apps = {}
    BY DEF Shape, Resting
  <2>3. nomadMu # Reconciler
    BY <1>1 DEF GitInv, GitPlaces
  <2>4. GitPlaces'
    BY <2>1, <2>2, <2>3, PlacesKept DEF GitInv, GitPlaces
  <2>5. \A j : ~ InTask(t, j) /\ ~ InEvents(t.evs, j)
    <3> HIDE DEF t
    <3> QED
      BY <1>1, <1>2, NothingInHand
  <2> QED
    BY <2>1, <2>4, <2>5, QuietKeeps, Before DEF NextEvent
<1>3. CASE t.evs # <<>>
  <2>1. /\ e \in Changes /\ Tail(t.evs) \in Seq(Changes)
        /\ e = t.evs[1] /\ Len(t.evs) \in Nat /\ Len(t.evs) > 0
        /\ \A i \in 1..Len(t.evs) - 1 : i \in DOMAIN Tail(t.evs) /\ Tail(t.evs)[i] = t.evs[i + 1]
    BY <1>1, <1>3 DEF TaskRecords
  <2> DEFINE d == {<<e.repo, j>> : j \in e.dels}
             a == {<<e.repo, j>> : j \in e.apps}
             r == [t EXCEPT !.pc = "decide", !.repo = e.repo, !.build = {}, !.dels = d, !.apps = a,
                            !.evs = Tail(t.evs)]
  <2>2. e.repo \in Repos /\ d \in SUBSET (Repos \X GitJobs) /\ a \in SUBSET (Repos \X GitJobs)
    BY <2>1 DEF Changes
  <2>3. task' = [task EXCEPT ![Reconciler] = r] /\ nomadMu' = Reconciler /\ nomadMu = Hangar
    BY <1>3 DEF NextEvent
  <2> HIDE DEF e
  <2>4. /\ \A j \in e.dels : <<e.repo, j>> \in d
        /\ \A j \in e.apps : <<e.repo, j>> \in a
        /\ \A x \in a : x[1] = e.repo
    OBVIOUS
  <2> HIDE DEF d, a
  <2>5. r \in TaskRecords
    BY <1>1, <2>1, <2>2 DEF TaskRecords
  <2>6. /\ r.pc = "decide" /\ r.repo = e.repo /\ r.dels = d /\ r.apps = a /\ r.evs = Tail(t.evs)
        /\ r.orphans = t.orphans /\ r.images = t.images
    BY <1>1 DEF TaskRecords
  <2> HIDE DEF r
  <2>7. GitMoves(Reconciler, r)
    BY <2>3 DEF GitMoves
  <2>8. Shape(r)
    BY <1>1, <2>6 DEF Shape
  <2>9. GitPlaces'
    BY <1>1, <2>3, <2>4, <2>5, <2>6, <2>7, <2>8, PlacesKept DEF GitPlaces, GitInv
  <2>10. ASSUME NEW j, InEvents(t.evs, j) PROVE InTask(r, j) \/ InEvents(r.evs, j)
    <3>1. PICK i \in DOMAIN t.evs : j \in t.evs[i].dels \/ (j \in t.evs[i].apps /\ disk[t.evs[i].repo][j].spec > 0)
      BY <2>10 DEF InEvents
    <3>2. CASE i = 1
      BY <2>1, <2>2, <2>4, <2>6, <3>1, <3>2 DEF InTask
    <3>3. CASE i # 1
      <4>1. i - 1 \in 1..Len(t.evs) - 1 /\ (i - 1) + 1 = i
        BY <1>1, <2>1, <3>3 DEF TaskRecords
      <4>2. i - 1 \in DOMAIN r.evs /\ r.evs[i - 1] = t.evs[i]
        BY <2>1, <2>6, <4>1
      <4> QED
        BY <3>1, <4>2 DEF InEvents
    <3> QED
      BY <3>2, <3>3
  <2>11. \A j : ~ InTask(t, j)
    BY <1>1 DEF InTask
  <2> QED
    BY <2>5, <2>7, <2>9, <2>10, <2>11, QuietKeeps, Before DEF NextEvent
<1> QED
  BY <1>2, <1>3

LEMMA RolloutImageKeeps == ASSUME GitInv, RolloutImage PROVE GitInv'
<1> USE GitCast
<1> DEFINE t == task[Roller]
<1>1. t \in TaskRecords /\ Shape(t) /\ t.pc = "image" /\ t.dels = {} /\ t.apps = {} /\ t.evs = <<>> /\ t.orphans = {}
  BY Before DEF RolloutImage, GitInv, GitPlaces, Shape
<1>2. \A j : ~ InTask(t, j) /\ ~ InEvents(t.evs, j)
  <2> HIDE DEF t
  <2> QED
    BY <1>1, NothingInHand
<1>3. nomadMu # Roller
  BY <1>1 DEF GitInv, GitPlaces
<1>4. CASE t.images = {}
  <2>1. GitMoves(Roller, Resting) /\ UNCHANGED <<nomadMu, pending>>
    BY <1>4 DEF RolloutImage, GitMoves
  <2>2. Shape(Resting) /\ Resting.pc = "idle" /\ Resting.images = {} /\ Resting.evs = <<>> /\ Resting.apps = {}
    BY DEF Shape, Resting
  <2>3. GitPlaces'
    BY <1>3, <2>1, <2>2, PlacesKept DEF GitInv, GitPlaces
  <2> QED
    BY <1>2, <2>1, <2>3, QuietKeeps, Before DEF RolloutImage
<1>5. CASE t.images # {}
  <2> DEFINE others == t.images \ {HangarJob}
  <2>1. PICK j \in (IF others # {} THEN others ELSE t.images) :
             IF DefinedIn(j) = {}
             THEN /\ task' = [task EXCEPT ![Roller].images = @ \ {j}]
                  /\ UNCHANGED <<nomadMu, pending>>
             ELSE /\ nomadMu = Hangar /\ nomadMu' = Roller
                  /\ \E q \in DefinedIn(j) :
                       task' = [task EXCEPT ![Roller].images = @ \ {j}, ![Roller].pc = "teardown",
                                    ![Roller].dels = Deletes(pending), ![Roller].apps = {<<q, j>>}]
                  /\ pending' = WithoutDeletes(pending)
    BY <1>5 DEF RolloutImage
  <2>2. j \in t.images /\ j \in GitJobs /\ (j = HangarJob => t.images \ {j} = {})
    BY <1>1, <2>1 DEF TaskRecords
  <2>3. CASE DefinedIn(j) = {}
    <3> DEFINE r == [t EXCEPT !.images = t.images \ {j}]
    <3>1. r \in TaskRecords /\ GitMoves(Roller, r) /\ UNCHANGED <<nomadMu, pending>>
      BY <1>1, <2>1, <2>3 DEF TaskRecords, GitMoves, GitInv, GitTypes
    <3>2. /\ r.pc = t.pc /\ r.dels = t.dels /\ r.apps = t.apps /\ r.evs = t.evs /\ r.orphans = t.orphans
      BY <1>1 DEF TaskRecords
    <3> HIDE DEF r
    <3>3. Shape(r)
      BY <1>1, <3>2 DEF Shape
    <3>4. GitPlaces'
      BY <1>1, <1>3, <3>1, <3>2, <3>3, PlacesKept DEF GitInv, GitPlaces
    <3> QED
      BY <1>2, <3>1, <3>4, QuietKeeps, Before DEF RolloutImage
  <2>4. CASE DefinedIn(j) # {}
    <3>1. PICK q \in DefinedIn(j) :
               task' = [task EXCEPT ![Roller].images = @ \ {j}, ![Roller].pc = "teardown",
                            ![Roller].dels = Deletes(pending), ![Roller].apps = {<<q, j>>}]
      BY <2>1, <2>4
    <3>2. nomadMu' = Roller /\ pending' = WithoutDeletes(pending)
      BY <2>1, <2>4
    <3>3. q \in Repos /\ {<<q, j>>} \in SUBSET (Repos \X GitJobs)
      BY <2>2 DEF DefinedIn
    <3>4. /\ pending \in Seq(Changes) /\ Deletes(pending) \in SUBSET (Repos \X GitJobs)
          /\ WithoutDeletes(pending) \in Seq(Changes)
      BY Before, DeletesFacts, WithoutDeletesFacts
    <3> DEFINE r == [t EXCEPT !.images = t.images \ {j}, !.pc = "teardown", !.dels = Deletes(pending),
                              !.apps = {<<q, j>>}]
    <3>5. r \in TaskRecords
      BY <1>1, <3>3, <3>4 DEF TaskRecords
    <3>6. GitMoves(Roller, r)
      BY <3>1 DEF GitMoves, GitInv, GitTypes
    <3>7. /\ r.pc = "teardown" /\ r.dels = Deletes(pending) /\ r.apps = {<<q, j>>} /\ r.images = t.images \ {j}
          /\ r.evs = t.evs /\ r.orphans = t.orphans
      BY <1>1 DEF TaskRecords
    <3> HIDE DEF r
    <3>8. Shape(r)
      BY <1>1, <3>7 DEF Shape
    <3>9. GitPlaces'
      BY <1>1, <2>2, <3>2, <3>5, <3>6, <3>7, <3>8, PlacesKept DEF GitInv, GitPlaces
    <3>10. task'[Roller].dels = Deletes(pending)
      BY <3>5, <3>6, <3>7, MoveTypes DEF GitInv
    <3>11. \A k : InEvents(pending, k) => Known(k)'
      BY <3>2, <3>10, Taken DEF RolloutImage
    <3> QED
      BY <1>2, <3>2, <3>4, <3>5, <3>6, <3>9, <3>11, MoveKeeps, Before DEF RolloutImage
  <2> QED
    BY <2>3, <2>4
<1> QED
  BY <1>4, <1>5

LEMMA SweepStopKeeps == ASSUME GitInv, NEW p \in {Reconciler, Roller}, SweepStop(p) PROVE GitInv'
<1> USE GitCast
<1> DEFINE t == task[p]
<1>1. /\ t \in TaskRecords /\ Shape(t) /\ t.pc = "sweep" /\ p \in GitProcs
      /\ strayed \subseteq GitJobs /\ commits \in Nat /\ registry \in [GitJobs -> Nat]
      /\ nomad \in [GitJobs -> RunRecords]
  BY Before DEF SweepStop, GitInv, GitTypes
<1>2. PICK j \in t.orphans :
        /\ task' = [task EXCEPT ![p].orphans = @ \ {j}]
        /\ IF DefinedIn(j) # {} THEN UNCHANGED <<nomad, gitBudget, strayed>>
           ELSE \/ nomad' = [nomad EXCEPT ![j] = NotRunning] /\ UNCHANGED <<gitBudget, strayed>>
                \/ GitFault /\ strayed' = strayed \cup {j} /\ UNCHANGED nomad
        /\ UNCHANGED <<gitWorld, disk, pending, wake, rollouts, rollWake, nomadMu, pushes>>
  BY DEF SweepStop
<1>3. j \in GitJobs
  BY <1>1 DEF TaskRecords
<1> DEFINE r == [t EXCEPT !.orphans = t.orphans \ {j}]
<1>4. r \in TaskRecords /\ GitMoves(p, r)
  BY <1>1, <1>2 DEF TaskRecords, GitMoves, GitInv, GitTypes
<1>5. /\ r.pc = t.pc /\ r.repo = t.repo /\ r.images = t.images /\ r.evs = t.evs /\ r.dels = t.dels
      /\ r.apps = t.apps
  BY <1>1 DEF TaskRecords
<1> HIDE DEF r
<1>6. Shape(r)
  BY <1>1, <1>5 DEF Shape
<1>7. GitPlaces'
  <2>1. nomadMu' = nomadMu
    BY <1>2
  <2>2. p = Reconciler \/ p = Roller
    OBVIOUS
  <2> QED
    BY <1>1, <1>4, <1>5, <1>6, <2>1, <2>2, PlacesKept DEF GitInv, GitPlaces
<1>8. nomad' = nomad \/ nomad' = [nomad EXCEPT ![j] = NotRunning]
  BY <1>2
<1>9. NotRunning.spec <= commits /\ NotRunning.img <= registry[j]
  BY <1>1, <1>3 DEF NotRunning
<1>10. /\ nomad' \in [GitJobs -> RunRecords] /\ Numbered'
       /\ \A k \in GitJobs \ {j} : nomad'[k] = nomad[k]
  BY <1>2, <1>3, <1>8, <1>9, RunTypes
<1>11. gitBudget' \in [commits : Nat, pushes : Nat, faults : Nat, files : SUBSET (Repos \X GitJobs)]
  BY <1>2, GitFaultTypes, Before
<1>12. strayed \subseteq strayed' /\ strayed' \subseteq GitJobs
  BY <1>1, <1>2, <1>3
<1>13. ASSUME NEW k \in GitJobs \ strayed'
       PROVE  Settled(k)' \/ (k \notin strayed /\ nomad'[k] = nomad[k])
  BY <1>12, <1>1, <1>2, <1>10 DEF Settled, DefinedIn
<1>14. \A k : InTask(t, k) => InTask(r, k)
  BY <1>5 DEF InTask
<1> QED
  BY <1>1, <1>2, <1>4, <1>5, <1>7, <1>10, <1>11, <1>12, <1>13, <1>14, RunKeeps

LEMMA ApplyJobKeeps == ASSUME GitInv, NEW p \in GitProcs, ApplyJob(p) PROVE GitInv'
<1> USE GitCast
<1> DEFINE t == task[p]
<1>1. /\ t \in TaskRecords /\ Shape(t) /\ t.pc = "apply" /\ t.dels = {}
      /\ strayed \subseteq GitJobs /\ commits \in Nat /\ registry \in [GitJobs -> Nat]
      /\ nomad \in [GitJobs -> RunRecords] /\ disk \in [Repos -> [GitJobs -> FileRecords]]
  BY Before DEF ApplyJob, GitInv, GitTypes, Shape
<1>2. UNCHANGED <<gitWorld, disk, pending, wake, rollouts, rollWake, nomadMu, pushes>>
  BY DEF ApplyJob
<1>3. PICK a \in NextToApply(p, t) :
        \/ /\ disk[a[1]][a[2]].spec > 0
           /\ nomad' = [nomad EXCEPT ![a[2]] = [spec |-> disk[a[1]][a[2]].spec, img |-> registry[a[2]]]]
           /\ strayed' = strayed \ {a[2]}
           /\ task' = [task EXCEPT ![p].apps = @ \ {a}]
           /\ UNCHANGED gitBudget
        \/ /\ IF disk[a[1]][a[2]].spec = 0 THEN UNCHANGED gitBudget ELSE GitFault
           /\ IF p \in PushHandlers /\ a[1] = ConfigRepo
              THEN /\ task' = [task EXCEPT ![p].apps = @ \ {a}]
                   /\ strayed' = strayed \cup {a[2]}
              ELSE /\ task' = [task EXCEPT ![p].apps = {}]
                   /\ strayed' = strayed \cup {b[2] : b \in t.apps}
           /\ UNCHANGED nomad
  BY DEF ApplyJob
<1>4. a \in t.apps
  BY DEF NextToApply
<1>5. PICK q \in Repos, j \in GitJobs : a = <<q, j>>
  BY <1>1, <1>4 DEF TaskRecords
<1>6. PICK left \in SUBSET t.apps :
         /\ task' = [task EXCEPT ![p].apps = left]
         /\ left = t.apps \ {a} \/ (left = {} /\ {b[2] : b \in t.apps} \subseteq strayed')
  BY <1>3
<1> DEFINE r == [t EXCEPT !.apps = left]
<1>7. r \in TaskRecords /\ GitMoves(p, r)
  BY <1>1, <1>6 DEF TaskRecords, GitMoves, GitInv, GitTypes
<1>8. /\ r.pc = t.pc /\ r.repo = t.repo /\ r.images = t.images /\ r.evs = t.evs /\ r.dels = t.dels
      /\ r.orphans = t.orphans /\ r.apps = left
  BY <1>1 DEF TaskRecords
<1> HIDE DEF r
<1>9. Shape(r)
  BY <1>1, <1>8 DEF Shape
<1>10. GitPlaces'
  BY <1>8, <1>1, <1>2, <1>7, <1>9, PlacesKept DEF GitInv, GitPlaces
<1> DEFINE v == [spec |-> disk[q][j].spec, img |-> registry[j]]
<1>11. v \in RunRecords /\ v.spec <= commits /\ v.img <= registry[j] /\ disk[q][j].spec \in Nat /\ registry[j] \in Nat
  BY <1>1 DEF RunRecords, FileRecords, GitInv, Numbered
<1>12. /\ nomad' \in [GitJobs -> RunRecords] /\ Numbered'
       /\ \A k \in GitJobs \ {j} : nomad'[k] = nomad[k]
  BY <1>3, <1>5, <1>2, <1>11, RunTypes
<1>13. gitBudget' \in [commits : Nat, pushes : Nat, faults : Nat, files : SUBSET (Repos \X GitJobs)]
  BY <1>3, GitFaultTypes, Before
<1>14. strayed' \subseteq GitJobs /\ strayed \ {j} \subseteq strayed'
  BY <1>1, <1>3, <1>5 DEF TaskRecords
<1>15. j \notin strayed' => Settled(j)'
  BY <1>1, <1>3, <1>4, <1>5, <1>2 DEF DefinedIn, Settled
<1>16. ASSUME NEW k \in GitJobs \ strayed', k # j, InTask(t, k) PROVE InTask(r, k)
  <2>1. PICK x \in Repos : <<x, k>> \in t.apps /\ disk[x][k].spec > 0
    BY <1>1, <1>16 DEF InTask
  <2>2. <<x, k>> \in left
    BY <1>5, <1>6, <1>16, <2>1
  <2> QED
    BY <1>8, <2>1, <2>2 DEF InTask
<1> QED
  BY <1>2, <1>7, <1>8, <1>10, <1>12, <1>13, <1>14, <1>15, <1>16, RunKeeps

\* A checkout moves: only the jobs whose file changed are affected.
LEMMA CheckedOut ==
    ASSUME GitInv, NEW r \in Repos, disk' = [disk EXCEPT ![r] = remote[r]]
    PROVE  /\ disk' \in [Repos -> [GitJobs -> FileRecords]]
           /\ Deleted(disk[r], remote[r]) \in SUBSET GitJobs /\ Applied(disk[r], remote[r]) \in SUBSET GitJobs
           /\ Building(disk[r], remote[r]) \in SUBSET GitJobs
           /\ \A j \in Applied(disk[r], remote[r]) : disk'[r][j].spec > 0
           /\ \A j \in GitJobs \ (Deleted(disk[r], remote[r]) \cup Applied(disk[r], remote[r])) :
                \A q \in Repos : disk'[q][j].spec = disk[q][j].spec
           /\ \A q \in Repos, j \in GitJobs : disk'[q][j].spec <= commits /\ disk'[q][j].src <= commits
<1>1. remote \in [Repos -> [GitJobs -> FileRecords]] /\ disk \in [Repos -> [GitJobs -> FileRecords]]
  BY DEF GitInv, GitTypes
<1>2. disk' \in [Repos -> [GitJobs -> FileRecords]] /\ \A q \in Repos : disk'[q] = IF q = r THEN remote[r] ELSE disk[q]
  BY <1>1
<1>3. \A j \in GitJobs : disk[r][j].spec \in Nat /\ remote[r][j].spec \in Nat
  BY <1>1 DEF FileRecords
<1>4. \A j \in Applied(disk[r], remote[r]) : disk'[r][j].spec > 0
  BY <1>2 DEF Applied
<1>5. \A j \in GitJobs \ (Deleted(disk[r], remote[r]) \cup Applied(disk[r], remote[r])) :
         remote[r][j].spec = disk[r][j].spec
  BY <1>3 DEF Deleted, Applied
<1>6. \A j \in GitJobs \ (Deleted(disk[r], remote[r]) \cup Applied(disk[r], remote[r])) :
         \A q \in Repos : disk'[q][j].spec = disk[q][j].spec
  BY <1>2, <1>5
<1>7. \A q \in Repos, j \in GitJobs : disk'[q][j].spec <= commits /\ disk'[q][j].src <= commits
  BY <1>2 DEF GitInv, Numbered
<1> QED
  BY <1>2, <1>4, <1>6, <1>7 DEF Deleted, Applied, Building

\* For a job whose file is what it was, nothing changes.
LEMMA SameFile ==
    ASSUME NEW j, \A q \in Repos : disk'[q][j].spec = disk[q][j].spec
    PROVE  /\ nomad' = nomad => (Settled(j) => Settled(j)')
           /\ \A t : InTask(t, j) => InTask(t, j)'
           /\ \A evs \in Seq(Changes) : InEvents(evs, j) => InEvents(evs, j)'
<1>1. DefinedIn(j)' = DefinedIn(j) /\ DefinedIn(j) \subseteq Repos
  BY DEF DefinedIn
<1>2. \A t : InTask(t, j)' <=> InTask(t, j)
  BY DEF InTask
<1>3. ASSUME NEW evs \in Seq(Changes), InEvents(evs, j) PROVE InEvents(evs, j)'
  <2>1. \A i \in DOMAIN evs : evs[i] \in Changes
    OBVIOUS
  <2>2. \A i \in DOMAIN evs : evs[i].repo \in Repos
    BY <2>1 DEF Changes
  <2> QED
    BY <1>3, <2>2 DEF InEvents
<1>4. nomad' = nomad => (Settled(j) => Settled(j)')
  BY <1>1 DEF Settled
<1> QED
  BY <1>2, <1>3, <1>4

LEMMA GitPushKeeps == ASSUME GitInv, NEW p \in PushHandlers, NEW q \in Repos, GitPush(p, q) PROVE GitInv'
<1> USE GitCast
<1> DEFINE t == task[p]
           dels == Deleted(disk[q], remote[q])
           apps == Applied(disk[q], remote[q])
<1>1. /\ t \in TaskRecords /\ Shape(t) /\ t.pc = "idle" /\ p \in GitProcs /\ strayed \subseteq GitJobs
      /\ pushes \in Nat /\ pending \in Seq(Changes) /\ task \in [GitProcs -> TaskRecords]
  BY Before DEF GitPush, GitInv, GitTypes
<1>2. \A j : ~ InTask(t, j) /\ ~ InEvents(t.evs, j)
  BY <1>1, NothingInHand DEF Shape
<1>3. /\ disk' = [disk EXCEPT ![q] = remote[q]] /\ pushes' = pushes + 1
      /\ UNCHANGED <<gitWorld, nomad, pending, wake, rollouts, rollWake, nomadMu>>
  BY DEF GitPush
<1>4. /\ disk' \in [Repos -> [GitJobs -> FileRecords]]
      /\ dels \in SUBSET GitJobs /\ apps \in SUBSET GitJobs /\ Building(disk[q], remote[q]) \in SUBSET GitJobs
      /\ \A j \in apps : disk'[q][j].spec > 0
      /\ \A j \in GitJobs \ (dels \cup apps) : \A x \in Repos : disk'[x][j].spec = disk[x][j].spec
      /\ \A x \in Repos, j \in GitJobs : disk'[x][j].spec <= commits /\ disk'[x][j].src <= commits
  BY <1>3, CheckedOut
<1> DEFINE r == [Resting EXCEPT !.pc = "decide", !.repo = q, !.dels = {<<q, j>> : j \in dels},
                                !.apps = {<<q, j>> : j \in apps}, !.build = Building(disk[q], remote[q])]
<1>5. \/ task' = [task EXCEPT ![p] = r] /\ UNCHANGED <<gitBudget, strayed>>
      \/ GitFault /\ strayed' = strayed \cup dels \cup apps /\ UNCHANGED task
  BY DEF GitPush
<1> HIDE DEF dels, apps
<1>6. r \in TaskRecords
  <2>1. {<<q, j>> : j \in dels} \in SUBSET (Repos \X GitJobs) /\ {<<q, j>> : j \in apps} \in SUBSET (Repos \X GitJobs)
    BY <1>4
  <2> QED
    BY <1>4, <2>1 DEF TaskRecords
<1>7. /\ r.pc = "decide" /\ r.repo = q /\ r.dels = {<<q, j>> : j \in dels} /\ r.apps = {<<q, j>> : j \in apps}
      /\ r.images = {} /\ r.evs = <<>> /\ r.orphans = {}
  BY DEF Resting
<1> HIDE DEF r
<1>8. gitBudget' \in [commits : Nat, pushes : Nat, faults : Nat, files : SUBSET (Repos \X GitJobs)]
  BY <1>5, GitFaultTypes, Before
<1>9. strayed \subseteq strayed' /\ strayed' \subseteq GitJobs
  BY <1>1, <1>4, <1>5
<1>10. task' \in [GitProcs -> TaskRecords] /\ \A x \in GitProcs \ {p} : task'[x] = task[x]
  BY <1>1, <1>5, <1>6
<1>11. GitTypes'
  BY <1>3, <1>4, <1>8, <1>9, <1>10 DEF GitInv, GitTypes, gitWorld
<1>12. Numbered'
  BY <1>3, <1>4 DEF GitInv, Numbered, gitWorld
<1>13. GitPlaces'
  <2>1. CASE task' = task
    BY <1>3, <2>1 DEF GitInv, GitPlaces, Shape
  <2>2. CASE task' = [task EXCEPT ![p] = r]
    BY <1>3, <2>2, <1>7, <1>1, <1>6, PlacesKept DEF GitMoves, Shape, GitInv, GitPlaces
  <2> QED
    BY <1>5, <2>1, <2>2
<1>14. ASSUME NEW j \in GitJobs \ strayed' PROVE Settled(j)' \/ Known(j)'
  <2>1. CASE j \in dels \cup apps
    <3>1. task'[p] = r
      BY <1>1, <1>5, <1>6, <2>1
    <3>2. /\ j \in dels => <<q, j>> \in task'[p].dels
          /\ j \in apps => <<q, j>> \in task'[p].apps /\ disk'[q][j].spec > 0
      BY <1>4, <1>7, <3>1
    <3>3. InTask(task[p], j)'
      BY <2>1, <3>2 DEF InTask
    <3> QED
      BY <1>1, <3>3 DEF Known
  <2>2. CASE j \notin dels \cup apps
    <3>1. \A x \in Repos : disk'[x][j].spec = disk[x][j].spec
      BY <1>4, <2>2
    <3>2. CASE Settled(j)
      BY <1>3, <3>1, <3>2, SameFile
    <3>3. CASE InEvents(pending, j)
      BY <1>1, <3>1, <3>3, SameFile, <1>3 DEF InEvents, Known
    <3>4. CASE \E x \in GitProcs : InTask(task[x], j) \/ InEvents(task[x].evs, j)
      <4>1. PICK x \in GitProcs : InTask(task[x], j) \/ InEvents(task[x].evs, j)
        BY <3>4
      <4>2. x # p
        BY <1>2, <4>1
      <4>3. PICK u : u = task[x]
        OBVIOUS
      <4>7. u.evs \in Seq(Changes)
        BY <1>1, <4>3 DEF TaskRecords
      <4>8. PICK e \in Seq(Changes) : e = u.evs
        BY <4>7
      <4>4. task'[x] = u
        BY <1>10, <4>2, <4>3
      <4>5. InTask(u, j)' \/ InEvents(e, j)'
        BY <3>1, <4>1, <4>3, <4>8, SameFile
      <4>6. InTask(task[x], j)' \/ InEvents(task[x].evs, j)'
        BY <4>4, <4>5, <4>8 DEF InTask, InEvents
      <4> QED
        BY <4>6 DEF Known
    <3> QED
      BY <1>9, <3>2, <3>3, <3>4 DEF GitInv, Cared, Known
  <2> QED
    BY <2>1, <2>2
<1> QED
  BY <1>11, <1>12, <1>13, <1>14 DEF GitInv, Cared

LEMMA SyncRepoKeeps == ASSUME GitInv, NEW q \in Repos, SyncRepo(q) PROVE GitInv'
<1> USE GitCast
<1> DEFINE dels == Deleted(disk[q], remote[q])
           apps == Applied(disk[q], remote[q])
<1>1. /\ pushes \in Nat /\ pending \in Seq(Changes) /\ task \in [GitProcs -> TaskRecords]
      /\ wake \subseteq {"signal", "timer"}
  BY DEF GitInv, GitTypes
<1>2. /\ disk' = [disk EXCEPT ![q] = remote[q]] /\ pushes' = pushes + 1
      /\ pending' = Record(pending, q, dels, apps) /\ wake' \subseteq {"signal", "timer"}
      /\ UNCHANGED <<gitWorld, nomad, rollouts, rollWake, task, nomadMu, gitBudget, strayed>>
  BY <1>1 DEF SyncRepo, SyncChanges
<1>4. /\ disk' \in [Repos -> [GitJobs -> FileRecords]]
      /\ dels \in SUBSET GitJobs /\ apps \in SUBSET GitJobs
      /\ \A j \in apps : disk'[q][j].spec > 0
      /\ \A j \in GitJobs \ (dels \cup apps) : \A x \in Repos : disk'[x][j].spec = disk[x][j].spec
      /\ \A x \in Repos, j \in GitJobs : disk'[x][j].spec <= commits /\ disk'[x][j].src <= commits
  BY <1>2, CheckedOut
<1> HIDE DEF dels, apps
<1>5. PICK d \in SUBSET GitJobs, a \in SUBSET GitJobs : d = dels /\ a = apps
  BY <1>4
<1>6. /\ pending' \in Seq(Changes)
      /\ \A i \in DOMAIN pending : i \in DOMAIN pending' /\ pending'[i] = pending[i]
      /\ d \cup a # {} => \E i \in DOMAIN pending' : pending'[i] = ChangeEvent(q, d, a)
  <2>1. pending' = Record(pending, q, d, a)
    BY <1>2, <1>5
  <2>2. PICK e \in Seq(Changes) : e = pending
    BY <1>1
  <2>3. /\ Record(e, q, d, a) \in Seq(Changes)
        /\ \A i \in DOMAIN e : i \in DOMAIN Record(e, q, d, a) /\ Record(e, q, d, a)[i] = e[i]
        /\ d \cup a # {} => \E i \in DOMAIN Record(e, q, d, a) : Record(e, q, d, a)[i] = ChangeEvent(q, d, a)
    BY RecordFacts, ZenonT(40)
  <2> QED
    BY <2>1, <2>2, <2>3
<1>11. GitTypes'
  BY <1>2, <1>4, <1>6 DEF GitInv, GitTypes, gitWorld
<1>12. Numbered'
  BY <1>2, <1>4 DEF GitInv, Numbered, gitWorld
<1>13. GitPlaces'
  BY <1>2 DEF GitInv, GitPlaces, Shape
<1>14. ASSUME NEW j \in GitJobs \ strayed' PROVE Settled(j)' \/ Known(j)'
  <2>1. CASE j \in dels \cup apps
    BY <1>5, <1>6, <2>1, <1>4 DEF ChangeEvent, InEvents, Known
  <2>2. CASE j \notin dels \cup apps
    <3>1. \A x \in Repos : disk'[x][j].spec = disk[x][j].spec
      BY <1>4, <2>2
    <3>2. CASE Settled(j)
      BY <1>2, <3>1, <3>2, SameFile
    <3>3. CASE InEvents(pending, j)
      BY <1>1, <3>1, <3>3, SameFile, <1>6 DEF InEvents, Known
    <3>4. CASE \E x \in GitProcs : InTask(task[x], j) \/ InEvents(task[x].evs, j)
      <4>1. PICK x \in GitProcs : InTask(task[x], j) \/ InEvents(task[x].evs, j)
        BY <3>4
      <4>3. PICK u : u = task[x]
        OBVIOUS
      <4>7. u.evs \in Seq(Changes)
        BY <1>1, <4>3 DEF TaskRecords
      <4>8. PICK e \in Seq(Changes) : e = u.evs
        BY <4>7
      <4>4. task'[x] = u
        BY <1>2, <4>3
      <4>5. InTask(u, j)' \/ InEvents(e, j)'
        BY <3>1, <4>1, <4>3, <4>8, SameFile
      <4>6. InTask(task[x], j)' \/ InEvents(task[x].evs, j)'
        BY <4>4, <4>5, <4>8 DEF InTask, InEvents
      <4> QED
        BY <4>6 DEF Known
    <3> QED
      BY <1>2, <3>2, <3>3, <3>4 DEF GitInv, Cared, Known
  <2> QED
    BY <2>1, <2>2
<1> QED
  BY <1>11, <1>12, <1>13, <1>14 DEF GitInv, Cared

LEMMA HangarRestartKeeps == ASSUME GitInv, HangarRestart PROVE GitInv'
<1> USE GitCast
<1> DEFINE lost == ChangedJobs(pending) \cup rollouts \cup UNION {InHand(task[p]) \cup task[p].orphans : p \in GitProcs}
<1>1. /\ GitFault /\ strayed' = strayed \cup lost
      /\ pending' = <<>> /\ wake' = {} /\ rollouts' = {} /\ rollWake' = {}
      /\ task' = [p \in GitProcs |-> Resting] /\ nomadMu' = Hangar
      /\ UNCHANGED <<gitWorld, disk, nomad, pushes>>
  BY DEF HangarRestart
<1>2. \A evs \in Seq(Changes) : ChangedJobs(evs) \subseteq GitJobs
  <2> SUFFICES ASSUME NEW evs \in Seq(Changes), NEW i \in DOMAIN evs PROVE evs[i].dels \cup evs[i].apps \subseteq GitJobs
    BY DEF ChangedJobs
  <2>1. evs[i] \in Changes
    OBVIOUS
  <2> QED
    BY <2>1 DEF Changes
<1>3. \A p \in GitProcs : InHand(task[p]) \cup task[p].orphans \subseteq GitJobs
  BY Before, <1>2 DEF TaskRecords, InHand
<1>4. lost \subseteq GitJobs
  BY <1>2, <1>3, Before
<1>5. gitBudget' \in [commits : Nat, pushes : Nat, faults : Nat, files : SUBSET (Repos \X GitJobs)]
  BY <1>1, GitFaultTypes
<1>6. GitTypes'
  BY <1>1, <1>4, Before, <1>5 DEF GitInv, GitTypes, gitWorld
<1>7. Numbered'
  BY <1>1 DEF GitInv, Numbered, gitWorld
<1>8. GitPlaces'
  BY <1>1 DEF Shape, Resting, GitPlaces
<1>9. ASSUME NEW j \in GitJobs \ strayed', Known(j) PROVE FALSE
  <2>1. ASSUME NEW evs \in Seq(Changes), InEvents(evs, j) PROVE j \in ChangedJobs(evs)
    BY <2>1 DEF InEvents, ChangedJobs
  <2>2. ~ InEvents(pending, j)
    BY <1>1, <1>9, <2>1, Before
  <2>3. ASSUME NEW p \in GitProcs, InTask(task[p], j) \/ InEvents(task[p].evs, j) PROVE j \in InHand(task[p])
    <3>1. CASE InTask(task[p], j)
      BY <3>1 DEF InTask, InHand
    <3>2. CASE InEvents(task[p].evs, j)
      BY Before, <2>1, <3>2 DEF TaskRecords, InHand
    <3> QED
      BY <2>3, <3>1, <3>2
  <2> QED
    BY <1>1, <1>9, <2>2, <2>3 DEF Known
<1>10. \A j \in GitJobs \ strayed' : Settled(j)'
  BY <1>1, <1>9, SettledKept DEF GitInv, Cared
<1> QED
  BY <1>6, <1>7, <1>8, <1>10 DEF GitInv, Cared

LEMMA GitKept == GitInv /\ [GitNext]_gitVars => GitInv'
<1> SUFFICES ASSUME GitInv, [GitNext]_gitVars PROVE GitInv'
  OBVIOUS
<1> USE GitCast
<1>1. CASE UNCHANGED gitVars
  BY <1>1, StillKeeps DEF gitVars, GitInv, GitTypes, Numbered
<1>2. ASSUME NEW r \in Repos, NEW j \in GitJobs, Commit(r, j) \/ BuildImage(r, j) PROVE GitInv'
  BY <1>2, CommitKeeps, BuildImageKeeps
<1>3. ASSUME NEW p \in PushHandlers, PushDone(p) \/ \E r \in Repos : GitPush(p, r) PROVE GitInv'
  BY <1>3, PushDoneKeeps, GitPushKeeps
<1>4. ASSUME NEW p \in GitProcs, Works(p) PROVE GitInv'
  BY <1>4, DecideKeeps, StopDeletedKeeps, ApplyFirstKeeps, ApplyJobKeeps DEF Works
<1>5. ASSUME NEW p \in {Reconciler, Roller}, SweepList(p) \/ SweepStop(p) PROVE GitInv'
  BY <1>5, SweepListKeeps, SweepStopKeeps
<1>6. CASE ArmReconciler \/ Reconcile \/ DrainPending \/ NextEvent \/ EventDone
  BY <1>6, ArmKeeps, ReconcileKeeps, DrainPendingKeeps, NextEventKeeps, EventDoneKeeps
<1>7. CASE ArmRollouts \/ TakeRollouts \/ RolloutImage \/ RollApply \/ RollDone
  BY <1>7, ArmKeeps, TakeRolloutsKeeps, RolloutImageKeeps, RollApplyKeeps, RollDoneKeeps
<1> QED
  BY <1>1, <1>2, <1>3, <1>4, <1>5, <1>6, <1>7, SyncRepoKeeps, ImageReadyKeeps, HangarRestartKeeps DEF GitNext

\* hangar starts its own job last: a push's files are of one repository, the roll-out of an
\* image has one file, and it is the last image when it is hangar's.
LEMMA OwnJobLast == GitInv /\ [GitNext]_gitVars => OwnJobComesLast \/ UNCHANGED gitVars
<1> SUFFICES ASSUME GitInv, GitNext, NEW p \in PushHandlers \cup {Roller},
                    nomad'[HangarJob] # nomad[HangarJob], nomad'[HangarJob] # NotRunning,
                    task[p].pc = "apply", task'[p] # task[p]
             PROVE  task'[p].apps = {} /\ task'[p].images = {}
  BY DEF OwnJobComesLast
<1> USE GitCast, GitAssumption
<1>1. \E q \in GitProcs : ApplyJob(q)
  <2>1. nomad \in [GitJobs -> RunRecords] /\ HangarJob \in GitJobs
    BY DEF GitInv, GitTypes
  <2>2. ASSUME NEW q \in {Reconciler, Roller}, SweepStop(q) PROVE FALSE
    BY <2>2, <2>1 DEF SweepStop
  <2>3. ASSUME NEW q \in GitProcs, StopDeleted(q) PROVE FALSE
    BY <2>3, <2>1 DEF StopDeleted, StopJob
  <2>4. \A r \in Repos, j \in GitJobs : ~ Commit(r, j) /\ ~ BuildImage(r, j)
    BY DEF Commit, BuildImage
  <2>5. \A q \in PushHandlers : ~ PushDone(q) /\ \A r \in Repos : ~ GitPush(q, r)
    BY DEF PushDone, GitPush
  <2>6. \A r \in Repos : ~ SyncRepo(r)
    BY DEF SyncRepo
  <2>7. \A q \in GitProcs : ~ Decide(q) /\ ~ ApplyFirst(q) /\ ~ SweepList(q)
    BY DEF Decide, ApplyFirst, SweepList
  <2>8. ~ (ArmReconciler \/ Reconcile \/ DrainPending \/ NextEvent \/ EventDone)
    BY DEF ArmReconciler, Reconcile, DrainPending, NextEvent, EventDone
  <2>9. ~ (ArmRollouts \/ TakeRollouts \/ RolloutImage \/ RollApply \/ RollDone \/ HangarRestart)
    BY DEF ArmRollouts, TakeRollouts, RolloutImage, RollApply, RollDone, HangarRestart
  <2>10. \A j \in GitJobs : ~ ImageReady(j)
    BY DEF ImageReady
  <2> QED
    BY <2>2, <2>3, <2>4, <2>5, <2>6, <2>7, <2>8, <2>9, <2>10 DEF GitNext, Works
<1>2. PICK q \in GitProcs : ApplyJob(q)
  BY <1>1
<1> DEFINE t == task[q]
<1>3. t \in TaskRecords /\ task \in [GitProcs -> TaskRecords] /\ nomad \in [GitJobs -> RunRecords] /\ p \in GitProcs
  BY DEF GitInv, GitTypes
<1>4. PICK a \in NextToApply(q, t) :
        /\ nomad' = [nomad EXCEPT ![a[2]] = [spec |-> disk[a[1]][a[2]].spec, img |-> registry[a[2]]]]
        /\ task' = [task EXCEPT ![q].apps = @ \ {a}]
  BY <1>2 DEF ApplyJob
<1>5. q = p
  BY <1>3, <1>4
<1>6. a \in t.apps /\ a[2] = HangarJob
  BY <1>3, <1>4 DEF NextToApply
<1>7. \A b \in t.apps : b[2] = HangarJob
  BY <1>4, <1>6 DEF NextToApply
<1>8. \A b \in t.apps : b = a
  <2>1. CASE p = Roller
    BY <1>5, <1>6, <2>1 DEF GitInv, GitPlaces
  <2>2. CASE p \in PushHandlers
    <3>1. \A b \in t.apps : b[1] = t.repo
      BY <1>5, <2>2 DEF GitInv, GitPlaces
    <3>2. \A b \in t.apps : b \in Repos \X GitJobs
      BY <1>3 DEF TaskRecords
    <3>3. \A b \in t.apps : b = <<t.repo, HangarJob>>
      BY <1>7, <3>1, <3>2
    <3> QED
      BY <1>6, <3>3
  <2> QED
    BY <2>1, <2>2
<1>9. task'[p].apps = t.apps \ {a} /\ task'[p].images = t.images
  BY <1>3, <1>4, <1>5 DEF TaskRecords
<1>10. t.images = {}
  BY <1>5, <1>6 DEF GitInv, GitPlaces
<1> QED
  BY <1>8, <1>9, <1>10

\* For any repositories, jobs, push handlers, commits and faults: hangar at rest runs what
\* is checked out, and a job without a file that still runs is known to somebody
\* (ExecuteGitPushEvent, ReconcilePendingNomad, ExecuteImageReadyEvent).
THEOREM GitIsSafe == GitSpec => []GitOpsIsSound
<1>1. GitInit => GitInv
  BY GitStarts
<1>2. GitInv /\ [GitNext]_gitVars => GitInv'
  BY GitKept
<1> QED
  BY <1>1, <1>2, GitEnough, PTL DEF GitSpec
--------------------
(* hangar's Nomad variables (NomadVars).  Revisions only grow on their way *)
(* to Nomad, and a variable that lags is yet to be put by a pass. *)

VarContents == [rev : Nat, good : BOOLEAN]
VarEntries == [hash : Nat, commit : Nat]
VarPlaces == {"idle", "sync", "hash", "put", "send", "remember"}
VarPasses == [pc : VarPlaces, at : Nat, gated : BOOLEAN,
              changed : SUBSET NomadVarNames, commit : Nat, hash : Nat, rev : Nat]
VarTypes ==
    /\ confRemote \in [NomadVarNames -> VarContents] /\ confDisk \in [NomadVarNames -> VarContents]
    /\ confHead \in Nat /\ nomadVar \in [NomadVarNames -> Nat]
    /\ pushedCache \in [NomadVarNames -> VarEntries]
    /\ caller \in [VarCallers -> VarPasses]
    /\ varBudget \in [commits : Nat, faults : Nat]
    /\ varDoubt \subseteq NomadVarNames

\* Revisions only grow on their way from GitHub to the checkout, Nomad and the cache.
Revisions ==
    \A v \in NomadVarNames :
      /\ confDisk[v].rev <= confHead
      /\ confRemote[v] # confDisk[v] => confRemote[v].rev = confHead + 1
      /\ nomadVar[v] <= confDisk[v].rev /\ pushedCache[v].hash <= confDisk[v].rev

\* Where a pass is, and what it read there.
InOrder ==
    \A p \in VarCallers :
      /\ caller[p].pc # "idle" => caller[p].at \in 1..Len(VarOrder) + 1
      /\ caller[p].pc \in {"put", "send", "remember"} =>
           caller[p].at <= Len(VarOrder) /\ caller[p].hash <= confDisk[Here(p)].rev
      /\ caller[p].pc = "send" => caller[p].rev <= confDisk[Here(p)].rev
      /\ caller[p].pc = "remember" =>
           (caller[p].hash = confDisk[Here(p)].rev /\ nomadVar[Here(p)] # confDisk[Here(p)].rev
              => Here(p) \in varDoubt)

\* A pass that is about to put v, or one whose pull changed v and that has yet to come to it.
ToPut(p, v) ==
    \/ caller[p].pc = "put" /\ v = Here(p)
    \/ caller[p].pc = "send" /\ v = Here(p) /\ caller[p].rev = confDisk[v].rev
    \/ /\ caller[p].pc \in VarPlaces \ {"idle"} /\ v \in caller[p].changed
       /\ \E i \in caller[p].at..Len(VarOrder) :
            v = VarOrder[i] /\ (caller[p].pc \in {"send", "remember"} => i > caller[p].at)

OnTheirWay ==
    \A v \in NomadVarNames \ varDoubt :
      nomadVar[v] = confDisk[v].rev \/ \E p \in VarCallers : ToPut(p, v)

VarInv == VarTypes /\ Revisions /\ InOrder /\ OnTheirWay /\ CacheIsTruthful

LEMMA VarBasics ==
    /\ Len(VarOrder) \in Nat /\ DOMAIN VarOrder = 1..Len(VarOrder)
    /\ \A i \in 1..Len(VarOrder) : VarOrder[i] \in NomadVarNames
  BY VarAssumption

LEMMA VarStarts == VarInit => VarInv
<1> SUFFICES ASSUME VarInit PROVE VarInv
  OBVIOUS
<1>1. VarTypes
  <2>1. AtRest \in VarPasses
    BY DEF AtRest, VarPasses, NoCommit, VarPlaces
  <2>2. NeverPushed \in VarEntries /\ Content(1, TRUE) \in VarContents
    BY DEF NeverPushed, VarEntries, NoCommit, Content, VarContents
  <2> QED
    BY <2>1, <2>2, VarAssumption DEF VarInit, VarTypes
<1>2. Revisions
  BY DEF VarInit, Revisions, NeverPushed, Content
<1>3. InOrder
  BY DEF VarInit, InOrder, AtRest
<1>4. CacheIsTruthful /\ OnTheirWay
  BY DEF VarInit, CacheIsTruthful, OnTheirWay
<1> QED
  BY <1>1, <1>2, <1>3, <1>4 DEF VarInv

LEMMA VarEnough == VarInv => VarsAreSound
<1> SUFFICES ASSUME VarInv PROVE VarsAreSound
  OBVIOUS
<1>1. VarTypeOK
  BY DEF VarInv, VarTypes, VarContents, Revisions, InOrder, VarTypeOK
<1>2. ConfigsArePut
  BY DEF VarInv, OnTheirWay, ToPut, ConfigsArePut
<1> QED
  BY <1>1, <1>2 DEF VarsAreSound, VarInv

\* The facts about one variable and one pass that the steps use.
LEMMA VarFacts ==
    ASSUME VarInv
    PROVE  /\ confHead \in Nat /\ varDoubt \subseteq NomadVarNames
           /\ \A v \in NomadVarNames :
                /\ confRemote[v] \in VarContents /\ confDisk[v] \in VarContents
                /\ confDisk[v].rev \in Nat /\ confRemote[v].rev \in Nat /\ nomadVar[v] \in Nat
                /\ confDisk[v].good \in BOOLEAN
                /\ pushedCache[v] \in VarEntries /\ pushedCache[v].hash \in Nat
           /\ \A p \in VarCallers :
                /\ caller[p] \in VarPasses /\ caller[p].at \in Nat /\ caller[p].hash \in Nat
                /\ caller[p].commit \in Nat /\ caller[p].rev \in Nat /\ caller[p].pc \in VarPlaces
                /\ caller[p].changed \subseteq NomadVarNames
  BY DEF VarInv, VarTypes, VarContents, VarEntries, VarPasses

LEMMA AtRestFacts ==
    /\ AtRest \in VarPasses /\ AtRest.pc = "idle"
  BY DEF AtRest, VarPasses, NoCommit, VarPlaces

\* Only p moves: it is where r says, the others are where they were.
Steps(p, r) == caller' = [caller EXCEPT ![p] = r]

LEMMA StepFacts ==
    ASSUME VarInv, NEW p \in VarCallers, NEW r \in VarPasses, Steps(p, r)
    PROVE  /\ caller' \in [VarCallers -> VarPasses] /\ caller'[p] = r
           /\ \A q \in VarCallers \ {p} : caller'[q] = caller[q]
  BY DEF VarInv, VarTypes, Steps

\* A step of p that leaves the files alone.
LEMMA PassKeeps ==
    ASSUME VarInv, NEW p \in VarCallers, NEW r \in VarPasses, Steps(p, r),
           UNCHANGED <<confRemote, confDisk, confHead>>,
           nomadVar' \in [NomadVarNames -> Nat], pushedCache' \in [NomadVarNames -> VarEntries],
           varBudget' \in [commits : Nat, faults : Nat], varDoubt' \subseteq NomadVarNames,
           \A v \in NomadVarNames :
              /\ nomadVar'[v] = nomadVar[v] \/ nomadVar'[v] = confDisk[v].rev
                   \/ (v \in varDoubt' /\ nomadVar'[v] <= confDisk[v].rev)
              /\ v \in varDoubt \ varDoubt' => nomadVar'[v] = confDisk[v].rev
              /\ pushedCache'[v].hash <= confDisk[v].rev,
           r.pc # "idle" => r.at \in 1..Len(VarOrder) + 1,
           r.pc \in {"put", "send", "remember"} => r.at <= Len(VarOrder) /\ r.hash <= confDisk[VarOrder[r.at]].rev,
           r.pc = "send" => r.rev <= confDisk[VarOrder[r.at]].rev,
           r.pc = "remember" =>
             (r.hash = confDisk[VarOrder[r.at]].rev /\ nomadVar'[VarOrder[r.at]] # confDisk[VarOrder[r.at]].rev
                => VarOrder[r.at] \in varDoubt'),
           CacheIsTruthful',
           \A v \in NomadVarNames \ varDoubt' :
              \/ nomadVar'[v] = confDisk[v].rev
              \/ v \notin varDoubt /\ nomadVar'[v] = nomadVar[v] /\ (ToPut(p, v) => ToPut(p, v)')
    PROVE  VarInv'
<1>1. /\ caller' \in [VarCallers -> VarPasses] /\ caller'[p] = r
      /\ \A q \in VarCallers \ {p} : caller'[q] = caller[q]
  BY StepFacts
<1>2. VarTypes'
  BY <1>1 DEF VarInv, VarTypes
<1>3. Revisions'
  BY VarFacts DEF Revisions, VarInv
<1>4. InOrder'
  <2> SUFFICES ASSUME NEW q \in VarCallers
               PROVE  /\ caller'[q].pc # "idle" => caller'[q].at \in 1..Len(VarOrder) + 1
                      /\ caller'[q].pc \in {"put", "send", "remember"} =>
                            caller'[q].at <= Len(VarOrder) /\ caller'[q].hash <= confDisk[VarOrder[caller'[q].at]].rev
                      /\ caller'[q].pc = "send" => caller'[q].rev <= confDisk[VarOrder[caller'[q].at]].rev
                      /\ caller'[q].pc = "remember" =>
                           (caller'[q].hash = confDisk[VarOrder[caller'[q].at]].rev
                            /\ nomadVar'[VarOrder[caller'[q].at]] # confDisk[VarOrder[caller'[q].at]].rev
                              => VarOrder[caller'[q].at] \in varDoubt')
    BY DEF InOrder, Here
  <2>1. CASE q = p
    BY <1>1, <2>1
  <2>2. CASE q # p
    <3>1. caller'[q] = caller[q]
      BY <1>1, <2>2
    <3>2. CASE caller[q].pc = "remember"
      <4>1. PICK v \in NomadVarNames : v = VarOrder[caller[q].at]
        BY <3>2, VarFacts, VarBasics DEF VarInv, InOrder
      <4>2. caller[q].hash = confDisk[v].rev /\ nomadVar'[v] # confDisk[v].rev => v \in varDoubt'
        BY <3>2, <4>1 DEF VarInv, InOrder, Here
      <4> QED
        BY <3>1, <3>2, <4>1, <4>2 DEF VarInv, InOrder, Here
    <3> QED
      BY <3>1, <3>2 DEF VarInv, InOrder, Here
  <2> QED
    BY <2>1, <2>2
<1>5. OnTheirWay'
  <2> SUFFICES ASSUME NEW v \in NomadVarNames \ varDoubt', nomadVar'[v] # confDisk[v].rev
               PROVE  \E q \in VarCallers : ToPut(q, v)'
    BY DEF OnTheirWay
  <2>1. PICK q \in VarCallers : ToPut(q, v)
    BY DEF VarInv, OnTheirWay
  <2>2. CASE q = p
    BY <2>1, <2>2
  <2>3. CASE q # p
    BY <1>1, <2>3, <2>1 DEF ToPut, Here
  <2> QED
    BY <2>2, <2>3
<1> QED
  BY <1>2, <1>3, <1>4, <1>5 DEF VarInv

\* Two ways to move on: to the next variable, or to the end.
LEMMA NextOne ==
    ASSUME VarInv, NEW p \in VarCallers, caller[p].at <= Len(VarOrder), caller[p].pc # "idle"
    PROVE  \E r \in VarPasses :
             /\ VarStep(p) = [caller EXCEPT ![p] = r]
             /\ r.pc = "hash" /\ r.at = caller[p].at + 1 /\ r.gated = caller[p].gated
             /\ r.changed = caller[p].changed
             /\ r.at \in 1..Len(VarOrder) + 1
<1> DEFINE t == caller[p]
           r == [t EXCEPT !.pc = "hash", !.at = t.at + 1]
<1>1. t \in VarPasses /\ t.at \in Nat /\ t.at + 1 \in Nat
  BY VarFacts
<1>2. r \in VarPasses /\ r.pc = "hash" /\ r.at = t.at + 1 /\ r.gated = t.gated /\ r.changed = t.changed
  BY <1>1 DEF VarPasses, VarPlaces
<1>3. VarStep(p) = [caller EXCEPT ![p] = r]
  BY DEF VarStep, VarInv, VarTypes
<1>4. r.at \in 1..Len(VarOrder) + 1
  BY <1>1, <1>2, VarBasics
<1> HIDE DEF r
<1> QED
  BY <1>2, <1>3, <1>4

\* What p has still to put when it moves on from the variable it is at.
LEMMA StillToPut ==
    ASSUME VarInv, NEW p \in VarCallers, caller[p].at <= Len(VarOrder), caller[p].pc # "idle",
           NEW r \in VarPasses, caller' = [caller EXCEPT ![p] = r],
           r.pc = "hash", r.at = caller[p].at + 1, r.gated = caller[p].gated, r.changed = caller[p].changed,
           NEW v \in NomadVarNames, ToPut(p, v), v # Here(p) \/ caller[p].pc = "remember"
    PROVE  ToPut(p, v)'
BY StepFacts, VarFacts, VarBasics DEF Steps, ToPut, Here, VarPlaces

\* Where p is, there is a variable.
LEMMA HereFacts ==
    ASSUME VarInv, NEW p \in VarCallers, caller[p].pc # "idle", caller[p].at <= Len(VarOrder)
    PROVE  Here(p) \in NomadVarNames /\ caller[p].at \in 1..Len(VarOrder)
BY VarFacts, VarBasics DEF VarInv, InOrder, Here

LEMMA PassDoneKeeps == ASSUME VarInv, NEW p \in VarCallers, PassDone(p) PROVE VarInv'
<1>1. Steps(p, AtRest) /\ UNCHANGED <<confRemote, confDisk, confHead, nomadVar, pushedCache, varBudget, varDoubt>>
  BY DEF PassDone, Steps
<1>2. \A v : ~ ToPut(p, v)
  BY VarFacts, VarBasics DEF PassDone, ToPut
<1>3. CacheIsTruthful'
  BY <1>1 DEF VarInv, CacheIsTruthful
<1> QED
  BY <1>1, <1>2, <1>3, AtRestFacts, PassKeeps DEF VarInv, VarTypes, Revisions

LEMMA SyncOthersKeeps == ASSUME VarInv, NEW p \in VarCallers, SyncOthers(p) PROVE VarInv'
<1> DEFINE t == caller[p]
<1>1. /\ t.pc = "sync" /\ t \in VarPasses /\ t.at \in 1..Len(VarOrder) + 1
      /\ UNCHANGED <<confRemote, confDisk, confHead, nomadVar, pushedCache>>
  BY VarFacts DEF SyncOthers, VarInv, InOrder
<1>2. varDoubt \subseteq varDoubt' /\ varDoubt' \subseteq NomadVarNames
      /\ varBudget' \in [commits : Nat, faults : Nat]
  BY VarFacts DEF SyncOthers, VarFault, VarInv, VarTypes
<1>3. CacheIsTruthful'
  BY <1>1, <1>2 DEF VarInv, CacheIsTruthful
<1>4. /\ nomadVar' \in [NomadVarNames -> Nat] /\ pushedCache' \in [NomadVarNames -> VarEntries]
      /\ \A v \in NomadVarNames : pushedCache'[v].hash <= confDisk[v].rev
  BY <1>1 DEF VarInv, VarTypes, Revisions
<1>5. CASE caller' = [caller EXCEPT ![p].pc = "hash"] /\ UNCHANGED varDoubt
  <2>1. PICK r : r = [t EXCEPT !.pc = "hash"]
    OBVIOUS
  <2>2. r \in VarPasses /\ r.pc = "hash" /\ r.at = t.at /\ r.changed = t.changed
    BY <1>1, <2>1 DEF VarPasses, VarPlaces
  <2>3. Steps(p, r)
    BY <1>5, <2>1 DEF Steps, VarInv, VarTypes
  <2>4. caller'[p] = r
    BY <2>2, <2>3, StepFacts
  <2>5. \A v \in NomadVarNames : ToPut(p, v) => ToPut(p, v)'
    BY <1>1, <2>2, <2>4 DEF ToPut, VarPlaces
  <2> QED
    BY <1>1, <1>2, <1>3, <1>4, <1>5, <2>2, <2>3, <2>5, PassKeeps, VarFacts DEF VarInv, OnTheirWay
<1>6. CASE caller' = [caller EXCEPT ![p] = AtRest] /\ varDoubt' = varDoubt \cup t.changed
  <2>1. \A v \in NomadVarNames : ToPut(p, v) => v \in varDoubt'
    BY <1>1, <1>6 DEF ToPut
  <2> QED
    BY <1>1, <1>2, <1>3, <1>4, <1>6, <2>1, AtRestFacts, PassKeeps, VarFacts DEF Steps
<1> QED
  BY <1>5, <1>6 DEF SyncOthers

LEMMA ReadForPutKeeps == ASSUME VarInv, NEW p \in VarCallers, ReadForPut(p) PROVE VarInv'
<1> DEFINE t == caller[p]
<1>1. /\ t.pc = "put" /\ t \in VarPasses /\ t.at <= Len(VarOrder) /\ t.at \in 1..Len(VarOrder) + 1
      /\ t.hash <= confDisk[Here(p)].rev
      /\ UNCHANGED <<confRemote, confDisk, confHead, nomadVar, pushedCache, varBudget, varDoubt>>
  BY VarFacts DEF ReadForPut, VarInv, InOrder
<1>2. PICK v \in NomadVarNames : v = Here(p) /\ v = VarOrder[t.at]
  BY <1>1, HereFacts DEF Here
<1>3. PICK r : r = [t EXCEPT !.pc = "send", !.rev = confDisk[v].rev]
  OBVIOUS
<1>4. /\ r \in VarPasses /\ r.pc = "send" /\ r.at = t.at /\ r.changed = t.changed /\ r.hash = t.hash
      /\ r.rev = confDisk[v].rev
  BY <1>1, <1>2, <1>3, VarFacts DEF VarPasses, VarPlaces
<1>5. Steps(p, r)
  BY <1>2, <1>3 DEF ReadForPut, Steps, VarInv, VarTypes
<1>6. caller'[p] = r
  BY <1>4, <1>5, StepFacts
<1>7. ASSUME NEW x \in NomadVarNames, ToPut(p, x) PROVE ToPut(p, x)'
  <2>1. CASE x = v
    BY <1>1, <1>2, <1>4, <1>6, <2>1 DEF ToPut, Here
  <2>2. CASE x # v
    BY <1>1, <1>2, <1>4, <1>6, <1>7, <2>2, VarBasics DEF ToPut, Here, VarPlaces
  <2> QED
    BY <2>1, <2>2
<1>8. CacheIsTruthful'
  BY <1>1 DEF VarInv, CacheIsTruthful
<1>9. /\ nomadVar' \in [NomadVarNames -> Nat] /\ pushedCache' \in [NomadVarNames -> VarEntries]
      /\ varDoubt' \subseteq NomadVarNames /\ varBudget' \in [commits : Nat, faults : Nat]
      /\ \A x \in NomadVarNames : pushedCache'[x].hash <= confDisk[x].rev
  BY <1>1 DEF VarInv, VarTypes, Revisions
<1>10. r.rev <= confDisk[VarOrder[r.at]].rev /\ r.hash <= confDisk[VarOrder[r.at]].rev
  BY <1>1, <1>2, <1>4, VarFacts
<1> QED
  BY <1>1, <1>4, <1>5, <1>7, <1>8, <1>9, <1>10, PassKeeps

LEMMA RememberVarKeeps == ASSUME VarInv, NEW p \in VarCallers, RememberVar(p) PROVE VarInv'
<1> DEFINE e == [hash |-> caller[p].hash, commit |-> caller[p].commit]
<1>1. caller[p].pc = "remember" /\ caller[p].at <= Len(VarOrder) /\ caller[p].hash <= confDisk[Here(p)].rev
      /\ (caller[p].hash = confDisk[Here(p)].rev /\ nomadVar[Here(p)] # confDisk[Here(p)].rev => Here(p) \in varDoubt)
  BY DEF RememberVar, VarInv, InOrder
<1>2. Here(p) \in NomadVarNames
  BY <1>1, HereFacts
<1>3. e \in VarEntries /\ e.hash = caller[p].hash
  BY VarFacts DEF VarEntries
<1>4. PICK r \in VarPasses :
             /\ VarStep(p) = [caller EXCEPT ![p] = r]
             /\ r.pc = "hash" /\ r.at = caller[p].at + 1 /\ r.gated = caller[p].gated
             /\ r.changed = caller[p].changed
             /\ r.at \in 1..Len(VarOrder) + 1
  BY <1>1, NextOne
<1>5. /\ caller' = [caller EXCEPT ![p] = r] /\ pushedCache' = [pushedCache EXCEPT ![Here(p)] = e]
      /\ UNCHANGED <<confRemote, confDisk, confHead, nomadVar, varBudget, varDoubt>>
  BY <1>4 DEF RememberVar
<1> HIDE DEF e
<1>6. /\ pushedCache' \in [NomadVarNames -> VarEntries] /\ pushedCache'[Here(p)] = e
      /\ \A v \in NomadVarNames \ {Here(p)} : pushedCache'[v] = pushedCache[v]
  BY <1>2, <1>3, <1>5 DEF VarInv, VarTypes
<1>7. \A v \in NomadVarNames : pushedCache'[v].hash <= confDisk[v].rev
  BY <1>1, <1>3, <1>6 DEF VarInv, Revisions
<1>8. CacheIsTruthful'
  BY <1>5, <1>1, <1>2, <1>3, <1>6, VarFacts DEF CacheIsTruthful, VarInv, Revisions
<1>9. \A v \in NomadVarNames : ToPut(p, v) => ToPut(p, v)'
  BY <1>1, <1>4, <1>5, StillToPut
<1> QED
  BY <1>4, <1>5, <1>6, <1>7, <1>8, <1>9, PassKeeps DEF Steps, VarInv, VarTypes

LEMMA PutVarKeeps == ASSUME VarInv, NEW p \in VarCallers, PutVar(p) PROVE VarInv'
<1> DEFINE t == caller[p]
<1>1. /\ t.pc = "send" /\ t.at <= Len(VarOrder) /\ t.hash <= confDisk[Here(p)].rev
      /\ t.rev <= confDisk[Here(p)].rev /\ UNCHANGED <<confRemote, confDisk, confHead, pushedCache>>
  BY DEF PutVar, VarInv, InOrder
<1>2. PICK v \in NomadVarNames : v = Here(p) /\ v = VarOrder[t.at] /\ t.at \in 1..Len(VarOrder)
  BY <1>1, HereFacts DEF Here
<1>3. /\ nomadVar' \in [NomadVarNames -> Nat] /\ (nomadVar'[v] = t.rev \/ nomadVar'[v] = nomadVar[v])
      /\ \A x \in NomadVarNames \ {v} : nomadVar'[x] = nomadVar[x]
      /\ varDoubt' \subseteq NomadVarNames /\ varBudget' \in [commits : Nat, faults : Nat]
  <2>1. nomadVar \in [NomadVarNames -> Nat] /\ varDoubt \subseteq NomadVarNames
        /\ varBudget \in [commits : Nat, faults : Nat] /\ t.rev \in Nat
    BY VarFacts DEF VarInv, VarTypes
  <2>2. nomadVar' = nomadVar \/ nomadVar' = [nomadVar EXCEPT ![v] = t.rev]
    BY <1>2 DEF PutVar
  <2>3. varDoubt' \subseteq varDoubt \cup StillAhead(p) \cup {v}
    BY <1>2 DEF PutVar
  <2>4. StillAhead(p) \subseteq NomadVarNames
    BY <1>2, VarBasics, VarFacts DEF StillAhead
  <2>5. varBudget' \in [commits : Nat, faults : Nat]
    BY <2>1 DEF PutVar, VarFault
  <2> HIDE DEF t
  <2> QED
    BY <2>1, <2>2, <2>3, <2>4, <2>5
<1>4. /\ \A x \in NomadVarNames \ {v} : x \in varDoubt => x \in varDoubt'
      /\ v \in varDoubt' \/ nomadVar'[v] = confDisk[v].rev
  <2>1. CASE /\ nomadVar' = [nomadVar EXCEPT ![v] = t.rev]
             /\ varDoubt' = IF t.rev = confDisk[v].rev THEN varDoubt \ {v} ELSE varDoubt \cup {v}
    BY <2>1 DEF VarInv, VarTypes
  <2>2. CASE varDoubt' = varDoubt \cup (StillAhead(p) \cap (t.changed \cup {v}))
    <3>1. v \in StillAhead(p)
      BY <1>1, <1>2, VarFacts, VarBasics DEF StillAhead
    <3> QED
      BY <2>2, <3>1
  <2> QED
    BY <1>2, <2>1, <2>2 DEF PutVar
<1>5. \A x \in NomadVarNames : /\ pushedCache'[x].hash <= confDisk[x].rev
                               /\ nomadVar'[x] = nomadVar[x] \/ nomadVar'[x] = confDisk[x].rev
                                    \/ (x \in varDoubt' /\ nomadVar'[x] <= confDisk[x].rev)
                               /\ x \in varDoubt \ varDoubt' => nomadVar'[x] = confDisk[x].rev
  BY <1>1, <1>2, <1>3, <1>4 DEF VarInv, Revisions
<1>6. CacheIsTruthful'
  BY <1>1, <1>2, <1>3, <1>4 DEF VarInv, CacheIsTruthful
<1>7. pushedCache' \in [NomadVarNames -> VarEntries]
  BY <1>1 DEF VarInv, VarTypes
<1>8. CASE caller' = [caller EXCEPT ![p].pc = "remember"]
  <2>1. PICK r : r = [t EXCEPT !.pc = "remember"]
    OBVIOUS
  <2>2. r \in VarPasses /\ r.pc = "remember" /\ r.at = t.at /\ r.changed = t.changed /\ r.hash = t.hash
    BY <2>1, VarFacts DEF VarPasses, VarPlaces
  <2>3. Steps(p, r)
    BY <1>8, <2>1 DEF Steps, VarInv, VarTypes
  <2>4. caller'[p] = r
    BY <2>2, <2>3, StepFacts
  <2>5. ASSUME NEW x \in NomadVarNames, x # v, ToPut(p, x) PROVE ToPut(p, x)'
    BY <1>1, <1>2, <2>2, <2>4, <2>5 DEF ToPut, Here, VarPlaces
  <2>6. r.hash <= confDisk[VarOrder[r.at]].rev /\ r.at \in 1..Len(VarOrder) + 1 /\ r.at <= Len(VarOrder)
        /\ (r.hash = confDisk[VarOrder[r.at]].rev /\ nomadVar'[VarOrder[r.at]] # confDisk[VarOrder[r.at]].rev
              => VarOrder[r.at] \in varDoubt')
    BY <1>1, <1>2, <1>4, <2>2, VarBasics
  <2>7. \A x \in NomadVarNames \ varDoubt' :
              \/ nomadVar'[x] = confDisk[x].rev
              \/ x \notin varDoubt /\ nomadVar'[x] = nomadVar[x] /\ (ToPut(p, x) => ToPut(p, x)')
    BY <1>3, <1>4, <2>5
  <2> QED
    BY <1>1, <1>3, <1>5, <1>6, <1>7, <2>2, <2>3, <2>6, <2>7, PassKeeps
<1>9. CASE /\ varDoubt' = varDoubt \cup (StillAhead(p) \cap (t.changed \cup {v}))
           /\ caller' = [caller EXCEPT ![p] = AtRest]
  <2>1. ASSUME NEW x \in NomadVarNames, ToPut(p, x) PROVE x \in varDoubt'
    BY <1>1, <1>2, <2>1, VarBasics, <1>9 DEF ToPut, Here, StillAhead
  <2>2. \A x \in NomadVarNames \ varDoubt' : x # v
    BY <1>2, <1>9, VarFacts, VarBasics DEF StillAhead
  <2>3. \A x \in NomadVarNames \ varDoubt' :
              \/ nomadVar'[x] = confDisk[x].rev
              \/ x \notin varDoubt /\ nomadVar'[x] = nomadVar[x] /\ (ToPut(p, x) => ToPut(p, x)')
    BY <1>3, <1>9, <2>1, <2>2
  <2> QED
    BY <1>1, <1>3, <1>5, <1>6, <1>7, <1>9, <2>3, AtRestFacts, PassKeeps DEF Steps
<1> QED
  BY <1>2, <1>8, <1>9 DEF PutVar

LEMMA HashFileKeeps == ASSUME VarInv, NEW p \in VarCallers, HashFile(p) PROVE VarInv'
<1> DEFINE t == caller[p]
           v == Here(p)
<1>1. /\ t.pc = "hash" /\ t.at <= Len(VarOrder)
      /\ UNCHANGED <<confRemote, confDisk, confHead, nomadVar, varBudget>>
  BY DEF HashFile
<1>2. v \in NomadVarNames /\ t.at \in 1..Len(VarOrder)
  BY <1>1, HereFacts
<1>3. /\ nomadVar' \in [NomadVarNames -> Nat] /\ varBudget' \in [commits : Nat, faults : Nat]
      /\ \A w \in NomadVarNames : nomadVar'[w] = nomadVar[w]
  BY <1>1 DEF VarInv, VarTypes
<1>4. \A w \in NomadVarNames : pushedCache[w].hash <= confDisk[w].rev
  BY DEF VarInv, Revisions
<1>5. CASE ~confDisk[v].good
  <2>1. /\ caller' = [caller EXCEPT ![p] = AtRest] /\ UNCHANGED pushedCache
        /\ varDoubt' = varDoubt \cup (StillAhead(p) \cap (t.changed \cup (IF t.gated THEN {} ELSE NomadVarNames)))
    BY <1>5 DEF HashFile
  <2>2. varDoubt \subseteq varDoubt' /\ varDoubt' \subseteq NomadVarNames
    BY <2>1, VarFacts
  <2>3. CacheIsTruthful'
    BY <1>1, <2>1, <2>2 DEF VarInv, CacheIsTruthful
  <2>4. ASSUME NEW w \in NomadVarNames, ToPut(p, w) PROVE w \in varDoubt'
    BY <1>1, <2>4, <2>1 DEF ToPut, StillAhead
  <2>5. pushedCache' \in [NomadVarNames -> VarEntries]
    BY <2>1 DEF VarInv, VarTypes
  <2> QED
    BY <1>1, <1>3, <1>4, <2>1, <2>2, <2>3, <2>4, <2>5, AtRestFacts, PassKeeps DEF Steps
<1>6. CASE confDisk[v].good /\ ~ChangedByPush(t, v)
  <2> DEFINE e == [hash |-> confDisk[v].rev, commit |-> NoCommit]
  <2>1. /\ pushedCache' = [pushedCache EXCEPT ![v] = e]
        /\ varDoubt' = IF nomadVar[v] = confDisk[v].rev THEN varDoubt ELSE varDoubt \cup {v}
        /\ caller' = VarStep(p)
    BY <1>6 DEF HashFile
  <2>2. PICK r \in VarPasses :
             /\ VarStep(p) = [caller EXCEPT ![p] = r]
             /\ r.pc = "hash" /\ r.at = caller[p].at + 1 /\ r.gated = caller[p].gated
             /\ r.changed = caller[p].changed
             /\ r.at \in 1..Len(VarOrder) + 1
    BY <1>1, NextOne
  <2>3. e \in VarEntries /\ e.hash = confDisk[v].rev
    BY <1>2, VarFacts DEF VarEntries, NoCommit
  <2> HIDE DEF e
  <2>4. /\ pushedCache' \in [NomadVarNames -> VarEntries] /\ pushedCache'[v] = e
        /\ \A w \in NomadVarNames \ {v} : pushedCache'[w] = pushedCache[w]
    BY <1>2, <2>1, <2>3 DEF VarInv, VarTypes
  <2>5. \A w \in NomadVarNames : pushedCache'[w].hash <= confDisk[w].rev
    BY <1>2, <1>4, <2>3, <2>4, VarFacts
  <2>6. varDoubt \subseteq varDoubt' /\ varDoubt' \subseteq NomadVarNames
    BY <1>2, <2>1, VarFacts
  <2>7. CacheIsTruthful'
    BY <1>1, <2>1, <2>4, <2>6 DEF VarInv, CacheIsTruthful
  <2>8. ASSUME NEW w \in NomadVarNames, ToPut(p, w) PROVE ToPut(p, w)'
    BY <1>1, <1>6, <2>8, <2>1, <2>2, StillToPut DEF ToPut, ChangedByPush
  <2> QED
    BY <1>1, <1>3, <2>1, <2>2, <2>4, <2>5, <2>6, <2>7, <2>8, PassKeeps DEF Steps
<1>7. CASE confDisk[v].good /\ ChangedByPush(t, v)
  <2>1. /\ caller' = IF CacheHit(v, confDisk[v].rev, t.commit) THEN VarStep(p)
                     ELSE [caller EXCEPT ![p].pc = "put", ![p].hash = confDisk[v].rev]
        /\ UNCHANGED <<pushedCache, varDoubt>>
    BY <1>7 DEF HashFile
  <2>2. /\ pushedCache' \in [NomadVarNames -> VarEntries] /\ varDoubt' \subseteq NomadVarNames
        /\ \A w \in NomadVarNames : pushedCache'[w].hash <= confDisk[w].rev
    BY <1>4, <2>1 DEF VarInv, VarTypes
  <2>3. CacheIsTruthful'
    BY <1>1, <2>1 DEF VarInv, CacheIsTruthful
  <2>4. CASE CacheHit(v, confDisk[v].rev, t.commit)
    <3>1. PICK r \in VarPasses :
               /\ VarStep(p) = [caller EXCEPT ![p] = r]
               /\ r.pc = "hash" /\ r.at = caller[p].at + 1 /\ r.gated = caller[p].gated
               /\ r.changed = caller[p].changed
               /\ r.at \in 1..Len(VarOrder) + 1
      BY <1>1, NextOne
    <3>2. nomadVar[v] = confDisk[v].rev \/ v \in varDoubt
      BY <1>2, <2>4 DEF CacheHit, VarInv, CacheIsTruthful
    <3>3. ASSUME NEW w \in NomadVarNames, ToPut(p, w), w # v PROVE ToPut(p, w)'
      BY <1>1, <2>1, <2>4, <3>1, <3>3, StillToPut
    <3>4. \A w \in NomadVarNames \ varDoubt' :
             \/ nomadVar'[w] = confDisk[w].rev
             \/ w \notin varDoubt /\ nomadVar'[w] = nomadVar[w] /\ (ToPut(p, w) => ToPut(p, w)')
      BY <1>3, <2>1, <3>2, <3>3
    <3>5. caller' = [caller EXCEPT ![p] = r]
      BY <2>1, <2>4, <3>1
    <3> QED
      BY <1>1, <1>3, <2>2, <2>3, <3>1, <3>4, <3>5, PassKeeps DEF Steps
  <2>5. CASE ~ CacheHit(v, confDisk[v].rev, t.commit)
    <3> DEFINE r == [t EXCEPT !.pc = "put", !.hash = confDisk[v].rev]
    <3>1. /\ r \in VarPasses /\ r.pc = "put" /\ r.at = t.at /\ r.gated = t.gated /\ r.changed = t.changed
          /\ r.hash = confDisk[v].rev
      BY <1>2, VarFacts DEF VarPasses, VarPlaces
    <3>2. Steps(p, r)
      BY <2>1, <2>5 DEF Steps, VarInv, VarTypes
    <3> HIDE DEF r
    <3>3. caller'[p] = r
      BY <3>1, <3>2, StepFacts
    <3>4. ASSUME NEW w \in NomadVarNames, ToPut(p, w) PROVE ToPut(p, w)'
      BY <1>1, <3>1, <3>3, <3>4 DEF ToPut, VarPlaces
    <3>5. r.hash <= confDisk[VarOrder[r.at]].rev /\ r.at \in 1..Len(VarOrder) + 1 /\ r.at <= Len(VarOrder)
      BY <1>2, <3>1, VarFacts, VarBasics DEF Here
    <3> QED
      BY <1>1, <1>3, <2>1, <2>2, <2>3, <3>1, <3>2, <3>4, <3>5, PassKeeps
  <2> QED
    BY <2>4, <2>5
<1> QED
  BY <1>5, <1>6, <1>7

LEMMA ConfigCommitKeeps == ASSUME VarInv, NEW vs \in SUBSET NomadVarNames, ConfigCommit(vs) PROVE VarInv'
<1>1. /\ confRemote = confDisk \/ \A v \in vs : confRemote[v] = confDisk[v]
      /\ UNCHANGED <<confDisk, confHead, nomadVar, pushedCache, caller, varBudget, varDoubt>>
  BY DEF ConfigCommit
<1>2. PICK good \in BOOLEAN :
         confRemote' = [v \in NomadVarNames |-> IF v \in vs THEN Content(confHead + 1, good) ELSE confRemote[v]]
  BY DEF ConfigCommit
<1>3. Content(confHead + 1, good) \in VarContents /\ Content(confHead + 1, good).rev = confHead + 1
  BY VarFacts DEF Content, VarContents
<1>4. confRemote' \in [NomadVarNames -> VarContents]
  BY <1>2, <1>3, VarFacts
<1>5. VarTypes'
  BY <1>1, <1>4 DEF VarInv, VarTypes
<1>6. Revisions'
  BY <1>1, <1>2, <1>3 DEF VarInv, Revisions
<1>7. InOrder'
  BY <1>1 DEF VarInv, InOrder, Here
<1>8. OnTheirWay' /\ CacheIsTruthful'
  BY <1>1 DEF VarInv, OnTheirWay, ToPut, Here, CacheIsTruthful
<1> QED
  BY <1>5, <1>6, <1>7, <1>8 DEF VarInv

\* A pull, by a pass that carries what it changed or leaves it in doubt.
LEMMA FetchKeeps ==
    ASSUME VarInv, NEW p \in VarCallers, NEW r \in VarPasses, Steps(p, r), caller[p].pc = "idle", Fetch,
           r.pc \in {"idle", "sync", "hash"}, r.pc # "idle" => r.at = 1 /\ r.changed = Fetched,
           varDoubt \subseteq varDoubt', varDoubt' \subseteq NomadVarNames,
           r.pc = "idle" => Fetched \subseteq varDoubt',
           varBudget' \in [commits : Nat, faults : Nat], UNCHANGED <<confRemote, nomadVar, pushedCache>>
    PROVE  VarInv'
<1>1. /\ caller' \in [VarCallers -> VarPasses] /\ caller'[p] = r
      /\ \A q \in VarCallers \ {p} : caller'[q] = caller[q]
  BY StepFacts
<1>2. confDisk' = confRemote /\ confHead' \in Nat /\ confHead' >= confHead /\ (Fetched # {} => confHead' = confHead + 1)
  BY VarFacts DEF Fetch, FetchedHead
<1>3. /\ Fetched \subseteq NomadVarNames
      /\ \A v \in Fetched : v \in NomadVarNames /\ confRemote[v].rev = confHead + 1
      /\ \A v \in NomadVarNames \ Fetched : confRemote[v] = confDisk[v]
  BY DEF VarInv, Revisions, Fetched
<1>4. VarTypes'
  BY <1>1, <1>2 DEF VarInv, VarTypes
<1>5. \A v \in NomadVarNames :
         /\ confDisk'[v].rev \in Nat /\ confDisk'[v].rev >= confDisk[v].rev
         /\ v \in Fetched => confDisk'[v].rev > confDisk[v].rev
         /\ v \notin Fetched => confDisk'[v] = confDisk[v]
         /\ confDisk'[v].rev <= confHead'
  BY VarFacts, <1>2, <1>3 DEF VarInv, Revisions
<1>6. Revisions'
  BY VarFacts, <1>2, <1>5 DEF Revisions, VarInv
<1>7. InOrder'
  <2> SUFFICES ASSUME NEW q \in VarCallers
               PROVE  /\ caller'[q].pc # "idle" => caller'[q].at \in 1..Len(VarOrder) + 1
                      /\ caller'[q].pc \in {"put", "send", "remember"} =>
                            caller'[q].at <= Len(VarOrder) /\ caller'[q].hash <= confDisk'[VarOrder[caller'[q].at]].rev
                      /\ caller'[q].pc = "send" => caller'[q].rev <= confDisk'[VarOrder[caller'[q].at]].rev
                      /\ caller'[q].pc = "remember" =>
                           (caller'[q].hash = confDisk'[VarOrder[caller'[q].at]].rev
                            /\ nomadVar'[VarOrder[caller'[q].at]] # confDisk'[VarOrder[caller'[q].at]].rev
                              => VarOrder[caller'[q].at] \in varDoubt')
    BY DEF InOrder, Here
  <2>1. CASE q = p
    BY <1>1, <2>1, VarBasics
  <2>2. CASE q # p
    <3>1. caller'[q] = caller[q]
      BY <1>1, <2>2
    <3>2. CASE caller[q].pc \in {"put", "send", "remember"}
      <4>1. PICK v \in NomadVarNames : v = VarOrder[caller[q].at]
        BY <3>2, VarFacts, VarBasics DEF VarInv, InOrder
      <4>2. /\ caller[q].hash <= confDisk[v].rev /\ caller[q].hash \in Nat /\ caller[q].rev \in Nat
            /\ confDisk[v].rev \in Nat /\ confDisk'[v].rev \in Nat /\ confDisk'[v].rev >= confDisk[v].rev
            /\ caller[q].at <= Len(VarOrder) /\ caller[q].at \in 1..Len(VarOrder) + 1
            /\ caller[q].pc = "send" => caller[q].rev <= confDisk[v].rev
        BY <1>5, <3>2, <4>1, VarFacts DEF VarInv, InOrder, Here
      <4>3. /\ caller[q].hash <= confDisk'[v].rev
            /\ caller[q].pc = "send" => caller[q].rev <= confDisk'[v].rev
        BY <4>2
      <4>4. ASSUME caller[q].pc = "remember", caller[q].hash = confDisk'[v].rev, nomadVar'[v] # confDisk'[v].rev
            PROVE  v \in varDoubt'
        <5>1. confDisk'[v] = confDisk[v]
          BY <1>5, <4>2, <4>4
        <5> QED
          BY <4>1, <4>4, <5>1 DEF VarInv, InOrder, Here
      <4> QED
        BY <3>1, <3>2, <4>1, <4>2, <4>3, <4>4
    <3> QED
      BY <3>1, <3>2 DEF VarInv, InOrder, Here
  <2> QED
    BY <2>1, <2>2
<1>8. CacheIsTruthful'
  BY <1>5, VarFacts DEF CacheIsTruthful, VarInv, Revisions
<1>9. OnTheirWay'
  <2> SUFFICES ASSUME NEW v \in NomadVarNames \ varDoubt', nomadVar[v] # confDisk'[v].rev
               PROVE  \E q \in VarCallers : ToPut(q, v)'
    BY DEF OnTheirWay
  <2>1. CASE v \in Fetched
    BY VarBasics, <1>1, <2>1 DEF NomadVarNames, ToPut, VarPlaces
  <2>2. CASE v \notin Fetched
    <3>1. confDisk'[v] = confDisk[v]
      BY <1>5, <2>2
    <3>2. PICK q \in VarCallers : ToPut(q, v)
      BY <3>1 DEF VarInv, OnTheirWay
    <3>3. caller'[q] = caller[q]
      BY <1>1, <3>2 DEF ToPut
    <3> QED
      BY <3>1, <3>2, <3>3 DEF ToPut, Here
  <2> QED
    BY <2>1, <2>2
<1> QED
  BY <1>4, <1>6, <1>7, <1>8, <1>9 DEF VarInv

LEMMA FullSyncKeeps == ASSUME VarInv, NEW p \in VarCallers, FullSync(p) PROVE VarInv'
<1>1. PICK r : r = [AtRest EXCEPT !.pc = "sync", !.at = 1, !.changed = Fetched]
  OBVIOUS
<1>2. r \in VarPasses /\ r.pc = "sync" /\ r.at = 1 /\ r.changed = Fetched
  BY <1>1 DEF AtRest, VarPasses, NoCommit, VarPlaces, Fetched
<1>3. Steps(p, r)
  BY <1>1 DEF FullSync, Steps
<1> QED
  BY <1>2, <1>3, FetchKeeps, VarFacts DEF FullSync, VarInv, VarTypes

LEMMA ConfigPushKeeps == ASSUME VarInv, NEW p \in VarCallers, ConfigPush(p) PROVE VarInv'
<1>1. Fetched \in SUBSET NomadVarNames /\ FetchedHead \in Nat
  BY VarFacts DEF Fetched, FetchedHead
<1>2. CASE /\ caller' = [caller EXCEPT ![p] = [AtRest EXCEPT !.pc = "hash", !.at = 1, !.gated = TRUE,
                                               !.changed = Fetched, !.commit = FetchedHead]]
           /\ varDoubt' = varDoubt \cup {v \in Fetched : ~confRemote[v].good} /\ UNCHANGED varBudget
  <2>1. PICK r : r = [AtRest EXCEPT !.pc = "hash", !.at = 1, !.gated = TRUE, !.changed = Fetched, !.commit = FetchedHead]
    OBVIOUS
  <2>2. r \in VarPasses /\ r.pc = "hash" /\ r.at = 1 /\ r.changed = Fetched
    BY <1>1, <2>1 DEF AtRest, VarPasses, NoCommit, VarPlaces
  <2>3. Steps(p, r)
    BY <1>2, <2>1 DEF Steps
  <2>4. varDoubt \subseteq varDoubt' /\ varDoubt' \subseteq NomadVarNames /\ varBudget' \in [commits : Nat, faults : Nat]
    BY <1>1, <1>2 DEF VarInv, VarTypes
  <2> QED
    BY <2>2, <2>3, <2>4, FetchKeeps DEF ConfigPush
<1>3. CASE VarFault /\ varDoubt' = varDoubt \cup Fetched /\ UNCHANGED caller
  <2>1. PICK r \in VarPasses : r = caller[p]
    BY VarFacts
  <2>2. Steps(p, r)
    BY <1>3, <2>1 DEF Steps, VarInv, VarTypes
  <2>3. varDoubt \subseteq varDoubt' /\ varDoubt' \subseteq NomadVarNames /\ varBudget' \in [commits : Nat, faults : Nat]
    BY <1>1, <1>3 DEF VarInv, VarTypes, VarFault
  <2> QED
    BY <1>3, <2>1, <2>2, <2>3, FetchKeeps DEF ConfigPush
<1> QED
  BY <1>2, <1>3 DEF ConfigPush

LEMMA VarKept == VarInv /\ [VarNext]_varVars => VarInv'
<1> SUFFICES ASSUME VarInv, [VarNext]_varVars PROVE VarInv'
  OBVIOUS
<1>1. CASE UNCHANGED varVars
  BY <1>1 DEF varVars, VarInv, VarTypes, Revisions, InOrder, Here, OnTheirWay, ToPut, CacheIsTruthful
<1>2. ASSUME NEW p \in VarCallers,
             \/ ConfigPush(p) \/ FullSync(p) \/ SyncOthers(p) \/ HashFile(p) \/ PassDone(p)
             \/ ReadForPut(p) \/ PutVar(p) \/ RememberVar(p)
      PROVE  VarInv'
  BY <1>2, ConfigPushKeeps, FullSyncKeeps, SyncOthersKeeps, HashFileKeeps, PassDoneKeeps, ReadForPutKeeps,
     PutVarKeeps, RememberVarKeeps
<1> QED
  BY <1>1, <1>2, ConfigCommitKeeps DEF VarNext

\* For any variables, order and overlapping passes: a configuration that was checked out
\* is put or on its way, and the cache of hashes hides no difference, but for the doubts
\* recorded (SyncServiceConfigsToNomad, pushNomadConfigVar).
THEOREM VarsAreSafe == VarSpec => []VarsAreSound
<1>1. VarInit => VarInv
  BY VarStarts
<1>2. VarInv /\ [VarNext]_varVars => VarInv'
  BY VarKept
<1> QED
  BY <1>1, <1>2, VarEnough, PTL DEF VarSpec
====================
