----------- MODULE GitOps -----------
(* hangar: the repositories it checks out and the Nomad jobs they define. *)
(* Push webhooks, the start-up sync, the debounced reconciler and the *)
(* debounced image roll-outs work side by side on the checked-out files, *)
(* the queue of pending changes and Nomad.  A job is a specification in a *)
(* repository (its revision, 0 when there is no file) and the sources of *)
(* its image, which CI builds some time after they were pushed. *)
EXTENDS Naturals, Sequences, FiniteSets

CONSTANTS Repos, GitJobs,
          HomeOf,         \* [GitJobs -> Repos], where the jobs are at first
          HangarJob,      \* hangar's own job
          ConfigRepo,     \* a failing job does not stop the others of its push
          PushHandlers,   \* webhooks handled at the same time
          GitBudgets      \* bounds: commits, pushes and syncs, faults, and the files
                          \* (repository and job) that commits touch

ASSUME GitAssumption ==
  /\ HomeOf \in [GitJobs -> Repos] /\ HangarJob \in GitJobs /\ ConfigRepo \in Repos
  /\ PushHandlers \cap {"reconciler", "roller", "hangar"} = {}
  /\ GitBudgets \subseteq [commits : Nat, pushes : Nat, faults : Nat, files : SUBSET (Repos \X GitJobs)]

VARIABLES
    remote,     \* [repository -> [job -> revision of spec and sources]] at GitHub
    disk,       \* the same, checked out
    registry,   \* [job -> the sources its newest image was built from]
    nomad,      \* [job -> spec and image that run]
    pending,    \* pendingNomadChanges
    wake,       \* the reconciler's channel and timer
    rollouts, rollWake,   \* pendingImageRollouts, its channel and timer
    imageEvents,          \* images built whose event has not arrived
    task,       \* what each process is doing
    nomadMu,
    commits, pushes, gitBudget,
    strayed     \* ghost: jobs a fault, a crash or a late stop took off course

gitVars == <<remote, disk, registry, nomad, pending, wake, rollouts, rollWake, imageEvents,
             task, nomadMu, commits, pushes, gitBudget, strayed>>
gitWorld == <<remote, registry, imageEvents, commits>>

Reconciler == "reconciler"
Roller == "roller"
GitProcs == PushHandlers \cup {Reconciler, Roller}
Hangar == "hangar"      \* holder of nomadMu when nobody has it

NoFile == [spec |-> 0, src |-> 0]
NotRunning == [spec |-> 0, img |-> 0]
Resting == [pc |-> "idle", repo |-> ConfigRepo, dels |-> {}, apps |-> {}, build |-> {},
            orphans |-> {}, images |-> {}, evs |-> <<>>]

DefinedIn(j) == {r \in Repos : disk[r][j].spec > 0}

\* ParseNomadGitStatus and AffectedWorkflowImages of a range of commits.
Deleted(old, new) == {j \in GitJobs : old[j].spec > 0 /\ new[j].spec = 0}
Applied(old, new) == {j \in GitJobs : new[j].spec > 0 /\ new[j].spec # old[j].spec}
Building(old, new) == {j \in GitJobs : new[j].src # old[j].src}

ChangeEvent(r, dels, apps) == [repo |-> r, dels |-> dels, apps |-> apps]
Record(q, r, dels, apps) ==
    IF dels \cup apps = {} THEN q ELSE Append(q, ChangeEvent(r, dels, apps))
ChangedJobs(evs) == UNION {evs[i].dels \cup evs[i].apps : i \in DOMAIN evs}
InHand(t) == {d[2] : d \in t.dels} \cup {a[2] : a \in t.apps} \cup t.images \cup ChangedJobs(t.evs)

GitTypeOK ==
    /\ \A r \in Repos : \A j \in GitJobs : disk[r][j].spec <= commits /\ disk[r][j].src <= commits
    /\ \A j \in GitJobs : nomad[j].spec <= commits /\ nomad[j].img <= registry[j]
    /\ wake \subseteq {"signal", "timer"} /\ rollWake \subseteq {"signal", "timer"}
    /\ rollouts \subseteq GitJobs /\ imageEvents \subseteq GitJobs
    /\ nomadMu \in {Hangar, Reconciler, Roller}
    /\ nomadMu # Hangar => task[nomadMu].pc # "idle"
    /\ \A p \in PushHandlers : task[p].orphans = {} /\ task[p].evs = <<>>

GitInit ==
    /\ remote = [r \in Repos |-> [j \in GitJobs |-> IF HomeOf[j] = r THEN [spec |-> 1, src |-> 1] ELSE NoFile]]
    /\ disk = remote
    /\ registry = [j \in GitJobs |-> 1]
    /\ nomad = [j \in GitJobs |-> [spec |-> 1, img |-> 1]]
    /\ pending = <<>> /\ wake = {} /\ rollouts = {} /\ rollWake = {} /\ imageEvents = {}
    /\ task = [p \in GitProcs |-> Resting]
    /\ nomadMu = Hangar
    /\ commits = 1 /\ pushes = 0 /\ gitBudget \in GitBudgets /\ strayed = {}

GitFault == gitBudget.faults > 0 /\ gitBudget' = [gitBudget EXCEPT !.faults = @ - 1]
--------------------
(* GitHub and its CI *)

\* A commit changes the specification of a job, its sources or both, or deletes it.
Commit(r, j) ==
    /\ commits <= gitBudget.commits /\ <<r, j>> \in gitBudget.files
    /\ commits' = commits + 1
    /\ \E f \in {[spec |-> commits + 1, src |-> remote[r][j].src],
                 [spec |-> commits + 1, src |-> commits + 1],
                 [spec |-> 0, src |-> remote[r][j].src]} :
           /\ f.spec = 0 => remote[r][j].spec > 0
           /\ remote' = [remote EXCEPT ![r][j] = f]
    /\ UNCHANGED <<disk, registry, nomad, pending, wake, rollouts, rollWake, imageEvents, task,
                   nomadMu, pushes, gitBudget, strayed>>

BuildImage(r, j) ==
    /\ remote[r][j].src > registry[j]
    /\ registry' = [registry EXCEPT ![j] = remote[r][j].src]
    /\ imageEvents' = imageEvents \cup {j}
    /\ UNCHANGED <<remote, disk, nomad, pending, wake, rollouts, rollWake, task, nomadMu, commits,
                   pushes, gitBudget, strayed>>
--------------------
(* Steps that every process shares *)

\* shouldDeferNomadJob asks the registry for the image; a push also waits for the
\* images it makes CI build.  A file that has gone since is skipped.
Classify(r, apps, build) ==
    LET present == {j \in apps : disk[r][j].spec > 0}
        late == {j \in present : j \in build \/ (disk[r][j].src > 0 /\ registry[j] = 0)}
    IN  [ready |-> present \ late, deferred |-> late]

DropDeferredDeletes(p) ==
    LET t == task[p]
        c == Classify(t.repo, {a[2] : a \in t.apps}, t.build)
    IN  /\ t.pc = "decide"
        /\ task' = [task EXCEPT ![p].pc = "stop", ![p].apps = {<<t.repo, j>> : j \in c.ready},
                                ![p].dels = IF c.deferred = {} THEN @ ELSE {}]
        /\ UNCHANGED <<gitWorld, disk, nomad, pending, wake, rollouts, rollWake, nomadMu, pushes,
                       gitBudget, strayed>>

\* applyNomadChangesDirectly, until the first command: the deletions wait in the
\* queue when a roll-out of the same push is deferred.
Decide(p) ==
    LET t == task[p]
        c == Classify(t.repo, {a[2] : a \in t.apps}, t.build)
        gone == {d[2] : d \in t.dels}
    IN  /\ t.pc = "decide"
        /\ task' = [task EXCEPT ![p].pc = "stop", ![p].apps = {<<t.repo, j>> : j \in c.ready},
                                ![p].dels = IF c.deferred = {} THEN @ ELSE {}]
        /\ pending' = IF c.deferred = {} THEN pending ELSE Record(pending, t.repo, gone, {})
        /\ strayed' = strayed \cup c.deferred
        /\ UNCHANGED <<gitWorld, disk, nomad, wake, rollouts, rollWake, nomadMu, pushes, gitBudget>>

\* stopDeletedNomadJob: a job that another repository defines stays as it is; the
\* repository the file was deleted from is not asked again.
StopJob(p, r, j) ==
    /\ IF DefinedIn(j) \ {r} # {}
       THEN /\ strayed' = IF \E q \in DefinedIn(j) : nomad[j].spec = disk[q][j].spec
                          THEN strayed ELSE strayed \cup {j}
            /\ UNCHANGED <<nomad, gitBudget>>
       ELSE \/ /\ nomad' = [nomad EXCEPT ![j] = NotRunning]
               /\ strayed' = IF DefinedIn(j) # {} THEN strayed \cup {j} ELSE strayed
               /\ UNCHANGED gitBudget
            \/ /\ GitFault                          \* only logged
               /\ strayed' = strayed \cup {j}
               /\ UNCHANGED nomad
    /\ UNCHANGED <<gitWorld, disk, pending, wake, rollouts, rollWake, nomadMu, pushes>>

StopDeleted(p) ==
    /\ task[p].pc \in {"stop", "teardown"}
    /\ \E d \in task[p].dels :
           /\ task' = [task EXCEPT ![p].dels = @ \ {d}]
           /\ StopJob(p, d[1], d[2])

ApplyAnyOrder(p, t) == t.apps

\* SortNomadChangesHangarLast: hangar's own job comes last.
NextToApply(p, t) ==
    LET others == {a \in t.apps : a[2] # HangarJob}
    IN  IF others # {} THEN others ELSE t.apps

\* runNomadJobWithEvents: the file is read again, and the newest image is used.
\* When validation or the run fails, only the config repository goes on.
ApplyJob(p) ==
    LET t == task[p]
    IN  /\ t.pc = "apply"
        /\ \E a \in NextToApply(p, t) :
            LET r == a[1]
                j == a[2]
            IN  \/ /\ disk[r][j].spec > 0
                   /\ nomad' = [nomad EXCEPT ![j] = [spec |-> disk[r][j].spec, img |-> registry[j]]]
                   /\ strayed' = strayed \ {j}
                   /\ task' = [task EXCEPT ![p].apps = @ \ {a}]
                   /\ UNCHANGED gitBudget
                \/ /\ IF disk[r][j].spec = 0 THEN UNCHANGED gitBudget ELSE GitFault
                   /\ IF p \in PushHandlers /\ r = ConfigRepo
                      THEN /\ task' = [task EXCEPT ![p].apps = @ \ {a}]
                           /\ strayed' = strayed \cup {j}
                      ELSE /\ task' = [task EXCEPT ![p].apps = {}]
                           /\ strayed' = strayed \cup {b[2] : b \in t.apps}
                   /\ UNCHANGED nomad
        /\ UNCHANGED <<gitWorld, disk, pending, wake, rollouts, rollWake, nomadMu, pushes>>

ApplyFirst(p) ==
    /\ task[p].pc = "stop" /\ task[p].dels = {}
    /\ task' = [task EXCEPT ![p].pc = "apply"]
    /\ UNCHANGED <<gitWorld, disk, nomad, pending, wake, rollouts, rollWake, nomadMu, pushes,
                   gitBudget, strayed>>

\* SweepOrphanedNomadJobs: active jobs no repository defines, unless a pending
\* change names them; nothing is swept when no job is defined at all.
SweepList(p) ==
    LET defined == {j \in GitJobs : DefinedIn(j) # {}}
    IN  /\ task[p].pc = "teardown" /\ task[p].dels = {}
        /\ task' = [task EXCEPT ![p].pc = "sweep",
                       ![p].orphans = IF defined = {} THEN {}
                                      ELSE {j \in GitJobs : nomad[j] # NotRunning}
                                           \ (defined \cup ChangedJobs(pending))]
        /\ UNCHANGED <<gitWorld, disk, nomad, pending, wake, rollouts, rollWake, nomadMu, pushes,
                       gitBudget, strayed>>

\* The definitions are looked up once more before an orphan is stopped.
SweepStop(p) ==
    /\ task[p].pc = "sweep"
    /\ \E j \in task[p].orphans :
        /\ task' = [task EXCEPT ![p].orphans = @ \ {j}]
        /\ IF DefinedIn(j) # {} THEN UNCHANGED <<nomad, gitBudget, strayed>>
           ELSE \/ nomad' = [nomad EXCEPT ![j] = NotRunning] /\ UNCHANGED <<gitBudget, strayed>>
                \/ GitFault /\ strayed' = strayed \cup {j} /\ UNCHANGED nomad
        /\ UNCHANGED <<gitWorld, disk, pending, wake, rollouts, rollWake, nomadMu, pushes>>
--------------------
(* Push webhooks and the sync of all repositories *)

\* ExecuteGitPushEvent: SyncRepo moves the checkout first; the changes found are
\* in the handler's hands only, and lost when the difference cannot be read.
GitPush(p, r) ==
    /\ task[p].pc = "idle" /\ pushes < gitBudget.pushes
    /\ pushes' = pushes + 1
    /\ disk' = [disk EXCEPT ![r] = remote[r]]
    /\ LET dels == Deleted(disk[r], remote[r])
           apps == Applied(disk[r], remote[r])
       IN  /\ dels \cup apps # {}
           /\ \/ /\ task' = [task EXCEPT ![p] = [Resting EXCEPT !.pc = "decide", !.repo = r,
                                !.dels = {<<r, j>> : j \in dels}, !.apps = {<<r, j>> : j \in apps},
                                !.build = Building(disk[r], remote[r])]]
                 /\ UNCHANGED <<gitBudget, strayed>>
              \/ /\ GitFault
                 /\ strayed' = strayed \cup dels \cup apps
                 /\ UNCHANGED task
    /\ UNCHANGED <<gitWorld, nomad, pending, wake, rollouts, rollWake, nomadMu>>

PushDone(p) ==
    /\ task[p].pc = "apply" /\ task[p].apps = {}
    /\ task' = [task EXCEPT ![p] = Resting]
    /\ UNCHANGED <<gitWorld, disk, nomad, pending, wake, rollouts, rollWake, nomadMu, pushes,
                   gitBudget, strayed>>

SyncSilently(r) ==
    /\ disk[r] # remote[r] /\ pushes < gitBudget.pushes
    /\ pushes' = pushes + 1
    /\ disk' = [disk EXCEPT ![r] = remote[r]]
    /\ UNCHANGED <<gitWorld, nomad, pending, wake, rollouts, rollWake, task, nomadMu, gitBudget,
                   strayed>>

\* enqueuePostSyncReconciliation
SyncChanges(r) ==
    LET dels == Deleted(disk[r], remote[r])
        apps == Applied(disk[r], remote[r])
    IN  /\ pending' = Record(pending, r, dels, apps)
        /\ wake' = IF dels \cup apps = {} THEN wake ELSE wake \cup {"signal"}

\* TriggerSync: what changed is queued and the reconciler is signalled.
SyncRepo(r) ==
    /\ disk[r] # remote[r] /\ pushes < gitBudget.pushes
    /\ pushes' = pushes + 1
    /\ disk' = [disk EXCEPT ![r] = remote[r]]
    /\ SyncChanges(r)
    /\ UNCHANGED <<gitWorld, nomad, rollouts, rollWake, task, nomadMu, gitBudget, strayed>>
--------------------
(* The reconciler *)

ArmReconciler ==
    /\ task[Reconciler].pc = "idle" /\ "signal" \in wake
    /\ wake' = {"timer"}
    /\ UNCHANGED <<gitWorld, disk, nomad, pending, rollouts, rollWake, task, nomadMu, pushes,
                   gitBudget, strayed>>

\* drainPendingNomadDeletes: what is left keeps its place.
Deletes(evs) == UNION {{<<evs[i].repo, j>> : j \in evs[i].dels} : i \in DOMAIN evs}
DropDeletesOf(evs) == <<>>
WithoutDeletes(evs) ==
    LET kept == {i \in DOMAIN evs : evs[i].apps # {}}
        rank(i) == Cardinality({k \in kept : k <= i})
        place(n) == CHOOSE i \in kept : rank(i) = n
    IN  [n \in 1..Cardinality(kept) |-> ChangeEvent(evs[place(n)].repo, {}, evs[place(n)].apps)]

Reconcile ==
    /\ task[Reconciler].pc = "idle" /\ "timer" \in wake
    /\ wake' = wake \ {"timer"}
    /\ task' = [task EXCEPT ![Reconciler].pc = "teardown", ![Reconciler].dels = Deletes(pending)]
    /\ pending' = WithoutDeletes(pending)
    /\ UNCHANGED <<gitWorld, disk, nomad, rollouts, rollWake, nomadMu, pushes, gitBudget, strayed>>

\* ReconcilePendingNomad takes what is queued by now, event by event.
DrainPending ==
    /\ task[Reconciler].pc = "sweep" /\ task[Reconciler].orphans = {}
    /\ task' = [task EXCEPT ![Reconciler].pc = "next", ![Reconciler].evs = pending]
    /\ pending' = <<>>
    /\ UNCHANGED <<gitWorld, disk, nomad, wake, rollouts, rollWake, nomadMu, pushes, gitBudget,
                   strayed>>

NextEvent ==
    LET t == task[Reconciler]
        e == Head(t.evs)
    IN  /\ t.pc = "next"
        /\ IF t.evs = <<>>
           THEN task' = [task EXCEPT ![Reconciler] = Resting] /\ UNCHANGED nomadMu
           ELSE /\ nomadMu = Hangar /\ nomadMu' = Reconciler
                /\ task' = [task EXCEPT ![Reconciler] =
                       [t EXCEPT !.pc = "decide", !.repo = e.repo, !.build = {},
                                 !.dels = {<<e.repo, j>> : j \in e.dels},
                                 !.apps = {<<e.repo, j>> : j \in e.apps}, !.evs = Tail(t.evs)]]
        /\ UNCHANGED <<gitWorld, disk, nomad, pending, wake, rollouts, rollWake, pushes, gitBudget,
                       strayed>>

EventDone ==
    /\ task[Reconciler].pc = "apply" /\ task[Reconciler].apps = {}
    /\ nomadMu' = Hangar
    /\ task' = [task EXCEPT ![Reconciler].pc = "next"]
    /\ UNCHANGED <<gitWorld, disk, nomad, pending, wake, rollouts, rollWake, pushes, gitBudget,
                   strayed>>
--------------------
(* Image roll-outs *)

\* EnqueueImageReadyEvent; without a job file the event is refused.
ImageReady(j) ==
    /\ j \in imageEvents
    /\ imageEvents' = imageEvents \ {j}
    /\ IF DefinedIn(j) = {} THEN UNCHANGED <<rollouts, rollWake>>
       ELSE rollouts' = rollouts \cup {j} /\ rollWake' = rollWake \cup {"signal"}
    /\ UNCHANGED <<remote, registry, commits, disk, nomad, pending, wake, task, nomadMu, pushes,
                   gitBudget, strayed>>

ArmRollouts ==
    /\ task[Roller].pc = "idle" /\ "signal" \in rollWake
    /\ rollWake' = {"timer"}
    /\ UNCHANGED <<gitWorld, disk, nomad, pending, wake, rollouts, task, nomadMu, pushes, gitBudget,
                   strayed>>

\* executePendingImageRollouts takes the batch.
TakeRollouts ==
    /\ task[Roller].pc = "idle" /\ "timer" \in rollWake
    /\ rollWake' = rollWake \ {"timer"}
    /\ task' = [task EXCEPT ![Roller].pc = "image", ![Roller].images = rollouts]
    /\ rollouts' = {}
    /\ UNCHANGED <<gitWorld, disk, nomad, pending, wake, nomadMu, pushes, gitBudget, strayed>>

\* ExecuteImageReadyEvent of the next image, hangar's own last: deletions that
\* waited for an image are executed first.
RolloutImage ==
    LET t == task[Roller]
        others == t.images \ {HangarJob}
    IN  /\ t.pc = "image"
        /\ IF t.images = {}
           THEN /\ task' = [task EXCEPT ![Roller] = Resting]
                /\ UNCHANGED <<nomadMu, pending>>
           ELSE \E j \in (IF others # {} THEN others ELSE t.images) :
                 IF DefinedIn(j) = {}
                 THEN /\ task' = [task EXCEPT ![Roller].images = @ \ {j}]
                      /\ UNCHANGED <<nomadMu, pending>>
                 ELSE /\ nomadMu = Hangar /\ nomadMu' = Roller
                      /\ \E r \in DefinedIn(j) :
                           task' = [task EXCEPT ![Roller].images = @ \ {j}, ![Roller].pc = "teardown",
                                        ![Roller].dels = Deletes(pending), ![Roller].apps = {<<r, j>>}]
                      /\ pending' = WithoutDeletes(pending)
        /\ UNCHANGED <<gitWorld, disk, nomad, wake, rollouts, rollWake, pushes, gitBudget, strayed>>

RollApply ==
    /\ task[Roller].pc = "sweep" /\ task[Roller].orphans = {}
    /\ task' = [task EXCEPT ![Roller].pc = "apply"]
    /\ UNCHANGED <<gitWorld, disk, nomad, pending, wake, rollouts, rollWake, nomadMu, pushes,
                   gitBudget, strayed>>

RollKeepsLock ==
    /\ task[Roller].pc = "apply" /\ task[Roller].apps = {}
    /\ task' = [task EXCEPT ![Roller].pc = "image"]
    /\ UNCHANGED <<gitWorld, disk, nomad, pending, wake, rollouts, rollWake, nomadMu, pushes,
                   gitBudget, strayed>>

RollDone ==
    /\ task[Roller].pc = "apply" /\ task[Roller].apps = {}
    /\ nomadMu' = Hangar
    /\ task' = [task EXCEPT ![Roller].pc = "image"]
    /\ UNCHANGED <<gitWorld, disk, nomad, pending, wake, rollouts, rollWake, pushes, gitBudget,
                   strayed>>

\* hangar stops, perhaps because its own job was replaced: what it had in memory
\* is gone.
HangarRestart ==
    /\ GitFault
    /\ strayed' = strayed \cup ChangedJobs(pending) \cup rollouts
                          \cup UNION {InHand(task[p]) \cup task[p].orphans : p \in GitProcs}
    /\ pending' = <<>> /\ wake' = {} /\ rollouts' = {} /\ rollWake' = {}
    /\ task' = [p \in GitProcs |-> Resting]
    /\ nomadMu' = Hangar
    /\ UNCHANGED <<gitWorld, disk, nomad, pushes>>

Works(p) == Decide(p) \/ StopDeleted(p) \/ ApplyFirst(p) \/ ApplyJob(p)

GitNext ==
    \/ \E r \in Repos, j \in GitJobs : Commit(r, j) \/ BuildImage(r, j)
    \/ \E p \in PushHandlers : PushDone(p) \/ \E r \in Repos : GitPush(p, r)
    \/ \E r \in Repos : SyncRepo(r)
    \/ \E p \in GitProcs : Works(p)
    \/ \E p \in {Reconciler, Roller} : SweepList(p) \/ SweepStop(p)
    \/ ArmReconciler \/ Reconcile \/ DrainPending \/ NextEvent \/ EventDone
    \/ \E j \in GitJobs : ImageReady(j)
    \/ ArmRollouts \/ TakeRollouts \/ RolloutImage \/ RollApply \/ RollDone
    \/ HangarRestart

GitSpec == GitInit /\ [][GitNext]_gitVars
--------------------
HangarQuiet ==
    /\ \A p \in GitProcs : task[p].pc = "idle"
    /\ pending = <<>> /\ wake = {} /\ rollouts = {} /\ rollWake = {}

\* When hangar has nothing left to do, Nomad runs what the checkouts define: the
\* current revision of every job, and no job without a file, whichever of the
\* webhooks, syncs, reconciliations and roll-outs handled the changes, in
\* whatever order.  Jobs that wait for their image, or that a failed command or a
\* restart took off course, are the exception.
CheckoutsAreRunning ==
    HangarQuiet => \A j \in GitJobs \ strayed :
        IF DefinedIn(j) = {} THEN nomad[j] = NotRunning
        ELSE \E r \in DefinedIn(j) : nomad[j].spec = disk[r][j].spec

\* A deletion that waits for an image keeps its place in the queue until it has
\* been carried out, so a job without a file that still runs is known to someone.
NoForgottenDeletion ==
    \A j \in GitJobs \ strayed :
        DefinedIn(j) = {} /\ nomad[j] # NotRunning =>
            \/ j \in ChangedJobs(pending)
            \/ \E p \in GitProcs : j \in InHand(task[p]) \cup task[p].orphans

\* hangar starts its own job only when nothing else of that push or image batch
\* is left, because the restart that follows loses what is in memory.
OwnJobComesLast ==
    \A p \in PushHandlers \cup {Roller} :
      nomad'[HangarJob] # nomad[HangarJob] /\ nomad'[HangarJob] # NotRunning
        /\ task[p].pc = "apply" /\ task'[p] # task[p]
      => task'[p].apps = {} /\ task'[p].images = {}
OwnJobIsLast == [][OwnJobComesLast]_gitVars

\* hangar's webhooks, syncs, roll-outs and reconciler bring the cluster to what is
\* checked out, and no deletion that waits for an image is lost on the way.
GitOpsIsSound ==
    /\ GitTypeOK /\ CheckoutsAreRunning /\ NoForgottenDeletion
====================
