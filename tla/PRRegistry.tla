----------- MODULE PRRegistry -----------
(* The rows of synapse's table pr_registry.  Each operator is the effect of *)
(* one SQL statement on one row, or the WHERE clause that guards it.  A row *)
(* keeps the status, the head commit, whether a merge commit is recorded, *)
(* and the three job lists of the metadata: jobs still to roll out, jobs *)
(* whose roll-out has started and jobs that are healthy. *)

\* Statuses of a pull request that is past review.
Rolling  == {"merged", "synced", "deploying"}
Finished == Rolling \cup {"closed", "deployed", "deploy_failed"}
PRStatus == Finished \cup {"open", "ci_failed", "conflict"}

NewRow(h) == [status |-> "open", head |-> h, merged |-> FALSE,
              jobs |-> {}, started |-> {}, deployed |-> {}]

RegisterPR(r, h) ==
    [r EXCEPT !.head = h,
              !.status = IF @ \in Rolling \cup {"deployed"} THEN @ ELSE "open"]

UpdatePRMerged(r) ==
    [r EXCEPT !.merged = TRUE,
              !.status = IF @ \in {"synced", "deploying", "deployed", "deploy_failed"}
                         THEN @ ELSE "merged"]

BackfillPushMergeSHA(r) == UpdatePRMerged(r)

UpdatePRClosedUnmerged(r) == [r EXCEPT !.status = "closed"]

CanSync(r, h, banner) ==
    /\ ~r.merged
    /\ r.status \notin Finished
    /\ r.head # h \/ r.status \in {"ci_failed", "conflict"} \/ banner

UpdatePRSync(r, h) == [r EXCEPT !.head = h, !.status = "open"]

CanFailCI(r) == ~r.merged /\ r.status \notin Finished \cup {"ci_failed"}

CanConflict(r) == ~r.merged /\ r.status \notin Finished \cup {"conflict"}

CanFailDeploy(r) == r.status \in Rolling

Expectable(r) == r.status \notin {"closed", "conflict"}

RecordExpectedJobs(r, J) == [r EXCEPT !.jobs = (@ \cup J) \ r.deployed]

HasExpectedDeployJobs(r) ==
    r.jobs # {} \/ r.deployed # {} \/ r.status \in {"deploying", "deployed"}

CanStart(r, J) == Expectable(r) /\ ~(J \subseteq r.deployed)

TransitionDeploying(r, J) ==
    [r EXCEPT !.status = "deploying",
              !.jobs = (@ \cup J) \ r.deployed,
              !.started = @ \cup J]

\* The row AtomicTransitionDeployedByJob selects: its job has been started.
AwaitsJob(r, j) == r.status \in Rolling /\ j \in r.jobs /\ j \in r.started

DeployedByJob(r, j) ==
    [r EXCEPT !.status = IF r.jobs = {j} THEN "deployed" ELSE "deploying",
              !.jobs = @ \ {j},
              !.deployed = @ \cup {j}]

\* The rows AtomicTransitionDeployFailedByJob looks at; only the one that was
\* changed last counts, and a deployed one shields the older ones.
MayBlameJob(r, j) ==
    \/ r.status \in Rolling \cup {"deploy_failed"} /\ j \in r.jobs
    \/ r.status = "deployed" /\ j \in r.deployed

IsDeploying(r) == r.status = "deploying" \/ (r.status \in {"merged", "synced"} /\ r.jobs # {})

AppendOnly(r, J) == [r EXCEPT !.jobs = @ \cup J]

AppendPRJobs(r, J) == [r EXCEPT !.jobs = @ \cup J, !.deployed = @ \ J]

UpdatePRStatus(r, s) == [r EXCEPT !.status = s]

\* The status half of the statement; the banner is kept by the callers.
SetPRWidgetState(r, s) ==
    [r EXCEPT !.status = IF \/ @ \in {"deployed", "closed"}
                            \/ s = "synced" /\ @ = "deploying"
                         THEN @ ELSE s]

SweptRow(r) ==
    IF r.status \in Rolling \cup {"deploy_failed"}
    THEN [r EXCEPT !.status = "deployed", !.jobs = {}] ELSE r
====================
