----------- MODULE SkillDesign -----------
(* Coven's procedural memory: friction candidates staged by the extraction *)
(* wait as rows until the daily run groups them into batches, has a model *)
(* write the SKILL.md of each batch and publishes all of them as one pull *)
(* request of the configuration repository.  POST /consolidate starts the *)
(* same run; both hold extractionMutex. *)
(*  *)
(* A candidate is a record of what the plan tells apart: the skill that *)
(* was loaded, the custom skill it resembles, whether it has three steps *)
(* or more and whether it warns of something.  How alike two candidates *)
(* are is a level: 0 below the clique threshold, 1 above it, 2 above the *)
(* 0.90 of a duplicate. *)
EXTENDS Integers, Sequences, FiniteSets, FiniteSetsExt, SequencesExt

CONSTANTS
    SkillCases,     \* inputs: [cands: sequence of candidates, sim: levels,
                    \*          channel: whether alerts have a channel]
    CliqueMax,      \* DefaultSkillCliqueMaxSize (5)
    AlertRepeats,   \* DefaultShortFrictionMinRepeats (5)
    SkillBudgets    \* bounds: runs and faults

VARIABLES
    kase,       \* the input
    staged,     \* how many candidates the extraction has seen
    status,     \* procedural_candidates.status of the staged ones
    skillDisk,       \* names of the custom skills on disk
    designer,   \* the runs in progress, by caller
    skillPRs,   \* pull requests of Coven, in order
    reasons,    \* candidates alerted about or answered with NOOP
    blind,      \* candidates staged without a sight of the others (a ghost)
    overlooked, \* open requests that were not in the list (a ghost)
    skillBudget

skillVars == <<kase, staged, status, skillDisk, designer, skillPRs, reasons, blind, overlooked,
               skillBudget>>

--------------------
Cand(i) == kase.cands[i]
Sim(i, j) == kase.sim[{i, j}]
Linked(i, j) == Sim(i, j) >= 1
CoreSkill == "core"          \* any of BlockedCoreSkills
SpendSkill(what) == skillBudget[what] > 0 /\ skillBudget' = [skillBudget EXCEPT ![what] = @ - 1]
PendingRows == {i \in DOMAIN status : status[i] = "pending"}

--------------------
(* findCompleteLinkageCliques. *)

\* Edges by falling similarity, then by the ids of their ends.
Edges(S) ==
    LET before(e, f) == \/ Sim(e[1], e[2]) > Sim(f[1], f[2])
                        \/ Sim(e[1], e[2]) = Sim(f[1], f[2]) /\ e[1] < f[1]
                        \/ Sim(e[1], e[2]) = Sim(f[1], f[2]) /\ e[1] = f[1] /\ e[2] < f[2]
    IN SetToSortSeq({e \in S \X S : e[1] < e[2] /\ Linked(e[1], e[2])}, before)

\* A new member must be linked to every one that joined after the two ends.
Matches(e, clique, k) == \A m \in clique \ {e[1], e[2]} : Linked(m, k)

ExpandClique(S, e, maxSize) ==
    LET near(k) == Min({Sim(e[1], k), Sim(e[2], k)})
        before(k, l) == near(k) > near(l) \/ (near(k) = near(l) /\ k < l)
        others == SetToSortSeq({k \in S \ {e[1], e[2]} : near(k) >= 1}, before)
        add(clique, k) == IF Cardinality(clique) < maxSize /\ Matches(e, clique, k)
                          THEN clique \cup {k} ELSE clique
    IN FoldLeft(add, {e[1], e[2]}, others)

FindCliques(S, minSize, maxSize) ==
    LET take(acc, e) ==
            LET used == UNION ToSet(acc)
                clique == ExpandClique(S \ used, e, maxSize)
            IN IF e[1] \notin used /\ e[2] \notin used /\ Cardinality(clique) >= minSize
               THEN Append(acc, clique) ELSE acc
    IN FoldLeft(take, << >>, Edges(S))

--------------------
(* PlanSkillConsolidation. *)

Batch(action, target, cands) ==
    [action |-> action, target |-> target, cands |-> cands,
     review |-> action # "ALERT" /\ \E i \in cands : Cand(i).loaded = CoreSkill]

LoadedGroup(s, P) == {i \in P : Cand(i).loaded = s}
Unloaded(P, D) == {i \in P : Cand(i).loaded \notin D}
AlikeGroup(s, P, D) == {i \in Unloaded(P, D) : Cand(i).like = s}
Unmatched(P, D) == {i \in Unloaded(P, D) : Cand(i).like \notin D}

PlanSkillConsolidation(P, D) ==
    LET names == SetToSortSeq(D, LAMBDA a, b : a = "n" /\ b = "s")
        ripe(s) == LET g == LoadedGroup(s, P) IN Cardinality(g) >= 2 \/ \E i \in g : Cand(i).avoid
        caseA == [k \in 1..Len(names) |-> Batch("EDIT", names[k], LoadedGroup(names[k], P))]
        caseB == [k \in 1..Len(names) |-> Batch("EDIT", names[k], AlikeGroup(names[k], P, D))]
        novel == FindCliques({i \in Unmatched(P, D) : Cand(i).long}, 2, CliqueMax)
        short == FindCliques({i \in Unmatched(P, D) : ~Cand(i).long}, AlertRepeats, AlertRepeats)
    IN SelectSeq(caseA, LAMBDA b : ripe(b.target))
       \o SelectSeq(caseB, LAMBDA b : b.cands # {})
       \o [k \in 1..Len(novel) |-> Batch("CREATE", "none", novel[k])]
       \o [k \in 1..Len(short) |-> Batch("ALERT", "none", short[k])]

--------------------
Callers == {"daily", "post"}
NoRun == [pc |-> "idle", batches |-> << >>, changes |-> << >>, known |-> {}, pr |-> 0]
SetRun(c, r) == designer' = [designer EXCEPT ![c] = r]

SkillInit ==
    /\ kase \in SkillCases
    /\ staged = 0 /\ status = << >>
    /\ skillDisk = {"s"}
    /\ designer = [c \in Callers |-> NoRun]
    /\ skillPRs = << >> /\ reasons = {} /\ blind = {} /\ overlooked = 0
    /\ skillBudget \in SkillBudgets

NoMutex(c) == designer[c].pc = "idle"
MutexFree(c) == \A d \in Callers : designer[d].pc = "idle"

\* isDuplicateProceduralCandidate, all candidates being of one thread.
IsDuplicate(i) == \E j \in PendingRows : Cand(j).loaded = Cand(i).loaded /\ Sim(i, j) = 2


\* stageSingleProceduralCandidate, under the extraction's lock.  When the
\* pending rows cannot be read, or the answer to an earlier insert was lost,
\* it is compared with none.
StageCandidate ==
    /\ staged < Len(kase.cands) /\ MutexFree("daily")
    /\ staged' = staged + 1
    /\ \/ /\ status' = Append(status, IF IsDuplicate(staged + 1) THEN "duplicate" ELSE "pending")
          /\ UNCHANGED <<blind, skillBudget>>
       \/ /\ status' = Append(status, "pending")
          /\ blind' = blind \cup {staged + 1} /\ SpendSkill("faults")
    /\ UNCHANGED <<kase, skillDisk, designer, skillPRs, reasons, overlooked>>

\* ConsolidateProceduralSkills up to the loop over the batches.
BeginRun(c) ==
    /\ MutexFree(c) /\ PendingRows # {} /\ SpendSkill("runs")
    /\ LET plan == PlanSkillConsolidation(PendingRows, skillDisk)
       IN plan # << >> /\ SetRun(c, [NoRun EXCEPT !.pc = "compile", !.batches = plan, !.known = skillDisk])
    /\ UNCHANGED <<kase, staged, blind, overlooked, status, skillDisk, skillPRs, reasons>>

Skip(cands) == status' = [i \in DOMAIN status |-> IF i \in cands THEN "skipped" ELSE status[i]]


\* handleAlertBatch: the alert, and then the rows; each may fail.  Without a
\* channel NotifyShortFriction sends nothing and says it has.
Alert(c) ==
    LET r == designer[c] b == Head(r.batches) heard == IF kase.channel THEN b.cands ELSE {}
    IN /\ r.pc = "compile" /\ r.batches # << >> /\ b.action = "ALERT"
       /\ SetRun(c, [r EXCEPT !.batches = Tail(@)])
       /\ \/ reasons' = reasons \cup heard /\ Skip(b.cands) /\ UNCHANGED skillBudget
          \/ reasons' = reasons \cup heard /\ UNCHANGED status /\ SpendSkill("faults")
          \/ kase.channel /\ UNCHANGED <<reasons, status>> /\ SpendSkill("faults")
       /\ UNCHANGED <<kase, staged, skillDisk, skillPRs, blind, overlooked>>

\* ValidateCompiledSkillMarkdown and the guard against two batches of one run
\* writing one file.
Accepts(r, b, action, name) ==
    /\ IF action = "EDIT" THEN name = b.target ELSE name \notin r.known
    /\ \A k \in DOMAIN r.changes : r.changes[k].name # name

\* compileSkillBatch: the designer's answer is an error or unusable, NOOP, or
\* a skill; the batch's wish does not bind the designer's action.
Compile(c) ==
    LET r == designer[c] b == Head(r.batches) rest == [r EXCEPT !.batches = Tail(@)]
    IN /\ r.pc = "compile" /\ r.batches # << >> /\ b.action # "ALERT"
       /\ \/ SetRun(c, rest) /\ UNCHANGED <<status, reasons>>
          \/ SetRun(c, rest) /\ Skip(b.cands) /\ reasons' = reasons \cup b.cands
          \/ \E action \in {"EDIT", "CREATE"}, name \in {"s", "n"} :
                /\ Accepts(r, b, action, name)
                /\ SetRun(c, [rest EXCEPT !.known = @ \cup {name},
                     !.changes = Append(@, [name |-> name, cands |-> b.cands, review |-> b.review])])
                /\ UNCHANGED <<status, reasons>>
       /\ UNCHANGED <<kase, staged, blind, overlooked, skillDisk, skillPRs, skillBudget>>

EndCompile(c) ==
    LET r == designer[c]
    IN /\ r.pc = "compile" /\ r.batches = << >>
       /\ SetRun(c, IF r.changes = << >> THEN NoRun ELSE [r EXCEPT !.pc = "publish"])
       /\ UNCHANGED <<kase, staged, blind, overlooked, status, skillDisk, skillPRs, reasons, skillBudget>>

OpenPRs == {k \in DOMAIN skillPRs : skillPRs[k].st = "open"}
AutoMerge(changes) == \A k \in DOMAIN changes : ~changes[k].review

\* hasOpenCovenSkillPR reads one page of 30 open requests: behind younger
\* ones of others Coven's is not seen.
SeesNoOpenPR ==
    \/ OpenPRs = {} /\ UNCHANGED <<overlooked, skillBudget>>
    \/ OpenPRs # {} /\ overlooked' = overlooked + 1 /\ SpendSkill("faults")

\* PublishSkillChanges asks for an open Coven request first, and gives up when
\* there is one or the question fails.
AskOpenPR(c) ==
    LET r == designer[c]
    IN /\ r.pc = "publish"
       /\ \/ SeesNoOpenPR /\ SetRun(c, [r EXCEPT !.pc = "create"])
          \/ OpenPRs # {} /\ SetRun(c, NoRun) /\ UNCHANGED <<overlooked, skillBudget>>
          \/ OpenPRs = {} /\ SetRun(c, NoRun) /\ SpendSkill("faults") /\ UNCHANGED overlooked
       /\ UNCHANGED <<kase, staged, status, skillDisk, skillPRs, reasons, blind>>

\* Commit, branch and request: an error before the request exists; the request
\* with its answer lost, and with it the auto-merge or the alert of
\* finalizePublishedSkillPR; or the request.
CreatePR(c) ==
    LET r == designer[c]
        opened(auto) == Append(skillPRs, [st |-> "open", auto |-> auto, changes |-> r.changes])
    IN /\ r.pc = "create"
       /\ \/ /\ SpendSkill("faults") /\ SetRun(c, NoRun)
             /\ UNCHANGED skillPRs \/ skillPRs' = opened(FALSE)
          \/ /\ skillPRs' = opened(AutoMerge(r.changes))
             /\ SetRun(c, [r EXCEPT !.pc = "mark", !.pr = Len(skillPRs) + 1])
             /\ UNCHANGED skillBudget
       /\ UNCHANGED <<kase, staged, blind, overlooked, status, skillDisk, reasons>>

\* MarkProceduralCandidatesConsolidated; a failure is logged.
MarkConsolidated(c) ==
    LET r == designer[c] ids == UNION {r.changes[k].cands : k \in DOMAIN r.changes}
    IN /\ r.pc = "mark" /\ SetRun(c, NoRun)
       /\ \/ /\ status' = [i \in DOMAIN status |-> IF i \in ids THEN "consolidated" ELSE status[i]]
             /\ UNCHANGED skillBudget
          \/ UNCHANGED status /\ SpendSkill("faults")
       /\ UNCHANGED <<kase, staged, blind, overlooked, skillDisk, skillPRs, reasons>>

DesignerCrash(c) ==
    /\ designer[c].pc # "idle" /\ SpendSkill("faults")
    /\ designer' = [d \in Callers |-> NoRun]
    /\ UNCHANGED <<kase, staged, blind, overlooked, status, skillDisk, skillPRs, reasons>>

\* The request is merged (by GitHub or by a person) or closed, and the skills
\* are synchronised to the disk.
SettleSkillPR(k) ==
    /\ skillPRs[k].st = "open"
    /\ \E st \in {"merged", "closed"} :
          /\ skillPRs' = [skillPRs EXCEPT ![k].st = st]
          /\ skillDisk' = IF st = "closed" THEN skillDisk
                     ELSE skillDisk \cup {skillPRs[k].changes[m].name : m \in DOMAIN skillPRs[k].changes}
    /\ UNCHANGED <<kase, staged, blind, overlooked, status, designer, reasons, skillBudget>>

SkillNext ==
    \/ StageCandidate
    \/ \E c \in Callers : BeginRun(c) \/ Alert(c) \/ Compile(c) \/ EndCompile(c) \/ AskOpenPR(c) \/ CreatePR(c)
                          \/ MarkConsolidated(c) \/ DesignerCrash(c)
    \/ \E k \in DOMAIN skillPRs : SettleSkillPR(k)

SkillSpec == SkillInit /\ [][SkillNext]_skillVars

--------------------
SkillTypeOK ==
    /\ staged \in 0..Len(kase.cands) /\ Len(status) = staged
    /\ \A i \in DOMAIN status : status[i] \in {"pending", "duplicate", "skipped", "consolidated"}
    /\ skillDisk \subseteq {"s", "n"} /\ reasons \cup blind \subseteq DOMAIN status /\ overlooked \in Nat
    /\ \A c \in Callers : designer[c].pr \in 0..Len(skillPRs)

\* The greedy clustering is a plan: no candidate is in two batches, every pair
\* within a new skill or an alert is alike, sizes stay in their bounds, and no
\* two alike candidates that could make a new skill are left over.
PlanIsSound ==
    LET plan == PlanSkillConsolidation(PendingRows, skillDisk)
        inPlan == UNION {plan[k].cands : k \in DOMAIN plan}
    IN /\ \A k, m \in DOMAIN plan : k # m => plan[k].cands \cap plan[m].cands = {}
       /\ \A k \in DOMAIN plan : plan[k].target = "none" =>
             /\ \A i, j \in plan[k].cands : i # j => Linked(i, j)
             /\ IF plan[k].action = "CREATE" THEN Cardinality(plan[k].cands) \in 2..CliqueMax
                ELSE Cardinality(plan[k].cands) = AlertRepeats
       /\ \A i, j \in Unmatched(PendingRows, skillDisk) \ inPlan :
             i # j /\ Cand(i).long /\ Cand(j).long => ~Linked(i, j)

\* Coven has no two pull requests open, whoever starts the runs, but for each
\* one that was not among the 30 GitHub listed: each run asks before it
\* publishes, and only the mutex keeps two runs from asking at once.
OneSkillPR == Cardinality(OpenPRs) <= 1 + overlooked

\* A pull request with anything learned while a core skill was loaded waits
\* for a person, however its changes are grouped.
CoreNeedsReview ==
    \A k \in DOMAIN skillPRs : skillPRs[k].auto =>
        \A m \in DOMAIN skillPRs[k].changes : \A i \in skillPRs[k].changes[m].cands : Cand(i).loaded # CoreSkill

\* One request never writes one file twice nor uses one candidate for two
\* files, although the loaded and the alike candidates of a skill are planned
\* as two batches.
OneChangePerFile ==
    \A k \in DOMAIN skillPRs : LET ch == skillPRs[k].changes IN
        \A m, n \in DOMAIN ch : m # n => ch[m].name # ch[n].name /\ ch[m].cands \cap ch[n].cands = {}

\* No candidate leaves "pending" without somebody having heard of it: it was
\* in an alert, the designer declined it, or a request carries it.  Where
\* alerts have no channel, only long candidates and warnings can count on it.
SettledForAReason ==
    \A i \in DOMAIN status :
        /\ status[i] = "skipped" => (i \in reasons \/ (~kase.channel /\ ~Cand(i).long))
        /\ status[i] = "consolidated" =>
              \E k \in DOMAIN skillPRs, m \in 1..Len(kase.cands) :
                 m \in DOMAIN skillPRs[k].changes /\ i \in skillPRs[k].changes[m].cands

\* Nothing alike waits twice under one skill, so that a repeated extraction of
\* the same turn cannot fake the repetition an alert or an edit asks for,
\* unless the second was staged without a sight of the first.
NoPendingTwins ==
    \A i, j \in PendingRows : i < j /\ Cand(i).loaded = Cand(j).loaded => Sim(i, j) < 2 \/ j \in blind

\* The skill designer's plans, requests and candidates fit together, whoever runs
\* it at the same time and whatever fails between staging and the pull request.
SkillsAreSound ==
    /\ SkillTypeOK /\ PlanIsSound /\ OneSkillPR /\ CoreNeedsReview
    /\ OneChangePerFile /\ SettledForAReason /\ NoPendingTwins
====================
