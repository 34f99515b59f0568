----------- MODULE CovenMemory -----------
(* Coven's long-term memory: the facts table, the hourly extraction of *)
(* facts from the finished turns of a conversation, the daily "dreaming" *)
(* that merges related facts, and the agents' memory tools, which use the *)
(* same rows without the mutex the other two share. *)
(*  *)
(* What a fact says is a set of atoms.  Turn number t teaches the atom t; *)
(* an agent's memory_store teaches an atom of ToolAtoms.  The language *)
(* model and the embeddings are external: every answer the code has a *)
(* branch for may come, and a fact is taken to be the same as a candidate *)
(* (similarity above 0.88) exactly when it says the candidate's atom. *)
EXTENDS Integers, Sequences, FiniteSets, FiniteSetsExt, SequencesExt

CONSTANTS
    TurnRows,       \* messages.row_id of the thread's turns, 1..n
    ToolAtoms,      \* what agents store through memory_store
    TurnLimit,      \* turns one request to Brain returns (50)
    MaxCandidates,  \* facts taken from one extraction (5)
    MaxPasses,      \* MaxConsolidationPasses
    MemoryBudgets   \* bounds: faults, crashes, tool calls, dreams, long turns, turns that age

VARIABLES
    turns,      \* each turn: running, and when done useful (extractable), long (and useful) or dull
    aged,       \* finished turns of more than a day ago
    facts,      \* the rows of facts: id -> what the fact says
    nextFact,   \* the next id of the table
    watermark,  \* extraction_watermarks of the thread
    dreamt,     \* extraction_watermarks of __coven_dreaming__
    rested,     \* 20 hours have passed since dreaming was last completed
    jobs,       \* what the background worker and POST /consolidate are doing
    excused,    \* atoms given up by a decision or a documented limit
    calm,       \* no crash, unclear insertion, failed deletion or tool call has happened
    memBudget

memVars == <<turns, aged, facts, nextFact, watermark, dreamt, rested, jobs, excused, calm, memBudget>>

--------------------
Jobbers == {"tick", "http"}
NoAct == [what |-> "none", id |-> 0]
IdleJob == [pc |-> "idle", view |-> {}, over |-> FALSE, from |-> 0, max |-> 0, todo |-> << >>, act |-> NoAct, ok |-> TRUE,
            pass |-> 0, cliques |-> {}, tried |-> {}, doomed |-> {}, merged |-> FALSE]

Atoms == TurnRows \cup ToolAtoms
Known == UNION {facts[f] : f \in DOMAIN facts}
Done == {t \in TurnRows : turns[t] # "running"}
Useful == {t \in TurnRows : turns[t] \in {"useful", "long"}}
SpendMem(what) == memBudget[what] > 0 /\ memBudget' = [memBudget EXCEPT ![what] = @ - 1]
Fault == SpendMem("faults") /\ UNCHANGED calm
NoFault == UNCHANGED <<memBudget, calm>>
UnchangedFacts == UNCHANGED <<facts, nextFact, excused>>
UnchangedMarks == UNCHANGED <<watermark, dreamt, rested>>

MemoryInit ==
    /\ turns = [t \in TurnRows |-> "running"] /\ aged = {}
    /\ facts = [f \in {} |-> {}] /\ nextFact = 1
    /\ watermark = 0 /\ dreamt = 0 /\ rested = TRUE
    /\ jobs = [c \in Jobbers |-> IdleJob]
    /\ excused = {} /\ calm = TRUE
    /\ memBudget \in MemoryBudgets

\* Brain completes turns in any order; one below the watermark is never read.
CompleteTurn(t) ==
    /\ turns[t] = "running"
    /\ \/ \E how \in {"useful", "dull"} : turns' = [turns EXCEPT ![t] = how] /\ NoFault
       \/ turns' = [turns EXCEPT ![t] = "long"] /\ SpendMem("longs") /\ UNCHANGED calm
    /\ excused' = IF t <= watermark THEN excused \cup {t} ELSE excused
    /\ UNCHANGED <<aged, facts, nextFact, jobs>> /\ UnchangedMarks

\* A day goes by in which a finished turn is not read: coven was down, its runs
\* failed, or twenty threads came before this one in every run.
TurnAges(t) ==
    /\ t \in Done \ aged /\ SpendMem("days") /\ aged' = aged \cup {t}
    /\ UNCHANGED <<turns, facts, nextFact, jobs, excused, calm>> /\ UnchangedMarks

--------------------
TryLock(c) == \A d \in Jobbers : jobs[d].pc = "idle"

Step(c, job) == jobs' = [jobs EXCEPT ![c] = job]

\* The row ids above w in the order of Brain's answer: the newest ones when
\* there is no watermark, else the oldest.
Window(S, w) ==
    LET above == {t \in S : t > w}
        rank(t) == IF w = 0 THEN Cardinality({u \in above : u > t}) ELSE Cardinality({u \in above : u < t})
    IN {t \in above : rank(t) < TurnLimit}

InsertFact(says) ==
    /\ facts' = [f \in DOMAIN facts \cup {nextFact} |-> IF f = nextFact THEN says ELSE facts[f]]
    /\ nextFact' = nextFact + 1
DeleteFact(f) == facts' = [g \in DOMAIN facts \ {f} |-> facts[g]] /\ UNCHANGED nextFact
UpdateFact(f, says) == facts' = [facts EXCEPT ![f] = says] /\ UNCHANGED nextFact

\* runHourly, GetActiveConversationsForExtraction and GetUnextractedAdminTurns:
\* the thread is read when it has a turn of the last 24 hours above the
\* watermark, and then with its older turns.
ReadTurns ==
    /\ TryLock("tick") /\ \E t \in Done \ aged : t > watermark
    /\ LET read == Window(Done, watermark) \cap Useful
       IN Step("tick", [IdleJob EXCEPT
             !.pc = IF read = {} THEN "empty" ELSE "ask",
             !.view = {t \in Useful : t > watermark},
             !.over = Cardinality({t \in Done : t > watermark}) > TurnLimit,
             !.max = IF read = {} THEN 0 ELSE Max(read),
             !.todo = SetToSortSeq(read, <)])
    /\ UNCHANGED <<turns, aged>> /\ UnchangedFacts /\ UnchangedMarks /\ NoFault

\* UpdateConversationFactWatermark never lowers it.  Turns that were not
\* finished when the thread was read, and those beyond TurnLimit, are let go.
Advance(job, max) ==
    LET w == Max({watermark, max})
    IN /\ watermark' = w
       /\ excused' = excused \cup {t \in Useful : t <= w /\ t > watermark /\ (t \notin job.view \/ job.over)}

\* No extractable turn: the newest finished row, read later, is the watermark.
EmptyThread ==
    /\ jobs["tick"].pc = "empty"
    /\ \/ Advance(jobs["tick"], Max(Done)) /\ NoFault
       \/ Fault /\ UNCHANGED <<watermark, excused>>
    /\ Step("tick", IdleJob)
    /\ UNCHANGED <<turns, aged, facts, nextFact, dreamt, rested>>

\* formatExtractableTurns keeps the last 20 000 bytes: what comes before a long
\* turn is cut, and some of the turn with it.
LongestCut(todo) == Max({0} \cup {k \in DOMAIN todo : turns[todo[k]] = "long"})

\* The extraction prompt; an error of the call or of the parser ends the run
\* for the thread, facts beyond the fifth are dropped.
ExtractFacts ==
    LET job == jobs["tick"]
        last == LongestCut(job.todo)
    IN /\ job.pc = "ask"
       /\ \/ /\ \E cut \in {Max({0, last - 1}), last} :
                LET asked == SubSeq(job.todo, cut + 1, Len(job.todo))
                    kept == SubSeq(asked, 1, Min({MaxCandidates, Len(asked)}))
                IN /\ Step("tick", [job EXCEPT !.pc = "look", !.todo = kept])
                   /\ excused' = excused \cup (ToSet(job.todo) \ ToSet(kept))
             /\ NoFault
          \/ Step("tick", IdleJob) /\ Fault /\ UNCHANGED excused
       /\ UNCHANGED <<turns, aged, facts, nextFact>> /\ UnchangedMarks

\* The three tiers of reconcileCandidateFact, and the model's decision in the
\* third, which names one of the neighbours or is treated as an addition.
Decisions(a) ==
    LET same == {f \in DOMAIN facts : a \in facts[f]}
    IN IF same # {} THEN {[what |-> "reinforce", id |-> f] : f \in same}
       ELSE {[what |-> "insert", id |-> 0]} \cup
            {[what |-> w, id |-> f] : w \in {"merge", "replace", "delete", "noop"}, f \in DOMAIN facts}

LookUp ==
    LET job == jobs["tick"]
    IN /\ job.pc = "look"
       /\ \/ /\ job.todo # << >>
             /\ \/ \E d \in Decisions(Head(job.todo)) : Step("tick", [job EXCEPT !.act = d, !.pc = "apply"])
                   /\ NoFault
                \/ Step("tick", [job EXCEPT !.todo = Tail(@), !.ok = FALSE]) /\ Fault
          \/ /\ job.todo = << >>  \* stageProceduralCandidates
             /\ \/ Step("tick", [job EXCEPT !.pc = "mark"]) /\ NoFault
                \/ Step("tick", [job EXCEPT !.pc = "mark", !.ok = FALSE]) /\ Fault
       /\ UNCHANGED <<turns, aged>> /\ UnchangedFacts /\ UnchangedMarks

\* One statement for a decision on the atom a.
Execute(act, a) ==
    LET f == act.id IN
    CASE act.what = "insert" -> InsertFact({a}) /\ UNCHANGED excused
      [] act.what = "merge" -> UpdateFact(f, facts[f] \cup {a}) /\ UNCHANGED excused
      [] act.what = "replace" -> UpdateFact(f, {a}) /\ excused' = excused \cup facts[f]
      [] act.what = "delete" -> DeleteFact(f) /\ excused' = excused \cup facts[f] \cup {a}
      [] act.what = "noop" -> excused' = excused \cup {a} /\ UNCHANGED <<facts, nextFact>>
      [] OTHER -> UnchangedFacts

\* No row with the id is an error (ErrFactNotFound), and a statement that
\* timed out may have been executed.
ApplyDecision ==
    LET job == jobs["tick"] a == Head(job.todo)
        next == [job EXCEPT !.pc = "look", !.todo = Tail(@), !.act = NoAct]
        there == job.act.what = "insert" \/ job.act.id \in DOMAIN facts
    IN /\ job.pc = "apply"
       /\ \/ there /\ Step("tick", next) /\ NoFault /\ Execute(job.act, a)
          \/ ~there /\ Step("tick", [next EXCEPT !.ok = FALSE]) /\ UnchangedFacts /\ NoFault
          \/ /\ Step("tick", [next EXCEPT !.ok = FALSE]) /\ Fault
             /\ UnchangedFacts \/ (there /\ Execute(job.act, a))
       /\ UNCHANGED <<turns, aged>> /\ UnchangedMarks

MayMark(job) == job.ok

MarkExtracted ==
    LET job == jobs["tick"]
    IN /\ job.pc = "mark"
       /\ Step("tick", IdleJob)
       /\ \/ MayMark(job) /\ Advance(job, job.max) /\ NoFault
          \/ ~MayMark(job) /\ UNCHANGED <<watermark, excused>> /\ NoFault
          \/ MayMark(job) /\ Fault /\ UNCHANGED <<watermark, excused>>
       /\ UNCHANGED <<turns, aged, facts, nextFact, dreamt, rested>>

--------------------
(* ConsolidateFactClusters. *)

\* runDaily asks for 20 hours of rest, POST /consolidate does not; without the
\* watermark all facts are looked at.
StartDream(c) ==
    /\ TryLock(c) /\ (c = "tick" => rested)
    /\ \E failed \in 0..1 :
        /\ failed <= memBudget.faults /\ memBudget.dreams > 0
        /\ memBudget' = [memBudget EXCEPT !.dreams = @ - 1, !.faults = @ - failed]
        /\ LET from == IF failed = 1 THEN 0 ELSE dreamt
           IN Step(c, [IdleJob EXCEPT !.pc = "pass", !.from = from, !.max = from])
    /\ UNCHANGED <<turns, aged, calm>> /\ UnchangedFacts /\ UnchangedMarks

\* Disjoint pairs of similar facts, at least one of them above the watermark,
\* that were not tried in this run: FindConsolidationCliques for some
\* similarity of the facts.
Fresh(pair, w) == w = 0 \/ \E f \in pair : f > w
Pairings(w) ==
    LET pairs == {p \in kSubset(2, DOMAIN facts) : Fresh(p, w)}
    IN {P \in SUBSET pairs : \A p, q \in P : p # q => p \cap q = {}}

\* The facts are read; an error ends the run without a watermark.
ReadCliques(c) ==
    LET job == jobs[c]
    IN /\ job.pc = "pass"
       /\ \/ /\ \E P \in Pairings(job.from) :
                LET new == P \ job.tried
                    max == Max({job.max} \cup DOMAIN facts)
                IN Step(c, [job EXCEPT !.max = max, !.pass = @ + 1, !.merged = FALSE,
                              !.tried = @ \cup new,
                              !.cliques = {[ids |-> p, read |-> [f \in p |-> facts[f]]] : p \in new},
                              !.pc = IF new = {} THEN "close" ELSE "merge"])
             /\ NoFault
          \/ Step(c, IdleJob) /\ Fault
       /\ UNCHANGED <<turns, aged>> /\ UnchangedFacts /\ UnchangedMarks

DeleteUnmerged(c) ==
    LET job == jobs[c]
    IN /\ job.pc = "merge"
       /\ \E q \in job.cliques :
             Step(c, [job EXCEPT !.cliques = @ \ {q}, !.pc = "delete", !.doomed = {q}, !.merged = TRUE])
       /\ UNCHANGED <<turns, aged>> /\ UnchangedFacts /\ UnchangedMarks /\ NoFault

\* consolidateSingleFactClique up to the insertion: the model declines, fails,
\* or answers one fact with everything the two said, whose insertion may fail
\* or lose its answer.
MergeClique(c) ==
    LET job == jobs[c]
    IN /\ job.pc = "merge"
       /\ \E q \in job.cliques :
             LET rest == [job EXCEPT !.cliques = @ \ {q}]
                 inserted == InsertFact(UNION {q.read[f] : f \in q.ids}) /\ UNCHANGED excused
             IN \/ Step(c, rest) /\ UnchangedFacts /\ NoFault
                \/ Step(c, [rest EXCEPT !.ok = FALSE]) /\ UnchangedFacts /\ Fault
                \/ Step(c, [rest EXCEPT !.ok = FALSE]) /\ inserted /\ SpendMem("faults") /\ calm' = FALSE
                \/ Step(c, [rest EXCEPT !.pc = "delete", !.doomed = {q}, !.merged = TRUE]) /\ inserted /\ NoFault
       /\ UNCHANGED <<turns, aged>> /\ UnchangedMarks

\* A source that was overwritten since it was read takes the new text along.
DeleteSource(c) ==
    LET job == jobs[c]
    IN /\ job.pc = "delete"
       /\ \E q \in job.doomed : \E f \in q.ids :
             LET left == [q EXCEPT !.ids = @ \ {f}]
                 next == [job EXCEPT !.doomed = IF left.ids = {} THEN {} ELSE {left},
                                     !.pc = IF left.ids = {} THEN "merge" ELSE "delete"]
             IN /\ f = Min(q.ids)
                /\ \/ /\ f \in DOMAIN facts
                      /\ DeleteFact(f) /\ Step(c, next) /\ NoFault
                      /\ excused' = excused \cup (facts[f] \ q.read[f])
                   \/ /\ f \notin DOMAIN facts
                      /\ Step(c, [next EXCEPT !.ok = FALSE]) /\ UnchangedFacts /\ NoFault
                   \/ /\ Step(c, [next EXCEPT !.ok = FALSE])
                      /\ SpendMem("faults") /\ calm' = FALSE
                      /\ \/ UnchangedFacts
                         \/ /\ f \in DOMAIN facts /\ DeleteFact(f)
                            /\ excused' = excused \cup (facts[f] \ q.read[f])
       /\ UNCHANGED <<turns, aged>> /\ UnchangedMarks

EndPass(c) ==
    LET job == jobs[c]
    IN /\ job.pc = "merge" /\ job.cliques = {}
       /\ Step(c, [job EXCEPT !.pc = IF job.merged /\ job.ok /\ job.pass < MaxPasses THEN "pass" ELSE "close"])
       /\ UNCHANGED <<turns, aged>> /\ UnchangedFacts /\ UnchangedMarks /\ NoFault

EndDream(c) ==
    LET job == jobs[c]
    IN /\ job.pc = "close"
       /\ Step(c, IdleJob)
       /\ \/ job.ok /\ dreamt' = Max({dreamt, job.max}) /\ rested' = FALSE /\ NoFault
          \/ ~job.ok /\ UNCHANGED <<dreamt, rested>> /\ NoFault
          \/ job.ok /\ Fault /\ UNCHANGED <<dreamt, rested>>
       /\ UNCHANGED <<turns, aged, watermark>> /\ UnchangedFacts

NextDay == ~rested /\ rested' = TRUE /\ UNCHANGED <<turns, aged, watermark, dreamt, jobs>> /\ UnchangedFacts /\ NoFault

--------------------
(* The memory tools, and the process. *)

MemoryStore(a) ==
    /\ SpendMem("tools") /\ calm' = FALSE
    /\ \/ \E f \in DOMAIN facts : UpdateFact(f, {a}) /\ excused' = (excused \cup facts[f]) \ {a}
       \/ a \notin Known /\ InsertFact({a}) /\ UNCHANGED excused
       \/ a \in Known /\ UnchangedFacts
    /\ UNCHANGED <<turns, aged, jobs>> /\ UnchangedMarks

MemoryForget(f) ==
    /\ SpendMem("tools") /\ calm' = FALSE
    /\ DeleteFact(f) /\ excused' = excused \cup facts[f]
    /\ UNCHANGED <<turns, aged, jobs>> /\ UnchangedMarks

CovenCrash ==
    /\ SpendMem("crashes") /\ calm' = FALSE
    /\ \E c \in Jobbers : jobs[c].pc # "idle"
    /\ jobs' = [c \in Jobbers |-> IdleJob]
    /\ UNCHANGED <<turns, aged>> /\ UnchangedFacts /\ UnchangedMarks

Extraction == ReadTurns \/ EmptyThread \/ ExtractFacts \/ LookUp \/ ApplyDecision \/ MarkExtracted
Dreaming(c) == ReadCliques(c) \/ MergeClique(c) \/ DeleteSource(c) \/ EndPass(c) \/ EndDream(c)

MemoryNext ==
    \/ \E t \in TurnRows : CompleteTurn(t) \/ TurnAges(t)
    \/ Extraction
    \/ \E c \in Jobbers : StartDream(c) \/ Dreaming(c)
    \/ NextDay
    \/ \E a \in ToolAtoms : MemoryStore(a)
    \/ \E f \in DOMAIN facts : MemoryForget(f)
    \/ CovenCrash

MemoryWork == Extraction \/ \E c \in Jobbers : Dreaming(c)
MemorySpec == MemoryInit /\ [][MemoryNext]_memVars /\ WF_memVars(MemoryWork)

--------------------
MemoryTypeOK ==
    /\ turns \in [TurnRows -> {"running", "useful", "long", "dull"}] /\ aged \subseteq Done
    /\ DOMAIN facts \subseteq 1..(nextFact - 1)
    /\ \A f \in DOMAIN facts : facts[f] \in SUBSET Atoms
    /\ watermark \in {0} \cup TurnRows /\ dreamt \in 0..(nextFact - 1)
    /\ excused \subseteq Atoms

\* Nothing is lost on the way: what a finished turn at or below the watermark
\* taught is in a fact, or somebody decided to let it go (a superseding text,
\* a model's NOOP or DELETE, memory_forget), or one of the limits of the code
\* did (five facts, fifty turns, a transcript cut at a long turn, a turn that
\* finished behind the watermark, a source overwritten while it was being
\* merged).  A failed or unanswered statement, a failing model or a crash
\* between any two steps is not among the reasons.
NothingLost ==
    \A t \in Useful : t <= watermark => t \in Known \cup excused

\* The sources of a merge are deleted only while the merged fact holds all
\* they said when it was written: at no moment is a fact's content in memory
\* of the process alone.
MergeIsDurable ==
    \A c \in Jobbers : jobs[c].pc = "delete" =>
        \A q \in jobs[c].doomed : \A f \in DOMAIN q.read : q.read[f] \subseteq Known \cup excused

\* Re-reading a thread after a failed run, and dreaming while other work goes
\* on, duplicate nothing: until a process stops or fails between insertion
\* and deletion, the insertion of a merged fact loses its answer, or a tool
\* intervenes, no two facts say the same.
NoTwins == calm => \A f, g \in DOMAIN facts : facts[f] = facts[g] => f = g

\* Every finished turn is eventually behind the watermark, although a run
\* that fails leaves it where it was (hourly runs go on, faults are finite),
\* or more than a day old: then only a newer turn of its thread brings it up.
TurnOver(t) == turns[t] # "running"
TurnRead(t) == watermark >= t \/ t \in aged
TurnsAreRead == \A t \in TurnRows : TurnOver(t) ~> TurnRead(t)

\* What coven learns from the turns is kept: extraction and dreaming lose nothing,
\* hold nothing in memory alone and duplicate nothing.
MemoryIsSound ==
    /\ MemoryTypeOK /\ NothingLost /\ MergeIsDurable /\ NoTwins
====================
