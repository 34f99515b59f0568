----------- MODULE ChunkBuild -----------
(* One Vanadis build: an ordered list of chunks, each carried out by an *)
(* agent that opens one pull request, the next one started when the *)
(* request of the one before is merged.  The rows of vanadis_builds and *)
(* vanadis_chunks are written by five kinds of caller that share no lock: *)
(* the River worker that dispatches a chunk, Synapse reporting what became *)
(* of a pull request, the operator cancelling the build, agents editing *)
(* chunks that have not started, and the status widget's synchronisation, *)
(* which also revives a build whose pull request recovered. *)
(*  *)
(* A handler that issues several statements outside one transaction is in *)
(* threads as the sequence of statements it has still to execute, so that *)
(* those of other handlers, or a crash, may come between them. *)
EXTENDS Integers, Sequences, FiniteSets, FiniteSetsExt

CONSTANTS
    InitialChunks,  \* how many chunks the build is created with
    ChunkAttempts,  \* MaxAttempts of an ExecuteChunkArgs job
    BuildBudgets    \* bounds, one record for each kind of run: deliveries of
                    \* "merged" by Synapse, edits, faults, cancellations,
                    \* fifteen-minute periods and recoveries

Bounds == {"advances", "edits", "faults", "cancels", "periods", "syncs"}
ASSUME BuildAssumption ==
    /\ InitialChunks \in Nat \ {0}
    /\ BuildBudgets \subseteq [Bounds -> Nat]
    /\ \E most \in BuildBudgets : \A b \in BuildBudgets : b.edits <= most.edits

VARIABLES
    build,      \* vanadis_builds.status
    chunks,     \* the rows of vanadis_chunks by id: index, status, PR, text
    chunkJobs,  \* River's ExecuteChunkArgs jobs in the order of insertion
    recent,     \* the jobs River compares a new one with
    threads,    \* what the handlers in progress have still to execute
    briefed,    \* the text the agent of a chunk was given, or NotBriefed
    prs,        \* the pull request of a chunk on GitHub
    budget      \* how much is left of each bound

buildVars == <<build, chunks, chunkJobs, recent, threads, briefed, prs, budget>>

--------------------
NotBriefed == -1
MaxChunkId == InitialChunks + Max({b.edits : b \in BuildBudgets})
ChunkIds == 1..MaxChunkId
Rows == DOMAIN chunks
IdAt(i) == {c \in Rows : chunks[c].idx = i}
NewChunk(i, st) == [idx |-> i, st |-> st, pr |-> FALSE, text |-> 0]

Spend(what) == budget[what] > 0 /\ budget' = [budget EXCEPT ![what] = @ - 1]

\* A handler that has ops still to execute; no tells equal ones apart.
Op(op, arg) == [op |-> op, arg |-> arg]
Handler(no, ops) == [no |-> no, ops |-> ops]
Started(ops) ==
    threads \cup {Handler(Min(1..(Cardinality(threads) + 1) \ {t.no : t \in threads}), ops)}

\* handleCreateBuild up to the insertion of the first job.
BuildInit ==
    /\ build = "running"
    /\ chunks = [c \in 1..InitialChunks |->
                   NewChunk(c - 1, IF c = 1 THEN "running" ELSE "pending")]
    /\ chunkJobs = << >>
    /\ recent = {}
    /\ threads = {Handler(1, <<Op("create", 0)>>)}
    /\ briefed = [c \in ChunkIds |-> NotBriefed]
    /\ prs = [c \in ChunkIds |-> "none"]
    /\ budget \in BuildBudgets

--------------------
(* River: a job is unique by its index within a fifteen-minute period, *)
(* finished jobs included and discarded ones not. *)
InsertJob(i) ==
    IF \E k \in recent : chunkJobs[k].idx = i
    THEN UNCHANGED <<chunkJobs, recent>>
    ELSE /\ chunkJobs' = Append(chunkJobs, [idx |-> i, st |-> "available", att |-> 0,
                                            id |-> 0, text |-> 0, seen |-> "none"])
         /\ recent' = recent \cup {Len(chunkJobs) + 1}

NewPeriod ==
    /\ recent # {} /\ Spend("periods")
    /\ recent' = {}
    /\ UNCHANGED <<build, chunks, chunkJobs, threads, briefed, prs>>

\* The job is over for good, with or without its build marked.
JobEnds(j, how) ==
    /\ chunkJobs' = [chunkJobs EXCEPT ![j].st = how]
    /\ recent' = recent \ {j}

\* Attempt att ends in an error of the worker's own: another one follows, or
\* River discards the job and nobody marks the build.
AttemptFails(j, att) ==
    /\ chunkJobs' = [chunkJobs EXCEPT ![j].att = att,
                                      ![j].st = IF att < ChunkAttempts THEN "available" ELSE "abandoned"]
    /\ recent' = IF att < ChunkAttempts THEN recent ELSE recent \ {j}

--------------------
(* ProcessExecuteChunk. *)

\* A chunk whose pull request is open or merged is not dispatched again.
NeedsDispatch(c) == chunks[c].st \notin {"pr_opened", "merged"}

\* GetBuild reads the build and then its chunks; a build that stopped running
\* between the two is one that stopped after both.  That no row has the job's
\* index is shown not to happen (JobFindsItsChunk).
FetchJob(j) ==
    /\ chunkJobs[j].st = "available"
    /\ LET att == chunkJobs[j].att + 1
           found == IdAt(chunkJobs[j].idx)
       IN \/ /\ build # "running" \/ \E c \in found : ~NeedsDispatch(c)
             /\ chunkJobs' = [chunkJobs EXCEPT ![j].st = "done", ![j].att = att]
          \/ /\ build = "running"
             /\ \E c \in found :
                   /\ NeedsDispatch(c)
                   /\ chunkJobs' = [chunkJobs EXCEPT ![j].st = "fetched", ![j].att = att,
                                          ![j].id = c, ![j].text = chunks[c].text, ![j].seen = chunks[c].st]
    /\ UNCHANGED <<build, chunks, recent, threads, briefed, prs, budget>>

FetchFails(j) ==
    /\ chunkJobs[j].st = "available" /\ Spend("faults")
    /\ AttemptFails(j, chunkJobs[j].att + 1)
    /\ UNCHANGED <<build, chunks, threads, briefed, prs>>

\* UpdateChunkStatus asks nothing about the status it overwrites.
MarkChunkRunning(j) ==
    /\ chunkJobs[j].st = "fetched"
    /\ chunks' = [chunks EXCEPT ![chunkJobs[j].id].st = "running"]
    /\ chunkJobs' = [chunkJobs EXCEPT ![j].st = "marked"]
    /\ UNCHANGED <<build, recent, threads, briefed, prs, budget>>

MarkFails(j) ==
    /\ chunkJobs[j].st = "fetched" /\ Spend("faults")
    /\ AttemptFails(j, chunkJobs[j].att)
    /\ UNCHANGED <<build, chunks, threads, briefed, prs>>

Brief(j) == briefed' = [briefed EXCEPT ![chunkJobs[j].id] = chunkJobs[j].text]

DispatchChunk(j) ==
    /\ chunkJobs[j].st = "marked"
    /\ Brief(j)
    /\ chunkJobs' = [chunkJobs EXCEPT ![j].st = "done"]
    /\ UNCHANGED <<build, chunks, recent, threads, prs, budget>>

\* handleFinalDispatchFailure, and then River's discarding of the job.
FinalFailure(j) == <<Op("fail chunk", chunkJobs[j].id), Op("fail build", 0), Op("discard", j)>>

\* The answer is an error or does not come; Brain may have taken the prompt.
DispatchFails(j) ==
    /\ chunkJobs[j].st = "marked" /\ Spend("faults")
    /\ Brief(j) \/ UNCHANGED briefed
    /\ IF chunkJobs[j].att < ChunkAttempts
       THEN AttemptFails(j, chunkJobs[j].att) /\ UNCHANGED threads
       ELSE /\ chunkJobs' = [chunkJobs EXCEPT ![j].st = "failing"]
            /\ threads' = Started(FinalFailure(j))
            /\ UNCHANGED recent
    /\ UNCHANGED <<build, chunks, prs>>

--------------------
(* The pull requests, as Synapse reports them. *)

OpenPR(c) ==
    /\ briefed[c] # NotBriefed /\ prs[c] = "none"
    /\ prs' = [prs EXCEPT ![c] = "open"]
    /\ UNCHANGED <<build, chunks, chunkJobs, recent, threads, briefed, budget>>

PRTurns(c) ==
    /\ \/ prs[c] = "open" /\ prs' = [prs EXCEPT ![c] = "merged"]
       \/ prs[c] = "open" /\ budget.faults > 0 /\ prs' = [prs EXCEPT ![c] = "failed"]
       \/ prs[c] = "failed" /\ prs' = [prs EXCEPT ![c] = "open"]
    /\ IF prs'[c] = "failed" THEN Spend("faults") ELSE UNCHANGED budget
    /\ UNCHANGED <<build, chunks, chunkJobs, recent, threads, briefed>>

AttachChunkPR(c) ==
    /\ prs[c] # "none" /\ c \in Rows
    /\ chunks' = [chunks EXCEPT ![c].pr = TRUE,
                                ![c].st = IF @ \in {"merged", "failed"} THEN @ ELSE "pr_opened"]
    /\ chunks' # chunks
    /\ UNCHANGED <<build, chunkJobs, recent, threads, briefed, prs, budget>>

\* The chunk to do next: the first unmerged one after the merged one, else the
\* first unmerged one, else none.
ComputeNextChunkIndex(rows, cur) ==
    LET open == {rows[c].idx : c \in {d \in Rows : rows[d].st # "merged"}}
        later == {i \in open : i > cur}
    IN CASE later # {} -> Min(later)
         [] later = {} /\ open # {} -> Min(open)
         [] OTHER -> -1

\* AdvanceChunkByPR is one transaction; the job of the next chunk is inserted
\* after it.  A repeated report finds the chunk merged and goes through the
\* same motions, which is how a lost insertion is made good.
AdvanceChunkByPR(c) ==
    /\ prs[c] = "merged" /\ c \in Rows /\ chunks[c].pr /\ build # "cancelled"
    /\ Spend("advances")
    /\ LET rows == [chunks EXCEPT ![c].st = "merged"]
           next == ComputeNextChunkIndex(rows, chunks[c].idx)
       IN IF next >= 0
          THEN /\ build' = IF build = "failed" THEN "running" ELSE build
               /\ chunks' = [d \in Rows |-> IF rows[d].idx = next /\ rows[d].st = "pending"
                                            THEN [rows[d] EXCEPT !.st = "running"] ELSE rows[d]]
               /\ threads' = Started(<<Op("enqueue", next)>>)
          ELSE /\ build' = "completed" /\ chunks' = rows /\ UNCHANGED threads
    /\ UNCHANGED <<chunkJobs, recent, briefed, prs>>

FailChunkByPR(c) ==
    /\ prs[c] = "failed" /\ c \in Rows /\ chunks[c].pr
    /\ chunks[c].st \notin {"merged", "failed"}
    /\ chunks' = [chunks EXCEPT ![c].st = "failed"]
    /\ threads' = Started(<<Op("fail running build", 0)>>)
    /\ UNCHANGED <<build, chunkJobs, recent, briefed, prs, budget>>

\* handleSyncPRWidget reads the build and, when the pull request of a failed
\* chunk is alive, puts the chunk back, and the build when no failure is left.
\* What Synapse says of the pull request may be older than the failure.
RecoverBuildOnPRSync(c) ==
    \E alive \in BOOLEAN :
        LET revived == alive /\ chunks[c].st = "failed"
            failures == {d \in Rows : chunks[d].st = "failed"} \ (IF revived THEN {c} ELSE {})
            todo == (IF revived THEN <<Op("revive chunk", c)>> ELSE << >>)
                    \o (IF build = "failed" /\ failures = {} THEN <<Op("revive build", 0)>> ELSE << >>)
        IN /\ chunks[c].pr /\ build # "cancelled" /\ todo # << >>
           /\ Spend("syncs") /\ threads' = Started(todo)
           /\ UNCHANGED <<build, chunks, chunkJobs, recent, briefed, prs>>

--------------------
(* The operator and the editing of chunks that have not started; the edits *)
(* lock the build and its chunks and are one transaction each. *)

Cancellable == {c \in Rows : chunks[c].st \in {"pending", "running"}}

InOrder(S) ==
    [i \in 1..Cardinality(S) |->
        CHOOSE c \in S : Cardinality({d \in S : chunks[d].idx <= chunks[c].idx}) = i]

\* When GetBuild fails the handler goes on without the chunks and without
\* knowing whether the build is over.
HandleBuildCancel ==
    /\ Spend("cancels")
    /\ \/ /\ build \notin {"completed", "failed"}
          /\ threads' = Started(<<Op("cancel build", 0)>> \o
                          [i \in 1..Cardinality(Cancellable) |-> Op("cancel chunk", InOrder(Cancellable)[i])])
       \/ /\ budget.faults > 0
          /\ threads' = Started(<<Op("cancel build", 0)>>)
    /\ UNCHANGED <<build, chunks, chunkJobs, recent, briefed, prs>>

EditAny(c) == build = "running"
Editable(c) == build = "running" /\ chunks[c].st = "pending"

Edit == Spend("edits")

UpdateChunk(c) ==
    /\ Edit /\ Editable(c)
    /\ chunks' = [chunks EXCEPT ![c].text = @ + 1]
    /\ UNCHANGED <<build, chunkJobs, recent, threads, briefed, prs>>

AppendChunk ==
    LET next == 1 + Max({chunks[c].idx : c \in Rows})
        id == Min({n \in ChunkIds : n > next /\ n \notin Rows})
    IN /\ Edit /\ build = "running"
       /\ chunks' = [c \in Rows \cup {id} |->
                       IF c = id THEN NewChunk(next, "pending") ELSE chunks[c]]
       /\ UNCHANGED <<build, chunkJobs, recent, threads, briefed, prs>>

\* The indices behind a removed chunk move up by one.
Compacted(c) ==
    [d \in Rows \ {c} |-> IF chunks[d].idx > chunks[c].idx
                          THEN [chunks[d] EXCEPT !.idx = @ - 1] ELSE chunks[d]]

RemoveChunk(c) ==
    /\ Edit /\ Editable(c) /\ Cardinality(Rows) > 1
    /\ chunks' = Compacted(c)
    /\ UNCHANGED <<build, chunkJobs, recent, threads, briefed, prs>>

--------------------
(* One statement of a handler in progress. *)
First(t) == Head(t.ops)
GoesOn(t, rest) ==
    threads' = (threads \ {t}) \cup (IF rest = << >> THEN {} ELSE {Handler(t.no, rest)})

\* insertRiverJob.
EnqueueChunk(t) ==
    /\ First(t).op \in {"create", "enqueue"}
    /\ InsertJob(First(t).arg) /\ GoesOn(t, Tail(t.ops))
    /\ UNCHANGED <<build, chunks, briefed, prs, budget>>

\* UpdateBuildStatus, and the statement of FailChunkByPR that asks first.
WriteBuild(t) ==
    /\ First(t).op \in {"cancel build", "revive build", "fail build", "fail running build"}
    /\ build' = CASE First(t).op = "cancel build" -> "cancelled"
                  [] First(t).op = "revive build" -> "running"
                  [] First(t).op = "fail build" -> "failed"
                  [] First(t).op = "fail running build" -> IF build = "running" THEN "failed" ELSE build
    /\ GoesOn(t, Tail(t.ops))
    /\ UNCHANGED <<chunks, chunkJobs, recent, briefed, prs, budget>>

\* UpdateChunkStatus.
NewStatus(op) ==
    CASE op = "cancel chunk" -> "cancelled" [] op = "revive chunk" -> "pr_opened" [] op = "fail chunk" -> "failed"
WriteChunk(t) ==
    /\ First(t).op \in {"cancel chunk", "revive chunk", "fail chunk"}
    /\ chunks' = IF First(t).arg \in Rows THEN [chunks EXCEPT ![First(t).arg].st = NewStatus(First(t).op)]
                 ELSE chunks
    /\ GoesOn(t, Tail(t.ops))
    /\ UNCHANGED <<build, chunkJobs, recent, briefed, prs, budget>>

\* River takes note that the last attempt failed.
DiscardJob(t) ==
    /\ First(t).op \in {"discard", "abandon"}
    /\ JobEnds(First(t).arg, IF First(t).op = "discard" THEN "discarded" ELSE "abandoned")
    /\ GoesOn(t, Tail(t.ops))
    /\ UNCHANGED <<build, chunks, briefed, prs, budget>>

\* What a handler does after a statement that failed: the answer is an error
\* (enqueue, cancel build), the build is failed in turn (create), the chunk
\* still counts as failed and so the build is left (revive chunk), or the
\* error is only logged.
AfterError(t) ==
    CASE First(t).op \in {"enqueue", "cancel build", "revive chunk"} -> << >>
      [] First(t).op = "create" -> <<Op("fail build", 0)>>
      [] First(t).op = "fail build" /\ Len(t.ops) = 2 -> <<Op("abandon", t.ops[2].arg)>>
      [] OTHER -> Tail(t.ops)

StatementFails(t) ==
    /\ First(t).op \notin {"discard", "abandon"} /\ Spend("faults")
    /\ GoesOn(t, AfterError(t))
    /\ UNCHANGED <<build, chunks, chunkJobs, recent, briefed, prs>>

Statement(t) == EnqueueChunk(t) \/ WriteBuild(t) \/ WriteChunk(t) \/ DiscardJob(t)

\* The process stops; River rescues the jobs it was working on.
VanadisCrash ==
    LET cut == {j \in DOMAIN chunkJobs : chunkJobs[j].st \in {"fetched", "marked", "failing"}}
        spent == {j \in cut : chunkJobs[j].att >= ChunkAttempts}
    IN /\ Spend("faults")
       /\ threads' = {}
       /\ chunkJobs' = [j \in DOMAIN chunkJobs |->
            IF j \in spent THEN [chunkJobs[j] EXCEPT !.st = "abandoned"]
            ELSE IF j \in cut THEN [chunkJobs[j] EXCEPT !.st = "available"]
            ELSE chunkJobs[j]]
       /\ recent' = recent \ spent
       /\ UNCHANGED <<build, chunks, briefed, prs>>

--------------------
ChunkWork ==
    \/ \E j \in DOMAIN chunkJobs : FetchJob(j) \/ MarkChunkRunning(j) \/ DispatchChunk(j)
    \/ \E t \in threads : Statement(t)

BuildNext ==
    \/ ChunkWork
    \/ \E j \in DOMAIN chunkJobs : FetchFails(j) \/ MarkFails(j) \/ DispatchFails(j)
    \/ \E t \in threads : StatementFails(t)
    \/ \E c \in ChunkIds : OpenPR(c) \/ PRTurns(c)
    \/ \E c \in Rows : \/ AttachChunkPR(c) \/ AdvanceChunkByPR(c) \/ FailChunkByPR(c)
                       \/ RecoverBuildOnPRSync(c) \/ UpdateChunk(c) \/ RemoveChunk(c)
    \/ AppendChunk
    \/ HandleBuildCancel
    \/ NewPeriod
    \/ VanadisCrash

BuildSpec == BuildInit /\ [][BuildNext]_buildVars /\ WF_buildVars(ChunkWork)

--------------------
ChunkStatuses == {"pending", "running", "pr_opened", "merged", "failed", "cancelled"}

\* The rows keep their domains and, however chunks were appended and removed,
\* their indices are exactly 0 .. n-1, which is what dispatch by index and the
\* choice of the next chunk rely on.
BuildTypeOK ==
    /\ build \in {"running", "completed", "failed", "cancelled"}
    /\ \A c \in Rows : chunks[c].st \in ChunkStatuses /\ chunks[c].pr \in BOOLEAN
    /\ {chunks[c].idx : c \in Rows} = 0..(Cardinality(Rows) - 1)

\* A job in River always finds its chunk: no edit removes or moves the chunk a
\* job was inserted for, so the worker's "chunk index not found" is never met.
JobFindsItsChunk ==
    \A j \in DOMAIN chunkJobs :
        /\ chunkJobs[j].st = "available" => IdAt(chunkJobs[j].idx) # {}
        /\ chunkJobs[j].st \in {"fetched", "marked", "failing"} => chunkJobs[j].id \in IdAt(chunkJobs[j].idx)

\* What the agent of a chunk was told is what the row says: an edit never
\* changes a chunk between the worker's read of it and its dispatch, or later.
BriefIsCurrent ==
    \A c \in Rows : briefed[c] # NotBriefed => briefed[c] = chunks[c].text

\* Chunks are done in order: one is handed to an agent only when the pull
\* requests of all the chunks before it are on the main branch.
BriefsInOrder ==
    \A c \in Rows : briefed'[c] # briefed[c] =>
       \A d \in Rows : chunks[d].idx < chunks[c].idx => prs[d] = "merged"

\* A build is declared completed only by the report that finds every chunk's
\* pull request merged.
CompletesWhenMerged ==
    build # "completed" /\ build' = "completed" => \A c \in Rows : prs[c] = "merged"

\* Once recorded as merged a chunk is put back only by a handler that had read
\* it before: a worker between its read and its write or its last failure, or
\* a cancellation or widget synchronisation in progress.
UnmergesWhenStale ==
    \A c \in Rows : chunks[c].st = "merged" /\ c \in DOMAIN chunks' /\ chunks'[c].st # "merged" =>
       \/ \E j \in DOMAIN chunkJobs : /\ chunkJobs[j].st \in {"fetched", "failing"}
                                      /\ chunkJobs[j].id = c /\ chunkJobs[j].seen # "merged"
       \/ \E t \in threads : First(t).op \in {"cancel chunk", "revive chunk"} /\ First(t).arg = c

\* A job that is queued is dispatched, or its build stops running, or its last
\* attempt was abandoned: a crash, or an error of the store where the build
\* would have been marked.
JobNumbers == 1..(1 + Max({b.advances : b \in BuildBudgets}))
JobQueued(j) == j \in DOMAIN chunkJobs /\ chunkJobs[j].st = "available"
JobSettled(j) ==
    /\ j \in DOMAIN chunkJobs
    /\ \/ \E c \in IdAt(chunkJobs[j].idx) : briefed[c] # NotBriefed
       \/ build # "running"
       \/ chunkJobs[j].st = "abandoned"

\* A build's queued jobs, its chunks and what the agents were told agree, although
\* chunks are edited, inserted and cancelled while jobs wait and run.
BuildIsSound ==
    /\ BuildTypeOK /\ JobFindsItsChunk /\ BriefIsCurrent
====================
