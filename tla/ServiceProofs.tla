----------- MODULE ServiceProofs -----------
(* The builds of vanadis, the calls of prospera and the messages synapse *)
(* catches up on, for every value of their parameters.  Each of the three *)
(* parts has its inductive invariant: BuildInv, CallInv and IngressInv. *)
(* That an index has been reached, who has the report of a call and which *)
(* messages a page covers is what the statements the runs check leave *)
(* unsaid and need. *)
EXTENDS ChunkBuild, PhoneCall, DiscordIngress, FiniteSetTheorems, SequenceTheorems, WellFoundedInduction, TLAPS

--------------------
(* ChunkBuild.  The indices of the rows are 0 .. n-1, one row each.  An *)
(* index is reached when no row up to it is pending and the requests of *)
(* the rows before it are merged; it stays so, with its row and the text *)
(* of it, whatever is edited, because an edit moves pending rows only. *)
(* Every job, every insertion still to come, every row with a pull request *)
(* and every agent's brief is about an index that was reached. *)

ChunkRow == [idx : Nat, st : ChunkStatuses, pr : BOOLEAN, text : Nat]
JobRow == [idx : Nat, st : {"available", "fetched", "marked", "failing", "done", "discarded", "abandoned"},
           att : Nat, id : Nat, text : Nat, seen : ChunkStatuses \cup {"none"}]
OpNames == {"create", "enqueue", "fail chunk", "fail build", "fail running build", "discard",
            "abandon", "revive chunk", "revive build", "cancel build", "cancel chunk"}

\* The statements of a handler that no failed job has started.
PlainNames == {"create", "enqueue", "fail running build", "revive chunk", "revive build",
               "cancel build", "cancel chunk"}
Plain(ops) == \E A : ops \in Seq([op : PlainNames, arg : A])

BuildTypes ==
    /\ build \in {"running", "completed", "failed", "cancelled"}
    /\ briefed \in [ChunkIds -> Nat \cup {NotBriefed}]
    /\ prs \in [ChunkIds -> {"none", "open", "merged", "failed"}]
    /\ budget \in [Bounds -> Nat]

RowsAreDense ==
    /\ chunks = [c \in Rows |-> chunks[c]]
    /\ \A c \in Rows : chunks[c] \in ChunkRow
    /\ Rows \subseteq 1 .. (MaxChunkId - budget["edits"]) /\ IsFiniteSet(Rows) /\ Rows # {}
    /\ \A c, d \in Rows : chunks[c].idx = chunks[d].idx => c = d
    /\ {chunks[c].idx : c \in Rows} = 0 .. (Cardinality(Rows) - 1)

Reached ==
    {i \in {chunks[c].idx : c \in Rows} :
        \A c \in Rows : /\ chunks[c].idx <= i => chunks[c].st # "pending"
                        /\ chunks[c].idx < i => prs[c] = "merged"}

RowsFollowRequests ==
    \A c \in Rows : /\ chunks[c].pr => chunks[c].idx \in Reached
                    /\ chunks[c].st = "merged" => prs[c] = "merged"

JobFits(j) ==
    /\ chunkJobs[j].idx \in Reached
    /\ chunkJobs[j].st \in {"fetched", "marked", "failing"} =>
          /\ chunkJobs[j].id \in Rows
          /\ chunks[chunkJobs[j].id].idx = chunkJobs[j].idx
          /\ chunks[chunkJobs[j].id].text = chunkJobs[j].text
JobsFit == chunkJobs \in Seq(JobRow) /\ \A j \in DOMAIN chunkJobs : JobFits(j)

BriefsFit ==
    \A c \in ChunkIds :
        /\ prs[c] # "none" => briefed[c] # NotBriefed
        /\ briefed[c] # NotBriefed =>
              c \in Rows /\ briefed[c] = chunks[c].text /\ chunks[c].idx \in Reached

\* What a handler has still to do, whatever the arguments are.
OpList(ops) == \E A : ops \in Seq([op : OpNames, arg : A])
OpFits(o) == o.op \in {"create", "enqueue"} => o.arg \in Reached
OpsFit(ops) == OpList(ops) /\ ops # << >> /\ \A k \in 1 .. Len(ops) : OpFits(ops[k])
HandlersFit == \A t \in threads : OpsFit(t.ops)

BuildInv ==
    /\ BuildTypes /\ RowsAreDense /\ RowsFollowRequests /\ JobsFit /\ BriefsFit /\ HandlersFit

\* A set of numbers that is not empty has a least one.
LEMMA LeastIndex ==
    ASSUME NEW S \in SUBSET Nat, S # {}
    PROVE  \E m \in S : \A x \in S : m <= x
<1> DEFINE R == {ss \in Nat \X Nat : ss[1] < ss[2]}
<1>1. IsWellFoundedOn(R, Nat)
  BY NatLessThanWellFounded DEF OpToRel
<1>2. \A x, y \in Nat : x < y => <<x, y>> \in R
  OBVIOUS
<1> HIDE DEF R
<1>3. \E m \in S : \A x \in S : ~ (<<x, m>> \in R)
  BY <1>1, WFMin
<1>4. PICK m \in S : \A x \in S : ~ (<<x, m>> \in R)
  BY <1>3
<1>5. \A x \in S : ~ (x < m)
  BY <1>2, <1>4
<1> QED
  BY <1>5

LEMMA BuildMaximum ==
    /\ MaxChunkId \in Nat
    /\ \A b \in BuildBudgets : b \in [Bounds -> Nat] /\ InitialChunks + b["edits"] <= MaxChunkId
<1> DEFINE E == {b.edits : b \in BuildBudgets}
<1>0. \A b \in BuildBudgets : b \in [Bounds -> Nat] /\ b["edits"] \in Nat /\ b.edits = b["edits"]
  BY BuildAssumption DEF Bounds
<1>1. \E m \in E : \A e \in E : m >= e
  BY <1>0, BuildAssumption
<1>2. Max(E) \in E /\ \A e \in E : Max(E) >= e
  BY <1>1 DEF Max
<1>3. MaxChunkId = InitialChunks + Max(E)
  BY DEF MaxChunkId
<1>4. Max(E) \in Nat /\ \A b \in BuildBudgets : b["edits"] \in E
  BY <1>0, <1>2
<1> HIDE DEF E
<1>5. \A b \in BuildBudgets : b["edits"] \in Nat /\ Max(E) >= b["edits"]
  BY <1>0, <1>2, <1>4
<1>6. InitialChunks \in Nat
  BY BuildAssumption
<1> QED
  BY <1>0, <1>3, <1>4, <1>5, <1>6

\* What was reached stays reached, with its row and the text of it.
RowsStay ==
    /\ Reached \subseteq Reached'
    /\ \A c \in Rows : chunks[c].idx \in Reached =>
          c \in Rows' /\ chunks'[c].idx = chunks[c].idx /\ chunks'[c].text = chunks[c].text

\* A write of statuses and requests that puts nothing back to pending.
LEMMA RowsAreWritten ==
    ASSUME BuildInv, Rows' = Rows, chunks' = [c \in Rows |-> chunks'[c]],
           \A c \in Rows : /\ chunks'[c] \in ChunkRow
                           /\ chunks'[c].idx = chunks[c].idx /\ chunks'[c].text = chunks[c].text
                           /\ chunks'[c].st = "pending" => chunks[c].st = "pending"
                           /\ prs[c] = "merged" => prs'[c] = "merged",
           budget' \in [Bounds -> Nat], budget'["edits"] <= budget["edits"]
    PROVE  RowsAreDense' /\ RowsStay
<1>0. /\ RowsAreDense /\ budget["edits"] \in Nat /\ budget'["edits"] \in Nat
      /\ MaxChunkId' = MaxChunkId
  BY DEF BuildInv, BuildTypes, Bounds, MaxChunkId
<1>1. Rows' \subseteq 1 .. (MaxChunkId' - budget'["edits"])
  BY BuildMaximum, <1>0 DEF RowsAreDense
<1>2. {chunks'[c].idx : c \in Rows'} = {chunks[c].idx : c \in Rows}
  OBVIOUS
<1>3. RowsAreDense'
  BY <1>0, <1>1, <1>2 DEF RowsAreDense
<1>4. RowsStay
  BY DEF RowsStay, Reached
<1> QED
  BY <1>3, <1>4

LEMMA RowsIdle ==
    ASSUME BuildInv, chunks' = chunks, \A c \in Rows : prs[c] = "merged" => prs'[c] = "merged",
           budget' \in [Bounds -> Nat], budget'["edits"] <= budget["edits"]
    PROVE  RowsAreDense' /\ RowsStay
BY RowsAreWritten DEF Rows, BuildInv, RowsAreDense

\* The rest of the invariant, conjunct by conjunct.
LEMMA RequestsFollowed ==
    ASSUME BuildInv, RowsStay,
           \A c \in Rows' : /\ chunks'[c].pr => c \in Rows /\ (chunks[c].pr \/ chunks[c].idx \in Reached)
                            /\ chunks'[c].st = "merged" => prs'[c] = "merged"
    PROVE  RowsFollowRequests'
BY DEF RowsFollowRequests, BuildInv, RowsStay

Same(job, old) == /\ job.idx = old.idx
                  /\ job.st \in {"fetched", "marked", "failing"} =>
                        /\ old.st \in {"fetched", "marked", "failing"}
                        /\ job.id = old.id /\ job.text = old.text

LEMMA JobsStay ==
    ASSUME BuildInv, RowsStay, chunkJobs' \in Seq(JobRow), DOMAIN chunkJobs' = DOMAIN chunkJobs,
           \A j \in DOMAIN chunkJobs : Same(chunkJobs'[j], chunkJobs[j])
    PROVE  JobsFit'
BY DEF JobsFit, BuildInv, JobFits, RowsStay, Same

LEMMA JobsRest ==
    ASSUME BuildInv, RowsStay, chunkJobs' = chunkJobs
    PROVE  JobsFit'
  BY JobsStay DEF BuildInv, JobsFit, Same

LEMMA BriefsStay ==
    ASSUME BuildInv, RowsStay, briefed' = briefed,
           \A c \in ChunkIds : prs'[c] # "none" => prs[c] # "none" \/ briefed[c] # NotBriefed
    PROVE  BriefsFit'
BY DEF BriefsFit, ChunkIds, MaxChunkId, NotBriefed, BuildInv, RowsStay

LEMMA OpsStay ==
    ASSUME RowsStay, NEW ops, OpsFit(ops)
    PROVE  OpsFit(ops)'
  BY DEF OpsFit, OpFits, RowsStay

LEMMA HandlersStay ==
    ASSUME BuildInv, RowsStay, \A t \in threads' : t \in threads \/ OpsFit(t.ops)'
    PROVE  HandlersFit'
  BY OpsStay DEF BuildInv, HandlersFit

LEMMA RestFits ==
    ASSUME NEW ops, OpsFit(ops), Tail(ops) # << >>
    PROVE  OpsFit(Tail(ops))
<1>1. PICK A : ops \in Seq([op : OpNames, arg : A])
  BY DEF OpsFit, OpList
<1>2. Tail(ops) \in Seq([op : OpNames, arg : A]) /\ Len(Tail(ops)) = Len(ops) - 1
      /\ \A k \in 1 .. Len(Tail(ops)) : Tail(ops)[k] = ops[k + 1]
  BY <1>1 DEF OpsFit
<1>3. \A k \in 1 .. Len(Tail(ops)) : OpFits(Tail(ops)[k])
  BY <1>1, <1>2 DEF OpsFit
<1> QED
  BY <1>2, <1>3 DEF OpsFit, OpList

LEMMA BoundSpent ==
    ASSUME BuildInv, NEW what \in Bounds, Spend(what)
    PROVE  /\ budget' \in [Bounds -> Nat] /\ budget'["edits"] <= budget["edits"]
           /\ what = "edits" => budget["edits"] > 0 /\ budget'["edits"] = budget["edits"] - 1
BY DEF BuildInv, BuildTypes, Bounds, Spend

LEMMA BoundKept ==
    ASSUME BuildInv, budget' = budget
    PROVE  budget' \in [Bounds -> Nat] /\ budget'["edits"] <= budget["edits"]
  BY DEF BuildInv, BuildTypes, Bounds

LEMMA HandlerStarts ==
    ASSUME BuildInv, RowsStay, NEW ops, threads' = Started(ops), OpsFit(ops)'
    PROVE  HandlersFit'
BY HandlersStay DEF Started, Handler

LEMMA HandlerGoesOn ==
    ASSUME BuildInv, RowsStay, NEW t \in threads, NEW rest, GoesOn(t, rest),
           rest = << >> \/ OpsFit(rest)'
    PROVE  HandlersFit'
BY HandlersStay DEF GoesOn, Handler

LEMMA HandlerSteps ==
    ASSUME BuildInv, RowsStay, NEW t \in threads, GoesOn(t, Tail(t.ops))
    PROVE  HandlersFit'
BY RestFits, OpsStay, HandlerGoesOn DEF BuildInv, HandlersFit

\* The first statement of a handler in progress.
LEMMA FirstFits ==
    ASSUME BuildInv, NEW t \in threads
    PROVE  First(t).op \in OpNames /\ OpFits(First(t)) /\ OpsFit(t.ops)
<1>1. OpsFit(t.ops)
  BY DEF BuildInv, HandlersFit
<1>2. PICK A : t.ops \in Seq([op : OpNames, arg : A])
  BY <1>1 DEF OpsFit, OpList
<1> DEFINE S == [op : OpNames, arg : A]
<1>a. \A o \in S : o.op \in OpNames
  OBVIOUS
<1> HIDE DEF S
<1>3. 1 \in 1 .. Len(t.ops) /\ First(t) = t.ops[1] /\ t.ops[1] \in S
  <2>1. t.ops \in Seq(S) /\ t.ops # << >>
    BY <1>1, <1>2 DEF OpsFit, S
  <2> QED
    BY <2>1 DEF First
<1>4. First(t).op \in OpNames
  BY <1>a, <1>3
<1>5. OpFits(First(t))
  BY <1>1, <1>3 DEF OpsFit, OpFits
<1> QED
  BY <1>1, <1>4, <1>5

LEMMA ListOfLength ==
    ASSUME NEW S, NEW n \in Nat, NEW f \in [1 .. n -> S]
    PROVE  f \in Seq(S) /\ Len(f) = n
  OBVIOUS

LEMMA PlainFits ==
    ASSUME NEW ops, Plain(ops), ops # << >>, \A k \in 1 .. Len(ops) : OpFits(ops[k])
    PROVE  OpsFit(ops)
<1>1. PICK A : ops \in Seq([op : PlainNames, arg : A])
  BY DEF Plain
<1>2. [op : PlainNames, arg : A] \subseteq [op : OpNames, arg : A]
  BY DEF PlainNames, OpNames
<1> DEFINE R == [op : PlainNames, arg : A]  S == [op : OpNames, arg : A]
<1> HIDE DEF R, S
<1>3. ops \in Seq(R) /\ R \subseteq S
  BY <1>1, <1>2 DEF R, S
<1>4. ops \in Seq(S)
  BY <1>3
<1> QED
  BY <1>4 DEF OpsFit, OpList, S

\* A job gets a new row.
LEMMA JobChanges ==
    ASSUME BuildInv, RowsStay, NEW j \in DOMAIN chunkJobs, NEW new \in JobRow,
           chunkJobs' = [chunkJobs EXCEPT ![j] = new],
           \/ Same(new, chunkJobs[j])
           \/ /\ new.idx = chunkJobs[j].idx /\ new.id \in Rows
              /\ chunks[new.id].idx = new.idx /\ chunks[new.id].text = new.text
    PROVE  JobsFit'
BY DEF BuildInv, JobsFit, JobFits, RowsStay, Same

\* Its status and attempt, which ask for nothing when it is not under way.
LEMMA JobIsPut ==
    ASSUME BuildInv, RowsStay, NEW j \in DOMAIN chunkJobs, NEW att \in Nat,
           NEW s \in {"available", "fetched", "marked", "failing", "done", "discarded", "abandoned"},
           s \in {"fetched", "marked", "failing"} => chunkJobs[j].st \in {"fetched", "marked", "failing"},
           chunkJobs' = [chunkJobs EXCEPT ![j] = [chunkJobs[j] EXCEPT !.att = att, !.st = s]]
    PROVE  JobsFit'
<1> DEFINE new == [chunkJobs[j] EXCEPT !.att = att, !.st = s]
<1>1. chunkJobs[j] \in JobRow
  BY DEF BuildInv, JobsFit
<1>2. new \in JobRow /\ Same(new, chunkJobs[j])
  BY <1>1 DEF JobRow, Same
<1> HIDE DEF new
<1>3. chunkJobs' = [chunkJobs EXCEPT ![j] = new]
  BY DEF new
<1> QED
  BY <1>2, <1>3, JobChanges

LEMMA JobIsOver ==
    ASSUME BuildInv, RowsStay, NEW j, NEW how \in {"discarded", "abandoned"}, JobEnds(j, how)
    PROVE  JobsFit'
<1>1. CASE j \in DOMAIN chunkJobs
  <2>1. chunkJobs[j] \in JobRow
    BY <1>1 DEF BuildInv, JobsFit
  <2>2. [chunkJobs[j] EXCEPT !.st = how] = [chunkJobs[j] EXCEPT !.att = chunkJobs[j].att, !.st = how]
        /\ chunkJobs[j].att \in Nat
    BY <2>1 DEF JobRow
  <2> QED
    BY <1>1, <2>2, JobIsPut DEF JobEnds
<1>2. CASE j \notin DOMAIN chunkJobs
  BY <1>2, JobsRest DEF JobEnds, BuildInv, JobsFit
<1> QED
  BY <1>1, <1>2

LEMMA AttemptIsOver ==
    ASSUME BuildInv, RowsStay, NEW j \in DOMAIN chunkJobs, NEW att \in Nat, AttemptFails(j, att)
    PROVE  JobsFit'
BY JobIsPut DEF AttemptFails

\* A step that writes neither rows nor requests nor briefs.
LEMMA RowsLeft ==
    ASSUME BuildInv, UNCHANGED <<chunks, prs>>,
           budget' \in [Bounds -> Nat], budget'["edits"] <= budget["edits"]
    PROVE  RowsStay /\ RowsAreDense' /\ RowsFollowRequests'
BY RowsIdle, RequestsFollowed DEF Rows, BuildInv, RowsFollowRequests

LEMMA BriefsLeft ==
    ASSUME BuildInv, UNCHANGED <<chunks, prs, briefed>>,
           build' \in {"running", "completed", "failed", "cancelled"},
           budget' \in [Bounds -> Nat], budget'["edits"] <= budget["edits"]
    PROVE  RowsStay /\ RowsAreDense' /\ RowsFollowRequests' /\ BriefsFit' /\ BuildTypes'
BY RowsLeft, BriefsStay DEF BuildInv, BuildTypes, ChunkIds, MaxChunkId, NotBriefed

LEMMA HandlersLeft ==
    ASSUME BuildInv, RowsStay, threads' \subseteq threads
    PROVE  HandlersFit'
  BY HandlersStay

\* The worker's steps (ProcessExecuteChunk).
LEMMA FetchKept ==
    ASSUME BuildInv, NEW j \in DOMAIN chunkJobs, FetchJob(j)
    PROVE  BuildInv'
<1> DEFINE att == chunkJobs[j].att + 1
<1>1. RowsStay /\ RowsAreDense' /\ RowsFollowRequests' /\ BriefsFit' /\ BuildTypes' /\ HandlersFit'
  BY BoundKept, BriefsLeft, HandlersLeft DEF FetchJob, BuildInv, BuildTypes
<1>2. chunkJobs[j] \in JobRow /\ att \in Nat
  <2>1. chunkJobs[j] \in JobRow
    BY DEF BuildInv, JobsFit
  <2> QED
    BY <2>1 DEF JobRow
<1>3. CASE chunkJobs' = [chunkJobs EXCEPT ![j].st = "done", ![j].att = att]
  <2>1. [chunkJobs[j] EXCEPT !.st = "done", !.att = att] = [chunkJobs[j] EXCEPT !.att = att, !.st = "done"]
    BY <1>2 DEF JobRow
  <2>2. chunkJobs' = [chunkJobs EXCEPT ![j] = [chunkJobs[j] EXCEPT !.att = att, !.st = "done"]]
    BY <1>3, <2>1
  <2>3. JobsFit'
    BY <1>1, <1>2, <2>2, JobIsPut
  <2> QED
    BY <1>1, <2>3 DEF BuildInv
<1>4. ASSUME NEW c \in IdAt(chunkJobs[j].idx),
             chunkJobs' = [chunkJobs EXCEPT ![j].st = "fetched", ![j].att = att,
                               ![j].id = c, ![j].text = chunks[c].text, ![j].seen = chunks[c].st]
      PROVE  BuildInv'
  <2> DEFINE new == [chunkJobs[j] EXCEPT !.st = "fetched", !.att = att, !.id = c,
                                         !.text = chunks[c].text, !.seen = chunks[c].st]
  <2>1. c \in Rows /\ chunks[c] \in ChunkRow /\ c \in Nat /\ chunks[c].idx = chunkJobs[j].idx
    BY BuildMaximum DEF IdAt, BuildInv, RowsAreDense, BuildTypes, Bounds
  <2>2. new \in JobRow /\ new.idx = chunkJobs[j].idx /\ new.id = c /\ new.text = chunks[c].text
    BY <1>2, <2>1 DEF JobRow, ChunkRow
  <2>3. chunkJobs' = [chunkJobs EXCEPT ![j] = new]
    BY <1>4
  <2> HIDE DEF new
  <2>4. JobsFit'
    BY <1>1, <2>1, <2>2, <2>3, JobChanges
  <2> QED
    BY <1>1, <2>4 DEF BuildInv
<1> QED
  BY <1>3, <1>4 DEF FetchJob

LEMMA MarkKept ==
    ASSUME BuildInv, NEW j \in DOMAIN chunkJobs, MarkChunkRunning(j)
    PROVE  BuildInv'
<1> DEFINE c == chunkJobs[j].id
<1>0. JobFits(j) /\ chunkJobs[j] \in JobRow
  BY DEF BuildInv, JobsFit
<1>1. c \in Rows
  BY <1>0 DEF JobFits, MarkChunkRunning
<1>2. /\ Rows' = Rows /\ chunks' = [d \in Rows |-> chunks'[d]]
      /\ \A d \in Rows : d # c => chunks'[d] = chunks[d]
      /\ chunks'[c] = [chunks[c] EXCEPT !.st = "running"]
  <2>1. chunks' = [chunks EXCEPT ![c].st = "running"] /\ chunks = [d \in Rows |-> chunks[d]]
    BY DEF MarkChunkRunning, BuildInv, RowsAreDense
  <2> HIDE DEF c
  <2> QED
    BY <1>1, <2>1 DEF Rows
<1>3. \A d \in Rows : chunks[d] \in ChunkRow
  BY DEF BuildInv, RowsAreDense
<1>4. \A d \in Rows : /\ chunks'[d] \in ChunkRow /\ chunks'[d].idx = chunks[d].idx
                      /\ chunks'[d].text = chunks[d].text /\ chunks'[d].pr = chunks[d].pr
                      /\ chunks'[d].st \in {chunks[d].st, "running"}
  BY <1>2, <1>3 DEF ChunkRow, ChunkStatuses
<1> HIDE DEF c
<1>5. RowsAreDense' /\ RowsStay
  BY <1>2, <1>4, BoundKept, RowsAreWritten DEF MarkChunkRunning
<1>6. RowsFollowRequests'
  BY <1>2, <1>4, <1>5, RequestsFollowed DEF MarkChunkRunning, BuildInv, RowsFollowRequests
<1>7. JobsFit'
  <2>1. chunkJobs' = [chunkJobs EXCEPT ![j] = [chunkJobs[j] EXCEPT !.att = chunkJobs[j].att, !.st = "marked"]]
        /\ chunkJobs[j].att \in Nat
    BY <1>0 DEF MarkChunkRunning, JobRow
  <2> QED
    BY <1>5, <2>1, JobIsPut DEF MarkChunkRunning
<1>8. BriefsFit' /\ HandlersFit'
  BY <1>5, BriefsStay, HandlersLeft DEF MarkChunkRunning
<1>9. BuildTypes'
  BY DEF MarkChunkRunning, BuildInv, BuildTypes, ChunkIds, MaxChunkId, NotBriefed
<1> QED
  BY <1>5, <1>6, <1>7, <1>8, <1>9 DEF BuildInv

\* The agent of a job's chunk is told what the row says.
LEMMA BriefIsGiven ==
    ASSUME BuildInv, NEW j \in DOMAIN chunkJobs, chunkJobs[j].st = "marked",
           Brief(j) \/ UNCHANGED briefed, UNCHANGED <<build, chunks, prs>>,
           budget' \in [Bounds -> Nat], budget'["edits"] <= budget["edits"]
    PROVE  RowsStay /\ RowsAreDense' /\ RowsFollowRequests' /\ BriefsFit' /\ BuildTypes'
<1>1. RowsStay /\ RowsAreDense' /\ RowsFollowRequests'
  BY RowsLeft
<1>2. CASE UNCHANGED briefed
  BY <1>2, BriefsLeft DEF BuildInv, BuildTypes
<1>3. CASE Brief(j)
  <2> DEFINE c == chunkJobs[j].id
  <2>1. /\ c \in Rows /\ chunks[c].text = chunkJobs[j].text /\ chunks[c].idx \in Reached
        /\ chunkJobs[j] \in JobRow
    BY DEF BuildInv, JobsFit, JobFits
  <2>2. briefed' = [briefed EXCEPT ![c] = chunks[c].text] /\ chunks[c].text \in Nat
    BY <1>3, <2>1 DEF Brief, JobRow
  <2>3. briefed \in [ChunkIds -> Nat \cup {NotBriefed}] /\ ChunkIds' = ChunkIds
    BY DEF BuildInv, BuildTypes, ChunkIds, MaxChunkId
  <2> HIDE DEF c
  <2>4. BuildTypes'
    BY <2>2, <2>3 DEF BuildInv, BuildTypes, NotBriefed
  <2>5. BriefsFit'
    BY <2>3, <2>2, <1>1, <2>1 DEF BriefsFit, NotBriefed, Rows, RowsStay, BuildInv
  <2> QED
    BY <1>1, <2>4, <2>5
<1> QED
  BY <1>2, <1>3

LEMMA DispatchKept ==
    ASSUME BuildInv, NEW j \in DOMAIN chunkJobs, DispatchChunk(j)
    PROVE  BuildInv'
<1>1. RowsStay /\ RowsAreDense' /\ RowsFollowRequests' /\ BriefsFit' /\ BuildTypes' /\ HandlersFit'
  BY BriefIsGiven, BoundKept, HandlersLeft DEF DispatchChunk
<1>2. chunkJobs[j] \in JobRow
  BY DEF BuildInv, JobsFit
<1>3. chunkJobs' = [chunkJobs EXCEPT ![j] = [chunkJobs[j] EXCEPT !.att = chunkJobs[j].att, !.st = "done"]]
      /\ chunkJobs[j].att \in Nat
  BY <1>2 DEF DispatchChunk, JobRow
<1>4. JobsFit'
  BY <1>1, <1>3, JobIsPut
<1> QED
  BY <1>1, <1>4 DEF BuildInv

LEMMA FailuresKept ==
    ASSUME BuildInv, NEW j \in DOMAIN chunkJobs, FetchFails(j) \/ MarkFails(j) \/ DispatchFails(j)
    PROVE  BuildInv'
<1>0. chunkJobs[j] \in JobRow /\ chunkJobs[j].att \in Nat /\ chunkJobs[j].att + 1 \in Nat
      /\ "faults" \in Bounds
  <2>1. chunkJobs[j] \in JobRow
    BY DEF BuildInv, JobsFit
  <2> QED
    BY <2>1 DEF JobRow, Bounds
<1>1. CASE FetchFails(j) \/ MarkFails(j)
  BY <1>0, <1>1, BoundSpent, BriefsLeft, HandlersLeft, AttemptIsOver DEF FetchFails, MarkFails,
     BuildInv, BuildTypes
<1>2. CASE DispatchFails(j)
  <2>1. budget' \in [Bounds -> Nat] /\ budget'["edits"] <= budget["edits"]
    BY <1>0, <1>2, BoundSpent DEF DispatchFails
  <2>2. RowsStay /\ RowsAreDense' /\ RowsFollowRequests' /\ BriefsFit' /\ BuildTypes'
    BY <1>2, <2>1, BriefIsGiven DEF DispatchFails
  <2>3. CASE AttemptFails(j, chunkJobs[j].att) /\ UNCHANGED threads
    BY <1>0, <2>2, <2>3, AttemptIsOver, HandlersLeft DEF BuildInv
  <2>4. CASE chunkJobs' = [chunkJobs EXCEPT ![j].st = "failing"] /\ threads' = Started(FinalFailure(j))
    <3>1. chunkJobs' = [chunkJobs EXCEPT ![j] = [chunkJobs[j] EXCEPT !.att = chunkJobs[j].att, !.st = "failing"]]
      BY <1>0, <2>4 DEF JobRow
    <3>2. JobsFit'
      BY <1>0, <1>2, <2>2, <3>1, JobIsPut DEF DispatchFails
    <3> DEFINE f == Op("fail chunk", chunkJobs[j].id)  g == Op("fail build", 0)  h == Op("discard", j)
    <3>3. OpsFit(<<f, g, h>>)
      <4> DEFINE A == {chunkJobs[j].id, 0, j}
      <4>1. f \in [op : OpNames, arg : A] /\ g \in [op : OpNames, arg : A] /\ h \in [op : OpNames, arg : A]
        BY DEF Op, OpNames
      <4>2. OpFits(f) /\ OpFits(g) /\ OpFits(h)
        BY DEF Op, OpFits
      <4> HIDE DEF f, g, h, A
      <4>3. <<f, g, h>> \in Seq([op : OpNames, arg : A]) /\ Len(<<f, g, h>>) = 3 /\ <<f, g, h>> # << >>
        BY <4>1
      <4>4. \A k \in 1 .. Len(<<f, g, h>>) : OpFits(<<f, g, h>>[k])
        BY <4>2, <4>3
      <4> QED
        BY <4>3, <4>4 DEF OpsFit, OpList
    <3>4. FinalFailure(j) = <<f, g, h>>
      BY DEF FinalFailure
    <3>5. HandlersFit'
      BY <2>2, <2>4, <3>3, <3>4, OpsStay, HandlerStarts
    <3> QED
      BY <2>2, <3>2, <3>5 DEF BuildInv
  <2> QED
    BY <1>2, <2>3, <2>4 DEF DispatchFails
<1> QED
  BY <1>1, <1>2

--------------------
(* Pull requests. *)

LEMMA RequestsKept ==
    ASSUME BuildInv, NEW c \in ChunkIds, OpenPR(c) \/ PRTurns(c)
    PROVE  BuildInv'
<1>1. /\ UNCHANGED <<build, chunks, chunkJobs, threads, briefed>>
      /\ budget' \in [Bounds -> Nat] /\ budget'["edits"] <= budget["edits"]
  BY BoundKept, BoundSpent DEF OpenPR, PRTurns, Bounds
<1>2. /\ prs' \in [ChunkIds -> {"none", "open", "merged", "failed"}]
      /\ \A d \in ChunkIds : /\ prs[d] = "merged" => prs'[d] = "merged"
                             /\ prs'[d] # "none" => prs[d] # "none" \/ briefed[d] # NotBriefed
  BY DEF BuildInv, BuildTypes, OpenPR, PRTurns
<1>3. Rows \subseteq ChunkIds
  BY BuildMaximum DEF BuildInv, RowsAreDense, ChunkIds, BuildTypes, Bounds
<1>4. RowsAreDense' /\ RowsStay /\ Rows' = Rows
  BY <1>1, <1>2, <1>3, RowsIdle DEF Rows
<1>5. RowsFollowRequests'
  BY <1>1, <1>2, <1>3, <1>4, RequestsFollowed DEF BuildInv, RowsFollowRequests
<1>6. BriefsFit' /\ JobsFit' /\ HandlersFit'
  BY <1>1, <1>2, <1>4, BriefsStay, JobsRest, HandlersLeft
<1>7. BuildTypes'
  BY <1>1, <1>2 DEF BuildInv, BuildTypes, ChunkIds, MaxChunkId, NotBriefed
<1> QED
  BY <1>4, <1>5, <1>6, <1>7 DEF BuildInv

\* The status of one row is written, not to pending and not to merged.
LEMMA StatusIsWritten ==
    ASSUME BuildInv, UNCHANGED <<briefed, prs>>, NEW c \in Rows, NEW s \in ChunkStatuses,
           NEW p \in BOOLEAN, s # "pending", s = "merged" => prs[c] = "merged",
           p => chunks[c].pr \/ chunks[c].idx \in Reached,
           chunks' = [chunks EXCEPT ![c] = [chunks[c] EXCEPT !.st = s, !.pr = p]],
           build' \in {"running", "completed", "failed", "cancelled"},
           budget' \in [Bounds -> Nat], budget'["edits"] <= budget["edits"]
    PROVE  RowsAreDense' /\ RowsStay /\ RowsFollowRequests' /\ BriefsFit' /\ BuildTypes'
<1> DEFINE new == [chunks[c] EXCEPT !.st = s, !.pr = p]
<1>1. \A d \in Rows : chunks[d] \in ChunkRow
  BY DEF BuildInv, RowsAreDense
<1>2. new \in ChunkRow /\ new.idx = chunks[c].idx /\ new.text = chunks[c].text /\ new.st = s /\ new.pr = p
  BY <1>1 DEF ChunkRow
<1> HIDE DEF new
<1>3. chunks' = [chunks EXCEPT ![c] = new] /\ chunks = [d \in Rows |-> chunks[d]]
  BY DEF new, BuildInv, RowsAreDense
<1>4. /\ Rows' = Rows /\ chunks' = [d \in Rows |-> chunks'[d]] /\ chunks'[c] = new
      /\ \A d \in Rows : d # c => chunks'[d] = chunks[d]
  BY <1>3 DEF Rows
<1>5. RowsAreDense' /\ RowsStay
  BY <1>1, <1>2, <1>4, RowsAreWritten
<1>6. RowsFollowRequests'
  BY <1>2, <1>4, <1>5, RequestsFollowed DEF BuildInv, RowsFollowRequests
<1>7. BriefsFit' /\ BuildTypes'
  BY <1>5, BriefsStay DEF BuildInv, BuildTypes, ChunkIds, MaxChunkId, NotBriefed
<1> QED
  BY <1>5, <1>6, <1>7

LEMMA OneOpFits ==
    ASSUME NEW A, NEW o \in [op : OpNames, arg : A], OpFits(o)
    PROVE  OpsFit(<<o>>)
BY DEF OpsFit, OpList

LEMMA AttachKept ==
    ASSUME BuildInv, NEW c \in Rows, AttachChunkPR(c)
    PROVE  BuildInv'
<1>1. c \in ChunkIds
  BY BuildMaximum DEF BuildInv, RowsAreDense, ChunkIds, BuildTypes, Bounds
<1>2. chunks[c].idx \in Reached
  BY <1>1 DEF AttachChunkPR, BuildInv, BriefsFit
<1>3. chunks[c] \in ChunkRow /\ (chunks[c].st = "merged" => prs[c] = "merged")
  BY DEF BuildInv, RowsAreDense, RowsFollowRequests
<1> DEFINE s == IF chunks[c].st \in {"merged", "failed"} THEN chunks[c].st ELSE "pr_opened"
<1>4. /\ s \in ChunkStatuses /\ s # "pending" /\ (s = "merged" => prs[c] = "merged")
      /\ chunks' = [chunks EXCEPT ![c] = [chunks[c] EXCEPT !.st = s, !.pr = TRUE]]
  BY <1>3 DEF AttachChunkPR, ChunkStatuses, ChunkRow
<1> HIDE DEF s
<1>5. RowsAreDense' /\ RowsStay /\ RowsFollowRequests' /\ BriefsFit' /\ BuildTypes'
  BY <1>2, <1>4, StatusIsWritten, BoundKept DEF AttachChunkPR, BuildInv, BuildTypes
<1> QED
  BY <1>5, JobsRest, HandlersLeft DEF AttachChunkPR, BuildInv

LEMMA FailKept ==
    ASSUME BuildInv, NEW c \in Rows, FailChunkByPR(c)
    PROVE  BuildInv'
<1>1. chunks[c] \in ChunkRow
  BY DEF BuildInv, RowsAreDense
<1>2. chunks' = [chunks EXCEPT ![c] = [chunks[c] EXCEPT !.st = "failed", !.pr = chunks[c].pr]]
      /\ chunks[c].pr \in BOOLEAN /\ "failed" \in ChunkStatuses
  BY <1>1 DEF FailChunkByPR, ChunkRow, ChunkStatuses
<1>3. RowsAreDense' /\ RowsStay /\ RowsFollowRequests' /\ BriefsFit' /\ BuildTypes'
  BY <1>2, StatusIsWritten, BoundKept DEF FailChunkByPR, BuildInv, BuildTypes
<1> DEFINE o == Op("fail running build", 0)
<1>4. o \in [op : OpNames, arg : {0}] /\ OpFits(o)
  BY DEF Op, OpNames, OpFits
<1> HIDE DEF o
<1>5. OpsFit(<<o>>)
  BY <1>4, OneOpFits
<1>6. HandlersFit'
  BY <1>3, <1>5, OpsStay, HandlerStarts DEF FailChunkByPR, o
<1> QED
  BY <1>3, <1>6, JobsRest DEF FailChunkByPR, BuildInv

\* The chunk to do next comes after unfinished ones only where it comes before the one
\* just merged; where there is none, every chunk is merged (computeNextChunkIndex).
LEMMA NextIndex ==
    ASSUME NEW rows, NEW cur \in Nat, \A d \in Rows : rows[d].idx \in Nat
    PROVE  LET next == ComputeNextChunkIndex(rows, cur)
           IN \/ next = -1 /\ \A d \in Rows : rows[d].st = "merged"
              \/ /\ next \in Nat /\ \E d \in Rows : rows[d].idx = next
                 /\ \A d \in Rows : rows[d].idx < next => rows[d].st = "merged" \/ rows[d].idx <= cur
<1> DEFINE open == {rows[c].idx : c \in {d \in Rows : rows[d].st # "merged"}}
           later == {i \in open : i > cur}
           next == ComputeNextChunkIndex(rows, cur)
<1>1. /\ open \subseteq Nat /\ later \subseteq open
      /\ \A i \in open : i > cur => i \in later
      /\ \A i \in open : \E d \in Rows : rows[d].idx = i
      /\ \A d \in Rows : rows[d].st # "merged" => rows[d].idx \in open
      /\ \A i \in later : i > cur
  OBVIOUS
<1>2. next = CASE later # {} -> Min(later) [] later = {} /\ open # {} -> Min(open) [] OTHER -> -1
  BY DEF ComputeNextChunkIndex
<1> HIDE DEF open, later, next
<1>3. ASSUME NEW S \in SUBSET Nat, S # {} PROVE Min(S) \in S /\ \A x \in S : Min(S) <= x
  BY <1>3, LeastIndex DEF Min
<1>4. CASE later # {}
  <2>1. next = Min(later) /\ later \in SUBSET Nat
    BY <1>1, <1>2, <1>4
  <2>2. next \in later /\ \A x \in later : next <= x
    BY <1>3, <1>4, <2>1
  <2>3. ASSUME NEW d \in Rows, rows[d].idx < next, rows[d].st # "merged" PROVE rows[d].idx <= cur
    <3>1. rows[d].idx \in open /\ rows[d].idx \notin later
      BY <1>1, <2>1, <2>2, <2>3
    <3> QED
      BY <1>1, <3>1
  <2> QED
    BY <1>1, <2>2, <2>3 DEF next
<1>5. CASE later = {} /\ open # {}
  BY <1>1, <1>2, <1>5, <1>3 DEF next
<1>6. CASE later = {} /\ open = {}
  BY <1>2, <1>6, <1>1 DEF next
<1> QED
  BY <1>4, <1>5, <1>6

\* A report of a merge (AdvanceChunkByPR): the index it enqueues is reached.
LEMMA AdvanceFacts ==
    ASSUME BuildInv, NEW c \in Rows, AdvanceChunkByPR(c)
    PROVE  LET rows == [chunks EXCEPT ![c].st = "merged"]
               next == ComputeNextChunkIndex(rows, chunks[c].idx)
           IN /\ RowsAreDense' /\ RowsStay /\ RowsFollowRequests' /\ BriefsFit' /\ BuildTypes'
              /\ next >= 0 => next \in Reached'
              /\ next < 0 => \A d \in Rows : prs[d] = "merged"
<1> DEFINE rows == [chunks EXCEPT ![c].st = "merged"]
           next == ComputeNextChunkIndex(rows, chunks[c].idx)
<1>1. \A d \in Rows : chunks[d] \in ChunkRow
  BY DEF BuildInv, RowsAreDense
<1>2. /\ \A d \in Rows : d # c => rows[d] = chunks[d]
      /\ rows[c] = [chunks[c] EXCEPT !.st = "merged"]
  BY DEF BuildInv, RowsAreDense, Rows
<1>3. \A d \in Rows : /\ rows[d] \in ChunkRow /\ rows[d].idx = chunks[d].idx /\ rows[d].text = chunks[d].text
                      /\ rows[d].pr = chunks[d].pr /\ (d # c => rows[d].st = chunks[d].st)
                      /\ rows[d].st = "merged" => prs[d] = "merged"
  BY <1>1, <1>2 DEF ChunkRow, ChunkStatuses, BuildInv, RowsFollowRequests, AdvanceChunkByPR
<1>4. rows[c].st = "merged"
  BY <1>1, <1>2 DEF ChunkRow
<1>5. chunks[c].idx \in Nat /\ \A d \in Rows : rows[d].idx \in Nat
  BY <1>1, <1>3 DEF ChunkRow
<1> HIDE DEF rows
<1>6. \/ next = -1 /\ \A d \in Rows : rows[d].st = "merged"
      \/ /\ next \in Nat /\ \E d \in Rows : rows[d].idx = next
         /\ \A d \in Rows : rows[d].idx < next => rows[d].st = "merged" \/ rows[d].idx <= chunks[c].idx
  BY <1>5, NextIndex
<1>7. /\ budget' \in [Bounds -> Nat] /\ budget'["edits"] <= budget["edits"]
      /\ UNCHANGED <<briefed, prs>> /\ build' \in {"running", "completed", "failed", "cancelled"}
  BY BoundSpent DEF AdvanceChunkByPR, Bounds, BuildInv, BuildTypes
<1>8. \/ /\ next >= 0 /\ chunks' = [d \in Rows |-> IF rows[d].idx = next /\ rows[d].st = "pending"
                                            THEN [rows[d] EXCEPT !.st = "running"] ELSE rows[d]]
      \/ /\ ~(next >= 0) /\ chunks' = rows
  BY DEF AdvanceChunkByPR, rows
<1>9. rows = [d \in Rows |-> rows[d]] /\ Rows = DOMAIN chunks
  BY DEF rows, Rows, BuildInv, RowsAreDense
<1> HIDE DEF next
<1>10. Rows' = Rows /\ chunks' = [d \in Rows |-> chunks'[d]]
  BY <1>8, <1>9 DEF Rows
<1>11. \A d \in Rows : \/ chunks'[d] = rows[d] /\ ~(next >= 0 /\ rows[d].idx = next /\ rows[d].st = "pending")
                       \/ /\ next >= 0 /\ rows[d].idx = next /\ rows[d].st = "pending"
                          /\ chunks'[d] = [rows[d] EXCEPT !.st = "running"]
  BY <1>6, <1>8, <1>9
<1>12. \A d \in Rows : /\ chunks'[d] \in ChunkRow /\ chunks'[d].idx = chunks[d].idx
                       /\ chunks'[d].text = chunks[d].text /\ chunks'[d].pr = chunks[d].pr
                       /\ chunks'[d].st \in {rows[d].st, "running"}
                       /\ next >= 0 /\ rows[d].idx = next => chunks'[d].st # "pending"
  <2> SUFFICES ASSUME NEW d \in Rows PROVE
         /\ chunks'[d] \in ChunkRow /\ chunks'[d].idx = rows[d].idx
         /\ chunks'[d].text = rows[d].text /\ chunks'[d].pr = rows[d].pr
         /\ chunks'[d].st \in {rows[d].st, "running"}
         /\ next >= 0 /\ rows[d].idx = next => chunks'[d].st # "pending"
    BY <1>3
  <2>1. rows[d] \in ChunkRow
    BY <1>3
  <2>2. CASE chunks'[d] = rows[d] /\ ~(next >= 0 /\ rows[d].idx = next /\ rows[d].st = "pending")
    BY <2>1, <2>2
  <2>3. CASE chunks'[d] = [rows[d] EXCEPT !.st = "running"]
    BY <2>1, <2>3 DEF ChunkRow, ChunkStatuses
  <2> QED
    BY <1>11, <2>2, <2>3
<1>13. \A d \in Rows : /\ chunks'[d].st = "pending" => chunks[d].st = "pending"
                       /\ chunks'[d].st = "merged" => prs[d] = "merged"
  BY <1>3, <1>4, <1>12
<1>14. RowsAreDense' /\ RowsStay
  BY <1>7, <1>10, <1>12, <1>13, RowsAreWritten
<1>15. RowsFollowRequests'
  BY <1>7, <1>10, <1>12, <1>13, <1>14, RequestsFollowed DEF BuildInv, RowsFollowRequests
<1>16. BriefsFit' /\ BuildTypes'
  BY <1>7, <1>14, BriefsStay DEF BuildInv, BuildTypes, ChunkIds, MaxChunkId, NotBriefed
<1>17. ASSUME next >= 0 PROVE next \in Reached'
  <2>1. chunks[c].idx \in Reached /\ prs[c] = "merged"
    BY DEF AdvanceChunkByPR, BuildInv, RowsFollowRequests
  <2>2. \A d, e \in Rows : chunks[d].idx = chunks[e].idx => d = e
    BY DEF BuildInv, RowsAreDense
  <2>3. \E d \in Rows' : chunks'[d].idx = next
    BY <1>3, <1>6, <1>10, <1>12, <1>17
  <2>4. ASSUME NEW d \in Rows PROVE /\ chunks'[d].idx <= next => chunks'[d].st # "pending"
                                    /\ chunks'[d].idx < next => prs[d] = "merged"
    BY <1>3, <1>6, <1>17, <1>5, <2>1, <2>2, <1>12, <1>13 DEF Reached
  <2> QED
    BY <1>7, <1>10, <2>3, <2>4 DEF Reached
<1>18. next < 0 => \A d \in Rows : prs[d] = "merged"
  BY <1>3, <1>6
<1> QED
  BY <1>14, <1>15, <1>16, <1>17, <1>18 DEF next, rows

LEMMA AdvanceKept ==
    ASSUME BuildInv, NEW c \in Rows, AdvanceChunkByPR(c)
    PROVE  BuildInv'
<1> DEFINE rows == [chunks EXCEPT ![c].st = "merged"]
           next == ComputeNextChunkIndex(rows, chunks[c].idx)
<1>1. /\ RowsAreDense' /\ RowsStay /\ RowsFollowRequests' /\ BriefsFit' /\ BuildTypes'
      /\ next >= 0 => next \in Reached'
  BY AdvanceFacts
<1>2. \/ next >= 0 /\ threads' = Started(<<Op("enqueue", next)>>)
      \/ threads' = threads
  BY DEF AdvanceChunkByPR
<1> HIDE DEF next
<1>3. ASSUME NEW n, n \in Reached' PROVE OpsFit(<<Op("enqueue", n)>>)'
  <2> DEFINE o == Op("enqueue", n)
  <2>1. o \in [op : OpNames, arg : {n}] /\ OpFits(o)'
    BY <1>3 DEF Op, OpNames, OpFits
  <2> HIDE DEF o
  <2>2. <<o>> \in Seq([op : OpNames, arg : {n}]) /\ Len(<<o>>) = 1 /\ <<o>> # << >> /\ <<o>>[1] = o
    BY <2>1
  <2>3. OpsFit(<<o>>)'
    <3>1. OpList(<<o>>)
      BY <2>2 DEF OpList
    <3>2. \A k \in 1 .. Len(<<o>>) : OpFits(<<o>>[k])'
      BY <2>1, <2>2 DEF OpFits
    <3> QED
      BY <2>2, <3>1, <3>2 DEF OpsFit, OpList, OpFits
  <2> QED
    BY <2>3 DEF o
<1>4. HandlersFit'
  BY <1>1, <1>2, <1>3, HandlerStarts, HandlersLeft
<1> QED
  BY <1>1, <1>4, JobsRest DEF AdvanceChunkByPR, BuildInv

--------------------
(* The widget's synchronisation and the cancellation. *)

LEMMA RecoverOps ==
    ASSUME BuildInv, NEW c \in Rows, RecoverBuildOnPRSync(c)
    PROVE  \E ops : threads' = Started(ops) /\ OpsFit(ops) /\ Plain(ops)
<1> DEFINE f == Op("revive chunk", c)
           g == Op("revive build", 0)
           A == {c, 0}
           S == [op : PlainNames, arg : A]
<1>1. f \in S /\ g \in S /\ OpFits(f) /\ OpFits(g)
  BY DEF Op, PlainNames, OpFits
<1>2. \E p, q \in {TRUE, FALSE} :
        LET todo == (IF p THEN <<f>> ELSE << >>) \o (IF q THEN <<g>> ELSE << >>)
        IN todo # << >> /\ threads' = Started(todo)
  BY DEF RecoverBuildOnPRSync
<1> HIDE DEF f, g, S
<1>3. <<f>> \in Seq(S) /\ <<g>> \in Seq(S) /\ << >> \in Seq(S) /\ Len(<<f>>) = 1 /\ Len(<<g>>) = 1
      /\ <<f>>[1] = f /\ <<g>>[1] = g
  BY <1>1
<1> DEFINE both == <<f>> \o <<g>>
<1>4. both \in Seq(S) /\ Len(both) = 2 /\ both[1] = f /\ both[2] = g
  BY <1>3, ConcatProperties
<1>5. \E ops \in {<<f>>, <<g>>, both} : threads' = Started(ops)
  BY <1>3, ConcatEmptySeq, <1>2
<1> HIDE DEF both
<1>6. \A ops \in {<<f>>, <<g>>, both} :
         ops \in Seq(S) /\ ops # << >> /\ \A k \in 1 .. Len(ops) : OpFits(ops[k])
  BY <1>1, <1>3, <1>4
<1> QED
  BY <1>5, <1>6, PlainFits DEF S, Plain

LEMMA RecoverKept ==
    ASSUME BuildInv, NEW c \in Rows, RecoverBuildOnPRSync(c)
    PROVE  BuildInv'
BY BoundSpent, BriefsLeft, JobsRest, RecoverOps, OpsStay, HandlerStarts DEF RecoverBuildOnPRSync,
   Bounds, BuildInv, BuildTypes

LEMMA CancelOps ==
    ASSUME BuildInv, HandleBuildCancel
    PROVE  \E ops : threads' = Started(ops) /\ OpsFit(ops) /\ Plain(ops)
<1> DEFINE n == Cardinality(Cancellable)
           f == Op("cancel build", 0)
           more == [i \in 1 .. n |-> Op("cancel chunk", InOrder(Cancellable)[i])]
           A == {0} \cup {InOrder(Cancellable)[i] : i \in 1 .. n}
           S == [op : PlainNames, arg : A]
<1>1. n \in Nat
  BY FS_Subset, FS_CardinalityType DEF Cancellable, BuildInv, RowsAreDense
<1>2. f \in S /\ OpFits(f)
  BY DEF Op, PlainNames, OpFits
<1>3. \A i \in 1 .. n : Op("cancel chunk", InOrder(Cancellable)[i]) \in S
                        /\ OpFits(Op("cancel chunk", InOrder(Cancellable)[i]))
  BY DEF Op, PlainNames, OpFits
<1>4. \E ops \in {<<f>> \o more, <<f>>} : threads' = Started(ops)
  BY DEF HandleBuildCancel
<1> HIDE DEF n, f, S
<1>5. more \in Seq(S) /\ \A k \in 1 .. Len(more) : OpFits(more[k])
  BY <1>3, <1>1, ListOfLength
<1> HIDE DEF more
<1>6. <<f>> \in Seq(S) /\ Len(<<f>>) = 1 /\ <<f>>[1] = f
  BY <1>2
<1>7. /\ <<f>> \o more \in Seq(S) /\ Len(<<f>> \o more) = 1 + Len(more) /\ Len(more) \in Nat
      /\ (<<f>> \o more)[1] = f
      /\ \A k \in 2 .. Len(<<f>> \o more) : k - 1 \in 1 .. Len(more) /\ (<<f>> \o more)[k] = more[k - 1]
  BY <1>5, <1>6
<1>8. \A k \in 1 .. Len(<<f>> \o more) : OpFits((<<f>> \o more)[k])
  BY <1>7, <1>2, <1>5
<1> DEFINE all == <<f>> \o more
<1> HIDE DEF all
<1>9. \A ops \in {all, <<f>>} :
         ops \in Seq(S) /\ ops # << >> /\ \A k \in 1 .. Len(ops) : OpFits(ops[k])
  <2>1. all \in Seq(S) /\ all # << >> /\ \A k \in 1 .. Len(all) : OpFits(all[k])
    BY <1>7, <1>8 DEF all
  <2>2. OpsFit(<<f>>)
    BY <1>2, OneOpFits DEF Op, OpNames, f
  <2> QED
    BY <1>6, <2>1, <2>2 DEF OpsFit
<1> QED
  BY <1>4, <1>9, PlainFits DEF S, Plain, all

LEMMA CancelKept ==
    ASSUME BuildInv, HandleBuildCancel
    PROVE  BuildInv'
BY BoundSpent, BriefsLeft, JobsRest, CancelOps, OpsStay, HandlerStarts DEF HandleBuildCancel,
   Bounds, BuildInv, BuildTypes

--------------------
(* The edits. *)

\* What an edit has to keep: every row that was reached.
LEMMA EditFrame ==
    ASSUME BuildInv, RowsAreDense', RowsStay, UNCHANGED <<build, chunkJobs, threads, briefed, prs>>,
           budget' \in [Bounds -> Nat],
           \A c \in Rows' : /\ chunks'[c].pr => c \in Rows /\ chunks[c].pr
                            /\ chunks'[c].st = "merged" => c \in Rows /\ chunks[c].st = "merged"
    PROVE  BuildInv'
BY RequestsFollowed, BriefsStay, JobsRest, HandlersLeft DEF BuildInv, RowsFollowRequests,
   BuildTypes, ChunkIds, MaxChunkId, NotBriefed

LEMMA UpdateKept ==
    ASSUME BuildInv, NEW c \in Rows, UpdateChunk(c)
    PROVE  BuildInv'
<1> DEFINE new == [chunks[c] EXCEPT !.text = chunks[c].text + 1]
<1>1. /\ \A d \in Rows : chunks[d] \in ChunkRow
      /\ chunks = [d \in Rows |-> chunks[d]] /\ chunks' = [chunks EXCEPT ![c] = new]
  BY DEF BuildInv, RowsAreDense, UpdateChunk
<1>2. /\ new \in ChunkRow /\ new.idx = chunks[c].idx /\ new.st = chunks[c].st /\ new.pr = chunks[c].pr
  BY <1>1 DEF ChunkRow
<1> HIDE DEF new
<1>3. /\ Rows' = Rows /\ chunks' = [d \in Rows |-> chunks'[d]] /\ chunks'[c] = new
      /\ \A d \in Rows : d # c => chunks'[d] = chunks[d]
  BY <1>1 DEF Rows
<1>4. chunks[c].st = "pending" /\ c \in Rows /\ chunks[c].idx \in Nat
  BY <1>1 DEF UpdateChunk, Editable, ChunkRow
<1>5. budget' \in [Bounds -> Nat] /\ budget'["edits"] <= budget["edits"]
      /\ UNCHANGED <<build, chunkJobs, threads, briefed, prs>>
  BY BoundSpent DEF UpdateChunk, Edit, Bounds
<1>6. \A d \in Rows : /\ chunks'[d] \in ChunkRow /\ chunks'[d].idx = chunks[d].idx
                      /\ chunks'[d].st = chunks[d].st /\ chunks'[d].pr = chunks[d].pr
  BY <1>1, <1>2, <1>3
<1>7. chunks[c].idx \notin Reached
  BY <1>4 DEF Reached
<1>8. RowsStay
  BY <1>3, <1>5, <1>6, <1>7 DEF RowsStay, Reached
<1>9. RowsAreDense'
  <2>1. /\ RowsAreDense /\ budget["edits"] \in Nat /\ budget'["edits"] \in Nat
        /\ MaxChunkId' = MaxChunkId /\ MaxChunkId \in Nat
    BY BuildMaximum, <1>5 DEF BuildInv, BuildTypes, Bounds, MaxChunkId
  <2>2. {chunks'[d].idx : d \in Rows'} = {chunks[d].idx : d \in Rows}
    BY <1>3, <1>6
  <2>3. Rows' \subseteq 1 .. (MaxChunkId' - budget'["edits"])
    BY <1>3, <1>5, <2>1 DEF RowsAreDense
  <2> QED
    BY <1>3, <1>6, <2>1, <2>2, <2>3 DEF RowsAreDense
<1> QED
  BY <1>3, <1>5, <1>6, <1>8, <1>9, EditFrame

\* A new row comes after all the others, under an id that no row has.
LEMMA AppendAdds ==
    ASSUME BuildInv, AppendChunk
    PROVE  \E id \in Nat :
              /\ id >= 1 /\ id \notin Rows /\ id <= MaxChunkId - budget'["edits"]
              /\ chunks' = [c \in Rows \cup {id} |-> IF c = id THEN NewChunk(Cardinality(Rows), "pending")
                                                              ELSE chunks[c]]
<1> DEFINE n == Cardinality(Rows)
           next == 1 + Max({chunks[c].idx : c \in Rows})
           ids == {m \in ChunkIds : m > next /\ m \notin Rows}
           id == Min(ids)
<1>0. RowsAreDense /\ MaxChunkId \in Nat /\ budget["edits"] \in Nat /\ MaxChunkId' = MaxChunkId
  BY BuildMaximum DEF BuildInv, BuildTypes, Bounds, MaxChunkId
<1>1. n \in Nat /\ n > 0
  BY <1>0, FS_CardinalityType, FS_EmptySet DEF RowsAreDense
<1>2. next = n
  <2>1. {chunks[c].idx : c \in Rows} = 0 .. (n - 1)
    BY <1>0 DEF RowsAreDense
  <2> HIDE DEF n
  <2>2. n - 1 \in 0 .. (n - 1) /\ \A x \in 0 .. (n - 1) : n - 1 >= x
    BY <1>1
  <2>3. Max(0 .. (n - 1)) \in 0 .. (n - 1) /\ Max(0 .. (n - 1)) >= n - 1
    BY <2>2 DEF Max
  <2>4. Max(0 .. (n - 1)) = n - 1
    BY <1>1, <2>3
  <2>5. Max({chunks[c].idx : c \in Rows}) = n - 1
    BY <2>1, <2>4
  <2> QED
    BY <1>1, <2>5
<1>3. /\ budget' \in [Bounds -> Nat] /\ budget'["edits"] \in Nat
      /\ budget["edits"] > 0 /\ budget'["edits"] = budget["edits"] - 1
      /\ UNCHANGED <<build, chunkJobs, threads, briefed, prs>>
      /\ chunks' = [c \in Rows \cup {id} |-> IF c = id THEN NewChunk(next, "pending") ELSE chunks[c]]
  BY BoundSpent DEF AppendChunk, Edit, Bounds
<1> DEFINE top == MaxChunkId - budget["edits"]
<1>4. n <= top
  <2>0. top \in Int /\ Rows \in SUBSET (1 .. top)
    BY <1>0 DEF RowsAreDense
  <2> HIDE DEF top
  <2>1. IsFiniteSet(1 .. top) /\ Cardinality(1 .. top) = IF 1 > top THEN 0 ELSE top - 1 + 1
    BY <2>0, FS_Interval
  <2>2. n <= Cardinality(1 .. top)
    BY <2>0, <2>1, FS_Subset
  <2> HIDE DEF n
  <2> QED
    BY <1>1, <2>0, <2>1, <2>2
<1>5. top + 1 \in ids
  BY <1>0, <1>3, <1>1, <1>2, <1>4 DEF RowsAreDense, ChunkIds
<1>6. id \in ids /\ id <= top + 1
  <2>1. ids \in SUBSET Nat /\ ids # {}
    <3>1. ids \subseteq ChunkIds /\ ids # {}
      BY <1>5
    <3>2. ChunkIds \subseteq Nat
      BY <1>0 DEF ChunkIds
    <3> QED
      BY <3>1, <3>2
  <2>2. \E m \in ids : \A x \in ids : m <= x
    BY <2>1, LeastIndex
  <2> HIDE DEF ids
  <2> QED
    BY <1>5, <2>2 DEF Min
<1>7. id \in Nat /\ id >= 1 /\ id \notin Rows /\ id <= MaxChunkId - budget'["edits"]
  BY <1>0, <1>3, <1>6 DEF ChunkIds
<1> QED
  BY <1>2, <1>3, <1>7

LEMMA AppendKept ==
    ASSUME BuildInv, AppendChunk
    PROVE  BuildInv'
<1> DEFINE n == Cardinality(Rows)
<1>1. PICK id \in Nat :
        /\ id >= 1 /\ id \notin Rows /\ id <= MaxChunkId - budget'["edits"]
        /\ chunks' = [c \in Rows \cup {id} |-> IF c = id THEN NewChunk(n, "pending") ELSE chunks[c]]
  BY AppendAdds
<1>2. RowsAreDense /\ MaxChunkId \in Nat /\ MaxChunkId' = MaxChunkId
  BY BuildMaximum DEF BuildInv, BuildTypes, MaxChunkId
<1>3. n \in Nat
  BY <1>2, FS_CardinalityType DEF RowsAreDense
<1>4. /\ budget' \in [Bounds -> Nat] /\ budget'["edits"] \in Nat
      /\ budget["edits"] \in Nat /\ budget'["edits"] <= budget["edits"]
      /\ UNCHANGED <<build, chunkJobs, threads, briefed, prs>>
  BY BoundSpent DEF AppendChunk, Edit, Bounds, BuildInv, BuildTypes
<1> HIDE DEF n
<1>11. id \in Nat /\ id >= 1 /\ id \notin Rows /\ id <= MaxChunkId - budget'["edits"]
  BY <1>1
<1>5. NewChunk(n, "pending") \in ChunkRow /\ NewChunk(n, "pending").idx = n
      /\ NewChunk(n, "pending").st = "pending" /\ ~NewChunk(n, "pending").pr
  BY <1>3 DEF NewChunk, ChunkRow, ChunkStatuses
<1>6. /\ Rows' = Rows \cup {id} /\ chunks' = [c \in Rows' |-> chunks'[c]]
      /\ chunks'[id] = NewChunk(n, "pending") /\ \A c \in Rows : chunks'[c] = chunks[c]
  BY <1>1 DEF Rows
<1>7. /\ \A c \in Rows : chunks[c] \in ChunkRow /\ chunks[c].idx \in 0 .. (n - 1)
      /\ {chunks[c].idx : c \in Rows} = 0 .. (n - 1) /\ IsFiniteSet(Rows)
      /\ \A c, d \in Rows : chunks[c].idx = chunks[d].idx => c = d
  BY <1>2 DEF RowsAreDense, n
<1>8. RowsAreDense'
  <2>1. Rows' \subseteq 1 .. (MaxChunkId' - budget'["edits"])
    BY <1>2, <1>4, <1>6, <1>11 DEF RowsAreDense
  <2>2. IsFiniteSet(Rows') /\ Cardinality(Rows') = n + 1
    BY <1>7, <1>11, FS_AddElement, <1>6 DEF n
  <2>3. \A c \in Rows' : chunks'[c] \in ChunkRow
    BY <1>5, <1>6, <1>7
  <2>4. \A c, d \in Rows' : chunks'[c].idx = chunks'[d].idx => c = d
    BY <1>3, <1>5, <1>6, <1>7
  <2>5. {chunks'[c].idx : c \in Rows'} = 0 .. (Cardinality(Rows') - 1)
    BY <1>11, <1>5, <1>6, <1>3, <1>7, <2>2
  <2> QED
    BY <1>6, <2>1, <2>2, <2>3, <2>4, <2>5 DEF RowsAreDense
<1>9. RowsStay
  BY <1>6, <1>7, <1>3, <1>5, <1>4 DEF Reached, RowsStay
<1>10. \A c \in Rows' : /\ chunks'[c].pr => c \in Rows /\ chunks[c].pr
                        /\ chunks'[c].st = "merged" => c \in Rows /\ chunks[c].st = "merged"
  BY <1>5, <1>6
<1> QED
  BY <1>4, <1>8, <1>9, <1>10, EditFrame

\* The rows behind a removed one, which was pending, were not reached either.
LEMMA RemoveKept ==
    ASSUME BuildInv, NEW c \in Rows, RemoveChunk(c)
    PROVE  BuildInv'
<1> DEFINE n == Cardinality(Rows)
           k == chunks[c].idx
<1>0. RowsAreDense /\ MaxChunkId \in Nat /\ budget["edits"] \in Nat /\ MaxChunkId' = MaxChunkId
  BY BuildMaximum DEF BuildInv, BuildTypes, Bounds, MaxChunkId
<1>1. /\ budget' \in [Bounds -> Nat] /\ budget'["edits"] \in Nat /\ budget'["edits"] <= budget["edits"]
      /\ UNCHANGED <<build, chunkJobs, threads, briefed, prs>>
      /\ chunks' = Compacted(c) /\ chunks[c].st = "pending" /\ n > 1
  BY BoundSpent DEF RemoveChunk, Edit, Editable, Bounds
<1>2. n \in Nat
  BY <1>0, FS_CardinalityType DEF RowsAreDense
<1>3. IsFiniteSet(Rows \ {c}) /\ Cardinality(Rows \ {c}) = n - 1
  BY <1>0, FS_RemoveElement DEF RowsAreDense
<1>4. Rows' = Rows \ {c} /\ chunks' = [d \in Rows' |-> chunks'[d]]
  BY <1>1 DEF Rows, Compacted
<1> HIDE DEF n
<1>5. /\ \A d \in Rows : chunks[d] \in ChunkRow /\ chunks[d].idx \in 0 .. (n - 1)
      /\ {chunks[d].idx : d \in Rows} = 0 .. (n - 1)
      /\ \A d, e \in Rows : chunks[d].idx = chunks[e].idx => d = e
  BY <1>0 DEF RowsAreDense, n
<1>6. k \in 0 .. (n - 1)
  BY <1>5
<1>7. \A d \in Rows' : chunks'[d] = IF chunks[d].idx > k THEN [chunks[d] EXCEPT !.idx = chunks[d].idx - 1] ELSE chunks[d]
  BY <1>1, <1>4 DEF Compacted
<1> HIDE DEF k
<1>8. \A d \in Rows' : /\ d \in Rows /\ chunks'[d] \in ChunkRow /\ chunks'[d].st = chunks[d].st
                       /\ chunks'[d].pr = chunks[d].pr /\ chunks'[d].text = chunks[d].text
                       /\ chunks[d].idx > k => chunks'[d].idx = chunks[d].idx - 1
                       /\ chunks[d].idx <= k => chunks'[d].idx = chunks[d].idx
                       /\ chunks[d].idx # k
  <2> SUFFICES ASSUME NEW d \in Rows' PROVE
         /\ chunks'[d] \in ChunkRow /\ chunks'[d].st = chunks[d].st
         /\ chunks'[d].pr = chunks[d].pr /\ chunks'[d].text = chunks[d].text
         /\ chunks[d].idx > k => chunks'[d].idx = chunks[d].idx - 1
         /\ chunks[d].idx <= k => chunks'[d].idx = chunks[d].idx
         /\ chunks[d].idx # k
    BY <1>4
  <2>1. d \in Rows /\ d # c /\ chunks[d] \in ChunkRow /\ chunks[d].idx # k /\ chunks[d].idx \in Nat /\ k \in Nat
    BY <1>4, <1>5, <1>6 DEF k, ChunkRow
  <2>2. CASE chunks[d].idx > k
    <3>1. chunks'[d] = [chunks[d] EXCEPT !.idx = chunks[d].idx - 1] /\ chunks[d].idx - 1 \in Nat
      BY <1>7, <2>1, <2>2
    <3> QED
      BY <2>1, <2>2, <3>1 DEF ChunkRow
  <2>3. CASE ~(chunks[d].idx > k)
    BY <1>7, <2>1, <2>3
  <2> QED
    BY <2>2, <2>3
<1>9. RowsAreDense'
  <2>1. Rows' \subseteq 1 .. (MaxChunkId' - budget'["edits"])
    BY <1>0, <1>1, <1>4 DEF RowsAreDense
  <2>2. IsFiniteSet(Rows') /\ Cardinality(Rows') = n - 1 /\ Rows' # {}
    BY <1>1, <1>2, <1>3, <1>4, FS_EmptySet
  <2>3. \A d, e \in Rows' : chunks'[d].idx = chunks'[e].idx => d = e
    BY <1>5, <1>6, <1>8
  <2>4. {chunks'[d].idx : d \in Rows'} = 0 .. (n - 2)
    <3>1. ASSUME NEW d \in Rows' PROVE chunks'[d].idx \in 0 .. (n - 2)
      BY <1>5, <1>8, <1>2, <1>6
    <3>2. ASSUME NEW i \in 0 .. (n - 2) PROVE \E d \in Rows' : chunks'[d].idx = i
      <4>1. CASE i < k
        BY <1>2, <1>5, <1>4, <4>1, <1>6, <1>8 DEF k
      <4>2. CASE i >= k
        <5>1. i + 1 \in 0 .. (n - 1)
          BY <1>2
        <5>2. PICK d \in Rows : chunks[d].idx = i + 1
          BY <1>5, <5>1
        <5>3. d \in Rows'
          BY <1>4, <4>2, <5>2, <1>6 DEF k
        <5> QED
          BY <1>6, <1>8, <4>2, <5>2, <5>3
      <4> QED
        BY <1>6, <4>1, <4>2
    <3> QED
      BY <3>1, <3>2
  <2>5. n - 1 - 1 = n - 2
    BY <1>2
  <2> QED
    BY <1>4, <1>8, <2>1, <2>2, <2>3, <2>4, <2>5 DEF RowsAreDense
<1>10. \A i \in Reached : i \in 0 .. (n - 1) /\ i < k
  BY <1>1, <1>5, <1>6 DEF Reached, k
<1>11. RowsStay
  BY <1>10, <1>4, <1>6, <1>8, <1>5, <1>1 DEF k, Reached, RowsStay
<1> QED
  BY <1>1, <1>8, <1>9, <1>11, EditFrame

--------------------
(* Handlers in progress. *)

LEMMA EnqueueKept ==
    ASSUME BuildInv, NEW t \in threads, EnqueueChunk(t)
    PROVE  BuildInv'
<1> DEFINE i == First(t).arg
<1>1. i \in Reached
  BY FirstFits DEF EnqueueChunk, OpFits
<1>2. RowsStay /\ RowsAreDense' /\ RowsFollowRequests' /\ BriefsFit' /\ BuildTypes'
  BY BriefsLeft, BoundKept DEF EnqueueChunk, BuildInv, BuildTypes
<1>3. HandlersFit'
  BY <1>2, HandlerSteps DEF EnqueueChunk
<1> HIDE DEF i
<1> DEFINE new == [idx |-> i, st |-> "available", att |-> 0, id |-> 0, text |-> 0, seen |-> "none"]
<1>4. CASE UNCHANGED chunkJobs
  BY <1>2, <1>3, <1>4, JobsRest DEF BuildInv
<1>5. CASE chunkJobs' = Append(chunkJobs, new)
  <2>1. i \in Nat
    BY <1>1 DEF Reached, BuildInv, RowsAreDense, ChunkRow
  <2>2. new \in JobRow /\ new.idx = i /\ new.st = "available"
    BY <2>1 DEF JobRow
  <2> HIDE DEF new
  <2>3. chunkJobs \in Seq(JobRow)
    BY DEF BuildInv, JobsFit
  <2>4. /\ chunkJobs' \in Seq(JobRow) /\ DOMAIN chunkJobs' = DOMAIN chunkJobs \cup {Len(chunkJobs) + 1}
        /\ chunkJobs'[Len(chunkJobs) + 1] = new
        /\ \A k \in DOMAIN chunkJobs : chunkJobs'[k] = chunkJobs[k]
    BY <1>5, <2>2, <2>3
  <2>5. ASSUME NEW k \in DOMAIN chunkJobs' PROVE JobFits(k)'
    BY <1>2, <2>4, <1>1, <2>2 DEF BuildInv, JobsFit, JobFits, RowsStay
  <2>6. JobsFit'
    BY <2>4, <2>5 DEF JobsFit
  <2> QED
    BY <1>2, <1>3, <2>6 DEF BuildInv
<1> QED
  BY <1>4, <1>5 DEF EnqueueChunk, InsertJob, i

LEMMA WriteBuildKept ==
    ASSUME BuildInv, NEW t \in threads, WriteBuild(t)
    PROVE  BuildInv'
BY BriefsLeft, BoundKept, JobsRest, HandlerSteps DEF WriteBuild, BuildInv, BuildTypes

LEMMA WriteChunkKept ==
    ASSUME BuildInv, NEW t \in threads, WriteChunk(t)
    PROVE  BuildInv'
<1> DEFINE c == First(t).arg  s == NewStatus(First(t).op)
<1>1. s \in ChunkStatuses /\ s \notin {"pending", "merged"}
  BY DEF WriteChunk, NewStatus, ChunkStatuses
<1>2. chunks' = IF c \in Rows THEN [chunks EXCEPT ![c].st = s] ELSE chunks
  BY DEF WriteChunk
<1>3. UNCHANGED <<build, chunkJobs, briefed, prs, budget>> /\ GoesOn(t, Tail(t.ops))
  BY DEF WriteChunk
<1> HIDE DEF c, s
<1>4. RowsStay /\ RowsAreDense' /\ RowsFollowRequests' /\ BriefsFit' /\ BuildTypes'
  <2>1. CASE c \in Rows
    <3>1. chunks[c] \in ChunkRow
      BY <2>1 DEF BuildInv, RowsAreDense
    <3>2. chunks' = [chunks EXCEPT ![c] = [chunks[c] EXCEPT !.st = s, !.pr = chunks[c].pr]]
          /\ chunks[c].pr \in BOOLEAN
      BY <1>2, <2>1, <3>1 DEF ChunkRow
    <3> QED
      BY <1>1, <1>3, <2>1, <3>2, StatusIsWritten, BoundKept DEF BuildInv, BuildTypes
  <2>2. CASE c \notin Rows
    BY <1>2, <1>3, <2>2, BriefsLeft, BoundKept DEF BuildInv, BuildTypes
  <2> QED
    BY <2>1, <2>2
<1> QED
  BY <1>3, <1>4, JobsRest, HandlerSteps DEF BuildInv

LEMMA DiscardKept ==
    ASSUME BuildInv, NEW t \in threads, DiscardJob(t)
    PROVE  BuildInv'
BY BriefsLeft, BoundKept, JobIsOver, HandlerSteps DEF DiscardJob, BuildInv, BuildTypes

LEMMA StatementFailsKept ==
    ASSUME BuildInv, NEW t \in threads, StatementFails(t)
    PROVE  BuildInv'
<1>1. /\ UNCHANGED <<build, chunks, chunkJobs, briefed, prs>> /\ GoesOn(t, AfterError(t))
      /\ budget' \in [Bounds -> Nat] /\ budget'["edits"] <= budget["edits"]
  BY BoundSpent DEF StatementFails, Bounds
<1>2. RowsStay /\ RowsAreDense' /\ RowsFollowRequests' /\ BriefsFit' /\ BuildTypes'
  BY <1>1, BriefsLeft DEF BuildInv, BuildTypes
<1>3. OpsFit(t.ops)
  BY FirstFits
<1> DEFINE f == Op("fail build", 0)  g == Op("abandon", t.ops[2].arg)
<1>4. f \in [op : OpNames, arg : {0}] /\ OpFits(f)
  BY DEF Op, OpNames, OpFits
<1>5. g \in [op : OpNames, arg : {t.ops[2].arg}] /\ OpFits(g)
  BY DEF Op, OpNames, OpFits
<1>6. AfterError(t) \in {<< >>, <<f>>, <<g>>, Tail(t.ops)}
  BY DEF AfterError
<1> HIDE DEF f, g
<1>7. OpsFit(<<f>>) /\ OpsFit(<<g>>)
  BY <1>4, <1>5, OneOpFits
<1>8. AfterError(t) = << >> \/ OpsFit(AfterError(t))
  BY <1>3, <1>6, <1>7, RestFits
<1>9. HandlersFit'
  BY <1>1, <1>2, <1>8, OpsStay, HandlerGoesOn
<1> QED
  BY <1>1, <1>2, <1>9, JobsRest DEF BuildInv

--------------------
(* The process and River. *)

LEMMA PeriodAndCrashKept ==
    ASSUME BuildInv, NewPeriod \/ VanadisCrash
    PROVE  BuildInv'
<1>1. /\ UNCHANGED <<build, chunks, briefed, prs>> /\ threads' \subseteq threads
      /\ budget' \in [Bounds -> Nat] /\ budget'["edits"] <= budget["edits"]
  BY BoundSpent DEF NewPeriod, VanadisCrash, Bounds
<1>2. RowsStay /\ RowsAreDense' /\ RowsFollowRequests' /\ BriefsFit' /\ BuildTypes' /\ HandlersFit'
  BY <1>1, BriefsLeft, HandlersLeft DEF BuildInv, BuildTypes
<1>3. CASE NewPeriod
  BY <1>2, <1>3, JobsRest DEF NewPeriod, BuildInv
<1>4. CASE VanadisCrash
  <2> DEFINE P(s) == [j \in DOMAIN chunkJobs |-> s[j]]
  <2>1. chunkJobs \in Seq(JobRow) /\ DOMAIN chunkJobs = 1 .. Len(chunkJobs) /\ Len(chunkJobs) \in Nat
    BY DEF BuildInv, JobsFit
  <2>2. /\ DOMAIN chunkJobs' = DOMAIN chunkJobs /\ chunkJobs' = [j \in DOMAIN chunkJobs |-> chunkJobs'[j]]
        /\ \A j \in DOMAIN chunkJobs :
              \/ chunkJobs'[j] = [chunkJobs[j] EXCEPT !.st = "abandoned"]
              \/ chunkJobs'[j] = [chunkJobs[j] EXCEPT !.st = "available"]
              \/ chunkJobs'[j] = chunkJobs[j]
    BY <1>4 DEF VanadisCrash
  <2>3. \A j \in DOMAIN chunkJobs : chunkJobs'[j] \in JobRow /\ Same(chunkJobs'[j], chunkJobs[j])
    <3> SUFFICES ASSUME NEW j \in DOMAIN chunkJobs
                 PROVE  chunkJobs'[j] \in JobRow /\ Same(chunkJobs'[j], chunkJobs[j])
      OBVIOUS
    <3>1. chunkJobs[j] \in JobRow
      BY <2>1
    <3> QED
      BY <2>2, <3>1 DEF JobRow, Same
  <2>4. chunkJobs' \in [1 .. Len(chunkJobs) -> JobRow]
    BY <2>1, <2>2, <2>3
  <2>5. chunkJobs' \in Seq(JobRow)
    BY <2>1, <2>4, ListOfLength
  <2> QED
    BY <1>2, <2>2, <2>3, <2>5, JobsStay DEF BuildInv
<1> QED
  BY <1>3, <1>4

--------------------
LEMMA BuildStarts == BuildInit => BuildInv
<1> SUFFICES ASSUME BuildInit PROVE BuildInv
  OBVIOUS
<1> DEFINE n == InitialChunks
<1>0. /\ n \in Nat /\ n >= 1 /\ MaxChunkId \in Nat
      /\ budget \in [Bounds -> Nat] /\ n + budget["edits"] <= MaxChunkId
  BY BuildAssumption, BuildMaximum DEF BuildInit
<1>1. /\ chunks = [c \in 1 .. n |-> NewChunk(c - 1, IF c = 1 THEN "running" ELSE "pending")]
      /\ Rows = 1 .. n
  BY DEF BuildInit, Rows
<1>2. /\ briefed = [c \in ChunkIds |-> NotBriefed] /\ prs = [c \in ChunkIds |-> "none"]
      /\ chunkJobs = << >> /\ build = "running" /\ threads = {Handler(1, <<Op("create", 0)>>)}
  BY DEF BuildInit
<1>3. BuildTypes
  BY <1>0, <1>2 DEF BuildTypes
<1>4. \A c \in Rows : /\ chunks[c] \in ChunkRow /\ chunks[c].idx = c - 1 /\ ~chunks[c].pr
                      /\ chunks[c].st # "merged" /\ (c = 1 => chunks[c].st # "pending")
  BY <1>0, <1>1 DEF NewChunk, ChunkRow, ChunkStatuses
<1>5. RowsAreDense
  <2>1. IsFiniteSet(1 .. n) /\ Cardinality(1 .. n) = n
    BY <1>0, FS_Interval
  <2>2. budget["edits"] \in Nat
    BY <1>0 DEF Bounds
  <2>3. Rows \subseteq 1 .. (MaxChunkId - budget["edits"]) /\ Rows # {}
    <3>1. n <= MaxChunkId - budget["edits"] /\ 1 \in 1 .. n
      BY <1>0, <2>2
    <3> HIDE DEF n
    <3>2. \A c \in 1 .. n : c \in 1 .. (MaxChunkId - budget["edits"])
      BY <1>0, <2>2, <3>1
    <3> QED
      BY <1>1, <3>1, <3>2 DEF n
  <2>4. {chunks[c].idx : c \in Rows} = 0 .. (n - 1)
    <3>1. ASSUME NEW c \in Rows PROVE chunks[c].idx \in 0 .. (n - 1)
      BY <1>1, <1>4, <1>0
    <3>2. ASSUME NEW i \in 0 .. (n - 1) PROVE i + 1 \in Rows /\ chunks[i + 1].idx = i
      <4>1. i \in Int /\ i + 1 \in 1 .. n
        BY <1>0
      <4>2. i + 1 \in Rows /\ chunks[i + 1].idx = i + 1 - 1
        BY <1>1, <1>4, <4>1
      <4> QED
        BY <4>1, <4>2
    <3> QED
      BY <3>1, <3>2
  <2>5. \A c, d \in Rows : chunks[c].idx = chunks[d].idx => c = d
    BY <1>0, <1>1, <1>4
  <2>6. chunks = [c \in Rows |-> chunks[c]]
    BY <1>1
  <2> HIDE DEF n
  <2> QED
    BY <1>1, <1>4, <2>1, <2>3, <2>4, <2>5, <2>6 DEF RowsAreDense
<1>6. RowsFollowRequests
  BY <1>4 DEF RowsFollowRequests
<1>7. JobsFit
  BY <1>2 DEF JobsFit
<1>8. BriefsFit
  BY <1>2 DEF BriefsFit
<1>9. 0 \in Reached
  <2>1. 1 \in Rows /\ chunks[1].idx = 0
    BY <1>0, <1>1, <1>4
  <2>2. \A c \in Rows : c \in Nat /\ c >= 1
    BY <1>1
  <2> QED
    BY <1>4, <2>1, <2>2 DEF Reached
<1>10. HandlersFit
  <2> DEFINE o == Op("create", 0)
  <2>1. o \in [op : OpNames, arg : {0}] /\ OpFits(o)
    BY <1>9 DEF Op, OpNames, OpFits
  <2> HIDE DEF o
  <2>2. OpsFit(<<o>>)
    BY <2>1, OneOpFits
  <2> QED
    BY <1>2, <2>2 DEF HandlersFit, Handler, o
<1> QED
  BY <1>3, <1>5, <1>6, <1>7, <1>8, <1>10 DEF BuildInv

LEMMA BuildKept == BuildInv /\ [BuildNext]_buildVars => BuildInv'
<1> SUFFICES ASSUME BuildInv, [BuildNext]_buildVars PROVE BuildInv'
  OBVIOUS
<1>1. CASE UNCHANGED buildVars
  BY <1>1, BriefsLeft, BoundKept, JobsRest, HandlersLeft DEF buildVars, BuildInv, BuildTypes
<1>2. ASSUME NEW j \in DOMAIN chunkJobs,
             FetchJob(j) \/ MarkChunkRunning(j) \/ DispatchChunk(j) \/ FetchFails(j) \/ MarkFails(j) \/ DispatchFails(j)
      PROVE  BuildInv'
  BY <1>2, FetchKept, MarkKept, DispatchKept, FailuresKept
<1>3. ASSUME NEW t \in threads, Statement(t) \/ StatementFails(t) PROVE BuildInv'
  BY <1>3, EnqueueKept, WriteBuildKept, WriteChunkKept, DiscardKept, StatementFailsKept DEF Statement
<1>4. ASSUME NEW c \in ChunkIds, OpenPR(c) \/ PRTurns(c) PROVE BuildInv'
  BY <1>4, RequestsKept
<1>5. ASSUME NEW c \in Rows,
             \/ AttachChunkPR(c) \/ AdvanceChunkByPR(c) \/ FailChunkByPR(c)
             \/ RecoverBuildOnPRSync(c) \/ UpdateChunk(c) \/ RemoveChunk(c)
      PROVE  BuildInv'
  BY <1>5, AttachKept, AdvanceKept, FailKept, RecoverKept, UpdateKept, RemoveKept
<1>6. CASE AppendChunk \/ HandleBuildCancel \/ NewPeriod \/ VanadisCrash
  BY <1>6, AppendKept, CancelKept, PeriodAndCrashKept
<1> QED
  BY <1>1, <1>2, <1>3, <1>4, <1>5, <1>6 DEF BuildNext, ChunkWork

LEMMA BuildEnough == BuildInv => BuildIsSound
<1> SUFFICES ASSUME BuildInv PROVE BuildIsSound
  OBVIOUS
<1>1. BuildTypeOK
  BY DEF BuildInv, BuildTypes, RowsAreDense, BuildTypeOK, ChunkRow
<1>2. JobFindsItsChunk
  BY DEF BuildInv, JobsFit, JobFits, Reached, JobFindsItsChunk, IdAt
<1>3. BriefIsCurrent
  <2>1. Rows \subseteq ChunkIds
    BY BuildMaximum DEF BuildInv, RowsAreDense, ChunkIds, BuildTypes, Bounds
  <2> QED
    BY <2>1 DEF BuildInv, BriefsFit, BriefIsCurrent
<1> QED
  BY <1>1, <1>2, <1>3 DEF BuildIsSound

\* For any number of chunks and any mixture of edits, failures, cancellations, repeated
\* reports and restarts: the indices of a build stay 0 .. n-1, every job finds the chunk it
\* was inserted for, and what an agent was told is what the row says.
THEOREM BuildIsSafe == BuildSpec => []BuildIsSound
  BY BuildStarts, BuildKept, BuildEnough, PTL DEF BuildSpec

\* A brief is given by the job of a row only, and the build is completed by a report only.
LEMMA BuildOrder ==
    BuildInv /\ [BuildNext]_buildVars => [BriefsInOrder /\ CompletesWhenMerged]_buildVars
<1> SUFFICES ASSUME BuildInv, BuildNext PROVE BriefsInOrder /\ CompletesWhenMerged
  BY DEF buildVars
<1>1. BriefsInOrder
  <2> SUFFICES ASSUME NEW c \in Rows, briefed'[c] # briefed[c],
                      NEW d \in Rows, chunks[d].idx < chunks[c].idx
               PROVE  prs[d] = "merged"
    BY DEF BriefsInOrder
  <2>1. PICK j \in DOMAIN chunkJobs : chunkJobs[j].st = "marked" /\ Brief(j)
    BY DEF BuildNext, ChunkWork, FetchJob, MarkChunkRunning, DispatchChunk, FetchFails, MarkFails,
           DispatchFails, Statement, EnqueueChunk, WriteBuild, WriteChunk, DiscardJob, StatementFails,
           OpenPR, PRTurns, AttachChunkPR, AdvanceChunkByPR, FailChunkByPR, RecoverBuildOnPRSync,
           UpdateChunk, RemoveChunk, AppendChunk, HandleBuildCancel, NewPeriod, VanadisCrash
  <2>2. JobFits(j) /\ briefed \in [ChunkIds -> Nat \cup {NotBriefed}]
    BY DEF BuildInv, JobsFit, BuildTypes
  <2>3. chunkJobs[j].id = c
    BY <2>1, <2>2 DEF Brief
  <2>4. chunks[c].idx \in Reached
    BY <2>1, <2>2, <2>3 DEF JobFits
  <2> QED
    BY <2>4 DEF Reached
<1>2. CompletesWhenMerged
  <2> SUFFICES ASSUME build # "completed", build' = "completed", NEW d \in Rows PROVE prs[d] = "merged"
    BY DEF CompletesWhenMerged
  <2>1. PICK c \in Rows : AdvanceChunkByPR(c)
    BY DEF BuildNext, ChunkWork, FetchJob, MarkChunkRunning, DispatchChunk, FetchFails, MarkFails,
           DispatchFails, Statement, EnqueueChunk, WriteBuild, WriteChunk, DiscardJob, StatementFails,
           OpenPR, PRTurns, AttachChunkPR, FailChunkByPR, RecoverBuildOnPRSync,
           UpdateChunk, RemoveChunk, AppendChunk, HandleBuildCancel, NewPeriod, VanadisCrash
  <2> DEFINE next == ComputeNextChunkIndex([chunks EXCEPT ![c].st = "merged"], chunks[c].idx)
  <2>2. ~(next >= 0)
    BY <2>1 DEF AdvanceChunkByPR
  <2>3. next \in Int
    BY NextIndex DEF BuildInv, RowsAreDense, ChunkRow, Rows
  <2>4. next < 0
    BY <2>2, <2>3
  <2> QED
    BY <2>1, <2>4, AdvanceFacts
<1> QED
  BY <1>1, <1>2

\* The agent of a chunk is told only when the requests of all the chunks before it are
\* merged, and a build is completed only when all are (computeNextChunkIndex,
\* AdvanceChunkByPR).
THEOREM ChunksAreDoneInOrder == BuildSpec => [][BriefsInOrder /\ CompletesWhenMerged]_buildVars
  BY BuildStarts, BuildKept, BuildOrder, PTL DEF BuildSpec

--------------------
(* What was merged.  A job that failed for good is in the hands of one *)
(* handler until River has discarded it, and it had seen its chunk before *)
(* that was merged. *)

FailChunk == "fail chunk"
FailBuild == "fail build"
Attempted == {"fetched", "marked", "failing"}
Owned(ops, j, id) ==
    \/ ops = <<Op(FailChunk, id), Op(FailBuild, 0), Op("discard", j)>>
    \/ ops = <<Op(FailBuild, 0), Op("discard", j)>>
    \/ ops = <<Op("discard", j)>>
    \/ ops = <<Op("abandon", j)>>
Unowned(ops) == \A k \in DOMAIN ops : /\ ops[k].op \notin {FailChunk, "discard", "abandon"}
                                      /\ ops[k].op = FailBuild => Len(ops) = 1

SeenBefore == \A j \in DOMAIN chunkJobs : chunkJobs[j].st \in Attempted => chunkJobs[j].seen # "merged"
Serves(t) == \/ Unowned(t.ops)
             \/ \E j \in DOMAIN chunkJobs : chunkJobs[j].st = "failing" /\ Owned(t.ops, j, chunkJobs[j].id)
ServedOnce == \A t, u \in threads : \A j, a, b : Owned(t.ops, j, a) /\ Owned(u.ops, j, b) => t = u
FailuresFit == SeenBefore /\ (\A t \in threads : Serves(t)) /\ ServedOnce

LEMMA OpsDiffer ==
    /\ FailChunk # FailBuild /\ FailChunk \notin {"discard", "abandon"} /\ FailBuild \notin {"discard", "abandon"}
    /\ {FailChunk, FailBuild, "discard", "abandon"} \subseteq OpNames
  BY Zenon DEF FailChunk, FailBuild, OpNames

LEMMA OwnedShape ==
    ASSUME NEW ops, NEW j, NEW a, Owned(ops, j, a)
    PROVE  /\ Len(ops) \in DOMAIN ops /\ ops[Len(ops)].arg = j
           /\ ops[Len(ops)].op \in {"discard", "abandon"}
           /\ \/ Len(ops) = 3 /\ ops[1] = Op(FailChunk, a)
                 /\ Tail(ops) = <<Op(FailBuild, 0), Op("discard", j)>>
              \/ /\ Len(ops) = 2 /\ ops[1] = Op(FailBuild, 0) /\ ops[2] = Op("discard", j)
                 /\ Tail(ops) = <<Op("discard", j)>>
              \/ Len(ops) = 1 /\ ops[1] \in {Op("discard", j), Op("abandon", j)} /\ Tail(ops) = << >>
<1> DEFINE c == Op(FailChunk, a)  f == Op(FailBuild, 0)  d == Op("discard", j)  e == Op("abandon", j)
<1>1. d.op = "discard" /\ d.arg = j /\ e.op = "abandon" /\ e.arg = j
  BY DEF Op
<1>2. ops \in {<<c, f, d>>, <<f, d>>, <<d>>, <<e>>}
  BY DEF Owned
<1> HIDE DEF c, f, d, e
<1>3. \/ /\ Len(ops) = 3 /\ 3 \in DOMAIN ops /\ ops[1] = c /\ ops[3] = d /\ Tail(ops) = <<f, d>>
      \/ Len(ops) = 2 /\ 2 \in DOMAIN ops /\ ops[1] = f /\ ops[2] = d /\ Tail(ops) = <<d>>
      \/ Len(ops) = 1 /\ 1 \in DOMAIN ops /\ ops[1] \in {d, e} /\ Tail(ops) = << >>
  <2>1. CASE ops = <<c, f, d>>
    BY <2>1
  <2>2. CASE ops = <<f, d>>
    BY <2>2
  <2>3. CASE ops = <<d>>
    BY <2>3
  <2>4. CASE ops = <<e>>
    BY <2>4
  <2> QED
    BY <1>2, <2>1, <2>2, <2>3, <2>4
<1> QED
  BY <1>1, <1>3 DEF c, f, d, e

LEMMA OwnedOnce ==
    ASSUME NEW ops, NEW j, NEW a, Owned(ops, j, a)
    PROVE  /\ ~Unowned(ops) /\ ops # << >>
           /\ \A k, b : Owned(ops, k, b) => k = j
           /\ Tail(ops) = << >> \/ Owned(Tail(ops), j, a)
           /\ ops[1].op = FailChunk => ops[1].arg = a
           /\ ops[1].op \in {"discard", "abandon"} => ops[1].arg = j /\ Tail(ops) = << >>
           /\ ops[1].op = FailBuild => Len(ops) = 2 /\ ops[2].arg = j
           /\ ops[1].op \in {FailChunk, FailBuild, "discard", "abandon"}
<1>1. ~Unowned(ops) /\ \A k, b : Owned(ops, k, b) => k = j
  <2>1. Len(ops) \in DOMAIN ops /\ ops[Len(ops)].op \in {"discard", "abandon"} /\ ops[Len(ops)].arg = j
    BY OwnedShape
  <2>2. ~Unowned(ops)
    BY <2>1 DEF Unowned
  <2>3. ASSUME NEW k, NEW b, Owned(ops, k, b) PROVE k = j
    <3>1. ops[Len(ops)].arg = k
      BY <2>3, OwnedShape
    <3> QED
      BY <2>1, <3>1
  <2> QED
    BY <2>2, <2>3
<1>2. ops # << >>
  BY OwnedShape
<1>3. Tail(ops) = << >> \/ Owned(Tail(ops), j, a)
  BY OwnedShape DEF Owned
<1>4. Op(FailChunk, a).op = FailChunk /\ Op(FailChunk, a).arg = a /\ Op(FailBuild, 0).op = FailBuild
      /\ \A o \in {Op("discard", j), Op("abandon", j)} : o.op \in {"discard", "abandon"} /\ o.arg = j
  BY DEF Op
<1>5. \/ Len(ops) = 3 /\ ops[1] = Op(FailChunk, a)
      \/ Len(ops) = 2 /\ ops[1] = Op(FailBuild, 0) /\ ops[2] = Op("discard", j)
      \/ ops[1] \in {Op("discard", j), Op("abandon", j)} /\ Tail(ops) = << >>
  BY OwnedShape
<1>6. /\ ops[1].op = FailChunk => ops[1].arg = a
      /\ ops[1].op \in {"discard", "abandon"} => ops[1].arg = j /\ Tail(ops) = << >>
      /\ ops[1].op = FailBuild => Len(ops) = 2 /\ ops[2].arg = j
      /\ ops[1].op \in {FailChunk, FailBuild, "discard", "abandon"}
  BY <1>4, <1>5, OpsDiffer
<1> QED
  BY <1>1, <1>2, <1>3, <1>6

LEMMA CleanTail ==
    ASSUME NEW t \in threads, HandlersFit, Unowned(t.ops)
    PROVE  /\ Unowned(Tail(t.ops)) /\ First(t).op \notin {FailChunk, "discard", "abandon"}
           /\ First(t).op = FailBuild => Len(t.ops) = 1
<1>1. OpsFit(t.ops)
  BY DEF HandlersFit
<1>2. PICK A : t.ops \in Seq([op : OpNames, arg : A])
  BY <1>1 DEF OpsFit, OpList
<1>3. t.ops # << >>
  BY <1>1 DEF OpsFit
<1> DEFINE S == [op : OpNames, arg : A]
<1> HIDE DEF S
<1>4. t.ops \in Seq(S)
  BY <1>2 DEF S
<1>5. /\ 1 \in DOMAIN t.ops /\ First(t) = t.ops[1] /\ Len(t.ops) \in Nat
      /\ \A k \in DOMAIN Tail(t.ops) : k + 1 \in DOMAIN t.ops /\ Tail(t.ops)[k] = t.ops[k + 1]
  BY <1>3, <1>4 DEF First
<1>6. /\ First(t).op \notin {FailChunk, "discard", "abandon"}
      /\ First(t).op = FailBuild => Len(t.ops) = 1
      /\ \A k \in DOMAIN t.ops : /\ t.ops[k].op \notin {FailChunk, "discard", "abandon"}
                                 /\ t.ops[k].op = FailBuild => Len(t.ops) = 1
  <2>1. \A k \in DOMAIN t.ops : /\ t.ops[k].op \notin {FailChunk, "discard", "abandon"}
                                /\ t.ops[k].op = FailBuild => Len(t.ops) = 1
    BY DEF Unowned
  <2>2. 1 \in DOMAIN t.ops /\ First(t) = t.ops[1]
    BY <1>5
  <2> QED
    BY <2>1, <2>2
<1>7. ASSUME NEW k \in DOMAIN Tail(t.ops)
      PROVE  /\ Tail(t.ops)[k].op \notin {FailChunk, "discard", "abandon"}
             /\ Tail(t.ops)[k].op = FailBuild => Len(Tail(t.ops)) = 1
  <2>1. k \in 1..(Len(t.ops) - 1) /\ k + 1 \in DOMAIN t.ops /\ Tail(t.ops)[k] = t.ops[k + 1]
    BY <1>3, <1>4, <1>5
  <2>2. Len(t.ops) # 1
    <3>1. Len(t.ops) \in Nat
      BY <1>5
    <3> QED
      BY <2>1, <3>1
  <2> QED
    BY <1>6, <2>1, <2>2
<1> QED
  BY <1>6, <1>7, Zenon DEF Unowned

\* Jobs that fail are left alone, and no new one is under way without having looked.
Spared == /\ \A j \in DOMAIN chunkJobs : chunkJobs[j].st = "failing" =>
                j \in DOMAIN chunkJobs' /\ chunkJobs'[j].st = "failing" /\ chunkJobs'[j].id = chunkJobs[j].id
          /\ SeenBefore'

LEMMA OthersServe ==
    ASSUME FailuresFit, Spared, threads' \subseteq threads
    PROVE  FailuresFit'
  BY DEF FailuresFit, Spared, Serves, ServedOnce

LEMMA CleanStarts ==
    ASSUME FailuresFit, Spared, NEW ops, Unowned(ops), threads' = Started(ops)
    PROVE  FailuresFit'
<1>1. \A t \in threads' : t \in threads \/ t.ops = ops
  BY DEF Started, Handler
<1>2. \A t \in threads' : Serves(t)'
  BY <1>1 DEF FailuresFit, Spared, Serves
<1>3. \A j, a : ~Owned(ops, j, a)
  BY OwnedOnce
<1>4. ServedOnce'
  BY <1>1, <1>3 DEF FailuresFit, ServedOnce
<1> QED
  BY <1>2, <1>4 DEF FailuresFit, Spared

LEMMA CleanGoesOn ==
    ASSUME FailuresFit, Spared, NEW t \in threads, NEW rest, Unowned(rest), GoesOn(t, rest)
    PROVE  FailuresFit'
<1>1. \A u \in threads' : u \in threads \/ u.ops = rest
  BY DEF GoesOn, Handler
<1>2. \A u \in threads' : Serves(u)'
  BY <1>1 DEF FailuresFit, Spared, Serves
<1>3. \A j, a : ~Owned(rest, j, a)
  BY OwnedOnce
<1>4. ServedOnce'
  BY <1>1, <1>3 DEF FailuresFit, ServedOnce
<1> QED
  BY <1>2, <1>4 DEF FailuresFit, Spared

LEMMA OwnerGoesOn ==
    ASSUME FailuresFit, Spared, NEW t \in threads, NEW j \in DOMAIN chunkJobs, chunkJobs[j].st = "failing",
           Owned(t.ops, j, chunkJobs[j].id), NEW rest, Owned(rest, j, chunkJobs[j].id), GoesOn(t, rest)
    PROVE  FailuresFit'
<1>1. threads' = (threads \ {t}) \cup {Handler(t.no, rest)} /\ Handler(t.no, rest).ops = rest
  BY OwnedOnce DEF GoesOn, Handler
<1>2. \A u \in threads' : Serves(u)'
  BY <1>1 DEF FailuresFit, Spared, Serves
<1>3. \A k, a : Owned(rest, k, a) => k = j
  BY OwnedOnce
<1>4. ServedOnce'
  <2> SUFFICES ASSUME NEW u \in threads', NEW v \in threads', NEW k, NEW a, NEW b,
                      Owned(u.ops, k, a), Owned(v.ops, k, b)
               PROVE  u = v
    BY DEF ServedOnce
  <2>1. CASE u \in threads \ {t} /\ v \in threads \ {t}
    BY <2>1 DEF FailuresFit, ServedOnce
  <2>2. ASSUME NEW w \in threads \ {t}, NEW c, Owned(w.ops, j, c) PROVE FALSE
    BY <2>2 DEF FailuresFit, ServedOnce
  <2> QED
    BY <1>1, <1>3, <2>1, <2>2
<1> QED
  BY <1>2, <1>4 DEF FailuresFit, Spared

\* A handler executes its first statement, or answers that it failed and goes on.
LEMMA HandlerServes ==
    ASSUME BuildInv, FailuresFit, Spared, NEW t \in threads,
           \/ First(t).op \notin {"discard", "abandon"} /\ GoesOn(t, Tail(t.ops))
           \/ First(t).op \notin {"discard", "abandon"} /\ GoesOn(t, AfterError(t))
    PROVE  FailuresFit'
<1>1. HandlersFit /\ First(t) = t.ops[1]
  BY DEF BuildInv, HandlersFit, OpsFit, OpList, First
<1>2. Unowned(<< >>) /\ Unowned(<<Op(FailBuild, 0)>>)
  BY OpsDiffer DEF Op, Unowned
<1>3. CASE Unowned(t.ops)
  <2>1. Unowned(Tail(t.ops)) /\ (First(t).op = FailBuild => Len(t.ops) # 2)
    BY <1>1, <1>3, CleanTail
  <2>2. AfterError(t) \in {<< >>, <<Op(FailBuild, 0)>>, Tail(t.ops)}
    BY <2>1, Zenon DEF AfterError, FailBuild
  <2> QED
    BY <1>2, <2>1, <2>2, CleanGoesOn
<1>4. ASSUME NEW j \in DOMAIN chunkJobs, chunkJobs[j].st = "failing", Owned(t.ops, j, chunkJobs[j].id)
      PROVE  FailuresFit'
  <2> DEFINE a == chunkJobs[j].id
  <2>0. Owned(t.ops, j, a)
    BY <1>4
  <2> HIDE DEF a
  <2>1. /\ Tail(t.ops) = << >> \/ Owned(Tail(t.ops), j, a)
        /\ t.ops[1].op \in {FailChunk, FailBuild, "discard", "abandon"}
        /\ t.ops[1].op = FailBuild => Len(t.ops) = 2 /\ t.ops[2].arg = j
    BY <2>0, OwnedOnce
  <2>2. AfterError(t) = Tail(t.ops) \/ Owned(AfterError(t), j, a)
    BY <1>1, <2>1, Zenon DEF AfterError, Owned, FailBuild, FailChunk
  <2> QED
    BY <1>2, <1>4, <2>1, <2>2, OwnerGoesOn, CleanGoesOn DEF a
<1> QED
  BY <1>3, <1>4 DEF FailuresFit, Serves

LEMMA PlainIsClean ==
    ASSUME NEW ops, Plain(ops)
    PROVE  Unowned(ops)
<1>1. PICK A : ops \in Seq([op : PlainNames, arg : A])
  BY DEF Plain
<1> DEFINE S == [op : PlainNames, arg : A]
<1>2. \A n \in PlainNames : n \notin {FailChunk, "discard", "abandon"} /\ n # FailBuild
  BY Zenon DEF PlainNames, FailChunk, FailBuild
<1>3. \A o \in S : o.op \in PlainNames
  OBVIOUS
<1> HIDE DEF S
<1>0. ops \in Seq(S)
  BY <1>1 DEF S
<1>4. \A k \in DOMAIN ops : ops[k] \in S
  BY <1>0
<1> QED
  BY <1>2, <1>3, <1>4 DEF Unowned

LEMMA OneOpIsClean ==
    ASSUME NEW x \in PlainNames, NEW arg
    PROVE  Unowned(<<Op(x, arg)>>)
<1> DEFINE o == Op(x, arg)  S == [op : PlainNames, arg : {arg}]
<1>1. o \in S
  BY DEF Op
<1> HIDE DEF o, S
<1>2. <<o>> \in Seq(S)
  BY <1>1
<1>3. Plain(<<o>>)
  BY <1>2 DEF Plain, S
<1>4. Unowned(<<o>>)
  BY <1>3, PlainIsClean
<1> QED
  BY <1>4 DEF o

\* What becomes of a job that is not failing.
LEMMA JobSpared ==
    ASSUME BuildInv, FailuresFit, NEW j \in DOMAIN chunkJobs, chunkJobs[j].st # "failing", NEW new,
           new.st \in Attempted => new.seen # "merged", chunkJobs' = [chunkJobs EXCEPT ![j] = new]
    PROVE  Spared
BY DEF BuildInv, JobsFit, Spared, FailuresFit, SeenBefore

LEMMA JobsSpared ==
    ASSUME FailuresFit, chunkJobs' = chunkJobs
    PROVE  Spared
  BY DEF Spared, FailuresFit, SeenBefore

\* The steps of a worker.
LEMMA WorkerRemains ==
    ASSUME BuildInv, FailuresFit, NEW j \in DOMAIN chunkJobs,
           \/ FetchJob(j) \/ MarkChunkRunning(j) \/ DispatchChunk(j)
           \/ FetchFails(j) \/ MarkFails(j)
           \/ (DispatchFails(j) /\ AttemptFails(j, chunkJobs[j].att) /\ UNCHANGED threads)
    PROVE  FailuresFit'
<1>1. chunkJobs[j] \in JobRow /\ SeenBefore
  BY DEF BuildInv, JobsFit, FailuresFit
<1>2. threads' \subseteq threads /\ chunkJobs[j].st \in {"available", "fetched", "marked"}
  BY DEF FetchJob, MarkChunkRunning, DispatchChunk, FetchFails, MarkFails, DispatchFails
<1>3. CASE FetchJob(j)
  <2>1. \E new : /\ chunkJobs' = [chunkJobs EXCEPT ![j] = new]
                 /\ new.st \in Attempted => new.seen # "merged"
    <3> DEFINE att == chunkJobs[j].att + 1  u == [chunkJobs[j] EXCEPT !.st = "done", !.att = att]
               v(c) == [chunkJobs[j] EXCEPT !.st = "fetched", !.att = att, !.id = c,
                                            !.text = chunks[c].text, !.seen = chunks[c].st]
    <3>1. u.st = "done"
      BY <1>1 DEF JobRow
    <3>2. \A c : v(c).seen = chunks[c].st
      BY <1>1 DEF JobRow
    <3> DEFINE R == [chunkJobs EXCEPT ![j].st = "done", ![j].att = att]
               Q(c) == [chunkJobs EXCEPT ![j].st = "fetched", ![j].att = att, ![j].id = c,
                                         ![j].text = chunks[c].text, ![j].seen = chunks[c].st]
    <3>3. R = [chunkJobs EXCEPT ![j] = u] /\ \A c : Q(c) = [chunkJobs EXCEPT ![j] = v(c)]
      OBVIOUS
    <3>6. chunkJobs' = R \/ \E c \in IdAt(chunkJobs[j].idx) : NeedsDispatch(c) /\ chunkJobs' = Q(c)
      BY <1>3 DEF FetchJob
    <3> HIDE DEF u, v, R, Q
    <3>4. \A c : NeedsDispatch(c) => v(c).seen # "merged"
      BY <3>2 DEF NeedsDispatch
    <3>5. u.st \notin Attempted
      BY <3>1 DEF Attempted
    <3> QED
      BY <3>3, <3>4, <3>5, <3>6
  <2> QED
    BY <1>2, <2>1, JobSpared, OthersServe
<1>4. CASE ~FetchJob(j)
  <2>1. \E new : /\ chunkJobs' = [chunkJobs EXCEPT ![j] = new] /\ new.seen = chunkJobs[j].seen
                 /\ new.st \in Attempted => chunkJobs[j].st \in Attempted
    <3> DEFINE w(s, a) == [chunkJobs[j] EXCEPT !.att = a, !.st = s]
    <3>1. \A s, a : w(s, a).st = s /\ w(s, a).seen = chunkJobs[j].seen
      BY <1>1 DEF JobRow
    <3>2. \A s : [chunkJobs[j] EXCEPT !.st = s] = w(s, chunkJobs[j].att)
      BY <1>1 DEF JobRow
    <3>3. \/ \E a : \E s \in {"available", "abandoned"} : chunkJobs' = [chunkJobs EXCEPT ![j] = w(s, a)]
          \/ /\ chunkJobs[j].st \in {"fetched", "marked"}
             /\ \E s \in {"marked", "done"} : chunkJobs' = [chunkJobs EXCEPT ![j] = w(s, chunkJobs[j].att)]
      <4>1. CASE \E a : AttemptFails(j, a)
        <5>1. PICK a : chunkJobs' = [chunkJobs EXCEPT ![j].att = a,
                         ![j].st = IF a < ChunkAttempts THEN "available" ELSE "abandoned"]
          BY <4>1 DEF AttemptFails
        <5> QED
          BY <5>1
      <4>2. CASE MarkChunkRunning(j) \/ DispatchChunk(j)
        BY <3>2, <4>2 DEF MarkChunkRunning, DispatchChunk
      <4>3. FetchFails(j) \/ MarkFails(j) => \E a : AttemptFails(j, a)
        BY DEF FetchFails, MarkFails
      <4> QED
        BY <1>4, <4>1, <4>2, <4>3
    <3> HIDE DEF w
    <3> QED
      BY <3>1, <3>3 DEF Attempted
  <2> QED
    BY <1>1, <1>2, <2>1, JobSpared, OthersServe DEF SeenBefore
<1> QED
  BY <1>3, <1>4

\* handleFinalDispatchFailure begins.
LEMMA FinalRemains ==
    ASSUME BuildInv, FailuresFit, NEW j \in DOMAIN chunkJobs, chunkJobs[j].st = "marked",
           chunkJobs' = [chunkJobs EXCEPT ![j].st = "failing"], threads' = Started(FinalFailure(j))
    PROVE  FailuresFit'
<1> DEFINE new == [chunkJobs[j] EXCEPT !.st = "failing"]
<1>1. chunkJobs[j] \in JobRow /\ chunkJobs \in Seq(JobRow) /\ chunkJobs[j].seen # "merged"
  BY DEF BuildInv, JobsFit, FailuresFit, SeenBefore, Attempted
<1>2. new.st = "failing" /\ new.id = chunkJobs[j].id /\ new.seen = chunkJobs[j].seen
  BY <1>1 DEF JobRow
<1> HIDE DEF new
<1>3. chunkJobs' = [chunkJobs EXCEPT ![j] = new]
  BY DEF new
<1>4. Spared /\ chunkJobs'[j] = new /\ j \in DOMAIN chunkJobs'
  BY <1>1, <1>2, <1>3, JobSpared
<1>5. \A t \in threads' : t \in threads \/ t.ops = FinalFailure(j)
  BY DEF Started, Handler
<1>6. Owned(FinalFailure(j), j, chunkJobs[j].id)
  BY Zenon DEF FinalFailure, Owned, FailChunk, FailBuild
<1>7. \A t \in threads' : Serves(t)'
  BY <1>2, <1>4, <1>5, <1>6 DEF FailuresFit, Spared, Serves
<1>8. \A t \in threads : \A a : ~Owned(t.ops, j, a)
  <2> SUFFICES ASSUME NEW t \in threads, NEW a, Owned(t.ops, j, a) PROVE FALSE
    OBVIOUS
  <2>1. ~Unowned(t.ops) /\ \A k, b : Owned(t.ops, k, b) => k = j
    BY OwnedOnce
  <2> QED
    BY <2>1 DEF FailuresFit, Serves
<1>9. \A k, a : Owned(FinalFailure(j), k, a) => k = j
  BY <1>6, OwnedOnce
<1>10. ServedOnce'
  BY <1>5, <1>8, <1>9 DEF ServedOnce, FailuresFit, Started
<1> QED
  BY <1>4, <1>7, <1>10 DEF FailuresFit, Spared

\* River takes note of it.
LEMMA DiscardRemains ==
    ASSUME BuildInv, FailuresFit, NEW t \in threads, DiscardJob(t)
    PROVE  FailuresFit'
<1>0. t.ops[1] = First(t) /\ HandlersFit
  <2>1. OpsFit(t.ops)
    BY DEF BuildInv, HandlersFit
  <2>2. PICK A : t.ops \in Seq([op : OpNames, arg : A])
    BY <2>1 DEF OpsFit, OpList
  <2> QED
    BY <2>1, <2>2 DEF OpsFit, First, BuildInv
<1>1. First(t).op \in {"discard", "abandon"}
  BY DEF DiscardJob
<1>2. PICK j \in DOMAIN chunkJobs : chunkJobs[j].st = "failing" /\ Owned(t.ops, j, chunkJobs[j].id)
  BY <1>0, <1>1, CleanTail DEF FailuresFit, Serves
<1>3. First(t).arg = j /\ Tail(t.ops) = << >>
  <2> DEFINE a == chunkJobs[j].id
  <2>1. Owned(t.ops, j, a)
    BY <1>2
  <2> HIDE DEF a
  <2>2. t.ops[1].op \in {"discard", "abandon"} => t.ops[1].arg = j /\ Tail(t.ops) = << >>
    BY <2>1, OwnedOnce
  <2> QED
    BY <1>0, <1>1, <2>2
<1>4. threads' = threads \ {t} /\ \E how \in {"discarded", "abandoned"} : JobEnds(j, how)
  BY <1>3 DEF DiscardJob, GoesOn
<1>5. PICK new : new.st \in {"discarded", "abandoned"} /\ chunkJobs' = [chunkJobs EXCEPT ![j] = new]
  <2>1. PICK how \in {"discarded", "abandoned"} : chunkJobs' = [chunkJobs EXCEPT ![j].st = how]
    BY <1>4 DEF JobEnds
  <2> DEFINE v == [chunkJobs[j] EXCEPT !.st = how]
  <2>2. v.st = how
    BY DEF BuildInv, JobsFit, JobRow
  <2>3. chunkJobs' = [chunkJobs EXCEPT ![j] = v]
    BY <2>1
  <2> HIDE DEF v
  <2>4. v.st \in {"discarded", "abandoned"}
    BY <2>1, <2>2
  <2> DEFINE P(x) == x.st \in {"discarded", "abandoned"} /\ chunkJobs' = [chunkJobs EXCEPT ![j] = x]
  <2>5. P(v)
    BY <2>3, <2>4
  <2> HIDE DEF P
  <2>6. \E x : P(x)
    BY <2>5
  <2> QED
    BY <2>6 DEF P
<1>6. /\ DOMAIN chunkJobs' = DOMAIN chunkJobs /\ chunkJobs'[j] = new
      /\ \A k \in DOMAIN chunkJobs : k # j => chunkJobs'[k] = chunkJobs[k]
  BY <1>5 DEF BuildInv, JobsFit
<1>7. SeenBefore'
  BY <1>5, <1>6 DEF FailuresFit, SeenBefore, Attempted
<1>8. ASSUME NEW u \in threads' PROVE Serves(u)'
  <2>1. u \in threads /\ u # t /\ Serves(u)
    BY <1>4 DEF FailuresFit
  <2>2. CASE Unowned(u.ops)
    BY <2>2 DEF Serves
  <2>3. CASE \E k \in DOMAIN chunkJobs : chunkJobs[k].st = "failing" /\ Owned(u.ops, k, chunkJobs[k].id)
    <3>1. PICK k \in DOMAIN chunkJobs : chunkJobs[k].st = "failing" /\ Owned(u.ops, k, chunkJobs[k].id)
      BY <2>3
    <3>2. k # j
      BY <1>2, <2>1, <3>1 DEF FailuresFit, ServedOnce
    <3>3. k \in DOMAIN chunkJobs' /\ chunkJobs'[k] = chunkJobs[k]
      BY <1>6, <3>2
    <3> QED
      BY <3>1, <3>3 DEF Serves
  <2> QED
    BY <2>1, <2>2, <2>3 DEF Serves
<1> QED
  BY <1>4, <1>7, <1>8 DEF FailuresFit, ServedOnce

LEMMA HandlerRemains ==
    ASSUME BuildInv, FailuresFit, NEW t \in threads, Statement(t) \/ StatementFails(t)
    PROVE  FailuresFit'
<1>1. CASE WriteBuild(t) \/ WriteChunk(t) \/ StatementFails(t)
  BY <1>1, JobsSpared, HandlerServes DEF WriteBuild, WriteChunk, StatementFails
<1>2. CASE EnqueueChunk(t)
  <2>1. Spared
    BY JobsSpared, <1>2 DEF BuildInv, JobsFit, Spared, FailuresFit, SeenBefore, Attempted,
       EnqueueChunk, InsertJob
  <2> QED
    BY <1>2, <2>1, HandlerServes DEF EnqueueChunk
<1> QED
  BY <1>1, <1>2, DiscardRemains DEF Statement

LEMMA CrashRemains ==
    ASSUME BuildInv, FailuresFit, VanadisCrash
    PROVE  FailuresFit'
<1>1. threads' = {} /\ DOMAIN chunkJobs' = DOMAIN chunkJobs
      /\ \A j \in DOMAIN chunkJobs :
            \/ chunkJobs'[j] = [chunkJobs[j] EXCEPT !.st = "abandoned"]
            \/ chunkJobs'[j] = [chunkJobs[j] EXCEPT !.st = "available"]
            \/ chunkJobs'[j] = chunkJobs[j]
  BY DEF VanadisCrash
<1>2. ASSUME NEW j \in DOMAIN chunkJobs, chunkJobs'[j].st \in Attempted PROVE chunkJobs'[j].seen # "merged"
  <2>1. chunkJobs[j] \in JobRow
    BY DEF BuildInv, JobsFit
  <2>2. [chunkJobs[j] EXCEPT !.st = "abandoned"].st = "abandoned" /\ [chunkJobs[j] EXCEPT !.st = "available"].st = "available"
    BY <2>1 DEF JobRow
  <2> QED
    BY <1>1, <1>2, <2>2 DEF FailuresFit, SeenBefore, Attempted
<1> QED
  BY <1>1, <1>2 DEF FailuresFit, SeenBefore, ServedOnce

LEMMA FailuresRemain == BuildInv /\ FailuresFit /\ [BuildNext]_buildVars => FailuresFit'
<1> SUFFICES ASSUME BuildInv, FailuresFit, [BuildNext]_buildVars PROVE FailuresFit'
  OBVIOUS
<1>1. CASE UNCHANGED <<chunkJobs, threads>>
  BY <1>1, JobsSpared, OthersServe
<1>2. ASSUME NEW j \in DOMAIN chunkJobs,
             FetchJob(j) \/ MarkChunkRunning(j) \/ DispatchChunk(j) \/ FetchFails(j) \/ MarkFails(j) \/ DispatchFails(j)
      PROVE  FailuresFit'
  BY WorkerRemains, FinalRemains, <1>2 DEF DispatchFails
<1>3. ASSUME NEW ops, Unowned(ops), threads' = Started(ops), UNCHANGED chunkJobs PROVE FailuresFit'
  BY <1>3, JobsSpared, CleanStarts
<1>4. ASSUME NEW c \in Rows, AdvanceChunkByPR(c) \/ FailChunkByPR(c) \/ RecoverBuildOnPRSync(c)
      PROVE  FailuresFit'
  BY <1>3, RecoverOps, PlainIsClean, OneOpIsClean, <1>1, <1>4 DEF PlainNames,
     RecoverBuildOnPRSync, FailChunkByPR, AdvanceChunkByPR
<1>5. CASE HandleBuildCancel
  BY <1>3, <1>5, CancelOps, PlainIsClean DEF HandleBuildCancel
<1>6. ASSUME NEW c, OpenPR(c) \/ PRTurns(c) \/ AttachChunkPR(c) \/ UpdateChunk(c) \/ RemoveChunk(c)
      PROVE  UNCHANGED <<chunkJobs, threads>>
  BY <1>6 DEF OpenPR, PRTurns, AttachChunkPR, UpdateChunk, RemoveChunk
<1>7. CASE AppendChunk \/ NewPeriod \/ UNCHANGED buildVars
  BY <1>1, <1>7 DEF AppendChunk, NewPeriod, buildVars
<1> QED
  BY <1>1, <1>2, <1>4, <1>5, <1>6, <1>7, HandlerRemains, CrashRemains DEF BuildNext, ChunkWork

LEMMA FailuresStart == BuildInit => FailuresFit
<1> SUFFICES ASSUME BuildInit PROVE FailuresFit
  OBVIOUS
<1>1. chunkJobs = << >> /\ threads = {Handler(1, <<Op("create", 0)>>)}
  BY DEF BuildInit
<1>2. Unowned(<<Op("create", 0)>>)
  BY OneOpIsClean, Zenon DEF PlainNames
<1> QED
  BY <1>1, <1>2 DEF FailuresFit, SeenBefore, Serves, ServedOnce, Handler

\* Who puts a merged chunk back had read it before.
LEMMA UnmergedByWhom ==
    BuildInv /\ FailuresFit /\ [BuildNext]_buildVars => [UnmergesWhenStale]_buildVars
<1> SUFFICES ASSUME BuildInv, FailuresFit, BuildNext,
                    NEW c \in Rows, chunks[c].st = "merged", c \in DOMAIN chunks', chunks'[c].st # "merged"
             PROVE  \/ \E j \in DOMAIN chunkJobs : /\ chunkJobs[j].st \in {"fetched", "failing"}
                                                   /\ chunkJobs[j].id = c /\ chunkJobs[j].seen # "merged"
                    \/ \E t \in threads : First(t).op \in {"cancel chunk", "revive chunk"} /\ First(t).arg = c
  BY DEF UnmergesWhenStale, buildVars
<1>1. \A d \in Rows : chunks[d] \in ChunkRow
  BY DEF BuildInv, RowsAreDense
<1>2. UNCHANGED chunks => FALSE
  OBVIOUS
<1>3. ASSUME NEW d \in Rows, AttachChunkPR(d) \/ FailChunkByPR(d) \/ UpdateChunk(d) PROVE FALSE
  BY <1>3, <1>1 DEF AttachChunkPR, FailChunkByPR, UpdateChunk, Rows, Editable, ChunkRow
<1>4. ASSUME NEW d \in Rows, AdvanceChunkByPR(d) PROVE FALSE
  BY <1>1, <1>4 DEF ChunkRow, Rows, AdvanceChunkByPR
<1>5. ASSUME NEW d \in Rows, RemoveChunk(d) PROVE FALSE
  BY <1>5, <1>1 DEF RemoveChunk, Compacted, ChunkRow
<1>6. ~AppendChunk
  BY AppendAdds
<1>7. ASSUME NEW t \in threads, WriteChunk(t)
      PROVE  \/ \E j \in DOMAIN chunkJobs : /\ chunkJobs[j].st \in {"fetched", "failing"}
                                            /\ chunkJobs[j].id = c /\ chunkJobs[j].seen # "merged"
             \/ \E u \in threads : First(u).op \in {"cancel chunk", "revive chunk"} /\ First(u).arg = c
  <2>1. First(t).arg = c
    BY <1>7, <1>2 DEF WriteChunk, Rows
  <2>2. CASE First(t).op \in {"cancel chunk", "revive chunk"}
    BY <2>1, <2>2
  <2>3. CASE First(t).op = FailChunk
    <3>1. HandlersFit /\ First(t) = t.ops[1]
      <4>1. OpsFit(t.ops)
        BY DEF BuildInv, HandlersFit
      <4>2. PICK A : t.ops \in Seq([op : OpNames, arg : A])
        BY <4>1 DEF OpsFit, OpList
      <4> QED
        BY <4>1, <4>2 DEF OpsFit, First, BuildInv
    <3>2. PICK j \in DOMAIN chunkJobs : chunkJobs[j].st = "failing" /\ Owned(t.ops, j, chunkJobs[j].id)
      BY <2>3, <3>1, CleanTail DEF FailuresFit, Serves
    <3> DEFINE a == chunkJobs[j].id
    <3>3. Owned(t.ops, j, a) /\ chunkJobs[j].seen # "merged"
      BY <3>2 DEF FailuresFit, SeenBefore, Attempted
    <3> HIDE DEF a
    <3>4. a = c
      BY <2>1, <2>3, <3>1, <3>3, OwnedOnce
    <3> QED
      BY <3>2, <3>3, <3>4 DEF a
  <2> QED
    BY <1>7, <2>2, <2>3, Zenon DEF WriteChunk, FailChunk
<1>8. ASSUME NEW j \in DOMAIN chunkJobs, MarkChunkRunning(j)
      PROVE  chunkJobs[j].st = "fetched" /\ chunkJobs[j].id = c /\ chunkJobs[j].seen # "merged"
  BY <1>8 DEF MarkChunkRunning, FailuresFit, SeenBefore, Attempted, Rows
<1>9. \A j \in DOMAIN chunkJobs : ~(FetchJob(j) \/ DispatchChunk(j) \/ FetchFails(j) \/ MarkFails(j) \/ DispatchFails(j))
  BY <1>2 DEF FetchJob, DispatchChunk, FetchFails, MarkFails, DispatchFails
<1>10. \A t \in threads : ~(EnqueueChunk(t) \/ WriteBuild(t) \/ DiscardJob(t) \/ StatementFails(t))
  BY <1>2, Zenon DEF EnqueueChunk, WriteBuild, DiscardJob, StatementFails
<1>11. /\ \A d \in ChunkIds : ~(OpenPR(d) \/ PRTurns(d))
       /\ \A d \in Rows : ~RecoverBuildOnPRSync(d)
       /\ ~HandleBuildCancel /\ ~NewPeriod /\ ~VanadisCrash
  BY <1>2 DEF OpenPR, PRTurns, RecoverBuildOnPRSync, HandleBuildCancel, NewPeriod, VanadisCrash
<1> QED
  BY <1>3, <1>4, <1>5, <1>6, <1>7, <1>8, <1>9, <1>10, <1>11 DEF BuildNext, ChunkWork, Statement

\* A chunk recorded as merged is put back only by a worker or a handler that had read it
\* before (UpdateChunkStatus asks nothing about the status it overwrites).
THEOREM MergedIsNotLost == BuildSpec => [][UnmergesWhenStale]_buildVars
<1>1. BuildInit => BuildInv /\ FailuresFit
  BY BuildStarts, FailuresStart
<1>2. BuildInv /\ FailuresFit /\ [BuildNext]_buildVars => (BuildInv /\ FailuresFit)'
  BY BuildKept, FailuresRemain
<1> QED
  BY <1>1, <1>2, UnmergedByWhom, PTL DEF BuildSpec

--------------------
(* PhoneCall.  Every turn spoken is in the row, cut off, in the session's *)
(* buffer or about to be appended.  The compare-and-swap that starts a *)
(* report leaves one goroutine with it.  What a poster has read of the *)
(* transcript lies before what it will advance the cursor to, and that is *)
(* in the row and, once posted, in Discord. *)

CallStates == Terminal \cup {"none", "initiated", "in-progress"}
ReportStates == {"none", "pending", "awaiting_recording", "processing", "delivered", "failed"}
CallRow == [state : CallStates, ended : BOOLEAN, bound : BOOLEAN, turns : Nat, cursor : Nat,
            report : ReportStates]
Media == [pc : {"none", "run", "cut"}, start : BOOLEAN, hangup : BOOLEAN, mark : {"no", "wire", "lost"},
          frames : BOOLEAN, buffer : BOOLEAN, taken : BOOLEAN]
Poster == [pc : {"idle", "claim", "flush", "live", "advance", "post"}, total : Nat, cursor : Nat]

CallTypes ==
    /\ kind \in CallKinds /\ callRow \in CallRow /\ amdRead \in CallStates /\ hooks \subseteq Hooks
    /\ (line = "none" => hooks = {}) /\ media \in Media /\ (media.pc = "none" => media = NoMedia)
    /\ poster \in [Posters -> Poster]
    /\ livePosted \in Nat /\ summaries \in Nat /\ spoken \in Nat /\ cutOff \in Nat

\* 1 for a turn that is there, 0 for none.
Words(b) == IF b THEN 1 ELSE 0
InSession == Words(media.buffer) + Words(media.taken)
EveryWord == callRow.turns + cutOff + InSession = spoken

\* An inbound call has no row before its webhook is handled, and nothing that
\* needs one.
Unborn ==
    kind # "outbound" /\ (line = "none" \/ "voice" \in hooks) =>
        /\ callRow = NoRow /\ media = NoMedia /\ ~token /\ "recording" \notin hooks
        /\ ending.pc # "hangup" /\ poster = [p \in Posters |-> Lounging]
\* Only a call that prospera makes is dialled and asked for an answering machine.
Outgoing ==
    kind # "outbound" => "amd" \notin hooks /\ amdRead = "none" /\ dialler \in {"idle", "done"}

\* The report of a call is in the hands of p.
Reporting == {"flush", "live", "advance", "post"}
Holders == {p \in Reports : poster[p].pc \in Reporting}
Unclaimed == {"none", "pending", "awaiting_recording"}
OneReporter ==
    /\ \A p \in Holders : callRow.report = "processing" /\ summaries = 0
    /\ \A p, q \in Holders : p = q
    /\ callRow.report \in Unclaimed => summaries = 0
    /\ summaries <= 1

\* A voicemail's report waits for the recording's goroutine.
Recorded ==
    /\ poster["recording"].pc # "idle" => recording
    /\ kind = "voicemail" => callRow.report # "pending"
    /\ VoicemailWaitsForRecording

\* What a poster has read fits the row and, when posted, the channel.
Readers == {p \in Posters : poster[p].pc \in {"live", "advance"}}
CursorsFit ==
    /\ callRow.cursor <= callRow.turns /\ callRow.cursor <= livePosted
    /\ \A p \in Readers : poster[p].cursor < poster[p].total /\ poster[p].total <= callRow.turns
    /\ \A p \in Posters : poster[p].pc = "advance" => poster[p].total <= livePosted

CallInv == CallTypes /\ EveryWord /\ Unborn /\ Outgoing /\ OneReporter /\ Recorded /\ CursorsFit

LEMMA NoRowTyped == NoRow \in CallRow /\ NoRow.turns = 0 /\ NoRow.cursor = 0 /\ NoRow.report = "none"
  BY DEF NoRow, CallRow, CallStates, ReportStates

LEMMA NoMediaTyped == NoMedia \in Media /\ NoMedia.pc = "none" /\ NoMedia.buffer = FALSE /\ NoMedia.taken = FALSE
  BY DEF NoMedia, Media

LEMMA LoungingTyped == Lounging \in Poster /\ Lounging.pc = "idle"
  BY DEF Lounging, Poster

\* What is written over the state of a row leaves its transcript and its report.
LEMMA StateWritten ==
    ASSUME NEW r \in CallRow, NEW s \in CallStates
    PROVE  /\ UpdateCallState(r, s) \in CallRow
           /\ UpdateCallState(r, s).turns = r.turns /\ UpdateCallState(r, s).cursor = r.cursor
           /\ UpdateCallState(r, s).report = r.report
BY DEF UpdateCallState, CallRow

LEMMA Bound ==
    ASSUME NEW r \in CallRow
    PROVE  Bind(r) \in CallRow /\ Bind(r).turns = r.turns /\ Bind(r).cursor = r.cursor /\ Bind(r).report = r.report
  BY DEF Bind, CallRow

LEMMA CallStarts == CallInit => CallInv
<1> SUFFICES ASSUME CallInit PROVE CallInv
  OBVIOUS
<1> USE DEF CallInit
<1>1. CallTypes
  BY NoRowTyped, NoMediaTyped, LoungingTyped DEF CallTypes, CallStates
<1>2. EveryWord
  BY NoRowTyped, NoMediaTyped DEF EveryWord, InSession, Words
<1>3. Unborn /\ Outgoing
  BY DEF Unborn, Outgoing, NotEnding
<1>4. OneReporter
  BY LoungingTyped, NoRowTyped DEF OneReporter, Holders, Reporting, Reports, Posters, Unclaimed
<1>5. Recorded
  BY LoungingTyped, NoRowTyped DEF Recorded, VoicemailWaitsForRecording, Posters
<1>6. CursorsFit
  BY LoungingTyped, NoRowTyped DEF CursorsFit, Readers
<1> QED
  BY <1>1, <1>2, <1>3, <1>4, <1>5, <1>6 DEF CallInv
--------------------
\* What a step does not touch.
LEMMA ReportsLeft ==
    ASSUME OneReporter, Recorded, callRow'.report = callRow.report,
           UNCHANGED <<kind, poster, summaries, recording>>
    PROVE  OneReporter' /\ Recorded'
  BY DEF OneReporter, Holders, Recorded, VoicemailWaitsForRecording

LEMMA CursorsLeft ==
    ASSUME CallTypes, CallTypes', CursorsFit, callRow'.cursor = callRow.cursor, callRow'.turns >= callRow.turns,
           UNCHANGED <<poster, livePosted>>
    PROVE  CursorsFit'
BY DEF CallTypes, CallRow, Poster, CursorsFit, Readers

LEMMA WordsLeft ==
    ASSUME EveryWord, callRow'.turns = callRow.turns,
           media'.buffer = media.buffer, media'.taken = media.taken, UNCHANGED <<spoken, cutOff>>
    PROVE  EveryWord'
  BY DEF EveryWord, InSession

\* A step that writes no turn, posts nothing and moves no report.
LEMMA CallLeft ==
    ASSUME CallInv, CallTypes', Unborn', Outgoing',
           callRow'.turns = callRow.turns, callRow'.cursor = callRow.cursor, callRow'.report = callRow.report,
           media'.buffer = media.buffer, media'.taken = media.taken,
           UNCHANGED <<kind, poster, livePosted, summaries, recording, spoken, cutOff>>
    PROVE  CallInv'
BY ReportsLeft, CursorsLeft, WordsLeft DEF CallInv, CallTypes, CallRow

LEMMA DialKept == CallInv /\ Dial => CallInv'
<1> SUFFICES ASSUME CallInv, Dial PROVE CallInv'
  OBVIOUS
<1> DEFINE row == [NoRow EXCEPT !.state = "initiated", !.report = "pending"]
<1>1. row \in CallRow /\ row.turns = 0 /\ row.cursor = 0 /\ row.report = "pending"
  BY DEF NoRow, CallRow, CallStates, ReportStates
<1> HIDE DEF row
<1>2. callRow' = row /\ kind = "outbound" /\ callRow = NoRow
  BY DEF Dial, row
<1>3. CallTypes'
  BY <1>1, <1>2 DEF CallInv, CallTypes, Dial
<1>4. EveryWord' /\ CursorsFit'
  BY <1>1, <1>2, <1>3, NoRowTyped, WordsLeft, CursorsLeft DEF CallInv, Dial
<1>5. Unborn' /\ Outgoing'
  BY <1>2 DEF Unborn, Outgoing, Dial
<1>6. summaries = 0 /\ Holders = {}
  BY <1>2, NoRowTyped DEF CallInv, OneReporter, Unclaimed
<1>7. OneReporter' /\ Recorded'
  BY <1>1, <1>2, <1>6 DEF CallInv, OneReporter, Holders, Recorded, VoicemailWaitsForRecording, Dial
<1> QED
  BY <1>3, <1>4, <1>5, <1>7 DEF CallInv

LEMMA DialledKept == CallInv /\ (CreateCall \/ BindProviderCallSID \/ PickUp) => CallInv'
<1> SUFFICES ASSUME CallInv, CreateCall \/ BindProviderCallSID \/ PickUp PROVE CallInv'
  OBVIOUS
<1>0. callRow \in CallRow
  BY DEF CallInv, CallTypes
<1>1. callRow' \in CallRow /\ callRow'.turns = callRow.turns /\ callRow'.cursor = callRow.cursor
      /\ callRow'.report = callRow.report
  BY <1>0, StateWritten, Bound DEF CreateCall, BindProviderCallSID, PickUp, CallStates, Terminal
<1>2. CallTypes'
  BY <1>1 DEF CallInv, CallTypes, CreateCall, BindProviderCallSID, PickUp, Hooks
<1>3. CASE CreateCall
  BY <1>1, <1>2, <1>3, CallLeft DEF CreateCall, CallInv, Unborn, Outgoing
<1>4. CASE BindProviderCallSID
  BY <1>1, <1>2, <1>4, CallLeft DEF BindProviderCallSID, CallInv, Unborn, Outgoing
<1>5. CASE PickUp
  BY <1>1, <1>2, <1>5, CallLeft DEF PickUp, CallInv, Unborn, Outgoing
<1> QED
  BY <1>3, <1>4, <1>5

LEMMA LineEndsKept == CallInv /\ LineEnds => CallInv'
<1> SUFFICES ASSUME CallInv, LineEnds PROVE CallInv'
  OBVIOUS
<1>1. CallTypes'
  BY DEF CallInv, CallTypes, LineEnds, Hooks
<1>2. Unborn'
  <2> SUFFICES ASSUME kind # "outbound", "voice" \in hooks PROVE Unborn'
    BY DEF Unborn, LineEnds
  <2>1. callRow.report # "awaiting_recording" /\ Unborn
    BY NoRowTyped DEF CallInv, Unborn
  <2>2. hooks' = hooks \cup {"status"}
    BY <2>1 DEF LineEnds
  <2> QED
    BY <2>1, <2>2 DEF Unborn, LineEnds
<1>3. Outgoing'
  BY DEF CallInv, Outgoing, LineEnds
<1> QED
  BY <1>1, <1>2, <1>3, CallLeft DEF LineEnds

LEMMA AMDKept == CallInv /\ (ReadAMD \/ WriteAMD) => CallInv'
BY StateWritten, Bound, CallLeft DEF CallInv, CallTypes, Outgoing, ReadAMD, WriteAMD, CallRow,
   CallStates, Unborn

LEMMA NewRowTyped ==
    /\ NewRow \in CallRow /\ NewRow.turns = 0 /\ NewRow.cursor = 0
    /\ NewRow.report = IF kind = "inbound" THEN "pending" ELSE "awaiting_recording"
  BY DEF NewRow, NoRow, CallRow, CallStates, ReportStates

LEMMA VoiceKept == CallInv /\ HandleTwilioVoice => CallInv'
<1> SUFFICES ASSUME CallInv, HandleTwilioVoice PROVE CallInv'
  OBVIOUS
<1>0. callRow \in CallRow /\ kind \in CallKinds
  BY DEF CallInv, CallTypes
<1>1. CASE kind = "outbound"
  BY <1>1, <1>0, Bound, CallLeft DEF HandleTwilioVoice, CallInv, CallTypes, Unborn, Outgoing
<1>2. CASE kind # "outbound"
  <2>1. callRow = NoRow /\ poster = [p \in Posters |-> Lounging]
    BY <1>2 DEF CallInv, Unborn, HandleTwilioVoice
  <2>2. /\ callRow' \in CallRow /\ callRow'.turns = 0 /\ callRow'.cursor = 0
        /\ callRow'.report \in {"none", IF kind = "inbound" THEN "pending" ELSE "awaiting_recording"}
    BY <2>1, <1>2, NewRowTyped, NoRowTyped DEF HandleTwilioVoice
  <2>3. CallTypes'
    BY <2>2 DEF CallInv, CallTypes, HandleTwilioVoice
  <2> DEFINE Rest == UNCHANGED <<media, poster, livePosted, spoken, cutOff>>
  <2>9. Rest /\ callRow.turns = 0 /\ callRow.cursor = 0
    BY <2>1, NoRowTyped DEF HandleTwilioVoice
  <2>4. EveryWord' /\ CursorsFit'
    BY <2>2, <2>3, <2>9, WordsLeft, CursorsLeft DEF CallInv
  <2>5. line # "none"
    BY DEF CallInv, CallTypes, HandleTwilioVoice
  <2>6. Unborn' /\ Outgoing'
    BY <2>5 DEF CallInv, Unborn, Outgoing, HandleTwilioVoice
  <2>7. summaries = 0 /\ Holders = {}
    BY <2>1, NoRowTyped, LoungingTyped DEF CallInv, OneReporter, Unclaimed, Holders, Reporting, Reports, Posters
  <2>8. OneReporter' /\ Recorded'
    BY <2>2, <2>7 DEF CallInv, OneReporter, Holders, Unclaimed, Recorded, VoicemailWaitsForRecording,
                      HandleTwilioVoice
  <2> QED
    BY <2>3, <2>4, <2>6, <2>8 DEF CallInv
<1> QED
  BY <1>1, <1>2

\* A goroutine begins to ask for the report: whoever has it keeps it.
LEMMA ReporterAsks ==
    ASSUME CallInv, NEW p \in Reports, poster' = [poster EXCEPT ![p].pc = "claim"],
           callRow'.turns = callRow.turns, callRow'.cursor = callRow.cursor, callRow'.report = callRow.report,
           UNCHANGED <<kind, livePosted, summaries>>,
           recording => recording', p = "recording" => recording'
    PROVE  poster' \in [Posters -> Poster] /\ OneReporter' /\ Recorded' /\ CursorsFit'
<1>1. p \in Posters /\ poster \in [Posters -> Poster]
  BY DEF CallInv, CallTypes, Reports, Posters
<1>2. poster[p] \in Poster
  BY <1>1
<1>3. [poster[p] EXCEPT !.pc = "claim"] \in Poster /\ [poster[p] EXCEPT !.pc = "claim"].pc = "claim"
  BY <1>2 DEF Poster
<1>4. poster' \in [Posters -> Poster] /\ poster'[p].pc = "claim"
      /\ \A q \in Posters \ {p} : poster'[q] = poster[q]
  BY <1>1, <1>3
<1>5. Holders' \subseteq Holders
  BY <1>4 DEF Holders, Reporting, Reports, Posters
<1>6. OneReporter'
  BY <1>5 DEF CallInv, OneReporter
<1>7. Recorded'
  BY <1>4 DEF CallInv, Recorded, Posters, VoicemailWaitsForRecording
<1>8. CursorsFit'
  BY <1>4 DEF CallInv, CursorsFit, Readers
<1> QED
  BY <1>4, <1>6, <1>7, <1>8

LEMMA StatusKept == ASSUME NEW s \in Terminal PROVE CallInv /\ HandleTwilioStatus(s) => CallInv'
BY CallLeft, StateWritten, Bound, ReporterAsks, WordsLeft DEF CallInv, CallTypes, CallStates,
   HandleTwilioStatus, Unborn, Outgoing, IsTerminal, Reports

LEMMA VoicemailKept == CallInv /\ HandleTwilioVoicemail => CallInv'
<1> SUFFICES ASSUME CallInv, HandleTwilioVoicemail PROVE CallInv'
  OBVIOUS
<1> USE DEF HandleTwilioVoicemail
<1>1. poster' \in [Posters -> Poster] /\ OneReporter' /\ Recorded' /\ CursorsFit'
  <2>1. CASE callRow = NoRow
    <3>1. UNCHANGED <<kind, callRow, poster, summaries, livePosted>> /\ recording' = TRUE
      BY <2>1
    <3> HIDE DEF HandleTwilioVoicemail
    <3> QED
      BY <3>1 DEF CallInv, CallTypes, OneReporter, Holders, Recorded, VoicemailWaitsForRecording, CursorsFit, Readers
  <2> QED
    BY <2>1, ReporterAsks DEF Reports
<1>2. CallTypes'
  BY <1>1 DEF CallInv, CallTypes
<1>3. Unborn' /\ Outgoing'
  BY DEF CallInv, Unborn, Outgoing
<1>4. EveryWord'
  BY WordsLeft DEF CallInv
<1> QED
  BY <1>1, <1>2, <1>3, <1>4 DEF CallInv

LEMMA EndCallKept == CallInv /\ (EndCall \/ EndCallHangUp) => CallInv'
<1> SUFFICES ASSUME CallInv, EndCall \/ EndCallHangUp PROVE CallInv'
  OBVIOUS
<1>0. callRow \in CallRow /\ media \in Media
  BY DEF CallInv, CallTypes
<1>1. CASE EndCall
  BY <1>0, <1>1, CallLeft DEF EndCall, Running, Media, CallInv, CallTypes, Unborn, Outgoing
<1>2. CASE EndCallHangUp
  <2>1. callRow' \in CallRow /\ callRow'.turns = callRow.turns /\ callRow'.cursor = callRow.cursor
        /\ callRow'.report = callRow.report
    BY <1>0, <1>2, StateWritten DEF EndCallHangUp, CallStates, Terminal
  <2>2. poster' \in [Posters -> Poster] /\ OneReporter' /\ Recorded' /\ CursorsFit'
    BY <1>2, <2>1, ReporterAsks DEF EndCallHangUp, Reports
  <2>3. CallTypes'
    BY <1>2, <2>1, <2>2 DEF CallInv, CallTypes, EndCallHangUp, Hooks
  <2>4. Unborn' /\ Outgoing'
    BY <1>2 DEF CallInv, Unborn, Outgoing, EndCallHangUp
  <2>5. EveryWord'
    BY <1>2, <2>1, WordsLeft DEF CallInv, EndCallHangUp
  <2> QED
    BY <2>2, <2>3, <2>4, <2>5 DEF CallInv
<1> QED
  BY <1>1, <1>2

--------------------
\* The session exists: an inbound call has its row.
LEMMA SessionLeft ==
    ASSUME CallInv, media # NoMedia \/ token, UNCHANGED kind,
           line' = "none" => line = "none", hooks' \subseteq hooks \cup {"status"}
    PROVE  Unborn'
  BY DEF CallInv, Unborn

LEMMA StreamKept ==
    CallInv /\ (OpenStream \/ StreamStart \/ PaceFrame \/ PaceMark \/ ToolEndCall \/ GeminiBreaks) => CallInv'
<1> SUFFICES ASSUME CallInv,
                    OpenStream \/ StreamStart \/ PaceFrame \/ PaceMark \/ ToolEndCall \/ GeminiBreaks
             PROVE  CallInv'
  OBVIOUS
<1> USE DEF Running
<1>0. callRow \in CallRow /\ media \in Media /\ (media.pc = "none" => media = NoMedia)
  BY DEF CallInv, CallTypes
<1>1. media # NoMedia \/ token
  BY NoMediaTyped DEF OpenStream, StreamStart, PaceFrame, PaceMark, ToolEndCall, GeminiBreaks
<1>2. /\ callRow' \in CallRow /\ callRow'.turns = callRow.turns /\ callRow'.cursor = callRow.cursor
      /\ callRow'.report = callRow.report
  BY <1>0, StateWritten, Bound DEF StreamStart, CallStates, OpenStream, PaceFrame, PaceMark,
     ToolEndCall, GeminiBreaks
<1>3. media' \in Media /\ media'.buffer = media.buffer /\ media'.taken = media.taken
      /\ (media'.pc = "none" => media' = NoMedia)
  BY <1>0 DEF OpenStream, NoMedia, Media, StreamStart, PaceFrame, PaceMark, ToolEndCall,
     GeminiBreaks
<1>4. /\ UNCHANGED <<kind, amdRead, dialler, poster, livePosted, summaries, recording, spoken, cutOff>>
      /\ (line' = "none" => line = "none") /\ hooks' \subseteq hooks \cup {"status"}
      /\ (line' = "none" => hooks' = hooks)
  BY DEF OpenStream, StreamStart, PaceFrame, PaceMark, ToolEndCall, GeminiBreaks, HangUp
<1>5. CallTypes'
  BY <1>2, <1>3, <1>4 DEF CallInv, CallTypes, Hooks
<1>6. Unborn'
  BY <1>1, <1>4, SessionLeft
<1>7. Outgoing'
  BY <1>4 DEF CallInv, Outgoing
<1> QED
  BY <1>2, <1>3, <1>4, <1>5, <1>6, <1>7, CallLeft

\* A turn that is appended is in the row or cut off.
LEMMA TurnAppended ==
    ASSUME callRow \in CallRow, cutOff \in Nat, NEW has \in BOOLEAN, NEW kept \in BOOLEAN, Appended(has, kept)
    PROVE  /\ WithTurn(kept) \in CallRow /\ WithTurn(kept).turns >= callRow.turns /\ cutOff' \in Nat
           /\ WithTurn(kept).turns + cutOff' = callRow.turns + cutOff + Words(has)
           /\ WithTurn(kept).cursor = callRow.cursor /\ WithTurn(kept).report = callRow.report
  BY DEF Appended, WithTurn, CallRow, Words

LEMMA FlushedAndCompleted ==
    ASSUME callRow \in CallRow, media \in Media, cutOff \in Nat, FlushAndComplete
    PROVE  /\ callRow' \in CallRow /\ callRow'.turns >= callRow.turns /\ cutOff' \in Nat
           /\ callRow'.turns + cutOff' = callRow.turns + cutOff + Words(media.buffer)
           /\ callRow'.cursor = callRow.cursor /\ callRow'.report = callRow.report
<1>1. PICK kept \in BOOLEAN : Appended(media.buffer, kept) /\ callRow' = UpdateCallState(WithTurn(kept), "completed")
  BY DEF FlushAndComplete
<1>2. media.buffer \in BOOLEAN /\ "completed" \in CallStates
  BY DEF Media, CallStates, Terminal
<1> QED
  BY <1>1, <1>2, TurnAppended, StateWritten

\* A turn goes from the line to the session and from there to the row, or is cut off.
LEMMA TurnsKept ==
    CallInv /\ (Speak \/ TakeTurn \/ AppendTurn \/ MarkReturns \/ StreamStops \/ CloseSession) => CallInv'
<1> SUFFICES ASSUME CallInv,
                    Speak \/ TakeTurn \/ AppendTurn \/ MarkReturns \/ StreamStops \/ CloseSession
             PROVE  CallInv'
  OBVIOUS
<1> USE DEF Running
<1>0. callRow \in CallRow /\ media \in Media /\ (media.pc = "none" => media = NoMedia)
      /\ spoken \in Nat /\ cutOff \in Nat
  BY DEF CallInv, CallTypes
<1>1. media # NoMedia
  BY NoMediaTyped DEF Speak, TakeTurn, AppendTurn, MarkReturns, StreamStops, CloseSession
<1>3. Words(media.buffer) \in {0, 1} /\ Words(media.taken) \in {0, 1} /\ callRow.turns \in Nat
  BY <1>0 DEF Words, CallRow
<1> DEFINE Whole ==
      /\ callRow' \in CallRow /\ callRow'.turns >= callRow.turns /\ callRow'.cursor = callRow.cursor
      /\ callRow'.report = callRow.report
      /\ media' \in Media /\ (media'.pc = "none" => media' = NoMedia)
      /\ spoken' \in Nat /\ cutOff' \in Nat
      /\ EveryWord'
<1>4. ASSUME Speak PROVE Whole
  <2>1. media' \in Media /\ media'.pc = media.pc /\ media'.buffer = TRUE /\ media'.taken = FALSE
        /\ media.buffer = FALSE /\ media.taken = FALSE
    BY <1>0, <1>4 DEF Speak, Media
  <2>2. callRow' = callRow /\ spoken' = spoken + 1 /\ cutOff' = cutOff /\ media.pc = "run"
    BY <1>4 DEF Speak
  <2>3. EveryWord'
    BY <1>0, <1>3, <2>1, <2>2 DEF CallInv, EveryWord, InSession, Words
  <2> QED
    BY <1>0, <1>3, <2>1, <2>2, <2>3
<1>5. ASSUME TakeTurn PROVE Whole
  <2>1. media' \in Media /\ media'.pc = media.pc /\ media'.buffer = FALSE /\ media'.taken = TRUE
        /\ media.buffer = TRUE /\ media.taken = FALSE
    BY <1>0, <1>5 DEF TakeTurn, Media
  <2>2. callRow' = callRow /\ spoken' = spoken /\ cutOff' = cutOff /\ media.pc = "run"
    BY <1>5 DEF TakeTurn
  <2>3. EveryWord'
    BY <1>0, <1>3, <2>1, <2>2 DEF CallInv, EveryWord, InSession, Words
  <2> QED
    BY <1>0, <1>3, <2>1, <2>2, <2>3
<1>6. ASSUME AppendTurn PROVE Whole
  <2>1. media' \in Media /\ media'.pc = media.pc /\ media'.buffer = media.buffer /\ media'.taken = FALSE
        /\ media.taken = TRUE /\ media.pc # "none"
    BY <1>0, <1>6, NoMediaTyped DEF AppendTurn, Media
  <2>2. spoken' = spoken
    BY <1>6 DEF AppendTurn
  <2>3. ASSUME media.pc = "run" PROVE Whole
    <3>1. PICK kept \in BOOLEAN : Appended(TRUE, kept) /\ callRow' = WithTurn(kept)
      BY <1>6, <2>3 DEF AppendTurn
    <3>2. /\ callRow' \in CallRow /\ callRow'.turns >= callRow.turns /\ cutOff' \in Nat
          /\ callRow'.turns + cutOff' = callRow.turns + cutOff + 1
          /\ callRow'.cursor = callRow.cursor /\ callRow'.report = callRow.report
      BY <3>1, <1>0, TurnAppended DEF Words
    <3>3. EveryWord'
      BY <3>2, <1>0, <1>3, <2>1, <2>2 DEF CallInv, EveryWord, InSession, Words, CallRow
    <3> QED
      BY <3>2, <3>3, <1>0, <2>1, <2>2
  <2>4. ASSUME media.pc # "run" PROVE Whole
    BY <1>6, <2>4, <1>0, <1>3, <2>1, <2>2 DEF AppendTurn, CallInv, EveryWord, InSession, Words
  <2> QED
    BY <2>3, <2>4
<1>7. ASSUME MarkReturns \/ (StreamStops /\ FlushAndComplete /\ media' = [media EXCEPT !.pc = "cut", !.buffer = FALSE])
      PROVE Whole
  <2>1. media' \in Media /\ media'.pc = "cut" /\ media'.buffer = FALSE /\ media'.taken = media.taken
    BY <1>0, <1>7 DEF MarkReturns, Media
  <2>2. FlushAndComplete /\ spoken' = spoken
    BY <1>7 DEF MarkReturns, StreamStops
  <2>3. EveryWord'
    BY <1>0, <1>3, <2>1, <2>2, FlushedAndCompleted DEF CallInv, EveryWord, InSession, Words, CallRow
  <2> QED
    BY <1>0, <2>1, <2>2, <2>3, FlushedAndCompleted
<1>8. ASSUME StreamStops, media' = [media EXCEPT !.pc = "cut"], UNCHANGED <<callRow, cutOff, callFaults>> PROVE Whole
  <2>1. media' \in Media /\ media'.pc = "cut" /\ media'.taken = media.taken /\ media'.buffer = media.buffer
    BY <1>0, <1>8 DEF Media
  <2>2. callRow' = callRow /\ cutOff' = cutOff /\ spoken' = spoken
    BY <1>8 DEF StreamStops
  <2> QED
    BY <1>0, <1>3, <2>1, <2>2 DEF CallInv, EveryWord, InSession, Words
<1>9. ASSUME CloseSession PROVE Whole
  <2>1. PICK kept \in BOOLEAN : Appended(media.buffer, kept) /\ callRow' = WithTurn(kept)
    BY <1>9 DEF CloseSession
  <2>2. media.buffer \in BOOLEAN /\ media.taken = FALSE /\ media' = NoMedia /\ spoken' = spoken
    BY <1>0, <1>9 DEF CloseSession, Media
  <2>3. EveryWord'
    BY <1>0, <1>3, <2>1, <2>2, TurnAppended, NoMediaTyped DEF CallInv, EveryWord, InSession, Words, CallRow
  <2> QED
    BY <1>0, <2>1, <2>2, <2>3, TurnAppended, NoMediaTyped
<1>10. Whole
  BY <1>4, <1>5, <1>6, <1>7, <1>8, <1>9 DEF StreamStops
<1>11. /\ UNCHANGED <<kind, amdRead, dialler, poster, livePosted, summaries, recording>>
       /\ (line' = "none" => line = "none") /\ hooks' \subseteq hooks \cup {"status"}
       /\ (line' = "none" => hooks' = hooks)
  BY DEF Speak, TakeTurn, AppendTurn, MarkReturns, StreamStops, CloseSession, HangUp
<1>12. CallTypes'
  BY <1>10, <1>11 DEF CallInv, CallTypes, Hooks
<1>13. Unborn'
  BY <1>1, <1>11, SessionLeft
<1>14. Outgoing'
  BY <1>11 DEF CallInv, Outgoing
<1>15. OneReporter' /\ Recorded' /\ CursorsFit'
  BY <1>10, <1>11, <1>12, ReportsLeft, CursorsLeft DEF CallInv
<1> QED
  BY <1>10, <1>12, <1>13, <1>14, <1>15 DEF CallInv

--------------------
LEMMA PosterMoved ==
    ASSUME poster \in [Posters -> Poster], NEW p \in Posters, NEW w \in Poster,
           poster' = [poster EXCEPT ![p] = w]
    PROVE  poster' \in [Posters -> Poster] /\ poster'[p] = w /\ \A q \in Posters \ {p} : poster'[q] = poster[q]
  OBVIOUS

\* A goroutine at work is not one of a call without a row.
LEMMA PosterLeft ==
    ASSUME CallInv, NEW p \in Posters, poster[p].pc # "idle" \/ media # NoMedia,
           UNCHANGED <<kind, line, hooks>>
    PROVE  Unborn'
  BY LoungingTyped DEF CallInv, Unborn

LEMMA BatchKept == CallInv /\ BatchTick => CallInv'
<1> SUFFICES ASSUME CallInv, BatchTick PROVE CallInv'
  OBVIOUS
<1> DEFINE w == [poster["batch"] EXCEPT !.pc = "flush"]
<1>0. poster \in [Posters -> Poster] /\ "batch" \in Posters
  BY DEF CallInv, CallTypes, Posters
<1>1. w \in Poster /\ w.pc = "flush" /\ poster' = [poster EXCEPT !["batch"] = w]
  BY <1>0 DEF BatchTick, PosterAt, Poster
<1> HIDE DEF w
<1>2. poster' \in [Posters -> Poster] /\ poster'["batch"] = w /\ \A q \in Posters \ {"batch"} : poster'[q] = poster[q]
  BY <1>0, <1>1, PosterMoved
<1>3. CallTypes'
  BY <1>2 DEF CallInv, CallTypes, BatchTick
<1>4. Unborn'
  BY <1>0, NoMediaTyped, PosterLeft DEF BatchTick
<1>5. EveryWord' /\ Outgoing'
  BY WordsLeft DEF CallInv, Outgoing, BatchTick
<1>6. Holders' = Holders
  BY <1>2 DEF Holders, Reports, Posters
<1>7. OneReporter'
  BY <1>6 DEF CallInv, OneReporter, BatchTick
<1>8. Recorded'
  BY <1>2 DEF CallInv, Recorded, VoicemailWaitsForRecording, Posters, BatchTick
<1>9. CursorsFit'
  BY <1>1, <1>2 DEF CallInv, CursorsFit, Readers, BatchTick
<1> QED
  BY <1>3, <1>4, <1>5, <1>7, <1>8, <1>9 DEF CallInv

\* Whoever comes second finds the report taken.
LEMMA ClaimKept == ASSUME NEW p \in Reports PROVE CallInv /\ ReportClaim(p) => CallInv'
<1> SUFFICES ASSUME CallInv, ReportClaim(p) PROVE CallInv'
  OBVIOUS
<1> DEFINE granted == MayClaim(callRow, ClaimableBy(p))
<1> DEFINE w == IF granted THEN [poster[p] EXCEPT !.pc = IF p = "recording" THEN "post" ELSE "flush"] ELSE Lounging
<1>0. poster \in [Posters -> Poster] /\ p \in Posters /\ poster[p] \in Poster /\ poster[p].pc = "claim"
      /\ callRow \in CallRow
  BY DEF CallInv, CallTypes, Posters, Reports, ReportClaim
<1>1. w \in Poster /\ w.pc = (IF granted THEN (IF p = "recording" THEN "post" ELSE "flush") ELSE "idle")
  BY <1>0, LoungingTyped DEF Poster
<1>2. poster' = [poster EXCEPT ![p] = w]
  BY <1>0 DEF ReportClaim, PosterAt, Poster
<1>3. granted => callRow' = [callRow EXCEPT !.report = "processing"] /\ callRow.report \in Unclaimed
                 /\ (p = "recording" \/ callRow.report = "pending")
  BY DEF ReportClaim, MayClaim, ClaimableBy, Unclaimed
<1>4. ~granted => callRow' = callRow
  BY DEF ReportClaim
<1>5. UNCHANGED <<kind, line, hooks, amdRead, dialler, token, media, ending, livePosted, summaries, recording,
                  spoken, cutOff>>
  BY DEF ReportClaim
<1>6. callRow' \in CallRow /\ callRow'.turns = callRow.turns /\ callRow'.cursor = callRow.cursor
      /\ callRow'.report = IF granted THEN "processing" ELSE callRow.report
  BY <1>0, <1>3, <1>4 DEF CallRow, ReportStates
<1> HIDE DEF w, granted
<1>7. poster' \in [Posters -> Poster] /\ poster'[p] = w /\ \A q \in Posters \ {p} : poster'[q] = poster[q]
  BY <1>0, <1>1, <1>2, PosterMoved
<1>8. CallTypes'
  BY <1>5, <1>6, <1>7 DEF CallInv, CallTypes
<1>9. Unborn' /\ Outgoing' /\ EveryWord'
  BY <1>0, <1>5, <1>6, PosterLeft, WordsLeft DEF CallInv, Outgoing
<1>10. OneReporter'
  BY <1>3, <1>7, <1>5, <1>6, <1>1 DEF CallInv, OneReporter, Unclaimed, Holders, Reports, Posters,
     Reporting
<1>11. Recorded'
  BY <1>0, <1>1, <1>7, <1>3, <1>5, <1>6 DEF CallInv, Recorded, Posters, VoicemailWaitsForRecording
<1>12. CursorsFit'
  BY <1>1, <1>5, <1>6, <1>7 DEF CallInv, CursorsFit, Readers
<1> QED
  BY <1>8, <1>9, <1>10, <1>11, <1>12 DEF CallInv

\* A step of the flush of p: from one place to another, with the report still in its hands.
LEMMA FlushKept ==
    ASSUME CallInv, NEW p \in Posters,
           poster' \in [Posters -> Poster], \A q \in Posters \ {p} : poster'[q] = poster[q],
           poster[p].pc \in Reporting, p = "batch" \/ poster'[p].pc \in Reporting,
           callRow' \in CallRow, callRow'.turns = callRow.turns, callRow'.report = callRow.report,
           livePosted' \in Nat, livePosted' >= livePosted,
           callRow'.cursor <= callRow.turns, callRow'.cursor <= livePosted',
           poster'[p].pc \in {"live", "advance"} =>
               poster'[p].cursor < poster'[p].total /\ poster'[p].total <= callRow.turns,
           poster'[p].pc = "advance" => poster'[p].total <= livePosted',
           UNCHANGED <<kind, line, hooks, amdRead, dialler, token, media, ending, summaries, recording, spoken, cutOff>>
    PROVE  CallInv'
<1>0. poster \in [Posters -> Poster] /\ poster[p].pc # "idle"
  BY DEF CallInv, CallTypes, Reporting
<1>2. CallTypes'
  BY DEF CallInv, CallTypes
<1>3. Unborn' /\ Outgoing' /\ EveryWord'
  BY <1>0, PosterLeft, WordsLeft DEF CallInv, Outgoing
<1>4. Holders' = Holders
  BY DEF Holders, Reports, Posters
<1>5. OneReporter'
  BY <1>4 DEF CallInv, OneReporter
<1>6. Recorded'
  BY <1>0 DEF CallInv, Recorded, VoicemailWaitsForRecording, Posters
<1>7. \A q \in Posters : poster[q].total \in Nat
  BY <1>0 DEF Poster
<1>8. livePosted \in Nat
  BY DEF CallInv, CallTypes
<1>9. CursorsFit'
  BY <1>7, <1>8 DEF CallInv, CursorsFit, Readers
<1> QED
  BY <1>2, <1>3, <1>5, <1>6, <1>9 DEF CallInv

LEMMA ReadKept == ASSUME NEW p \in Posters PROVE CallInv /\ FlushRead(p) => CallInv'
<1> SUFFICES ASSUME CallInv, FlushRead(p) PROVE CallInv'
  OBVIOUS
<1> DEFINE w == IF callRow.cursor >= callRow.turns
                THEN IF p = "batch" THEN Lounging ELSE [poster[p] EXCEPT !.pc = "post"]
                ELSE [pc |-> "live", total |-> callRow.turns, cursor |-> callRow.cursor]
<1>0. poster \in [Posters -> Poster] /\ poster[p] \in Poster /\ callRow \in CallRow /\ livePosted \in Nat
  BY DEF CallInv, CallTypes
<1>1. callRow.turns \in Nat /\ callRow.cursor \in Nat
  BY <1>0 DEF CallRow
<1>2. w \in Poster /\ (p = "batch" \/ w.pc \in Reporting) /\ w.pc # "advance"
      /\ (w.pc = "live" => w.cursor < w.total /\ w.total = callRow.turns)
  BY <1>0, <1>1, LoungingTyped DEF Poster, Reporting
<1>3. poster' = [poster EXCEPT ![p] = w] /\ poster[p].pc \in Reporting
  BY DEF FlushRead, Reporting
<1>4. callRow.cursor <= callRow.turns /\ callRow.cursor <= livePosted
  BY DEF CallInv, CursorsFit
<1> HIDE DEF w
<1>5. poster' \in [Posters -> Poster] /\ poster'[p] = w /\ \A q \in Posters \ {p} : poster'[q] = poster[q]
  BY <1>0, <1>2, <1>3, PosterMoved
<1>6. UNCHANGED <<kind, callRow, line, hooks, amdRead, dialler, token, media, ending, livePosted, summaries,
                  recording, spoken, cutOff>>
  BY DEF FlushRead
<1> QED
  BY <1>0, <1>1, <1>2, <1>3, <1>4, <1>5, <1>6, FlushKept

LEMMA PostKept == ASSUME NEW p \in Posters PROVE CallInv /\ FlushPost(p) => CallInv'
<1> SUFFICES ASSUME CallInv, FlushPost(p) PROVE CallInv'
  OBVIOUS
<1>0. poster \in [Posters -> Poster] /\ poster[p] \in Poster /\ callRow \in CallRow /\ livePosted \in Nat
  BY DEF CallInv, CallTypes
<1>1. callRow.turns \in Nat /\ callRow.cursor \in Nat /\ poster[p].total \in Nat /\ poster[p].cursor \in Nat
  BY <1>0 DEF CallRow, Poster
<1>2. callRow.cursor <= callRow.turns /\ callRow.cursor <= livePosted
  BY DEF CallInv, CursorsFit
<1>3. poster[p].pc \in Reporting /\ poster[p].cursor < poster[p].total /\ poster[p].total <= callRow.turns
  BY DEF CallInv, CursorsFit, Readers, FlushPost, Reporting
<1>6. UNCHANGED <<kind, callRow, line, hooks, amdRead, dialler, token, media, ending, summaries, recording,
                  spoken, cutOff>>
  BY DEF FlushPost
<1>4. CASE poster' = PosterAt(p, "advance")
  <2> DEFINE w == [poster[p] EXCEPT !.pc = "advance"]
  <2>1. w \in Poster /\ w.pc = "advance" /\ w.total = poster[p].total /\ w.cursor = poster[p].cursor
    BY <1>0 DEF Poster
  <2>2. poster' = [poster EXCEPT ![p] = w]
    BY <1>4 DEF PosterAt
  <2>3. poster' # AfterFlush(p)
    BY <1>0, <2>1, <2>2, LoungingTyped DEF AfterFlush, Poster
  <2>4. livePosted' = IF poster[p].total > livePosted THEN poster[p].total ELSE livePosted
    BY <2>3 DEF FlushPost
  <2>5. livePosted' \in Nat /\ livePosted' >= livePosted /\ w.total <= livePosted'
    BY <1>0, <1>1, <2>1, <2>4
  <2> HIDE DEF w
  <2>6. poster' \in [Posters -> Poster] /\ poster'[p] = w /\ \A q \in Posters \ {p} : poster'[q] = poster[q]
    BY <1>0, <2>1, <2>2, PosterMoved
  <2> QED
    BY <1>0, <1>1, <1>2, <1>3, <1>6, <2>1, <2>5, <2>6, FlushKept DEF Reporting
<1>5. CASE poster' = AfterFlush(p) /\ livePosted' = livePosted
  BY <1>0, LoungingTyped, <1>5, PosterMoved, <1>1, <1>2, <1>3, <1>6, FlushKept DEF Poster,
     Reporting, AfterFlush
<1> QED
  BY <1>4, <1>5 DEF FlushPost

LEMMA AdvanceCursorKept == ASSUME NEW p \in Posters PROVE CallInv /\ FlushAdvance(p) => CallInv'
<1> SUFFICES ASSUME CallInv, FlushAdvance(p) PROVE CallInv'
  OBVIOUS
<1>0. poster \in [Posters -> Poster] /\ poster[p] \in Poster /\ callRow \in CallRow /\ livePosted \in Nat
  BY DEF CallInv, CallTypes
<1>1. callRow.turns \in Nat /\ callRow.cursor \in Nat /\ poster[p].total \in Nat
  BY <1>0 DEF CallRow, Poster
<1>2. callRow.cursor <= callRow.turns /\ callRow.cursor <= livePosted
  BY DEF CallInv, CursorsFit
<1>3. poster[p].pc \in Reporting /\ poster[p].total <= callRow.turns /\ poster[p].total <= livePosted
  BY DEF CallInv, CursorsFit, Readers, FlushAdvance, Reporting
<1>4. callRow' \in CallRow /\ callRow'.turns = callRow.turns /\ callRow'.report = callRow.report
      /\ callRow'.cursor \in {callRow.cursor, poster[p].total}
  BY <1>0, <1>1 DEF FlushAdvance, AdvanceLiveTranscriptCursor, CallRow
<1> DEFINE w == IF p = "batch" THEN Lounging ELSE [poster[p] EXCEPT !.pc = "post"]
<1>5. w \in Poster /\ w.pc \notin {"live", "advance"} /\ (p = "batch" \/ w.pc \in Reporting)
  BY <1>0, LoungingTyped DEF Poster, Reporting
<1>6. poster' = [poster EXCEPT ![p] = w]
  BY DEF FlushAdvance, AfterFlush
<1> HIDE DEF w
<1>7. poster' \in [Posters -> Poster] /\ poster'[p] = w /\ \A q \in Posters \ {p} : poster'[q] = poster[q]
  BY <1>0, <1>5, <1>6, PosterMoved
<1>8. UNCHANGED <<kind, line, hooks, amdRead, dialler, token, media, ending, livePosted, summaries, recording,
                  spoken, cutOff>>
  BY DEF FlushAdvance
<1> QED
  BY <1>0, <1>1, <1>2, <1>3, <1>4, <1>5, <1>7, <1>8, FlushKept

LEMMA ReportKept == ASSUME NEW p \in Reports PROVE CallInv /\ ReportPost(p) => CallInv'
<1> SUFFICES ASSUME CallInv, ReportPost(p) PROVE CallInv'
  OBVIOUS
<1>0. poster \in [Posters -> Poster] /\ p \in Posters /\ callRow \in CallRow /\ p \in Holders
  BY DEF CallInv, CallTypes, Posters, Reports, Holders, Reporting, ReportPost
<1>1. /\ callRow' \in CallRow /\ callRow'.turns = callRow.turns /\ callRow'.cursor = callRow.cursor
      /\ callRow'.report \in {"delivered", "failed"}
  BY <1>0 DEF ReportPost, CallRow, ReportStates
<1>2. poster' = [poster EXCEPT ![p] = Lounging]
      /\ UNCHANGED <<kind, line, hooks, amdRead, dialler, token, media, ending, livePosted, recording, spoken, cutOff>>
  BY DEF ReportPost
<1>3. poster' \in [Posters -> Poster] /\ poster'[p] = Lounging /\ \A q \in Posters \ {p} : poster'[q] = poster[q]
  BY <1>0, <1>2, LoungingTyped, PosterMoved
<1>4. callRow.report = "processing" /\ summaries = 0 /\ \A q \in Holders : q = p
  BY <1>0 DEF CallInv, OneReporter
<1>5. summaries' \in {0, 1}
  BY <1>4 DEF ReportPost
<1>6. CallTypes'
  BY <1>1, <1>2, <1>3, <1>5 DEF CallInv, CallTypes
<1>7. Unborn' /\ Outgoing' /\ EveryWord'
  BY <1>0, <1>1, <1>2, PosterLeft, WordsLeft DEF CallInv, Outgoing, ReportPost
<1>8. Holders' = {}
  BY <1>3, <1>4, LoungingTyped DEF Holders, Reports, Posters, Reporting
<1>9. OneReporter'
  BY <1>1, <1>5, <1>8 DEF OneReporter, Unclaimed
<1>10. Recorded'
  BY <1>4, <1>3, LoungingTyped, <1>1, <1>2 DEF CallInv, Recorded, VoicemailWaitsForRecording,
     Posters
<1>11. CursorsFit'
  BY <1>1, <1>2, <1>3, LoungingTyped DEF CallInv, CursorsFit, Readers
<1> QED
  BY <1>6, <1>7, <1>9, <1>10, <1>11 DEF CallInv

LEMMA CallRestartKept == CallInv /\ ProsperaRestart => CallInv'
<1> SUFFICES ASSUME CallInv, ProsperaRestart PROVE CallInv'
  OBVIOUS
<1>0. callRow \in CallRow /\ media \in Media /\ cutOff \in Nat /\ (callRow = NoRow => callRow' = NoRow)
  BY DEF CallInv, CallTypes, ProsperaRestart, UpdateCallState
<1>1. callRow' \in CallRow /\ callRow'.turns = callRow.turns /\ callRow'.cursor = callRow.cursor
      /\ callRow'.report = callRow.report
  BY <1>0, StateWritten DEF ProsperaRestart, CallStates, Terminal
<1>2. /\ media' = NoMedia /\ ~token' /\ amdRead' = "none" /\ dialler' = "done" /\ hooks' \subseteq hooks
      /\ poster' = [p \in Posters |-> Lounging] /\ (line' = "none" => line = "none")
      /\ ending'.pc = "done"
      /\ cutOff' = cutOff + Words(media.buffer) + Words(media.taken)
      /\ UNCHANGED <<kind, livePosted, summaries, recording, spoken>>
  BY DEF ProsperaRestart, Words, NotEnding
<1>3. Words(media.buffer) \in {0, 1} /\ Words(media.taken) \in {0, 1} /\ callRow.turns \in Nat
  BY <1>0 DEF Words, CallRow
<1>4. CallTypes'
  BY <1>0, <1>1, <1>2, <1>3, NoMediaTyped, LoungingTyped DEF CallInv, CallTypes, CallStates
<1>5. EveryWord'
  BY <1>0, <1>1, <1>2, <1>3, NoMediaTyped DEF CallInv, EveryWord, InSession, Words
<1>6. Unborn' /\ Outgoing'
  BY <1>0, <1>2 DEF CallInv, Unborn, Outgoing
<1>7. \A p \in Posters : poster'[p].pc = "idle"
  BY <1>2, LoungingTyped
<1>8. Holders' = {} /\ Readers' = {}
  BY <1>7 DEF Holders, Readers, Reports, Posters, Reporting
<1>9. OneReporter'
  BY <1>1, <1>2, <1>8 DEF CallInv, OneReporter
<1>10. Recorded'
  BY <1>1, <1>2, <1>7 DEF CallInv, Recorded, VoicemailWaitsForRecording, Posters
<1>11. CursorsFit'
  BY <1>1, <1>2, <1>7, <1>8 DEF CallInv, CursorsFit
<1> QED
  BY <1>4, <1>5, <1>6, <1>9, <1>10, <1>11 DEF CallInv

LEMMA CallKept == CallInv /\ [CallNext]_callVars => CallInv'
<1> SUFFICES ASSUME CallInv, [CallNext]_callVars PROVE CallInv'
  OBVIOUS
<1>1. CASE UNCHANGED callVars
  BY <1>1, CallLeft DEF callVars, CallInv, CallTypes, Unborn, Outgoing
<1>2. ASSUME NEW s \in Terminal, HandleTwilioStatus(s) PROVE CallInv'
  BY <1>2, StatusKept
<1>3. ASSUME NEW p \in Reports, ReportClaim(p) \/ ReportPost(p) PROVE CallInv'
  BY <1>3, ClaimKept, ReportKept
<1>4. ASSUME NEW p \in Posters, FlushRead(p) \/ FlushPost(p) \/ FlushAdvance(p) PROVE CallInv'
  BY <1>4, ReadKept, PostKept, AdvanceCursorKept
<1>5. CASE Dial \/ CreateCall \/ BindProviderCallSID \/ PickUp \/ LineEnds
  BY <1>5, DialKept, DialledKept, LineEndsKept
<1>6. CASE HandleTwilioVoice \/ ReadAMD \/ WriteAMD \/ HandleTwilioVoicemail
  BY <1>6, VoiceKept, AMDKept, VoicemailKept
<1>7. CASE OpenStream \/ StreamStart \/ PaceFrame \/ PaceMark \/ ToolEndCall \/ GeminiBreaks
  BY <1>7, StreamKept
<1>8. CASE Speak \/ TakeTurn \/ AppendTurn \/ MarkReturns \/ StreamStops \/ CloseSession
  BY <1>8, TurnsKept
<1>9. CASE EndCall \/ EndCallHangUp \/ BatchTick \/ ProsperaRestart
  BY <1>9, EndCallKept, BatchKept, CallRestartKept
<1> QED
  BY <1>1, <1>2, <1>3, <1>4, <1>5, <1>6, <1>7, <1>8, <1>9 DEF CallNext, CallSteps

LEMMA CallEnough == CallInv => CallIsSound
<1> SUFFICES ASSUME CallInv PROVE CallIsSound
  OBVIOUS
<1>1. callRow \in CallRow /\ media \in Media /\ poster \in [Posters -> Poster] /\ cutOff \in Nat /\ spoken \in Nat
  BY DEF CallInv, CallTypes
<1>2. Words(media.buffer) \in {0, 1} /\ Words(media.taken) \in {0, 1} /\ callRow.turns \in Nat
      /\ callRow.report \in ReportStates /\ media.pc \in {"none", "run", "cut"}
  BY <1>1 DEF Words, CallRow, Media
<1>3. callRow.turns <= spoken
  BY <1>1, <1>2 DEF CallInv, EveryWord, InSession
<1>4. CallTypeOK
  BY <1>1, <1>2, <1>3 DEF CallTypeOK, CallInv, CallTypes, CursorsFit, ReportStates, Poster
<1>5. WordsAreKept
  BY <1>1, <1>2, NoMediaTyped DEF WordsAreKept, CallInv, CallTypes, EveryWord, InSession, Words
<1>6. SummaryPostedOnce /\ VoicemailWaitsForRecording /\ NothingSkippedLive
  BY DEF CallInv, OneReporter, Recorded, CursorsFit, SummaryPostedOnce, NothingSkippedLive
<1> QED
  BY <1>4, <1>5, <1>6 DEF CallIsSound

\* However many turns are spoken and however often Twilio, Gemini, Discord or the process
\* fail: every turn spoken is in the row or was cut off, one report of a call is posted, a
\* voicemail's with its recording, and the live transcript skips no turn.
THEOREM CallIsSafe == CallSpec => []CallIsSound
  BY CallStarts, CallKept, CallEnough, PTL DEF CallSpec

LEMMA CursorKept == CallInv /\ CallNext => CursorAdvances
<1> SUFFICES ASSUME CallInv, CallNext PROVE callRow'.cursor >= callRow.cursor
  BY DEF CursorAdvances
<1>0. callRow \in CallRow /\ poster \in [Posters -> Poster]
  BY DEF CallInv, CallTypes
<1>1. callRow.cursor \in Nat /\ \A p \in Posters : poster[p].total \in Nat /\ poster[p].cursor \in Nat
  BY <1>0 DEF CallRow, Poster
<1>2. ASSUME NEW s \in CallStates PROVE UpdateCallState(callRow, s).cursor = callRow.cursor
                                       /\ UpdateCallState(Bind(callRow), s).cursor = callRow.cursor
  BY <1>0 DEF UpdateCallState, Bind, CallRow
<1>3. Bind(callRow).cursor = callRow.cursor
  BY <1>0 DEF Bind, CallRow
<1>4. ASSUME NEW p \in Posters, FlushAdvance(p) PROVE callRow'.cursor >= callRow.cursor
  BY <1>4, <1>0, <1>1 DEF CallInv, CursorsFit, Readers, FlushAdvance, AdvanceLiveTranscriptCursor,
     CallRow
<1>5. ASSUME NEW p \in Reports, ReportClaim(p) \/ ReportPost(p) PROVE callRow'.cursor = callRow.cursor
  BY <1>0, <1>5 DEF ReportClaim, ReportPost, CallRow
<1>6. CASE HandleTwilioVoice
  BY <1>6, <1>1, <1>3, NewRowTyped, NoRowTyped DEF CallInv, Unborn, HandleTwilioVoice
<1>7. CASE Dial
  BY <1>1, <1>7 DEF Dial, NoRow
<1>8. ASSUME NEW s \in Terminal, HandleTwilioStatus(s) PROVE callRow'.cursor = callRow.cursor
  BY <1>2, <1>8 DEF HandleTwilioStatus, CallStates
<1>9. CASE WriteAMD
  BY <1>1, <1>2, <1>9 DEF WriteAMD, CallInv, CallTypes
<1>10. CASE AppendTurn \/ MarkReturns \/ StreamStops \/ CloseSession
  <2>1. ASSUME NEW kept \in BOOLEAN
        PROVE  /\ WithTurn(kept).cursor = callRow.cursor
               /\ UpdateCallState(WithTurn(kept), "completed").cursor = callRow.cursor
    BY <1>0 DEF WithTurn, UpdateCallState, CallRow
  <2> QED
    <3>1. CASE \E kept \in BOOLEAN : callRow' \in {WithTurn(kept), UpdateCallState(WithTurn(kept), "completed")}
      BY <1>1, <2>1, <3>1
    <3>2. CASE UNCHANGED callRow
      BY <1>1, <3>2
    <3> QED
      BY <1>10, <3>1, <3>2 DEF AppendTurn, MarkReturns, StreamStops, CloseSession, FlushAndComplete
<1>11. CASE CreateCall \/ BindProviderCallSID \/ ReadAMD \/ StreamStart \/ EndCallHangUp \/ ProsperaRestart
  BY <1>1, <1>2, <1>3, <1>11 DEF CreateCall, BindProviderCallSID, ReadAMD, StreamStart,
     EndCallHangUp, ProsperaRestart, CallStates, Terminal
<1>12. CASE UNCHANGED callRow
  BY <1>1, <1>12
<1>13. ASSUME NEW p \in Posters, FlushRead(p) \/ FlushPost(p) PROVE UNCHANGED callRow
  BY <1>13 DEF FlushRead, FlushPost
<1>14. CASE HandleTwilioVoicemail \/ OpenStream \/ PaceFrame \/ PaceMark \/ PickUp \/ LineEnds \/ Speak \/ TakeTurn
            \/ ToolEndCall \/ GeminiBreaks \/ EndCall \/ BatchTick
  BY <1>14, <1>12 DEF HandleTwilioVoicemail, OpenStream, PaceFrame, PaceMark, PickUp, LineEnds, Speak, TakeTurn,
     ToolEndCall, GeminiBreaks, EndCall, BatchTick
<1> QED
  BY <1>1, <1>4, <1>5, <1>6, <1>7, <1>8, <1>9, <1>10, <1>11, <1>12, <1>13, <1>14 DEF CallNext, CallSteps

\* Two flushes of one transcript that ran side by side never set its cursor back.
THEOREM CursorNeverGoesBack == CallSpec => CursorOnlyAdvances
<1>1. CallInv /\ [CallNext]_callVars => [CursorAdvances]_callVars
  BY CursorKept
<1> QED
  BY CallStarts, CallKept, <1>1, PTL DEF CallSpec, CursorOnlyAdvances

--------------------
(* DiscordIngress.  While a sweep offers a page that was not full, every *)
(* message between the watermark and where the sweep will set it is in the *)
(* page or needs nothing more: it was queued or refused, is the bot's own *)
(* or too old. *)

IngressStages == {"available", "running", "rescue", "done", "cancelled"}
IngressJobs == [id : Nat, at : Nat, st : IngressStages]
Sweeps == [pc : {"idle", "collect", "fetch", "offer"}, from : Nat, last : Nat, page : SUBSET Nat, full : BOOLEAN]

IngressTypes ==
    /\ clock \in Nat /\ Messages \subseteq 1..clock /\ wm \in 0..clock
    /\ gatewayEvents \subseteq Messages /\ missedPosts \subseteq Messages /\ river \in Seq(IngressJobs)
SweepFits ==
    /\ sweep \in Sweeps /\ sweep.from <= clock /\ sweep.last <= clock /\ sweep.page \subseteq Messages
    /\ sweep.pc # "offer" => sweep.page = {}

Swept(m) == m <= sweep.last \/ \E x \in sweep.page : m <= x
CaredFor(m) == \/ posted[m] = "own" \/ m \in sweep.page \/ Offered(m) \/ m \in refused
               \/ m <= MinSnowflake(clock)
PageCovers == sweep.pc = "offer" /\ ~sweep.full => \A m \in Messages : wm < m /\ Swept(m) => CaredFor(m)

IngressInv == IngressTypes /\ SweepFits /\ PageCovers

\* What every step leaves of River's jobs.
JobsRemain == river' \in Seq(IngressJobs) /\ \A m : Offered(m) => Offered(m)'

LEMMA OlderStaysOld ==
    ASSUME NEW a \in Nat, NEW b \in Nat, a <= b
    PROVE  /\ MinSnowflake(a) \in Nat /\ MinSnowflake(b) \in Nat
           /\ MinSnowflake(a) <= MinSnowflake(b) /\ MinSnowflake(a) <= a
  BY IngressAssumption DEF MinSnowflake

LEMMA LatestIs ==
    ASSUME NEW a \in Nat, NEW b \in Nat
    PROVE  Latest(a, b) \in {a, b} /\ a <= Latest(a, b) /\ b <= Latest(a, b)
  BY DEF Latest

LEMMA IngressStarts == IngressInit => IngressInv
  BY DEF IngressInit, IngressInv, IngressTypes, SweepFits, PageCovers, NoSweep, Sweeps, Messages

--------------------
(* River's jobs. *)

LEMMA Restaged ==
    ASSUME NEW j \in IngressJobs, NEW st \in IngressStages
    PROVE  [j EXCEPT !.st = st] \in IngressJobs /\ [j EXCEPT !.st = st].id = j.id
  BY DEF IngressJobs

LEMMA SetJobRemains == ASSUME IngressTypes, NEW st \in IngressStages, SetJob(st) PROVE JobsRemain
<1> DEFINE j(i) == IF river[i].st = "running" THEN [river[i] EXCEPT !.st = st] ELSE river[i]
<1>1. \A i \in DOMAIN river : j(i) \in IngressJobs /\ j(i).id = river[i].id
  <2> SUFFICES ASSUME NEW i \in DOMAIN river PROVE j(i) \in IngressJobs /\ j(i).id = river[i].id
    OBVIOUS
  <2>1. river[i] \in IngressJobs
    BY DEF IngressTypes
  <2> QED
    BY <2>1, Restaged
<1>2. river' = [i \in DOMAIN river |-> j(i)]
  BY DEF SetJob
<1> HIDE DEF j
<1>3. river' \in Seq(IngressJobs)
  BY <1>1, <1>2 DEF IngressTypes
<1> QED
  BY <1>1, <1>2, <1>3 DEF JobsRemain, Offered

LEMMA TakenRemains == ASSUME IngressTypes, TakeJob PROVE JobsRemain
<1>1. PICK i : river' = [river EXCEPT ![i].st = "running"]
  BY DEF TakeJob
<1>2. CASE i \in DOMAIN river
  <2> DEFINE j == [river[i] EXCEPT !.st = "running"]
  <2>3. river[i] \in IngressJobs /\ "running" \in IngressStages
    BY <1>2 DEF IngressTypes, IngressStages
  <2>1. j \in IngressJobs /\ j.id = river[i].id /\ river' = [river EXCEPT ![i] = j]
    BY <1>1, <2>3, Restaged
  <2> HIDE DEF j
  <2>2. river' \in Seq(IngressJobs)
    BY <1>2, <2>1 DEF IngressTypes
  <2> QED
    BY <1>2, <2>1, <2>2 DEF JobsRemain, Offered, IngressTypes
<1>3. CASE i \notin DOMAIN river
  <2>1. river' = river
    BY <1>1, <1>3 DEF IngressTypes
  <2> QED
    BY <2>1 DEF JobsRemain, Offered, IngressTypes
<1> QED
  BY <1>2, <1>3

LEMMA RescuedRemains == ASSUME IngressTypes, RescueJob PROVE JobsRemain
<1>1. PICK i \in DOMAIN river : river' = Append(RemoveAt(river, i), [river[i] EXCEPT !.st = "available"])
  BY DEF RescueJob
<1> DEFINE j == [river[i] EXCEPT !.st = "available"]
           rest == RemoveAt(river, i)
<1>2. j \in IngressJobs /\ j.id = river[i].id
  <2>1. river[i] \in IngressJobs /\ "available" \in IngressStages
    BY DEF IngressTypes, IngressStages
  <2> QED
    BY <2>1, Restaged
<1> HIDE DEF j
<1>3. river \in Seq(IngressJobs) /\ i \in 1..Len(river) /\ Len(river) \in Nat
  BY DEF IngressTypes
<1>4. /\ rest \in Seq(IngressJobs) /\ Len(rest) = Len(river) - 1
      /\ \A k \in 1..Len(rest) : rest[k] = IF k < i THEN river[k] ELSE river[k + 1]
  <2> DEFINE a == SubSeq(river, 1, i - 1)
             b == SubSeq(river, i + 1, Len(river))
  <2>1. a \in Seq(IngressJobs) /\ Len(a) = i - 1 /\ \A k \in 1..(i - 1) : a[k] = river[k]
    BY <1>3, SubSeqProperties
  <2>2. b \in Seq(IngressJobs) /\ Len(b) = Len(river) - i /\ \A k \in 1..Len(b) : b[k] = river[i + k]
    BY <1>3, SubSeqProperties
  <2> HIDE DEF a, b
  <2>6. /\ a \o b \in Seq(IngressJobs) /\ Len(a \o b) = Len(a) + Len(b)
        /\ \A k \in 1..(Len(a) + Len(b)) : (a \o b)[k] = IF k <= Len(a) THEN a[k] ELSE b[k - Len(a)]
    BY <2>1, <2>2, ConcatProperties
  <2>7. Len(a) = i - 1 /\ Len(a) + Len(b) = Len(river) - 1
    BY <1>3, <2>1, <2>2
  <2>3. /\ a \o b \in Seq(IngressJobs) /\ Len(a \o b) = Len(river) - 1
        /\ \A k \in 1..(Len(river) - 1) : (a \o b)[k] = IF k <= i - 1 THEN a[k] ELSE b[k - (i - 1)]
    BY <2>6, <2>7
  <2>4. rest = a \o b
    BY DEF RemoveAt, a, b
  <2> HIDE DEF rest
  <2>5. ASSUME NEW k \in 1..(Len(river) - 1) PROVE rest[k] = IF k < i THEN river[k] ELSE river[k + 1]
    <3>1. CASE k < i
      BY <1>3, <2>1, <2>3, <2>4, <3>1
    <3>2. CASE ~(k < i)
      <4>1. k - (i - 1) \in 1..Len(b) /\ i + (k - (i - 1)) = k + 1
        BY <1>3, <2>2, <3>2
      <4>2. b[k - (i - 1)] = river[k + 1]
        BY <2>2, <4>1
      <4>3. rest[k] = b[k - (i - 1)]
        <5>1. ~(k <= i - 1)
          BY <1>3, <3>2
        <5> QED
          BY <2>3, <2>4, <5>1
      <4> QED
        BY <3>2, <4>2, <4>3
    <3> QED
      BY <3>1, <3>2
  <2> QED
    BY <2>3, <2>4, <2>5
<1> HIDE DEF rest
<1>5. /\ river' \in Seq(IngressJobs) /\ Len(river') = Len(river) /\ river'[Len(river)] = j
      /\ \A k \in 1..(Len(river) - 1) : river'[k] = rest[k]
  BY <1>1, <1>2, <1>3, <1>4 DEF j, rest
<1>6. ASSUME NEW k \in 1..Len(river) PROVE \E n \in 1..Len(river) : river'[n].id = river[k].id
  <2>1. CASE k = i
    BY <1>2, <1>3, <1>5, <2>1
  <2>2. CASE k < i
    <3>1. k \in 1..(Len(river) - 1) /\ k \in 1..Len(rest)
      BY <1>3, <1>4, <2>2
    <3>2. rest[k] = river[k]
      BY <1>4, <2>2, <3>1
    <3> QED
      BY <1>5, <3>1, <3>2
  <2>3. CASE k > i
    <3>1. k - 1 \in 1..(Len(river) - 1) /\ river'[k - 1] = river[k]
      BY <1>3, <1>4, <1>5, <2>3
    <3> QED
      BY <3>1
  <2> QED
    BY <1>3, <2>1, <2>2, <2>3
<1>7. DOMAIN river = 1..Len(river) /\ DOMAIN river' = 1..Len(river)
  BY <1>3, <1>5
<1> QED
  BY <1>5, <1>6, <1>7 DEF JobsRemain, Offered

LEMMA EnqueuedRemains ==
    ASSUME IngressTypes, NEW m \in Nat, EnqueueDiscordMessage(m)
    PROVE  JobsRemain /\ refused \subseteq refused' /\ (Offered(m)' \/ m \in refused')
<1> DEFINE j == [id |-> m, at |-> clock, st |-> "available"]
<1>1. j \in IngressJobs /\ j.id = m
  BY DEF IngressTypes, IngressJobs, IngressStages
<1>2. CASE river' = river
  BY <1>2 DEF EnqueueDiscordMessage, JobsRemain, Offered, IngressTypes, UniqueSkipped
<1>3. CASE river' = Append(river, j) /\ UNCHANGED refused
  <2> HIDE DEF j
  <2>1. /\ river' \in Seq(IngressJobs) /\ Len(river') = Len(river) + 1 /\ Len(river) \in Nat
        /\ river'[Len(river) + 1] = j /\ \A i \in 1..Len(river) : river'[i] = river[i]
    BY <1>1, <1>3 DEF IngressTypes
  <2> QED
    BY <1>1, <1>3, <2>1 DEF JobsRemain, Offered, IngressTypes
<1> QED
  BY <1>2, <1>3 DEF EnqueueDiscordMessage, IngressFault, UniqueSkipped, Offered

--------------------
(* Each step keeps the invariant and hides no message. *)

Harmless == IngressInv' /\ (~HandleGatewayMessageCreate /\ ~sweep.full => Hidden' \subseteq Hidden)

\* The workers, eri and the operator: synapse's view of the channel stays.
LEMMA AsideHarmless ==
    ASSUME IngressInv, JobsRemain, clock' \in Nat, clock <= clock',
           UNCHANGED <<posted, gatewayEvents, missedPosts, wm, sweep, refused>>
    PROVE  Harmless
<1>1. clock \in Nat /\ MinSnowflake(clock) \in Nat /\ MinSnowflake(clock') \in Nat
      /\ MinSnowflake(clock) <= MinSnowflake(clock')
  BY OlderStaysOld DEF IngressInv, IngressTypes
<1>2. Messages \subseteq Nat /\ Messages' = Messages
  BY DEF IngressInv, IngressTypes, Messages
<1>3. IngressTypes'
  BY <1>1, <1>2 DEF IngressInv, IngressTypes, JobsRemain
<1>4. SweepFits'
  BY <1>1, <1>2 DEF IngressInv, SweepFits, Sweeps
<1>5. PageCovers'
  BY <1>1, <1>2 DEF IngressInv, PageCovers, JobsRemain, CaredFor, Swept
<1>6. Hidden' \subseteq Hidden
  <2> SUFFICES ASSUME NEW m \in Hidden' PROVE m \in Hidden
    OBVIOUS
  <2>1. m \in Messages /\ m \in Nat /\ (Offered(m) => Offered(m)')
    BY <1>2 DEF Hidden, JobsRemain
  <2> QED
    BY <1>1, <2>1 DEF Hidden
<1> QED
  BY <1>3, <1>4, <1>5, <1>6 DEF Harmless, IngressInv

LEMMA PostHarmless == ASSUME IngressInv, Post PROVE Harmless
<1> DEFINE new == clock + 1
<1>1. /\ clock \in Nat /\ clock' = new /\ wm \in 0..clock /\ Messages \subseteq 1..clock
      /\ UNCHANGED <<wm, sweep, refused, river>>
  BY DEF IngressInv, IngressTypes, Post, queueVars
<1>2. Messages' = Messages \cup {new} /\ \A m \in Messages : posted'[m] = posted[m]
  BY <1>1 DEF Post, Messages
<1>3. gatewayEvents \subseteq gatewayEvents' /\ gatewayEvents' \subseteq Messages' /\ missedPosts' \subseteq Messages'
  BY <1>1, <1>2 DEF IngressInv, IngressTypes, Post
<1>4. MinSnowflake(clock) \in Nat /\ MinSnowflake(clock') \in Nat /\ MinSnowflake(clock) <= MinSnowflake(clock')
  BY <1>1, OlderStaysOld
<1>5. IngressTypes'
  <2>1. clock' \in Nat /\ wm' \in 0..clock' /\ Messages' \subseteq 1..clock'
    BY <1>1, <1>2
  <2>2. river' \in Seq(IngressJobs)
    BY <1>1 DEF IngressInv, IngressTypes
  <2> QED
    BY <1>3, <2>1, <2>2 DEF IngressTypes
<1>6. SweepFits'
  BY <1>1, <1>2 DEF IngressInv, SweepFits, Sweeps
<1>7. ~Swept(new)
  <2>1. sweep.last \in Nat /\ sweep.last <= clock /\ \A x \in sweep.page : x \in Nat /\ x <= clock
    BY <1>1 DEF IngressInv, SweepFits, Sweeps
  <2> QED
    BY <1>1, <2>1 DEF Swept
<1>8. PageCovers'
  <2> SUFFICES ASSUME (sweep.pc = "offer" /\ ~sweep.full)', NEW m \in Messages', wm' < m, Swept(m)' PROVE CaredFor(m)'
    BY DEF PageCovers
  <2>1. Swept(m) /\ m # new
    BY <1>1, <1>7 DEF Swept
  <2>2. m \in Messages /\ m \in Nat /\ wm < m
    BY <1>1, <1>2, <2>1
  <2>4. sweep.pc = "offer" /\ ~sweep.full
    BY <1>1, Zenon
  <2>3. CaredFor(m)
    BY <2>1, <2>2, <2>4 DEF IngressInv, PageCovers
  <2> QED
    BY <1>1, <1>2, <1>4, <2>2, <2>3 DEF CaredFor, Offered
<1>9. Hidden' \subseteq Hidden
  <2> SUFFICES ASSUME NEW m \in Hidden' PROVE m \in Hidden
    OBVIOUS
  <2>1. m \in Messages' /\ m <= wm
    BY <1>1 DEF Hidden
  <2>3. m # new
    <3>1. ~(new <= wm)
      BY <1>1
    <3> QED
      BY <2>1, <3>1
  <2>4. m \in Messages
    BY <1>2, <2>1, <2>3
  <2>2. m \in Messages /\ m \in Nat
    <3>1. m \in 1..clock
      BY <1>1, <2>4
    <3> QED
      BY <1>1, <2>4, <3>1
  <2> QED
    BY <1>1, <1>2, <1>3, <1>4, <2>2 DEF Hidden, Offered
<1> QED
  BY <1>5, <1>6, <1>8, <1>9 DEF Harmless, IngressInv

LEMMA ConnectionHarmless == ASSUME IngressInv, LinkDrops \/ Resume \/ HandleGatewayReady PROVE Harmless
<1>1. /\ UNCHANGED <<clock, posted, wm, refused, river>> /\ gatewayEvents \subseteq gatewayEvents'
      /\ gatewayEvents' \subseteq Messages /\ missedPosts' \subseteq Messages
  BY DEF IngressInv, IngressTypes, LinkDrops, Resume, HandleGatewayReady, queueVars
<1>2. CASE sweep' = sweep
  BY <1>1, <1>2 DEF Harmless, IngressInv, IngressTypes, SweepFits, PageCovers, Swept, CaredFor, Offered, Hidden, Messages
<1>3. CASE sweep.pc = "idle" /\ sweep' = [NoSweep EXCEPT !.pc = "collect", !.from = clock]
  <2>1. sweep' \in Sweeps /\ sweep'.pc = "collect" /\ sweep'.page = {} /\ sweep'.from = clock /\ sweep'.last = 0
    BY <1>3 DEF IngressInv, IngressTypes, NoSweep, Sweeps
  <2>2. IngressTypes' /\ SweepFits' /\ PageCovers'
    BY <1>1, <2>1 DEF IngressInv, IngressTypes, SweepFits, PageCovers, Messages
  <2>3. sweep.page = {}
    BY <1>3 DEF IngressInv, SweepFits
  <2> QED
    BY <1>1, <2>1, <2>2, <2>3 DEF Harmless, IngressInv, Hidden, Offered, Messages
<1> QED
  BY <1>2, <1>3 DEF LinkDrops, Resume, HandleGatewayReady

LEMMA EventHarmless == ASSUME IngressInv, HandleGatewayMessageCreate PROVE Harmless
<1>1. PICK m \in gatewayEvents :
        /\ gatewayEvents' = gatewayEvents \ {m} /\ wm' = Latest(wm, m)
        /\ IF posted[m] = "own" THEN UNCHANGED <<river, refused, igBudget>> ELSE EnqueueDiscordMessage(m)
        /\ UNCHANGED <<clock, posted, missedPosts, sweep>>
  BY DEF HandleGatewayMessageCreate
<1>2. m \in Messages /\ Messages \subseteq 1..clock /\ wm \in 0..clock /\ clock \in Nat /\ m \in Nat /\ m <= clock
  BY DEF IngressInv, IngressTypes
<1>3. JobsRemain /\ refused \subseteq refused'
  <2>1. CASE posted[m] = "own"
    BY <1>1, <2>1 DEF JobsRemain, Offered, IngressInv, IngressTypes
  <2> QED
    BY <1>1, <1>2, <2>1, EnqueuedRemains DEF IngressInv
<1>4. wm' \in 0..clock /\ wm <= wm'
  BY <1>1, <1>2, LatestIs
<1>5. IngressTypes' /\ SweepFits'
  BY <1>1, <1>2, <1>3, <1>4 DEF IngressInv, IngressTypes, SweepFits, JobsRemain, Messages
<1>6. PageCovers'
  BY <1>1, <1>2, <1>3, <1>4 DEF IngressInv, PageCovers, Swept, CaredFor, JobsRemain, Messages
<1> QED
  BY <1>5, <1>6 DEF Harmless, IngressInv

\* SweepEnds sets the watermark to the newest message it knew of; OfferMissedMessage has
\* passed what is not in the page any more.
LEMMA NewerHandled ==
    ASSUME IngressInv, sweep.pc = "offer", ~sweep.full, JobsRemain, refused \subseteq refused',
           UNCHANGED <<clock, posted, gatewayEvents>>, NEW gone \in SUBSET sweep.page,
           sweep.page \ gone \subseteq sweep'.page,
           \A m \in gone : posted[m] = "own" \/ Offered(m)' \/ m \in refused' \/ m <= MinSnowflake(clock),
           wm' \in Nat, \A m \in Messages : wm < m /\ m <= wm' => Swept(m)
    PROVE  Hidden' \subseteq Hidden
<1> SUFFICES ASSUME NEW m \in Hidden', m \notin Hidden PROVE FALSE
  OBVIOUS
<1>1. /\ m \in Messages /\ m \in Nat /\ m <= wm' /\ m > MinSnowflake(clock) /\ posted[m] # "own"
      /\ ~Offered(m)' /\ ~Offered(m) /\ m \notin refused' /\ m \notin gatewayEvents /\ m \notin sweep'.page
  BY DEF Hidden, JobsRemain, Messages, IngressInv, IngressTypes
<1>2. MinSnowflake(clock) \in Nat /\ wm \in Nat
  BY OlderStaysOld DEF IngressInv, IngressTypes
<1>3. m \notin sweep.page
  BY <1>1, <1>2
<1>4. ~CaredFor(m)
  BY <1>1, <1>2, <1>3 DEF CaredFor
<1>5. wm < m => Swept(m)
  BY <1>1
<1>6. ~(wm < m)
  BY <1>1, <1>4, <1>5 DEF IngressInv, PageCovers
<1> QED
  BY <1>1, <1>2, <1>3, <1>6 DEF Hidden

LEMMA OfferHarmless == ASSUME IngressInv, OfferMissedMessage PROVE Harmless
<1>0. PICK m \in Nat : m = Min(sweep.page) /\ m \in sweep.page
  <2>1. sweep.page \in SUBSET Nat /\ sweep.page # {}
    BY DEF IngressInv, SweepFits, Sweeps, OfferMissedMessage
  <2>2. \E k \in sweep.page : \A x \in sweep.page : k <= x
    BY <2>1, LeastIndex
  <2> QED
    BY <2>1, <2>2 DEF Min
<1>1. /\ sweep.pc = "offer" /\ sweep.page # {} /\ wm' = Latest(wm, m)
      /\ IF IsCatchUpMessageEligible(m) THEN EnqueueDiscordMessage(m) ELSE UNCHANGED <<river, refused, igBudget>>
      /\ sweep' = [sweep EXCEPT !.page = @ \ {m}] /\ UNCHANGED <<clock, posted, gatewayEvents, missedPosts>>
  BY <1>0 DEF OfferMissedMessage
<1>2. m \in sweep.page
  BY <1>0
<1>3. /\ clock \in Nat /\ Messages \subseteq 1..clock /\ m \in Messages /\ m \in Nat /\ m <= clock
      /\ wm \in Nat /\ wm <= clock /\ sweep.from \in Nat /\ sweep.from <= clock /\ sweep \in Sweeps
  BY <1>2 DEF IngressInv, IngressTypes, SweepFits, Sweeps
<1>4. JobsRemain /\ refused \subseteq refused'
  <2>1. CASE IsCatchUpMessageEligible(m)
    BY <1>1, <1>3, <2>1, EnqueuedRemains DEF IngressInv
  <2>2. CASE ~IsCatchUpMessageEligible(m)
    BY <1>1, <2>2 DEF JobsRemain, Offered, IngressInv, IngressTypes
  <2> QED
    BY <2>1, <2>2
<1>5. posted[m] = "own" \/ Offered(m)' \/ m \in refused' \/ m <= MinSnowflake(clock)
  <2>1. CASE IsCatchUpMessageEligible(m)
    <3>1. EnqueueDiscordMessage(m) /\ IngressTypes
      BY <1>1, <2>1 DEF IngressInv
    <3>2. Offered(m)' \/ m \in refused'
      BY <1>3, <3>1, EnqueuedRemains
    <3> QED
      BY <3>2
  <2>2. CASE ~IsCatchUpMessageEligible(m)
    <3>1. MinSnowflake(sweep.from) \in Nat /\ MinSnowflake(sweep.from) <= MinSnowflake(clock)
          /\ MinSnowflake(clock) \in Nat
      BY <1>3, OlderStaysOld
    <3> QED
      BY <1>3, <2>2, <3>1 DEF IsCatchUpMessageEligible
  <2> QED
    BY <2>1, <2>2
<1>6. wm' \in Nat /\ wm' <= clock /\ wm' \in {wm, m} /\ wm <= wm' /\ m <= wm'
  BY <1>1, <1>3, LatestIs
<1>7. /\ sweep' \in Sweeps /\ sweep'.pc = "offer" /\ sweep'.page = sweep.page \ {m}
      /\ sweep'.from = sweep.from /\ sweep'.last = sweep.last /\ sweep'.full = sweep.full
  BY <1>1, <1>3 DEF Sweeps
<1>8. IngressTypes'
  BY <1>1, <1>3, <1>4, <1>6 DEF IngressInv, IngressTypes, JobsRemain, Messages
<1>9. SweepFits'
  BY <1>1, <1>3, <1>7 DEF IngressInv, SweepFits, Messages
<1>10. PageCovers'
  <2> SUFFICES ASSUME ~sweep'.full, NEW k \in Messages', wm' < k, Swept(k)' PROVE CaredFor(k)'
    BY <1>7 DEF PageCovers
  <2>1. k \in Messages /\ k \in Nat /\ wm < k /\ k # m
    BY <1>1, <1>3, <1>6 DEF Messages
  <2>2. Swept(k)
    BY <1>7 DEF Swept
  <2>3. CaredFor(k)
    BY <1>1, <1>7, <2>1, <2>2 DEF IngressInv, PageCovers
  <2> QED
    BY <1>1, <1>4, <1>7, <2>1, <2>3 DEF CaredFor, JobsRemain
<1>11. ~sweep.full => Hidden' \subseteq Hidden
  <2> SUFFICES ASSUME ~sweep.full PROVE Hidden' \subseteq Hidden
    OBVIOUS
  <2>1. ASSUME NEW k \in Messages, wm < k, k <= wm' PROVE Swept(k)
    <3>1. wm' = m /\ k <= m
      BY <1>3, <1>6, <2>1
    <3> QED
      BY <1>2, <3>1 DEF Swept
  <2>2. {m} \in SUBSET sweep.page /\ sweep.page \ {m} \subseteq sweep'.page
    BY <1>2, <1>7
  <2>3. ASSUME NEW k \in {m} PROVE posted[k] = "own" \/ Offered(k)' \/ k \in refused' \/ k <= MinSnowflake(clock)
    <3>1. k = m
      OBVIOUS
    <3> QED
      BY <1>5, <3>1
  <2> QED
    BY <1>1, <1>4, <1>6, <2>1, <2>2, <2>3, NewerHandled
<1> QED
  BY <1>8, <1>9, <1>10, <1>11 DEF Harmless, IngressInv

LEMMA GreatestOf ==
    ASSUME NEW c \in Nat, NEW S \in SUBSET (1..c), S # {}
    PROVE  \E m \in S : \A x \in S : x <= m
<1> DEFINE U == {u \in Nat : \A x \in S : x <= u}
<1>1. c \in U /\ U \in SUBSET Nat
  OBVIOUS
<1>2. PICK m \in U : \A u \in U : m <= u
  BY <1>1, LeastIndex
<1>3. CASE m \notin S
  <2>3. PICK x : x \in S
    OBVIOUS
  <2>1. x \in Nat /\ 1 <= x
    BY <2>3
  <2>2. m - 1 \in U
    BY <1>2, <1>3, <2>1, <2>3
  <2> QED
    BY <1>2, <2>2
<1> QED
  BY <1>2, <1>3

LEMMA CollectHarmless == ASSUME IngressInv, CollectCandidateChannels PROVE Harmless
<1>1. /\ UNCHANGED <<clock, posted, gatewayEvents, missedPosts, wm, refused, river>>
      /\ sweep.pc = "collect" /\ sweep.page = {} /\ sweep \in Sweeps /\ clock \in Nat /\ Messages \subseteq 1..clock
  BY DEF IngressInv, IngressTypes, SweepFits, CollectCandidateChannels, queueVars
<1>2. sweep'.pc # "offer" /\ sweep'.page = {} /\ sweep' \in Sweeps /\ sweep'.from <= clock /\ sweep'.last <= clock
  <2>1. CASE sweep' = NoSweep
    BY <1>1, <2>1 DEF NoSweep, Sweeps
  <2>2. CASE Messages # {} /\ sweep' = [sweep EXCEPT !.pc = "fetch", !.last = Max(Messages)]
    <3>1. Max(Messages) \in Messages
      <4>2. \E k \in Messages : \A x \in Messages : x <= k
        BY <1>1, <2>2, GreatestOf
      <4> QED
        BY <4>2 DEF Max
    <3> DEFINE last == Max(Messages)
    <3>4. last \in Messages
      BY <3>1
    <3> HIDE DEF last
    <3>2. last \in Nat /\ last <= clock
      BY <1>1, <3>4
    <3>3. sweep' = [sweep EXCEPT !.pc = "fetch", !.last = last]
      BY <2>2 DEF last
    <3> QED
      BY <1>1, <3>2, <3>3 DEF IngressInv, SweepFits, Sweeps
  <2> QED
    BY <2>1, <2>2 DEF CollectCandidateChannels
<1> QED
  BY <1>1, <1>2 DEF Harmless, IngressInv, IngressTypes, SweepFits, PageCovers, Hidden, Offered, Messages

\* A page that was not full is all there was to fetch.
LEMMA PageIsWhole ==
    ASSUME NEW S \in SUBSET Nat, IsFiniteSet(S), Cardinality(S) <= PageLimit
    PROVE  OldestOf(S) = S
<1> SUFFICES ASSUME NEW m \in S PROVE Cardinality({n \in S : n < m}) < PageLimit
  BY DEF OldestOf
<1> DEFINE T == {n \in S : n < m}
<1>1. T # S /\ T \in SUBSET S
  OBVIOUS
<1> HIDE DEF T
<1>3. Cardinality(T) <= Cardinality(S) /\ Cardinality(T) # Cardinality(S) /\ IsFiniteSet(T)
  BY <1>1, FS_Subset
<1>2. Cardinality(T) \in Nat /\ Cardinality(S) \in Nat /\ Cardinality(T) < Cardinality(S)
  BY <1>3, FS_CardinalityType
<1> QED
  BY <1>2, IngressAssumption DEF T

LEMMA FetchHarmless == ASSUME IngressInv, FetchChannelMessages PROVE Harmless
<1>1. /\ UNCHANGED <<clock, posted, gatewayEvents, missedPosts, wm, refused, river>>
      /\ sweep.pc = "fetch" /\ sweep.page = {} /\ sweep \in Sweeps /\ sweep.from <= clock /\ sweep.last <= clock
      /\ clock \in Nat /\ Messages \subseteq 1..clock /\ wm \in Nat
  BY DEF IngressInv, IngressTypes, SweepFits, FetchChannelMessages, queueVars
<1>2. CASE sweep' = NoSweep
  <2>1. sweep'.pc = "idle" /\ sweep'.page = {} /\ sweep' \in Sweeps /\ sweep'.from = 0 /\ sweep'.last = 0
    BY <1>2 DEF NoSweep, Sweeps
  <2> QED
    BY <1>1, <2>1 DEF Harmless, IngressInv, IngressTypes, SweepFits, PageCovers, Hidden, Offered, Messages
<1>3. CASE sweep' = [sweep EXCEPT !.pc = "offer", !.page = OldestOf(Newer), !.full = Cardinality(Newer) > PageLimit]
  <2> DEFINE page == OldestOf(Newer)
             full == Cardinality(Newer) > PageLimit
  <2>1. Newer \in SUBSET Messages /\ Newer \in SUBSET Nat /\ IsFiniteSet(Newer) /\ page \in SUBSET Messages
    <3>1. Newer \in SUBSET Messages /\ page \in SUBSET Newer
      BY DEF Newer, OldestOf
    <3>2. Newer \in SUBSET (1..clock) /\ IsFiniteSet(1..clock)
      BY <1>1, <3>1, FS_Interval
    <3>3. IsFiniteSet(Newer)
      BY <3>2, FS_Subset
    <3>4. 1..clock \subseteq Nat
      BY <1>1
    <3> QED
      BY <3>1, <3>2, <3>3, <3>4
  <2>2. Cardinality(Newer) \in Nat /\ PageLimit \in Nat
    BY <2>1, FS_CardinalityType, IngressAssumption
  <2>3. ~full => page = Newer
    BY <2>1, <2>2, PageIsWhole
  <2> HIDE DEF page, full
  <2>4. full \in BOOLEAN
    BY <2>2 DEF full
  <2>5. sweep' = [sweep EXCEPT !.pc = "offer", !.page = page, !.full = full]
    BY <1>3, Zenon DEF page, full
  <2>6. /\ sweep'.pc = "offer" /\ sweep'.page = page /\ sweep'.from = sweep.from /\ sweep'.last = sweep.last
        /\ sweep' \in Sweeps
    <3>1. page \in SUBSET Nat
      BY <1>1, <2>1
    <3> QED
      BY <1>1, <2>4, <2>5, <3>1 DEF Sweeps
  <2>7. sweep'.full = full
    BY <1>1, <2>5, Zenon DEF Sweeps
  <2>8. IngressTypes' /\ SweepFits'
    BY <1>1, <2>1, <2>6 DEF IngressInv, IngressTypes, SweepFits, Messages
  <2>9. PageCovers'
    <3> SUFFICES ASSUME ~full, NEW m \in Messages, wm < m PROVE m \in page \/ m <= MinSnowflake(clock)
      BY <1>1, <2>6, <2>7, Zenon DEF PageCovers, CaredFor, Messages
    <3>1. /\ MinSnowflake(sweep.from) \in Nat /\ MinSnowflake(clock) \in Nat
          /\ MinSnowflake(sweep.from) <= MinSnowflake(clock)
      BY <1>1, OlderStaysOld DEF Sweeps
    <3>2. AfterID \in {wm, MinSnowflake(sweep.from)}
      BY <1>1, <3>1, LatestIs DEF AfterID
    <3> QED
      BY <1>1, <2>3, <3>1, <3>2 DEF Newer
  <2> QED
    BY <1>1, <2>6, <2>8, <2>9 DEF Harmless, IngressInv, Hidden, Offered, Messages
<1> QED
  BY <1>2, <1>3 DEF FetchChannelMessages

LEMMA SweepEndHarmless == ASSUME IngressInv, SweepEnds PROVE Harmless
<1>1. /\ UNCHANGED <<clock, posted, gatewayEvents, missedPosts, refused, river>>
      /\ sweep.pc = "offer" /\ sweep.page = {} /\ sweep \in Sweeps /\ sweep.last <= clock
      /\ wm' = Latest(wm, sweep.last) /\ sweep' = NoSweep
      /\ clock \in Nat /\ wm \in Nat /\ wm <= clock /\ Messages \subseteq Nat
  BY DEF IngressInv, IngressTypes, SweepFits, SweepEnds, queueVars
<1>2. sweep'.pc = "idle" /\ sweep'.page = {} /\ sweep' \in Sweeps /\ sweep'.from = 0 /\ sweep'.last = 0
  BY <1>1 DEF NoSweep, Sweeps
<1>3. wm' \in {wm, sweep.last} /\ wm' \in Nat /\ wm' <= clock
  BY <1>1, LatestIs DEF Sweeps
<1>4. IngressTypes' /\ SweepFits' /\ PageCovers'
  BY <1>1, <1>2, <1>3 DEF IngressInv, IngressTypes, SweepFits, PageCovers, Messages
<1>5. ~sweep.full => Hidden' \subseteq Hidden
  <2>1. JobsRemain /\ refused \subseteq refused'
    BY <1>1 DEF JobsRemain, Offered, IngressInv, IngressTypes
  <2>2. ASSUME NEW m \in Messages, wm < m, m <= wm' PROVE Swept(m)
    BY <1>1, <1>3, <2>2 DEF Swept
  <2>3. {} \in SUBSET sweep.page /\ sweep.page \ {} \subseteq sweep'.page
    BY <1>1, <1>2
  <2> QED
    BY <1>1, <1>3, <2>1, <2>2, <2>3, NewerHandled
<1> QED
  BY <1>4, <1>5 DEF Harmless, IngressInv

LEMMA RestartHarmless == ASSUME IngressInv, SynapseRestarts PROVE Harmless
<1>1. /\ UNCHANGED <<clock, posted, missedPosts, refused>> /\ gatewayEvents' = {} /\ wm' = 0 /\ sweep' = NoSweep
      /\ SetJob("rescue") /\ clock \in Nat /\ Messages \subseteq 1..clock
  BY DEF IngressInv, IngressTypes, SynapseRestarts
<1>2. sweep'.pc = "idle" /\ sweep'.page = {} /\ sweep' \in Sweeps /\ sweep'.from = 0 /\ sweep'.last = 0
  BY <1>1 DEF NoSweep, Sweeps
<1>3. JobsRemain
  BY <1>1, SetJobRemains DEF IngressInv, IngressStages
<1>4. IngressTypes' /\ SweepFits' /\ PageCovers'
  BY <1>1, <1>2, <1>3 DEF IngressInv, IngressTypes, SweepFits, PageCovers, JobsRemain, Messages
<1>5. Hidden' = {}
  BY <1>1 DEF Hidden, Messages
<1> QED
  BY <1>4, <1>5 DEF Harmless, IngressInv

LEMMA WorkerHarmless ==
    ASSUME IngressInv,
           \/ TakeJob \/ WorkRetries \/ CheckMessage \/ GetOrCreateThreadID \/ InsertFunnelMessage \/ RescueJob
           \/ Refuse4xx \/ RequestTimesOut
    PROVE  Harmless
<1>1. UNCHANGED <<posted, gatewayEvents, missedPosts, wm, sweep, refused>>
  BY DEF TakeJob, WorkRetries, CheckMessage, GetOrCreateThreadID, InsertFunnelMessage, RescueJob, Refuse4xx,
         RequestTimesOut, synapseVars
<1>2. clock \in Nat /\ clock' \in {clock, clock + 1}
  BY DEF IngressInv, IngressTypes, TakeJob, WorkRetries, CheckMessage, GetOrCreateThreadID, InsertFunnelMessage,
         RescueJob, Refuse4xx, RequestTimesOut
<1>3. UNCHANGED river \/ SetJob("done") \/ SetJob("cancelled") \/ SetJob("rescue") \/ TakeJob \/ RescueJob
  BY DEF WorkRetries, TriesAgain, CheckMessage, GetOrCreateThreadID, InsertFunnelMessage, Refuse4xx, RequestTimesOut,
         Answered2xx, AnsweredError, queueVars
<1>4. JobsRemain
  <2>1. IngressTypes /\ "done" \in IngressStages /\ "cancelled" \in IngressStages /\ "rescue" \in IngressStages
    BY DEF IngressInv, IngressStages
  <2>2. UNCHANGED river => JobsRemain
    BY <2>1 DEF IngressTypes, JobsRemain, Offered
  <2> QED
    BY <1>3, <2>1, <2>2, SetJobRemains, TakenRemains, RescuedRemains
<1> QED
  BY <1>1, <1>2, <1>4, AsideHarmless

LEMMA OutsideHarmless ==
    ASSUME IngressInv,
           \/ Tick \/ OrphanStartsThread \/ EriRestarts \/ HandleGatewayInteractionCreate \/ InteractionWork
           \/ UNCHANGED igVars
    PROVE  Harmless
<1>1. UNCHANGED <<posted, gatewayEvents, missedPosts, wm, sweep, refused, river>>
  BY DEF Tick, OrphanStartsThread, EriRestarts, HandleGatewayInteractionCreate, InteractionWork, AnsweredError,
         igVars, synapseVars, queueVars
<1>2. clock \in Nat /\ clock' \in {clock, clock + 1}
  BY DEF IngressInv, IngressTypes, Tick, OrphanStartsThread, EriRestarts, HandleGatewayInteractionCreate,
         InteractionWork, igVars
<1>3. JobsRemain
  BY <1>1 DEF IngressInv, IngressTypes, JobsRemain, Offered
<1> QED
  BY <1>1, <1>2, <1>3, AsideHarmless

LEMMA IngressStep == ASSUME IngressInv, [IngressNext]_igVars PROVE Harmless
<1>1. CASE Post
  BY <1>1, PostHarmless
<1>2. CASE LinkDrops \/ Resume \/ HandleGatewayReady
  BY <1>2, ConnectionHarmless
<1>3. CASE HandleGatewayMessageCreate
  BY <1>3, EventHarmless
<1>4. CASE SweepWork
  BY <1>4, CollectHarmless, FetchHarmless, OfferHarmless, SweepEndHarmless DEF SweepWork
<1>5. CASE DeliveryWork \/ Refuse4xx \/ RequestTimesOut
  BY <1>5, WorkerHarmless DEF DeliveryWork
<1>6. CASE SynapseRestarts
  BY <1>6, RestartHarmless
<1>7. CASE Tick \/ OrphanStartsThread \/ EriRestarts \/ HandleGatewayInteractionCreate \/ InteractionWork
           \/ UNCHANGED igVars
  BY <1>7, OutsideHarmless
<1> QED
  BY <1>1, <1>2, <1>3, <1>4, <1>5, <1>6, <1>7 DEF IngressNext

(* A sweep that fetched every missed message never moves the watermark *)
(* past a recent one that it has not put into the queue *)
(* (catchUpChannelMessages), whatever the gateway's handlers, the River *)
(* worker and restarts do meanwhile. *)
THEOREM NoMessageIsHidden == IngressSpec => SweepHidesNothing
<1>1. IngressInv /\ [IngressNext]_igVars => IngressInv' /\ [HidesNothing]_igVars
  BY IngressStep DEF Harmless, HidesNothing
<1> QED
  BY <1>1, IngressStarts, PTL DEF IngressSpec, SweepHidesNothing
====================
