----------- MODULE StoreDouble -----------
(* Two implementations of eri's db.Store: the SQL statements of SQLStore *)
(* and FakeStore, the in-memory store that stands for it in eri's tests. *)
(* Both receive the same calls.  What a test says about the program holds *)
(* for the deployed one only as far as both give the same answers; the *)
(* module says after which calls they do not. *)
(*  *)
(* Messages and dispatches are rows of MessageRows with a thread (for a *)
(* dispatch: a session), a creation time and the kind of their reply; *)
(* their other columns are carried and not compared.  Ages are reduced to *)
(* recent or not. *)
EXTENDS MessageRows, Integers, Sequences, FiniteSets, SequencesExt, FiniteSetsExt

CONSTANTS
    StoreIds,       \* row ids
    Snowflakes,     \* thread ids that are numbers
    NamedThreads,   \* thread ids that are not
    Conversations,  \* conversation ids, "" for none
    BornTimes,      \* creation times callers may give
    StepNumbers,    \* transcript steps, including the markers -1 and -2
    MinTurns,       \* DefaultMaxSessionTurns
    TaskLimit,      \* 50 rows
    CallBudgets     \* bounds: how many calls of each group

VARIABLES
    sql,            \* the Postgres tables
    fake,           \* the maps of FakeStore
    said,           \* what the two answered to the last call
    armed,          \* failNext: methods whose next call fails
    parted,         \* some call was one the two stores treat differently
    callBudget

storeVars == <<sql, fake, said, armed, parted, callBudget>>

Tables == {"messages", "dispatches"}
StoreThreads == Snowflakes \cup NamedThreads
Keys == ({"discord"} \X StoreThreads) \cup ({"as_is"} \X StoreThreads)

\* DiscordSessionID puts a prefix before numbers only.
DiscordSessionID(t) == IF t \in Snowflakes THEN <<"discord", t>> ELSE <<"as_is", t>>

NoEntry == [st |-> Absent, retry |-> 0, restart |-> 0, thread |-> "", born |-> 0, reply |-> "",
            fresh |-> FALSE]
NoSession == [has |-> FALSE, conv |-> "", prev |-> "", turns |-> 0, sum |-> "", fresh |-> FALSE]
NoSummary == [has |-> FALSE, step |-> 0, mark |-> 0, settled |-> FALSE, text |-> ""]

\* order is the sequence of row ids.
NewStore ==
    [messages |-> [i \in StoreIds |-> NoEntry], dispatches |-> [i \in StoreIds |-> NoEntry],
     order |-> [tb \in Tables |-> << >>],
     sessions |-> [k \in Keys |-> NoSession], summary |-> NoSummary, steps |-> << >>]

\* FakeStore keeps the thread summaries in a map of their own.
NewFakeStore == NewStore @@ [threadSums |-> [k \in Keys |-> ""]]

StoreInit ==
    /\ sql = NewStore /\ fake = NewFakeStore
    /\ said = <<"ok", "ok">> /\ armed = {} /\ parted = FALSE
    /\ callBudget \in CallBudgets

--------------------
(* One call on both stores: s and f are the stores after it, differs says *)
(* that it is one of the calls they treat differently. *)

SpendCall(group) == callBudget[group] > 0 /\ callBudget' = [callBudget EXCEPT ![group] = @ - 1]

Asked(group, method, s, f, answers, differs) ==
    /\ SpendCall(group)
    /\ \/ /\ method \notin armed
          /\ sql' = s /\ fake' = f /\ said' = answers
          /\ parted' = (parted \/ differs)
          /\ UNCHANGED armed
       \/ /\ method \in armed
          /\ armed' = armed \ {method} /\ said' = <<"error", "error">>
          /\ UNCHANGED <<sql, fake, parted>>

Call(group, method, s, f, differs) == Asked(group, method, s, f, <<"ok", "ok">>, differs)

FailNext(method) ==
    /\ SpendCall("faults")
    /\ armed' = armed \cup {method}
    /\ UNCHANGED <<sql, fake, said, parted>>

--------------------
(* Messages and dispatches. *)

Insert(store, tb, i, t, b) ==
    IF store[tb][i].st # Absent THEN store
    ELSE [store EXCEPT ![tb] = [InsertMessage(@, i) EXCEPT ![i].thread = t, ![i].born = b, ![i].fresh = TRUE],
                       !.order[tb] = Append(@, i)]

\* Callers may give a creation time before that of a row that is there: the
\* fake lists by insertion, SQL by creation.  A thread that is no number has
\* its session under another key than the SQL join looks for.
InsertCall(tb, i, t, b) ==
    /\ \A j \in StoreIds, x \in Tables : sql[x][j].born # b
    /\ Call(tb, "Insert", Insert(sql, tb, i, t, b), Insert(fake, tb, i, t, b),
            /\ sql[tb][i].st = Absent
            /\ \/ \E j \in StoreIds : sql[tb][j].born > b
               \/ tb = "messages" /\ t \in NamedThreads)

\* The statements touch updated_at of the rows they match.
OnRow(store, tb, i, table) ==
    IF store[tb][i].st = Absent THEN store ELSE [store EXCEPT ![tb] = [table EXCEPT ![i].fresh = TRUE]]
OnRowIn(store, tb, i, st, table) == IF store[tb][i].st \in st THEN OnRow(store, tb, i, table) ELSE store

FakeClaim(f, tb, i) == OnRowIn(f, tb, i, {Pending}, [f[tb] EXCEPT ![i].st = Processing])
ClaimCall(tb, i) ==
    Asked(tb, "Claim", OnRowIn(sql, tb, i, {Pending}, ClaimPendingMessage(sql[tb], i)), FakeClaim(fake, tb, i),
          <<sql[tb][i].st = Pending, fake[tb][i].st = Pending>>, FALSE)

StatusCall(tb, i, st) ==
    Call(tb, "UpdateStatus", OnRow(sql, tb, i, UpdateMessageStatus(sql[tb], i, st)),
         OnRow(fake, tb, i, [fake[tb] EXCEPT ![i].st = st]), FALSE)

FakeComplete(f, tb, i, reply) == OnRow(f, tb, i, [f[tb] EXCEPT ![i].st = Completed, ![i].reply = reply])
CompleteCall(tb, i, reply) ==
    Call(tb, "UpdateCompleted",
         OnRow(sql, tb, i, [UpdateMessageStatus(sql[tb], i, Completed) EXCEPT ![i].reply = reply]),
         FakeComplete(fake, tb, i, reply), FALSE)

RetryCall(tb, i) ==
    Call(tb, "IncrementRetry", OnRow(sql, tb, i, IncrementMessageRetry(sql[tb], {i})),
         OnRow(fake, tb, i, [fake[tb] EXCEPT ![i].retry = @ + 1]), FALSE)

FakeResetAlways(f, tb, i) ==
    OnRow(f, tb, i, [f[tb] EXCEPT ![i].st = Pending, ![i].restart = @ + 1])
\* FakeStore resets a message whatever its status, a dispatch only when it is
\* being processed.
FakeReset(f, tb, i) ==
    OnRowIn(f, tb, i, IF tb = "messages" THEN Statuses ELSE {Processing},
            [f[tb] EXCEPT ![i].st = Pending, ![i].restart = @ + 1])
ResetCall(tb, i) ==
    Call(tb, "Reset", OnRowIn(sql, tb, i, {Processing}, ResetMessageToPendingWithRestart(sql[tb], i)),
         FakeReset(fake, tb, i),
         tb = "messages" /\ sql[tb][i].st \notin {Absent, Processing})

\* One dispatch after the other, in the order of insertion.
FakeCancel(f, i, t) ==
    FoldLeft(LAMBDA g, j : IF g.dispatches[j].st = Pending /\ (j = i \/ g.dispatches[j].thread = t)
                          THEN [g EXCEPT !.dispatches[j].st = Failed, !.dispatches[j].fresh = TRUE] ELSE g,
            f, f.order["dispatches"])
\* CancelPendingDispatches by id or by the build the prompts name; here all
\* dispatches of a session have its build.
CancelCall(i, t) ==
    LET hit == {j \in StoreIds : sql.dispatches[j].st = Pending /\ (j = i \/ sql.dispatches[j].thread = t)}
    IN Call("dispatches", "Cancel",
            [sql EXCEPT !.dispatches =
                [j \in StoreIds |-> IF j \in hit THEN [@[j] EXCEPT !.st = Failed, !.fresh = TRUE] ELSE @[j]]],
            FakeCancel(fake, i, t), FALSE)

\* GetMessage and GetDispatch.  Of a message that is not there, SQLStore says
\* nothing and the fake says ErrNoRows.
GetCall(tb, i) ==
    LET absent(store) == store[tb][i].st = Absent IN
    Asked(tb, "Get", sql, fake,
          <<IF absent(sql) THEN "nil" ELSE sql[tb][i],
            IF ~absent(fake) THEN fake[tb][i] ELSE IF tb = "messages" THEN "no rows" ELSE "nil">>,
          tb = "messages" /\ absent(sql))

\* An empty id: SQLStore refuses it in every writing method, the fake only
\* where a dispatch is inserted.
EmptyIdCall(tb, method) ==
    Asked(tb, method, sql, fake,
          <<"error", IF tb = "dispatches" /\ method = "Insert" THEN "error" ELSE "ok">>,
          ~(tb = "dispatches" /\ method = "Insert"))

--------------------
(* Sessions. *)

SetSession(store, k, v) == [store EXCEPT !.sessions[k] = v]
Touched(row) == [row EXCEPT !.has = TRUE, !.fresh = TRUE]

SaveSessionCall(t, c) ==
    LET k == DiscordSessionID(t)
        saved(store) == SetSession(store, k, [Touched(store.sessions[k]) EXCEPT !.conv = c])
    IN Call("sessions", "SaveSessionID", IF c = "" THEN sql ELSE saved(sql), saved(fake), c = "")

IncrementTurnsCall(t) ==
    LET k == DiscordSessionID(t)
        more(store) == SetSession(store, k, [Touched(store.sessions[k]) EXCEPT !.turns = @ + 1])
    IN Call("sessions", "IncrementSessionTurnCount", more(sql), more(fake), FALSE)

PrevAlways(row, c) == row.conv
\* The SQL statement keeps the previous conversation when there was none to
\* leave, or when the new one is the old one.
PrevAfterRotate(row, c) == IF row.conv # "" /\ row.conv # c THEN row.conv ELSE row.prev

Rotated(row, c, prev) == [Touched(row) EXCEPT !.conv = c, !.prev = prev, !.turns = 0]
FakeRotate(f, k, c) ==
    LET row == f.sessions[k] IN SetSession(f, k, Rotated(row, c, IF row.has THEN PrevAlways(row, c) ELSE ""))
RotateCall(t, c) ==
    LET k == DiscordSessionID(t)
        s == sql.sessions[k]
    IN Call("sessions", "RotateSessionID",
            SetSession(sql, k, Rotated(s, c, IF s.has THEN PrevAfterRotate(s, c) ELSE "")),
            FakeRotate(fake, k, c),
            s.has /\ PrevAfterRotate(s, c) # PrevAlways(s, c))

\* In SQL the summary is a column of the session's row, which the statement
\* creates or touches.
SaveThreadSummaryCall(t, sum) ==
    LET k == DiscordSessionID(t)
    IN Call("sessions", "SaveThreadSummary",
            SetSession(sql, k, [Touched(sql.sessions[k]) EXCEPT !.sum = sum]),
            [fake EXCEPT !.threadSums[k] = sum],
            ~(sql.sessions[k].has /\ sql.sessions[k].fresh))

\* Time passes: what was recent no longer is.
SessionsAge ==
    LET age(store) ==
            [store EXCEPT !.sessions = [k \in Keys |-> [@[k] EXCEPT !.fresh = FALSE]],
                          !.messages = [i \in StoreIds |-> [@[i] EXCEPT !.fresh = FALSE]]]
    IN Call("ages", "none", age(sql), age(fake), FALSE)

InTable(store, tb) == {i \in StoreIds : store[tb][i].st # Absent}

\* Threads with a recent message or session.
ActiveThreads(store) ==
    {store.messages[i].thread : i \in {j \in InTable(store, "messages") : store.messages[j].fresh}}
        \cup {t \in StoreThreads : store.sessions[<<"discord", t>>].fresh}

\* GetActiveRecentThreadIDs: SQL takes 24 hours when it is given no duration,
\* the fake takes none; SQL names the 50 updated last, the fake all by
\* insertion, so with several threads the answers are not compared.
ActiveThreadsCall(bySince) ==
    LET threads == ActiveThreads(sql) IN
    Asked("sessions", "GetActiveRecentThreadIDs", sql, fake,
          <<threads, IF bySince THEN ActiveThreads(fake) ELSE {}>>,
          Cardinality(threads) > 1 \/ (~bySince /\ threads # {}))

--------------------
(* Session summaries and transcript steps. *)

Merge(row, u, settledMark) ==
    [row EXCEPT !.text = IF u.text # "" THEN u.text ELSE @,
                !.step = IF u.step >= 0 THEN u.step ELSE IF u.step = -2 THEN -1 ELSE @,
                !.mark = IF u.mark >= 0 THEN u.mark ELSE @,
                !.settled = u.settled \/ (@ /\ ~(u.step > settledMark /\ settledMark >= 0))]

\* updateExistingSessionSummary stores the watermark before it looks at it.
NewMark(row, u) == IF u.mark >= 0 THEN u.mark ELSE row.mark
\* SQL compares the indexed step with the watermark the row had.
OldMark(row, u) == row.mark

Upserted(row, u, mark) == IF row.has THEN Merge(row, u, mark) ELSE [u EXCEPT !.has = TRUE]
FakeUpsert(f, u) == [f EXCEPT !.summary = Upserted(@, u, NewMark(@, u))]
UpsertSummaryCall(u) ==
    LET s == sql.summary
    IN Call("summaries", "UpsertSessionSummary",
            [sql EXCEPT !.summary = Upserted(@, u, OldMark(@, u))], FakeUpsert(fake, u),
            Upserted(s, u, OldMark(s, u)) # Upserted(s, u, NewMark(s, u)))

FakeAddSteps(have, new) ==
    FoldLeft(LAMBDA acc, st : IF \E k \in DOMAIN acc : acc[k].index = st.index THEN acc ELSE Append(acc, st), have, new)

\* ON CONFLICT (session_id, step_index) DO NOTHING: the first content stays.
SqlAddSteps(have, new) ==
    LET all == have \o new
        first == {k \in DOMAIN all : \A j \in 1..(k - 1) : all[j].index # all[k].index}
    IN [n \in 1..Cardinality(first) |-> all[SetToSortSeq(first, <)[n]]]

InsertStepsCall(new) ==
    Call("summaries", "BatchInsertTranscriptSteps",
         [sql EXCEPT !.steps = SqlAddSteps(@, new)], [fake EXCEPT !.steps = FakeAddSteps(@, new)], FALSE)

SummaryRows ==
    [has : {FALSE}, step : StepNumbers, mark : {n \in StepNumbers : n >= -1}, settled : BOOLEAN, text : {"", "text"}]
StepBatches == {<<[index |-> a, content |-> "x"], [index |-> b, content |-> "y"]>> : a, b \in {n \in StepNumbers : n >= 0}}

StoreNext ==
    \/ \E tb \in Tables, i \in StoreIds :
        \/ \E t \in StoreThreads, b \in BornTimes : InsertCall(tb, i, t, b)
        \/ GetCall(tb, i) \/ ClaimCall(tb, i) \/ RetryCall(tb, i) \/ ResetCall(tb, i) \/ StatusCall(tb, i, Failed)
        \/ \E reply \in {"answer", "marker"} : CompleteCall(tb, i, reply)
    \/ \E tb \in Tables, m \in {"Insert", "UpdateStatus"} : EmptyIdCall(tb, m)
    \/ \E i \in StoreIds, t \in StoreThreads : CancelCall(i, t)
    \/ \E bySince \in BOOLEAN : ActiveThreadsCall(bySince)
    \/ \E t \in StoreThreads, c \in Conversations : SaveSessionCall(t, c) \/ RotateCall(t, c)
    \/ \E t \in StoreThreads : IncrementTurnsCall(t) \/ SaveThreadSummaryCall(t, "sum")
    \/ \E u \in SummaryRows : UpsertSummaryCall(u)
    \/ \E new \in StepBatches : InsertStepsCall(new)
    \/ SessionsAge
    \/ \E m \in {"Claim", "UpdateStatus", "RotateSessionID", "UpsertSessionSummary"} : FailNext(m)

StoreSpec == StoreInit /\ [][StoreNext]_storeVars

--------------------
(* What the reading methods return. *)

LiveIn(store, tb) == {i \in StoreIds : store[tb][i].st \in Live}
ByBirth(store, tb, ids) == SetToSortSeq(ids, LAMBDA a, b : store[tb][a].born < store[tb][b].born)
ByInsertion(store, tb, ids) == SelectSeq(store.order[tb], LAMBDA i : i \in ids)
LastN(seq, n) == SubSeq(seq, Max({1, Len(seq) - n + 1}), Len(seq))

\* GetRecentThreadMessages and, of completed ones, GetRecentSessionDispatches.
OfThread(store, tb, t) ==
    {i \in InTable(store, tb) : store[tb][i].thread = t /\ (tb = "messages" \/ store[tb][i].st = Completed)}

SqlRecent(tb, t, n) == LastN(ByBirth(sql, tb, OfThread(sql, tb, t)), n)
FakeRecent(tb, t, n) == LastN(ByInsertion(fake, tb, OfThread(fake, tb, t)), n)

SqlPending(tb) == ByBirth(sql, tb, LiveIn(sql, tb))
FakePending(tb) == IF tb = "messages" THEN ByInsertion(fake, tb, LiveIn(fake, tb)) ELSE ByBirth(fake, tb, LiveIn(fake, tb))

\* GetActiveTasks without a filter: both tables by creation, with the session.
Tasks(store, key(_, _), sum(_)) ==
    LET live == {x \in Tables \X StoreIds : x[2] \in LiveIn(store, x[1])}
        born(x) == store[x[1]][x[2]].born
        sorted == SetToSortSeq(live, LAMBDA x, y : born(x) < born(y))
        show(x) == LET k == key(x[1], store[x[1]][x[2]].thread)
                   IN <<x, store.sessions[k].conv, store.sessions[k].prev, sum(k)>>
    IN [n \in 1..Min({TaskLimit, Len(sorted)}) |-> show(sorted[n])]

SqlKey(tb, t) == IF tb = "messages" THEN <<"discord", t>> ELSE DiscordSessionID(t)
FakeKey(tb, t) == DiscordSessionID(t)
SqlTasks == Tasks(sql, SqlKey, LAMBDA k : sql.sessions[k].sum)
FakeTasks == Tasks(fake, FakeKey, LAMBDA k : fake.threadSums[k])

\* With a filter: messages only, newest row first unless the caller pages
\* forward from a row id.
SqlFiltered(status, t, after) ==
    LET rows == sql.order["messages"]
        hit == {n \in DOMAIN rows : LET r == sql.messages[rows[n]]
                                    IN n > after /\ r.thread = t /\ r.st \in status}
        sorted == SetToSortSeq(hit, LAMBDA a, b : IF after > 0 THEN a < b ELSE a > b)
    IN [n \in 1..Min({TaskLimit, Len(sorted)}) |-> rows[sorted[n]]]
MatchesTaskFilter(i, status, t) == fake.messages[i].thread = t /\ fake.messages[i].st \in status
FakeFiltered(status, t, after) ==
    LET rows == SubSeq(fake.order["messages"], after + 1, Len(fake.order["messages"]))
        hit == SelectSeq(rows, LAMBDA i : MatchesTaskFilter(i, status, t))
        sorted == IF after > 0 THEN hit ELSE Reverse(hit)
    IN SubSeq(sorted, 1, Min({TaskLimit, Len(sorted)}))

Unrotated(store) == {k \in Keys : store.sessions[k].turns > MinTurns /\ store.sessions[k].fresh}
SessionView(store) == [k \in Keys |-> <<store.sessions[k].conv, store.sessions[k].prev, store.sessions[k].turns>>]
CompletedTurns(store, t) ==
    Cardinality({i \in StoreIds : LET r == store.messages[i] IN r.thread = t /\ r.st = Completed /\ r.reply = "answer"})
ThreadActive(store, t) == \E i \in StoreIds : store.messages[i].thread = t /\ store.messages[i].st \in Live
DispatchActive(store, t, i) ==
    \E j \in LiveIn(store, "dispatches") : j = i \/ store.dispatches[j].thread = t
StepRange(store, a, b) ==
    LET hit == {k \in DOMAIN store.steps : store.steps[k].index \in a..b}
    IN SetToSortSeq({store.steps[k] : k \in hit}, LAMBDA x, y : x.index < y.index)

--------------------
StoreTypeOK ==
    /\ \A tb \in Tables, i \in StoreIds : {sql[tb][i].st, fake[tb][i].st} \subseteq Statuses
    /\ \A tb \in Tables : Len(fake.order[tb]) = Cardinality(InTable(fake, tb))
    /\ parted \in BOOLEAN

\* FakeStore is an implementation of db.Store: whatever was called before, the
\* lists, the flags and the modelled columns of the rows that FakeStore returns
\* are those of SQL, and so is its answer to the last call.
MessagesAgree ==
    \A tb \in Tables :
        /\ SqlPending(tb) = FakePending(tb)
        /\ \A t \in StoreThreads, n \in 1..2 :
            SqlRecent(tb, t, n) = FakeRecent(tb, t, n)
        /\ sql[tb] = fake[tb]
        /\ \A t \in StoreThreads : /\ ThreadActive(sql, t) = ThreadActive(fake, t)
                                   /\ CompletedTurns(sql, t) = CompletedTurns(fake, t)
                                   /\ \A i \in StoreIds : DispatchActive(sql, t, i) = DispatchActive(fake, t, i)
TasksAgree ==
    /\ SqlTasks = FakeTasks
    /\ \A t \in StoreThreads, after \in 0..1, st \in {Live, {Completed}} :
        SqlFiltered(st, t, after) = FakeFiltered(st, t, after)
SessionsAgree ==
    /\ SessionView(sql) = SessionView(fake)
    /\ \A k \in Keys : sql.sessions[k].sum = fake.threadSums[k]
    /\ Unrotated(sql) = Unrotated(fake)
TranscriptsAgree ==
    /\ sql.summary = fake.summary
    /\ \A a, b \in 0..1 : StepRange(sql, a, b) = StepRange(fake, a, b)

FakeIsStore == MessagesAgree /\ TasksAgree /\ SessionsAgree /\ TranscriptsAgree

\* The two stores give the same answers until one of the calls that the
\* definitions above name: no other call tells them apart, alone or after any
\* sequence of others.
FakePartsOnlyThere == ~parted => FakeIsStore /\ said[1] = said[2]

\* The in-memory store of the tests answers like the SQL one, after any sequence of
\* calls but those that are named as telling them apart.
DoubleIsSound ==
    /\ StoreTypeOK /\ FakePartsOnlyThere
====================
