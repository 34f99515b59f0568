----------- MODULE BatchGuard -----------
(* The batch guard: a hook that runs as a process of its own before and *)
(* after every tool call of an agent.  It remembers the recent calls of *)
(* the conversation in a JSON file and widens the line range of a read *)
(* that creeps along a file.  Calls of one turn run in parallel, so the *)
(* hooks of a conversation meet: a lock file protects reading and writing *)
(* the state, and every hook that saves also removes files older than an *)
(* hour, lock files included.  The guard is fail-open: a hook that cannot *)
(* create, open or lock the lock file goes on without it, a state file *)
(* that cannot be read counts as empty, and one that cannot be written *)
(* stays as it was. *)
(*  *)
(* A record is a call: its turn, step, what it did, the file, the lines. *)
(* Calls belong together when they have the same turn number or, where one *)
(* lacks a number, the same step or second: the newest `near` records. *)
EXTENDS Integers, Sequences, FiniteSets, FiniteSetsExt, SequencesExt

CONSTANTS
    Hooks,          \* hook processes that may run at the same time
    GuardFiles,     \* files the agent works on
    ReadRanges,     \* requested ranges, 0 for a missing bound
    CallSteps,      \* step numbers of edits; a failure report may lack one (0)
    PageLines, AnchorLines, GapLines,   \* 800, 120 and 50 lines
    MaxRecords,     \* DefaultMaxRecords
    GuardBudgets    \* bounds: calls, turns, expiries, prunings, crashes, failed file operations

ASSUME GuardAssumption ==
    /\ PageLines \in Nat /\ AnchorLines \in Nat /\ GapLines \in Nat
    /\ AnchorLines <= PageLines

VARIABLES
    guardFile,       \* the state file: turn number and records
    lockFile,   \* the inode the name of the lock file refers to, 0 for none
    hooks,      \* the running hook processes
    serial,     \* what the state file would be had the hooks run one by one
    shaped,     \* the last read that was answered: asked and given range
    pruned,     \* history: the lock file was removed while the conversation used it
    unguarded,  \* history: a hook without the lock ran beside another
    guardBudget

guardVars == <<guardFile, lockFile, hooks, serial, shaped, pruned, unguarded, guardBudget>>

--------------------
(* shapeReadFileRange: a range is [s, e]. *)

Lines(s, e) == [s |-> s, e |-> e]
Span(r) == r.e - r.s + 1

Touches(r, q) == r.s <= q.e + GapLines /\ r.e >= q.s - GapLines

PromotePage(r, q) ==
    IF r.s >= q.s
    THEN LET s == IF q.s + PageLines - 1 < r.e THEN r.s ELSE q.s IN Lines(s, s + PageLines - 1)
    ELSE LET u == Max({r.e, q.e})
             s == Min({Max({1, u - PageLines + 1}), r.s})
         IN Lines(s, s + PageLines - 1)

\* The window of n lines around r.
Padded(r, n) == LET s == Max({1, r.s - ((n - Span(r) + 1) \div 2)}) IN Lines(s, s + n - 1)

\* reads is the sequence of earlier reads of the file since its last edit.
ShapeRead(asked, reads) ==
    LET r == Lines(Max({1, asked.s}), asked.e)
        touching == {k \in DOMAIN reads : Touches(r, reads[k].range)}
    IN IF asked.s <= 0 /\ asked.e <= 0 THEN Lines(1, PageLines)
       ELSE IF asked.e <= 0 THEN Lines(asked.s, asked.s + PageLines - 1)
       ELSE IF asked.s > 0 /\ asked.e < asked.s THEN asked
       ELSE IF Span(r) >= PageLines THEN r
       ELSE IF touching # {} THEN PromotePage(r, reads[Max(touching)].range)
       ELSE IF Len(reads) >= 2 THEN Padded(r, PageLines)
       ELSE IF Span(r) < AnchorLines THEN Padded(r, AnchorLines)
       ELSE r

--------------------
(* The state file and what one hook does to it. *)

Invocation(turn, ev, r) == [turn |-> turn, cat |-> ev.kind, file |-> ev.file, step |-> ev.step, range |-> r]
NoRange == Lines(0, 0)

\* Records of other turns count as earlier ones.
PriorRecords(st, near) ==
    LET earlier(c, k) == IF st.turn > 0 /\ c.turn > 0 THEN c.turn # st.turn
                         ELSE k <= Len(st.records) - near
    IN SelectSeq([k \in DOMAIN st.records |-> <<st.records[k], k>>], LAMBDA p : earlier(p[1], p[2]))

ReadsSinceEdit(records, file) ==
    LET edits == {k \in DOMAIN records : records[k].cat = "edit" /\ records[k].file = file}
        from == IF edits = {} THEN 1 ELSE Max(edits) + 1
        later == SubSeq(records, from, Len(records))
        is(c) == c.cat = "read" /\ c.file = file /\ c.range.s > 0 /\ c.range.e >= c.range.s
    IN SelectSeq(later, is)

LastRecords(records) ==
    IF Len(records) <= MaxRecords THEN records
    ELSE SubSeq(records, Len(records) - MaxRecords + 1, Len(records))

\* An edit forgets the reads of its file.
DropReads(records, ev) == SelectSeq(records, LAMBDA c : ~(c.cat = "read" /\ c.file = ev.file))

\* rollbackFailedEdit: a failed edit is taken back, the newest of its step or,
\* when the step is not there or not known, the newest.
RollbackEdit(records, ev) ==
    LET mine == {k \in DOMAIN records : records[k].cat = "edit" /\ records[k].file = ev.file}
        same == {k \in mine : records[k].step = ev.step}
    IN IF mine = {} THEN records
       ELSE RemoveAt(records, Max(IF same # {} THEN same ELSE mine))

EffRange(st, ev, near) ==
    IF ev.kind = "read"
    THEN LET prior == PriorRecords(st, near)
         IN ShapeRead(ev.range, ReadsSinceEdit([k \in DOMAIN prior |-> prior[k][1]], ev.file))
    ELSE NoRange

Recorded(st, ev, near) ==
    CASE ev.kind = "turn" -> [st EXCEPT !.turn = ev.turn]
      [] ev.kind = "failed" -> [st EXCEPT !.records = RollbackEdit(@, ev)]
      [] OTHER ->
           LET kept == IF ev.kind = "edit" THEN DropReads(st.records, ev) ELSE st.records
           IN [st EXCEPT !.records = LastRecords(Append(kept, Invocation(st.turn, ev, EffRange(st, ev, near))))]

EmptyState == [turn |-> 0, records |-> << >>]
NoHook == [pc |-> "idle", ev |-> [kind |-> "none"], inode |-> 0, held |-> FALSE, blind |-> FALSE,
           st |-> EmptyState]

SpendGuard(what) == guardBudget[what] > 0 /\ guardBudget' = [guardBudget EXCEPT ![what] = @ - 1]
SetHook(h, v) == hooks' = [hooks EXCEPT ![h] = v]

GuardInit ==
    /\ guardFile = [EmptyState EXCEPT !.turn = 1] /\ serial = guardFile
    /\ lockFile = 0
    /\ hooks = [h \in Hooks |-> NoHook]
    /\ shaped = [asked |-> NoRange, given |-> NoRange, page |-> PageLines]
    /\ pruned = FALSE /\ unguarded = FALSE
    /\ guardBudget \in GuardBudgets

--------------------
(* One hook process. *)

GuardEvents ==
    {[kind |-> "read", file |-> f, range |-> r, step |-> 0] : f \in GuardFiles, r \in ReadRanges}
    \cup [kind : {"edit"}, file : GuardFiles, step : CallSteps]
    \cup [kind : {"failed"}, file : GuardFiles, step : CallSteps \cup {0}]

NewInode == 1 + Max({lockFile} \cup {hooks[h].inode : h \in Hooks})

Running(h) == {g \in Hooks \ {h} : hooks[g].pc # "idle"}
Bare(g) == hooks[g].pc \in {"locked", "loaded"} /\ ~hooks[g].held

\* withStateLock up to the open: the file is created when it is not there.
\* Without the directory or the file, the hook goes on without a lock.
OpenLock(h, ev, failed) ==
    /\ hooks[h].pc = "idle"
    /\ IF failed
       THEN /\ SetHook(h, [NoHook EXCEPT !.pc = "locked", !.ev = ev])
            /\ unguarded' = (unguarded \/ Running(h) # {})
            /\ UNCHANGED lockFile
       ELSE /\ lockFile' = IF lockFile = 0 THEN NewInode ELSE lockFile
            /\ SetHook(h, [NoHook EXCEPT !.pc = "opened", !.ev = ev, !.inode = lockFile'])
            /\ unguarded' = (unguarded \/ \E g \in Running(h) : Bare(g))
    /\ UNCHANGED <<guardFile, serial, shaped, pruned>>

\* The agent counts its turns.
TurnBound == Max({b.turns : b \in GuardBudgets})
NextTurn == 2 + TurnBound - guardBudget.turns

Charge(what, n, failed) ==
    /\ n <= guardBudget[what] /\ (failed => guardBudget.faults > 0)
    /\ guardBudget' = [guardBudget EXCEPT ![what] = @ - n, !.faults = IF failed THEN @ - 1 ELSE @]

\* A tool call, or RecordPreInvocation at the start of a turn.
StartHook(h) ==
    \E failed \in BOOLEAN :
        \/ Charge("calls", 1, failed) /\ \E ev \in GuardEvents : OpenLock(h, ev, failed)
        \/ Charge("turns", 1, failed) /\ OpenLock(h, [kind |-> "turn", turn |-> NextTurn], failed)

LockAnyway(h) == TRUE
\* flock: exclusive per inode, not per name.
LockFree(h) == \A g \in Hooks \ {h} : ~hooks[g].held \/ hooks[g].inode # hooks[h].inode

Flock(h) ==
    /\ hooks[h].pc = "opened" /\ LockFree(h)
    /\ SetHook(h, [hooks[h] EXCEPT !.pc = "locked", !.held = TRUE])
    /\ UNCHANGED <<guardFile, lockFile, serial, shaped, pruned, unguarded, guardBudget>>

\* flock fails, and the hook goes on without it.
FlockFails(h) ==
    /\ hooks[h].pc = "opened" /\ SpendGuard("faults")
    /\ SetHook(h, [hooks[h] EXCEPT !.pc = "locked"])
    /\ unguarded' = (unguarded \/ Running(h) # {})
    /\ UNCHANGED <<guardFile, lockFile, serial, shaped, pruned>>

\* A state file that cannot be read counts as empty.
LoadState(h) ==
    /\ hooks[h].pc = "locked"
    /\ \/ /\ SetHook(h, [hooks[h] EXCEPT !.pc = "loaded", !.st = guardFile])
          /\ UNCHANGED guardBudget
       \/ /\ SpendGuard("faults")
          /\ SetHook(h, [hooks[h] EXCEPT !.pc = "loaded", !.st = EmptyState, !.blind = TRUE])
    /\ UNCHANGED <<guardFile, lockFile, serial, shaped, pruned, unguarded>>

\* A failed edit that has no record is not written back.
Alters(st, ev) == ev.kind = "failed" => RollbackEdit(st.records, ev) # st.records

\* The state is written by a rename, and a write that fails changes nothing;
\* then opportunisticGC, which removes the lock file when it was created more
\* than an hour ago; then the lock is released with the process.
SaveState(h) ==
    LET ev == hooks[h].ev st == hooks[h].st IN
    /\ hooks[h].pc = "loaded"
    /\ \E near \in 0..Len(st.records), failed \in BOOLEAN, aged \in 0..1 :
        /\ Charge("prunings", aged, failed)
        /\ aged = 1 => ev.kind \in {"read", "edit"}
        /\ lockFile' = IF aged = 1 THEN 0 ELSE lockFile
        /\ pruned' = (pruned \/ (aged = 1 /\ Running(h) # {}))
        /\ shaped' = IF ev.kind = "read"
                     THEN [asked |-> ev.range, given |-> EffRange(st, ev, near), page |-> PageLines]
                     ELSE shaped
        /\ IF failed \/ ~Alters(st, ev) THEN UNCHANGED <<guardFile, serial>>
           ELSE /\ guardFile' = Recorded(st, ev, near)
                /\ serial' = Recorded(IF hooks[h].blind THEN EmptyState ELSE serial, ev, near)
    /\ SetHook(h, NoHook)
    /\ UNCHANGED unguarded

\* A minute passes: older records are dropped by the next loadState.
ExpireRecords ==
    /\ \A h \in Hooks : hooks[h].pc = "idle"
    /\ SpendGuard("expiries")
    /\ guardFile' = [guardFile EXCEPT !.records = << >>] /\ serial' = [serial EXCEPT !.records = << >>]
    /\ UNCHANGED <<lockFile, hooks, shaped, pruned, unguarded>>

\* A hook is killed: the kernel releases its lock, the state file is whole.
KillHook(h) ==
    /\ hooks[h].pc # "idle" /\ SpendGuard("crashes")
    /\ SetHook(h, NoHook)
    /\ UNCHANGED <<guardFile, lockFile, serial, shaped, pruned, unguarded>>

GuardNext ==
    \/ \E h \in Hooks : StartHook(h) \/ Flock(h) \/ FlockFails(h) \/ LoadState(h) \/ SaveState(h) \/ KillHook(h)
    \/ ExpireRecords

GuardSpec == GuardInit /\ [][GuardNext]_guardVars

--------------------
GuardTypeOK ==
    /\ guardFile.turn \in Nat /\ Len(guardFile.records) <= MaxRecords
    /\ lockFile \in Nat /\ pruned \in BOOLEAN /\ unguarded \in BOOLEAN
    /\ \A h \in Hooks : hooks[h].pc \in {"idle", "opened", "locked", "loaded"}

\* The hooks of parallel calls do not lose each other's records: the state
\* file is what it would be had they run one after the other in the order of
\* their writes, with the reads that failed.  It holds until a hook removes the
\* aged lock file under the others, when two of them hold locks on different
\* inodes, or one that could not lock at all runs beside another.
HooksAreSerial == ~(pruned \/ unguarded) => guardFile = serial

\* The guard only ever widens: the agent sees at least the lines it asked for,
\* whatever it read before.
ReadsAreCovered ==
    LET a == shaped.asked g == shaped.given
    IN (a.e >= a.s /\ a.e > 0) => g.s <= Max({1, a.s}) /\ g.e >= a.e

\* A widened read is a page at most.
PagesAreBounded ==
    LET a == shaped.asked g == shaped.given
    IN (a.e >= a.s /\ a.e > 0) => Span(g) <= Max({PageLines, a.e - Max({1, a.s}) + 1})

\* What an agent read before it edited a file does not widen what it reads
\* afterwards: no read of a file precedes a recorded edit of it in the state.
EditsStartAfresh ==
    ~(pruned \/ unguarded) => \A j, k \in DOMAIN guardFile.records :
        j < k /\ guardFile.records[k].cat = "edit" /\ guardFile.records[j].cat = "read" => guardFile.records[j].file # guardFile.records[k].file

\* The batching guard's parallel hooks act as if one after the other, and what they
\* make of a read contains the lines that were asked for in a page at most.
GuardIsSound ==
    /\ GuardTypeOK /\ HooksAreSerial /\ ReadsAreCovered /\ PagesAreBounded
    /\ EditsStartAfresh
====================
