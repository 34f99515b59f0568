----------- MODULE TurnQueueProofs -----------
(* Proofs about TurnQueue for every number of messages, dispatches, scopes *)
(* and threads and for every value of the limits and bounds. *)
(*  *)
(* TypeOK alone is not inductive: Head(turn[s].todo) has a type only where *)
(* the loop over todo has not ended.  WellFormed says of which states of a *)
(* turn that is true, and IInv is TypeOK with turns that are well formed. *)
(* It is split along the tuples the actions leave unchanged. *)
EXTENDS TurnQueue, SequenceTheorems, TLAPS

WellFormed ==
    {t \in Turns :
        /\ t.pc # "idle" => t.burst # <<>>
        /\ t.pc \in {"claim", "defer", "final", "trailing"} => t.todo # <<>>
        /\ t.pc = "lead" => t.got # <<>>}

Recs == [pc : {"idle", "msgs", "disps", "merge", "mergeDisps", "enqueue"},
         todo : SUBSET Items, ready : SUBSET Copies, seen : [Items -> Row]]

Irqs == [pc : {"idle", "snap", "chans", "fail", "drain", "close"}, thread : Threads,
         drain : BOOLEAN, ids : SUBSET Items, turns : SUBSET Scopes,
         chans : SUBSET Scopes, back : Seq(Copies)]

Spents == [budget : Budgets, stops : Nat, crashes : Nat, irqs : Nat, faults : Nat, resubs : Nat]

StoreInv == row \in [Items -> Row] /\ hit \in SUBSET Items /\ spent \in Spents

TurnInv == turn \in [Scopes -> WellFormed]

ChanInv == ch \in [Scopes -> Seq(Copies)] /\ held \in [Scopes -> Seq(Copies)]

QueueInv ==
    /\ arrived \in Seq(Items)
    /\ phase \in {"down", "held", "live", "stopping"}
    /\ rec \in Recs
    /\ ingest \in SUBSET Items
    /\ timers \in Seq(Copies)
    /\ irq \in Irqs

RestInv == quotaLocked \in BOOLEAN /\ delivered \in [Items -> Nat] /\ shed \in SUBSET Items

IInv == StoreInv /\ TurnInv /\ ChanInv /\ QueueInv /\ RestInv

LEMMA IInvType == IInv => TypeOK
  BY DEF IInv, StoreInv, TurnInv, ChanInv, QueueInv, RestInv, TypeOK, WellFormed,
         Recs, Irqs, Spents

--------------------
(* Sequences of copies *)

LEMMA Empty == <<>> \in Seq(Copies)
  OBVIOUS

LEMMA CopyFields == \A c \in Copies : c.id \in Items /\ c.retry \in Nat
  BY DEF Copies

LEMMA CopyType == \A i \in Items, r \in Nat : Copy(i, r) \in Copies
  BY DEF Copy, Copies

LEMMA SeqFacts ==
    ASSUME NEW q \in Seq(Copies), q # <<>>
    PROVE  /\ Head(q) \in Copies /\ Tail(q) \in Seq(Copies) /\ q[1] \in Copies
           /\ Len(q) > 1 => Tail(q) # <<>>
<1>1. Head(q) \in Copies /\ Tail(q) \in Seq(Copies) /\ Len(Tail(q)) = Len(q) - 1
  BY q \in Seq(Copies), q # <<>>, HeadTailProperties, Zenon
<1>2. q[1] \in Copies /\ Len(q) \in Nat
  OBVIOUS
<1>3. \A r \in Seq(Copies) : r = <<>> => Len(r) = 0
  BY EmptySeq, Zenon
<1>4. Len(q) > 1 => Len(Tail(q)) # 0
  BY <1>1, <1>2
<1> QED
  BY <1>1, <1>2, <1>3, <1>4, Zenon

LEMMA HeadId ==
    ASSUME NEW q \in Seq(Copies), q # <<>>
    PROVE  Head(q).id \in Items /\ Head(q).retry \in Nat /\ q[1].id \in Items
  BY SeqFacts, CopyFields

LEMMA PrefixSuffix ==
    ASSUME NEW q \in Seq(Copies), NEW n \in 0..Len(q), NEW k \in 1..(Len(q) + 1)
    PROVE  SubSeq(q, 1, n) \in Seq(Copies) /\ SubSeq(q, k, Len(q)) \in Seq(Copies)
  OBVIOUS

LEMMA IdsType == ASSUME NEW q \in Seq(Copies) PROVE Ids(q) \in SUBSET Items
BY CopyFields DEF Ids

--------------------
(* The table *)

LEMMA RowOps ==
    ASSUME row \in [Items -> Row], NEW i, NEW st \in Statuses, NEW S
    PROVE  /\ UpdateMessageStatus(row, i, st) \in [Items -> Row]
           /\ ClaimPendingMessage(row, i) \in [Items -> Row]
           /\ InsertMessage(row, i) \in [Items -> Row]
           /\ IncrementMessageRetry(row, S) \in [Items -> Row]
           /\ ResetMessageToPendingWithRestart(row, i) \in [Items -> Row]
<1>1. \A x \in Statuses : [row EXCEPT ![i].st = x] \in [Items -> Row]
  BY DEF Row
<1>2. Pending \in Statuses /\ Processing \in Statuses
  BY DEF Statuses
<1>3. UpdateMessageStatus(row, i, st) \in [Items -> Row]
  BY <1>1 DEF UpdateMessageStatus
<1>4. ClaimPendingMessage(row, i) \in [Items -> Row]
  BY <1>1, <1>2 DEF ClaimPendingMessage
<1>5. InsertMessage(row, i) \in [Items -> Row]
  BY <1>1, <1>2 DEF InsertMessage
<1>6. IncrementMessageRetry(row, S) \in [Items -> Row]
  BY DEF IncrementMessageRetry, Row
<1>7. ResetMessageToPendingWithRestart(row, i) \in [Items -> Row]
  <2>1. CASE i \in Items
    <3>0. row[i] \in Row /\ row[i].restart + 1 \in Nat
      BY <2>1 DEF Row
    <3>1. [row[i] EXCEPT !.st = Pending, !.restart = @ + 1] \in Row
      BY <1>2, <3>0, Zenon DEF Row
    <3>2. [row EXCEPT ![i] = [row[i] EXCEPT !.st = Pending, !.restart = @ + 1]] \in [Items -> Row]
      BY <3>1, <2>1
    <3> QED
      BY <3>2, <2>1 DEF ResetMessageToPendingWithRestart
  <2> QED
    BY <2>1 DEF ResetMessageToPendingWithRestart
<1> QED
  BY <1>3, <1>4, <1>5, <1>6, <1>7

LEMMA StatusNames == Terminal \subseteq Statuses /\ Live \subseteq Statuses
                     /\ Failed \in Terminal /\ Completed \in Terminal /\ Pending \in Statuses
  BY DEF Terminal, Statuses, Live

LEMMA FaultType ==
    ASSUME StoreInv, NEW S \in SUBSET Items, spent' = [spent EXCEPT !.faults = @ + 1],
           hit' = hit \cup S \/ hit' = hit, row' \in [Items -> Row]
    PROVE  StoreInv'
  BY DEF StoreInv, Spents

LEMMA SetStatusType ==
    ASSUME StoreInv, NEW i \in Items, NEW st \in Statuses, SetStatus(i, st)
    PROVE  StoreInv'
<1>1. CASE row' = UpdateMessageStatus(row, i, st) /\ UNCHANGED <<hit, spent>>
  BY <1>1, RowOps DEF StoreInv
<1>2. CASE /\ spent' = [spent EXCEPT !.faults = @ + 1]
           /\ hit' = hit \cup {i} /\ UNCHANGED row
  BY <1>2, FaultType DEF StoreInv
<1> QED
  BY <1>1, <1>2 DEF SetStatus

LEMMA CountRetryType ==
    ASSUME StoreInv, NEW s, CountRetry(s)
    PROVE  StoreInv'
BY RowOps, StatusNames, FaultType DEF StoreInv, CountRetry

--------------------
(* The records a turn goes through *)

LEMMA PCs ==
    TurnPCs = {"idle", "popped", "drained", "claim", "dclaim", "policy", "triage",
               "lead", "lease", "hook", "defer", "run", "exec", "eval", "backoff",
               "final", "trail", "trailing", "end"}
  BY DEF TurnPCs

LEMMA WellFormedTurn ==
    ASSUME NEW t \in WellFormed
    PROVE  /\ t \in Turns
           /\ t.burst \in Seq(Copies) /\ t.todo \in Seq(Copies)
           /\ t.got \in Seq(Copies) /\ t.trail \in Seq(Copies)
           /\ t.attempt \in Nat /\ t.yields \in Nat
           /\ t.target \in Terminal
           /\ t.pc # "idle" => t.burst # <<>>
           /\ t.pc \in {"claim", "defer", "final", "trailing"} => t.todo # <<>>
           /\ t.pc = "lead" => t.got # <<>>
  BY DEF WellFormed, Turns

LEMMA BecomesType ==
    ASSUME TurnInv, NEW s \in Scopes, NEW u \in WellFormed, Becomes(s, u)
    PROVE  TurnInv'
  BY DEF TurnInv, Becomes

LEMMA IdleType == IdleTurn \in WellFormed
BY PCs, StatusNames, Empty DEF IdleTurn, Turns, WellFormed

\* A turn that moves on without a loop keeps its burst.
LEMMA MovedType ==
    ASSUME NEW t \in WellFormed, NEW u \in Turns, u.burst = t.burst, t.pc # "idle",
           u.pc \notin {"claim", "defer", "final", "trailing", "lead"}
    PROVE  u \in WellFormed
  BY DEF WellFormed

LEMMA LoopType ==
    ASSUME NEW u \in Turns, u.burst # <<>>, u.todo # <<>>, u.pc # "lead"
    PROVE  u \in WellFormed
  BY DEF WellFormed

LEMMA GotoType ==
    ASSUME NEW s \in Scopes, turn[s] \in WellFormed, turn[s].pc # "idle", NEW pc \in TurnPCs,
           pc \notin {"claim", "defer", "final", "trailing", "lead"}
    PROVE  Goto(s, pc) \in WellFormed
<1>1. turn[s] \in Turns
  BY WellFormedTurn
<1>2. Goto(s, pc) \in Turns
  BY <1>1, Zenon DEF Goto, Turns
<1>3. Goto(s, pc).burst = turn[s].burst /\ Goto(s, pc).pc = pc
  BY <1>1 DEF Goto, Turns
<1> QED
  BY <1>2, <1>3, MovedType

LEMMA LeavingType ==
    ASSUME NEW s \in Scopes, turn[s] \in WellFormed, turn[s].pc # "idle"
    PROVE  Leaving(s) \in WellFormed
<1>1. turn[s] \in Turns
  BY WellFormedTurn
<1>2. Leaving(s) \in Turns
  BY <1>1, Empty, PCs, Zenon DEF Leaving, Turns
<1>3. Leaving(s).pc = "trail" /\ Leaving(s).burst = turn[s].burst
  BY <1>1 DEF Turns, Leaving
<1> QED
  BY <1>2, <1>3, MovedType

LEMMA SettlingType ==
    ASSUME NEW s \in Scopes, turn[s] \in WellFormed, turn[s].pc # "idle", NEW st \in Terminal
    PROVE  /\ Settling(s, st) \in WellFormed
           /\ [Settling(s, st) EXCEPT !.quota = TRUE] \in WellFormed
           /\ [Settling(s, st) EXCEPT !.trail = <<>>] \in WellFormed
<1> DEFINE u == Settling(s, st)
           v == [u EXCEPT !.quota = TRUE]
           w == [u EXCEPT !.trail = <<>>]
<1>1. turn[s] \in Turns /\ turn[s].burst # <<>>
  BY WellFormedTurn
<1>2. u \in Turns
  BY <1>1, Empty, PCs, Zenon DEF Settling, Turns
<1>3. u.pc = "final" /\ u.burst = turn[s].burst /\ u.todo = turn[s].burst
  BY <1>1 DEF Turns, Settling
<1> HIDE DEF u
<1>4. v \in Turns /\ w \in Turns
  BY <1>2, Empty, Zenon DEF Turns
<1>5. /\ v.pc = u.pc /\ v.burst = u.burst /\ v.todo = u.todo
      /\ w.pc = u.pc /\ w.burst = u.burst /\ w.todo = u.todo
  BY <1>2 DEF Turns
<1>6. u \in WellFormed
  BY <1>1, <1>2, <1>3, LoopType
<1>7. v \in WellFormed /\ w \in WellFormed
  BY <1>1, <1>3, <1>4, <1>5, LoopType
<1> QED
  BY <1>6, <1>7 DEF u

LEMMA PoppedType ==
    ASSUME NEW s \in Scopes, turn[s] \in WellFormed, turn[s].todo # <<>>, NEW u \in WellFormed
    PROVE  Popped(s, u) \in WellFormed
<1>1. turn[s] \in Turns /\ turn[s].todo \in Seq(Copies)
  BY WellFormedTurn
<1>2. CASE Len(turn[s].todo) > 1
  BY <1>1, <1>2, SeqFacts DEF Turns, Popped, WellFormed
<1> QED
  BY <1>2 DEF Popped

--------------------
(* Steps of a worker *)

LEMMA TurnAt ==
    ASSUME IInv, NEW s \in Scopes
    PROVE  turn[s] \in WellFormed
  BY DEF IInv, TurnInv

LEMMA TurnStep ==
    ASSUME IInv, NEW s \in Scopes, NEW u \in WellFormed, Becomes(s, u),
           UNCHANGED <<ch, held>>, UNCHANGED turnOnly
    PROVE  IInv'
BY BecomesType DEF IInv, StoreInv, ChanInv, QueueInv, RestInv, turnOnly

LEMMA StoreStep ==
    ASSUME IInv, NEW s \in Scopes, NEW u \in WellFormed, Becomes(s, u), StoreInv',
           UNCHANGED <<ch, held, quotaLocked, delivered, shed>>, UNCHANGED queueVars
    PROVE  IInv'
BY BecomesType DEF IInv, ChanInv, QueueInv, RestInv, queueVars

LEMMA BeginTurnStep == ASSUME IInv, NEW s \in Scopes, BeginTurn(s) PROVE IInv'
<1> DEFINE u == [turn[s] EXCEPT !.pc = "claim", !.todo = turn[s].burst]
<1>1. turn[s] \in Turns /\ turn[s].burst # <<>>
  BY TurnAt, WellFormedTurn DEF BeginTurn
<1>2. u \in Turns
  BY <1>1, PCs, Zenon DEF Turns
<1>3. u.pc = "claim" /\ u.burst = turn[s].burst /\ u.todo = turn[s].burst
  BY <1>1 DEF Turns
<1>4. u \in WellFormed
  BY <1>1, <1>2, <1>3, LoopType
<1>5. CASE Stopping
  BY <1>5, IdleType, TurnStep DEF BeginTurn
<1>6. CASE ~Stopping
  BY <1>4, <1>6, TurnStep DEF BeginTurn
<1> QED
  BY <1>5, <1>6

LEMMA ResolveTurnPolicyStep == ASSUME IInv, NEW s \in Scopes, ResolveTurnPolicy(s) PROVE IInv'
BY TurnAt, SettlingType, StatusNames, GotoType, PCs, TurnStep DEF ResolveTurnPolicy

LEMMA FromActiveType ==
    ASSUME NEW b \in Seq(Copies), NEW k \in 1..Len(b), NEW wakes
    PROVE  FromActive(b, k, wakes) \in Seq(Copies) /\ FromActive(b, k, wakes) # <<>>
<1> DEFINE n == Len(b) - k + 1
           f(j) == [b[k + j - 1] EXCEPT !.wake = k + j - 1 \in wakes]
<1>1. n \in Nat /\ n >= 1
  OBVIOUS
<1>2. \A c \in Copies : \A x \in BOOLEAN : [c EXCEPT !.wake = x] \in Copies
  BY Zenon DEF Copies
<1>3. \A j \in 1..n : b[k + j - 1] \in Copies
  OBVIOUS
<1>4. ASSUME NEW j \in 1..n PROVE f(j) \in Copies
  <2>1. PICK c \in Copies : c = b[k + j - 1]
    BY <1>3
  <2>2. (k + j - 1 \in wakes) \in BOOLEAN
    OBVIOUS
  <2>3. f(j) = [c EXCEPT !.wake = (k + j - 1 \in wakes)]
    BY <2>1, Zenon
  <2> QED
    BY <1>2, <2>2, <2>3, Zenon
<1> HIDE DEF n, f
<1>5. [j \in 1..n |-> f(j)] \in Seq(Copies)
  BY <1>1, <1>4
<1>6. Len([j \in 1..n |-> f(j)]) = n
  BY <1>1
<1>7. [j \in 1..n |-> f(j)] # <<>>
  BY <1>1, <1>6
<1> QED
  BY <1>5, <1>7 DEF FromActive, n, f

LEMMA AmbientTriageStep == ASSUME IInv, NEW s \in Scopes, AmbientTriage(s) PROVE IInv'
<1>1. /\ turn[s] \in WellFormed /\ turn[s].pc # "idle" /\ turn[s] \in Turns
      /\ turn[s].burst \in Seq(Copies) /\ turn[s].burst # <<>>
  BY TurnAt, WellFormedTurn DEF AmbientTriage
<1>2. CASE Becomes(s, IF Stopping THEN Leaving(s) ELSE Settling(s, Completed))
  BY <1>1, LeavingType, SettlingType, StatusNames, <1>2, TurnStep DEF AmbientTriage
<1>3. ASSUME NEW k \in DOMAIN turn[s].burst, NEW wakes,
             Becomes(s, [turn[s] EXCEPT !.pc = "lead", !.todo = SubSeq(turn[s].burst, 1, k - 1),
                                        !.got = FromActive(turn[s].burst, k, wakes)])
      PROVE  IInv'
  <2> DEFINE d == SubSeq(turn[s].burst, 1, k - 1)
             g == FromActive(turn[s].burst, k, wakes)
             u == [turn[s] EXCEPT !.pc = "lead", !.todo = d, !.got = g]
  <2>1. k \in 1..Len(turn[s].burst)
    BY <1>1
  <2>2. d \in Seq(Copies)
    BY <1>1, <2>1
  <2>3. g \in Seq(Copies) /\ g # <<>>
    BY <1>1, <2>1, FromActiveType
  <2> HIDE DEF d, g
  <2>4. u \in Turns
    BY <1>1, <2>2, <2>3, PCs, Zenon DEF Turns
  <2>5. u.pc = "lead" /\ u.burst = turn[s].burst /\ u.got = g
    BY <1>1 DEF Turns
  <2>6. u \in WellFormed
    BY <1>1, <2>3, <2>4, <2>5 DEF WellFormed
  <2> QED
    BY <1>3, <2>6, TurnStep DEF AmbientTriage, d, g
<1> QED
  BY <1>2, <1>3 DEF AmbientTriage

LEMMA AcquirePoolAndLeaseStep == ASSUME IInv, NEW s \in Scopes, AcquirePoolAndLease(s) PROVE IInv'
<1>1. /\ turn[s] \in WellFormed /\ turn[s].pc # "idle" /\ turn[s] \in Turns
      /\ turn[s].burst \in Seq(Copies) /\ turn[s].burst # <<>>
  BY TurnAt, WellFormedTurn DEF AcquirePoolAndLease
<1>2. CASE Becomes(s, Settling(s, Failed))
  BY <1>1, <1>2, SettlingType, StatusNames, TurnStep DEF AcquirePoolAndLease
<1>3. ASSUME NEW k \in DOMAIN turn[s].burst,
             Becomes(s, [turn[s] EXCEPT !.pc = IF IsDispatch(s) THEN "run" ELSE "hook",
                                        !.attempt = turn[s].burst[k].retry + 1])
      PROVE  IInv'
  <2> DEFINE pc == IF IsDispatch(s) THEN "run" ELSE "hook"
             a == turn[s].burst[k].retry + 1
             u == [turn[s] EXCEPT !.pc = pc, !.attempt = a]
  <2>1. turn[s].burst[k] \in Copies
    BY <1>1
  <2>2. a \in Nat /\ pc \in TurnPCs /\ pc \in {"run", "hook"}
    BY <2>1, CopyFields, PCs
  <2> HIDE DEF a, pc
  <2>3. u \in Turns
    BY <1>1, <2>2, Zenon DEF Turns
  <2>4. u.burst = turn[s].burst /\ u.pc = pc
    BY <1>1 DEF Turns
  <2>5. u \in WellFormed
    BY <1>1, <2>2, <2>3, <2>4, MovedType
  <2> QED
    BY <1>3, <2>5, TurnStep DEF AcquirePoolAndLease, a, pc
<1> QED
  BY <1>2, <1>3 DEF AcquirePoolAndLease

LEMMA RunPreTurnHookStep == ASSUME IInv, NEW s \in Scopes, RunPreTurnHook(s) PROVE IInv'
<1>1. /\ turn[s] \in WellFormed /\ turn[s].pc # "idle" /\ turn[s] \in Turns
      /\ turn[s].burst \in Seq(Copies) /\ turn[s].burst # <<>>
  BY TurnAt, WellFormedTurn DEF RunPreTurnHook
<1>2. Goto(s, "run") \in WellFormed /\ Settling(s, Completed) \in WellFormed
  BY <1>1, GotoType, SettlingType, PCs, StatusNames
<1>3. [turn[s] EXCEPT !.pc = "defer", !.todo = turn[s].burst] \in WellFormed
  BY <1>1, PCs, LoopType DEF Turns
<1> QED
  BY <1>2, <1>3, TurnStep DEF RunPreTurnHook

LEMMA StartAttemptStep == ASSUME IInv, NEW s \in Scopes, StartAttempt(s) PROVE IInv'
BY TurnAt, WellFormedTurn, LeavingType, SettlingType, GotoType, PCs, StatusNames,
   TurnStep DEF StartAttempt

LEMMA ExecuteLeaseAttemptStep == ASSUME IInv, NEW s \in Scopes, ExecuteLeaseAttempt(s) PROVE IInv'
<1>1. /\ turn[s] \in WellFormed /\ turn[s].pc # "idle" /\ turn[s] \in Turns
      /\ turn[s].burst \in Seq(Copies) /\ turn[s].burst # <<>>
  BY TurnAt, WellFormedTurn DEF ExecuteLeaseAttempt
<1>2. CASE Becomes(s, Settling(s, Failed))
  BY <1>1, <1>2, SettlingType, StatusNames, TurnStep DEF ExecuteLeaseAttempt
<1>3. ASSUME NEW r \in Outcomes, Becomes(s, [turn[s] EXCEPT !.pc = "eval", !.res = r])
      PROVE  IInv'
  <2> DEFINE u == [turn[s] EXCEPT !.pc = "eval", !.res = r]
  <2>1. u \in Turns
    BY <1>1, PCs, Zenon DEF Turns
  <2>2. u.burst = turn[s].burst /\ u.pc = "eval"
    BY <1>1 DEF Turns
  <2>3. u \in WellFormed
    BY <1>1, <2>1, <2>2, MovedType
  <2> QED
    BY <1>3, <2>3, TurnStep DEF ExecuteLeaseAttempt
<1> QED
  BY <1>2, <1>3 DEF ExecuteLeaseAttempt

LEMMA PanicStep == ASSUME IInv, NEW s \in Scopes, Panic(s) PROVE IInv'
<1>1. /\ turn[s] \in WellFormed /\ turn[s].pc # "idle" /\ turn[s] \in Turns
      /\ turn[s].burst \in Seq(Copies) /\ turn[s].burst # <<>>
  BY TurnAt, WellFormedTurn DEF Panic
<1>2. [turn[s] EXCEPT !.pc = "trail", !.panicked = TRUE] \in WellFormed
  BY <1>1, PCs, MovedType DEF Turns
<1> QED
  BY <1>2, TurnStep DEF Panic

LEMMA AutoResumeStep == ASSUME IInv, NEW s \in Scopes, AutoResume(s) PROVE IInv'
<1>1. /\ turn[s] \in WellFormed /\ turn[s].pc # "idle" /\ turn[s] \in Turns
      /\ turn[s].burst \in Seq(Copies) /\ turn[s].burst # <<>>
  BY TurnAt, WellFormedTurn DEF AutoResume
<1>0. turn[s].yields + 1 \in Nat
  BY <1>1 DEF Turns
<1>2. [turn[s] EXCEPT !.pc = "run", !.yields = @ + 1] \in WellFormed
  BY <1>1, PCs, <1>0, MovedType DEF Turns
<1> QED
  BY <1>2, TurnStep DEF AutoResume

LEMMA BackoffElapsesStep == ASSUME IInv, NEW s \in Scopes, BackoffElapses(s) PROVE IInv'
<1>1. /\ turn[s] \in WellFormed /\ turn[s].pc # "idle" /\ turn[s] \in Turns
      /\ turn[s].burst \in Seq(Copies) /\ turn[s].burst # <<>>
  BY TurnAt, WellFormedTurn DEF BackoffElapses
<1>0. turn[s].attempt + 1 \in Nat
  BY <1>1 DEF Turns
<1>2. [turn[s] EXCEPT !.pc = "run", !.attempt = @ + 1] \in WellFormed
  BY <1>1, PCs, <1>0, MovedType DEF Turns
<1> QED
  BY <1>2, TurnStep DEF BackoffElapses

LEMMA BackoffCancelledStep == ASSUME IInv, NEW s \in Scopes, BackoffCancelled(s) PROVE IInv'
BY TurnAt, WellFormedTurn, LeavingType, SettlingType, StatusNames, TurnStep DEF BackoffCancelled

LEMMA AfterTrailingType ==
    ASSUME NEW s \in Scopes, turn[s] \in WellFormed, turn[s].pc # "idle"
    PROVE  AfterTrailing(s) \in WellFormed
<1>1. turn[s] \in Turns
  BY WellFormedTurn
<1>2. [Settling(s, Failed) EXCEPT !.trail = <<>>] \in WellFormed
  BY SettlingType, StatusNames
<1>3. [turn[s] EXCEPT !.pc = "end", !.trail = <<>>, !.todo = <<>>] \in WellFormed
  BY <1>1, PCs, Empty, MovedType DEF Turns
<1> QED
  BY <1>2, <1>3, Zenon DEF AfterTrailing

LEMMA TakeTrailingStep == ASSUME IInv, NEW s \in Scopes, TakeTrailing(s) PROVE IInv'
<1>1. /\ turn[s] \in WellFormed /\ turn[s].pc # "idle" /\ turn[s] \in Turns
      /\ turn[s].burst \in Seq(Copies) /\ turn[s].burst # <<>>
  BY TurnAt, WellFormedTurn DEF TakeTrailing
<1>2. AfterTrailing(s) \in WellFormed
  BY <1>1, AfterTrailingType
<1>3. CASE turn[s].trail = <<>> \/ (~turn[s].quota /\ Stopping)
  BY <1>2, <1>3, TurnStep, Zenon DEF TakeTrailing
<1>4. CASE ~(turn[s].trail = <<>> \/ (~turn[s].quota /\ Stopping))
  BY <1>1, PCs, Empty, <1>4, LoopType, TurnStep DEF Turns, TakeTrailing
<1> QED
  BY <1>3, <1>4

LEMMA PopStep == ASSUME IInv, NEW s \in Scopes, Pop(s) PROVE IInv'
<1>1. turn[s] \in WellFormed /\ turn[s] \in Turns
  BY TurnAt, WellFormedTurn
<1>2. ASSUME NEW b \in Seq(Copies), b # <<>>
      PROVE  [turn[s] EXCEPT !.pc = "popped", !.burst = b] \in WellFormed
  BY <1>1, PCs, <1>2 DEF Turns, WellFormed
<1>3. ch[s] \in Seq(Copies) /\ held[s] \in Seq(Copies)
  BY DEF IInv, ChanInv
<1>4. CASE /\ held[s] # <<>> /\ held' = [held EXCEPT ![s] = <<>>] /\ UNCHANGED ch
           /\ Becomes(s, [turn[s] EXCEPT !.pc = "popped", !.burst = held[s]])
  BY <1>2, <1>3, <1>4, BecomesType, Empty DEF IInv, ChanInv, Pop, StoreInv, QueueInv, RestInv,
     turnOnly
<1>5. CASE /\ ch[s] # <<>> /\ ch' = [ch EXCEPT ![s] = Tail(@)] /\ UNCHANGED held
           /\ Becomes(s, [turn[s] EXCEPT !.pc = "popped", !.burst = <<Head(ch[s])>>])
  <2>1. Head(ch[s]) \in Copies /\ Tail(ch[s]) \in Seq(Copies)
    BY <1>3, <1>5, SeqFacts
  <2>2. <<Head(ch[s])>> \in Seq(Copies) /\ <<Head(ch[s])>> # <<>>
    BY <2>1
  <2>3. TurnInv'
    BY <1>2, <2>2, <1>5, BecomesType DEF IInv
  <2>4. ChanInv'
    BY <1>5, <2>1 DEF IInv, ChanInv
  <2> QED
    BY <2>3, <2>4 DEF Pop, IInv, StoreInv, QueueInv, RestInv, turnOnly
<1> QED
  BY <1>4, <1>5 DEF Pop

LEMMA DrainBurstMessagesStep == ASSUME IInv, NEW s \in Scopes, DrainBurstMessages(s) PROVE IInv'
<1>1. /\ turn[s] \in WellFormed /\ turn[s].pc # "idle" /\ turn[s] \in Turns
      /\ turn[s].burst \in Seq(Copies) /\ turn[s].burst # <<>>
  BY TurnAt, WellFormedTurn DEF DrainBurstMessages
<1>2. CASE Becomes(s, Goto(s, "dclaim")) /\ UNCHANGED <<ch, held>>
  BY <1>1, <1>2, GotoType, PCs, TurnStep DEF DrainBurstMessages
<1>3. ASSUME NEW n \in 0..Len(ch[s]),
             NEW onto, onto = (IF n < BurstMax - 1 /\ n < Len(ch[s]) THEN <<ch[s][n + 1]>> ELSE <<>>),
             Becomes(s, [turn[s] EXCEPT !.pc = "drained", !.burst = @ \o SubSeq(ch[s], 1, n)]),
             held' = [held EXCEPT ![s] = onto],
             ch' = [ch EXCEPT ![s] = SubSeq(ch[s], n + Len(onto) + 1, Len(ch[s]))]
      PROVE  IInv'
  <2>1. ch[s] \in Seq(Copies)
    BY DEF IInv, ChanInv
  <2>2. SubSeq(ch[s], 1, n) \in Seq(Copies)
    BY <2>1, PrefixSuffix
  <2>3. onto \in Seq(Copies) /\ n + Len(onto) + 1 \in 1..(Len(ch[s]) + 1)
    BY <2>1, <1>3
  <2>4. ChanInv'
    BY <2>1, <2>3, PrefixSuffix, <1>3 DEF IInv, ChanInv
  <2> DEFINE b == turn[s].burst \o SubSeq(ch[s], 1, n)
             u == [turn[s] EXCEPT !.pc = "drained", !.burst = b]
  <2>5. b \in Seq(Copies) /\ b # <<>>
    BY <1>1, <2>2, EmptySeq
  <2> HIDE DEF b
  <2>6. u \in Turns
    BY <1>1, <2>5, PCs, Zenon DEF Turns
  <2>7. u.burst = b /\ u.pc = "drained"
    BY <1>1 DEF Turns
  <2>8. u \in WellFormed
    BY <2>5, <2>6, <2>7 DEF WellFormed
  <2>9. TurnInv'
    BY <1>3, <2>8, BecomesType DEF IInv, b
  <2> QED
    BY <2>4, <2>9 DEF DrainBurstMessages, IInv, StoreInv, QueueInv, RestInv, turnOnly
<1> QED
  BY <1>2, <1>3 DEF DrainBurstMessages

LEMMA AfterClaimType ==
    ASSUME NEW s \in Scopes, turn[s] \in WellFormed, turn[s].pc # "idle",
           NEW claimed \in Seq(Copies)
    PROVE  AfterClaim(s, claimed) \in WellFormed
<1>1. turn[s] \in Turns /\ Leaving(s) \in WellFormed
  BY WellFormedTurn, LeavingType
<1>2. CASE claimed # <<>>
  <2> DEFINE u == [turn[s] EXCEPT !.pc = "policy", !.burst = claimed, !.got = <<>>, !.todo = <<>>]
  <2>1. u \in Turns
    BY <1>1, PCs, Empty, Zenon DEF Turns
  <2>2. u.burst = claimed /\ u.pc = "policy"
    BY <1>1 DEF Turns
  <2>3. u \in WellFormed
    BY <1>2, <2>1, <2>2 DEF WellFormed
  <2> QED
    BY <1>2, <2>3 DEF AfterClaim
<1> QED
  BY <1>1, <1>2 DEF AfterClaim

LEMMA ClaimMessageStep == ASSUME IInv, NEW s \in Scopes, ClaimMessage(s) PROVE IInv'
<1>1. /\ turn[s] \in WellFormed /\ turn[s].pc # "idle" /\ turn[s] \in Turns
      /\ turn[s].burst \in Seq(Copies) /\ turn[s].burst # <<>>
  BY TurnAt, WellFormedTurn DEF ClaimMessage
<1>2. /\ turn[s].todo \in Seq(Copies) /\ turn[s].todo # <<>> /\ turn[s].got \in Seq(Copies)
  BY <1>1, WellFormedTurn DEF ClaimMessage
<1>3. Head(turn[s].todo) \in Copies /\ Head(turn[s].todo).id \in Items /\ Tail(turn[s].todo) \in Seq(Copies)
  BY <1>2, SeqFacts, HeadId
<1> DEFINE c == Head(turn[s].todo)
           skip == Popped(s, AfterClaim(s, turn[s].got))
           more == [turn[s] EXCEPT !.todo = Tail(@), !.got = Append(@, c)]
           last == AfterClaim(s, Append(turn[s].got, c))
<1>4. Append(turn[s].got, c) \in Seq(Copies)
  BY <1>2, <1>3
<1>5. skip \in WellFormed /\ last \in WellFormed
  BY <1>1, <1>2, <1>4, AfterClaimType, PoppedType
<1>6. ASSUME Len(turn[s].todo) > 1 PROVE more \in WellFormed
  BY <1>2, <1>6, SeqFacts, <1>1, <1>3, <1>4, LoopType DEF Turns, ClaimMessage
<1>7. StoreInv /\ row \in [Items -> Row]
  BY DEF IInv, StoreInv
<1>8. CASE Becomes(s, skip) /\ UNCHANGED storeVars
  BY <1>7, <1>8, <1>5, StoreStep DEF StoreInv, storeVars, ClaimMessage
<1>9. CASE /\ row' = ClaimPendingMessage(row, c.id) /\ UNCHANGED <<hit, spent>>
           /\ Becomes(s, IF Len(turn[s].todo) > 1 THEN more ELSE last)
  BY <1>7, <1>9, RowOps, StatusNames, <1>5, <1>6, StoreStep DEF StoreInv, ClaimMessage
<1>10. CASE /\ spent' = [spent EXCEPT !.faults = @ + 1] /\ hit' = hit \cup {c.id}
            /\ Becomes(s, skip) /\ UNCHANGED row
  <2>1. StoreInv'
    BY <1>3, <1>7, <1>10, FaultType
  <2> QED
    BY <1>5, <1>10, <2>1, StoreStep DEF ClaimMessage
<1> QED
  BY <1>8, <1>9, <1>10 DEF ClaimMessage

LEMMA ClaimDispatchStep == ASSUME IInv, NEW s \in Scopes, ClaimDispatch(s) PROVE IInv'
<1>1. /\ turn[s] \in WellFormed /\ turn[s].pc # "idle" /\ turn[s] \in Turns
      /\ turn[s].burst \in Seq(Copies) /\ turn[s].burst # <<>>
  BY TurnAt, WellFormedTurn DEF ClaimDispatch
<1>2. turn[s].burst[1].id \in Items
  BY <1>1, HeadId
<1>3. Goto(s, "lease") \in WellFormed
  BY <1>1, GotoType, PCs
<1>4. StoreInv /\ row \in [Items -> Row]
  BY DEF IInv, StoreInv
<1>5. CASE Becomes(s, IdleTurn) /\ UNCHANGED storeVars
  BY <1>4, <1>5, IdleType, StoreStep DEF StoreInv, storeVars, ClaimDispatch
<1>6. CASE /\ row' = ClaimPendingMessage(row, turn[s].burst[1].id) /\ UNCHANGED <<hit, spent>>
           /\ Becomes(s, Goto(s, "lease"))
  BY <1>4, <1>6, RowOps, StatusNames, <1>3, StoreStep DEF StoreInv, ClaimDispatch
<1>7. CASE /\ spent' = [spent EXCEPT !.faults = @ + 1] /\ hit' = hit \cup {turn[s].burst[1].id}
           /\ Becomes(s, IdleTurn) /\ UNCHANGED row
  <2>1. StoreInv'
    BY <1>2, <1>4, <1>7, FaultType
  <2> QED
    BY <1>7, <2>1, IdleType, StoreStep DEF ClaimDispatch
<1> QED
  BY <1>5, <1>6, <1>7 DEF ClaimDispatch

LEMMA CompleteLeadingAmbientStep == ASSUME IInv, NEW s \in Scopes, CompleteLeadingAmbient(s) PROVE IInv'
<1>1. /\ turn[s] \in WellFormed /\ turn[s].pc # "idle" /\ turn[s] \in Turns
      /\ turn[s].burst \in Seq(Copies) /\ turn[s].burst # <<>>
  BY TurnAt, WellFormedTurn DEF CompleteLeadingAmbient
<1>2. /\ turn[s].todo \in Seq(Copies) /\ turn[s].todo # <<>> /\ turn[s].pc = "lead"
      /\ turn[s].got # <<>>
  BY <1>1, WellFormedTurn DEF CompleteLeadingAmbient
<1>3. Head(turn[s].todo).id \in Items /\ Tail(turn[s].todo) \in Seq(Copies)
  BY <1>2, SeqFacts, HeadId
<1> DEFINE u == [turn[s] EXCEPT !.todo = Tail(@)]
<1>4. u \in Turns
  BY <1>1, <1>3, Zenon DEF Turns
<1>5. u.burst = turn[s].burst /\ u.pc = "lead" /\ u.got = turn[s].got
  BY <1>1, <1>2 DEF Turns
<1>6. u \in WellFormed
  BY <1>1, <1>2, <1>4, <1>5 DEF WellFormed
<1>7. StoreInv'
  BY <1>3, SetStatusType, StatusNames DEF CompleteLeadingAmbient, IInv
<1> QED
  BY <1>6, <1>7, StoreStep DEF CompleteLeadingAmbient

LEMMA NarrowBurstStep == ASSUME IInv, NEW s \in Scopes, NarrowBurst(s) PROVE IInv'
<1>1. /\ turn[s] \in WellFormed /\ turn[s].pc # "idle" /\ turn[s] \in Turns
      /\ turn[s].burst \in Seq(Copies) /\ turn[s].burst # <<>>
  BY TurnAt, WellFormedTurn DEF NarrowBurst
<1>2. turn[s].got \in Seq(Copies) /\ turn[s].got # <<>>
  BY <1>1, WellFormedTurn DEF NarrowBurst
<1>3. Head(turn[s].got) \in Copies /\ Tail(turn[s].got) \in Seq(Copies)
  BY <1>2, SeqFacts
<1> DEFINE b == <<Head(turn[s].got)>>
           r == IF turn[s].intr THEN <<>> ELSE Tail(turn[s].got)
           u == [turn[s] EXCEPT !.pc = "lease", !.burst = b, !.got = <<>>, !.trail = r]
<1>4. b \in Seq(Copies) /\ b # <<>>
  BY <1>3
<1>5. r \in Seq(Copies)
  BY <1>3, Empty, Zenon
<1> HIDE DEF b, r
<1>6. u \in Turns
  BY <1>1, <1>4, <1>5, Empty, PCs, Zenon DEF Turns
<1>7. u.burst = b /\ u.pc = "lease"
  BY <1>1 DEF Turns
<1>8. u \in WellFormed
  BY <1>4, <1>6, <1>7 DEF WellFormed
<1>9. TurnInv'
  BY <1>8, BecomesType DEF NarrowBurst, IInv, b, r
<1>10. shed' \in SUBSET Items
  BY <1>3, IdsType DEF IInv, RestInv, NarrowBurst
<1> QED
  BY <1>9, <1>10 DEF NarrowBurst, IInv, StoreInv, ChanInv, QueueInv, RestInv, queueVars

LEMMA EnqueuedType ==
    ASSUME IInv, NEW c \in Copies
    PROVE  Enqueued(c) \in [Scopes -> Seq(Copies)]
BY CopyFields, ScopeAssumption DEF IInv, ChanInv, Enqueued

LEMMA RescheduleMessageStep == ASSUME IInv, NEW s \in Scopes, RescheduleMessage(s) PROVE IInv'
<1>1. /\ turn[s] \in WellFormed /\ turn[s].pc # "idle" /\ turn[s] \in Turns
      /\ turn[s].burst \in Seq(Copies) /\ turn[s].burst # <<>>
  BY TurnAt, WellFormedTurn DEF RescheduleMessage
<1>2. turn[s].todo \in Seq(Copies) /\ turn[s].todo # <<>>
  BY <1>1, WellFormedTurn DEF RescheduleMessage
<1>3. /\ Head(turn[s].todo) \in Copies /\ Head(turn[s].todo).id \in Items
      /\ Head(turn[s].todo).retry \in Nat
  BY <1>2, SeqFacts, HeadId
<1>4. TurnInv'
  BY <1>1, <1>2, LeavingType, PoppedType, BecomesType DEF RescheduleMessage, IInv
<1> DEFINE c == Head(turn[s].todo)
<1>5. CASE SetStatus(c.id, Failed) /\ UNCHANGED timers
  BY <1>3, <1>5, SetStatusType, StatusNames, <1>4 DEF IInv, RescheduleMessage, ChanInv, QueueInv,
     RestInv
<1>6. CASE /\ timers' = Append(timers, Copy(c.id, c.retry + 1))
           /\ \/ /\ row' = UpdateMessageStatus(IncrementMessageRetry(row, {c.id}), c.id, Pending)
                 /\ UNCHANGED <<hit, spent>>
              \/ /\ spent' = [spent EXCEPT !.faults = @ + 1] /\ hit' = hit \cup {c.id}
                 /\ row' = IncrementMessageRetry(row, {c.id})
  <2>1. row \in [Items -> Row] /\ StoreInv
    BY DEF IInv, StoreInv
  <2>2. IncrementMessageRetry(row, {c.id}) \in [Items -> Row]
    BY <2>1, RowOps, StatusNames
  <2>3. UpdateMessageStatus(IncrementMessageRetry(row, {c.id}), c.id, Pending) \in [Items -> Row]
    BY <2>2, StatusNames DEF UpdateMessageStatus, Row
  <2>4. StoreInv'
    BY <1>3, <1>6, <2>1, <2>2, <2>3, FaultType, ZenonT(60) DEF StoreInv
  <2>5. timers' \in Seq(Copies)
    <3>1. Copy(c.id, c.retry + 1) \in Copies /\ timers \in Seq(Copies)
      BY <1>3, CopyType DEF IInv, QueueInv
    <3> QED
      BY <1>6, <3>1
  <2> QED
    BY <1>4, <2>4, <2>5 DEF RescheduleMessage, IInv, ChanInv, QueueInv, RestInv
<1> QED
  BY <1>5, <1>6 DEF RescheduleMessage

LEMMA DeliverSuccessStep == ASSUME IInv, NEW s \in Scopes, DeliverSuccess(s) PROVE IInv'
<1>1. /\ turn[s] \in WellFormed /\ turn[s].pc # "idle" /\ turn[s] \in Turns
      /\ turn[s].burst \in Seq(Copies) /\ turn[s].burst # <<>>
  BY TurnAt, WellFormedTurn DEF DeliverSuccess
<1>2. TurnInv'
  BY <1>1, SettlingType, StatusNames, BecomesType DEF DeliverSuccess, IInv
<1>3. delivered' \in [Items -> Nat]
  BY DEF DeliverSuccess, IInv, RestInv
<1> QED
  BY <1>2, <1>3 DEF DeliverSuccess, IInv, StoreInv, ChanInv, QueueInv, RestInv, queueVars

LEMMA QuotaPauseStep == ASSUME IInv, NEW s \in Scopes, QuotaPause(s) PROVE IInv'
BY TurnAt, WellFormedTurn, SettlingType, StatusNames, BecomesType DEF QuotaPause, IInv, StoreInv,
   ChanInv, QueueInv, RestInv, queueVars

LEMMA CapacityBlipStep == ASSUME IInv, NEW s \in Scopes, CapacityBlip(s) PROVE IInv'
BY TurnAt, WellFormedTurn, GotoType, SettlingType, LeavingType, PCs, StatusNames, CountRetryType,
   StoreStep DEF CapacityBlip, IInv, StoreInv, storeVars

LEMMA WatchdogFailureStep == ASSUME IInv, NEW s \in Scopes, WatchdogFailure(s) PROVE IInv'
BY TurnAt, WellFormedTurn, GotoType, SettlingType, LeavingType, PCs, StatusNames, CountRetryType,
   StoreStep DEF WatchdogFailure, IInv, StoreInv, storeVars

LEMMA TransientFailureStep == ASSUME IInv, NEW s \in Scopes, TransientFailure(s) PROVE IInv'
<1>1. /\ turn[s] \in WellFormed /\ turn[s].pc # "idle" /\ turn[s] \in Turns
      /\ turn[s].burst \in Seq(Copies) /\ turn[s].burst # <<>>
  BY TurnAt, WellFormedTurn DEF TransientFailure
<1>2. /\ Goto(s, "backoff") \in WellFormed /\ Settling(s, Failed) \in WellFormed
      /\ Leaving(s) \in WellFormed
  BY <1>1, GotoType, SettlingType, LeavingType, PCs, StatusNames
<1>0. turn[s].attempt + 1 \in Nat
  BY <1>1 DEF Turns
<1>5. [turn[s] EXCEPT !.pc = "run", !.attempt = @ + 1] \in WellFormed
  BY <1>1, PCs, <1>0, MovedType DEF Turns
<1>3. StoreInv'
  BY CountRetryType DEF TransientFailure, IInv, StoreInv, storeVars
<1>4. PICK u \in WellFormed : Becomes(s, u)
  BY <1>2, <1>5, Zenon DEF TransientFailure
<1> QED
  BY <1>3, <1>4, StoreStep DEF TransientFailure

LEMMA NonTransientFailureStep == ASSUME IInv, NEW s \in Scopes, NonTransientFailure(s) PROVE IInv'
BY TurnAt, WellFormedTurn, GotoType, SettlingType, LeavingType, PCs, StatusNames, CountRetryType,
   StoreStep DEF NonTransientFailure, IInv, StoreInv, storeVars

LEMMA FinalizeMessageStep == ASSUME IInv, NEW s \in Scopes, FinalizeMessage(s) PROVE IInv'
<1>1. /\ turn[s] \in WellFormed /\ turn[s].pc # "idle" /\ turn[s] \in Turns
      /\ turn[s].burst \in Seq(Copies) /\ turn[s].burst # <<>>
  BY TurnAt, WellFormedTurn DEF FinalizeMessage
<1>2. turn[s].todo \in Seq(Copies) /\ turn[s].todo # <<>>
  BY <1>1, WellFormedTurn DEF FinalizeMessage
<1>3. /\ Head(turn[s].todo) \in Copies /\ Head(turn[s].todo).id \in Items
      /\ Head(turn[s].todo).retry \in Nat
  BY <1>2, SeqFacts, HeadId
<1>4. [turn[s] EXCEPT !.pc = "end", !.todo = <<>>] \in WellFormed
  BY <1>1, PCs, Empty, MovedType DEF Turns
<1>5. (IF turn[s].panicked THEN [turn[s] EXCEPT !.pc = "end", !.todo = <<>>] ELSE Leaving(s))
        \in WellFormed
  BY <1>1, <1>4, LeavingType, Zenon
<1>6. turn[s].target \in Statuses
  BY <1>1, WellFormedTurn, StatusNames
<1>7. StoreInv'
  BY <1>3, <1>6, SetStatusType DEF FinalizeMessage, IInv
<1>8. PICK u \in WellFormed : Becomes(s, u)
  BY <1>1, <1>2, <1>5, PoppedType DEF FinalizeMessage
<1> QED
  BY <1>7, <1>8, StoreStep DEF FinalizeMessage

LEMMA HandleTrailingStep == ASSUME IInv, NEW s \in Scopes, HandleTrailing(s) PROVE IInv'
<1>1. /\ turn[s] \in WellFormed /\ turn[s].pc # "idle" /\ turn[s] \in Turns
      /\ turn[s].burst \in Seq(Copies) /\ turn[s].burst # <<>>
  BY TurnAt, WellFormedTurn DEF HandleTrailing
<1>2. turn[s].todo \in Seq(Copies) /\ turn[s].todo # <<>>
  BY <1>1, WellFormedTurn DEF HandleTrailing
<1>3. /\ Head(turn[s].todo) \in Copies /\ Head(turn[s].todo).id \in Items
      /\ Head(turn[s].todo).retry \in Nat
  BY <1>2, SeqFacts, HeadId
<1>4. TurnInv'
  BY <1>1, <1>2, AfterTrailingType, PoppedType, BecomesType DEF HandleTrailing, IInv
<1> DEFINE c == Head(turn[s].todo)
<1>5. SetStatus(c.id, Failed) \/ SetStatus(c.id, Completed) \/ SetStatus(c.id, Pending)
  BY Zenon DEF HandleTrailing
<1>6. StoreInv'
  BY <1>3, <1>5, SetStatusType, StatusNames DEF IInv
<1>7. [c EXCEPT !.wake = FALSE] \in Copies
  BY <1>3, Zenon DEF Copies
<1>8. ch' = ch \/ ch' = Enqueued([c EXCEPT !.wake = FALSE])
  BY Zenon DEF HandleTrailing
<1>9. ChanInv'
  BY <1>7, <1>8, EnqueuedType DEF HandleTrailing, IInv, ChanInv
<1> QED
  BY <1>4, <1>6, <1>9 DEF HandleTrailing, IInv, QueueInv, RestInv, queueVars

LEMMA IrqFields ==
    ASSUME NEW q \in Irqs
    PROVE  /\ q.thread \in Threads /\ q.drain \in BOOLEAN /\ q.ids \in SUBSET Items
           /\ q.turns \in SUBSET Scopes /\ q.chans \in SUBSET Scopes /\ q.back \in Seq(Copies)
  BY DEF Irqs

LEMMA EndTurnStep == ASSUME IInv, NEW s \in Scopes, EndTurn(s) PROVE IInv'
BY TurnAt, WellFormedTurn, IdleType, BecomesType, IrqFields DEF EndTurn, IInv, QueueInv, Irqs,
   StoreInv, ChanInv, RestInv

--------------------
(* Intake, the process and its recovery *)

LEMMA SubmitStep == ASSUME IInv, NEW i \in Items, Submit(i) PROVE IInv'
<1>1. row' \in [Items -> Row]
  BY RowOps, StatusNames DEF Submit, IInv, StoreInv
<1>2. spent' \in Spents
  BY DEF Submit, IInv, StoreInv, Spents
<1>3. arrived' \in Seq(Items)
  BY DEF Submit, IInv, QueueInv
<1> QED
  BY <1>1, <1>2, <1>3 DEF Submit, IInv, StoreInv, TurnInv, ChanInv, QueueInv, RestInv

LEMMA HandlerEnqueueStep == ASSUME IInv, NEW i \in Items, HandlerEnqueue(i) PROVE IInv'
BY CopyType, EnqueuedType DEF HandlerEnqueue, IInv, StoreInv, TurnInv, ChanInv, QueueInv, RestInv

LEMMA TimerFiresStep == ASSUME IInv, NEW k \in DOMAIN timers, TimerFires(k) PROVE IInv'
BY PrefixSuffix, EnqueuedType DEF IInv, QueueInv, TimerFires, StoreInv, TurnInv, ChanInv, RestInv

LEMMA NoRecType == NoRec \in Recs /\ NoRec.seen \in [Items -> Row]
BY DEF NoRow, Row, Statuses, NoRec, Recs

LEMMA NoIrqType == \A t \in Threads : NoIrq(t) \in Irqs
  BY Empty DEF NoIrq, Irqs

LEMMA SomeThreadType == SomeThread \in Threads
  BY ScopeAssumption DEF SomeThread

LEMMA LoseMemoryType ==
    ASSUME LoseMemory, arrived \in Seq(Items), UNCHANGED arrived, phase' = "down"
    PROVE  TurnInv' /\ ChanInv' /\ QueueInv' /\ quotaLocked' \in BOOLEAN
BY IdleType, Empty, NoRecType, NoIrqType, SomeThreadType DEF LoseMemory, TurnInv, ChanInv, QueueInv

LEMMA LifeStep == ASSUME IInv, Start \/ Stop \/ Exit \/ Crash \/ QuotaExpires PROVE IInv'
<1>1. CASE Start
  BY <1>1 DEF Start, IInv, StoreInv, TurnInv, ChanInv, QueueInv, RestInv
<1>2. CASE Stop
  <2>1. spent' \in Spents
    BY <1>2 DEF Stop, IInv, StoreInv, Spents
  <2> QED
    BY <1>2, <2>1 DEF Stop, IInv, StoreInv, TurnInv, ChanInv, QueueInv, RestInv
<1>3. CASE Exit
  BY <1>3, LoseMemoryType DEF Exit, IInv, QueueInv, StoreInv, RestInv
<1>4. CASE Crash
  <2>1. TurnInv' /\ ChanInv' /\ QueueInv' /\ quotaLocked' \in BOOLEAN
    BY <1>4, LoseMemoryType DEF Crash, IInv, QueueInv
  <2>2. spent' \in Spents
    BY <1>4 DEF Crash, IInv, StoreInv, Spents
  <2> QED
    BY <1>4, <2>1, <2>2 DEF Crash, IInv, StoreInv, RestInv
<1>5. CASE QuotaExpires
  BY <1>5 DEF QuotaExpires, IInv, StoreInv, TurnInv, ChanInv, QueueInv, RestInv
<1> QED
  BY <1>1, <1>2, <1>3, <1>4, <1>5

LEMMA RecFields ==
    ASSUME NEW r \in Recs
    PROVE  /\ r.todo \in SUBSET Items /\ r.ready \in SUBSET Copies
           /\ r.seen \in [Items -> Row]
  BY DEF Recs

LEMMA RecoverQueryStep ==
    ASSUME IInv, NEW kind \in SUBSET Items, NEW from, NEW to \in {"msgs", "disps"},
           RecoverQuery(kind, from, to)
    PROVE  IInv'
<1>1. rec \in Recs /\ row \in [Items -> Row] /\ LiveRows \cap kind \in SUBSET Items /\ StoreInv
  BY DEF IInv, QueueInv, StoreInv
<1>2. rec' \in Recs
  BY <1>1 DEF Recs, RecoverQuery
<1>3. StoreInv'
  BY <1>1, FaultType DEF RecoverQuery, StoreInv
<1> QED
  BY <1>2, <1>3 DEF RecoverQuery, IInv, StoreInv, TurnInv, ChanInv, QueueInv, RestInv

LEMMA RecoverRowStep == ASSUME IInv, RecoverRow PROVE IInv'
<1>1. PICK i \in rec.todo :
        LET r == rec.seen[i]
            drop == [rec EXCEPT !.todo = @ \ {i}, !.seen[i] = NoRow]
            keep == [drop EXCEPT !.ready = @ \cup {Copy(i, r.retry)}]
        IN \/ rec' = keep /\ UNCHANGED storeVars
           \/ rec' = drop /\ SetStatus(i, Failed)
           \/ /\ rec' = keep
              /\ \/ row' = ResetMessageToPendingWithRestart(row, i) /\ UNCHANGED <<hit, spent>>
                 \/ /\ spent' = [spent EXCEPT !.faults = @ + 1]
                    /\ hit' = hit \cup {i} /\ UNCHANGED row
  BY Zenon DEF RecoverRow
<1>2. rec \in Recs /\ StoreInv /\ row \in [Items -> Row]
  BY DEF IInv, QueueInv, StoreInv
<1>3. /\ i \in Items /\ rec.todo \in SUBSET Items /\ rec.ready \in SUBSET Copies
      /\ rec.seen \in [Items -> Row] /\ rec.seen[i].retry \in Nat
  BY <1>2, RecFields DEF Row
<1> DEFINE seen == [rec.seen EXCEPT ![i] = NoRow]
           drop == [rec EXCEPT !.todo = @ \ {i}, !.seen[i] = NoRow]
           keep == [drop EXCEPT !.ready = @ \cup {Copy(i, rec.seen[i].retry)}]
<1>4. seen \in [Items -> Row]
  BY <1>3 DEF NoRow, Row, Statuses
<1>5. rec.todo \ {i} \in SUBSET Items /\ Copy(i, rec.seen[i].retry) \in Copies
  BY <1>3, CopyType
<1>6. drop \in Recs
  BY <1>2, <1>4, <1>5, Zenon DEF Recs
<1>7. keep \in Recs
  BY <1>5, <1>6, RecFields DEF Recs
<1>8. rec' \in Recs
  BY <1>1, <1>6, <1>7
<1>9. StoreInv'
  <2>1. CASE UNCHANGED storeVars
    BY <1>2, <2>1 DEF StoreInv, storeVars
  <2>2. CASE SetStatus(i, Failed)
    BY <1>2, <1>3, <2>2, SetStatusType, StatusNames
  <2>3. CASE row' = ResetMessageToPendingWithRestart(row, i) /\ UNCHANGED <<hit, spent>>
    BY <1>2, <2>3, RowOps, StatusNames DEF StoreInv
  <2>4. CASE spent' = [spent EXCEPT !.faults = @ + 1] /\ hit' = hit \cup {i} /\ UNCHANGED row
    <3>1. {i} \in SUBSET Items /\ row' \in [Items -> Row]
      BY <1>2, <1>3, <2>4
    <3> QED
      BY <1>2, <2>4, <3>1, FaultType
  <2> QED
    BY <1>1, <2>1, <2>2, <2>3, <2>4
<1> QED
  BY <1>8, <1>9 DEF RecoverRow, IInv, StoreInv, TurnInv, ChanInv, QueueInv, RestInv

LEMMA ReleaseLeaderHoldStep == ASSUME IInv, ReleaseLeaderHold PROVE IInv'
BY NoRecType DEF IInv, QueueInv, ReleaseLeaderHold, Recs, StoreInv, TurnInv, ChanInv, RestInv

LEMMA MergeStep ==
    ASSUME IInv, NEW kind \in SUBSET Items, NEW from, NEW to \in {"mergeDisps", "enqueue"},
           MergeHeldPendingEntries(kind, from, to)
    PROVE  IInv'
<1> DEFINE extra == {i \in kind : row[i].st = Pending} \ {c.id : c \in rec.ready}
           more == {Copy(i, row[i].retry) : i \in extra}
<1>1. rec \in Recs /\ StoreInv /\ row \in [Items -> Row] /\ extra \in SUBSET Items
  BY DEF IInv, QueueInv, StoreInv
<1>2. \A i \in extra : Copy(i, row[i].retry) \in Copies
  BY <1>1, CopyType DEF Row
<1>3. rec.ready \cup more \in SUBSET Copies
  BY <1>1, <1>2, RecFields
<1> HIDE DEF extra, more
<1>4. [rec EXCEPT !.pc = to, !.ready = @ \cup more] \in Recs
  BY <1>1, <1>3, Zenon DEF Recs
<1>5. [rec EXCEPT !.pc = to] \in Recs
  BY <1>1, Zenon DEF Recs
<1>6. rec' \in Recs
  BY <1>4, <1>5 DEF MergeHeldPendingEntries, extra, more
<1>7. StoreInv'
  BY <1>1, FaultType DEF StoreInv, MergeHeldPendingEntries, extra
<1> QED
  BY <1>6, <1>7 DEF MergeHeldPendingEntries, IInv, StoreInv, TurnInv, ChanInv, QueueInv, RestInv

LEMMA RecoverEnqueueStep == ASSUME IInv, RecoverEnqueue PROVE IInv'
<1>1. rec \in Recs
  BY DEF IInv, QueueInv
<1>2. CASE rec' = NoRec /\ UNCHANGED ch
  BY <1>2, NoRecType DEF RecoverEnqueue, IInv, StoreInv, TurnInv, ChanInv, QueueInv, RestInv
<1>3. ASSUME NEW c \in rec.ready, rec' = [rec EXCEPT !.ready = @ \ {c}], ch' = Enqueued(c)
      PROVE  IInv'
  BY <1>1, <1>3, RecFields, EnqueuedType DEF Recs, RecoverEnqueue, IInv, StoreInv, TurnInv,
     ChanInv, QueueInv, RestInv
<1> QED
  BY <1>2, <1>3 DEF RecoverEnqueue

--------------------
(* Operator commands *)

\* intr, cancelled and trail do not matter to a turn's form.
LEMMA FlagsType ==
    ASSUME NEW t \in WellFormed
    PROVE  /\ [t EXCEPT !.intr = TRUE] \in WellFormed
           /\ [t EXCEPT !.cancelled = TRUE] \in WellFormed
           /\ [t EXCEPT !.intr = TRUE, !.cancelled = TRUE] \in WellFormed
           /\ [t EXCEPT !.trail = <<>>] \in WellFormed
BY WellFormedTurn, Empty DEF WellFormed, Turns

LEMMA ActiveTurnsType == \A t : ActiveTurns(t) \in SUBSET Scopes
  BY DEF ActiveTurns

LEMMA InterruptThreadStep ==
    ASSUME IInv, NEW t \in Threads, NEW drain \in BOOLEAN, InterruptThread(t, drain)
    PROVE  IInv'
<1>1. TurnInv'
  BY FlagsType DEF InterruptThread, Latched, IInv, TurnInv
<1>2. irq' \in Irqs
  <2>1. NoIrq(t) \in Irqs /\ ActiveTurns(t) \in SUBSET Scopes
    BY NoIrqType, ActiveTurnsType
  <2> QED
    BY <2>1, Zenon DEF InterruptThread, Irqs
<1>3. spent' \in Spents
  BY DEF InterruptThread, IInv, StoreInv, Spents
<1> QED
  BY <1>1, <1>2, <1>3 DEF InterruptThread, IInv, StoreInv, ChanInv, QueueInv, RestInv, memoryVars

LEMMA LatchActiveTurnsStep == ASSUME IInv, LatchActiveTurns PROVE IInv'
<1> DEFINE T == {s \in irq.turns : ~IsDispatch(s)}
           burst == UNION {Ids(turn[s].burst) : s \in T}
           trail == UNION {Ids(turn[s].trail) : s \in T}
           pc == IF irq.drain THEN "chans" ELSE "fail"
           ids == IF irq.drain THEN burst \cup trail ELSE burst
           chans == IF irq.drain THEN {s \in Scopes : ThreadOf[s] = irq.thread} ELSE {}
<1>1. irq \in Irqs /\ T \in SUBSET Scopes
  BY IrqFields DEF IInv, QueueInv
<1>2. \A s \in T : Ids(turn[s].burst) \in SUBSET Items /\ Ids(turn[s].trail) \in SUBSET Items
  BY <1>1, TurnAt, WellFormedTurn, IdsType
<1>3. burst \in SUBSET Items /\ trail \in SUBSET Items
  BY <1>2
<1>4. ids \in SUBSET Items /\ chans \in SUBSET Scopes /\ pc \in {"chans", "fail"}
  BY <1>3, Zenon
<1>5. irq' = [irq EXCEPT !.pc = pc, !.ids = ids, !.chans = chans]
  BY DEF LatchActiveTurns
<1> HIDE DEF pc, ids, chans
<1>6. irq' \in Irqs
  BY <1>1, <1>4, <1>5, Zenon DEF Irqs
<1>7. TurnInv'
  BY <1>1, FlagsType, Zenon DEF LatchActiveTurns, IInv, TurnInv
<1> QED
  BY <1>6, <1>7 DEF LatchActiveTurns, IInv, StoreInv, ChanInv, QueueInv, RestInv, memoryVars, storeVars

LEMMA DrainChannelMessagesStep ==
    ASSUME IInv, NEW s \in Scopes, DrainChannelMessages(s)
    PROVE  IInv'
<1>1. irq \in Irqs /\ ch[s] \in Seq(Copies)
  BY DEF IInv, QueueInv, ChanInv
<1>2. /\ irq.ids \in SUBSET Items /\ irq.chans \in SUBSET Scopes /\ irq.back \in Seq(Copies)
  BY <1>1, IrqFields
<1>3. CASE /\ ch[s] # <<>> /\ ch' = [ch EXCEPT ![s] = Tail(@)]
           /\ irq' = IF Head(ch[s]).id \in Msgs
                     THEN [irq EXCEPT !.ids = @ \cup {Head(ch[s]).id}]
                     ELSE [irq EXCEPT !.back = Append(@, Head(ch[s]))]
  <2>1. /\ Head(ch[s]) \in Copies /\ Tail(ch[s]) \in Seq(Copies) /\ Head(ch[s]).id \in Items
    BY <1>1, <1>3, SeqFacts, HeadId
  <2>2. irq.ids \cup {Head(ch[s]).id} \in SUBSET Items /\ Append(irq.back, Head(ch[s])) \in Seq(Copies)
    BY <1>2, <2>1
  <2>3. /\ [irq EXCEPT !.ids = @ \cup {Head(ch[s]).id}] \in Irqs
        /\ [irq EXCEPT !.back = Append(@, Head(ch[s]))] \in Irqs
    BY <1>1, <2>2, Zenon DEF Irqs
  <2>4. irq' \in Irqs
    BY <1>3, <2>3
  <2>5. ChanInv'
    BY <1>3, <2>1 DEF DrainChannelMessages, memoryVars, IInv, ChanInv
  <2> QED
    BY <2>4, <2>5 DEF DrainChannelMessages, IInv, StoreInv, TurnInv, QueueInv, RestInv, memoryVars, storeVars
<1>4. CASE /\ ch' = [ch EXCEPT ![s] = irq.back]
           /\ irq' = [irq EXCEPT !.chans = @ \ {s}, !.back = <<>>]
  <2>1. irq.chans \ {s} \in SUBSET Scopes
    BY <1>2
  <2>2. irq' \in Irqs
    BY <1>1, <1>4, <2>1, Empty, Zenon DEF Irqs
  <2>3. ChanInv'
    BY <1>2, <1>4 DEF DrainChannelMessages, memoryVars, IInv, ChanInv
  <2> QED
    BY <2>2, <2>3 DEF DrainChannelMessages, IInv, StoreInv, TurnInv, QueueInv, RestInv, memoryVars, storeVars
<1> QED
  BY <1>3, <1>4 DEF DrainChannelMessages

LEMMA OperatorStep ==
    ASSUME IInv, \/ UnlockPool \/ InterruptFail \/ DrainThreadPendingMessages
                 \/ CancelTurns \/ CloseThreadProcesses
    PROVE  IInv'
<1>1. /\ irq \in Irqs /\ StoreInv /\ irq.ids \in SUBSET Items /\ irq.thread \in Threads
  BY IrqFields DEF IInv, QueueInv
<1>2. CASE UnlockPool
  <2>1. irq' \in Irqs
    BY <1>1, <1>2, Zenon DEF UnlockPool, Irqs
  <2> QED
    BY <1>2, <2>1 DEF UnlockPool, IInv, StoreInv, TurnInv, ChanInv, QueueInv, RestInv, memoryVars, storeVars
<1>3. CASE InterruptFail
  <2>1. PICK i \in irq.ids : SetStatus(i, Failed) /\ irq' = [irq EXCEPT !.ids = @ \ {i}]
    BY <1>3 DEF InterruptFail
  <2>2. i \in Items /\ irq.ids \ {i} \in SUBSET Items
    BY <1>1
  <2>3. StoreInv'
    BY <1>1, <2>1, <2>2, SetStatusType, StatusNames
  <2>4. irq' \in Irqs
    BY <1>1, <2>1, <2>2, Zenon DEF Irqs
  <2> QED
    BY <1>3, <2>3, <2>4 DEF InterruptFail, IInv, TurnInv, ChanInv, QueueInv, RestInv, memoryVars
<1>4. CASE DrainThreadPendingMessages
  <2> DEFINE ids == {i \in Msgs : ThreadOf[ScopeOf[i]] = irq.thread /\ row[i].st \in Live}
  <2>1. ids \in SUBSET Items
    BY DEF Items
  <2> HIDE DEF ids
  <2>2. [irq EXCEPT !.pc = "drain", !.ids = ids] \in Irqs /\ [irq EXCEPT !.pc = "drain"] \in Irqs
    BY <1>1, <2>1, Zenon DEF Irqs
  <2>3. irq' \in Irqs
    BY <1>4, <2>2 DEF DrainThreadPendingMessages, ids
  <2>4. spent' \in Spents
    BY <1>4 DEF DrainThreadPendingMessages, IInv, StoreInv, Spents
  <2> QED
    BY <1>4, <2>3, <2>4 DEF DrainThreadPendingMessages, IInv, StoreInv, TurnInv, ChanInv, QueueInv, RestInv, memoryVars
<1>5. CASE CancelTurns
  <2>1. irq' \in Irqs
    BY <1>1, <1>5, Zenon DEF CancelTurns, Irqs
  <2>2. TurnInv'
    BY <1>5, FlagsType DEF CancelTurns, IInv, TurnInv
  <2> QED
    BY <1>5, <2>1, <2>2 DEF CancelTurns, IInv, StoreInv, ChanInv, QueueInv, RestInv, memoryVars, storeVars
<1>6. CASE CloseThreadProcesses
  <2>1. irq' \in Irqs
    BY <1>1, <1>6, NoIrqType DEF CloseThreadProcesses
  <2>2. TurnInv'
    BY <1>6, FlagsType DEF CloseThreadProcesses, IInv, TurnInv
  <2> QED
    BY <1>6, <2>1, <2>2 DEF CloseThreadProcesses, IInv, StoreInv, ChanInv, QueueInv, RestInv, memoryVars, storeVars
<1> QED
  BY <1>2, <1>3, <1>4, <1>5, <1>6

LEMMA RotateStep == ASSUME IInv, NEW t \in Threads, Rotate(t) PROVE IInv'
<1>1. NoIrq(t) \in Irqs
  BY NoIrqType
<1>2. irq' \in Irqs
  BY <1>1, Zenon DEF Rotate, Irqs
<1>3. spent' \in Spents
  BY DEF Rotate, IInv, StoreInv, Spents
<1> QED
  BY <1>2, <1>3 DEF Rotate, IInv, StoreInv, TurnInv, ChanInv, QueueInv, RestInv, memoryVars

--------------------
(* Type correctness *)

LEMMA InitIInv == Init => IInv
<1> SUFFICES ASSUME Init PROVE IInv
  OBVIOUS
<1>1. StoreInv
  BY DEF NoRow, Row, Statuses, Init, StoreInv, Spents
<1>2. TurnInv
  BY IdleType DEF Init, TurnInv
<1>3. ChanInv
  BY Empty DEF Init, ChanInv
<1>4. rec \in Recs /\ irq \in Irqs
  BY NoRecType, NoIrqType, SomeThreadType DEF Init
<1>5. arrived \in Seq(Items) /\ timers \in Seq(Copies)
  BY Empty DEF Init
<1>6. QueueInv
  BY <1>4, <1>5 DEF Init, QueueInv
<1>7. RestInv
  BY DEF Init, RestInv
<1> QED
  BY <1>1, <1>2, <1>3, <1>6, <1>7 DEF IInv

LEMMA WorkerStep == ASSUME IInv, NEW s \in Scopes, Worker(s) PROVE IInv'
  BY PopStep, DrainBurstMessagesStep, BeginTurnStep, ClaimMessageStep, ClaimDispatchStep, ResolveTurnPolicyStep, AmbientTriageStep, CompleteLeadingAmbientStep, NarrowBurstStep, AcquirePoolAndLeaseStep, RunPreTurnHookStep, RescheduleMessageStep, StartAttemptStep, ExecuteLeaseAttemptStep, PanicStep, DeliverSuccessStep, AutoResumeStep, QuotaPauseStep, CapacityBlipStep, WatchdogFailureStep, TransientFailureStep, NonTransientFailureStep, BackoffElapsesStep, BackoffCancelledStep, FinalizeMessageStep, TakeTrailingStep, HandleTrailingStep, EndTurnStep DEF Worker

LEMMA RecoveryStep == ASSUME IInv, Recovery PROVE IInv'
BY RecoverQueryStep, RecoverRowStep, ReleaseLeaderHoldStep, MergeStep,
   RecoverEnqueueStep DEF Items, Recovery

LEMMA StutterStep == ASSUME IInv, UNCHANGED vars PROVE IInv'
  BY DEF vars, IInv, StoreInv, TurnInv, ChanInv, QueueInv, RestInv

LEMMA NextIInv == IInv /\ [Next]_vars => IInv'
<1> SUFFICES ASSUME IInv, [Next]_vars PROVE IInv'
  OBVIOUS
<1>1. CASE \E i \in Items : Submit(i) \/ HandlerEnqueue(i)
  BY <1>1, SubmitStep, HandlerEnqueueStep
<1>2. CASE \E k \in DOMAIN timers : TimerFires(k)
  BY <1>2, TimerFiresStep
<1>3. CASE Start \/ Stop \/ Exit \/ Crash \/ QuotaExpires
  BY <1>3, LifeStep
<1>4. CASE Recovery
  BY <1>4, RecoveryStep
<1>5. CASE \E s \in Scopes : Worker(s)
  BY <1>5, WorkerStep
<1>6. CASE \E t \in Threads : Rotate(t) \/ \E drain \in BOOLEAN : InterruptThread(t, drain)
  BY <1>6, RotateStep, InterruptThreadStep
<1>7. CASE Operator
  BY <1>7, LatchActiveTurnsStep, DrainChannelMessagesStep, OperatorStep DEF Operator
<1>8. CASE UNCHANGED vars
  BY <1>8, StutterStep
<1> QED
  BY <1>1, <1>2, <1>3, <1>4, <1>5, <1>6, <1>7, <1>8 DEF Next

\* Every variable of the queue keeps its type in every behaviour, and no loop over a
\* burst reads past its end.
THEOREM TypeCorrect == Spec => []TypeOK
<1>1. Spec => []IInv
  BY InitIInv, NextIInv, PTL DEF Spec
<1> QED
  BY <1>1, IInvType, PTL

--------------------
(* The restart budget.  Recovery decides on the rows it read at its query and writes *)
(* them later, one by one.  The budget holds because nothing else raises a restart *)
(* count: a row still to be recovered has the count that was read. *)

SeenRestarts == \A i \in rec.todo : rec.seen[i].restart = row[i].restart

BInv == RestartBudget /\ SeenRestarts

KeepsRestarts == \A i \in Items : row'[i].restart = row[i].restart

LEMMA RowOpsKeep ==
    ASSUME row \in [Items -> Row], NEW i, NEW st, NEW S
    PROVE  \A j \in Items :
             /\ UpdateMessageStatus(row, i, st)[j].restart = row[j].restart
             /\ ClaimPendingMessage(row, i)[j].restart = row[j].restart
             /\ InsertMessage(row, i)[j].restart = row[j].restart
             /\ IncrementMessageRetry(row, S)[j].restart = row[j].restart
BY DEF Row, UpdateMessageStatus, ClaimPendingMessage, InsertMessage, IncrementMessageRetry

LEMMA SetStatusKeeps ==
    ASSUME IInv, NEW i, NEW st, SetStatus(i, st)
    PROVE  KeepsRestarts
  BY RowOpsKeep DEF SetStatus, KeepsRestarts, IInv, StoreInv

LEMMA CountRetryKeeps == ASSUME IInv, NEW s, CountRetry(s) PROVE KeepsRestarts
  BY RowOpsKeep DEF CountRetry, KeepsRestarts, IInv, StoreInv

LEMMA KeepsBInv ==
    ASSUME IInv, BInv, KeepsRestarts, rec' = rec \/ rec'.todo = {}
    PROVE  BInv'
BY RecFields DEF IInv, QueueInv, BInv, KeepsRestarts, RestartBudget, SeenRestarts

LEMMA WorkerKeeps ==
    ASSUME IInv, NEW s \in Scopes, Worker(s)
    PROVE  KeepsRestarts /\ rec' = rec
<1>0. row \in [Items -> Row]
  BY DEF IInv, StoreInv
<1>1. CASE Pop(s) \/ DrainBurstMessages(s) \/ BeginTurn(s) \/ ResolveTurnPolicy(s) \/ AmbientTriage(s) \/ NarrowBurst(s) \/ AcquirePoolAndLease(s) \/ RunPreTurnHook(s) \/ StartAttempt(s)
            \/ ExecuteLeaseAttempt(s) \/ Panic(s) \/ DeliverSuccess(s) \/ AutoResume(s) \/ QuotaPause(s) \/ BackoffElapses(s) \/ BackoffCancelled(s) \/ TakeTrailing(s) \/ EndTurn(s)
  BY <1>1 DEF Pop, DrainBurstMessages, BeginTurn, ResolveTurnPolicy, AmbientTriage, NarrowBurst, AcquirePoolAndLease, RunPreTurnHook, StartAttempt, ExecuteLeaseAttempt, Panic, DeliverSuccess, AutoResume, QuotaPause, BackoffElapses, BackoffCancelled, TakeTrailing, EndTurn, turnOnly, queueVars, KeepsRestarts
<1>2. CASE ClaimMessage(s)
  BY <1>0, <1>2, RowOpsKeep DEF ClaimMessage, storeVars, queueVars, KeepsRestarts
<1>3. CASE ClaimDispatch(s)
  BY <1>0, <1>3, RowOpsKeep DEF ClaimDispatch, storeVars, queueVars, KeepsRestarts
<1>4. CASE CapacityBlip(s)
  BY <1>4, CountRetryKeeps DEF CapacityBlip, storeVars, KeepsRestarts, queueVars
<1>5. CASE WatchdogFailure(s)
  BY <1>5, CountRetryKeeps DEF WatchdogFailure, storeVars, KeepsRestarts, queueVars
<1>6. CASE TransientFailure(s)
  BY <1>6, CountRetryKeeps DEF TransientFailure, storeVars, KeepsRestarts, queueVars
<1>7. CASE NonTransientFailure(s)
  BY <1>7, CountRetryKeeps DEF NonTransientFailure, storeVars, KeepsRestarts, queueVars
<1>8. CASE CompleteLeadingAmbient(s)
  BY <1>8, SetStatusKeeps DEF CompleteLeadingAmbient, queueVars
<1>9. CASE FinalizeMessage(s)
  BY <1>9, SetStatusKeeps DEF FinalizeMessage, queueVars
<1>10. CASE HandleTrailing(s)
  BY <1>10, SetStatusKeeps DEF HandleTrailing, queueVars
<1>11. CASE RescheduleMessage(s)
  <2> DEFINE c == Head(turn[s].todo)
             inc == IncrementMessageRetry(row, {c.id})
  <2>1. /\ \A j \in Items : inc[j].restart = row[j].restart
        /\ inc \in [Items -> Row]
    BY <1>0, RowOpsKeep, RowOps, StatusNames
  <2>2. \A j \in Items : UpdateMessageStatus(inc, c.id, Pending)[j].restart = inc[j].restart
    BY <2>1 DEF UpdateMessageStatus, Row
  <2>3. SetStatus(c.id, Failed) \/ row' = inc \/ row' = UpdateMessageStatus(inc, c.id, Pending)
    BY <1>11 DEF RescheduleMessage
  <2>4. KeepsRestarts
    BY <2>1, <2>2, <2>3, SetStatusKeeps DEF KeepsRestarts
  <2> QED
    BY <1>11, <2>4 DEF RescheduleMessage
<1> QED
  BY <1>1, <1>2, <1>3, <1>4, <1>5, <1>6, <1>7, <1>8, <1>9, <1>10, <1>11 DEF Worker

LEMMA RecoverRowBudget == ASSUME IInv, BInv, RecoverRow PROVE BInv'
<1>1. PICK i \in rec.todo :
        LET r == rec.seen[i]
            drop == [rec EXCEPT !.todo = @ \ {i}, !.seen[i] = NoRow]
            keep == [drop EXCEPT !.ready = @ \cup {Copy(i, r.retry)}]
        IN \/ rec' = keep /\ UNCHANGED storeVars
           \/ rec' = drop /\ SetStatus(i, Failed)
           \/ /\ r.st = Processing /\ \E instant \in BOOLEAN : ~IsPoison(r, instant)
              /\ rec' = keep
              /\ row' = ResetMessageToPendingWithRestart(row, i) \/ UNCHANGED row
  BY Zenon DEF RecoverRow
<1>2. /\ rec \in Recs /\ row \in [Items -> Row] /\ rec.todo \in SUBSET Items
      /\ rec.seen \in [Items -> Row] /\ i \in Items
  BY RecFields DEF IInv, QueueInv, StoreInv
<1>3. rec'.todo = rec.todo \ {i} /\ \A j \in Items \ {i} : rec'.seen[j] = rec.seen[j]
  BY <1>1, <1>2, ZenonT(60) DEF Recs
<1>4. CASE KeepsRestarts
  BY <1>2, <1>3, <1>4 DEF BInv, RestartBudget, SeenRestarts, KeepsRestarts
<1>5. CASE /\ rec.seen[i].st = Processing /\ \E instant \in BOOLEAN : ~IsPoison(rec.seen[i], instant)
           /\ row' = ResetMessageToPendingWithRestart(row, i)
  <2>1. rec.seen[i].restart < MaxHardRestarts
    BY <1>2, <1>5, LimitAssumption DEF Row, IsPoison
  <2>2. row[i].restart = rec.seen[i].restart
    BY DEF BInv, SeenRestarts
  <2>3. /\ row'[i].restart \in {row[i].restart, row[i].restart + 1}
        /\ \A j \in Items \ {i} : row'[j] = row[j]
    BY <1>2, <1>5 DEF ResetMessageToPendingWithRestart, Row
  <2>4. row[i].restart \in Nat
    BY <1>2 DEF Row
  <2>5. row'[i].restart <= MaxHardRestarts
    BY <2>1, <2>2, <2>3, <2>4, LimitAssumption
  <2>6. RestartBudget'
    BY <1>2, <2>3, <2>5 DEF BInv, RestartBudget
  <2>7. SeenRestarts'
    BY <1>2, <1>3, <2>3 DEF BInv, SeenRestarts
  <2> QED
    BY <2>6, <2>7 DEF BInv
<1>6. ASSUME UNCHANGED row PROVE KeepsRestarts
  BY <1>6 DEF KeepsRestarts
<1> QED
  BY <1>1, <1>4, <1>5, <1>6, SetStatusKeeps DEF storeVars

LEMMA NextBInv == IInv /\ BInv /\ [Next]_vars => BInv'
<1> SUFFICES ASSUME IInv, BInv, [Next]_vars PROVE BInv'
  OBVIOUS
<1>0. rec \in Recs /\ row \in [Items -> Row]
  BY DEF IInv, QueueInv, StoreInv
<1>a. ASSUME UNCHANGED row PROVE KeepsRestarts
  BY <1>a DEF KeepsRestarts
<1>1. ASSUME NEW i \in Items, Submit(i) \/ HandlerEnqueue(i) PROVE BInv'
  BY <1>0, <1>1, RowOpsKeep, KeepsBInv DEF Submit, HandlerEnqueue, KeepsRestarts
<1>2. ASSUME NEW k \in DOMAIN timers, TimerFires(k) PROVE BInv'
  BY <1>2, <1>a, KeepsBInv DEF TimerFires
<1>3. CASE Start \/ Stop \/ QuotaExpires
  BY <1>3, <1>a, KeepsBInv DEF Start, Stop, QuotaExpires
<1>4. CASE Exit \/ Crash
  BY <1>4, <1>a, KeepsBInv DEF Exit, Crash, LoseMemory, NoRec
<1>5. ASSUME NEW kind, NEW from, NEW to, RecoverQuery(kind, from, to) PROVE BInv'
  BY <1>0, <1>5, <1>a, KeepsBInv DEF LiveRows, Recs, RecoverQuery, BInv, RestartBudget, SeenRestarts
<1>6. CASE RecoverRow
  BY <1>6, RecoverRowBudget
<1>7. CASE ReleaseLeaderHold
  BY <1>0, <1>7, <1>a, KeepsBInv DEF ReleaseLeaderHold, Recs
<1>8. ASSUME NEW kind, NEW from, NEW to, MergeHeldPendingEntries(kind, from, to) PROVE BInv'
  BY <1>0, <1>8 DEF MergeHeldPendingEntries, Recs, BInv, RestartBudget, SeenRestarts
<1>9. CASE RecoverEnqueue
  <2>1. row' = row
    BY <1>9 DEF RecoverEnqueue
  <2>2. CASE rec' = NoRec
    BY <2>1, <2>2, <1>a, KeepsBInv DEF NoRec
  <2>3. CASE \E c \in rec.ready : rec' = [rec EXCEPT !.ready = @ \ {c}]
    BY <1>0, <2>3, <2>1 DEF Recs, BInv, RestartBudget, SeenRestarts
  <2> QED
    BY <1>9, <2>2, <2>3 DEF RecoverEnqueue
<1>10. CASE Recovery
  BY <1>5, <1>6, <1>7, <1>8, <1>9, <1>10 DEF Recovery
<1>11. ASSUME NEW s \in Scopes, Worker(s) PROVE BInv'
  BY <1>11, WorkerKeeps, KeepsBInv
<1>12. ASSUME NEW t \in Threads, Rotate(t) \/ \E drain \in BOOLEAN : InterruptThread(t, drain)
       PROVE  BInv'
  BY <1>12, <1>a, KeepsBInv DEF Rotate, InterruptThread, memoryVars
<1>13. CASE Operator
  <2>1. rec' = rec
    BY <1>13 DEF Operator, LatchActiveTurns, DrainChannelMessages, UnlockPool, InterruptFail,
                 DrainThreadPendingMessages, CancelTurns, CloseThreadProcesses, memoryVars
  <2>2. row' = row \/ \E i \in irq.ids : SetStatus(i, Failed)
    BY <1>13 DEF Operator, LatchActiveTurns, DrainChannelMessages, UnlockPool, InterruptFail,
                 DrainThreadPendingMessages, CancelTurns, CloseThreadProcesses, storeVars
  <2>3. KeepsRestarts
    BY <2>2, <1>a, SetStatusKeeps
  <2> QED
    BY <2>1, <2>3, KeepsBInv
<1>14. CASE UNCHANGED vars
  BY <1>14, <1>a, KeepsBInv DEF vars
<1> QED
  BY <1>1, <1>2, <1>3, <1>4, <1>10, <1>11, <1>12, <1>13, <1>14 DEF Next

LEMMA InitBInv == Init => BInv
  BY LimitAssumption DEF Init, BInv, RestartBudget, SeenRestarts, NoRec, NoRow

\* evaluatePoisonPill bounds the life of a message that keeps killing the process: no row
\* is handed back by startup recovery more than MaxHardRestarts times (recovery.go:24).
THEOREM RestartBudgetHolds == Spec => []RestartBudget
<1>1. Spec => []IInv
  BY InitIInv, NextIInv, PTL DEF Spec
<1>2. BInv => RestartBudget
  BY DEF BInv
<1> QED
  BY <1>1, <1>2, InitBInv, NextBInv, PTL DEF Spec

--------------------
(* Who holds a row of TurnQueue, for every number of items, scopes and *)
(* threads: a claimed row is written by nobody but the turn that claimed *)
(* it (or an operator), is answered once per life, and is not reopened. *)
(*  *)
(* A turn keeps the rows it has claimed in two sequences that depend on *)
(* where it is: First and Second.  Orderly says that they name every row *)
(* once; Homely that all copies of a row are in the channel and the turn *)
(* of its own scope, so that no two turns meet in a row.  Summary is what *)
(* the invariants need to know of a step of a worker; it is proved action *)
(* by action, and each invariant is then proved from it once. *)

Distinct(q) == \A a, b \in DOMAIN q : a # b => q[a].id # q[b].id

Late(t) == IF t.panicked THEN t.burst ELSE <<>>

Busy == {"lease", "hook", "run", "exec", "eval", "backoff"}

First(t) ==
    CASE t.pc = "claim" -> t.got
      [] t.pc \in Busy \cup {"policy", "triage"} -> t.burst
      [] t.pc \in {"lead", "final", "defer", "trailing"} -> t.todo
      [] t.pc = "trail" -> t.trail
      [] OTHER -> <<>>

Second(t) ==
    CASE t.pc = "lead" -> t.got
      [] t.pc \in Busy \cup {"final", "defer"} -> t.trail
      [] t.pc \in {"trail", "trailing"} -> Late(t)
      [] OTHER -> <<>>

\* The rows a turn has claimed, and of these the ones it has not answered.
Hands(t) == Ids(First(t)) \cup Ids(Second(t))

Unsent(t) ==
    CASE t.pc \in {"trail", "trailing"} -> Ids(First(t))
      [] t.pc = "final" -> Ids(Second(t))
      [] OTHER -> Hands(t)

\* Copies a turn has on their way to a claim, and all its copies.
Waiting(t) ==
    CASE t.pc \in {"popped", "drained", "dclaim"} -> Ids(t.burst)
      [] t.pc = "claim" -> Ids(t.todo)
      [] OTHER -> {}

Carried(t) == Ids(t.burst) \cup Ids(t.todo) \cup Ids(t.got) \cup Ids(t.trail)

Early == {"idle", "popped", "drained", "dclaim", "claim", "policy", "triage", "lead"}

\* At most one copy.
Brief(q) == q = <<>> \/ \E c \in Copies : q = <<c>>

Orderly(t) ==
    /\ Distinct(First(t)) /\ Distinct(Second(t)) /\ Ids(First(t)) \cap Ids(Second(t)) = {}
    /\ t.pc \in Early \cup {"trailing"} => t.trail = <<>>
    /\ t.panicked => t.pc \in {"trail", "trailing", "final", "end"}
    /\ t.panicked /\ t.pc = "final" => t.trail = <<>>
    /\ t.pc \notin {"claim", "lead"} => t.got = <<>>
    /\ t.pc \in {"popped", "dclaim"} => Brief(t.burst)
    /\ t.cancelled => t.intr
    /\ t.intr => t.pc \notin {"idle", "popped", "drained", "dclaim"}

Of(s) == {i \in Items : ScopeOf[i] = s}

Homely(s) == Ids(ch[s]) \cup Ids(held[s]) \cup Carried(turn[s]) \subseteq Of(s)

Claimed(s) ==
    \A i \in Hands(turn[s]) : row[i].st = Processing \/ (row[i].st \in Terminal /\ Disturbed(s))

Owner(s) ==
    /\ Orderly(turn[s]) /\ Homely(s) /\ Claimed(s) /\ Brief(held[s])
    /\ turn[s].pc = "popped" => held[s] = <<>>

\* The operator command works on rows and turns of its own thread.
IrqInv ==
    /\ \A s \in irq.turns : ThreadOf[s] = irq.thread /\ turn[s].intr
    /\ \A s \in irq.chans : ThreadOf[s] = irq.thread
    /\ \A i \in irq.ids : ThreadOf[ScopeOf[i]] = irq.thread
    /\ irq.pc \in {"idle", "snap", "close"} => irq.ids = {}
    /\ irq.pc # "chans" => irq.chans = {} /\ irq.back = <<>>
    /\ \A i \in Ids(irq.back) : ScopeOf[i] \in irq.chans

\* No worker runs before the pool is released, and recovery writes only before it.
LifeInv ==
    /\ phase \in {"down", "held"} => \A s \in Scopes : turn[s] = IdleTurn
    /\ rec.pc \in {"msgs", "disps"} => phase = "held"
    /\ rec.pc \in {"merge", "mergeDisps", "enqueue"} => phase = "live"

OInv == (\A s \in Scopes : Owner(s)) /\ IrqInv /\ LifeInv

--------------------
(* Sequences of copies *)

LEMMA NoIds == Ids(<<>>) = {} /\ Distinct(<<>>)
  BY DEF Ids, Distinct

LEMMA IdsIn ==
    ASSUME NEW q \in Seq(Copies)
    PROVE  /\ \A k \in 1..Len(q) : q[k].id \in Ids(q)
           /\ \A i \in Ids(q) : \E k \in 1..Len(q) : i = q[k].id
  BY DEF Ids

LEMMA OneId == ASSUME NEW c \in Copies PROVE Ids(<<c>>) = {c.id} /\ Distinct(<<c>>)
BY DEF Ids, Distinct

LEMMA HeadTailIds ==
    ASSUME NEW q \in Seq(Copies), q # <<>>
    PROVE  /\ Ids(q) = {Head(q).id} \cup Ids(Tail(q))
           /\ ~(Len(q) > 1) => Ids(q) = {Head(q).id}
           /\ Distinct(q) => Distinct(Tail(q)) /\ Head(q).id \notin Ids(Tail(q))
<1>1. /\ Len(q) \in Nat /\ Len(q) > 0 /\ Head(q) = q[1]
      /\ Tail(q) \in Seq(Copies) /\ Len(Tail(q)) = Len(q) - 1
      /\ \A k \in 1..(Len(q) - 1) : Tail(q)[k] = q[k + 1]
  BY EmptySeq
<1>2. Ids(q) \subseteq {Head(q).id} \cup Ids(Tail(q))
  <2> SUFFICES ASSUME NEW k \in 1..Len(q), k # 1 PROVE q[k].id \in Ids(Tail(q))
    BY <1>1, IdsIn
  <2>1. k - 1 \in 1..(Len(q) - 1) /\ Tail(q)[k - 1] = q[k]
    BY <1>1
  <2> QED
    BY <1>1, <2>1, IdsIn
<1>3. {Head(q).id} \cup Ids(Tail(q)) \subseteq Ids(q)
  <2>1. Head(q).id \in Ids(q)
    BY <1>1, IdsIn
  <2>2. ASSUME NEW k \in 1..Len(Tail(q)) PROVE Tail(q)[k].id \in Ids(q)
    BY <1>1, IdsIn
  <2> QED
    BY <1>1, <2>1, <2>2, IdsIn
<1>4. ~(Len(q) > 1) => Ids(q) = {Head(q).id}
  BY <1>1, IdsIn
<1>5. ASSUME Distinct(q) PROVE Distinct(Tail(q)) /\ Head(q).id \notin Ids(Tail(q))
  BY <1>1, <1>5 DEF Distinct, Ids
<1> QED
  BY <1>2, <1>3, <1>4, <1>5

LEMMA AppendIds ==
    ASSUME NEW q \in Seq(Copies), NEW c \in Copies
    PROVE  /\ Ids(Append(q, c)) = Ids(q) \cup {c.id}
           /\ Distinct(q) /\ c.id \notin Ids(q) => Distinct(Append(q, c))
<1>1. /\ Len(q) \in Nat /\ DOMAIN q = 1..Len(q) /\ DOMAIN Append(q, c) = 1..(Len(q) + 1)
      /\ \A k \in 1..Len(q) : Append(q, c)[k] = q[k]
      /\ Append(q, c)[Len(q) + 1] = c
  OBVIOUS
<1>2. Ids(Append(q, c)) \subseteq Ids(q) \cup {c.id}
  BY <1>1 DEF Ids
<1>3. Ids(q) \cup {c.id} \subseteq Ids(Append(q, c))
  BY <1>1 DEF Ids
<1>4. ASSUME Distinct(q), c.id \notin Ids(q) PROVE Distinct(Append(q, c))
  BY <1>1, <1>4, IdsIn DEF Distinct
<1> QED
  BY <1>2, <1>3, <1>4

--------------------
(* What a turn holds in each of its states *)

Idles == {"idle", "popped", "drained", "dclaim", "end"}

Steady == Busy \cup {"policy", "triage"}

LEMMA Views ==
    ASSUME NEW t
    PROVE  /\ t.pc \in Idles => First(t) = <<>> /\ Second(t) = <<>>
           /\ t.pc = "claim" => First(t) = t.got /\ Second(t) = <<>>
           /\ t.pc \in Steady => First(t) = t.burst
           /\ t.pc \in Busy => Second(t) = t.trail
           /\ t.pc \in {"policy", "triage"} => Second(t) = <<>>
           /\ t.pc = "lead" => First(t) = t.todo /\ Second(t) = t.got
           /\ t.pc \in {"final", "defer"} => First(t) = t.todo /\ Second(t) = t.trail
           /\ t.pc = "trail" => First(t) = t.trail /\ Second(t) = Late(t)
           /\ t.pc = "trailing" => First(t) = t.todo /\ Second(t) = Late(t)
  BY DEF First, Second, Busy, Idles, Steady

LEMMA UnsentViews ==
    ASSUME NEW t
    PROVE  /\ t.pc \in {"trail", "trailing"} => Unsent(t) = Ids(First(t))
           /\ t.pc = "final" => Unsent(t) = Ids(Second(t))
           /\ t.pc \notin {"trail", "trailing", "final"} => Unsent(t) = Hands(t)
           /\ Unsent(t) \subseteq Hands(t)
  BY DEF Unsent, Hands

LEMMA WaitingViews ==
    ASSUME NEW t
    PROVE  /\ t.pc \in {"popped", "drained", "dclaim"} => Waiting(t) = Ids(t.burst)
           /\ t.pc = "claim" => Waiting(t) = Ids(t.todo)
           /\ t.pc \notin {"popped", "drained", "dclaim", "claim"} => Waiting(t) = {}
  BY DEF Waiting

LEMMA HandsAreOwned == \A s \in Scopes : Hands(turn[s]) = Owned(s)
BY NoIds DEF Late, Hands, First, Second, Owned, Busy

LEMMA HandsCarried == ASSUME NEW t PROVE Hands(t) \cup Waiting(t) \subseteq Carried(t)
BY NoIds DEF Late, Carried, Hands, First, Second, Waiting

\* The rows a step of a turn lets go of and the rows it claims.
Turned(t, u, gone, new) ==
    /\ Orderly(u)
    /\ gone \subseteq Hands(t)
    /\ Hands(u) = (Hands(t) \ gone) \cup new
    /\ Unsent(u) \subseteq Unsent(t) \cup new
    /\ t.intr => u.intr \/ (t.pc = "end" /\ Hands(u) = {})

\* A turn that keeps its copies and its flags.
Same(t, u) ==
    /\ u.burst = t.burst /\ u.got = t.got /\ u.trail = t.trail
    /\ u.panicked = t.panicked /\ u.intr = t.intr /\ u.cancelled = t.cancelled

LEMMA SteadyTurn ==
    ASSUME NEW t, Orderly(t), t.pc \in Steady
    PROVE  /\ First(t) = t.burst /\ Second(t) = t.trail /\ ~t.panicked /\ t.got = <<>>
           /\ Hands(t) = Ids(t.burst) \cup Ids(t.trail) /\ Unsent(t) = Hands(t)
           /\ Distinct(t.burst) /\ Distinct(t.trail) /\ Ids(t.burst) \cap Ids(t.trail) = {}
           /\ Waiting(t) = {}
BY Views, UnsentViews, WaitingViews DEF Steady, Orderly, Early, Busy, Hands

LEMMA ToSteady ==
    ASSUME NEW t, NEW u, Orderly(t), t.pc \in Steady, u.pc \in Busy, Same(t, u)
    PROVE  Turned(t, u, {}, {})
BY Views, SteadyTurn, UnsentViews DEF Steady, Busy, Early, Hands, Same, Orderly, Turned

LEMMA ToLoop ==
    ASSUME NEW t, NEW u, Orderly(t), t.pc \in Steady, u.pc \in {"final", "defer"},
           Same(t, u), u.todo = t.burst
    PROVE  Turned(t, u, {}, {})
BY Views, SteadyTurn, UnsentViews DEF Early, Hands, Same, Orderly, Turned

LEMMA ToTrail ==
    ASSUME NEW t, NEW u, Orderly(t), t.pc \in Steady, u.pc = "trail", Same(t, u)
    PROVE  Turned(t, u, Ids(t.burst), {})
BY Views, SteadyTurn, NoIds, UnsentViews DEF Early, Late, Same, Hands, Orderly, Turned

LEMMA ToPanic ==
    ASSUME NEW t, NEW u, Orderly(t), t.pc \in Steady, u.pc = "trail", u.burst = t.burst,
           u.got = t.got, u.trail = t.trail, u.panicked, u.intr = t.intr, u.cancelled = t.cancelled
    PROVE  Turned(t, u, {}, {})
BY Views, UnsentViews, SteadyTurn DEF Early, Late, Hands, Orderly, Turned


--------------------
(* Steps of a loop *)

\* The copies and the flags but for the list a loop works on.
LEMMA LoopGoesOn ==
    ASSUME NEW t, NEW u, Orderly(t), t.pc \in {"final", "defer", "trailing", "lead"},
           t.todo \in Seq(Copies), t.todo # <<>>, u.pc = t.pc, Same(t, u), u.todo = Tail(t.todo)
    PROVE  Turned(t, u, {Head(t.todo).id}, {})
BY Views, HeadTailIds, UnsentViews DEF Late, Same, Orderly, Hands, Turned

\* finalizeBurstMessages and rescheduleBurst have done their last message.
LEMMA LoopEndsInTrail ==
    ASSUME NEW t, NEW u, Orderly(t), t.pc \in {"final", "defer"}, ~t.panicked,
           t.todo \in Seq(Copies), t.todo # <<>>, ~(Len(t.todo) > 1),
           u.pc = "trail", Same(t, u)
    PROVE  Turned(t, u, {Head(t.todo).id}, {})
BY Views, HeadTailIds, NoIds, UnsentViews DEF Late, Same, Orderly, Early, Hands, Turned

\* The turn has nothing left: the burst of a panic is failed, or the trailing messages done.
LEMMA LoopEnds ==
    ASSUME NEW t, NEW u, Orderly(t), t.pc \in {"final", "trailing"},
           t.pc = "final" <=> t.panicked,
           t.todo \in Seq(Copies), t.todo # <<>>, ~(Len(t.todo) > 1),
           u.pc = "end", u.got = t.got, u.cancelled = t.cancelled, u.intr = t.intr
    PROVE  Turned(t, u, {Head(t.todo).id}, {})
BY Views, HeadTailIds, NoIds, UnsentViews DEF Late, Orderly, Idles, Early, Hands, Turned

\* After its trailing messages a turn that has panicked fails its burst.
LEMMA ToLateBurst ==
    ASSUME NEW t, NEW u, NEW gone, Orderly(t), t.pc \in {"trail", "trailing"}, t.panicked,
           gone = Ids(First(t)), u.pc = "final", u.todo = t.burst, u.trail = <<>>,
           u.got = t.got, u.cancelled = t.cancelled, u.intr = t.intr
    PROVE  Turned(t, u, gone, {})
BY Views, NoIds, UnsentViews DEF Late, Early, Hands, Orderly, Turned

LEMMA TrailToEnd ==
    ASSUME NEW t, NEW u, Orderly(t), t.pc = "trail", ~t.panicked,
           u.pc = "end", u.got = t.got, u.cancelled = t.cancelled, u.intr = t.intr
    PROVE  Turned(t, u, Ids(t.trail), {})
BY Views, NoIds, UnsentViews DEF Late, Idles, Early, Hands, Orderly, Turned

LEMMA ToTrailing ==
    ASSUME NEW t, NEW u, Orderly(t), t.pc = "trail", u.pc = "trailing", u.burst = t.burst,
           u.todo = t.trail, u.trail = <<>>, u.got = t.got,
           u.panicked = t.panicked, u.cancelled = t.cancelled, u.intr = t.intr
    PROVE  Turned(t, u, {}, {})
BY Views, UnsentViews DEF Late, Early, Orderly, Hands, Turned

--------------------
(* Up to the claim, and the triage *)

LEMMA IdleOrderly ==
    /\ Orderly(IdleTurn) /\ Hands(IdleTurn) = {} /\ Unsent(IdleTurn) = {}
    /\ Carried(IdleTurn) = {} /\ Waiting(IdleTurn) = {} /\ IdleTurn.pc = "idle"
BY Views, NoIds, UnsentViews, WaitingViews DEF IdleTurn, Idles, Orderly, Hands, Carried

LEMMA ToIdle ==
    ASSUME NEW t, Orderly(t), t.pc \in {"drained", "dclaim", "end"}
    PROVE  Turned(t, IdleTurn, {}, {}) /\ Carried(IdleTurn) = {} /\ Waiting(IdleTurn) = {}
BY NoIds, Views, IdleOrderly DEF Hands, Idles, Orderly, Turned

\* A turn that has claimed nothing takes another step towards its claim.
LEMMA ToClaim ==
    ASSUME NEW t, NEW u, Orderly(t), t.pc \in {"idle", "popped", "drained"},
           u.pc \in {"popped", "drained", "dclaim", "claim"},
           u.pc \in {"popped", "dclaim"} => Brief(u.burst),
           u.got = t.got, u.trail = t.trail,
           u.panicked = t.panicked, u.cancelled = t.cancelled, u.intr = t.intr
    PROVE  Turned(t, u, {}, {})
BY Views, NoIds, UnsentViews DEF Orderly, Early, Idles, Hands, Turned

LEMMA ClaimTurn ==
    ASSUME NEW t, Orderly(t), t.pc = "claim"
    PROVE  /\ First(t) = t.got /\ Hands(t) = Ids(t.got) /\ Unsent(t) = Ids(t.got)
           /\ Distinct(t.got) /\ t.trail = <<>> /\ ~t.panicked /\ Waiting(t) = Ids(t.todo)
BY Views, NoIds, UnsentViews, WaitingViews DEF Hands, Orderly, Early

\* The loop of the claims goes on with what it has got.
LEMMA ClaimGoesOn ==
    ASSUME NEW t, NEW u, NEW new, Orderly(t), t.pc = "claim", u.pc = "claim", Distinct(u.got),
           Ids(u.got) = Ids(t.got) \cup new, u.trail = t.trail,
           u.panicked = t.panicked, u.cancelled = t.cancelled, u.intr = t.intr
    PROVE  Turned(t, u, {}, new)
BY Views, NoIds, ClaimTurn, UnsentViews DEF Orderly, Hands, Turned

LEMMA ClaimEnds ==
    ASSUME NEW t, NEW u, NEW new, Orderly(t), t.pc = "claim", u.pc = "policy",
           Distinct(u.burst), Ids(u.burst) = Ids(t.got) \cup new, u.got = <<>>, u.trail = t.trail,
           u.panicked = t.panicked, u.cancelled = t.cancelled, u.intr = t.intr
    PROVE  Turned(t, u, {}, new)
BY Views, NoIds, ClaimTurn, UnsentViews DEF Steady, Orderly, Hands, Turned

LEMMA ClaimEmpty ==
    ASSUME NEW t, NEW u, Orderly(t), t.pc = "claim", t.got = <<>>, u.pc = "trail", Same(t, u)
    PROVE  Turned(t, u, {}, {})
BY Views, ClaimTurn, NoIds, UnsentViews DEF Late, Same, Early, Orderly, Hands, Turned

LEMMA DispatchClaimed ==
    ASSUME NEW t, NEW u, Orderly(t), t.pc = "dclaim", t.burst # <<>>, u.pc = "lease", Same(t, u)
    PROVE  /\ Turned(t, u, {}, {t.burst[1].id})
           /\ Ids(t.burst) = {t.burst[1].id} /\ t.burst[1] \in Copies
<1>1. t.trail = <<>> /\ t.got = <<>> /\ ~t.panicked
  BY DEF Orderly, Early
<1>2. PICK c \in Copies : t.burst = <<c>>
  BY DEF Orderly, Brief
<1>3. t.burst[1] = c /\ Ids(t.burst) = {c.id} /\ Distinct(t.burst)
  BY <1>2, OneId
<1>4. First(u) = t.burst /\ Second(u) = <<>> /\ u.pc \notin Early
  BY <1>1, Views DEF Steady, Busy, Same, Early
<1>5. Orderly(u)
  BY <1>1, <1>3, <1>4, NoIds DEF Orderly, Same
<1>6. Hands(t) = {} /\ Hands(u) = {c.id} /\ Unsent(u) = Hands(u)
  BY <1>3, <1>4, NoIds, Views, UnsentViews DEF Hands, Idles
<1> QED
  BY <1>3, <1>5, <1>6 DEF Turned, Same

\* The triage divides the burst: ambient messages before the active one, and the rest.
LEMMA ToLead ==
    ASSUME NEW t, NEW u, Orderly(t), t.pc = "triage", u.pc = "lead",
           Distinct(u.todo), Distinct(u.got), Ids(u.todo) \cap Ids(u.got) = {},
           Ids(u.todo) \cup Ids(u.got) = Ids(t.burst), u.trail = t.trail,
           u.panicked = t.panicked, u.cancelled = t.cancelled, u.intr = t.intr
    PROVE  Turned(t, u, {}, {})
BY Views, SteadyTurn, NoIds, UnsentViews DEF Steady, Orderly, Early, Hands, Turned

LEMMA ToNarrow ==
    ASSUME NEW t, NEW u, Orderly(t), t.pc = "lead", t.todo = <<>>,
           t.got \in Seq(Copies), t.got # <<>>, u.pc = "lease", u.burst = <<Head(t.got)>>,
           u.got = <<>>, u.trail = IF t.intr THEN <<>> ELSE Tail(t.got),
           u.panicked = t.panicked, u.cancelled = t.cancelled, u.intr = t.intr
    PROVE  /\ Turned(t, u, IF t.intr THEN Ids(Tail(t.got)) ELSE {}, {})
           /\ Carried(u) \subseteq Carried(t) \cup Ids(u.todo)
<1>1. First(u) = u.burst /\ Second(u) = u.trail /\ u.pc \notin Early
  BY Views DEF Steady, Busy, Early
<1>2. First(t) = <<>> /\ Second(t) = t.got /\ ~t.panicked
  BY Views DEF Orderly
<1>3. Head(t.got) \in Copies
  BY SeqFacts
<1>4. Ids(u.burst) = {Head(t.got).id} /\ Distinct(u.burst)
  BY <1>3, OneId
<1>5. /\ Ids(t.got) = {Head(t.got).id} \cup Ids(Tail(t.got))
      /\ Distinct(Tail(t.got)) /\ Head(t.got).id \notin Ids(Tail(t.got))
  BY <1>2, HeadTailIds DEF Orderly
<1>6. Distinct(u.trail) /\ Ids(u.trail) = IF t.intr THEN {} ELSE Ids(Tail(t.got))
  BY <1>5, NoIds
<1>7. Orderly(u)
  BY <1>1, <1>2, <1>4, <1>5, <1>6 DEF Orderly
<1>8. /\ Hands(t) = Ids(t.got) /\ Unsent(t) = Hands(t)
      /\ Hands(u) = {Head(t.got).id} \cup Ids(u.trail) /\ Unsent(u) = Hands(u)
  BY <1>1, <1>2, <1>4, NoIds, UnsentViews DEF Hands
<1>9. Turned(t, u, IF t.intr THEN Ids(Tail(t.got)) ELSE {}, {})
  BY <1>5, <1>6, <1>7, <1>8 DEF Turned
<1> QED
  BY <1>4, <1>5, <1>6, <1>9, NoIds DEF Carried


--------------------
(* Parts of a sequence *)

LEMMA ConcatIds ==
    ASSUME NEW p \in Seq(Copies), NEW q \in Seq(Copies)
    PROVE  Ids(p \o q) = Ids(p) \cup Ids(q)
<1>1. /\ p \o q \in Seq(Copies) /\ Len(p) \in Nat /\ Len(q) \in Nat
      /\ Len(p \o q) = Len(p) + Len(q)
      /\ \A k \in 1..Len(p) : (p \o q)[k] = p[k]
      /\ \A k \in 1..(Len(p) + Len(q)) : k > Len(p) => (p \o q)[k] = q[k - Len(p)]
  OBVIOUS
<1>2. ASSUME NEW k \in 1..Len(p \o q) PROVE (p \o q)[k].id \in Ids(p) \cup Ids(q)
  BY <1>1, IdsIn
<1>3. ASSUME NEW k \in 1..Len(p) PROVE p[k].id \in Ids(p \o q)
  <2>1. k \in 1..Len(p \o q) /\ (p \o q)[k] = p[k]
    BY <1>1
  <2> QED
    BY <1>1, <2>1, IdsIn
<1>4. ASSUME NEW k \in 1..Len(q) PROVE q[k].id \in Ids(p \o q)
  <2>1. k + Len(p) \in 1..Len(p \o q) /\ (p \o q)[k + Len(p)] = q[k]
    BY <1>1
  <2> QED
    BY <1>1, <2>1, IdsIn
<1>5. Ids(p \o q) \subseteq Ids(p) \cup Ids(q)
  <2>1. p \o q \in Seq(Copies)
    BY <1>1
  <2>2. \A i \in Ids(p \o q) : \E k \in 1..Len(p \o q) : i = (p \o q)[k].id
    BY <2>1, IdsIn
  <2> QED
    BY <1>2, <2>2, Zenon
<1>6. Ids(p) \subseteq Ids(p \o q) /\ Ids(q) \subseteq Ids(p \o q)
  BY <1>3, <1>4, IdsIn
<1> QED
  BY <1>5, <1>6

LEMMA PartIds ==
    ASSUME NEW q \in Seq(Copies), NEW a \in 1..(Len(q) + 1), NEW b \in 0..Len(q)
    PROVE  /\ SubSeq(q, a, b) \in Seq(Copies)
           /\ Ids(SubSeq(q, a, b)) = {q[k].id : k \in a..b}
           /\ Distinct(q) => Distinct(SubSeq(q, a, b))
<1> DEFINE n == IF a <= b THEN b - a + 1 ELSE 0
           p == SubSeq(q, a, b)
<1>1. /\ p \in Seq(Copies) /\ Len(p) = n /\ n \in Nat /\ DOMAIN p = 1..n
      /\ \A k \in 1..n : p[k] = q[a + k - 1]
  OBVIOUS
<1>2. \A k \in 1..n : a + k - 1 \in a..b /\ a + k - 1 \in DOMAIN q
  OBVIOUS
<1>3. \A k \in a..b : k - a + 1 \in 1..n /\ a + (k - a + 1) - 1 = k
  OBVIOUS
<1> HIDE DEF p, n
<1>4. Ids(p) \subseteq {q[k].id : k \in a..b}
  BY <1>1, <1>2 DEF Ids
<1>5. {q[k].id : k \in a..b} \subseteq Ids(p)
  <2>1. ASSUME NEW k \in a..b PROVE q[k].id \in Ids(p)
    <3>1. k - a + 1 \in DOMAIN p /\ p[k - a + 1] = q[a + (k - a + 1) - 1]
      BY <1>1, <1>3
    <3> QED
      BY <1>3, <3>1 DEF Ids
  <2> QED
    BY <2>1
<1>6. ASSUME Distinct(q) PROVE Distinct(p)
  <2>1. ASSUME NEW x \in DOMAIN p, NEW y \in DOMAIN p, x # y PROVE p[x].id # p[y].id
    <3>1. /\ a + x - 1 \in DOMAIN q /\ a + y - 1 \in DOMAIN q
          /\ p[x] = q[a + x - 1] /\ p[y] = q[a + y - 1]
      BY <1>1, <1>2
    <3>2. a + x - 1 # a + y - 1
      BY <1>1, <2>1
    <3> QED
      BY <1>6, <3>1, <3>2 DEF Distinct
  <2> QED
    BY <2>1 DEF Distinct
<1> QED
  BY <1>1, <1>4, <1>5, <1>6 DEF p

LEMMA FromActiveIds ==
    ASSUME NEW b \in Seq(Copies), NEW k \in 1..Len(b), NEW wakes
    PROVE  /\ Ids(FromActive(b, k, wakes)) = {b[j].id : j \in k..Len(b)}
           /\ Distinct(b) => Distinct(FromActive(b, k, wakes))
<1> DEFINE n == Len(b) - k + 1
           p == FromActive(b, k, wakes)
<1>1. n \in Nat /\ DOMAIN p = 1..n
  BY DEF FromActive
<1>2. ASSUME NEW j \in 1..n PROVE p[j].id = b[k + j - 1].id
  <2>1. PICK c \in Copies : c = b[k + j - 1]
    OBVIOUS
  <2>2. p[j] = [c EXCEPT !.wake = k + j - 1 \in wakes]
    BY <2>1 DEF FromActive
  <2> QED
    BY <2>1, <2>2 DEF Copies
<1>3. \A j \in 1..n : k + j - 1 \in k..Len(b) /\ k + j - 1 \in DOMAIN b
  OBVIOUS
<1>4. \A j \in k..Len(b) : j - k + 1 \in 1..n /\ k + (j - k + 1) - 1 = j
  OBVIOUS
<1> HIDE DEF p, n
<1>5. Ids(p) \subseteq {b[j].id : j \in k..Len(b)}
  BY <1>1, <1>2, <1>3 DEF Ids
<1>6. {b[j].id : j \in k..Len(b)} \subseteq Ids(p)
  <2>1. ASSUME NEW j \in k..Len(b) PROVE b[j].id \in Ids(p)
    BY <1>1, <1>2, <1>4 DEF Ids
  <2> QED
    BY <2>1
<1>7. ASSUME Distinct(b) PROVE Distinct(p)
  <2>1. ASSUME NEW x \in DOMAIN p, NEW y \in DOMAIN p, x # y PROVE p[x].id # p[y].id
    <3>1. /\ k + x - 1 \in DOMAIN b /\ k + y - 1 \in DOMAIN b
          /\ p[x].id = b[k + x - 1].id /\ p[y].id = b[k + y - 1].id
      BY <1>1, <1>2, <1>3
    <3>2. k + x - 1 # k + y - 1
      BY <1>1, <2>1
    <3> QED
      BY <1>7, <3>1, <3>2 DEF Distinct
  <2> QED
    BY <2>1 DEF Distinct
<1> QED
  BY <1>5, <1>6, <1>7 DEF p

\* The triage's two parts of a burst.
LEMMA TriageParts ==
    ASSUME NEW b \in Seq(Copies), NEW k \in 1..Len(b), NEW wakes, Distinct(b)
    PROVE  LET d == SubSeq(b, 1, k - 1)
               g == FromActive(b, k, wakes)
           IN /\ Distinct(d) /\ Distinct(g) /\ Ids(d) \cap Ids(g) = {}
              /\ Ids(d) \cup Ids(g) = Ids(b)
<1>1. 1 \in 1..(Len(b) + 1) /\ k - 1 \in 0..Len(b) /\ DOMAIN b = 1..Len(b)
  OBVIOUS
<1>2. /\ Ids(SubSeq(b, 1, k - 1)) = {b[j].id : j \in 1..(k - 1)}
      /\ Distinct(SubSeq(b, 1, k - 1))
  BY <1>1, PartIds
<1>3. /\ Ids(FromActive(b, k, wakes)) = {b[j].id : j \in k..Len(b)}
      /\ Distinct(FromActive(b, k, wakes))
  BY FromActiveIds
<1>4. \A x \in 1..(k - 1), y \in k..Len(b) : x \in DOMAIN b /\ y \in DOMAIN b /\ x # y
  BY <1>1
<1>5. \A x \in 1..(k - 1), y \in k..Len(b) : b[x].id # b[y].id
  BY <1>4 DEF Distinct
<1>6. \A j \in DOMAIN b : j \in 1..(k - 1) \/ j \in k..Len(b)
  BY <1>1
<1>7. {b[j].id : j \in 1..(k - 1)} \cup {b[j].id : j \in k..Len(b)} = Ids(b)
  BY <1>1, <1>6 DEF Ids
<1> QED
  BY <1>2, <1>3, <1>5, <1>7

\* A drain moves the head of the channel to the burst, and may hold the next copy.
LEMMA DrainIds ==
    ASSUME NEW q \in Seq(Copies), NEW n \in 0..Len(q), NEW onto,
           \/ onto = <<>>
           \/ n < Len(q) /\ onto = <<q[n + 1]>>
    PROVE  /\ Ids(SubSeq(q, 1, n)) \cup Ids(onto) \cup Ids(SubSeq(q, n + Len(onto) + 1, Len(q))) = Ids(q)
           /\ Brief(onto)
<1>1. DOMAIN q = 1..Len(q) /\ Len(q) \in Nat
  OBVIOUS
<1>2. Ids(SubSeq(q, 1, n)) = {q[k].id : k \in 1..n}
  BY PartIds
<1>3. CASE onto = <<>>
  <2>1. n + Len(onto) + 1 = n + 1 /\ n + 1 \in 1..(Len(q) + 1)
    BY <1>3
  <2>2. Ids(SubSeq(q, n + Len(onto) + 1, Len(q))) = {q[k].id : k \in (n + 1)..Len(q)}
    BY <2>1, PartIds
  <2>3. {q[k].id : k \in 1..n} \cup {q[k].id : k \in (n + 1)..Len(q)} = Ids(q)
    BY <1>1 DEF Ids
  <2> QED
    BY <1>2, <1>3, <2>2, <2>3, NoIds DEF Brief
<1>4. CASE n < Len(q) /\ onto = <<q[n + 1]>>
  <2>1. Len(onto) = 1 /\ n + Len(onto) + 1 = n + 2 /\ n + 2 \in 1..(Len(q) + 1) /\ n + 1 \in DOMAIN q
    BY <1>1, <1>4
  <2>2. Ids(SubSeq(q, n + Len(onto) + 1, Len(q))) = {q[k].id : k \in (n + 2)..Len(q)}
    BY <2>1, PartIds, SMTT(40)
  <2>3. Ids(onto) = {q[n + 1].id} /\ q[n + 1] \in Copies
    BY <1>4, <2>1, OneId
  <2>4. {q[k].id : k \in 1..n} \cup {q[n + 1].id} \cup {q[k].id : k \in (n + 2)..Len(q)} = Ids(q)
    BY <1>1, <2>1 DEF Ids
  <2> QED
    BY <1>2, <1>4, <2>2, <2>3, <2>4 DEF Brief
<1> QED
  BY <1>3, <1>4


--------------------
(* What the invariants need to know of a step of the worker of s *)

\* The statuses: gone are the rows the turn lets go of, new the rows it claims.
Rows(s, gone, new) ==
    /\ \A i \in Items \ (gone \cup new) : row'[i].st = row[i].st
    /\ \A i \in new : row[i].st = Pending /\ row'[i].st = Processing
    /\ \A i \in gone :
         \/ row'[i].st \in Terminal
         \/ row'[i].st = row[i].st /\ (phase # "live" \/ i \in hit' \cup shed')
         \/ /\ row'[i].st = Pending /\ i \in Unsent(turn[s])
            /\ phase # "live" \/ i \in Ids(timers') \cup Ids(ch'[s])

\* The copies: they stay in the scope, and leave it only when their row is not PENDING.
Places(s) ==
    /\ \A r \in Scopes \ {s} : ch'[r] = ch[r] /\ held'[r] = held[r]
    /\ Ids(ch'[s]) \cup Ids(held'[s]) \cup Carried(turn'[s])
         \subseteq Ids(ch[s]) \cup Ids(held[s]) \cup Carried(turn[s])
    /\ Brief(held'[s]) /\ (turn'[s].pc = "popped" => held'[s] = <<>>)
    /\ phase = "live" =>
         \A i \in Ids(ch[s]) \cup Ids(held[s]) \cup Waiting(turn[s]) :
            \/ i \in Ids(ch'[s]) \cup Ids(held'[s]) \cup Waiting(turn'[s])
            \/ row'[i].st # Pending \/ i \in hit'

Sent(s) ==
    \A i \in Items :
       \/ delivered'[i] = delivered[i]
       \/ /\ delivered'[i] = delivered[i] + 1 /\ row'[i].st = row[i].st
          /\ i \in Unsent(turn[s]) /\ i \notin Unsent(turn'[s])

Rest ==
    /\ phase' = phase /\ rec' = rec /\ ingest' = ingest
    /\ irq'.pc = irq.pc /\ irq'.thread = irq.thread /\ irq'.ids = irq.ids
    /\ irq'.chans = irq.chans /\ irq'.back = irq.back /\ irq'.turns \subseteq irq.turns
    /\ hit \subseteq hit' /\ shed \subseteq shed' /\ Ids(timers) \subseteq Ids(timers')

Summary(s) ==
    /\ \A r \in Scopes \ {s} : turn'[r] = turn[r]
    /\ \E gone, new \in SUBSET Items :
         /\ Turned(turn[s], turn'[s], gone, new) /\ Rows(s, gone, new)
         /\ new \subseteq Waiting(turn[s])
    /\ Places(s) /\ Sent(s) /\ Rest

\* The turn of s may become u and let go of gone.
Moves(s, u, gone) ==
    /\ Turned(turn[s], u, gone, {}) /\ Carried(u) \subseteq Carried(turn[s])
    /\ u.pc # "popped"

LEMMA OwnerAt ==
    ASSUME IInv, OInv, NEW s \in Scopes
    PROVE  /\ Orderly(turn[s]) /\ Brief(held[s]) /\ (turn[s].pc = "popped" => held[s] = <<>>)
           /\ turn[s] \in Turns /\ turn[s] \in WellFormed
           /\ Hands(turn[s]) \subseteq Items /\ Waiting(turn[s]) \subseteq Items
           /\ Carried(turn[s]) \subseteq Of(s) /\ Ids(ch[s]) \subseteq Of(s)
           /\ Ids(held[s]) \subseteq Of(s)
           /\ \A i \in Hands(turn[s]) : row[i].st = Processing \/ (row[i].st \in Terminal /\ Disturbed(s))
BY TurnAt, WellFormedTurn, HandsCarried DEF OInv, Owner, Homely, Of, Claimed

LEMMA BecomesAt ==
    ASSUME IInv, NEW s \in Scopes, NEW u, Becomes(s, u)
    PROVE  turn'[s] = u /\ \A r \in Scopes \ {s} : turn'[r] = turn[r]
BY DEF IInv, TurnInv, Becomes

\* A step that writes the table and leaves the channels alone.
LEMMA TableStep ==
    ASSUME IInv, OInv, NEW s \in Scopes, NEW u, Becomes(s, u),
           NEW gone \in SUBSET Items, NEW new \in SUBSET Items,
           Turned(turn[s], u, gone, new), Rows(s, gone, new), new \subseteq Waiting(turn[s]),
           Carried(u) \subseteq Carried(turn[s]), u.pc # "popped",
           phase = "live" => \A i \in Waiting(turn[s]) :
                               i \in Waiting(u) \/ row'[i].st # Pending \/ i \in hit',
           UNCHANGED <<ch, held, delivered>>, UNCHANGED queueVars,
           hit \subseteq hit', shed \subseteq shed'
    PROVE  Summary(s)
BY BecomesAt, OwnerAt DEF Places, Sent, Rest, queueVars, Summary

\* A step that leaves the statuses alone; what it lets go of stays for recovery.
LEMMA QuietStep ==
    ASSUME IInv, OInv, NEW s \in Scopes, NEW u, Becomes(s, u),
           NEW gone, Moves(s, u, gone), gone = {} \/ phase # "live",
           phase = "live" => Waiting(turn[s]) \subseteq Waiting(u),
           \A i \in Items : row'[i].st = row[i].st,
           UNCHANGED <<ch, held, delivered>>, UNCHANGED queueVars,
           hit \subseteq hit', shed \subseteq shed'
    PROVE  Summary(s)
<1>1. gone \in SUBSET Items
  BY OwnerAt DEF Moves, Turned
<1>2. Rows(s, gone, {})
  BY <1>1 DEF Rows
<1> QED
  BY <1>1, <1>2, TableStep DEF Moves

LEMMA TurnOnly ==
    ASSUME UNCHANGED <<ch, held>>, UNCHANGED turnOnly
    PROVE  /\ \A i \in Items : row'[i].st = row[i].st
           /\ UNCHANGED <<ch, held, delivered>> /\ UNCHANGED queueVars
           /\ hit \subseteq hit' /\ shed \subseteq shed'
  BY DEF turnOnly, queueVars

LEMMA CountRetryRows ==
    ASSUME IInv, NEW s, CountRetry(s)
    PROVE  (\A i \in Items : row'[i].st = row[i].st) /\ hit \subseteq hit'
BY DEF IInv, StoreInv, IncrementMessageRetry, Row, CountRetry

\* One statement: the status is written, or the row is marked as left behind.
LEMMA SetStatusRow ==
    ASSUME IInv, NEW i \in Items, NEW st, SetStatus(i, st)
    PROVE  /\ \A j \in Items \ {i} : row'[j].st = row[j].st
           /\ row'[i].st = st \/ (row'[i].st = row[i].st /\ i \in hit')
           /\ hit \subseteq hit'
BY DEF IInv, StoreInv, UpdateMessageStatus, Row, SetStatus

LEMMA SettleRows ==
    ASSUME IInv, NEW s, NEW i \in Items, NEW st \in Terminal, SetStatus(i, st)
    PROVE  Rows(s, {i}, {}) /\ hit \subseteq hit'
  BY SetStatusRow DEF Rows

LEMMA GotoFields ==
    ASSUME NEW s, turn[s] \in Turns, NEW pc
    PROVE  /\ Goto(s, pc).pc = pc /\ Goto(s, pc).todo = turn[s].todo
           /\ Same(turn[s], Goto(s, pc))
  BY DEF Goto, Turns, Same

LEMMA LeavingFields ==
    ASSUME NEW s, turn[s] \in Turns
    PROVE  Leaving(s).pc = "trail" /\ Leaving(s).todo = <<>> /\ Same(turn[s], Leaving(s))
  BY DEF Leaving, Turns, Same

LEMMA SettlingFields ==
    ASSUME NEW s, turn[s] \in Turns, NEW st \in Terminal
    PROVE  /\ Settling(s, st).pc = "final" /\ Settling(s, st).todo = turn[s].burst
           /\ Same(turn[s], Settling(s, st)) /\ Settling(s, st) \in Turns
BY Empty, PCs DEF Settling, Turns, Same

LEMMA QuotaFields ==
    ASSUME NEW u \in Turns
    PROVE  LET v == [u EXCEPT !.quota = TRUE] IN v.pc = u.pc /\ v.todo = u.todo /\ Same(u, v)
  BY DEF Turns, Same

LEMMA SameCarried ==
    ASSUME NEW t, NEW u, Same(t, u), Ids(u.todo) \subseteq Carried(t)
    PROVE  Carried(u) \subseteq Carried(t)
  BY DEF Same, Carried

LEMMA SettlingMoves ==
    ASSUME IInv, OInv, NEW s \in Scopes, turn[s].pc \in Steady, NEW st \in Terminal
    PROVE  /\ Moves(s, Settling(s, st), {})
           /\ Moves(s, [Settling(s, st) EXCEPT !.quota = TRUE], {})
<1> DEFINE u == Settling(s, st)
           v == [u EXCEPT !.quota = TRUE]
<1>1. Orderly(turn[s]) /\ turn[s] \in Turns
  BY OwnerAt
<1>2. u.pc = "final" /\ u.todo = turn[s].burst /\ Same(turn[s], u) /\ u \in Turns
  BY <1>1, SettlingFields
<1> HIDE DEF u
<1>3. v.pc = "final" /\ v.todo = turn[s].burst /\ Same(turn[s], v)
  BY <1>2, QuotaFields DEF Same
<1>4. Ids(turn[s].burst) \subseteq Carried(turn[s])
  BY DEF Carried
<1>5. Moves(s, u, {})
  BY <1>1, <1>2, <1>4, ToLoop, SameCarried DEF Moves
<1>6. Moves(s, v, {})
  BY <1>1, <1>3, <1>4, ToLoop, SameCarried DEF Moves
<1> QED
  BY <1>5, <1>6 DEF u

LEMMA LeavingMoves ==
    ASSUME IInv, OInv, NEW s \in Scopes, turn[s].pc \in Steady
    PROVE  Moves(s, Leaving(s), Ids(turn[s].burst))
BY OwnerAt, LeavingFields, NoIds, SameCarried, ToTrail DEF Moves

LEMMA BusyMoves ==
    ASSUME IInv, OInv, NEW s \in Scopes, turn[s].pc \in Steady, NEW u,
           u.pc \in Busy, u.todo = turn[s].todo, Same(turn[s], u)
    PROVE  Moves(s, u, {})
BY OwnerAt, SameCarried, ToSteady DEF Carried, Moves, Busy

LEMMA GotoMoves ==
    ASSUME IInv, OInv, NEW s \in Scopes, turn[s].pc \in Steady, NEW pc \in Busy
    PROVE  Moves(s, Goto(s, pc), {})
BY OwnerAt, GotoFields, BusyMoves

\* A step of a turn between its policy and the end of its attempts.
LEMMA SteadyStep ==
    ASSUME IInv, OInv, NEW s \in Scopes, turn[s].pc \in Steady, NEW u, Becomes(s, u),
           NEW gone, Moves(s, u, gone), gone = {} \/ phase # "live",
           \A i \in Items : row'[i].st = row[i].st,
           UNCHANGED <<ch, held, delivered>>, UNCHANGED queueVars,
           hit \subseteq hit', shed \subseteq shed'
    PROVE  Summary(s)
BY OwnerAt, SteadyTurn, QuietStep


--------------------
(* The actions between the policy and the end of the attempts *)

LEMMA SteadyNames == /\ Busy = {"lease", "hook", "run", "exec", "eval", "backoff"}
                     /\ Steady = {"lease", "hook", "run", "exec", "eval", "backoff", "policy", "triage"}
  BY DEF Busy, Steady

LEMMA ResolveTurnPolicySum == ASSUME IInv, OInv, NEW s \in Scopes, ResolveTurnPolicy(s) PROVE Summary(s)
<1>1. turn[s].pc = "policy" /\ turn[s].pc \in Steady /\ Orderly(turn[s]) /\ turn[s] \in Turns
  BY OwnerAt, SteadyNames DEF ResolveTurnPolicy
<1>2. Moves(s, Settling(s, Completed), {}) /\ Moves(s, Goto(s, "lease"), {})
  BY <1>1, SettlingMoves, GotoMoves, StatusNames, SteadyNames
<1>3. Moves(s, Goto(s, "triage"), {})
  <2> DEFINE u == Goto(s, "triage")
  <2>1. u.pc = "triage" /\ u.todo = turn[s].todo /\ Same(turn[s], u)
    BY <1>1, GotoFields
  <2> HIDE DEF u
  <2>2. /\ First(u) = turn[s].burst /\ Second(u) = <<>> /\ turn[s].trail = <<>>
        /\ First(turn[s]) = turn[s].burst /\ Second(turn[s]) = <<>>
    BY <1>1, <2>1, Views, SteadyNames DEF Same, Orderly, Early
  <2>3. Hands(u) = Hands(turn[s]) /\ Unsent(u) = Unsent(turn[s])
    BY <1>1, <2>1, <2>2, UnsentViews DEF Hands
  <2>4. Orderly(u)
    BY <1>1, <2>1, <2>2 DEF Orderly, Same
  <2>5. Carried(u) \subseteq Carried(turn[s])
    BY <2>1, SameCarried DEF Carried
  <2>6. Turned(turn[s], u, {}, {})
    BY <2>1, <2>3, <2>4 DEF Turned, Same
  <2> QED
    BY <2>1, <2>5, <2>6 DEF Moves, u
<1>4. PICK u : Becomes(s, u) /\ Moves(s, u, {})
  BY <1>2, <1>3, Zenon DEF ResolveTurnPolicy
<1> QED
  BY <1>1, <1>4, TurnOnly, SteadyStep DEF ResolveTurnPolicy

LEMMA AmbientTriageSum == ASSUME IInv, OInv, NEW s \in Scopes, AmbientTriage(s) PROVE Summary(s)
<1>1. /\ turn[s].pc = "triage" /\ turn[s].pc \in Steady /\ Orderly(turn[s]) /\ turn[s] \in Turns
      /\ turn[s].burst \in Seq(Copies) /\ turn[s].burst # <<>>
  BY OwnerAt, WellFormedTurn, SteadyNames DEF AmbientTriage
<1>2. CASE Stopping /\ Becomes(s, Leaving(s))
  BY <1>1, <1>2, LeavingMoves, TurnOnly, SteadyStep DEF AmbientTriage, Stopping
<1>3. CASE Becomes(s, Settling(s, Completed))
  BY <1>1, <1>3, SettlingMoves, StatusNames, TurnOnly, SteadyStep DEF AmbientTriage
<1>4. ASSUME NEW k \in DOMAIN turn[s].burst, NEW wakes,
             Becomes(s, [turn[s] EXCEPT !.pc = "lead", !.todo = SubSeq(turn[s].burst, 1, k - 1),
                                        !.got = FromActive(turn[s].burst, k, wakes)])
      PROVE  Summary(s)
  <2> DEFINE d == SubSeq(turn[s].burst, 1, k - 1)
             g == FromActive(turn[s].burst, k, wakes)
             u == [turn[s] EXCEPT !.pc = "lead", !.todo = d, !.got = g]
  <2>1. Distinct(turn[s].burst)
    BY <1>1, SteadyTurn
  <2>2. k \in 1..Len(turn[s].burst)
    BY <1>1
  <2>3. /\ Distinct(d) /\ Distinct(g) /\ Ids(d) \cap Ids(g) = {} /\ Ids(d) \cup Ids(g) = Ids(turn[s].burst)
    BY <1>1, <2>1, <2>2, TriageParts
  <2> HIDE DEF d, g
  <2>4. /\ u.pc = "lead" /\ u.todo = d /\ u.got = g /\ u.burst = turn[s].burst
        /\ u.trail = turn[s].trail /\ u.panicked = turn[s].panicked
        /\ u.intr = turn[s].intr /\ u.cancelled = turn[s].cancelled
    BY <1>1 DEF Turns
  <2> HIDE DEF u
  <2>5. Turned(turn[s], u, {}, {})
    BY <1>1, <2>3, <2>4, ToLead
  <2>6. Carried(u) \subseteq Carried(turn[s])
    BY <2>3, <2>4 DEF Carried
  <2>7. Becomes(s, u)
    BY <1>4 DEF u, d, g
  <2> QED
    BY <1>1, <2>4, <2>5, <2>6, <2>7, TurnOnly, SteadyStep DEF AmbientTriage, Moves
<1> QED
  BY <1>2, <1>3, <1>4 DEF AmbientTriage

LEMMA AcquirePoolAndLeaseSum == ASSUME IInv, OInv, NEW s \in Scopes, AcquirePoolAndLease(s) PROVE Summary(s)
<1>1. turn[s].pc = "lease" /\ turn[s].pc \in Steady /\ turn[s] \in Turns
  BY OwnerAt, SteadyNames DEF AcquirePoolAndLease
<1>2. CASE Becomes(s, Settling(s, Failed))
  BY <1>1, <1>2, SettlingMoves, StatusNames, TurnOnly, SteadyStep DEF AcquirePoolAndLease
<1>3. ASSUME NEW k \in DOMAIN turn[s].burst,
             Becomes(s, [turn[s] EXCEPT !.pc = IF IsDispatch(s) THEN "run" ELSE "hook",
                                        !.attempt = turn[s].burst[k].retry + 1])
      PROVE  Summary(s)
  <2> DEFINE pc == IF IsDispatch(s) THEN "run" ELSE "hook"
             a == turn[s].burst[k].retry + 1
             u == [turn[s] EXCEPT !.pc = pc, !.attempt = a]
  <2>1. pc \in Busy
    BY SteadyNames
  <2> HIDE DEF pc, a
  <2>2. u.pc = pc /\ u.todo = turn[s].todo /\ Same(turn[s], u)
    BY <1>1 DEF Turns, Same
  <2> HIDE DEF u
  <2>3. Moves(s, u, {})
    BY <1>1, <2>1, <2>2, BusyMoves
  <2>4. Becomes(s, u)
    BY <1>3 DEF u, pc, a
  <2> QED
    BY <1>1, <2>3, <2>4, TurnOnly, SteadyStep DEF AcquirePoolAndLease
<1> QED
  BY <1>2, <1>3 DEF AcquirePoolAndLease

LEMMA RunPreTurnHookSum == ASSUME IInv, OInv, NEW s \in Scopes, RunPreTurnHook(s) PROVE Summary(s)
<1>1. turn[s].pc = "hook" /\ turn[s].pc \in Steady /\ Orderly(turn[s]) /\ turn[s] \in Turns
  BY OwnerAt, SteadyNames DEF RunPreTurnHook
<1> DEFINE d == [turn[s] EXCEPT !.pc = "defer", !.todo = turn[s].burst]
<1>2. Moves(s, Settling(s, Completed), {}) /\ Moves(s, Goto(s, "run"), {})
  BY <1>1, SettlingMoves, GotoMoves, StatusNames, SteadyNames
<1>3. Moves(s, d, {})
  BY <1>1, SameCarried, ToLoop DEF Turns, Same, Carried, Moves
<1>4. PICK u : Becomes(s, u) /\ Moves(s, u, {})
  BY <1>2, <1>3, Zenon DEF RunPreTurnHook
<1> QED
  BY <1>1, <1>4, TurnOnly, SteadyStep DEF RunPreTurnHook

LEMMA StartAttemptSum == ASSUME IInv, OInv, NEW s \in Scopes, StartAttempt(s) PROVE Summary(s)
BY SteadyNames, SettlingMoves, GotoMoves, LeavingMoves, StatusNames, TurnOnly,
   SteadyStep DEF StartAttempt, Stopping

LEMMA ExecuteLeaseAttemptSum == ASSUME IInv, OInv, NEW s \in Scopes, ExecuteLeaseAttempt(s) PROVE Summary(s)
BY OwnerAt, SteadyNames, SettlingMoves, StatusNames, TurnOnly, SteadyStep,
   BusyMoves DEF ExecuteLeaseAttempt, Turns, Same

LEMMA PanicSum == ASSUME IInv, OInv, NEW s \in Scopes, Panic(s) PROVE Summary(s)
<1>1. turn[s].pc \in Steady /\ Orderly(turn[s]) /\ turn[s] \in Turns
  BY OwnerAt, SteadyNames DEF Panic
<1> DEFINE u == [turn[s] EXCEPT !.pc = "trail", !.panicked = TRUE]
<1>2. /\ u.pc = "trail" /\ u.panicked = TRUE /\ u.burst = turn[s].burst /\ u.got = turn[s].got
      /\ u.trail = turn[s].trail /\ u.todo = turn[s].todo
      /\ u.intr = turn[s].intr /\ u.cancelled = turn[s].cancelled
  BY <1>1 DEF Turns
<1>3. Becomes(s, u)
  BY DEF Panic
<1> HIDE DEF u
<1>4. Moves(s, u, {})
  BY <1>1, <1>2, ToPanic DEF Moves, Carried
<1> QED
  BY <1>1, <1>3, <1>4, TurnOnly, SteadyStep DEF Panic

LEMMA AutoResumeSum == ASSUME IInv, OInv, NEW s \in Scopes, AutoResume(s) PROVE Summary(s)
BY OwnerAt, SteadyNames, BusyMoves, TurnOnly, SteadyStep DEF AutoResume, Turns, Same

LEMMA BackoffElapsesSum == ASSUME IInv, OInv, NEW s \in Scopes, BackoffElapses(s) PROVE Summary(s)
BY OwnerAt, SteadyNames, BusyMoves, TurnOnly, SteadyStep DEF BackoffElapses, Turns, Same

\* Only a shutdown leaves a backoff without settling: a cancelled turn is interrupted.
LEMMA BackoffCancelledSum == ASSUME IInv, OInv, NEW s \in Scopes, BackoffCancelled(s) PROVE Summary(s)
BY OwnerAt, SteadyNames, SettlingMoves, StatusNames, TurnOnly, SteadyStep,
   LeavingMoves DEF BackoffCancelled, Orderly, Stopping

LEMMA QuotaPauseSum == ASSUME IInv, OInv, NEW s \in Scopes, QuotaPause(s) PROVE Summary(s)
BY SteadyNames, SettlingMoves, StatusNames, SteadyStep DEF QuotaPause

LEMMA StoreKept ==
    ASSUME IInv, NEW s, CountRetry(s) \/ UNCHANGED storeVars
    PROVE  (\A i \in Items : row'[i].st = row[i].st) /\ hit \subseteq hit'
  BY CountRetryRows DEF storeVars

LEMMA FailureSum ==
    ASSUME IInv, OInv, NEW s \in Scopes,
           CapacityBlip(s) \/ WatchdogFailure(s) \/ TransientFailure(s) \/ NonTransientFailure(s)
    PROVE  Summary(s)
<1>1. /\ turn[s].pc = "eval" /\ turn[s].pc \in Steady /\ turn[s] \in Turns
      /\ UNCHANGED <<ch, held, delivered>> /\ UNCHANGED queueVars /\ shed \subseteq shed'
  BY OwnerAt, SteadyNames DEF CapacityBlip, WatchdogFailure, TransientFailure, NonTransientFailure
<1>2. (\A i \in Items : row'[i].st = row[i].st) /\ hit \subseteq hit'
  BY StoreKept DEF CapacityBlip, WatchdogFailure, TransientFailure, NonTransientFailure
<1> DEFINE again == [turn[s] EXCEPT !.pc = "run", !.attempt = @ + 1]
<1>3. Moves(s, again, {})
  BY <1>1, BusyMoves, SteadyNames DEF Turns, Same
<1>4. /\ Moves(s, Settling(s, Failed), {}) /\ Moves(s, Goto(s, "backoff"), {})
      /\ Moves(s, Leaving(s), Ids(turn[s].burst))
  BY <1>1, SettlingMoves, GotoMoves, LeavingMoves, StatusNames, SteadyNames
<1>5. \E u, gone : Becomes(s, u) /\ Moves(s, u, gone) /\ (gone = {} \/ Stopping)
  BY <1>3, <1>4, Zenon DEF CapacityBlip, WatchdogFailure, TransientFailure, NonTransientFailure
<1>6. PICK u, gone : Becomes(s, u) /\ Moves(s, u, gone) /\ (gone = {} \/ phase # "live")
  BY <1>5 DEF Stopping
<1> QED
  BY <1>1, <1>2, <1>6, SteadyStep

\* The answer leaves while the burst is claimed and unanswered; after it only the
\* trailing messages are.
LEMMA DeliverSuccessSum == ASSUME IInv, OInv, NEW s \in Scopes, DeliverSuccess(s) PROVE Summary(s)
<1>1. /\ turn[s].pc = "eval" /\ turn[s].pc \in Steady /\ turn[s] \in Turns /\ Orderly(turn[s])
      /\ row' = row
  BY OwnerAt, SteadyNames DEF DeliverSuccess
<1> DEFINE u == Settling(s, Completed)
<1>2. Moves(s, u, {})
  BY <1>1, SettlingMoves, StatusNames
<1>3. u.pc = "final" /\ u.trail = turn[s].trail
  BY <1>1, SettlingFields, StatusNames DEF Same
<1>4. Becomes(s, u)
  BY DEF DeliverSuccess
<1> HIDE DEF u
<1>5. turn'[s] = u /\ \A r \in Scopes \ {s} : turn'[r] = turn[r]
  BY <1>4, BecomesAt
<1>6. Unsent(turn[s]) = Ids(turn[s].burst) \cup Ids(turn[s].trail) /\ Unsent(u) = Ids(turn[s].trail)
  BY <1>1, <1>3, SteadyTurn, UnsentViews, Views
<1>7. Ids(turn[s].burst) \cap Ids(turn[s].trail) = {} /\ Waiting(turn[s]) = {}
  BY <1>1, SteadyTurn
<1>8. Sent(s)
  BY <1>1, <1>5, <1>6, <1>7 DEF DeliverSuccess, Sent
<1>9. Rest
  BY DEF Rest, DeliverSuccess, queueVars
<1>10. Places(s)
  BY <1>2, <1>3, <1>5, <1>7, OwnerAt DEF Places, DeliverSuccess, Moves
<1>11. Rows(s, {}, {})
  BY <1>1 DEF Rows
<1> QED
  BY <1>2, <1>5, <1>8, <1>9, <1>10, <1>11 DEF Summary, Moves


--------------------
(* The actions up to the claim *)

LEMMA PopSum == ASSUME IInv, OInv, NEW s \in Scopes, Pop(s) PROVE Summary(s)
<1>1. /\ turn[s].pc = "idle" /\ turn[s] \in Turns /\ Orderly(turn[s]) /\ Brief(held[s])
      /\ ch[s] \in Seq(Copies) /\ held[s] \in Seq(Copies)
      /\ DOMAIN ch = Scopes /\ DOMAIN held = Scopes
  BY OwnerAt DEF Pop, IInv, ChanInv
<1>2. Sent(s) /\ Rest /\ Rows(s, {}, {})
  BY DEF Pop, turnOnly, Sent, Rest, Rows
<1>3. ASSUME NEW b, Brief(b), Becomes(s, [turn[s] EXCEPT !.pc = "popped", !.burst = b])
      PROVE  /\ Turned(turn[s], turn'[s], {}, {}) /\ \A r \in Scopes \ {s} : turn'[r] = turn[r]
             /\ Carried(turn'[s]) \subseteq Carried(turn[s]) \cup Ids(b)
             /\ Waiting(turn'[s]) = Ids(b)
  <2> DEFINE u == [turn[s] EXCEPT !.pc = "popped", !.burst = b]
  <2>1. /\ u.pc = "popped" /\ u.burst = b /\ u.todo = turn[s].todo /\ u.got = turn[s].got
        /\ u.trail = turn[s].trail /\ u.panicked = turn[s].panicked
        /\ u.intr = turn[s].intr /\ u.cancelled = turn[s].cancelled
    BY <1>1 DEF Turns
  <2>2. turn'[s] = u /\ \A r \in Scopes \ {s} : turn'[r] = turn[r]
    BY <1>3, BecomesAt
  <2> HIDE DEF u
  <2>3. Turned(turn[s], u, {}, {})
    BY <1>1, <1>3, <2>1, ToClaim
  <2> QED
    BY <2>1, <2>2, <2>3, WaitingViews DEF Carried
<1>4. Waiting(turn[s]) = {}
  BY <1>1, WaitingViews
<1>5. CASE /\ held[s] # <<>> /\ held' = [held EXCEPT ![s] = <<>>] /\ UNCHANGED ch
           /\ Becomes(s, [turn[s] EXCEPT !.pc = "popped", !.burst = held[s]])
  BY <1>1, <1>5, <1>3, <1>4, NoIds, <1>2 DEF Places, Brief, Summary
<1>6. CASE /\ held[s] = <<>> /\ ch[s] # <<>> /\ ch' = [ch EXCEPT ![s] = Tail(@)] /\ UNCHANGED held
           /\ Becomes(s, [turn[s] EXCEPT !.pc = "popped", !.burst = <<Head(ch[s])>>])
  <2>1. ch'[s] = Tail(ch[s]) /\ \A r \in Scopes \ {s} : ch'[r] = ch[r]
    BY <1>1, <1>6
  <2>2. Head(ch[s]) \in Copies /\ Ids(ch[s]) = {Head(ch[s]).id} \cup Ids(Tail(ch[s]))
    BY <1>1, <1>6, SeqFacts, HeadTailIds
  <2>3. Ids(<<Head(ch[s])>>) = {Head(ch[s]).id} /\ Brief(<<Head(ch[s])>>)
    BY <2>2, OneId DEF Brief
  <2>4. /\ Turned(turn[s], turn'[s], {}, {}) /\ \A r \in Scopes \ {s} : turn'[r] = turn[r]
        /\ Carried(turn'[s]) \subseteq Carried(turn[s]) \cup {Head(ch[s]).id}
        /\ Waiting(turn'[s]) = {Head(ch[s]).id}
    BY <1>3, <1>6, <2>3
  <2>5. Places(s)
    BY <1>1, <1>4, <1>6, <2>1, <2>2, <2>4 DEF Places
  <2> QED
    BY <1>2, <2>4, <2>5 DEF Summary
<1> QED
  BY <1>5, <1>6 DEF Pop

LEMMA DrainBurstMessagesSum == ASSUME IInv, OInv, NEW s \in Scopes, DrainBurstMessages(s) PROVE Summary(s)
<1>1. /\ turn[s].pc = "popped" /\ turn[s] \in Turns /\ Orderly(turn[s])
      /\ turn[s].burst \in Seq(Copies) /\ Brief(turn[s].burst) /\ held[s] = <<>>
      /\ ch[s] \in Seq(Copies) /\ DOMAIN ch = Scopes /\ DOMAIN held = Scopes
  BY OwnerAt, WellFormedTurn DEF DrainBurstMessages, IInv, ChanInv, Orderly
<1>2. Waiting(turn[s]) = Ids(turn[s].burst)
  BY <1>1, WaitingViews
<1>3. CASE Becomes(s, Goto(s, "dclaim")) /\ UNCHANGED <<ch, held>>
  <2> DEFINE u == Goto(s, "dclaim")
  <2>1. u.pc = "dclaim" /\ u.todo = turn[s].todo /\ Same(turn[s], u)
    BY <1>1, GotoFields
  <2> HIDE DEF u
  <2>2. Turned(turn[s], u, {}, {})
    BY <1>1, <2>1, ToClaim DEF Same
  <2>3. Carried(u) \subseteq Carried(turn[s])
    BY <2>1, SameCarried DEF Carried
  <2>4. Waiting(u) = Waiting(turn[s])
    BY <1>2, <2>1, WaitingViews DEF Same
  <2> QED
    BY <1>3, <2>1, <2>2, <2>3, <2>4, TurnOnly, QuietStep DEF Moves, u, DrainBurstMessages
<1>4. ASSUME NEW n \in 0..Len(ch[s]),
             NEW onto, onto = (IF n < BurstMax - 1 /\ n < Len(ch[s]) THEN <<ch[s][n + 1]>> ELSE <<>>),
             Becomes(s, [turn[s] EXCEPT !.pc = "drained", !.burst = @ \o SubSeq(ch[s], 1, n)]),
             held' = [held EXCEPT ![s] = onto],
             ch' = [ch EXCEPT ![s] = SubSeq(ch[s], n + Len(onto) + 1, Len(ch[s]))]
      PROVE  Summary(s)
  <2> DEFINE head == SubSeq(ch[s], 1, n)
             tail == SubSeq(ch[s], n + Len(onto) + 1, Len(ch[s]))
             b == turn[s].burst \o head
             u == [turn[s] EXCEPT !.pc = "drained", !.burst = b]
  <2>0. onto = <<>> \/ (n < Len(ch[s]) /\ onto = <<ch[s][n + 1]>>)
    BY <1>4
  <2>1. Ids(head) \cup Ids(onto) \cup Ids(tail) = Ids(ch[s]) /\ Brief(onto)
    BY <1>1, <2>0, DrainIds
  <2>2. head \in Seq(Copies)
    BY <1>1, PrefixSuffix
  <2>3. held'[s] = onto /\ ch'[s] = tail
    BY <1>1, <1>4
  <2>4. \A r \in Scopes \ {s} : ch'[r] = ch[r] /\ held'[r] = held[r]
    BY <1>1, <1>4
  <2> HIDE DEF head, tail
  <2>5. Ids(b) = Ids(turn[s].burst) \cup Ids(head)
    BY <1>1, <2>2, ConcatIds
  <2> HIDE DEF b
  <2>6. /\ u.pc = "drained" /\ u.burst = b /\ u.todo = turn[s].todo /\ u.got = turn[s].got
        /\ u.trail = turn[s].trail /\ u.panicked = turn[s].panicked
        /\ u.intr = turn[s].intr /\ u.cancelled = turn[s].cancelled
    BY <1>1 DEF Turns
  <2>7. Becomes(s, u)
    BY <1>4 DEF u, b, head
  <2> HIDE DEF u
  <2>8. turn'[s] = u /\ \A r \in Scopes \ {s} : turn'[r] = turn[r]
    BY <2>7, BecomesAt
  <2>9. Turned(turn[s], u, {}, {})
    BY <1>1, <2>6, ToClaim
  <2>10. Carried(u) \subseteq Carried(turn[s]) \cup Ids(head) /\ Waiting(u) = Ids(turn[s].burst) \cup Ids(head)
    BY <2>5, <2>6, WaitingViews DEF Carried
  <2>11. Places(s)
    BY <1>1, <1>2, <2>1, <2>3, <2>4, <2>6, <2>8, <2>10, NoIds DEF Places
  <2>12. Sent(s) /\ Rest /\ Rows(s, {}, {})
    BY DEF DrainBurstMessages, turnOnly, Sent, Rest, Rows
  <2> QED
    BY <2>8, <2>9, <2>11, <2>12 DEF Summary
<1> QED
  BY <1>3, <1>4 DEF DrainBurstMessages

LEMMA BeginTurnSum == ASSUME IInv, OInv, NEW s \in Scopes, BeginTurn(s) PROVE Summary(s)
<1>1. turn[s].pc = "drained" /\ turn[s] \in Turns /\ Orderly(turn[s])
  BY OwnerAt DEF BeginTurn
<1>2. Waiting(turn[s]) = Ids(turn[s].burst) /\ Hands(turn[s]) = {}
  BY <1>1, WaitingViews, Views, NoIds DEF Hands, Idles
<1>3. CASE Stopping
  <2>1. Moves(s, IdleTurn, {})
    BY <1>1, ToIdle DEF Moves, IdleTurn
  <2>2. Becomes(s, IdleTurn) /\ phase # "live"
    BY <1>3 DEF BeginTurn, Stopping
  <2> QED
    BY <2>1, <2>2, TurnOnly, QuietStep DEF BeginTurn
<1>4. CASE ~Stopping
  <2> DEFINE u == [turn[s] EXCEPT !.pc = "claim", !.todo = turn[s].burst]
  <2>1. u.pc = "claim" /\ u.todo = turn[s].burst /\ Same(turn[s], u)
    BY <1>1 DEF Turns, Same
  <2>2. Becomes(s, u)
    BY <1>4 DEF BeginTurn
  <2> HIDE DEF u
  <2>3. Turned(turn[s], u, {}, {})
    BY <1>1, <2>1, ToClaim DEF Same
  <2>4. Carried(u) \subseteq Carried(turn[s])
    BY <2>1, SameCarried DEF Carried
  <2>5. Waiting(u) = Waiting(turn[s])
    BY <1>2, <2>1, WaitingViews
  <2>6. Moves(s, u, {})
    BY <2>1, <2>3, <2>4 DEF Moves
  <2> QED
    BY <2>2, <2>5, <2>6, TurnOnly, QuietStep DEF BeginTurn
<1> QED
  BY <1>3, <1>4

LEMMA ClaimRow ==
    ASSUME IInv, NEW i \in Items, Claimable(row, i), row' = ClaimPendingMessage(row, i)
    PROVE  /\ row[i].st = Pending /\ row'[i].st = Processing
           /\ \A j \in Items \ {i} : row'[j].st = row[j].st
BY DEF IInv, StoreInv, Claimable, ClaimPendingMessage, Row

\* The record after the last claim.
LEMMA AfterClaimFields ==
    ASSUME NEW s, turn[s] \in Turns, NEW claimed, claimed # <<>>
    PROVE  LET u == AfterClaim(s, claimed)
           IN /\ u.pc = "policy" /\ u.burst = claimed /\ u.got = <<>> /\ u.todo = <<>>
              /\ u.trail = turn[s].trail /\ u.panicked = turn[s].panicked
              /\ u.intr = turn[s].intr /\ u.cancelled = turn[s].cancelled
BY DEF Turns, AfterClaim

\* The message is passed over: it stays out of the burst.
LEMMA SkipMoves ==
    ASSUME IInv, OInv, NEW s \in Scopes, turn[s].pc = "claim"
    PROVE  LET skip == Popped(s, AfterClaim(s, turn[s].got))
           IN /\ Moves(s, skip, {})
              /\ Waiting(turn[s]) \subseteq Waiting(skip) \cup {Head(turn[s].todo).id}
<1>1. /\ turn[s] \in Turns /\ Orderly(turn[s])
      /\ turn[s].todo \in Seq(Copies) /\ turn[s].todo # <<>> /\ turn[s].got \in Seq(Copies)
  BY OwnerAt, WellFormedTurn
<1>2. /\ Waiting(turn[s]) = Ids(turn[s].todo) /\ Distinct(turn[s].got)
      /\ Ids(turn[s].todo) = {Head(turn[s].todo).id} \cup Ids(Tail(turn[s].todo))
      /\ ~(Len(turn[s].todo) > 1) => Ids(turn[s].todo) = {Head(turn[s].todo).id}
  BY <1>1, ClaimTurn, HeadTailIds
<1>3. CASE Len(turn[s].todo) > 1
  <2> DEFINE u == [turn[s] EXCEPT !.todo = Tail(turn[s].todo)]
  <2>1. u.pc = "claim" /\ u.todo = Tail(turn[s].todo) /\ Same(turn[s], u)
    BY <1>1 DEF Turns, Same
  <2>2. u = Popped(s, AfterClaim(s, turn[s].got))
    BY <1>3 DEF Popped
  <2> HIDE DEF u
  <2>3. Turned(turn[s], u, {}, {})
    BY <1>1, <1>2, <2>1, ClaimGoesOn DEF Same
  <2>4. Carried(u) \subseteq Carried(turn[s])
    BY <1>2, <2>1, SameCarried DEF Carried
  <2>5. Waiting(u) = Ids(Tail(turn[s].todo))
    BY <2>1, WaitingViews
  <2>6. Moves(s, u, {})
    BY <2>1, <2>3, <2>4 DEF Moves
  <2> QED
    BY <1>2, <2>2, <2>5, <2>6
<1>4. CASE ~(Len(turn[s].todo) > 1) /\ turn[s].got = <<>>
  <2> DEFINE u == Leaving(s)
  <2>1. u.pc = "trail" /\ u.todo = <<>> /\ Same(turn[s], u)
    BY <1>1, LeavingFields
  <2>2. u = Popped(s, AfterClaim(s, turn[s].got))
    BY <1>4 DEF Popped, AfterClaim
  <2> HIDE DEF u
  <2>3. Turned(turn[s], u, {}, {})
    BY <1>1, <1>4, <2>1, ClaimEmpty
  <2>4. Carried(u) \subseteq Carried(turn[s])
    BY <2>1, SameCarried, NoIds
  <2>5. Moves(s, u, {})
    BY <2>1, <2>3, <2>4 DEF Moves
  <2> QED
    BY <1>2, <1>4, <2>2, <2>5
<1>5. CASE ~(Len(turn[s].todo) > 1) /\ turn[s].got # <<>>
  <2> DEFINE u == AfterClaim(s, turn[s].got)
  <2>1. /\ u.pc = "policy" /\ u.burst = turn[s].got /\ u.got = <<>> /\ u.todo = <<>>
        /\ u.trail = turn[s].trail /\ u.panicked = turn[s].panicked
        /\ u.intr = turn[s].intr /\ u.cancelled = turn[s].cancelled
    BY <1>1, <1>5, AfterClaimFields
  <2>2. u = Popped(s, AfterClaim(s, turn[s].got))
    BY <1>5 DEF Popped
  <2> HIDE DEF u
  <2>3. Turned(turn[s], u, {}, {})
    BY <1>1, <1>2, <2>1, ClaimEnds
  <2>4. Carried(u) \subseteq Carried(turn[s])
    BY <2>1, NoIds DEF Carried
  <2>5. Moves(s, u, {})
    BY <2>1, <2>3, <2>4 DEF Moves
  <2> QED
    BY <1>2, <1>5, <2>2, <2>5
<1> QED
  BY <1>3, <1>4, <1>5

\* The message is claimed: it joins the burst, in which it was not.
LEMMA ClaimMoves ==
    ASSUME IInv, OInv, NEW s \in Scopes, turn[s].pc = "claim",
           row[Head(turn[s].todo).id].st = Pending
    PROVE  LET c == Head(turn[s].todo)
               u == IF Len(turn[s].todo) > 1
                    THEN [turn[s] EXCEPT !.todo = Tail(@), !.got = Append(@, c)]
                    ELSE AfterClaim(s, Append(turn[s].got, c))
           IN /\ Turned(turn[s], u, {}, {c.id}) /\ Carried(u) \subseteq Carried(turn[s])
              /\ u.pc # "popped"
              /\ c.id \in Waiting(turn[s]) /\ Waiting(turn[s]) \subseteq Waiting(u) \cup {c.id}
<1> DEFINE c == Head(turn[s].todo)
           g == Append(turn[s].got, c)
<1>1. /\ turn[s] \in Turns /\ Orderly(turn[s])
      /\ turn[s].todo \in Seq(Copies) /\ turn[s].todo # <<>> /\ turn[s].got \in Seq(Copies)
  BY OwnerAt, WellFormedTurn
<1>2. /\ Waiting(turn[s]) = Ids(turn[s].todo) /\ Distinct(turn[s].got) /\ Hands(turn[s]) = Ids(turn[s].got)
      /\ Ids(turn[s].todo) = {c.id} \cup Ids(Tail(turn[s].todo))
      /\ ~(Len(turn[s].todo) > 1) => Ids(turn[s].todo) = {c.id}
  BY <1>1, ClaimTurn, HeadTailIds
<1>3. c \in Copies
  BY <1>1, SeqFacts
<1>4. c.id \notin Ids(turn[s].got)
  BY <1>2, OwnerAt DEF Terminal, Pending, Processing, Completed, Failed
<1>5. Ids(g) = Ids(turn[s].got) \cup {c.id} /\ Distinct(g)
  BY <1>1, <1>2, <1>3, <1>4, AppendIds
<1>6. g # <<>>
  BY <1>1, <1>3, EmptySeq
<1> HIDE DEF c, g
<1>7. CASE Len(turn[s].todo) > 1
  <2> DEFINE u == [turn[s] EXCEPT !.todo = Tail(turn[s].todo), !.got = g]
  <2>1. /\ u.pc = "claim" /\ u.todo = Tail(turn[s].todo) /\ u.got = g /\ u.burst = turn[s].burst
        /\ u.trail = turn[s].trail /\ u.panicked = turn[s].panicked
        /\ u.intr = turn[s].intr /\ u.cancelled = turn[s].cancelled
    BY <1>1 DEF Turns
  <2>2. u = [turn[s] EXCEPT !.todo = Tail(@), !.got = Append(@, c)]
    BY DEF g
  <2> HIDE DEF u
  <2>3. Turned(turn[s], u, {}, {c.id})
    BY <1>1, <1>5, <2>1, ClaimGoesOn
  <2>4. Carried(u) \subseteq Carried(turn[s])
    BY <1>2, <1>5, <2>1 DEF Carried
  <2>5. Waiting(u) = Ids(Tail(turn[s].todo))
    BY <2>1, WaitingViews
  <2> QED
    BY <1>2, <1>7, <2>1, <2>2, <2>3, <2>4, <2>5 DEF c
<1>8. CASE ~(Len(turn[s].todo) > 1)
  <2> DEFINE u == AfterClaim(s, g)
  <2>1. /\ u.pc = "policy" /\ u.burst = g /\ u.got = <<>> /\ u.todo = <<>>
        /\ u.trail = turn[s].trail /\ u.panicked = turn[s].panicked
        /\ u.intr = turn[s].intr /\ u.cancelled = turn[s].cancelled
    BY <1>1, <1>6, AfterClaimFields
  <2> HIDE DEF u
  <2>2. Turned(turn[s], u, {}, {c.id})
    BY <1>1, <1>5, <2>1, ClaimEnds
  <2>3. Carried(u) \subseteq Carried(turn[s])
    BY <1>2, <1>5, <2>1, NoIds DEF Carried
  <2> QED
    BY <1>2, <1>8, <2>1, <2>2, <2>3 DEF c, g, u
<1> QED
  BY <1>7, <1>8


LEMMA ClaimMessageSum == ASSUME IInv, OInv, NEW s \in Scopes, ClaimMessage(s) PROVE Summary(s)
<1> DEFINE c == Head(turn[s].todo)
           skip == Popped(s, AfterClaim(s, turn[s].got))
           take == IF Len(turn[s].todo) > 1
                   THEN [turn[s] EXCEPT !.todo = Tail(@), !.got = Append(@, c)]
                   ELSE AfterClaim(s, Append(turn[s].got, c))
<1>1. /\ turn[s].pc = "claim" /\ UNCHANGED <<ch, held, delivered>> /\ UNCHANGED queueVars
      /\ shed \subseteq shed'
  BY DEF ClaimMessage
<1>2. c.id \in Items
  BY <1>1, OwnerAt, WellFormedTurn, HeadId
<1>3. /\ Moves(s, skip, {}) /\ Waiting(turn[s]) \subseteq Waiting(skip) \cup {c.id}
  BY <1>1, SkipMoves
<1>4. CASE (Stopping \/ ~Claimable(row, c.id)) /\ Becomes(s, skip) /\ UNCHANGED storeVars
  BY <1>4, <1>1, <1>3, TableStep DEF Rows, storeVars, Stopping, Claimable, Moves
<1>5. CASE /\ Claimable(row, c.id) /\ row' = ClaimPendingMessage(row, c.id) /\ UNCHANGED hit
           /\ Becomes(s, take)
  <2>1. /\ row[c.id].st = Pending /\ row'[c.id].st = Processing
        /\ \A j \in Items \ {c.id} : row'[j].st = row[j].st
    BY <1>2, <1>5, ClaimRow
  <2>2. /\ Turned(turn[s], take, {}, {c.id}) /\ Carried(take) \subseteq Carried(turn[s])
        /\ take.pc # "popped"
        /\ c.id \in Waiting(turn[s]) /\ Waiting(turn[s]) \subseteq Waiting(take) \cup {c.id}
    BY <1>1, <2>1, ClaimMoves
  <2> HIDE DEF c, take
  <2>3. Rows(s, {}, {c.id}) /\ row'[c.id].st # Pending
    BY <2>1 DEF Rows, Processing, Pending
  <2> QED
    BY <1>1, <1>2, <1>5, <2>2, <2>3, TableStep
<1>6. CASE hit' = hit \cup {c.id} /\ Becomes(s, skip) /\ UNCHANGED row
  <2>1. Rows(s, {}, {}) /\ hit \subseteq hit' /\ c.id \in hit'
    BY <1>6 DEF Rows
  <2> HIDE DEF c, skip
  <2> QED
    BY <1>1, <1>3, <1>6, <2>1, TableStep DEF Moves
<1> QED
  BY <1>4, <1>5, <1>6 DEF ClaimMessage

LEMMA ClaimDispatchSum == ASSUME IInv, OInv, NEW s \in Scopes, ClaimDispatch(s) PROVE Summary(s)
<1> DEFINE i == turn[s].burst[1].id
           take == Goto(s, "lease")
<1>1. /\ turn[s].pc = "dclaim" /\ UNCHANGED <<ch, held, delivered>> /\ UNCHANGED queueVars
      /\ shed \subseteq shed' /\ turn[s] \in Turns /\ Orderly(turn[s])
      /\ turn[s].burst \in Seq(Copies) /\ turn[s].burst # <<>>
  BY OwnerAt, WellFormedTurn DEF ClaimDispatch
<1>2. i \in Items
  BY <1>1, HeadId
<1>3. take.pc = "lease" /\ take.todo = turn[s].todo /\ Same(turn[s], take)
  BY <1>1, GotoFields
<1> HIDE DEF take
<1>4. Turned(turn[s], take, {}, {i}) /\ Ids(turn[s].burst) = {i}
  BY <1>1, <1>3, DispatchClaimed
<1>5. Waiting(turn[s]) = {i} /\ Hands(turn[s]) = {}
  BY <1>1, <1>4, WaitingViews, Views, NoIds DEF Hands, Idles
<1>6. Carried(take) \subseteq Carried(turn[s])
  BY <1>3, SameCarried DEF Carried
<1>7. Moves(s, IdleTurn, {})
  BY <1>1, ToIdle DEF Moves, IdleTurn
<1> HIDE DEF i
<1>8. CASE (Stopping \/ ~Claimable(row, i)) /\ Becomes(s, IdleTurn) /\ UNCHANGED storeVars
  BY <1>8, <1>1, <1>5, <1>7, TableStep DEF Rows, storeVars, Stopping, Claimable, Moves
<1>9. CASE /\ Claimable(row, i) /\ row' = ClaimPendingMessage(row, i) /\ UNCHANGED hit
           /\ Becomes(s, take)
  <2>1. /\ row[i].st = Pending /\ row'[i].st = Processing
        /\ \A j \in Items \ {i} : row'[j].st = row[j].st
    BY <1>2, <1>9, ClaimRow
  <2>2. Rows(s, {}, {i}) /\ row'[i].st # Pending
    BY <2>1 DEF Rows, Processing, Pending
  <2> QED
    BY <1>1, <1>2, <1>3, <1>4, <1>5, <1>6, <1>9, <2>2, TableStep
<1>10. CASE hit' = hit \cup {i} /\ Becomes(s, IdleTurn) /\ UNCHANGED row
  BY <1>10, <1>1, <1>5, <1>7, TableStep DEF Rows, Moves
<1> QED
  BY <1>8, <1>9, <1>10 DEF ClaimDispatch, i, take

--------------------
(* The loops over claimed messages *)

\* One message is settled or lost to a failed statement.
LEMMA SettleStep ==
    ASSUME IInv, OInv, NEW s \in Scopes, turn[s].pc \in {"lead", "final", "defer", "trailing"},
           NEW u, Becomes(s, u), NEW i \in Items, Moves(s, u, {i}), Rows(s, {i}, {}),
           UNCHANGED <<ch, held, delivered>>, UNCHANGED queueVars,
           hit \subseteq hit', shed \subseteq shed'
    PROVE  Summary(s)
BY WaitingViews, TableStep DEF Moves

LEMMA PoppedMoves ==
    ASSUME IInv, OInv, NEW s \in Scopes, turn[s].pc \in {"lead", "final", "defer", "trailing"},
           turn[s].todo # <<>>
    PROVE  Moves(s, [turn[s] EXCEPT !.todo = Tail(@)], {Head(turn[s].todo).id})
<1>1. turn[s] \in Turns /\ Orderly(turn[s]) /\ turn[s].todo \in Seq(Copies)
  BY OwnerAt, WellFormedTurn
<1> DEFINE u == [turn[s] EXCEPT !.todo = Tail(@)]
<1>2. u.pc = turn[s].pc /\ u.todo = Tail(turn[s].todo) /\ Same(turn[s], u)
  BY <1>1 DEF Turns, Same
<1> HIDE DEF u
<1>3. Turned(turn[s], u, {Head(turn[s].todo).id}, {})
  BY <1>1, <1>2, LoopGoesOn
<1>4. Ids(Tail(turn[s].todo)) \subseteq Ids(turn[s].todo)
  BY <1>1, HeadTailIds
<1>5. Carried(u) \subseteq Carried(turn[s])
  BY <1>2, <1>4, SameCarried DEF Carried
<1>6. Moves(s, u, {Head(turn[s].todo).id})
  BY <1>2, <1>3, <1>5 DEF Moves
<1> QED
  BY <1>6 DEF u

LEMMA CompleteLeadingAmbientSum == ASSUME IInv, OInv, NEW s \in Scopes, CompleteLeadingAmbient(s) PROVE Summary(s)
BY OwnerAt, WellFormedTurn, HeadId, PoppedMoves, SettleRows, StatusNames,
   SettleStep DEF CompleteLeadingAmbient

LEMMA NarrowBurstSum == ASSUME IInv, OInv, NEW s \in Scopes, NarrowBurst(s) PROVE Summary(s)
<1> DEFINE h == <<Head(turn[s].got)>>
           r == IF turn[s].intr THEN <<>> ELSE Tail(turn[s].got)
           u == [turn[s] EXCEPT !.pc = "lease", !.burst = h, !.got = <<>>, !.trail = r]
           gone == IF turn[s].intr THEN Ids(Tail(turn[s].got)) ELSE {}
<1>1. /\ turn[s].pc = "lead" /\ turn[s].todo = <<>> /\ Becomes(s, u)
      /\ UNCHANGED <<ch, held, delivered>> /\ UNCHANGED queueVars /\ UNCHANGED <<row, hit>>
      /\ shed' = IF turn[s].intr THEN shed \cup Ids(Tail(turn[s].got)) ELSE shed
  BY DEF NarrowBurst
<1>2. /\ turn[s] \in Turns /\ Orderly(turn[s])
      /\ turn[s].got \in Seq(Copies) /\ turn[s].got # <<>>
  BY <1>1, OwnerAt, WellFormedTurn
<1>3. h = <<Head(turn[s].got)>> /\ r = IF turn[s].intr THEN <<>> ELSE Tail(turn[s].got)
  OBVIOUS
<1> HIDE DEF h, r
<1>4. /\ u.pc = "lease" /\ u.burst = h /\ u.got = <<>> /\ u.trail = r /\ u.todo = turn[s].todo
      /\ u.panicked = turn[s].panicked /\ u.intr = turn[s].intr /\ u.cancelled = turn[s].cancelled
  BY <1>2 DEF Turns
<1> HIDE DEF u
<1>5. Turned(turn[s], u, gone, {}) /\ Carried(u) \subseteq Carried(turn[s]) \cup Ids(u.todo)
  BY <1>1, <1>2, <1>3, <1>4, ToNarrow
<1>6. Carried(u) \subseteq Carried(turn[s])
  BY <1>4, <1>5 DEF Carried
<1>7. shed \subseteq shed' /\ gone \subseteq shed'
  BY <1>1
<1> HIDE DEF gone
<1>8. gone \in SUBSET Items
  BY <1>5, OwnerAt DEF Turned
<1>9. Rows(s, gone, {})
  BY <1>1, <1>7 DEF Rows
<1>10. Waiting(turn[s]) = {}
  BY <1>1, WaitingViews
<1> QED
  BY <1>1, <1>4, <1>5, <1>6, <1>7, <1>8, <1>9, <1>10, TableStep

LEMMA FinalizeMessageSum == ASSUME IInv, OInv, NEW s \in Scopes, FinalizeMessage(s) PROVE Summary(s)
<1> DEFINE i == Head(turn[s].todo).id
           stop == [turn[s] EXCEPT !.pc = "end", !.todo = <<>>]
           last == IF turn[s].panicked THEN stop ELSE Leaving(s)
           u == Popped(s, last)
<1>1. /\ turn[s].pc = "final" /\ SetStatus(i, turn[s].target) /\ Becomes(s, u)
      /\ UNCHANGED <<ch, held, delivered>> /\ UNCHANGED queueVars /\ shed \subseteq shed'
  BY DEF FinalizeMessage
<1>2. /\ turn[s] \in Turns /\ Orderly(turn[s]) /\ turn[s].target \in Terminal
      /\ turn[s].todo \in Seq(Copies) /\ turn[s].todo # <<>>
  BY <1>1, OwnerAt, WellFormedTurn
<1>3. i \in Items
  BY <1>2, HeadId
<1>4. Moves(s, u, {i})
  <2>1. CASE Len(turn[s].todo) > 1
    BY <1>1, <1>2, <2>1, PoppedMoves DEF Popped
  <2>2. CASE ~(Len(turn[s].todo) > 1) /\ turn[s].panicked
    BY <1>2, <2>2, <1>1, LoopEnds, NoIds DEF Turns, Popped, Carried, Moves
  <2>3. CASE ~(Len(turn[s].todo) > 1) /\ ~turn[s].panicked
    BY <1>2, LeavingFields, <2>3, <1>1, LoopEndsInTrail, NoIds, SameCarried DEF Popped, Moves
  <2> QED
    BY <2>1, <2>2, <2>3
<1> HIDE DEF i, u
<1>5. Rows(s, {i}, {}) /\ hit \subseteq hit'
  BY <1>1, <1>2, <1>3, SettleRows
<1> QED
  BY <1>1, <1>3, <1>4, <1>5, SettleStep

LEMMA RescheduleMessageSum == ASSUME IInv, OInv, NEW s \in Scopes, RescheduleMessage(s) PROVE Summary(s)
<1> DEFINE c == Head(turn[s].todo)
           u == Popped(s, Leaving(s))
           inc == IncrementMessageRetry(row, {c.id})
<1>1. /\ turn[s].pc = "defer" /\ Becomes(s, u) /\ UNCHANGED <<ch, held, delivered, shed>>
      /\ UNCHANGED <<arrived, phase, rec, ingest, irq>>
  BY DEF RescheduleMessage
<1>2. /\ turn[s] \in Turns /\ Orderly(turn[s]) /\ timers \in Seq(Copies)
      /\ turn[s].todo \in Seq(Copies) /\ turn[s].todo # <<>> /\ ~turn[s].panicked
  BY <1>1, OwnerAt, WellFormedTurn DEF IInv, QueueInv, Orderly
<1>3. c.id \in Items /\ c.retry \in Nat
  BY <1>2, HeadId
<1>4. Moves(s, u, {c.id})
  BY <1>1, <1>2, PoppedMoves, LeavingFields, LoopEndsInTrail, NoIds, SameCarried DEF Popped, Moves
<1>5. c.id \in Unsent(turn[s])
  BY <1>1, <1>4, UnsentViews DEF Moves, Turned
<1>6. turn'[s] = u /\ \A r \in Scopes \ {s} : turn'[r] = turn[r]
  BY <1>1, BecomesAt
<1>7. Waiting(turn[s]) = {}
  BY <1>1, WaitingViews
<1>8. Places(s) /\ Sent(s)
  BY <1>1, <1>4, <1>6, <1>7, OwnerAt DEF Places, Sent, Moves
<1>9. Rows(s, {c.id}, {}) /\ hit \subseteq hit' /\ Ids(timers) \subseteq Ids(timers')
  <2>1. CASE SetStatus(c.id, Failed) /\ UNCHANGED timers
    BY <1>3, <2>1, SettleRows, StatusNames
  <2>2. CASE /\ timers' = Append(timers, Copy(c.id, c.retry + 1))
             /\ \/ row' = UpdateMessageStatus(inc, c.id, Pending) /\ UNCHANGED hit
                \/ hit' = hit \cup {c.id} /\ row' = inc
    <3>1. Copy(c.id, c.retry + 1) \in Copies /\ Copy(c.id, c.retry + 1).id = c.id
      BY <1>3, CopyType DEF Copy
    <3>2. Ids(timers') = Ids(timers) \cup {c.id}
      BY <1>2, <2>2, <3>1, AppendIds
    <3>3. row \in [Items -> Row]
      BY DEF IInv, StoreInv
    <3>4. inc \in [Items -> Row] /\ \A j \in Items : inc[j].st = row[j].st
      BY <3>3, RowOps, StatusNames DEF IncrementMessageRetry, Row
    <3> HIDE DEF inc, c
    <3>5. /\ \A j \in Items \ {c.id} : UpdateMessageStatus(inc, c.id, Pending)[j].st = inc[j].st
          /\ UpdateMessageStatus(inc, c.id, Pending)[c.id].st = Pending
      BY <1>3, <3>4 DEF UpdateMessageStatus, Row
    <3> QED
      BY <1>3, <1>5, <2>2, <3>2, <3>4, <3>5 DEF Rows
  <2> QED
    BY <2>1, <2>2 DEF RescheduleMessage
<1>10. Rest
  BY <1>1, <1>9 DEF Rest
<1> QED
  BY <1>3, <1>4, <1>6, <1>8, <1>9, <1>10 DEF Summary, Moves


LEMMA AfterTrailingMoves ==
    ASSUME IInv, OInv, NEW s \in Scopes, turn[s].pc \in {"trail", "trailing"},
           turn[s].pc = "trailing" => ~(Len(turn[s].todo) > 1)
    PROVE  Moves(s, AfterTrailing(s), Ids(First(turn[s])))
<1>1. /\ turn[s] \in Turns /\ Orderly(turn[s]) /\ turn[s].todo \in Seq(Copies)
      /\ turn[s].pc = "trailing" => turn[s].todo # <<>>
  BY OwnerAt, WellFormedTurn
<1>2. CASE turn[s].panicked
  <2> DEFINE u == Settling(s, Failed)
             v == [u EXCEPT !.trail = <<>>]
  <2>1. u.pc = "final" /\ u.todo = turn[s].burst /\ Same(turn[s], u) /\ u \in Turns
    BY <1>1, SettlingFields, StatusNames
  <2> HIDE DEF u
  <2>2. /\ v.pc = "final" /\ v.todo = turn[s].burst /\ v.trail = <<>> /\ v.burst = turn[s].burst
        /\ v.got = turn[s].got /\ v.cancelled = turn[s].cancelled /\ v.intr = turn[s].intr
    BY <2>1 DEF Turns, Same
  <2>3. AfterTrailing(s) = v
    BY <1>2 DEF AfterTrailing, u
  <2> HIDE DEF v
  <2>4. Turned(turn[s], v, Ids(First(turn[s])), {})
    BY <1>1, <1>2, <2>2, ToLateBurst
  <2>5. Carried(v) \subseteq Carried(turn[s])
    BY <2>2, NoIds DEF Carried
  <2> QED
    BY <2>2, <2>3, <2>4, <2>5 DEF Moves
<1>3. CASE ~turn[s].panicked
  <2> DEFINE u == [turn[s] EXCEPT !.pc = "end", !.trail = <<>>, !.todo = <<>>]
  <2>1. /\ u.pc = "end" /\ u.todo = <<>> /\ u.trail = <<>> /\ u.burst = turn[s].burst
        /\ u.got = turn[s].got /\ u.cancelled = turn[s].cancelled /\ u.intr = turn[s].intr
    BY <1>1 DEF Turns
  <2>2. AfterTrailing(s) = u
    BY <1>3 DEF AfterTrailing
  <2> HIDE DEF u
  <2>3. Turned(turn[s], u, Ids(First(turn[s])), {})
    BY Views, <1>1, <1>3, <2>1, TrailToEnd, HeadTailIds, LoopEnds
  <2>4. Carried(u) \subseteq Carried(turn[s])
    BY <2>1, NoIds DEF Carried
  <2> QED
    BY <2>1, <2>2, <2>3, <2>4 DEF Moves
<1> QED
  BY <1>2, <1>3

LEMMA TakeTrailingSum == ASSUME IInv, OInv, NEW s \in Scopes, TakeTrailing(s) PROVE Summary(s)
<1>1. turn[s].pc = "trail" /\ turn[s] \in Turns /\ Orderly(turn[s])
  BY OwnerAt DEF TakeTrailing
<1>2. Waiting(turn[s]) = {} /\ First(turn[s]) = turn[s].trail
  BY <1>1, WaitingViews, Views
<1>3. CASE turn[s].trail = <<>> \/ (~turn[s].quota /\ Stopping)
  BY <1>1, <1>2, <1>3, AfterTrailingMoves, NoIds, TurnOnly, QuietStep DEF TakeTrailing, Stopping
<1>4. CASE ~(turn[s].trail = <<>> \/ (~turn[s].quota /\ Stopping))
  <2> DEFINE u == [turn[s] EXCEPT !.pc = "trailing", !.todo = turn[s].trail, !.trail = <<>>]
  <2>1. /\ u.pc = "trailing" /\ u.todo = turn[s].trail /\ u.trail = <<>> /\ u.burst = turn[s].burst
        /\ u.got = turn[s].got /\ u.panicked = turn[s].panicked
        /\ u.cancelled = turn[s].cancelled /\ u.intr = turn[s].intr
    BY <1>1 DEF Turns
  <2>2. Becomes(s, u)
    BY <1>4 DEF TakeTrailing
  <2> HIDE DEF u
  <2>3. Turned(turn[s], u, {}, {})
    BY <1>1, <2>1, ToTrailing
  <2>4. Carried(u) \subseteq Carried(turn[s])
    BY <2>1, NoIds DEF Carried
  <2>5. Moves(s, u, {})
    BY <2>1, <2>3, <2>4 DEF Moves
  <2> QED
    BY <1>2, <2>2, <2>5, TurnOnly, QuietStep DEF TakeTrailing
<1> QED
  BY <1>3, <1>4

LEMMA EnqueuedAt ==
    ASSUME IInv, NEW c \in Copies, NEW s \in Scopes
    PROVE  /\ Ids(Enqueued(c)[s]) \subseteq Ids(ch[s]) \cup (IF ScopeOf[c.id] = s THEN {c.id} ELSE {})
           /\ Ids(ch[s]) \subseteq Ids(Enqueued(c)[s])
           /\ phase = "live" /\ ScopeOf[c.id] = s => c.id \in Ids(Enqueued(c)[s])
           /\ ScopeOf[c.id] # s => Enqueued(c)[s] = ch[s]
BY AppendIds DEF IInv, ChanInv, Enqueued

LEMMA HandleTrailingSum == ASSUME IInv, OInv, NEW s \in Scopes, HandleTrailing(s) PROVE Summary(s)
<1> DEFINE c == Head(turn[s].todo)
           i == c.id
           u == Popped(s, AfterTrailing(s))
           d == [c EXCEPT !.wake = FALSE]
<1>1. /\ turn[s].pc = "trailing" /\ Becomes(s, u)
      /\ UNCHANGED <<held, delivered, shed>> /\ UNCHANGED queueVars
  BY DEF HandleTrailing
<1>2. /\ turn[s] \in Turns /\ Orderly(turn[s])
      /\ turn[s].todo \in Seq(Copies) /\ turn[s].todo # <<>>
  BY <1>1, OwnerAt, WellFormedTurn
<1>3. c \in Copies /\ i \in Items
  BY <1>2, SeqFacts, HeadId
<1>4. Moves(s, u, {i}) /\ i \in Unsent(turn[s])
  <2>0. First(turn[s]) = turn[s].todo /\ i \in Unsent(turn[s])
    BY <1>1, <1>2, Views, UnsentViews, HeadTailIds
  <2>1. CASE Len(turn[s].todo) > 1
    BY <1>1, <1>2, <2>0, <2>1, PoppedMoves DEF Popped
  <2>2. CASE ~(Len(turn[s].todo) > 1)
    <3>1. Ids(First(turn[s])) = {i}
      BY <1>2, <2>0, <2>2, HeadTailIds
    <3>2. u = AfterTrailing(s)
      BY <2>2 DEF Popped
    <3> QED
      BY <1>1, <2>0, <2>2, <3>1, <3>2, AfterTrailingMoves
  <2> QED
    BY <2>1, <2>2
<1> HIDE DEF u
<1>5. CASE (SetStatus(i, Failed) \/ SetStatus(i, Completed)) /\ UNCHANGED ch
  BY <1>3, <1>5, SettleRows, StatusNames, <1>1, <1>4, SettleStep
<1>6. CASE SetStatus(i, Pending) /\ ch' = Enqueued(d)
  <2>1. d \in Copies /\ d.id = i
    BY <1>3 DEF Copies
  <2>2. i \in Of(s) /\ ScopeOf[i] = s
    BY <1>4, UnsentViews, HandsCarried, OwnerAt DEF Of
  <2> HIDE DEF d, i
  <2>3. /\ Ids(ch'[s]) \subseteq Ids(ch[s]) \cup {i} /\ Ids(ch[s]) \subseteq Ids(ch'[s])
        /\ phase = "live" => i \in Ids(ch'[s])
        /\ \A r \in Scopes \ {s} : ch'[r] = ch[r]
    BY <1>6, <2>1, <2>2, EnqueuedAt
  <2>4. Rows(s, {i}, {}) /\ hit \subseteq hit'
    BY <1>3, <1>6, SetStatusRow, <1>4, <2>3 DEF Rows
  <2>5. turn'[s] = u /\ \A r \in Scopes \ {s} : turn'[r] = turn[r]
    BY <1>1, BecomesAt
  <2>6. Waiting(turn[s]) = {} /\ i \in Carried(turn[s])
    BY <1>1, <1>4, WaitingViews, UnsentViews, HandsCarried
  <2>7. Places(s)
    BY <1>1, <1>4, <2>3, <2>5, <2>6, OwnerAt DEF Places, Moves
  <2>8. Sent(s) /\ Rest
    BY <1>1, <2>4 DEF Sent, Rest, queueVars
  <2> QED
    BY <1>3, <1>4, <2>4, <2>5, <2>7, <2>8 DEF Summary, Moves
<1> QED
  BY <1>5, <1>6 DEF HandleTrailing

LEMMA EndTurnSum == ASSUME IInv, OInv, NEW s \in Scopes, EndTurn(s) PROVE Summary(s)
<1>1. turn[s].pc = "end" /\ Becomes(s, IdleTurn)
  BY DEF EndTurn
<1>2. Hands(turn[s]) = {} /\ Waiting(turn[s]) = {}
  BY <1>1, Views, WaitingViews, NoIds DEF Hands, Idles
<1>3. /\ Turned(turn[s], IdleTurn, {}, {}) /\ Carried(IdleTurn) = {} /\ IdleTurn.pc = "idle"
  BY <1>1, OwnerAt, ToIdle DEF IdleTurn
<1>4. turn'[s] = IdleTurn /\ \A r \in Scopes \ {s} : turn'[r] = turn[r]
  BY <1>1, BecomesAt
<1>5. irq \in Irqs
  BY DEF IInv, QueueInv
<1>6. Rest
  BY <1>5 DEF Rest, EndTurn, Irqs
<1>7. Rows(s, {}, {}) /\ Sent(s)
  BY DEF Rows, Sent, EndTurn
<1>8. Places(s)
  BY <1>2, <1>3, <1>4, OwnerAt DEF Places, EndTurn
<1> QED
  BY <1>3, <1>4, <1>6, <1>7, <1>8 DEF Summary

LEMMA WorkerSum == ASSUME IInv, OInv, NEW s \in Scopes, Worker(s) PROVE Summary(s)
  BY PopSum, DrainBurstMessagesSum, BeginTurnSum, ClaimMessageSum, ClaimDispatchSum,
     ResolveTurnPolicySum, AmbientTriageSum, CompleteLeadingAmbientSum, NarrowBurstSum,
     AcquirePoolAndLeaseSum, RunPreTurnHookSum, RescheduleMessageSum, StartAttemptSum,
     ExecuteLeaseAttemptSum, PanicSum, DeliverSuccessSum, AutoResumeSum, QuotaPauseSum,
     FailureSum, BackoffElapsesSum, BackoffCancelledSum, FinalizeMessageSum,
     TakeTrailingSum, HandleTrailingSum, EndTurnSum DEF Worker


--------------------
(* The invariant is kept by the workers *)

LEMMA WorkerGuards ==
    ASSUME NEW s \in Scopes, Worker(s)
    PROVE  (turn[s].pc = "idle" => Pop(s)) /\ (turn[s].pc = "end" => EndTurn(s))
  BY DEF Worker, DrainBurstMessages, BeginTurn, ClaimMessage, ClaimDispatch, ResolveTurnPolicy,
         AmbientTriage, CompleteLeadingAmbient, NarrowBurst, AcquirePoolAndLease, RunPreTurnHook,
         RescheduleMessage, StartAttempt, ExecuteLeaseAttempt, Panic, DeliverSuccess, AutoResume,
         QuotaPause, CapacityBlip, WatchdogFailure, TransientFailure, NonTransientFailure,
         BackoffElapses, BackoffCancelled, FinalizeMessage, TakeTrailing, HandleTrailing, Pop, EndTurn

LEMMA WorkerLive ==
    ASSUME OInv, NEW s \in Scopes, Worker(s)
    PROVE  phase \notin {"down", "held"}
<1> SUFFICES ASSUME phase \in {"down", "held"} PROVE FALSE
  OBVIOUS
<1>1. turn[s] = IdleTurn
  BY DEF OInv, LifeInv
<1>2. turn[s].pc = "idle"
  BY <1>1 DEF IdleTurn
<1>3. Pop(s)
  BY <1>2, WorkerGuards
<1> QED
  BY <1>3 DEF Pop

LEMMA EndLeaves ==
    ASSUME IInv, NEW s \in Scopes, Worker(s), turn[s].pc = "end"
    PROVE  s \notin irq'.turns
BY WorkerGuards DEF IInv, QueueInv, EndTurn, Irqs

LEMMA IrqAt ==
    ASSUME IInv
    PROVE  /\ irq \in Irqs /\ irq.turns \subseteq Scopes /\ irq.chans \subseteq Scopes
           /\ irq.ids \subseteq Items /\ irq.back \in Seq(Copies) /\ irq.thread \in Threads
  BY DEF IInv, QueueInv, Irqs

LEMMA WorkerOInv ==
    ASSUME IInv, OInv, NEW s \in Scopes, Worker(s)
    PROVE  OInv'
<1>1. Summary(s)
  BY WorkerSum
<1>2. PICK gone \in SUBSET Items, new \in SUBSET Items :
        /\ Turned(turn[s], turn'[s], gone, new) /\ Rows(s, gone, new)
        /\ new \subseteq Waiting(turn[s])
  BY <1>1 DEF Summary
<1>3. Places(s) /\ Rest /\ \A r \in Scopes \ {s} : turn'[r] = turn[r]
  BY <1>1 DEF Summary
<1>4. gone \subseteq Of(s) /\ new \subseteq Of(s) /\ Hands(turn[s]) \subseteq Items
  BY <1>2, OwnerAt, HandsCarried DEF Turned
<1>5. Owner(s)'
  BY <1>2, <1>3, OwnerAt, <1>4 DEF Turned, Places, Rows, Disturbed, Rest, Owner, Homely, Claimed
<1>6. ASSUME NEW r \in Scopes, r # s PROVE Owner(r)'
  BY <1>3, <1>6, OwnerAt, HandsCarried, <1>4, <1>2 DEF Places, Of, Rows, Rest, Disturbed, Owner,
     Homely, Claimed
<1>7. IrqInv'
  BY IrqAt, <1>3, <1>2, EndLeaves DEF OInv, Rest, IrqInv, Turned
<1>8. LifeInv'
  BY <1>3, WorkerLive DEF OInv, LifeInv, Rest
<1> QED
  BY <1>5, <1>6, <1>7, <1>8 DEF OInv


--------------------
(* The invariant is kept by everybody else *)

\* What a step of somebody else leaves of the turn of s.
Kept(s) ==
    /\ Orderly(turn'[s]) /\ turn'[s].pc = turn[s].pc /\ (turn[s].intr => turn'[s].intr)
    /\ Hands(turn'[s]) \subseteq Hands(turn[s]) /\ Unsent(turn'[s]) \subseteq Unsent(turn[s])
    /\ Carried(turn'[s]) \subseteq Carried(turn[s]) /\ Waiting(turn'[s]) = Waiting(turn[s])
    /\ Hands(turn[s]) \subseteq Hands(turn'[s]) \cup irq'.ids

LEMMA OthersOwner ==
    ASSUME IInv, OInv, \A s \in Scopes : Kept(s), UNCHANGED held,
           \A s \in Scopes : Ids(ch'[s]) \subseteq Of(s),
           \A s \in Scopes : Disturbed(s) /\ Hands(turn[s]) # {} => Disturbed(s)',
           \A s \in Scopes : \A i \in Hands(turn[s]) :
              row'[i].st = row[i].st \/ (row'[i].st \in Terminal /\ Disturbed(s)')
    PROVE  \A s \in Scopes : Owner(s)'
BY OwnerAt DEF Kept, Owner, Homely, Claimed

LEMMA SameKept == ASSUME IInv, OInv, UNCHANGED turn PROVE \A s \in Scopes : Kept(s)
  BY OwnerAt DEF Kept

LEMMA SameDisturbed ==
    ASSUME UNCHANGED <<turn, irq>>
    PROVE  \A s \in Scopes : Disturbed(s)' <=> Disturbed(s)
  BY DEF Disturbed

LEMMA ChannelsHome == ASSUME IInv, OInv PROVE \A s \in Scopes : Ids(ch[s]) \subseteq Of(s)
  BY OwnerAt

LEMMA EnqueuedHome ==
    ASSUME IInv, OInv, NEW c \in Copies
    PROVE  \A s \in Scopes : Ids(Enqueued(c)[s]) \subseteq Of(s)
BY CopyFields, EnqueuedAt, ChannelsHome DEF Of

\* Rows in somebody's hands are PROCESSING or settled.
LEMMA HandsLate ==
    ASSUME IInv, OInv, NEW s \in Scopes, NEW i \in Hands(turn[s])
    PROVE  i \in Items /\ ScopeOf[i] = s /\ row[i].st \notin {Absent, Pending}
BY OwnerAt, HandsCarried DEF Of, Terminal, Processing, Pending, Absent, Completed, Failed

LEMMA SubmitOInv == ASSUME IInv, OInv, NEW i \in Items, Submit(i) PROVE OInv'
<1>1. row \in [Items -> Row]
  BY DEF IInv, StoreInv
<1>2. \A j \in Items : row[j].st # Absent => row'[j] = row[j]
  BY <1>1 DEF Submit, InsertMessage, Row
<1>3. \A s \in Scopes : \A j \in Hands(turn[s]) : row'[j].st = row[j].st
  BY <1>2, HandsLate
<1>4. \A s \in Scopes : Owner(s)'
  BY <1>3, SameKept, SameDisturbed, ChannelsHome, OthersOwner DEF Submit
<1> QED
  BY <1>4 DEF OInv, IrqInv, LifeInv, Submit

LEMMA EnqueueOInv ==
    ASSUME IInv, OInv, NEW c \in Copies, ch' = Enqueued(c),
           UNCHANGED <<row, phase, held, turn, irq>>,
           rec'.pc = rec.pc
    PROVE  OInv'
BY SameKept, SameDisturbed, EnqueuedHome, OthersOwner DEF OInv, IrqInv, LifeInv

\* Steps that touch neither turns, channels nor rows.
LEMMA QuietOInv ==
    ASSUME IInv, OInv, UNCHANGED <<row, turn, ch, held>>, UNCHANGED irq, LifeInv'
    PROVE  OInv'
BY SameKept, SameDisturbed, ChannelsHome, OthersOwner DEF OInv, IrqInv

LEMMA HandlerEnqueueOInv == ASSUME IInv, OInv, NEW i \in Items, HandlerEnqueue(i) PROVE OInv'
BY CopyType, EnqueueOInv DEF HandlerEnqueue

LEMMA TimerFiresOInv == ASSUME IInv, OInv, NEW k \in DOMAIN timers, TimerFires(k) PROVE OInv'
BY EnqueueOInv DEF IInv, QueueInv, TimerFires

LEMMA IdleOInv ==
    ASSUME IInv, LoseMemory, UNCHANGED row, phase' = "down"
    PROVE  OInv'
<1>1. ASSUME NEW s \in Scopes PROVE Owner(s)'
  BY IdleOrderly, NoIds DEF LoseMemory, Owner, Homely, Claimed, Brief
<1>2. IrqInv'
  BY NoIds DEF LoseMemory, IrqInv, NoIrq
<1>3. LifeInv'
  BY DEF LoseMemory, LifeInv, NoRec
<1> QED
  BY <1>1, <1>2, <1>3 DEF OInv

LEMMA LifeOInv == ASSUME IInv, OInv, Start \/ Stop \/ Exit \/ Crash \/ QuotaExpires PROVE OInv'
BY QuietOInv, IdleOInv DEF OInv, LifeInv, Start, Stop, QuotaExpires, Exit, Crash


\* Before the hold is released no row is in anybody's hands.
LEMMA HeldIdle ==
    ASSUME OInv, phase \in {"down", "held"}, NEW s \in Scopes
    PROVE  Hands(turn[s]) = {} /\ turn[s] = IdleTurn
  BY IdleOrderly DEF OInv, LifeInv

LEMMA RecoverQueryOInv ==
    ASSUME IInv, OInv, NEW kind, NEW from, NEW to \in {"msgs", "disps"}, RecoverQuery(kind, from, to)
    PROVE  OInv'
BY QuietOInv DEF IInv, QueueInv, RecoverQuery, Recs, OInv, LifeInv

LEMMA RecoverRowOInv == ASSUME IInv, OInv, RecoverRow PROVE OInv'
BY HeldIdle, SameKept, SameDisturbed, ChannelsHome, OthersOwner DEF IInv, QueueInv, OInv, LifeInv,
   RecoverRow, Recs, IrqInv

LEMMA ReleaseLeaderHoldOInv == ASSUME IInv, OInv, ReleaseLeaderHold PROVE OInv'
BY QuietOInv DEF IInv, QueueInv, ReleaseLeaderHold, Recs, LifeInv

LEMMA MergeOInv ==
    ASSUME IInv, OInv, NEW kind, NEW from \in {"merge", "mergeDisps"},
           NEW to \in {"mergeDisps", "enqueue"}, MergeHeldPendingEntries(kind, from, to)
    PROVE  OInv'
BY QuietOInv DEF IInv, QueueInv, MergeHeldPendingEntries, Recs, OInv, LifeInv

LEMMA RecoverEnqueueOInv == ASSUME IInv, OInv, RecoverEnqueue PROVE OInv'
<1>1. rec \in Recs /\ rec.ready \subseteq Copies
  BY DEF IInv, QueueInv, Recs
<1>2. CASE rec' = NoRec /\ UNCHANGED ch
  BY <1>2, QuietOInv DEF OInv, LifeInv, RecoverEnqueue, NoRec
<1>3. CASE \E c \in rec.ready : rec' = [rec EXCEPT !.ready = @ \ {c}] /\ ch' = Enqueued(c)
  BY <1>3, <1>1, EnqueueOInv DEF Recs, RecoverEnqueue
<1> QED
  BY <1>2, <1>3 DEF RecoverEnqueue

LEMMA RecoveryOInv == ASSUME IInv, OInv, Recovery PROVE OInv'
  BY RecoverQueryOInv, RecoverRowOInv, ReleaseLeaderHoldOInv, MergeOInv, RecoverEnqueueOInv
     DEF Recovery

--------------------
(* Operator commands *)

\* A flag is set.
LEMMA MarkKept ==
    ASSUME IInv, OInv, NEW s \in Scopes, NEW u, turn'[s] = u,
           u.pc = turn[s].pc, u.burst = turn[s].burst, u.todo = turn[s].todo,
           u.got = turn[s].got, u.trail = turn[s].trail, u.panicked = turn[s].panicked,
           turn[s].intr => u.intr, u.cancelled => u.intr,
           u.intr => u.pc \notin {"idle", "popped", "drained", "dclaim"}
    PROVE  Kept(s)
<1>1. Orderly(turn[s])
  BY OwnerAt
<1>2. First(u) = First(turn[s]) /\ Second(u) = Second(turn[s])
  BY DEF First, Second, Late
<1>3. /\ Hands(u) = Hands(turn[s]) /\ Carried(u) = Carried(turn[s]) /\ Waiting(u) = Waiting(turn[s])
      /\ Unsent(u) = Unsent(turn[s])
  BY <1>2 DEF Hands, Carried, Waiting, Unsent
<1>4. Orderly(u)
  BY <1>1, <1>2 DEF Orderly
<1> QED
  BY <1>3, <1>4 DEF Kept

\* The trailing messages are taken from an interrupted turn.
LEMMA CutKept ==
    ASSUME IInv, OInv, NEW s \in Scopes, NEW u, turn'[s] = u,
           u.pc = turn[s].pc, u.burst = turn[s].burst, u.todo = turn[s].todo,
           u.got = turn[s].got, u.trail = <<>>, u.panicked = turn[s].panicked,
           u.intr = turn[s].intr, u.cancelled = turn[s].cancelled,
           Ids(turn[s].trail) \subseteq irq'.ids
    PROVE  Kept(s)
<1>1. Orderly(turn[s])
  BY OwnerAt
<1>2. First(u) \in {First(turn[s]), <<>>} /\ Second(u) \in {Second(turn[s]), <<>>}
  BY DEF First, Second, Late
<1>3. /\ Ids(First(u)) \subseteq Ids(First(turn[s])) /\ Ids(Second(u)) \subseteq Ids(Second(turn[s]))
      /\ Distinct(First(u)) /\ Distinct(Second(u))
  BY <1>1, <1>2, NoIds DEF Orderly
<1>4. /\ Hands(u) \subseteq Hands(turn[s]) /\ Carried(u) \subseteq Carried(turn[s])
      /\ Waiting(u) = Waiting(turn[s]) /\ Unsent(u) \subseteq Unsent(turn[s])
  BY <1>3, NoIds DEF Hands, Carried, Waiting, Unsent
<1>5. Orderly(u)
  BY <1>1, <1>3 DEF Orderly
<1>6. Hands(turn[s]) \subseteq Hands(u) \cup Ids(turn[s].trail)
  BY DEF First, Second, Late, Hands
<1> QED
  BY <1>4, <1>5, <1>6 DEF Kept

LEMMA ActiveAre ==
    ASSUME NEW t, NEW s \in ActiveTurns(t)
    PROVE  s \in Scopes /\ ThreadOf[s] = t /\ turn[s].pc \notin {"idle", "popped", "drained", "dclaim"}
  BY DEF ActiveTurns, Registered

LEMMA InterruptThreadKept ==
    ASSUME IInv, OInv, NEW t \in Threads, NEW drain \in BOOLEAN, InterruptThread(t, drain), NEW s \in Scopes
    PROVE  Kept(s) /\ (s \in ActiveTurns(t) => turn'[s].intr)
<1>1. turn[s] \in Turns /\ Orderly(turn[s])
  BY OwnerAt
<1>2. CASE s \in ActiveTurns(t)
  BY <1>2, <1>1, MarkKept, ActiveAre DEF InterruptThread, Latched, Turns
<1>3. CASE s \notin ActiveTurns(t)
  BY <1>3, <1>1 DEF InterruptThread, Latched, Kept
<1> QED
  BY <1>2, <1>3

LEMMA InterruptThreadOInv ==
    ASSUME IInv, OInv, NEW t \in Threads, NEW drain \in BOOLEAN, InterruptThread(t, drain)
    PROVE  OInv'
<1>1. irq' = [NoIrq(t) EXCEPT !.pc = "snap", !.drain = drain, !.turns = ActiveTurns(t)]
  BY DEF InterruptThread
<1>2. /\ irq'.pc = "snap" /\ irq'.thread = t /\ irq'.turns = ActiveTurns(t)
      /\ irq'.ids = {} /\ irq'.chans = {} /\ irq'.back = <<>>
  BY <1>1 DEF NoIrq
<1>3. ASSUME NEW s \in Scopes
      PROVE  Kept(s) /\ (s \in ActiveTurns(t) => turn'[s].intr)
  BY InterruptThreadKept
<1>4. \A s \in Scopes : Disturbed(s) => Disturbed(s)'
  BY <1>3 DEF InterruptThread, Disturbed, Kept
<1>5. \A s \in Scopes : Owner(s)'
  BY <1>3, <1>4, ChannelsHome, OthersOwner DEF InterruptThread, memoryVars
<1>6. IrqInv'
  BY <1>2, <1>3, NoIds, ActiveAre DEF IrqInv
<1>7. LifeInv'
  BY HeldIdle, IdleOrderly, ActiveAre DEF InterruptThread, Latched, OInv, LifeInv, memoryVars
<1> QED
  BY <1>5, <1>6, <1>7 DEF OInv

LEMMA RotateOInv == ASSUME IInv, OInv, NEW t \in Threads, Rotate(t) PROVE OInv'
BY SameKept, ChannelsHome, OthersOwner, NoIds DEF Rotate, NoIrq, Disturbed, memoryVars, IrqInv,
   OInv, LifeInv

\* What an interrupt takes from the turns it has latched.
Snapped == {s \in irq.turns : ~IsDispatch(s)}

LEMMA LatchFields ==
    ASSUME IInv, LatchActiveTurns
    PROVE  irq'.ids = LET burst == UNION {Ids(turn[s].burst) : s \in Snapped}
                          trail == UNION {Ids(turn[s].trail) : s \in Snapped}
                      IN IF irq.drain THEN burst \cup trail ELSE burst
<1>1. irq \in Irqs
  BY IrqAt
<1> QED
  BY <1>1 DEF LatchActiveTurns, Irqs, Snapped

LEMMA LatchActiveTurnsKept ==
    ASSUME IInv, OInv, LatchActiveTurns, NEW s \in Scopes
    PROVE  Kept(s) /\ turn'[s].intr = turn[s].intr
<1> DEFINE T == {r \in irq.turns : ~IsDispatch(r)}
<1>1. turn[s] \in Turns /\ Orderly(turn[s])
  BY OwnerAt
<1>2. CASE irq.drain /\ s \in T
  <2> DEFINE u == [turn[s] EXCEPT !.trail = <<>>]
  <2>1. turn'[s] = u
    BY <1>2 DEF LatchActiveTurns
  <2>2. /\ u.pc = turn[s].pc /\ u.burst = turn[s].burst /\ u.todo = turn[s].todo
        /\ u.got = turn[s].got /\ u.trail = <<>> /\ u.panicked = turn[s].panicked
        /\ u.intr = turn[s].intr /\ u.cancelled = turn[s].cancelled
    BY <1>1 DEF Turns
  <2>3. Ids(turn[s].trail) \subseteq irq'.ids
    BY <1>2, LatchFields DEF Snapped
  <2> HIDE DEF u
  <2> QED
    BY <2>1, <2>2, <2>3, CutKept
<1>3. CASE ~(irq.drain /\ s \in T)
  BY <1>3, <1>1 DEF LatchActiveTurns, Kept
<1> QED
  BY <1>2, <1>3

LEMMA LatchActiveTurnsOInv == ASSUME IInv, OInv, LatchActiveTurns PROVE OInv'
<1> DEFINE T == {s \in irq.turns : ~IsDispatch(s)}
           burst == UNION {Ids(turn[s].burst) : s \in T}
           trail == UNION {Ids(turn[s].trail) : s \in T}
<1>1. /\ irq \in Irqs /\ irq.turns \subseteq Scopes /\ irq.pc = "snap" /\ IrqInv
  BY IrqAt DEF OInv, LatchActiveTurns
<1>2. /\ irq'.pc = (IF irq.drain THEN "chans" ELSE "fail") /\ irq'.thread = irq.thread
      /\ irq'.ids = (IF irq.drain THEN burst \cup trail ELSE burst) /\ irq'.turns = irq.turns
      /\ irq'.chans = (IF irq.drain THEN {s \in Scopes : ThreadOf[s] = irq.thread} ELSE {})
      /\ irq'.back = irq.back
  BY <1>1 DEF LatchActiveTurns, Irqs
<1>3. ASSUME NEW s \in Scopes
      PROVE  Kept(s) /\ turn'[s].intr = turn[s].intr
  BY LatchActiveTurnsKept
<1>4. \A s \in Scopes : Disturbed(s) => Disturbed(s)'
  BY <1>2, <1>3 DEF Disturbed
<1>5. \A s \in Scopes : Owner(s)'
  BY <1>3, <1>4, ChannelsHome, OthersOwner DEF LatchActiveTurns, memoryVars, storeVars
<1>6. IrqInv'
  BY <1>1, OwnerAt, <1>3, <1>2, NoIds DEF Carried, IrqInv, Of
<1>7. LifeInv'
  <2>1. ASSUME phase \in {"down", "held"}, NEW s \in Scopes PROVE s \notin irq.turns
    BY <2>1, HeldIdle, <1>1 DEF IdleTurn, IrqInv
  <2>2. ASSUME phase \in {"down", "held"}, NEW s \in Scopes PROVE turn'[s] = turn[s]
    BY <2>1, <2>2 DEF LatchActiveTurns
  <2> QED
    BY <2>2 DEF OInv, LifeInv, LatchActiveTurns, memoryVars
<1> QED
  BY <1>5, <1>6, <1>7 DEF OInv

LEMMA DrainChannelMessagesOInv ==
    ASSUME IInv, OInv, NEW s \in Scopes, DrainChannelMessages(s)
    PROVE  OInv'
<1>1. /\ irq \in Irqs /\ irq.pc = "chans" /\ s \in irq.chans /\ IrqInv
      /\ ch \in [Scopes -> Seq(Copies)] /\ ThreadOf[s] = irq.thread
      /\ irq.back \in Seq(Copies) /\ \A i \in Ids(irq.back) : ScopeOf[i] = s
  BY IrqAt DEF OInv, DrainChannelMessages, IInv, ChanInv, IrqInv
<1>2. UNCHANGED <<row, turn, held, phase, rec>>
  BY DEF DrainChannelMessages, memoryVars, storeVars
<1>3. /\ irq'.pc = irq.pc /\ irq'.thread = irq.thread /\ irq'.turns = irq.turns
      /\ \A r \in Scopes : Ids(ch'[r]) \subseteq Of(r)
      /\ irq'.chans \subseteq irq.chans
      /\ \A i \in irq'.ids \ irq.ids : ScopeOf[i] = s
      /\ \A i \in Ids(irq'.back) : ScopeOf[i] = s /\ s \in irq'.chans
  <2>1. CASE ch[s] # <<>>
    <3> DEFINE c == Head(ch[s])
    <3>1. ch' = [ch EXCEPT ![s] = Tail(@)]
      BY <2>1 DEF DrainChannelMessages
    <3>2. irq' = IF c.id \in Msgs THEN [irq EXCEPT !.ids = @ \cup {c.id}]
                 ELSE [irq EXCEPT !.back = Append(@, c)]
      BY <2>1 DEF DrainChannelMessages
    <3>3. c \in Copies /\ Ids(ch[s]) = {c.id} \cup Ids(Tail(ch[s]))
      BY <1>1, <2>1, HeadTailIds, EmptySeq
    <3>4. Ids(ch[s]) \subseteq Of(s)
      BY ChannelsHome
    <3>5. ScopeOf[c.id] = s
      BY <3>3, <3>4 DEF Of
    <3>6. \A r \in Scopes : Ids(ch'[r]) \subseteq Of(r)
      BY <1>1, <3>1, <3>3, <3>4, ChannelsHome
    <3> HIDE DEF c
    <3>7. CASE c.id \in Msgs
      BY <1>1, <3>2, <3>7, <3>5, <3>6 DEF Irqs
    <3>8. CASE c.id \notin Msgs
      BY <1>1, <3>2, <3>8, <3>3, AppendIds, <3>5, <3>6 DEF Irqs
    <3> QED
      BY <3>7, <3>8
  <2>2. CASE ch[s] = <<>>
    <3>1. /\ ch' = [ch EXCEPT ![s] = irq.back]
          /\ irq' = [irq EXCEPT !.chans = @ \ {s}, !.back = <<>>]
      BY <2>2 DEF DrainChannelMessages
    <3>2. /\ irq'.pc = irq.pc /\ irq'.thread = irq.thread /\ irq'.turns = irq.turns
          /\ irq'.chans = irq.chans \ {s} /\ irq'.back = <<>> /\ irq'.ids = irq.ids
      BY <1>1, <3>1 DEF Irqs
    <3>3. ASSUME NEW r \in Scopes PROVE Ids(ch'[r]) \subseteq Of(r)
      BY <1>1, <3>1, IdsType, ChannelsHome DEF Of
    <3> QED
      BY <3>2, <3>3, NoIds
  <2> QED
    BY <2>1, <2>2
<1>4. \A r \in Scopes : Disturbed(r) => Disturbed(r)'
  BY <1>2, <1>3 DEF Disturbed
<1>5. \A r \in Scopes : Owner(r)'
  BY <1>2, <1>3, <1>4, SameKept, OthersOwner
<1>6. IrqInv'
  BY <1>1, <1>2, <1>3 DEF IrqInv
<1> QED
  BY <1>2, <1>5, <1>6 DEF OInv, LifeInv

\* Steps of the operator that write rows of its own thread and leave the turns alone.
LEMMA OperatorWrites ==
    ASSUME IInv, OInv, UNCHANGED <<turn, ch>>, UNCHANGED memoryVars,
           irq'.pc # "idle", irq.pc # "idle", irq'.thread = irq.thread, IrqInv',
           \A i \in Items : \/ row'[i].st = row[i].st
                            \/ row'[i].st \in Terminal /\ ThreadOf[ScopeOf[i]] = irq.thread
    PROVE  OInv'
BY HandsLate, SameKept, ChannelsHome, OthersOwner DEF Disturbed, memoryVars, OInv, LifeInv

LEMMA UnlockPoolOInv == ASSUME IInv, OInv, UnlockPool PROVE OInv'
<1>1. irq \in Irqs /\ IrqInv /\ irq.pc = "chans" /\ irq.chans = {}
  BY IrqAt DEF OInv, UnlockPool
<1>2. /\ irq'.pc = "fail" /\ irq'.thread = irq.thread /\ irq'.turns = irq.turns
      /\ irq'.chans = irq.chans /\ irq'.back = irq.back /\ irq'.ids = irq.ids
  BY <1>1 DEF UnlockPool, Irqs
<1>3. irq.back = <<>>
  <2>1. irq.back \in Seq(Copies) /\ Ids(irq.back) = {}
    BY <1>1, IrqAt DEF IrqInv
  <2> QED
    BY <2>1, HeadTailIds
<1>4. IrqInv'
  BY <1>1, <1>2, <1>3 DEF IrqInv, UnlockPool
<1> QED
  BY <1>1, <1>2, <1>4, OperatorWrites DEF UnlockPool, storeVars

LEMMA InterruptFailOInv == ASSUME IInv, OInv, InterruptFail PROVE OInv'
BY IrqAt, SetStatusRow, OperatorWrites DEF OInv, InterruptFail, Irqs, IrqInv, Terminal

LEMMA DrainThreadPendingMessagesOInv ==
    ASSUME IInv, OInv, DrainThreadPendingMessages
    PROVE  OInv'
<1>1. irq \in Irqs /\ IrqInv /\ irq.pc = "fail" /\ irq.ids = {}
  BY IrqAt DEF OInv, DrainThreadPendingMessages
<1>2. /\ irq'.pc = "drain" /\ irq'.thread = irq.thread /\ irq'.turns = irq.turns
      /\ irq'.chans = irq.chans /\ irq'.back = irq.back
      /\ \A i \in irq'.ids : ThreadOf[ScopeOf[i]] = irq.thread
  <2>1. CASE irq' = [irq EXCEPT !.pc = "drain",
                       !.ids = {i \in Msgs : /\ ThreadOf[ScopeOf[i]] = irq.thread
                                             /\ row[i].st \in Live}]
    BY <1>1, <2>1 DEF Irqs
  <2>2. CASE irq' = [irq EXCEPT !.pc = "drain"]
    BY <1>1, <2>2 DEF Irqs
  <2> QED
    BY <2>1, <2>2 DEF DrainThreadPendingMessages
<1>3. IrqInv'
  BY <1>1, <1>2 DEF IrqInv, DrainThreadPendingMessages
<1> QED
  BY <1>1, <1>2, <1>3, OperatorWrites DEF DrainThreadPendingMessages

LEMMA CancelTurnsKept ==
    ASSUME IInv, OInv, CancelTurns, NEW s \in Scopes
    PROVE  Kept(s) /\ (turn[s] = IdleTurn => turn'[s] = turn[s])
<1>0. irq.turns \subseteq Scopes /\ IrqInv
  BY IrqAt DEF OInv
<1>1. turn[s] \in Turns /\ Orderly(turn[s])
  BY OwnerAt
<1>2. CASE s \in irq.turns
  BY <1>2, <1>1, <1>0, MarkKept DEF CancelTurns, Turns, IrqInv, Orderly, IdleTurn
<1>3. CASE s \notin irq.turns
  BY <1>3, <1>1 DEF CancelTurns, Kept
<1> QED
  BY <1>2, <1>3

LEMMA CancelTurnsOInv == ASSUME IInv, OInv, CancelTurns PROVE OInv'
<1>1. irq \in Irqs /\ IrqInv /\ irq.pc \in {"fail", "drain"} /\ irq.ids = {} /\ irq.turns \subseteq Scopes
  BY IrqAt DEF OInv, CancelTurns
<1>2. /\ irq'.pc = "close" /\ irq'.thread = irq.thread /\ irq'.turns = irq.turns
      /\ irq'.chans = irq.chans /\ irq'.back = irq.back /\ irq'.ids = irq.ids
  BY <1>1 DEF CancelTurns, Irqs
<1>3. ASSUME NEW s \in Scopes
      PROVE  Kept(s) /\ (turn[s] = IdleTurn => turn'[s] = turn[s])
  BY CancelTurnsKept
<1>4. \A s \in Scopes : Disturbed(s) => Disturbed(s)'
  BY <1>1, <1>2, <1>3 DEF Disturbed, Kept
<1>5. \A s \in Scopes : Owner(s)'
  BY <1>3, <1>4, ChannelsHome, OthersOwner DEF CancelTurns, memoryVars, storeVars
<1>6. IrqInv'
  BY <1>1, <1>2, <1>3 DEF IrqInv, Kept
<1> QED
  BY <1>3, <1>5, <1>6 DEF OInv, LifeInv, CancelTurns, memoryVars

LEMMA CloseThreadProcessesKept ==
    ASSUME IInv, OInv, CloseThreadProcesses, NEW s \in Scopes
    PROVE  /\ Kept(s) /\ (turn[s] = IdleTurn => turn'[s] = turn[s])
           /\ s \in ActiveTurns(irq.thread) => turn'[s].intr
<1>1. turn[s] \in Turns /\ Orderly(turn[s])
  BY OwnerAt
<1>2. CASE s \in ActiveTurns(irq.thread)
  <2> DEFINE u == [turn[s] EXCEPT !.intr = TRUE, !.cancelled = TRUE]
  <2>1. turn'[s] = u
    BY <1>2 DEF CloseThreadProcesses
  <2>2. /\ u.pc = turn[s].pc /\ u.burst = turn[s].burst /\ u.todo = turn[s].todo
        /\ u.got = turn[s].got /\ u.trail = turn[s].trail /\ u.panicked = turn[s].panicked
        /\ u.intr = TRUE
    BY <1>1 DEF Turns
  <2>3. turn[s].pc \notin {"idle", "popped", "drained", "dclaim"}
    BY <1>2, ActiveAre
  <2>4. turn[s] # IdleTurn
    BY <2>3 DEF IdleTurn
  <2> HIDE DEF u
  <2> QED
    BY <2>1, <2>2, <2>3, <2>4, MarkKept
<1>3. CASE s \notin ActiveTurns(irq.thread)
  BY <1>3, <1>1 DEF CloseThreadProcesses, Kept
<1> QED
  BY <1>2, <1>3

LEMMA CloseThreadProcessesOInv == ASSUME IInv, OInv, CloseThreadProcesses PROVE OInv'
<1>1. irq \in Irqs /\ irq.pc = "close"
  BY IrqAt DEF CloseThreadProcesses
<1>2. /\ irq'.pc = "idle" /\ irq'.turns = {} /\ irq'.chans = {} /\ irq'.back = <<>>
      /\ irq'.ids = {}
  BY DEF CloseThreadProcesses, NoIrq
<1>3. ASSUME NEW s \in Scopes
      PROVE  /\ Kept(s) /\ (turn[s] = IdleTurn => turn'[s] = turn[s])
             /\ s \in ActiveTurns(irq.thread) => turn'[s].intr
  BY CloseThreadProcessesKept
<1>4. ASSUME NEW s \in Scopes, Disturbed(s), Hands(turn[s]) # {} PROVE Disturbed(s)'
  BY <1>4, Views, NoIds, <1>3 DEF Hands, Idles, Disturbed, ActiveTurns, Registered, Kept
<1>5. \A s \in Scopes : Owner(s)'
  BY <1>3, <1>4, ChannelsHome, OthersOwner DEF CloseThreadProcesses, memoryVars, storeVars
<1>6. IrqInv'
  BY <1>2, NoIds DEF IrqInv
<1> QED
  BY <1>3, <1>5, <1>6 DEF OInv, LifeInv, CloseThreadProcesses, memoryVars

LEMMA OperatorOInv == ASSUME IInv, OInv, Operator PROVE OInv'
  BY LatchActiveTurnsOInv, DrainChannelMessagesOInv, UnlockPoolOInv, InterruptFailOInv,
     DrainThreadPendingMessagesOInv, CancelTurnsOInv, CloseThreadProcessesOInv DEF Operator

LEMMA InitOInv == Init => OInv
<1> SUFFICES ASSUME Init PROVE OInv
  OBVIOUS
<1>1. ASSUME NEW s \in Scopes PROVE Owner(s)
  BY IdleOrderly, NoIds DEF Init, Owner, Homely, Claimed, Brief
<1>2. IrqInv
  BY NoIds DEF Init, IrqInv, NoIrq
<1>3. LifeInv
  BY DEF Init, LifeInv, NoRec
<1> QED
  BY <1>1, <1>2, <1>3 DEF OInv

LEMMA NextOInv == IInv /\ OInv /\ [Next]_vars => OInv'
<1> SUFFICES ASSUME IInv, OInv, [Next]_vars PROVE OInv'
  OBVIOUS
<1>1. ASSUME NEW i \in Items, Submit(i) \/ HandlerEnqueue(i) PROVE OInv'
  BY <1>1, SubmitOInv, HandlerEnqueueOInv
<1>2. ASSUME NEW t \in Threads, Rotate(t) \/ \E drain \in BOOLEAN : InterruptThread(t, drain)
      PROVE  OInv'
  BY <1>2, RotateOInv, InterruptThreadOInv
<1>3. CASE UNCHANGED vars
  BY <1>3, QuietOInv DEF OInv, LifeInv, vars
<1> QED
  BY <1>1, <1>2, <1>3, TimerFiresOInv, LifeOInv, RecoveryOInv, WorkerOInv, OperatorOInv DEF Next

LEMMA AlwaysOwned == Spec => [](IInv /\ OInv)
<1>1. Spec => []IInv
  BY InitIInv, NextIInv, PTL DEF Spec
<1> QED
  BY <1>1, InitOInv, NextOInv, PTL DEF Spec

\* A row a turn has claimed is written by nobody else: it stays PROCESSING until the turn
\* writes it, unless an operator works on its thread (worker.go:616).
THEOREM ClaimExclusive == Spec => []ClaimIsExclusive
<1>1. OInv => ClaimIsExclusive
  BY HandsAreOwned DEF OInv, Owner, Claimed, ClaimIsExclusive
<1> QED
  BY <1>1, AlwaysOwned, PTL


--------------------
(* Settled rows and delivered answers *)

\* What a step of anybody but a worker does to a row.
AsideRow(i) ==
    \/ /\ row'[i].restart = row[i].restart
       /\ \/ row'[i].st = row[i].st
          \/ row'[i].st \in Terminal
          \/ row[i].st = Absent /\ row'[i].st = Pending
    \/ row[i].st = Processing /\ row'[i].st = Pending /\ row'[i].restart = row[i].restart + 1

Aside ==
    /\ delivered' = delivered
    /\ \A s \in Scopes : Unsent(turn'[s]) \subseteq Unsent(turn[s])
    /\ \A i \in Items : AsideRow(i)

LEMMA SameAside ==
    ASSUME UNCHANGED <<row, delivered>>,
           \A s \in Scopes : Unsent(turn'[s]) \subseteq Unsent(turn[s])
    PROVE  Aside
  BY DEF Aside, AsideRow

LEMMA FailAside ==
    ASSUME IInv, NEW i \in Items, SetStatus(i, Failed), UNCHANGED <<turn, delivered>>
    PROVE  Aside
BY SetStatusRow, SetStatusKeeps DEF Terminal, Aside, AsideRow, KeepsRestarts

LEMMA RecoverRowAside == ASSUME IInv, RecoverRow PROVE Aside
<1>1. PICK i \in rec.todo :
        \/ UNCHANGED row \/ SetStatus(i, Failed)
        \/ row' = ResetMessageToPendingWithRestart(row, i)
  BY Zenon DEF RecoverRow, storeVars
<1>2. row \in [Items -> Row] /\ i \in Items /\ UNCHANGED <<turn, delivered>>
  BY RecFields DEF IInv, QueueInv, StoreInv, RecoverRow
<1>3. CASE UNCHANGED row
  BY <1>2, <1>3, SameAside
<1>4. CASE SetStatus(i, Failed)
  BY <1>2, <1>4, FailAside
<1>5. CASE row' = ResetMessageToPendingWithRestart(row, i)
  BY <1>2, <1>5, SameAside DEF ResetMessageToPendingWithRestart, Row, Aside, AsideRow
<1> QED
  BY <1>1, <1>3, <1>4, <1>5

LEMMA SubmitAside == ASSUME IInv, NEW i \in Items, Submit(i) PROVE Aside
BY RowOpsKeep DEF IInv, StoreInv, Submit, InsertMessage, Row, Aside, AsideRow

LEMMA LostAside == ASSUME LoseMemory, UNCHANGED <<row, delivered>> PROVE Aside
BY IdleOrderly, UnsentViews, SameAside DEF LoseMemory

LEMMA OperatorAside == ASSUME IInv, OInv, Operator PROVE Aside
<1>1. CASE InterruptFail
  BY <1>1, IrqAt, FailAside DEF InterruptFail, memoryVars
<1>2. CASE (\E s \in Scopes : DrainChannelMessages(s)) \/ UnlockPool \/ DrainThreadPendingMessages
  BY <1>2, SameAside DEF DrainChannelMessages, UnlockPool, DrainThreadPendingMessages,
                         memoryVars, storeVars
<1>3. CASE LatchActiveTurns
  BY <1>3, SameAside, LatchActiveTurnsKept DEF LatchActiveTurns, memoryVars, storeVars, Kept
<1>4. CASE CancelTurns
  BY <1>4, SameAside, CancelTurnsKept DEF CancelTurns, memoryVars, storeVars, Kept
<1>5. CASE CloseThreadProcesses
  BY <1>5, SameAside, CloseThreadProcessesKept DEF CloseThreadProcesses, memoryVars, storeVars, Kept
<1> QED
  BY <1>1, <1>2, <1>3, <1>4, <1>5 DEF Operator

LEMMA OthersAside ==
    ASSUME IInv, OInv, [Next]_vars
    PROVE  Aside \/ \E s \in Scopes : Worker(s)
<1>1. ASSUME NEW i \in Items, Submit(i) \/ HandlerEnqueue(i) PROVE Aside
  BY <1>1, SubmitAside, SameAside DEF HandlerEnqueue
<1>2. ASSUME NEW k \in DOMAIN timers, TimerFires(k) PROVE Aside
  BY <1>2, SameAside DEF TimerFires
<1>3. CASE Start \/ Stop \/ Exit \/ Crash \/ QuotaExpires
  BY <1>3, SameAside, LostAside DEF Start, Stop, Exit, Crash, QuotaExpires
<1>4. CASE Recovery
  BY <1>4, RecoverRowAside, SameAside
     DEF Recovery, RecoverQuery, ReleaseLeaderHold, MergeHeldPendingEntries, RecoverEnqueue
<1>5. ASSUME NEW t \in Threads, Rotate(t) PROVE Aside
  BY <1>5, SameAside DEF Rotate, memoryVars
<1>6. ASSUME NEW t \in Threads, NEW drain \in BOOLEAN, InterruptThread(t, drain) PROVE Aside
  BY <1>6, SameAside, InterruptThreadKept DEF InterruptThread, memoryVars, Kept
<1>7. CASE UNCHANGED vars
  BY <1>7, SameAside DEF vars
<1> QED
  BY <1>1, <1>2, <1>3, <1>4, <1>5, <1>6, <1>7, OperatorAside DEF Next

\* COMPLETED and FAILED are final (pool.go:1017), whatever copies, timers, resubmissions
\* and recoveries are under way; only a turn that an operator interrupts may hand a
\* settled message back.
THEOREM SettledIsFinal == Spec => TerminalIsFinal
<1>1. IInv /\ OInv /\ [Next]_vars =>
        [\A i \in Items : row[i].st \in Terminal =>
            row'[i].st \in Terminal \/ Disturbed(ScopeOf[i])]_vars
  <2> SUFFICES ASSUME IInv, OInv, [Next]_vars, NEW i \in Items, row[i].st \in Terminal
               PROVE  row'[i].st \in Terminal \/ Disturbed(ScopeOf[i])
    OBVIOUS
  <2>1. row[i].st \notin {Absent, Pending, Processing}
    BY DEF Terminal, Absent, Pending, Processing, Completed, Failed
  <2>2. CASE Aside
    BY <2>1, <2>2 DEF Aside, AsideRow
  <2>3. ASSUME NEW s \in Scopes, Worker(s)
        PROVE  row'[i].st \in Terminal \/ Disturbed(ScopeOf[i])
    BY <2>3, WorkerSum, <2>1, OwnerAt, HandsLate DEF Summary, Turned, Rows
  <2> QED
    BY <2>2, <2>3, OthersAside
<1> QED
  BY <1>1, AlwaysOwned, PTL DEF Spec, TerminalIsFinal

\* A row that is still to be answered in this life has been answered at most once per
\* earlier life.
SendInv ==
    \A i \in Items :
      /\ delivered[i] <= 1 + row[i].restart
      /\ row[i].st \in {Absent, Pending} => delivered[i] <= row[i].restart
      /\ \A s \in Scopes : i \in Unsent(turn[s]) => delivered[i] <= row[i].restart

LEMMA NextSendInv == IInv /\ OInv /\ SendInv /\ [Next]_vars => SendInv'
<1> SUFFICES ASSUME IInv, OInv, SendInv, [Next]_vars, NEW i \in Items
             PROVE  /\ delivered'[i] <= 1 + row'[i].restart
                    /\ row'[i].st \in {Absent, Pending} => delivered'[i] <= row'[i].restart
                    /\ \A s \in Scopes : i \in Unsent(turn'[s]) => delivered'[i] <= row'[i].restart
  BY DEF SendInv
<1>1. delivered[i] \in Nat /\ row[i].restart \in Nat
  BY DEF IInv, StoreInv, RestInv, Row
<1>2. /\ delivered[i] <= 1 + row[i].restart
      /\ row[i].st \in {Absent, Pending} => delivered[i] <= row[i].restart
      /\ \A s \in Scopes : i \in Unsent(turn[s]) => delivered[i] <= row[i].restart
  BY DEF SendInv
<1>3. CASE Aside
  BY <1>3, <1>1, <1>2 DEF Aside, AsideRow, Terminal, Absent, Pending, Completed, Failed
<1>4. ASSUME NEW s \in Scopes, Worker(s)
      PROVE  /\ delivered'[i] <= 1 + row'[i].restart
             /\ row'[i].st \in {Absent, Pending} => delivered'[i] <= row'[i].restart
             /\ \A r \in Scopes : i \in Unsent(turn'[r]) => delivered'[i] <= row'[i].restart
  <2>1. PICK gone \in SUBSET Items, new \in SUBSET Items :
          Turned(turn[s], turn'[s], gone, new) /\ Rows(s, gone, new)
    BY <1>4, WorkerSum DEF Summary
  <2>2. Sent(s) /\ \A r \in Scopes \ {s} : turn'[r] = turn[r]
    BY <1>4, WorkerSum DEF Summary
  <2>3. row'[i].restart = row[i].restart
    BY <1>4, WorkerKeeps DEF KeepsRestarts
  <2>4. CASE delivered'[i] = delivered[i]
    BY <2>1, <2>2, <1>1, <1>2, <2>3, <2>4 DEF Rows, Terminal, Absent, Pending, Completed, Failed,
       Processing, Turned
  <2>5. CASE /\ delivered'[i] = delivered[i] + 1 /\ row'[i].st = row[i].st
             /\ i \in Unsent(turn[s]) /\ i \notin Unsent(turn'[s])
    BY <2>5, UnsentViews, HandsLate, <2>2, <1>1, <1>2, <2>3
  <2> QED
    BY <2>2, <2>4, <2>5 DEF Sent
<1> QED
  BY <1>3, <1>4, OthersAside

LEMMA InitSendInv == Init => SendInv
BY DEF SendInv, Init, NoRow

\* An answer reaches the user at most once per life of its message: a second delivery
\* takes a restart of the process between the send and the write of the row
\* (deliverSuccessAndFinalize, turn_outcome.go:165 and 178).
THEOREM AnsweredOncePerLife == Spec => []DeliveredOncePerLife
<1>1. SendInv => DeliveredOncePerLife
  BY DEF SendInv, DeliveredOncePerLife
<1> QED
  BY <1>1, AlwaysOwned, InitSendInv, NextSendInv, PTL DEF Spec

--------------------
(* No work is forgotten, for every number of items, scopes and threads: *)
(* NoForgottenWork of TurnQueue. *)
(*  *)
(* The statement alone is not inductive.  MemInv says where the process *)
(* keeps a row by its status: a PROCESSING row is in the hands of the turn *)
(* of its own scope or of the operator, a PENDING one is on its way to *)
(* that scope.  While the pool is held nobody keeps anything; there it *)
(* says that recovery has dealt with every PROCESSING row of the tables it *)
(* has read, which is what makes the first statement true at the moment *)
(* the hold is released. *)
\* Copies on their way to the worker of s, and copies on their way to a channel.
Coming(s) == Ids(ch[s]) \cup Ids(held[s]) \cup Waiting(turn[s])

Ready == {c.id : c \in rec.ready}

\* Rows mergeHeldPendingEntries has still to read.
Unmerged ==
    IF rec.pc = "merge" THEN Items ELSE IF rec.pc = "mergeDisps" THEN Disps ELSE {}

Moving == ingest \cup Ids(timers) \cup irq.ids \cup Ids(irq.back) \cup Ready \cup Unmerged

Lost == hit \cup shed

Safe(i) ==
    /\ row[i].st = Processing => i \in Hands(turn[ScopeOf[i]]) \cup irq.ids \cup Lost
    /\ row[i].st = Pending => i \in Moving \cup Coming(ScopeOf[i]) \cup Lost

\* Recovery has read the table of i.
Looked(i) == rec.pc = "disps" \/ (rec.pc = "msgs" /\ i \in Msgs)

LiveMem == phase = "live" => \A i \in Items : Safe(i)

HeldMem ==
    phase = "held" => \A i \in Items :
      /\ row[i].st = Processing /\ Looked(i) => i \in rec.todo \cup hit
      /\ i \in rec.todo => row[i].st \in Terminal \/ (row[i].st = rec.seen[i].st /\ row[i].st \in Live)

TodoMem == rec.pc \notin {"msgs", "disps"} => rec.todo = {}

MemInv == LiveMem /\ HeldMem /\ TodoMem

--------------------
(* Frames *)

LEMMA Scoped == \A i \in Items : ScopeOf[i] \in Scopes
  BY ScopeAssumption

LEMMA StatusesApart ==
    /\ Absent \notin Live \cup Terminal /\ Pending \in Live /\ Processing \in Live
    /\ Pending \notin Terminal /\ Processing \notin Terminal
    /\ Pending # Processing /\ Absent # Pending /\ Absent # Processing
  BY DEF Absent, Pending, Processing, Completed, Failed, Live, Terminal

\* What a step of anybody but a worker writes.
Written(i) ==
    \/ row'[i].st = row[i].st \/ row'[i].st \in Terminal
    \/ row[i].st = Absent /\ row'[i].st = Pending /\ i \in ingest'

LEMMA LiveFrame ==
    ASSUME IInv, OInv, LiveMem, phase' = "live" => phase = "live",
           \A s \in Scopes : Kept(s), hit \subseteq hit', shed \subseteq shed',
           \A i \in Items : Written(i),
           \A i \in irq.ids : i \in irq'.ids \/ row'[i].st \in Terminal \/ i \in hit',
           \A i \in Items : row'[i].st = Pending /\ phase = "live" =>
             /\ i \in Moving \ irq.ids => i \in Moving' \cup Coming(ScopeOf[i])' \cup hit'
             /\ i \in Ids(ch[ScopeOf[i]]) \cup Ids(held[ScopeOf[i]])
                  => i \in Moving' \cup Coming(ScopeOf[i])' \cup hit'
    PROVE  LiveMem'
BY Scoped, StatusesApart DEF LiveMem, Lost, Moving, Written, Safe, Kept, Coming

LEMMA HeldFrame ==
    ASSUME HeldMem, TodoMem, phase' = "held" => phase = "held", rec' = rec, hit \subseteq hit',
           \A i \in Items : Written(i)
    PROVE  HeldMem' /\ TodoMem'
BY StatusesApart DEF TodoMem, HeldMem, Looked, Written

\* Steps that leave recovery alone.
LEMMA AsideMem ==
    ASSUME IInv, OInv, MemInv, UNCHANGED <<phase, rec>>,
           \A s \in Scopes : Kept(s), hit \subseteq hit', shed \subseteq shed',
           \A i \in Items : Written(i),
           \A i \in irq.ids : i \in irq'.ids \/ row'[i].st \in Terminal \/ i \in hit',
           \A i \in Items : row'[i].st = Pending /\ phase = "live" =>
             /\ i \in ingest \cup Ids(timers) \cup Ids(irq.back)
                  => i \in Moving' \cup Coming(ScopeOf[i])' \cup hit'
             /\ i \in Ids(ch[ScopeOf[i]]) \cup Ids(held[ScopeOf[i]])
                  => i \in Moving' \cup Coming(ScopeOf[i])' \cup hit'
    PROVE  MemInv'
BY LiveFrame, HeldFrame DEF Ready, Unmerged, Moving, MemInv

LEMMA SubmitMem == ASSUME IInv, OInv, MemInv, NEW i \in Items, Submit(i) PROVE MemInv'
BY SameKept, AsideMem DEF IInv, StoreInv, Submit, InsertMessage, Row, Written, Moving, Coming

LEMMA EnqueuedComes ==
    ASSUME IInv, NEW c \in Copies, ch' = Enqueued(c), held' = held, NEW i \in Items
    PROVE  /\ Ids(ch[ScopeOf[i]]) \cup Ids(held[ScopeOf[i]]) \subseteq Coming(ScopeOf[i])'
           /\ phase = "live" /\ i = c.id => i \in Coming(ScopeOf[i])'
  BY Scoped, EnqueuedAt DEF Coming

LEMMA HandlerEnqueueMem ==
    ASSUME IInv, OInv, MemInv, NEW i \in Items, HandlerEnqueue(i)
    PROVE  MemInv'
BY CopyType, SameKept, EnqueuedComes, AsideMem DEF Copy, HandlerEnqueue, Written, Moving

LEMMA TimerFiresMem ==
    ASSUME IInv, OInv, MemInv, NEW k \in DOMAIN timers, TimerFires(k)
    PROVE  MemInv'
<1>1. timers \in Seq(Copies) /\ k \in 1..Len(timers) /\ Len(timers) \in Nat /\ timers[k] \in Copies
  BY DEF IInv, QueueInv
<1>2. Ids(timers) \subseteq Ids(timers') \cup {timers[k].id}
  <2> DEFINE p == SubSeq(timers, 1, k - 1)
             q == SubSeq(timers, k + 1, Len(timers))
  <2>1. p \in Seq(Copies) /\ Ids(p) = {timers[j].id : j \in 1..(k - 1)}
    BY <1>1, PartIds
  <2>2. q \in Seq(Copies) /\ Ids(q) = {timers[j].id : j \in (k + 1)..Len(timers)}
    BY <1>1, PartIds
  <2>3. timers' = p \o q
    BY DEF TimerFires
  <2> HIDE DEF p, q
  <2>4. Ids(timers') = Ids(p) \cup Ids(q)
    BY <2>1, <2>2, <2>3, ConcatIds
  <2>5. ASSUME NEW j \in 1..Len(timers), j # k PROVE timers[j].id \in Ids(timers')
    BY <1>1, <2>5, <2>1, <2>2, <2>4
  <2> QED
    BY <1>1, <2>5, IdsIn
<1>3. \A s \in Scopes : Kept(s)
  BY SameKept DEF TimerFires
<1>4. \A j \in Items : Written(j)
  BY DEF Written, TimerFires
<1>5. ingest \cup (Ids(timers) \ {timers[k].id}) \cup Ids(irq.back) \subseteq Moving'
  BY <1>2 DEF Moving, TimerFires
<1>6. \A j \in Items :
         /\ Ids(ch[ScopeOf[j]]) \cup Ids(held[ScopeOf[j]]) \subseteq Coming(ScopeOf[j])'
         /\ phase = "live" /\ j = timers[k].id => j \in Coming(ScopeOf[j])'
  BY <1>1, EnqueuedComes DEF TimerFires
<1> QED
  BY <1>3, <1>4, <1>5, <1>6, AsideMem DEF TimerFires

--------------------
(* Life of the process and recovery *)

LEMMA LifeMem ==
    ASSUME IInv, OInv, MemInv, Start \/ Stop \/ Exit \/ Crash \/ QuotaExpires
    PROVE  MemInv'
<1>1. CASE Start
  BY <1>1 DEF Start, OInv, LifeInv, MemInv, TodoMem, Looked, LiveMem, HeldMem
<1>2. CASE Stop
  BY <1>2 DEF Stop, MemInv, LiveMem, HeldMem, TodoMem
<1>3. CASE Exit \/ Crash
  BY <1>3 DEF Exit, Crash, LoseMemory, MemInv, LiveMem, HeldMem, TodoMem, NoRec
<1>4. CASE QuotaExpires
  BY <1>4, SameKept, AsideMem DEF QuotaExpires, Written, Moving, Coming
<1> QED
  BY <1>1, <1>2, <1>3, <1>4

LEMMA RecoverQueryMem ==
    ASSUME IInv, OInv, MemInv, NEW kind, NEW from, NEW to,
           <<kind, from, to>> \in {<<Msgs, "idle", "msgs">>, <<Disps, "msgs", "disps">>},
           RecoverQuery(kind, from, to)
    PROVE  MemInv'
<1>1. /\ rec \in Recs /\ row \in [Items -> Row] /\ phase = "held" /\ rec.pc = from /\ rec.todo = {}
      /\ UNCHANGED <<row, phase>>
  BY DEF IInv, QueueInv, StoreInv, RecoverQuery
<1>2. \/ /\ kind = Msgs /\ from = "idle" /\ to = "msgs"
      \/ /\ kind = Disps /\ from = "msgs" /\ to = "disps"
  OBVIOUS
<1>3. ASSUME NEW i \in Items, row[i].st = Processing,
             to = "disps" \/ (to = "msgs" /\ i \in Msgs)
      PROVE  i \in (LiveRows \cap kind) \cup hit
  BY <1>3, StatusesApart, <1>1, <1>2 DEF LiveRows, Items, Looked, MemInv, HeldMem
<1>4. CASE /\ rec' = [rec EXCEPT !.pc = to, !.todo = LiveRows \cap kind, !.seen = row]
           /\ UNCHANGED <<hit, spent>>
  BY <1>1, <1>4, <1>3, <1>2 DEF Recs, HeldMem, Looked, LiveRows, MemInv, LiveMem, TodoMem
<1>5. CASE /\ hit' = hit \cup (LiveRows \cap kind)
           /\ rec' = [rec EXCEPT !.pc = to]
  BY <1>1, <1>5, <1>3, <1>2 DEF Recs, HeldMem, Looked, MemInv, LiveMem, TodoMem
<1> QED
  BY <1>4, <1>5 DEF RecoverQuery

LEMMA RecoverRowMem == ASSUME IInv, OInv, MemInv, RecoverRow PROVE MemInv'
<1>1. PICK i \in rec.todo :
        LET drop == [rec EXCEPT !.todo = @ \ {i}, !.seen[i] = NoRow]
            keep == [drop EXCEPT !.ready = @ \cup {Copy(i, rec.seen[i].retry)}]
        IN \/ rec.seen[i].st = Pending /\ rec' = keep /\ UNCHANGED storeVars
           \/ rec' = drop /\ SetStatus(i, Failed)
           \/ /\ rec' = keep
              /\ \/ row' = ResetMessageToPendingWithRestart(row, i) /\ UNCHANGED <<hit, spent>>
                 \/ hit' = hit \cup {i} /\ UNCHANGED row
  BY Zenon DEF RecoverRow
<1>2. /\ rec \in Recs /\ row \in [Items -> Row] /\ i \in Items /\ phase = "held" /\ phase' = phase
      /\ rec.pc \in {"msgs", "disps"}
  BY RecFields DEF IInv, QueueInv, StoreInv, RecoverRow, OInv, LifeInv
<1>3. /\ rec'.pc = rec.pc /\ rec'.todo = rec.todo \ {i}
      /\ \A j \in Items \ {i} : rec'.seen[j] = rec.seen[j]
  <2> DEFINE drop == [rec EXCEPT !.todo = @ \ {i}, !.seen[i] = NoRow]
  <2>1. rec' = drop \/ rec' = [drop EXCEPT !.ready = @ \cup {Copy(i, rec.seen[i].retry)}]
    BY <1>1, Zenon
  <2>2. rec.seen \in [Items -> Row]
    BY <1>2, RecFields
  <2> QED
    BY <1>2, <2>1, <2>2, ZenonT(60) DEF Recs
<1>4. /\ \A j \in Items \ {i} : row'[j].st = row[j].st
      /\ hit \subseteq hit' /\ (row'[i].st = Processing => i \in hit')
  BY <1>2, SetStatusRow, StatusesApart, <1>1 DEF Terminal, ResetMessageToPendingWithRestart, Row,
     MemInv, HeldMem, storeVars
<1>5. ASSUME NEW j \in Items
      PROVE  /\ row'[j].st = Processing /\ Looked(j)' => j \in rec'.todo \cup hit'
             /\ j \in rec'.todo => \/ row'[j].st \in Terminal
                                   \/ row'[j].st = rec'.seen[j].st /\ row'[j].st \in Live
  BY <1>2, <1>3, <1>4 DEF MemInv, HeldMem, Looked
<1> QED
  BY <1>2, <1>3, <1>5 DEF MemInv, LiveMem, HeldMem, TodoMem

LEMMA ReleaseLeaderHoldMem == ASSUME IInv, OInv, MemInv, ReleaseLeaderHold PROVE MemInv'
<1>1. /\ rec \in Recs /\ rec.pc = "disps" /\ rec.todo = {} /\ phase = "held"
      /\ phase' = "live" /\ UNCHANGED <<row, hit, shed>>
  BY DEF IInv, QueueInv, OInv, LifeInv, ReleaseLeaderHold
<1>2. rec'.pc = "merge" /\ rec'.todo = {}
  BY <1>1 DEF ReleaseLeaderHold, Recs
<1>3. ASSUME NEW i \in Items PROVE Safe(i)'
  BY <1>1, <1>2 DEF MemInv, HeldMem, Looked, Moving, Unmerged, Safe, Lost
<1> QED
  BY <1>1, <1>2, <1>3 DEF MemInv, LiveMem, HeldMem, TodoMem

\* Steps of recovery after the hold.
LEMMA ReleasedMem ==
    ASSUME IInv, OInv, MemInv, rec.pc \in {"merge", "mergeDisps", "enqueue"},
           rec'.pc \notin {"msgs", "disps"}, rec'.todo = {}, hit \subseteq hit',
           UNCHANGED <<row, phase, ingest, held, timers, turn, irq, shed>>,
           \A i \in Items : Ids(ch[ScopeOf[i]]) \subseteq Ids(ch'[ScopeOf[i]]),
           \A i \in Items : row[i].st = Pending /\ i \in Ready \cup Unmerged =>
              i \in Ready' \cup Unmerged' \cup hit' \cup Ids(ch'[ScopeOf[i]])
    PROVE  MemInv'
BY SameKept, LiveFrame DEF OInv, LifeInv, Written, Moving, Coming, MemInv, HeldMem, TodoMem

LEMMA MergeMem ==
    ASSUME IInv, OInv, MemInv, NEW kind, NEW from, NEW to,
           <<kind, from, to>> \in {<<Msgs, "merge", "mergeDisps">>, <<Disps, "mergeDisps", "enqueue">>},
           MergeHeldPendingEntries(kind, from, to)
    PROVE  MemInv'
<1> DEFINE extra == {i \in kind : row[i].st = Pending} \ {c.id : c \in rec.ready}
<1>1. \/ kind = Msgs /\ from = "merge" /\ to = "mergeDisps"
      \/ kind = Disps /\ from = "mergeDisps" /\ to = "enqueue"
  OBVIOUS
<1>2. rec \in Recs /\ rec.pc = from /\ rec.todo = {} /\ row \in [Items -> Row] /\ kind \subseteq Items
  BY <1>1 DEF IInv, QueueInv, StoreInv, MergeHeldPendingEntries, MemInv, TodoMem, Items
<1>3. /\ rec'.pc = to /\ rec'.todo = {} /\ hit \subseteq hit'
      /\ Ready \cup extra \subseteq Ready' \cup hit'
  <2>1. CASE /\ rec' = [rec EXCEPT !.pc = to,
                          !.ready = @ \cup {Copy(i, row[i].retry) : i \in extra}]
             /\ UNCHANGED <<hit, spent>>
    <3>1. /\ rec'.pc = to /\ rec'.todo = {} /\ hit' = hit
          /\ rec'.ready = rec.ready \cup {Copy(i, row[i].retry) : i \in extra}
      BY <1>2, <2>1 DEF Recs
    <3>2. ASSUME NEW i \in extra PROVE i \in Ready'
      <4>1. Copy(i, row[i].retry) \in rec'.ready /\ Copy(i, row[i].retry).id = i
        BY <3>1 DEF Copy
      <4> QED
        BY <4>1 DEF Ready
    <3>3. Ready \subseteq Ready'
      BY <3>1 DEF Ready
    <3> QED
      BY <3>1, <3>2, <3>3
  <2>2. CASE hit' = hit \cup extra /\ rec' = [rec EXCEPT !.pc = to]
    BY <1>2, <2>2 DEF Recs, Ready
  <2> QED
    BY <2>1, <2>2 DEF MergeHeldPendingEntries
<1>4. ASSUME NEW i \in Items, row[i].st = Pending, i \in Ready \cup Unmerged
      PROVE  i \in Ready' \cup Unmerged' \cup hit'
  BY <1>3, <1>4, <1>1, <1>2 DEF Ready, Unmerged, Items
<1>5. UNCHANGED <<row, phase, ingest, ch, held, timers, turn, irq, shed>>
  BY DEF MergeHeldPendingEntries
<1> HIDE DEF extra
<1> QED
  BY <1>1, <1>2, <1>3, <1>4, <1>5, ReleasedMem

LEMMA RecoverEnqueueMem == ASSUME IInv, OInv, MemInv, RecoverEnqueue PROVE MemInv'
<1>1. /\ rec \in Recs /\ rec.ready \subseteq Copies /\ rec.pc = "enqueue" /\ rec.todo = {} /\ phase = "live"
      /\ Unmerged = {}
  BY DEF IInv, QueueInv, Recs, RecoverEnqueue, MemInv, TodoMem, OInv, LifeInv, Unmerged
<1>2. UNCHANGED <<row, phase, ingest, held, timers, turn, irq, shed>> /\ hit' = hit
  BY DEF RecoverEnqueue
<1>3. CASE rec.ready = {} /\ rec' = NoRec /\ UNCHANGED ch
  BY <1>3, <1>1, <1>2, ReleasedMem DEF NoRec, Ready
<1>4. CASE \E c \in rec.ready : rec' = [rec EXCEPT !.ready = @ \ {c}] /\ ch' = Enqueued(c)
  BY <1>4, <1>1, Scoped, EnqueuedAt, <1>2, ReleasedMem DEF Recs, Ready
<1> QED
  BY <1>3, <1>4 DEF RecoverEnqueue

LEMMA RecoveryMem == ASSUME IInv, OInv, MemInv, Recovery PROVE MemInv'
  BY RecoverQueryMem, RecoverRowMem, ReleaseLeaderHoldMem, MergeMem, RecoverEnqueueMem DEF Recovery


--------------------
(* Workers and operators *)

LEMMA WorkerMem == ASSUME IInv, OInv, MemInv, NEW s \in Scopes, Worker(s) PROVE MemInv'
<1>1. Summary(s)
  BY WorkerSum
<1>2. PICK gone \in SUBSET Items, new \in SUBSET Items :
        /\ Turned(turn[s], turn'[s], gone, new) /\ Rows(s, gone, new)
        /\ new \subseteq Waiting(turn[s])
  BY <1>1 DEF Summary
<1>3. Places(s) /\ Rest /\ \A r \in Scopes \ {s} : turn'[r] = turn[r]
  BY <1>1 DEF Summary
<1>4. gone \subseteq Of(s) /\ new \subseteq Of(s)
  BY <1>2, OwnerAt, HandsCarried DEF Turned
<1>5. phase' = phase /\ phase \notin {"down", "held"} /\ rec' = rec
  BY <1>3, WorkerLive DEF Rest
<1>6. Lost \subseteq Lost' /\ Moving \subseteq Moving'
  BY <1>3 DEF Lost, Moving, Rest, Ready, Unmerged
<1>7. ASSUME phase = "live", NEW i \in Items PROVE Safe(i)'
  <2>1. Safe(i) /\ ScopeOf[i] \in Scopes
    BY <1>7, Scoped DEF MemInv, LiveMem
  <2>2. ASSUME row'[i].st = Processing PROVE i \in Hands(turn'[ScopeOf[i]]) \cup irq'.ids \cup Lost'
    BY <1>2, <1>4, <1>7, <2>2, StatusesApart, <2>1, <1>3, <1>6 DEF Turned, Of, Rows, Lost, Safe,
       Rest
  <2>3. ASSUME row'[i].st = Pending PROVE i \in Moving' \cup Coming(ScopeOf[i])' \cup Lost'
    BY <1>2, <2>3, StatusesApart, <1>7, <1>4, <2>1, <1>3, <1>6 DEF Rows, Of, Lost, Moving, Coming,
       Safe, Places
  <2> QED
    BY <2>2, <2>3 DEF Safe
<1> QED
  BY <1>5, <1>7 DEF MemInv, LiveMem, HeldMem, TodoMem

LEMMA StayPut ==
    ASSUME UNCHANGED <<ch, held>>
    PROVE  \A i \in Items : Ids(ch[ScopeOf[i]]) \cup Ids(held[ScopeOf[i]]) \subseteq Coming(ScopeOf[i])'
  BY DEF Coming

\* Steps of the operator that leave the channels alone.
LEMMA OperatorMem ==
    ASSUME IInv, OInv, MemInv, UNCHANGED memoryVars, UNCHANGED ch, hit \subseteq hit',
           \A s \in Scopes : Kept(s), irq.back = <<>> \/ irq'.back = irq.back,
           \A i \in Items : row'[i].st = row[i].st \/ row'[i].st \in Terminal,
           \A i \in irq.ids : i \in irq'.ids \/ row'[i].st \in Terminal \/ i \in hit'
    PROVE  MemInv'
BY NoIds, StayPut, AsideMem DEF memoryVars, Written, Moving

LEMMA CommandMem ==
    ASSUME IInv, OInv, MemInv, NEW t \in Threads,
           Rotate(t) \/ \E drain \in BOOLEAN : InterruptThread(t, drain)
    PROVE  MemInv'
BY SameKept, InterruptThreadKept, OperatorMem DEF OInv, IrqInv, Rotate, InterruptThread

LEMMA DrainChannelMessagesMem ==
    ASSUME IInv, OInv, MemInv, NEW s \in Scopes, DrainChannelMessages(s)
    PROVE  MemInv'
<1>1. /\ irq \in Irqs /\ ch \in [Scopes -> Seq(Copies)] /\ irq.back \in Seq(Copies)
      /\ \A i \in Ids(irq.back) : ScopeOf[i] = s
      /\ UNCHANGED <<row, hit, turn>> /\ UNCHANGED memoryVars
  BY IrqAt DEF IInv, ChanInv, DrainChannelMessages, storeVars
<1>2. UNCHANGED <<phase, rec, ingest, held, timers, shed>>
  BY <1>1 DEF memoryVars
<1>3. /\ irq.ids \subseteq irq'.ids
      /\ Ids(irq.back) \subseteq Ids(irq'.back) \cup Ids(ch'[s])
      /\ Ids(ch[s]) \subseteq irq'.ids \cup Ids(irq'.back) \cup Ids(ch'[s])
      /\ \A r \in Scopes \ {s} : ch'[r] = ch[r]
  <2>1. CASE ch[s] # <<>>
    <3> DEFINE c == Head(ch[s])
    <3>1. ch' = [ch EXCEPT ![s] = Tail(@)]
      BY <2>1 DEF DrainChannelMessages
    <3>2. irq' = IF c.id \in Msgs THEN [irq EXCEPT !.ids = @ \cup {c.id}]
                 ELSE [irq EXCEPT !.back = Append(@, c)]
      BY <2>1 DEF DrainChannelMessages
    <3>3. c \in Copies /\ Ids(ch[s]) = {c.id} \cup Ids(Tail(ch[s]))
      BY <1>1, <2>1, HeadTailIds, EmptySeq
    <3>4. ch'[s] = Tail(ch[s]) /\ \A r \in Scopes \ {s} : ch'[r] = ch[r]
      BY <1>1, <3>1
    <3> HIDE DEF c
    <3>5. CASE c.id \in Msgs
      BY <1>1, <3>2, <3>5, <3>3, <3>4 DEF Irqs
    <3>6. CASE c.id \notin Msgs
      BY <1>1, <3>2, <3>6, <3>3, AppendIds, <3>4 DEF Irqs
    <3> QED
      BY <3>5, <3>6
  <2>2. CASE ch[s] = <<>>
    BY <2>2, <1>1, NoIds DEF DrainChannelMessages, Irqs
  <2> QED
    BY <2>1, <2>2
<1>4. /\ \A r \in Scopes : Kept(r)
      /\ \A i \in Items : Written(i)
  BY <1>1, SameKept DEF Written
<1>5. ingest \cup Ids(timers) \cup irq'.ids \cup Ids(irq'.back) \subseteq Moving'
  BY <1>2 DEF Moving
<1>6. \A i \in Items : Ids(ch'[ScopeOf[i]]) \cup Ids(held[ScopeOf[i]]) \subseteq Coming(ScopeOf[i])'
  BY <1>2 DEF Coming
<1>7. ASSUME NEW i \in Items
      PROVE  /\ i \in Ids(irq.back) => i \in Moving' \cup Coming(ScopeOf[i])'
             /\ i \in Ids(ch[ScopeOf[i]]) => i \in Moving' \cup Coming(ScopeOf[i])'
  BY <1>3, <1>5, <1>6, <1>1, Scoped
<1> QED
  BY <1>1, <1>2, <1>3, <1>4, <1>5, <1>6, <1>7, AsideMem

LEMMA OperatorStepMem == ASSUME IInv, OInv, MemInv, Operator PROVE MemInv'
<1>0. irq \in Irqs /\ irq.ids \subseteq Items /\ IrqInv
  BY IrqAt DEF OInv
<1>1. CASE LatchActiveTurns
  BY <1>0, <1>1, LatchActiveTurnsKept, OperatorMem DEF IrqInv, LatchActiveTurns, storeVars
<1>2. CASE UnlockPool
  BY <1>0, <1>2, SameKept, OperatorMem DEF UnlockPool, Irqs, storeVars
<1>3. CASE InterruptFail
  BY <1>3, <1>0, SameKept, SetStatusRow, OperatorMem DEF InterruptFail, Irqs, Terminal
<1>4. CASE DrainThreadPendingMessages
  BY <1>0, <1>4, SameKept, OperatorMem DEF IrqInv, DrainThreadPendingMessages
<1>5. CASE CancelTurns
  BY <1>0, <1>5, CancelTurnsKept, OperatorMem DEF IrqInv, CancelTurns, storeVars
<1>6. CASE CloseThreadProcesses
  BY <1>0, <1>6, CloseThreadProcessesKept, OperatorMem DEF IrqInv, CloseThreadProcesses, storeVars
<1> QED
  BY <1>1, <1>2, <1>3, <1>4, <1>5, <1>6, DrainChannelMessagesMem DEF Operator

LEMMA InitMemInv == Init => MemInv
  BY DEF Init, MemInv, LiveMem, HeldMem, TodoMem, NoRec

LEMMA NextMemInv == IInv /\ OInv /\ MemInv /\ [Next]_vars => MemInv'
<1> SUFFICES ASSUME IInv, OInv, MemInv, [Next]_vars PROVE MemInv'
  OBVIOUS
<1>1. ASSUME NEW i \in Items, Submit(i) \/ HandlerEnqueue(i) PROVE MemInv'
  BY <1>1, SubmitMem, HandlerEnqueueMem
<1>2. ASSUME NEW t \in Threads, Rotate(t) \/ \E drain \in BOOLEAN : InterruptThread(t, drain)
      PROVE  MemInv'
  BY <1>2, CommandMem
<1>3. CASE UNCHANGED vars
  BY <1>3, SameKept, OperatorMem DEF vars, memoryVars
<1> QED
  BY <1>1, <1>2, <1>3, TimerFiresMem, LifeMem, RecoveryMem, WorkerMem, OperatorStepMem DEF Next

LEMMA ComingIsQueued == \A s \in Scopes : Coming(s) = Queued(s)
  BY DEF Coming, Queued, Waiting

\* No work is forgotten: once recovery has merged what arrived during the hold, every
\* PENDING or PROCESSING row is with a handler, a timer, a channel, a turn, the recovery's
\* list or an operator command, unless a failed statement or an interrupted triage has let
\* it go (pool.go, burst.go, worker.go, recovery.go).
THEOREM NoWorkForgotten == Spec => []NoForgottenWork
<1>1. IInv /\ OInv /\ MemInv => NoForgottenWork
  <2> SUFFICES ASSUME IInv, OInv, MemInv, phase = "live", rec.pc \notin {"merge", "mergeDisps"},
                      NEW i \in Items, row[i].st \in Live
               PROVE  i \in Remembered \cup hit \cup shed
    BY DEF NoForgottenWork
  <2>1. Safe(i) /\ ScopeOf[i] \in Scopes /\ row[i].st \in {Pending, Processing}
    BY Scoped DEF MemInv, LiveMem, Live
  <2>2. Unmerged = {}
    BY DEF Unmerged
  <2>3. Moving \subseteq Remembered
    BY <2>2 DEF Moving, Remembered, Ready
  <2>4. Hands(turn[ScopeOf[i]]) \cup Coming(ScopeOf[i]) \subseteq Remembered
    BY <2>1, HandsAreOwned, ComingIsQueued DEF Remembered
  <2>5. irq.ids \subseteq Remembered
    BY DEF Remembered
  <2> QED
    BY <2>1, <2>3, <2>4, <2>5 DEF Safe, Lost
<1> QED
  BY <1>1, AlwaysOwned, InitMemInv, NextMemInv, PTL DEF Spec
====================
