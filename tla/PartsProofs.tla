----------- MODULE PartsProofs -----------
(* What holds of the smaller parts for any of their parameters: each part *)
(* by itself, and chosen among the others. *)
EXTENDS MCProgress, ServiceProofs

--------------------
(* LeaderHandoff.  Who has the lock is known from where its process and *)
(* its leader goroutine are; the hold falls only after the lock is got; *)
(* a row waits for a promoted process in its batch, its queue or the hands *)
(* of a handler. *)

HandoffRow == [st : {"pending", "processing", "completed"}, by : Procs, fresh : BOOLEAN]

HandoffTypes ==
    /\ phase \in [Procs -> {"down", "serving", "draining", "handback", "released", "stopping",
                            "gone"}]
    /\ leader \in [Procs -> {"none", "waiting", "owner", "reset", "merge", "enqueue", "promoted",
                             "ended"}]
    /\ hold \in [Procs -> BOOLEAN] /\ lock \in Procs \union {0}
    /\ rowState \in Seq(HandoffRow)
    /\ copies \in [Procs -> SUBSET RowIds] /\ running \in [Procs -> SUBSET RowIds]
    /\ request \in [Procs -> RowIds \union {0}]
    /\ batch = [p \in Procs |-> batch[p]]
    /\ \A p \in Procs : DOMAIN batch[p] \subseteq RowIds
    /\ forfeited \subseteq Procs /\ leftOut \in [Procs -> SUBSET RowIds]

\* It has the lock, or believes so.
Leads(p) == lock = p \/ p \in forfeited

Seat(p) ==
    /\ lock = p => phase[p] \in {"serving", "draining", "handback"}
    /\ leader[p] \in {"owner", "reset", "merge", "enqueue"} => Leads(p)
    /\ leader[p] = "promoted" /\ phase[p] \in {"serving", "draining", "handback"} => Leads(p)
    /\ leader[p] = "waiting" => phase[p] \in {"serving", "draining"}
    /\ phase[p] = "down" => leader[p] = "none"
    /\ Alive(p) /\ ~hold[p] => leader[p] \in {"merge", "enqueue", "promoted"}
    /\ Alive(p) /\ leader[p] \in {"merge", "enqueue", "promoted"} => ~hold[p]

Works(p) ==
    /\ copies[p] # {} => Leads(p) \/ phase[p] = "released"
    /\ running[p] # {} => Leads(p) \/ phase[p] \in {"released", "stopping"}

Unbegun == \A r \in RowIds : rowState[r].fresh => rowState[r].st = "pending"

Adopted(p) ==
    phase[p] = "serving" =>
        \A r \in RowIds : rowState[r].by = p /\ rowState[r].fresh =>
            /\ leader[p] = "enqueue" => r \in DOMAIN batch[p] \/ r \in copies[p] \union leftOut[p] \/ request[p] = r
            /\ leader[p] = "promoted" => r \in copies[p] \union leftOut[p] \/ request[p] = r

HandoffInv ==
    /\ HandoffTypes /\ Unbegun
    /\ \A p \in Procs : Seat(p) /\ Works(p) /\ Adopted(p)

\* A step of p leaves the other processes alone, takes or gives back the lock
\* for p only, and touches a row for good or adds one that p accepted.
OnlyMoves(p) ==
    /\ \A q \in Procs : q # p =>
          /\ phase'[q] = phase[q] /\ leader'[q] = leader[q] /\ hold'[q] = hold[q]
          /\ batch'[q] = batch[q] /\ copies'[q] = copies[q] /\ running'[q] = running[q]
          /\ request'[q] = request[q] /\ leftOut'[q] = leftOut[q]
    /\ forfeited \subseteq forfeited'
    /\ lock' = lock \/ (lock = 0 /\ lock' = p) \/ (lock = p /\ lock' = 0)

RowsLater(p) ==
    \A r \in RowIds' : rowState'[r].fresh =>
        \/ r \in RowIds /\ rowState'[r] = rowState[r]
        \/ r \notin RowIds /\ rowState'[r].by = p /\ rowState'[r].st = "pending"

\* Such a step keeps the invariant when it keeps p's part of it.
LEMMA HandoffFrame ==
    ASSUME HandoffInv, HandoffTypes', NEW p \in Procs, OnlyMoves(p), RowsLater(p),
           Seat(p)', Works(p)', Adopted(p)'
    PROVE  HandoffInv'
BY HandoffAssumption DEF HandoffInv, Unbegun, RowsLater, OnlyMoves, Leads, Seat, Works, Alive, Adopted

\* What happens to the rows: nothing, ...
LEMMA RowsRest ==
    ASSUME rowState' = rowState, NEW p
    PROVE  RowsLater(p) /\ RowIds' = RowIds
  BY DEF RowsLater, RowIds

\* ... a new status (SetRow), ...
LEMMA RowsSet ==
    ASSUME rowState \in Seq(HandoffRow), NEW p, NEW r \in RowIds,
           NEW s \in {"pending", "processing", "completed"}, SetRow(r, s)
    PROVE  /\ RowsLater(p) /\ RowIds' = RowIds /\ rowState' \in Seq(HandoffRow)
           /\ \A x \in RowIds : rowState'[x].fresh => x # r /\ rowState'[x] = rowState[x]
<1>1. rowState[r] \in HandoffRow /\ DOMAIN rowState = 1 .. Len(rowState)
  BY DEF RowIds
<1>2. rowState' = [rowState EXCEPT ![r] = [rowState[r] EXCEPT !.st = s, !.fresh = FALSE]]
  BY DEF SetRow
<1>3. [rowState[r] EXCEPT !.st = s, !.fresh = FALSE] \in HandoffRow
  BY <1>1 DEF HandoffRow
<1>4. rowState' \in Seq(HandoffRow) /\ RowIds' = RowIds
  BY <1>1, <1>2, <1>3 DEF RowIds
<1>5. \A x \in RowIds : x # r => rowState'[x] = rowState[x]
  BY <1>2 DEF RowIds
<1>6. ~rowState'[r].fresh
  BY <1>1, <1>2 DEF RowIds, HandoffRow
<1> QED
  BY <1>4, <1>5, <1>6 DEF RowsLater

\* ... or one more (InsertRequest).
LEMMA RowsGrow ==
    ASSUME rowState \in Seq(HandoffRow), NEW p \in Procs,
           rowState' = Append(rowState, [st |-> "pending", by |-> p, fresh |-> TRUE])
    PROVE  /\ RowsLater(p) /\ RowIds \subseteq RowIds' /\ rowState' \in Seq(HandoffRow)
           /\ Len(rowState) + 1 \in RowIds'
           /\ \A x \in RowIds' : x # Len(rowState) + 1 => x \in RowIds /\ rowState'[x] = rowState[x]
BY DEF HandoffRow, RowIds, RowsLater

\* Starting, leading and stopping keep it (RunBrainApp, startLeaderHandoff).
LEMMA HandoffSteps ==
    ASSUME HandoffInv, NEW p \in Procs,
           Boot(p) \/ AcquireLeaderLock(p) \/ LockSessionEnds(p) \/ LeaderLockFails(p)
             \/ ReadInterrupted(p) \/ ResumeRecovered(p) \/ EnqueueRequest(p)
             \/ Sigterm(p) \/ HTTPShutdown(p) \/ ReleaseLeader(p) \/ StopPool(p) \/ ProcessExits(p) \/ ProcessCrashes(p)
    PROVE  HandoffInv'
<1>0. HandoffTypes /\ Seat(p) /\ Works(p) /\ Adopted(p) /\ Unbegun /\ 0 \notin Procs
  BY HandoffAssumption DEF HandoffInv
<1>1. CASE Boot(p)
  <2>0. rowState' = rowState
    BY <1>1 DEF hoGhosts, Boot, SpendHandoff
  <2>1. RowsLater(p) /\ RowIds' = RowIds
    BY <2>0, RowsRest
  <2>2. HandoffTypes'
    BY <1>0, <1>1, <2>0, <2>1 DEF hoGhosts, HandoffTypes, Boot, SpendHandoff
  <2>3. OnlyMoves(p)
    BY <1>0, <1>1 DEF hoGhosts, HandoffTypes, OnlyMoves, Boot, SpendHandoff
  <2>4. Seat(p)'
    BY <1>0, <1>1 DEF Leads, hoGhosts, HandoffTypes, Seat, Alive, Boot, SpendHandoff
  <2>5. Works(p)'
    BY <1>0, <1>1 DEF Leads, hoGhosts, HandoffTypes, Seat, Works, Alive, Boot, SpendHandoff
  <2>6. Adopted(p)'
    BY <1>0, <1>1, <2>0, <2>1 DEF Leads, hoGhosts, HandoffTypes, Seat, Adopted, Alive, Boot, SpendHandoff
  <2> QED
    BY <2>1, <2>2, <2>3, <2>4, <2>5, <2>6, HandoffFrame
<1>2. CASE AcquireLeaderLock(p)
  <2>0. rowState' = rowState
    BY <1>2 DEF hoGhosts, AcquireLeaderLock
  <2>1. RowsLater(p) /\ RowIds' = RowIds
    BY <2>0, RowsRest
  <2>2. HandoffTypes'
    BY <1>0, <1>2, <2>0, <2>1 DEF hoGhosts, HandoffTypes, AcquireLeaderLock
  <2>3. OnlyMoves(p)
    BY <1>0, <1>2 DEF hoGhosts, HandoffTypes, OnlyMoves, AcquireLeaderLock
  <2>4. Seat(p)'
    BY <1>0, <1>2 DEF Leads, hoGhosts, HandoffTypes, Seat, Alive, AcquireLeaderLock
  <2>5. Works(p)'
    BY <1>0, <1>2 DEF Leads, hoGhosts, HandoffTypes, Seat, Works, Alive, AcquireLeaderLock
  <2>6. Adopted(p)'
    BY <1>0, <1>2, <2>0, <2>1 DEF Leads, hoGhosts, HandoffTypes, Seat, Adopted, Alive, AcquireLeaderLock
  <2> QED
    BY <2>1, <2>2, <2>3, <2>4, <2>5, <2>6, HandoffFrame
<1>3. CASE LeaderLockFails(p)
  <2>0. rowState' = rowState
    BY <1>3 DEF hoGhosts, LeaderLockFails, SpendHandoff
  <2>1. RowsLater(p) /\ RowIds' = RowIds
    BY <2>0, RowsRest
  <2>2. HandoffTypes'
    BY <1>0, <1>3, <2>0, <2>1 DEF hoGhosts, HandoffTypes, LeaderLockFails, SpendHandoff
  <2>3. OnlyMoves(p)
    BY <1>0, <1>3 DEF hoGhosts, HandoffTypes, OnlyMoves, LeaderLockFails, SpendHandoff
  <2>4. Seat(p)'
    BY <1>0, <1>3 DEF Leads, hoGhosts, HandoffTypes, Seat, Alive, LeaderLockFails, SpendHandoff
  <2>5. Works(p)'
    BY <1>0, <1>3 DEF Leads, hoGhosts, HandoffTypes, Seat, Works, Alive, LeaderLockFails, SpendHandoff
  <2>6. Adopted(p)'
    BY <1>0, <1>3, <2>0, <2>1 DEF Leads, hoGhosts, HandoffTypes, Seat, Adopted, Alive, LeaderLockFails, SpendHandoff
  <2> QED
    BY <2>1, <2>2, <2>3, <2>4, <2>5, <2>6, HandoffFrame
<1>4. CASE ReadInterrupted(p)
  <2>0. rowState' = rowState
    BY <1>4 DEF hoGhosts, ReadInterrupted, Open
  <2>1. RowsLater(p) /\ RowIds' = RowIds
    BY <2>0, RowsRest
  <2>2. HandoffTypes'
    BY <1>0, <1>4, <2>0, <2>1 DEF hoGhosts, HandoffTypes, ReadInterrupted, Open
  <2>3. OnlyMoves(p)
    BY <1>0, <1>4 DEF hoGhosts, HandoffTypes, OnlyMoves, ReadInterrupted, Open
  <2>4. Seat(p)'
    BY <1>0, <1>4 DEF Leads, hoGhosts, HandoffTypes, Seat, Alive, ReadInterrupted, Open
  <2>5. Works(p)'
    BY <1>0, <1>4 DEF Leads, hoGhosts, HandoffTypes, Seat, Works, Alive, ReadInterrupted, Open
  <2>6. Adopted(p)'
    BY <1>0, <1>4, <2>0, <2>1 DEF Leads, hoGhosts, HandoffTypes, Seat, Adopted, Alive, ReadInterrupted, Open
  <2> QED
    BY <2>1, <2>2, <2>3, <2>4, <2>5, <2>6, HandoffFrame
<1>5. CASE ResumeRecovered(p)
  <2>0. rowState' = rowState
    BY <1>5 DEF hoGhosts, ResumeRecovered
  <2>1. RowsLater(p) /\ RowIds' = RowIds
    BY <2>0, RowsRest
  <2>2. HandoffTypes'
    <3>1. /\ leader' = [leader EXCEPT ![p] = "promoted"]
          /\ batch' = [batch EXCEPT ![p] = << >>]
          /\ copies' = [copies EXCEPT ![p] = @ \union DOMAIN batch[p]]
          /\ UNCHANGED <<forfeited, leftOut, phase, hold, lock, running, request>>
      BY <1>5 DEF hoGhosts, ResumeRecovered
    <3>2. copies' \in [Procs -> SUBSET RowIds]
      BY <1>0, <3>1 DEF HandoffTypes
    <3>3. batch' = [q \in Procs |-> batch'[q]] /\ \A q \in Procs : DOMAIN batch'[q] \subseteq RowIds
      <4>1. batch = [q \in Procs |-> batch[q]] /\ \A q \in Procs : DOMAIN batch[q] \subseteq RowIds
        BY <1>0 DEF HandoffTypes
      <4>2. batch'[p] = << >> /\ \A q \in Procs : q # p => batch'[q] = batch[q]
        BY <3>1, <4>1
      <4>3. DOMAIN batch'[p] = {}
        BY <4>2
      <4> QED
        BY <3>1, <4>1, <4>2, <4>3
    <3> QED
      BY <1>0, <2>0, <2>1, <3>1, <3>2, <3>3 DEF HandoffTypes
  <2>3. OnlyMoves(p)
    BY <1>0, <1>5 DEF hoGhosts, HandoffTypes, OnlyMoves, ResumeRecovered
  <2>4. Seat(p)'
    BY <1>0, <1>5 DEF Leads, hoGhosts, HandoffTypes, Seat, Alive, ResumeRecovered
  <2>5. Works(p)'
    BY <1>0, <1>5 DEF Leads, hoGhosts, HandoffTypes, Seat, Works, Alive, ResumeRecovered
  <2>6. Adopted(p)'
    BY <1>0, <1>5, <2>0, <2>1 DEF Leads, hoGhosts, HandoffTypes, Seat, Adopted, Alive, ResumeRecovered
  <2> QED
    BY <2>1, <2>2, <2>3, <2>4, <2>5, <2>6, HandoffFrame
<1>6. CASE EnqueueRequest(p)
  <2>0. rowState' = rowState
    BY <1>6 DEF hoGhosts, EnqueueRequest
  <2>1. RowsLater(p) /\ RowIds' = RowIds
    BY <2>0, RowsRest
  <2>2. HandoffTypes'
    BY <1>0, <1>6, <2>0, <2>1 DEF hoGhosts, HandoffTypes, EnqueueRequest
  <2>3. OnlyMoves(p)
    BY <1>0, <1>6 DEF hoGhosts, HandoffTypes, OnlyMoves, EnqueueRequest
  <2>4. Seat(p)'
    BY <1>0, <1>6 DEF Leads, hoGhosts, HandoffTypes, Seat, Alive, EnqueueRequest
  <2>5. Works(p)'
    BY <1>0, <1>6 DEF Leads, hoGhosts, HandoffTypes, Seat, Works, Alive, EnqueueRequest
  <2>6. Adopted(p)'
    BY <1>0, <1>6, <2>0, <2>1 DEF Leads, hoGhosts, HandoffTypes, Seat, Adopted, Alive, EnqueueRequest
  <2> QED
    BY <2>1, <2>2, <2>3, <2>4, <2>5, <2>6, HandoffFrame
<1>7. CASE Sigterm(p)
  <2>0. rowState' = rowState
    BY <1>7 DEF hoGhosts, Sigterm, SpendHandoff
  <2>1. RowsLater(p) /\ RowIds' = RowIds
    BY <2>0, RowsRest
  <2>2. HandoffTypes'
    BY <1>0, <1>7, <2>0, <2>1 DEF hoGhosts, HandoffTypes, Sigterm, SpendHandoff
  <2>3. OnlyMoves(p)
    BY <1>0, <1>7 DEF hoGhosts, HandoffTypes, OnlyMoves, Sigterm, SpendHandoff
  <2>4. Seat(p)'
    BY <1>0, <1>7 DEF Leads, hoGhosts, HandoffTypes, Seat, Alive, Sigterm, SpendHandoff
  <2>5. Works(p)'
    BY <1>0, <1>7 DEF Leads, hoGhosts, HandoffTypes, Seat, Works, Alive, Sigterm, SpendHandoff
  <2>6. Adopted(p)'
    BY <1>0, <1>7, <2>0, <2>1 DEF Leads, hoGhosts, HandoffTypes, Seat, Adopted, Alive, Sigterm, SpendHandoff
  <2> QED
    BY <2>1, <2>2, <2>3, <2>4, <2>5, <2>6, HandoffFrame
<1>8. CASE HTTPShutdown(p)
  <2>0. rowState' = rowState
    BY <1>8 DEF hoGhosts, HTTPShutdown
  <2>1. RowsLater(p) /\ RowIds' = RowIds
    BY <2>0, RowsRest
  <2>2. HandoffTypes'
    BY <1>0, <1>8, <2>0, <2>1 DEF hoGhosts, HandoffTypes, HTTPShutdown
  <2>3. OnlyMoves(p)
    BY <1>0, <1>8 DEF hoGhosts, HandoffTypes, OnlyMoves, HTTPShutdown
  <2>4. Seat(p)'
    BY <1>0, <1>8 DEF Leads, hoGhosts, HandoffTypes, Seat, Alive, HTTPShutdown
  <2>5. Works(p)'
    BY <1>0, <1>8 DEF Leads, hoGhosts, HandoffTypes, Seat, Works, Alive, HTTPShutdown
  <2>6. Adopted(p)'
    BY <1>0, <1>8, <2>0, <2>1 DEF Leads, hoGhosts, HandoffTypes, Seat, Adopted, Alive, HTTPShutdown
  <2> QED
    BY <2>1, <2>2, <2>3, <2>4, <2>5, <2>6, HandoffFrame
<1>9. CASE ReleaseLeader(p)
  <2>0. rowState' = rowState
    BY <1>9 DEF hoGhosts, ReleaseLeader
  <2>1. RowsLater(p) /\ RowIds' = RowIds
    BY <2>0, RowsRest
  <2>2. HandoffTypes'
    BY <1>0, <1>9, <2>0, <2>1 DEF hoGhosts, HandoffTypes, ReleaseLeader
  <2>3. OnlyMoves(p)
    BY <1>0, <1>9 DEF hoGhosts, HandoffTypes, OnlyMoves, ReleaseLeader
  <2>4. Seat(p)'
    BY <1>0, <1>9 DEF Leads, hoGhosts, HandoffTypes, Seat, Alive, ReleaseLeader
  <2>5. Works(p)'
    BY <1>0, <1>9 DEF Leads, hoGhosts, HandoffTypes, Seat, Works, Alive, ReleaseLeader
  <2>6. Adopted(p)'
    BY <1>0, <1>9, <2>0, <2>1 DEF Leads, hoGhosts, HandoffTypes, Seat, Adopted, Alive, ReleaseLeader
  <2> QED
    BY <2>1, <2>2, <2>3, <2>4, <2>5, <2>6, HandoffFrame
<1>10. CASE StopPool(p)
  <2>0. rowState' = rowState
    BY <1>10 DEF hoGhosts, StopPool
  <2>1. RowsLater(p) /\ RowIds' = RowIds
    BY <2>0, RowsRest
  <2>2. HandoffTypes'
    BY <1>0, <1>10, <2>0, <2>1 DEF hoGhosts, HandoffTypes, StopPool
  <2>3. OnlyMoves(p)
    BY <1>0, <1>10 DEF hoGhosts, HandoffTypes, OnlyMoves, StopPool
  <2>4. Seat(p)'
    BY <1>0, <1>10 DEF Leads, hoGhosts, HandoffTypes, Seat, Alive, StopPool
  <2>5. Works(p)'
    BY <1>0, <1>10 DEF Leads, hoGhosts, HandoffTypes, Seat, Works, Alive, StopPool
  <2>6. Adopted(p)'
    BY <1>0, <1>10, <2>0, <2>1 DEF Leads, hoGhosts, HandoffTypes, Seat, Adopted, Alive, StopPool
  <2> QED
    BY <2>1, <2>2, <2>3, <2>4, <2>5, <2>6, HandoffFrame
<1>11. CASE ProcessExits(p)
  <2>0. rowState' = rowState
    BY <1>11 DEF hoGhosts, ProcessExits, SpendHandoff
  <2>1. RowsLater(p) /\ RowIds' = RowIds
    BY <2>0, RowsRest
  <2>2. HandoffTypes'
    BY <1>0, <1>11, <2>0, <2>1 DEF hoGhosts, HandoffTypes, ProcessExits, SpendHandoff
  <2>3. OnlyMoves(p)
    BY <1>0, <1>11 DEF hoGhosts, HandoffTypes, OnlyMoves, ProcessExits, SpendHandoff
  <2>4. Seat(p)'
    BY <1>0, <1>11 DEF Leads, hoGhosts, HandoffTypes, Seat, Alive, ProcessExits, SpendHandoff
  <2>5. Works(p)'
    BY <1>0, <1>11 DEF Leads, hoGhosts, HandoffTypes, Seat, Works, Alive, ProcessExits, SpendHandoff
  <2>6. Adopted(p)'
    BY <1>0, <1>11, <2>0, <2>1 DEF Leads, hoGhosts, HandoffTypes, Seat, Adopted, Alive, ProcessExits, SpendHandoff
  <2> QED
    BY <2>1, <2>2, <2>3, <2>4, <2>5, <2>6, HandoffFrame
<1>12. CASE ProcessCrashes(p)
  <2>0. rowState' = rowState
    BY <1>12 DEF hoGhosts, ProcessCrashes, SpendHandoff
  <2>1. RowsLater(p) /\ RowIds' = RowIds
    BY <2>0, RowsRest
  <2>2. HandoffTypes'
    <3>1. /\ phase' = [phase EXCEPT ![p] = "gone"] /\ leader' = [leader EXCEPT ![p] = "ended"]
          /\ lock' \in {lock, 0} /\ hold' = hold
          /\ batch' = [batch EXCEPT ![p] = << >>] /\ copies' = [copies EXCEPT ![p] = {}]
          /\ running' = [running EXCEPT ![p] = {}] /\ request' = [request EXCEPT ![p] = 0]
          /\ UNCHANGED <<forfeited, leftOut>>
      BY <1>12 DEF hoGhosts, ProcessCrashes
    <3>2. batch' = [q \in Procs |-> batch'[q]] /\ \A q \in Procs : DOMAIN batch'[q] \subseteq RowIds
      <4>1. batch = [q \in Procs |-> batch[q]] /\ \A q \in Procs : DOMAIN batch[q] \subseteq RowIds
        BY <1>0 DEF HandoffTypes
      <4>2. batch'[p] = << >> /\ \A q \in Procs : q # p => batch'[q] = batch[q]
        BY <3>1, <4>1
      <4>3. DOMAIN batch'[p] = {}
        BY <4>2
      <4> QED
        BY <3>1, <4>1, <4>2, <4>3
    <3> QED
      BY <1>0, <2>0, <2>1, <3>1, <3>2 DEF HandoffTypes
  <2>3. OnlyMoves(p)
    BY <1>0, <1>12 DEF hoGhosts, HandoffTypes, OnlyMoves, ProcessCrashes, SpendHandoff
  <2>4. Seat(p)'
    BY <1>0, <1>12 DEF Leads, hoGhosts, HandoffTypes, Seat, Alive, ProcessCrashes, SpendHandoff
  <2>5. Works(p)'
    BY <1>0, <1>12 DEF Leads, hoGhosts, HandoffTypes, Seat, Works, Alive, ProcessCrashes, SpendHandoff
  <2>6. Adopted(p)'
    BY <1>0, <1>12, <2>0, <2>1 DEF Leads, hoGhosts, HandoffTypes, Seat, Adopted, Alive, ProcessCrashes, SpendHandoff
  <2> QED
    BY <2>1, <2>2, <2>3, <2>4, <2>5, <2>6, HandoffFrame
<1>13. CASE LockSessionEnds(p)
  <2>0. rowState' = rowState
    BY <1>13 DEF LockSessionEnds
  <2>1. RowsLater(p) /\ RowIds' = RowIds
    BY <2>0, RowsRest
  <2>2. HandoffTypes'
    BY <1>0, <1>13, <2>0, <2>1 DEF HandoffTypes, LockSessionEnds
  <2>3. OnlyMoves(p)
    BY <1>0, <1>13 DEF OnlyMoves, LockSessionEnds
  <2>4. Seat(p)' /\ Works(p)'
    BY <1>0, <1>13 DEF Seat, Works, Leads, Alive, LockSessionEnds
  <2>5. Adopted(p)'
    BY <1>0, <1>13, <2>0, <2>1 DEF Adopted, LockSessionEnds
  <2> QED
    BY <2>1, <2>2, <2>3, <2>4, <2>5, HandoffFrame
<1> QED
  BY <1>1, <1>2, <1>3, <1>4, <1>5, <1>6, <1>7, <1>8, <1>9, <1>10, <1>11, <1>12, <1>13

\* So do the release of the hold and the rows that are merged then
\* (RecoverInterrupted, mergeHeldPendingEntries).
LEMMA MergeKeeps ==
    ASSUME HandoffInv, NEW p \in Procs, ReleaseHoldAndMerge(p)
    PROVE  HandoffInv'
<1>0. HandoffTypes /\ Seat(p) /\ Works(p) /\ Adopted(p) /\ Unbegun
  BY DEF HandoffInv
<1>1. rowState' = rowState /\ RowsLater(p) /\ RowIds' = RowIds
  BY RowsRest DEF hoGhosts, ReleaseHoldAndMerge
<1>2. CASE leader[p] = "reset"
  BY <1>2, <1>0, <1>1, HandoffFrame DEF Leads, hoGhosts, ReleaseHoldAndMerge, HandoffTypes, OnlyMoves, Seat, Works,
     Adopted, Alive
<1>3. CASE leader[p] = "merge"
  <2>1. /\ leader' = [leader EXCEPT ![p] = "enqueue"]
        /\ UNCHANGED <<forfeited, phase, hold, lock, copies, running, request>>
        /\ \/ batch' = [batch EXCEPT ![p] = WithPendings(@)] /\ leftOut' = leftOut
           \/ batch' = batch /\ leftOut' = [leftOut EXCEPT ![p] = Pendings \ DOMAIN batch[p]]
    BY <1>3 DEF ReleaseHoldAndMerge
  <2>2. Pendings \subseteq RowIds /\ DOMAIN WithPendings(batch[p]) = DOMAIN batch[p] \union Pendings
    BY <1>0 DEF HandoffTypes, WithPendings, Pendings
  <2>3. /\ batch' = [q \in Procs |-> batch'[q]] /\ leftOut' \in [Procs -> SUBSET RowIds]
        /\ \A q \in Procs : q # p => batch'[q] = batch[q] /\ leftOut'[q] = leftOut[q]
        /\ DOMAIN batch'[p] \subseteq RowIds
        /\ Pendings \subseteq DOMAIN batch'[p] \union leftOut'[p]
    BY <1>0, <2>1, <2>2 DEF HandoffTypes
  <2>4. HandoffTypes'
    BY <1>0, <1>1, <2>1, <2>3 DEF HandoffTypes
  <2>5. OnlyMoves(p)
    BY <1>0, <2>1, <2>3 DEF HandoffTypes, OnlyMoves
  <2>6. Seat(p)' /\ Works(p)'
    BY <1>0, <1>3, <2>1 DEF Leads, HandoffTypes, Seat, Works, Alive
  <2>7. Adopted(p)'
    BY <1>0, <1>1, <2>1, <2>3 DEF HandoffTypes, Unbegun, Adopted, Pendings
  <2> QED
    BY <1>1, <2>4, <2>5, <2>6, <2>7, HandoffFrame
<1> QED
  BY <1>2, <1>3 DEF hoGhosts, ReleaseHoldAndMerge

\* A turn that begins, ends or is cancelled, and a row that recovery resets, are
\* begun and not fresh any more (ClaimPendingMessage, ResetInterruptedProcessing).
LEMMA TurnsKeep ==
    ASSUME HandoffInv, NEW p \in Procs,
           ClaimRow(p) \/ TurnCompletes(p) \/ TurnIsCancelled(p) \/ ResetInterruptedProcessing(p)
    PROVE  HandoffInv'
<1>0. HandoffTypes /\ Seat(p) /\ Works(p) /\ Adopted(p) /\ Unbegun /\ rowState \in Seq(HandoffRow)
  BY DEF HandoffInv, HandoffTypes
<1>1. CASE ClaimRow(p)
  <2>1. PICK r \in copies[p] :
          /\ copies' = [copies EXCEPT ![p] = @ \ {r}]
          /\ \/ /\ rowState[r].st = "pending" /\ SetRow(r, "processing")
                /\ running' = [running EXCEPT ![p] = @ \union {r}]
             \/ rowState[r].st # "pending" /\ rowState' = rowState /\ running' = running
    BY <1>1, Zenon DEF hoGhosts, ClaimRow
  <2>2. /\ phase[p] \in {"serving", "draining", "handback", "released"}
        /\ UNCHANGED <<forfeited, leftOut, phase, leader, hold, lock, batch, request>>
    BY <1>1 DEF hoGhosts, ClaimRow
  <2>3. r \in RowIds
    BY <1>0, <2>1 DEF HandoffTypes
  <2>4. /\ RowsLater(p) /\ RowIds' = RowIds /\ rowState' \in Seq(HandoffRow)
        /\ \A x \in RowIds : rowState'[x].fresh => rowState'[x] = rowState[x] /\ x # r
    BY <1>0, <2>3, RowsSet, RowsRest, <2>1 DEF Unbegun
  <2>5. running' \in [Procs -> SUBSET RowIds] /\ \A q \in Procs : q # p => running'[q] = running[q]
    <3>1. running' = running \/ running' = [running EXCEPT ![p] = @ \union {r}]
      BY <2>1, Zenon
    <3>2. running \in [Procs -> SUBSET RowIds]
      BY <1>0 DEF HandoffTypes
    <3> QED
      BY <2>3, <3>1, <3>2
  <2>6. HandoffTypes'
    BY <1>0, <2>1, <2>2, <2>4, <2>5 DEF HandoffTypes
  <2>7. OnlyMoves(p)
    BY <1>0, <2>1, <2>2, <2>5 DEF HandoffTypes, OnlyMoves
  <2>8. Seat(p)' /\ Works(p)'
    BY <1>0, <2>1, <2>2 DEF Leads, HandoffTypes, Seat, Works, Alive
  <2>9. Adopted(p)'
    <3>1. \A x \in copies[p] : x # r => x \in copies'[p]
      BY <1>0, <2>1 DEF HandoffTypes
    <3> QED
      BY <1>0, <2>2, <2>4, <3>1 DEF Adopted
  <2> QED
    BY <2>4, <2>6, <2>7, <2>8, <2>9, HandoffFrame
<1>2. CASE TurnCompletes(p) \/ TurnIsCancelled(p)
  <2>1. PICK r \in running[p] :
          /\ running' = [running EXCEPT ![p] = @ \ {r}]
          /\ rowState' = rowState \/ SetRow(r, "pending") \/ SetRow(r, "completed")
    BY <1>2 DEF hoGhosts, TurnCompletes, TurnIsCancelled
  <2>2. UNCHANGED <<forfeited, leftOut, phase, leader, hold, lock, batch, copies, request>>
    BY <1>2 DEF hoGhosts, TurnCompletes, TurnIsCancelled
  <2>3. r \in RowIds
    BY <1>0, <2>1 DEF HandoffTypes
  <2>4. /\ RowsLater(p) /\ RowIds' = RowIds /\ rowState' \in Seq(HandoffRow)
        /\ \A x \in RowIds : rowState'[x].fresh => rowState'[x] = rowState[x]
    BY <1>0, <2>1, <2>3, RowsSet, RowsRest
  <2>5. HandoffTypes'
    BY <1>0, <2>1, <2>2, <2>4 DEF HandoffTypes
  <2>6. OnlyMoves(p)
    BY <1>0, <2>1, <2>2 DEF HandoffTypes, OnlyMoves
  <2>7. Seat(p)' /\ Works(p)'
    BY <1>0, <2>1, <2>2 DEF Leads, HandoffTypes, Seat, Works, Alive
  <2>8. Adopted(p)'
    BY <1>0, <2>2, <2>4 DEF HandoffTypes, Adopted
  <2> QED
    BY <2>4, <2>5, <2>6, <2>7, <2>8, HandoffFrame
<1>3. CASE ResetInterruptedProcessing(p)
  <2>1. PICK r \in DOMAIN batch[p] :
          /\ batch' = [batch EXCEPT ![p][r] = "pending"]
          /\ rowState' = rowState \/ SetRow(r, "pending")
    BY <1>3, Zenon DEF hoGhosts, ResetInterruptedProcessing
  <2>2. leader[p] = "reset" /\ UNCHANGED <<forfeited, leftOut, phase, leader, hold, lock, copies, running, request>>
    BY <1>3 DEF hoGhosts, ResetInterruptedProcessing
  <2>3. r \in RowIds
    BY <1>0, <2>1 DEF HandoffTypes
  <2>4. /\ RowsLater(p) /\ RowIds' = RowIds /\ rowState' \in Seq(HandoffRow)
    BY <1>0, <2>1, <2>3, RowsSet, RowsRest
  <2>5. /\ batch' = [q \in Procs |-> batch'[q]] /\ DOMAIN batch'[p] = DOMAIN batch[p]
        /\ \A q \in Procs : q # p => batch'[q] = batch[q]
    BY <1>0, <2>1 DEF HandoffTypes
  <2>6. HandoffTypes'
    BY <1>0, <2>2, <2>4, <2>5 DEF HandoffTypes
  <2>7. OnlyMoves(p)
    BY <2>2, <2>5 DEF OnlyMoves
  <2>8. Seat(p)' /\ Works(p)'
    BY <1>0, <2>2 DEF Leads, Seat, Works, Alive
  <2>9. Adopted(p)'
    BY <2>2 DEF Adopted
  <2> QED
    BY <2>4, <2>6, <2>7, <2>8, <2>9, HandoffFrame
<1> QED
  BY <1>1, <1>2, <1>3

\* A new row is in the hands of the handler that inserted it (InsertRequest).
LEMMA InsertKeeps ==
    ASSUME HandoffInv, NEW p \in Procs, InsertRequest(p)
    PROVE  HandoffInv'
<1>0. HandoffTypes /\ Seat(p) /\ Works(p) /\ Adopted(p) /\ rowState \in Seq(HandoffRow)
  BY DEF HandoffInv, HandoffTypes
<1> DEFINE r == Len(rowState) + 1
<1>1. /\ rowState' = Append(rowState, [st |-> "pending", by |-> p, fresh |-> TRUE])
      /\ request' = [request EXCEPT ![p] = r] /\ request[p] = 0
      /\ UNCHANGED <<forfeited, leftOut, phase, leader, hold, lock, batch, copies, running>>
  BY DEF hoGhosts, InsertRequest
<1>2. /\ RowsLater(p) /\ RowIds \subseteq RowIds' /\ rowState' \in Seq(HandoffRow)
      /\ r \in RowIds'
      /\ \A x \in RowIds' : x # r => x \in RowIds /\ rowState'[x] = rowState[x]
  BY <1>0, <1>1, RowsGrow
<1>3. 0 \notin RowIds
  BY <1>0 DEF RowIds
<1> HIDE DEF r
<1>4. HandoffTypes'
  BY <1>0, <1>1, <1>2 DEF HandoffTypes
<1>5. OnlyMoves(p)
  BY <1>0, <1>1 DEF HandoffTypes, OnlyMoves
<1>6. Seat(p)' /\ Works(p)'
  BY <1>0, <1>1 DEF Leads, Seat, Works, Alive
<1>7. Adopted(p)'
  BY <1>0, <1>1, <1>2, <1>3 DEF HandoffTypes, Adopted
<1> QED
  BY <1>2, <1>4, <1>5, <1>6, <1>7, HandoffFrame

\* Every step of a process keeps it.
LEMMA HandoffKept == HandoffInv /\ [HandoffNext]_hoVars => HandoffInv'
<1> SUFFICES ASSUME HandoffInv, [HandoffNext]_hoVars PROVE HandoffInv'
  OBVIOUS
<1>1. ASSUME NEW p \in Procs,
             \/ Boot(p) \/ LeaderLockFails(p) \/ LockSessionEnds(p) \/ LeaderWork(p)
             \/ InsertRequest(p) \/ ClaimRow(p) \/ TurnCompletes(p)
             \/ Sigterm(p) \/ ShutdownWork(p) \/ ProcessCrashes(p)
      PROVE  HandoffInv'
  BY <1>1, HandoffSteps, MergeKeeps, TurnsKeep, InsertKeeps DEF LeaderWork, ShutdownWork
<1>2. CASE UNCHANGED hoVars
  BY <1>2 DEF Leads, hoVars, HandoffInv, HandoffTypes, Seat, Works, Unbegun, Adopted, Alive, RowIds
<1> QED
  BY <1>1, <1>2 DEF HandoffNext

\* The processes start from nothing (RunBrainApp).
LEMMA HandoffStarts == HandoffInit => HandoffInv
<1> SUFFICES ASSUME HandoffInit PROVE HandoffInv
  OBVIOUS
<1>0. 0 \notin Procs /\ RowIds = {} /\ rowState \in Seq(HandoffRow)
  BY HandoffAssumption DEF HandoffInit, RowIds
<1>1. HandoffTypes
  BY <1>0 DEF HandoffInit, HandoffTypes
<1> QED
  BY <1>0, <1>1 DEF Leads, HandoffInit, HandoffInv, Seat, Works, Unbegun, Adopted, Alive

\* The invariant says what the runs check.
LEMMA HandoffEnough == HandoffInv => HandoffIsSound
<1> SUFFICES ASSUME HandoffInv PROVE HandoffIsSound
  OBVIOUS
<1>1. HandoffTypeOK
  <2>1. ASSUME NEW r \in RowIds PROVE rowState[r].st \in {"pending", "processing", "completed"}
    <3>1. rowState[r] \in HandoffRow
      BY DEF HandoffInv, HandoffTypes, RowIds
    <3> QED
      BY <3>1 DEF HandoffRow
  <2>2. lock # 0 => phase[lock] \in {"serving", "draining", "handback"}
    BY DEF Leads, HandoffInv, HandoffTypes, Seat
  <2> QED
    BY <2>1, <2>2 DEF HandoffInv, HandoffTypes, HandoffTypeOK
<1>2. OnlyTheLeaderRuns
  BY DEF Leads, HandoffInv, Works, OnlyTheLeaderRuns
<1>3. HeldRequestsAreAdopted
  BY DEF HandoffInv, Adopted, HeldRequestsAreAdopted
<1> QED
  BY <1>1, <1>2, <1>3 DEF HandoffIsSound

\* In a deployment of any number of processes, outside a hand-over only the owner of
\* the lock runs turns, or one whose lock session the database has ended; and what a
\* process accepted while it was held is in its queue once it is promoted, save the
\* rows a failed second read left out (startLeaderHandoff, mergeHeldPendingEntries).
THEOREM HandoffIsSafe == HandoffSpec => []HandoffIsSound
  BY HandoffStarts, HandoffKept, HandoffEnough, PTL DEF HandoffSpec

\* The same where the hand-over is one of the parts (MCProgress).
THEOREM LeaderHandoffHolds == PartsSpec => []LeaderHandoffIsSound
<1> DEFINE Chosen == part = "handoff" => HandoffInv
<1>1. ProgressInit => Chosen
  BY HandoffStarts DEF ProgressInit
<1>2. Chosen /\ [ProgressNext]_progressVars => Chosen'
  BY HandoffKept DEF ProgressNext, progressVars, Others
<1>3. Chosen => LeaderHandoffIsSound
  BY HandoffEnough DEF LeaderHandoffIsSound
<1> QED
  BY <1>1, <1>2, <1>3, PTL DEF PartsSpec

--------------------
(* EventWatches.  A one-shot watch is owned by the table or by one request *)
(* and is asked for no more often than doubted while it is owned.  The end *)
(* of a target finds every watch registered before it, because the request *)
(* synapse waits for has taken them all, or has seen an error, or another *)
(* request put them back late. *)

Holds(h, w) == w \in fire[h].todo

WatchOwned ==
    \A w \in OneShot :
        /\ \A g, h \in Handlers : Holds(g, w) /\ Holds(h, w) => g = h
        /\ \A h \in Handlers : Holds(h, w) => w \notin held
        /\ reg[w] \in {"new", "validated"} => w \notin held /\ \A h \in Handlers : ~Holds(h, w)
        /\ w \in cancelled =>
              reg[w] = "registered" /\ w \notin held /\ \A h \in Handlers : ~Holds(h, w)

WatchAsked ==
    \A w \in OneShot :
        /\ prompts[w] <= 1 + doubts[w]
        /\ reg[w] \in {"new", "validated"} \/ w \in held \/ (\E h \in Handlers : Holds(h, w))
              => prompts[w] <= doubts[w]

WatchThere ==
    \A w \in Watches :
        /\ reg[w] \in {"inserted", "registered"} /\ w \notin cancelled /\ w \notin lost
        /\ w \in OneShot => prompts[w] = 0
        => w \in held \/ (w \in OneShot /\ \E h \in Handlers : Holds(h, w))

\* synapse waits for each request that is live, and for one at a time.
WatchServed ==
    /\ \A t \in VanadisTargets : /\ notice[t].pc # "idle" => t \in ended
                                 /\ notice[t].pc # "check"
                                 /\ t \notin ended => happened[t] = "none"
    /\ \A h \in Handlers : fire[h].live => \A t \in fire[h].on : notice[t].pc = "wait"
    /\ \A g, h \in Handlers : fire[g].live /\ fire[h].live /\ fire[g].on \cap fire[h].on # {} => g = h
    /\ \A h \in Handlers : \A w \in fire[h].todo : TargetOf[w] \in fire[h].on

\* A watch in the table that was registered in time and not put back too late.
Waiting(w) ==
    /\ w \in held \cap OneShot /\ reg[w] = "registered" /\ TargetOf[w] \in ended
    /\ happened[TargetOf[w]] = TypeOf[w]
    /\ TargetOf[w] \notin missed /\ w \notin late

WatchHeard ==
    /\ \A w \in Watches : Waiting(w) => notice[TargetOf[w]].pc # "idle"
    /\ \A h \in Handlers : fire[h].live /\ ~fire[h].err =>
          \A w \in Watches : Waiting(w) => TargetOf[w] \notin fire[h].on

WatchInv == WatchTypeOK /\ WatchOwned /\ WatchAsked /\ WatchThere /\ WatchServed /\ WatchHeard

\* An attempt that has failed is repeated or given up, and no other event is touched
\* (doHTTPWithRetry, River).
LEMMA RetryFacts ==
    ASSUME WatchTypeOK, NEW t \in Targets, RetryOrGiveUp(t)
    PROVE  /\ notice' \in [Targets -> [pc : {"idle", "check", "send", "wait"},
                                       http : 0..HTTPAttempts-1, river : 0..RiverAttempts-1]]
           /\ missed \subseteq missed' /\ missed' \subseteq Targets
           /\ \A u \in Targets : u # t => notice'[u] = notice[u]
           /\ notice'[t].pc = "send" \/ (notice'[t].pc = "idle" /\ t \in missed')
<1> DEFINE n == notice[t]
           N == [pc : {"idle", "check", "send", "wait"},
                 http : 0..HTTPAttempts-1, river : 0..RiverAttempts-1]
<1>0. /\ n \in N /\ notice \in [Targets -> N] /\ missed \subseteq Targets
      /\ HTTPAttempts \in Nat \ {0} /\ RiverAttempts \in Nat \ {0}
  BY WatchAssumption DEF WatchTypeOK
<1>1. CASE /\ n.http + 1 < HTTPAttempts
           /\ notice' = [notice EXCEPT ![t].pc = "send", ![t].http = @ + 1]
           /\ UNCHANGED missed
  BY <1>1, <1>0
<1>2. CASE /\ n.river + 1 < RiverAttempts
           /\ notice' = [notice EXCEPT ![t] = [pc |-> "send", http |-> 0, river |-> n.river + 1]]
           /\ UNCHANGED missed
  BY <1>0, <1>2
<1>3. CASE /\ notice' = [notice EXCEPT ![t] = NoNotice]
           /\ missed' = missed \cup {t}
  BY <1>0, <1>3 DEF NoNotice
<1> QED
  BY <1>1, <1>2, <1>3 DEF RetryOrGiveUp


\* Registration, cancellation and the events themselves keep it (HandleWatchEvent,
\* HandleCancelEventWatch, HandleEventsWebhook).
LEMMA RegistrationKeeps ==
    ASSUME WatchInv,
           \/ \E w \in Watches : HandleWatchEvent(w) \/ InsertEventTrigger(w) \/ RecheckTarget(w)
                                 \/ HandleCancelEventWatch(w)
           \/ \E t \in Targets : TargetEnds(t) \/ HandleEventsWebhook(t) \/ CheckEventTriggers(t)
    PROVE  WatchInv'
<1>0. /\ WatchTypeOK /\ WatchOwned /\ WatchAsked /\ WatchThere /\ WatchServed /\ WatchHeard
      /\ OneShot \subseteq Watches /\ VanadisTargets \subseteq Targets
      /\ TargetOf \in [Watches -> Targets]
      /\ HTTPAttempts \in Nat \ {0} /\ RiverAttempts \in Nat \ {0}
      /\ MaxEvents \in Nat /\ MaxFaults \in Nat
  BY WatchAssumption DEF WatchInv
<1>1. ASSUME NEW w \in Watches, HandleWatchEvent(w) PROVE WatchInv'
  <2>1. WatchTypeOK'
    BY <1>0, <1>1 DEF WatchTypeOK, HandleWatchEvent, watchGhosts, TargetIsLive
  <2>2. WatchOwned'
    BY <1>0, <1>1 DEF WatchTypeOK, WatchOwned, Holds, HandleWatchEvent, watchGhosts, TargetIsLive
  <2>3. WatchAsked'
    BY <1>0, <1>1 DEF WatchTypeOK, WatchAsked, Holds, HandleWatchEvent, watchGhosts, TargetIsLive
  <2>4. WatchThere'
    BY <1>0, <1>1 DEF WatchTypeOK, WatchThere, Holds, HandleWatchEvent, watchGhosts, TargetIsLive
  <2>5. WatchServed'
    BY <1>0, <1>1 DEF WatchTypeOK, WatchServed, HandleWatchEvent, watchGhosts, TargetIsLive
  <2>6. WatchHeard'
    BY <1>0, <1>1 DEF WatchTypeOK, WatchHeard, Waiting, WatchServed, HandleWatchEvent, watchGhosts, TargetIsLive
  <2> QED
    BY <2>1, <2>2, <2>3, <2>4, <2>5, <2>6 DEF WatchInv
<1>2. ASSUME NEW w \in Watches, InsertEventTrigger(w) PROVE WatchInv'
  <2>1. WatchTypeOK'
    BY <1>0, <1>2 DEF WatchTypeOK, InsertEventTrigger, watchGhosts, WatchFault, NoWatchFault
  <2>2. WatchOwned'
    BY <1>0, <1>2 DEF WatchTypeOK, WatchOwned, Holds, InsertEventTrigger, watchGhosts, WatchFault, NoWatchFault
  <2>3. WatchAsked'
    BY <1>0, <1>2 DEF WatchTypeOK, WatchAsked, Holds, InsertEventTrigger, watchGhosts, WatchFault, NoWatchFault
  <2>4. WatchThere'
    BY <1>0, <1>2 DEF WatchTypeOK, WatchThere, Holds, InsertEventTrigger, watchGhosts, WatchFault, NoWatchFault
  <2>5. WatchServed'
    BY <1>0, <1>2 DEF WatchTypeOK, WatchServed, InsertEventTrigger, watchGhosts, WatchFault, NoWatchFault
  <2>6. WatchHeard'
    BY <1>0, <1>2, ZenonT(60) DEF WatchTypeOK, WatchHeard, Waiting, WatchServed, InsertEventTrigger, watchGhosts, WatchFault, NoWatchFault
  <2> QED
    BY <2>1, <2>2, <2>3, <2>4, <2>5, <2>6 DEF WatchInv
<1>3. ASSUME NEW w \in Watches, RecheckTarget(w) PROVE WatchInv'
  <2>1. WatchTypeOK'
    BY <1>0, <1>3 DEF WatchTypeOK, RecheckTarget, watchGhosts, TargetIsLive, WatchFault, NoWatchFault
  <2>2. WatchOwned'
    BY <1>0, <1>3 DEF WatchTypeOK, WatchOwned, Holds, RecheckTarget, watchGhosts, TargetIsLive, WatchFault, NoWatchFault
  <2>3. WatchAsked'
    BY <1>0, <1>3 DEF WatchTypeOK, WatchAsked, Holds, RecheckTarget, watchGhosts, TargetIsLive, WatchFault, NoWatchFault
  <2>4. WatchThere'
    BY <1>0, <1>3 DEF WatchTypeOK, WatchThere, Holds, RecheckTarget, watchGhosts, TargetIsLive, WatchFault, NoWatchFault
  <2>5. WatchServed'
    BY <1>0, <1>3 DEF WatchTypeOK, WatchServed, RecheckTarget, watchGhosts, TargetIsLive, WatchFault, NoWatchFault
  <2>6. WatchHeard'
    BY <1>0, <1>3 DEF WatchTypeOK, WatchHeard, Waiting, WatchServed, RecheckTarget, watchGhosts, TargetIsLive, WatchFault, NoWatchFault
  <2> QED
    BY <2>1, <2>2, <2>3, <2>4, <2>5, <2>6 DEF WatchInv
<1>4. ASSUME NEW w \in Watches, HandleCancelEventWatch(w) PROVE WatchInv'
  <2>1. WatchTypeOK'
    BY <1>0, <1>4 DEF WatchTypeOK, HandleCancelEventWatch, watchGhosts
  <2>2. WatchOwned'
    BY <1>0, <1>4 DEF WatchTypeOK, WatchOwned, Holds, HandleCancelEventWatch, watchGhosts
  <2>3. WatchAsked'
    BY <1>0, <1>4 DEF WatchTypeOK, WatchAsked, Holds, HandleCancelEventWatch, watchGhosts
  <2>4. WatchThere'
    BY <1>0, <1>4 DEF WatchTypeOK, WatchThere, Holds, HandleCancelEventWatch, watchGhosts
  <2>5. WatchServed'
    BY <1>0, <1>4 DEF WatchTypeOK, WatchServed, HandleCancelEventWatch, watchGhosts
  <2>6. WatchHeard'
    BY <1>0, <1>4 DEF WatchTypeOK, WatchHeard, Waiting, WatchServed, HandleCancelEventWatch, watchGhosts
  <2> QED
    BY <2>1, <2>2, <2>3, <2>4, <2>5, <2>6 DEF WatchInv
<1>5. ASSUME NEW t \in Targets, TargetEnds(t) PROVE WatchInv'
  <2>0. /\ t \in VanadisTargets \ ended /\ ended' = ended \cup {t}
        /\ UNCHANGED <<reg, held, fire, events, watchCrashes, watchFaults, watchGhosts>>
        /\ \A u \in Targets : u # t => notice'[u] = notice[u] /\ happened'[u] = happened[u]
        /\ happened' \in [Targets -> EventTypes \cup {"none"}]
        /\ \/ notice'[t].pc = "send"
           \/ notice'[t].pc = notice[t].pc /\ happened'[t] = "none"
    BY <1>0, <1>5 DEF WatchTypeOK, WatchServed, TargetEnds, NoNotice
  <2>7. notice' \in [Targets -> [pc : {"idle", "check", "send", "wait"},
                                 http : 0..HTTPAttempts-1, river : 0..RiverAttempts-1]]
    BY <1>0, <1>5 DEF WatchTypeOK, TargetEnds, NoNotice
  <2>8. \A w \in Watches : TypeOf[w] # "none"
    BY WatchAssumption
  <2>1. WatchTypeOK'
    BY <1>0, <2>0, <2>7 DEF WatchTypeOK, watchGhosts
  <2>2. WatchOwned'
    BY <1>0, <2>0 DEF WatchOwned, Holds, watchGhosts
  <2>3. WatchAsked'
    BY <1>0, <2>0 DEF WatchAsked, Holds, watchGhosts
  <2>4. WatchThere'
    BY <1>0, <2>0 DEF WatchThere, Holds, watchGhosts
  <2>9. \A h \in Handlers : fire[h].live => t \notin fire[h].on
    BY <1>0, <2>0 DEF WatchServed
  <2>5. WatchServed'
    <3>1. \A u \in VanadisTargets : /\ notice'[u].pc # "idle" => u \in ended'
                                    /\ notice'[u].pc # "check"
                                    /\ u \notin ended' => happened'[u] = "none"
      BY <1>0, <2>0 DEF WatchServed
    <3>2. \A h \in Handlers : fire'[h].live => \A u \in fire'[h].on : notice'[u].pc = "wait"
      <4>1. \A h \in Handlers : fire[h].on \subseteq Targets
        BY <1>0 DEF WatchTypeOK
      <4> QED
        BY <1>0, <2>0, <2>9, <4>1 DEF WatchServed
    <3>3. \A g, h \in Handlers : fire'[g].live /\ fire'[h].live /\ fire'[g].on \cap fire'[h].on # {} => g = h
      BY <1>0, <2>0 DEF WatchServed
    <3>4. \A h \in Handlers : \A w \in fire'[h].todo : TargetOf[w] \in fire'[h].on
      BY <1>0, <2>0 DEF WatchServed
    <3> QED
      BY <3>1, <3>2, <3>3, <3>4 DEF WatchServed
  <2>6. WatchHeard'
    BY <1>0, <2>0, <2>8, <2>9 DEF WatchHeard, Waiting, watchGhosts
  <2> QED
    BY <2>1, <2>2, <2>3, <2>4, <2>5, <2>6 DEF WatchInv
<1>6. ASSUME NEW t \in Targets, HandleEventsWebhook(t) PROVE WatchInv'
  <2>1. WatchTypeOK'
    BY <1>0, <1>6, SMTT(60) DEF WatchTypeOK, HandleEventsWebhook, watchGhosts, NoNotice
  <2>2. WatchOwned'
    BY <1>0, <1>6 DEF WatchTypeOK, WatchOwned, Holds, HandleEventsWebhook, watchGhosts, NoNotice
  <2>3. WatchAsked'
    BY <1>0, <1>6 DEF WatchTypeOK, WatchAsked, Holds, HandleEventsWebhook, watchGhosts, NoNotice
  <2>4. WatchThere'
    BY <1>0, <1>6 DEF WatchTypeOK, WatchThere, Holds, HandleEventsWebhook, watchGhosts, NoNotice
  <2>5. WatchServed'
    BY <1>0, <1>6 DEF WatchTypeOK, WatchServed, HandleEventsWebhook, watchGhosts, NoNotice
  <2>6. WatchHeard'
    BY <1>0, <1>6 DEF WatchTypeOK, WatchHeard, Waiting, WatchServed, HandleEventsWebhook, watchGhosts, NoNotice
  <2> QED
    BY <2>1, <2>2, <2>3, <2>4, <2>5, <2>6 DEF WatchInv
<1>7. ASSUME NEW t \in Targets, CheckEventTriggers(t) PROVE WatchInv'
  <2>0. /\ t \notin VanadisTargets /\ watchFaults' \in 0 .. MaxFaults
        /\ UNCHANGED <<reg, held, ended, happened, fire, events, watchCrashes, watchGhosts>>
    BY <1>0, <1>7 DEF WatchServed, WatchTypeOK, CheckEventTriggers, WatchFault, NoWatchFault
  <2>7. /\ notice' \in [Targets -> [pc : {"idle", "check", "send", "wait"},
                                    http : 0..HTTPAttempts-1, river : 0..RiverAttempts-1]]
        /\ \A u \in Targets : u # t => notice'[u] = notice[u]
        /\ notice[t].pc = "check"
    <3>1. notice' = [notice EXCEPT ![t] = NoNotice] \/ notice' = [notice EXCEPT ![t].pc = "send"]
      BY <1>7 DEF CheckEventTriggers
    <3>2. CASE notice' = [notice EXCEPT ![t] = NoNotice]
      BY <1>0, <1>7, <3>2 DEF WatchTypeOK, NoNotice, CheckEventTriggers
    <3>3. CASE notice' = [notice EXCEPT ![t].pc = "send"]
      BY <1>0, <1>7, <3>3 DEF WatchTypeOK, CheckEventTriggers
    <3> QED
      BY <3>1, <3>2, <3>3
  <2>1. WatchTypeOK'
    BY <1>0, <2>0, <2>7 DEF WatchTypeOK, watchGhosts
  <2>2. WatchOwned'
    BY <1>0, <1>7 DEF WatchTypeOK, WatchOwned, Holds, CheckEventTriggers, watchGhosts, NoNotice, WatchFault, NoWatchFault
  <2>3. WatchAsked'
    BY <1>0, <1>7 DEF WatchTypeOK, WatchAsked, Holds, CheckEventTriggers, watchGhosts, NoNotice, WatchFault, NoWatchFault
  <2>4. WatchThere'
    BY <1>0, <1>7 DEF WatchTypeOK, WatchThere, Holds, CheckEventTriggers, watchGhosts, NoNotice, WatchFault, NoWatchFault
  <2>5. WatchServed'
    BY <1>0, <2>0, <2>7 DEF WatchTypeOK, WatchServed
  <2>6. WatchHeard'
    BY <2>0, <1>0, <2>7 DEF Waiting, watchGhosts, WatchTypeOK, WatchHeard
  <2> QED
    BY <2>1, <2>2, <2>3, <2>4, <2>5, <2>6 DEF WatchInv
<1> QED
  BY <1>1, <1>2, <1>3, <1>4, <1>5, <1>6, <1>7


\* A failed or timed-out attempt keeps it: the client is not served any more
\* (doHTTPWithRetry).
LEMMA AttemptKeeps ==
    ASSUME WatchInv, NEW t \in Targets, SendFails(t) \/ ClientTimesOut(t)
    PROVE  WatchInv'
<1>0. /\ WatchTypeOK /\ WatchOwned /\ WatchAsked /\ WatchThere /\ WatchServed /\ WatchHeard
      /\ OneShot \subseteq Watches /\ VanadisTargets \subseteq Targets
      /\ TargetOf \in [Watches -> Targets]
      /\ HTTPAttempts \in Nat \ {0} /\ RiverAttempts \in Nat \ {0}
      /\ MaxEvents \in Nat /\ MaxFaults \in Nat /\ MaxCrashes \in Nat
      /\ fire \in [Handlers -> [on : SUBSET Targets, todo : SUBSET Watches,
                                err : BOOLEAN, live : BOOLEAN]]
  BY WatchAssumption DEF WatchInv, WatchTypeOK
<1>1. /\ notice' \in [Targets -> [pc : {"idle", "check", "send", "wait"},
                                  http : 0..HTTPAttempts-1, river : 0..RiverAttempts-1]]
      /\ missed \subseteq missed' /\ missed' \subseteq Targets
      /\ \A u \in Targets : u # t => notice'[u] = notice[u]
      /\ notice'[t].pc = "send" \/ (notice'[t].pc = "idle" /\ t \in missed')
      /\ notice[t].pc \in {"send", "wait"} /\ watchFaults' \in 0 .. MaxFaults
      /\ UNCHANGED <<reg, ended, happened, events, watchCrashes, prompts, doubts, cancelled, late>>
  BY <1>0, RetryFacts DEF SendFails, ClientTimesOut, WatchFault, WatchTypeOK
<1>9. held' \subseteq held /\ held \ held' \subseteq lost' /\ lost \subseteq lost' /\ lost' \subseteq Watches
      /\ held \ held' \subseteq OneShot
  BY <1>0 DEF SendFails, ClientTimesOut, Matching, WatchTypeOK
<1>8. /\ fire' \in [Handlers -> [on : SUBSET Targets, todo : SUBSET Watches,
                                 err : BOOLEAN, live : BOOLEAN]]
      /\ \A h \in Handlers : /\ fire'[h].todo = fire[h].todo /\ fire'[h].on = fire[h].on
                             /\ fire'[h].err = fire[h].err
                             /\ fire'[h].live => fire[h].live /\ t \notin fire[h].on
  <2>1. CASE SendFails(t)
    BY <2>1, <1>0 DEF SendFails, WatchServed
  <2>2. CASE ClientTimesOut(t)
    BY <2>2, <1>0 DEF ClientTimesOut
  <2> QED
    BY <2>1, <2>2
<1>2. WatchTypeOK'
  BY <1>0, <1>1, <1>8, <1>9 DEF WatchTypeOK
<1>3. WatchOwned'
  BY <1>0, <1>1, <1>8, <1>9 DEF WatchOwned, Holds
<1>4. WatchAsked'
  BY <1>0, <1>1, <1>8, <1>9 DEF WatchAsked, Holds
<1>5. WatchThere'
  BY <1>0, <1>1, <1>8, <1>9 DEF WatchThere, Holds
<1>6. WatchServed'
  BY <1>0, <1>1, <1>8, <1>9, SMTT(60) DEF WatchServed
<1>7. WatchHeard'
  BY <1>0, <1>1, <1>8, <1>9 DEF WatchHeard, Waiting
<1> QED
  BY <1>2, <1>3, <1>4, <1>5, <1>6, <1>7 DEF WatchInv

\* So does a crash of synapse: its events are tried again or given up, and nobody
\* waits for the requests under way.
LEMMA SynapseCrashKeeps ==
    ASSUME WatchInv, SynapseCrash
    PROVE  WatchInv'
<1>0. /\ WatchTypeOK /\ WatchOwned /\ WatchAsked /\ WatchThere /\ WatchServed /\ WatchHeard
      /\ OneShot \subseteq Watches /\ VanadisTargets \subseteq Targets
      /\ TargetOf \in [Watches -> Targets]
      /\ HTTPAttempts \in Nat \ {0} /\ RiverAttempts \in Nat \ {0}
      /\ MaxEvents \in Nat /\ MaxFaults \in Nat /\ MaxCrashes \in Nat
      /\ fire \in [Handlers -> [on : SUBSET Targets, todo : SUBSET Watches,
                                err : BOOLEAN, live : BOOLEAN]]
  BY WatchAssumption DEF WatchInv, WatchTypeOK
<1> DEFINE busy == {t \in Targets : notice[t].pc \in {"send", "wait"}}
           dead == {t \in busy : t \in VanadisTargets \/ notice[t].river + 1 >= RiverAttempts}
           Again(t) == [pc |-> "send", http |-> 0, river |-> notice[t].river + 1]
           N == [pc : {"idle", "check", "send", "wait"},
                 http : 0..HTTPAttempts-1, river : 0..RiverAttempts-1]
<1>1. /\ missed' = missed \cup dead
      /\ notice' = [t \in Targets |-> IF t \in busy \ dead THEN Again(t) ELSE NoNotice]
      /\ fire' = [h \in Handlers |-> [fire[h] EXCEPT !.live = FALSE]]
      /\ watchCrashes' \in 0 .. MaxCrashes
      /\ UNCHANGED <<reg, held, ended, happened, events, watchFaults, prompts, doubts, cancelled, lost, late>>
  BY <1>0 DEF SynapseCrash, WatchTypeOK
<1>8. /\ NoNotice \in N /\ NoNotice.pc = "idle"
      /\ \A t \in busy \ dead : Again(t) \in N
  BY <1>0 DEF NoNotice, WatchTypeOK
<1>9. /\ fire' \in [Handlers -> [on : SUBSET Targets, todo : SUBSET Watches,
                                 err : BOOLEAN, live : BOOLEAN]]
      /\ \A h \in Handlers : /\ fire'[h].todo = fire[h].todo /\ fire'[h].on = fire[h].on
                             /\ ~fire'[h].live
  BY <1>0, <1>1
<1>10. /\ \A t \in Targets : notice'[t] \in N
       /\ \A t \in VanadisTargets : /\ notice'[t].pc = "idle"
                                    /\ notice[t].pc \in {"send", "wait"} => t \in missed'
  BY <1>0, <1>1, <1>8
<1>11. missed \subseteq missed' /\ missed' \subseteq Targets
  BY <1>0, <1>1 DEF WatchTypeOK
<1>2. WatchTypeOK'
  BY <1>1, <1>10, <1>0, <1>9, <1>11 DEF WatchTypeOK
<1> HIDE DEF busy, dead, Again, N
<1>3. WatchOwned'
  BY <1>0, <1>1, <1>9 DEF WatchOwned, Holds
<1>4. WatchAsked'
  BY <1>0, <1>1, <1>9 DEF WatchAsked, Holds
<1>5. WatchThere'
  BY <1>0, <1>1, <1>9 DEF WatchThere, Holds
<1>6. WatchServed'
  BY <1>0, <1>1, <1>9, <1>10 DEF WatchServed
<1>7. WatchHeard'
  <2>1. ASSUME NEW w \in Watches, Waiting(w)' PROVE FALSE
    <3>1. Waiting(w) /\ TargetOf[w] \in VanadisTargets /\ TargetOf[w] \notin missed'
      BY <1>0, <1>1, <1>11, <2>1 DEF Waiting, WatchTypeOK
    <3>2. notice[TargetOf[w]].pc \in {"send", "wait"}
      BY <1>0, <3>1 DEF WatchHeard, WatchServed, WatchTypeOK
    <3> QED
      BY <1>10, <3>1, <3>2
  <2> QED
    BY <2>1 DEF WatchHeard
<1> QED
  BY <1>2, <1>3, <1>4, <1>5, <1>6, <1>7 DEF WatchInv

\* And one of haro: what its requests had claimed is lost, and synapse asks again.
LEMMA HaroCrashKeeps ==
    ASSUME WatchInv, HaroCrash
    PROVE  WatchInv'
<1>0. /\ WatchTypeOK /\ WatchOwned /\ WatchAsked /\ WatchThere /\ WatchServed /\ WatchHeard
      /\ OneShot \subseteq Watches /\ VanadisTargets \subseteq Targets
      /\ TargetOf \in [Watches -> Targets]
      /\ HTTPAttempts \in Nat \ {0} /\ RiverAttempts \in Nat \ {0}
      /\ MaxEvents \in Nat /\ MaxFaults \in Nat /\ MaxCrashes \in Nat
      /\ fire \in [Handlers -> [on : SUBSET Targets, todo : SUBSET Watches,
                                err : BOOLEAN, live : BOOLEAN]]
  BY WatchAssumption DEF WatchInv, WatchTypeOK
<1>1. /\ lost' = lost \cup (OneShot \cap UNION {fire[h].todo : h \in Handlers})
      /\ fire' = [h \in Handlers |-> NoRequest]
      /\ reg' = [w \in Watches |-> IF reg[w] \in {"validated", "inserted"} THEN "refused" ELSE reg[w]]
      /\ notice' = [t \in Targets |-> IF notice[t].pc = "wait" THEN [notice[t] EXCEPT !.pc = "send"]
                                                               ELSE notice[t]]
      /\ watchCrashes' \in 0 .. MaxCrashes
      /\ UNCHANGED <<held, ended, happened, events, watchFaults, prompts, doubts, cancelled, missed, late>>
  BY <1>0 DEF HaroCrash, WatchTypeOK
<1>8. \A h \in Handlers : /\ fire'[h] = NoRequest /\ fire'[h].todo = {} /\ fire'[h].on = {}
                          /\ ~fire'[h].live
  BY <1>1 DEF NoRequest
<1>9. /\ notice' \in [Targets -> [pc : {"idle", "check", "send", "wait"},
                                  http : 0..HTTPAttempts-1, river : 0..RiverAttempts-1]]
      /\ \A t \in Targets : /\ notice'[t].pc = "idle" <=> notice[t].pc = "idle"
                            /\ notice'[t].pc = "check" <=> notice[t].pc = "check"
  BY <1>0, <1>1, SMTT(60) DEF WatchTypeOK
<1>10. lost' \subseteq Watches /\ lost \subseteq lost'
       /\ \A w \in OneShot, h \in Handlers : Holds(h, w) => w \in lost'
  BY <1>0, <1>1 DEF WatchTypeOK, Holds
<1>2. WatchTypeOK'
  BY <1>1, <1>0, <1>9, <1>10 DEF NoRequest, WatchTypeOK
<1>11. \A w \in Watches : /\ reg'[w] = "registered" <=> reg[w] = "registered"
                          /\ reg'[w] \in {"new", "validated"} => reg[w] = "new"
                          /\ reg'[w] # "inserted"
  BY <1>0, <1>1 DEF WatchTypeOK
<1>3. WatchOwned'
  BY <1>0, <1>1, <1>8, <1>11 DEF WatchOwned, Holds
<1>4. WatchAsked'
  BY <1>0, <1>1, <1>8, <1>11 DEF WatchAsked, Holds
<1>5. WatchThere'
  BY <1>0, <1>1, <1>8, <1>10, <1>11 DEF WatchThere, Holds
<1>6. WatchServed'
  BY <1>0, <1>1, <1>8, <1>9 DEF WatchServed
<1>7. WatchHeard'
  BY <1>0, <1>1, <1>8, <1>9, <1>11 DEF WatchHeard, Waiting
<1> QED
  BY <1>2, <1>3, <1>4, <1>5, <1>6, <1>7 DEF WatchInv


\* The claim takes every one-shot watch of the target out of the table, so none of
\* them waits behind the request (ClaimEventTriggers).
LEMMA ClaimKeeps ==
    ASSUME WatchInv, NEW t \in Targets, NEW h \in Handlers, ClaimEventTriggers(t, h)
    PROVE  WatchInv'
<1>0. /\ WatchTypeOK /\ WatchOwned /\ WatchAsked /\ WatchThere /\ WatchServed /\ WatchHeard
      /\ OneShot \subseteq Watches /\ VanadisTargets \subseteq Targets
      /\ TargetOf \in [Watches -> Targets]
      /\ HTTPAttempts \in Nat \ {0} /\ RiverAttempts \in Nat \ {0}
      /\ MaxEvents \in Nat /\ MaxFaults \in Nat /\ MaxCrashes \in Nat
      /\ fire \in [Handlers -> [on : SUBSET Targets, todo : SUBSET Watches,
                                err : BOOLEAN, live : BOOLEAN]]
  BY WatchAssumption DEF WatchInv, WatchTypeOK
<1>1. /\ notice[t].pc = "send" /\ fire[h] = NoRequest
      /\ fire' = [fire EXCEPT ![h] = [on |-> {t}, todo |-> Matching(t), err |-> FALSE, live |-> TRUE]]
      /\ held' = held \ (Matching(t) \cap OneShot)
      /\ notice' = [notice EXCEPT ![t].pc = "wait"]
      /\ UNCHANGED <<reg, ended, happened, events, watchCrashes, watchFaults,
                     prompts, doubts, cancelled, lost, missed, late>>
  BY DEF ClaimEventTriggers, FreeHandlers, watchGhosts
<1>8. /\ fire'[h].on = {t} /\ fire'[h].todo = Matching(t) /\ ~fire'[h].err /\ fire'[h].live
      /\ \A g \in Handlers : g # h => fire'[g] = fire[g]
      /\ fire[h].todo = {} /\ Matching(t) \subseteq held
      /\ \A w \in Matching(t) : TargetOf[w] = t
  BY <1>0, <1>1 DEF Matching, NoRequest
<1>9. /\ notice' \in [Targets -> [pc : {"idle", "check", "send", "wait"},
                                  http : 0..HTTPAttempts-1, river : 0..RiverAttempts-1]]
      /\ notice'[t].pc = "wait" /\ \A u \in Targets : u # t => notice'[u] = notice[u]
  BY <1>0, <1>1 DEF WatchTypeOK
<1>10. held \subseteq Watches
  BY <1>0 DEF WatchTypeOK
<1>11. \A g \in Handlers : fire[g].live => t \notin fire[g].on
  BY <1>0, <1>1 DEF WatchServed
<1>2. WatchTypeOK'
  BY <1>8, <1>10, <1>0, <1>1, <1>9 DEF WatchTypeOK
<1>3. WatchOwned'
  BY <1>0, <1>1, <1>8 DEF WatchOwned, Holds
<1>4. WatchAsked'
  BY <1>0, <1>1, <1>8 DEF WatchAsked, Holds
<1>5. WatchThere'
  BY <1>0, <1>1, <1>8 DEF WatchThere, Holds
<1>6. WatchServed'
  BY <1>0, <1>1, <1>9, <1>8, <1>11 DEF WatchServed
<1>7. WatchHeard'
  BY <1>1, <1>0, <1>9, <1>8 DEF Waiting, Matching, WatchHeard
<1> QED
  BY <1>2, <1>3, <1>4, <1>5, <1>6, <1>7 DEF WatchInv

\* A prompt that eri takes leaves the request (DispatchPrompt).
LEMMA DispatchKeeps ==
    ASSUME WatchInv, NEW h \in Handlers, NEW w \in Watches, DispatchPromptOK(h, w)
    PROVE  WatchInv'
<1>0. /\ WatchTypeOK /\ WatchOwned /\ WatchAsked /\ WatchThere /\ WatchServed /\ WatchHeard
      /\ OneShot \subseteq Watches /\ VanadisTargets \subseteq Targets
      /\ TargetOf \in [Watches -> Targets]
      /\ HTTPAttempts \in Nat \ {0} /\ RiverAttempts \in Nat \ {0}
      /\ MaxEvents \in Nat /\ MaxFaults \in Nat /\ MaxCrashes \in Nat
      /\ fire \in [Handlers -> [on : SUBSET Targets, todo : SUBSET Watches,
                                err : BOOLEAN, live : BOOLEAN]]
  BY WatchAssumption DEF WatchInv, WatchTypeOK
<1>1. /\ fire[h].live /\ Holds(h, w)
      /\ fire' = [fire EXCEPT ![h].todo = @ \ {w}]
      /\ prompts' = [prompts EXCEPT ![w] = @ + 1]
      /\ UNCHANGED <<reg, held, ended, happened, notice, events, watchCrashes, watchFaults,
                     doubts, cancelled, lost, missed, late>>
  BY DEF DispatchPromptOK, Holds
<1>8. /\ fire' \in [Handlers -> [on : SUBSET Targets, todo : SUBSET Watches,
                                 err : BOOLEAN, live : BOOLEAN]]
      /\ \A g \in Handlers : /\ fire'[g].on = fire[g].on /\ fire'[g].live = fire[g].live
                             /\ fire'[g].err = fire[g].err
                             /\ fire'[g].todo = IF g = h THEN fire[g].todo \ {w} ELSE fire[g].todo
  BY <1>0, <1>1
<1>9. /\ prompts \in [Watches -> Nat] /\ doubts \in [Watches -> Nat]
      /\ prompts' \in [Watches -> Nat] /\ prompts'[w] = prompts[w] + 1
      /\ \A v \in Watches : v # w => prompts'[v] = prompts[v]
  BY <1>0, <1>1 DEF WatchTypeOK
<1>2. WatchTypeOK'
  BY <1>0, <1>1, <1>8, <1>9 DEF WatchTypeOK
<1>3. WatchOwned'
  BY <1>0, <1>1, <1>8 DEF WatchOwned, Holds
<1>4. WatchAsked'
  BY <1>0, <1>1, <1>8, <1>9 DEF WatchAsked, Holds, WatchOwned
<1>5. WatchThere'
  BY <1>9, <1>0, <1>1, <1>8 DEF WatchThere, Holds
<1>6. WatchServed'
  BY <1>0, <1>1, <1>8 DEF WatchServed
<1>7. WatchHeard'
  BY <1>0, <1>1, <1>8 DEF WatchHeard, Waiting
<1> QED
  BY <1>2, <1>3, <1>4, <1>5, <1>6, <1>7 DEF WatchInv

\* One that fails is put back, late when synapse waits no more, or lost; the request
\* that synapse waits for remembers the error (handleFireEventTriggers).
LEMMA DispatchFailureKeeps ==
    ASSUME WatchInv, NEW h \in Handlers, NEW w \in Watches, DispatchPromptFails(h, w)
    PROVE  WatchInv'
<1>0. /\ WatchTypeOK /\ WatchOwned /\ WatchAsked /\ WatchThere /\ WatchServed /\ WatchHeard
      /\ OneShot \subseteq Watches /\ VanadisTargets \subseteq Targets
      /\ TargetOf \in [Watches -> Targets]
      /\ HTTPAttempts \in Nat \ {0} /\ RiverAttempts \in Nat \ {0}
      /\ MaxEvents \in Nat /\ MaxFaults \in Nat /\ MaxCrashes \in Nat
      /\ fire \in [Handlers -> [on : SUBSET Targets, todo : SUBSET Watches,
                                err : BOOLEAN, live : BOOLEAN]]
  BY WatchAssumption DEF WatchInv, WatchTypeOK
<1>1. /\ Holds(h, w)
      /\ fire' = [fire EXCEPT ![h].todo = @ \ {w}, ![h].err = TRUE]
      /\ UNCHANGED <<reg, ended, happened, notice, events, watchCrashes, cancelled, missed>>
      /\ watchFaults' \in 0 .. MaxFaults
  BY <1>0 DEF DispatchPromptFails, Holds, WatchFault, NoWatchFault, WatchTypeOK
<1>12. \/ /\ held' = IF w \in OneShot THEN held \cup {w} ELSE held
          /\ late' = IF w \in OneShot /\ ~fire[h].live THEN late \cup {w} ELSE late
          /\ lost' = lost
       \/ w \in OneShot /\ lost' = lost \cup {w} /\ held' = held /\ late' = late
  BY DEF DispatchPromptFails, PutBack, PutBackFails
<1>13. \/ prompts' = prompts /\ doubts' = doubts
       \/ /\ prompts' = [prompts EXCEPT ![w] = @ + 1]
          /\ doubts' = [doubts EXCEPT ![w] = @ + 1]
  BY DEF DispatchPromptFails
<1>8. /\ fire' \in [Handlers -> [on : SUBSET Targets, todo : SUBSET Watches,
                                 err : BOOLEAN, live : BOOLEAN]]
      /\ \A g \in Handlers : /\ fire'[g].on = fire[g].on /\ fire'[g].live = fire[g].live
                             /\ g # h => fire'[g].err = fire[g].err
                             /\ fire'[g].todo = IF g = h THEN fire[g].todo \ {w} ELSE fire[g].todo
      /\ fire'[h].err
  BY <1>0, <1>1
<1>9. /\ prompts \in [Watches -> Nat] /\ doubts \in [Watches -> Nat]
      /\ prompts' \in [Watches -> Nat] /\ doubts' \in [Watches -> Nat]
      /\ \A v \in Watches : /\ prompts'[v] - doubts'[v] = prompts[v] - doubts[v]
                            /\ prompts'[v] = 0 => prompts[v] = 0
  BY <1>0, <1>13 DEF WatchTypeOK
<1>10. held' \subseteq Watches /\ late' \subseteq Watches /\ lost' \subseteq Watches
       /\ held \subseteq held' /\ held' \subseteq held \cup {w} /\ lost \subseteq lost'
       /\ late \subseteq late'
  BY <1>0, <1>12 DEF WatchTypeOK
<1>2. WatchTypeOK'
  BY <1>0, <1>1, <1>8, <1>9, <1>10 DEF WatchTypeOK
<1>3. WatchOwned'
  BY <1>8, <1>10, <1>0, <1>1 DEF Holds, WatchOwned
<1>4. WatchAsked'
  BY <1>9, <1>1, <1>8, <1>10, <1>0 DEF Holds, WatchAsked
<1>5. WatchThere'
  BY <1>8, <1>10, <1>12, <1>0, <1>1, <1>9 DEF Holds, WatchThere
<1>6. WatchServed'
  BY <1>0, <1>1, <1>8 DEF WatchServed
<1>7. WatchHeard'
  BY <1>0, <1>1, <1>10, <1>12, <1>8 DEF WatchServed, Holds, Waiting, WatchHeard
<1> QED
  BY <1>2, <1>3, <1>4, <1>5, <1>6, <1>7 DEF WatchInv

\* The answer ends the request: 200 when nothing waits behind it, 502 when synapse is
\* to try again (handleFireEventTriggers).
LEMMA AnswerKeeps ==
    ASSUME WatchInv, NEW h \in Handlers, AnswerFire(h)
    PROVE  WatchInv'
<1>0. /\ WatchTypeOK /\ WatchOwned /\ WatchAsked /\ WatchThere /\ WatchServed /\ WatchHeard
      /\ OneShot \subseteq Watches /\ VanadisTargets \subseteq Targets
      /\ TargetOf \in [Watches -> Targets]
      /\ HTTPAttempts \in Nat \ {0} /\ RiverAttempts \in Nat \ {0}
      /\ MaxEvents \in Nat /\ MaxFaults \in Nat /\ MaxCrashes \in Nat
      /\ fire \in [Handlers -> [on : SUBSET Targets, todo : SUBSET Watches,
                                err : BOOLEAN, live : BOOLEAN]]
  BY WatchAssumption DEF WatchInv, WatchTypeOK
<1>1. /\ fire[h].todo = {} /\ fire' = [fire EXCEPT ![h] = NoRequest]
      /\ UNCHANGED <<reg, held, ended, happened, events, watchCrashes, watchFaults,
                     prompts, doubts, cancelled, lost, late>>
  BY DEF AnswerFire
<1>8. /\ fire'[h].todo = {} /\ fire'[h].on = {} /\ ~fire'[h].live
      /\ \A g \in Handlers : g # h => fire'[g] = fire[g]
      /\ fire' \in [Handlers -> [on : SUBSET Targets, todo : SUBSET Watches,
                                 err : BOOLEAN, live : BOOLEAN]]
  BY <1>0, <1>1 DEF NoRequest
<1>9. /\ notice' \in [Targets -> [pc : {"idle", "check", "send", "wait"},
                                  http : 0..HTTPAttempts-1, river : 0..RiverAttempts-1]]
      /\ missed \subseteq missed' /\ missed' \subseteq Targets
      /\ \A u \in Targets :
            \/ notice'[u] = notice[u]
            \/ /\ fire[h].live /\ u \in fire[h].on
               /\ \/ notice'[u].pc = "send" \/ (notice'[u].pc = "idle" /\ u \in missed')
                  \/ notice'[u].pc = "idle" /\ ~fire[h].err
  BY <1>0, RetryFacts DEF WatchTypeOK, NoNotice, AnswerFire
<1>2. WatchTypeOK'
  BY <1>0, <1>1, <1>8, <1>9 DEF WatchTypeOK
<1>3. WatchOwned'
  BY <1>0, <1>1, <1>8 DEF WatchOwned, Holds
<1>4. WatchAsked'
  BY <1>0, <1>1, <1>8 DEF WatchAsked, Holds
<1>5. WatchThere'
  BY <1>0, <1>1, <1>8 DEF WatchThere, Holds
<1>6. WatchServed'
  <2>1. \A u \in VanadisTargets : /\ notice'[u].pc # "idle" => u \in ended'
                                  /\ notice'[u].pc # "check"
                                  /\ u \notin ended' => happened'[u] = "none"
    BY <1>0, <1>1, <1>9 DEF WatchServed
  <2>2. ASSUME NEW g \in Handlers, fire'[g].live, NEW u \in fire'[g].on PROVE notice'[u].pc = "wait"
    BY <1>0, <1>8, <2>2, <1>9 DEF WatchServed
  <2>3. \A g, k \in Handlers : fire'[g].live /\ fire'[k].live /\ fire'[g].on \cap fire'[k].on # {}
                               => g = k
    BY <1>0, <1>8 DEF WatchServed
  <2>4. \A g \in Handlers : \A w \in fire'[g].todo : TargetOf[w] \in fire'[g].on
    BY <1>0, <1>8 DEF WatchServed
  <2> QED
    BY <2>1, <2>2, <2>3, <2>4 DEF WatchServed
<1>7. WatchHeard'
  BY <1>1, <1>9, <1>0, <1>8 DEF Waiting, WatchHeard
<1> QED
  BY <1>2, <1>3, <1>4, <1>5, <1>6, <1>7 DEF WatchInv

\* Every step keeps it.
LEMMA WatchKept == WatchInv /\ [WatchNext]_watchVars => WatchInv'
<1> SUFFICES ASSUME WatchInv, [WatchNext]_watchVars PROVE WatchInv'
  OBVIOUS
<1>1. CASE WatchNext
  BY <1>1, RegistrationKeeps, AttemptKeeps, SynapseCrashKeeps, HaroCrashKeeps, ClaimKeeps,
     DispatchKeeps, DispatchFailureKeeps, AnswerKeeps DEF WatchNext, WatchWork
<1>2. CASE UNCHANGED watchVars
  BY <1>2 DEF watchVars, WatchInv, WatchTypeOK, WatchOwned, WatchAsked, WatchThere, WatchServed,
              WatchHeard, Holds, Waiting
<1> QED
  BY <1>1, <1>2

\* There are no watches at first.
LEMMA WatchStarts == WatchInit => WatchInv
<1> SUFFICES ASSUME WatchInit PROVE WatchInv
  OBVIOUS
<1>0. /\ OneShot \subseteq Watches /\ VanadisTargets \subseteq Targets
      /\ HTTPAttempts \in Nat \ {0} /\ RiverAttempts \in Nat \ {0}
      /\ MaxEvents \in Nat /\ MaxFaults \in Nat /\ MaxCrashes \in Nat
  BY WatchAssumption
<1>1. /\ \A h \in Handlers : fire[h].todo = {} /\ fire[h].on = {} /\ ~fire[h].live
      /\ \A t \in Targets : notice[t].pc = "idle"
  BY DEF WatchInit, NoRequest, NoNotice
<1>2. WatchTypeOK
  BY <1>0 DEF NoRequest, NoNotice, WatchInit, WatchTypeOK
<1>3. WatchOwned /\ WatchAsked /\ WatchThere
  BY <1>0, <1>1 DEF WatchInit, WatchOwned, WatchAsked, WatchThere, Holds
<1>4. WatchServed /\ WatchHeard
  BY <1>0, <1>1 DEF WatchInit, WatchServed, WatchHeard, Waiting
<1> QED
  BY <1>2, <1>3, <1>4 DEF WatchInv

\* The invariant says what the runs check; who holds a one-shot watch is alone.
LEMMA WatchEnough == WatchInv => WatchesAreSound
<1> SUFFICES ASSUME WatchInv PROVE WatchesAreSound
  OBVIOUS
<1>1. OneShotWatchFiresOnce
  <2> SUFFICES ASSUME NEW w \in OneShot
               PROVE  /\ Cardinality(InHand(w)) <= 1
                      /\ InHand(w) # {} => w \notin held
                      /\ prompts[w] <= 1 + doubts[w]
    BY DEF OneShotWatchFiresOnce
  <2>1. \A g, h \in InHand(w) : g = h
    BY DEF WatchInv, WatchOwned, Holds, InHand
  <2>2. Cardinality(InHand(w)) <= 1
    <3>1. CASE InHand(w) = {}
      BY <3>1, FS_EmptySet
    <3>2. CASE InHand(w) # {}
      <4>1. PICK h \in InHand(w) : InHand(w) = {h}
        BY <2>1, <3>2
      <4>2. Cardinality({h}) = 1
        BY FS_Singleton
      <4> QED
        BY <4>1, <4>2
    <3> QED
      BY <3>1, <3>2
  <2> QED
    BY <2>2 DEF WatchInv, WatchOwned, WatchAsked, Holds, InHand
<1>2. NoWatchVanishes
  BY DEF WatchInv, WatchThere, Holds, InHand, NoWatchVanishes
<1>3. NoStrandedWatch
  BY DEF WatchInv, WatchTypeOK, WatchHeard, Waiting, NoStrandedWatch
<1> QED
  BY <1>1, <1>2, <1>3 DEF WatchInv, WatchesAreSound

\* For any watches, targets, concurrent requests and retries: a one-shot watch fires once
\* however often its event is reported, no watch vanishes while its prompt fails, and none
\* waits for a target whose end was reported before (handleFireEventTriggers,
\* HandleWatchEvent).
THEOREM WatchesAreSafe == WatchSpec => []WatchesAreSound
  BY WatchStarts, WatchKept, WatchEnough, PTL DEF WatchSpec

LEMMA SilentByStep == WatchInv /\ [WatchNext]_watchVars => [SilentWhenCancelled]_watchVars
<1> SUFFICES ASSUME WatchInv, WatchNext, NEW v \in OneShot \cap cancelled
             PROVE  prompts'[v] = prompts[v]
  BY DEF SilentWhenCancelled
<1>0. v \in Watches /\ prompts \in [Watches -> Nat] /\ \A h \in Handlers : v \notin fire[h].todo
  BY WatchAssumption DEF WatchInv, WatchTypeOK, WatchOwned, Holds
<1>1. ASSUME NEW h \in Handlers, NEW w \in Watches,
             DispatchPromptOK(h, w) \/ DispatchPromptFails(h, w)
      PROVE  prompts'[v] = prompts[v]
  BY <1>0, <1>1 DEF DispatchPromptOK, DispatchPromptFails
<1>2. ASSUME ~\E h \in Handlers, w \in Watches : DispatchPromptOK(h, w) \/ DispatchPromptFails(h, w)
      PROVE  prompts' = prompts
  BY <1>2 DEF WatchNext, WatchWork, InsertEventTrigger, RecheckTarget, CheckEventTriggers,
     ClaimEventTriggers, AnswerFire, HandleWatchEvent, HandleCancelEventWatch, TargetEnds,
     HandleEventsWebhook, SendFails, ClientTimesOut, SynapseCrash, HaroCrash, watchGhosts
<1> QED
  BY <1>1, <1>2

\* The prompt of a one-shot watch is not sent after its user was told that it is
\* cancelled (HandleCancelEventWatch).
THEOREM CancelledWatchesAreSilent == WatchSpec => CancelledWatchIsSilent
  BY SilentByStep, WatchStarts, WatchKept, PTL DEF WatchSpec, CancelledWatchIsSilent

\* The same where the watches are one of the parts (MCProgress).
THEOREM EventWatchesHold == PartsSpec => []EventWatchesAreSound
<1> DEFINE Chosen == part = "watches" => WatchInv
<1>1. ProgressInit => Chosen
  BY WatchStarts DEF ProgressInit
<1>2. Chosen /\ [ProgressNext]_progressVars => Chosen'
  BY WatchKept DEF ProgressNext, progressVars, Others
<1>3. Chosen => EventWatchesAreSound
  BY WatchEnough DEF EventWatchesAreSound
<1> QED
  BY <1>1, <1>2, <1>3, PTL DEF PartsSpec

--------------------
(* TurnAttempts.  The calls of a turn are counted by the attempt it is at; *)
(* its last call went to the session it leases.  Unless the turn had to *)
(* reset, may not write or had no luck with the row, the thread's row *)
(* names that session, once the statement that is awaited is made. *)

TurnOuts == {"interrupted", "quota", "rescheduled", "exhausted", "answered", "counted", "timeout",
             "failed", "unleased", "shutdown", "panic"}
TurnResults == {<<>>} \cup {<<r>> : r \in Successes \cup Failures} \cup {<<r>> : r \in TurnOuts}
TurnPrompts == {"full", "resume", "continuation"}
TurnWrites == {<<>>} \cup {<<w>> : w \in [op : {"save", "rotate"}, sess : Nat]}
TurnRecords ==
    [pc : {"idle", "check", "run", "judge", "relet", "backoff", "done"},
     kind : {"message", "dispatch"}, eph : BOOLEAN,
     current : Nat, previous : Nat, active : Nat, lease : Nat, attempt : Nat,
     first : Nat, resumes : Nat, prompt : TurnPrompts,
     last : {"none", "plain", "deadline", "watchdog", "quota", "blip"},
     interrupted : BOOLEAN, reset : BOOLEAN, leased : BOOLEAN, result : TurnResults,
     write : TurnWrites, operator : BOOLEAN, excused : BOOLEAN, missed : Nat]
SessionRows == [cur : Nat, prev : Nat, turns : Nat]
AgentProcs == [sess : Nat, dirty : BOOLEAN, busy : BOOLEAN]
TurnItems ==
    [status : {"PENDING", "PROCESSING", "COMPLETED", "FAILED"}, retry : Nat, restart : Nat,
     quotaRetry : BOOLEAN]

AttemptTypes ==
    /\ row \in SessionRows /\ daemon \in AgentProcs /\ born \in Nat
    /\ te \in TurnRecords /\ item \in TurnItems
    /\ tries \in Seq([sess : Nat \ {0}, prompt : TurnPrompts])

\* No session is used before it was created.
SessionsExist ==
    /\ row.cur <= born /\ row.prev <= born /\ daemon.sess <= born
    /\ te.current <= born /\ te.previous <= born /\ te.active <= born /\ te.lease <= born
    /\ te.write # <<>> => Head(te.write).sess <= born
    /\ corrupt \subseteq 1..born

UnderWay == te.pc \in {"check", "run", "judge", "relet", "backoff"}

\* The calls and the stored retries, by the attempt the turn is at.
CallsCounted ==
    /\ te.first <= te.attempt /\ te.attempt <= AttemptLimit + 1 /\ te.resumes <= ResumeLimit
    /\ te.pc \in {"run", "judge", "relet"} => te.attempt <= AttemptLimit
    /\ te.pc = "backoff" => te.attempt < AttemptLimit
    /\ item.retry <= AttemptLimit
    /\ te.pc \in {"check", "run", "judge", "relet"} => item.retry = te.attempt - 1 - te.missed
    /\ te.pc = "backoff" => item.retry = te.attempt - te.missed
    /\ te.pc = "idle" => te = NoTurn /\ tries = <<>>
    /\ te.pc = "check" => Len(tries) <= te.attempt - te.first + te.resumes
    /\ te.pc \in {"run", "judge", "relet", "backoff"} =>
          Len(tries) <= te.attempt - te.first + te.resumes + 1
    /\ te.pc = "done" => ExecutionsAreBounded

LastWent(s) == tries # <<>> /\ tries[Len(tries)].sess = s

\* Where the last call went, and what came of it.
CallsFollowLease ==
    /\ te.pc \in {"run", "judge"} /\ te.lease # 0 => LastWent(te.lease)
    /\ te.pc \in {"check", "run", "judge"} /\ te.prompt = "resume" => LastWent(te.lease)
    /\ te.pc = "judge" => \E r \in Successes \cup Failures :
          te.result = <<r>> /\ (r.ok => te.lease # 0) /\ (~r.ok => te.prompt = "full")
    /\ te.pc \in {"relet", "backoff"} => te.prompt = "full"

\* The row after the statement that the turn waits for.
Awaited == IF te.write = <<>> THEN row ELSE Written(row, Head(te.write))

Unhindered == ~te.eph /\ ~te.interrupted /\ ~te.reset /\ ~te.excused

RowFollowsLease ==
    /\ UnderWay => item.status = "PROCESSING" /\ te.leased
    /\ UnderWay /\ Unhindered => Awaited.cur = te.lease /\ te.current = te.lease
    /\ te.operator => te.interrupted
    /\ te.eph => te.write = <<>>

AnswerIsStored ==
    /\ te.pc = "done" /\ te.result = <<"answered">> =>
          te.write = <<>> /\ (Unhindered => row.cur # 0 /\ LastWent(row.cur))
    /\ te.pc = "done" /\ te.result = <<"counted">> /\ Unhindered =>
          \/ LastWent(Awaited.cur)
          \/ te.kind = "dispatch" /\ Awaited.turns = 0 /\ LastWent(Awaited.prev)

\* The call that is judged found its session corrupt.
FoundCorrupt ==
    te.pc = "judge" /\ \E r \in Failures : te.result = <<r>> /\ r.flag = "corrupt"

CorruptIsLeft ==
    /\ FoundCorrupt \/ te.pc = "relet" => te.eph \/ daemon.dirty
    /\ te.pc = "relet" =>
          te.reset /\ te.lease = 0 /\ (te.eph \/ te.interrupted \/ te.excused \/ Awaited.cur = 0)
    /\ (/\ te.pc \in {"check", "run", "judge", "backoff"} /\ ~FoundCorrupt
        /\ te.reset /\ ~te.excused /\ ~te.interrupted) => te.lease \notin corrupt

AttemptInv ==
    /\ AttemptTypes /\ SessionsExist /\ CallsCounted /\ CallsFollowLease /\ RowFollowsLease
    /\ AnswerIsStored /\ CorruptIsLeft /\ ResumesStayInSession /\ FailuresAreTold

\* Nothing in the invariant speaks of the stop, the quota or the budget.
LEMMA AttemptFrame ==
    AttemptInv /\ UNCHANGED <<row, daemon, born, corrupt, te, item, tries, told>> => AttemptInv'
  BY DEF AttemptInv, AttemptTypes, SessionsExist, CallsCounted, CallsFollowLease, RowFollowsLease,
     ResumesStayInSession, FailuresAreTold, LastWent, UnderWay, AnswerIsStored, CorruptIsLeft,
     ExecutionsAreBounded, Awaited, FoundCorrupt, Unhindered

LEMMA RowStays ==
    AttemptInv => /\ row \in SessionRows /\ daemon \in AgentProcs /\ te \in TurnRecords
                  /\ item \in TurnItems /\ born \in Nat
  BY DEF AttemptInv, AttemptTypes

\* The writes of the session row (saveSessionID, rotateSessionID).
LEMMA WriteKinds ==
    /\ \A s \in Nat : Save(s) \in TurnWrites /\ Save(s) # <<>> /\ Head(Save(s)).sess = s
                      /\ Head(Save(s)).op = "save"
    /\ Rotation \in TurnWrites /\ Rotation # <<>> /\ Head(Rotation).sess = 0
    /\ Head(Rotation).op = "rotate"
    /\ <<>> \in TurnWrites
  BY DEF Save, Rotation, TurnWrites

LEMMA RowWrites ==
    ASSUME NEW r \in SessionRows, NEW w \in [op : {"save", "rotate"}, sess : Nat]
    PROVE  /\ Written(r, w) \in SessionRows
           /\ {Written(r, w).cur, Written(r, w).prev} \subseteq {r.cur, r.prev, w.sess, 0}
           /\ w.op = "save" => Written(r, w).cur = w.sess
           /\ w.op = "rotate" => /\ Written(r, w).cur = 0 /\ Written(r, w).turns = 0
                                 /\ r.cur # 0 => Written(r, w).prev = r.cur
  BY DEF SessionRows, Written, RotatedTo

--------------------
\* A step that ends the turn (finalize, cancelBurstOnShutdown, handleBurstPanic).
Ending ==
    /\ UnderWay /\ te' \in TurnRecords /\ te'.pc = "done"
    /\ te'.first = te.first /\ te'.attempt = te.attempt /\ te'.resumes = te.resumes
    /\ {te'.current, te'.previous, te'.active, te'.lease}
         \subseteq {te.current, te.previous, te.active, te.lease, 0}
    /\ te'.write \in {te.write, <<>>, Rotation} /\ (te'.write = Rotation => ~te.eph)
    /\ te'.eph = te.eph /\ te'.operator = te.operator /\ te'.interrupted = te.interrupted
    /\ row' = row /\ daemon' \in AgentProcs /\ daemon'.sess = daemon.sess
    /\ corrupt' = corrupt \/ (corrupt' = corrupt \cup {te.lease} /\ te.lease # 0)
    /\ born' = born /\ tries' = tries
    /\ item' \in TurnItems /\ item'.retry <= AttemptLimit
    /\ AnswerIsStored' /\ FailuresAreTold'

LEMMA EndingKeeps == AttemptInv /\ Ending => AttemptInv'
<1> SUFFICES ASSUME AttemptInv, Ending PROVE AttemptInv'
  OBVIOUS
<1>0. /\ te.first \in Nat /\ te.attempt \in Nat /\ te.resumes \in Nat /\ Len(tries) \in Nat
      /\ {te.current, te.previous, te.active, te.lease, row.cur, row.prev} \subseteq Nat
      /\ AttemptLimit \in Nat /\ ResumeLimit \in Nat /\ born \in Nat
  BY AttemptAssumption DEF AttemptInv, AttemptTypes, TurnRecords, SessionRows
<1>1. AttemptTypes'
  BY DEF Ending, AttemptInv, AttemptTypes
<1>2. SessionsExist'
  <2>1. /\ \A n \in {te.current, te.previous, te.active, te.lease, row.cur, row.prev, 0} : n <= born
        /\ daemon.sess <= born /\ corrupt \subseteq 1..born
    BY <1>0 DEF AttemptInv, SessionsExist
  <2>2. corrupt' \subseteq 1..born
    <3>1. te.lease # 0 => te.lease \in 1..born
      BY <1>0, <2>1
    <3>2. corrupt' = corrupt \/ (corrupt' = corrupt \cup {te.lease} /\ te.lease # 0)
      BY DEF Ending
    <3> QED
      BY <2>1, <3>1, <3>2
  <2>3. te'.write # <<>> => Head(te'.write).sess <= born
    <3>1. te.write # <<>> => Head(te.write).sess <= born
      BY DEF AttemptInv, SessionsExist
    <3>2. te'.write \in {te.write, <<>>, Rotation} /\ Head(Rotation).sess <= born
      BY <1>0, WriteKinds DEF Ending
    <3> QED
      BY <3>1, <3>2
  <2> QED
    BY <2>1, <2>2, <2>3 DEF Ending, SessionsExist
<1>3. CallsCounted'
  <2>1. /\ te.first <= te.attempt /\ te.attempt <= AttemptLimit + 1 /\ te.resumes <= ResumeLimit
        /\ te.pc \in {"run", "judge", "relet", "backoff"} => te.attempt <= AttemptLimit
        /\ te.pc = "check" => Len(tries) <= te.attempt - te.first + te.resumes
        /\ te.pc \in {"run", "judge", "relet", "backoff"} =>
             Len(tries) <= te.attempt - te.first + te.resumes + 1
    BY <1>0 DEF AttemptInv, CallsCounted
  <2>2. Len(tries) <= (AttemptLimit + 1 - te.first) + ResumeLimit
    <3>1. CASE te.pc = "check"
      BY <1>0, <2>1, <3>1
    <3>2. CASE te.pc \in {"run", "judge", "relet", "backoff"}
      BY <1>0, <2>1, <3>2
    <3> QED
      BY <3>1, <3>2 DEF Ending, UnderWay
  <2> QED
    BY <2>1, <2>2 DEF Ending, CallsCounted, ExecutionsAreBounded
<1>4. CallsFollowLease' /\ RowFollowsLease' /\ CorruptIsLeft'
  <2>1. te'.eph => te'.write = <<>>
    BY DEF Ending, AttemptInv, RowFollowsLease
  <2> QED
    BY <2>1 DEF Ending, CallsFollowLease, RowFollowsLease, UnderWay, CorruptIsLeft, FoundCorrupt,
       AttemptInv
<1> QED
  BY <1>1, <1>2, <1>3, <1>4 DEF Ending, AttemptInv, ResumesStayInSession

\* A step that counts a failed attempt, or fails to, and goes on (handleRetryBackoff).
Retrying ==
    /\ te.pc \in {"judge", "relet"} /\ te' \in TurnRecords
    /\ \/ te'.pc = "backoff" /\ te'.attempt = te.attempt /\ te.attempt < AttemptLimit
       \/ te'.pc = "check" /\ te'.attempt = te.attempt + 1
    /\ te'.prompt = "full" /\ te'.first = te.first /\ te'.resumes = te.resumes
    /\ te'.leased = te.leased /\ te'.eph = te.eph /\ te'.interrupted = te.interrupted
    /\ te'.previous = te.previous /\ te'.active \in {0, te.active} /\ te'.write = te.write
    /\ te'.operator = te.operator /\ (te.excused => te'.excused) /\ te'.reset = te.reset
    /\ te'.lease \in Nat /\ te'.current \in Nat
    /\ te'.current <= born' /\ te'.lease <= born'
    /\ born' \in Nat /\ born <= born' /\ daemon' \in AgentProcs /\ daemon'.sess <= born'
    /\ corrupt' = corrupt /\ tries' = tries /\ row' = row
    /\ \/ te'.missed = te.missed /\ item' = [item EXCEPT !.retry = @ + 1]
       \/ te'.missed = te.missed + 1 /\ item' = item
    /\ ~te'.reset => te'.lease = te.lease /\ te'.current = te.current
    /\ (te'.reset /\ ~te'.excused /\ ~te'.interrupted) => te'.lease \notin corrupt

LEMMA RetryingKeeps == AttemptInv /\ Retrying => AttemptInv'
<1> SUFFICES ASSUME AttemptInv, Retrying PROVE AttemptInv'
  OBVIOUS
<1>0. /\ te.first \in Nat /\ te.attempt \in Nat /\ te.resumes \in Nat /\ Len(tries) \in Nat
      /\ {te.current, te.previous, te.active, te.lease, row.cur, row.prev} \subseteq Nat
      /\ AttemptLimit \in Nat /\ ResumeLimit \in Nat /\ born \in Nat /\ item \in TurnItems
      /\ te.missed \in Nat
  BY AttemptAssumption DEF AttemptInv, AttemptTypes, TurnRecords, SessionRows
<1>i. /\ item' \in TurnItems /\ item'.status = item.status /\ item.retry \in Nat
      /\ \/ te'.missed = te.missed /\ item'.retry = item.retry + 1
         \/ te'.missed = te.missed + 1 /\ item'.retry = item.retry
  <2>1. CASE te'.missed = te.missed /\ item' = [item EXCEPT !.retry = @ + 1]
    BY <1>0, <2>1, SMTT(90) DEF TurnItems
  <2>2. CASE te'.missed = te.missed + 1 /\ item' = item
    BY <1>0, <2>2, SMTT(90) DEF TurnItems
  <2> QED
    BY <2>1, <2>2 DEF Retrying
<1>j. item'.retry \in Nat
  BY <1>i DEF TurnItems
<1>1. AttemptTypes'
  BY <1>i DEF Retrying, AttemptInv, AttemptTypes
<1>2. SessionsExist'
  <2>1. /\ te.previous <= born /\ te.active <= born /\ row.cur <= born /\ row.prev <= born
        /\ corrupt \subseteq 1..born /\ (te.write # <<>> => Head(te.write).sess <= born)
    BY DEF AttemptInv, SessionsExist
  <2>2. 1..born \subseteq 1..born' /\ \A n \in Nat : n <= born => n <= born'
    BY <1>0 DEF Retrying
  <2>3. row'.cur <= born' /\ row'.prev <= born' /\ te'.active <= born' /\ te'.previous <= born'
    BY <1>0, <2>1, <2>2, SMTT(40) DEF Retrying
  <2>4. te'.write # <<>> => Head(te'.write).sess <= born'
    <3>1. te.write # <<>> => Head(te.write).sess \in Nat
      BY RowStays DEF TurnRecords, TurnWrites
    <3> QED
      BY <3>1, <2>1, <2>2 DEF Retrying
  <2> QED
    BY <2>1, <2>2, <2>3, <2>4 DEF Retrying, SessionsExist
<1>3. CallsCounted'
  <2>1. /\ te.first <= te.attempt /\ te.attempt <= AttemptLimit /\ te.resumes <= ResumeLimit
        /\ item.retry = te.attempt - 1 - te.missed
        /\ Len(tries) <= te.attempt - te.first + te.resumes + 1
    BY DEF AttemptInv, CallsCounted, Retrying
  <2>0. item'.retry <= AttemptLimit /\ item'.retry = te.attempt - te'.missed
    <3>1. item.retry \in Nat /\ te.missed \in Nat /\ te.attempt \in Nat /\ AttemptLimit \in Nat
          /\ item.retry <= te.attempt - 1 /\ te.attempt - 1 - te.missed = item.retry
      BY <1>0, <1>i, <2>1
    <3>2. CASE te'.missed = te.missed /\ item'.retry = item.retry + 1
      BY <3>1, <3>2, <2>1
    <3>3. CASE te'.missed = te.missed + 1 /\ item'.retry = item.retry
      BY <3>1, <3>3, <2>1
    <3> QED
      BY <1>i, <3>2, <3>3
  <2>s. te'.first = te.first /\ te'.resumes = te.resumes /\ tries' = tries
    BY DEF Retrying
  <2>2. CASE te'.pc = "backoff" /\ te'.attempt = te.attempt /\ te.attempt < AttemptLimit
    BY <1>0, <2>0, <2>1, <2>2, <2>s DEF CallsCounted
  <2>3. CASE te'.pc = "check" /\ te'.attempt = te.attempt + 1
    <3>2. te'.first <= te'.attempt /\ te'.attempt <= AttemptLimit + 1 /\ te'.resumes <= ResumeLimit
      BY <1>0, <2>1, <2>3, <2>s, SMTT(40)
    <3>4. item'.retry <= AttemptLimit /\ item'.retry = te'.attempt - 1 - te'.missed
      BY <1>0, <1>i, <2>0, <2>3
    <3>3. Len(tries') <= te'.attempt - te'.first + te'.resumes
      BY <1>0, <2>1, <2>3, <2>s
    <3> QED
      BY <2>3, <3>2, <3>3, <3>4 DEF CallsCounted
  <2> QED
    BY <2>2, <2>3 DEF Retrying
<1>4. CallsFollowLease'
  BY DEF Retrying, CallsFollowLease
<1>5. RowFollowsLease'
  <2>1. te.pc = "relet" => te.reset
    BY DEF AttemptInv, CorruptIsLeft
  <2>2. UnderWay /\ Awaited' = Awaited
    BY DEF Retrying, UnderWay, Awaited
  <2>3. Unhindered' => Unhindered /\ te.pc = "judge"
    BY <2>1 DEF Retrying, Unhindered
  <2> QED
    BY <1>i, <2>2, <2>3 DEF Retrying, AttemptInv, RowFollowsLease, UnderWay, Unhindered
<1>6. AnswerIsStored' /\ CorruptIsLeft'
  BY DEF Retrying, AnswerIsStored, CorruptIsLeft, FoundCorrupt
<1> QED
  BY <1>1, <1>2, <1>3, <1>4, <1>5, <1>6
     DEF Retrying, AttemptInv, ResumesStayInSession, FailuresAreTold

--------------------
\* The turn ends as out says; it may have a rotation to wait for.
EndedAs(t, out) ==
    /\ t = [te EXCEPT !.pc = "done", !.result = <<out>>, !.write = t.write, !.missed = t.missed]
    /\ t.write \in {te.write, <<>>, Rotation} /\ (t.write = Rotation => ~te.eph)
    /\ t.missed \in {te.missed, te.missed + 1}

LEMMA EndedFacts ==
    ASSUME AttemptInv, NEW out \in TurnOuts, NEW w \in {te.write, <<>>, Rotation},
           w = Rotation => ~te.eph, NEW m \in {te.missed, te.missed + 1}
    PROVE  /\ EndedAs([te EXCEPT !.pc = "done", !.result = <<out>>, !.write = w, !.missed = m], out)
           /\ EndedAs([te EXCEPT !.pc = "done", !.result = <<out>>], out)
<1>1. te.write = Rotation => ~te.eph
  BY WriteKinds DEF AttemptInv, RowFollowsLease
<1> QED
  BY <1>1, RowStays DEF EndedAs, TurnRecords

LEMMA TurnEnds ==
    ASSUME AttemptInv, UnderWay, NEW out \in TurnOuts \ {"counted"}, EndedAs(te', out),
           daemon' \in AgentProcs, daemon'.sess = daemon.sess,
           corrupt' = corrupt \/ (corrupt' = corrupt \cup {te.lease} /\ te.lease # 0),
           UNCHANGED <<row, born, tries>>, item' \in TurnItems, item'.retry <= AttemptLimit,
           out = "answered" => AnswerIsStored',
           item'.status = "FAILED" =>
              te.kind = "dispatch" \/ out \in {"interrupted", "panic"}
              \/ told' \notin {"nothing", "answer", "reset"}
    PROVE  AttemptInv'
<1>1. /\ te \in TurnRecords /\ <<out>> \in TurnResults /\ te.missed \in Nat
      /\ te'.write \in TurnWrites /\ te'.missed \in Nat
  <2>1. te \in TurnRecords /\ te.missed \in Nat /\ te.write \in TurnWrites
    BY RowStays DEF TurnRecords
  <2> QED
    BY <2>1, WriteKinds DEF TurnResults, EndedAs
<1> DEFINE w == te'.write
           m == te'.missed
<1>2. /\ te' = [te EXCEPT !.pc = "done", !.result = <<out>>, !.write = w, !.missed = m]
      /\ w \in TurnWrites /\ m \in Nat
  BY <1>1 DEF EndedAs
<1> HIDE DEF w, m
<1>3. te' \in TurnRecords
  BY <1>1, <1>2 DEF TurnRecords
<1>4. /\ te'.pc = "done" /\ te'.result = <<out>>
      /\ te'.first = te.first /\ te'.attempt = te.attempt /\ te'.resumes = te.resumes
      /\ te'.current = te.current /\ te'.previous = te.previous /\ te'.active = te.active
      /\ te'.lease = te.lease /\ te'.operator = te.operator /\ te'.interrupted = te.interrupted
      /\ te'.kind = te.kind /\ te'.eph = te.eph
  BY <1>1, <1>2 DEF TurnRecords
<1>5. AnswerIsStored'
  <2>1. out # "answered" => te'.result # <<"answered">> /\ te'.result # <<"counted">>
    BY <1>4
  <2> QED
    BY <2>1 DEF AnswerIsStored
<1>6. FailuresAreTold'
  BY <1>4 DEF FailuresAreTold
<1>7. Ending
  BY <1>3, <1>4, <1>5, <1>6 DEF Ending, EndedAs
<1> QED
  BY <1>7, EndingKeeps

\* What Finish does to the item.
LEMMA FinishFacts ==
    ASSUME AttemptInv, NEW status \in {"PENDING", "PROCESSING", "COMPLETED", "FAILED"}
    PROVE  /\ [item EXCEPT !.status = status] \in TurnItems
           /\ [item EXCEPT !.status = status].retry <= AttemptLimit
           /\ [item EXCEPT !.status = status].status = status
           /\ item \in TurnItems /\ item.retry <= AttemptLimit
BY DEF AttemptInv, AttemptTypes, CallsCounted, TurnItems

\* The result that is judged (ExecutionReturns).
LEMMA JudgeFacts ==
    ASSUME AttemptInv, NEW res \in Successes \cup Failures, Judging(res)
    PROVE  /\ te.pc = "judge"
           /\ res.ok => te.lease # 0 /\ LastWent(te.lease)
           /\ ~res.ok => te.prompt = "full"
BY DEF AttemptInv, CallsFollowLease, Judging

LEMMA ResultKinds ==
    /\ \A res \in Successes : res.ok
    /\ \A res \in Failures : ~res.ok
  BY DEF Successes, Failures

\* A notice that is sent, or lost, is none of these.
LEMMA NoticeFacts ==
    ASSUME NEW what \in {"paused", "failed"}, NEW f, Tell(what, f)
    PROVE  te.kind # "dispatch" => told' \notin {"nothing", "answer", "reset"}
  BY DEF Tell

LEMMA HeadEnds ==
    ASSUME AttemptInv, InterruptedAtHead \/ CheckGlobalQuotaLockout \/ HandleAttemptsExhausted
                       \/ BackoffCancelled \/ HandleQuotaPause \/ FailedAtShutdown
                       \/ HandleBurstPanic
    PROVE  AttemptInv'
<1>0. te.kind \in {"message", "dispatch"}
  BY RowStays DEF TurnRecords
<1>s. UnderWay => item.status = "PROCESSING"
  BY DEF AttemptInv, RowFollowsLease
<1>e. \A out \in TurnOuts : EndedAs([te EXCEPT !.pc = "done", !.result = <<out>>], out)
  BY EndedFacts, WriteKinds
<1>1. CASE InterruptedAtHead
  BY <1>1, <1>e, TurnEnds, FinishFacts, RowStays
     DEF InterruptedAtHead, FinalizeInterruptedTurn, Finish, UnderWay, TurnOuts
<1>2. CASE CheckGlobalQuotaLockout
  <2>1. te.kind # "dispatch" => told' \notin {"nothing", "answer", "reset"}
    BY <1>2, NoticeFacts DEF CheckGlobalQuotaLockout
  <2> QED
    BY <1>0, <1>2, <1>e, <2>1, TurnEnds, FinishFacts, RowStays
       DEF CheckGlobalQuotaLockout, Finish, UnderWay, TurnOuts
<1>3. CASE HandleAttemptsExhausted
  <2>1. CASE stopping
    BY <1>3, <2>1, <1>s, <1>e, TurnEnds, FinishFacts, RowStays
       DEF HandleAttemptsExhausted, CancelBurstOnShutdown, UnderWay, TurnOuts
  <2>2. CASE ~stopping
    <3>1. te.kind # "dispatch" => told' \notin {"nothing", "answer", "reset"}
      BY <1>3, <2>2, NoticeFacts DEF HandleAttemptsExhausted
    <3> QED
      BY <1>3, <2>2, <3>1, <1>s, <1>e, TurnEnds, FinishFacts, RowStays
         DEF HandleAttemptsExhausted, UnderWay, TurnOuts, Finish
  <2> QED
    BY <2>1, <2>2
<1>4. CASE BackoffCancelled
  BY <1>4, <1>e, TurnEnds, FinishFacts, RowStays, <1>s
     DEF BackoffCancelled, Finish, UnderWay, TurnOuts, CancelBurstOnShutdown
<1>5. CASE HandleQuotaPause
  <2>1. te.kind # "dispatch" => told' \notin {"nothing", "answer", "reset"}
    BY <1>5, NoticeFacts DEF HandleQuotaPause
  <2>2. PICK out \in {"quota", "rescheduled"} : Finish(te, "FAILED", out)
    BY <1>5 DEF HandleQuotaPause
  <2> QED
    BY <1>5, <2>1, <2>2, <1>e, TurnEnds, FinishFacts, RowStays
       DEF HandleQuotaPause, Judging, Finish, UnderWay, TurnOuts
<1>6. CASE FailedAtShutdown
  BY <1>6, <1>s, <1>e, TurnEnds, FinishFacts, RowStays
     DEF FailedAtShutdown, Dispatched, Judging, CancelBurstOnShutdown, UnderWay, TurnOuts
<1>7. CASE HandleBurstPanic
  <2>1. /\ te' = [[te EXCEPT !.write = <<>>] EXCEPT !.pc = "done", !.result = <<"panic">>]
        /\ item' = [item EXCEPT !.status = "FAILED"]
    BY <1>7 DEF HandleBurstPanic, Finish
  <2>2. te' = [te EXCEPT !.pc = "done", !.result = <<"panic">>, !.write = <<>>, !.missed = te.missed]
    BY <2>1, RowStays DEF TurnRecords
  <2>3. EndedAs(te', "panic")
    BY <2>2, EndedFacts, WriteKinds DEF TurnOuts
  <2>4. UnderWay
    BY <1>7 DEF HandleBurstPanic, UnderWay
  <2> QED
    BY <1>7, <2>1, <2>3, <2>4, TurnEnds, FinishFacts, RowStays DEF HandleBurstPanic, TurnOuts
<1> QED
  BY <1>1, <1>2, <1>3, <1>4, <1>5, <1>6, <1>7

LEMMA AnswerEnds == AttemptInv /\ te.write = <<>> /\ DeliverSuccessAndFinalize => AttemptInv'
<1> SUFFICES ASSUME AttemptInv, te.write = <<>>, DeliverSuccessAndFinalize PROVE AttemptInv'
  OBVIOUS
<1>1. te.pc = "judge" /\ te.lease # 0 /\ LastWent(te.lease)
  BY JudgeFacts, ResultKinds DEF DeliverSuccessAndFinalize
<1>2. /\ te' = [te EXCEPT !.pc = "done", !.result = <<"answered">>]
      /\ item' = [item EXCEPT !.status = "COMPLETED"]
      /\ UNCHANGED <<row, daemon, born, corrupt, tries>>
  BY DEF DeliverSuccessAndFinalize, Finish
<1>3. /\ te'.eph = te.eph /\ te'.interrupted = te.interrupted /\ te'.reset = te.reset
      /\ te'.excused = te.excused /\ te'.write = <<>> /\ te'.result = <<"answered">>
  BY <1>2, RowStays DEF TurnRecords
<1>4. AnswerIsStored'
  <2>1. Unhindered => row.cur = te.lease
    BY <1>1 DEF AttemptInv, RowFollowsLease, UnderWay, Awaited
  <2>2. te'.result # <<"counted">>
    BY <1>3
  <2>3. Unhindered' => Unhindered
    BY <1>3 DEF Unhindered
  <2> QED
    BY <1>1, <1>2, <1>3, <2>1, <2>2, <2>3 DEF AnswerIsStored, LastWent
<1>6. item' \in TurnItems /\ item'.retry <= AttemptLimit /\ item'.status = "COMPLETED"
  BY <1>2, FinishFacts
<1>7. EndedAs(te', "answered")
  BY <1>2, EndedFacts, WriteKinds DEF TurnOuts
<1> QED
  BY <1>1, <1>2, <1>4, <1>6, <1>7, TurnEnds, RowStays DEF UnderWay, TurnOuts

\* The count of a failed attempt.
LEMMA CountFacts ==
    ASSUME AttemptInv, te.pc \in {"judge", "relet"}, NEW n \in {0, 1},
           NEW status \in {"PENDING", "PROCESSING", "COMPLETED", "FAILED"}
    PROVE  /\ [item EXCEPT !.retry = @ + 1 - n, !.status = status] \in TurnItems
           /\ [item EXCEPT !.retry = @ + 1 - n, !.status = status].retry <= AttemptLimit
           /\ [item EXCEPT !.retry = @ + 1 - n, !.status = status].status = status
           /\ [item EXCEPT !.retry = @ + 1 - n, !.status = item.status] =
                IF n = 0 THEN [item EXCEPT !.retry = @ + 1] ELSE item
<1>1. item \in TurnItems /\ item.retry \in Nat
  BY RowStays DEF TurnItems
<1>2. item.retry = te.attempt - 1 - te.missed /\ te.attempt <= AttemptLimit
  BY <1>1 DEF AttemptInv, CallsCounted
<1>3. te.attempt \in Nat /\ te.missed \in Nat /\ AttemptLimit \in Nat
  BY AttemptAssumption, RowStays DEF TurnRecords
<1> DEFINE r == item.retry + 1 - n
<1>4. r \in Nat /\ r <= AttemptLimit /\ (n = 0 => r = item.retry + 1) /\ (n = 1 => r = item.retry)
  BY <1>1, <1>2, <1>3
<1> HIDE DEF r
<1>5. [item EXCEPT !.retry = @ + 1 - n, !.status = status] = [item EXCEPT !.retry = r, !.status = status]
  BY DEF r
<1>6. [item EXCEPT !.retry = @ + 1 - n, !.status = item.status] =
        [item EXCEPT !.retry = r, !.status = item.status]
  BY DEF r
<1>7. [item EXCEPT !.retry = r, !.status = item.status] = [item EXCEPT !.retry = r]
  BY <1>1 DEF TurnItems
<1>8. n = 1 => [item EXCEPT !.retry = r] = item
  BY <1>1, <1>4 DEF TurnItems
<1>9. n = 0 => [item EXCEPT !.retry = r] = [item EXCEPT !.retry = @ + 1]
  BY <1>4
<1> QED
  BY <1>1, <1>4, <1>5, <1>6, <1>7, <1>8, <1>9 DEF TurnItems

\* Backoff of a turn that judges a failure, or has asked for another lease.
LEMMA BackoffRetries ==
    ASSUME AttemptInv, te.pc \in {"judge", "relet"}, te.prompt = "full", NEW f,
           NEW c \in Nat, NEW s \in Nat, NEW x \in BOOLEAN,
           te.excused => x, c <= born', s <= born',
           ~te.reset => c = te.current /\ s = te.lease,
           te.reset /\ ~x /\ ~te.interrupted => s \notin corrupt,
           Backoff([te EXCEPT !.current = c, !.lease = s, !.excused = x], f),
           born' \in Nat, born <= born', daemon' \in AgentProcs, daemon'.sess <= born',
           UNCHANGED <<row, corrupt, tries>>
    PROVE  AttemptInv'
<1>0. /\ te \in TurnRecords /\ te.attempt \in Nat /\ born \in Nat /\ te.missed \in Nat
      /\ AttemptLimit \in Nat /\ <<>> \in TurnResults
  BY AttemptAssumption, RowStays DEF TurnRecords, TurnResults
<1> DEFINE last == te.attempt >= AttemptLimit
           pc == IF last THEN "check" ELSE "backoff"
           a == IF last THEN te.attempt + 1 ELSE te.attempt
           n == IF "count" \in f THEN 1 ELSE 0
           m == te.missed + n
           t == [te EXCEPT !.current = c, !.lease = s, !.excused = x]
<1>1. t.attempt = te.attempt /\ t.missed = te.missed
  BY <1>0 DEF TurnRecords
<1>2. /\ te' = [[t EXCEPT !.result = << >>, !.pc = pc, !.attempt = a] EXCEPT !.missed = @ + n]
      /\ item' = [item EXCEPT !.retry = @ + 1 - n, !.status = item.status]
  BY <1>1 DEF Backoff, CountRetryOnce
<1>3. te' = [te EXCEPT !.current = c, !.lease = s, !.excused = x, !.result = << >>, !.pc = pc,
                       !.attempt = a, !.missed = m]
  BY <1>0, <1>2 DEF TurnRecords
<1>4. n \in {0, 1} /\ m \in Nat /\ a \in Nat /\ pc \in {"check", "backoff"}
      /\ \/ pc = "backoff" /\ a = te.attempt /\ te.attempt < AttemptLimit
         \/ pc = "check" /\ a = te.attempt + 1
      /\ (n = 0 => m = te.missed) /\ (n = 1 => m = te.missed + 1)
  BY <1>0
<1>5. item' = IF n = 0 THEN [item EXCEPT !.retry = @ + 1] ELSE item
  <2>1. item.status \in {"PENDING", "PROCESSING", "COMPLETED", "FAILED"}
    BY RowStays DEF TurnItems
  <2> HIDE DEF n
  <2> QED
    BY <1>2, <1>4, <2>1, CountFacts
<1> HIDE DEF pc, a, n, m
<1>6. te' \in TurnRecords
  BY <1>0, <1>3, <1>4 DEF TurnRecords
<1>7. /\ te'.pc = pc /\ te'.attempt = a /\ te'.missed = m /\ te'.current = c /\ te'.lease = s
      /\ te'.excused = x /\ te'.prompt = te.prompt /\ te'.first = te.first
      /\ te'.resumes = te.resumes /\ te'.leased = te.leased /\ te'.eph = te.eph
      /\ te'.interrupted = te.interrupted /\ te'.previous = te.previous /\ te'.active = te.active
      /\ te'.write = te.write /\ te'.operator = te.operator /\ te'.reset = te.reset
  BY <1>0, <1>3 DEF TurnRecords
<1>8. Retrying
  BY <1>4, <1>5, <1>6, <1>7 DEF Retrying
<1> QED
  BY <1>8, RetryingKeeps

LEMMA BackoffKeeps ==
    ASSUME AttemptInv, te.pc = "judge", ~FoundCorrupt, te.prompt = "full", NEW f, Backoff(te, f),
           daemon' \in AgentProcs, daemon'.sess = daemon.sess, UNCHANGED <<row, born, corrupt, tries>>
    PROVE  AttemptInv'
<1>1. /\ te \in TurnRecords /\ born \in Nat /\ te.current \in Nat /\ te.lease \in Nat
      /\ te.excused \in BOOLEAN
  BY RowStays DEF TurnRecords
<1>2. te = [te EXCEPT !.current = te.current, !.lease = te.lease, !.excused = te.excused]
  BY <1>1 DEF TurnRecords
<1>3. te.current <= born /\ te.lease <= born /\ daemon.sess <= born
  BY DEF AttemptInv, SessionsExist
<1>4. te.reset /\ ~te.excused /\ ~te.interrupted => te.lease \notin corrupt
  BY DEF AttemptInv, CorruptIsLeft
<1>5. born <= born
  BY <1>1
<1>6. /\ te.current <= born' /\ te.lease <= born' /\ daemon'.sess <= born' /\ born' \in Nat
      /\ born <= born'
  BY <1>1, <1>3, <1>5
<1>7. Backoff([te EXCEPT !.current = te.current, !.lease = te.lease, !.excused = te.excused], f)
  BY <1>2
<1> QED
  BY <1>1, <1>4, <1>6, <1>7, BackoffRetries

LEMMA NotCorrupt ==
    ASSUME AttemptInv, NEW res \in Failures, Judging(res), res.flag # "corrupt"
    PROVE  te.pc = "judge" /\ te.prompt = "full" /\ ~FoundCorrupt
<1>1. te.pc = "judge" /\ te.prompt = "full" /\ te.result = <<res>>
  BY JudgeFacts, ResultKinds DEF Judging
<1> QED
  BY <1>1 DEF FoundCorrupt

\* An ended turn that has counted its failure and perhaps asked for the rotation.
LEMMA CountedEnds ==
    ASSUME AttemptInv, te.pc = "judge", NEW out \in {"timeout", "shutdown"}, NEW f,
           NEW t \in {[te EXCEPT !.pc = "done", !.result = <<out>>],
                      RotateSessionID([te EXCEPT !.pc = "done", !.result = <<out>>])},
           NEW status \in {"PROCESSING", "FAILED"}, CountRetryOnce(t, status, f),
           daemon' = daemon, UNCHANGED <<row, born, corrupt, tries>>,
           status = "FAILED" => te.kind = "dispatch" \/ told' \notin {"nothing", "answer", "reset"}
    PROVE  AttemptInv'
<1> DEFINE n == IF "count" \in f THEN 1 ELSE 0
           u == [te EXCEPT !.pc = "done", !.result = <<out>>]
<1>1. te \in TurnRecords /\ te.missed \in Nat /\ n \in {0, 1} /\ out \in TurnOuts
  BY RowStays DEF TurnRecords, TurnOuts
<1>2. PICK w \in {te.write, Rotation} :
        t = [te EXCEPT !.pc = "done", !.result = <<out>>, !.write = w] /\ (w = Rotation => ~te.eph)
  <2>e. (te.write = Rotation => ~te.eph) /\ u.eph = te.eph
    BY <1>1, WriteKinds DEF AttemptInv, RowFollowsLease, TurnRecords
  <2>1. u = [te EXCEPT !.pc = "done", !.result = <<out>>, !.write = te.write]
    BY <1>1 DEF TurnRecords
  <2>2. RotateSessionID(u) = u \/ (RotateSessionID(u) = [u EXCEPT !.write = Rotation] /\ ~te.eph)
    BY <2>e DEF RotateSessionID, MayWrite
  <2>3. [u EXCEPT !.write = Rotation] =
          [te EXCEPT !.pc = "done", !.result = <<out>>, !.write = Rotation]
    BY <1>1 DEF TurnRecords
  <2>4. t = u \/ (t = [u EXCEPT !.write = Rotation] /\ ~te.eph)
    BY <2>2
  <2> HIDE DEF u
  <2> QED
    BY <2>e, <2>1, <2>3, <2>4
<1>3. te' = [t EXCEPT !.missed = @ + n] /\ item' = [item EXCEPT !.retry = @ + 1 - n, !.status = status]
  BY DEF CountRetryOnce
<1> HIDE DEF n, u
<1> DEFINE m == te.missed + n
<1>4. te' = [te EXCEPT !.pc = "done", !.result = <<out>>, !.write = w, !.missed = m]
  BY <1>1, <1>2, <1>3 DEF TurnRecords
<1>5. m \in {te.missed, te.missed + 1}
  BY <1>1
<1> HIDE DEF m
<1>6. EndedAs(te', out)
  BY <1>1, <1>2, <1>4, <1>5, EndedFacts
<1>7. item' \in TurnItems /\ item'.retry <= AttemptLimit /\ item'.status = status
  BY <1>1, <1>3, CountFacts
<1>8. out \in TurnOuts \ {"counted"} /\ out # "answered" /\ UnderWay
  BY DEF TurnOuts, UnderWay
<1> QED
  BY <1>6, <1>7, <1>8, TurnEnds, RowStays

LEMMA FailureKeeps ==
    ASSUME AttemptInv, HandleCapacityBlip \/ HandleWatchdogFailure \/ HandleTransientRetry
    PROVE  AttemptInv'
<1>0. te.kind \in {"message", "dispatch"} /\ te \in TurnRecords /\ daemon \in AgentProcs
  BY RowStays DEF TurnRecords
<1>1. CASE HandleCapacityBlip
  <2>1. te.pc = "judge" /\ te.prompt = "full" /\ ~FoundCorrupt
    BY <1>1, NotCorrupt DEF HandleCapacityBlip, Failures
  <2>2. PICK f \in SUBSET {"count", "notice"} :
          \/ Backoff(te, f)
          \/ Tell("paused", f) /\ Finish(te, "FAILED", "quota")
    BY <1>1 DEF HandleCapacityBlip
  <2>3. UNCHANGED <<row, daemon, born, corrupt, tries>>
    BY <1>1 DEF HandleCapacityBlip
  <2>4. CASE Backoff(te, f)
    BY <1>0, <2>1, <2>3, <2>4, BackoffKeeps
  <2>5. CASE Tell("paused", f) /\ Finish(te, "FAILED", "quota")
    BY <1>0, <2>1, <2>3, <2>5, NoticeFacts, TurnEnds, FinishFacts, EndedFacts, WriteKinds
       DEF Finish, UnderWay, TurnOuts
  <2> QED
    BY <2>2, <2>4, <2>5
<1>2. CASE HandleWatchdogFailure
  <2>1. te.pc = "judge" /\ te.prompt = "full" /\ ~FoundCorrupt
    BY <1>2, NotCorrupt DEF HandleWatchdogFailure, Failures
  <2>2. PICK f \in SUBSET {"count", "notice"} :
          \/ Backoff(te, f)
          \/ CountRetryOnce([te EXCEPT !.pc = "done", !.result = << "shutdown" >>], item.status, f)
          \/ /\ Tell("failed", f)
             /\ CountRetryOnce(RotateSessionID([te EXCEPT !.pc = "done", !.result = << "timeout" >>]),
                               "FAILED", f)
    BY <1>2 DEF HandleWatchdogFailure
  <2>3. UNCHANGED <<row, daemon, born, corrupt, tries>>
    BY <1>2 DEF HandleWatchdogFailure
  <2>s. item.status = "PROCESSING"
    BY <2>1 DEF AttemptInv, RowFollowsLease, UnderWay
  <2>4. CASE Backoff(te, f)
    BY <1>0, <2>1, <2>3, <2>4, BackoffKeeps
  <2>5. CASE CountRetryOnce([te EXCEPT !.pc = "done", !.result = << "shutdown" >>], item.status, f)
    BY <2>1, <2>3, <2>5, <2>s, CountedEnds
  <2>6. CASE /\ Tell("failed", f)
             /\ CountRetryOnce(RotateSessionID([te EXCEPT !.pc = "done", !.result = << "timeout" >>]),
                               "FAILED", f)
    BY <1>0, <2>1, <2>3, <2>6, CountedEnds, NoticeFacts
  <2> QED
    BY <2>2, <2>4, <2>5, <2>6
<1>3. CASE HandleTransientRetry
  <2>1. PICK res \in Failures : Judging(res) /\ res.flag = "transient"
    BY <1>3 DEF HandleTransientRetry, Dispatched
  <2>2. te.pc = "judge" /\ te.prompt = "full" /\ ~FoundCorrupt
    BY <2>1, NotCorrupt
  <2>3. PICK f \in SUBSET {"count"} : Backoff(te, f)
    BY <1>3 DEF HandleTransientRetry
  <2>4. daemon' \in {daemon, [daemon EXCEPT !.dirty = TRUE]} /\ UNCHANGED <<row, born, corrupt, tries>>
    BY <1>3 DEF HandleTransientRetry
  <2>5. daemon' \in AgentProcs /\ daemon'.sess = daemon.sess
    BY <1>0, <2>4 DEF AgentProcs
  <2> QED
    BY <2>2, <2>3, <2>4, <2>5, BackoffKeeps
<1> QED
  BY <1>1, <1>2, <1>3

LEMMA GiveUpEnds == AttemptInv /\ HandleNonTransientFailure => AttemptInv'
<1> SUFFICES ASSUME AttemptInv, HandleNonTransientFailure PROVE AttemptInv'
  OBVIOUS
<1>0. /\ te \in TurnRecords /\ te.missed \in Nat /\ daemon \in AgentProcs /\ <<"failed">> \in TurnResults
      /\ te.kind \in {"message", "dispatch"} /\ te.write \in TurnWrites /\ te.current \in Nat
      /\ te.pc = "judge"
  BY RowStays DEF TurnRecords, TurnResults, TurnOuts, HandleNonTransientFailure, Dispatched, Judging
<1> DEFINE u == [te EXCEPT !.pc = "done", !.previous = te.current, !.current = 0, !.active = 0,
                           !.result = <<"failed">>]
<1>1. PICK f \in SUBSET {"notice", "count"} :
        /\ Tell("failed", f)
        /\ CountRetryOnce(IF te.current # 0 THEN RotateSessionID(u) ELSE u, "FAILED", f)
  BY DEF HandleNonTransientFailure
<1>2. UNCHANGED <<row, daemon, born, corrupt, tries>>
  BY DEF HandleNonTransientFailure
<1> DEFINE n == IF "count" \in f THEN 1 ELSE 0
           m == te.missed + n
<1>e. u.eph = te.eph /\ (te.eph => te.write = <<>>)
  BY <1>0 DEF TurnRecords, AttemptInv, RowFollowsLease
<1>3. PICK t \in {u, [u EXCEPT !.write = Rotation]} :
        CountRetryOnce(t, "FAILED", f) /\ (te.eph => t = u)
  BY <1>1, <1>e DEF RotateSessionID, MayWrite
<1>4. te' = [t EXCEPT !.missed = @ + n] /\ item' = [item EXCEPT !.retry = @ + 1 - n, !.status = "FAILED"]
  BY <1>3 DEF CountRetryOnce
<1>5. n \in {0, 1} /\ m \in Nat
  BY <1>0
<1>6. PICK w \in {te.write, Rotation} :
        te' = [te EXCEPT !.pc = "done", !.previous = te.current, !.current = 0, !.active = 0,
                         !.result = <<"failed">>, !.write = w, !.missed = m]
        /\ (te.eph => w = te.write)
  <2>1. CASE t = u
    BY <1>0, <1>4, <2>1 DEF TurnRecords
  <2>2. CASE t = [u EXCEPT !.write = Rotation] /\ ~te.eph
    BY <1>0, <1>4, <2>2 DEF TurnRecords
  <2> QED
    BY <1>3, <2>1, <2>2
<1>7. item' \in TurnItems /\ item'.retry <= AttemptLimit /\ item'.status = "FAILED"
  <2> HIDE DEF n
  <2> QED
    BY <1>0, <1>4, <1>5, CountFacts
<1> HIDE DEF n, m, u
<1>8. w \in TurnWrites
  BY <1>0, <1>6, WriteKinds
<1>9. te' \in TurnRecords
  BY <1>0, <1>5, <1>6, <1>8 DEF TurnRecords
<1>10. /\ te'.pc = "done" /\ te'.previous = te.current /\ te'.current = 0 /\ te'.active = 0
       /\ te'.lease = te.lease /\ te'.first = te.first /\ te'.attempt = te.attempt
       /\ te'.resumes = te.resumes /\ te'.write = w /\ te'.operator = te.operator
       /\ te'.interrupted = te.interrupted /\ te'.result = <<"failed">> /\ te'.kind = te.kind
       /\ te'.eph = te.eph
  BY <1>0, <1>6 DEF TurnRecords
<1>11. te'.result # <<"answered">> /\ te'.result # <<"counted">>
  BY <1>10
<1>12. AnswerIsStored'
  BY <1>11 DEF AnswerIsStored
<1>13. FailuresAreTold'
  <2>1. te.kind # "dispatch" => told' \notin {"nothing", "answer", "reset"}
    BY <1>1, NoticeFacts
  <2> QED
    BY <1>0, <1>10, <2>1 DEF FailuresAreTold
<1>14. Ending
  BY <1>0, <1>2, <1>6, <1>e, WriteKinds, <1>7, <1>9, <1>10, <1>12, <1>13 DEF Ending, UnderWay
<1> QED
  BY <1>14, EndingKeeps

LEMMA CorruptionKeeps == AttemptInv /\ te.write = <<>> /\ HandleSessionCorruptionRetry => AttemptInv'
<1> SUFFICES ASSUME AttemptInv, te.write = <<>>, HandleSessionCorruptionRetry PROVE AttemptInv'
  OBVIOUS
<1>0. /\ te \in TurnRecords /\ row \in SessionRows /\ te.write \in TurnWrites
      /\ Rotation \in TurnWrites /\ born \in Nat
  BY RowStays, WriteKinds DEF TurnRecords
<1>1. PICK res \in Failures : Judging(res) /\ res.flag = "corrupt"
  BY DEF HandleSessionCorruptionRetry, Dispatched
<1>2. te.pc = "judge" /\ te.prompt = "full" /\ FoundCorrupt
  BY <1>1, JudgeFacts, ResultKinds DEF FoundCorrupt, Judging
<1> DEFINE u == [te EXCEPT !.pc = "relet", !.current = 0, !.active = 0, !.lease = 0, !.reset = TRUE]
<1>3. /\ te' = RotateSessionID(u) /\ UNCHANGED <<row, daemon, born, corrupt, item, tries>>
  BY DEF HandleSessionCorruptionRetry
<1>4. u.eph = te.eph /\ u.interrupted = te.interrupted
  BY <1>0 DEF TurnRecords
<1>5. PICK w \in {te.write, Rotation} :
        /\ te' = [te EXCEPT !.pc = "relet", !.current = 0, !.active = 0, !.lease = 0, !.reset = TRUE,
                            !.write = w]
        /\ ~te.eph /\ ~te.interrupted => w = Rotation
        /\ te.eph => w = te.write
  <2>1. CASE MayWrite(u)
    <3>1. te' = [u EXCEPT !.write = Rotation] /\ ~te.eph
      BY <1>3, <1>4, <2>1 DEF RotateSessionID, MayWrite
    <3> QED
      BY <1>0, <3>1 DEF TurnRecords
  <2>2. CASE ~MayWrite(u)
    <3>1. te' = u /\ (te.eph \/ te.interrupted)
      BY <1>3, <1>4, <2>2 DEF RotateSessionID, MayWrite
    <3> QED
      BY <1>0, <3>1 DEF TurnRecords
  <2> QED
    BY <2>1, <2>2
<1> HIDE DEF u
<1>6. te' \in TurnRecords
  BY <1>0, <1>5 DEF TurnRecords
<1>7. /\ te'.pc = "relet" /\ te'.current = 0 /\ te'.active = 0 /\ te'.lease = 0 /\ te'.reset
      /\ te'.previous = te.previous /\ te'.first = te.first /\ te'.attempt = te.attempt
      /\ te'.resumes = te.resumes /\ te'.write = w /\ te'.operator = te.operator
      /\ te'.prompt = te.prompt /\ te'.missed = te.missed
  BY <1>0, <1>5 DEF TurnRecords
<1>8. te'.interrupted = te.interrupted /\ te'.eph = te.eph /\ te'.leased = te.leased
  BY <1>0, <1>5 DEF TurnRecords
<1>a. AttemptTypes'
  BY <1>3, <1>6 DEF AttemptInv, AttemptTypes
<1>b. SessionsExist'
  <2>1. w # <<>> => Head(w).sess <= born
    BY <1>0, WriteKinds
  <2>2. 0 <= born
    BY <1>0
  <2> QED
    BY <1>3, <1>7, <2>1, <2>2 DEF AttemptInv, SessionsExist
<1>c. CallsCounted'
  BY <1>2, <1>3, <1>7 DEF AttemptInv, CallsCounted
<1>d. CallsFollowLease' /\ RowFollowsLease'
  BY <1>2, <1>3, <1>5, <1>7, <1>8 DEF AttemptInv, CallsFollowLease, RowFollowsLease, UnderWay, Unhindered
<1>e. AnswerIsStored' /\ FailuresAreTold' /\ ResumesStayInSession'
  BY <1>3, <1>7 DEF AttemptInv, AnswerIsStored, FailuresAreTold, ResumesStayInSession
<1>f. CorruptIsLeft'
  <2>1. te.eph \/ daemon.dirty
    BY <1>2 DEF AttemptInv, CorruptIsLeft
  <2>2. w = Rotation => Awaited'.cur = 0
    <3>1. Rotation # <<>> /\ Head(Rotation).op = "rotate"
      BY WriteKinds
    <3> QED
      BY <1>3, <1>7, <3>1 DEF Awaited, Written, RotatedTo
  <2> QED
    BY <1>3, <1>5, <1>7, <1>8, <2>1, <2>2 DEF CorruptIsLeft, FoundCorrupt
<1> QED
  BY <1>a, <1>b, <1>c, <1>d, <1>e, <1>f DEF AttemptInv

\* A lease names the session of the row, if it has one (AcquireLease).
LEMMA LeaseFacts ==
    ASSUME AttemptInv, NEW eph \in BOOLEAN, NEW r \in SessionRows, r.cur <= born
    PROVE  /\ Lease(eph, r) \in Nat \ {0} /\ Lease(eph, r) <= born + 1
           /\ ~eph /\ r.cur # 0 => Lease(eph, r) = r.cur
           /\ eph \/ (r.cur = 0 /\ daemon.dirty /\ ~daemon.busy) => Lease(eph, r) = born + 1
BY DEF AttemptInv, AttemptTypes, SessionsExist, AgentProcs, SessionRows, Lease, LeaseSession, Fits

LEMMA LeasedFacts ==
    ASSUME AttemptInv, NEW eph \in BOOLEAN, NEW s \in Nat, Leased(eph, s)
    PROVE  /\ born' \in Nat /\ born <= born' /\ s <= born'
           /\ daemon' \in AgentProcs /\ daemon'.sess <= born'
BY DEF AttemptInv, AttemptTypes, SessionsExist, AgentProcs, Leased, Proc

LEMMA NoRecordFacts == NoRecord \in SessionRows /\ NoRecord.cur = 0 /\ NoRecord.prev = 0
  BY DEF NoRecord, SessionRows

LEMMA ReletKeeps == AttemptInv /\ te.write = <<>> /\ Relet => AttemptInv'
<1> SUFFICES ASSUME AttemptInv, te.write = <<>>, Relet PROVE AttemptInv'
  OBVIOUS
<1>0. /\ te \in TurnRecords /\ row \in SessionRows /\ daemon \in AgentProcs /\ born \in Nat
      /\ te.eph \in BOOLEAN /\ te.excused \in BOOLEAN /\ te.current \in Nat
      /\ te.lease \in Nat /\ row.cur <= born /\ te.current <= born /\ te.lease <= born
      /\ daemon.sess <= born /\ corrupt \subseteq 1..born
  BY RowStays DEF AttemptInv, TurnRecords, SessionsExist
<1>1. /\ te.pc = "relet" /\ te.prompt = "full" /\ te.reset /\ te.lease = 0 /\ (te.eph \/ daemon.dirty)
      /\ te.eph \/ te.interrupted \/ te.excused \/ row.cur = 0
  BY DEF Relet, AttemptInv, CallsFollowLease, CorruptIsLeft, Awaited
<1>2. PICK f \in SUBSET {"read", "lease", "count"} :
        LET s == Lease(te.eph, IF "read" \in f THEN NoRecord ELSE row)
        IN IF "lease" \in f THEN Backoff(te, f) /\ UNCHANGED <<born, daemon>>
           ELSE /\ Leased(te.eph, s)
                /\ Backoff([te EXCEPT !.current = s, !.lease = s,
                                      !.excused = @ \/ (~te.eph /\ daemon.busy)], f)
  BY DEF Relet
<1>3. UNCHANGED <<row, corrupt, tries>>
  BY DEF Relet
<1>4. CASE "lease" \in f
  <2>1. Backoff(te, f) /\ UNCHANGED <<born, daemon>>
    BY <1>2, <1>4
  <2>2. te = [te EXCEPT !.current = te.current, !.lease = te.lease, !.excused = te.excused]
    BY <1>0 DEF TurnRecords
  <2>3. Backoff([te EXCEPT !.current = te.current, !.lease = te.lease, !.excused = te.excused], f)
    BY <2>1, <2>2
  <2>4. te.lease \notin corrupt
    BY <1>0, <1>1
  <2>5. born' \in Nat /\ born <= born' /\ daemon' \in AgentProcs /\ daemon'.sess <= born'
        /\ te.current <= born' /\ te.lease <= born'
    BY <1>0, <2>1
  <2> QED
    BY <1>0, <1>1, <1>3, <2>3, <2>4, <2>5, BackoffRetries
<1>5. CASE "lease" \notin f
  <2>1. PICK r \in {row, NoRecord} :
          /\ Leased(te.eph, Lease(te.eph, r))
          /\ Backoff([te EXCEPT !.current = Lease(te.eph, r), !.lease = Lease(te.eph, r),
                                !.excused = te.excused \/ (~te.eph /\ daemon.busy)], f)
    BY <1>2, <1>5
  <2>2. r \in SessionRows /\ r.cur <= born /\ (row.cur = 0 => r.cur = 0)
    BY <1>0, NoRecordFacts
  <2> DEFINE s == Lease(te.eph, r)
             x == te.excused \/ (~te.eph /\ daemon.busy)
  <2>3. s \in Nat /\ (te.eph \/ (r.cur = 0 /\ daemon.dirty /\ ~daemon.busy) => s = born + 1)
    BY <1>0, <2>2, LeaseFacts
  <2>4. Leased(te.eph, s)
    BY <2>1
  <2>5. x \in BOOLEAN /\ (te.excused => x)
    OBVIOUS
  <2>6. Backoff([te EXCEPT !.current = s, !.lease = s, !.excused = x], f)
    BY <2>1
  <2>7. te.reset /\ ~x /\ ~te.interrupted => s \notin corrupt
    <3>1. te.reset /\ ~x /\ ~te.interrupted => s = born + 1
      BY <1>1, <2>2, <2>3
    <3>2. born + 1 \notin corrupt
      BY <1>0
    <3> QED
      BY <3>1, <3>2
  <2> HIDE DEF s, x
  <2>8. /\ born' \in Nat /\ born <= born' /\ s <= born' /\ daemon' \in AgentProcs
        /\ daemon'.sess <= born'
    BY <1>0, <2>3, <2>4, LeasedFacts
  <2> QED
    BY <1>1, <1>3, <2>3, <2>5, <2>6, <2>7, <2>8, BackoffRetries
<1> QED
  BY <1>4, <1>5

--------------------
\* What no step between the lease and the end of a turn touches.
SameTurn(u) ==
    /\ u.kind = te.kind /\ u.eph = te.eph /\ u.previous = te.previous /\ u.lease = te.lease
    /\ u.first = te.first /\ u.reset = te.reset /\ u.leased = te.leased /\ u.missed = te.missed

LEMMA WriteKeeps == AttemptInv /\ WriteRow => AttemptInv'
<1> SUFFICES ASSUME AttemptInv, WriteRow PROVE AttemptInv'
  OBVIOUS
<1>1. te.write # <<>> /\ UNCHANGED <<daemon, born, corrupt, item, tries, told>>
  BY DEF WriteRow
<1> DEFINE w == Head(te.write)
<1>0. /\ te \in TurnRecords /\ row \in SessionRows /\ born \in Nat /\ 0 <= born
      /\ w \in [op : {"save", "rotate"}, sess : Nat] /\ w.sess <= born
      /\ row.cur <= born /\ row.prev <= born
  BY <1>1, RowStays DEF AttemptInv, SessionsExist, TurnRecords, TurnWrites
<1>2. PICK x \in BOOLEAN :
        /\ te' = [te EXCEPT !.write = <<>>, !.excused = te.excused \/ x]
        /\ row' = IF x THEN row ELSE Written(row, w)
  <2>1. PICK f \in SUBSET {"write"} :
          /\ row' = IF f = {} THEN Written(row, w) ELSE row
          /\ te' = [te EXCEPT !.write = <<>>, !.excused = @ \/ f # {}]
    BY DEF WriteRow
  <2> QED
    BY <2>1
<1> DEFINE e == te.excused \/ x
<1>3. e \in BOOLEAN /\ (te.excused => e) /\ (~e => ~x)
  BY <1>0 DEF TurnRecords
<1>4. te' = [te EXCEPT !.write = <<>>, !.excused = e]
  BY <1>2
<1>5. /\ row' \in SessionRows /\ {row'.cur, row'.prev} \subseteq {row.cur, row.prev, w.sess, 0}
      /\ ~e => row' = Awaited
  BY <1>0, <1>1, <1>2, <1>3, RowWrites DEF Awaited
<1> HIDE DEF e, w
<1>6. te' \in TurnRecords /\ te'.write = <<>> /\ te'.excused = e
  BY <1>0, <1>3, <1>4, WriteKinds DEF TurnRecords
<1>7. /\ SameTurn(te') /\ te'.pc = te.pc /\ te'.current = te.current /\ te'.active = te.active
      /\ te'.attempt = te.attempt /\ te'.resumes = te.resumes /\ te'.prompt = te.prompt
      /\ te'.result = te.result /\ te'.interrupted = te.interrupted /\ te'.operator = te.operator
  BY <1>0, <1>4 DEF TurnRecords, SameTurn
<1>8. Awaited' = row' /\ (Unhindered' => Unhindered /\ row' = Awaited)
  BY <1>3, <1>5, <1>6, <1>7 DEF Awaited, Unhindered, SameTurn
<1>a. AttemptTypes'
  BY <1>1, <1>5, <1>6 DEF AttemptInv, AttemptTypes
<1>b. SessionsExist'
  <2>1. row'.cur <= born /\ row'.prev <= born
    BY <1>0, <1>5
  <2> QED
    BY <2>1, <1>1, <1>6, <1>7 DEF AttemptInv, SessionsExist, SameTurn
<1>c. CallsCounted'
  <2>1. te.pc # "idle"
    BY <1>1 DEF AttemptInv, CallsCounted, NoTurn
  <2> QED
    BY <1>1, <1>7, <2>1 DEF AttemptInv, CallsCounted, SameTurn, ExecutionsAreBounded
<1>d. CallsFollowLease'
  BY <1>1, <1>7 DEF AttemptInv, CallsFollowLease, SameTurn, LastWent
<1>e. RowFollowsLease'
  BY <1>1, <1>7, <1>8 DEF AttemptInv, RowFollowsLease, SameTurn, UnderWay
<1>f. AnswerIsStored'
  <2>1. ~(te.pc = "done" /\ te.result = <<"answered">>)
    BY <1>1 DEF AttemptInv, AnswerIsStored
  <2> QED
    BY <1>1, <1>7, <1>8, <2>1 DEF AttemptInv, AnswerIsStored, SameTurn, LastWent
<1>g. CorruptIsLeft'
  BY <1>1, <1>3, <1>5, <1>6, <1>7, <1>8 DEF AttemptInv, CorruptIsLeft, FoundCorrupt, SameTurn
<1> QED
  BY <1>1, <1>7, <1>a, <1>b, <1>c, <1>d, <1>e, <1>f, <1>g
     DEF AttemptInv, ResumesStayInSession, FailuresAreTold, SameTurn

LEMMA InterruptKeeps == AttemptInv /\ Interrupt => AttemptInv'
<1> SUFFICES ASSUME AttemptInv, Interrupt PROVE AttemptInv'
  OBVIOUS
<1>0. te \in TurnRecords
  BY RowStays
<1>1. PICK o \in BOOLEAN : te' = [te EXCEPT !.interrupted = TRUE, !.operator = o]
  BY DEF Interrupt
<1>2. te.pc # "idle" /\ UNCHANGED <<row, daemon, born, corrupt, item, tries, told>>
  BY DEF Interrupt
<1>3. te' \in TurnRecords /\ te'.interrupted /\ te'.write = te.write /\ te'.excused = te.excused
  BY <1>0, <1>1 DEF TurnRecords
<1>4. /\ SameTurn(te') /\ te'.pc = te.pc /\ te'.current = te.current /\ te'.active = te.active
      /\ te'.attempt = te.attempt /\ te'.resumes = te.resumes /\ te'.prompt = te.prompt
      /\ te'.result = te.result
  BY <1>0, <1>1 DEF TurnRecords, SameTurn
<1>a. AttemptTypes' /\ SessionsExist'
  BY <1>2, <1>3, <1>4 DEF AttemptInv, AttemptTypes, SessionsExist, SameTurn
<1>b. CallsCounted'
  BY <1>2, <1>4 DEF AttemptInv, CallsCounted, SameTurn, ExecutionsAreBounded
<1>c. CallsFollowLease' /\ RowFollowsLease' /\ CorruptIsLeft'
  BY <1>2, <1>3, <1>4 DEF AttemptInv, CallsFollowLease, RowFollowsLease, UnderWay, Unhindered,
     LastWent, CorruptIsLeft, FoundCorrupt, SameTurn
<1>d. AnswerIsStored'
  BY <1>2, <1>3, <1>4 DEF AttemptInv, AnswerIsStored, Unhindered
<1> QED
  BY <1>2, <1>4, <1>a, <1>b, <1>c, <1>d DEF AttemptInv, ResumesStayInSession, FailuresAreTold, SameTurn

\* The operator's reset, and a process that comes to rest.
LEMMA AsideKeeps == AttemptInv /\ (OperatorResets \/ ProcessIdles) => AttemptInv'
<1> SUFFICES ASSUME AttemptInv, OperatorResets \/ ProcessIdles PROVE AttemptInv'
  OBVIOUS
<1>0. te \in TurnRecords /\ row \in SessionRows /\ daemon \in AgentProcs /\ born \in Nat
  BY RowStays
<1>1. CASE ProcessIdles
  <2>1. daemon' \in AgentProcs /\ daemon'.sess = daemon.sess /\ daemon'.dirty = daemon.dirty
    BY <1>0, <1>1 DEF ProcessIdles, AgentProcs
  <2>2. UNCHANGED <<row, born, corrupt, te, item, tries, told>>
    BY <1>1 DEF ProcessIdles
  <2> QED
    BY <2>1, <2>2 DEF AttemptInv, AttemptTypes, SessionsExist, CallsCounted, CallsFollowLease,
       RowFollowsLease, ResumesStayInSession, FailuresAreTold, LastWent, UnderWay, AnswerIsStored,
       CorruptIsLeft, ExecutionsAreBounded, Awaited, FoundCorrupt, Unhindered
<1>2. CASE OperatorResets
  <2>1. /\ te.operator /\ te' = [te EXCEPT !.operator = FALSE]
        /\ UNCHANGED <<daemon, corrupt, item, tries, told>>
        /\ \/ row' = RotatedTo(row, born + 1) /\ born' = born + 1
           \/ UNCHANGED <<row, born>>
    BY <1>2 DEF OperatorResets
  <2>2. te.interrupted
    BY <2>1 DEF AttemptInv, RowFollowsLease
  <2>3. te' \in TurnRecords /\ ~te'.operator /\ te'.interrupted /\ te'.write = te.write
        /\ te'.excused = te.excused
    BY <1>0, <2>1, <2>2 DEF TurnRecords
  <2>4. /\ SameTurn(te') /\ te'.pc = te.pc /\ te'.current = te.current /\ te'.active = te.active
        /\ te'.attempt = te.attempt /\ te'.resumes = te.resumes /\ te'.prompt = te.prompt
        /\ te'.result = te.result
    BY <1>0, <2>1 DEF TurnRecords, SameTurn
  <2>5. /\ row' \in SessionRows /\ row'.cur <= born' /\ row'.prev <= born' /\ born' \in Nat
        /\ born <= born'
    <3>1. row.cur <= born /\ row.prev <= born /\ row.cur \in Nat /\ row.prev \in Nat
      BY <1>0 DEF AttemptInv, SessionsExist, SessionRows
    <3>2. CASE row' = RotatedTo(row, born + 1) /\ born' = born + 1
      BY <1>0, <3>1, <3>2 DEF RotatedTo, SessionRows
    <3>3. CASE UNCHANGED <<row, born>>
      BY <1>0, <3>1, <3>3
    <3> QED
      BY <2>1, <3>2, <3>3
  <2>a. AttemptTypes'
    BY <1>0, <2>1, <2>3, <2>5 DEF AttemptInv, AttemptTypes
  <2>b. SessionsExist'
    <3>1. \A n \in Nat : n <= born => n <= born'
      BY <1>0, <2>5
    <3>2. /\ {te.current, te.previous, te.active, te.lease, daemon.sess} \subseteq Nat
          /\ te.write # <<>> => Head(te.write).sess \in Nat
      BY <1>0 DEF TurnRecords, AgentProcs, TurnWrites
    <3>3. corrupt \subseteq 1..born'
      BY <1>0, <2>5 DEF AttemptInv, SessionsExist
    <3> QED
      BY <2>1, <2>3, <2>4, <2>5, <3>1, <3>2, <3>3 DEF AttemptInv, SessionsExist, SameTurn
  <2>c. CallsCounted'
    <3>1. te.pc # "idle"
      BY <2>1 DEF AttemptInv, CallsCounted, NoTurn
    <3> QED
      BY <2>1, <2>4, <3>1 DEF AttemptInv, CallsCounted, SameTurn, ExecutionsAreBounded
  <2>d. CallsFollowLease' /\ RowFollowsLease' /\ CorruptIsLeft'
    BY <2>1, <2>3, <2>4 DEF AttemptInv, CallsFollowLease, RowFollowsLease, UnderWay, Unhindered,
       LastWent, CorruptIsLeft, FoundCorrupt, SameTurn
  <2>e. AnswerIsStored'
    BY <2>1, <2>3, <2>4 DEF AttemptInv, AnswerIsStored, Unhindered
  <2> QED
    BY <2>1, <2>4, <2>a, <2>b, <2>c, <2>d, <2>e DEF AttemptInv, ResumesStayInSession,
       FailuresAreTold, SameTurn
<1> QED
  BY <1>1, <1>2

\* A turn that goes on to another execution.
LEMMA LoopKeeps == AttemptInv /\ te.write = <<>> /\ (HandleYieldTrap \/ BackoffEnds) => AttemptInv'
<1> SUFFICES ASSUME AttemptInv, te.write = <<>>, HandleYieldTrap \/ BackoffEnds PROVE AttemptInv'
  OBVIOUS
<1>0. /\ te \in TurnRecords /\ te.attempt \in Nat /\ te.resumes \in Nat /\ te.first \in Nat
      /\ Len(tries) \in Nat /\ AttemptLimit \in Nat /\ ResumeLimit \in Nat /\ te.missed \in Nat
      /\ te.attempt + 1 \in Nat /\ te.resumes + 1 \in Nat /\ << >> \in TurnResults
  BY AttemptAssumption DEF AttemptInv, AttemptTypes, TurnRecords, TurnResults
<1>1. UNCHANGED <<row, daemon, born, corrupt, item, tries, told>>
  BY DEF HandleYieldTrap, BackoffEnds
<1>3. CASE HandleYieldTrap
  <2>1. te.pc = "judge" /\ LastWent(te.lease) /\ te.resumes < ResumeLimit /\ ~FoundCorrupt
    <3>1. PICK res \in Successes : Judging(res)
      BY <1>3 DEF HandleYieldTrap
    <3>2. te.result = <<res>> /\ res.ok
      BY <3>1, ResultKinds DEF Judging
    <3> QED
      BY <1>3, <3>1, <3>2, JudgeFacts, ResultKinds DEF HandleYieldTrap, FoundCorrupt
  <2>2. te' = [te EXCEPT !.pc = "check", !.prompt = "resume", !.resumes = te.resumes + 1, !.result = << >>]
    BY <1>3 DEF HandleYieldTrap, YieldResumed
  <2>3. /\ te' \in TurnRecords /\ te'.pc = "check" /\ te'.prompt = "resume"
        /\ te'.resumes = te.resumes + 1 /\ te'.attempt = te.attempt
        /\ te'.current = te.current /\ te'.active = te.active /\ te'.write = te.write
    BY <1>0, <2>2 DEF TurnRecords, TurnPrompts
  <2>4. SameTurn(te') /\ te'.interrupted = te.interrupted /\ te'.excused = te.excused
        /\ te'.operator = te.operator
    BY <1>0, <2>2 DEF TurnRecords, SameTurn
  <2>a. AttemptTypes' /\ SessionsExist'
    BY <1>1, <2>3, <2>4 DEF AttemptInv, AttemptTypes, SessionsExist, SameTurn
  <2>b. CallsCounted'
    <3>1. /\ te.first <= te.attempt /\ te.attempt <= AttemptLimit + 1 /\ item.retry <= AttemptLimit
          /\ item.retry = te.attempt - 1 - te.missed
          /\ Len(tries) <= te.attempt - te.first + te.resumes + 1
      BY <2>1 DEF AttemptInv, CallsCounted
    <3>2. te'.resumes <= ResumeLimit /\ Len(tries) <= te.attempt - te.first + te'.resumes
      BY <1>0, <2>1, <2>3, <3>1, SMTT(40)
    <3> QED
      BY <1>1, <2>3, <2>4, <3>1, <3>2 DEF CallsCounted, SameTurn
  <2>c. CallsFollowLease' /\ RowFollowsLease'
    BY <1>1, <2>1, <2>3, <2>4 DEF AttemptInv, CallsFollowLease, RowFollowsLease, UnderWay, Awaited,
       Unhindered, LastWent, SameTurn
  <2>d. AnswerIsStored' /\ CorruptIsLeft'
    BY <1>1, <2>1, <2>3, <2>4 DEF AttemptInv, AnswerIsStored, CorruptIsLeft, FoundCorrupt, SameTurn
  <2> QED
    BY <1>1, <2>3, <2>a, <2>b, <2>c, <2>d DEF AttemptInv, ResumesStayInSession, FailuresAreTold
<1>4. CASE BackoffEnds
  <2>1. te.pc = "backoff" /\ te' = [te EXCEPT !.pc = "check", !.attempt = te.attempt + 1]
    BY <1>4 DEF BackoffEnds
  <2>2. /\ te' \in TurnRecords /\ te'.pc = "check" /\ te'.prompt = te.prompt
        /\ te'.resumes = te.resumes /\ te'.attempt = te.attempt + 1
        /\ te'.current = te.current /\ te'.active = te.active /\ te'.write = te.write
    BY <1>0, <2>1 DEF TurnRecords
  <2>3. SameTurn(te') /\ te'.interrupted = te.interrupted /\ te'.excused = te.excused
        /\ te'.operator = te.operator
    BY <1>0, <2>1 DEF TurnRecords, SameTurn
  <2>a. AttemptTypes' /\ SessionsExist'
    BY <1>1, <2>2, <2>3 DEF AttemptInv, AttemptTypes, SessionsExist, SameTurn
  <2>b. CallsCounted'
    <3>1. /\ te.first <= te.attempt /\ te.attempt < AttemptLimit /\ item.retry <= AttemptLimit
          /\ te.resumes <= ResumeLimit
          /\ item.retry = te.attempt - te.missed /\ Len(tries) <= te.attempt - te.first + te.resumes + 1
      BY <2>1 DEF AttemptInv, CallsCounted
    <3>2. /\ te.first <= te.attempt + 1 /\ te.attempt + 1 <= AttemptLimit + 1
          /\ item.retry = (te.attempt + 1) - 1 - te.missed
      <4>1. te.first \in Nat /\ te.attempt \in Nat /\ te.missed \in Nat /\ AttemptLimit \in Nat
        BY <1>0
      <4> QED
        BY <4>1, <3>1
    <3>3. Len(tries) <= (te.attempt + 1) - te.first + te.resumes
      BY <1>0, <3>1
    <3> QED
      BY <1>1, <2>2, <2>3, <3>1, <3>2, <3>3 DEF CallsCounted, SameTurn
  <2>c. CallsFollowLease' /\ RowFollowsLease'
    BY <1>1, <2>1, <2>2, <2>3 DEF AttemptInv, CallsFollowLease, RowFollowsLease, UnderWay, Awaited,
       Unhindered, TurnPrompts, SameTurn
  <2>d. AnswerIsStored' /\ CorruptIsLeft'
    BY <1>1, <2>1, <2>2, <2>3 DEF AttemptInv, AnswerIsStored, CorruptIsLeft, FoundCorrupt, SameTurn
  <2> QED
    BY <1>1, <2>2, <2>a, <2>b, <2>c, <2>d DEF AttemptInv, ResumesStayInSession, FailuresAreTold
<1> QED
  BY <1>3, <1>4

LEMMA ExecutionStarts == AttemptInv /\ te.write = <<>> /\ StartExecution => AttemptInv'
<1> SUFFICES ASSUME AttemptInv, te.write = <<>>, StartExecution PROVE AttemptInv'
  OBVIOUS
<1>0. /\ te \in TurnRecords /\ row \in SessionRows /\ daemon \in AgentProcs /\ item \in TurnItems
      /\ te.current \in Nat /\ te.lease \in Nat /\ te.attempt \in Nat /\ te.first \in Nat
      /\ te.resumes \in Nat /\ te.prompt \in TurnPrompts /\ AttemptLimit \in Nat
      /\ tries \in Seq([sess : Nat \ {0}, prompt : TurnPrompts]) /\ Len(tries) \in Nat
      /\ te.lease <= born
  BY AttemptAssumption DEF AttemptInv, AttemptTypes, TurnRecords, SessionsExist
<1> DEFINE p == PrepareAttemptPrompt(te)
           s == te.lease
           shift == s # 0 /\ s # te.current /\ ~te.eph
           c == IF shift THEN s ELSE te.current
           t == [te EXCEPT !.pc = "run", !.prompt = p, !.current = IF shift THEN s ELSE @]
<1>1. p \in TurnPrompts /\ (p = "resume" => te.prompt = "resume")
  BY <1>0 DEF PrepareAttemptPrompt, TurnPrompts
<1>2. c \in Nat /\ c \in {te.current, te.lease}
  BY <1>0
<1>3. /\ te' = (IF shift THEN SaveSessionID(t, s) ELSE t)
      /\ tries' = (IF s = 0 THEN tries ELSE Append(tries, [sess |-> s, prompt |-> p]))
      /\ daemon' = (IF te.eph \/ s = 0 THEN daemon ELSE Proc(s))
      /\ te.pc = "check" /\ te.attempt <= AttemptLimit /\ UNCHANGED <<row, born, corrupt, item>>
  BY DEF StartExecution
<1>w. PICK w \in TurnWrites :
        /\ te' = [te EXCEPT !.pc = "run", !.prompt = p, !.current = c, !.write = w]
        /\ (w # <<>> => Head(w).sess = s) /\ (~shift => w = te.write)
  <2>1. t = [te EXCEPT !.pc = "run", !.prompt = p, !.current = c, !.write = te.write]
    BY <1>0 DEF TurnRecords
  <2>2. te' = t \/ (shift /\ te' = [t EXCEPT !.write = Save(s)])
    BY <1>3 DEF SaveSessionID
  <2>3. [t EXCEPT !.write = Save(s)] =
          [te EXCEPT !.pc = "run", !.prompt = p, !.current = c, !.write = Save(s)]
    BY <2>1, <1>0 DEF TurnRecords
  <2>4. /\ te.write \in TurnWrites /\ te.write = <<>> /\ Save(s) \in TurnWrites
        /\ Head(Save(s)).sess = s
    BY <1>0, WriteKinds DEF TurnRecords
  <2> HIDE DEF t, p, c
  <2> QED
    BY <2>1, <2>2, <2>3, <2>4
<1> HIDE DEF p, c, t
<1>4. /\ te' \in TurnRecords /\ te'.pc = "run" /\ te'.prompt = p /\ te'.current = c /\ te'.write = w
      /\ te'.active = te.active /\ te'.attempt = te.attempt /\ te'.resumes = te.resumes
  BY <1>0, <1>1, <1>2, <1>w DEF TurnRecords
<1>5. SameTurn(te') /\ te'.interrupted = te.interrupted /\ te'.excused = te.excused
      /\ te'.operator = te.operator
  BY <1>0, <1>w DEF TurnRecords, SameTurn
<1>6. daemon' \in AgentProcs /\ daemon'.sess \in {daemon.sess, te.lease}
  BY <1>0, <1>3 DEF AgentProcs, Proc
<1>7. /\ tries' \in Seq([sess : Nat \ {0}, prompt : TurnPrompts]) /\ Len(tries') \in Nat
      /\ Len(tries') <= Len(tries) + 1
      /\ te.lease # 0 => LastWent(te.lease)'
      /\ te.lease = 0 => tries' = tries
  <2>1. CASE s = 0
    BY <1>0, <1>3, <2>1
  <2>2. CASE s # 0
    BY <1>0, <1>1, <2>2, <1>3, <1>5 DEF LastWent, SameTurn
  <2> QED
    BY <2>1, <2>2
<1>a. AttemptTypes'
  BY <1>0, <1>3, <1>4, <1>6, <1>7 DEF AttemptInv, AttemptTypes
<1>b. SessionsExist'
  BY <1>0, <1>w, <1>2, <1>3, <1>4, <1>5, <1>6 DEF AttemptInv, SessionsExist, SameTurn
<1>c. CallsCounted'
  <2>1. /\ te.first <= te.attempt /\ te.resumes <= ResumeLimit /\ item.retry <= AttemptLimit
        /\ item.retry = te.attempt - 1 - te.missed /\ te.attempt <= AttemptLimit + 1
        /\ Len(tries) <= te.attempt - te.first + te.resumes
    BY <1>3 DEF AttemptInv, CallsCounted
  <2>2. Len(tries') <= te.attempt - te.first + te.resumes + 1
    BY <1>0, <1>7, <2>1
  <2> QED
    BY <1>3, <1>4, <1>5, <2>1, <2>2 DEF CallsCounted, SameTurn
<1>d. CallsFollowLease'
  BY <1>3, <1>7, <1>1, <1>4, <1>5 DEF AttemptInv, CallsFollowLease, LastWent, SameTurn
<1>e. RowFollowsLease'
  <2>1. Unhindered' => Unhindered
    BY <1>5 DEF Unhindered, SameTurn
  <2>2. Unhindered => Awaited.cur = te.lease /\ te.current = te.lease
    BY <1>3 DEF AttemptInv, RowFollowsLease, UnderWay
  <2>3. Unhindered => c = te.lease /\ Awaited' = Awaited
    BY <1>w, <1>3, <1>4, <2>2 DEF c, Awaited
  <2>4. te.eph => w = <<>>
    BY <1>w
  <2> QED
    BY <1>3, <1>4, <1>5, <2>4, <2>1, <2>2, <2>3 DEF AttemptInv, RowFollowsLease, UnderWay, SameTurn
<1>f. ResumesStayInSession'
  <2> SUFFICES ASSUME NEW i \in DOMAIN tries', tries'[i].prompt = "resume"
               PROVE  i > 1 /\ tries'[i - 1].sess = tries'[i].sess
    BY DEF ResumesStayInSession
  <2>0. \A k \in DOMAIN tries : tries[k].prompt = "resume" => k > 1 /\ tries[k - 1].sess = tries[k].sess
    BY DEF AttemptInv, ResumesStayInSession
  <2>1. CASE te.lease = 0
    BY <1>7, <2>0, <2>1
  <2>2. CASE te.lease # 0
    <3>1. tries' = Append(tries, [sess |-> te.lease, prompt |-> p])
      BY <1>3, <2>2
    <3>2. i \in 1..(Len(tries) + 1) /\ \A k \in 1..Len(tries) : tries'[k] = tries[k]
      BY <1>0, <3>1
    <3>3. CASE i \in 1..Len(tries)
      <4>1. i > 1 /\ tries[i - 1].sess = tries[i].sess
        BY <1>0, <2>0, <3>2, <3>3
      <4>2. i - 1 \in 1..Len(tries)
        BY <1>0, <3>3, <4>1
      <4> QED
        BY <3>2, <3>3, <4>1, <4>2
    <3>4. CASE i = Len(tries) + 1
      BY <1>0, <3>1, <3>4, <1>1, <1>3, <3>2 DEF AttemptInv, CallsFollowLease, LastWent
    <3> QED
      BY <1>0, <3>2, <3>3, <3>4
  <2> QED
    BY <2>1, <2>2
<1>g. AnswerIsStored' /\ FailuresAreTold'
  BY <1>4 DEF AnswerIsStored, FailuresAreTold
<1>h. CorruptIsLeft'
  BY <1>3, <1>4, <1>5 DEF AttemptInv, CorruptIsLeft, FoundCorrupt, SameTurn
<1> QED
  BY <1>a, <1>b, <1>c, <1>d, <1>e, <1>f, <1>g, <1>h DEF AttemptInv

\* An execution that returns to a turn that goes on, or to one that was interrupted.
LEMMA ReturnKeeps ==
    ASSUME AttemptInv, te.write = <<>>, NEW res \in Successes \cup Failures, ExecutionReturns(res)
    PROVE  AttemptInv'
<1>0. /\ te \in TurnRecords /\ row \in SessionRows /\ daemon \in AgentProcs /\ item \in TurnItems
      /\ te.current \in Nat /\ te.lease \in Nat /\ te.prompt \in TurnPrompts /\ born \in Nat
      /\ te.active \in Nat /\ te.lease <= born /\ corrupt \subseteq 1..born
  BY DEF AttemptInv, AttemptTypes, TurnRecords, SessionsExist
<1>1. te.pc = "run" /\ UNCHANGED <<row, born, tries, told>>
  BY DEF ExecutionReturns
<1>2. daemon' \in AgentProcs /\ daemon'.sess = daemon.sess
  <2>1. daemon' \in {daemon} \cup Dirtied(res)
    BY DEF ExecutionReturns
  <2>2. \A d \in Dirtied(res) : d \in AgentProcs /\ d.sess = daemon.sess
    BY <1>0 DEF Dirtied, AgentProcs
  <2> QED
    BY <1>0, <2>1, <2>2
<1>3. res.ok => te.lease # 0
  BY ResultKinds DEF ExecutionReturns
<1>k. res.flag = "corrupt" => /\ ~res.ok /\ te.lease # 0
                              /\ daemon' \in IF te.eph THEN {daemon} ELSE Dirtied(res)
                              /\ res.detail \in {"plain", "deadline"}
  BY DEF ExecutionReturns, Successes, Failures
<1>d. res.flag = "corrupt" => te.eph \/ daemon'.dirty
  <2> SUFFICES ASSUME res.flag = "corrupt", ~te.eph PROVE daemon'.dirty
    OBVIOUS
  <2>1. daemon' \in Dirtied(res) /\ res.detail \in {"plain", "deadline"} /\ ~res.ok
    BY <1>k
  <2>2. \A d \in Dirtied(res) : d.dirty
    BY <1>0, <2>1 DEF Dirtied, AgentProcs
  <2> QED
    BY <2>1, <2>2
<1>4. /\ corrupt' = corrupt \/ (corrupt' = corrupt \cup {te.lease} /\ te.lease # 0)
      /\ res.flag # "corrupt" => corrupt' = corrupt
  BY <1>k DEF ExecutionReturns
<1>5. CASE te.interrupted
  <2>1. Finish(te, "FAILED", "interrupted")
    BY <1>5 DEF ExecutionReturns
  <2>2. EndedAs(te', "interrupted")
    BY <2>1, EndedFacts, WriteKinds DEF Finish, TurnOuts
  <2> QED
    BY <2>1, <2>2, <1>1, <1>0, FinishFacts, <1>2, <1>4, TurnEnds DEF Finish, TurnOuts, UnderWay
<1>6. CASE ~te.interrupted
  <2> DEFINE allow == res.ok \/ (res.flag # "corrupt" /\ te.current = 0)
             q == IF te.lease = 0 THEN te ELSE Persisted(te, te.lease, allow)
             prompt == IF res.ok THEN te.prompt ELSE "full"
             last == IF res.ok THEN "none" ELSE res.detail
  <2>1. /\ item' = item
        /\ te' = [q EXCEPT !.pc = "judge", !.result = << res >>,
                           !.prompt = IF res.ok THEN @ ELSE "full", !.last = last]
    BY <1>6 DEF ExecutionReturns
  <2>2. prompt \in TurnPrompts /\ (prompt = "resume" => te.prompt = "resume") /\ (~res.ok => prompt = "full")
    BY <1>0 DEF TurnPrompts
  <2>3. last \in {"none", "plain", "deadline", "watchdog", "quota", "blip"} /\ << res >> \in TurnResults
    BY DEF Successes, Failures, TurnResults
  <2>4. PICK c \in {te.current, te.lease}, a \in {te.active, te.lease}, w \in TurnWrites :
          /\ q = [te EXCEPT !.active = a, !.current = c, !.write = w]
          /\ (w # <<>> => Head(w).sess = te.lease)
          /\ (te.current = te.lease => c = te.current /\ w = te.write)
          /\ (te.eph => w = te.write)
    <3>0. te.write \in TurnWrites /\ Save(te.lease) \in TurnWrites /\ Head(Save(te.lease)).sess = te.lease
      BY <1>0, WriteKinds DEF TurnRecords
    <3>1. CASE te.lease = 0
      <4>1. te = [te EXCEPT !.active = te.active, !.current = te.current, !.write = te.write]
        BY <1>0 DEF TurnRecords
      <4> QED
        BY <3>0, <3>1, <4>1
    <3>2. CASE te.lease # 0 /\ ~(allow /\ ~te.eph /\ te.lease \notin {te.previous, te.current})
      <4>1. q = [te EXCEPT !.active = te.lease, !.lease = te.lease]
        BY <3>2 DEF Persisted
      <4>2. q = [te EXCEPT !.active = te.lease, !.current = te.current, !.write = te.write]
        BY <1>0, <4>1 DEF TurnRecords
      <4> HIDE DEF q
      <4> QED
        BY <3>0, <4>2
    <3>3. CASE te.lease # 0 /\ allow /\ ~te.eph /\ te.lease \notin {te.previous, te.current}
      <4> DEFINE u == [te EXCEPT !.active = te.lease, !.lease = te.lease, !.current = te.lease]
      <4>1. q = SaveSessionID(u, te.lease)
        BY <3>3 DEF Persisted
      <4>2. u = [te EXCEPT !.active = te.lease, !.current = te.lease, !.write = te.write]
        BY <1>0 DEF TurnRecords
      <4>3. [u EXCEPT !.write = Save(te.lease)] =
              [te EXCEPT !.active = te.lease, !.current = te.lease, !.write = Save(te.lease)]
        BY <1>0 DEF TurnRecords
      <4>4. q \in {u, [u EXCEPT !.write = Save(te.lease)]} /\ te.lease # te.current
        BY <3>3, <4>1 DEF SaveSessionID
      <4> HIDE DEF q, u
      <4>5. CASE q = u
        BY <3>0, <3>3, <4>2, <4>4, <4>5
      <4>6. CASE q = [u EXCEPT !.write = Save(te.lease)]
        BY <3>0, <3>3, <4>3, <4>4, <4>6
      <4> QED
        BY <4>4, <4>5, <4>6
    <3> QED
      BY <3>1, <3>2, <3>3
  <2> HIDE DEF last, allow
  <2>p. q.prompt = te.prompt
    BY <1>0, <2>4 DEF TurnRecords
  <2> HIDE DEF q
  <2>q. te' = [q EXCEPT !.pc = "judge", !.result = << res >>, !.prompt = prompt, !.last = last]
    BY <2>1, <2>p
  <2> HIDE DEF prompt
  <2>5. te' = [te EXCEPT !.active = a, !.current = c, !.write = w, !.pc = "judge", !.result = << res >>,
                         !.prompt = prompt, !.last = last]
    BY <1>0, <2>4, <2>q DEF TurnRecords
  <2>6. a \in Nat /\ c \in Nat
    BY <1>0
  <2>7. te' \in TurnRecords
    BY <1>0, <2>2, <2>3, <2>4, <2>5, <2>6 DEF TurnRecords
  <2>8. /\ te'.pc = "judge" /\ te'.prompt = prompt /\ te'.result = << res >> /\ te'.current = c
        /\ te'.active = a /\ te'.write = w /\ te'.attempt = te.attempt /\ te'.resumes = te.resumes
    BY <1>0, <2>5 DEF TurnRecords
  <2>9. SameTurn(te') /\ te'.interrupted = te.interrupted /\ te'.excused = te.excused
        /\ te'.operator = te.operator
    BY <1>0, <2>5 DEF TurnRecords, SameTurn
  <2>a. AttemptTypes'
    BY <1>0, <1>1, <1>2, <2>1, <2>7 DEF AttemptInv, AttemptTypes
  <2>b. SessionsExist'
    <3>1. corrupt' \subseteq 1..born
      <4>1. te.lease # 0 => te.lease \in 1..born
        BY <1>0
      <4> QED
        BY <1>0, <1>4, <4>1
    <3> QED
      BY <3>1, <1>0, <1>1, <1>2, <2>1, <2>4, <2>8, <2>9 DEF AttemptInv, SessionsExist, SameTurn
  <2>c. CallsCounted'
    BY <1>1, <2>1, <2>8, <2>9 DEF AttemptInv, CallsCounted, SameTurn
  <2>d. CallsFollowLease'
    BY <1>1, <1>3, <2>2, <2>8, <2>9 DEF AttemptInv, CallsFollowLease, LastWent, SameTurn
  <2>e. RowFollowsLease'
    <3>1. Unhindered' => Unhindered
      BY <2>9 DEF Unhindered, SameTurn
    <3>2. Unhindered => Awaited.cur = te.lease /\ te.current = te.lease
      BY <1>1 DEF AttemptInv, RowFollowsLease, UnderWay
    <3>3. Unhindered => c = te.lease /\ Awaited' = Awaited
      BY <1>1, <2>4, <2>8, <3>2 DEF Awaited
    <3> QED
      BY <1>1, <2>1, <2>4, <2>8, <2>9, <3>1, <3>2, <3>3 DEF AttemptInv, RowFollowsLease, UnderWay, SameTurn
  <2>f. AnswerIsStored' /\ FailuresAreTold' /\ ResumesStayInSession'
    BY <1>1, <2>8 DEF AttemptInv, AnswerIsStored, FailuresAreTold, ResumesStayInSession
  <2>g. CorruptIsLeft'
    <3>1. FoundCorrupt' => res.flag = "corrupt"
      BY <2>8 DEF FoundCorrupt
    <3>2. res.flag = "corrupt" => FoundCorrupt'
      BY <1>k, <2>8 DEF FoundCorrupt, Failures, Successes
    <3>3. te.reset /\ ~te.excused /\ ~te.interrupted => te.lease \notin corrupt
      BY <1>1 DEF AttemptInv, CorruptIsLeft, FoundCorrupt
    <3> QED
      BY <1>d, <1>4, <2>8, <2>9, <3>1, <3>2, <3>3 DEF CorruptIsLeft, SameTurn
  <2> QED
    BY <2>a, <2>b, <2>c, <2>d, <2>e, <2>f, <2>g DEF AttemptInv
<1> QED
  BY <1>5, <1>6

\* The count of a dispatch, after which its session may be rotated.
LEMMA CountKeeps == AttemptInv /\ te.write = <<>> /\ CountTurn => AttemptInv'
<1> SUFFICES ASSUME AttemptInv, te.write = <<>>, CountTurn PROVE AttemptInv'
  OBVIOUS
<1>0. /\ te \in TurnRecords /\ row \in SessionRows /\ row.turns \in Nat /\ row.turns + 1 \in Nat
      /\ <<"counted">> \in TurnResults /\ born \in Nat /\ 0 <= born /\ Rotation \in TurnWrites
      /\ te.write \in TurnWrites
  BY RowStays, WriteKinds DEF SessionRows, TurnResults, TurnOuts, TurnRecords
<1>1. /\ te.pc = "done" /\ te.result = <<"answered">> /\ te.kind = "dispatch"
      /\ UNCHANGED <<daemon, born, corrupt, item, tries, told>>
  BY DEF CountTurn
<1> DEFINE t == [te EXCEPT !.result = <<"counted">>]
<1>2. te' \in {t, RotateSessionID(t)} /\ row' \in {row, [row EXCEPT !.turns = @ + 1]}
  BY DEF CountTurn
<1>3. /\ row' \in SessionRows /\ row'.cur = row.cur /\ row'.prev = row.prev
  BY <1>0, <1>2 DEF SessionRows
<1>4. PICK w \in {te.write, Rotation} :
        te' = [te EXCEPT !.result = <<"counted">>, !.write = w] /\ (te.eph => w = <<>>)
  <2>e. ~te.eph
    BY DEF CountTurn
  <2>1. t = [te EXCEPT !.result = <<"counted">>, !.write = te.write]
    BY <1>0 DEF TurnRecords
  <2>2. [t EXCEPT !.write = Rotation] = [te EXCEPT !.result = <<"counted">>, !.write = Rotation]
    BY <1>0 DEF TurnRecords
  <2>3. te' \in {t, [t EXCEPT !.write = Rotation]}
    BY <1>2 DEF RotateSessionID
  <2> QED
    BY <2>e, <2>1, <2>2, <2>3
<1> HIDE DEF t
<1>5. /\ te' \in TurnRecords /\ te'.result = <<"counted">> /\ te'.write = w /\ te'.pc = "done"
      /\ te'.current = te.current /\ te'.active = te.active /\ te'.attempt = te.attempt
      /\ te'.resumes = te.resumes /\ te'.prompt = te.prompt
  BY <1>0, <1>1, <1>4 DEF TurnRecords
<1>6. SameTurn(te') /\ te'.interrupted = te.interrupted /\ te'.excused = te.excused
      /\ te'.operator = te.operator
  BY <1>0, <1>4 DEF TurnRecords, SameTurn
<1>a. AttemptTypes'
  BY <1>1, <1>3, <1>5 DEF AttemptInv, AttemptTypes
<1>b. SessionsExist'
  <2>1. w # <<>> => Head(w).sess <= born
    BY <1>0, WriteKinds
  <2> QED
    BY <1>1, <1>3, <1>5, <1>6, <2>1 DEF AttemptInv, SessionsExist, SameTurn
<1>c. CallsCounted'
  BY <1>1, <1>5, <1>6 DEF AttemptInv, CallsCounted, ExecutionsAreBounded, SameTurn
<1>d. CallsFollowLease' /\ RowFollowsLease' /\ CorruptIsLeft' /\ ResumesStayInSession'
  BY <1>1, <1>4, <1>5, <1>6 DEF AttemptInv, CallsFollowLease, RowFollowsLease, UnderWay, CorruptIsLeft,
     FoundCorrupt, ResumesStayInSession
<1>e. AnswerIsStored'
  <2> SUFFICES ASSUME Unhindered'
               PROVE  \/ LastWent(Awaited.cur)'
                      \/ te'.kind = "dispatch" /\ Awaited'.turns = 0 /\ LastWent(Awaited.prev)'
    <3>1. te'.result # <<"answered">>
      BY <1>5
    <3> QED
      BY <3>1 DEF AnswerIsStored
  <2>1. row.cur # 0 /\ LastWent(row.cur)
    <3>1. Unhindered
      BY <1>6 DEF Unhindered, SameTurn
    <3> QED
      BY <3>1, <1>1 DEF AttemptInv, AnswerIsStored
  <2>2. CASE w = <<>>
    <3>1. Awaited'.cur = row.cur
      BY <1>3, <1>5, <2>2 DEF Awaited
    <3> QED
      BY <1>1, <2>1, <3>1 DEF LastWent
  <2>3. CASE w = Rotation
    <3>1. /\ Rotation # <<>> /\ Head(Rotation).op = "rotate"
          /\ Head(Rotation) \in [op : {"save", "rotate"}, sess : Nat]
      BY WriteKinds DEF Rotation
    <3>2. Awaited' = Written(row', Head(Rotation))
      BY <1>5, <2>3, <3>1 DEF Awaited
    <3>3. Awaited'.turns = 0 /\ Awaited'.prev = row.cur
      BY <1>3, <2>1, <3>1, <3>2, RowWrites
    <3> QED
      BY <1>1, <1>6, <2>1, <3>3 DEF LastWent, SameTurn
  <2> QED
    BY <2>2, <2>3
<1>f. FailuresAreTold'
  BY <1>1, <1>6 DEF FailuresAreTold, SameTurn
<1> QED
  BY <1>a, <1>b, <1>c, <1>d, <1>e, <1>f DEF AttemptInv

--------------------
LEMMA NoTurnFacts ==
    /\ NoTurn \in TurnRecords /\ NoTurn.pc = "idle" /\ NoTurn.attempt = 0 /\ NoTurn.first = 0
    /\ NoTurn.resumes = 0 /\ NoTurn.current = 0 /\ NoTurn.previous = 0 /\ NoTurn.active = 0
    /\ NoTurn.lease = 0 /\ NoTurn.prompt = "full" /\ ~NoTurn.interrupted /\ ~NoTurn.reset
    /\ ~NoTurn.leased /\ NoTurn.write = <<>> /\ ~NoTurn.operator /\ ~NoTurn.excused
    /\ NoTurn.missed = 0
  BY WriteKinds DEF NoTurn, TurnRecords, TurnPrompts, TurnResults

\* No turn is under way and nothing was called yet.
LEMMA IdleIsSound ==
    ASSUME AttemptInv, te' = NoTurn, tries' = <<>>, row' = row, born' = born, corrupt' = corrupt,
           daemon' \in AgentProcs, daemon'.sess <= born, item' \in TurnItems,
           item'.retry <= AttemptLimit
    PROVE  AttemptInv'
<1>0. AttemptLimit \in Nat /\ ResumeLimit \in Nat /\ born \in Nat
  BY AttemptAssumption DEF AttemptInv, AttemptTypes
<1>1. AttemptTypes'
  BY NoTurnFacts DEF AttemptInv, AttemptTypes
<1>2. SessionsExist'
  BY <1>0, NoTurnFacts DEF AttemptInv, SessionsExist
<1>3. CallsCounted'
  BY <1>0, NoTurnFacts DEF CallsCounted
<1>4. CallsFollowLease' /\ RowFollowsLease' /\ ResumesStayInSession' /\ FailuresAreTold'
  BY NoTurnFacts DEF CallsFollowLease, RowFollowsLease, UnderWay, ResumesStayInSession,
     FailuresAreTold
<1>5. AnswerIsStored' /\ CorruptIsLeft'
  BY NoTurnFacts DEF AnswerIsStored, CorruptIsLeft, FoundCorrupt
<1> QED
  BY <1>1, <1>2, <1>3, <1>4, <1>5 DEF AttemptInv

LEMMA BetweenKeeps == AttemptInv /\ (Restart \/ NextItem) => AttemptInv'
<1> SUFFICES ASSUME AttemptInv, Restart \/ NextItem PROVE AttemptInv'
  OBVIOUS
<1>0. /\ item \in TurnItems /\ item.restart \in Nat /\ item.restart + 1 \in Nat
      /\ item.retry <= AttemptLimit /\ AttemptLimit \in Nat /\ born \in Nat /\ daemon \in AgentProcs
      /\ daemon.sess <= born
  BY AttemptAssumption DEF AttemptInv, AttemptTypes, CallsCounted, TurnItems, SessionsExist
<1>1. /\ te' = NoTurn /\ tries' = <<>> /\ row' = row /\ born' = born /\ corrupt' = corrupt
  BY DEF Restart, NextItem
<1>2. daemon' \in AgentProcs /\ daemon'.sess <= born
  <2>1. daemon' = daemon \/ daemon' = NoProcess
    BY DEF Restart, NextItem
  <2>2. CASE daemon' = daemon
    BY <1>0, <2>2
  <2>3. CASE daemon' = NoProcess
    BY <2>3, <1>0 DEF AgentProcs, NoProcess
  <2> QED
    BY <2>1, <2>2, <2>3
<1>3. item' \in TurnItems /\ item'.retry <= AttemptLimit
  <2>1. CASE Restart
    BY <2>1, <1>0 DEF Restart, TurnItems
  <2>2. CASE NextItem
    <3>1. PICK b \in BOOLEAN : item' = [NewItem EXCEPT !.quotaRetry = b]
      BY <2>2 DEF NextItem
    <3> QED
      BY <1>0, <3>1 DEF NewItem, TurnItems
  <2> QED
    BY <2>1, <2>2
<1> QED
  BY <1>1, <1>2, <1>3, IdleIsSound

LEMMA StartKeeps ==
    ASSUME AttemptInv, NEW what \in {"message", "dispatch"}, NEW eph \in BOOLEAN,
           StartTurn(what, eph)
    PROVE  AttemptInv'
<1>0. /\ row \in SessionRows /\ row.cur \in Nat /\ row.prev \in Nat /\ row.cur <= born
      /\ row.prev <= born /\ born \in Nat /\ item \in TurnItems /\ item.retry \in Nat
      /\ item.retry <= AttemptLimit /\ AttemptLimit \in Nat /\ ResumeLimit \in Nat
      /\ corrupt \subseteq 1..born
  BY AttemptAssumption DEF AttemptInv, AttemptTypes, SessionsExist, SessionRows, CallsCounted, TurnItems
<1>r. PICK r \in {row, NoRecord} :
        LET s == Lease(eph, r)
            t == [NoTurn EXCEPT !.pc = "check", !.kind = what, !.eph = eph, !.current = s,
                                !.previous = IF eph THEN 0 ELSE r.prev, !.lease = s, !.leased = TRUE,
                                !.attempt = item.retry + 1, !.first = item.retry + 1]
        IN /\ te' = IF r.cur = 0 \/ r.turns <= 1 THEN SaveSessionID(t, s) ELSE t
           /\ Leased(eph, s)
  BY DEF StartTurn
<1>q. /\ r \in SessionRows /\ r.cur <= born /\ r.prev <= born /\ r.prev \in Nat
      /\ r.cur # 0 => row.cur = r.cur
  BY <1>0, NoRecordFacts
<1> DEFINE s == Lease(eph, r)
           prev == IF eph THEN 0 ELSE r.prev
           t == [NoTurn EXCEPT !.pc = "check", !.kind = what, !.eph = eph, !.current = s,
                               !.previous = prev, !.lease = s, !.leased = TRUE,
                               !.attempt = item.retry + 1, !.first = item.retry + 1]
<1>1. s \in Nat /\ (~eph /\ r.cur # 0 => s = r.cur)
  BY <1>q, LeaseFacts
<1>2. prev \in Nat /\ prev <= born /\ item.retry + 1 \in Nat
  BY <1>0, <1>q
<1>3. /\ te' = (IF r.cur = 0 \/ r.turns <= 1 THEN SaveSessionID(t, s) ELSE t)
      /\ Leased(eph, s)
  BY <1>r
<1>4. /\ item' = [item EXCEPT !.status = "PROCESSING"] /\ tries' = <<>> /\ UNCHANGED <<row, corrupt>>
  BY DEF StartTurn
<1> HIDE DEF s, prev
<1>5. /\ t \in TurnRecords /\ t.write = <<>> /\ t.eph = eph /\ ~t.interrupted
  BY <1>1, <1>2, NoTurnFacts DEF TurnRecords
<1>w. PICK w \in {<<>>, Save(s)} :
        /\ te' = [NoTurn EXCEPT !.pc = "check", !.kind = what, !.eph = eph, !.current = s,
                                !.previous = prev, !.lease = s, !.leased = TRUE,
                                !.attempt = item.retry + 1, !.first = item.retry + 1, !.write = w]
        /\ (w = <<>> /\ ~eph => r.cur # 0) /\ (eph => w = <<>>)
  <2>1. t = [NoTurn EXCEPT !.pc = "check", !.kind = what, !.eph = eph, !.current = s,
                           !.previous = prev, !.lease = s, !.leased = TRUE,
                           !.attempt = item.retry + 1, !.first = item.retry + 1, !.write = <<>>]
    BY NoTurnFacts DEF TurnRecords
  <2>2. [t EXCEPT !.write = Save(s)] =
          [NoTurn EXCEPT !.pc = "check", !.kind = what, !.eph = eph, !.current = s,
                         !.previous = prev, !.lease = s, !.leased = TRUE,
                         !.attempt = item.retry + 1, !.first = item.retry + 1, !.write = Save(s)]
    BY NoTurnFacts DEF TurnRecords
  <2> HIDE DEF t
  <2>3. \/ te' = [t EXCEPT !.write = Save(s)] /\ ~eph
        \/ te' = t /\ (eph \/ r.cur # 0)
    BY <1>3, <1>5 DEF SaveSessionID, MayWrite
  <2>4. CASE te' = [t EXCEPT !.write = Save(s)] /\ ~eph
    <3>1. Save(s) # <<>>
      BY DEF Save
    <3> QED
      BY <2>2, <2>4, <3>1
  <2> QED
    BY <2>1, <2>3, <2>4
<1> HIDE DEF t
<1>6. w \in TurnWrites /\ (w # <<>> => Head(w).sess = s /\ Head(w).op = "save")
  BY <1>1, WriteKinds
<1>7. te' \in TurnRecords
  BY <1>1, <1>2, <1>6, <1>w, NoTurnFacts DEF TurnRecords
<1>8. /\ te'.pc = "check" /\ te'.eph = eph /\ te'.current = s /\ te'.previous = prev
      /\ te'.lease = s /\ te'.leased /\ te'.attempt = item.retry + 1 /\ te'.first = item.retry + 1
      /\ te'.resumes = 0 /\ te'.active = 0 /\ te'.prompt = "full" /\ te'.write = w
      /\ te'.missed = 0
  BY <1>w, NoTurnFacts DEF TurnRecords
<1>9. ~te'.interrupted /\ ~te'.reset /\ ~te'.operator
  BY <1>w, NoTurnFacts DEF TurnRecords
<1>10. /\ born' \in Nat /\ born <= born' /\ s <= born' /\ daemon' \in AgentProcs
       /\ daemon'.sess <= born'
  BY <1>1, <1>3, LeasedFacts
<1>11. item' \in TurnItems /\ item'.retry = item.retry /\ item'.status = "PROCESSING"
  BY <1>0, <1>4 DEF TurnItems
<1>a. AttemptTypes'
  BY <1>0, <1>4, <1>7, <1>10, <1>11 DEF AttemptTypes
<1>b. SessionsExist'
  <2>1. row'.cur <= born' /\ row'.prev <= born' /\ prev <= born' /\ 0 <= born'
    BY <1>0, <1>2, <1>4, <1>10
  <2>2. corrupt' \subseteq 1..born'
    BY <1>0, <1>4, <1>10
  <2> QED
    BY <1>6, <1>8, <1>10, <2>1, <2>2 DEF SessionsExist
<1>c. CallsCounted'
  BY <1>0, <1>4, <1>8, <1>11 DEF CallsCounted
<1>d. CallsFollowLease' /\ ResumesStayInSession' /\ FailuresAreTold'
  BY <1>4, <1>8 DEF CallsFollowLease, ResumesStayInSession, FailuresAreTold
<1>e. RowFollowsLease'
  <2>1. ~eph => Awaited'.cur = s
    <3>1. CASE w = <<>>
      BY <1>1, <1>4, <1>8, <1>q, <1>w, <3>1 DEF Awaited
    <3>2. CASE w # <<>>
      <4>1. Awaited' = Written(row, Head(w))
        BY <1>4, <1>8, <3>2 DEF Awaited
      <4>2. Head(w) \in [op : {"save", "rotate"}, sess : Nat]
        BY <1>1, <3>2 DEF Save
      <4> QED
        BY <1>0, <1>6, <3>2, <4>1, <4>2, RowWrites
    <3> QED
      BY <3>1, <3>2
  <2> QED
    BY <1>w, <1>8, <1>9, <1>11, <2>1 DEF RowFollowsLease, UnderWay, Unhindered
<1>f. AnswerIsStored' /\ CorruptIsLeft'
  BY <1>8, <1>9 DEF AnswerIsStored, CorruptIsLeft, FoundCorrupt
<1> QED
  BY <1>a, <1>b, <1>c, <1>d, <1>e, <1>f DEF AttemptInv

LEMMA NoLeaseKeeps ==
    ASSUME AttemptInv, NEW what \in {"message", "dispatch"}, LeaseFails(what)
    PROVE  AttemptInv'
<1>0. AttemptLimit \in Nat /\ ResumeLimit \in Nat /\ born \in Nat
  BY AttemptAssumption DEF AttemptInv, AttemptTypes
<1>r. << "unleased" >> \in TurnResults
  BY DEF TurnResults, TurnOuts
<1> DEFINE t == [NoTurn EXCEPT !.kind = what, !.pc = "done", !.result = << "unleased" >>]
<1>1. /\ te' = t /\ item' = [item EXCEPT !.status = "FAILED"]
      /\ tries' = <<>> /\ UNCHANGED <<row, daemon, born, corrupt>>
  BY NoTurnFacts DEF NoTurn, LeaseFails, Finish
<1>2. /\ t \in TurnRecords /\ t.pc = "done" /\ t.current = 0 /\ t.previous = 0 /\ t.lease = 0
      /\ t.attempt = 0 /\ t.first = 0 /\ t.resumes = 0 /\ t.active = 0 /\ ~t.leased
      /\ t.result = << "unleased" >> /\ t.write = <<>> /\ ~t.operator
  BY <1>r, NoTurnFacts DEF TurnRecords
<1> HIDE DEF t
<1>3. item' \in TurnItems /\ item'.retry <= AttemptLimit
  BY <1>1, FinishFacts
<1>a. AttemptTypes' /\ SessionsExist'
  BY <1>1, <1>3, <1>2, <1>0 DEF AttemptInv, AttemptTypes, SessionsExist
<1>c. CallsCounted'
  BY <1>0, <1>1, <1>3, <1>2 DEF CallsCounted, ExecutionsAreBounded
<1>d. CallsFollowLease' /\ RowFollowsLease' /\ CorruptIsLeft' /\ ResumesStayInSession'
      /\ FailuresAreTold'
  BY <1>1, <1>2 DEF CallsFollowLease, RowFollowsLease, UnderWay, ResumesStayInSession,
     FailuresAreTold, CorruptIsLeft, FoundCorrupt
<1>e. AnswerIsStored'
  <2>1. << "unleased" >> # << "answered" >> /\ << "unleased" >> # << "counted" >>
    OBVIOUS
  <2> QED
    BY <1>1, <1>2, <2>1 DEF AnswerIsStored
<1> QED
  BY <1>a, <1>c, <1>d, <1>e DEF AttemptInv

LEMMA AttemptKept == AttemptInv /\ [AttemptNext]_attemptVars => AttemptInv'
<1> SUFFICES ASSUME AttemptInv, [AttemptNext]_attemptVars PROVE AttemptInv'
  OBVIOUS
<1>1. ASSUME NEW what \in {"message", "dispatch"}, NEW eph \in BOOLEAN, StartTurn(what, eph)
      PROVE  AttemptInv'
  BY <1>1, StartKeeps
<1>2. ASSUME NEW what \in {"message", "dispatch"}, LeaseFails(what) PROVE AttemptInv'
  BY <1>2, NoLeaseKeeps
<1>3. CASE Restart \/ NextItem
  BY <1>3, BetweenKeeps
<1>4. CASE Interrupt \/ OperatorResets \/ ProcessIdles \/ HandleBurstPanic
  BY <1>4, InterruptKeeps, AsideKeeps, HeadEnds
<1>5. CASE Stop \/ QuotaLockEnds \/ UNCHANGED attemptVars
  BY <1>5, AttemptFrame DEF Stop, QuotaLockEnds, attemptVars
<1>6. CASE WriteRow
  BY <1>6, WriteKeeps
<1>7. CASE te.write = <<>> /\ Proceed
  <2>1. ASSUME NEW res \in Successes \cup Failures, ExecutionReturns(res) PROVE AttemptInv'
    BY <1>7, <2>1, ReturnKeeps
  <2>2. CASE InterruptedAtHead \/ CheckGlobalQuotaLockout \/ HandleAttemptsExhausted
             \/ BackoffCancelled \/ HandleQuotaPause \/ FailedAtShutdown
    BY <2>2, HeadEnds
  <2>3. CASE HandleCapacityBlip \/ HandleWatchdogFailure \/ HandleTransientRetry
    BY <2>3, FailureKeeps
  <2>4. CASE StartExecution \/ HandleYieldTrap \/ BackoffEnds \/ DeliverSuccessAndFinalize
    BY <1>7, <2>4, ExecutionStarts, LoopKeeps, AnswerEnds
  <2>5. CASE HandleSessionCorruptionRetry \/ Relet \/ HandleNonTransientFailure \/ CountTurn
    BY <1>7, <2>5, CorruptionKeeps, ReletKeeps, GiveUpEnds, CountKeeps
  <2> QED
    BY <1>7, <2>1, <2>2, <2>3, <2>4, <2>5 DEF Proceed
<1> QED
  BY <1>1, <1>2, <1>3, <1>4, <1>5, <1>6, <1>7 DEF AttemptNext, TurnWork

LEMMA AttemptStarts == AttemptInit => AttemptInv
<1> SUFFICES ASSUME AttemptInit PROVE AttemptInv
  OBVIOUS
<1>0. AttemptLimit \in Nat /\ ResumeLimit \in Nat
  BY AttemptAssumption
<1>1. AttemptTypes /\ SessionsExist
  BY NoTurnFacts DEF AttemptInit, AttemptTypes, SessionsExist, SessionRows, AgentProcs, TurnItems,
     NewItem, NoRecord, NoProcess
<1>2. CallsCounted
  BY <1>0, NoTurnFacts DEF AttemptInit, CallsCounted, NewItem
<1>3. CallsFollowLease /\ RowFollowsLease /\ ResumesStayInSession /\ FailuresAreTold
      /\ AnswerIsStored /\ CorruptIsLeft
  BY NoTurnFacts DEF AttemptInit, CallsFollowLease, RowFollowsLease, UnderWay, AnswerIsStored,
     ResumesStayInSession, FailuresAreTold, CorruptIsLeft, FoundCorrupt
<1> QED
  BY <1>1, <1>2, <1>3 DEF AttemptInv

LEMMA AttemptEnough == AttemptInv => AttemptsAreSound
<1> SUFFICES ASSUME AttemptInv PROVE AttemptsAreSound
  OBVIOUS
<1>0. /\ te \in TurnRecords /\ te.attempt \in Nat /\ te.first \in Nat /\ te.resumes \in Nat
      /\ te.pc \in {"idle", "check", "run", "judge", "relet", "backoff", "done"}
      /\ {te.current, te.previous, te.active, te.lease, row.cur, row.prev, daemon.sess, born} \subseteq Nat
      /\ AttemptLimit \in Nat /\ ResumeLimit \in Nat /\ Len(tries) \in Nat
      /\ item.status \in {"PENDING", "PROCESSING", "COMPLETED", "FAILED"}
  BY AttemptAssumption DEF AttemptInv, AttemptTypes, TurnRecords, SessionRows, AgentProcs, TurnItems
<1>1. AttemptTypeOK
  BY <1>0, SMTT(40) DEF AttemptInv, SessionsExist, CallsCounted, AttemptTypeOK
<1>2. ExecutionsAreBounded
  <2>1. /\ te.first <= te.attempt /\ te.attempt <= AttemptLimit + 1 /\ te.resumes <= ResumeLimit
        /\ te.pc \in {"run", "judge", "relet"} => te.attempt <= AttemptLimit
        /\ te.pc = "backoff" => te.attempt < AttemptLimit
        /\ te.pc = "idle" => te = NoTurn /\ tries = <<>>
        /\ te.pc = "check" => Len(tries) <= te.attempt - te.first + te.resumes
        /\ te.pc \in {"run", "judge", "relet", "backoff"} =>
             Len(tries) <= te.attempt - te.first + te.resumes + 1
        /\ te.pc = "done" => ExecutionsAreBounded
    BY DEF AttemptInv, CallsCounted
  <2>2. CASE te.pc = "idle"
    BY <1>0, <2>1, <2>2, NoTurnFacts DEF ExecutionsAreBounded
  <2>3. CASE te.pc = "check"
    BY <1>0, <2>1, <2>3, SMTT(40) DEF ExecutionsAreBounded
  <2>4. CASE te.pc \in {"run", "judge", "relet", "backoff"}
    BY <1>0, <2>1, <2>4, SMTT(40) DEF ExecutionsAreBounded
  <2> QED
    BY <1>0, <2>1, <2>2, <2>3, <2>4
<1>3. RetriesMatchAttempts
  BY DEF AttemptInv, CallsCounted, RetriesMatchAttempts
<1>4. AnsweredSessionIsStored
  BY DEF AttemptInv, AnswerIsStored, AnsweredSessionIsStored, Unhindered, Awaited, LastWent, Last
<1>5. CorruptSessionIsLeft
  BY DEF AttemptInv, CorruptIsLeft, CorruptSessionIsLeft, FoundCorrupt
<1> QED
  BY <1>1, <1>2, <1>3, <1>4, <1>5 DEF AttemptInv, AttemptsAreSound

\* For any limits and any mixture of failures, yields, interrupts, stops and restarts: a
\* turn calls the agent as often as it may, counts its failures once, resumes in the
\* session it asked before, leaves a corrupt session, has the session of its answer in
\* the row and tells a failure to the thread, but for what statements and notices that
\* failed took from it (executeWithRetries).
THEOREM AttemptsAreSafe == AttemptSpec => []AttemptsAreSound
  BY AttemptStarts, AttemptKept, AttemptEnough, PTL DEF AttemptSpec

\* Only a statement asked for before, a count and the operator's reset change the row of
\* the thread, and only a turn that may asks for one (saveSessionID, rotateSessionID).
LEMMA RowIsLeftByStep == AttemptInv /\ [AttemptNext]_attemptVars => [RowIsLeft]_attemptVars
<1> SUFFICES ASSUME AttemptInv, AttemptNext, te.pc # "idle", te'.pc # "idle",
                    te.eph \/ te.interrupted
             PROVE  /\ te'.write \in {te.write, <<>>}
                    /\ (te.eph \/ te.write = <<>>) /\ te'.operator = te.operator =>
                         row'.cur = row.cur /\ row'.prev = row.prev
  BY DEF RowIsLeft
<1>0. te \in TurnRecords /\ row \in SessionRows /\ (te.eph => te.write = <<>>)
  BY RowStays DEF AttemptInv, RowFollowsLease
<1>1. ~Restart /\ ~NextItem
  BY NoTurnFacts DEF Restart, NextItem
<1>2. CASE WriteRow
  BY <1>0, <1>2 DEF WriteRow, TurnRecords
<1>3. CASE OperatorResets
  <2>1. te'.operator = FALSE /\ te.operator = TRUE /\ te'.write = te.write
    BY <1>0, <1>3 DEF OperatorResets, TurnRecords
  <2> QED
    BY <2>1
<1>4. ASSUME NEW what \in {"message", "dispatch"}, NEW eph \in BOOLEAN PROVE ~StartTurn(what, eph)
  BY DEF StartTurn
<1>5. ASSUME NEW what \in {"message", "dispatch"} PROVE ~LeaseFails(what)
  BY DEF LeaseFails
<1>6. CASE Interrupt \/ ProcessIdles \/ HandleBurstPanic \/ Stop \/ QuotaLockEnds
  BY <1>0, <1>6
     DEF Interrupt, ProcessIdles, HandleBurstPanic, Finish, Stop, QuotaLockEnds, TurnRecords
<1>7. CASE te.write = <<>> /\ Proceed
  <2>1. ASSUME NEW res \in Successes \cup Failures, ExecutionReturns(res)
        PROVE  row' = row /\ te'.write = te.write
    BY <1>0, <2>1 DEF ExecutionReturns, Persisted, Finish, TurnRecords
  <2>2. CASE CountTurn
    BY <1>0, <2>2 DEF CountTurn, RotateSessionID, MayWrite, SessionRows, TurnRecords
  <2>3. CASE \/ StartExecution \/ InterruptedAtHead \/ CheckGlobalQuotaLockout
             \/ HandleAttemptsExhausted \/ HandleYieldTrap \/ DeliverSuccessAndFinalize
             \/ BackoffEnds \/ BackoffCancelled \/ HandleQuotaPause \/ FailedAtShutdown
    BY <1>0, <2>3
       DEF StartExecution, InterruptedAtHead, FinalizeInterruptedTurn, CheckGlobalQuotaLockout,
           HandleAttemptsExhausted, CancelBurstOnShutdown, HandleYieldTrap, YieldResumed,
           DeliverSuccessAndFinalize, BackoffEnds, BackoffCancelled, HandleQuotaPause,
           FailedAtShutdown, Finish, TurnRecords
  <2>4. CASE HandleCapacityBlip \/ HandleWatchdogFailure \/ HandleTransientRetry
    BY <1>0, <2>4
       DEF HandleCapacityBlip, HandleWatchdogFailure, HandleTransientRetry, Backoff,
           CountRetryOnce, Finish, RotateSessionID, MayWrite, TurnRecords
  <2>5. CASE HandleSessionCorruptionRetry \/ Relet \/ HandleNonTransientFailure
    BY <1>0, <2>5
       DEF HandleSessionCorruptionRetry, Relet, HandleNonTransientFailure, Backoff,
           CountRetryOnce, RotateSessionID, MayWrite, TurnRecords
  <2> QED
    BY <1>7, <2>1, <2>2, <2>3, <2>4, <2>5 DEF Proceed
<1> QED
  BY <1>1, <1>2, <1>3, <1>4, <1>5, <1>6, <1>7 DEF AttemptNext, TurnWork

\* While it runs, an ephemeral turn leaves the sessions that the row of its thread names,
\* and an interrupted one asks for no write of them (saveSessionID, rotateSessionID).
THEOREM ForeignTurnsLeaveTheRow == AttemptSpec => ForeignTurnsLeaveRow
  BY AttemptStarts, AttemptKept, RowIsLeftByStep, PTL DEF AttemptSpec, ForeignTurnsLeaveRow

\* The same where the attempts are one of the parts (MCProgress).
THEOREM TurnAttemptsHold == PartsSpec => []TurnAttemptsAreSound
<1> DEFINE Chosen == part = "attempts" => AttemptInv
<1>1. ProgressInit => Chosen
  BY AttemptStarts DEF ProgressInit
<1>2. Chosen /\ [ProgressNext]_progressVars => Chosen'
  BY AttemptKept DEF ProgressNext, progressVars, Others
<1>3. Chosen => TurnAttemptsAreSound
  BY AttemptEnough DEF TurnAttemptsAreSound
<1> QED
  BY <1>1, <1>2, <1>3, PTL DEF PartsSpec

--------------------
(* The builds of ServiceProofs, among the other parts. *)

\* The same where the build is one of the parts (MCProgress).
THEOREM ChunkBuildHolds == PartsSpec => []ChunkBuildIsSound
<1> DEFINE Chosen == part = "build" => BuildInv
<1>1. ProgressInit => Chosen
  BY BuildStarts DEF ProgressInit
<1>2. Chosen /\ [ProgressNext]_progressVars => Chosen'
  BY BuildKept DEF ProgressNext, progressVars, Others
<1>3. Chosen => ChunkBuildIsSound
  BY BuildEnough DEF ChunkBuildIsSound
<1> QED
  BY <1>1, <1>2, <1>3, PTL DEF PartsSpec

--------------------
(* ConfigReload.  What the statement says of a process between two reloads *)
(* holds because each step of a load leaves to the next what it needs: *)
(* the file found is good, the published snapshot is complete, its secret *)
(* is registered, the pools have its model. *)

\* A file that was saved; the good ones have a version of their own.
Contents ==
    {c \in [kind : {"absent", "good"} \cup Mistakes, v : Nat, dirs : BOOLEAN] : c.kind = "good" => c.v # 0}
Snapshots == [v : Nat, dirs : BOOLEAN, secret : Nat]
Loads == [pc : {"idle", "wait", "read", "publish", "defaults", "register", "sync", "pools", "models", "dirty"},
          at : 0..NPaths + 1, found : Contents, secret : Nat]
AgentRows == [state : {"none", "starting", "idle", "busy"}, conf : Nat, home : Nat, dirty : BOOLEAN,
              overtaken : BOOLEAN]
Redactions == {"token", "password"} \X Nat
ReloadBounds == [edits : Nat, kills : Nat, faults : Nat, agents : Nat]

OutsideTypes ==
    /\ files \in [1..NPaths -> Contents] /\ secretsFile \in Nat /\ unsignalled \in BOOLEAN
    /\ reloadBudget \in ReloadBounds
ProcessTypes ==
    /\ hup \in 0..1 /\ process \in {"down", "booting", "up"} /\ published \in Snapshots
    /\ redacted \in SUBSET Redactions /\ passedOver \in SUBSET Nat /\ loader \in Loads /\ homes \in Nat /\ poolModel \in Nat
    /\ agents \in [Slots -> AgentRows]

\* Where the load is in the life of the process.
LoaderFits ==
    /\ process = "down" => loader.pc = "idle"
    /\ process = "booting" => loader.pc \notin {"idle", "models", "dirty"}
    /\ process = "up" => loader.pc # "pools"
    /\ loader.pc = "read" => loader.at >= 1
    /\ loader.pc = "publish" => loader.found.v # 0

\* What the statement asks of the secrets of a published configuration.
Registered ==
    /\ CoreTokens(published.secret) \subseteq redacted
    /\ published.secret \in passedOver \/ SharedTokens(published.secret) \subseteq redacted

\* A process that has published something has published a good configuration.
Old == {"idle", "wait", "read", "publish"}
PublishedFits ==
    process = "up" \/ loader.pc \in {"defaults", "register", "sync", "pools"} =>
        /\ published.v # 0
        /\ loader.pc # "defaults" => published.dirs
        /\ loader.pc \notin {"defaults", "register"} => Registered

Clean(a) == agents[a].state # "none" /\ ~agents[a].dirty /\ ~agents[a].overtaken
AgentsFit ==
    /\ process # "up" => agents = [a \in Slots |-> NoAgent]
    /\ process = "up" /\ loader.pc \in Old \cup {"dirty"} => poolModel = published.v
    /\ process = "up" /\ loader.pc \in Old =>
          \A a \in Slots : Clean(a) => agents[a].conf = poolModel /\ agents[a].home = homes

ReloadInv == OutsideTypes /\ ProcessTypes /\ LoaderFits /\ PublishedFits /\ AgentsFit

LEMMA ReloadBasics ==
    /\ Absent \in Contents /\ NoLoad \in Loads /\ NoAgent \in AgentRows /\ Unloaded \in Snapshots
    /\ \A c \in Faulty : c \in Contents
    /\ \A v \in Nat \ {0}, d \in BOOLEAN : Good(v, d) \in Contents
    /\ NPaths \in Nat /\ NPaths >= 1
<1>1. Absent \in Contents
  BY DEF Absent, Contents
<1>2. NoLoad \in Loads
  <2>4. NPaths \in Nat
    BY ReloadAssumption, Zenon
  <2>1. 0 \in 0..NPaths + 1 /\ 0 \in Nat
    BY <2>4
  <2> DEFINE Ats == 0..NPaths + 1
  <2> HIDE DEF Ats
  <2>2. 0 \in Ats
    BY <2>1 DEF Ats
  <2>3. NoLoad \in [pc : {"idle", "wait", "read", "publish", "defaults", "register", "sync", "pools", "models", "dirty"},
                    at : Ats, found : Contents, secret : Nat]
    BY <1>1, <2>1, <2>2 DEF NoLoad
  <2> QED
    BY <2>3 DEF Loads, Ats
<1>3. NoAgent \in AgentRows /\ Unloaded \in Snapshots
  BY DEF NoAgent, AgentRows, Unloaded, Snapshot, Snapshots
<1>4. \A c \in Faulty : c \in Contents
  <2> SUFFICES ASSUME NEW k \in Mistakes PROVE [kind |-> k, v |-> 0, dirs |-> FALSE] \in Contents
    BY DEF Faulty
  <2>1. k # "good" /\ k \in {"absent", "good"} \cup Mistakes
    BY ReloadAssumption
  <2> DEFINE c == [kind |-> k, v |-> 0, dirs |-> FALSE]
  <2>2. c \in [kind : {"absent", "good"} \cup Mistakes, v : Nat, dirs : BOOLEAN] /\ c.kind = k
    BY <2>1
  <2> QED
    BY <2>1, <2>2 DEF Contents
<1>5. ASSUME NEW v \in Nat \ {0}, NEW d \in BOOLEAN PROVE Good(v, d) \in Contents
  BY DEF Good, Contents
<1>6. NPaths \in Nat \ {0}
  BY ReloadAssumption, Zenon
<1>7. NPaths \in Nat /\ NPaths >= 1
  BY <1>6
<1> QED
  BY <1>1, <1>2, <1>3, <1>4, <1>5, <1>7, Zenon

LEMMA ReloadStarts == ReloadInit => ReloadInv
<1> SUFFICES ASSUME ReloadInit PROVE ReloadInv
  OBVIOUS
<1>1. OutsideTypes
  <2>1. files \in [1..NPaths -> Contents]
    <3>4. 9 \in Nat \ {0} /\ FALSE \in BOOLEAN
      OBVIOUS
    <3>1. Good(9, FALSE) \in Contents /\ Absent \in Contents
      BY <3>4, ReloadBasics, Zenon
    <3> DEFINE c(p) == IF p = 1 THEN Good(9, FALSE) ELSE Absent
    <3>2. \A p \in 1..NPaths : c(p) \in Contents
      BY <3>1
    <3>3. files = [p \in 1..NPaths |-> c(p)]
      BY DEF ReloadInit
    <3> HIDE DEF c
    <3> QED
      BY <3>2, <3>3
  <2>2. secretsFile \in Nat /\ unsignalled \in BOOLEAN
    BY DEF ReloadInit
  <2>3. reloadBudget \in ReloadBounds
    BY ReloadAssumption DEF ReloadInit, ReloadBounds
  <2> QED
    BY <2>1, <2>2, <2>3 DEF OutsideTypes
<1>2. ProcessTypes
  BY ReloadBasics DEF ReloadInit, ProcessTypes
<1>3. LoaderFits /\ PublishedFits /\ AgentsFit
  BY DEF ReloadInit, NoLoad, LoaderFits, Registered, PublishedFits, AgentsFit
<1> QED
  BY <1>1, <1>2, <1>3 DEF ReloadInv

LEMMA ReloadEnough == ReloadInv => ConfigIsSound
<1> SUFFICES ASSUME ReloadInv PROVE ConfigIsSound
  OBVIOUS
<1>1. ReloadTypeOK
  <2>1. redacted \subseteq {"token", "password"} \X Nat /\ passedOver \subseteq Nat
    BY DEF ReloadInv, ProcessTypes, Redactions
  <2> QED
    BY <2>1 DEF ReloadInv, OutsideTypes, Contents, ProcessTypes, Snapshots, Loads, AgentRows, ReloadTypeOK
<1>2. RunsOnValidConfig /\ SecretsAreRedacted
  BY DEF ReloadInv, Registered, PublishedFits, RunsOnValidConfig, SecretsAreRedacted
<1>3. CleanAgentsAreCurrent
  BY DEF CleanAgentsAreCurrent, Clean, ReloadInv, AgentsFit, NoAgent, Old
<1> QED
  BY <1>1, <1>2, <1>3 DEF ConfigIsSound

--------------------
\* Outside: files and secrets.
LEMMA OutsideKept ==
    ASSUME ReloadInv, RenderConfig \/ RenderSecrets \/ GitPull PROVE ReloadInv'
<1>1. /\ UNCHANGED <<hup, process, published, redacted, passedOver, loader, homes, poolModel, agents>>
      /\ unsignalled' \in BOOLEAN
  BY DEF RenderConfig, RenderSecrets, GitPull, ReloadInv, OutsideTypes
<1>2. reloadBudget \in ReloadBounds /\ files \in [1..NPaths -> Contents] /\ secretsFile \in Nat
  BY DEF ReloadInv, OutsideTypes
<1>3. SpendReload("edits")
  BY DEF RenderConfig, RenderSecrets, GitPull
<1>4. reloadBudget' \in ReloadBounds /\ NextVersion \in Nat \ {0}
  BY <1>2, <1>3 DEF SpendReload, ReloadBounds, NextVersion
<1>5. files' \in [1..NPaths -> Contents] /\ secretsFile' \in Nat
  <2>1. CASE RenderConfig
    BY <2>1, <1>4, ReloadBasics, <1>2 DEF RenderConfig
  <2>2. CASE RenderSecrets
    BY <1>2, <1>4, <2>2 DEF RenderSecrets
  <2>3. CASE GitPull
    BY <2>3, <1>4, ReloadBasics, <1>2 DEF GitPull
  <2> QED
    BY <2>1, <2>2, <2>3
<1>6. OutsideTypes'
  BY <1>1, <1>4, <1>5 DEF OutsideTypes
<1>7. (ProcessTypes /\ LoaderFits /\ PublishedFits /\ AgentsFit)'
  BY <1>1 DEF ReloadInv, ProcessTypes, LoaderFits, Registered, PublishedFits, AgentsFit, Clean
<1> QED
  BY <1>6, <1>7 DEF ReloadInv

\* A process that ends keeps nothing.
LEMMA DiedKept ==
    ASSUME ReloadInv, Died, OutsideTypes', UNCHANGED homes PROVE ReloadInv'
BY ReloadBasics DEF Died, ReloadInv, ProcessTypes, NoLoad, LoaderFits, Registered, PublishedFits, AgentsFit

LEMMA LoadStepKept ==
    ASSUME ReloadInv, UNCHANGED <<files, secretsFile, unsignalled>>,
           StartProcess \/ TakeSignal \/ ColdBootWaited \/ ReadPath \/ Publish \/ EnsureConfigDefaults
              \/ RegisterConfigTokens
    PROVE  ReloadInv'
<1>1. OutsideTypes'
  <2>1. UNCHANGED reloadBudget \/ SpendReload("faults")
    BY DEF StartProcess, TakeSignal, ColdBootWaited, ReadPath, Publish, EnsureConfigDefaults, RegisterConfigTokens,
       SharedSecrets
  <2>2. reloadBudget' \in ReloadBounds
    BY <2>1 DEF ReloadInv, OutsideTypes, SpendReload, ReloadBounds
  <2> QED
    BY <2>2 DEF ReloadInv, OutsideTypes
<1>2. UNCHANGED <<homes, poolModel, agents>>
  BY DEF StartProcess, TakeSignal, ColdBootWaited, ReadPath, Publish, EnsureConfigDefaults, RegisterConfigTokens, Unchanged
<1>3. /\ loader \in Loads /\ published \in Snapshots /\ redacted \in SUBSET Redactions /\ passedOver \in SUBSET Nat /\ secretsFile \in Nat
      /\ files \in [1..NPaths -> Contents] /\ hup \in 0..1 /\ process \in {"down", "booting", "up"}
      /\ homes \in Nat /\ poolModel \in Nat /\ agents \in [Slots -> AgentRows]
  BY DEF ReloadInv, ProcessTypes, OutsideTypes
<1>4. LoaderFits /\ PublishedFits /\ AgentsFit
  BY DEF ReloadInv
<1>5. \* what is left to show of a step of the load
      ASSUME loader' \in Loads, published' \in Snapshots, redacted' \in SUBSET Redactions, passedOver' \in SUBSET Nat, hup' \in 0..1,
             process' \in {"down", "booting", "up"}, (LoaderFits /\ PublishedFits /\ AgentsFit)'
      PROVE  ReloadInv'
  BY <1>1, <1>2, <1>3, <1>5 DEF ReloadInv, ProcessTypes
<1>6. CASE StartProcess
  BY <1>6, ReloadBasics, <1>2, <1>4, <1>3, <1>5 DEF StartProcess, Loads, LoaderFits,
     Registered, PublishedFits, AgentsFit
<1>7. CASE TakeSignal
  BY <1>7, ReloadBasics, <1>2, <1>4, <1>3, <1>5 DEF TakeSignal, Loads, LoaderFits, Registered, PublishedFits,
     AgentsFit, Old, Clean
<1>8. CASE ColdBootWaited
  <2>1. PICK s \in Nat :
          /\ loader.pc = "wait" /\ loader' = [loader EXCEPT !.pc = "read", !.at = 1, !.secret = s]
          /\ UNCHANGED <<hup, process, published, redacted, passedOver>>
    BY <1>3, <1>8 DEF ColdBootWaited
  <2> DEFINE Ats == 0..NPaths + 1
  <2>4. 1 \in Ats
    BY ReloadBasics
  <2>5. loader \in [pc : {"idle", "wait", "read", "publish", "defaults", "register", "sync", "pools", "models", "dirty"},
                    at : Ats, found : Contents, secret : Nat]
    BY <1>3 DEF Loads
  <2> HIDE DEF Ats
  <2>6. loader' \in [pc : {"idle", "wait", "read", "publish", "defaults", "register", "sync", "pools", "models", "dirty"},
                    at : Ats, found : Contents, secret : Nat]
    BY <1>3, <2>1, <2>4, <2>5
  <2>2. loader' \in Loads /\ loader'.pc = "read" /\ loader'.at = 1
    BY <2>1, <2>5, <2>6 DEF Loads, Ats
  <2>3. (LoaderFits /\ PublishedFits /\ AgentsFit)'
    BY <1>2, <1>4, <2>1, <2>2 DEF LoaderFits, Registered, PublishedFits, AgentsFit, Old, Clean
  <2> QED
    BY <1>3, <1>5, <2>1, <2>2, <2>3
<1>9. CASE ReadPath
  <2> DEFINE c == files[loader.at]
             taken == c.kind # "absent" /\ Parses(c) /\ Validates(c)
  <2>1. loader.pc = "read" /\ loader.at <= NPaths /\ UNCHANGED <<hup, process, published, redacted, passedOver>>
    BY <1>9 DEF ReadPath
  <2>5. loader' = IF taken THEN [loader EXCEPT !.pc = "publish", !.found = c] ELSE [loader EXCEPT !.at = @ + 1]
    BY <1>9, Zenon DEF ReadPath
  <2>2. loader.at \in 1..NPaths /\ files[loader.at] \in Contents
    BY <1>3, <1>4, <2>1, ReloadBasics DEF Loads, LoaderFits
  <2>3. CASE loader' = [loader EXCEPT !.at = @ + 1]
    <3> DEFINE Ats == 0..NPaths + 1
               next == loader.at + 1
    <3>4. next \in Ats /\ next >= 1
      BY <2>2, ReloadBasics
    <3>5. loader \in [pc : {"idle", "wait", "read", "publish", "defaults", "register", "sync", "pools", "models", "dirty"},
                      at : Ats, found : Contents, secret : Nat]
      BY <1>3 DEF Loads
    <3>6. loader' = [loader EXCEPT !.at = next]
      BY <2>3
    <3> HIDE DEF Ats, next
    <3>7. loader' \in [pc : {"idle", "wait", "read", "publish", "defaults", "register", "sync", "pools", "models", "dirty"},
                       at : Ats, found : Contents, secret : Nat]
      BY <3>4, <3>5, <3>6
    <3>8. loader'.at = next /\ loader'.pc = loader.pc
      BY <3>5, <3>6
    <3>1. loader' \in Loads /\ loader'.pc = "read" /\ loader'.at >= 1
      BY <2>1, <3>4, <3>7, <3>8 DEF Loads, Ats
    <3>2. (LoaderFits /\ PublishedFits /\ AgentsFit)'
      BY <1>2, <1>4, <2>1, <3>1 DEF LoaderFits, Registered, PublishedFits, AgentsFit, Old, Clean
    <3> QED
      BY <1>3, <1>5, <2>1, <3>1, <3>2
  <2>4. ASSUME loader' = [loader EXCEPT !.pc = "publish", !.found = c], taken
        PROVE  ReloadInv'
    <3>4. c.kind # "absent" /\ Parses(c) /\ Validates(c) /\ c \in Contents
      BY <2>2, <2>4
    <3> HIDE DEF c
    <3>5. c.kind = "good"
      BY <3>4, ReloadAssumption DEF Contents, Parses, Validates
    <3>1. c.v # 0
      BY <3>4, <3>5 DEF Contents
    <3>2. loader' \in Loads /\ loader'.pc = "publish" /\ loader'.found.v # 0
      BY <1>3, <2>4, <3>1, <3>4 DEF Loads
    <3>3. (LoaderFits /\ PublishedFits /\ AgentsFit)'
      BY <1>2, <1>4, <2>1, <3>2 DEF LoaderFits, Registered, PublishedFits, AgentsFit, Old, Clean
    <3> QED
      BY <1>3, <1>5, <2>1, <3>2, <3>3
  <2> QED
    <3> HIDE DEF taken, c
    <3> QED
      BY <2>3, <2>4, <2>5
<1>10. CASE Publish
  <2>1. /\ loader.pc = "publish" /\ published' = Snapshot(loader.found.v, loader.found.dirs, loader.secret)
        /\ loader' = [loader EXCEPT !.pc = "defaults"] /\ UNCHANGED <<hup, process, redacted, passedOver>>
    BY <1>10 DEF Publish
  <2>2. loader' \in Loads /\ loader'.pc = "defaults"
    BY <1>3, <2>1 DEF Loads
  <2>3. published' \in Snapshots /\ published'.v # 0
    BY <1>3, <1>4, <2>1 DEF Snapshot, Snapshots, Loads, Contents, LoaderFits
  <2>4. (LoaderFits /\ PublishedFits /\ AgentsFit)'
    BY <1>2, <1>4, <2>1, <2>2, <2>3 DEF LoaderFits, Registered, PublishedFits, AgentsFit, Old
  <2> QED
    BY <1>3, <1>5, <2>1, <2>2, <2>3, <2>4
<1>11. CASE EnsureConfigDefaults
  BY <1>11, <1>3, <1>2, <1>4, <1>5 DEF EnsureConfigDefaults, Loads, Snapshots, LoaderFits,
     Registered, PublishedFits, AgentsFit, Old
<1>12. CASE RegisterConfigTokens
  <2>1. PICK s \in Nat :
          /\ redacted' = redacted \cup CoreTokens(published.secret) \cup SharedTokens(s)
          /\ passedOver' = passedOver \cup ({published.secret} \ {s})
    BY <1>3, <1>12 DEF RegisterConfigTokens
  <2>2. loader.pc = "register" /\ loader' = [loader EXCEPT !.pc = "sync"] /\ UNCHANGED <<hup, process, published>>
    BY <1>12 DEF RegisterConfigTokens
  <2>3. published.secret \in Nat
    BY <1>3 DEF Snapshots
  <2>4. CoreTokens(published.secret) \subseteq Redactions /\ SharedTokens(s) \subseteq Redactions
    BY <2>3 DEF CoreTokens, SharedTokens, Redactions
  <2>5. redacted' \in SUBSET Redactions /\ passedOver' \in SUBSET Nat
    BY <1>3, <2>1, <2>3, <2>4
  <2>6. Registered'
    BY <2>1, <2>2 DEF Registered
  <2>7. loader' \in Loads /\ loader'.pc = "sync"
    BY <1>3, <2>2 DEF Loads
  <2>8. (LoaderFits /\ PublishedFits /\ AgentsFit)'
    BY <1>2, <1>4, <2>2, <2>6, <2>7 DEF LoaderFits, PublishedFits, AgentsFit, Old
  <2> QED
    BY <1>3, <1>5, <2>2, <2>5, <2>7, <2>8
<1> QED
  BY <1>6, <1>7, <1>8, <1>9, <1>10, <1>11, <1>12

LEMMA ReloadKept == ReloadInv /\ [ReloadNext]_reloadVars => ReloadInv'
<1> SUFFICES ASSUME ReloadInv, [ReloadNext]_reloadVars PROVE ReloadInv'
  OBVIOUS
<1>1. OutsideTypes /\ ProcessTypes /\ LoaderFits /\ PublishedFits /\ AgentsFit
  BY DEF ReloadInv
<1>2. \* a step that touches nothing of the load
      ASSUME OutsideTypes', hup' \in 0..1, UNCHANGED <<process, published, redacted, passedOver, loader, homes, poolModel, agents>>
      PROVE  ReloadInv'
  BY <1>1, <1>2 DEF ReloadInv, ProcessTypes, LoaderFits, Registered, PublishedFits, AgentsFit, Clean
<1>3. CASE NomadSignals
  <2>1. OutsideTypes' /\ UNCHANGED homes
    BY <1>1, <1>3 DEF NomadSignals, OutsideTypes
  <2>2. CASE Died
    BY <2>1, <2>2, DiedKept
  <2>3. CASE hup' \in {hup, 1} /\ UNCHANGED <<process, published, redacted, passedOver, loader, poolModel, agents>>
    BY <1>1, <1>2, <2>1, <2>3 DEF ProcessTypes
  <2> QED
    BY <1>3, <2>2, <2>3 DEF NomadSignals
<1>4. CASE Killed
  BY <1>1, <1>4, DiedKept DEF Killed, OutsideTypes, SpendReload, ReloadBounds
<1>5. CASE LoadFails
  <2>1. OutsideTypes' /\ UNCHANGED homes
    BY <1>1, <1>5 DEF LoadFails, OutsideTypes
  <2>2. CASE Died
    BY <2>1, <2>2, DiedKept
  <2>3. CASE process = "up" /\ loader' = NoLoad /\ UNCHANGED <<hup, process, published, redacted, passedOver, poolModel, agents>>
    <3>1. loader' \in Loads /\ loader'.pc = "idle" /\ loader.pc = "read"
      BY <1>5, <2>3, ReloadBasics DEF LoadFails, NoLoad
    <3>2. ProcessTypes'
      BY <1>1, <2>1, <2>3, <3>1 DEF ProcessTypes
    <3>3. (LoaderFits /\ PublishedFits /\ AgentsFit)'
      BY <1>1, <2>1, <2>3, <3>1 DEF LoaderFits, Registered, PublishedFits, AgentsFit, Old, Clean
    <3> QED
      BY <2>1, <3>2, <3>3 DEF ReloadInv
  <2> QED
    BY <1>5, <2>2, <2>3 DEF LoadFails
<1>6. CASE ProvisionerSync
  <2>1. /\ loader.pc = "sync" /\ loader' = [loader EXCEPT !.pc = IF process = "up" THEN "models" ELSE "pools"]
        /\ UNCHANGED <<files, secretsFile, unsignalled, hup, process, published, redacted, passedOver, poolModel, agents>>
        /\ (homes' = published.v \/ UNCHANGED homes)
    BY <1>6 DEF ProvisionerSync
  <2>2. OutsideTypes'
    BY <1>1, <1>6, <2>1 DEF ProvisionerSync, OutsideTypes, SpendReload, ReloadBounds
  <2>3. loader' \in Loads /\ loader'.pc = IF process = "up" THEN "models" ELSE "pools"
    BY <1>1, <2>1 DEF ProcessTypes, Loads
  <2>4. homes' \in Nat
    BY <1>1, <2>1 DEF ProcessTypes, Snapshots
  <2>5. ProcessTypes'
    BY <1>1, <2>1, <2>3, <2>4 DEF ProcessTypes
  <2>6. (LoaderFits /\ PublishedFits /\ AgentsFit)'
    BY <1>1, <2>1, <2>3 DEF LoaderFits, Registered, PublishedFits, AgentsFit, Old, ProcessTypes
  <2> QED
    BY <2>2, <2>5, <2>6 DEF ReloadInv
<1>7. CASE BootEnds
  <2>1. /\ loader.pc = "pools" /\ poolModel' = published.v /\ process' = "up" /\ loader' = NoLoad
        /\ UNCHANGED <<files, secretsFile, unsignalled, hup, published, redacted, passedOver, homes, agents, reloadBudget>>
    BY <1>7 DEF BootEnds
  <2>2. process # "up" /\ agents' = [a \in Slots |-> NoAgent]
    BY <1>1, <2>1 DEF LoaderFits, AgentsFit, ProcessTypes
  <2>3. loader' \in Loads /\ loader'.pc = "idle" /\ poolModel' \in Nat
    BY <1>1, <2>1, ReloadBasics DEF NoLoad, ProcessTypes, Snapshots
  <2>4. OutsideTypes' /\ ProcessTypes'
    BY <1>1, <2>1, <2>3 DEF OutsideTypes, ProcessTypes
  <2>5. (LoaderFits /\ PublishedFits /\ AgentsFit)'
    BY <1>1, <2>1, <2>2, <2>3 DEF LoaderFits, Registered, PublishedFits, AgentsFit, Clean, NoAgent
  <2> QED
    BY <2>4, <2>5 DEF ReloadInv
<1>8. CASE UpdateModels
  <2>1. /\ loader.pc = "models" /\ poolModel' = published.v /\ loader' = [loader EXCEPT !.pc = "dirty"]
        /\ UNCHANGED <<files, secretsFile, unsignalled, hup, process, published, redacted, passedOver, homes, agents, reloadBudget>>
    BY <1>8 DEF UpdateModels
  <2>2. loader' \in Loads /\ loader'.pc = "dirty" /\ poolModel' \in Nat
    BY <1>1, <2>1 DEF ProcessTypes, Loads, Snapshots
  <2>3. OutsideTypes' /\ ProcessTypes'
    BY <1>1, <2>1, <2>2 DEF OutsideTypes, ProcessTypes
  <2>4. (LoaderFits /\ PublishedFits /\ AgentsFit)'
    BY <1>1, <2>1, <2>2 DEF LoaderFits, Registered, PublishedFits, AgentsFit, Old
  <2> QED
    BY <2>3, <2>4 DEF ReloadInv
<1>9. CASE MarkDirtyAgents
  <2>1. /\ loader.pc = "dirty" /\ agents' = [a \in Slots |-> MarkedDirty(a)] /\ loader' = NoLoad
        /\ UNCHANGED <<files, secretsFile, unsignalled, hup, process, published, redacted, passedOver, homes, poolModel, reloadBudget>>
    BY <1>9 DEF MarkDirtyAgents
  <2>2. process = "up"
    BY <1>1, <2>1 DEF LoaderFits, ProcessTypes
  <2>3. ASSUME NEW a \in Slots
        PROVE  MarkedDirty(a) \in AgentRows
               /\ (MarkedDirty(a).state = "none" \/ MarkedDirty(a).dirty \/ MarkedDirty(a).overtaken)
    BY <1>1, ReloadBasics DEF ProcessTypes, MarkedDirty, NoAgent, AgentRows
  <2>4. loader' \in Loads /\ loader'.pc = "idle" /\ agents' \in [Slots -> AgentRows]
    BY <2>1, <2>3, ReloadBasics DEF NoLoad
  <2>5. OutsideTypes' /\ ProcessTypes'
    BY <1>1, <2>1, <2>4 DEF OutsideTypes, ProcessTypes
  <2>6. \A a \in Slots : ~Clean(a)'
    BY <2>1, <2>3 DEF Clean
  <2>7. (LoaderFits /\ PublishedFits /\ AgentsFit)'
    BY <1>1, <2>1, <2>2, <2>4, <2>6 DEF LoaderFits, Registered, PublishedFits, AgentsFit
  <2> QED
    BY <2>5, <2>7 DEF ReloadInv
<1>10. ASSUME NEW a \in Slots, StartAgent(a) PROVE ReloadInv'
  <2> DEFINE new == [NoAgent EXCEPT !.state = "starting", !.conf = poolModel, !.home = homes]
  <2>1. /\ process = "up" /\ agents' = [agents EXCEPT ![a] = new]
        /\ UNCHANGED <<files, secretsFile, unsignalled, hup, process, published, redacted, passedOver, loader, homes, poolModel>>
    BY <1>10 DEF StartAgent, AgentOnly
  <2>2. reloadBudget' \in ReloadBounds
    BY <1>1, <1>10 DEF StartAgent, OutsideTypes, SpendReload, ReloadBounds
  <2>3. new \in AgentRows /\ new.conf = poolModel /\ new.home = homes
    BY <1>1, ReloadBasics DEF AgentRows, ProcessTypes
  <2> HIDE DEF new
  <2>4. OutsideTypes' /\ ProcessTypes'
    BY <1>1, <2>1, <2>2, <2>3 DEF OutsideTypes, ProcessTypes
  <2>5. \A b \in Slots : agents'[b] = IF b = a THEN new ELSE agents[b]
    BY <1>1, <2>1 DEF ProcessTypes
  <2>6. (LoaderFits /\ PublishedFits)'
    BY <1>1, <2>1 DEF LoaderFits, Registered, PublishedFits
  <2>7. AgentsFit'
    BY <1>1, <2>1, <2>3, <2>5 DEF AgentsFit, Clean
  <2> QED
    BY <2>4, <2>6, <2>7 DEF ReloadInv
<1>11. ASSUME NEW a \in Slots, AgentTurns(a) PROVE ReloadInv'
  <2>1. /\ agents' \in {[agents EXCEPT ![a].state = "busy"], [agents EXCEPT ![a] = NoAgent], [agents EXCEPT ![a] = [agents[a] EXCEPT !.state = "idle"]]}
        /\ UNCHANGED <<files, secretsFile, unsignalled, hup, process, published, redacted, passedOver, loader, homes, poolModel, reloadBudget>>
        /\ agents[a].state # "none"
    BY <1>11 DEF AgentTurns, AgentOnly
  <2>2. agents[a] \in AgentRows
    BY <1>1 DEF ProcessTypes
  <2>3. PICK new \in {[agents[a] EXCEPT !.state = "busy"], NoAgent, [agents[a] EXCEPT !.state = "idle"]} :
          agents' = [agents EXCEPT ![a] = new]
    BY <2>1
  <2>4. new \in AgentRows /\ (new.state # "none" => new.conf = agents[a].conf /\ new.home = agents[a].home
           /\ new.dirty = agents[a].dirty /\ new.overtaken = agents[a].overtaken)
    BY <2>2, ReloadBasics DEF AgentRows, NoAgent
  <2>5. OutsideTypes' /\ ProcessTypes'
    BY <1>1, <2>1, <2>3, <2>4 DEF OutsideTypes, ProcessTypes
  <2>6. \A b \in Slots : agents'[b] = IF b = a THEN new ELSE agents[b]
    BY <1>1, <2>3 DEF ProcessTypes
  <2>7. (LoaderFits /\ PublishedFits)'
    BY <1>1, <2>1 DEF LoaderFits, Registered, PublishedFits
  <2>8. process = "up"
    BY <1>1, <2>1 DEF AgentsFit, NoAgent
  <2>9. AgentsFit'
    BY <1>1, <2>1, <2>4, <2>6, <2>8 DEF AgentsFit, Clean
  <2> QED
    BY <2>5, <2>7, <2>9 DEF ReloadInv
<1>12. CASE UNCHANGED reloadVars
  BY <1>1, <1>2, <1>12 DEF reloadVars, OutsideTypes, ProcessTypes
<1>13. CASE StartProcess \/ TakeSignal \/ ColdBootWaited \/ ReadPath \/ Publish \/ EnsureConfigDefaults
              \/ RegisterConfigTokens
  BY <1>13, LoadStepKept DEF StartProcess, TakeSignal, ColdBootWaited, ReadPath, Publish,
     EnsureConfigDefaults, RegisterConfigTokens, Unchanged
<1>14. CASE StartupFails
  BY <1>1, <1>14, DiedKept DEF StartupFails, OutsideTypes
<1> QED
  BY <1>3, <1>4, <1>5, <1>6, <1>7, <1>8, <1>9, <1>10, <1>11, <1>12, <1>13, <1>14, OutsideKept DEF ReloadNext, ConfigWork

\* However edits, signals, kills and turns meet a reload, a process that is up runs on a
\* configuration that was valid, with its secrets registered, and between two reloads
\* every clean agent was started from it.
THEOREM ReloadIsSafe == ReloadSpec => []ConfigIsSound
<1>1. ReloadSpec => []ReloadInv
  BY ReloadStarts, ReloadKept, PTL DEF ReloadSpec
<1> QED
  BY <1>1, ReloadEnough, PTL

--------------------
(* EnvSync.  A Sync goes through the homes in order, so what it claims of *)
(* all of them at the end it must be able to claim, at every step, of those *)
(* it has passed.  A claim about the clones holds only while the Sync is *)
(* quiet: any change of a clone ends that. *)

RuleSets == [common : Nat, user : Nat, own : Nat]
SyncSteps == {"idle", "id", "idwrite", "jetski", "compile", "user", "own", "swap", "move", "link", "mcp", "skills",
              "relink", "done", "failed"}
Syncs == [pc : SyncSteps, at : Nat \ {0}, compiled : [RuntimeTargets -> RuleSets], backup : RuleSets,
          allowed : SUBSET Skills, quiet : BOOLEAN, warned : BOOLEAN, id : Nat, slips : [Homes -> SUBSET Skills]]
EnvBounds == [pulls : Nat, syncs : Nat, crashes : Nat, faults : Nat, edits : Nat]

CloneTypes ==
    /\ source \in [Files -> Nat] /\ pull \in Nat /\ servers \in [Categories -> SUBSET Servers]
    /\ envBudget \in EnvBounds
HomeTypes ==
    /\ rules \in [Homes -> RuleSets] /\ mcp \in [Homes -> SUBSET Servers]
    /\ skills \in [Homes -> SUBSET Skills] /\ installId \in Nat /\ jetski \in Nat /\ replaced \in SUBSET Nat
    /\ canonical \in [Sessions -> {"none"} \cup Homes] /\ runtimes \in [Homes -> SUBSET Sessions]

\* How far each phase counts.
AtFits ==
    /\ sync.at <= Len(HomeOrder) + 1
    /\ sync.pc \in {"user", "own"} => sync.at <= Len(TargetOrder)
    /\ sync.pc \in {"move", "link", "relink"} => sync.at <= Len(HomeOrder)

\* The id is written before the state that names it.
IdFits ==
    /\ sync.pc = "idwrite" => installId = Torn
    /\ sync.pc = "jetski" => installId = sync.id
    /\ jetski \notin {Missing, Torn} => jetski = installId \/ jetski \in replaced

RulesBegun(r) == r.common # Torn /\ r.user # Torn /\ (r.common # Missing \/ r.user # Missing)
Whole(r) == RulesBegun(r) /\ r.own # Torn
OwnRules(t) == [common |-> source["common"], user |-> source["user"], own |-> source[t]]
\* What is compiled of a target is whole, and current while the Sync is quiet.
Current(t) == Whole(sync.compiled[t]) /\ (sync.quiet => sync.compiled[t] = OwnRules(t))
CompiledFits ==
    /\ sync.pc = "user" =>
          LET r == sync.compiled[TargetOrder[sync.at]] IN
          r.common # Torn /\ (sync.quiet => r.common = source["common"])
    /\ sync.pc = "own" =>
          LET r == sync.compiled[TargetOrder[sync.at]] IN
          RulesBegun(r) /\ (sync.quiet => r.common = source["common"] /\ r.user = source["user"])
    /\ sync.pc \in {"compile", "user", "own"} =>
          \A i \in 1..Len(TargetOrder) : i < sync.at => Current(TargetOrder[i])
    /\ sync.pc \in {"swap", "move", "link"} => \A t \in RuntimeTargets : Current(t)

RulesDone(h) == sync.quiet /\ ~sync.warned => rules[h] = OwnRules(RuntimeTarget(h))
RulesFit ==
    /\ \A h \in Homes : rules[h] # NoRules => Whole(rules[h])
    /\ sync.pc = "move" => (sync.backup # NoRules => Whole(sync.backup))
    /\ sync.pc \in {"swap", "move", "link"} =>
          \A i \in 1..Len(HomeOrder) : i < sync.at =>
             (sync.pc = "move" /\ HomeOrder[i] = Home) \/ RulesDone(HomeOrder[i])
    /\ sync.pc = "link" => RulesDone(Home)
    /\ sync.pc \in {"mcp", "skills", "relink", "done"} => \A h \in Homes : RulesDone(h)

ServersDone(h) == mcp[h] = TargetServers(RuntimeTarget(h))
ServersFit ==
    /\ sync.pc = "mcp" => \A i \in 1..Len(HomeOrder) : i < sync.at => ServersDone(HomeOrder[i])
    /\ sync.pc \in {"skills", "relink", "done"} => \A h \in Homes : ServersDone(h)

SkillsDone(h) ==
    sync.quiet /\ ~sync.warned => skills[h] \ sync.slips[h] = SkillsFor(RuntimeTarget(h)) \ sync.slips[h]
SkillsFit ==
    /\ sync.pc \in {"skills", "relink"} =>
          \A i \in 1..Len(HomeOrder) : i < sync.at => SkillsDone(HomeOrder[i])
    /\ sync.pc = "relink" =>
          /\ skills[Home] \ sync.slips[Home] \subseteq sync.allowed
          /\ sync.quiet => sync.allowed \ sync.slips[Home] = SkillsFor(RuntimeTarget(Home)) \ sync.slips[Home]
    /\ sync.pc = "done" => \A h \in Homes : SkillsDone(h)

EnvInv ==
    /\ CloneTypes /\ HomeTypes /\ sync \in Syncs /\ AtFits /\ IdFits /\ CompiledFits /\ RulesFit
    /\ ServersFit /\ SkillsFit

LEMMA EnvBasics ==
    /\ NoRules \in RuleSets /\ NoSync \in Syncs
    /\ Len(TargetOrder) \in Nat /\ Len(HomeOrder) = Len(TargetOrder) + 1
    /\ \A i \in 1..Len(TargetOrder) : TargetOrder[i] \in RuntimeTargets
    /\ \A t \in RuntimeTargets : \E i \in 1..Len(TargetOrder) : TargetOrder[i] = t
    /\ \A i \in 1..Len(HomeOrder) : HomeOrder[i] \in Homes
    /\ \A h \in Homes : \E i \in 1..Len(HomeOrder) : HomeOrder[i] = h
    /\ \A h \in Homes : RuntimeTarget(h) \in RuntimeTargets
    /\ \A i, j \in 1..Len(HomeOrder) : HomeOrder[i] = HomeOrder[j] => i = j
<1>1. NoRules \in RuleSets
  BY DEF NoRules, RuleSets, Missing
<1>2. NoSync \in Syncs
  BY <1>1 DEF SyncSteps, NoSync, Syncs
<1>3. TargetOrder \in Seq(Homes) /\ <<"primary">> \in Seq(Homes)
  BY EnvAssumption DEF Homes
<1>4. Len(TargetOrder) \in Nat /\ Len(<<"primary">>) = 1 /\ <<"primary">>[1] = "primary"
  BY <1>3
<1>5. /\ Len(HomeOrder) = 1 + Len(TargetOrder)
      /\ \A i \in 1..1 + Len(TargetOrder) :
            HomeOrder[i] = IF i <= 1 THEN <<"primary">>[i] ELSE TargetOrder[i - 1]
  BY <1>3, <1>4, ConcatProperties, Zenon DEF HomeOrder
<1>6. /\ \A i \in 1..Len(TargetOrder) : TargetOrder[i] \in RuntimeTargets
      /\ \A t \in RuntimeTargets : \E i \in 1..Len(TargetOrder) : TargetOrder[i] = t
  BY DEF RuntimeTargets
<1>7. ASSUME NEW i \in 1..Len(HomeOrder) PROVE HomeOrder[i] \in Homes
  BY <1>4, <1>5, <1>6 DEF Homes
<1>8. ASSUME NEW h \in Homes PROVE \E i \in 1..Len(HomeOrder) : HomeOrder[i] = h
  <2>1. CASE h = "primary"
    BY <1>4, <1>5, <2>1
  <2>2. CASE h \in RuntimeTargets
    <3>1. PICK i \in 1..Len(TargetOrder) : TargetOrder[i] = h
      BY <1>6, <2>2
    <3>2. i + 1 \in 1..Len(HomeOrder) /\ HomeOrder[i + 1] = h
      BY <1>4, <1>5, <3>1
    <3> QED
      BY <3>2
  <2> QED
    BY <2>1, <2>2 DEF Homes
<1>9. \A h \in Homes : RuntimeTarget(h) \in RuntimeTargets
  BY EnvAssumption DEF Homes, RuntimeTarget
<1>10. Len(HomeOrder) = Len(TargetOrder) + 1
  BY <1>4, <1>5
<1>11. ASSUME NEW i \in 1..Len(HomeOrder), NEW j \in 1..Len(HomeOrder), HomeOrder[i] = HomeOrder[j] PROVE i = j
  <2>1. \A k \in 1..Len(HomeOrder) : k = 1 \/ (k - 1 \in 1..Len(TargetOrder) /\ HomeOrder[k] = TargetOrder[k - 1])
    BY <1>4, <1>5
  <2>2. HomeOrder[1] = "primary" /\ "primary" \notin RuntimeTargets
    BY <1>4, <1>5, EnvAssumption
  <2>3. (i = 1) = (j = 1)
    BY <1>6, <1>11, <2>1, <2>2
  <2>4. CASE i # 1 /\ j # 1
    <3>1. i - 1 = j - 1
      BY <1>11, <2>1, <2>4, EnvAssumption
    <3> QED
      BY <1>4, <1>5, <3>1
  <2> QED
    BY <2>3, <2>4
<1> QED
  BY <1>1, <1>2, <1>4, <1>6, <1>7, <1>8, <1>9, <1>10, <1>11

LEMMA EnvStarts == EnvInit => EnvInv
<1> SUFFICES ASSUME EnvInit PROVE EnvInv
  OBVIOUS
<1>1. CloneTypes
  <2>1. source \in [Files -> Nat] /\ pull \in Nat
    BY DEF EnvInit, Missing
  <2>2. servers \in [Categories -> SUBSET Servers] /\ envBudget \in EnvBounds
    BY EnvAssumption DEF EnvInit, Categories, EnvBounds
  <2> QED
    BY <2>1, <2>2 DEF CloneTypes
<1>2. HomeTypes
  BY EnvBasics DEF EnvInit, HomeTypes
<1>3. sync \in Syncs /\ sync.pc = "idle" /\ sync.at = 1
  BY EnvBasics DEF EnvInit, NoSync
<1>4. AtFits /\ IdFits
  BY <1>3, EnvBasics DEF EnvInit, AtFits, IdFits, Missing
<1>5. CompiledFits /\ ServersFit /\ SkillsFit
  BY <1>3 DEF CompiledFits, ServersFit, SkillsFit
<1>6. RulesFit
  BY <1>3 DEF EnvInit, RulesFit
<1> QED
  BY <1>1, <1>2, <1>3, <1>4, <1>5, <1>6 DEF EnvInv

LEMMA EnvEnough == EnvInv => EnvIsSound
<1> SUFFICES ASSUME EnvInv PROVE EnvIsSound
  OBVIOUS
<1>1. EnvTypeOK
  <2>1. sync.at \in 1..Len(HomeOrder) + 1 /\ sync.allowed \subseteq Skills
    BY EnvBasics DEF EnvInv, AtFits, Syncs
  <2>2. \A h \in Homes : rules[h].common \in Nat /\ rules[h].user \in Nat /\ rules[h].own \in Nat
    BY DEF EnvInv, HomeTypes, RuleSets
  <2> QED
    BY <2>1, <2>2 DEF EnvInv, HomeTypes, CloneTypes, EnvTypeOK
<1>2. RulesAreWhole
  BY DEF EnvInv, RulesFit, RulesAreWhole, Whole, RulesBegun
<1>3. CleanSyncIsComplete
  BY Zenon DEF EnvInv, RulesFit, ServersFit, SkillsFit, RulesDone, ServersDone, SkillsDone, OwnRules, CleanSyncIsComplete
<1>4. ProxyKnowsServers
  <2> SUFFICES ASSUME sync.pc \in {"skills", "relink", "done"}, NEW h \in Homes
               PROVE  TargetServers(RuntimeTarget(h)) \subseteq Upstream
    BY DEF EnvInv, ServersFit, ServersDone, ProxyKnowsServers
  <2>1. RuntimeTarget(h) \in Categories /\ "common" \in Categories /\ "base" \in Categories
    BY EnvBasics DEF Categories
  <2>2. \A c \in Categories : servers[c] \subseteq Upstream
    BY DEF Upstream
  <2> QED
    BY <2>1, <2>2 DEF TargetServers
<1>5. JetskiNamesInstallation
  BY DEF EnvInv, IdFits, JetskiNamesInstallation
<1> QED
  BY <1>1, <1>2, <1>3, <1>4, <1>5 DEF EnvIsSound

--------------------
\* What changes a clone ends the quiet, and touches no home.
LEMMA PullKept ==
    ASSUME EnvInv, PullStarts \/ PullEnds \/ \E i \in 1..Len(PullOrder) : PullTears(i) PROVE EnvInv'
<1>1. /\ sync' = [sync EXCEPT !.quiet = FALSE]
      /\ UNCHANGED <<servers, rules, mcp, skills, installId, replaced, jetski, canonical, runtimes>>
  BY DEF PullStarts, PullEnds, PullTears, SourceMoved, CloneOnly
<1>2. sync \in Syncs
  BY DEF EnvInv
<1>3. /\ sync' \in Syncs /\ sync'.pc = sync.pc /\ sync'.at = sync.at /\ sync'.compiled = sync.compiled
      /\ sync'.backup = sync.backup /\ sync'.allowed = sync.allowed /\ ~sync'.quiet /\ sync'.id = sync.id
      /\ sync'.slips = sync.slips
  BY <1>1, <1>2 DEF Syncs
<1>4. CloneTypes'
  <2>1. source \in [Files -> Nat] /\ pull \in Nat /\ servers \in [Categories -> SUBSET Servers]
        /\ envBudget \in EnvBounds
    BY DEF EnvInv, CloneTypes
  <2>2. CASE PullStarts
    <3>1. pull' = envBudget.pulls + 1 /\ source' = source
          /\ envBudget' = [envBudget EXCEPT !["pulls"] = @ - 1] /\ envBudget["pulls"] > 0
      BY <2>2 DEF PullStarts, SpendEnv
    <3>2. envBudget' \in EnvBounds /\ pull' \in Nat
      BY <2>1, <3>1 DEF EnvBounds
    <3> QED
      BY <1>1, <2>1, <3>1, <3>2 DEF CloneTypes
  <2>3. CASE PullEnds
    BY <2>1, <2>3, <1>1 DEF PullEnds, Missing, CloneTypes
  <2>4. ASSUME NEW i \in 1..Len(PullOrder), PullTears(i) PROVE CloneTypes'
    <3>1. PICK c \in {Torn, Missing, Half} :
            source' = [f \in Files |-> IF f = PullOrder[i] THEN c
                                       ELSE IF f \in {PullOrder[k] : k \in 1..i - 1} THEN pull
                                       ELSE source[f]]
      BY <2>4 DEF PullTears
    <3>2. c \in Nat
      BY DEF Torn, Missing, Half
    <3>3. source' \in [Files -> Nat]
      BY <2>1, <3>1, <3>2
    <3> QED
      BY <2>1, <2>4, <1>1, <3>3 DEF PullTears, CloneTypes
  <2> QED
    BY <2>2, <2>3, <2>4
<1>5. HomeTypes' /\ AtFits' /\ IdFits'
  BY <1>1, <1>3 DEF EnvInv, HomeTypes, AtFits, IdFits
<1>6. CompiledFits'
  BY <1>3, Zenon DEF EnvInv, CompiledFits, Current
<1>7. RulesFit'
  BY <1>1, <1>3, Zenon DEF EnvInv, RulesFit, RulesDone, Home
<1>8. ServersFit'
  BY <1>1, <1>3, Zenon DEF EnvInv, ServersFit, ServersDone, TargetServers
<1>9. SkillsFit'
  BY <1>1, <1>3, Zenon DEF EnvInv, SkillsFit, SkillsDone, Home
<1> QED
  BY <1>3, <1>4, <1>5, <1>6, <1>7, <1>8, <1>9 DEF EnvInv

\* A Sync that is not there, has just begun or has failed claims nothing.
LEMMA NoClaimKept ==
    ASSUME EnvInv, CloneTypes', HomeTypes', sync' \in Syncs, UNCHANGED <<installId, replaced>>,
           jetski' \in {jetski, Torn}, sync'.pc \in {"idle", "id", "failed"}, sync'.at = 1,
           rules' = rules \/ \E h \in Homes : (sync.pc = "move" /\ rules' = [rules EXCEPT ![h] = sync.backup])
    PROVE  EnvInv'
<1>1. AtFits' /\ IdFits'
  BY EnvBasics DEF EnvInv, AtFits, IdFits
<1>2. CompiledFits' /\ ServersFit' /\ SkillsFit'
  BY DEF CompiledFits, ServersFit, SkillsFit
<1>3. RulesFit'
  BY DEF EnvInv, RulesFit, HomeTypes, Whole, RulesBegun, NoRules
<1> QED
  BY <1>1, <1>2, <1>3 DEF EnvInv

LEMMA EnvSpends ==
    ASSUME EnvInv PROVE
    /\ \A what \in {"pulls", "syncs", "crashes", "faults", "edits"} : SpendEnv(what) => envBudget' \in EnvBounds
    /\ RollbackFails => envBudget' \in EnvBounds
BY DEF EnvInv, CloneTypes, SpendEnv, RollbackFails, EnvBounds

\* Steps of a Sync leave the clones alone.
LEMMA ClonesKept ==
    ASSUME EnvInv, SyncOnly, envBudget' = envBudget \/ envBudget' \in EnvBounds PROVE CloneTypes'
BY DEF EnvInv, CloneTypes, SyncOnly

LEMMA IdleKept ==
    ASSUME EnvInv, ConfigChanges \/ Crash \/ StartSync \/ SyncReturns \/ \E h \in Homes, s \in Sessions : AgentKeepsConversation(h, s)
    PROVE  EnvInv'
<1>1. CASE ConfigChanges
  <2>1. /\ sync.pc = "idle" /\ servers' \in ServerPlans /\ SpendEnv("edits")
        /\ UNCHANGED <<source, pull, sync, rules, mcp, skills, installId, replaced, jetski, canonical, runtimes>>
    BY <1>1 DEF ConfigChanges, CloneOnly
  <2>2. CloneTypes'
    BY <2>1, EnvAssumption, EnvSpends DEF Categories, EnvInv, CloneTypes
  <2>3. HomeTypes' /\ AtFits' /\ IdFits' /\ sync' \in Syncs
    BY <2>1 DEF EnvInv, HomeTypes, AtFits, IdFits
  <2>4. CompiledFits' /\ ServersFit' /\ SkillsFit'
    BY <2>1 DEF CompiledFits, ServersFit, SkillsFit
  <2>5. RulesFit'
    BY <2>1 DEF EnvInv, RulesFit
  <2> QED
    BY <2>2, <2>3, <2>4, <2>5 DEF EnvInv
<1>2. ASSUME NEW h \in Homes, NEW s \in Sessions, AgentKeepsConversation(h, s) PROVE EnvInv'
  <2>1. /\ sync.pc = "idle" /\ SpendEnv("faults") /\ runtimes' = [runtimes EXCEPT ![h] = @ \cup {s}]
        /\ UNCHANGED <<source, pull, servers, sync, rules, mcp, skills, installId, replaced, jetski, canonical>>
    BY <1>2 DEF AgentKeepsConversation
  <2>2. CloneTypes'
    BY <2>1, EnvSpends DEF EnvInv, CloneTypes
  <2>3. HomeTypes' /\ AtFits' /\ IdFits' /\ sync' \in Syncs
    BY <2>1 DEF EnvInv, HomeTypes, AtFits, IdFits
  <2>4. CompiledFits' /\ ServersFit' /\ SkillsFit'
    BY <2>1 DEF CompiledFits, ServersFit, SkillsFit
  <2>5. RulesFit'
    BY <2>1 DEF EnvInv, RulesFit
  <2> QED
    BY <2>2, <2>3, <2>4, <2>5 DEF EnvInv
<1>3. CASE Crash \/ SyncReturns
  <2>1. /\ sync' = NoSync /\ SyncOnly /\ UNCHANGED <<rules, mcp, skills, installId, replaced, jetski>>
        /\ (SpendEnv("crashes") \/ UNCHANGED envBudget)
    BY <1>3 DEF Crash, SyncReturns
  <2>2. CloneTypes'
    BY <2>1, EnvSpends, ClonesKept
  <2>3. HomeTypes'
    BY <2>1 DEF EnvInv, HomeTypes, SyncOnly
  <2>4. sync' \in Syncs /\ sync'.pc = "idle" /\ sync'.at = 1
    BY <2>1, EnvBasics DEF NoSync
  <2> QED
    BY <2>1, <2>2, <2>3, <2>4, NoClaimKept
<1>4. CASE StartSync
  BY <1>4, EnvSpends, ClonesKept, EnvBasics, NoClaimKept DEF StartSync, EnvInv, HomeTypes,
     SyncOnly, NoSync, Syncs, SyncSteps
<1> QED
  BY <1>1, <1>2, <1>3, <1>4

\* What the fields of the Sync are after its counter and its step changed.
SameRest ==
    /\ sync'.compiled = sync.compiled /\ sync'.backup = sync.backup /\ sync'.allowed = sync.allowed
    /\ sync'.quiet = sync.quiet /\ sync'.id = sync.id /\ sync'.slips = sync.slips
LEMMA SyncMoves ==
    ASSUME EnvInv, NEW p \in SyncSteps, NEW n \in Nat \ {0}
    PROVE  /\ sync' = [sync EXCEPT !.pc = p, !.at = n] =>
                 sync' \in Syncs /\ sync'.pc = p /\ sync'.at = n /\ SameRest /\ sync'.warned = sync.warned
           /\ sync' = [sync EXCEPT !.at = n, !.pc = p] =>
                 sync' \in Syncs /\ sync'.pc = p /\ sync'.at = n /\ SameRest /\ sync'.warned = sync.warned
           /\ sync' = [sync EXCEPT !.at = n, !.pc = p, !.warned = TRUE] =>
                 sync' \in Syncs /\ sync'.pc = p /\ sync'.at = n /\ SameRest /\ sync'.warned
<1> DEFINE Ats == Nat \ {0}
           SyncRecords ==
               [pc : SyncSteps, at : Ats, compiled : [RuntimeTargets -> RuleSets], backup : RuleSets,
                    allowed : SUBSET Skills, quiet : BOOLEAN, warned : BOOLEAN, id : Nat, slips : [Homes -> SUBSET Skills]]
<1>1. sync \in SyncRecords /\ n \in Ats
  BY DEF EnvInv, Syncs
<1>2. SyncRecords = Syncs
  BY DEF Syncs
<1> HIDE DEF Ats
<1>3. ASSUME sync' = [sync EXCEPT !.pc = p, !.at = n]
      PROVE  sync' \in SyncRecords /\ sync'.pc = p /\ sync'.at = n /\ SameRest /\ sync'.warned = sync.warned
  BY <1>1, <1>3 DEF SameRest
<1>4. ASSUME sync' = [sync EXCEPT !.at = n, !.pc = p]
      PROVE  sync' \in SyncRecords /\ sync'.pc = p /\ sync'.at = n /\ SameRest /\ sync'.warned = sync.warned
  BY <1>1, <1>4 DEF SameRest
<1>5. ASSUME sync' = [sync EXCEPT !.at = n, !.pc = p, !.warned = TRUE]
      PROVE  sync' \in SyncRecords /\ sync'.pc = p /\ sync'.at = n /\ SameRest /\ sync'.warned
  BY <1>1, <1>5 DEF SameRest
<1> HIDE DEF SyncRecords
<1> QED
  BY <1>2, <1>3, <1>4, <1>5, Zenon

\* An Abort keeps what was done.
LEMMA AbortGoes == ASSUME EnvInv, Abort PROVE sync' \in Syncs /\ sync'.pc = "failed" /\ sync'.at = 1
<1>1. "failed" \in SyncSteps /\ 1 \in Nat \ {0}
  BY DEF SyncSteps
<1> QED
  BY <1>1, SyncMoves, Zenon DEF Abort, SyncGoto

\* provisionOAuthState.
LEMMA OAuthKept ==
    ASSUME EnvInv, ReadInstallId \/ WriteInstallId \/ SeedJetski PROVE EnvInv'
<1>1. SyncOnly /\ UNCHANGED <<rules, mcp, skills>> /\ (SpendEnv("faults") \/ UNCHANGED envBudget)
  BY DEF ReadInstallId, WriteInstallId, SeedJetski, Faulted
<1>2. sync \in Syncs /\ installId \in Nat /\ replaced \in SUBSET Nat /\ jetski \in Nat /\ envBudget \in EnvBounds
  BY DEF EnvInv, HomeTypes, CloneTypes
<1>3. CloneTypes'
  BY <1>1, EnvSpends, ClonesKept
<1>4. FreshId \in Nat
  BY <1>2 DEF FreshId, EnvBounds
<1>5. ASSUME sync' \in Syncs, sync'.pc \in {"idwrite", "jetski", "compile"},
             sync'.at = sync.at \/ sync'.at = 1, installId' \in Nat, replaced' \in SUBSET Nat, jetski' \in Nat, IdFits',
             sync'.pc = "compile" => sync'.at = 1
      PROVE  EnvInv'
  BY <1>1, <1>5, EnvBasics, <1>3 DEF EnvInv, HomeTypes, AtFits, SyncOnly, CompiledFits,
     ServersFit, SkillsFit, RulesFit
<1>6. CASE ReadInstallId
  <2>1. CASE sync' = [sync EXCEPT !.pc = "jetski", !.id = installId] /\ UNCHANGED <<installId, replaced>>
    <3>1. jetski' = jetski
      BY <1>6 DEF ReadInstallId
    <3>2. sync' \in Syncs /\ sync'.pc = "jetski" /\ sync'.at = sync.at /\ sync'.id = installId
      BY <1>2, <2>1 DEF Syncs, SyncSteps
    <3> QED
      BY <1>2, <1>5, <2>1, <3>1, <3>2 DEF EnvInv, IdFits
  <2>2. CASE /\ sync' = [sync EXCEPT !.pc = "idwrite", !.id = FreshId]
             /\ installId' = Torn /\ replaced' = replaced \cup {installId}
    <3>1. jetski' = jetski
      BY <1>6 DEF ReadInstallId
    <3>2. sync' \in Syncs /\ sync'.pc = "idwrite" /\ sync'.at = sync.at
      BY <1>2, <1>4, <2>2 DEF Syncs, SyncSteps
    <3>3. IdFits' /\ Torn \in Nat
      BY <2>2, <3>1, <3>2 DEF EnvInv, IdFits, Missing, Torn
    <3>4. replaced' \in SUBSET Nat
      BY <1>2, <2>2
    <3> QED
      BY <1>2, <1>5, <2>2, <3>1, <3>2, <3>3, <3>4
  <2>3. CASE Abort /\ UNCHANGED <<installId, replaced>>
    <3>1. jetski' = jetski /\ HomeTypes'
      BY <1>1, <1>6, <2>3 DEF ReadInstallId, EnvInv, HomeTypes, SyncOnly
    <3> QED
      BY <1>1, <1>3, <2>3, <3>1, AbortGoes, NoClaimKept
  <2> QED
    BY <1>6, <2>1, <2>2, <2>3 DEF ReadInstallId
<1>7. CASE WriteInstallId
  <2>1. CASE installId' = sync.id /\ sync' = [sync EXCEPT !.pc = "jetski"]
    <3>1. sync.pc = "idwrite" /\ replaced' = replaced /\ jetski' = jetski
      BY <1>7 DEF WriteInstallId
    <3>2. sync' \in Syncs /\ sync'.pc = "jetski" /\ sync'.at = sync.at /\ sync'.id = sync.id /\ sync.id \in Nat
      BY <1>2, <2>1 DEF Syncs, SyncSteps
    <3>3. IdFits'
      BY <2>1, <3>1, <3>2 DEF EnvInv, IdFits
    <3> QED
      BY <1>2, <1>5, <2>1, <3>1, <3>2, <3>3
  <2>2. CASE Abort /\ UNCHANGED installId
    <3>1. jetski' = jetski /\ replaced' = replaced /\ HomeTypes'
      BY <1>1, <1>7, <2>2 DEF WriteInstallId, EnvInv, HomeTypes, SyncOnly
    <3> QED
      BY <1>1, <1>3, <2>2, <3>1, AbortGoes, NoClaimKept
  <2> QED
    BY <1>7, <2>1, <2>2 DEF WriteInstallId
<1>8. CASE SeedJetski
  <2>1. CASE jetski' \in {jetski, sync.id} /\ SyncGoto("compile")
    <3>1. installId' = installId /\ replaced' = replaced /\ sync.pc = "jetski"
      BY <1>8 DEF SeedJetski
    <3>4. "compile" \in SyncSteps /\ 1 \in Nat \ {0} /\ sync.id \in Nat
      BY <1>2 DEF Syncs, SyncSteps
    <3>2. sync' \in Syncs /\ sync'.pc = "compile" /\ sync'.at = 1 /\ sync.id \in Nat
      BY <2>1, <3>4, SyncMoves, Zenon DEF SyncGoto
    <3>3. IdFits'
      BY <2>1, <3>1, <3>2 DEF EnvInv, IdFits
    <3> QED
      BY <1>2, <1>5, <2>1, <3>1, <3>2, <3>3
  <2>2. CASE jetski' = Torn /\ Abort
    BY <1>8, <1>1, <2>2, <1>3, AbortGoes, NoClaimKept DEF SeedJetski, EnvInv, HomeTypes, SyncOnly,
       Torn
  <2> QED
    BY <1>8, <2>1, <2>2 DEF SeedJetski
<1> QED
  BY <1>6, <1>7, <1>8

--------------------
\* SyncRules, first half: compile every target.
LEMMA CompileKept ==
    ASSUME EnvInv, CompileCommon \/ CompileUser \/ CompileOwn \/ Compiled PROVE EnvInv'
<1>1. SyncOnly /\ UNCHANGED <<rules, mcp, skills, installId, replaced, jetski, envBudget>>
  BY DEF CompileCommon, CompileUser, CompileOwn, Compiled
<1>2. /\ sync \in Syncs /\ source \in [Files -> Nat] /\ sync.compiled \in [RuntimeTargets -> RuleSets]
      /\ sync.at \in Nat \ {0} /\ Len(TargetOrder) \in Nat /\ Len(HomeOrder) = Len(TargetOrder) + 1
  BY EnvBasics DEF EnvInv, CloneTypes, Syncs
<1>3. CloneTypes' /\ HomeTypes'
  BY <1>1 DEF EnvInv, CloneTypes, HomeTypes, SyncOnly
<1>4. CASE Abort
  BY <1>1, <1>3, <1>4, AbortGoes, NoClaimKept
<1> DEFINE t == TargetOrder[sync.at]
<1>5. ASSUME sync' \in Syncs, sync'.pc \in {"compile", "user", "own", "swap"}, AtFits', CompiledFits',
             sync'.pc = "swap" => sync'.at = 1
      PROVE  EnvInv'
  BY <1>1, <1>5, <1>2, <1>3 DEF EnvInv, IdFits, ServersFit, SkillsFit, RulesFit
<1>6. ASSUME sync.pc \in {"compile", "user", "own"}, sync.at <= Len(TargetOrder)
      PROVE  t \in RuntimeTargets /\ t \in Files /\ {"common", "user"} \subseteq Files
             /\ sync.compiled[t] \in RuleSets
             /\ source[t] \in Nat /\ source["common"] \in Nat /\ source["user"] \in Nat
  BY <1>2, <1>6, EnvBasics DEF Files, RuleDirs
<1>7. ASSUME CompileCommon, ~Abort PROVE EnvInv'
  <2> DEFINE r == [sync.compiled[t] EXCEPT !.common = source["common"]]
             compiled == [sync.compiled EXCEPT ![t] = r]
  <2>1. /\ sync.pc = "compile" /\ sync.at <= Len(TargetOrder) /\ source["common"] # Torn
        /\ sync' = [sync EXCEPT !.pc = "user", !.compiled = compiled]
    BY <1>7 DEF CompileCommon
  <2>2. /\ r \in RuleSets /\ r.common = source["common"] /\ r.user = sync.compiled[t].user
        /\ r.own = sync.compiled[t].own
        /\ compiled \in [RuntimeTargets -> RuleSets] /\ compiled[t] = r
        /\ \A u \in RuntimeTargets : u # t => compiled[u] = sync.compiled[u]
    BY <1>2, <1>6, <2>1 DEF RuleSets
  <2> HIDE DEF compiled, r
  <2>3. /\ sync' \in Syncs /\ sync'.pc = "user" /\ sync'.at = sync.at /\ sync'.compiled = compiled
        /\ sync'.quiet = sync.quiet
    BY <1>2, <2>1, <2>2 DEF Syncs, SyncSteps
  <2>4. AtFits'
    BY <1>2, <2>1, <2>3 DEF EnvInv, AtFits
  <2>5. ASSUME NEW i \in 1..Len(TargetOrder), i < sync.at PROVE Current(TargetOrder[i])'
    <3>1. Current(TargetOrder[i]) /\ TargetOrder[i] \in RuntimeTargets
      BY <2>1, <2>5, EnvBasics DEF EnvInv, CompiledFits
    <3>2. CASE TargetOrder[i] # t
      BY <1>1, <2>2, <2>3, <3>1, <3>2 DEF Current, OwnRules, SyncOnly
    <3>3. TargetOrder[i] # t
      BY <1>2, <2>1, <2>5, EnvAssumption
    <3> QED
      BY <3>2, <3>3
  <2>6. CompiledFits'
    BY <1>1, <2>1, <2>2, <2>3, <2>5 DEF CompiledFits, SyncOnly
  <2> QED
    BY <1>5, <2>3, <2>4, <2>6
<1>8. ASSUME CompileOwn, ~Abort PROVE EnvInv'
  <2> DEFINE r == [sync.compiled[t] EXCEPT !.own = source[t]]
             compiled == [sync.compiled EXCEPT ![t] = r]
             next == sync.at + 1
  <2>1. /\ sync.pc = "own" /\ sync.at <= Len(TargetOrder) /\ source[t] # Torn
        /\ sync' = [sync EXCEPT !.pc = "compile", !.at = next, !.compiled = compiled]
    BY <1>8 DEF CompileOwn, EnvInv, AtFits
  <2>2. /\ r \in RuleSets /\ r.common = sync.compiled[t].common /\ r.user = sync.compiled[t].user /\ r.own = source[t]
        /\ compiled \in [RuntimeTargets -> RuleSets] /\ compiled[t] = r
        /\ \A u \in RuntimeTargets : u # t => compiled[u] = sync.compiled[u]
    BY <1>2, <1>6, <2>1 DEF RuleSets
  <2>7. next \in Nat \ {0} /\ next <= Len(HomeOrder)
        /\ \A i \in 1..Len(TargetOrder) : i < next => i < sync.at \/ i = sync.at
    BY <1>2, <2>1
  <2>8. /\ RulesBegun(sync.compiled[t])
        /\ sync.quiet => sync.compiled[t].common = source["common"] /\ sync.compiled[t].user = source["user"]
    BY <2>1 DEF EnvInv, CompiledFits
  <2>9. Whole(r) /\ (sync.quiet => r = OwnRules(t))
    BY <2>1, <2>2, <2>8 DEF Whole, RulesBegun, OwnRules, RuleSets
  <2> HIDE DEF compiled, r, next
  <2>3. /\ sync' \in Syncs /\ sync'.pc = "compile" /\ sync'.at = next /\ sync'.compiled = compiled
        /\ sync'.quiet = sync.quiet
    BY <1>2, <2>7, <2>1, <2>2 DEF Syncs, SyncSteps
  <2>4. AtFits'
    BY <1>2, <2>3, <2>7 DEF AtFits
  <2>5. ASSUME NEW i \in 1..Len(TargetOrder), i < next PROVE Current(TargetOrder[i])'
    <3>1. TargetOrder[i] \in RuntimeTargets
      BY EnvBasics
    <3>2. CASE TargetOrder[i] # t
      BY <2>5, <2>7, <3>2, <2>1, <1>1, <2>2, <2>3, <3>1 DEF EnvInv, CompiledFits, Current,
         OwnRules, SyncOnly
    <3>3. CASE TargetOrder[i] = t
      BY <1>1, <2>2, <2>3, <2>9, <3>3 DEF Current, OwnRules, SyncOnly
    <3> QED
      BY <3>2, <3>3
  <2>6. CompiledFits'
    BY <2>3, <2>5 DEF CompiledFits
  <2> QED
    BY <1>5, <2>3, <2>4, <2>6
<1>10. ASSUME CompileUser, ~Abort PROVE EnvInv'
  <2> DEFINE r == [sync.compiled[t] EXCEPT !.user = source["user"]]
             compiled == [sync.compiled EXCEPT ![t] = r]
  <2>1. /\ sync.pc = "user" /\ sync.at <= Len(TargetOrder) /\ source["user"] # Torn
        /\ {source["user"], sync.compiled[t].common} # {Missing}
        /\ sync' = [sync EXCEPT !.pc = "own", !.compiled = compiled]
    BY <1>10 DEF CompileUser, EnvInv, AtFits
  <2>2. /\ r \in RuleSets /\ r.common = sync.compiled[t].common /\ r.user = source["user"]
        /\ compiled \in [RuntimeTargets -> RuleSets] /\ compiled[t] = r
        /\ \A u \in RuntimeTargets : u # t => compiled[u] = sync.compiled[u]
    BY <1>2, <1>6, <2>1 DEF RuleSets
  <2>8. /\ RulesBegun(r)
        /\ sync.quiet => r.common = source["common"] /\ r.user = source["user"]
    BY <2>1, <2>2 DEF EnvInv, CompiledFits, RulesBegun
  <2> HIDE DEF compiled, r
  <2>3. /\ sync' \in Syncs /\ sync'.pc = "own" /\ sync'.at = sync.at /\ sync'.compiled = compiled
        /\ sync'.quiet = sync.quiet
    BY <1>2, <2>1, <2>2 DEF Syncs, SyncSteps
  <2>4. AtFits'
    BY <1>2, <2>1, <2>3 DEF EnvInv, AtFits
  <2>5. ASSUME NEW i \in 1..Len(TargetOrder), i < sync.at PROVE Current(TargetOrder[i])'
    <3>1. Current(TargetOrder[i]) /\ TargetOrder[i] \in RuntimeTargets
      BY <2>1, <2>5, EnvBasics DEF EnvInv, CompiledFits
    <3>2. TargetOrder[i] # t
      BY <1>2, <2>1, <2>5, EnvAssumption
    <3> QED
      BY <1>1, <2>2, <2>3, <3>1, <3>2 DEF Current, OwnRules, SyncOnly
  <2>6. CompiledFits'
    BY <1>1, <2>1, <2>2, <2>3, <2>5, <2>8 DEF CompiledFits, SyncOnly
  <2> QED
    BY <1>5, <2>3, <2>4, <2>6
<1>9. CASE Compiled
  <2>1. sync.pc = "compile" /\ sync.at > Len(TargetOrder) /\ sync' = [sync EXCEPT !.pc = "swap", !.at = 1]
    BY <1>9 DEF Compiled, SyncGoto
  <2>2. "swap" \in SyncSteps /\ 1 \in Nat \ {0}
    BY DEF SyncSteps
  <2>3. sync' \in Syncs /\ sync'.pc = "swap" /\ sync'.at = 1 /\ SameRest
    BY <2>1, <2>2, SyncMoves, Zenon
  <2>4. AtFits'
    BY <1>2, <2>3 DEF AtFits
  <2>5. ASSUME NEW u \in RuntimeTargets PROVE Current(u)'
    BY EnvBasics, <1>2, <2>1, <1>1, <2>3 DEF EnvInv, CompiledFits, Current, OwnRules, SyncOnly,
       SameRest
  <2>6. CompiledFits'
    BY <2>3, <2>5 DEF CompiledFits
  <2> QED
    BY <1>5, <2>3, <2>4, <2>6
<1> QED
  BY <1>4, <1>7, <1>8, <1>9, <1>10

--------------------
\* What the second half of a Sync knows of the home it is at.
LEMMA HomeFacts ==
    ASSUME EnvInv
    PROVE  /\ sync.at \in Nat \ {0} /\ Len(HomeOrder) \in Nat /\ sync \in Syncs
           /\ sync.at <= Len(HomeOrder) =>
                 sync.at \in 1..Len(HomeOrder) /\ Home \in Homes /\ RuntimeTarget(Home) \in RuntimeTargets
           /\ sync.at + 1 \in Nat \ {0}
           /\ \A i \in 1..Len(HomeOrder) : HomeOrder[i] \in Homes /\ (i < sync.at + 1 => i < sync.at \/ i = sync.at)
BY EnvBasics DEF EnvInv, Syncs, Home

\* SyncRules, second half: swap the directory of one home after the other.
LEMMA BackUpKept == ASSUME EnvInv, BackUpRules PROVE EnvInv'
<1>1. /\ sync.pc = "swap" /\ sync.at <= Len(HomeOrder) /\ SyncOnly
      /\ UNCHANGED <<mcp, skills, installId, replaced, jetski>>
      /\ (SpendEnv("faults") \/ UNCHANGED envBudget)
  BY DEF BackUpRules, Faulted
<1>2. CloneTypes'
  BY <1>1, EnvSpends, ClonesKept
<1>3. Home \in Homes /\ sync.at \in 1..Len(HomeOrder) /\ rules \in [Homes -> RuleSets] /\ sync \in Syncs
  BY <1>1, HomeFacts DEF EnvInv, HomeTypes
<1>4. CASE rules' = [rules EXCEPT ![Home] = NoRules] /\ sync' = [sync EXCEPT !.pc = "move", !.backup = rules[Home]]
  <2> DEFINE old == rules[Home]
  <2>1. old \in RuleSets /\ (old # NoRules => Whole(old))
    BY <1>3 DEF EnvInv, RulesFit
  <2>2. sync' = [sync EXCEPT !.pc = "move", !.backup = old]
    BY <1>4
  <2> HIDE DEF old
  <2>3. /\ sync' \in Syncs /\ sync'.pc = "move" /\ sync'.at = sync.at /\ sync'.compiled = sync.compiled
        /\ sync'.backup = old /\ sync'.quiet = sync.quiet /\ sync'.warned = sync.warned
    BY <1>3, <2>1, <2>2 DEF Syncs, SyncSteps
  <2>4. \A h \in Homes : rules'[h] = IF h = Home THEN NoRules ELSE rules[h]
    BY <1>3, <1>4
  <2>5. HomeTypes'
    BY <1>1, <1>3, <1>4, EnvBasics DEF EnvInv, HomeTypes, SyncOnly
  <2>6. AtFits' /\ IdFits' /\ ServersFit' /\ SkillsFit'
    BY <1>1, <2>3 DEF EnvInv, AtFits, IdFits, ServersFit, SkillsFit
  <2>7. CompiledFits'
    BY <1>1, <2>3, Zenon DEF EnvInv, CompiledFits, Current, OwnRules, SyncOnly
  <2>8. \A h \in Homes : rules'[h] # NoRules => Whole(rules'[h])
    BY <2>4 DEF EnvInv, RulesFit
  <2>9. ASSUME NEW i \in 1..Len(HomeOrder), i < sync.at, HomeOrder[i] # Home PROVE RulesDone(HomeOrder[i])'
    BY <1>1, <2>9, HomeFacts, <2>4, <2>3 DEF EnvInv, RulesFit, RulesDone, OwnRules, SyncOnly
  <2>10. RulesFit'
    BY <2>3, <2>8, <2>1, <2>9 DEF Home, NoRules, Whole, RulesBegun, RulesFit
  <2> QED
    BY <1>2, <2>3, <2>5, <2>6, <2>7, <2>10 DEF EnvInv
<1>5. CASE SwapFails /\ UNCHANGED rules
  <2>1. HomeTypes'
    BY <1>1, <1>5 DEF EnvInv, HomeTypes, SyncOnly
  <2>2. CASE Abort
    BY <1>1, <1>2, <1>5, <2>1, <2>2, AbortGoes, NoClaimKept
  <2>3. CASE sync' = [sync EXCEPT !.at = sync.at + 1, !.pc = "swap", !.warned = TRUE]
    <3>1. "swap" \in SyncSteps /\ sync.at + 1 \in Nat \ {0}
      BY HomeFacts DEF SyncSteps
    <3>2. sync' \in Syncs /\ sync'.pc = "swap" /\ sync'.at = sync.at + 1 /\ SameRest /\ sync'.warned
      BY <2>3, <3>1, SyncMoves, Zenon
    <3>3. AtFits' /\ IdFits' /\ ServersFit' /\ SkillsFit'
      BY <1>1, <1>3, <3>2, HomeFacts DEF EnvInv, AtFits, IdFits, ServersFit, SkillsFit
    <3>4. CompiledFits'
      BY <1>1, <3>2, Zenon DEF EnvInv, CompiledFits, Current, OwnRules, SyncOnly, SameRest
    <3>5. RulesFit'
      BY <1>5, <3>2 DEF EnvInv, RulesFit, RulesDone
    <3> QED
      BY <1>2, <2>1, <3>2, <3>3, <3>4, <3>5 DEF EnvInv
  <2> QED
    BY <1>5, <2>2, <2>3 DEF SwapFails
<1> QED
  BY <1>4, <1>5 DEF BackUpRules

LEMMA MoveKept == ASSUME EnvInv, MoveRules PROVE EnvInv'
<1>1. /\ sync.pc = "move" /\ SyncOnly /\ UNCHANGED <<mcp, skills, installId, replaced, jetski>>
      /\ (SpendEnv("faults") \/ RollbackFails \/ UNCHANGED envBudget)
  BY DEF MoveRules, Faulted
<1>2. CloneTypes'
  BY <1>1, EnvSpends, ClonesKept
<1>3. /\ Home \in Homes /\ sync.at \in 1..Len(HomeOrder) /\ rules \in [Homes -> RuleSets] /\ sync \in Syncs
      /\ RuntimeTarget(Home) \in RuntimeTargets /\ sync.at <= Len(HomeOrder)
  BY <1>1, HomeFacts DEF EnvInv, HomeTypes, AtFits
<1>4. sync.compiled \in [RuntimeTargets -> RuleSets] /\ sync.backup \in RuleSets
  BY <1>3 DEF Syncs
<1>5. CASE rules' = [rules EXCEPT ![Home] = sync.compiled[RuntimeTarget(Home)]] /\ sync' = [sync EXCEPT !.pc = "link"]
  <2> DEFINE new == sync.compiled[RuntimeTarget(Home)]
  <2>1. new \in RuleSets /\ Whole(new) /\ (sync.quiet => new = OwnRules(RuntimeTarget(Home)))
    BY <1>1, <1>3, <1>4 DEF EnvInv, CompiledFits, Current
  <2>2. rules' = [rules EXCEPT ![Home] = new]
    BY <1>5
  <2> HIDE DEF new
  <2>3. /\ sync' \in Syncs /\ sync'.pc = "link" /\ sync'.at = sync.at /\ sync'.compiled = sync.compiled
        /\ sync'.quiet = sync.quiet /\ sync'.warned = sync.warned
    BY <1>3, <1>5 DEF Syncs, SyncSteps
  <2>4. \A h \in Homes : rules'[h] = IF h = Home THEN new ELSE rules[h]
    BY <1>3, <2>2
  <2>5. HomeTypes'
    BY <1>1, <1>3, <2>1, <2>2 DEF EnvInv, HomeTypes, SyncOnly
  <2>6. AtFits' /\ IdFits' /\ ServersFit' /\ SkillsFit'
    BY <1>1, <1>3, <2>3 DEF EnvInv, AtFits, IdFits, ServersFit, SkillsFit
  <2>7. CompiledFits'
    BY <1>1, <2>3, Zenon DEF EnvInv, CompiledFits, Current, OwnRules, SyncOnly
  <2>8. \A h \in Homes : (rules[h] # NoRules => Whole(rules[h]))'
    BY <2>1, <2>4 DEF EnvInv, RulesFit, NoRules, Whole, RulesBegun
  <2>9. RulesDone(Home)'
    BY <2>3, <1>1, <1>3, <2>1, <2>4 DEF Home, RulesDone, OwnRules, SyncOnly
  <2>10. ASSUME NEW i \in 1..Len(HomeOrder), i < sync.at PROVE RulesDone(HomeOrder[i])'
    BY <1>1, <2>10, HomeFacts, <1>3, <2>1, <2>3, <2>4 DEF EnvInv, RulesFit, RulesDone, OwnRules,
       SyncOnly
  <2>11. RulesFit'
    BY <2>3, <2>8, <2>9, <2>10 DEF RulesFit
  <2> QED
    BY <1>2, <2>3, <2>5, <2>6, <2>7, <2>11 DEF EnvInv
<1>6. CASE SwapFails /\ (rules' = [rules EXCEPT ![Home] = sync.backup] \/ UNCHANGED rules)
  <2>1. HomeTypes'
    BY <1>3, <1>4, <1>6, <1>1 DEF EnvInv, HomeTypes, SyncOnly
  <2>2. CASE Abort
    BY <1>1, <1>2, <1>3, <1>6, <2>1, <2>2, AbortGoes, NoClaimKept
  <2>3. CASE sync' = [sync EXCEPT !.at = sync.at + 1, !.pc = "swap", !.warned = TRUE]
    <3>1. "swap" \in SyncSteps /\ sync.at + 1 \in Nat \ {0}
      BY HomeFacts DEF SyncSteps
    <3>2. sync' \in Syncs /\ sync'.pc = "swap" /\ sync'.at = sync.at + 1 /\ SameRest /\ sync'.warned
      BY <2>3, <3>1, SyncMoves, Zenon
    <3>3. AtFits' /\ IdFits' /\ ServersFit' /\ SkillsFit'
      BY <1>1, <1>3, <3>2, HomeFacts DEF EnvInv, AtFits, IdFits, ServersFit, SkillsFit
    <3>4. CompiledFits'
      BY <1>1, <3>2, Zenon DEF EnvInv, CompiledFits, Current, OwnRules, SyncOnly, SameRest
    <3>5. \A h \in Homes : (rules[h] # NoRules => Whole(rules[h]))'
      BY <1>1, <1>3, <1>6 DEF EnvInv, RulesFit, NoRules, Whole, RulesBegun
    <3>6. RulesFit'
      BY <3>2, <3>5 DEF RulesFit, RulesDone
    <3> QED
      BY <1>2, <2>1, <3>2, <3>3, <3>4, <3>6 DEF EnvInv
  <2> QED
    BY <1>6, <2>2, <2>3 DEF SwapFails
<1> QED
  BY <1>5, <1>6 DEF MoveRules

LEMMA LinkKept == ASSUME EnvInv, LinkSharedStorage PROVE EnvInv'
<1>1. /\ sync.pc = "link" /\ sync' = [sync EXCEPT !.at = sync.at + 1, !.pc = "swap"]
      /\ runtimes' = [runtimes EXCEPT ![Home] = {}]
      /\ UNCHANGED <<source, pull, servers, rules, mcp, skills, installId, replaced, jetski>>
      /\ (SpendEnv("faults") \/ UNCHANGED envBudget)
  BY DEF LinkSharedStorage, NextHome, Faulted
<1>2. Home \in Homes /\ sync.at \in 1..Len(HomeOrder) /\ sync.at <= Len(HomeOrder)
  BY <1>1, HomeFacts DEF EnvInv, AtFits
<1>3. CloneTypes'
  BY <1>1, EnvSpends DEF EnvInv, CloneTypes
<1>4. HomeTypes'
  BY <1>2, <1>1 DEF LinkSharedStorage, EnvInv, HomeTypes
<1>5. "swap" \in SyncSteps /\ sync.at + 1 \in Nat \ {0}
  BY HomeFacts DEF SyncSteps
<1>6. sync' \in Syncs /\ sync'.pc = "swap" /\ sync'.at = sync.at + 1 /\ SameRest /\ sync'.warned = sync.warned
  BY <1>1, <1>5, SyncMoves, Zenon
<1>7. AtFits' /\ IdFits' /\ ServersFit' /\ SkillsFit'
  BY <1>1, <1>2, <1>6, HomeFacts DEF EnvInv, AtFits, IdFits, ServersFit, SkillsFit
<1>8. CompiledFits'
  BY <1>1, <1>6, Zenon DEF EnvInv, CompiledFits, Current, OwnRules, SameRest
<1>9. ASSUME NEW i \in 1..Len(HomeOrder), i < sync.at + 1 PROVE RulesDone(HomeOrder[i])'
  BY <1>1, <1>9, HomeFacts, <1>6 DEF EnvInv, RulesFit, Home, RulesDone, OwnRules, SameRest
<1>10. RulesFit'
  BY <1>1, <1>6, <1>9 DEF EnvInv, RulesFit
<1> QED
  BY <1>3, <1>4, <1>6, <1>7, <1>8, <1>10 DEF EnvInv

\* A phase ends when it has passed the last home.
LEMMA PhaseKept == ASSUME EnvInv, Swapped \/ MCPWritten \/ SkillsLinked PROVE EnvInv'
<1>1. /\ sync.at > Len(HomeOrder) /\ SyncOnly /\ UNCHANGED <<rules, mcp, skills, installId, replaced, jetski, envBudget>>
      /\ \/ sync.pc = "swap" /\ SyncGoto("mcp")
         \/ sync.pc = "mcp" /\ SyncGoto("skills")
         \/ sync.pc = "skills" /\ SyncGoto("done")
  BY DEF Swapped, MCPWritten, SkillsLinked
<1>2. CloneTypes' /\ HomeTypes'
  BY <1>1 DEF EnvInv, CloneTypes, HomeTypes, SyncOnly
<1>3. {"mcp", "skills", "done"} \subseteq SyncSteps /\ 1 \in Nat \ {0}
  BY DEF SyncSteps
<1>4. \A p \in {"mcp", "skills", "done"} : SyncGoto(p) =>
         sync' \in Syncs /\ sync'.pc = p /\ sync'.at = 1 /\ SameRest /\ sync'.warned = sync.warned
  BY <1>3, SyncMoves, Zenon DEF SyncGoto
<1>5. /\ sync' \in Syncs /\ sync'.at = 1 /\ SameRest /\ sync'.warned = sync.warned
      /\ \/ sync.pc = "swap" /\ sync'.pc = "mcp"
         \/ sync.pc = "mcp" /\ sync'.pc = "skills"
         \/ sync.pc = "skills" /\ sync'.pc = "done"
  BY <1>1, <1>4
<1>6. ASSUME NEW h \in Homes PROVE \E i \in 1..Len(HomeOrder) : i < sync.at /\ HomeOrder[i] = h
  BY EnvBasics, <1>1, HomeFacts
<1>7. AtFits' /\ IdFits' /\ CompiledFits'
  BY <1>1, <1>5, HomeFacts DEF EnvInv, AtFits, IdFits, CompiledFits
<1>8. RulesFit'
  BY <1>5, <1>6, <1>1 DEF EnvInv, RulesFit, RulesDone, OwnRules, SyncOnly, SameRest
<1>9. ServersFit'
  <2>1. sync.pc # "swap" => \A h \in Homes : ServersDone(h)
    BY <1>5, <1>6 DEF EnvInv, ServersFit
  <2>2. sync.pc # "swap" => \A h \in Homes : ServersDone(h)'
    BY <1>1, <2>1 DEF ServersDone, TargetServers, SyncOnly
  <2>3. CASE sync.pc = "swap"
    BY <1>5, <2>3, HomeFacts DEF ServersFit
  <2>4. CASE sync.pc # "swap"
    BY <1>5, <2>2, <2>4 DEF ServersFit
  <2> QED
    BY <2>3, <2>4
<1>10. SkillsFit'
  BY <1>6, <1>1, <1>5, HomeFacts DEF EnvInv, SkillsFit, SkillsDone, SkillsFor, SyncOnly, SameRest
<1> QED
  BY <1>2, <1>5, <1>7, <1>8, <1>9, <1>10 DEF EnvInv

\* SyncMCP.
LEMMA TargetServersType == ASSUME EnvInv, NEW t \in RuntimeTargets PROVE TargetServers(t) \in SUBSET Servers
BY DEF Categories, EnvInv, CloneTypes, TargetServers

LEMMA WriteMCPKept == ASSUME EnvInv, WriteMCP PROVE EnvInv'
<1>1. /\ sync.pc = "mcp" /\ sync.at <= Len(HomeOrder) /\ SyncOnly
      /\ UNCHANGED <<rules, skills, installId, replaced, jetski>> /\ (SpendEnv("faults") \/ UNCHANGED envBudget)
  BY DEF WriteMCP, Faulted
<1>2. CloneTypes'
  BY <1>1, EnvSpends, ClonesKept
<1>3. /\ Home \in Homes /\ sync.at \in 1..Len(HomeOrder) /\ RuntimeTarget(Home) \in RuntimeTargets
      /\ mcp \in [Homes -> SUBSET Servers]
  BY <1>1, HomeFacts DEF EnvInv, HomeTypes
<1>4. CASE mcp' = [mcp EXCEPT ![Home] = TargetServers(RuntimeTarget(Home))] /\ NextHome("mcp")
  <2>1. "mcp" \in SyncSteps /\ sync.at + 1 \in Nat \ {0}
    BY HomeFacts DEF SyncSteps
  <2>2. sync' \in Syncs /\ sync'.pc = "mcp" /\ sync'.at = sync.at + 1 /\ SameRest /\ sync'.warned = sync.warned
    BY <1>4, <2>1, SyncMoves DEF NextHome
  <2>3. HomeTypes'
    BY <1>3, <1>4, TargetServersType, <1>1 DEF EnvInv, HomeTypes, SyncOnly
  <2>4. AtFits' /\ IdFits' /\ CompiledFits' /\ SkillsFit'
    BY <1>1, <1>3, <2>2, HomeFacts DEF EnvInv, AtFits, IdFits, CompiledFits, SkillsFit
  <2>5. RulesFit'
    BY <1>1, <2>2 DEF EnvInv, RulesFit, RulesDone, OwnRules, SyncOnly, SameRest
  <2>6. ASSUME NEW i \in 1..Len(HomeOrder), i < sync.at + 1 PROVE ServersDone(HomeOrder[i])'
    BY <1>1, <2>6, HomeFacts, <1>3, <1>4 DEF EnvInv, ServersFit, Home, TargetServers, SyncOnly,
       ServersDone
  <2>7. ServersFit'
    BY <2>2, <2>6 DEF ServersFit
  <2> QED
    BY <1>2, <2>2, <2>3, <2>4, <2>5, <2>7 DEF EnvInv
<1>5. CASE Abort /\ UNCHANGED mcp
  BY <1>1, <1>5, <1>2, AbortGoes, NoClaimKept DEF EnvInv, HomeTypes, SyncOnly
<1> QED
  BY <1>4, <1>5 DEF WriteMCP

\* What the skills phase does not touch.
LEMMA SkillsPhaseKept ==
    ASSUME EnvInv, SyncOnly, UNCHANGED <<rules, mcp, installId, replaced, jetski>>, skills' \in [Homes -> SUBSET Skills],
           CloneTypes', sync' \in Syncs, sync.pc \in {"skills", "relink"}, sync'.pc \in {"skills", "relink"},
           sync'.quiet = sync.quiet, sync'.warned = sync.warned \/ sync'.warned, AtFits', SkillsFit'
    PROVE  EnvInv'
<1>1. HomeTypes' /\ IdFits' /\ CompiledFits'
  BY DEF EnvInv, HomeTypes, IdFits, CompiledFits, SyncOnly
<1>2. RulesFit'
  BY DEF EnvInv, RulesFit, RulesDone, OwnRules, SyncOnly
<1>3. ServersFit'
  BY DEF EnvInv, ServersFit, ServersDone, TargetServers, SyncOnly
<1> QED
  BY <1>1, <1>2, <1>3 DEF EnvInv

\* SyncSkills: links that are not allowed go, the allowed ones are made.
LEMMA PruneKept == ASSUME EnvInv, PruneSkills PROVE EnvInv'
<1> DEFINE found == SkillsFor(RuntimeTarget(Home))
<1>0. PICK absent \in SUBSET found, stuck \in SUBSET skills[Home] :
        /\ skills' = [skills EXCEPT ![Home] = (skills[Home] \cap (found \ absent)) \cup stuck]
        /\ sync' = [sync EXCEPT !.pc = "relink", !.allowed = found \ absent, !.slips[Home] = absent \cup stuck]
  BY DEF PruneSkills
<1>1. /\ sync.pc = "skills" /\ sync.at <= Len(HomeOrder) /\ SyncOnly
      /\ UNCHANGED <<rules, mcp, installId, replaced, jetski>>
      /\ (SpendEnv("faults") \/ UNCHANGED envBudget)
  BY DEF PruneSkills, Faulted
<1>2. CloneTypes'
  BY <1>1, EnvSpends, ClonesKept
<1>3. /\ Home \in Homes /\ sync.at \in 1..Len(HomeOrder) /\ skills \in [Homes -> SUBSET Skills] /\ sync \in Syncs
  BY <1>1, HomeFacts DEF EnvInv, HomeTypes
<1>4. found \in SUBSET Skills
  BY DEF SkillsFor
<1> HIDE DEF found
<1> DEFINE allowed == found \ absent
           slips == [sync.slips EXCEPT ![Home] = absent \cup stuck]
           links == (skills[Home] \cap (found \ absent)) \cup stuck
<1>11. sync.slips \in [Homes -> SUBSET Skills]
  BY <1>3 DEF Syncs
<1>12. /\ allowed \in SUBSET Skills /\ links \in SUBSET Skills /\ absent \cup stuck \in SUBSET Skills
  BY <1>3, <1>4
<1>13. /\ slips \in [Homes -> SUBSET Skills] /\ slips[Home] = absent \cup stuck
       /\ \A h \in Homes : h # Home => slips[h] = sync.slips[h]
  BY <1>3, <1>11, <1>12
<1>14. links \ slips[Home] \subseteq allowed /\ allowed \ slips[Home] = found \ slips[Home]
  BY <1>13
<1>15. /\ sync' = [sync EXCEPT !.pc = "relink", !.allowed = allowed, !.slips = slips]
       /\ skills' = [skills EXCEPT ![Home] = links]
  BY <1>0
<1> HIDE DEF allowed, slips, links
<1>5. /\ sync' \in Syncs /\ sync'.pc = "relink" /\ sync'.at = sync.at /\ sync'.allowed = allowed
      /\ sync'.quiet = sync.quiet /\ sync'.warned = sync.warned /\ sync'.slips = slips
  BY <1>3, <1>12, <1>13, <1>15 DEF Syncs, SyncSteps
<1>6. skills' \in [Homes -> SUBSET Skills]
      /\ \A h \in Homes : skills'[h] = IF h = Home THEN links ELSE skills[h]
  BY <1>3, <1>12, <1>15
<1>7. AtFits'
  BY <1>1, <1>5 DEF EnvInv, AtFits
<1>8. \A t : SkillsFor(t)' = SkillsFor(t)
  BY <1>1 DEF SkillsFor, SyncOnly
<1>16. Home' = Home /\ HomeOrder[sync.at] = Home
  BY <1>5 DEF Home
<1>9. ASSUME NEW i \in 1..Len(HomeOrder), i < sync.at PROVE SkillsDone(HomeOrder[i])'
  <2>1. SkillsDone(HomeOrder[i]) /\ HomeOrder[i] \in Homes
    BY <1>1, <1>9, HomeFacts DEF EnvInv, SkillsFit
  <2>2. HomeOrder[i] # Home
    BY <1>3, <1>9, <1>16, EnvBasics
  <2> QED
    BY <1>5, <1>6, <1>8, <1>13, <2>1, <2>2 DEF SkillsDone
<1>10. SkillsFit'
  <2>1. skills'[Home] \ sync'.slips[Home] \subseteq sync'.allowed
    BY <1>3, <1>5, <1>6, <1>14
  <2>2. sync'.allowed \ sync'.slips[Home] = SkillsFor(RuntimeTarget(Home)) \ sync'.slips[Home]
    BY <1>5, <1>14 DEF found
  <2> QED
    BY <1>5, <1>8, <1>9, <1>16, <2>1, <2>2 DEF SkillsFit
<1> QED
  BY <1>1, <1>2, <1>5, <1>6, <1>7, <1>10, SkillsPhaseKept

LEMMA LinkSkillsKept == ASSUME EnvInv, LinkSkills PROVE EnvInv'
<1>1. /\ sync.pc = "relink" /\ SyncOnly /\ UNCHANGED <<rules, mcp, installId, replaced, jetski>>
      /\ (SpendEnv("faults") \/ UNCHANGED envBudget)
  BY DEF LinkSkills, Faulted
<1>2. CloneTypes'
  BY <1>1, EnvSpends, ClonesKept
<1>3. /\ Home \in Homes /\ sync.at \in 1..Len(HomeOrder) /\ skills \in [Homes -> SUBSET Skills]
      /\ sync.allowed \in SUBSET Skills /\ sync.at <= Len(HomeOrder)
  BY <1>1, HomeFacts DEF EnvInv, HomeTypes, AtFits, Syncs
<1>4. "skills" \in SyncSteps /\ sync.at + 1 \in Nat \ {0}
  BY HomeFacts DEF SyncSteps
<1>5. CASE skills' = [skills EXCEPT ![Home] = skills[Home] \cup sync.allowed] /\ NextHome("skills")
  <2>1. sync' \in Syncs /\ sync'.pc = "skills" /\ sync'.at = sync.at + 1 /\ SameRest /\ sync'.warned = sync.warned
    BY <1>5, <1>4, SyncMoves DEF NextHome
  <2>2. skills' \in [Homes -> SUBSET Skills]
        /\ \A h \in Homes : skills'[h] = IF h = Home THEN skills[Home] \cup sync.allowed ELSE skills[h]
    BY <1>3, <1>5
  <2>3. AtFits'
    BY <1>3, <2>1, HomeFacts DEF AtFits
  <2>4. ASSUME NEW i \in 1..Len(HomeOrder), i < sync.at + 1 PROVE SkillsDone(HomeOrder[i])'
    <3> DEFINE slips == sync.slips[HomeOrder[i]]
    <3> SUFFICES ASSUME sync.quiet, ~sync.warned
                 PROVE  skills'[HomeOrder[i]] \ slips = SkillsFor(RuntimeTarget(HomeOrder[i])) \ slips
      BY <1>1, <2>1 DEF SkillsDone, SkillsFor, SyncOnly, SameRest
    <3>1. HomeOrder[i] \in Homes /\ (HomeOrder[i] = Home \/ SkillsDone(HomeOrder[i]))
      BY <1>1, <2>4, HomeFacts DEF EnvInv, SkillsFit, Home
    <3>2. CASE HomeOrder[i] = Home
      <4>1. skills[Home] \ slips \subseteq sync.allowed /\ sync.allowed \ slips = SkillsFor(RuntimeTarget(Home)) \ slips
        BY <1>1, <3>2 DEF EnvInv, SkillsFit
      <4>2. skills'[Home] = skills[Home] \cup sync.allowed
        BY <1>3, <2>2
      <4> HIDE DEF slips
      <4> QED
        BY <3>2, <4>1, <4>2
    <3>3. CASE HomeOrder[i] # Home
      BY <2>2, <3>1, <3>3 DEF SkillsDone
    <3> QED
      BY <3>2, <3>3
  <2>5. SkillsFit'
    BY <2>1, <2>4 DEF SkillsFit
  <2> QED
    BY <1>1, <1>2, <2>1, <2>2, <2>3, <2>5, SkillsPhaseKept DEF SameRest
<1>6. ASSUME NEW s \in sync.allowed \ skills[Home],
             skills' = [skills EXCEPT ![Home] = skills[Home] \cup (sync.allowed \ {s})],
             sync' = [sync EXCEPT !.at = sync.at + 1, !.pc = "skills", !.warned = TRUE]
      PROVE  EnvInv'
  <2>1. sync' \in Syncs /\ sync'.pc = "skills" /\ sync'.at = sync.at + 1 /\ SameRest /\ sync'.warned
    BY <1>4, <1>6, SyncMoves, Zenon
  <2>2. skills' \in [Homes -> SUBSET Skills]
    BY <1>3, <1>6
  <2>3. AtFits'
    BY <1>3, <2>1, HomeFacts DEF AtFits
  <2>4. SkillsFit'
    BY <2>1 DEF SkillsFit, SkillsDone
  <2> QED
    BY <1>1, <1>2, <2>1, <2>2, <2>3, <2>4, SkillsPhaseKept DEF SameRest
<1> QED
  BY <1>5, <1>6 DEF LinkSkills

LEMMA EnvKept == EnvInv /\ [EnvNext]_envVars => EnvInv'
<1> SUFFICES ASSUME EnvInv, [EnvNext]_envVars PROVE EnvInv'
  OBVIOUS
<1>1. CASE UNCHANGED envVars
  <2>1. /\ CloneTypes' /\ HomeTypes' /\ sync' \in Syncs /\ AtFits' /\ IdFits'
    BY <1>1 DEF envVars, EnvInv, CloneTypes, HomeTypes, AtFits, IdFits
  <2>2. CompiledFits'
    BY <1>1, Zenon DEF envVars, EnvInv, CompiledFits, Current, OwnRules
  <2>3. RulesFit'
    BY <1>1, Zenon DEF envVars, EnvInv, RulesFit, RulesDone, OwnRules, Home
  <2>4. ServersFit'
    BY <1>1, Zenon DEF envVars, EnvInv, ServersFit, ServersDone, TargetServers
  <2>5. SkillsFit'
    BY <1>1, Zenon DEF envVars, EnvInv, SkillsFit, SkillsDone, SkillsFor, Home
  <2> QED
    BY <2>1, <2>2, <2>3, <2>4, <2>5 DEF EnvInv
<1> QED
  BY <1>1, PullKept, IdleKept, OAuthKept, CompileKept, BackUpKept, MoveKept, LinkKept, PhaseKept, WriteMCPKept,
     PruneKept, LinkSkillsKept DEF EnvNext

\* Whatever a pull, a crash or a failing file operation does in the middle of a Sync, no
\* home holds rules torn by it, and a Sync that met none of them left every home complete,
\* but for the skills that could not be looked at or removed.
THEOREM EnvIsSafe == EnvSpec => []EnvIsSound
<1>1. EnvSpec => []EnvInv
  BY EnvStarts, EnvKept, PTL DEF EnvSpec
<1> QED
  BY <1>1, EnvEnough, PTL

--------------------
\* A step of the swap in MoveRules: the new rules, the old ones, or two faults.
LEMMA EnvGivesBack == EnvInv /\ [EnvNext]_envVars => GivesRulesBack
<1> SUFFICES ASSUME EnvInv, [EnvNext]_envVars, NEW h \in Homes, AtMove(h), ~AtMove(h)', sync.backup # NoRules
             PROVE  rules'[h] # NoRules \/ sync' = NoSync \/ envBudget.faults - envBudget'.faults = 2
  BY DEF GivesRulesBack
<1>1. sync.pc = "move" /\ Home = h
  BY DEF AtMove
<1>2. sync \in Syncs /\ rules \in [Homes -> RuleSets] /\ envBudget \in EnvBounds
  BY DEF EnvInv, HomeTypes, CloneTypes
<1>3. CASE MoveRules
  BY EnvBasics, <1>1, <1>2, <1>3 DEF EnvInv, CompiledFits, Current, Whole, RulesBegun, NoRules, RollbackFails,
     EnvBounds, MoveRules
<1>4. CASE Crash \/ SyncReturns
  BY <1>4 DEF Crash, SyncReturns
<1>5. ASSUME sync'.pc = sync.pc, sync'.at = sync.at PROVE FALSE
  BY <1>1, <1>5 DEF AtMove, Home
<1>6. CASE PullStarts \/ PullEnds \/ \E i \in 1..Len(PullOrder) : PullTears(i)
  BY <1>6, <1>2, <1>5 DEF PullStarts, PullEnds, PullTears, SourceMoved, Syncs
<1>7. CASE UNCHANGED envVars
  BY <1>5, <1>7 DEF envVars
<1>8. ~(ConfigChanges \/ StartSync \/ \E g \in Homes, s \in Sessions : AgentKeepsConversation(g, s))
  BY <1>1 DEF ConfigChanges, StartSync, AgentKeepsConversation
<1>9. ~(ReadInstallId \/ WriteInstallId \/ SeedJetski \/ CompileCommon \/ CompileUser \/ CompileOwn \/ Compiled \/ BackUpRules)
  BY <1>1 DEF ReadInstallId, WriteInstallId, SeedJetski, CompileCommon, CompileUser, CompileOwn, Compiled, BackUpRules
<1>10. ~(LinkSharedStorage \/ Swapped \/ WriteMCP \/ MCPWritten \/ PruneSkills \/ LinkSkills \/ SkillsLinked)
  BY <1>1 DEF LinkSharedStorage, Swapped, WriteMCP, MCPWritten, PruneSkills, LinkSkills, SkillsLinked
<1> QED
  BY <1>3, <1>4, <1>6, <1>7, <1>8, <1>9, <1>10, Zenon DEF EnvNext

LEMMA EnvKeepsConversations == EnvInv /\ [EnvNext]_envVars => ConversationsStay
<1> SUFFICES ASSUME EnvInv, [EnvNext]_envVars, NEW s \in Sessions
             PROVE  /\ canonical[s] # "none" => canonical'[s] = canonical[s]
                    /\ \A h \in Homes : s \in runtimes[h] \ runtimes'[h] =>
                          canonical'[s] # "none" \/ envBudget'.faults < envBudget.faults
  BY DEF ConversationsStay
<1>1. CASE LinkSharedStorage
  <2>1. PICK left \in SUBSET runtimes[Home] :
          /\ IF left = {} THEN UNCHANGED envBudget ELSE SpendEnv("faults")
          /\ canonical' = [c \in Sessions |->
                 IF c \in runtimes[Home] \ left /\ canonical[c] = "none" THEN Home ELSE canonical[c]]
    BY <1>1 DEF LinkSharedStorage, Faulted
  <2>2. runtimes' = [runtimes EXCEPT ![Home] = {}] /\ runtimes \in [Homes -> SUBSET Sessions]
    BY <1>1 DEF LinkSharedStorage, EnvInv, HomeTypes
  <2>3. Home \in Homes
    BY <1>1, HomeFacts DEF EnvInv, AtFits, LinkSharedStorage
  <2>4. Home # "none"
    BY <2>3, EnvAssumption DEF Homes
  <2>5. canonical'[s] = IF s \in runtimes[Home] \ left /\ canonical[s] = "none" THEN Home ELSE canonical[s]
    BY <2>1
  <2>6. left # {} => envBudget'.faults < envBudget.faults
    BY <2>1 DEF SpendEnv, EnvInv, CloneTypes, EnvBounds
  <2>7. ASSUME NEW h \in Homes, s \in runtimes[h] \ runtimes'[h] PROVE h = Home
    BY <2>2, <2>7
  <2> QED
    BY <2>4, <2>5, <2>6, <2>7
<1>2. CASE canonical' = canonical /\ \A h \in Homes : runtimes[h] \subseteq runtimes'[h]
  BY <1>2
<1>3. ASSUME NEW h \in Homes, NEW c \in Sessions, AgentKeepsConversation(h, c)
      PROVE  canonical' = canonical /\ \A g \in Homes : runtimes[g] \subseteq runtimes'[g]
  BY <1>3 DEF AgentKeepsConversation, EnvInv, HomeTypes
<1>4. CASE canonical' = canonical /\ runtimes' = runtimes
  BY <1>2, <1>4
<1> QED
  BY <1>1, <1>2, <1>3, <1>4 DEF EnvNext, envVars, PullStarts, PullEnds, PullTears, ConfigChanges, Crash,
     StartSync, SyncReturns, ReadInstallId, WriteInstallId, SeedJetski, CompileCommon, CompileUser, CompileOwn,
     Compiled, BackUpRules, MoveRules, Swapped, WriteMCP, MCPWritten, PruneSkills, LinkSkills, SkillsLinked,
     CloneOnly, SyncOnly

\* A swap that fails gives the old rules back; a shared conversation is never replaced, and
\* what a home kept of one goes into the shared storage unless a rename failed.
THEOREM EnvTakesNothing == EnvSpec => [][GivesRulesBack /\ ConversationsStay]_envVars
<1>1. EnvSpec => []EnvInv
  BY EnvStarts, EnvKept, PTL DEF EnvSpec
<1>2. EnvInv /\ [EnvNext]_envVars => [GivesRulesBack /\ ConversationsStay]_envVars
  BY EnvGivesBack, EnvKeepsConversations
<1> QED
  BY <1>1, <1>2, PTL DEF EnvSpec

\* The same where the configuration and the homes are two of the parts (MCProgress).
THEOREM SettingsHold == PartsSpec => []SettingsAreSound
<1> DEFINE Chosen == (part = "config" => ReloadInv) /\ (part = "env" => EnvInv)
<1>1. ProgressInit => Chosen
  BY ReloadStarts, EnvStarts DEF ProgressInit
<1>2. Chosen /\ [ProgressNext]_progressVars => Chosen'
  BY ReloadKept, EnvKept DEF ProgressNext, progressVars, Others
<1>3. Chosen => SettingsAreSound
  BY ReloadEnough, EnvEnough DEF SettingsAreSound
<1> QED
  BY <1>1, <1>2, <1>3, PTL DEF PartsSpec

--------------------
(* The parts together. *)

\* A step of the parts that changes something is a step of the part that runs.
LEMMA PartThatRuns ==
    ASSUME ProgressNext, progressVars' # progressVars
    PROVE  /\ UNCHANGED part
           /\ part = "watches" => WatchNext /\ watchVars' # watchVars
           /\ part = "call" => CallNext
           /\ part = "build" => BuildNext /\ buildVars' # buildVars
           /\ part = "attempts" => AttemptNext /\ attemptVars' # attemptVars
           /\ part = "ingress" => IngressNext
           /\ part = "env" => EnvNext
<1>1. CASE part = "watches"
  <2>1. WatchNext /\ Others("watches")
    BY <1>1 DEF ProgressNext
  <2> QED
    BY <1>1, <2>1 DEF Others, progressVars
<1>2. CASE part = "build"
  <2>1. BuildNext /\ Others("build")
    BY <1>2 DEF ProgressNext
  <2> QED
    BY <1>2, <2>1 DEF Others, progressVars
<1>3. CASE part = "attempts"
  <2>1. AttemptNext /\ Others("attempts")
    BY <1>3 DEF ProgressNext
  <2> QED
    BY <1>3, <2>1 DEF Others, progressVars
<1>4. UNCHANGED part
  BY DEF ProgressNext, Others
<1>5. /\ part = "call" => CallNext
      /\ part = "ingress" => IngressNext
      /\ part = "env" => EnvNext
  BY DEF ProgressNext
<1> QED
  BY <1>1, <1>2, <1>3, <1>4, <1>5

\* What the steps keep of the parts NoStepBack speaks about.
PartsInv ==
    /\ part = "watches" => WatchInv
    /\ part = "call" => CallInv
    /\ part = "build" => BuildInv /\ FailuresFit
    /\ part = "attempts" => AttemptInv
    /\ part = "ingress" => IngressInv
    /\ part = "env" => EnvInv

LEMMA PartsStart == ProgressInit => PartsInv
  BY WatchStarts, CallStarts, BuildStarts, FailuresStart, AttemptStarts, IngressStarts, EnvStarts
     DEF ProgressInit, PartsInv

LEMMA PartsKept == PartsInv /\ [ProgressNext]_progressVars => PartsInv'
<1> SUFFICES ASSUME PartsInv, [ProgressNext]_progressVars PROVE PartsInv'
  OBVIOUS
<1>1. /\ UNCHANGED part
      /\ part = "watches" => [WatchNext]_watchVars
      /\ part = "call" => [CallNext]_callVars
      /\ part = "build" => [BuildNext]_buildVars
      /\ part = "attempts" => [AttemptNext]_attemptVars
      /\ part = "ingress" => [IngressNext]_igVars
      /\ part = "env" => [EnvNext]_envVars
  BY PartThatRuns DEF progressVars
<1>2. /\ part = "watches" => WatchInv'
      /\ part = "call" => CallInv'
  BY <1>1, WatchKept, CallKept DEF PartsInv
<1>3. part = "build" => (BuildInv /\ FailuresFit)'
  BY <1>1, BuildKept, FailuresRemain DEF PartsInv
<1>4. part = "attempts" => AttemptInv'
  BY <1>1, AttemptKept DEF PartsInv
<1>5. part = "ingress" => IngressInv'
  BY <1>1, IngressStep DEF PartsInv, Harmless
<1>6. part = "env" => EnvInv'
  BY <1>1, EnvKept DEF PartsInv
<1> QED
  BY <1>1, <1>2, <1>3, <1>4, <1>5, <1>6 DEF PartsInv

\* What a step may never do, in the part that runs: ring a cancelled watch, move a
\* call's cursor back, brief chunks out of order or put back a merged one, change the
\* session row of a foreign turn, sweep over a message, lose rules or conversations.
THEOREM NoStepBackHolds == PartsSpec => NoStepBack
<1> DEFINE Forward ==
             /\ part = "watches" => SilentWhenCancelled
             /\ part = "call" => CursorAdvances
             /\ part = "build" => BriefsInOrder /\ CompletesWhenMerged /\ UnmergesWhenStale
             /\ part = "attempts" => RowIsLeft
             /\ part = "ingress" => HidesNothing
             /\ part = "env" => GivesRulesBack /\ ConversationsStay
<1>1. PartsInv /\ [ProgressNext]_progressVars => [Forward]_progressVars
  <2> SUFFICES ASSUME PartsInv, ProgressNext, progressVars' # progressVars PROVE Forward
    OBVIOUS
  <2>1. part = "watches" => SilentWhenCancelled
    BY PartThatRuns, SilentByStep DEF PartsInv
  <2>2. part = "call" => CursorAdvances
    BY PartThatRuns, CursorKept DEF PartsInv
  <2>3. part = "build" => BriefsInOrder /\ CompletesWhenMerged /\ UnmergesWhenStale
    BY PartThatRuns, BuildOrder, UnmergedByWhom DEF PartsInv
  <2>4. part = "attempts" => RowIsLeft
    BY PartThatRuns, RowIsLeftByStep DEF PartsInv
  <2>5. part = "ingress" => HidesNothing
    BY PartThatRuns, IngressStep DEF PartsInv, Harmless, HidesNothing
  <2>6. part = "env" => GivesRulesBack /\ ConversationsStay
    BY PartThatRuns, EnvGivesBack, EnvKeepsConversations DEF PartsInv
  <2> QED
    BY <2>1, <2>2, <2>3, <2>4, <2>5, <2>6
<1> QED
  BY <1>1, PartsStart, PartsKept, PTL DEF PartsSpec, NoStepBack
====================
