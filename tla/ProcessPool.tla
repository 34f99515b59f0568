----------- MODULE ProcessPool -----------
(* One target of eri's UnifiedProcessPool (pkg/runner/unified_pool.go) and *)
(* the StreamingDaemons pinned to it (pkg/runner/streaming_daemon.go). *)
(* Turns of one target meet at a reference-counted target lock; a daemon *)
(* is found or started by GetOrCreate, reads its answers in a goroutine of *)
(* its own, and is retired by rotation, by a configuration reload *)
(* (MarkDirty), by eviction or by the pool's Close.  Other targets have *)
(* their own lock, daemon and session row, so one target is the system. *)
(* The target is a pinned Discord session or one worker key of an *)
(* InterchangeablePool (interchangeable_pool.go), which has no session row, *)
(* is kept warm and is recycled after every lease. *)
EXTENDS Integers, Sequences, FiniteSets, SequencesExt

CONSTANTS
  Lessees,          \* turns that lease the target (positive numbers)
  MaxSpawns,        \* bound: daemons started in a behaviour
  MaxSessionTurns,  \* PoolConfig.MaxSessionTurns
  MinSessionTurns,  \* PoolConfig.MinSessionTurns
  PoolBudgets       \* bounds: configuration reloads and faults (failed spawns, dead daemons,
                    \* lost waits, failed saves) of a behaviour

ASSUME PoolAssumption ==
  /\ Lessees \subseteq Nat \ {0} /\ IsFiniteSet(Lessees)
  /\ {MaxSpawns, MaxSessionTurns, MinSessionTurns} \subseteq Nat
  /\ PoolBudgets \subseteq [reloads : Nat, faults : Nat]

Warmer == 0                     \* the goroutine MarkDirty starts to re-warm the target
Rotator == -1                   \* the goroutine of rotateAndRelease
PoolProcs == Lessees \cup {Warmer, Rotator}
DaemonIds == 1..MaxSpawns
NoDaemon == 0
NoLock == 0

VARIABLES
  mode,        \* "pinned" (a session's target) or "worker" (an interchangeable one)
  available,   \* the worker's key is in p.available
  daemons,     \* every daemon ever started
  pinned,      \* p.daemons[target], NoDaemon when absent
  locks,       \* the lock objects: sem (filled or not) and refs
  lockOf,      \* p.targetLocks[target], NoLock when absent
  flight,      \* the singleflight call under way: its leader and its result
  proc,        \* the goroutines that use the target
  closers,     \* daemons a background goroutine is going to Close
  record,      \* the target's sessions row: active session and turn count
  poolClosed,  \* p.closed
  prewarming,  \* p.prewarming[target]
  reloads, poolFaults   \* what is left of the budget

poolVars == <<mode, available, daemons, pinned, locks, lockOf, flight, proc, closers, record,
              poolClosed, prewarming, reloads, poolFaults>>

LockIds == 1..(Cardinality(PoolProcs) + 1)
FreshDaemon ==
  [proc |-> "none", state |-> "Starting", closed |-> FALSE, dirty |-> FALSE, turns |-> 0,
   weight |-> 0, inflight |-> <<>>, stdin |-> <<>>, sess |-> 0, onFinish |-> FALSE,
   reader |-> "read"]
RestingProc ==
  [pc |-> "idle", lk |-> NoLock, sess |-> 0, want |-> 0, d |-> NoDaemon, turns |-> 0,
   cancel |-> FALSE, next |-> "none", answer |-> "none"]
NoFlight == [leader |-> Warmer, stage |-> "none", sess |-> 0, d |-> NoDaemon]

PoolInit ==
  /\ mode \in {"pinned", "worker"}
  /\ available = (mode = "worker")
  /\ daemons = [i \in DaemonIds |-> FreshDaemon]
  /\ pinned = NoDaemon
  /\ locks = [l \in LockIds |-> [sem |-> FALSE, refs |-> 0]]
  /\ lockOf = NoLock
  /\ flight = NoFlight
  /\ proc = [p \in PoolProcs |-> RestingProc]
  /\ closers = {}
  /\ record = [active |-> 0, turns |-> 0]
  /\ poolClosed = FALSE
  /\ prewarming = FALSE
  /\ \E b \in PoolBudgets : reloads = b.reloads /\ poolFaults = b.faults

--------------------
(* Shared steps *)

At(p, pc) == proc[p].pc = pc
Goto(p, pc) == proc' = [proc EXCEPT ![p].pc = pc]
PoolFault == poolFaults > 0 /\ poolFaults' = poolFaults - 1
NoPoolFault == UNCHANGED poolFaults
IsTargetLocked == lockOf # NoLock /\ locks[lockOf].sem
Inflight(i) == Len(daemons[i].inflight)

\* transcript steps, transcript bytes and session database bytes against their
\* thresholds, which are doubled below MinSessionTurns: weight 1 is over the
\* plain threshold, weight 2 over the emergency one
TooHeavy(turns, weight) == weight >= IF turns < MinSessionTurns THEN 2 ELSE 1

ShouldRotate(i) ==
  /\ i # NoDaemon
  /\ Inflight(i) = 0
  /\ \/ daemons[i].dirty
     \/ daemons[i].turns >= MaxSessionTurns
     \/ TooHeavy(daemons[i].turns, daemons[i].weight)

IsDaemonMatch(i, sess) ==
  /\ i # NoDaemon
  /\ daemons[i].state # "Closed"
  /\ ~daemons[i].dirty
  /\ sess # 0 => daemons[i].sess = sess

CanReuseDaemon(i, sess) == IsDaemonMatch(i, sess) /\ (sess = 0 => ~ShouldRotate(i))

\* p.mu is held while an existing daemon is looked at and retired
PoolMuFree == flight.stage \notin {"arm", "recheck"}

\* StreamingDaemon.Close: the process is killed, the reader ends, the turns that
\* are still in flight fail
ClosedDaemon(d) == [d EXCEPT !.closed = TRUE, !.state = "Closed", !.proc = "gone", !.inflight = <<>>, !.stdin = <<>>]
\* mutant: nobody tells the turns of a closed daemon
FailNone(turns, p) == p

FailTurns(turns, p) ==
  [q \in PoolProcs |->
     IF p[q].pc = "await" /\ p[q].answer = "none" /\ \E k \in 1..Len(turns) : turns[k] = q
     THEN [p[q] EXCEPT !.answer = "error"] ELSE p[q]]

--------------------
(* The target lock: acquirePoolTargetLock, tryAcquireTargetLock, *)
(* releasePoolTargetLock.  An object left by everyone is deleted from the *)
(* map; the next caller makes another one. *)

FreeLocks == {l \in LockIds : l # lockOf /\ locks[l].refs = 0 /\ \A p \in PoolProcs : proc[p].lk # l}
TheLock == IF lockOf # NoLock THEN lockOf ELSE CHOOSE l \in FreeLocks : TRUE

AskForLock(p) ==
  /\ p \in Lessees /\ At(p, "idle") /\ proc[p].next # "done"
  /\ mode = "worker" => available
  /\ available' = FALSE
  /\ lockOf' = TheLock
  /\ locks' = [locks EXCEPT ![TheLock].refs = @ + 1]
  /\ proc' = [proc EXCEPT ![p] = [RestingProc EXCEPT !.pc = "lock", !.lk = TheLock]]
  /\ UNCHANGED <<mode, daemons, pinned, flight, closers, record, poolClosed, prewarming, reloads, poolFaults>>

TakeLock(p) ==
  /\ At(p, "lock")
  /\ ~locks[proc[p].lk].sem
  /\ locks' = [locks EXCEPT ![proc[p].lk].sem = TRUE]
  /\ Goto(p, "record")
  /\ UNCHANGED <<mode, available, daemons, pinned, lockOf, flight, closers, record, poolClosed, prewarming, reloads, poolFaults>>

LockTimeout(p) ==
  /\ At(p, "lock")
  /\ PoolFault
  /\ proc' = [proc EXCEPT ![p].pc = "unref", ![p].next = "done"]
  /\ UNCHANGED <<mode, available, daemons, pinned, locks, lockOf, flight, closers, record, poolClosed, prewarming, reloads>>

Unlock(p) ==
  /\ At(p, "unlock")
  /\ locks' = [locks EXCEPT ![proc[p].lk].sem = FALSE]
  /\ Goto(p, "unref")
  /\ UNCHANGED <<mode, available, daemons, pinned, lockOf, flight, closers, record, poolClosed, prewarming, reloads, poolFaults>>

\* what follows a release: the key of a worker that was never leased goes back
\* at once, one that was leased is recycled in the background
Recycles(p) == mode = "worker" /\ p \in Lessees /\ proc[p].d # NoDaemon /\ ~poolClosed
\* mutant: the key is back before the worker was recycled
ReturnedEarly(p) ==
  /\ proc' = [proc EXCEPT ![p] = [RestingProc EXCEPT !.next = "done"],
                          ![Rotator] = IF Recycles(p) THEN [RestingProc EXCEPT !.pc = "rotate", !.next = "recycle"] ELSE @]
  /\ available' = (available \/ (mode = "worker" /\ p \in Lessees))
  /\ prewarming' = (prewarming /\ p # Warmer)

AfterRelease(p) ==
  /\ proc' = [proc EXCEPT ![p] = [RestingProc EXCEPT !.next = "done"],
                          ![Rotator] = IF Recycles(p) THEN [RestingProc EXCEPT !.pc = "rotate", !.next = "recycle"] ELSE @]
  /\ available' = (available \/ (mode = "worker" /\ p \in Lessees /\ proc[p].d = NoDaemon))
  /\ prewarming' = (prewarming /\ p # Warmer)

\* mutant: the map entry is dropped by whoever releases, waiters or not
UnrefAlways(p) ==
  /\ At(p, "unref")
  /\ locks' = [locks EXCEPT ![proc[p].lk].refs = @ - 1]
  /\ lockOf' = NoLock
  /\ AfterRelease(p)
  /\ UNCHANGED <<mode, daemons, pinned, flight, closers, record, poolClosed, reloads, poolFaults>>

\* mutant: the reference is given back twice
UnrefTwice(p) ==
  /\ At(p, "unref")
  /\ locks' = [locks EXCEPT ![proc[p].lk].refs = @ - 2]
  /\ lockOf' = IF locks[proc[p].lk].refs <= 2 THEN NoLock ELSE lockOf
  /\ AfterRelease(p)
  /\ UNCHANGED <<mode, daemons, pinned, flight, closers, record, poolClosed, reloads, poolFaults>>

Unref(p) ==
  /\ At(p, "unref")
  /\ locks' = [locks EXCEPT ![proc[p].lk].refs = @ - 1]
  /\ lockOf' = IF locks[proc[p].lk].refs <= 1 THEN NoLock ELSE lockOf
  /\ AfterRelease(p)
  /\ UNCHANGED <<mode, daemons, pinned, flight, closers, record, poolClosed, reloads, poolFaults>>

\* returnWorker at the end of the background rotation
ReturnWorker(p) ==
  /\ At(p, "return")
  /\ available' = TRUE
  /\ proc' = [proc EXCEPT ![p] = RestingProc]
  /\ UNCHANGED <<mode, daemons, pinned, locks, lockOf, flight, closers, record, poolClosed, prewarming, reloads, poolFaults>>

--------------------
(* AcquireLease: session record, GetOrCreate *)

\* a failed read of the session row leaves an empty record
ReadRecord(p) ==
  /\ At(p, "record")
  /\ \/ /\ proc' = [proc EXCEPT ![p].sess = record.active, ![p].want = record.active, ![p].turns = record.turns,
                                ![p].pc = "create", ![p].next = "lease"]
        /\ NoPoolFault
     \/ /\ PoolFault
        /\ proc' = [proc EXCEPT ![p].pc = "create", ![p].next = "lease"]
  /\ UNCHANGED <<mode, available, daemons, pinned, locks, lockOf, flight, closers, record, poolClosed, prewarming, reloads>>

\* where a goroutine goes when GetOrCreate gave it daemon i
Resumed(q, i) ==
  CASE q.next = "lease"   -> [q EXCEPT !.pc = "leased", !.d = i, !.sess = daemons[i].sess]
    [] q.next = "send"    -> [q EXCEPT !.pc = "send", !.d = i, !.sess = daemons[i].sess]
    [] q.next = "rotated" -> [q EXCEPT !.pc = "persist", !.d = i]
    [] q.next = "recycle" -> [q EXCEPT !.pc = "return"]
    [] q.next = "warm"    -> [q EXCEPT !.pc = "unlock"]
\* and when it failed
Refused(q) ==
  CASE q.next = "lease"   -> [q EXCEPT !.pc = "unlock"]
    [] q.next = "send"    -> [q EXCEPT !.pc = "release", !.cancel = TRUE]
    [] q.next = "rotated" -> [q EXCEPT !.pc = "evict"]
    [] q.next = "recycle" -> [q EXCEPT !.pc = "return"]
    [] q.next = "warm"    -> [q EXCEPT !.pc = "unlock"]

\* the fast path under RLock
GetOrCreateFast(p) ==
  /\ At(p, "create") /\ PoolMuFree
  /\ proc' = [proc EXCEPT ![p] =
                IF poolClosed THEN Refused(@)
                ELSE IF CanReuseDaemon(pinned, proc[p].sess) THEN Resumed(@, pinned)
                ELSE [@ EXCEPT !.pc = "flight"]]
  /\ UNCHANGED <<mode, available, daemons, pinned, locks, lockOf, flight, closers, record, poolClosed, prewarming, reloads, poolFaults>>

\* the leader of the singleflight: checkExistingDaemonForCreateLocked
CheckExisting(p) ==
  /\ At(p, "flight") /\ flight.stage = "none"
  /\ LET i == pinned
         sess == proc[p].sess
         kept == IF i # NoDaemon /\ sess = 0 /\ mode = "pinned" /\ ~ShouldRotate(i) THEN daemons[i].sess ELSE sess
     IN CASE poolClosed ->
               proc' = [proc EXCEPT ![p] = Refused(@)] /\ UNCHANGED <<flight, pinned, daemons, closers>>
          [] ~poolClosed /\ CanReuseDaemon(i, sess) ->
               proc' = [proc EXCEPT ![p] = Resumed(@, i)] /\ UNCHANGED <<flight, pinned, daemons, closers>>
          [] OTHER ->
               /\ LET busy == i # NoDaemon /\ Inflight(i) > 0
                  IN /\ flight' = [leader |-> p, stage |-> IF busy THEN "arm" ELSE "spawn",
                                   sess |-> kept, d |-> i]
                     /\ closers' = IF busy THEN closers ELSE closers \cup ({i} \ {NoDaemon})
               /\ pinned' = NoDaemon
               /\ daemons' = IF i = NoDaemon THEN daemons ELSE [daemons EXCEPT ![i].dirty = TRUE]
               /\ Goto(p, "lead")
  /\ UNCHANGED <<mode, available, locks, lockOf, record, poolClosed, prewarming, reloads, poolFaults>>

\* closeEvictedDaemon: a busy daemon is closed by its last result ...
ArmDrain(p) ==
  /\ At(p, "lead") /\ flight.leader = p /\ flight.stage = "arm"
  /\ daemons' = [daemons EXCEPT ![flight.d].onFinish = TRUE]
  /\ flight' = [flight EXCEPT !.stage = "recheck"]
  /\ UNCHANGED <<mode, available, pinned, locks, lockOf, proc, closers, record, poolClosed, prewarming, reloads, poolFaults>>

\* mutant: the in-flight count is not looked at again
NoRecheck(p) ==
  /\ At(p, "lead") /\ flight.leader = p /\ flight.stage = "recheck"
  /\ flight' = [flight EXCEPT !.stage = "spawn"]
  /\ UNCHANGED <<mode, available, daemons, pinned, locks, lockOf, proc, closers, record, poolClosed, prewarming, reloads, poolFaults>>

\* ... unless that came before the callback was set
RecheckDrain(p) ==
  /\ At(p, "lead") /\ flight.leader = p /\ flight.stage = "recheck"
  /\ closers' = IF Inflight(flight.d) = 0 THEN closers \cup {flight.d} ELSE closers
  /\ flight' = [flight EXCEPT !.stage = "spawn"]
  /\ UNCHANGED <<mode, available, daemons, pinned, locks, lockOf, proc, record, poolClosed, prewarming, reloads, poolFaults>>

\* whoever arrives while a call is under way waits for its result
JoinFlight(p) ==
  /\ At(p, "flight") /\ flight.stage # "none"
  /\ Goto(p, "joined")
  /\ UNCHANGED <<mode, available, daemons, pinned, locks, lockOf, flight, closers, record, poolClosed, prewarming, reloads, poolFaults>>

EndFlight(p, i, ok) ==
  /\ flight' = NoFlight
  /\ proc' = [q \in PoolProcs |->
                IF q = p \/ proc[q].pc = "joined"
                THEN IF ok THEN Resumed(proc[q], i) ELSE Refused(proc[q])
                ELSE proc[q]]

Unspawned == {i \in DaemonIds : daemons[i].proc = "none"}

\* the session a started daemon reports: the one asked for, or a new one
\* mutant: the resume flag is lost
AlwaysNewSession(asked, i) == i
SpawnedSession(asked, i) == IF asked # 0 THEN asked ELSE i

\* spawnStreamingDaemonWithRetry: the handshake gives the session that was asked
\* for, or a new one.  A process that does not shake hands is closed.
Spawn(p) ==
  /\ At(p, "lead") /\ flight.leader = p /\ flight.stage = "spawn"
  /\ \/ /\ Unspawned # {} /\ ~poolClosed
        /\ LET i == CHOOSE j \in Unspawned : TRUE
           IN /\ daemons' = [daemons EXCEPT ![i] =
                    [FreshDaemon EXCEPT !.proc = "alive", !.state = "Ready", !.turns = proc[p].turns,
                                        !.sess = SpawnedSession(flight.sess, i)]]
              /\ flight' = [flight EXCEPT !.stage = "register", !.d = i]
        /\ NoPoolFault
        /\ UNCHANGED proc
     \/ /\ \/ (Unspawned = {} \/ poolClosed) /\ NoPoolFault
           \/ PoolFault
        /\ EndFlight(p, NoDaemon, FALSE)
        /\ UNCHANGED daemons
  /\ UNCHANGED <<mode, available, pinned, locks, lockOf, closers, record, poolClosed, prewarming, reloads>>

\* mutant: a pool that closed during the spawn is not looked at
RegisterBlind(p) ==
  /\ At(p, "lead") /\ flight.leader = p /\ flight.stage = "register"
  /\ pinned' = flight.d
  /\ EndFlight(p, flight.d, TRUE)
  /\ UNCHANGED <<mode, available, daemons, closers, locks, lockOf, record, poolClosed, prewarming, reloads, poolFaults>>

RegisterSpawned(p) ==
  /\ At(p, "lead") /\ flight.leader = p /\ flight.stage = "register"
  /\ LET i == flight.d IN
     IF poolClosed
     THEN /\ daemons' = [daemons EXCEPT ![i] = ClosedDaemon(@)]
          /\ EndFlight(p, i, FALSE)
          /\ UNCHANGED <<pinned, closers>>
     ELSE /\ pinned' = i
          /\ EndFlight(p, i, TRUE)
          /\ UNCHANGED <<daemons, closers>>
  /\ UNCHANGED <<mode, available, locks, lockOf, record, poolClosed, prewarming, reloads, poolFaults>>

--------------------
(* The lease: Execute *)

\* ensureActiveDaemon
EnsureActive(p) ==
  /\ At(p, "leased")
  /\ LET d == daemons[proc[p].d]
     IN proc' = [proc EXCEPT ![p].pc = IF d.state # "Closed" /\ ~d.dirty THEN "send" ELSE "create",
                             ![p].next = "send", ![p].want = proc[p].sess, ![p].cancel = FALSE]
  /\ UNCHANGED <<mode, available, daemons, pinned, locks, lockOf, flight, closers, record, poolClosed, prewarming, reloads, poolFaults>>

\* handleErr of Execute: no rotation, and a daemon that is not merely throttled
\* is dirty
FailedTurn(p, d) ==
  /\ daemons' = [d EXCEPT ![proc[p].d].dirty = TRUE]
  /\ proc' = [proc EXCEPT ![p].pc = "release", ![p].cancel = TRUE, ![p].answer = "none"]

\* Send, up to and after the state check
SendCheck(p) ==
  /\ At(p, "send")
  /\ IF daemons[proc[p].d].state = "Closed" \/ daemons[proc[p].d].closed
     THEN FailedTurn(p, daemons)
     ELSE Goto(p, "append") /\ UNCHANGED daemons
  /\ UNCHANGED <<mode, available, pinned, locks, lockOf, flight, closers, record, poolClosed, prewarming, reloads, poolFaults>>

SendAppend(p) ==
  /\ At(p, "append")
  /\ daemons' = [daemons EXCEPT ![proc[p].d].inflight = Append(@, p), ![proc[p].d].state = "Executing"]
  /\ proc' = [proc EXCEPT ![p].pc = "write", ![p].answer = "none"]
  /\ UNCHANGED <<mode, available, pinned, locks, lockOf, flight, closers, record, poolClosed, prewarming, reloads, poolFaults>>

SendWrite(p) ==
  /\ At(p, "write")
  /\ LET i == proc[p].d
         d == daemons[i]
     IN IF d.proc = "alive"
        THEN /\ daemons' = [daemons EXCEPT ![i].stdin = Append(@, p)]
             /\ Goto(p, "await")
        ELSE LET popped == IF d.inflight # <<>> /\ Last(d.inflight) = p
                           THEN Front(d.inflight) ELSE d.inflight
             IN FailedTurn(p, [daemons EXCEPT ![i] = [d EXCEPT !.inflight = popped, !.state = "Closed"]])
  /\ UNCHANGED <<mode, available, pinned, locks, lockOf, flight, closers, record, poolClosed, prewarming, reloads, poolFaults>>

\* bufSink.Wait: a result (the turn counts, the worker saves session and count),
\* an empty one (dirty unless throttled), an error
TakeAnswer(p) ==
  /\ At(p, "await") /\ proc[p].answer # "none"
  /\ \/ /\ proc[p].answer \in {"result", "empty"}
        /\ \E throttled \in BOOLEAN :
             /\ throttled => proc[p].answer = "empty"
             /\ daemons' = IF proc[p].answer = "empty" /\ ~throttled
                           THEN [daemons EXCEPT ![proc[p].d].dirty = TRUE] ELSE daemons
             /\ proc' = [proc EXCEPT ![p].pc = "release", ![p].turns = @ + 1, ![p].cancel = throttled,
                                     ![p].sess = daemons[proc[p].d].sess, ![p].answer = "none"]
        /\ record' = IF mode = "worker" THEN record
                     ELSE [active |-> daemons[proc[p].d].sess, turns |-> record.turns + 1]
     \/ /\ proc[p].answer = "error"
        /\ FailedTurn(p, daemons)
        /\ UNCHANGED record
  /\ UNCHANGED <<mode, available, pinned, locks, lockOf, flight, closers, poolClosed, prewarming, reloads, poolFaults>>

\* mutant: an abandoned turn is taken out of the queue
AbandonAndForget(p) ==
  /\ At(p, "await") /\ proc[p].answer = "none"
  /\ PoolFault
  /\ FailedTurn(p, [daemons EXCEPT ![proc[p].d].inflight = <<>>])
  /\ UNCHANGED <<mode, available, pinned, locks, lockOf, flight, closers, record, poolClosed, prewarming, reloads>>

\* the turn's context ends first: the turn stays in the daemon's queue
AbandonTurn(p) ==
  /\ At(p, "await") /\ proc[p].answer = "none"
  /\ PoolFault
  /\ FailedTurn(p, daemons)
  /\ UNCHANGED <<mode, available, pinned, locks, lockOf, flight, closers, record, poolClosed, prewarming, reloads>>

--------------------
(* The daemon's reader goroutine *)

\* handleResultEvent: the oldest turn gets the answer of the oldest prompt
ReadResult(i) ==
  /\ daemons[i].proc = "alive" /\ daemons[i].reader = "read" /\ ~daemons[i].closed
  /\ daemons[i].stdin # <<>> /\ daemons[i].inflight # <<>>
  /\ \E kind \in {"result", "empty", "error"}, w \in daemons[i].weight..2 :
       /\ kind # "result" => w = daemons[i].weight
       /\ LET t == Head(daemons[i].inflight)
              d == daemons[i]
              more == Len(d.inflight) > 1
          IN /\ daemons' = [daemons EXCEPT ![i] =
                  [d EXCEPT !.inflight = Tail(d.inflight), !.stdin = Tail(d.stdin), !.turns = d.turns + 1, !.weight = w,
                            !.state = IF more \/ d.state = "Closed" THEN d.state ELSE "Ready",
                            !.reader = IF more THEN "read" ELSE "finish"]]
             /\ proc' = IF proc[t].pc = "await" /\ proc[t].d = i
                        THEN [proc EXCEPT ![t].answer = kind] ELSE proc
  /\ UNCHANGED <<mode, available, pinned, locks, lockOf, flight, closers, record, poolClosed, prewarming, reloads, poolFaults>>

\* onTurnFinished is read after the queue was popped; it runs in a goroutine
ReadFinish(i) ==
  /\ daemons[i].reader = "finish"
  /\ daemons' = [daemons EXCEPT ![i].reader = "read"]
  /\ closers' = IF daemons[i].onFinish THEN closers \cup {i} ELSE closers
  /\ UNCHANGED <<mode, available, pinned, locks, lockOf, flight, proc, record, poolClosed, prewarming, reloads, poolFaults>>

\* the process ends by itself; handleStdoutEOF fails (or rescues from the
\* transcript) what is in flight
ProcessDies(i) ==
  /\ daemons[i].proc = "alive"
  /\ PoolFault
  /\ daemons' = [daemons EXCEPT ![i].proc = "dead", ![i].stdin = <<>>]
  /\ UNCHANGED <<mode, available, pinned, locks, lockOf, flight, proc, closers, record, poolClosed, prewarming, reloads>>

ReadEOF(i) ==
  /\ daemons[i].proc = "dead" /\ daemons[i].reader = "read"
  /\ daemons' = [daemons EXCEPT ![i] = [@ EXCEPT !.state = "Closed", !.reader = "end", !.inflight = <<>>]]
  /\ \E rescued \in BOOLEAN :
       proc' = [q \in PoolProcs |->
                  IF proc[q].pc \in {"await", "write"} /\ proc[q].d = i /\ proc[q].answer = "none"
                     /\ \E k \in 1..Inflight(i) : daemons[i].inflight[k] = q
                  THEN [proc[q] EXCEPT !.answer = IF rescued /\ proc[q].pc = "await" THEN "result" ELSE "error"]
                  ELSE proc[q]]
  /\ UNCHANGED <<mode, available, pinned, locks, lockOf, flight, closers, record, poolClosed, prewarming, reloads, poolFaults>>

\* a background goroutine closes a retired daemon
RunCloser(i) ==
  /\ i \in closers
  /\ daemons[i].reader # "finish"
  /\ daemons' = [daemons EXCEPT ![i] = ClosedDaemon(@)]
  /\ proc' = IF daemons[i].closed THEN proc ELSE FailTurns(daemons[i].inflight, proc)
  /\ closers' = closers \ {i}
  /\ UNCHANGED <<mode, available, pinned, locks, lockOf, flight, record, poolClosed, prewarming, reloads, poolFaults>>

--------------------
(* Release, rotation *)

Release(p) ==
  /\ At(p, "release")
  /\ LET i == proc[p].d
         stay == \/ proc[p].cancel
                 \/ daemons[i].state = "Closed" /\ ~poolClosed
                 \/ ~ShouldRotate(i) /\ proc[p].turns < MaxSessionTurns
     IN Goto(p, IF stay THEN "unlock" ELSE "rotate")
  /\ UNCHANGED <<mode, available, daemons, pinned, locks, lockOf, flight, closers, record, poolClosed, prewarming, reloads, poolFaults>>

\* RotateDaemon: the pinned daemon leaves the map and is closed, then GetOrCreate
RotateDaemon(p) ==
  /\ At(p, "rotate") /\ PoolMuFree
  /\ IF poolClosed THEN Goto(p, IF p = Rotator THEN "return" ELSE "evict") /\ UNCHANGED <<pinned, daemons>>
     ELSE LET gone == pinned
              moved == [proc EXCEPT ![p] = [@ EXCEPT !.pc = "create", !.next = IF p = Rotator THEN "recycle" ELSE "rotated", !.sess = 0, !.turns = 0]]
          IN /\ pinned' = NoDaemon
             /\ IF gone = NoDaemon THEN proc' = moved /\ UNCHANGED daemons
                ELSE /\ daemons[gone].reader # "finish"
                     /\ daemons' = [daemons EXCEPT ![gone] = ClosedDaemon(@)]
                     /\ proc' = FailTurns(daemons[gone].inflight, moved)
  /\ UNCHANGED <<mode, available, locks, lockOf, flight, closers, record, poolClosed, prewarming, reloads, poolFaults>>

\* mutant: a failed save of the rotated session keeps the new daemon
PersistIgnored(p) ==
  /\ At(p, "persist")
  /\ \/ /\ record' = IF mode = "worker" THEN record ELSE [active |-> daemons[proc[p].d].sess, turns |-> 0]
        /\ NoPoolFault
     \/ PoolFault /\ UNCHANGED record
  /\ Goto(p, "unlock")
  /\ UNCHANGED <<mode, available, daemons, pinned, locks, lockOf, flight, closers, poolClosed, prewarming, reloads>>

\* OnSessionRotated; a failed save evicts the new daemon
Persist(p) ==
  /\ At(p, "persist")
  /\ \/ /\ record' = IF mode = "worker" THEN record ELSE [active |-> daemons[proc[p].d].sess, turns |-> 0]
        /\ NoPoolFault
        /\ Goto(p, "unlock")
     \/ /\ mode = "pinned" /\ PoolFault
        /\ UNCHANGED record
        /\ Goto(p, "evict")
  /\ UNCHANGED <<mode, available, daemons, pinned, locks, lockOf, flight, closers, poolClosed, prewarming, reloads>>

EvictSession(p) ==
  /\ At(p, "evict") /\ PoolMuFree
  /\ pinned' = NoDaemon
  /\ LET moved == [proc EXCEPT ![p].pc = "unlock"]
     IN IF pinned = NoDaemon THEN proc' = moved /\ UNCHANGED daemons
        ELSE /\ daemons[pinned].reader # "finish"
             /\ daemons' = [daemons EXCEPT ![pinned] = ClosedDaemon(@)]
             /\ proc' = FailTurns(daemons[pinned].inflight, moved)
  /\ UNCHANGED <<mode, available, locks, lockOf, flight, closers, record, poolClosed, prewarming, reloads, poolFaults>>

--------------------
(* MarkDirty, prewarming, Close *)

\* a reload retires an idle daemon and re-warms the target; a busy one is only
\* marked
MarkDirty ==
  /\ PoolMuFree /\ ~poolClosed /\ reloads > 0
  /\ reloads' = reloads - 1
  /\ LET idle == pinned # NoDaemon /\ Inflight(pinned) = 0 /\ ~IsTargetLocked
         empty == pinned = NoDaemon \/ idle \/ daemons[pinned].state = "Closed"
         warm == mode = "worker" /\ ~prewarming /\ ~IsTargetLocked /\ empty
     IN /\ pinned' = IF idle THEN NoDaemon ELSE pinned
        /\ closers' = IF idle THEN closers \cup {pinned} ELSE closers
        /\ daemons' = IF pinned = NoDaemon THEN daemons ELSE [daemons EXCEPT ![pinned].dirty = TRUE]
        /\ prewarming' = (prewarming \/ warm)
        /\ proc' = IF warm THEN [proc EXCEPT ![Warmer] = [RestingProc EXCEPT !.pc = "warm"]] ELSE proc
  /\ UNCHANGED <<mode, available, locks, lockOf, flight, record, poolClosed, poolFaults>>

\* mutant: the lock that was not acquired is not missed
PrewarmUnlocked(p) ==
  /\ p = Warmer /\ At(p, "warm")
  /\ lockOf' = TheLock
  /\ locks' = [locks EXCEPT ![TheLock].refs = @ + 1]
  /\ proc' = [proc EXCEPT ![p] = [@ EXCEPT !.pc = "create", !.lk = TheLock, !.next = "warm"]]
  /\ UNCHANGED <<mode, available, daemons, pinned, flight, closers, record, poolClosed, prewarming, reloads, poolFaults>>

\* prewarmTarget: nothing to do when a clean daemon is there or the target is
\* locked; otherwise GetOrCreate under the target lock
PrewarmTarget(p) ==
  /\ p = Warmer /\ At(p, "warm")
  /\ LET served == pinned # NoDaemon /\ daemons[pinned].state # "Closed" /\ ~daemons[pinned].dirty
     IN IF served \/ IsTargetLocked
        THEN /\ proc' = [proc EXCEPT ![p] = [RestingProc EXCEPT !.next = "done"]]
             /\ prewarming' = FALSE
             /\ UNCHANGED <<locks, lockOf>>
        ELSE /\ lockOf' = TheLock
             /\ locks' = [locks EXCEPT ![TheLock] = [sem |-> TRUE, refs |-> @.refs + 1]]
             /\ proc' = [proc EXCEPT ![p] = [@ EXCEPT !.pc = "create", !.lk = TheLock, !.next = "warm"]]
             /\ UNCHANGED prewarming
  /\ UNCHANGED <<mode, available, daemons, pinned, flight, closers, record, poolClosed, reloads, poolFaults>>

PoolClose ==
  /\ PoolMuFree /\ ~poolClosed
  /\ poolClosed' = TRUE
  /\ pinned' = NoDaemon
  /\ closers' = closers \cup ({pinned} \ {NoDaemon})
  /\ UNCHANGED <<mode, available, daemons, locks, lockOf, flight, proc, record, prewarming, reloads, poolFaults>>

PoolTurn(p) ==
  \/ AskForLock(p) \/ TakeLock(p) \/ Unlock(p) \/ Unref(p) \/ ReadRecord(p)
  \/ GetOrCreateFast(p) \/ CheckExisting(p) \/ ArmDrain(p) \/ RecheckDrain(p) \/ JoinFlight(p) \/ Spawn(p) \/ RegisterSpawned(p)
  \/ EnsureActive(p) \/ SendCheck(p) \/ SendAppend(p) \/ SendWrite(p) \/ TakeAnswer(p)
  \/ Release(p) \/ RotateDaemon(p) \/ Persist(p) \/ EvictSession(p) \/ PrewarmTarget(p) \/ ReturnWorker(p)
PoolReader(i) == ReadResult(i) \/ ReadFinish(i) \/ ReadEOF(i) \/ RunCloser(i)
PoolMishap ==
  \/ \E p \in PoolProcs : LockTimeout(p) \/ AbandonTurn(p)
  \/ \E i \in DaemonIds : ProcessDies(i)

PoolNext ==
  \/ \E p \in PoolProcs : PoolTurn(p)
  \/ \E i \in DaemonIds : PoolReader(i)
  \/ PoolMishap \/ MarkDirty \/ PoolClose

--------------------
(* Properties *)

PoolTypeOK ==
  /\ pinned \in DaemonIds \cup {NoDaemon}
  /\ \A i \in DaemonIds : daemons[i].inflight \in Seq(PoolProcs) /\ daemons[i].sess \in 0..MaxSpawns
  /\ lockOf \in LockIds \cup {NoLock}
  /\ \A l \in LockIds : locks[l].refs \in 0..Cardinality(PoolProcs)
  /\ closers \subseteq DaemonIds

HoldsTarget(p) == p # Rotator /\ proc[p].pc \notin {"idle", "lock", "warm", "unref"}

\* At most one turn (or the re-warming goroutine) uses the target, although the
\* lock object is deleted and made anew behind the callers' backs.
LeaseIsExclusive == \A p, q \in PoolProcs : HoldsTarget(p) /\ HoldsTarget(q) => p = q

\* No agent process outlives its use unnoticed: a running daemon is pinned, is
\* about to be closed, is being registered, or drains its last turns and will be
\* closed by the result.
NoForgottenDaemon ==
  \A i \in DaemonIds : daemons[i].proc = "alive" /\ ~daemons[i].closed =>
    \/ pinned = i /\ ~poolClosed
    \/ i \in closers
    \/ flight.stage \in {"register", "arm", "recheck"} /\ flight.d = i
    \/ daemons[i].onFinish /\ (Inflight(i) > 0 \/ daemons[i].reader = "finish")

\* A turn that waits can still be answered: it has its answer, or it is queued at
\* a daemon whose process or whose end of file will answer it.
NoStuckTurn ==
  \A p \in PoolProcs : proc[p].pc = "await" /\ proc[p].answer = "none" =>
    LET d == daemons[proc[p].d]
    IN /\ \E k \in 1..Len(d.inflight) : d.inflight[k] = p
       /\ d.proc \in {"alive", "dead"} /\ d.reader # "end"

\* The prompts a process has read but not answered are those of the turns in
\* flight, in their order: no turn gets the answer of another.
AnswersMatchQuestions ==
  \A i \in DaemonIds : daemons[i].proc = "alive" /\ ~daemons[i].closed =>
    IsPrefix(daemons[i].stdin, daemons[i].inflight)

\* A lease that knows its session (from the database or from its earlier daemon)
\* talks to a daemon of that session, although GetOrCreate shares one result
\* among its concurrent callers.
LeaseKeepsItsSession ==
  \A p \in Lessees : (proc[p].pc \in {"leased", "send", "append", "write"} /\ proc[p].want # 0)
    => daemons[proc[p].d].sess = proc[p].want

\* A worker serves every turn with a process no other turn has used, whatever
\* reloads, failed spawns and abandoned turns came before.
EphemeralTurnIsFresh ==
  \A p \in Lessees : (mode = "worker" /\ proc[p].pc \in {"leased", "send", "append"})
    => daemons[proc[p].d].turns = 0 /\ Inflight(proc[p].d) = 0

\* A rotation ends with the database and the pool in agreement: the new daemon's
\* session is recorded, or there is no daemon.
RotationIsRecorded ==
  \A p \in Lessees : (mode = "pinned" /\ proc[p].pc = "unlock" /\ proc[p].next = "rotated" /\ pinned # NoDaemon)
    => daemons[pinned].sess = record.active

\* The process pool keeps its promises together: one lessee per daemon, its own
\* session and answers for each, no daemon and no waiting turn left behind.
PoolIsSound ==
    /\ PoolTypeOK /\ LeaseIsExclusive /\ NoForgottenDaemon /\ NoStuckTurn
    /\ AnswersMatchQuestions /\ LeaseKeepsItsSession /\ EphemeralTurnIsFresh /\ RotationIsRecorded
====================
