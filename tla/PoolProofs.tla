----------- MODULE PoolProofs -----------
(* The runner pools of ProcessPool, for every number of turns, daemons, *)
(* spawns and faults: PoolIsSound. *)
(*  *)
(* The statement speaks of the daemons; what makes it true is where the *)
(* goroutines are.  PoolInv therefore says, for every goroutine, what it *)
(* holds at its place in the code (Roles), and that the locks, the spawn *)
(* in flight, the daemons, their queues of turns and the session record *)
(* agree with that (LocksMatch, FlightMatches, DaemonsMatch, TurnsMatch, *)
(* SessionsMatch, WorkersFresh).  A reference count of a lock is a number *)
(* of goroutines, hence the theorems on finite sets. *)
EXTENDS ProcessPool, FiniteSetTheorems, TLAPS

PoolSpec == PoolInit /\ [][PoolNext]_poolVars

Pcs == {"idle", "lock", "record", "create", "flight", "joined", "lead", "leased", "send", "append", "write",
        "await", "release", "rotate", "persist", "evict", "unlock", "unref", "return", "warm"}
ProcRecords ==
    [pc : Pcs, lk : LockIds \cup {NoLock}, sess : 0..MaxSpawns, want : 0..MaxSpawns,
     d : DaemonIds \cup {NoDaemon}, turns : Nat, cancel : BOOLEAN,
     next : {"none", "lease", "send", "rotated", "recycle", "warm", "done"},
     answer : {"none", "result", "empty", "error"}]
DaemonRecords ==
    [proc : {"none", "alive", "dead", "gone"}, state : {"Starting", "Ready", "Executing", "Closed"},
     closed : BOOLEAN, dirty : BOOLEAN, turns : Nat, weight : 0..2, inflight : Seq(PoolProcs),
     stdin : Seq(PoolProcs), sess : 0..MaxSpawns, onFinish : BOOLEAN, reader : {"read", "finish", "end"}]
FlightRecords ==
    [leader : PoolProcs, stage : {"none", "arm", "recheck", "spawn", "register"}, sess : 0..MaxSpawns,
     d : DaemonIds \cup {NoDaemon}]

PoolTypes ==
    /\ mode \in {"pinned", "worker"} /\ available \in BOOLEAN
    /\ daemons \in [DaemonIds -> DaemonRecords]
    /\ pinned \in DaemonIds \cup {NoDaemon}
    /\ locks \in [LockIds -> [sem : BOOLEAN, refs : Nat]]
    /\ lockOf \in LockIds \cup {NoLock}
    /\ flight \in FlightRecords
    /\ proc \in [PoolProcs -> ProcRecords]
    /\ closers \subseteq DaemonIds
    /\ record \in [active : 0..MaxSpawns, turns : Nat]
    /\ poolClosed \in BOOLEAN /\ prewarming \in BOOLEAN
    /\ reloads \in Nat /\ poolFaults \in Nat

Creating == {"create", "flight", "joined", "lead"}

\* What each goroutine may do: a turn, the one that warms the target, the one that
\* recycles a worker.
MayBe(p, q) ==
    /\ p \in Lessees => /\ q.pc \notin {"joined", "return", "warm"}
                        /\ q.pc \in Creating => q.next \in {"lease", "send", "rotated"}
    /\ p = Warmer => /\ q.pc \in {"idle", "warm", "unlock", "unref"} \cup Creating
                     /\ q.pc \in Creating => q.next = "warm"
    /\ p = Rotator => /\ q.pc \in {"idle", "rotate", "return"} \cup Creating
                      /\ q.pc \in Creating \cup {"rotate"} => q.next = "recycle"

\* Where the goroutines may be, and that an interchangeable worker has one user.
Roles ==
    /\ \A p \in PoolProcs : MayBe(p, proc[p])
    /\ proc[Warmer].pc # "idle" => prewarming /\ mode = "worker"
    /\ proc[Rotator].pc # "idle" => mode = "worker"
    /\ mode = "pinned" => ~available
    /\ mode = "worker" =>
         /\ \A p, q \in Lessees \cup {Rotator} : proc[p].pc # "idle" /\ proc[q].pc # "idle" => p = q
         /\ available => \A p \in Lessees \cup {Rotator} : proc[p].pc = "idle"

Users(l) == {p \in PoolProcs : proc[p].lk = l}

\* The lock of the target: who has it has the one of the map, and it counts its users.
LocksMatch ==
    /\ \A p \in PoolProcs : proc[p].lk # NoLock => proc[p].lk = lockOf
    /\ \A p \in PoolProcs : proc[p].lk # NoLock <=> (p # Rotator /\ proc[p].pc \notin {"idle", "warm"})
    /\ \A l \in LockIds : locks[l].refs = Cardinality(Users(l))
    /\ \A l \in LockIds : locks[l].sem <=> \E p \in PoolProcs : HoldsTarget(p) /\ proc[p].lk = l
    /\ LeaseIsExclusive

\* Single-flight: one leader, and a daemon that only the leader knows.
FlightMatches ==
    /\ flight.stage # "none" => proc[flight.leader].pc = "lead" /\ pinned = NoDaemon
    /\ \A p \in PoolProcs : proc[p].pc = "lead" => flight.stage # "none" /\ flight.leader = p
    /\ flight.stage \in {"arm", "recheck", "register"} => flight.d # NoDaemon /\ daemons[flight.d].proc # "none"
    /\ flight.stage = "recheck" => daemons[flight.d].onFinish
    /\ flight.stage \in {"arm", "recheck", "spawn"} /\ proc[flight.leader].sess # 0
         => flight.sess = proc[flight.leader].sess
    /\ flight.stage = "register" =>
         /\ daemons[flight.d].inflight = <<>> /\ daemons[flight.d].stdin = <<>>
         /\ daemons[flight.d].reader # "finish"
         /\ daemons[flight.d].turns = proc[flight.leader].turns
         /\ proc[flight.leader].sess # 0 => daemons[flight.d].sess = proc[flight.leader].sess
         /\ flight.d \notin closers /\ \A p \in PoolProcs : proc[p].d # flight.d

\* No daemon is used before it is spawned or after it is closed, none is left behind.
DaemonsMatch ==
    /\ \A i \in DaemonIds : daemons[i].proc = "none" =>
         i # pinned /\ i \notin closers /\ daemons[i].reader = "read" /\ \A p \in PoolProcs : proc[p].d # i
    /\ \A i \in DaemonIds : daemons[i].closed => daemons[i].proc = "gone"
    /\ \A i \in DaemonIds : daemons[i].proc = "alive" => daemons[i].reader # "end"
    /\ poolClosed => pinned = NoDaemon
    /\ NoForgottenDaemon

InTurn == {"leased", "send", "append", "write", "await", "release", "persist"}

\* A turn that has its prompt still to send.
Ahead(q) ==
    \/ q.pc \in {"lock", "record", "leased", "send", "append"}
    \/ q.pc = "idle" /\ q.next # "done"
    \/ q.pc \in Creating /\ q.next \in {"lease", "send"}

Queued(q, i) == \E k \in 1..Len(daemons[i].inflight) : daemons[i].inflight[k] = q

Writes(p, i) == p \in Lessees /\ proc[p].pc = "write" /\ proc[p].d = i

\* What a daemon still has to answer is what was written to it, in that order.
TurnsMatch ==
    /\ \A p \in PoolProcs :
         proc[p].pc \in InTurn \/ (proc[p].pc \in Creating /\ proc[p].next = "send") => proc[p].d # NoDaemon
    /\ \A i \in DaemonIds, q \in PoolProcs : Queued(q, i) =>
         /\ q \in Lessees /\ ~Ahead(proc[q])
         /\ proc[q].pc \in {"write", "await"} => proc[q].d = i
    /\ \A i \in DaemonIds : daemons[i].proc = "alive" =>
         /\ \A p \in PoolProcs : Writes(p, i) => daemons[i].inflight = Append(daemons[i].stdin, p)
         /\ (\A p \in PoolProcs : ~Writes(p, i)) => daemons[i].inflight = daemons[i].stdin
    /\ NoStuckTurn

\* A turn speaks in the session it read, and a rotation reaches the record.
SessionsMatch ==
    /\ \A p \in Lessees :
         /\ proc[p].pc \in {"lock", "record"} \/ (proc[p].pc \in Creating /\ proc[p].next \in {"lease", "send"})
              => proc[p].sess = proc[p].want
         /\ proc[p].pc = "leased" => proc[p].sess = daemons[proc[p].d].sess
         /\ mode = "pinned" /\ proc[p].pc = "persist" => pinned \in {NoDaemon, proc[p].d}
         /\ proc[p].pc \in {"leased", "send", "append", "write", "await", "release"} => proc[p].next # "rotated"
    /\ LeaseKeepsItsSession
    /\ RotationIsRecorded

Used(i) == daemons[i].turns # 0 \/ daemons[i].inflight # <<>>
Spent(q) ==
    /\ q.d # NoDaemon
    /\ \/ q.pc \in {"write", "await", "release", "rotate", "persist", "evict", "unlock", "unref"}
       \/ q.pc \in Creating /\ q.next = "rotated"
Over == {"release", "rotate", "evict", "unlock", "unref"}

\* A worker that has answered a turn is recycled before the next one.
WorkersFresh ==
    mode = "worker" =>
      /\ record.active = 0 /\ record.turns = 0
      /\ \A p \in PoolProcs : proc[p].turns # 0 => p \in Lessees /\ proc[p].pc \in Over
      /\ pinned # NoDaemon /\ Used(pinned) => proc[Rotator].pc = "rotate" \/ \E p \in Lessees : Spent(proc[p])
      /\ EphemeralTurnIsFresh

PoolInv ==
    /\ PoolTypes /\ Roles /\ LocksMatch /\ FlightMatches /\ DaemonsMatch /\ TurnsMatch
    /\ SessionsMatch /\ WorkersFresh

LEMMA Cast ==
    /\ Lessees \subseteq PoolProcs /\ Warmer \in PoolProcs /\ Rotator \in PoolProcs
    /\ Warmer \notin Lessees /\ Rotator \notin Lessees /\ Warmer # Rotator
    /\ \A p \in PoolProcs : p \in Lessees \/ p = Warmer \/ p = Rotator
    /\ NoLock \notin LockIds /\ NoDaemon \notin DaemonIds
    /\ MaxSpawns \in Nat /\ \A i \in DaemonIds : i \in 0..MaxSpawns
  BY PoolAssumption DEF PoolProcs, Warmer, Rotator, NoLock, NoDaemon, LockIds, DaemonIds

LEMMA Cast2 == IsFiniteSet(PoolProcs) /\ Cardinality(PoolProcs) \in Nat /\ 1 \in LockIds
               /\ \A S \in SUBSET PoolProcs : IsFiniteSet(S) /\ Cardinality(S) \in Nat /\ Cardinality(S) <= Cardinality(PoolProcs)
<1>1. PoolProcs = (Lessees \cup {Warmer}) \cup {Rotator}
  BY DEF PoolProcs
<1>2. IsFiniteSet(PoolProcs)
  BY <1>1, FS_AddElement, PoolAssumption
<1>3. Cardinality(PoolProcs) \in Nat
  BY <1>2, FS_CardinalityType
<1> QED
  BY <1>2, <1>3, FS_Subset, FS_CardinalityType DEF LockIds

LEMMA PoolFields ==
    ASSUME PoolTypes
    PROVE  /\ \A p \in PoolProcs :
                /\ proc[p].pc \in Pcs /\ proc[p].lk \in LockIds \cup {NoLock}
                /\ proc[p].sess \in 0..MaxSpawns /\ proc[p].want \in 0..MaxSpawns
                /\ proc[p].d \in DaemonIds \cup {NoDaemon} /\ proc[p].turns \in Nat
           /\ \A i \in DaemonIds :
                /\ daemons[i].turns \in Nat /\ daemons[i].weight \in 0..2
                /\ daemons[i].inflight \in Seq(PoolProcs) /\ daemons[i].stdin \in Seq(PoolProcs)
                /\ daemons[i].sess \in 0..MaxSpawns
           /\ flight.leader \in PoolProcs /\ flight.sess \in 0..MaxSpawns
           /\ flight.d \in DaemonIds \cup {NoDaemon}
           /\ \A l \in LockIds : locks[l].refs \in Nat /\ locks[l].sem \in BOOLEAN
           /\ record.active \in 0..MaxSpawns /\ record.turns \in Nat
  BY DEF PoolTypes, ProcRecords, DaemonRecords, FlightRecords

LEMMA PoolStarts == PoolInit => PoolInv
<1> SUFFICES ASSUME PoolInit PROVE PoolInv
  OBVIOUS
<1>1. RestingProc \in ProcRecords
  BY Cast DEF RestingProc, ProcRecords, Pcs
<1>2. FreshDaemon \in DaemonRecords
  BY Cast DEF FreshDaemon, DaemonRecords
<1>3. NoFlight \in FlightRecords
  BY Cast DEF NoFlight, FlightRecords
<1>4. PoolTypes
  <2>1. reloads \in Nat /\ poolFaults \in Nat
    BY PoolAssumption DEF PoolInit
  <2>2. record \in [active : 0..MaxSpawns, turns : Nat] /\ locks \in [LockIds -> [sem : BOOLEAN, refs : Nat]]
    BY Cast DEF PoolInit
  <2>3. /\ daemons \in [DaemonIds -> DaemonRecords] /\ proc \in [PoolProcs -> ProcRecords]
        /\ flight \in FlightRecords
    BY <1>1, <1>2, <1>3 DEF PoolInit
  <2> QED
    BY <2>1, <2>2, <2>3 DEF PoolInit, PoolTypes
<1>5. /\ \A p \in PoolProcs : proc[p].pc = "idle" /\ proc[p].lk = NoLock /\ proc[p].d = NoDaemon /\ proc[p].next = "none"
                              /\ proc[p].turns = 0
      /\ \A i \in DaemonIds : daemons[i].proc = "none" /\ ~daemons[i].closed /\ daemons[i].inflight = <<>>
      /\ flight.stage = "none" /\ pinned = NoDaemon /\ closers = {}
  BY DEF PoolInit, RestingProc, FreshDaemon, NoFlight
<1>f. \A i \in DaemonIds : daemons[i].reader = "read"
  BY DEF PoolInit, FreshDaemon
<1>6. Roles
  BY <1>5, Cast DEF Roles, PoolInit, MayBe, Creating
<1>7. LocksMatch
  BY <1>5, Cast, FS_EmptySet DEF Users, LocksMatch, PoolInit, LeaseIsExclusive, HoldsTarget
<1>8. FlightMatches
  BY <1>5 DEF FlightMatches
<1>9. DaemonsMatch
  BY <1>5, <1>f, Cast DEF DaemonsMatch, NoForgottenDaemon, PoolInit
<1>10. TurnsMatch
  BY <1>5, Cast DEF TurnsMatch, NoStuckTurn, Queued, InTurn, Creating
<1>11. SessionsMatch
  BY <1>5, Cast DEF SessionsMatch, LeaseKeepsItsSession, RotationIsRecorded, Creating
<1>12. WorkersFresh
  BY <1>5, Cast DEF WorkersFresh, EphemeralTurnIsFresh, PoolInit
<1> QED
  BY <1>4, <1>6, <1>7, <1>8, <1>9, <1>10, <1>11, <1>12 DEF PoolInv

LEMMA PoolEnough == PoolInv => PoolIsSound
<1> SUFFICES ASSUME PoolInv PROVE PoolIsSound
  OBVIOUS
<1>1. PoolTypeOK
  <2>1. \A l \in LockIds : Users(l) \in SUBSET PoolProcs
    BY DEF Users
  <2>2. \A l \in LockIds : locks[l].refs \in 0..Cardinality(PoolProcs)
    BY <2>1, Cast2 DEF PoolInv, LocksMatch
  <2> QED
    BY <2>2, PoolFields DEF PoolInv, PoolTypes, PoolTypeOK
<1>2. AnswersMatchQuestions
  <2> SUFFICES ASSUME NEW i \in DaemonIds, daemons[i].proc = "alive"
               PROVE  IsPrefix(daemons[i].stdin, daemons[i].inflight)
    BY DEF AnswersMatchQuestions
  <2>1. daemons[i].stdin \in Seq(PoolProcs)
    BY PoolFields DEF PoolInv
  <2>2. daemons[i].inflight = daemons[i].stdin \/ \E p \in PoolProcs : daemons[i].inflight = Append(daemons[i].stdin, p)
    BY DEF PoolInv, TurnsMatch
  <2>3. ASSUME NEW p \in PoolProcs, NEW s \in Seq(PoolProcs) PROVE IsPrefix(s, s) /\ IsPrefix(s, Append(s, p))
    BY DEF IsPrefix
  <2>4. CASE daemons[i].inflight = daemons[i].stdin
    BY <2>1, <2>4 DEF IsPrefix
  <2>5. CASE \E p \in PoolProcs : daemons[i].inflight = Append(daemons[i].stdin, p)
    BY <2>1, <2>3, <2>5
  <2> QED
    BY <2>2, <2>4, <2>5
<1>3. EphemeralTurnIsFresh
  BY DEF PoolInv, WorkersFresh, EphemeralTurnIsFresh
<1> QED
  BY <1>1, <1>2, <1>3 DEF PoolInv, PoolIsSound, LocksMatch, DaemonsMatch, TurnsMatch, SessionsMatch

--------------------
(* What a step leaves alone.  A goroutine that takes no part keeps its *)
(* place; at most its question is answered. *)

Still(q) ==
    /\ proc'[q].pc = proc[q].pc /\ proc'[q].next = proc[q].next /\ proc'[q].lk = proc[q].lk
    /\ proc'[q].sess = proc[q].sess /\ proc'[q].want = proc[q].want
    /\ proc'[q].d = proc[q].d /\ proc'[q].turns = proc[q].turns
    /\ proc'[q].answer = "none" => proc[q].answer = "none"

\* A daemon of which at most the flags dirty and state and the weight change.
Stays(i) ==
    /\ daemons'[i].proc = daemons[i].proc /\ daemons'[i].closed = daemons[i].closed
    /\ daemons'[i].turns = daemons[i].turns /\ daemons'[i].sess = daemons[i].sess
    /\ daemons'[i].inflight = daemons[i].inflight /\ daemons'[i].stdin = daemons[i].stdin
    /\ daemons[i].onFinish => daemons'[i].onFinish
    /\ daemons'[i].reader = daemons[i].reader

\* A daemon that is closed: everyone who waits for it is answered.
Shut(i) ==
    /\ daemons[i].proc # "none" /\ daemons'[i].proc = "gone"
    /\ daemons[i].onFinish => daemons'[i].onFinish
    /\ daemons'[i].reader = daemons[i].reader
    /\ daemons'[i].turns = daemons[i].turns /\ daemons'[i].sess = daemons[i].sess
    /\ daemons'[i].inflight = <<>> /\ daemons'[i].stdin = <<>>
    /\ \A q \in PoolProcs : Still(q) /\ proc[q].pc = "await" /\ proc[q].d = i => proc'[q].answer # "none"

Unpins == pinned' = pinned \/ pinned' = NoDaemon

LEMMA RolesKept ==
    ASSUME Roles, UNCHANGED <<mode, available>>, prewarming => prewarming',
           \A q \in PoolProcs : \/ Still(q)
                                \/ MayBe(q, proc'[q]) /\ (proc'[q].pc # "idle" => proc[q].pc # "idle")
    PROVE  Roles'
BY Cast DEF Roles, Still, MayBe

LEMMA LocksKept ==
    ASSUME LocksMatch, UNCHANGED <<locks, lockOf>>,
           \A q \in PoolProcs :
              \/ Still(q)
              \/ /\ proc'[q].lk = proc[q].lk
                 /\ q # Rotator => /\ proc'[q].pc \in {"idle", "warm"} <=> proc[q].pc \in {"idle", "warm"}
                                   /\ proc'[q].pc \in {"lock", "unref"} <=> proc[q].pc \in {"lock", "unref"}
    PROVE  LocksMatch'
BY DEF Still, HoldsTarget, Users, LocksMatch, LeaseIsExclusive

\* A daemon that was started and the one that is being registered.
Lasts(i) ==
    /\ daemons[i].proc # "none" => daemons'[i].proc # "none"
    /\ daemons[i].onFinish => daemons'[i].onFinish
Rests(i) ==
    /\ daemons'[i].turns = daemons[i].turns /\ daemons'[i].sess = daemons[i].sess
    /\ daemons[i].inflight = <<>> => daemons'[i].inflight = <<>>
    /\ daemons[i].stdin = <<>> => daemons'[i].stdin = <<>>
    /\ daemons'[i].reader = "finish" => daemons[i].reader = "finish"

LEMMA RestLasts ==
    ASSUME NEW i, Stays(i) \/ Shut(i) PROVE Lasts(i) /\ Rests(i)
  BY DEF Stays, Shut, Lasts, Rests

LEMMA FlightKept ==
    ASSUME PoolTypes, FlightMatches, UNCHANGED flight, Unpins,
           \A i \in DaemonIds : Lasts(i), flight.stage = "register" => Rests(flight.d),
           flight.stage = "register" /\ flight.d \in closers' => flight.d \in closers,
           \A q \in PoolProcs :
              \/ Still(q)
              \/ /\ proc[q].pc # "lead" /\ proc'[q].pc # "lead"
                 /\ proc'[q].d = proc[q].d \/ (flight.stage = "register" => proc'[q].d # flight.d)
    PROVE  FlightMatches'
BY PoolFields DEF Still, FlightMatches, Unpins, Lasts, Rests

\* What NoForgottenDaemon asks of a running daemon.
Covered(i) ==
    \/ pinned = i /\ ~poolClosed
    \/ i \in closers
    \/ flight.stage \in {"register", "arm", "recheck"} /\ flight.d = i
    \/ daemons[i].onFinish /\ (Inflight(i) > 0 \/ daemons[i].reader = "finish")

\* A daemon that goes on, or whose process ends.
Lives(i) ==
    /\ daemons'[i].proc = daemons[i].proc \/ (daemons[i].proc = "alive" /\ daemons'[i].proc = "dead")
    /\ daemons'[i].closed = daemons[i].closed
    /\ daemons'[i].reader = "end" => daemons[i].reader = "end" \/ daemons[i].proc # "alive"
    /\ daemons[i].proc = "none" => daemons'[i].reader = daemons[i].reader

LEMMA DaemonsKept ==
    ASSUME PoolTypes, PoolTypes', DaemonsMatch, poolClosed' => pinned' = NoDaemon,
           Unpins \/ daemons[pinned'].proc # "none",
           \A i \in DaemonIds : Lives(i) \/ Shut(i),
           \A i \in DaemonIds : daemons'[i].proc = "alive" /\ Covered(i) => Covered(i)',
           \A i \in closers' : daemons[i].proc # "none",
           \A q \in PoolProcs : proc'[q].d = proc[q].d \/ proc'[q].d = NoDaemon \/ daemons[proc'[q].d].proc # "none"
    PROVE  DaemonsMatch'
BY Cast DEF Lives, Shut, DaemonsMatch, Unpins, NoForgottenDaemon, Covered

LEMMA Living ==
    ASSUME NEW i, Stays(i) PROVE Lives(i) /\ (daemons[i].onFinish /\ (Inflight(i) > 0 \/ daemons[i].reader = "finish")
                                            => (daemons[i].onFinish /\ (Inflight(i) > 0 \/ daemons[i].reader = "finish"))')
BY DEF Stays, Inflight, Lives

\* A daemon that ends: whoever waits for it has its answer or is still in the queue.
Falls(i) ==
    /\ daemons'[i].proc # "alive"
    /\ \A q \in PoolProcs : Queued(q, i)' => Queued(q, i)
    /\ \A q \in PoolProcs : Still(q) /\ proc[q].pc = "await" /\ proc[q].d = i /\ proc'[q].answer = "none"
         => Queued(q, i)' /\ daemons'[i].proc = "dead" /\ daemons'[i].reader # "end"

\* A daemon whose queues stay.
Stands(i) ==
    /\ daemons'[i].proc = daemons[i].proc
    /\ daemons'[i].inflight = daemons[i].inflight /\ daemons'[i].stdin = daemons[i].stdin
    /\ daemons'[i].reader = "end" => daemons[i].reader = "end"

LEMMA Standing == ASSUME NEW i, Stays(i) PROVE Stands(i)
  BY DEF Stays, Stands

LEMMA Falling == ASSUME NEW i, Shut(i) PROVE Falls(i)
  BY DEF Shut, Falls, Queued

\* A goroutine that sends nothing and waits for nothing afterwards.
Turned(q) ==
    /\ proc[q].pc # "write" \/ Falls(proc[q].d)
    /\ proc'[q].pc \notin {"write", "await"}
    /\ q \in Lessees /\ Ahead(proc'[q]) => Ahead(proc[q])
    /\ proc'[q].pc \in InTurn \/ (proc'[q].pc \in Creating /\ proc'[q].next = "send") => proc'[q].d # NoDaemon

LEMMA TurnsKept ==
    ASSUME PoolTypes, TurnsMatch,
           \A i \in DaemonIds : Stands(i) \/ Falls(i),
           \A q \in PoolProcs : Still(q) \/ Turned(q)
    PROVE  TurnsMatch'
<1>1. \A p \in PoolProcs :
         proc'[p].pc \in InTurn \/ (proc'[p].pc \in Creating /\ proc'[p].next = "send") => proc'[p].d # NoDaemon
  BY Cast DEF TurnsMatch, Still, Turned
<1>2. \A i \in DaemonIds, q \in PoolProcs : Queued(q, i)' => Queued(q, i)
  BY DEF Stands, Falls, Queued
<1>3. \A q \in PoolProcs : /\ q \in Lessees /\ Ahead(proc'[q]) => Ahead(proc[q])
                           /\ proc'[q].pc \in {"write", "await"} => Still(q)
                           /\ proc[q].pc = "write" => Still(q) \/ Falls(proc[q].d)
  BY DEF Still, Turned, Ahead
<1>4. \A i \in DaemonIds, q \in PoolProcs : Queued(q, i)' =>
         /\ q \in Lessees /\ ~Ahead(proc'[q])
         /\ proc'[q].pc \in {"write", "await"} => proc'[q].d = i
  BY <1>2, <1>3 DEF TurnsMatch, Still
<1>5. \A p \in PoolProcs, i \in DaemonIds : ~Falls(i) => (Writes(p, i)' <=> Writes(p, i))
  BY <1>3 DEF Writes, Still
<1>6. \A i \in DaemonIds : daemons'[i].proc = "alive" => Stands(i) /\ ~Falls(i)
  BY DEF Falls
<1>7. ASSUME NEW i \in DaemonIds, daemons'[i].proc = "alive"
      PROVE  /\ \A p \in PoolProcs : Writes(p, i)' => daemons'[i].inflight = Append(daemons'[i].stdin, p)
             /\ (\A p \in PoolProcs : ~Writes(p, i)') => daemons'[i].inflight = daemons'[i].stdin
  <2>1. /\ daemons[i].proc = "alive" /\ daemons'[i].inflight = daemons[i].inflight
        /\ daemons'[i].stdin = daemons[i].stdin
    BY <1>6, <1>7 DEF Stands
  <2>2. \A p \in PoolProcs : Writes(p, i)' <=> Writes(p, i)
    BY <1>5, <1>6, <1>7
  <2> QED
    BY <2>1, <2>2 DEF TurnsMatch
<1>8. NoStuckTurn'
  <2> SUFFICES ASSUME NEW p \in PoolProcs, proc'[p].pc = "await", proc'[p].answer = "none"
               PROVE  /\ \E k \in 1..Len(daemons'[proc'[p].d].inflight) : daemons'[proc'[p].d].inflight[k] = p
                      /\ daemons'[proc'[p].d].proc \in {"alive", "dead"} /\ daemons'[proc'[p].d].reader # "end"
    BY DEF NoStuckTurn
  <2>1. Still(p)
    BY <1>3
  <2>2. proc[p].pc = "await" /\ proc[p].answer = "none" /\ proc'[p].d = proc[p].d
    BY <2>1 DEF Still
  <2>3. /\ \E k \in 1..Len(daemons[proc[p].d].inflight) : daemons[proc[p].d].inflight[k] = p
        /\ daemons[proc[p].d].proc \in {"alive", "dead"} /\ daemons[proc[p].d].reader # "end"
    BY <2>2 DEF TurnsMatch, NoStuckTurn
  <2>4. p \in Lessees /\ proc[p].d \in DaemonIds
    BY <2>2, <2>3, PoolFields DEF TurnsMatch, Queued, InTurn
  <2>5. CASE Stands(proc[p].d)
    BY <2>2, <2>3, <2>5 DEF Stands
  <2>6. CASE Falls(proc[p].d)
    BY <2>1, <2>2, <2>6 DEF Falls, Queued
  <2> QED
    BY <2>4, <2>5, <2>6
<1> QED
  BY <1>1, <1>4, <1>7, <1>8 DEF TurnsMatch

\* What a turn knows of its session.
Knows(q) ==
    q \in Lessees =>
      /\ proc'[q].pc \in {"lock", "record"} \/ (proc'[q].pc \in Creating /\ proc'[q].next \in {"lease", "send"})
           => proc'[q].sess = proc'[q].want
      /\ proc'[q].pc = "leased" => proc'[q].sess = daemons[proc'[q].d].sess
      /\ proc'[q].pc \in {"leased", "send", "append", "write"} /\ proc'[q].want # 0
           => daemons[proc'[q].d].sess = proc'[q].want
      /\ mode = "pinned" /\ proc'[q].pc = "persist" => pinned' \in {NoDaemon, proc'[q].d}
      /\ proc'[q].pc \in {"leased", "send", "append", "write", "await", "release"} => proc'[q].next # "rotated"
      /\ mode = "pinned" /\ proc'[q].pc = "unlock" /\ proc'[q].next = "rotated" /\ pinned' # NoDaemon
           => daemons[pinned'].sess = record'.active

LEMMA SessionsKept ==
    ASSUME PoolTypes', TurnsMatch', SessionsMatch, UNCHANGED mode,
           \/ Unpins
           \/ \A q \in Lessees : mode = "pinned" /\ Still(q) => proc[q].pc \notin {"unlock", "persist"},
           \A i \in DaemonIds : daemons'[i].sess = daemons[i].sess,
           \/ record' = record
           \/ \A q \in Lessees : Still(q) => ~(proc[q].pc = "unlock" /\ proc[q].next = "rotated"),
           \A q \in PoolProcs : Still(q) \/ Knows(q)
    PROVE  SessionsMatch'
<1>0. /\ \A p \in Lessees : proc'[p].pc \in InTurn => proc'[p].d \in DaemonIds
      /\ pinned' # NoDaemon => pinned' \in DaemonIds
  BY Cast DEF PoolTypes, ProcRecords, TurnsMatch
<1>1. \A p \in Lessees :
         /\ proc'[p].pc \in {"lock", "record"} \/ (proc'[p].pc \in Creating /\ proc'[p].next \in {"lease", "send"})
              => proc'[p].sess = proc'[p].want
         /\ mode' = "pinned" /\ proc'[p].pc = "persist" => pinned' \in {NoDaemon, proc'[p].d}
         /\ proc'[p].pc \in {"leased", "send", "append", "write", "await", "release"} => proc'[p].next # "rotated"
  BY <1>0, Cast DEF SessionsMatch, Still, Knows, Unpins
<1>2. \A p \in Lessees : proc'[p].pc = "leased" => proc'[p].sess = daemons'[proc'[p].d].sess
  BY <1>0, Cast DEF SessionsMatch, Still, Knows, InTurn
<1>3. LeaseKeepsItsSession'
  BY <1>0, Cast DEF SessionsMatch, LeaseKeepsItsSession, Still, Knows, InTurn
<1>4. RotationIsRecorded'
  BY <1>0, Cast DEF SessionsMatch, RotationIsRecorded, Still, Knows, Unpins
<1> QED
  BY <1>1, <1>2, <1>3, <1>4 DEF SessionsMatch

\* What keeps the daemons of a worker fresh.
Renews(q) ==
    /\ proc'[q].turns # 0 => q \in Lessees /\ proc'[q].pc \in Over
    /\ q \in Lessees /\ Spent(proc[q]) => Spent(proc'[q])
    /\ q = Rotator => proc[q].pc # "rotate" \/ pinned' = NoDaemon
    /\ q \in Lessees /\ proc'[q].pc \in {"leased", "send", "append"} => ~Used(proc'[q].d)

LEMMA FreshKept ==
    ASSUME PoolTypes, PoolTypes', TurnsMatch', WorkersFresh, UNCHANGED mode,
           Unpins \/ (mode = "worker" => ~Used(pinned)'),
           mode = "worker" => record' = record,
           mode = "worker" =>
             \/ \A i \in DaemonIds : Used(i)' => Used(i)
             \/ /\ \E p \in Lessees : Spent(proc'[p])
                /\ \A p \in Lessees : proc'[p].pc \notin {"leased", "send", "append"},
           mode = "worker" => \A q \in PoolProcs : Still(q) \/ Renews(q)
    PROVE  WorkersFresh'
<1> SUFFICES ASSUME mode = "worker" PROVE WorkersFresh'
  BY DEF WorkersFresh
<1>0. /\ \A p \in Lessees : proc'[p].pc \in InTurn => proc'[p].d \in DaemonIds
      /\ pinned' # NoDaemon => pinned' \in DaemonIds
  BY Cast DEF PoolTypes, ProcRecords, TurnsMatch
<1>1. record'.active = 0 /\ record'.turns = 0
  BY DEF WorkersFresh
<1>2. \A p \in PoolProcs : proc'[p].turns # 0 => p \in Lessees /\ proc'[p].pc \in Over
  BY DEF WorkersFresh, Still, Renews
<1>4. \A q \in Lessees : Spent(proc[q]) => Spent(proc'[q])
  BY Cast DEF Still, Spent, Renews
<1>5. pinned' # NoDaemon /\ proc[Rotator].pc = "rotate" => proc'[Rotator].pc = "rotate"
  BY Cast DEF Still, Renews
<1>6. pinned' # NoDaemon /\ Used(pinned)' => proc'[Rotator].pc = "rotate" \/ \E p \in Lessees : Spent(proc'[p])
  BY <1>0, <1>4, <1>5 DEF Unpins, Used, WorkersFresh
<1>7. EphemeralTurnIsFresh'
  <2> SUFFICES ASSUME NEW p \in Lessees, proc'[p].pc \in {"leased", "send", "append"},
                      \A i \in DaemonIds : Used(i)' => Used(i)
               PROVE  daemons'[proc'[p].d].turns = 0 /\ Len(daemons'[proc'[p].d].inflight) = 0
    BY DEF EphemeralTurnIsFresh, Inflight
  <2>1. proc'[p].d \in DaemonIds
    BY <1>0 DEF InTurn
  <2>2. daemons[proc'[p].d].inflight \in Seq(PoolProcs)
    BY <2>1, PoolFields
  <2>3. Still(p) => daemons[proc'[p].d].turns = 0 /\ Len(daemons[proc'[p].d].inflight) = 0
    BY DEF WorkersFresh, EphemeralTurnIsFresh, Still, Inflight
  <2>4. ~Used(proc'[p].d)
    BY <2>2, <2>3, Cast DEF Used, Renews
  <2>5. \A i \in DaemonIds : Used(i)' => Used(i)
    OBVIOUS
  <2>6. daemons'[proc'[p].d].turns = 0 /\ daemons'[proc'[p].d].inflight = <<>>
    BY <2>1, <2>4, <2>5 DEF Used
  <2> QED
    BY <2>6
<1> QED
  BY <1>1, <1>2, <1>6, <1>7 DEF WorkersFresh

\* A goroutine that goes on with its work: the lock it has, its part and what it
\* knows stay in order.
Moves(q) ==
    /\ MayBe(q, proc'[q]) /\ proc[q].pc # "idle" /\ proc'[q].pc # "idle"
    /\ proc'[q].lk = proc[q].lk
    /\ q # Rotator => /\ proc'[q].pc # "warm" /\ proc[q].pc # "warm"
                      /\ proc'[q].pc \in {"lock", "unref"} <=> proc[q].pc \in {"lock", "unref"}
    /\ proc[q].pc # "lead" /\ proc'[q].pc # "lead"
    /\ \/ proc'[q].d = proc[q].d
       \/ /\ proc'[q].d # NoDaemon => daemons[proc'[q].d].proc # "none"
          /\ flight.stage = "register" => proc'[q].d # flight.d
    /\ Turned(q) /\ Knows(q) /\ (mode = "worker" => Renews(q))

LEMMA StepKeeps ==
    ASSUME PoolInv, PoolTypes',
           UNCHANGED <<mode, available, locks, lockOf, flight, poolClosed, prewarming>>,
           Unpins, \A i \in DaemonIds : Stays(i) \/ Shut(i),
           closers' \subseteq closers, \A i \in closers : i \in closers' \/ Shut(i),
           pinned' # pinned => Shut(pinned),
           \/ record' = record
           \/ mode = "pinned" /\ \A q \in Lessees : Still(q) => ~(proc[q].pc = "unlock" /\ proc[q].next = "rotated"),
           \A q \in PoolProcs : Still(q) \/ Moves(q)
    PROVE  PoolInv'
<1>1. Roles'
  BY RolesKept DEF PoolInv, Moves
<1>2. LocksMatch'
  BY LocksKept DEF PoolInv, Moves
<1>3. FlightMatches'
  BY RestLasts, PoolFields, FlightKept DEF PoolInv, FlightMatches, Moves
<1>4. DaemonsMatch'
  BY Living, DaemonsKept DEF PoolInv, DaemonsMatch, PoolTypes, Still, Moves, Unpins, Shut, Covered
<1>5. TurnsMatch'
  BY Falling, Standing, TurnsKept DEF PoolInv, Moves
<1>6. SessionsMatch'
  BY <1>5, SessionsKept DEF Stays, Shut, Moves, PoolInv
<1>7. WorkersFresh'
  BY <1>5, FreshKept DEF Moves, Stays, Shut, Used, PoolInv
<1> QED
  BY <1>1, <1>2, <1>3, <1>4, <1>5, <1>6, <1>7 DEF PoolInv

\* The same where a single goroutine moves and the daemons stay.
LEMMA TurnKeeps ==
    ASSUME PoolInv, PoolTypes', NEW p \in PoolProcs, Moves(p),
           UNCHANGED <<mode, available, pinned, locks, lockOf, flight, closers, poolClosed, prewarming>>,
           \A i \in DaemonIds : Stays(i),
           \A q \in PoolProcs : q # p => proc'[q] = proc[q],
           \/ record' = record
           \/ mode = "pinned" /\ p \in Lessees /\ proc[p].pc \in {"await", "persist"}
    PROVE  PoolInv'
BY Cast, StepKeeps DEF Still, PoolInv, LocksMatch, LeaseIsExclusive, HoldsTarget, Unpins

--------------------
(* The actions one by one *)

LEMMA ProcStep ==
    ASSUME PoolTypes, NEW p \in PoolProcs, NEW q \in ProcRecords, proc' = [proc EXCEPT ![p] = q]
    PROVE  /\ proc' \in [PoolProcs -> ProcRecords] /\ proc'[p] = q
           /\ \A o \in PoolProcs : o # p => proc'[o] = proc[o]
  BY DEF PoolTypes

LEMMA DaemonStep ==
    ASSUME PoolTypes, NEW i \in DaemonIds, NEW d \in DaemonRecords, daemons' = [daemons EXCEPT ![i] = d]
    PROVE  /\ daemons' \in [DaemonIds -> DaemonRecords] /\ daemons'[i] = d
           /\ \A o \in DaemonIds : o # i => daemons'[o] = daemons[o]
  BY DEF PoolTypes

LEMMA FaultTypes == PoolTypes /\ (PoolFault \/ NoPoolFault) => poolFaults' \in Nat
  BY DEF PoolTypes, PoolFault, NoPoolFault

LEMMA LockTimeoutKeeps == ASSUME PoolInv, NEW p \in PoolProcs, LockTimeout(p) PROVE PoolInv'
<1>0. PoolTypes /\ Roles /\ p \in Lessees
  BY Cast DEF PoolInv, Roles, MayBe, LockTimeout, At, Creating
<1> DEFINE r == [proc[p] EXCEPT !.pc = "unref", !.next = "done"]
<1>r. proc[p] \in ProcRecords /\ proc' = [proc EXCEPT ![p] = r]
  BY <1>0 DEF PoolTypes, LockTimeout
<1>s. r \in ProcRecords /\ r.pc = "unref" /\ r.lk = proc[p].lk /\ r.d = proc[p].d /\ r.turns = proc[p].turns
  BY <1>r DEF ProcRecords, Pcs
<1> HIDE DEF r
<1>t. /\ proc' \in [PoolProcs -> ProcRecords] /\ proc'[p] = r
      /\ \A q \in PoolProcs : q # p => proc'[q] = proc[q]
  BY <1>0, <1>r, <1>s, ProcStep
<1>1. PoolTypes'
  BY FaultTypes, <1>0, <1>t DEF PoolInv, LockTimeout, PoolTypes
<1>2. /\ proc[p].pc = "lock" /\ proc'[p].pc = "unref" /\ proc'[p].lk = proc[p].lk /\ proc'[p].d = proc[p].d
      /\ proc'[p].turns = proc[p].turns
      /\ \A q \in PoolProcs : q # p => proc'[q] = proc[q]
  BY <1>s, <1>t DEF LockTimeout, At
<1>3. Moves(p)
  <2>1. Turned(p)
    BY <1>2 DEF Turned, Ahead, InTurn, Creating
  <2>2. Knows(p)
    BY <1>2 DEF Knows, Creating
  <2>3. mode = "worker" => Renews(p)
    BY <1>0, <1>2, Cast DEF Renews, PoolInv, WorkersFresh, Spent, Creating, Over
  <2>4. MayBe(p, proc'[p])
    BY <1>0, <1>2, Cast DEF MayBe, Creating
  <2> QED
    BY <1>2, <2>1, <2>2, <2>3, <2>4 DEF Moves
<1> QED
  BY <1>1, <1>2, <1>3, TurnKeeps DEF LockTimeout, Stays

LEMMA ReadRecordKeeps == ASSUME PoolInv, NEW p \in PoolProcs, ReadRecord(p) PROVE PoolInv'
<1>0. PoolTypes /\ Roles /\ p \in Lessees
  BY Cast DEF PoolInv, Roles, MayBe, ReadRecord, At, Creating
<1>1. PoolTypes'
  <2>1. poolFaults' \in Nat
    BY FaultTypes DEF PoolInv, ReadRecord
  <2>2. proc' \in [PoolProcs -> ProcRecords]
    BY <1>0, SMTT(40) DEF PoolTypes, ProcRecords, ReadRecord, Pcs
  <2> QED
    BY <1>0, <2>1, <2>2 DEF PoolTypes, ReadRecord
<1>2. /\ proc[p].pc = "record" /\ proc'[p].pc = "create" /\ proc'[p].next = "lease"
      /\ proc'[p].lk = proc[p].lk /\ proc'[p].d = proc[p].d
      /\ \/ proc'[p].sess = record.active /\ proc'[p].want = record.active /\ proc'[p].turns = record.turns
         \/ proc'[p].sess = proc[p].sess /\ proc'[p].want = proc[p].want /\ proc'[p].turns = proc[p].turns
      /\ \A q \in PoolProcs : q # p => proc'[q] = proc[q]
  BY <1>0 DEF ReadRecord, At, PoolTypes, ProcRecords
<1>3. Moves(p)
  <2>1. Turned(p)
    BY <1>2 DEF Turned, Ahead, InTurn, Creating
  <2>2. Knows(p)
    BY <1>0, <1>2 DEF Knows, Creating, PoolInv, SessionsMatch
  <2>3. mode = "worker" => Renews(p)
    BY <1>0, <1>2, Cast DEF Renews, PoolInv, WorkersFresh, Spent, Creating, Over
  <2>4. MayBe(p, proc'[p])
    BY <1>0, <1>2, Cast DEF MayBe, Creating
  <2> QED
    BY <1>2, <2>1, <2>2, <2>3, <2>4 DEF Moves
<1> QED
  BY <1>1, <1>2, <1>3, TurnKeeps DEF ReadRecord, Stays

LEMMA JoinFlightKeeps == ASSUME PoolInv, NEW p \in PoolProcs, JoinFlight(p) PROVE PoolInv'
<1>0. PoolTypes /\ Roles /\ proc[p].pc = "flight" /\ flight.stage # "none" /\ flight.leader \in PoolProcs
  BY PoolFields DEF PoolInv, JoinFlight, At
<1>1. PoolTypes'
  BY <1>0 DEF PoolTypes, ProcRecords, JoinFlight, Goto, Pcs
<1>2. /\ proc'[p].pc = "joined" /\ proc'[p].next = proc[p].next /\ proc'[p].lk = proc[p].lk /\ proc'[p].d = proc[p].d
      /\ proc'[p].turns = proc[p].turns
      /\ \A q \in PoolProcs : q # p => proc'[q] = proc[q]
  BY <1>0 DEF JoinFlight, Goto, PoolTypes, ProcRecords
<1>3. p \notin Lessees
  BY <1>0, Cast DEF PoolInv, FlightMatches, HoldsTarget, Roles, LocksMatch, LeaseIsExclusive
<1>4. Moves(p)
  <2>1. Turned(p)
    BY <1>0, <1>2 DEF Turned, Ahead, InTurn, Creating, PoolInv, TurnsMatch
  <2>2. Knows(p)
    BY <1>3 DEF Knows
  <2>3. mode = "worker" => Renews(p)
    BY <1>0, <1>2, <1>3, Cast DEF Renews, PoolInv, WorkersFresh, Over
  <2>4. MayBe(p, proc'[p])
    BY <1>0, <1>2, <1>3, Cast DEF MayBe, Creating, Roles
  <2> QED
    BY <1>0, <1>2, <2>1, <2>2, <2>3, <2>4 DEF Moves
<1> QED
  BY <1>1, <1>2, <1>4, TurnKeeps DEF JoinFlight, Stays

LEMMA EnsureActiveKeeps == ASSUME PoolInv, NEW p \in PoolProcs, EnsureActive(p) PROVE PoolInv'
<1>0. PoolTypes /\ Roles /\ p \in Lessees /\ proc[p].d \in DaemonIds
  BY PoolFields, Cast DEF PoolInv, Roles, MayBe, EnsureActive, At, Creating, TurnsMatch, InTurn
<1> DEFINE r == [proc[p] EXCEPT !.pc = IF daemons[proc[p].d].state # "Closed" /\ ~daemons[proc[p].d].dirty
                                            THEN "send" ELSE "create",
                               !.next = "send", !.want = proc[p].sess, !.cancel = FALSE]
<1>r. proc[p] \in ProcRecords /\ proc' = [proc EXCEPT ![p] = r]
  BY <1>0 DEF PoolTypes, EnsureActive
<1>s. /\ r \in ProcRecords /\ r.pc \in {"send", "create"} /\ r.next = "send" /\ r.lk = proc[p].lk
      /\ r.d = proc[p].d /\ r.turns = proc[p].turns /\ r.sess = proc[p].sess /\ r.want = proc[p].sess
  BY <1>r, ZenonT(40) DEF ProcRecords, Pcs
<1> HIDE DEF r
<1>t. /\ proc' \in [PoolProcs -> ProcRecords] /\ proc'[p] = r
      /\ \A q \in PoolProcs : q # p => proc'[q] = proc[q]
  BY <1>0, <1>r, <1>s, ProcStep
<1>1. PoolTypes'
  BY <1>0, <1>t DEF PoolTypes, EnsureActive
<1>2. /\ proc[p].pc = "leased" /\ proc'[p].pc \in {"send", "create"} /\ proc'[p].next = "send"
      /\ proc'[p].lk = proc[p].lk /\ proc'[p].d = proc[p].d /\ proc'[p].turns = proc[p].turns
      /\ proc'[p].sess = proc[p].sess /\ proc'[p].want = proc[p].sess
      /\ \A q \in PoolProcs : q # p => proc'[q] = proc[q]
  BY <1>s, <1>t DEF EnsureActive, At
<1>3. Moves(p)
  <2>1. Turned(p)
    BY <1>0, <1>2, Cast DEF Turned, Ahead, InTurn, Creating
  <2>2. Knows(p)
    BY <1>0, <1>2 DEF Knows, Creating, PoolInv, SessionsMatch
  <2>3. mode = "worker" => Renews(p)
    <3> SUFFICES ASSUME mode = "worker" PROVE Renews(p)
      OBVIOUS
    <3>1. daemons[proc[p].d].turns = 0 /\ daemons[proc[p].d].inflight \in Seq(PoolProcs)
          /\ Len(daemons[proc[p].d].inflight) = 0
      BY <1>0, <1>2, PoolFields DEF PoolInv, WorkersFresh, EphemeralTurnIsFresh, Inflight
    <3>2. ~Used(proc[p].d)
      BY <3>1 DEF Used
    <3> QED
      BY <1>0, <1>2, <3>2, Cast DEF Renews, PoolInv, WorkersFresh, Spent, Creating, Over
  <2>4. MayBe(p, proc'[p])
    BY <1>0, <1>2, Cast DEF MayBe, Creating
  <2> QED
    BY <1>2, <2>1, <2>2, <2>3, <2>4 DEF Moves
<1> QED
  BY <1>1, <1>2, <1>3, TurnKeeps DEF EnsureActive, Stays

LEMMA ReleaseKeeps == ASSUME PoolInv, NEW p \in PoolProcs, Release(p) PROVE PoolInv'
<1>0. PoolTypes /\ Roles /\ p \in Lessees
  BY Cast DEF PoolInv, Roles, MayBe, Release, At, Creating
<1>1. PoolTypes'
  BY <1>0 DEF PoolTypes, ProcRecords, Release, Goto, Pcs
<1>2. /\ proc[p].pc = "release" /\ proc'[p].pc \in {"unlock", "rotate"} /\ proc'[p].next = proc[p].next
      /\ proc'[p].lk = proc[p].lk /\ proc'[p].d = proc[p].d /\ proc'[p].turns = proc[p].turns
      /\ \A q \in PoolProcs : q # p => proc'[q] = proc[q]
  BY <1>0 DEF Release, At, Goto, PoolTypes, ProcRecords
<1>3. proc[p].next # "rotated"
  BY <1>0, <1>2 DEF PoolInv, SessionsMatch
<1>4. Moves(p)
  <2>1. Turned(p)
    BY <1>0, <1>2, Cast DEF Turned, Ahead, InTurn, Creating
  <2>2. Knows(p)
    BY <1>0, <1>2, <1>3 DEF Knows, Creating
  <2>3. mode = "worker" => Renews(p)
    BY <1>0, <1>2, Cast DEF Renews, PoolInv, WorkersFresh, Spent, Over
  <2>4. MayBe(p, proc'[p])
    BY <1>0, <1>2, Cast DEF MayBe, Creating
  <2> QED
    BY <1>2, <2>1, <2>2, <2>3, <2>4 DEF Moves
<1> QED
  BY <1>1, <1>2, <1>4, TurnKeeps DEF Release, Stays

\* The end of a failed turn: its daemon is dirty.
LEMMA FailedTurnKeeps ==
    ASSUME PoolInv, NEW p \in PoolProcs, proc[p].pc \in {"send", "await"}, FailedTurn(p, daemons),
           poolFaults' \in Nat,
           UNCHANGED <<mode, available, pinned, locks, lockOf, flight, closers, record, poolClosed,
                       prewarming, reloads>>
    PROVE  PoolInv'
<1>0. PoolTypes /\ Roles /\ p \in Lessees /\ proc[p].d \in DaemonIds
  BY PoolFields, Cast, ZenonT(40) DEF PoolInv, Roles, MayBe, Creating, TurnsMatch, InTurn
<1> DEFINE r == [proc[p] EXCEPT !.pc = "release", !.cancel = TRUE, !.answer = "none"]
           d == [daemons[proc[p].d] EXCEPT !.dirty = TRUE]
<1>r. /\ proc[p] \in ProcRecords /\ proc' = [proc EXCEPT ![p] = r]
      /\ daemons[proc[p].d] \in DaemonRecords /\ daemons' = [daemons EXCEPT ![proc[p].d] = d]
  BY <1>0 DEF PoolTypes, FailedTurn
<1>s. /\ r \in ProcRecords /\ r.pc = "release" /\ r.next = proc[p].next /\ r.lk = proc[p].lk
      /\ r.d = proc[p].d /\ r.turns = proc[p].turns
  BY <1>r DEF ProcRecords, Pcs
<1>d. /\ d \in DaemonRecords /\ d.proc = daemons[proc[p].d].proc /\ d.closed = daemons[proc[p].d].closed
      /\ d.turns = daemons[proc[p].d].turns /\ d.sess = daemons[proc[p].d].sess
      /\ d.inflight = daemons[proc[p].d].inflight /\ d.stdin = daemons[proc[p].d].stdin
      /\ d.onFinish = daemons[proc[p].d].onFinish /\ d.reader = daemons[proc[p].d].reader
  BY <1>r DEF DaemonRecords
<1> HIDE DEF r, d
<1>t. /\ proc' \in [PoolProcs -> ProcRecords] /\ proc'[p] = r
      /\ \A q \in PoolProcs : q # p => proc'[q] = proc[q]
  BY <1>0, <1>r, <1>s, ProcStep
<1>u. /\ daemons' \in [DaemonIds -> DaemonRecords] /\ daemons'[proc[p].d] = d
      /\ \A i \in DaemonIds : i # proc[p].d => daemons'[i] = daemons[i]
  BY <1>0, <1>r, <1>d, DaemonStep
<1>1. PoolTypes'
  BY <1>0, <1>t, <1>u DEF PoolTypes
<1>2. /\ proc'[p].pc = "release" /\ proc'[p].next = proc[p].next
      /\ proc'[p].lk = proc[p].lk /\ proc'[p].d = proc[p].d /\ proc'[p].turns = proc[p].turns
      /\ \A q \in PoolProcs : q # p => proc'[q] = proc[q]
  BY <1>s, <1>t
<1>3. \A i \in DaemonIds : Stays(i)
  BY <1>d, <1>u DEF Stays
<1>4. Moves(p)
  <2>1. Turned(p)
    BY <1>0, <1>2, Cast DEF Turned, Ahead, InTurn, Creating
  <2>2. Knows(p)
    BY <1>0, <1>2 DEF Knows, Creating, PoolInv, SessionsMatch
  <2>3. mode = "worker" => Renews(p)
    BY <1>0, <1>2, Cast DEF Renews, PoolInv, WorkersFresh, Spent, Over
  <2>4. MayBe(p, proc'[p])
    BY <1>0, <1>2, Cast DEF MayBe, Creating
  <2> QED
    BY <1>2, <2>1, <2>2, <2>3, <2>4 DEF Moves
<1> QED
  BY <1>1, <1>2, <1>3, <1>4, TurnKeeps

LEMMA AbandonTurnKeeps == ASSUME PoolInv, NEW p \in PoolProcs, AbandonTurn(p) PROVE PoolInv'
BY FaultTypes, FailedTurnKeeps DEF PoolInv, AbandonTurn, At

LEMMA SendCheckKeeps == ASSUME PoolInv, NEW p \in PoolProcs, SendCheck(p) PROVE PoolInv'
<1>0. PoolTypes /\ Roles /\ p \in Lessees /\ proc[p].pc = "send" /\ proc[p].d \in DaemonIds
  BY PoolFields, Cast, ZenonT(40) DEF PoolInv, Roles, MayBe, SendCheck, At, Creating, TurnsMatch, InTurn
<1>1. CASE FailedTurn(p, daemons)
  BY <1>0, <1>1, FailedTurnKeeps DEF SendCheck, PoolTypes
<1>2. CASE Goto(p, "append") /\ UNCHANGED daemons
  <2>1. PoolTypes'
    BY <1>0, <1>2, SMTT(40) DEF PoolTypes, ProcRecords, SendCheck, Goto, Pcs
  <2>2. /\ proc'[p].pc = "append" /\ proc'[p].next = proc[p].next /\ proc'[p].want = proc[p].want
        /\ proc'[p].lk = proc[p].lk /\ proc'[p].d = proc[p].d /\ proc'[p].turns = proc[p].turns
        /\ \A q \in PoolProcs : q # p => proc'[q] = proc[q]
    BY <1>0, <1>2 DEF Goto, PoolTypes, ProcRecords
  <2>3. Moves(p)
    <3>1. Turned(p)
      BY <1>0, <2>2, Cast DEF Turned, Ahead, InTurn, Creating
    <3>2. Knows(p)
      BY <1>0, <2>2 DEF Knows, Creating, PoolInv, SessionsMatch, LeaseKeepsItsSession
    <3>3. mode = "worker" => Renews(p)
      <4> SUFFICES ASSUME mode = "worker" PROVE Renews(p)
        OBVIOUS
      <4>1. daemons[proc[p].d].turns = 0 /\ daemons[proc[p].d].inflight \in Seq(PoolProcs)
            /\ Len(daemons[proc[p].d].inflight) = 0
        BY <1>0, PoolFields DEF PoolInv, WorkersFresh, EphemeralTurnIsFresh, Inflight
      <4>2. ~Used(proc[p].d)
        BY <4>1 DEF Used
      <4> QED
        BY <1>0, <2>2, <4>2, Cast DEF Renews, PoolInv, WorkersFresh, Spent, Creating, Over
    <3>4. MayBe(p, proc'[p])
      BY <1>0, <2>2, Cast DEF MayBe, Creating
    <3> QED
      BY <1>0, <2>2, <3>1, <3>2, <3>3, <3>4 DEF Moves
  <2> QED
    BY <1>2, <2>1, <2>2, <2>3, TurnKeeps DEF SendCheck, Stays
<1> QED
  BY <1>1, <1>2 DEF SendCheck

--------------------
(* GetOrCreate gives a daemon or none. *)

LEMMA RefusedFacts ==
    ASSUME NEW q \in ProcRecords, q.next \in {"lease", "send", "rotated", "recycle", "warm"}
    PROVE  /\ Refused(q) \in ProcRecords
           /\ Refused(q).pc = CASE q.next = "lease" -> "unlock" [] q.next = "send" -> "release"
                                [] q.next = "rotated" -> "evict" [] q.next = "recycle" -> "return"
                                [] q.next = "warm" -> "unlock"
           /\ Refused(q).next = q.next /\ Refused(q).lk = q.lk /\ Refused(q).d = q.d
           /\ Refused(q).turns = q.turns /\ Refused(q).sess = q.sess /\ Refused(q).want = q.want
           /\ Refused(q).answer = q.answer
  BY ZenonT(40) DEF Refused, ProcRecords, Pcs

LEMMA ResumedFacts ==
    ASSUME NEW q \in ProcRecords, NEW i \in DaemonIds, daemons[i].sess \in 0..MaxSpawns,
           q.next \in {"lease", "send", "rotated", "recycle", "warm"}
    PROVE  /\ Resumed(q, i) \in ProcRecords
           /\ Resumed(q, i).pc = CASE q.next = "lease" -> "leased" [] q.next = "send" -> "send"
                                   [] q.next = "rotated" -> "persist" [] q.next = "recycle" -> "return"
                                   [] q.next = "warm" -> "unlock"
           /\ Resumed(q, i).next = q.next /\ Resumed(q, i).lk = q.lk /\ Resumed(q, i).want = q.want
           /\ Resumed(q, i).turns = q.turns /\ Resumed(q, i).answer = q.answer
           /\ Resumed(q, i).d = IF q.next \in {"lease", "send", "rotated"} THEN i ELSE q.d
           /\ Resumed(q, i).sess = IF q.next \in {"lease", "send"} THEN daemons[i].sess ELSE q.sess
<1>1. CASE q.next = "lease"
  BY <1>1 DEF Resumed, ProcRecords, Pcs
<1>2. CASE q.next = "send"
  BY <1>2 DEF Resumed, ProcRecords, Pcs
<1>3. CASE q.next = "rotated"
  BY <1>3 DEF Resumed, ProcRecords, Pcs
<1>4. CASE q.next = "recycle"
  BY <1>4 DEF Resumed, ProcRecords, Pcs
<1>5. CASE q.next = "warm"
  BY <1>5 DEF Resumed, ProcRecords, Pcs
<1> QED
  BY <1>1, <1>2, <1>3, <1>4, <1>5

\* A goroutine in GetOrCreate, and what comes after it.
Goes(p) ==
    /\ MayBe(p, proc'[p]) /\ proc'[p].lk = proc[p].lk
    /\ proc'[p].pc \notin {"idle", "warm", "lock", "unref", "lead"}
    /\ Turned(p) /\ Knows(p) /\ (mode = "worker" => Renews(p))

LEMMA Asking ==
    ASSUME PoolInv, NEW p \in PoolProcs, proc[p].pc \in Creating
    PROVE  /\ proc[p] \in ProcRecords
           /\ proc[p].next \in {"lease", "send", "rotated", "recycle", "warm"}
           /\ p \in Lessees => proc[p].next \in {"lease", "send", "rotated"}
           /\ p = Warmer => proc[p].next = "warm"
           /\ p = Rotator => proc[p].next = "recycle"
           /\ proc[p].next = "send" => proc[p].d # NoDaemon
           /\ mode = "worker" => proc[p].turns = 0
  BY Cast DEF PoolInv, PoolTypes, Roles, MayBe, TurnsMatch, WorkersFresh, Creating, Over

LEMMA RefusedGoes ==
    ASSUME PoolInv, NEW p \in PoolProcs, proc[p].pc \in Creating, proc'[p] = Refused(proc[p])
    PROVE  Goes(p) /\ proc'[p].d = proc[p].d /\ proc'[p] \in ProcRecords
<1>1. /\ proc[p] \in ProcRecords
      /\ proc[p].next \in {"lease", "send", "rotated", "recycle", "warm"}
      /\ p \in Lessees => proc[p].next \in {"lease", "send", "rotated"}
      /\ p = Warmer => proc[p].next = "warm"
      /\ p = Rotator => proc[p].next = "recycle"
      /\ proc[p].next = "send" => proc[p].d # NoDaemon
      /\ mode = "worker" => proc[p].turns = 0
  BY Asking
<1>2. /\ proc'[p] \in ProcRecords
      /\ proc'[p].pc = CASE proc[p].next = "lease" -> "unlock" [] proc[p].next = "send" -> "release"
                         [] proc[p].next = "rotated" -> "evict" [] proc[p].next = "recycle" -> "return"
                         [] proc[p].next = "warm" -> "unlock"
      /\ proc'[p].next = proc[p].next /\ proc'[p].lk = proc[p].lk /\ proc'[p].d = proc[p].d
      /\ proc'[p].turns = proc[p].turns
  BY <1>1, RefusedFacts
<1>3. Turned(p)
  BY <1>1, <1>2 DEF Turned, Ahead, Creating, InTurn
<1>4. Knows(p)
  BY <1>1, <1>2 DEF Knows, Creating
<1>5. mode = "worker" => Renews(p)
  BY <1>1, <1>2, Cast DEF Renews, Spent, Creating
<1>6. MayBe(p, proc'[p])
  BY <1>1, <1>2, Cast DEF MayBe, Creating
<1> QED
  BY <1>1, <1>2, <1>3, <1>4, <1>5, <1>6 DEF Goes

LEMMA ResumedGoes ==
    ASSUME PoolInv, NEW p \in PoolProcs, proc[p].pc \in Creating, NEW i \in DaemonIds,
           proc'[p] = Resumed(proc[p], i), daemons[i].proc # "none",
           p \in Lessees /\ proc[p].sess # 0 => daemons[i].sess = proc[p].sess,
           mode = "worker" /\ p \in Lessees /\ proc[p].next \in {"lease", "send"} => ~Used(i),
           pinned' \in {i, NoDaemon}
    PROVE  Goes(p) /\ proc'[p].d \in {proc[p].d, i} /\ proc'[p] \in ProcRecords
<1>1. /\ proc[p] \in ProcRecords
      /\ proc[p].next \in {"lease", "send", "rotated", "recycle", "warm"}
      /\ p \in Lessees => proc[p].next \in {"lease", "send", "rotated"}
      /\ p = Warmer => proc[p].next = "warm"
      /\ p = Rotator => proc[p].next = "recycle"
      /\ mode = "worker" => proc[p].turns = 0
  BY Asking
<1>2. daemons[i].sess \in 0..MaxSpawns /\ i # NoDaemon
  BY PoolFields, Cast DEF PoolInv
<1>3. /\ proc'[p] \in ProcRecords
      /\ proc'[p].pc = CASE proc[p].next = "lease" -> "leased" [] proc[p].next = "send" -> "send"
                         [] proc[p].next = "rotated" -> "persist" [] proc[p].next = "recycle" -> "return"
                         [] proc[p].next = "warm" -> "unlock"
      /\ proc'[p].next = proc[p].next /\ proc'[p].lk = proc[p].lk /\ proc'[p].want = proc[p].want
      /\ proc'[p].turns = proc[p].turns
      /\ proc'[p].d = IF proc[p].next \in {"lease", "send", "rotated"} THEN i ELSE proc[p].d
      /\ proc'[p].sess = IF proc[p].next \in {"lease", "send"} THEN daemons[i].sess ELSE proc[p].sess
  BY <1>1, <1>2, ResumedFacts
<1>4. Turned(p)
  BY <1>1, <1>2, <1>3 DEF Turned, Ahead, Creating, InTurn
<1>5. Knows(p)
  BY <1>1, <1>3 DEF PoolInv, SessionsMatch, Knows, Creating
<1>6. mode = "worker" => Renews(p)
  BY <1>1, <1>2, <1>3, Cast DEF Renews, Spent, Creating
<1>7. MayBe(p, proc'[p])
  BY <1>1, <1>3, Cast DEF MayBe, Creating
<1> QED
  BY <1>1, <1>3, <1>4, <1>5, <1>6, <1>7 DEF Goes

LEMMA FreshPin ==
    ASSUME PoolInv, mode = "worker", NEW p \in Lessees, proc[p].pc \in Creating,
           proc[p].next \in {"lease", "send"}, pinned # NoDaemon
    PROVE  ~Used(pinned)
BY Cast DEF Spent, Creating, PoolInv, Roles, WorkersFresh

LEMMA AnsweredKeeps ==
    ASSUME PoolInv, NEW p \in PoolProcs, proc[p].pc \in {"create", "flight"},
           UNCHANGED <<mode, available, daemons, pinned, locks, lockOf, flight, closers, record, poolClosed,
                       prewarming, reloads, poolFaults>>,
           \/ proc' = [proc EXCEPT ![p] = Refused(proc[p])]
           \/ /\ CanReuseDaemon(pinned, proc[p].sess)
              /\ proc' = [proc EXCEPT ![p] = Resumed(proc[p], pinned)]
    PROVE  PoolInv'
<1>0. PoolTypes /\ proc[p].pc \in Creating \ {"lead"} /\ proc[p] \in ProcRecords
  BY DEF PoolInv, PoolTypes, Creating
<1>1. ASSUME Goes(p), proc'[p] \in ProcRecords, proc' = [proc EXCEPT ![p] = proc'[p]],
             proc'[p].d = proc[p].d \/ (daemons[proc'[p].d].proc # "none" /\ flight.stage = "none")
      PROVE  PoolInv'
  BY <1>0, <1>1, ProcStep, TurnKeeps DEF PoolTypes, Moves, Goes, Creating, Stays
<1>2. CASE proc' = [proc EXCEPT ![p] = Refused(proc[p])]
  BY <1>0, <1>2, <1>1, RefusedGoes DEF PoolTypes, Creating
<1>3. CASE CanReuseDaemon(pinned, proc[p].sess) /\ proc' = [proc EXCEPT ![p] = Resumed(proc[p], pinned)]
  <2>1. proc'[p] = Resumed(proc[p], pinned)
    BY <1>0, <1>3 DEF PoolTypes
  <2>2. pinned \in DaemonIds /\ daemons[pinned].proc # "none" /\ flight.stage = "none"
    BY <1>0, <1>3 DEF CanReuseDaemon, IsDaemonMatch, PoolTypes, PoolInv, DaemonsMatch, FlightMatches,
                      FlightRecords
  <2>3. proc[p].sess # 0 => daemons[pinned].sess = proc[p].sess
    BY <1>3 DEF CanReuseDaemon, IsDaemonMatch
  <2>4. mode = "worker" /\ p \in Lessees /\ proc[p].next \in {"lease", "send"} => ~Used(pinned)
    BY <1>0, <2>2, FreshPin, Cast DEF Creating
  <2>5. pinned' \in {pinned, NoDaemon}
    OBVIOUS
  <2>6. Goes(p) /\ proc'[p].d \in {proc[p].d, pinned} /\ proc'[p] \in ProcRecords
    BY <1>0, <2>1, <2>2, <2>3, <2>4, <2>5, ResumedGoes DEF Creating
  <2> QED
    BY <1>1, <1>3, <2>1, <2>2, <2>6
<1> QED
  BY <1>2, <1>3

LEMMA GetOrCreateFastKeeps == ASSUME PoolInv, NEW p \in PoolProcs, GetOrCreateFast(p) PROVE PoolInv'
<1>0. PoolTypes /\ Roles /\ proc[p].pc = "create" /\ proc[p] \in ProcRecords
  BY DEF PoolInv, GetOrCreateFast, At, PoolTypes
<1>1. CASE \/ proc' = [proc EXCEPT ![p] = Refused(proc[p])]
           \/ /\ CanReuseDaemon(pinned, proc[p].sess)
              /\ proc' = [proc EXCEPT ![p] = Resumed(proc[p], pinned)]
  BY <1>0, <1>1, AnsweredKeeps DEF GetOrCreateFast
<1>2. CASE proc' = [proc EXCEPT ![p] = [proc[p] EXCEPT !.pc = "flight"]]
  <2> DEFINE r == [proc[p] EXCEPT !.pc = "flight"]
  <2>1. /\ r \in ProcRecords /\ r.pc = "flight" /\ r.next = proc[p].next /\ r.lk = proc[p].lk /\ r.d = proc[p].d
        /\ r.turns = proc[p].turns /\ r.sess = proc[p].sess /\ r.want = proc[p].want
    BY <1>0 DEF ProcRecords, Pcs
  <2> HIDE DEF r
  <2>2. proc'[p] = r
    BY <1>0, <1>2 DEF PoolTypes, r
  <2>3. Turned(p)
    BY <1>0, <2>1, <2>2 DEF Turned, Ahead, InTurn, Creating, PoolInv, TurnsMatch
  <2>4. Knows(p)
    BY <1>0, <2>1, <2>2 DEF Knows, Creating, PoolInv, SessionsMatch
  <2>5. mode = "worker" => Renews(p)
    BY <1>0, <2>1, <2>2, Cast DEF Renews, PoolInv, WorkersFresh, Spent, Creating, Over
  <2>6. MayBe(p, proc'[p])
    BY <1>0, <2>1, <2>2, Cast DEF MayBe, Creating, Roles
  <2>7. proc' \in [PoolProcs -> ProcRecords] /\ \A q \in PoolProcs : q # p => proc'[q] = proc[q]
    BY <1>0, <1>2, <2>1, ProcStep DEF r
  <2>8. PoolTypes'
    BY <1>0, <2>7 DEF PoolTypes, GetOrCreateFast
  <2>9. Moves(p)
    BY <1>0, <2>1, <2>2, <2>3, <2>4, <2>5, <2>6 DEF Moves
  <2> QED
    BY <2>7, <2>8, <2>9, TurnKeeps DEF GetOrCreateFast, Stays
<1> QED
  BY <1>1, <1>2 DEF GetOrCreateFast

LEMMA TakeAnswerKeeps == ASSUME PoolInv, NEW p \in PoolProcs, TakeAnswer(p) PROVE PoolInv'
<1>0. PoolTypes /\ Roles /\ p \in Lessees /\ proc[p].d \in DaemonIds /\ proc[p].pc = "await"
  BY PoolFields, Cast DEF PoolInv, Roles, MayBe, TakeAnswer, At, Creating, TurnsMatch, InTurn
<1>1. CASE FailedTurn(p, daemons) /\ UNCHANGED record
  BY <1>0, <1>1, FailedTurnKeeps DEF TakeAnswer, PoolTypes
<1>2. ASSUME NEW throttled \in BOOLEAN,
             daemons' = IF proc[p].answer = "empty" /\ ~throttled
                        THEN [daemons EXCEPT ![proc[p].d].dirty = TRUE] ELSE daemons,
             proc' = [proc EXCEPT ![p].pc = "release", ![p].turns = @ + 1, ![p].cancel = throttled,
                                  ![p].sess = daemons[proc[p].d].sess, ![p].answer = "none"],
             record' = IF mode = "worker" THEN record
                       ELSE [active |-> daemons[proc[p].d].sess, turns |-> record.turns + 1]
      PROVE  PoolInv'
  <2> DEFINE r == [proc[p] EXCEPT !.pc = "release", !.turns = @ + 1, !.cancel = throttled,
                                  !.sess = daemons[proc[p].d].sess, !.answer = "none"]
             d == [daemons[proc[p].d] EXCEPT !.dirty = TRUE]
  <2>1. proc[p] \in ProcRecords /\ proc' = [proc EXCEPT ![p] = r] /\ daemons[proc[p].d] \in DaemonRecords
    BY <1>0, <1>2 DEF PoolTypes
  <2>2. daemons[proc[p].d].sess \in 0..MaxSpawns /\ proc[p].turns + 1 \in Nat /\ record.turns + 1 \in Nat
    BY <1>0, <2>1, PoolFields
  <2>3. /\ r \in ProcRecords /\ r.pc = "release" /\ r.next = proc[p].next /\ r.lk = proc[p].lk /\ r.d = proc[p].d
    BY <1>2, <2>1, <2>2, ZenonT(40) DEF ProcRecords, Pcs
  <2>4. /\ d \in DaemonRecords /\ d.proc = daemons[proc[p].d].proc /\ d.closed = daemons[proc[p].d].closed
        /\ d.turns = daemons[proc[p].d].turns /\ d.sess = daemons[proc[p].d].sess
        /\ d.inflight = daemons[proc[p].d].inflight /\ d.stdin = daemons[proc[p].d].stdin
        /\ d.onFinish = daemons[proc[p].d].onFinish /\ d.reader = daemons[proc[p].d].reader
    BY <2>1 DEF DaemonRecords
  <2>5. daemons' = daemons \/ daemons' = [daemons EXCEPT ![proc[p].d] = d]
    BY <1>2
  <2> HIDE DEF r, d
  <2>6. /\ proc' \in [PoolProcs -> ProcRecords] /\ proc'[p] = r
        /\ \A q \in PoolProcs : q # p => proc'[q] = proc[q]
    BY <1>0, <2>1, <2>3, ProcStep
  <2>7. daemons' \in [DaemonIds -> DaemonRecords] /\ \A i \in DaemonIds : Stays(i)
    BY <1>0, <2>4, DaemonStep, <2>5 DEF Stays, PoolTypes
  <2>8. record' \in [active : 0..MaxSpawns, turns : Nat]
    BY <1>0, <1>2, <2>2 DEF PoolTypes
  <2>9. PoolTypes'
    BY <1>0, <2>6, <2>7, <2>8 DEF PoolTypes, TakeAnswer
  <2>10. Moves(p)
    <3>1. Turned(p)
      BY <1>0, <2>3, <2>6, Cast DEF Turned, Ahead, InTurn, Creating
    <3>2. Knows(p)
      BY <1>0, <2>3, <2>6 DEF Knows, Creating, PoolInv, SessionsMatch
    <3>3. mode = "worker" => Renews(p)
      BY <1>0, <2>3, <2>6, Cast DEF Renews, PoolInv, WorkersFresh, Spent, Over
    <3>4. MayBe(p, proc'[p])
      BY <1>0, <2>3, <2>6, Cast DEF MayBe, Creating
    <3> QED
      BY <1>0, <2>3, <2>6, <3>1, <3>2, <3>3, <3>4 DEF Moves
  <2>11. record' = record \/ mode = "pinned"
    BY <1>0, <1>2 DEF PoolTypes
  <2> QED
    BY <1>0, <2>6, <2>7, <2>9, <2>10, <2>11, TurnKeeps DEF TakeAnswer
<1> QED
  BY <1>1, <1>2 DEF TakeAnswer

LEMMA PersistKeeps == ASSUME PoolInv, NEW p \in PoolProcs, Persist(p) PROVE PoolInv'
<1>0. PoolTypes /\ Roles /\ p \in Lessees /\ proc[p].d \in DaemonIds /\ proc[p].pc = "persist"
  BY PoolFields, Cast DEF PoolInv, Roles, MayBe, Persist, At, Creating, TurnsMatch, InTurn
<1>1. ASSUME NEW to \in {"unlock", "evict"}, Goto(p, to), poolFaults' \in Nat,
             \/ record' = IF mode = "worker" THEN record ELSE [active |-> daemons[proc[p].d].sess, turns |-> 0]
             \/ mode = "pinned" /\ to = "evict" /\ record' = record
      PROVE  PoolInv'
  <2> DEFINE r == [proc[p] EXCEPT !.pc = to]
  <2>1. proc[p] \in ProcRecords /\ proc' = [proc EXCEPT ![p] = r] /\ daemons[proc[p].d].sess \in 0..MaxSpawns
    BY <1>0, <1>1, PoolFields DEF PoolTypes, Goto
  <2>2. /\ r \in ProcRecords /\ r.pc = to /\ r.next = proc[p].next /\ r.lk = proc[p].lk /\ r.d = proc[p].d
        /\ r.turns = proc[p].turns
    BY <1>1, <2>1 DEF ProcRecords, Pcs
  <2> HIDE DEF r
  <2>3. /\ proc' \in [PoolProcs -> ProcRecords] /\ proc'[p] = r
        /\ \A q \in PoolProcs : q # p => proc'[q] = proc[q]
    BY <1>0, <2>1, <2>2, ProcStep
  <2>4. record' \in [active : 0..MaxSpawns, turns : Nat]
    BY <1>0, <1>1, <2>1 DEF PoolTypes
  <2>5. PoolTypes'
    BY <1>0, <1>1, <2>3, <2>4 DEF PoolTypes, Persist
  <2>6. Moves(p)
    <3>1. Turned(p)
      BY <1>0, <2>2, <2>3, Cast DEF Turned, Ahead, InTurn, Creating
    <3>2. Knows(p)
      BY <1>0, <1>1, <2>2, <2>3 DEF PoolInv, SessionsMatch, Knows, Creating, Persist
    <3>3. mode = "worker" => Renews(p)
      BY <1>0, <2>2, <2>3, Cast DEF Renews, PoolInv, WorkersFresh, Spent, Over
    <3>4. MayBe(p, proc'[p])
      BY <1>0, <2>2, <2>3, Cast DEF MayBe, Creating
    <3> QED
      BY <1>0, <2>2, <2>3, <3>1, <3>2, <3>3, <3>4 DEF Moves
  <2>7. record' = record \/ mode = "pinned"
    BY <1>0, <1>1 DEF PoolTypes
  <2> QED
    BY <1>0, <2>3, <2>5, <2>6, <2>7, TurnKeeps DEF Persist, Stays
<1>2. poolFaults' \in Nat
  BY FaultTypes DEF PoolInv, Persist
<1> QED
  BY <1>1, <1>2 DEF Persist

--------------------
(* A daemon is closed. *)

\* What FailTurns does to a goroutine: at most its answer changes, and whoever waits
\* and is in turns has one.
Informed(turns, ps, f) ==
    /\ f \in [PoolProcs -> ProcRecords]
    /\ \A q \in PoolProcs :
         /\ f[q].pc = ps[q].pc /\ f[q].next = ps[q].next /\ f[q].lk = ps[q].lk /\ f[q].sess = ps[q].sess
         /\ f[q].want = ps[q].want /\ f[q].d = ps[q].d /\ f[q].turns = ps[q].turns
         /\ f[q].answer = "none" => ps[q].answer = "none"
         /\ (ps[q].pc = "await" /\ \E k \in 1..Len(turns) : turns[k] = q) => f[q].answer # "none"

LEMMA FailedFacts ==
    ASSUME NEW turns, NEW ps \in [PoolProcs -> ProcRecords]
    PROVE  Informed(turns, ps, FailTurns(turns, ps))
<1> DEFINE hit(q) == ps[q].pc = "await" /\ ps[q].answer = "none" /\ \E k \in 1..Len(turns) : turns[k] = q
           f == FailTurns(turns, ps)
<1>1. f = [q \in PoolProcs |-> IF hit(q) THEN [ps[q] EXCEPT !.answer = "error"] ELSE ps[q]]
  BY DEF FailTurns
<1> HIDE DEF f
<1>2. ASSUME NEW q \in PoolProcs
      PROVE  /\ f[q] \in ProcRecords
             /\ f[q].pc = ps[q].pc /\ f[q].next = ps[q].next /\ f[q].lk = ps[q].lk /\ f[q].sess = ps[q].sess
             /\ f[q].want = ps[q].want /\ f[q].d = ps[q].d /\ f[q].turns = ps[q].turns
             /\ f[q].answer = "none" => ps[q].answer = "none"
             /\ (ps[q].pc = "await" /\ \E k \in 1..Len(turns) : turns[k] = q) => f[q].answer # "none"
  BY <1>1 DEF ProcRecords
<1>3. f = [q \in PoolProcs |-> f[q]]
  BY <1>1
<1> HIDE DEF hit
<1>4. f \in [PoolProcs -> ProcRecords]
  BY <1>2, <1>3
<1> QED
  BY <1>2, <1>4 DEF Informed, f

LEMMA ClosedFacts ==
    ASSUME NEW d \in DaemonRecords
    PROVE  /\ ClosedDaemon(d) \in DaemonRecords /\ ClosedDaemon(d).proc = "gone"
           /\ ClosedDaemon(d).turns = d.turns /\ ClosedDaemon(d).sess = d.sess
           /\ ClosedDaemon(d).inflight = <<>> /\ ClosedDaemon(d).stdin = <<>>
           /\ ClosedDaemon(d).onFinish = d.onFinish /\ ClosedDaemon(d).reader = d.reader
<1>1. <<>> \in Seq(PoolProcs)
  OBVIOUS
<1> QED
  BY <1>1 DEF ClosedDaemon, DaemonRecords

\* Whoever waits for a daemon without an answer is in its queue.
LEMMA WaitsInQueue ==
    ASSUME PoolInv, NEW q \in PoolProcs, proc[q].pc = "await", proc[q].answer = "none"
    PROVE  /\ \E k \in 1..Len(daemons[proc[q].d].inflight) : daemons[proc[q].d].inflight[k] = q
           /\ daemons[proc[q].d].proc \in {"alive", "dead"} /\ daemons[proc[q].d].reader # "end"
  BY DEF PoolInv, TurnsMatch, NoStuckTurn

\* A daemon is closed, and one goroutine goes on.
Closing(i, p, q) ==
    /\ daemons' \in [DaemonIds -> DaemonRecords] /\ proc' \in [PoolProcs -> ProcRecords]
    /\ Shut(i) /\ \A j \in DaemonIds : Stays(j) \/ Shut(j)
    /\ \A o \in PoolProcs : o # p => Still(o)
    /\ proc'[p].pc = q.pc /\ proc'[p].next = q.next /\ proc'[p].lk = q.lk /\ proc'[p].sess = q.sess
    /\ proc'[p].want = q.want /\ proc'[p].d = q.d /\ proc'[p].turns = q.turns
    /\ proc'[p].answer = "none" => q.answer = "none"

LEMMA CloseFrame ==
    ASSUME PoolInv, NEW i \in DaemonIds, daemons[i].proc # "none", NEW p \in PoolProcs, proc[p].pc # "await",
           NEW q \in ProcRecords,
           daemons' = [daemons EXCEPT ![i] = ClosedDaemon(@)],
           proc' = FailTurns(daemons[i].inflight, [proc EXCEPT ![p] = q])
    PROVE  Closing(i, p, q)
<1> DEFINE ps == [proc EXCEPT ![p] = q]
           turns == daemons[i].inflight
<1>0. PoolTypes
  BY DEF PoolInv
<1>1. ps \in [PoolProcs -> ProcRecords] /\ ps[p] = q /\ \A o \in PoolProcs : o # p => ps[o] = proc[o]
  BY <1>0 DEF PoolTypes
<1>2. proc' = FailTurns(turns, ps)
  OBVIOUS
<1> HIDE DEF ps
<1>3. Informed(turns, ps, proc')
  BY <1>1, <1>2, FailedFacts
<1>4. \A o \in PoolProcs : o # p => Still(o)
  <2> SUFFICES ASSUME NEW o \in PoolProcs, o # p PROVE Still(o)
    OBVIOUS
  <2> HIDE DEF turns
  <2>1. ps[o] = proc[o]
    BY <1>1
  <2>2. /\ proc'[o].pc = ps[o].pc /\ proc'[o].next = ps[o].next /\ proc'[o].lk = ps[o].lk
        /\ proc'[o].sess = ps[o].sess /\ proc'[o].want = ps[o].want /\ proc'[o].d = ps[o].d
        /\ proc'[o].turns = ps[o].turns
        /\ proc'[o].answer = "none" => ps[o].answer = "none"
    BY <1>3 DEF Informed
  <2> QED
    BY <2>1, <2>2 DEF Still
<1>5. /\ ClosedDaemon(daemons[i]) \in DaemonRecords /\ ClosedDaemon(daemons[i]).proc = "gone"
      /\ ClosedDaemon(daemons[i]).turns = daemons[i].turns /\ ClosedDaemon(daemons[i]).sess = daemons[i].sess
      /\ ClosedDaemon(daemons[i]).inflight = <<>> /\ ClosedDaemon(daemons[i]).stdin = <<>>
      /\ ClosedDaemon(daemons[i]).onFinish = daemons[i].onFinish
      /\ ClosedDaemon(daemons[i]).reader = daemons[i].reader
  BY <1>0, ClosedFacts DEF PoolTypes
<1>6. /\ daemons' \in [DaemonIds -> DaemonRecords] /\ daemons'[i] = ClosedDaemon(daemons[i])
      /\ \A j \in DaemonIds : j # i => daemons'[j] = daemons[j]
  BY <1>0, <1>5, DaemonStep
<1>7. \A o \in PoolProcs : Still(o) /\ proc[o].pc = "await" /\ proc[o].d = i => proc'[o].answer # "none"
  <2> SUFFICES ASSUME NEW o \in PoolProcs, Still(o), proc[o].pc = "await", proc[o].d = i PROVE proc'[o].answer # "none"
    OBVIOUS
  <2>1. o # p /\ ps[o] = proc[o]
    BY <1>1
  <2>2. CASE proc[o].answer = "none"
    BY <1>3, <2>1, <2>2, WaitsInQueue, ZenonT(40) DEF Informed
  <2>3. CASE proc[o].answer # "none"
    BY <2>3 DEF Still
  <2> QED
    BY <2>2, <2>3
<1>8. Shut(i)
  BY <1>5, <1>6, <1>7 DEF Shut
<1>9. \A j \in DaemonIds : j # i => Stays(j)
  BY <1>6 DEF Stays
<1>10. /\ proc' \in [PoolProcs -> ProcRecords]
       /\ proc'[p].pc = q.pc /\ proc'[p].next = q.next /\ proc'[p].lk = q.lk /\ proc'[p].sess = q.sess
       /\ proc'[p].want = q.want /\ proc'[p].d = q.d /\ proc'[p].turns = q.turns
       /\ proc'[p].answer = "none" => q.answer = "none"
  BY <1>1, <1>3 DEF Informed
<1> QED
  BY <1>4, <1>6, <1>8, <1>9, <1>10 DEF Closing

\* What a goroutine does that leaves the map without its daemon.
LEMMA UnpinKeeps ==
    ASSUME PoolInv, PoolTypes, NEW p \in PoolProcs, proc[p].pc # "await", NEW q \in ProcRecords,
           pinned' = NoDaemon,
           \/ /\ pinned = NoDaemon /\ daemons' = daemons /\ proc' = [proc EXCEPT ![p] = q]
           \/ /\ pinned # NoDaemon /\ daemons' = [daemons EXCEPT ![pinned] = ClosedDaemon(@)]
              /\ proc' = FailTurns(daemons[pinned].inflight, [proc EXCEPT ![p] = q]),
           UNCHANGED <<mode, available, locks, lockOf, flight, closers, record, poolClosed, prewarming, reloads,
                       poolFaults>>,
           (/\ proc'[p].pc = q.pc /\ proc'[p].next = q.next /\ proc'[p].lk = q.lk /\ proc'[p].sess = q.sess
            /\ proc'[p].want = q.want /\ proc'[p].d = q.d /\ proc'[p].turns = q.turns) => Moves(p)
    PROVE  PoolInv'
<1>1. CASE pinned = NoDaemon
  BY <1>1, ProcStep, TurnKeeps DEF PoolTypes, Stays
<1>2. CASE pinned # NoDaemon
  <2>0. pinned \in DaemonIds /\ daemons[pinned].proc # "none"
    BY <1>2 DEF PoolTypes, PoolInv, DaemonsMatch
  <2>1. /\ daemons' = [daemons EXCEPT ![pinned] = ClosedDaemon(@)]
        /\ proc' = FailTurns(daemons[pinned].inflight, [proc EXCEPT ![p] = q])
    BY <1>2
  <2>2. Closing(pinned, p, q)
    BY <2>0, <2>1, CloseFrame
  <2>3. PoolTypes'
    BY <2>2 DEF PoolTypes, Closing
  <2>4. \A o \in PoolProcs : Still(o) \/ Moves(o)
    BY <2>2 DEF Closing
  <2>5. Shut(pinned) /\ \A j \in DaemonIds : Stays(j) \/ Shut(j)
    BY <2>2 DEF Closing
  <2> QED
    BY <2>3, <2>4, <2>5, StepKeeps DEF Unpins
<1> QED
  BY <1>1, <1>2

LEMMA EvictSessionKeeps == ASSUME PoolInv, NEW p \in PoolProcs, EvictSession(p) PROVE PoolInv'
<1>0. PoolTypes /\ Roles /\ p \in Lessees /\ proc[p].pc = "evict"
  BY Cast DEF PoolInv, Roles, MayBe, EvictSession, At, Creating
<1> DEFINE r == [proc[p] EXCEPT !.pc = "unlock"]
<1>1. proc[p] \in ProcRecords /\ [proc EXCEPT ![p].pc = "unlock"] = [proc EXCEPT ![p] = r]
  BY <1>0 DEF PoolTypes
<1>2. /\ r \in ProcRecords /\ r.pc = "unlock" /\ r.next = proc[p].next /\ r.lk = proc[p].lk /\ r.d = proc[p].d
      /\ r.turns = proc[p].turns
  BY <1>1 DEF ProcRecords, Pcs
<1>3. \/ /\ pinned = NoDaemon /\ daemons' = daemons /\ proc' = [proc EXCEPT ![p] = r]
      \/ /\ pinned # NoDaemon /\ daemons' = [daemons EXCEPT ![pinned] = ClosedDaemon(@)]
         /\ proc' = FailTurns(daemons[pinned].inflight, [proc EXCEPT ![p] = r])
  BY <1>1 DEF EvictSession
<1> HIDE DEF r
<1>4. ASSUME proc'[p].pc = r.pc, proc'[p].next = r.next, proc'[p].lk = r.lk, proc'[p].d = r.d, proc'[p].turns = r.turns
      PROVE  Moves(p)
  <2>1. Turned(p)
    BY <1>0, <1>2, <1>4 DEF Turned, Ahead, InTurn, Creating
  <2>2. Knows(p)
    BY <1>0, <1>2, <1>4 DEF Knows, Creating, EvictSession
  <2>3. mode = "worker" => Renews(p)
    BY <1>0, <1>2, <1>4, Cast DEF Renews, Spent, Over
  <2>4. MayBe(p, proc'[p])
    BY <1>0, <1>2, <1>4, Cast DEF MayBe, Creating
  <2> QED
    BY <1>0, <1>2, <1>4, <2>1, <2>2, <2>3, <2>4 DEF Moves
<1> QED
  BY <1>0, <1>2, <1>3, <1>4, UnpinKeeps DEF EvictSession

LEMMA RotateDaemonKeeps == ASSUME PoolInv, NEW p \in PoolProcs, RotateDaemon(p) PROVE PoolInv'
<1>0. PoolTypes /\ Roles /\ (p \in Lessees \/ p = Rotator) /\ proc[p].pc = "rotate" /\ proc[p] \in ProcRecords
  BY Cast DEF PoolInv, Roles, MayBe, RotateDaemon, At, Creating, PoolTypes
<1>1. CASE poolClosed
  <2> DEFINE r == [proc[p] EXCEPT !.pc = IF p = Rotator THEN "return" ELSE "evict"]
  <2>1. proc' = [proc EXCEPT ![p] = r] /\ UNCHANGED <<pinned, daemons>>
    BY <1>0, <1>1 DEF RotateDaemon, Goto, PoolTypes
  <2>2. /\ r \in ProcRecords /\ r.next = proc[p].next /\ r.lk = proc[p].lk /\ r.d = proc[p].d
        /\ r.turns = proc[p].turns /\ r.pc = IF p = Rotator THEN "return" ELSE "evict"
    BY <1>0 DEF ProcRecords, Pcs
  <2> HIDE DEF r
  <2>3. /\ proc' \in [PoolProcs -> ProcRecords] /\ proc'[p] = r
        /\ \A o \in PoolProcs : o # p => proc'[o] = proc[o]
    BY <1>0, <2>1, <2>2, ProcStep
  <2>4. PoolTypes'
    BY <1>0, <2>1, <2>3 DEF PoolTypes, RotateDaemon
  <2>5. pinned' = NoDaemon
    BY <1>1, <2>1 DEF PoolInv, DaemonsMatch
  <2>6. Moves(p)
    <3>1. Turned(p)
      BY <1>0, <2>2, <2>3 DEF Turned, Ahead, InTurn, Creating
    <3>2. Knows(p)
      BY <1>0, <2>2, <2>3, Cast DEF Knows, Creating
    <3>3. mode = "worker" => Renews(p)
      BY <1>0, <2>2, <2>3, <2>5, Cast DEF Renews, Spent, Over, PoolInv, WorkersFresh
    <3>4. MayBe(p, proc'[p])
      BY <1>0, <2>2, <2>3, Cast DEF MayBe, Creating
    <3> QED
      BY <1>0, <2>2, <2>3, <3>1, <3>2, <3>3, <3>4, Cast DEF Moves
  <2> QED
    BY <2>1, <2>3, <2>4, <2>6, TurnKeeps DEF RotateDaemon, Stays
<1>2. CASE ~poolClosed
  <2> DEFINE n == IF p = Rotator THEN "recycle" ELSE "rotated"
             r == [proc[p] EXCEPT !.pc = "create", !.next = n, !.sess = 0, !.turns = 0]
  <2>0. n \in {"recycle", "rotated"} /\ 0 \in 0..MaxSpawns
    BY Cast
  <2> HIDE DEF n
  <2>1. /\ r \in ProcRecords /\ r.pc = "create" /\ r.next = n
        /\ r.lk = proc[p].lk /\ r.d = proc[p].d /\ r.turns = 0
    BY <1>0, <2>0 DEF ProcRecords, Pcs
  <2> USE DEF n
  <2>2. \/ /\ pinned = NoDaemon /\ daemons' = daemons /\ proc' = [proc EXCEPT ![p] = r]
        \/ /\ pinned # NoDaemon /\ daemons' = [daemons EXCEPT ![pinned] = ClosedDaemon(@)]
           /\ proc' = FailTurns(daemons[pinned].inflight, [proc EXCEPT ![p] = r])
    BY <1>2 DEF RotateDaemon
  <2>3. pinned' = NoDaemon
    BY <1>2 DEF RotateDaemon
  <2> HIDE DEF r
  <2>4. ASSUME proc'[p].pc = r.pc, proc'[p].next = r.next, proc'[p].lk = r.lk, proc'[p].d = r.d, proc'[p].turns = r.turns
        PROVE  Moves(p)
    <3>1. Turned(p)
      BY <1>0, <2>1, <2>4, Cast DEF Turned, Ahead, InTurn, Creating
    <3>2. Knows(p)
      BY <1>0, <2>1, <2>4, Cast DEF Knows, Creating
    <3>3. mode = "worker" => Renews(p)
      BY <1>0, <2>1, <2>3, <2>4, Cast DEF Renews, Spent, Creating
    <3>4. MayBe(p, proc'[p])
      BY <1>0, <2>1, <2>4, Cast DEF MayBe, Creating
    <3> QED
      BY <1>0, <2>1, <2>4, <3>1, <3>2, <3>3, <3>4, Cast DEF Moves
  <2> QED
    BY <1>0, <2>1, <2>2, <2>3, <2>4, UnpinKeeps DEF RotateDaemon
<1> QED
  BY <1>1, <1>2

LEMMA RunCloserKeeps == ASSUME PoolInv, NEW i \in DaemonIds, RunCloser(i) PROVE PoolInv'
<1>0. PoolTypes /\ i \in closers /\ daemons[i].proc # "none" /\ proc[Rotator].pc # "await"
  BY Cast DEF PoolInv, DaemonsMatch, RunCloser, Roles, MayBe, Creating
<1>1. CASE daemons[i].closed
  <2>1. \A q \in PoolProcs : Still(q)
    BY <1>1 DEF RunCloser, Still
  <2>2. /\ ClosedDaemon(daemons[i]) \in DaemonRecords /\ ClosedDaemon(daemons[i]).proc = "gone"
        /\ ClosedDaemon(daemons[i]).turns = daemons[i].turns /\ ClosedDaemon(daemons[i]).sess = daemons[i].sess
        /\ ClosedDaemon(daemons[i]).inflight = <<>> /\ ClosedDaemon(daemons[i]).stdin = <<>>
        /\ ClosedDaemon(daemons[i]).onFinish = daemons[i].onFinish
        /\ ClosedDaemon(daemons[i]).reader = daemons[i].reader
    BY <1>0, ClosedFacts DEF PoolTypes
  <2>3. /\ daemons' \in [DaemonIds -> DaemonRecords] /\ daemons'[i] = ClosedDaemon(daemons[i])
        /\ \A j \in DaemonIds : j # i => daemons'[j] = daemons[j]
    BY <1>0, <2>2, DaemonStep DEF RunCloser
  <2>4. \A o \in PoolProcs : proc[o].pc = "await" /\ proc[o].d = i => proc'[o].answer # "none"
    BY <1>1, WaitsInQueue DEF PoolInv, DaemonsMatch, RunCloser
  <2>5. Shut(i)
    BY <1>0, <2>2, <2>3, <2>4 DEF Shut
  <2>6. \A j \in DaemonIds : j # i => Stays(j)
    BY <2>3 DEF Stays
  <2>7. PoolTypes'
    BY <1>0, <1>1, <2>3 DEF PoolTypes, RunCloser
  <2> QED
    BY <2>1, <2>5, <2>6, <2>7, StepKeeps DEF RunCloser, Unpins
<1>2. CASE ~daemons[i].closed
  <2>1. proc[Rotator] \in ProcRecords /\ [proc EXCEPT ![Rotator] = proc[Rotator]] = proc
    BY <1>0, Cast DEF PoolTypes
  <2>2. /\ daemons' = [daemons EXCEPT ![i] = ClosedDaemon(@)]
        /\ proc' = FailTurns(daemons[i].inflight, [proc EXCEPT ![Rotator] = proc[Rotator]])
    BY <1>2, <2>1 DEF RunCloser
  <2>3. Closing(i, Rotator, proc[Rotator])
    BY <1>0, <2>1, <2>2, Cast, CloseFrame
  <2>4. PoolTypes'
    BY <1>0, <2>3 DEF PoolTypes, RunCloser, Closing
  <2>5. \A o \in PoolProcs : Still(o)
    BY <2>3 DEF Closing, Still
  <2>6. Shut(i) /\ \A j \in DaemonIds : Stays(j) \/ Shut(j)
    BY <2>3 DEF Closing
  <2> QED
    BY <2>4, <2>5, <2>6, StepKeeps DEF RunCloser, Unpins
<1> QED
  BY <1>1, <1>2

--------------------
(* Steps in which no goroutine that holds or wants the target moves. *)

LEMMA UnmovedKeeps ==
    ASSUME PoolInv, PoolTypes', UNCHANGED <<mode, available, locks, lockOf, record, prewarming>>, Unpins,
           \A q \in PoolProcs : Still(q), FlightMatches', DaemonsMatch',
           \A i \in DaemonIds : Stands(i) \/ Falls(i),
           \A i \in DaemonIds : daemons'[i].sess = daemons[i].sess,
           \A i \in DaemonIds : Used(i)' => Used(i)
    PROVE  PoolInv'
BY RolesKept, LocksKept, TurnsKept, SessionsKept, FreshKept DEF PoolInv

LEMMA PoolCloseKeeps == ASSUME PoolInv, PoolClose PROVE PoolInv'
<1>0. PoolTypes /\ DaemonsMatch /\ FlightMatches
  BY DEF PoolInv
<1>1. PoolTypes'
  BY <1>0 DEF PoolTypes, PoolClose
<1>2. /\ \A q \in PoolProcs : Still(q)
      /\ \A i \in DaemonIds : Stays(i)
  BY DEF Still, Stays, PoolClose
<1>3. \A i \in DaemonIds : Lasts(i) /\ Rests(i) /\ Lives(i) /\ Stands(i)
  BY <1>2, RestLasts, Living, Standing
<1>4. Unpins
  BY DEF Unpins, PoolClose
<1>5. FlightMatches'
  BY <1>0, PoolFields, <1>2, <1>3, <1>4, FlightKept DEF FlightMatches, PoolClose
<1>6. DaemonsMatch'
  BY <1>0, <1>2, Living, Cast, <1>1, <1>3, <1>4, DaemonsKept DEF Covered, PoolClose, DaemonsMatch,
     PoolTypes
<1>7. \A i \in DaemonIds : daemons'[i].sess = daemons[i].sess /\ (Used(i)' => Used(i))
  BY DEF PoolClose, Used
<1> QED
  BY <1>1, <1>2, <1>3, <1>4, <1>5, <1>6, <1>7, UnmovedKeeps DEF PoolClose

LEMMA ReadFinishKeeps == ASSUME PoolInv, NEW i \in DaemonIds, ReadFinish(i) PROVE PoolInv'
<1>0. PoolTypes /\ DaemonsMatch /\ FlightMatches /\ daemons[i].proc # "none"
  BY DEF PoolInv, DaemonsMatch, ReadFinish
<1> DEFINE d == [daemons[i] EXCEPT !.reader = "read"]
<1>1. /\ daemons[i] \in DaemonRecords /\ daemons' = [daemons EXCEPT ![i] = d]
  BY <1>0 DEF PoolTypes, ReadFinish
<1>2. /\ d \in DaemonRecords /\ d.proc = daemons[i].proc /\ d.closed = daemons[i].closed
      /\ d.turns = daemons[i].turns /\ d.sess = daemons[i].sess
      /\ d.inflight = daemons[i].inflight /\ d.stdin = daemons[i].stdin
      /\ d.onFinish = daemons[i].onFinish /\ d.reader = "read"
  BY <1>1 DEF DaemonRecords
<1> HIDE DEF d
<1>3. /\ daemons' \in [DaemonIds -> DaemonRecords] /\ daemons'[i] = d
      /\ \A j \in DaemonIds : j # i => daemons'[j] = daemons[j]
  BY <1>0, <1>1, <1>2, DaemonStep
<1>4. PoolTypes'
  BY <1>0, <1>3 DEF PoolTypes, ReadFinish
<1>5. \A j \in DaemonIds : /\ Lasts(j) /\ Rests(j) /\ Lives(j) /\ Stands(j)
                           /\ daemons'[j].sess = daemons[j].sess /\ (Used(j)' => Used(j))
                           /\ Inflight(j)' = Inflight(j) /\ daemons'[j].onFinish = daemons[j].onFinish
                           /\ j # i => daemons'[j].reader = daemons[j].reader
  BY <1>0, <1>2, <1>3 DEF Lasts, Rests, Lives, Stands, Used, Inflight
<1>6. Unpins /\ \A q \in PoolProcs : Still(q)
  BY DEF Unpins, Still, ReadFinish
<1>7. FlightMatches'
  BY <1>0, PoolFields, <1>5, <1>6, FlightKept DEF FlightMatches, ReadFinish
<1>8. DaemonsMatch'
  BY <1>5, <1>0, <1>4, <1>6, DaemonsKept DEF Covered, ReadFinish, DaemonsMatch, PoolTypes
<1> QED
  BY <1>4, <1>5, <1>6, <1>7, <1>8, UnmovedKeeps DEF ReadFinish

LEMMA ProcessDiesKeeps == ASSUME PoolInv, NEW i \in DaemonIds, ProcessDies(i) PROVE PoolInv'
<1>0. PoolTypes /\ DaemonsMatch /\ FlightMatches /\ daemons[i].proc = "alive"
  BY DEF PoolInv, ProcessDies
<1> DEFINE d == [daemons[i] EXCEPT !.proc = "dead", !.stdin = <<>>]
<1>1. /\ daemons[i] \in DaemonRecords /\ daemons' = [daemons EXCEPT ![i] = d]
  BY <1>0 DEF PoolTypes, ProcessDies
<1>e. <<>> \in Seq(PoolProcs)
  OBVIOUS
<1>2. /\ d \in DaemonRecords /\ d.proc = "dead" /\ d.closed = daemons[i].closed
      /\ d.turns = daemons[i].turns /\ d.sess = daemons[i].sess
      /\ d.inflight = daemons[i].inflight /\ d.stdin = <<>>
      /\ d.onFinish = daemons[i].onFinish /\ d.reader = daemons[i].reader
  BY <1>1, <1>e DEF DaemonRecords
<1> HIDE DEF d
<1>3. /\ daemons' \in [DaemonIds -> DaemonRecords] /\ daemons'[i] = d
      /\ \A j \in DaemonIds : j # i => daemons'[j] = daemons[j]
  BY <1>0, <1>1, <1>2, DaemonStep
<1>4. PoolTypes'
  BY <1>0, FaultTypes, <1>3 DEF ProcessDies, PoolTypes
<1>5. \A j \in DaemonIds : /\ Lasts(j) /\ Rests(j) /\ Lives(j)
                           /\ daemons'[j].sess = daemons[j].sess /\ (Used(j)' => Used(j))
                           /\ j # i => Stays(j)
  BY <1>0, <1>2, <1>3 DEF Lasts, Rests, Lives, Used, Stays
<1>6. Unpins /\ \A q \in PoolProcs : Still(q)
  BY DEF Unpins, Still, ProcessDies
<1>7. Falls(i)
  BY <1>2, <1>3, WaitsInQueue, <1>0 DEF Queued, DaemonsMatch, Falls, Still
<1>8. FlightMatches'
  BY <1>0, PoolFields, <1>5, <1>6, FlightKept DEF FlightMatches, ProcessDies
<1>9. DaemonsMatch'
  BY <1>2, <1>3, <1>5, Living, <1>0, <1>4, <1>6, DaemonsKept DEF Covered, ProcessDies,
     DaemonsMatch, PoolTypes
<1>10. \A j \in DaemonIds : Stands(j) \/ Falls(j)
  BY <1>5, <1>7, Standing
<1> QED
  BY <1>4, <1>5, <1>6, <1>8, <1>9, <1>10, UnmovedKeeps DEF ProcessDies

LEMMA ReadEOFKeeps == ASSUME PoolInv, NEW i \in DaemonIds, ReadEOF(i) PROVE PoolInv'
<1>0. PoolTypes /\ DaemonsMatch /\ FlightMatches /\ daemons[i].proc = "dead"
  BY DEF PoolInv, ReadEOF
<1> DEFINE d == [daemons[i] EXCEPT !.state = "Closed", !.reader = "end", !.inflight = <<>>]
<1>1. /\ daemons[i] \in DaemonRecords /\ daemons' = [daemons EXCEPT ![i] = d] /\ <<>> \in Seq(PoolProcs)
  BY <1>0 DEF PoolTypes, ReadEOF
<1>2. /\ d \in DaemonRecords /\ d.proc = "dead" /\ d.closed = daemons[i].closed
      /\ d.turns = daemons[i].turns /\ d.sess = daemons[i].sess
      /\ d.inflight = <<>> /\ d.stdin = daemons[i].stdin
      /\ d.onFinish = daemons[i].onFinish /\ d.reader = "end"
  BY <1>0, <1>1 DEF DaemonRecords
<1> HIDE DEF d
<1>3. /\ daemons' \in [DaemonIds -> DaemonRecords] /\ daemons'[i] = d
      /\ \A j \in DaemonIds : j # i => daemons'[j] = daemons[j]
  BY <1>0, <1>1, <1>2, DaemonStep
<1>p. /\ proc' \in [PoolProcs -> ProcRecords]
      /\ \A q \in PoolProcs : Still(q)
      /\ \A q \in PoolProcs : proc[q].pc = "await" /\ proc[q].d = i /\ Queued(q, i) => proc'[q].answer # "none"
  <2>1. PICK rescued \in BOOLEAN :
         proc' = [q \in PoolProcs |->
                    IF proc[q].pc \in {"await", "write"} /\ proc[q].d = i /\ proc[q].answer = "none"
                       /\ \E k \in 1..Inflight(i) : daemons[i].inflight[k] = q
                    THEN [proc[q] EXCEPT !.answer = IF rescued /\ proc[q].pc = "await" THEN "result" ELSE "error"]
                    ELSE proc[q]]
    BY DEF ReadEOF
  <2> DEFINE hit(q) == /\ proc[q].pc \in {"await", "write"} /\ proc[q].d = i /\ proc[q].answer = "none"
                       /\ Queued(q, i)
             a(q) == IF rescued /\ proc[q].pc = "await" THEN "result" ELSE "error"
  <2>2. proc' = [q \in PoolProcs |-> IF hit(q) THEN [proc[q] EXCEPT !.answer = a(q)] ELSE proc[q]]
    BY <2>1 DEF Queued, Inflight
  <2>3. \A q \in PoolProcs : a(q) \in {"result", "error"}
    OBVIOUS
  <2> HIDE DEF a
  <2>4. ASSUME NEW q \in PoolProcs
        PROVE  /\ proc'[q] \in ProcRecords /\ Still(q)
               /\ proc[q].pc = "await" /\ proc[q].d = i /\ Queued(q, i) => proc'[q].answer # "none"
    BY <1>0, <2>2, <2>3 DEF PoolTypes, ProcRecords, Still
  <2>5. proc' = [q \in PoolProcs |-> proc'[q]]
    BY <2>2
  <2> HIDE DEF hit
  <2>6. proc' \in [PoolProcs -> ProcRecords]
    BY <2>4, <2>5
  <2> QED
    BY <2>4, <2>6
<1>4. PoolTypes'
  BY <1>0, <1>3, <1>p DEF PoolTypes, ReadEOF
<1>5. \A j \in DaemonIds : /\ Lasts(j) /\ Rests(j) /\ Lives(j)
                           /\ daemons'[j].sess = daemons[j].sess /\ (Used(j)' => Used(j))
                           /\ j # i => Stays(j)
  BY <1>0, <1>2, <1>3 DEF Lasts, Rests, Lives, Used, Stays
<1>6. Unpins
  BY DEF Unpins, ReadEOF
<1>7. Falls(i)
  BY <1>2, <1>3, WaitsInQueue, <1>p DEF Queued, Falls, Still
<1>8. FlightMatches'
  BY <1>0, PoolFields, <1>5, <1>6, <1>p, FlightKept DEF FlightMatches, ReadEOF
<1>9. DaemonsMatch'
  BY <1>2, <1>3, <1>5, Living, <1>0, <1>p, <1>4, <1>6, DaemonsKept DEF Covered, ReadEOF,
     DaemonsMatch, PoolTypes, Still
<1>10. \A j \in DaemonIds : Stands(j) \/ Falls(j)
  BY <1>5, <1>7, Standing
<1> QED
  BY <1>4, <1>5, <1>6, <1>8, <1>9, <1>10, <1>p, UnmovedKeeps DEF ReadEOF

--------------------
(* The flight: a call of GetOrCreate that replaces or makes the daemon. *)

LEMMA ArmDrainKeeps == ASSUME PoolInv, NEW p \in PoolProcs, ArmDrain(p) PROVE PoolInv'
<1>0. /\ PoolTypes /\ DaemonsMatch /\ FlightMatches /\ flight.stage = "arm"
      /\ flight.d \in DaemonIds /\ daemons[flight.d].proc # "none"
  BY PoolFields DEF PoolInv, ArmDrain, FlightMatches
<1> DEFINE d == [daemons[flight.d] EXCEPT !.onFinish = TRUE]
           f == [flight EXCEPT !.stage = "recheck"]
<1>1. daemons[flight.d] \in DaemonRecords /\ daemons' = [daemons EXCEPT ![flight.d] = d]
  BY <1>0 DEF PoolTypes, ArmDrain
<1>2. /\ d \in DaemonRecords /\ d.proc = daemons[flight.d].proc /\ d.closed = daemons[flight.d].closed
      /\ d.turns = daemons[flight.d].turns /\ d.sess = daemons[flight.d].sess
      /\ d.inflight = daemons[flight.d].inflight /\ d.stdin = daemons[flight.d].stdin
      /\ d.onFinish = TRUE /\ d.reader = daemons[flight.d].reader
  BY <1>1 DEF DaemonRecords
<1>f. /\ f \in FlightRecords /\ flight' = f /\ f.stage = "recheck" /\ f.leader = flight.leader
      /\ f.sess = flight.sess /\ f.d = flight.d
  BY <1>0 DEF PoolTypes, FlightRecords, ArmDrain
<1> HIDE DEF d, f
<1>3. /\ daemons' \in [DaemonIds -> DaemonRecords] /\ daemons'[flight.d] = d
      /\ \A j \in DaemonIds : j # flight.d => daemons'[j] = daemons[j]
  BY <1>0, <1>1, <1>2, DaemonStep
<1>4. PoolTypes'
  BY <1>0, <1>3, <1>f DEF PoolTypes, ArmDrain
<1>5. \A j \in DaemonIds : Stays(j)
  BY <1>2, <1>3 DEF Stays
<1>6. Unpins /\ \A q \in PoolProcs : Still(q)
  BY DEF Unpins, Still, ArmDrain
<1>7. FlightMatches'
  BY <1>0, <1>2, <1>3, <1>f DEF FlightMatches, ArmDrain
<1>8. DaemonsMatch'
  BY <1>0, <1>5, <1>f, Living, <1>4, <1>6, DaemonsKept DEF Covered, ArmDrain, DaemonsMatch,
     PoolTypes
<1>9. \A j \in DaemonIds : Stands(j) /\ daemons'[j].sess = daemons[j].sess /\ (Used(j)' => Used(j))
  BY <1>5, Standing DEF Stays, Used
<1> QED
  BY <1>4, <1>6, <1>7, <1>8, <1>9, UnmovedKeeps DEF ArmDrain

LEMMA RecheckDrainKeeps == ASSUME PoolInv, NEW p \in PoolProcs, RecheckDrain(p) PROVE PoolInv'
<1>0. /\ PoolTypes /\ DaemonsMatch /\ FlightMatches /\ flight.stage = "recheck"
      /\ flight.d \in DaemonIds /\ daemons[flight.d].proc # "none" /\ daemons[flight.d].onFinish
  BY PoolFields DEF PoolInv, RecheckDrain, FlightMatches
<1> DEFINE f == [flight EXCEPT !.stage = "spawn"]
<1>1. /\ f \in FlightRecords /\ flight' = f /\ f.stage = "spawn" /\ f.leader = flight.leader
      /\ f.sess = flight.sess /\ f.d = flight.d
  BY <1>0 DEF PoolTypes, FlightRecords, RecheckDrain
<1> HIDE DEF f
<1>2. PoolTypes'
  BY <1>0, <1>1 DEF PoolTypes, RecheckDrain
<1>3. \A j \in DaemonIds : Stays(j)
  BY DEF Stays, RecheckDrain
<1>4. Unpins /\ \A q \in PoolProcs : Still(q)
  BY DEF Unpins, Still, RecheckDrain
<1>5. FlightMatches'
  BY <1>0, <1>1 DEF FlightMatches, RecheckDrain
<1>6. DaemonsMatch'
  BY <1>0, PoolFields, <1>3, Living, <1>2, <1>4, DaemonsKept DEF Inflight, RecheckDrain, Covered,
     DaemonsMatch, PoolTypes
<1>7. \A j \in DaemonIds : Stands(j) /\ daemons'[j].sess = daemons[j].sess /\ (Used(j)' => Used(j))
  BY <1>3, Standing DEF Stays, Used
<1> QED
  BY <1>2, <1>4, <1>5, <1>6, <1>7, UnmovedKeeps DEF RecheckDrain

\* A daemon that becomes dirty keeps the rest.
LEMMA DirtyStays ==
    ASSUME PoolTypes, NEW i \in DaemonIds \cup {NoDaemon},
           daemons' = IF i = NoDaemon THEN daemons ELSE [daemons EXCEPT ![i].dirty = TRUE]
    PROVE  daemons' \in [DaemonIds -> DaemonRecords] /\ \A j \in DaemonIds : Stays(j)
<1>1. CASE i = NoDaemon
  BY <1>1 DEF PoolTypes, Stays
<1>2. CASE i # NoDaemon
  <2> DEFINE d == [daemons[i] EXCEPT !.dirty = TRUE]
  <2>1. daemons[i] \in DaemonRecords /\ daemons' = [daemons EXCEPT ![i] = d] /\ i \in DaemonIds
    BY <1>2 DEF PoolTypes
  <2>2. /\ d \in DaemonRecords /\ d.proc = daemons[i].proc /\ d.closed = daemons[i].closed
        /\ d.turns = daemons[i].turns /\ d.sess = daemons[i].sess
        /\ d.inflight = daemons[i].inflight /\ d.stdin = daemons[i].stdin
        /\ d.onFinish = daemons[i].onFinish /\ d.reader = daemons[i].reader
    BY <2>1 DEF DaemonRecords
  <2> HIDE DEF d
  <2> QED
    BY <2>1, <2>2, DaemonStep DEF Stays
<1> QED
  BY <1>1, <1>2

LEMMA RestingFacts ==
    /\ RestingProc \in ProcRecords /\ RestingProc.pc = "idle" /\ RestingProc.lk = NoLock
    /\ RestingProc.sess = 0 /\ RestingProc.want = 0 /\ RestingProc.d = NoDaemon /\ RestingProc.turns = 0
    /\ RestingProc.next = "none"
BY Cast DEF RestingProc, ProcRecords, Pcs

LEMMA MarkDirtyKeeps == ASSUME PoolInv, MarkDirty PROVE PoolInv'
<1>0. PoolTypes /\ Roles /\ DaemonsMatch /\ FlightMatches
  BY DEF PoolInv
<1> DEFINE idle == pinned # NoDaemon /\ Inflight(pinned) = 0 /\ ~IsTargetLocked
           warm == /\ mode = "worker" /\ ~prewarming /\ ~IsTargetLocked
                   /\ pinned = NoDaemon \/ idle \/ daemons[pinned].state = "Closed"
           r == [RestingProc EXCEPT !.pc = "warm"]
<1>1. /\ pinned' = IF idle THEN NoDaemon ELSE pinned
      /\ closers' = IF idle THEN closers \cup {pinned} ELSE closers
      /\ daemons' = IF pinned = NoDaemon THEN daemons ELSE [daemons EXCEPT ![pinned].dirty = TRUE]
      /\ prewarming' = (prewarming \/ warm)
      /\ proc' = IF warm THEN [proc EXCEPT ![Warmer] = r] ELSE proc
      /\ reloads' = reloads - 1 /\ reloads > 0 /\ ~poolClosed
      /\ UNCHANGED <<mode, available, locks, lockOf, flight, record, poolClosed, poolFaults>>
  BY DEF MarkDirty
<1>2. /\ r \in ProcRecords /\ r.pc = "warm" /\ r.lk = NoLock /\ r.d = NoDaemon /\ r.turns = 0
  BY RestingFacts DEF ProcRecords, Pcs
<1>3. proc[Warmer].pc = "idle" \/ ~warm
  BY <1>0 DEF Roles
<1> HIDE DEF idle, r
<1>4. /\ proc' \in [PoolProcs -> ProcRecords]
      /\ \A q \in PoolProcs : Still(q) \/ (q = Warmer /\ proc'[q] = r /\ warm)
  BY <1>1, <1>0, <1>2, Cast, ProcStep DEF Still, PoolTypes
<1>5. daemons' \in [DaemonIds -> DaemonRecords] /\ \A j \in DaemonIds : Stays(j)
  BY <1>0, <1>1, DirtyStays DEF PoolTypes
<1>6. PoolTypes'
  BY <1>0, <1>1, <1>4, <1>5 DEF PoolTypes, idle
<1>7. Roles'
  <2>1. \A q \in PoolProcs : MayBe(q, proc'[q])
    BY <1>0, <1>2, <1>4, Cast DEF Roles, Still, MayBe, Creating
  <2>2. proc'[Warmer].pc # "idle" => prewarming' /\ mode' = "worker"
    BY <1>0, <1>1, <1>4, Cast DEF Roles, Still
  <2>3. \A q \in Lessees \cup {Rotator} : proc'[q].pc = proc[q].pc
    BY <1>4, Cast DEF Still
  <2> QED
    BY <1>0, <1>1, <2>1, <2>2, <2>3, Cast DEF Roles
<1> HIDE DEF warm
<1>8. LocksMatch'
  BY <1>3, Cast, <1>1, <1>2, <1>4, LocksKept DEF PoolInv, LocksMatch
<1>9. Unpins
  BY <1>1 DEF Unpins
<1>10. FlightMatches'
  <2>1. flight.stage = "register" => flight.d \in DaemonIds /\ closers' = closers
    BY <1>0, <1>1, PoolFields DEF FlightMatches, idle
  <2>2. \A i \in DaemonIds : Lasts(i) /\ Rests(i)
    BY <1>5, RestLasts
  <2>3. flight.stage = "register" => flight.d # NoDaemon
    BY <2>1, Cast
  <2> QED
    BY <1>0, <1>1, <1>2, <1>3, <1>4, <1>9, <2>1, <2>2, <2>3, FlightKept
<1>11. DaemonsMatch'
  BY <1>1, <1>5, Living, <1>0, <1>2, <1>4, <1>6, <1>9, DaemonsKept DEF Covered, DaemonsMatch,
     PoolTypes, idle, Still
<1>12. TurnsMatch'
  BY <1>2, <1>3, <1>4, <1>5, Standing, TurnsKept DEF Turned, Ahead, InTurn, Creating, PoolInv
<1>13. SessionsMatch'
  BY <1>4, Cast, <1>5, <1>1, <1>6, <1>9, <1>12, SessionsKept DEF Knows, Stays, PoolInv
<1>14. WorkersFresh'
  <2>1. \A q \in PoolProcs : Still(q) \/ Renews(q)
    BY <1>2, <1>4, Cast DEF Renews
  <2>2. \A j \in DaemonIds : Used(j)' => Used(j)
    BY <1>5 DEF Stays, Used
  <2> QED
    BY <1>0, <1>1, <1>6, <1>9, <1>12, <2>1, <2>2, FreshKept DEF PoolInv
<1> QED
  BY <1>6, <1>7, <1>8, <1>10, <1>11, <1>12, <1>13, <1>14 DEF PoolInv

LEMMA CheckExistingKeeps == ASSUME PoolInv, NEW p \in PoolProcs, CheckExisting(p) PROVE PoolInv'
<1>0. /\ PoolTypes /\ Roles /\ DaemonsMatch /\ FlightMatches
      /\ proc[p].pc = "flight" /\ proc[p] \in ProcRecords /\ flight.stage = "none"
  BY DEF PoolInv, CheckExisting, At, PoolTypes
<1> DEFINE busy == pinned # NoDaemon /\ Inflight(pinned) > 0
           kept == IF pinned # NoDaemon /\ proc[p].sess = 0 /\ mode = "pinned" /\ ~ShouldRotate(pinned)
                   THEN daemons[pinned].sess ELSE proc[p].sess
           f == [leader |-> p, stage |-> IF busy THEN "arm" ELSE "spawn", sess |-> kept, d |-> pinned]
           r == [proc[p] EXCEPT !.pc = "lead"]
<1>1. CASE /\ UNCHANGED <<flight, pinned, daemons, closers>>
           /\ \/ proc' = [proc EXCEPT ![p] = Refused(proc[p])]
              \/ /\ CanReuseDaemon(pinned, proc[p].sess)
                 /\ proc' = [proc EXCEPT ![p] = Resumed(proc[p], pinned)]
  BY <1>0, <1>1, AnsweredKeeps DEF CheckExisting
<1>2. CASE /\ ~poolClosed
           /\ flight' = f
           /\ closers' = IF busy THEN closers ELSE closers \cup ({pinned} \ {NoDaemon})
           /\ pinned' = NoDaemon
           /\ daemons' = IF pinned = NoDaemon THEN daemons ELSE [daemons EXCEPT ![pinned].dirty = TRUE]
           /\ Goto(p, "lead")
  <2>1. kept \in 0..MaxSpawns /\ (proc[p].sess # 0 => kept = proc[p].sess)
    BY <1>0, PoolFields DEF PoolTypes
  <2> HIDE DEF kept, busy
  <2>2. /\ f \in FlightRecords /\ f.leader = p /\ f.stage = (IF busy THEN "arm" ELSE "spawn") /\ f.sess = kept
        /\ f.d = pinned
    BY <1>0, <2>1 DEF FlightRecords, PoolTypes
  <2>3. /\ r \in ProcRecords /\ r.pc = "lead" /\ r.next = proc[p].next /\ r.lk = proc[p].lk /\ r.d = proc[p].d
        /\ r.turns = proc[p].turns /\ r.sess = proc[p].sess /\ r.want = proc[p].want
    BY <1>0 DEF ProcRecords, Pcs
  <2>4. proc' = [proc EXCEPT ![p] = r]
    BY <1>0, <1>2 DEF Goto, PoolTypes
  <2> HIDE DEF f, r
  <2>5. /\ proc' \in [PoolProcs -> ProcRecords] /\ proc'[p] = r
        /\ \A q \in PoolProcs : q # p => proc'[q] = proc[q]
    BY <1>0, <2>3, <2>4, ProcStep
  <2>6. daemons' \in [DaemonIds -> DaemonRecords] /\ \A j \in DaemonIds : Stays(j)
    BY <1>0, <1>2, DirtyStays DEF PoolTypes
  <2>7. PoolTypes'
    BY <1>0, <1>2, <2>2, <2>5, <2>6 DEF PoolTypes, CheckExisting
  <2>8. \A q \in PoolProcs : q # p => Still(q)
    BY <2>5 DEF Still
  <2>9. Unpins
    BY <1>2 DEF Unpins
  <2>10. MayBe(p, proc'[p])
    BY <1>0, <2>3, <2>5, Cast DEF MayBe, Creating, Roles
  <2>11. Roles'
    BY <1>0, <2>3, <2>5, <2>8, <2>10, RolesKept DEF CheckExisting
  <2>12. LocksMatch'
    BY <1>0, <2>3, <2>5, <2>8, LocksKept DEF CheckExisting, PoolInv
  <2>13. FlightMatches'
    BY <1>0, <2>6, <2>3, <2>5, <1>2, <2>1, <2>2, Cast DEF busy, PoolTypes, DaemonsMatch, Stays,
       FlightMatches
  <2>14. DaemonsMatch'
    <3>1. ASSUME NEW j \in DaemonIds, Covered(j) PROVE Covered(j)'
      BY <1>2, <2>2, Cast, <1>0, <2>6, <3>1, Living DEF Covered
    <3>2. \A j \in closers' : daemons[j].proc # "none"
      BY <1>0, <1>2 DEF DaemonsMatch, PoolTypes
    <3>3. /\ \A q \in PoolProcs : proc'[q].d = proc[q].d
          /\ poolClosed' => pinned' = NoDaemon
          /\ \A j \in DaemonIds : Lives(j)
      BY <1>2, <2>3, <2>5, <2>6, Living
    <3> QED
      BY <1>0, <2>7, <2>9, <3>1, <3>2, <3>3, DaemonsKept
  <2>15. TurnsMatch'
    BY <1>0, <2>3, <2>5, <2>6, Standing, <2>8, TurnsKept DEF Turned, Ahead, InTurn, Creating,
       PoolInv, TurnsMatch
  <2>16. SessionsMatch'
    BY <1>0, <2>3, <2>5, <2>6, <2>7, <2>8, <2>9, <2>15, SessionsKept DEF Knows, Creating, PoolInv,
       SessionsMatch, Stays, CheckExisting
  <2>17. WorkersFresh'
    <3>1. mode = "worker" => Renews(p)
      BY <1>0, <2>3, <2>5, Cast DEF Renews, PoolInv, WorkersFresh, Spent, Creating, Over
    <3>2. \A j \in DaemonIds : Used(j)' => Used(j)
      BY <2>6 DEF Stays, Used
    <3> QED
      BY <1>0, <2>7, <2>8, <2>9, <2>15, <3>1, <3>2, FreshKept DEF PoolInv, CheckExisting
  <2> QED
    BY <2>7, <2>11, <2>12, <2>13, <2>14, <2>15, <2>16, <2>17 DEF PoolInv
<1> QED
  BY <1>1, <1>2 DEF CheckExisting

\* A goroutine that a flight which ends sends on.
Ended(q, i) ==
    /\ proc[q].pc \in {"lead", "joined"} /\ Goes(q)
    /\ proc'[q].d = proc[q].d \/ (proc'[q].d = i /\ daemons[i].proc # "none")

LEMMA FlightEnds ==
    ASSUME PoolInv, PoolTypes', DaemonsMatch', NEW p \in PoolProcs, proc[p].pc = "lead", flight' = NoFlight,
           NEW i, UNCHANGED <<mode, available, locks, lockOf, record, prewarming>>,
           \A q \in PoolProcs : (Still(q) /\ proc[q].pc # "lead") \/ Ended(q, i),
           Unpins \/ (mode = "worker" => ~Used(pinned)'),
           \A j \in DaemonIds : Stays(j) \/ Shut(j)
    PROVE  PoolInv'
<1>1. Roles'
  BY RolesKept DEF PoolInv, Ended, Goes
<1>2. LocksMatch'
  BY LocksKept DEF Ended, Goes, PoolInv
<1>3. FlightMatches'
  BY DEF Ended, Goes, Still, NoFlight, FlightMatches
<1>4. TurnsMatch'
  BY Falling, Standing, TurnsKept DEF Ended, Goes, PoolInv
<1>5. SessionsMatch'
  <2>1. \A j \in DaemonIds : daemons'[j].sess = daemons[j].sess
    BY DEF Stays, Shut
  <2>2. \A q \in PoolProcs : Still(q) \/ Knows(q)
    BY DEF Ended, Goes
  <2>3. ASSUME NEW q \in Lessees, mode = "pinned", proc[q].pc \in {"unlock", "persist"} PROVE FALSE
    BY <2>3, Cast DEF PoolInv, Roles, HoldsTarget, LocksMatch, LeaseIsExclusive
  <2> QED
    BY <1>4, <2>1, <2>2, <2>3, SessionsKept DEF PoolInv
<1>6. WorkersFresh'
  BY <1>4, FreshKept DEF Ended, Goes, Stays, Shut, Used, PoolInv
<1> QED
  BY <1>1, <1>2, <1>3, <1>4, <1>5, <1>6 DEF PoolInv

\* A flight that fails.
LEMMA FlightFails ==
    ASSUME PoolInv, NEW p \in PoolProcs, proc[p].pc = "lead", NEW i, EndFlight(p, i, FALSE)
    PROVE  /\ proc' \in [PoolProcs -> ProcRecords] /\ flight' = NoFlight
           /\ \A q \in PoolProcs : (Still(q) /\ proc[q].pc # "lead") \/ (Ended(q, i) /\ proc'[q].d = proc[q].d)
BY RefusedGoes DEF PoolInv, FlightMatches, EndFlight, Creating, Ended, Still, PoolTypes

LEMMA SpawnKeeps == ASSUME PoolInv, NEW p \in PoolProcs, Spawn(p) PROVE PoolInv'
<1>0. /\ PoolTypes /\ Roles /\ DaemonsMatch /\ FlightMatches /\ proc[p].pc = "lead" /\ flight.leader = p
      /\ flight.stage = "spawn" /\ pinned = NoDaemon /\ poolFaults' \in Nat
  BY FaultTypes DEF PoolInv, Spawn, At, FlightMatches
<1>1. CASE EndFlight(p, NoDaemon, FALSE) /\ UNCHANGED daemons
  <2>1. /\ proc' \in [PoolProcs -> ProcRecords] /\ flight' = NoFlight
        /\ \A q \in PoolProcs : \/ Still(q) /\ proc[q].pc # "lead"
                                \/ Ended(q, NoDaemon) /\ proc'[q].d = proc[q].d
    BY <1>0, <1>1, FlightFails
  <2>2. NoFlight \in FlightRecords
    BY Cast DEF NoFlight, FlightRecords
  <2>3. PoolTypes'
    BY <1>0, <1>1, <2>1, <2>2 DEF PoolTypes, Spawn
  <2>4. \A j \in DaemonIds : Stays(j)
    BY <1>1 DEF Stays
  <2>5. Unpins
    BY DEF Unpins, Spawn
  <2>6. DaemonsMatch'
    BY <1>0, <2>4, Living, <2>1, <2>3, <2>5, DaemonsKept DEF Covered, Spawn, DaemonsMatch,
       PoolTypes, Still
  <2> QED
    BY <1>0, <2>1, <2>3, <2>4, <2>5, <2>6, FlightEnds DEF Spawn
<1>2. CASE Unspawned # {} /\ ~poolClosed /\ UNCHANGED proc
           /\ LET i == CHOOSE j \in Unspawned : TRUE
              IN /\ daemons' = [daemons EXCEPT ![i] =
                       [FreshDaemon EXCEPT !.proc = "alive", !.state = "Ready", !.turns = proc[p].turns,
                                           !.sess = SpawnedSession(flight.sess, i)]]
                 /\ flight' = [flight EXCEPT !.stage = "register", !.d = i]
  <2> DEFINE i == CHOOSE j \in Unspawned : TRUE
             d == [FreshDaemon EXCEPT !.proc = "alive", !.state = "Ready", !.turns = proc[p].turns,
                                      !.sess = SpawnedSession(flight.sess, i)]
             f == [flight EXCEPT !.stage = "register", !.d = i]
  <2>1. i \in DaemonIds /\ daemons[i].proc = "none"
    BY <1>2 DEF Unspawned
  <2>2. daemons' = [daemons EXCEPT ![i] = d] /\ flight' = f
    BY <1>2
  <2> HIDE DEF i
  <2>3. SpawnedSession(flight.sess, i) \in 0..MaxSpawns /\ (flight.sess # 0 => SpawnedSession(flight.sess, i) = flight.sess)
    BY <1>0, <2>1, PoolFields, Cast DEF SpawnedSession
  <2>4. FreshDaemon \in DaemonRecords /\ proc[p].turns \in Nat
    BY <1>0, Cast, PoolFields DEF FreshDaemon, DaemonRecords
  <2>5. /\ FreshDaemon.inflight = <<>> /\ FreshDaemon.stdin = <<>> /\ FreshDaemon.closed = FALSE
        /\ FreshDaemon.onFinish = FALSE /\ FreshDaemon.reader = "read"
    BY DEF FreshDaemon
  <2>6. /\ d \in DaemonRecords /\ d.proc = "alive" /\ d.turns = proc[p].turns /\ d.inflight = <<>> /\ d.stdin = <<>>
        /\ d.closed = FALSE /\ d.onFinish = FALSE /\ d.reader = "read" /\ (flight.sess # 0 => d.sess = flight.sess)
    BY <2>3, <2>4, <2>5 DEF DaemonRecords
  <2>7. /\ f \in FlightRecords /\ f.stage = "register" /\ f.d = i /\ f.leader = p
    BY <1>0, <2>1 DEF PoolTypes, FlightRecords
  <2> HIDE DEF d, f
  <2>8. /\ daemons' \in [DaemonIds -> DaemonRecords] /\ daemons'[i] = d
        /\ \A j \in DaemonIds : j # i => daemons'[j] = daemons[j]
    BY <1>0, <2>1, <2>2, <2>6, DaemonStep
  <2>9. PoolTypes'
    BY <1>0, <1>2, <2>2, <2>7, <2>8 DEF PoolTypes, Spawn
  <2>10. i # pinned /\ i \notin closers /\ i # NoDaemon /\ \A q \in PoolProcs : proc[q].d # i
    BY <1>0, <2>1, Cast DEF DaemonsMatch
  <2>11. \A q \in PoolProcs : Still(q) /\ proc'[q] = proc[q]
    BY <1>2 DEF Still
  <2>12. Roles'
    BY <1>0, <2>11, RolesKept DEF Spawn
  <2>13. LocksMatch'
    BY <2>11, LocksKept DEF PoolInv, Spawn
  <2>14. FlightMatches'
    BY <1>0, <2>6, <2>2, <2>7, <2>8, <2>10, <2>11 DEF FlightMatches, Spawn
  <2>15. DaemonsMatch'
    BY <2>6, <2>8, <1>0, <2>11, <2>2, <2>7 DEF DaemonsMatch, Spawn, NoForgottenDaemon, Covered,
       Inflight
  <2>16. TurnsMatch'
    <3>1. TurnsMatch
      BY DEF PoolInv
    <3>2. \A j \in DaemonIds, q \in PoolProcs : Queued(q, j)' => Queued(q, j) /\ j # i
      BY <2>6, <2>8 DEF Queued
    <3>3. \A q \in PoolProcs, j \in DaemonIds : (Writes(q, j)' <=> Writes(q, j)) /\ ~Writes(q, i)
      BY <2>10, <2>11 DEF Writes
    <3>4. ASSUME NEW j \in DaemonIds, daemons'[j].proc = "alive"
          PROVE  /\ \A q \in PoolProcs : Writes(q, j)' => daemons'[j].inflight = Append(daemons'[j].stdin, q)
                 /\ (\A q \in PoolProcs : ~Writes(q, j)') => daemons'[j].inflight = daemons'[j].stdin
      BY <2>1, <2>6, <2>8, <3>1, <3>3, <3>4 DEF TurnsMatch
    <3>5. NoStuckTurn'
      <4> SUFFICES ASSUME NEW q \in PoolProcs, proc'[q].pc = "await", proc'[q].answer = "none"
                   PROVE  /\ \E k \in 1..Len(daemons'[proc'[q].d].inflight) : daemons'[proc'[q].d].inflight[k] = q
                          /\ daemons'[proc'[q].d].proc \in {"alive", "dead"} /\ daemons'[proc'[q].d].reader # "end"
        BY DEF NoStuckTurn
      <4>1. proc[q].d \in DaemonIds /\ proc[q].d # i
        BY <1>0, <2>10, <2>11, <3>1, PoolFields DEF TurnsMatch, InTurn
      <4>2. daemons'[proc'[q].d] = daemons[proc[q].d]
        BY <2>8, <2>11, <4>1
      <4> QED
        BY <2>11, <3>1, <4>2 DEF TurnsMatch, NoStuckTurn
    <3> QED
      BY <2>11, <3>1, <3>2, <3>4, <3>5 DEF TurnsMatch
  <2>17. \A q \in PoolProcs : proc[q].pc \in InTurn => daemons'[proc[q].d] = daemons[proc[q].d]
    BY <1>0, <2>8, <2>10, PoolFields DEF PoolInv, TurnsMatch
  <2>18. SessionsMatch'
    BY <2>17, Cast, <2>11, <1>0 DEF PoolInv, SessionsMatch, InTurn, LeaseKeepsItsSession, Spawn,
       RotationIsRecorded
  <2>19. WorkersFresh'
    BY <1>0, <2>11, <2>17, Cast DEF Spawn, PoolInv, WorkersFresh, EphemeralTurnIsFresh, InTurn,
       Inflight
  <2> QED
    BY <2>9, <2>12, <2>13, <2>14, <2>15, <2>16, <2>18, <2>19 DEF PoolInv
<1> QED
  BY <1>1, <1>2 DEF Spawn

LEMMA RegisterSpawnedKeeps == ASSUME PoolInv, NEW p \in PoolProcs, RegisterSpawned(p) PROVE PoolInv'
<1>0. /\ PoolTypes /\ Roles /\ DaemonsMatch /\ FlightMatches /\ proc[p].pc = "lead" /\ flight.leader = p
      /\ flight.stage = "register" /\ pinned = NoDaemon
      /\ flight.d \in DaemonIds /\ daemons[flight.d].proc # "none" /\ flight.d \notin closers
      /\ \A q \in PoolProcs : proc[q].d # flight.d
  BY PoolFields DEF PoolInv, RegisterSpawned, At, FlightMatches
<1>f. NoFlight \in FlightRecords /\ NoFlight.stage = "none"
  BY Cast DEF NoFlight, FlightRecords
<1>1. CASE /\ poolClosed /\ daemons' = [daemons EXCEPT ![flight.d] = ClosedDaemon(@)]
           /\ EndFlight(p, flight.d, FALSE) /\ UNCHANGED <<pinned, closers>>
  <2>1. /\ proc' \in [PoolProcs -> ProcRecords] /\ flight' = NoFlight
        /\ \A q \in PoolProcs : \/ Still(q) /\ proc[q].pc # "lead"
                                \/ Ended(q, flight.d) /\ proc'[q].d = proc[q].d
    BY <1>0, <1>1, FlightFails
  <2>2. /\ ClosedDaemon(daemons[flight.d]) \in DaemonRecords /\ ClosedDaemon(daemons[flight.d]).proc = "gone"
        /\ ClosedDaemon(daemons[flight.d]).turns = daemons[flight.d].turns
        /\ ClosedDaemon(daemons[flight.d]).sess = daemons[flight.d].sess
        /\ ClosedDaemon(daemons[flight.d]).inflight = <<>> /\ ClosedDaemon(daemons[flight.d]).stdin = <<>>
        /\ ClosedDaemon(daemons[flight.d]).onFinish = daemons[flight.d].onFinish
        /\ ClosedDaemon(daemons[flight.d]).reader = daemons[flight.d].reader
    BY <1>0, ClosedFacts DEF PoolTypes
  <2>3. /\ daemons' \in [DaemonIds -> DaemonRecords] /\ daemons'[flight.d] = ClosedDaemon(daemons[flight.d])
        /\ \A j \in DaemonIds : j # flight.d => daemons'[j] = daemons[j]
    BY <1>0, <1>1, <2>2, DaemonStep
  <2>4. PoolTypes'
    BY <1>0, <1>1, <1>f, <2>1, <2>3 DEF PoolTypes, RegisterSpawned
  <2>5. Shut(flight.d) /\ \A j \in DaemonIds : j # flight.d => Stays(j)
    BY <1>0, <2>2, <2>3 DEF Shut, Stays
  <2>6. Unpins
    BY <1>1 DEF Unpins
  <2>7. DaemonsMatch'
    <3>1. ASSUME NEW j \in DaemonIds, daemons'[j].proc = "alive", Covered(j) PROVE Covered(j)'
      BY <2>2, <2>3, <3>1, <1>1, <2>5, Living DEF Covered, RegisterSpawned
    <3>2. \A j \in closers' : daemons[j].proc # "none"
      BY <1>0, <1>1 DEF DaemonsMatch, PoolTypes
    <3>3. /\ \A q \in PoolProcs : proc'[q].d = proc[q].d
          /\ poolClosed' => pinned' = NoDaemon
          /\ \A j \in DaemonIds : Lives(j) \/ Shut(j)
      BY <1>0, <1>1, <2>1, <2>5, Living DEF Still
    <3> QED
      BY <1>0, <2>4, <2>6, <3>1, <3>2, <3>3, DaemonsKept
  <2> QED
    BY <1>0, <2>1, <2>4, <2>5, <2>6, <2>7, FlightEnds DEF RegisterSpawned
<1>2. CASE /\ ~poolClosed /\ pinned' = flight.d
           /\ EndFlight(p, flight.d, TRUE) /\ UNCHANGED <<daemons, closers>>
  <2>1. \A j \in DaemonIds : Stays(j)
    BY <1>2 DEF Stays
  <2>2. mode = "worker" => ~Used(flight.d)
    BY <1>0 DEF PoolInv, WorkersFresh, FlightMatches, Used, Over
  <2>3. ASSUME NEW q \in PoolProcs
        PROVE  proc'[q] \in ProcRecords /\ ((Still(q) /\ proc[q].pc # "lead") \/ Ended(q, flight.d))
    BY <1>2, <1>0, <2>2, ResumedGoes DEF EndFlight, Roles, MayBe, FlightMatches, Creating, Ended,
       Still, PoolTypes
  <2>4. proc' \in [PoolProcs -> ProcRecords]
    BY <1>2, <2>3 DEF EndFlight
  <2>5. flight' = NoFlight
    BY <1>2 DEF EndFlight
  <2>6. PoolTypes'
    BY <1>0, <1>2, <1>f, <2>4, <2>5 DEF PoolTypes, RegisterSpawned
  <2>7. DaemonsMatch'
    BY <1>0, <1>2, <2>1, Living, Cast, <2>3, <2>6, DaemonsKept DEF Covered, RegisterSpawned,
       DaemonsMatch, PoolTypes, Still, Ended
  <2>8. mode = "worker" => ~Used(pinned)'
    BY <1>2, <2>2 DEF Used
  <2> QED
    BY <1>0, <2>1, <2>3, <2>5, <2>6, <2>7, <2>8, FlightEnds DEF RegisterSpawned
<1> QED
  BY <1>1, <1>2 DEF RegisterSpawned

--------------------
(* Prompts and answers *)

LEMMA Alone ==
    ASSUME PoolInv, NEW p \in Lessees, proc[p].pc \in {"append", "write"}
    PROVE  \A q \in PoolProcs : q # p => proc[q].pc \notin {"leased", "send", "append", "write", "await"}
BY Cast DEF PoolInv, Roles, MayBe, Creating, HoldsTarget, LocksMatch, LeaseIsExclusive

LEMMA SendAppendKeeps == ASSUME PoolInv, NEW p \in PoolProcs, SendAppend(p) PROVE PoolInv'
<1>0. /\ PoolTypes /\ Roles /\ DaemonsMatch /\ FlightMatches /\ TurnsMatch
      /\ p \in Lessees /\ proc[p].d \in DaemonIds /\ proc[p].pc = "append"
  BY PoolFields, Cast DEF PoolInv, Roles, MayBe, SendAppend, At, Creating, TurnsMatch, InTurn
<1> DEFINE i == proc[p].d
           r == [proc[p] EXCEPT !.pc = "write", !.answer = "none"]
           d == [daemons[i] EXCEPT !.inflight = Append(@, p), !.state = "Executing"]
<1>r. /\ proc[p] \in ProcRecords /\ proc' = [proc EXCEPT ![p] = r]
      /\ daemons[i] \in DaemonRecords /\ daemons' = [daemons EXCEPT ![i] = d]
  BY <1>0 DEF PoolTypes, SendAppend
<1>s. /\ r \in ProcRecords /\ r.pc = "write" /\ r.next = proc[p].next /\ r.lk = proc[p].lk
      /\ r.d = proc[p].d /\ r.turns = proc[p].turns /\ r.sess = proc[p].sess /\ r.want = proc[p].want
  BY <1>r, ZenonT(40) DEF ProcRecords, Pcs
<1>d. /\ d \in DaemonRecords /\ d.proc = daemons[i].proc /\ d.closed = daemons[i].closed
      /\ d.turns = daemons[i].turns /\ d.sess = daemons[i].sess
      /\ d.inflight = Append(daemons[i].inflight, p) /\ d.stdin = daemons[i].stdin
      /\ d.onFinish = daemons[i].onFinish /\ d.reader = daemons[i].reader
  <2>1. Append(daemons[i].inflight, p) \in Seq(PoolProcs)
    BY <1>0, PoolFields
  <2> QED
    BY <1>r, <2>1 DEF DaemonRecords
<1>i. i \in DaemonIds
  BY <1>0
<1> HIDE DEF r, d
<1>t. /\ proc' \in [PoolProcs -> ProcRecords] /\ proc'[p] = r
      /\ \A q \in PoolProcs : q # p => proc'[q] = proc[q]
  BY <1>0, <1>r, <1>s, ProcStep
<1>u. /\ daemons' \in [DaemonIds -> DaemonRecords] /\ daemons'[i] = d
      /\ \A j \in DaemonIds : j # i => daemons'[j] = daemons[j]
  BY <1>0, <1>i, <1>r, <1>d, DaemonStep
<1>1. PoolTypes'
  BY <1>0, <1>t, <1>u DEF PoolTypes, SendAppend
<1>2. \A q \in PoolProcs : q # p => Still(q) /\ proc'[q] = proc[q]
  BY <1>t DEF Still
<1>3. \A j \in DaemonIds : /\ Lasts(j) /\ Lives(j) /\ (j # i => Stays(j) /\ Rests(j))
                           /\ daemons'[j].sess = daemons[j].sess /\ daemons'[j].onFinish = daemons[j].onFinish
                           /\ daemons'[j].reader = daemons[j].reader
  BY <1>d, <1>u DEF Lasts, Lives, Stays, Rests
<1> HIDE DEF i
<1>4. Roles'
  BY <1>0, <1>s, <1>t, Cast, <1>2, RolesKept DEF MayBe, Creating, SendAppend
<1>5. LocksMatch'
  BY <1>0, <1>2, <1>s, <1>t, LocksKept DEF PoolInv, SendAppend
<1>6. FlightMatches'
  BY <1>0, PoolFields, <1>2, <1>3, <1>s, <1>t, FlightKept DEF FlightMatches, i, Unpins, SendAppend
<1>7. DaemonsMatch'
  <2>1. ASSUME NEW j \in DaemonIds, Covered(j) PROVE Covered(j)'
    <3>0. daemons[j].inflight \in Seq(PoolProcs)
      BY <1>0, PoolFields
    <3>1. Inflight(j) > 0 => Inflight(j)' > 0
      BY <1>d, <1>u, <3>0 DEF Inflight
    <3> QED
      BY <1>3, <2>1, <3>1 DEF Covered, SendAppend
  <2>2. \A j \in closers' : daemons[j].proc # "none"
    BY <1>0 DEF DaemonsMatch, PoolTypes, SendAppend
  <2>3. /\ \A q \in PoolProcs : proc'[q].d = proc[q].d
        /\ poolClosed' => pinned' = NoDaemon
        /\ Unpins
    BY <1>0, <1>2, <1>s, <1>t DEF SendAppend, DaemonsMatch, Unpins
  <2> QED
    BY <1>0, <1>1, <1>3, <2>1, <2>2, <2>3, DaemonsKept
<1>a. \A q \in PoolProcs : q # p => proc[q].pc \notin {"leased", "send", "append", "write", "await"}
  BY <1>0, Alone
<1>8. TurnsMatch'
  <2>1. ~Queued(p, i) /\ \A j \in DaemonIds : ~Queued(p, j)
    BY <1>0, <1>i DEF TurnsMatch, Ahead
  <2>2. \A j \in DaemonIds, q \in PoolProcs : Queued(q, j)' => (Queued(q, j) /\ q # p) \/ (q = p /\ j = i)
    <3> SUFFICES ASSUME NEW j \in DaemonIds, NEW q \in PoolProcs, Queued(q, j)'
                 PROVE  (Queued(q, j) /\ q # p) \/ (q = p /\ j = i)
      OBVIOUS
    <3>1. CASE j = i
      <4>1. daemons[i].inflight \in Seq(PoolProcs) /\ daemons'[i].inflight = Append(daemons[i].inflight, p)
        BY <1>0, <1>i, <1>d, <1>u, PoolFields
      <4>2. PICK k \in 1..Len(daemons'[i].inflight) : daemons'[i].inflight[k] = q
        BY <3>1 DEF Queued
      <4>3. q = p \/ (k \in 1..Len(daemons[i].inflight) /\ daemons[i].inflight[k] = q)
        BY <4>1, <4>2
      <4> QED
        BY <2>1, <3>1, <4>3 DEF Queued
    <3>2. CASE j # i
      BY <1>u, <2>1, <3>2 DEF Queued
    <3> QED
      BY <3>1, <3>2
  <2>3. \A j \in DaemonIds, q \in PoolProcs : Queued(q, j)' =>
         /\ q \in Lessees /\ ~Ahead(proc'[q])
         /\ proc'[q].pc \in {"write", "await"} => proc'[q].d = j
    BY <1>0, <1>2, <1>s, <1>t, <2>2 DEF TurnsMatch, Ahead, Creating, i
  <2>4. \A q \in PoolProcs, j \in DaemonIds : Writes(q, j)' <=> (q = p /\ j = i)
    BY <1>0, <1>2, <1>a, <1>s, <1>t DEF Writes, i
  <2>5. \A q \in PoolProcs, j \in DaemonIds : ~Writes(q, j)
    BY <1>0, <1>a DEF Writes
  <2>6. ASSUME NEW j \in DaemonIds, daemons'[j].proc = "alive"
        PROVE  /\ \A q \in PoolProcs : Writes(q, j)' => daemons'[j].inflight = Append(daemons'[j].stdin, q)
               /\ (\A q \in PoolProcs : ~Writes(q, j)') => daemons'[j].inflight = daemons'[j].stdin
    <3>1. daemons[j].proc = "alive"
      BY <1>d, <1>u, <2>6
    <3>2. daemons[j].inflight = daemons[j].stdin
      BY <1>0, <2>5, <3>1 DEF TurnsMatch
    <3> QED
      BY <1>d, <1>u, <2>4, <3>2
  <2>7. NoStuckTurn'
    BY <1>2, <1>a, <1>s, <1>t DEF NoStuckTurn
  <2>8. \A q \in PoolProcs :
          proc'[q].pc \in InTurn \/ (proc'[q].pc \in Creating /\ proc'[q].next = "send") => proc'[q].d # NoDaemon
    BY <1>0, <1>2, <1>s, <1>t, Cast DEF TurnsMatch
  <2> QED
    BY <2>3, <2>6, <2>7, <2>8 DEF TurnsMatch
<1>9. SessionsMatch'
  <2>1. Knows(p)
    BY <1>0, <1>s, <1>t DEF Knows, Creating, PoolInv, SessionsMatch, LeaseKeepsItsSession
  <2> QED
    BY <1>1, <1>2, <1>3, <1>8, <2>1, SessionsKept DEF PoolInv, SendAppend, Unpins
<1>10. WorkersFresh'
  <2>1. mode = "worker" => Renews(p)
    BY <1>0, <1>s, <1>t, Cast DEF Renews, PoolInv, WorkersFresh, Spent, Over
  <2>2. Spent(proc'[p])
    BY <1>0, <1>s, <1>t, Cast DEF Spent
  <2>3. \A q \in Lessees : proc'[q].pc \notin {"leased", "send", "append"}
    BY <1>2, <1>a, <1>s, <1>t, Cast
  <2> QED
    BY <1>0, <1>1, <1>2, <1>8, <2>1, <2>2, <2>3, FreshKept DEF PoolInv, SendAppend, Unpins
<1> QED
  BY <1>1, <1>4, <1>5, <1>6, <1>7, <1>8, <1>9, <1>10 DEF PoolInv

LEMMA AppendFacts ==
    ASSUME NEW s \in Seq(PoolProcs), NEW q \in PoolProcs
    PROVE  /\ Len(Append(s, q)) = Len(s) + 1 /\ Len(s) + 1 \in 1..Len(Append(s, q))
           /\ Append(s, q)[Len(s) + 1] = q
  OBVIOUS

LEMMA SendWriteOn ==
    ASSUME PoolInv, NEW p \in PoolProcs, NEW i \in DaemonIds, i = proc[p].d, SendWrite(p)
    PROVE  PoolInv'
<1>0. /\ PoolTypes /\ Roles /\ DaemonsMatch /\ FlightMatches /\ TurnsMatch
      /\ p \in Lessees /\ proc[p].d \in DaemonIds /\ proc[p].pc = "write"
  BY PoolFields, Cast DEF PoolInv, Roles, MayBe, SendWrite, At, Creating, TurnsMatch, InTurn
<1>i. i \in DaemonIds /\ daemons[i] \in DaemonRecords /\ proc[p] \in ProcRecords
  BY <1>0 DEF PoolTypes
<1>a. \A q \in PoolProcs : q # p => proc[q].pc \notin {"leased", "send", "append", "write", "await"}
  BY <1>0, Alone
<1>b. proc[p].next # "rotated"
  BY <1>0 DEF PoolInv, SessionsMatch
<1>1. ASSUME NEW r \in ProcRecords, r.pc \in {"await", "release"}, r.next = proc[p].next, r.lk = proc[p].lk,
             r.d = proc[p].d, r.turns = proc[p].turns, proc' = [proc EXCEPT ![p] = r],
             NEW d \in DaemonRecords, daemons' = [daemons EXCEPT ![i] = d],
             d.proc = daemons[i].proc, d.closed = daemons[i].closed,
             d.turns = daemons[i].turns, d.sess = daemons[i].sess,
             d.inflight = daemons[i].inflight \/ daemons[i].proc # "alive",
             Used(i)' => Used(i), d.onFinish = daemons[i].onFinish, d.reader = daemons[i].reader,
             TurnsMatch'
      PROVE  PoolInv'
  <2>t. /\ proc' \in [PoolProcs -> ProcRecords] /\ proc'[p] = r
        /\ \A q \in PoolProcs : q # p => proc'[q] = proc[q]
    BY <1>0, <1>1, ProcStep
  <2>u. /\ daemons' \in [DaemonIds -> DaemonRecords] /\ daemons'[i] = d
        /\ \A j \in DaemonIds : j # i => daemons'[j] = daemons[j]
    BY <1>0, <1>1, <1>i, DaemonStep
  <2>1. PoolTypes'
    BY <1>0, <2>t, <2>u DEF PoolTypes, SendWrite
  <2>2. \A q \in PoolProcs : q # p => Still(q)
    BY <2>t DEF Still
  <2>3. \A j \in DaemonIds : /\ Lasts(j) /\ Lives(j) /\ (j # i => Stays(j) /\ Rests(j) /\ (Used(j)' => Used(j)))
                             /\ daemons'[j].sess = daemons[j].sess /\ daemons'[j].onFinish = daemons[j].onFinish
                             /\ daemons'[j].reader = daemons[j].reader
                             /\ daemons'[j].proc = "alive" => Inflight(j)' = Inflight(j)
    BY <1>1, <2>u DEF Lasts, Lives, Stays, Rests, Used, Inflight
  <2>4. Roles'
    BY <1>0, <1>1, <2>t, Cast, <2>2, RolesKept DEF MayBe, Creating, SendWrite
  <2>5. LocksMatch'
    BY <1>0, <1>1, <2>2, <2>t, LocksKept DEF PoolInv, SendWrite
  <2>6. FlightMatches'
    BY <1>0, PoolFields, <1>1, <2>2, <2>3, <2>t, FlightKept DEF FlightMatches, Unpins, SendWrite
  <2>7. DaemonsMatch'
    <3>1. \A j \in DaemonIds : daemons'[j].proc = "alive" /\ Covered(j) => Covered(j)'
      BY <2>3 DEF Covered, SendWrite
    <3>2. \A j \in closers' : daemons[j].proc # "none"
      BY <1>0 DEF DaemonsMatch, PoolTypes, SendWrite
    <3>3. /\ \A q \in PoolProcs : proc'[q].d = proc[q].d
          /\ poolClosed' => pinned' = NoDaemon
          /\ Unpins
      BY <1>0, <1>1, <2>t DEF SendWrite, DaemonsMatch, Unpins
    <3> QED
      BY <1>0, <2>1, <2>3, <3>1, <3>2, <3>3, DaemonsKept
  <2>8. SessionsMatch'
    BY <1>0, <1>1, <1>b, <2>t, <2>1, <2>2, <2>3, SessionsKept DEF Knows, Creating, PoolInv,
       SendWrite, Unpins
  <2>9. WorkersFresh'
    BY <1>0, <1>1, <2>t, Cast, <2>3, <2>1, <2>2, FreshKept DEF Renews, PoolInv, WorkersFresh,
       Spent, Over, SendWrite, Unpins
  <2> QED
    BY <1>1, <2>1, <2>4, <2>5, <2>6, <2>7, <2>8, <2>9 DEF PoolInv
<1>2. CASE daemons[i].proc = "alive"
  <2> DEFINE r == [proc[p] EXCEPT !.pc = "await"]
             d == [daemons[i] EXCEPT !.stdin = Append(@, p)]
  <2>1. proc' = [proc EXCEPT ![p] = r] /\ daemons' = [daemons EXCEPT ![i] = d]
    BY <1>0, <1>2 DEF SendWrite, Goto, PoolTypes
  <2>2. /\ r \in ProcRecords /\ r.pc = "await" /\ r.next = proc[p].next /\ r.lk = proc[p].lk
        /\ r.d = proc[p].d /\ r.turns = proc[p].turns
    BY <1>i DEF ProcRecords, Pcs
  <2>3. Append(daemons[i].stdin, p) \in Seq(PoolProcs) /\ daemons[i].stdin \in Seq(PoolProcs)
    BY <1>0, <1>i, PoolFields
  <2>4. /\ d \in DaemonRecords /\ d.proc = daemons[i].proc /\ d.closed = daemons[i].closed
        /\ d.turns = daemons[i].turns /\ d.sess = daemons[i].sess /\ d.inflight = daemons[i].inflight
        /\ d.stdin = Append(daemons[i].stdin, p) /\ d.onFinish = daemons[i].onFinish /\ d.reader = daemons[i].reader
    BY <1>i, <2>3 DEF DaemonRecords
  <2> HIDE DEF r, d
  <2>t. /\ proc'[p] = r
        /\ \A q \in PoolProcs : q # p => proc'[q] = proc[q]
    BY <1>0, <2>1, <2>2, ProcStep
  <2>u. /\ daemons'[i] = d
        /\ \A j \in DaemonIds : j # i => daemons'[j] = daemons[j]
    BY <1>0, <1>i, <2>1, <2>4, DaemonStep
  <2>5. TurnsMatch'
    <3>1. \A j \in DaemonIds, q \in PoolProcs : Queued(q, j)' <=> Queued(q, j)
      BY <2>4, <2>u DEF Queued
    <3>2. \A j \in DaemonIds, q \in PoolProcs : Queued(q, j)' =>
             /\ q \in Lessees /\ ~Ahead(proc'[q])
             /\ proc'[q].pc \in {"write", "await"} => proc'[q].d = j
      BY <1>0, <2>2, <2>t, <3>1 DEF TurnsMatch, Ahead, Creating
    <3>3. \A q \in PoolProcs, j \in DaemonIds : ~Writes(q, j)' /\ (Writes(q, j) => q = p /\ j = i)
      BY <1>a, <2>2, <2>t DEF Writes
    <3>4. Writes(p, i)
      BY <1>0 DEF Writes
    <3>5. daemons[i].inflight = Append(daemons[i].stdin, p)
      BY <1>0, <1>2, <1>i, <3>4 DEF TurnsMatch
    <3>6. ASSUME NEW j \in DaemonIds, daemons'[j].proc = "alive"
          PROVE  daemons'[j].inflight = daemons'[j].stdin
      <4>1. CASE j = i
        BY <2>4, <2>u, <3>5, <4>1
      <4>2. CASE j # i
        BY <2>u, <3>3, <4>2, <1>0, <3>6 DEF TurnsMatch
      <4> QED
        BY <4>1, <4>2
    <3>7. NoStuckTurn'
      <4> SUFFICES ASSUME NEW q \in PoolProcs, proc'[q].pc = "await", proc'[q].answer = "none"
                   PROVE  /\ \E k \in 1..Len(daemons'[proc'[q].d].inflight) : daemons'[proc'[q].d].inflight[k] = q
                          /\ daemons'[proc'[q].d].proc \in {"alive", "dead"} /\ daemons'[proc'[q].d].reader # "end"
        BY DEF NoStuckTurn
      <4>1. q = p /\ proc'[q].d = i
        BY <1>a, <2>2, <2>t
      <4>2. daemons'[i].inflight = Append(daemons[i].stdin, p)
        BY <2>4, <2>u, <3>5
      <4>3. Len(daemons[i].stdin) + 1 \in 1..Len(daemons'[i].inflight)
            /\ daemons'[i].inflight[Len(daemons[i].stdin) + 1] = p
        BY <2>3, <4>2, AppendFacts
      <4>4. daemons'[i].proc = "alive" /\ daemons'[i].reader # "end"
        BY <1>0, <1>2, <1>i, <2>4, <2>u DEF DaemonsMatch
      <4> QED
        BY <4>1, <4>3, <4>4
    <3>8. \A q \in PoolProcs :
            proc'[q].pc \in InTurn \/ (proc'[q].pc \in Creating /\ proc'[q].next = "send") => proc'[q].d # NoDaemon
      BY <1>0, <2>2, <2>t, Cast DEF TurnsMatch
    <3> QED
      BY <3>2, <3>3, <3>6, <3>7, <3>8 DEF TurnsMatch
  <2>6. Used(i)' => Used(i)
    BY <2>4, <2>u DEF Used
  <2> QED
    BY <1>1, <2>1, <2>2, <2>4, <2>5, <2>6
<1>3. CASE daemons[i].proc # "alive"
  <2> DEFINE popped == IF daemons[i].inflight # <<>> /\ Last(daemons[i].inflight) = p
                       THEN Front(daemons[i].inflight) ELSE daemons[i].inflight
             r == [proc[p] EXCEPT !.pc = "release", !.cancel = TRUE, !.answer = "none"]
             d == [daemons[i] EXCEPT !.inflight = popped, !.state = "Closed", !.dirty = TRUE]
  <2>0. daemons[i].inflight \in Seq(PoolProcs)
    BY <1>0, <1>i, PoolFields
  <2>1. proc' = [proc EXCEPT ![p] = r]
    BY <1>0, <1>3 DEF SendWrite, FailedTurn, PoolTypes
  <2>2. /\ r \in ProcRecords /\ r.pc = "release" /\ r.next = proc[p].next /\ r.lk = proc[p].lk
        /\ r.d = proc[p].d /\ r.turns = proc[p].turns
    BY <1>i DEF ProcRecords, Pcs
  <2>3. /\ popped \in Seq(PoolProcs) /\ (daemons[i].inflight = <<>> => popped = <<>>)
        /\ \A k \in 1..Len(popped) : k \in 1..Len(daemons[i].inflight) /\ popped[k] = daemons[i].inflight[k]
    BY <2>0 DEF Front
  <2> HIDE DEF popped
  <2>4. daemons' = [daemons EXCEPT ![i] = d]
    BY <1>3, <1>0, <1>i DEF SendWrite, FailedTurn, popped, PoolTypes
  <2>5. /\ d \in DaemonRecords /\ d.proc = daemons[i].proc /\ d.closed = daemons[i].closed
        /\ d.turns = daemons[i].turns /\ d.sess = daemons[i].sess /\ d.inflight = popped
        /\ d.stdin = daemons[i].stdin /\ d.onFinish = daemons[i].onFinish /\ d.reader = daemons[i].reader
    BY <1>i, <2>3 DEF DaemonRecords
  <2> HIDE DEF r, d
  <2>t. /\ proc'[p] = r
        /\ \A q \in PoolProcs : q # p => proc'[q] = proc[q]
    BY <1>0, <2>1, <2>2, ProcStep
  <2>u. /\ daemons'[i] = d
        /\ \A j \in DaemonIds : j # i => daemons'[j] = daemons[j]
    BY <1>0, <1>i, <2>4, <2>5, DaemonStep
  <2>6. Falls(i)
    BY <2>3, <2>5, <2>u, <1>0, <1>a, <1>3 DEF Queued, Falls
  <2>7. TurnsMatch'
    BY <2>6, <2>u, <1>0, <2>2, <2>t, Cast, TurnsKept DEF Stands, Turned, Ahead, Creating, Still
  <2>8. Used(i)' => Used(i)
    BY <2>3, <2>5, <2>u DEF Used
  <2> QED
    BY <1>1, <1>3, <2>1, <2>2, <2>4, <2>5, <2>7, <2>8
<1> QED
  BY <1>2, <1>3

LEMMA SendWriteKeeps == ASSUME PoolInv, NEW p \in PoolProcs, SendWrite(p) PROVE PoolInv'
<1>1. proc[p].d \in DaemonIds
  BY PoolFields, Cast DEF PoolInv, Roles, MayBe, SendWrite, At, Creating, TurnsMatch, InTurn
<1> QED
  BY <1>1, SendWriteOn

LEMMA TailFacts ==
    ASSUME NEW s \in Seq(PoolProcs), s # <<>>
    PROVE  /\ Head(s) \in PoolProcs /\ Tail(s) \in Seq(PoolProcs) /\ Len(s) \in Nat \ {0}
           /\ Len(Tail(s)) = Len(s) - 1
           /\ \A k \in 1..Len(Tail(s)) : k + 1 \in 1..Len(s) /\ Tail(s)[k] = s[k + 1]
           /\ \A k \in 1..Len(s) : s[k] = Head(s) \/ (k - 1 \in 1..Len(Tail(s)) /\ Tail(s)[k - 1] = s[k])
OBVIOUS

LEMMA TailOfAppend ==
    ASSUME NEW s \in Seq(PoolProcs), s # <<>>, NEW q \in PoolProcs
    PROVE  Tail(Append(s, q)) = Append(Tail(s), q)
  OBVIOUS

\* The oldest turn is answered.
LEMMA ReadResultKeeps == ASSUME PoolInv, NEW i \in DaemonIds, ReadResult(i) PROVE PoolInv'
<1> DEFINE f == daemons[i].inflight
           t == Head(f)
<1>0. /\ PoolTypes /\ Roles /\ DaemonsMatch /\ FlightMatches /\ TurnsMatch
      /\ daemons[i].proc = "alive" /\ daemons[i].reader = "read" /\ ~daemons[i].closed
      /\ f \in Seq(PoolProcs) /\ f # <<>> /\ daemons[i].stdin \in Seq(PoolProcs) /\ daemons[i].stdin # <<>>
  BY PoolFields DEF PoolInv, ReadResult
<1>a. /\ t \in PoolProcs /\ Tail(f) \in Seq(PoolProcs) /\ Len(Tail(f)) = Len(f) - 1 /\ Len(f) \in Nat \ {0}
      /\ Tail(daemons[i].stdin) \in Seq(PoolProcs)
  BY <1>0, TailFacts
<1>b. PICK kind \in {"result", "empty", "error"}, w \in daemons[i].weight..2 :
         /\ daemons' = [daemons EXCEPT ![i] =
                  [daemons[i] EXCEPT !.inflight = Tail(f), !.stdin = Tail(daemons[i].stdin), !.turns = daemons[i].turns + 1, !.weight = w,
                            !.state = IF Len(f) > 1 \/ daemons[i].state = "Closed" THEN daemons[i].state ELSE "Ready",
                            !.reader = IF Len(f) > 1 THEN "read" ELSE "finish"]]
         /\ proc' = IF proc[t].pc = "await" /\ proc[t].d = i
                    THEN [proc EXCEPT ![t].answer = kind] ELSE proc
  BY DEF ReadResult
<1> DEFINE d == [daemons[i] EXCEPT !.inflight = Tail(f), !.stdin = Tail(daemons[i].stdin), !.turns = daemons[i].turns + 1, !.weight = w,
                            !.state = IF Len(f) > 1 \/ daemons[i].state = "Closed" THEN daemons[i].state ELSE "Ready",
                            !.reader = IF Len(f) > 1 THEN "read" ELSE "finish"]
           r == IF proc[t].pc = "await" /\ proc[t].d = i THEN [proc[t] EXCEPT !.answer = kind] ELSE proc[t]
<1>r. /\ proc[t] \in ProcRecords /\ proc' = [proc EXCEPT ![t] = r]
      /\ daemons[i] \in DaemonRecords /\ daemons' = [daemons EXCEPT ![i] = d]
  BY <1>0, <1>b, <1>a DEF PoolTypes, t
<1>s. /\ r \in ProcRecords /\ r.pc = proc[t].pc /\ r.next = proc[t].next /\ r.lk = proc[t].lk
      /\ r.d = proc[t].d /\ r.turns = proc[t].turns /\ r.sess = proc[t].sess /\ r.want = proc[t].want
      /\ r.answer = "none" => proc[t].answer = "none"
      /\ proc[t].pc = "await" /\ proc[t].d = i => r.answer # "none"
  BY <1>r, ZenonT(40) DEF ProcRecords
<1>w. w \in 0..2
  BY <1>0, PoolFields
<1>d. /\ d \in DaemonRecords /\ d.proc = "alive" /\ d.closed = daemons[i].closed /\ d.sess = daemons[i].sess
      /\ d.inflight = Tail(f) /\ d.stdin = Tail(daemons[i].stdin)
      /\ d.onFinish = daemons[i].onFinish /\ d.reader \in {"read", "finish"}
      /\ d.reader = "finish" \/ Len(f) > 1
  <2>1. /\ daemons[i].turns + 1 \in Nat
        /\ (IF Len(f) > 1 \/ daemons[i].state = "Closed" THEN daemons[i].state ELSE "Ready")
             \in {"Starting", "Ready", "Executing", "Closed"}
        /\ (IF Len(f) > 1 THEN "read" ELSE "finish") \in {"read", "finish", "end"}
    BY <1>r DEF DaemonRecords
  <2> QED
    BY <1>0, <1>a, <1>r, <1>w, <2>1 DEF DaemonRecords
<1> HIDE DEF r, d
<1>t. /\ proc' \in [PoolProcs -> ProcRecords] /\ proc'[t] = r
      /\ \A q \in PoolProcs : q # t => proc'[q] = proc[q]
  BY <1>0, <1>a, <1>r, <1>s, ProcStep
<1>u. /\ daemons' \in [DaemonIds -> DaemonRecords] /\ daemons'[i] = d
      /\ \A j \in DaemonIds : j # i => daemons'[j] = daemons[j]
  BY <1>0, <1>r, <1>d, DaemonStep
<1>v. UNCHANGED <<mode, available, pinned, locks, lockOf, flight, closers, record, poolClosed, prewarming, reloads, poolFaults>>
  BY DEF ReadResult
<1>1. PoolTypes'
  BY <1>0, <1>t, <1>u, <1>v DEF PoolTypes
<1>2. \A q \in PoolProcs : Still(q)
  BY <1>s, <1>t DEF Still
<1>3. Unpins
  BY <1>v DEF Unpins
<1>f. f = daemons[i].inflight
  OBVIOUS
<1>h. t = Head(f)
  OBVIOUS
<1> HIDE DEF f, t
<1>4. Roles'
  BY <1>0, <1>2, <1>v, RolesKept
<1>5. LocksMatch'
  BY <1>2, <1>v, LocksKept DEF PoolInv
<1>6. FlightMatches'
  BY <1>0, <1>f, PoolFields, <1>d, <1>u, <1>2, <1>3, <1>v, FlightKept DEF FlightMatches, Lasts,
     Rests
<1>7. DaemonsMatch'
  <2>1. \A j \in DaemonIds : Lives(j)
    BY <1>0, <1>d, <1>u DEF Lives
  <2>2. ASSUME NEW j \in DaemonIds, Covered(j) PROVE Covered(j)'
    BY <1>a, <1>d, <1>u, <1>v, <2>2 DEF Inflight, Covered
  <2>3. /\ \A j \in closers' : daemons[j].proc # "none"
        /\ poolClosed' => pinned' = NoDaemon
        /\ \A q \in PoolProcs : proc'[q].d = proc[q].d
    BY <1>0, <1>2, <1>v DEF DaemonsMatch, PoolTypes, Still
  <2> QED
    BY <1>0, <1>1, <1>3, <2>1, <2>2, <2>3, DaemonsKept
<1>8. TurnsMatch'
  <2>1. \A j \in DaemonIds, q \in PoolProcs : Queued(q, j)' => Queued(q, j)
    <3> SUFFICES ASSUME NEW j \in DaemonIds, NEW q \in PoolProcs, Queued(q, j)' PROVE Queued(q, j)
      OBVIOUS
    <3>1. CASE j = i
      <4>1. PICK k \in 1..Len(Tail(f)) : Tail(f)[k] = q
        BY <1>d, <1>u, <3>1 DEF Queued
      <4>2. k + 1 \in 1..Len(f) /\ f[k + 1] = q
        BY <1>0, <4>1, TailFacts
      <4> QED
        BY <1>f, <3>1, <4>2 DEF Queued
    <3>2. CASE j # i
      BY <1>u, <3>2 DEF Queued
    <3> QED
      BY <3>1, <3>2
  <2>2. \A j \in DaemonIds, q \in PoolProcs : Queued(q, j)' =>
         /\ q \in Lessees /\ ~Ahead(proc'[q])
         /\ proc'[q].pc \in {"write", "await"} => proc'[q].d = j
    BY <1>0, <1>2, <2>1 DEF TurnsMatch, Still, Ahead
  <2>3. \A j \in DaemonIds, q \in PoolProcs : Writes(q, j)' <=> Writes(q, j)
    BY <1>2 DEF Writes, Still
  <2>4. ASSUME NEW j \in DaemonIds, daemons'[j].proc = "alive"
        PROVE  /\ \A q \in PoolProcs : Writes(q, j)' => daemons'[j].inflight = Append(daemons'[j].stdin, q)
               /\ (\A q \in PoolProcs : ~Writes(q, j)') => daemons'[j].inflight = daemons'[j].stdin
    <3>1. CASE j = i
      BY <1>0, <1>f, TailOfAppend, <1>d, <1>u, <2>3, <3>1 DEF TurnsMatch
    <3>2. CASE j # i
      BY <1>u, <3>2, <1>0, <2>3, <2>4 DEF TurnsMatch
    <3> QED
      BY <3>1, <3>2
  <2>5. NoStuckTurn'
    <3> SUFFICES ASSUME NEW q \in PoolProcs, proc'[q].pc = "await", proc'[q].answer = "none"
                 PROVE  /\ \E k \in 1..Len(daemons'[proc'[q].d].inflight) : daemons'[proc'[q].d].inflight[k] = q
                        /\ daemons'[proc'[q].d].proc \in {"alive", "dead"} /\ daemons'[proc'[q].d].reader # "end"
      BY DEF NoStuckTurn
    <3>1. proc[q].pc = "await" /\ proc[q].answer = "none" /\ proc'[q].d = proc[q].d
      BY <1>2 DEF Still
    <3>2. /\ \E k \in 1..Len(daemons[proc[q].d].inflight) : daemons[proc[q].d].inflight[k] = q
          /\ daemons[proc[q].d].proc \in {"alive", "dead"} /\ daemons[proc[q].d].reader # "end"
      BY <3>1, WaitsInQueue
    <3>3. proc[q].d \in DaemonIds
      BY <1>0, <3>1, PoolFields DEF TurnsMatch, InTurn
    <3>4. CASE proc[q].d = i
      <4>1. q # t
        BY <1>s, <1>t, <3>1, <3>4
      <4>2. PICK k \in 1..Len(f) : f[k] = q
        BY <1>f, <3>2, <3>4
      <4>3. k - 1 \in 1..Len(Tail(f)) /\ Tail(f)[k - 1] = q
        BY <1>0, <1>h, <4>1, <4>2, TailFacts
      <4> QED
        BY <1>d, <1>u, <3>1, <3>4, <4>3, ZenonT(40)
    <3>5. CASE proc[q].d # i
      BY <1>u, <3>1, <3>2, <3>3, <3>5
    <3> QED
      BY <3>4, <3>5
  <2>6. \A q \in PoolProcs :
          proc'[q].pc \in InTurn \/ (proc'[q].pc \in Creating /\ proc'[q].next = "send") => proc'[q].d # NoDaemon
    BY <1>0, <1>2 DEF TurnsMatch, Still
  <2> QED
    BY <2>2, <2>4, <2>5, <2>6 DEF TurnsMatch
<1>9. \A j \in DaemonIds : daemons'[j].sess = daemons[j].sess /\ (Used(j)' => Used(j))
  BY <1>0, <1>d, <1>f, <1>u DEF Used
<1>10. SessionsMatch'
  BY <1>1, <1>2, <1>3, <1>8, <1>9, <1>v, SessionsKept DEF PoolInv
<1>11. WorkersFresh'
  BY <1>1, <1>2, <1>3, <1>8, <1>9, <1>v, FreshKept DEF PoolInv
<1> QED
  BY <1>1, <1>4, <1>5, <1>6, <1>7, <1>8, <1>10, <1>11 DEF PoolInv

--------------------
(* The target lock. *)

\* A goroutine that takes or gives back the lock, or comes and goes.
Passes(q) ==
    /\ proc[q].pc # "lead" /\ proc'[q].pc # "lead"
    /\ proc'[q].d = proc[q].d \/ proc'[q].d = NoDaemon
    /\ Turned(q) /\ Knows(q)

LEMMA LockStepKeeps ==
    ASSUME PoolInv, PoolTypes', Roles', LocksMatch',
           UNCHANGED <<mode, daemons, pinned, flight, closers, record, poolClosed>>,
           \A q \in PoolProcs : Still(q) \/ Passes(q),
           WorkersFresh' \/ (mode = "worker" => \A q \in PoolProcs : Still(q) \/ Renews(q))
    PROVE  PoolInv'
<1>0. PoolTypes /\ FlightMatches /\ DaemonsMatch /\ TurnsMatch
  BY DEF PoolInv
<1>1. \A i \in DaemonIds : Stays(i)
  BY DEF Stays
<1>2. \A i \in DaemonIds : Lasts(i) /\ Rests(i) /\ Lives(i) /\ Stands(i)
  BY <1>1, RestLasts, Living, Standing
<1>3. Unpins
  BY DEF Unpins
<1>4. FlightMatches'
  BY <1>0, PoolFields, <1>2, <1>3, FlightKept DEF FlightMatches, Passes
<1>5. DaemonsMatch'
  BY <1>0, <1>2, <1>3, DaemonsKept DEF Covered, Inflight, DaemonsMatch, PoolTypes, Still, Passes
<1>6. TurnsMatch'
  BY <1>0, <1>2, TurnsKept DEF Passes
<1>7. SessionsMatch'
  BY <1>3, <1>6, SessionsKept DEF PoolInv, Passes
<1>8. WorkersFresh'
  BY <1>0, <1>3, <1>6, FreshKept DEF Used, PoolInv
<1> QED
  BY <1>4, <1>5, <1>6, <1>7, <1>8 DEF PoolInv

LEMMA TakeLockKeeps == ASSUME PoolInv, NEW p \in PoolProcs, TakeLock(p) PROVE PoolInv'
<1>0. PoolTypes /\ Roles /\ LocksMatch /\ p \in Lessees /\ proc[p].pc = "lock"
  BY Cast DEF PoolInv, Roles, MayBe, TakeLock, At, Creating
<1>l. proc[p].lk \in LockIds /\ proc[p].lk = lockOf
  BY <1>0, PoolFields, Cast DEF LocksMatch
<1>1. PoolTypes'
  <2>1. locks' \in [LockIds -> [sem : BOOLEAN, refs : Nat]]
    BY <1>0, <1>l DEF PoolTypes, TakeLock
  <2>2. proc' \in [PoolProcs -> ProcRecords]
    <3>1. proc' = [proc EXCEPT ![p].pc = "record"] /\ proc \in [PoolProcs -> ProcRecords]
      BY <1>0 DEF PoolTypes, TakeLock, Goto
    <3> QED
      BY <3>1 DEF ProcRecords, Pcs
  <2> QED
    BY <1>0, <2>1, <2>2 DEF PoolTypes, TakeLock
<1>2. /\ proc'[p].pc = "record" /\ proc'[p].next = proc[p].next /\ proc'[p].sess = proc[p].sess
      /\ proc'[p].want = proc[p].want /\ proc'[p].lk = proc[p].lk /\ proc'[p].d = proc[p].d
      /\ proc'[p].turns = proc[p].turns
      /\ \A q \in PoolProcs : q # p => proc'[q] = proc[q] /\ Still(q)
  BY <1>0 DEF TakeLock, Goto, PoolTypes, ProcRecords, Still
<1>3. Roles'
  BY <1>0, <1>2, Cast, RolesKept DEF MayBe, Creating, TakeLock
<1>4. LocksMatch'
  <2>1. locks'[lockOf].sem = TRUE /\ \A l \in LockIds : locks'[l].refs = locks[l].refs /\ (l # lockOf => locks'[l].sem = locks[l].sem)
    BY <1>0, <1>l DEF PoolTypes, TakeLock
  <2>2. \A q \in PoolProcs : ~HoldsTarget(q)
    BY <1>0, <1>l DEF HoldsTarget, LocksMatch, TakeLock
  <2>3. \A q \in PoolProcs : HoldsTarget(q)' <=> q = p
    BY <1>0, <1>2, <2>2, Cast DEF HoldsTarget
  <2>4. \A q \in PoolProcs : proc'[q].lk = proc[q].lk /\ (proc'[q].pc \in {"idle", "warm"} <=> proc[q].pc \in {"idle", "warm"})
    BY <1>0, <1>2
  <2>5. \A l \in LockIds : Users(l)' = Users(l)
    BY <2>4 DEF Users
  <2>6. \A l \in LockIds : locks'[l].sem <=> \E q \in PoolProcs : HoldsTarget(q)' /\ proc'[q].lk = l
    BY <2>3, <1>2, <1>l, <2>1, <1>0, <2>2 DEF LocksMatch
  <2>7. LeaseIsExclusive'
    BY <2>3 DEF LeaseIsExclusive
  <2>8. lockOf' = lockOf
    BY DEF TakeLock
  <2> HIDE DEF HoldsTarget
  <2> QED
    BY <1>0, <2>1, <2>4, <2>5, <2>6, <2>7, <2>8 DEF LocksMatch
<1>5. Passes(p)
  BY <1>0, <1>2, Cast DEF Turned, Ahead, InTurn, Creating, Knows, PoolInv, SessionsMatch, Passes
<1>6. mode = "worker" => Renews(p)
  BY <1>0, <1>2, Cast DEF Renews, PoolInv, WorkersFresh, Spent, Over, Creating
<1> QED
  BY <1>1, <1>2, <1>3, <1>4, <1>5, <1>6, LockStepKeeps DEF TakeLock

LEMMA UnlockKeeps == ASSUME PoolInv, NEW p \in PoolProcs, Unlock(p) PROVE PoolInv'
<1>0. PoolTypes /\ Roles /\ LocksMatch /\ p # Rotator /\ proc[p].pc = "unlock"
  BY Cast DEF PoolInv, Roles, MayBe, Unlock, At, Creating
<1>l. proc[p].lk \in LockIds /\ proc[p].lk = lockOf
  BY <1>0, PoolFields, Cast DEF LocksMatch
<1>1. PoolTypes'
  <2>1. locks' \in [LockIds -> [sem : BOOLEAN, refs : Nat]]
    BY <1>0, <1>l DEF PoolTypes, Unlock
  <2>2. proc' \in [PoolProcs -> ProcRecords]
    BY <1>0, SMTT(40) DEF PoolTypes, ProcRecords, Unlock, Goto, Pcs
  <2> QED
    BY <1>0, <2>1, <2>2 DEF PoolTypes, Unlock
<1>2. /\ proc'[p].pc = "unref" /\ proc'[p].next = proc[p].next /\ proc'[p].lk = proc[p].lk
      /\ proc'[p].d = proc[p].d /\ proc'[p].turns = proc[p].turns
      /\ \A q \in PoolProcs : q # p => proc'[q] = proc[q] /\ Still(q)
  BY <1>0 DEF Unlock, Goto, PoolTypes, ProcRecords, Still
<1>3. Roles'
  BY <1>0, <1>2, Cast, RolesKept DEF MayBe, Creating, Unlock
<1>4. LocksMatch'
  <2>1. locks'[lockOf].sem = FALSE /\ \A l \in LockIds : locks'[l].refs = locks[l].refs /\ (l # lockOf => locks'[l].sem = locks[l].sem)
    BY <1>0, <1>l DEF PoolTypes, Unlock
  <2>2. \A q \in PoolProcs : HoldsTarget(q) <=> q = p
    BY <1>0 DEF HoldsTarget, LocksMatch, LeaseIsExclusive
  <2>3. \A q \in PoolProcs : ~HoldsTarget(q)'
    BY <1>2, <2>2 DEF HoldsTarget
  <2>4. \A q \in PoolProcs : proc'[q].lk = proc[q].lk /\ (proc'[q].pc \in {"idle", "warm"} <=> proc[q].pc \in {"idle", "warm"})
    BY <1>0, <1>2
  <2>5. \A l \in LockIds : Users(l)' = Users(l)
    BY <2>4 DEF Users
  <2>6. \A l \in LockIds : ~locks'[l].sem
    BY <2>1, <1>0, <1>l, <2>2 DEF LocksMatch
  <2>7. LeaseIsExclusive'
    BY <2>3 DEF LeaseIsExclusive
  <2>8. lockOf' = lockOf
    BY DEF Unlock
  <2> HIDE DEF HoldsTarget
  <2> QED
    BY <1>0, <2>1, <2>3, <2>4, <2>5, <2>6, <2>7, <2>8 DEF LocksMatch
<1>5. Passes(p)
  BY <1>0, <1>2, Cast DEF Turned, Ahead, InTurn, Creating, Knows, Passes
<1>6. mode = "worker" => Renews(p)
  BY <1>0, <1>2, Cast DEF Renews, PoolInv, WorkersFresh, Spent, Over, Creating
<1> QED
  BY <1>1, <1>2, <1>3, <1>4, <1>5, <1>6, LockStepKeeps DEF Unlock

\* Nobody has the lock of a target that has none.
LEMMA NoLockNoUsers ==
    ASSUME PoolInv, lockOf = NoLock
    PROVE  /\ \A q \in PoolProcs : proc[q].lk = NoLock
           /\ \A l \in LockIds : Users(l) = {} /\ locks[l].refs = 0 /\ ~locks[l].sem
BY Cast, FS_EmptySet DEF PoolInv, LocksMatch, Users

LEMMA TheLockIs ==
    ASSUME PoolInv
    PROVE  /\ TheLock \in LockIds /\ \A q \in PoolProcs : proc[q].lk \in {NoLock, TheLock}
           /\ lockOf # NoLock => TheLock = lockOf
BY Cast, Cast2, NoLockNoUsers DEF TheLock, PoolInv, PoolTypes, LocksMatch, FreeLocks

\* A goroutine joins the users of the lock.
LEMMA Joins ==
    ASSUME PoolInv, NEW p \in PoolProcs, p # Rotator, proc[p].lk = NoLock, NEW l \in LockIds, l = TheLock,
           lockOf' = l, proc'[p].lk = l, proc'[p].pc \notin {"idle", "warm"},
           \A q \in PoolProcs : q # p => proc'[q] = proc[q],
           \A k \in LockIds : locks'[k].refs = IF k = l THEN locks[k].refs + 1 ELSE locks[k].refs,
           \A k \in LockIds : locks'[k].sem <=> \E q \in PoolProcs : HoldsTarget(q)' /\ proc'[q].lk = k,
           LeaseIsExclusive'
    PROVE  LocksMatch'
<1>0. LocksMatch /\ l # NoLock
  BY Cast DEF PoolInv
<1>1. \A q \in PoolProcs : proc[q].lk \in {NoLock, l}
  BY TheLockIs
<1>2. \A q \in PoolProcs : proc'[q].lk # NoLock => proc'[q].lk = lockOf'
  BY <1>1
<1>3. \A q \in PoolProcs : proc'[q].lk # NoLock <=> (q # Rotator /\ proc'[q].pc \notin {"idle", "warm"})
  BY <1>0 DEF LocksMatch
<1>4. \A k \in LockIds : locks'[k].refs = Cardinality(Users(k)')
  <2> SUFFICES ASSUME NEW k \in LockIds PROVE locks'[k].refs = Cardinality(Users(k)')
    OBVIOUS
  <2>1. locks[k].refs = Cardinality(Users(k))
    BY <1>0 DEF LocksMatch
  <2>2. CASE k = l
    <3>1. Users(k)' = Users(k) \cup {p} /\ p \notin Users(k)
      BY <1>0, <2>2 DEF Users
    <3>2. IsFiniteSet(Users(k))
      BY Cast2 DEF Users
    <3>3. Cardinality(Users(k) \cup {p}) = Cardinality(Users(k)) + 1
      BY <3>1, <3>2, FS_AddElement
    <3> QED
      BY <2>1, <2>2, <3>1, <3>3
  <2>3. CASE k # l
    <3>1. Users(k)' = Users(k)
      BY <1>0, <2>3, Cast DEF Users
    <3> QED
      BY <2>1, <2>3, <3>1
  <2> QED
    BY <2>2, <2>3
<1> HIDE DEF HoldsTarget
<1> QED
  BY <1>2, <1>3, <1>4 DEF LocksMatch

LEMMA AskForLockKeeps == ASSUME PoolInv, NEW p \in PoolProcs, AskForLock(p) PROVE PoolInv'
<1>0. PoolTypes /\ Roles /\ LocksMatch /\ p \in Lessees /\ p # Rotator /\ proc[p].pc = "idle" /\ proc[p].lk = NoLock
      /\ proc[p].next # "done"
  BY Cast DEF PoolInv, AskForLock, At, LocksMatch
<1> DEFINE l == TheLock
           r == [RestingProc EXCEPT !.pc = "lock", !.lk = l]
<1>l. l \in LockIds
  BY TheLockIs
<1>r. proc' = [proc EXCEPT ![p] = r] /\ lockOf' = l /\ locks' = [locks EXCEPT ![l].refs = @ + 1]
  BY DEF AskForLock
<1> HIDE DEF l
<1>s. /\ r \in ProcRecords /\ r.pc = "lock" /\ r.lk = l /\ r.d = NoDaemon /\ r.turns = 0 /\ r.sess = r.want
      /\ r.next = "none"
  BY <1>l, RestingFacts DEF ProcRecords, Pcs
<1> HIDE DEF r
<1>t. /\ proc' \in [PoolProcs -> ProcRecords] /\ proc'[p] = r
      /\ \A q \in PoolProcs : q # p => proc'[q] = proc[q]
  BY <1>0, <1>r, <1>s, ProcStep
<1>u. /\ locks' \in [LockIds -> [sem : BOOLEAN, refs : Nat]]
      /\ \A k \in LockIds : /\ locks'[k].refs = IF k = l THEN locks[k].refs + 1 ELSE locks[k].refs
                            /\ locks'[k].sem = locks[k].sem
  BY <1>0, <1>l, <1>r DEF PoolTypes
<1>1. PoolTypes'
  BY <1>0, <1>l, <1>r, <1>t, <1>u DEF PoolTypes, AskForLock
<1>2. \A q \in PoolProcs : q # p => Still(q) /\ proc'[q] = proc[q]
  BY <1>t DEF Still
<1>3. Roles'
  BY <1>0, <1>s, <1>t, Cast, <1>2 DEF MayBe, Creating, Roles, AskForLock
<1>4. LocksMatch'
  BY <1>0, <1>2, <1>s, <1>t, <1>u, <1>l, <1>r, Joins DEF HoldsTarget, LocksMatch,
     LeaseIsExclusive, l
<1>5. Passes(p)
  BY <1>0, <1>s, <1>t, Cast DEF Turned, Ahead, InTurn, Creating, Knows, Passes
<1>6. mode = "worker" => Renews(p)
  BY <1>0, <1>s, <1>t, Cast DEF Renews, Spent, Over, Creating
<1> QED
  BY <1>1, <1>2, <1>3, <1>4, <1>5, <1>6, LockStepKeeps DEF AskForLock

LEMMA PrewarmTargetKeeps == ASSUME PoolInv, NEW p \in PoolProcs, PrewarmTarget(p) PROVE PoolInv'
<1>0. /\ PoolTypes /\ Roles /\ LocksMatch /\ p = Warmer /\ p # Rotator /\ p \notin Lessees /\ proc[p].pc = "warm"
      /\ proc[p].lk = NoLock /\ proc[p] \in ProcRecords
  BY Cast DEF PoolInv, PrewarmTarget, At, LocksMatch, PoolTypes
<1>v. UNCHANGED <<mode, available, daemons, pinned, flight, closers, record, poolClosed, reloads, poolFaults>>
  BY DEF PrewarmTarget
<1>1. CASE /\ proc' = [proc EXCEPT ![p] = [RestingProc EXCEPT !.next = "done"]]
           /\ prewarming' = FALSE /\ UNCHANGED <<locks, lockOf>>
  <2> DEFINE r == [RestingProc EXCEPT !.next = "done"]
  <2>s. r \in ProcRecords /\ r.pc = "idle" /\ r.lk = NoLock /\ r.d = NoDaemon /\ r.turns = 0
    BY RestingFacts DEF ProcRecords
  <2>r. proc' = [proc EXCEPT ![p] = r]
    BY <1>1
  <2> HIDE DEF r
  <2>t. /\ proc' \in [PoolProcs -> ProcRecords] /\ proc'[p] = r
        /\ \A q \in PoolProcs : q # p => proc'[q] = proc[q]
    BY <1>0, <2>r, <2>s, ProcStep
  <2>1. PoolTypes'
    BY <1>0, <1>1, <1>v, <2>t DEF PoolTypes
  <2>2. \A q \in PoolProcs : q # p => Still(q) /\ proc'[q] = proc[q]
    BY <2>t DEF Still
  <2>3. Roles'
    BY <1>0, <2>s, <2>t, Cast, <2>2, <1>v DEF MayBe, Creating, Roles
  <2>4. LocksMatch'
    BY <1>0, <1>1, <2>2, <2>s, <2>t, LocksKept
  <2>5. Passes(p)
    BY <1>0, <2>s, <2>t, Cast DEF Turned, Ahead, InTurn, Creating, Knows, Passes
  <2>6. Renews(p)
    BY <1>0, <2>s, <2>t, Cast DEF Renews
  <2> QED
    BY <1>v, <2>1, <2>2, <2>3, <2>4, <2>5, <2>6, LockStepKeeps
<1>2. CASE /\ ~IsTargetLocked
           /\ lockOf' = TheLock
           /\ locks' = [locks EXCEPT ![TheLock] = [sem |-> TRUE, refs |-> @.refs + 1]]
           /\ proc' = [proc EXCEPT ![p] = [@ EXCEPT !.pc = "create", !.lk = TheLock, !.next = "warm"]]
           /\ UNCHANGED prewarming
  <2> DEFINE l == TheLock
             r == [proc[p] EXCEPT !.pc = "create", !.lk = l, !.next = "warm"]
  <2>l. l \in LockIds /\ \A q \in PoolProcs : proc[q].lk \in {NoLock, l}
    BY TheLockIs
  <2>o. lockOf # NoLock => l = lockOf
    BY TheLockIs
  <2>r. proc' = [proc EXCEPT ![p] = r] /\ lockOf' = l /\ locks' = [locks EXCEPT ![l] = [sem |-> TRUE, refs |-> @.refs + 1]]
    BY <1>2
  <2> HIDE DEF l
  <2>s. /\ r \in ProcRecords /\ r.pc = "create" /\ r.lk = l /\ r.d = proc[p].d /\ r.turns = proc[p].turns
        /\ r.next = "warm"
    BY <1>0, <2>l, ZenonT(40) DEF ProcRecords, Pcs
  <2> HIDE DEF r
  <2>t. /\ proc' \in [PoolProcs -> ProcRecords] /\ proc'[p] = r
        /\ \A q \in PoolProcs : q # p => proc'[q] = proc[q]
    BY <1>0, <2>r, <2>s, ProcStep
  <2>u. /\ locks' \in [LockIds -> [sem : BOOLEAN, refs : Nat]]
        /\ \A k \in LockIds : /\ locks'[k].refs = IF k = l THEN locks[k].refs + 1 ELSE locks[k].refs
                              /\ locks'[k].sem = IF k = l THEN TRUE ELSE locks[k].sem
    BY <1>0, <2>l, <2>r DEF PoolTypes
  <2>1. PoolTypes'
    BY <1>0, <1>2, <1>v, <2>l, <2>r, <2>t, <2>u DEF PoolTypes
  <2>2. \A q \in PoolProcs : q # p => Still(q) /\ proc'[q] = proc[q]
    BY <2>t DEF Still
  <2>3. Roles'
    BY <1>0, <2>s, <2>t, Cast, <1>2, <1>v, <2>2, RolesKept DEF MayBe, Creating
  <2>4. LocksMatch'
    <3>1. \A q \in PoolProcs : ~HoldsTarget(q)
      BY <1>0, <2>l, <1>2 DEF HoldsTarget, LocksMatch, IsTargetLocked
    <3>2. \A q \in PoolProcs : HoldsTarget(q)' <=> q = p
      BY <1>0, <2>2, <2>s, <2>t, <3>1 DEF HoldsTarget
    <3>3. \A k \in LockIds : locks'[k].sem <=> \E q \in PoolProcs : HoldsTarget(q)' /\ proc'[q].lk = k
      <4>1. \A k \in LockIds : ~locks[k].sem
        BY <1>0, <3>1 DEF LocksMatch
      <4> HIDE DEF HoldsTarget
      <4> QED
        BY <2>s, <2>t, <2>u, <3>2, <4>1
    <3>4. LeaseIsExclusive'
      BY <3>2 DEF LeaseIsExclusive
    <3> QED
      BY <1>0, <2>l, <2>r, <2>s, <2>t, <2>u, <3>3, <3>4, Joins DEF l
  <2>5. Passes(p)
    BY <1>0, <2>s, <2>t, Cast DEF Turned, Ahead, InTurn, Creating, Knows, Passes
  <2>6. mode = "worker" => Renews(p)
    BY <1>0, <2>s, <2>t, Cast DEF Renews, PoolInv, WorkersFresh, Over
  <2> QED
    BY <1>v, <2>1, <2>2, <2>3, <2>4, <2>5, <2>6, LockStepKeeps
<1> QED
  BY <1>1, <1>2 DEF PrewarmTarget

\* The last user of a lock is alone with it.
LEMMA Leaves ==
    ASSUME PoolInv, NEW p \in PoolProcs, proc[p].pc = "unref"
    PROVE  /\ p # Rotator /\ proc[p].lk \in LockIds /\ proc[p].lk = lockOf
           /\ Cardinality(Users(lockOf) \ {p}) = locks[lockOf].refs - 1
           /\ Cardinality(Users(lockOf) \ {p}) \in Nat
           /\ locks[lockOf].refs <= 1 => \A q \in PoolProcs : q # p => proc[q].lk = NoLock
<1>0. LocksMatch /\ PoolTypes
  BY DEF PoolInv
<1>1. p # Rotator
  BY Cast DEF PoolInv, Roles, MayBe, Creating
<1>2. proc[p].lk \in LockIds /\ proc[p].lk = lockOf
  BY <1>0, <1>1, PoolFields DEF LocksMatch
<1>3. /\ locks[lockOf].refs = Cardinality(Users(lockOf)) /\ p \in Users(lockOf)
      /\ Users(lockOf) \in SUBSET PoolProcs
  BY <1>0, <1>2 DEF LocksMatch, Users
<1>4. /\ IsFiniteSet(Users(lockOf)) /\ IsFiniteSet(Users(lockOf) \ {p})
      /\ Cardinality(Users(lockOf)) \in Nat /\ Cardinality(Users(lockOf) \ {p}) \in Nat
  BY <1>3, Cast2
<1>5. Cardinality(Users(lockOf) \ {p}) = Cardinality(Users(lockOf)) - 1
  BY <1>3, <1>4, FS_RemoveElement
<1>6. ASSUME locks[lockOf].refs <= 1, NEW q \in PoolProcs, q # p PROVE proc[q].lk = NoLock
  BY <1>3, <1>4, <1>5, <1>6, FS_EmptySet, <1>0 DEF Users, LocksMatch
<1> QED
  BY <1>1, <1>2, <1>3, <1>4, <1>5, <1>6

LEMMA UnrefKeeps == ASSUME PoolInv, NEW p \in PoolProcs, Unref(p) PROVE PoolInv'
<1>0. PoolTypes /\ Roles /\ LocksMatch /\ DaemonsMatch /\ proc[p].pc = "unref"
  BY DEF PoolInv, Unref, At
<1> DEFINE l == lockOf
           r == [RestingProc EXCEPT !.next = "done"]
           o == IF Recycles(p) THEN [RestingProc EXCEPT !.pc = "rotate", !.next = "recycle"] ELSE proc[Rotator]
<1>l. /\ p # Rotator /\ proc[p].lk = l /\ l \in LockIds
      /\ Cardinality(Users(l) \ {p}) = locks[l].refs - 1 /\ Cardinality(Users(l) \ {p}) \in Nat
      /\ locks[l].refs <= 1 => \A q \in PoolProcs : q # p => proc[q].lk = NoLock
  BY <1>0, Leaves
<1>v. /\ UNCHANGED <<mode, daemons, pinned, flight, closers, record, poolClosed, reloads, poolFaults>>
      /\ lockOf' = IF locks[l].refs <= 1 THEN NoLock ELSE lockOf
      /\ locks' = [locks EXCEPT ![l].refs = @ - 1]
      /\ available' = (available \/ (mode = "worker" /\ p \in Lessees /\ proc[p].d = NoDaemon))
      /\ prewarming' = (prewarming /\ p # Warmer)
  BY <1>l DEF Unref, AfterRelease
<1>r. proc' = [proc EXCEPT ![p] = r, ![Rotator] = o]
  BY <1>0, <1>l, Cast DEF PoolTypes, Unref, AfterRelease
<1>s. r \in ProcRecords /\ r.pc = "idle" /\ r.lk = NoLock /\ r.d = NoDaemon /\ r.turns = 0 /\ r.next = "done"
  BY RestingFacts DEF ProcRecords
<1>o. /\ o \in ProcRecords /\ o.lk = NoLock
      /\ Recycles(p) => o.pc = "rotate" /\ o.next = "recycle" /\ o.turns = 0 /\ o.d = NoDaemon
      /\ ~Recycles(p) => o = proc[Rotator]
  BY <1>0, Cast, RestingFacts DEF PoolTypes, LocksMatch, ProcRecords, Pcs
<1> HIDE DEF r, o
<1>t. /\ proc' \in [PoolProcs -> ProcRecords] /\ proc'[p] = r /\ proc'[Rotator] = o
      /\ \A q \in PoolProcs : q # p /\ q # Rotator => proc'[q] = proc[q]
  BY <1>0, <1>l, <1>o, <1>r, <1>s, Cast DEF PoolTypes
<1>u. /\ locks' \in [LockIds -> [sem : BOOLEAN, refs : Nat]]
      /\ \A k \in LockIds : /\ locks'[k].refs = IF k = l THEN locks[k].refs - 1 ELSE locks[k].refs
                            /\ locks'[k].sem = locks[k].sem
  BY <1>0, <1>l, <1>v DEF PoolTypes
<1>1. PoolTypes'
  BY <1>l, <1>v, <1>0, <1>t, <1>u DEF PoolTypes
<1>c. Recycles(p) => mode = "worker" /\ p \in Lessees /\ proc[p].d # NoDaemon /\ ~poolClosed
  BY DEF Recycles
<1>d. mode = "worker" /\ p \in Lessees =>
        \A q \in Lessees \cup {Rotator} : q # p => proc[q].pc = "idle"
  BY <1>0 DEF Roles
<1>2. \A q \in PoolProcs : q # p /\ q # Rotator => Still(q) /\ proc'[q] = proc[q]
  BY <1>t DEF Still
<1>3. ~Recycles(p) => proc'[Rotator] = proc[Rotator] /\ Still(Rotator)
  BY <1>o, <1>t DEF Still
<1>4. Roles'
  <2>1. MayBe(p, proc'[p]) /\ MayBe(Rotator, proc'[Rotator])
    BY <1>0, <1>l, <1>o, <1>s, <1>t, Cast DEF MayBe, Creating, Roles
  <2>2. \A q \in PoolProcs : MayBe(q, proc'[q])
    BY <1>0, <1>2, <2>1 DEF Roles
  <2>3. proc'[Warmer].pc # "idle" => prewarming' /\ mode' = "worker"
    BY <1>0, <1>2, <1>s, <1>t, <1>v, Cast DEF Roles
  <2>4. proc'[Rotator].pc # "idle" => mode' = "worker"
    BY <1>0, <1>c, <1>o, <1>t, <1>v DEF Roles
  <2>5. mode = "worker" => \A q \in Lessees : proc'[q].pc # "idle" => q # p /\ proc[q].pc # "idle"
    BY <1>2, <1>s, <1>t, Cast
  <2>6. mode = "worker" /\ p \in Lessees => \A q \in Lessees : proc'[q].pc = "idle"
    BY <1>d, <2>5, Cast
  <2>7. ASSUME mode = "worker", available'
        PROVE  \A q \in Lessees \cup {Rotator} : proc'[q].pc = "idle"
    BY <1>0, <2>7, <1>c, <1>v, <1>3, <1>d, <2>6, Cast, <2>5 DEF Roles
  <2>8. ASSUME mode = "worker", NEW q \in Lessees \cup {Rotator}, NEW k \in Lessees \cup {Rotator},
               proc'[q].pc # "idle", proc'[k].pc # "idle"
        PROVE  q = k
    BY <2>6, <2>8, <1>c, <1>3, <2>5, <1>0 DEF Roles
  <2>9. mode = "pinned" => ~available'
    BY <1>0, <1>v DEF Roles
  <2> QED
    BY <1>v, <2>2, <2>3, <2>4, <2>7, <2>8, <2>9 DEF Roles
<1>5. LocksMatch'
  <2>1. \A q \in PoolProcs : proc'[q].lk = IF q = p THEN NoLock ELSE proc[q].lk
    BY <1>0, <1>o, <1>s, <1>t, Cast DEF LocksMatch
  <2>2. \A q \in PoolProcs : proc'[q].lk # NoLock => proc'[q].lk = lockOf'
    BY <1>0, <1>l, <1>v, <2>1 DEF LocksMatch
  <2>3. \A q \in PoolProcs : proc'[q].lk # NoLock <=> (q # Rotator /\ proc'[q].pc \notin {"idle", "warm"})
    BY <1>0, <1>s, <1>t, <2>1, Cast DEF LocksMatch
  <2>4. \A k \in LockIds : locks'[k].refs = Cardinality(Users(k)')
    <3> SUFFICES ASSUME NEW k \in LockIds PROVE locks'[k].refs = Cardinality(Users(k)')
      OBVIOUS
    <3>1. Users(k)' = IF k = l THEN Users(k) \ {p} ELSE Users(k)
      BY <1>l, <2>1, Cast DEF Users
    <3>2. locks[k].refs = Cardinality(Users(k))
      BY <1>0 DEF LocksMatch
    <3>3. CASE k = l
      BY <1>u, <3>1, <3>3, <1>l
    <3>4. CASE k # l
      BY <1>u, <3>1, <3>2, <3>4
    <3> QED
      BY <3>3, <3>4
  <2>5. \A q \in PoolProcs : HoldsTarget(q)' <=> HoldsTarget(q)
    BY <1>0, <1>2, <1>s, <1>t DEF HoldsTarget
  <2>6. ~HoldsTarget(p)
    BY <1>0 DEF HoldsTarget
  <2> HIDE DEF HoldsTarget
  <2>7. \A k \in LockIds : locks'[k].sem <=> \E q \in PoolProcs : HoldsTarget(q)' /\ proc'[q].lk = k
    BY <1>0, <1>u, <2>1, <2>5, <2>6 DEF LocksMatch
  <2>8. LeaseIsExclusive'
    BY <1>0, <2>5 DEF LocksMatch, LeaseIsExclusive
  <2> QED
    BY <2>2, <2>3, <2>4, <2>7, <2>8 DEF LocksMatch
<1>6. Passes(p)
  BY <1>0, <1>s, <1>t, Cast DEF Turned, Ahead, InTurn, Creating, Knows, Passes
<1>7. Recycles(p) => Passes(Rotator)
  BY <1>c, <1>d, <1>l, <1>o, <1>t, Cast DEF Turned, Ahead, InTurn, Creating, Knows, Passes
<1>8. WorkersFresh'
  <2> SUFFICES ASSUME mode = "worker" PROVE WorkersFresh'
    BY <1>v DEF WorkersFresh
  <2>1. \A q \in PoolProcs : proc'[q].turns # 0 => q \in Lessees /\ proc'[q].pc \in Over
    BY <1>2, <1>3, <1>o, <1>s, <1>t, Cast DEF PoolInv, WorkersFresh
  <2>2. EphemeralTurnIsFresh'
    BY <1>2, <1>s, <1>t, <1>v, Cast DEF PoolInv, WorkersFresh, EphemeralTurnIsFresh, Inflight
  <2>3. ASSUME pinned # NoDaemon, Used(pinned)
        PROVE  proc'[Rotator].pc = "rotate" \/ \E q \in Lessees : Spent(proc'[q])
    <3>1. proc[Rotator].pc = "rotate" \/ \E q \in Lessees : Spent(proc[q])
      BY <2>3 DEF PoolInv, WorkersFresh
    <3>2. ~poolClosed
      BY <1>0, <2>3 DEF DaemonsMatch
    <3>3. CASE p \in Lessees
      BY <1>d, <1>l, <3>3, <3>1, <3>2, <1>o, <1>t DEF Spent, Creating, Recycles
    <3>4. CASE p \notin Lessees
      BY <1>2, <3>4, Cast, <1>c, <1>3, <3>1
    <3> QED
      BY <3>3, <3>4
  <2>4. record.active = 0 /\ record.turns = 0
    BY DEF PoolInv, WorkersFresh
  <2>5. pinned' # NoDaemon /\ Used(pinned)' => proc'[Rotator].pc = "rotate" \/ \E q \in Lessees : Spent(proc'[q])
    BY <1>v, <2>3 DEF Used
  <2> QED
    BY <1>v, <2>1, <2>2, <2>4, <2>5 DEF WorkersFresh
<1> QED
  BY <1>1, <1>2, <1>3, <1>4, <1>5, <1>6, <1>7, <1>8, <1>v, LockStepKeeps

LEMMA ReturnWorkerKeeps == ASSUME PoolInv, NEW p \in PoolProcs, ReturnWorker(p) PROVE PoolInv'
<1>0. PoolTypes /\ Roles /\ p = Rotator /\ p \notin Lessees /\ p # Warmer /\ proc[p].pc = "return" /\ mode = "worker"
  BY Cast DEF PoolInv, ReturnWorker, At, Roles, MayBe, Creating
<1>r. proc' = [proc EXCEPT ![p] = RestingProc]
  BY DEF ReturnWorker
<1>t. /\ proc' \in [PoolProcs -> ProcRecords] /\ proc'[p] = RestingProc
      /\ \A q \in PoolProcs : q # p => proc'[q] = proc[q]
  BY <1>0, <1>r, RestingFacts, ProcStep
<1>1. PoolTypes'
  BY <1>0, <1>t DEF PoolTypes, ReturnWorker
<1>2. \A q \in PoolProcs : q # p => Still(q) /\ proc'[q] = proc[q]
  BY <1>t DEF Still
<1>3. Roles'
  BY <1>0, <1>t, RestingFacts, Cast, <1>2 DEF MayBe, Creating, Roles, ReturnWorker
<1>4. LocksMatch'
  BY <1>0, <1>t, RestingFacts, <1>2, LocksKept DEF PoolInv, LocksMatch, ReturnWorker
<1>5. Passes(p)
  BY <1>0, <1>t, RestingFacts DEF Turned, InTurn, Creating, Knows, Passes
<1>6. Renews(p)
  BY <1>0, <1>t, RestingFacts DEF Renews
<1> QED
  BY <1>1, <1>2, <1>3, <1>4, <1>5, <1>6, LockStepKeeps DEF ReturnWorker

LEMMA PoolStays == ASSUME PoolInv, UNCHANGED poolVars PROVE PoolInv'
BY LocksKept, LockStepKeeps DEF poolVars, PoolInv, PoolTypes, Still, Roles

\* The inductive step, one lemma per action.
LEMMA PoolKept == PoolInv /\ [PoolNext]_poolVars => PoolInv'
<1> SUFFICES ASSUME PoolInv, [PoolNext]_poolVars PROVE PoolInv'
  OBVIOUS
<1>1. ASSUME NEW p \in PoolProcs, PoolTurn(p) PROVE PoolInv'
  BY <1>1, AskForLockKeeps, TakeLockKeeps, UnlockKeeps, UnrefKeeps, ReadRecordKeeps, GetOrCreateFastKeeps,
     CheckExistingKeeps, ArmDrainKeeps, RecheckDrainKeeps, JoinFlightKeeps, SpawnKeeps, RegisterSpawnedKeeps,
     EnsureActiveKeeps, SendCheckKeeps, SendAppendKeeps, SendWriteKeeps, TakeAnswerKeeps, ReleaseKeeps,
     RotateDaemonKeeps, PersistKeeps, EvictSessionKeeps, PrewarmTargetKeeps, ReturnWorkerKeeps DEF PoolTurn
<1>2. ASSUME NEW i \in DaemonIds, PoolReader(i) PROVE PoolInv'
  BY <1>2, ReadResultKeeps, ReadFinishKeeps, ReadEOFKeeps, RunCloserKeeps DEF PoolReader
<1>3. CASE PoolMishap
  BY <1>3, LockTimeoutKeeps, AbandonTurnKeeps, ProcessDiesKeeps DEF PoolMishap
<1>4. CASE MarkDirty
  BY <1>4, MarkDirtyKeeps
<1>5. CASE PoolClose
  BY <1>5, PoolCloseKeeps
<1>6. CASE UNCHANGED poolVars
  BY <1>6, PoolStays
<1> QED
  BY <1>1, <1>2, <1>3, <1>4, <1>5, <1>6 DEF PoolNext

\* The pool of runners (processManager.getOrCreate, the lock of a session, retire and recycle)
\* for every number of goroutines: a daemon answers each turn written to it once and in order,
\* and is never taken by a turn that does not hold its lock.
THEOREM PoolIsSafe == PoolSpec => []PoolIsSound
<1>1. PoolSpec => []PoolInv
  BY PoolStarts, PoolKept, PTL DEF PoolSpec
<1>2. []PoolInv => []PoolIsSound
  BY PoolEnough, PTL
<1> QED
  BY <1>1, <1>2, PTL

====================
