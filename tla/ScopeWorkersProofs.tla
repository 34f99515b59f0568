----------- MODULE ScopeWorkersProofs -----------
(* Proofs about ScopeWorkers for every set of items and scopes, every *)
(* capacity and burst size and every value of the bounds. *)
(*  *)
(* That a scope has one worker and that no channel is orphaned are not *)
(* inductive by themselves.  What makes them so is the accounting of p.mu: *)
(* activeEnqueuers is the number of callers blocked on a state (Senders), *)
(* a worker that runs is the one in the map, and what a channel holds is *)
(* in a channel of the map (Registry); an interrupt works on states of the *)
(* map, which cannot change while it holds p.mu (Drainer). *)
EXTENDS ScopeWorkers, SequenceTheorems, FiniteSetTheorems, TLAPS

Wks == [pc : {"none", "spawn", "wait", "prune", "popped", "drain",
              "turn", "run", "ended", "trail", "await", "settle", "exited"},
        burst : Seq(Msgs) \cup Seq(Disps), held : Seq(Disps), back : Seq(Msgs)]

Drs == [pc : {"idle", "latch", "pick", "recv", "send", "parked"}, todo : SUBSET States,
        on : States \cup {NoState}, back : Seq(Disps)]

\* A burst is either messages or a single dispatch, and only what has been popped or
\* handed back is looked into.
WellFormed ==
    {w \in Wks :
        /\ w.pc = "popped" => w.burst # <<>>
        /\ w.pc = "drain" => w.burst \in Seq(Msgs)
        /\ w.burst \in Seq(Msgs) \/ Len(w.burst) = 1
        /\ Len(w.held) <= 1
        /\ w.pc = "await" => w.back # <<>>}

\* The callers that are blocked on a state, between the two sections under p.mu.
Blocked(st) == {g \in Callers : at[g] = st}

Types ==
    /\ reg \in [Scopes -> 0 .. MaxGens] /\ gen \in [Scopes -> 0 .. MaxGens]
    /\ ch \in [States -> Seq(Items)] /\ sendq \in [States -> Seq(Items)]
    /\ enq \in [States -> Nat]
    /\ wk \in [States -> WellFormed]
    /\ snd \in [Callers -> {"new", "full", "parked", "sent", "done"}]
    /\ at \in [Callers -> States \cup {NoState}]
    /\ dr \in Drs
    /\ pool \in {"running", "stopped", "cancelled"}
    /\ fate \in [Items -> {"open", "done", "failed", "dropped"}]
    /\ setup \in [cap : Caps, drains : Nat]

\* The map, the workers and the channels.
Registry ==
    /\ \A s \in Scopes : reg[s] \in {0, gen[s]} /\ (reg[s] = 0 => gen[s] < MaxGens)
    /\ \A st \in States : wk[st].pc = "prune" => gen[st[1]] < MaxGens
    /\ \A st \in States : Running(st) => reg[st[1]] = st[2]
    /\ pool # "cancelled" => \A s \in Scopes : reg[s] # 0 => Running(<<s, reg[s]>>)

Channels ==
    /\ \A st \in States : ch[st] # <<>> => reg[st[1]] = st[2]
    /\ \A st \in States : sendq[st] # <<>> => ~Room(st)

Senders ==
    /\ \A g \in Callers : at[g] # NoState <=> snd[g] \in {"full", "parked", "sent"}
    /\ \A g \in Callers : at[g] # NoState => reg[at[g][1]] = at[g][2]
    /\ \A st \in States : snd[st] # "done" => wk[st].pc = "await"

Counts == \A st \in States : IsFiniteSet(Blocked(st)) /\ enq[st] = Cardinality(Blocked(st))

Drainer ==
    /\ dr.pc \notin {"idle", "latch"} => \A st \in dr.todo : reg[st[1]] = st[2]
    /\ dr.pc \in {"recv", "send", "parked"} => dr.on \in States /\ reg[dr.on[1]] = dr.on[2]
    /\ dr.pc = "parked" => dr.back # <<>>

IInv == Types /\ Registry /\ Channels /\ Senders /\ Counts /\ Drainer

--------------------
LEMMA StateFacts ==
    /\ NoState \notin States
    /\ \A st \in States : st = <<st[1], st[2]>> /\ st[1] \in Scopes /\ st[2] \in 1 .. MaxGens
    /\ \A s \in Scopes, n \in 1 .. MaxGens :
         <<s, n>> \in States /\ <<s, n>>[1] = s /\ <<s, n>>[2] = n
  BY DEF States, NoState

LEMMA CallerFacts ==
    /\ Items \subseteq Callers /\ States \subseteq Callers
    /\ \A g \in Callers : g \notin Items => g \in States
    /\ \A i \in Items : i \notin States
    /\ \A i \in Items : ScopeOf[i] \in Scopes
    /\ \A i \in Items : i \in Msgs \/ i \in Disps
    /\ \A i \in Items : i \notin Disps => i \in Msgs
  BY WorkersAssumption DEF Callers, Items

LEMMA SeqFacts ==
    ASSUME NEW S, NEW q \in Seq(S)
    PROVE  /\ q # <<>> => Head(q) \in S /\ Tail(q) \in Seq(S) /\ Len(q) > 0
                          /\ Len(Tail(q)) = Len(q) - 1 /\ q[1] \in S
           /\ \A x \in S : /\ Append(q, x) \in Seq(S) /\ Append(q, x) # <<>>
                           /\ Len(Append(q, x)) = Len(q) + 1
           /\ q = <<>> <=> Len(q) = 0
           /\ Len(q) \in Nat
  OBVIOUS

\* What a caller offers is an item.
LEMMA OffersType ==
    ASSUME Types, Senders, NEW g \in Callers, snd[g] # "done"
    PROVE  Offers(g) \in Items /\ ScopeOf[Offers(g)] \in Scopes
BY CallerFacts, SeqFacts DEF Offers, Types, Senders, WellFormed, Wks, Items

LEMMA IInvType == IInv => TypeOK
  BY DEF IInv, Types, TypeOK, WellFormed, Wks, Drs

LEMMA InitIInv == Init => IInv
<1> SUFFICES ASSUME Init PROVE IInv
  OBVIOUS
<1> USE WorkersAssumption
<1>0. Off \in WellFormed
  <2>1. Off \in Wks
    BY DEF Off, Wks
  <2>2. Len(<<>>) <= 1 /\ <<>> \in Seq(Msgs)
    OBVIOUS
  <2>3. /\ Off.pc = "none" /\ Off.burst = <<>> /\ Off.held = <<>> /\ Off.back = <<>>
    BY DEF Off
  <2> QED
    BY <2>1, <2>2, <2>3 DEF WellFormed
<1>1. Types
  BY <1>0 DEF NoDrain, Drs, Init, Types
<1>2. Registry
  BY StateFacts DEF Init, Registry, Running, Off
<1>3. Channels
  BY DEF Init, Channels
<1>4. Senders
  BY CallerFacts, StateFacts DEF Init, Senders
<1>5. Counts
  <2>1. \A st \in States : Blocked(st) = {}
    BY StateFacts DEF Init, Blocked
  <2> QED
    BY <2>1, FS_EmptySet DEF Init, Counts
<1>6. Drainer
  BY DEF Init, Drainer, NoDrain
<1> QED
  BY <1>1, <1>2, <1>3, <1>4, <1>5, <1>6 DEF IInv

--------------------
(* Channels *)

\* A receive keeps a channel with parked senders full.
LEMMA ReceiveKeeps ==
    ASSUME Types, Channels, NEW st \in States, ch[st] # <<>>, Receive(st),
           UNCHANGED <<reg, setup>>
    PROVE  /\ ch' \in [States -> Seq(Items)] /\ sendq' \in [States -> Seq(Items)]
           /\ Head(ch[st]) \in Items
           /\ Channels'
<1>1. ch[st] \in Seq(Items) /\ sendq[st] \in Seq(Items)
  BY DEF Types
<1>2. /\ Head(ch[st]) \in Items /\ Tail(ch[st]) \in Seq(Items)
      /\ Len(Tail(ch[st])) = Len(ch[st]) - 1 /\ Len(ch[st]) \in Nat
  BY <1>1, SeqFacts, Zenon
<1>3. CASE sendq[st] = <<>>
  <2>1. ch' = [ch EXCEPT ![st] = Tail(@)] /\ sendq' = sendq
    BY <1>3 DEF Receive
  <2>2. ch' \in [States -> Seq(Items)] /\ sendq' \in [States -> Seq(Items)]
    BY <2>1, <1>2 DEF Types
  <2>3. \A x \in States : ch'[x] # <<>> => ch[x] # <<>>
    BY <2>1 DEF Types
  <2>4. \A x \in States : sendq'[x] # <<>> => x # st /\ ch'[x] = ch[x]
    BY <2>1, <1>3 DEF Types
  <2>5. \A x \in States : sendq[x] # <<>> => ~(Len(ch'[x]) < setup'.cap)
    BY <2>1, <2>4 DEF Channels, Room
  <2>6. Channels'
    BY <2>1, <2>3, <2>5 DEF Channels, Room
  <2> QED
    BY <2>2, <2>6, <1>2
<1>4. CASE sendq[st] # <<>>
  <2>1. /\ ch' = [ch EXCEPT ![st] = Append(Tail(@), Head(sendq[st]))]
        /\ sendq' = [sendq EXCEPT ![st] = Tail(@)]
    BY <1>4 DEF Receive
  <2>2. Head(sendq[st]) \in Items /\ Tail(sendq[st]) \in Seq(Items)
    BY <1>1, <1>4, SeqFacts, Zenon
  <2>3. /\ Append(Tail(ch[st]), Head(sendq[st])) \in Seq(Items)
        /\ Len(Append(Tail(ch[st]), Head(sendq[st]))) = Len(Tail(ch[st])) + 1
    BY <1>2, <2>2
  <2>4. Len(Append(Tail(ch[st]), Head(sendq[st]))) = Len(ch[st])
    BY <1>2, <2>3
  <2>5. ch' \in [States -> Seq(Items)] /\ sendq' \in [States -> Seq(Items)]
    BY <2>1, <2>2, <2>3 DEF Types
  <2>6. \A x \in States : Len(ch'[x]) = Len(ch[x])
    BY <2>1, <2>4 DEF Types
  <2>7. \A x \in States : ch'[x] # <<>> => ch[x] # <<>>
    BY <2>1 DEF Types
  <2>8. \A x \in States : sendq'[x] # <<>> => sendq[x] # <<>>
    BY <2>1, <1>4 DEF Types
  <2> QED
    BY <2>5, <2>6, <2>7, <2>8, <1>2 DEF Channels, Room
<1> QED
  BY <1>3, <1>4

\* A send with room, and a sender that parks, on a channel of the map.
LEMMA SendKeeps ==
    ASSUME Types, Channels, NEW st \in States, NEW i \in Items, Room(st),
           reg[st[1]] = st[2],
           ch' = [ch EXCEPT ![st] = Append(@, i)], UNCHANGED <<sendq, reg, setup>>
    PROVE  ch' \in [States -> Seq(Items)] /\ Channels'
BY SeqFacts DEF Types, Channels, Room

LEMMA ParkKeeps ==
    ASSUME Types, Channels, NEW st \in States, NEW i \in Items, ~Room(st),
           sendq' = [sendq EXCEPT ![st] = Append(@, i)], UNCHANGED <<ch, reg, setup>>
    PROVE  sendq' \in [States -> Seq(Items)] /\ Channels'
BY SeqFacts DEF Types, Channels, Room

--------------------
(* Steps of a worker *)

\* A worker that moves on without ending leaves the map and the senders as they are.
LEMMA WorkerMoves ==
    ASSUME IInv, NEW st \in States, Running(st), wk'[st].pc \notin {"none", "exited"},
           \A x \in States : x # st => wk'[x] = wk[x],
           wk'[st].pc = "prune" => gen[st[1]] < MaxGens,
           snd[st] # "done" => wk'[st].pc = "await",
           UNCHANGED <<reg, gen, enq, snd, at, dr, pool>>
    PROVE  Registry' /\ Senders' /\ Counts' /\ Drainer'
<1>1. \A x \in States : Running(x) <=> Running(x)'
  BY DEF Running
<1>2. Registry'
  <2>1. \A s \in Scopes : reg[s] # 0 => <<s, reg[s]>> \in States
    BY StateFacts DEF IInv, Types
  <2> QED
    BY <1>1, <2>1 DEF IInv, Registry
<1>3. Senders'
  BY DEF IInv, Senders
<1>4. Counts'
  BY DEF IInv, Counts, Blocked
<1>5. Drainer'
  BY DEF IInv, Drainer
<1> QED
  BY <1>2, <1>3, <1>4, <1>5

LEMMA WorkerFields ==
    ASSUME Types, NEW st \in States
    PROVE  /\ wk[st] \in Wks
           /\ wk[st].burst \in Seq(Msgs) \cup Seq(Disps) /\ wk[st].held \in Seq(Disps)
           /\ wk[st].back \in Seq(Msgs)
           /\ wk[st].pc = "popped" => wk[st].burst # <<>>
           /\ wk[st].pc = "drain" => wk[st].burst \in Seq(Msgs)
           /\ wk[st].burst \in Seq(Msgs) \/ Len(wk[st].burst) = 1
           /\ Len(wk[st].held) <= 1
           /\ wk[st].pc = "await" => wk[st].back # <<>>
  BY DEF Types, WellFormed, Wks

\* The states of a worker that look into nothing.
Plain == {"spawn", "wait", "prune", "turn", "run", "ended", "trail", "settle", "exited"}

LEMMA GotoType ==
    ASSUME Types, NEW st \in States, NEW pc \in Plain
    PROVE  [wk EXCEPT ![st].pc = pc] \in [States -> WellFormed]
<1>1. [wk[st] EXCEPT !.pc = pc] \in WellFormed
  BY WorkerFields DEF WellFormed, Wks, Plain
<1> QED
  BY <1>1 DEF Types

LEMMA SpawnKeeps == ASSUME IInv, NEW st \in States, Spawn(st) PROVE IInv'
<1>1. wk' = [wk EXCEPT ![st].pc = "wait"] /\ wk[st].pc = "spawn"
  BY DEF Spawn, Goto
<1>2. wk' \in [States -> WellFormed]
  BY <1>1, GotoType DEF IInv, Plain
<1>3. Types' /\ Channels'
  BY <1>2 DEF Spawn, IInv, Types, Channels, Room
<1>4. wk'[st].pc = "wait" /\ \A x \in States : x # st => wk'[x] = wk[x]
  BY <1>1 DEF IInv, Types
<1>5. snd[st] = "done" /\ Running(st)
  BY <1>1 DEF IInv, Senders, Running
<1> QED
  BY <1>3, <1>4, <1>5, WorkerMoves DEF Spawn, IInv

LEMMA PopKeeps == ASSUME IInv, NEW st \in States, Pop(st) PROVE IInv'
<1>1. /\ wk' = [wk EXCEPT ![st].pc = "popped", ![st].burst = <<Head(ch[st])>>]
      /\ wk[st].pc = "wait" /\ ch[st] # <<>> /\ Receive(st)
  BY DEF Pop
<1>2. /\ ch' \in [States -> Seq(Items)] /\ sendq' \in [States -> Seq(Items)]
      /\ Head(ch[st]) \in Items /\ Channels'
  BY <1>1, ReceiveKeeps DEF IInv, Pop
<1>3. wk' \in [States -> WellFormed]
  <2> DEFINE h == Head(ch[st])
  <2>1. h \in Msgs \/ h \in Disps
    BY <1>2 DEF Items
  <2> HIDE DEF h
  <2>2. /\ <<h>> \in Seq(Msgs) \cup Seq(Disps) /\ <<h>> # <<>> /\ Len(<<h>>) = 1
    BY <2>1
  <2>3. [wk[st] EXCEPT !.pc = "popped", !.burst = <<h>>] \in WellFormed
    BY <2>2, WorkerFields DEF WellFormed, Wks, IInv
  <2>4. wk' = [wk EXCEPT ![st] = [wk[st] EXCEPT !.pc = "popped", !.burst = <<h>>]]
    BY <1>1 DEF h, IInv, Types
  <2> QED
    BY <2>3, <2>4 DEF IInv, Types
<1>4. Types'
  BY <1>2, <1>3 DEF Pop, IInv, Types
<1>5. wk'[st].pc = "popped" /\ \A x \in States : x # st => wk'[x] = wk[x]
  BY <1>1, <1>3 DEF IInv, Types, WellFormed, Wks
<1>6. snd[st] = "done" /\ Running(st)
  BY <1>1 DEF IInv, Senders, Running
<1> QED
  BY <1>2, <1>4, <1>5, <1>6, WorkerMoves DEF Pop, IInv

LEMMA IdleTimerKeeps == ASSUME IInv, NEW st \in States, IdleTimer(st) PROVE IInv'
<1>1. /\ wk' = [wk EXCEPT ![st].pc = "prune"] /\ wk[st].pc = "wait"
      /\ gen[st[1]] < MaxGens
  BY DEF IdleTimer, Goto
<1>2. wk' \in [States -> WellFormed]
  BY <1>1, GotoType DEF IInv, Plain
<1>3. Types' /\ Channels'
  BY <1>2 DEF IdleTimer, IInv, Types, Channels, Room
<1>4. wk'[st].pc = "prune" /\ \A x \in States : x # st => wk'[x] = wk[x]
  BY <1>1 DEF IInv, Types
<1>5. snd[st] = "done" /\ Running(st)
  BY <1>1 DEF IInv, Senders, Running
<1> QED
  BY <1>1, <1>3, <1>4, <1>5, WorkerMoves DEF IdleTimer, IInv

\* Only a cancelled pool lets a worker of the map end.
LEMMA WorkerExitKeeps == ASSUME IInv, NEW st \in States, WorkerExit(st) PROVE IInv'
<1>1. wk' = [wk EXCEPT ![st].pc = "exited"] /\ wk[st].pc = "wait" /\ pool = "cancelled"
  BY DEF WorkerExit, Goto
<1>2. wk' \in [States -> WellFormed]
  BY <1>1, GotoType DEF IInv, Plain
<1>3. Types' /\ Channels'
  BY <1>2 DEF WorkerExit, IInv, Types, Channels, Room
<1>4. wk'[st].pc = "exited" /\ \A x \in States : x # st => wk'[x] = wk[x]
  BY <1>1 DEF IInv, Types
<1>5. Registry'
  BY <1>1, <1>4 DEF WorkerExit, IInv, Registry, Running
<1>6. Senders' /\ Counts' /\ Drainer'
  BY <1>1, <1>4 DEF WorkerExit, IInv, Senders, Counts, Blocked, Drainer
<1> QED
  BY <1>3, <1>5, <1>6 DEF IInv

\* A worker that prunes its state leaves nobody behind: activeEnqueuers is zero, so
\* no caller is blocked on it.
LEMMA PruneKeeps == ASSUME IInv, NEW st \in States, TryPruneIdleThread(st) PROVE IInv'
<1>1. wk[st].pc = "prune" /\ MuFree
  BY DEF TryPruneIdleThread
<1>2. Running(st) /\ snd[st] = "done" /\ reg[st[1]] = st[2] /\ gen[st[1]] < MaxGens
  BY <1>1 DEF IInv, Senders, Running, Registry
<1>3. CASE Prunable(st)
  <2>1. wk' = [wk EXCEPT ![st].pc = "exited"] /\ reg' = [reg EXCEPT ![st[1]] = 0]
    BY <1>3 DEF TryPruneIdleThread, Goto
  <2>2. wk' \in [States -> WellFormed]
    BY <2>1, GotoType DEF IInv, Plain
  <2>3. Types'
    BY <2>1, <2>2, WorkersAssumption, StateFacts, SMTT(40) DEF TryPruneIdleThread, IInv, Types
  <2>4. wk'[st].pc = "exited" /\ \A x \in States : x # st => wk'[x] = wk[x]
    BY <2>1 DEF IInv, Types
  <2>5. /\ reg'[st[1]] = 0
        /\ \A s \in Scopes : s # st[1] => reg'[s] = reg[s]
    BY <2>1, StateFacts DEF IInv, Types
  <2>6. \A x \in States : x # st /\ reg[x[1]] = x[2] => x[1] # st[1] /\ reg'[x[1]] = x[2]
    BY <1>2, <2>5, StateFacts
  <2>7. Registry'
    <3>1. \A s \in Scopes : reg'[s] # 0 => s # st[1] /\ <<s, reg'[s]>> \in States
                                          /\ <<s, reg'[s]>> # st
      BY <2>5, StateFacts DEF IInv, Types
    <3>2. \A x \in States : Running(x)' => Running(x) /\ x # st
      BY <2>4 DEF Running
    <3>3. \A x \in States : x # st /\ Running(x) => Running(x)'
      BY <2>4 DEF Running
    <3>4. \A s \in Scopes : reg'[s] \in {0, gen'[s]} /\ (reg'[s] = 0 => gen'[s] < MaxGens)
      BY <1>2, <2>5 DEF IInv, Registry, TryPruneIdleThread
    <3>5. \A x \in States : wk'[x].pc = "prune" => gen'[x[1]] < MaxGens
      BY <2>4 DEF IInv, Registry, TryPruneIdleThread
    <3>6. \A x \in States : Running(x)' => reg'[x[1]] = x[2]
      BY <3>2, <2>6 DEF IInv, Registry
    <3>7. pool # "cancelled" => \A s \in Scopes : reg'[s] # 0 => Running(<<s, reg[s]>>)'
      BY <3>1, <2>5, <2>4 DEF IInv, Registry, Running
    <3> QED
      BY <3>4, <3>5, <3>6, <3>7 DEF Registry, TryPruneIdleThread
  <2>8. ch[st] = <<>> /\ Channels'
    BY <1>3, <2>6 DEF Prunable, TryPruneIdleThread, IInv, Channels, Room
  <2>9. Blocked(st) = {}
    BY <1>3, FS_EmptySet DEF Prunable, IInv, Counts
  <2>10. Senders'
    <3>1. \A g \in Callers : at[g] # NoState => at[g] \in States /\ at[g] # st
      BY <2>9 DEF Blocked, IInv, Types
    <3> QED
      BY <3>1, <2>4, <2>6, <1>2 DEF Senders, IInv, TryPruneIdleThread
  <2>11. Counts' /\ Drainer'
    BY <1>1 DEF MuFree, TryPruneIdleThread, IInv, Counts, Blocked, Drainer
  <2> QED
    BY <2>3, <2>7, <2>8, <2>10, <2>11 DEF IInv
<1>4. CASE ~Prunable(st)
  <2>1. wk' = [wk EXCEPT ![st].pc = "wait"] /\ reg' = reg
    BY <1>4 DEF TryPruneIdleThread, Goto
  <2>2. wk' \in [States -> WellFormed]
    BY <2>1, GotoType DEF IInv, Plain
  <2>3. Types' /\ Channels'
    BY <2>1, <2>2 DEF TryPruneIdleThread, IInv, Types, Channels, Room
  <2>4. wk'[st].pc = "wait" /\ \A x \in States : x # st => wk'[x] = wk[x]
    BY <2>1 DEF IInv, Types
  <2> QED
    BY <1>2, <2>1, <2>3, <2>4, WorkerMoves DEF TryPruneIdleThread, IInv
<1> QED
  BY <1>3, <1>4

LEMMA BeginTurnKeeps == ASSUME IInv, NEW st \in States, BeginTurn(st) PROVE IInv'
<1> DEFINE pc == IF wk[st].burst[1] \in Disps THEN "turn" ELSE "drain"
<1>1. wk' = [wk EXCEPT ![st].pc = pc] /\ wk[st].pc = "popped"
  BY DEF BeginTurn, Goto
<1>2. wk' \in [States -> WellFormed]
  <2>1. CASE wk[st].burst[1] \in Disps
    BY <1>1, <2>1, GotoType DEF IInv, Plain
  <2>2. CASE wk[st].burst[1] \notin Disps
    <3>1. wk[st].burst # <<>> /\ wk[st].burst \in Seq(Msgs) \cup Seq(Disps)
      BY <1>1, WorkerFields DEF IInv
    <3>2. wk[st].burst \notin Seq(Disps)
      BY <2>2, <3>1, SeqFacts, Zenon
    <3>3. [wk[st] EXCEPT !.pc = "drain"] \in WellFormed
      BY <3>1, <3>2, WorkerFields DEF WellFormed, Wks, IInv
    <3> QED
      BY <1>1, <2>2, <3>3 DEF IInv, Types
  <2> QED
    BY <2>1, <2>2
<1>3. Types' /\ Channels'
  BY <1>2 DEF BeginTurn, IInv, Types, Channels, Room
<1>4. wk'[st].pc \in {"turn", "drain"} /\ \A x \in States : x # st => wk'[x] = wk[x]
  BY <1>1 DEF IInv, Types
<1>5. snd[st] = "done" /\ Running(st)
  BY <1>1 DEF IInv, Senders, Running
<1> QED
  BY <1>3, <1>4, <1>5, WorkerMoves DEF BeginTurn, IInv

LEMMA DrainBurstKeeps == ASSUME IInv, NEW st \in States, DrainBurst(st) PROVE IInv'
<1> DEFINE h == Head(ch[st])
           more == Len(wk[st].burst) < BurstMax /\ ch[st] # <<>>
<1>1. wk[st].pc = "drain"
  BY DEF DrainBurst
<1>2. snd[st] = "done" /\ Running(st)
  BY <1>1 DEF IInv, Senders, Running
<1>3. CASE more
  <2>1. Receive(st)
    BY <1>3 DEF DrainBurst
  <2>2. /\ ch' \in [States -> Seq(Items)] /\ sendq' \in [States -> Seq(Items)]
        /\ h \in Items /\ Channels'
    BY <1>3, <2>1, ReceiveKeeps DEF IInv, DrainBurst
  <2>3. wk' = [wk EXCEPT ![st] =
                 IF h \in Disps THEN [wk[st] EXCEPT !.pc = "turn", !.held = <<h>>]
                 ELSE [wk[st] EXCEPT !.burst = Append(wk[st].burst, h)]]
    BY <1>3 DEF DrainBurst
  <2> HIDE DEF h
  <2>4. wk' \in [States -> WellFormed]
    <3>1. CASE h \in Disps
      <4> DEFINE q == <<h>>
      <4>1. q \in Seq(Disps) /\ Len(q) <= 1
        BY <3>1
      <4> HIDE DEF q
      <4>2. [wk[st] EXCEPT !.pc = "turn", !.held = q] \in WellFormed
        BY <4>1, WorkerFields DEF WellFormed, Wks, IInv
      <4> QED
        BY <2>3, <3>1, <4>2 DEF q, IInv, Types
    <3>2. CASE h \notin Disps
      <4>1. wk[st].burst \in Seq(Msgs) /\ h \in Msgs
        BY <1>1, <2>2, <3>2, WorkerFields, CallerFacts DEF IInv
      <4>2. Append(wk[st].burst, h) \in Seq(Msgs)
        BY <4>1, SeqFacts
      <4>3. [wk[st] EXCEPT !.burst = Append(wk[st].burst, h)] \in WellFormed
        BY <4>2, <1>1, WorkerFields DEF WellFormed, Wks, IInv
      <4> QED
        BY <2>3, <3>2, <4>3 DEF IInv, Types
    <3> QED
      BY <3>1, <3>2
  <2>5. Types'
    BY <2>2, <2>4 DEF DrainBurst, IInv, Types
  <2>6. \A x \in States : x # st => wk'[x] = wk[x]
    BY <2>3 DEF IInv, Types
  <2>7. wk'[st].pc \in {"turn", "drain"}
    BY <1>1, <2>3, WorkerFields DEF IInv, Types, Wks
  <2> QED
    BY <1>2, <2>2, <2>5, <2>6, <2>7, WorkerMoves DEF DrainBurst, IInv
<1>4. CASE ~more
  <2>1. wk' = [wk EXCEPT ![st].pc = "turn"] /\ ch' = ch /\ sendq' = sendq
    BY <1>4 DEF DrainBurst, Goto
  <2>2. wk' \in [States -> WellFormed]
    BY <2>1, GotoType DEF IInv, Plain
  <2>3. Types' /\ Channels'
    BY <2>1, <2>2 DEF DrainBurst, IInv, Types, Channels, Room
  <2>4. wk'[st].pc = "turn" /\ \A x \in States : x # st => wk'[x] = wk[x]
    BY <2>1 DEF IInv, Types
  <2> QED
    BY <1>2, <2>3, <2>4, WorkerMoves DEF DrainBurst, IInv
<1> QED
  BY <1>3, <1>4

\* What trails in a burst are messages: a dispatch runs alone.
LEMMA TrailingRange ==
    ASSUME NEW n \in Nat
    PROVE  \A k \in (IF Trailing THEN 1 ELSE n) .. n : k \in Nat /\ k <= n /\ (n = 1 => k = 1)
OBVIOUS

LEMMA TrailingSeq ==
    ASSUME NEW b \in Seq(Msgs) \cup Seq(Disps), b \in Seq(Msgs) \/ Len(b) = 1,
           NEW k \in Nat, k <= Len(b), Len(b) = 1 => k = 1
    PROVE  SubSeq(b, k + 1, Len(b)) \in Seq(Msgs)
OBVIOUS

LEMMA PartsType ==
    ASSUME Types, NEW st \in States
    PROVE  \A k \in (IF Trailing THEN 1 ELSE Len(wk[st].burst)) .. Len(wk[st].burst) :
             /\ SubSeq(wk[st].burst, k + 1, Len(wk[st].burst)) \in Seq(Msgs)
             /\ SubSeq(wk[st].burst, 1, k) \in Seq(Msgs) \cup Seq(Disps)
             /\ SubSeq(wk[st].burst, 1, k) \in Seq(Msgs) \/ Len(SubSeq(wk[st].burst, 1, k)) = 1
<1>1. wk[st].burst \in Seq(Msgs) \cup Seq(Disps) /\ (wk[st].burst \in Seq(Msgs) \/ Len(wk[st].burst) = 1)
  BY WorkerFields
<1> DEFINE b == wk[st].burst
<1> HIDE DEF b
<1>2. \A k \in (IF Trailing THEN 1 ELSE Len(b)) .. Len(b) :
             /\ SubSeq(b, k + 1, Len(b)) \in Seq(Msgs)
             /\ SubSeq(b, 1, k) \in Seq(Msgs) \cup Seq(Disps)
             /\ SubSeq(b, 1, k) \in Seq(Msgs) \/ Len(SubSeq(b, 1, k)) = 1
  <2>1. b \in Seq(Msgs) \cup Seq(Disps) /\ (b \in Seq(Msgs) \/ Len(b) = 1) /\ Len(b) \in Nat
    BY <1>1 DEF b
  <2> TAKE k \in (IF Trailing THEN 1 ELSE Len(b)) .. Len(b)
  <2>2. k \in Nat /\ k <= Len(b) /\ (Len(b) = 1 => k = 1)
    BY <2>1, TrailingRange
  <2>3. SubSeq(b, k + 1, Len(b)) \in Seq(Msgs)
    BY <2>1, <2>2, TrailingSeq
  <2>4. SubSeq(b, 1, k) \in Seq(Msgs) \cup Seq(Disps)
    BY <2>1, <2>2
  <2>5. SubSeq(b, 1, k) \in Seq(Msgs) \/ Len(SubSeq(b, 1, k)) = 1
    BY <2>1, <2>2
  <2> QED
    BY <2>3, <2>4, <2>5
<1> QED
  BY <1>2 DEF b

LEMMA PlanKeeps == ASSUME IInv, NEW st \in States, Plan(st) PROVE IInv'
<1> DEFINE b == wk[st].burst
<1>1. wk[st].pc = "turn" /\ snd[st] = "done" /\ Running(st)
  BY DEF Plan, IInv, Senders, Running
<1>2. PICK k \in (IF Trailing THEN 1 ELSE Len(b)) .. Len(b) :
         wk' = [wk EXCEPT ![st].pc = "run", ![st].burst = SubSeq(b, 1, k),
                          ![st].back = SubSeq(b, k + 1, Len(b))]
  BY DEF Plan
<1> DEFINE front == SubSeq(b, 1, k)
           trailing == SubSeq(b, k + 1, Len(b))
<1>3. /\ trailing \in Seq(Msgs) /\ front \in Seq(Msgs) \cup Seq(Disps)
      /\ front \in Seq(Msgs) \/ Len(front) = 1
  BY PartsType DEF IInv
<1>4. wk' = [wk EXCEPT ![st] = [wk[st] EXCEPT !.pc = "run", !.burst = front, !.back = trailing]]
  BY <1>2 DEF IInv, Types
<1> HIDE DEF front, trailing
<1>5. [wk[st] EXCEPT !.pc = "run", !.burst = front, !.back = trailing] \in WellFormed
  BY <1>3, WorkerFields DEF WellFormed, Wks, IInv
<1>6. wk' \in [States -> WellFormed]
  BY <1>4, <1>5, ZenonT(60) DEF IInv, Types
<1>7. Types'
  BY <1>6 DEF Plan, IInv, Types
<1>8. Channels'
  BY DEF Plan, IInv, Channels, Room
<1>9. wk'[st].pc = "run" /\ \A x \in States : x # st => wk'[x] = wk[x]
  BY <1>4, WorkerFields DEF IInv, Types, Wks
<1> QED
  BY <1>1, <1>7, <1>8, <1>9, WorkerMoves DEF Plan, IInv

\* A worker whose burst or trailing messages are settled.
LEMMA SettleKeeps ==
    ASSUME IInv, NEW st \in States, Running(st), snd[st] = "done",
           NEW pc \in {"ended", "trail"}, NEW b \in {wk[st].burst, <<>>},
           NEW t \in {wk[st].back, <<>>},
           wk' = [wk EXCEPT ![st] = [wk[st] EXCEPT !.pc = pc, !.burst = b, !.back = t]],
           fate' \in [Items -> {"open", "done", "failed", "dropped"}],
           UNCHANGED <<reg, gen, ch, sendq, enq, snd, at, dr, pool, setup>>
    PROVE  IInv'
<1>1. <<>> \in Seq(Msgs)
  OBVIOUS
<1>2. [wk[st] EXCEPT !.pc = pc, !.burst = b, !.back = t] \in WellFormed
  <2>1. b \in Seq(Msgs) \cup Seq(Disps) /\ (b \in Seq(Msgs) \/ Len(b) = 1) /\ t \in Seq(Msgs)
    BY <1>1, WorkerFields DEF IInv
  <2> QED
    BY <2>1, WorkerFields DEF WellFormed, Wks, IInv
<1>3. wk' \in [States -> WellFormed]
  BY <1>2, ZenonT(60) DEF IInv, Types
<1>4. Types'
  BY <1>3 DEF IInv, Types
<1>5. Channels'
  BY DEF IInv, Channels, Room
<1>6. wk'[st].pc = pc /\ \A x \in States : x # st => wk'[x] = wk[x]
  BY WorkerFields DEF IInv, Types, Wks
<1> QED
  BY <1>4, <1>5, <1>6, WorkerMoves DEF IInv

LEMMA FinishTurnKeeps == ASSUME IInv, NEW st \in States, FinishTurn(st) PROVE IInv'
<1>1. wk[st].pc = "run" /\ snd[st] = "done" /\ Running(st)
  BY DEF FinishTurn, IInv, Senders, Running
<1>2. wk' = [wk EXCEPT ![st].pc = "ended", ![st].burst = <<>>]
  BY DEF FinishTurn
<1>3. [wk[st] EXCEPT !.pc = "ended", !.burst = <<>>] =
        [wk[st] EXCEPT !.pc = "ended", !.burst = <<>>, !.back = wk[st].back]
  BY WorkerFields DEF IInv, Wks
<1>4. wk' = [wk EXCEPT ![st] = [wk[st] EXCEPT !.pc = "ended", !.burst = <<>>, !.back = wk[st].back]]
  BY <1>2, <1>3 DEF IInv, Types
<1>5. fate' \in [Items -> {"open", "done", "failed", "dropped"}]
  BY DEF FinishTurn, IInv, Types
<1> QED
  BY <1>1, <1>4, <1>5, SettleKeeps DEF FinishTurn

LEMMA HandleTrailingKeeps == ASSUME IInv, NEW st \in States, HandleTrailing(st) PROVE IInv'
<1>1. wk[st].pc = "ended" /\ snd[st] = "done" /\ Running(st)
  BY DEF HandleTrailing, IInv, Senders, Running
<1>2. \E t \in {wk[st].back, <<>>} :
        wk' = [wk EXCEPT ![st] = [wk[st] EXCEPT !.pc = "trail", !.burst = wk[st].burst, !.back = t]]
  <2>1. CASE Goto(st, "trail")
    <3>1. [wk[st] EXCEPT !.pc = "trail"] =
            [wk[st] EXCEPT !.pc = "trail", !.burst = wk[st].burst, !.back = wk[st].back]
      BY WorkerFields DEF IInv, Wks
    <3>2. wk' = [wk EXCEPT ![st] = [wk[st] EXCEPT !.pc = "trail", !.burst = wk[st].burst, !.back = wk[st].back]]
      BY <2>1, <3>1 DEF Goto, IInv, Types
    <3> QED
      BY <3>2
  <2>2. CASE wk' = [wk EXCEPT ![st].pc = "trail", ![st].back = <<>>]
    <3>1. [wk[st] EXCEPT !.pc = "trail", !.back = <<>>] =
            [wk[st] EXCEPT !.pc = "trail", !.burst = wk[st].burst, !.back = <<>>]
      BY WorkerFields DEF IInv, Wks
    <3>2. wk' = [wk EXCEPT ![st] = [wk[st] EXCEPT !.pc = "trail", !.burst = wk[st].burst, !.back = <<>>]]
      BY <2>2, <3>1 DEF IInv, Types
    <3> QED
      BY <3>2
  <2> QED
    BY <2>1, <2>2 DEF HandleTrailing
<1>3. fate' \in [Items -> {"open", "done", "failed", "dropped"}]
  BY DEF HandleTrailing, IInv, Types
<1> QED
  BY <1>1, <1>2, <1>3, SettleKeeps DEF HandleTrailing

LEMMA HandBackKeeps == ASSUME IInv, NEW st \in States, HandBack(st) PROVE IInv'
<1>1. wk[st].pc = "trail" /\ snd[st] = "done" /\ Running(st) /\ wk[st].back \in Seq(Msgs)
  BY WorkerFields DEF HandBack, IInv, Senders, Running
<1>2. Channels'
  BY DEF HandBack, IInv, Channels, Room
<1>3. CASE wk[st].back = <<>> /\ Goto(st, "settle") /\ UNCHANGED <<snd, fate>>
  <2>1. wk' = [wk EXCEPT ![st].pc = "settle"]
    BY <1>3 DEF Goto
  <2>2. wk' \in [States -> WellFormed]
    BY <2>1, GotoType DEF IInv, Plain
  <2>3. Types'
    BY <1>3, <2>2 DEF HandBack, IInv, Types
  <2>4. wk'[st].pc = "settle" /\ \A x \in States : x # st => wk'[x] = wk[x]
    BY <2>1 DEF IInv, Types
  <2> QED
    BY <1>1, <1>2, <1>3, <2>3, <2>4, WorkerMoves DEF HandBack, IInv
<1>4. ASSUME wk[st].back # <<>>, wk' = [wk EXCEPT ![st].back = Tail(@)],
             fate' = [fate EXCEPT ![Head(wk[st].back)] = "done"], UNCHANGED snd
      PROVE  IInv'
  <2> DEFINE t == Tail(wk[st].back)
  <2>1. t \in Seq(Msgs)
    BY <1>1, <1>4, SeqFacts, Zenon
  <2> HIDE DEF t
  <2>2. [wk[st] EXCEPT !.back = t] \in WellFormed
    BY <1>1, <2>1, WorkerFields DEF WellFormed, Wks, IInv
  <2>3. wk' = [wk EXCEPT ![st] = [wk[st] EXCEPT !.back = t]]
    BY <1>4 DEF t, IInv, Types
  <2>4. wk' \in [States -> WellFormed]
    BY <2>2, <2>3 DEF IInv, Types
  <2>5. Types'
    BY <1>4, <2>4 DEF HandBack, IInv, Types
  <2>6. wk'[st].pc = "trail" /\ \A x \in States : x # st => wk'[x] = wk[x]
    BY <1>1, <2>3, WorkerFields DEF IInv, Types, Wks
  <2> QED
    BY <1>1, <1>2, <1>4, <2>5, <2>6, WorkerMoves DEF HandBack, IInv
<1>5. ASSUME wk[st].back # <<>>, Goto(st, "await"), snd' = [snd EXCEPT ![st] = "new"],
             UNCHANGED fate
      PROVE  IInv'
  <2>1. wk' = [wk EXCEPT ![st] = [wk[st] EXCEPT !.pc = "await"]]
    BY <1>5 DEF Goto, IInv, Types
  <2>2. [wk[st] EXCEPT !.pc = "await"] \in WellFormed
    BY <1>5, WorkerFields DEF WellFormed, Wks, IInv
  <2>3. wk' \in [States -> WellFormed]
    BY <2>1, <2>2 DEF IInv, Types
  <2>4. wk'[st].pc = "await" /\ \A x \in States : x # st => wk'[x] = wk[x]
    BY <2>1, WorkerFields DEF IInv, Types, Wks
  <2>5. Types'
    BY <1>5, <2>3, CallerFacts DEF HandBack, IInv, Types
  <2>6. /\ snd'[st] = "new" /\ snd[st] = "done"
        /\ \A g \in Callers : g # st => snd'[g] = snd[g]
    BY <1>1, <1>5, CallerFacts DEF IInv, Types
  <2>7. Senders'
    BY <2>4, <2>6, CallerFacts DEF HandBack, IInv, Senders
  <2>8. Registry'
    <3>1. \A x \in States : Running(x)' <=> Running(x)
      BY <1>1, <2>4 DEF Running
    <3>2. \A s \in Scopes : reg[s] # 0 => <<s, reg[s]>> \in States
      BY StateFacts DEF IInv, Types
    <3>3. \A x \in States : wk'[x].pc = "prune" => wk[x].pc = "prune"
      BY <2>4
    <3> QED
      BY <3>1, <3>2, <3>3 DEF HandBack, IInv, Registry
  <2>9. Counts' /\ Drainer'
    BY DEF HandBack, IInv, Counts, Blocked, Drainer
  <2> QED
    BY <1>2, <2>5, <2>7, <2>8, <2>9 DEF IInv
<1> QED
  BY <1>3, <1>4, <1>5 DEF HandBack

LEMMA HandedBackKeeps == ASSUME IInv, NEW st \in States, HandedBack(st) PROVE IInv'
<1>1. /\ wk[st].pc = "await" /\ snd[st] = "done" /\ Running(st)
      /\ wk[st].back \in Seq(Msgs) /\ wk[st].back # <<>>
  BY WorkerFields DEF HandedBack, IInv, Running
<1> DEFINE t == Tail(wk[st].back)
<1>2. t \in Seq(Msgs)
  BY <1>1, SeqFacts, Zenon
<1>3. wk' = [wk EXCEPT ![st] = [wk[st] EXCEPT !.pc = "trail", !.back = t]]
  BY DEF HandedBack, IInv, Types
<1> HIDE DEF t
<1>4. [wk[st] EXCEPT !.pc = "trail", !.back = t] \in WellFormed
  BY <1>2, WorkerFields DEF WellFormed, Wks, IInv
<1>5. Types'
  BY <1>3, <1>4, ZenonT(60) DEF HandedBack, IInv, Types
<1>6. Channels'
  BY DEF HandedBack, IInv, Channels, Room
<1>7. wk'[st].pc = "trail" /\ \A x \in States : x # st => wk'[x] = wk[x]
  BY <1>3, WorkerFields DEF IInv, Types, Wks
<1> QED
  BY <1>1, <1>5, <1>6, <1>7, WorkerMoves DEF HandedBack, IInv

LEMMA EndTurnKeeps == ASSUME IInv, NEW st \in States, EndTurn(st) PROVE IInv'
<1>1. wk[st].pc = "settle" /\ snd[st] = "done" /\ Running(st)
  BY DEF EndTurn, IInv, Senders, Running
<1>2. Channels'
  BY DEF EndTurn, IInv, Channels, Room
<1>3. CASE wk[st].held = <<>>
  <2>1. wk' = [wk EXCEPT ![st].pc = "wait"]
    BY <1>3 DEF EndTurn, Goto
  <2>2. wk' \in [States -> WellFormed]
    BY <2>1, GotoType DEF IInv, Plain
  <2>3. Types'
    BY <2>2 DEF EndTurn, IInv, Types
  <2>4. wk'[st].pc = "wait" /\ \A x \in States : x # st => wk'[x] = wk[x]
    BY <2>1 DEF IInv, Types
  <2> QED
    BY <1>1, <1>2, <2>3, <2>4, WorkerMoves DEF EndTurn, IInv
<1>4. CASE wk[st].held # <<>>
  <2> DEFINE h == wk[st].held
  <2>1. wk' = [wk EXCEPT ![st] = [wk[st] EXCEPT !.pc = "popped", !.burst = h, !.held = <<>>]]
    BY <1>4 DEF EndTurn, IInv, Types
  <2>2. h \in Seq(Disps) /\ Len(h) <= 1
    BY WorkerFields DEF IInv
  <2>5. h # <<>>
    BY <1>4
  <2> HIDE DEF h
  <2>3. Len(h) = 1
    <3>1. Len(h) \in Nat /\ Len(h) # 0
      BY <2>2, <2>5, SeqFacts, Zenon
    <3> QED
      BY <2>2, <3>1
  <2>4. <<>> \in Seq(Disps) /\ Len(<<>>) = 0
    OBVIOUS
  <2> DEFINE none == <<>>
             w == [wk[st] EXCEPT !.pc = "popped", !.burst = h, !.held = none]
  <2>6. w \in WellFormed
    <3>1. none \in Seq(Disps) /\ Len(none) <= 1
      BY <2>4
    <3> HIDE DEF none
    <3>2. /\ w \in Wks /\ w.pc = "popped" /\ w.burst = h /\ w.held = none
      BY <2>2, <3>1, WorkerFields DEF Wks, IInv
    <3> HIDE DEF w
    <3> QED
      BY <2>3, <2>5, <3>1, <3>2 DEF WellFormed
  <2>7. Types'
    BY <2>1, <2>6 DEF EndTurn, IInv, Types
  <2>8. wk'[st].pc = "popped" /\ \A x \in States : x # st => wk'[x] = wk[x]
    BY <2>1, WorkerFields DEF IInv, Types, Wks
  <2> QED
    BY <1>1, <1>2, <2>7, <2>8, WorkerMoves DEF EndTurn, IInv
<1> QED
  BY <1>3, <1>4

--------------------
(* Steps of a caller *)

\* While p.mu is free nobody drains, so Drainer says nothing.
LEMMA MuFreeDrainer == ASSUME IInv, MuFree, UNCHANGED dr PROVE Drainer'
  BY DEF MuFree, Drainer

\* A caller that is through with the channel, or was refused, is not blocked.
LEMMA CallerDone ==
    ASSUME IInv, NEW g \in Callers, snd[g] = "new", snd' = [snd EXCEPT ![g] = "done"],
           \A x \in States : wk[x].pc = "await" => wk'[x].pc = "await",
           UNCHANGED <<at, enq>>,
           \A x \in States : reg[x[1]] = x[2] => reg'[x[1]] = x[2]
    PROVE  Senders' /\ Counts'
<1>1. snd'[g] = "done" /\ \A x \in Callers : x # g => snd'[x] = snd[x]
  BY DEF IInv, Types
<1>2. at[g] = NoState
  BY DEF IInv, Senders
<1>3. \A x \in Callers : at[x] # NoState => at[x] \in States
  BY DEF IInv, Types
<1>4. \A x \in Callers : at'[x] # NoState <=> snd'[x] \in {"full", "parked", "sent"}
  BY <1>1, <1>2 DEF IInv, Senders
<1>5. \A x \in Callers : at'[x] # NoState => reg'[at'[x][1]] = at'[x][2]
  BY <1>3 DEF IInv, Senders
<1>6. \A x \in States : snd'[x] # "done" => wk'[x].pc = "await"
  BY <1>1, CallerFacts DEF IInv, Senders
<1>7. Senders'
  BY <1>4, <1>5, <1>6 DEF Senders
<1>8. Counts'
  BY DEF IInv, Counts, Blocked
<1> QED
  BY <1>7, <1>8

\* The count of a state follows the callers that join it and leave it.
LEMMA CallerJoins ==
    ASSUME IInv, NEW g \in Callers, NEW st \in States, at[g] = NoState,
           at' = [at EXCEPT ![g] = st], enq' = [enq EXCEPT ![st] = @ + 1]
    PROVE  Counts'
<1>0. at'[g] = st /\ \A x \in Callers : x # g => at'[x] = at[x]
  BY DEF IInv, Types
<1>1. Blocked(st)' = Blocked(st) \cup {g} /\ g \notin Blocked(st)
  BY <1>0, StateFacts DEF Blocked
<1>2. \A x \in States : x # st => Blocked(x)' = Blocked(x)
  BY <1>0, StateFacts DEF Blocked
<1>3. enq'[st] = enq[st] + 1 /\ \A x \in States : x # st => enq'[x] = enq[x]
  BY DEF IInv, Types
<1>4. IsFiniteSet(Blocked(st)) /\ enq[st] = Cardinality(Blocked(st))
  BY DEF IInv, Counts
<1>5. IsFiniteSet(Blocked(st)') /\ enq'[st] = Cardinality(Blocked(st)')
  BY <1>1, <1>3, <1>4, FS_AddElement
<1> QED
  BY <1>2, <1>3, <1>5 DEF IInv, Counts

LEMMA CallerLeaves ==
    ASSUME IInv, NEW g \in Callers, NEW st \in States, at[g] = st,
           at' = [at EXCEPT ![g] = NoState], enq' = [enq EXCEPT ![st] = @ - 1]
    PROVE  Counts' /\ enq' \in [States -> Nat]
<1>0. at'[g] = NoState /\ \A x \in Callers : x # g => at'[x] = at[x]
  BY DEF IInv, Types
<1>1. Blocked(st)' = Blocked(st) \ {g} /\ g \in Blocked(st)
  BY <1>0, StateFacts DEF Blocked
<1>2. \A x \in States : x # st => Blocked(x)' = Blocked(x)
  BY <1>0, StateFacts DEF Blocked
<1>3. enq'[st] = enq[st] - 1 /\ \A x \in States : x # st => enq'[x] = enq[x]
  BY DEF IInv, Types
<1>4. IsFiniteSet(Blocked(st)) /\ enq[st] = Cardinality(Blocked(st))
  BY DEF IInv, Counts
<1>5. IsFiniteSet(Blocked(st)') /\ enq'[st] = Cardinality(Blocked(st)')
  BY <1>1, <1>3, <1>4, FS_RemoveElement
<1>6. Counts'
  BY <1>2, <1>3, <1>5 DEF IInv, Counts
<1>7. enq'[st] \in Nat
  BY <1>5, FS_CardinalityType
<1> QED
  BY <1>6, <1>7 DEF IInv, Types

LEMMA EnqueueRefused ==
    ASSUME IInv, NEW g \in Callers, Enqueue(g), pool # "running"
    PROVE  IInv'
BY CallerDone, MuFreeDrainer DEF Enqueue, IInv, Types, Registry, Running, Channels, Room

\* A state enters the map only for a scope that has none, with a channel that nobody
\* has used.
LEMMA EnqueueStarts ==
    ASSUME IInv, NEW g \in Callers, Enqueue(g), pool = "running", reg[ScopeOf[Offers(g)]] = 0
    PROVE  IInv'
<1> DEFINE i == Offers(g)
           s == ScopeOf[i]
           n == gen[s] + 1
           new == <<s, n>>
<1>1. /\ snd[g] = "new" /\ snd' = [snd EXCEPT ![g] = "done"] /\ MuFree
      /\ reg' = [reg EXCEPT ![s] = n]
      /\ gen' = [gen EXCEPT ![s] = n]
      /\ ch' = [ch EXCEPT ![new] = <<i>>]
      /\ wk' = [wk EXCEPT ![new].pc = "spawn"]
      /\ UNCHANGED <<enq, at, fate, sendq, dr, pool, setup>>
  BY DEF Enqueue
<1>2. i \in Items /\ s \in Scopes
  BY <1>1, OffersType DEF IInv
<1> HIDE DEF i, s
<1>3. gen[s] \in 0 .. MaxGens /\ gen[s] < MaxGens /\ reg[s] = 0
  BY <1>2 DEF IInv, Types, Registry, s, i
<1>4. n \in 1 .. MaxGens /\ n = gen[s] + 1
  BY <1>3, WorkersAssumption
<1> HIDE DEF n
<1>5. new \in States /\ new[1] = s /\ new[2] = n
  BY <1>2, <1>4, StateFacts
<1> HIDE DEF new
<1>6. \A x \in States : x[1] = s => ~Running(x) /\ ch[x] = <<>> /\ sendq[x] = <<>>
  <2> SUFFICES ASSUME NEW x \in States, x[1] = s
               PROVE  ~Running(x) /\ ch[x] = <<>> /\ sendq[x] = <<>>
    OBVIOUS
  <2>1. reg[x[1]] # x[2]
    BY <1>3, StateFacts
  <2>2. ~Running(x) /\ ch[x] = <<>>
    BY <2>1 DEF IInv, Registry, Channels
  <2>3. Len(ch[x]) < setup.cap
    <3>1. setup.cap \in Nat /\ setup.cap # 0
      BY WorkersAssumption DEF IInv, Types
    <3>2. Len(<<>>) = 0
      OBVIOUS
    <3> QED
      BY <2>2, <3>1, <3>2
  <2> QED
    BY <2>2, <2>3 DEF IInv, Channels, Room
<1>7. Types'
  <2>1. reg' \in [Scopes -> 0 .. MaxGens] /\ gen' \in [Scopes -> 0 .. MaxGens]
    BY <1>1, <1>2, <1>4 DEF IInv, Types
  <2>2. <<i>> \in Seq(Items)
    BY <1>2
  <2>3. ch' \in [States -> Seq(Items)]
    BY <1>1, <1>5, <2>2 DEF IInv, Types
  <2>4. wk' \in [States -> WellFormed]
    BY <1>1, <1>5, GotoType DEF IInv, Plain
  <2> QED
    BY <1>1, <2>1, <2>3, <2>4 DEF IInv, Types
<1>8. /\ wk'[new].pc = "spawn" /\ \A x \in States : x # new => wk'[x] = wk[x]
      /\ ch'[new] = <<i>> /\ \A x \in States : x # new => ch'[x] = ch[x]
  BY <1>1, <1>5, WorkerFields DEF IInv, Types, Wks
<1>9. /\ reg'[s] = n /\ gen'[s] = n
      /\ \A x \in Scopes : x # s => reg'[x] = reg[x] /\ gen'[x] = gen[x]
  BY <1>1, <1>2 DEF IInv, Types
<1>10. \A x \in States : reg[x[1]] = x[2] => x[1] # s /\ reg'[x[1]] = x[2]
  BY <1>3, <1>9, StateFacts
<1>11. Registry'
  <2>1. \A x \in Scopes : reg'[x] \in {0, gen'[x]} /\ (reg'[x] = 0 => gen'[x] < MaxGens)
    BY <1>4, <1>9 DEF IInv, Registry
  <2>2. \A x \in States : wk'[x].pc = "prune" => gen'[x[1]] < MaxGens
    BY <1>8, <1>6, StateFacts, <1>9 DEF Running, IInv, Registry
  <2>3. \A x \in States : Running(x)' => reg'[x[1]] = x[2]
    BY <1>5, <1>9, <1>8, <1>10 DEF Running, IInv, Registry
  <2>4. \A x \in Scopes : reg'[x] # 0 => Running(<<x, reg[x]>>)'
    <3> SUFFICES ASSUME NEW x \in Scopes, reg'[x] # 0 PROVE Running(<<x, reg[x]>>)'
      OBVIOUS
    <3>1. CASE x = s
      BY <3>1, <1>9, <1>8 DEF new, Running
    <3>2. CASE x # s
      <4>1. reg'[x] = reg[x] /\ <<x, reg[x]>> \in States /\ <<x, reg[x]>> # new
        BY <3>2, <1>9, <1>5, StateFacts DEF IInv, Types
      <4>2. Running(<<x, reg[x]>>)
        BY <4>1 DEF IInv, Registry
      <4> QED
        BY <4>1, <4>2, <1>8 DEF Running
    <3> QED
      BY <3>1, <3>2
  <2> QED
    BY <1>1, <2>1, <2>2, <2>3, <2>4 DEF Registry
<1>12. Channels'
  BY <1>5, <1>8, <1>9, <1>10, <1>6, <1>1 DEF IInv, Channels, Room
<1>13. Senders' /\ Counts'
  BY <1>5, <1>6, <1>8, <1>1, <1>10, CallerDone DEF Running
<1>14. Drainer'
  BY <1>1, MuFreeDrainer
<1> QED
  BY <1>7, <1>11, <1>12, <1>13, <1>14 DEF IInv

LEMMA EnqueueSends ==
    ASSUME IInv, NEW g \in Callers, Enqueue(g), pool = "running",
           reg[ScopeOf[Offers(g)]] # 0,
           Room(<<ScopeOf[Offers(g)], reg[ScopeOf[Offers(g)]]>>)
    PROVE  IInv'
<1> DEFINE i == Offers(g)
           s == ScopeOf[i]
           st == <<s, reg[s]>>
<1>1. /\ snd[g] = "new" /\ snd' = [snd EXCEPT ![g] = "done"] /\ MuFree
      /\ ch' = [ch EXCEPT ![st] = Append(@, i)]
      /\ UNCHANGED <<reg, gen, enq, wk, at, fate, sendq, dr, pool, setup>>
  BY DEF Enqueue
<1>2. i \in Items /\ s \in Scopes
  BY <1>1, OffersType DEF IInv
<1>3. st \in States /\ reg[st[1]] = st[2] /\ Room(st)
  BY <1>2, StateFacts DEF IInv, Types
<1> HIDE DEF i, s, st
<1>4. ch' \in [States -> Seq(Items)] /\ Channels'
  BY <1>1, <1>2, <1>3, SendKeeps DEF IInv
<1>5. Types'
  BY <1>1, <1>4 DEF IInv, Types
<1>6. Registry'
  BY <1>1 DEF IInv, Registry, Running
<1>7. Senders' /\ Counts'
  BY <1>1, CallerDone
<1>8. Drainer'
  BY <1>1, MuFreeDrainer
<1> QED
  BY <1>4, <1>5, <1>6, <1>7, <1>8 DEF IInv

\* A caller that finds the channel full counts itself before it releases p.mu.
LEMMA EnqueueBlocks ==
    ASSUME IInv, NEW g \in Callers, Enqueue(g), pool = "running",
           reg[ScopeOf[Offers(g)]] # 0,
           ~Room(<<ScopeOf[Offers(g)], reg[ScopeOf[Offers(g)]]>>)
    PROVE  IInv'
<1> DEFINE i == Offers(g)
           s == ScopeOf[i]
           st == <<s, reg[s]>>
<1>1. /\ snd[g] = "new" /\ snd' = [snd EXCEPT ![g] = "full"] /\ MuFree
      /\ enq' = [enq EXCEPT ![st] = @ + 1] /\ at' = [at EXCEPT ![g] = st]
      /\ UNCHANGED <<reg, gen, ch, wk, fate, sendq, dr, pool, setup>>
  BY DEF Enqueue
<1>2. i \in Items /\ s \in Scopes
  BY <1>1, OffersType DEF IInv
<1>3. st \in States /\ reg[st[1]] = st[2]
  BY <1>2, StateFacts DEF IInv, Types
<1> HIDE DEF i, s, st
<1>4. Types'
  BY <1>1, <1>3 DEF IInv, Types
<1>5. Registry' /\ Channels'
  BY <1>1 DEF IInv, Registry, Running, Channels, Room
<1>6. /\ at[g] = NoState /\ at'[g] = st /\ snd'[g] = "full" /\ st # NoState
      /\ \A x \in Callers : x # g => at'[x] = at[x] /\ snd'[x] = snd[x]
  <2>1. at[g] = NoState
    BY <1>1 DEF IInv, Senders
  <2>2. st # NoState
    BY <1>3, StateFacts
  <2> QED
    BY <1>1, <2>1, <2>2 DEF IInv, Types
<1>7. Senders'
  BY <1>6, <1>1, <1>3, CallerFacts DEF IInv, Senders
<1>8. Counts'
  BY <1>1, <1>3, <1>6, CallerJoins, Zenon
<1>9. Drainer'
  BY <1>1, MuFreeDrainer
<1> QED
  BY <1>4, <1>5, <1>7, <1>8, <1>9 DEF IInv

LEMMA EnqueueKeeps == ASSUME IInv, NEW g \in Callers, Enqueue(g) PROVE IInv'
  BY EnqueueRefused, EnqueueStarts, EnqueueSends, EnqueueBlocks, Zenon

LEMMA SlowSendKeeps == ASSUME IInv, NEW g \in Callers, SlowSend(g) PROVE IInv'
<1> DEFINE i == Offers(g)
           st == at[g]
<1>1. snd[g] = "full" /\ UNCHANGED <<reg, gen, enq, wk, at, dr, pool, fate, setup>>
  BY DEF SlowSend
<1>2. i \in Items
  BY <1>1, OffersType DEF IInv
<1>3. st \in States /\ reg[st[1]] = st[2]
  BY <1>1 DEF IInv, Types, Senders
<1>4. /\ snd' \in {[snd EXCEPT ![g] = "sent"], [snd EXCEPT ![g] = "parked"]}
      /\ ch' \in [States -> Seq(Items)] /\ sendq' \in [States -> Seq(Items)]
      /\ Channels'
  BY <1>1, <1>2, <1>3, SendKeeps, ParkKeeps DEF SlowSend, IInv, Types
<1>5. Types'
  BY <1>1, <1>4 DEF IInv, Types
<1>6. Senders'
  BY <1>1, <1>4, CallerFacts, ZenonT(60) DEF IInv, Types, Senders
<1>7. Registry' /\ Counts' /\ Drainer'
  BY <1>1 DEF IInv, Registry, Running, Counts, Blocked, Drainer
<1> QED
  BY <1>4, <1>5, <1>6, <1>7 DEF IInv

LEMMA WakeKeeps == ASSUME IInv, NEW g \in Callers, Wake(g) PROVE IInv'
<1>1. /\ snd[g] = "parked" /\ snd' = [snd EXCEPT ![g] = "sent"]
      /\ UNCHANGED <<reg, gen, ch, sendq, enq, wk, at, dr, pool, fate, setup>>
  BY DEF Wake
<1>2. Types'
  BY <1>1 DEF IInv, Types
<1>3. Senders'
  BY <1>1, CallerFacts DEF IInv, Types, Senders
<1>4. Registry' /\ Channels' /\ Counts' /\ Drainer'
  BY <1>1 DEF IInv, Registry, Running, Channels, Room, Counts, Blocked, Drainer
<1> QED
  BY <1>2, <1>3, <1>4 DEF IInv

\* A caller that gives up stays counted until it has p.mu again.
LEMMA GiveUpKeeps == ASSUME IInv, NEW g \in Callers, GiveUp(g) PROVE IInv'
<1>1. /\ snd[g] \in {"full", "parked"} /\ snd' = [snd EXCEPT ![g] = "sent"]
      /\ fate' = [fate EXCEPT ![Offers(g)] = "dropped"]
      /\ UNCHANGED <<reg, gen, ch, enq, wk, at, dr, pool, setup>>
  BY DEF GiveUp
<1>2. at[g] \in States
  BY <1>1 DEF IInv, Types, Senders
<1>3. sendq' \in [States -> Seq(Items)]
      /\ \A x \in States : sendq'[x] # <<>> => sendq[x] # <<>>
  <2>1. CASE sendq' = sendq
    BY <2>1 DEF IInv, Types
  <2>2. CASE Unpark(g)
    <3> DEFINE q == sendq[at[g]]
    <3>1. PICK k \in DOMAIN q :
            sendq' = [sendq EXCEPT ![at[g]] = SubSeq(q, 1, k - 1) \o SubSeq(q, k + 1, Len(q))]
      BY <2>2 DEF Unpark
    <3>2. q \in Seq(Items)
      BY <1>2 DEF IInv, Types
    <3> HIDE DEF q
    <3>3. k \in 1 .. Len(q) /\ q # <<>>
      BY <3>2
    <3>4. SubSeq(q, 1, k - 1) \in Seq(Items) /\ SubSeq(q, k + 1, Len(q)) \in Seq(Items)
      BY <3>2, <3>3
    <3>5. SubSeq(q, 1, k - 1) \o SubSeq(q, k + 1, Len(q)) \in Seq(Items)
      BY <3>4, ConcatProperties, Zenon
    <3>6. sendq[at[g]] # <<>>
      BY <3>3 DEF q
    <3> QED
      BY <1>2, <3>1, <3>5, <3>6 DEF IInv, Types
  <2> QED
    BY <2>1, <2>2 DEF GiveUp
<1>4. Types'
  BY <1>1, <1>3 DEF IInv, Types
<1>5. Channels'
  BY <1>1, <1>3 DEF IInv, Channels, Room
<1>6. Senders'
  BY <1>1, CallerFacts DEF IInv, Types, Senders
<1>7. Registry' /\ Counts' /\ Drainer'
  BY <1>1 DEF IInv, Registry, Running, Counts, Blocked, Drainer
<1> QED
  BY <1>4, <1>5, <1>6, <1>7 DEF IInv

LEMMA RelockKeeps == ASSUME IInv, NEW g \in Callers, Relock(g) PROVE IInv'
<1>1. /\ snd[g] = "sent" /\ snd' = [snd EXCEPT ![g] = "done"]
      /\ enq' = [enq EXCEPT ![at[g]] = @ - 1] /\ at' = [at EXCEPT ![g] = NoState]
      /\ UNCHANGED <<reg, gen, ch, sendq, wk, dr, pool, fate, setup>>
  BY DEF Relock
<1>2. at[g] \in States
  BY <1>1 DEF IInv, Types, Senders
<1>3. Counts' /\ enq' \in [States -> Nat]
  BY <1>1, <1>2, CallerLeaves, Zenon
<1>4. Types'
  BY <1>1, <1>3 DEF IInv, Types
<1>5. Senders'
  BY <1>1, CallerFacts DEF IInv, Types, Senders
<1>6. Registry' /\ Channels' /\ Drainer'
  BY <1>1 DEF IInv, Registry, Running, Channels, Room, Drainer
<1> QED
  BY <1>3, <1>4, <1>5, <1>6 DEF IInv

--------------------
(* Steps of an interrupt and of the pool *)

LEMMA DrainFields ==
    ASSUME Types
    PROVE  dr.todo \in SUBSET States /\ dr.back \in Seq(Disps) /\ dr.on \in States \cup {NoState}
  BY DEF Types, Drs

\* What a step of the drain leaves alone as long as the map stays as it is.
LEMMA DrainSideKeeps ==
    ASSUME IInv, UNCHANGED <<reg, gen, enq, wk, snd, at, pool>>
    PROVE  Registry' /\ Senders' /\ Counts'
  BY DEF IInv, Registry, Running, Senders, Counts, Blocked

LEMMA DrainLockKeeps == ASSUME IInv, DrainLock PROVE IInv'
<1>1. /\ dr' = [NoDrain EXCEPT !.pc = "latch", !.todo = Active]
      /\ setup' = [setup EXCEPT !.drains = @ + 1]
      /\ UNCHANGED <<reg, gen, ch, sendq, enq, wk, snd, at, pool, fate>>
  BY DEF DrainLock
<1>2. Active \in SUBSET States
  BY DEF Active
<1>3. dr' \in Drs /\ dr'.pc = "latch"
  <2>1. dr' = [pc |-> "latch", todo |-> Active, on |-> NoState, back |-> <<>>]
    BY <1>1 DEF NoDrain
  <2>2. <<>> \in Seq(Disps)
    OBVIOUS
  <2> QED
    BY <1>2, <2>1, <2>2 DEF Drs
<1>4. setup' \in [cap : Caps, drains : Nat] /\ setup'.cap = setup.cap
  <2> DEFINE n == setup.drains + 1
  <2>1. n \in Nat /\ setup \in [cap : Caps, drains : Nat]
    BY DEF IInv, Types
  <2>2. setup' = [setup EXCEPT !.drains = n]
    BY <1>1
  <2> HIDE DEF n
  <2> QED
    BY <2>1, <2>2
<1>5. Types'
  BY <1>1, <1>3, <1>4 DEF IInv, Types
<1>6. Channels'
  BY <1>1, <1>4 DEF IInv, Channels, Room
<1>7. Drainer'
  BY <1>1, <1>3 DEF Drainer
<1> QED
  BY <1>1, <1>5, <1>6, <1>7, DrainSideKeeps DEF IInv

\* What the latch does to the worker of a turn: nothing, or it loses its trailing messages.
LEMMA LatchWorker ==
    ASSUME IInv, NEW st \in States, DrainLatch(st)
    PROVE  \/ wk' = wk /\ fate' = fate
           \/ /\ wk[st].pc \in {"run", "ended"}
              /\ wk' = [wk EXCEPT ![st] = [wk[st] EXCEPT !.back = <<>>]]
              /\ fate' = [i \in Items |-> IF i \in Elems(wk[st].back) THEN "failed" ELSE fate[i]]
           \/ /\ wk[st].pc = "turn" /\ fate' = fate
              /\ wk' = [wk EXCEPT ![st] = [wk[st] EXCEPT !.pc = "run"]]
BY DEF DrainLatch, Goto, IInv, Types

LEMMA DrainLatchKeeps == ASSUME IInv, NEW st \in States, DrainLatch(st) PROVE IInv'
<1>1. /\ UNCHANGED <<reg, gen, ch, sendq, enq, snd, at, pool, setup>> /\ dr.pc = "latch"
      /\ dr' = [dr EXCEPT !.todo = @ \ {st}]
  BY DEF DrainLatch
<1>2. dr' \in Drs /\ dr'.pc = "latch"
  BY <1>1, DrainFields DEF IInv, Types, Drs
<1>3. Drainer'
  BY <1>2 DEF Drainer
<1>4. Channels'
  BY <1>1 DEF IInv, Channels, Room
<1>5. CASE wk' = wk /\ fate' = fate
  BY <1>1, <1>2, <1>3, <1>4, <1>5, DrainSideKeeps DEF IInv, Types
<1>6. ASSUME NEW w \in WellFormed, w.pc \in {"run", "ended"}, wk[st].pc \in {"turn", "run", "ended"},
             wk' = [wk EXCEPT ![st] = w],
             fate' \in [Items -> {"open", "done", "failed", "dropped"}]
      PROVE  IInv'
  <2>1. Types'
    BY <1>1, <1>2, <1>6 DEF IInv, Types
  <2>2. wk'[st] = w /\ \A x \in States : x # st => wk'[x] = wk[x]
    BY <1>6 DEF IInv, Types
  <2>3. \A x \in States : (Running(x) <=> Running(x)') /\ (wk'[x].pc = "prune" => wk[x].pc = "prune")
                         /\ (wk[x].pc = "await" <=> wk'[x].pc = "await")
    BY <1>6, <2>2 DEF Running
  <2>4. Registry'
    <3>1. \A s \in Scopes : reg[s] # 0 => <<s, reg[s]>> \in States
      BY StateFacts DEF IInv, Types
    <3> QED
      BY <1>1, <2>3, <3>1 DEF IInv, Registry
  <2>5. Senders' /\ Counts'
    BY <1>1, <2>3 DEF IInv, Senders, Counts, Blocked
  <2> QED
    BY <1>3, <1>4, <2>1, <2>4, <2>5 DEF IInv
<1>7. wk[st].back \in Seq(Msgs) /\ <<>> \in Seq(Msgs) /\ wk[st] \in WellFormed
  BY WorkerFields DEF IInv, Types
<1>8. fate' \in [Items -> {"open", "done", "failed", "dropped"}]
  BY LatchWorker DEF IInv, Types
<1>9. CASE wk[st].pc \in {"run", "ended"} /\ wk' = [wk EXCEPT ![st] = [wk[st] EXCEPT !.back = <<>>]]
  <2> DEFINE w == [wk[st] EXCEPT !.back = <<>>]
  <2>1. w \in WellFormed /\ w.pc \in {"run", "ended"}
    BY <1>7, <1>9 DEF WellFormed, Wks
  <2> HIDE DEF w
  <2>2. wk' = [wk EXCEPT ![st] = w]
    BY <1>9 DEF w
  <2> QED
    BY <1>6, <1>8, <1>9, <2>1, <2>2
<1>10. CASE wk[st].pc = "turn" /\ wk' = [wk EXCEPT ![st] = [wk[st] EXCEPT !.pc = "run"]]
  <2> DEFINE w == [wk[st] EXCEPT !.pc = "run"]
  <2>1. w \in WellFormed /\ w.pc \in {"run", "ended"}
    BY <1>7, <1>10 DEF WellFormed, Wks
  <2> HIDE DEF w
  <2>2. wk' = [wk EXCEPT ![st] = w]
    BY <1>10 DEF w
  <2> QED
    BY <1>6, <1>8, <1>10, <2>1, <2>2
<1> QED
  BY <1>5, <1>9, <1>10, LatchWorker

LEMMA DrainQueuesKeeps == ASSUME IInv, DrainQueues PROVE IInv'
<1> DEFINE todo == {<<s, reg[s]>> : s \in {t \in Drained : reg[t] # 0}}
<1>1. /\ dr' = [dr EXCEPT !.pc = "pick", !.todo = todo]
      /\ UNCHANGED <<reg, gen, ch, sendq, enq, wk, snd, at, pool, fate, setup>>
  BY DEF DrainQueues
<1>2. \A st \in todo : st \in States /\ reg[st[1]] = st[2]
  BY WorkersAssumption, StateFacts DEF IInv, Types
<1> HIDE DEF todo
<1>3. dr' \in Drs /\ dr'.pc = "pick" /\ dr'.todo = todo
  <2>1. todo \in SUBSET States
    BY <1>2
  <2> QED
    BY <1>1, <2>1, DrainFields DEF IInv, Types, Drs
<1>5. Types'
  BY <1>1, <1>3 DEF IInv, Types
<1>6. Channels'
  BY <1>1 DEF IInv, Channels, Room
<1>7. Drainer'
  BY <1>1, <1>2, <1>3 DEF Drainer
<1> QED
  BY <1>1, <1>5, <1>6, <1>7, DrainSideKeeps DEF IInv

LEMMA DrainPickKeeps == ASSUME IInv, DrainPick PROVE IInv'
<1>1. UNCHANGED <<reg, gen, ch, sendq, enq, wk, snd, at, pool, fate, setup>> /\ dr.pc = "pick"
  BY DEF DrainPick
<1>2. dr' \in Drs /\ Drainer'
  <2>1. CASE dr' = NoDrain
    BY <2>1 DEF NoDrain, Drs, Drainer
  <2>2. CASE \E st \in dr.todo :
               dr' = [dr EXCEPT !.pc = "recv", !.todo = @ \ {st}, !.on = st]
    <3>1. PICK st \in dr.todo : dr' = [dr EXCEPT !.pc = "recv", !.todo = @ \ {st}, !.on = st]
      BY <2>2
    <3>2. st \in States /\ reg[st[1]] = st[2]
      BY <1>1, DrainFields DEF IInv, Drainer
    <3>3. /\ dr' \in Drs /\ dr'.pc = "recv" /\ dr'.todo = dr.todo \ {st} /\ dr'.on = st
      BY <3>1, <3>2, DrainFields DEF IInv, Types, Drs
    <3> QED
      BY <1>1, <3>2, <3>3 DEF IInv, Drainer
  <2> QED
    BY <2>1, <2>2 DEF DrainPick
<1>3. Types'
  BY <1>1, <1>2 DEF IInv, Types
<1>4. Channels'
  BY <1>1 DEF IInv, Channels, Room
<1> QED
  BY <1>1, <1>2, <1>3, <1>4, DrainSideKeeps DEF IInv

LEMMA DrainRecvKeeps == ASSUME IInv, DrainRecv PROVE IInv'
<1>1. UNCHANGED <<reg, gen, enq, wk, snd, at, pool, setup>> /\ dr.pc = "recv"
  BY DEF DrainRecv
<1>2. dr.on \in States /\ reg[dr.on[1]] = dr.on[2]
  BY <1>1 DEF IInv, Drainer
<1>3. CASE ch[dr.on] = <<>>
  BY <1>3, DrainFields, <1>1, <1>2, DrainSideKeeps DEF DrainRecv, IInv, Types, Drs, Drainer,
     Channels, Room
<1>4. CASE ch[dr.on] # <<>>
  <2> DEFINE i == Head(ch[dr.on])
  <2>1. /\ Receive(dr.on)
        /\ dr' = IF i \in Disps THEN [dr EXCEPT !.back = Append(@, i)] ELSE dr
        /\ fate' = IF i \in Disps THEN fate ELSE [fate EXCEPT ![i] = "failed"]
    BY <1>4 DEF DrainRecv
  <2>2. /\ ch' \in [States -> Seq(Items)] /\ sendq' \in [States -> Seq(Items)]
        /\ i \in Items /\ Channels'
    BY <1>1, <1>2, <1>4, <2>1, ReceiveKeeps DEF IInv
  <2> HIDE DEF i
  <2>3. dr' \in Drs /\ dr'.pc = "recv" /\ dr'.todo = dr.todo /\ dr'.on = dr.on
    BY DrainFields, SeqFacts, <2>1, <1>1 DEF IInv, Types, Drs
  <2>4. Drainer'
    BY <1>1, <1>2, <2>3 DEF IInv, Drainer
  <2>5. fate' \in [Items -> {"open", "done", "failed", "dropped"}]
    BY <2>1, <2>2 DEF IInv, Types
  <2>6. Types'
    BY <1>1, <2>2, <2>3, <2>5 DEF IInv, Types
  <2> QED
    BY <1>1, <2>2, <2>4, <2>6, DrainSideKeeps DEF IInv
<1> QED
  BY <1>3, <1>4

LEMMA DrainSendKeeps == ASSUME IInv, DrainSend PROVE IInv'
<1>1. UNCHANGED <<reg, gen, enq, wk, snd, at, pool, fate, setup>> /\ dr.pc = "send"
  BY DEF DrainSend
<1>2. dr.on \in States /\ reg[dr.on[1]] = dr.on[2]
  BY <1>1 DEF IInv, Drainer
<1>3. CASE dr.back = <<>>
  BY <1>3, DrainFields, <1>1, DrainSideKeeps DEF DrainSend, IInv, Types, Drs, Drainer, Channels,
     Room
<1>4. CASE dr.back # <<>> /\ Room(dr.on)
  <2> DEFINE i == Head(dr.back)
             t == Tail(dr.back)
  <2>1. i \in Disps /\ t \in Seq(Disps)
    BY <1>4, DrainFields, SeqFacts, Zenon DEF IInv
  <2>2. /\ ch' = [ch EXCEPT ![dr.on] = Append(@, i)] /\ dr' = [dr EXCEPT !.back = t]
        /\ sendq' = sendq
    BY <1>4 DEF DrainSend
  <2>3. i \in Items
    BY <2>1 DEF Items
  <2> HIDE DEF i, t
  <2>4. ch' \in [States -> Seq(Items)] /\ Channels'
    BY <1>1, <1>2, <1>4, <2>2, <2>3, SendKeeps DEF IInv
  <2>5. dr' \in Drs /\ dr'.pc = "send" /\ dr'.todo = dr.todo /\ dr'.on = dr.on
    BY <1>1, <2>1, <2>2 DEF IInv, Types, Drs
  <2>6. Drainer'
    BY <1>1, <1>2, <2>5 DEF IInv, Drainer
  <2>7. Types'
    BY <1>1, <2>2, <2>4, <2>5 DEF IInv, Types
  <2> QED
    BY <1>1, <2>4, <2>6, <2>7, DrainSideKeeps DEF IInv
<1>5. CASE dr.back # <<>> /\ ~Room(dr.on)
  <2> DEFINE i == Head(dr.back)
  <2>1. i \in Items
    BY <1>5, DrainFields, SeqFacts, Zenon DEF IInv, Items
  <2>2. /\ sendq' = [sendq EXCEPT ![dr.on] = Append(@, i)] /\ dr' = [dr EXCEPT !.pc = "parked"]
        /\ ch' = ch
    BY <1>5 DEF DrainSend
  <2> HIDE DEF i
  <2>3. sendq' \in [States -> Seq(Items)] /\ Channels'
    BY <1>1, <1>2, <1>5, <2>1, <2>2, ParkKeeps DEF IInv
  <2>4. /\ dr' \in Drs /\ dr'.pc = "parked" /\ dr'.todo = dr.todo /\ dr'.on = dr.on
        /\ dr'.back = dr.back
    BY <2>2, DrainFields DEF IInv, Types, Drs
  <2>5. Drainer'
    BY <1>1, <1>2, <1>5, <2>4 DEF IInv, Drainer
  <2>6. Types'
    BY <1>1, <2>2, <2>3, <2>4 DEF IInv, Types
  <2> QED
    BY <1>1, <2>3, <2>5, <2>6, DrainSideKeeps DEF IInv
<1> QED
  BY <1>3, <1>4, <1>5

LEMMA DrainWakeKeeps == ASSUME IInv, DrainWake PROVE IInv'
<1> DEFINE t == Tail(dr.back)
<1>1. /\ UNCHANGED <<reg, gen, ch, sendq, enq, wk, snd, at, pool, fate, setup>>
      /\ dr.pc = "parked" /\ dr' = [dr EXCEPT !.pc = "send", !.back = t]
  BY DEF DrainWake
<1>2. t \in Seq(Disps)
  BY <1>1, DrainFields, SeqFacts, Zenon DEF IInv, Drainer
<1> HIDE DEF t
<1>0. dr \in Drs
  BY DEF IInv, Types
<1>3. dr' \in Drs /\ dr'.pc = "send" /\ dr'.todo = dr.todo /\ dr'.on = dr.on
  BY <1>0, <1>1, <1>2 DEF Drs
<1>5. dr.on \in States /\ reg[dr.on[1]] = dr.on[2] /\ \A st \in dr.todo : reg[st[1]] = st[2]
  BY <1>1 DEF IInv, Drainer
<1>4. Drainer'
  BY <1>1, <1>3, <1>5 DEF Drainer
<1>6. Types' /\ Channels'
  BY <1>1, <1>3 DEF IInv, Types, Channels, Room
<1> QED
  BY <1>1, <1>4, <1>6, DrainSideKeeps DEF IInv

LEMMA StopKeeps == ASSUME IInv, Stop \/ Cancel PROVE IInv'
<1>1. /\ UNCHANGED <<reg, gen, ch, sendq, enq, wk, snd, at, dr, fate, setup>>
      /\ pool' \in {"stopped", "cancelled"} /\ pool # "cancelled"
  BY DEF Stop, Cancel
<1>2. Types'
  BY <1>1 DEF IInv, Types
<1>3. Registry'
  BY <1>1 DEF IInv, Registry, Running
<1>4. Channels' /\ Senders'
  BY <1>1 DEF IInv, Channels, Room, Senders
<1>5. Counts'
  BY <1>1 DEF IInv, Counts, Blocked
<1>6. Drainer'
  BY <1>1 DEF IInv, Drainer
<1> QED
  BY <1>2, <1>3, <1>4, <1>5, <1>6 DEF IInv

LEMMA StutterKeeps == ASSUME IInv, UNCHANGED vars PROVE IInv'
<1>1. Types' /\ Registry' /\ Channels'
  BY DEF vars, IInv, Types, Registry, Running, Channels, Room
<1>2. Senders' /\ Counts' /\ Drainer'
  BY DEF vars, IInv, Senders, Counts, Blocked, Drainer
<1> QED
  BY <1>1, <1>2 DEF IInv

LEMMA NextKeeps == ASSUME IInv, [Next]_vars PROVE IInv'
<1>1. ASSUME NEW g \in Callers, Sender(g) PROVE IInv'
  BY <1>1, EnqueueKeeps, SlowSendKeeps, WakeKeeps, GiveUpKeeps, RelockKeeps DEF Sender
<1>2. ASSUME NEW st \in States, Worker(st) PROVE IInv'
  BY <1>2, SpawnKeeps, PopKeeps, IdleTimerKeeps, WorkerExitKeeps, PruneKeeps,
     BeginTurnKeeps, DrainBurstKeeps, PlanKeeps, FinishTurnKeeps, HandleTrailingKeeps,
     HandBackKeeps, HandedBackKeeps, EndTurnKeeps DEF Worker
<1>3. ASSUME Interrupt PROVE IInv'
  BY <1>3, DrainLockKeeps, DrainLatchKeeps, DrainQueuesKeeps, DrainPickKeeps,
     DrainRecvKeeps, DrainSendKeeps, DrainWakeKeeps DEF Interrupt
<1> QED
  BY <1>1, <1>2, <1>3, StopKeeps, StutterKeeps DEF Next

--------------------
\* The invariant of the accounting under p.mu holds of every behaviour.
THEOREM Accounting == Spec => []IInv
  BY InitIInv, NextKeeps, PTL DEF Spec

\* Every field of the pool keeps its type, whatever callers, workers and interrupts do.
THEOREM TypeCorrect == Spec => []TypeOK
  BY Accounting, IInvType, PTL

LEMMA IInvOneWorker == IInv => OneWorkerPerScope
BY StateFacts DEF OneWorkerPerScope, IInv, Registry

\* A retiring worker and its successor never run side by side: runThreadWorker,
\* tryPruneIdleThread and EnqueueBurst keep at most one goroutine per scope.
THEOREM OneWorker == Spec => []OneWorkerPerScope
  BY Accounting, IInvOneWorker, PTL

LEMMA IInvNoOrphan == IInv => NoOrphanedChannel
<1> SUFFICES ASSUME IInv, pool # "cancelled", NEW st \in States,
                    \/ ch[st] # <<>> \/ sendq[st] # <<>>
                    \/ \E g \in Callers : snd[g] = "full" /\ at[g] = st
             PROVE  Running(st) /\ reg[st[1]] = st[2]
  BY DEF NoOrphanedChannel
<1>1. reg[st[1]] = st[2]
  <2>1. CASE ch[st] # <<>>
    BY <2>1 DEF IInv, Channels
  <2>2. CASE sendq[st] # <<>>
    <3>1. ~(Len(ch[st]) < setup.cap) /\ setup.cap \in Nat \ {0}
      BY <2>2, WorkersAssumption DEF IInv, Types, Channels, Room
    <3>2. ch[st] # <<>>
      BY <3>1
    <3> QED
      BY <3>2 DEF IInv, Channels
  <2>3. CASE \E g \in Callers : snd[g] = "full" /\ at[g] = st
    BY <2>3, StateFacts DEF IInv, Senders
  <2> QED
    BY <2>1, <2>2, <2>3
<1>2. reg[st[1]] # 0 /\ st = <<st[1], reg[st[1]]>> /\ st[1] \in Scopes
  BY <1>1, StateFacts
<1>3. Running(<<st[1], reg[st[1]]>>)
  BY <1>2 DEF IInv, Registry
<1> QED
  BY <1>1, <1>2, <1>3

\* Pruning never orphans a channel: while the pool is not cancelled, whatever is in a
\* channel, parked on it or about to be sent to it has a worker that is still in the map.
THEOREM ChannelsAreServed == Spec => []NoOrphanedChannel
  BY Accounting, IInvNoOrphan, PTL

--------------------
(* No item is lost and none is in two places: ExactlyOnePlace, for every *)
(* number of items, scopes and interrupts. *)
(*  *)
(* Every sequence an item can be in is a box: the hands of a caller, the *)
(* channels, the parked senders, the burst, the held dispatch and the *)
(* trailing messages of a worker, the dispatches an interrupt has taken *)
(* out.  Nearly every step moves the head of one box to the end of *)
(* another, or drops the head of one box and settles the item.  Placed *)
(* says that the boxes are disjoint and free of duplicates and hold the *)
(* open items; MoveKeeps and RemoveKeeps say that such steps keep it so. *)
NoDup(q) == \A k, l \in DOMAIN q : q[k] = q[l] => k = l

\* What a caller has in hand, what trails behind the message being handed back, and
\* the dispatches the interrupt has yet to put back.
InHand(g) == IF snd[g] \in {"new", "full"} THEN <<Offers(g)>> ELSE <<>>
Trail(st) == IF wk[st].pc = "await" THEN Tail(wk[st].back) ELSE wk[st].back
TakenOut == IF dr.pc = "parked" THEN Tail(dr.back) ELSE dr.back

Sending(g) == <<"sender", g>>
Chan(st) == <<"ch", st>>
SendQ(st) == <<"sendq", st>>
Burst(st) == <<"burst", st>>
Held(st) == <<"held", st>>
Back(st) == <<"back", st>>
DrainBox == <<"drain", NoState>>

Boxes == {Sending(g) : g \in Callers} \cup {Chan(st) : st \in States}
           \cup {SendQ(st) : st \in States} \cup {Burst(st) : st \in States}
           \cup {Held(st) : st \in States} \cup {Back(st) : st \in States}
           \cup {DrainBox}

Content(c) ==
    CASE c[1] = "sender" -> InHand(c[2])
      [] c[1] = "ch" -> ch[c[2]]
      [] c[1] = "sendq" -> sendq[c[2]]
      [] c[1] = "burst" -> wk[c[2]].burst
      [] c[1] = "held" -> wk[c[2]].held
      [] c[1] = "back" -> Trail(c[2])
      [] c[1] = "drain" -> TakenOut

Box == [c \in Boxes |-> Content(c)]

Distinct(B) ==
    /\ \A c \in Boxes : NoDup(B[c])
    /\ \A c, d \in Boxes : \A i \in Items : i \in Elems(B[c]) /\ i \in Elems(B[d]) => c = d

Has(B, i) == \E c \in Boxes : i \in Elems(B[c])

\* The boxes hold the open items, each of them once.
Placed == Distinct(Box) /\ \A i \in Items : fate[i] = "open" <=> Has(Box, i)

\* Which of a worker's boxes can be full, by where the worker is.
Shapes ==
    /\ \A st \in States :
         /\ wk[st].burst # <<>> <=> wk[st].pc \in {"popped", "drain", "turn", "run"}
         /\ wk[st].held # <<>> =>
              wk[st].pc \in {"turn", "run", "ended", "trail", "await", "settle"}
         /\ wk[st].back # <<>> => wk[st].pc \in {"run", "ended", "trail", "await"}
         /\ Len(wk[st].burst) <= BurstMax
    /\ dr.pc \in {"idle", "latch", "pick"} => dr.back = <<>>

PInv == IInv /\ Shapes /\ Placed

--------------------
(* Sequences without duplicates *)

LEMMA ElemsEmpty == Elems(<<>>) = {} /\ NoDup(<<>>)
  BY DEF Elems, NoDup

LEMMA ElemsOne == ASSUME NEW x PROVE Elems(<<x>>) = {x} /\ NoDup(<<x>>)
  BY DEF Elems, NoDup

LEMMA ElemsSome == ASSUME NEW S, NEW q \in Seq(S), q # <<>> PROVE Elems(q) # {}
<1>1. 1 \in DOMAIN q
  OBVIOUS
<1> QED
  BY <1>1 DEF Elems

LEMMA ElemsSub == ASSUME NEW S, NEW q \in Seq(S) PROVE Elems(q) \subseteq S
  BY DEF Elems

LEMMA ElemsTail ==
    ASSUME NEW S, NEW q \in Seq(S), q # <<>>, NoDup(q)
    PROVE  /\ Head(q) \in Elems(q)
           /\ Elems(Tail(q)) = Elems(q) \ {Head(q)}
           /\ NoDup(Tail(q))
<1>1. /\ Tail(q) \in Seq(S) /\ Len(Tail(q)) = Len(q) - 1 /\ Len(q) \in Nat /\ Len(q) # 0
      /\ Head(q) = q[1] /\ DOMAIN q = 1 .. Len(q) /\ DOMAIN Tail(q) = 1 .. (Len(q) - 1)
      /\ \A k \in 1 .. (Len(q) - 1) : Tail(q)[k] = q[k + 1]
  OBVIOUS
<1> DEFINE t == Tail(q)
<1> HIDE DEF t
<1>2. NoDup(t)
  BY <1>1 DEF NoDup, t
<1>3. Head(q) \in Elems(q)
  BY <1>1 DEF Elems
<1>4. \A x \in Elems(t) : x \in Elems(q) /\ x # Head(q)
  BY <1>1 DEF Elems, NoDup, t
<1>5. \A x \in Elems(q) : x # Head(q) => x \in Elems(t)
  <2> SUFFICES ASSUME NEW k \in 1 .. Len(q), q[k] # Head(q) PROVE q[k] \in Elems(t)
    BY <1>1 DEF Elems
  <2>1. k - 1 \in 1 .. (Len(q) - 1) /\ t[k - 1] = q[k]
    BY <1>1 DEF t
  <2> QED
    BY <1>1, <2>1 DEF Elems, t
<1> QED
  BY <1>2, <1>3, <1>4, <1>5 DEF t

LEMMA ElemsAppend ==
    ASSUME NEW S, NEW q \in Seq(S), NEW x \in S
    PROVE  /\ Elems(Append(q, x)) = Elems(q) \cup {x}
           /\ NoDup(q) /\ x \notin Elems(q) => NoDup(Append(q, x))
<1> DEFINE a == Append(q, x)
<1>1. /\ Len(q) \in Nat /\ DOMAIN q = 1 .. Len(q) /\ DOMAIN a = 1 .. (Len(q) + 1)
      /\ \A k \in 1 .. Len(q) : a[k] = q[k]
      /\ a[Len(q) + 1] = x
  OBVIOUS
<1> HIDE DEF a
<1>2. \A y \in Elems(a) : y \in Elems(q) \/ y = x
  BY <1>1 DEF Elems
<1>3. \A y \in Elems(q) : y \in Elems(a)
  BY <1>1 DEF Elems
<1>4. x \in Elems(a)
  BY <1>1 DEF Elems
<1>5. NoDup(q) /\ x \notin Elems(q) => NoDup(a)
  BY <1>1 DEF NoDup, Elems
<1> QED
  BY <1>2, <1>3, <1>4, <1>5 DEF a

\* An element taken out of the middle, and a sequence cut in two.
LEMMA ElemsWithout ==
    ASSUME NEW S, NEW q \in Seq(S), NEW k \in DOMAIN q, NoDup(q)
    PROVE  LET r == SubSeq(q, 1, k - 1) \o SubSeq(q, k + 1, Len(q))
           IN  r \in Seq(S) /\ NoDup(r) /\ Elems(r) = Elems(q) \ {q[k]}
<1> DEFINE l == SubSeq(q, 1, k - 1)
           m == SubSeq(q, k + 1, Len(q))
           r == l \o m
           n == Len(q)
<1>1. n \in Nat /\ DOMAIN q = 1 .. n /\ k \in 1 .. n
  OBVIOUS
<1>2. /\ l \in Seq(S) /\ Len(l) = k - 1 /\ \A j \in 1 .. (k - 1) : l[j] = q[j]
      /\ m \in Seq(S) /\ Len(m) = n - k /\ \A j \in 1 .. (n - k) : m[j] = q[j + k]
  BY <1>1, SMTT(40)
<1> HIDE DEF l, m, n
<1>3. /\ r \in Seq(S) /\ Len(r) = Len(l) + Len(m) /\ DOMAIN r = 1 .. (Len(l) + Len(m))
      /\ \A j \in 1 .. (Len(l) + Len(m)) :
           r[j] = IF j <= Len(l) THEN l[j] ELSE m[j - Len(l)]
  <2>1. l \in Seq(S) /\ m \in Seq(S)
    BY <1>2
  <2>2. /\ r \in Seq(S) /\ Len(r) = Len(l) + Len(m)
        /\ \A j \in 1 .. (Len(l) + Len(m)) :
             r[j] = IF j <= Len(l) THEN l[j] ELSE m[j - Len(l)]
    BY <2>1, ConcatProperties, Zenon
  <2> HIDE DEF r
  <2>3. DOMAIN r = 1 .. Len(r)
    BY <2>2
  <2> QED
    BY <2>2, <2>3
<1> HIDE DEF r
<1>4. DOMAIN r = 1 .. (n - 1)
  BY <1>1, <1>2, <1>3
<1>5. \A j \in 1 .. (n - 1) : r[j] = IF j < k THEN q[j] ELSE q[j + 1]
  <2> SUFFICES ASSUME NEW j \in 1 .. (n - 1) PROVE r[j] = IF j < k THEN q[j] ELSE q[j + 1]
    OBVIOUS
  <2>1. CASE j < k
    BY <1>1, <1>2, <2>1, <1>3
  <2>2. CASE ~(j < k)
    <3>1. /\ j \in 1 .. (Len(l) + Len(m)) /\ ~(j <= Len(l))
          /\ j - Len(l) \in 1 .. (n - k) /\ (j - Len(l)) + k = j + 1
      BY <1>1, <1>2, <2>2
    <3> QED
      BY <1>2, <1>3, <2>2, <3>1
  <2> QED
    BY <2>1, <2>2
<1> DEFINE o(j) == IF j < k THEN j ELSE j + 1
<1>10. \A j \in 1 .. (n - 1) : o(j) \in 1 .. n /\ o(j) # k /\ r[j] = q[o(j)]
  BY <1>1, <1>5
<1>11. \A j, h \in 1 .. (n - 1) : o(j) = o(h) => j = h
  BY <1>1
<1> HIDE DEF o
<1>6. NoDup(r)
  BY <1>1, <1>4, <1>10, <1>11 DEF NoDup
<1>7. \A x \in Elems(r) : x \in Elems(q) /\ x # q[k]
  BY <1>1, <1>4, <1>10 DEF Elems, NoDup
<1>8. \A x \in Elems(q) : x # q[k] => x \in Elems(r)
  <2> SUFFICES ASSUME NEW j \in 1 .. n, q[j] # q[k] PROVE q[j] \in Elems(r)
    BY <1>1 DEF Elems
  <2>1. CASE j < k
    BY <1>1, <1>4, <1>5, <2>1 DEF Elems
  <2>2. CASE j > k
    <3>1. j - 1 \in 1 .. (n - 1) /\ ~(j - 1 < k) /\ (j - 1) + 1 = j
      BY <1>1, <2>2
    <3>2. r[j - 1] = q[j]
      BY <1>5, <3>1
    <3> QED
      BY <1>4, <3>1, <3>2 DEF Elems
  <2> QED
    BY <1>1, <2>1, <2>2
<1>9. r \in Seq(S) /\ NoDup(r) /\ Elems(r) = Elems(q) \ {q[k]}
  BY <1>3, <1>6, <1>7, <1>8
<1> QED
  BY <1>9 DEF r, l, m, n

LEMMA ElemsCut ==
    ASSUME NEW S, NEW q \in Seq(S), NEW k \in Nat, k <= Len(q), NoDup(q)
    PROVE  /\ NoDup(SubSeq(q, 1, k)) /\ NoDup(SubSeq(q, k + 1, Len(q)))
           /\ Elems(SubSeq(q, 1, k)) \cup Elems(SubSeq(q, k + 1, Len(q))) = Elems(q)
           /\ Elems(SubSeq(q, 1, k)) \cap Elems(SubSeq(q, k + 1, Len(q))) = {}
<1> DEFINE l == SubSeq(q, 1, k)
           m == SubSeq(q, k + 1, Len(q))
           n == Len(q)
<1>1. n \in Nat /\ DOMAIN q = 1 .. n /\ k <= n
  OBVIOUS
<1>2. /\ DOMAIN l = 1 .. k /\ \A j \in 1 .. k : l[j] = q[j]
      /\ DOMAIN m = 1 .. (n - k) /\ \A j \in 1 .. (n - k) : m[j] = q[j + k]
  BY <1>1
<1> HIDE DEF l, m, n
<1>3. NoDup(l) /\ NoDup(m)
  <2>1. NoDup(m)
    BY <1>1, <1>2, SMTT(40) DEF NoDup
  <2>2. \A i, j \in 1 .. k : i \in DOMAIN q /\ j \in DOMAIN q
    BY <1>1
  <2>3. \A i, j \in 1 .. k : l[i] = l[j] => i = j
    BY <1>2, <2>2 DEF NoDup
  <2>4. NoDup(l)
    BY <1>2, <2>3 DEF NoDup
  <2> QED
    BY <2>1, <2>4
<1>4. \A x \in Elems(l) : x \in Elems(q)
  BY <1>1, <1>2 DEF Elems
<1>5. \A x \in Elems(m) : x \in Elems(q) /\ x \notin Elems(l)
  BY <1>1, <1>2, SMTT(40) DEF Elems, NoDup
<1>6. \A x \in Elems(q) : x \in Elems(l) \/ x \in Elems(m)
  <2> SUFFICES ASSUME NEW j \in 1 .. n PROVE q[j] \in Elems(l) \/ q[j] \in Elems(m)
    BY <1>1 DEF Elems
  <2>1. CASE j <= k
    BY <1>1, <1>2, <2>1, SMTT(40) DEF Elems
  <2>2. CASE ~(j <= k)
    <3>1. j - k \in 1 .. (n - k) /\ (j - k) + k = j
      BY <1>1, <2>2
    <3>2. m[j - k] = q[j]
      BY <1>2, <3>1
    <3> QED
      BY <1>2, <3>1, <3>2 DEF Elems
  <2> QED
    BY <2>1, <2>2
<1>7. NoDup(l) /\ NoDup(m) /\ Elems(l) \cup Elems(m) = Elems(q) /\ Elems(l) \cap Elems(m) = {}
  BY <1>3, <1>4, <1>5, <1>6
<1> QED
  BY <1>7 DEF l, m, n

--------------------
(* Boxes *)

\* The head of the box a goes to the end of the box b; the items S leave the box a.
Moves(B, C, a, b) ==
    /\ B \in [Boxes -> Seq(Items)] /\ C \in [Boxes -> Seq(Items)]
    /\ a \in Boxes /\ b \in Boxes /\ a # b /\ B[a] # <<>>
    /\ C[a] = Tail(B[a]) /\ C[b] = Append(B[b], Head(B[a]))
    /\ \A c \in Boxes : c # a /\ c # b => C[c] = B[c]

Removes(B, C, a, S) ==
    /\ B \in [Boxes -> Seq(Items)] /\ C \in [Boxes -> Seq(Items)]
    /\ a \in Boxes /\ S \subseteq Elems(B[a])
    /\ Elems(C[a]) = Elems(B[a]) \ S /\ NoDup(C[a])
    /\ \A c \in Boxes : c # a => C[c] = B[c]

LEMMA MoveKeeps ==
    ASSUME NEW B, NEW C, NEW a, NEW b, Moves(B, C, a, b), Distinct(B)
    PROVE  /\ Distinct(C)
           /\ \A i \in Items : Has(C, i) <=> Has(B, i)
           /\ \A c \in Boxes : \A i \in Elems(C[c]) :
                i \in Elems(B[c]) \/ (c = b /\ i = Head(B[a]))
<1> USE DEF Moves
<1> DEFINE h == Head(B[a])
<1>1. B[a] \in Seq(Items) /\ B[b] \in Seq(Items) /\ NoDup(B[a]) /\ NoDup(B[b])
  BY DEF Distinct
<1>2. h \in Elems(B[a]) /\ Elems(C[a]) = Elems(B[a]) \ {h} /\ NoDup(C[a]) /\ h \in Items
  BY <1>1, SeqFacts, ElemsTail
<1> HIDE DEF h
<1>3. h \notin Elems(B[b])
  BY <1>2 DEF Distinct
<1>4. Elems(C[b]) = Elems(B[b]) \cup {h} /\ NoDup(C[b])
  BY <1>1, <1>2, ElemsAppend, <1>3 DEF h
<1>5. \A c \in Boxes : NoDup(C[c])
  BY <1>2, <1>4 DEF Distinct
<1>6. \A c \in Boxes : c # a /\ c # b => Elems(C[c]) = Elems(B[c])
  OBVIOUS
<1>7. \A c, d \in Boxes : \A i \in Items : i \in Elems(C[c]) /\ i \in Elems(C[d]) => c = d
  BY <1>2, <1>6, <1>4 DEF Distinct
<1>8. \A i \in Items : Has(C, i) <=> Has(B, i)
  BY <1>2, <1>4, <1>6 DEF Has
<1>9. \A c \in Boxes : \A i \in Elems(C[c]) : i \in Elems(B[c]) \/ (c = b /\ i = h)
  BY <1>2, <1>4, <1>6
<1> QED
  BY <1>5, <1>7, <1>8, <1>9 DEF Distinct, h

\* Items of one box taken away.
LEMMA RemoveKeeps ==
    ASSUME NEW B, NEW C, NEW a, NEW S, Removes(B, C, a, S), Distinct(B)
    PROVE  /\ Distinct(C)
           /\ \A i \in Items : Has(C, i) <=> Has(B, i) /\ i \notin S
           /\ \A c \in Boxes : \A i \in Elems(C[c]) : i \in Elems(B[c])
<1> USE DEF Removes
<1>1. \A c \in Boxes : c # a => Elems(C[c]) = Elems(B[c])
  OBVIOUS
<1>2. \A c \in Boxes : \A i \in Elems(C[c]) : i \in Elems(B[c])
  BY <1>1
<1>3. \A c \in Boxes : NoDup(C[c])
  BY DEF Distinct
<1>4. Distinct(C)
  BY <1>2, <1>3 DEF Distinct
<1>5. \A i \in Items : Has(C, i) <=> Has(B, i) /\ i \notin S
  BY <1>1 DEF Distinct, Has
<1> QED
  BY <1>2, <1>4, <1>5

\* The box a is emptied into the empty box b, but for the items S.
Transfers(B, C, a, b, S) ==
    /\ B \in [Boxes -> Seq(Items)] /\ C \in [Boxes -> Seq(Items)]
    /\ a \in Boxes /\ b \in Boxes /\ a # b /\ S \subseteq Elems(B[a])
    /\ B[b] = <<>> /\ C[a] = <<>> /\ Elems(C[b]) = Elems(B[a]) \ S /\ NoDup(C[b])
    /\ \A c \in Boxes : c # a /\ c # b => C[c] = B[c]

LEMMA TransferKeeps ==
    ASSUME NEW B, NEW C, NEW a, NEW b, NEW S, Transfers(B, C, a, b, S), Distinct(B)
    PROVE  /\ Distinct(C)
           /\ \A i \in Items : Has(C, i) <=> Has(B, i) /\ i \notin S
           /\ \A c \in Boxes : \A i \in Elems(C[c]) :
                i \in Elems(B[c]) \/ (c = b /\ i \in Elems(B[a]))
<1> USE DEF Transfers
<1>1. \A c \in Boxes : c # a /\ c # b => Elems(C[c]) = Elems(B[c])
  OBVIOUS
<1>2. Elems(C[a]) = {} /\ Elems(B[b]) = {} /\ NoDup(C[a])
  BY ElemsEmpty
<1>3. \A c \in Boxes : NoDup(C[c])
  BY <1>2 DEF Distinct
<1>4. \A c \in Boxes : \A i \in Elems(C[c]) :
        i \in Elems(B[c]) \/ (c = b /\ i \in Elems(B[a]))
  BY <1>1, <1>2
<1>5. \A c, d \in Boxes : \A i \in Items : i \in Elems(C[c]) /\ i \in Elems(C[d]) => c = d
  BY <1>1, <1>2, <1>4 DEF Distinct
<1>6. \A i \in Items : Has(C, i) <=> Has(B, i) /\ i \notin S
  BY <1>1, <1>2 DEF Distinct, Has
<1> QED
  BY <1>3, <1>4, <1>5, <1>6 DEF Distinct

\* The box a is shared out between itself and the empty box b.
Splits(B, C, a, b) ==
    /\ B \in [Boxes -> Seq(Items)] /\ C \in [Boxes -> Seq(Items)]
    /\ a \in Boxes /\ b \in Boxes /\ a # b /\ B[b] = <<>>
    /\ Elems(C[a]) \cup Elems(C[b]) = Elems(B[a]) /\ Elems(C[a]) \cap Elems(C[b]) = {}
    /\ NoDup(C[a]) /\ NoDup(C[b])
    /\ \A c \in Boxes : c # a /\ c # b => C[c] = B[c]

LEMMA SplitKeeps ==
    ASSUME NEW B, NEW C, NEW a, NEW b, Splits(B, C, a, b), Distinct(B)
    PROVE  /\ Distinct(C)
           /\ \A i \in Items : Has(C, i) <=> Has(B, i)
           /\ \A c \in Boxes : \A i \in Elems(C[c]) :
                i \in Elems(B[c]) \/ (c = b /\ i \in Elems(B[a]))
<1> USE DEF Splits
<1>1. \A c \in Boxes : c # a /\ c # b => Elems(C[c]) = Elems(B[c])
  OBVIOUS
<1>2. Elems(B[b]) = {}
  BY ElemsEmpty
<1>3. \A c \in Boxes : NoDup(C[c])
  BY DEF Distinct
<1>4. \A c \in Boxes : \A i \in Elems(C[c]) :
        i \in Elems(B[c]) \/ (c = b /\ i \in Elems(B[a]))
  BY <1>1, <1>2
<1>5. \A c, d \in Boxes : \A i \in Items : i \in Elems(C[c]) /\ i \in Elems(C[d]) => c = d
  BY <1>1, <1>2, <1>4 DEF Distinct
<1>6. \A i \in Items : Has(C, i) <=> Has(B, i)
  BY <1>1, <1>2 DEF Distinct, Has
<1> QED
  BY <1>3, <1>4, <1>5, <1>6 DEF Distinct

LEMMA BoxMembers ==
    /\ \A g \in Callers : Sending(g) \in Boxes
    /\ \A st \in States : /\ Chan(st) \in Boxes /\ SendQ(st) \in Boxes /\ Burst(st) \in Boxes
                          /\ Held(st) \in Boxes /\ Back(st) \in Boxes
    /\ DrainBox \in Boxes
    /\ \A c \in Boxes : \/ \E g \in Callers : c = Sending(g)
                        \/ \E st \in States : c \in {Chan(st), SendQ(st), Burst(st), Held(st), Back(st)}
                        \/ c = DrainBox
  BY DEF Boxes

LEMMA BoxAt ==
    /\ \A g \in Callers : Box[Sending(g)] = InHand(g)
    /\ \A st \in States : /\ Box[Chan(st)] = ch[st] /\ Box[SendQ(st)] = sendq[st]
                          /\ Box[Burst(st)] = wk[st].burst /\ Box[Held(st)] = wk[st].held
                          /\ Box[Back(st)] = Trail(st)
    /\ Box[DrainBox] = TakenOut
<1>1. \A c \in Boxes : Box[c] = Content(c)
  BY DEF Box
<1>2. /\ \A g \in Callers : Content(Sending(g)) = InHand(g)
  BY DEF Content, Sending
<1>3. \A st \in States : /\ Content(Chan(st)) = ch[st] /\ Content(SendQ(st)) = sendq[st]
                         /\ Content(Burst(st)) = wk[st].burst /\ Content(Held(st)) = wk[st].held
                         /\ Content(Back(st)) = Trail(st)
  BY DEF Content, Chan, SendQ, Burst, Held, Back
<1>4. Content(DrainBox) = TakenOut
  BY DEF Content, DrainBox
<1> QED
  BY <1>1, <1>2, <1>3, <1>4, BoxMembers

LEMMA BoxAtNext ==
    /\ \A g \in Callers : Box'[Sending(g)] = InHand(g)'
    /\ \A st \in States : /\ Box'[Chan(st)] = ch'[st] /\ Box'[SendQ(st)] = sendq'[st]
                          /\ Box'[Burst(st)] = wk'[st].burst /\ Box'[Held(st)] = wk'[st].held
                          /\ Box'[Back(st)] = Trail(st)'
    /\ Box'[DrainBox] = TakenOut'
<1>1. \A c \in Boxes : Box'[c] = Content(c)'
  BY DEF Box
<1>2. /\ \A g \in Callers : Content(Sending(g))' = InHand(g)'
  BY DEF Content, Sending
<1>3. \A st \in States : /\ Content(Chan(st))' = ch'[st] /\ Content(SendQ(st))' = sendq'[st]
                         /\ Content(Burst(st))' = wk'[st].burst /\ Content(Held(st))' = wk'[st].held
                         /\ Content(Back(st))' = Trail(st)'
  BY DEF Content, Chan, SendQ, Burst, Held, Back
<1>4. Content(DrainBox)' = TakenOut'
  BY DEF Content, DrainBox
<1> QED
  BY <1>1, <1>2, <1>3, <1>4, BoxMembers

LEMMA BoxNames ==
    /\ \A g \in Callers, st \in States :
         Sending(g) \notin {Chan(st), SendQ(st), Burst(st), Held(st), Back(st), DrainBox}
    /\ \A s, t \in States :
         /\ Chan(s) \notin {SendQ(t), Burst(t), Held(t), Back(t), DrainBox}
         /\ SendQ(s) \notin {Burst(t), Held(t), Back(t), DrainBox}
         /\ Burst(s) \notin {Held(t), Back(t), DrainBox}
         /\ Held(s) \notin {Back(t), DrainBox}
         /\ Back(s) # DrainBox
         /\ s # t => /\ Chan(s) # Chan(t) /\ SendQ(s) # SendQ(t) /\ Burst(s) # Burst(t)
                     /\ Held(s) # Held(t) /\ Back(s) # Back(t)
    /\ \A g, h \in Callers : g # h => Sending(g) # Sending(h)
  BY DEF Sending, Chan, SendQ, Burst, Held, Back, DrainBox

LEMMA BoxType == ASSUME IInv PROVE Box \in [Boxes -> Seq(Items)]
<1>1. \A g \in Callers : InHand(g) \in Seq(Items)
  BY OffersType DEF IInv, InHand
<1>2. Seq(Msgs) \subseteq Seq(Items) /\ Seq(Disps) \subseteq Seq(Items)
  BY DEF Items
<1>3. \A st \in States : /\ ch[st] \in Seq(Items) /\ sendq[st] \in Seq(Items)
                         /\ wk[st].burst \in Seq(Items) /\ wk[st].held \in Seq(Items)
                         /\ wk[st].back \in Seq(Msgs)
  BY <1>2, WorkerFields DEF IInv, Types
<1>4. \A st \in States : Trail(st) \in Seq(Items)
  BY <1>2, WorkerFields, <1>3, SeqFacts DEF IInv, Trail
<1>5. TakenOut \in Seq(Items)
  BY DrainFields, SeqFacts, <1>2 DEF IInv, Drainer, TakenOut
<1>6. \A c \in Boxes : Box[c] \in Seq(Items)
  BY <1>1, <1>3, <1>4, <1>5, BoxAt, BoxMembers, ZenonT(40)
<1> QED
  BY <1>6 DEF Box

--------------------
(* What a step does to the boxes *)

\* The boxes of which no part changes.
LEMMA BoxFrame ==
    ASSUME NEW T,
           \A g \in Callers : Sending(g) \notin T => InHand(g)' = InHand(g),
           \A st \in States :
             /\ Chan(st) \notin T => ch'[st] = ch[st]
             /\ SendQ(st) \notin T => sendq'[st] = sendq[st]
             /\ Burst(st) \notin T => wk'[st].burst = wk[st].burst
             /\ Held(st) \notin T => wk'[st].held = wk[st].held
             /\ Back(st) \notin T => Trail(st)' = Trail(st),
           DrainBox \notin T => TakenOut' = TakenOut
    PROVE  \A c \in Boxes : c \notin T => Box'[c] = Box[c]
  BY BoxMembers, BoxAt, BoxAtNext

LEMMA BoxTypeInv == IInv => Box \in [Boxes -> Seq(Items)]
  BY BoxType

LEMMA BoxTypePrime == IInv' => (Box \in [Boxes -> Seq(Items)])'
  BY BoxTypeInv, PTL

LEMMA BoxTypeNext == ASSUME IInv' PROVE Box' \in [Boxes -> Seq(Items)]
  BY BoxTypePrime

LEMMA PlacedNext ==
    ASSUME NEW C, C = Box', Distinct(C), \A i \in Items : fate'[i] = "open" <=> Has(C, i)
    PROVE  Placed'
  BY DEF Placed, Distinct, Has, NoDup, Elems

LEMMA PlacedSame ==
    ASSUME Placed, UNCHANGED fate, \A c \in Boxes : Box'[c] = Box[c]
    PROVE  Placed'
<1>1. Box' = Box
  BY DEF Box
<1> QED
  BY <1>1 DEF Placed, Distinct, Has

LEMMA PlacedMove ==
    ASSUME IInv, IInv', Placed, UNCHANGED fate, NEW a \in Boxes, NEW b \in Boxes, a # b,
           Box[a] # <<>>, Box'[a] = Tail(Box[a]), Box'[b] = Append(Box[b], Head(Box[a])),
           \A c \in Boxes : c \notin {a, b} => Box'[c] = Box[c]
    PROVE  /\ Placed'
           /\ \A c \in Boxes : \A i \in Elems(Box'[c]) :
                i \in Elems(Box[c]) \/ (c = b /\ i = Head(Box[a]))
<1> DEFINE B == Box
           C == Box'
<1>1. B \in [Boxes -> Seq(Items)] /\ C \in [Boxes -> Seq(Items)] /\ Distinct(B)
  BY BoxType, BoxTypeNext DEF Placed
<1>2. /\ B[a] # <<>> /\ C[a] = Tail(B[a]) /\ C[b] = Append(B[b], Head(B[a]))
      /\ \A c \in Boxes : c # a /\ c # b => C[c] = B[c]
  OBVIOUS
<1> HIDE DEF B, C
<1>0. Moves(B, C, a, b)
  BY <1>1, <1>2 DEF Moves
<1>3. /\ Distinct(C)
      /\ \A i \in Items : Has(C, i) <=> Has(B, i)
      /\ \A c \in Boxes : \A i \in Elems(C[c]) : i \in Elems(B[c]) \/ (c = b /\ i = Head(B[a]))
  BY <1>0, <1>1, MoveKeeps, Zenon
<1>4. \A i \in Items : fate'[i] = "open" <=> Has(C, i)
  BY <1>3 DEF Placed, B
<1>5. Placed'
  BY <1>3, <1>4, PlacedNext DEF C
<1> QED
  BY <1>3, <1>5 DEF B, C

\* The items S leave the box a and are settled.
LEMMA PlacedRemove ==
    ASSUME IInv, IInv', Placed, NEW a \in Boxes, NEW S, S \subseteq Elems(Box[a]),
           Elems(Box'[a]) = Elems(Box[a]) \ S, NoDup(Box'[a]),
           \A c \in Boxes : c # a => Box'[c] = Box[c],
           \A i \in Items : fate'[i] = "open" <=> fate[i] = "open" /\ i \notin S
    PROVE  /\ Placed'
           /\ \A c \in Boxes : \A i \in Elems(Box'[c]) : i \in Elems(Box[c])
<1> DEFINE B == Box
           C == Box'
<1>1. B \in [Boxes -> Seq(Items)] /\ C \in [Boxes -> Seq(Items)] /\ Distinct(B)
  BY BoxType, BoxTypeNext DEF Placed
<1>2. /\ S \subseteq Elems(B[a]) /\ Elems(C[a]) = Elems(B[a]) \ S /\ NoDup(C[a])
      /\ \A c \in Boxes : c # a => C[c] = B[c]
  OBVIOUS
<1> HIDE DEF B, C
<1>0. Removes(B, C, a, S)
  BY <1>1, <1>2 DEF Removes
<1>3. /\ Distinct(C)
      /\ \A i \in Items : Has(C, i) <=> Has(B, i) /\ i \notin S
      /\ \A c \in Boxes : \A i \in Elems(C[c]) : i \in Elems(B[c])
  BY <1>0, <1>1, RemoveKeeps, Zenon
<1>4. \A i \in Items : fate'[i] = "open" <=> Has(C, i)
  BY <1>3 DEF Placed, B
<1>5. Placed'
  BY <1>3, <1>4, PlacedNext DEF C
<1> QED
  BY <1>3, <1>5 DEF B, C

\* The box a is emptied into the box b, but for the items S, which are settled.
LEMMA PlacedTransfer ==
    ASSUME IInv, IInv', Placed, NEW a \in Boxes, NEW b \in Boxes, a # b,
           NEW S, S \subseteq Elems(Box[a]), Box[b] = <<>>, Box'[a] = <<>>,
           Elems(Box'[b]) = Elems(Box[a]) \ S, NoDup(Box'[b]),
           \A c \in Boxes : c \notin {a, b} => Box'[c] = Box[c],
           \A i \in Items : fate'[i] = "open" <=> fate[i] = "open" /\ i \notin S
    PROVE  /\ Placed'
           /\ \A c \in Boxes : \A i \in Elems(Box'[c]) :
                i \in Elems(Box[c]) \/ (c = b /\ i \in Elems(Box[a]))
<1> DEFINE B == Box
           C == Box'
<1>1. B \in [Boxes -> Seq(Items)] /\ C \in [Boxes -> Seq(Items)] /\ Distinct(B)
  BY BoxType, BoxTypeNext DEF Placed
<1>2. /\ S \subseteq Elems(B[a]) /\ B[b] = <<>> /\ C[a] = <<>>
      /\ Elems(C[b]) = Elems(B[a]) \ S /\ NoDup(C[b])
      /\ \A c \in Boxes : c # a /\ c # b => C[c] = B[c]
  OBVIOUS
<1> HIDE DEF B, C
<1>0. Transfers(B, C, a, b, S)
  BY <1>1, <1>2 DEF Transfers
<1>3. /\ Distinct(C)
      /\ \A i \in Items : Has(C, i) <=> Has(B, i) /\ i \notin S
      /\ \A c \in Boxes : \A i \in Elems(C[c]) :
           i \in Elems(B[c]) \/ (c = b /\ i \in Elems(B[a]))
  BY <1>0, <1>1, TransferKeeps, ZenonT(60)
<1>4. \A i \in Items : fate'[i] = "open" <=> Has(C, i)
  BY <1>3 DEF Placed, B
<1>5. Placed'
  BY <1>3, <1>4, PlacedNext DEF C
<1> QED
  BY <1>3, <1>5 DEF B, C

\* The box a is shared out between itself and the empty box b.
LEMMA PlacedSplit ==
    ASSUME IInv, IInv', Placed, UNCHANGED fate, NEW a \in Boxes, NEW b \in Boxes, a # b,
           Box[b] = <<>>, Elems(Box'[a]) \cup Elems(Box'[b]) = Elems(Box[a]),
           Elems(Box'[a]) \cap Elems(Box'[b]) = {}, NoDup(Box'[a]), NoDup(Box'[b]),
           \A c \in Boxes : c \notin {a, b} => Box'[c] = Box[c]
    PROVE  /\ Placed'
           /\ \A c \in Boxes : \A i \in Elems(Box'[c]) :
                i \in Elems(Box[c]) \/ (c = b /\ i \in Elems(Box[a]))
<1> DEFINE B == Box
           C == Box'
<1>1. B \in [Boxes -> Seq(Items)] /\ C \in [Boxes -> Seq(Items)] /\ Distinct(B)
  BY BoxType, BoxTypeNext DEF Placed
<1>2. /\ B[b] = <<>> /\ Elems(C[a]) \cup Elems(C[b]) = Elems(B[a])
      /\ Elems(C[a]) \cap Elems(C[b]) = {} /\ NoDup(C[a]) /\ NoDup(C[b])
      /\ \A c \in Boxes : c # a /\ c # b => C[c] = B[c]
  OBVIOUS
<1> HIDE DEF B, C
<1>0. Splits(B, C, a, b)
  BY <1>1, <1>2 DEF Splits
<1>3. /\ Distinct(C)
      /\ \A i \in Items : Has(C, i) <=> Has(B, i)
      /\ \A c \in Boxes : \A i \in Elems(C[c]) :
           i \in Elems(B[c]) \/ (c = b /\ i \in Elems(B[a]))
  BY <1>0, <1>1, SplitKeeps, ZenonT(60)
<1>4. \A i \in Items : fate'[i] = "open" <=> Has(C, i)
  BY <1>3 DEF Placed, B
<1>5. Placed'
  BY <1>3, <1>4, PlacedNext DEF C
<1> QED
  BY <1>3, <1>5 DEF B, C

\* A receive: the head of the channel goes to b, the first parked sender moves up.
LEMMA PlacedReceive ==
    ASSUME IInv, IInv', Placed, UNCHANGED fate, NEW st \in States, ch[st] # <<>>, Receive(st),
           NEW b \in Boxes, b \notin {Chan(st), SendQ(st)},
           Box'[b] = Append(Box[b], Head(ch[st])),
           \A c \in Boxes : c \notin {Chan(st), SendQ(st), b} => Box'[c] = Box[c]
    PROVE  /\ Placed'
           /\ \A c \in Boxes : \A i \in Elems(Box'[c]) :
                \/ i \in Elems(Box[c]) \/ (c = b /\ i = Head(ch[st]))
                \/ c = Chan(st) /\ i \in Elems(sendq[st])
<1> DEFINE x == Chan(st)
           y == SendQ(st)
<1>1. /\ x \in Boxes /\ y \in Boxes /\ x # y
      /\ Box[x] = ch[st] /\ Box[y] = sendq[st] /\ Box'[x] = ch'[st] /\ Box'[y] = sendq'[st]
  BY BoxMembers, BoxNames, BoxAt, BoxAtNext
<1> HIDE DEF x, y
<1>2. Box \in [Boxes -> Seq(Items)] /\ Box' \in [Boxes -> Seq(Items)] /\ Distinct(Box)
  BY BoxType, BoxTypeNext DEF Placed
<1>3. CASE sendq[st] = <<>>
  <2>1. Box'[x] = Tail(Box[x]) /\ Box'[y] = Box[y]
    BY <1>1, <1>3 DEF Receive, IInv, Types
  <2>2. /\ Placed'
        /\ \A c \in Boxes : \A i \in Elems(Box'[c]) :
             i \in Elems(Box[c]) \/ (c = b /\ i = Head(Box[x]))
    <3>1. \A c \in Boxes : c \notin {x, b} => Box'[c] = Box[c]
      BY <2>1 DEF x, y
    <3>2. Box[x] # <<>> /\ Box'[b] = Append(Box[b], Head(Box[x])) /\ x # b
      BY <1>1 DEF x
    <3> QED
      BY <1>1, <2>1, <3>1, <3>2, PlacedMove, Zenon
  <2> QED
    BY <1>1, <2>2
<1>4. CASE sendq[st] # <<>>
  <2>1. /\ Box'[x] = Append(Tail(Box[x]), Head(Box[y])) /\ Box'[y] = Tail(Box[y])
    BY <1>1, <1>4 DEF Receive, IInv, Types
  <2> DEFINE B == Box
             C == [Box EXCEPT ![x] = Tail(@), ![b] = Append(@, Head(ch[st]))]
             D == Box'
  <2>2. C \in [Boxes -> Seq(Items)]
    BY <1>1, <1>2, SeqFacts
  <2>3. b # x /\ b # y
    BY DEF x, y
  <2>4. /\ B[x] # <<>> /\ C[x] = Tail(B[x]) /\ C[b] = Append(B[b], Head(B[x]))
        /\ \A c \in Boxes : c # x /\ c # b => C[c] = B[c]
    BY <1>1, <1>2, <2>3
  <2>5. /\ C[y] # <<>> /\ D[y] = Tail(C[y]) /\ D[x] = Append(C[x], Head(C[y]))
        /\ \A c \in Boxes : c # y /\ c # x => D[c] = C[c]
    BY <1>1, <1>2, <2>3, <2>4, <1>4, <2>1 DEF x, y
  <2>6. B \in [Boxes -> Seq(Items)] /\ D \in [Boxes -> Seq(Items)] /\ Distinct(B)
    BY <1>2
  <2> HIDE DEF B, C, D
  <2>12. Moves(B, C, x, b)
    BY <1>1, <2>2, <2>3, <2>4, <2>6 DEF Moves
  <2>13. Moves(C, D, y, x)
    BY <1>1, <2>2, <2>5, <2>6 DEF Moves
  <2>7. /\ Distinct(C)
        /\ \A i \in Items : Has(C, i) <=> Has(B, i)
        /\ \A c \in Boxes : \A i \in Elems(C[c]) : i \in Elems(B[c]) \/ (c = b /\ i = Head(B[x]))
    BY <2>6, <2>12, MoveKeeps, Zenon
  <2>8. /\ Distinct(D)
        /\ \A i \in Items : Has(D, i) <=> Has(C, i)
        /\ \A c \in Boxes : \A i \in Elems(D[c]) : i \in Elems(C[c]) \/ (c = x /\ i = Head(C[y]))
    BY <2>7, <2>13, MoveKeeps, Zenon
  <2>9. C[y] = B[y] /\ Head(B[y]) \in Elems(B[y])
    BY <1>1, <2>3, <2>4, <1>4, <2>6, ElemsTail DEF Distinct, B
  <2>10. Placed'
    BY <2>7, <2>8, PlacedNext DEF Placed, B, D
  <2>11. \A c \in Boxes : \A i \in Elems(D[c]) :
            \/ i \in Elems(B[c]) \/ (c = b /\ i = Head(B[x]))
            \/ c = x /\ i \in Elems(B[y])
    BY <2>7, <2>8, <2>9
  <2> QED
    BY <1>1, <2>10, <2>11 DEF B, D, x
<1> QED
  BY <1>3, <1>4

\* Whatever is in a box after the step was there before, but for the pairs of X.
MovedOnly(X) == \A c \in Boxes : \A i \in Elems(Box'[c]) : i \in Elems(Box[c]) \/ <<c, i>> \in X

LEMMA HandSame ==
    ASSUME NEW g \in Callers, snd'[g] = snd[g], g \in States => wk'[g].back = wk[g].back
    PROVE  InHand(g)' = InHand(g) /\ Offers(g)' = Offers(g)
BY CallerFacts DEF Offers, InHand

LEMMA TrailSame ==
    ASSUME NEW st \in States, wk'[st].back = wk[st].back,
           wk'[st].pc = "await" <=> wk[st].pc = "await"
    PROVE  Trail(st)' = Trail(st)
  BY DEF Trail

\* Nothing but the sender g and the queues a and b of a state is touched.
LEMMA SenderFrame ==
    ASSUME IInv, NEW g \in Callers, NEW T, Sending(g) \in T,
           \A x \in Callers : x # g => snd'[x] = snd[x],
           \A st \in States :
             /\ Chan(st) \notin T => ch'[st] = ch[st]
             /\ SendQ(st) \notin T => sendq'[st] = sendq[st],
           UNCHANGED <<wk, dr>>
    PROVE  \A c \in Boxes : c \notin T => Box'[c] = Box[c]
BY HandSame, BoxFrame DEF Trail, TakenOut

LEMMA ShapesSame == ASSUME Shapes, UNCHANGED <<wk, dr>> PROVE Shapes'
  BY DEF Shapes

LEMMA InHandAt ==
    ASSUME IInv, NEW g \in Callers, snd[g] \in {"new", "full"}
    PROVE  /\ Sending(g) \in Boxes /\ Box[Sending(g)] = <<Offers(g)>>
           /\ Box[Sending(g)] # <<>> /\ Head(Box[Sending(g)]) = Offers(g)
           /\ Tail(Box[Sending(g)]) = <<>> /\ Elems(Box[Sending(g)]) = {Offers(g)}
           /\ Offers(g) \in Items
<1>1. Sending(g) \in Boxes /\ Box[Sending(g)] = <<Offers(g)>>
  BY BoxMembers, BoxAt DEF InHand
<1>2. Offers(g) \in Items
  BY OffersType DEF IInv
<1>3. \A x : <<x>> # <<>> /\ Head(<<x>>) = x /\ Tail(<<x>>) = <<>>
  OBVIOUS
<1> QED
  BY <1>1, <1>2, <1>3, ElemsOne

\* A caller that puts down what it has in hand.
LEMMA HandEmpty ==
    ASSUME NEW g \in Callers, snd'[g] \notin {"new", "full"}
    PROVE  Box'[Sending(g)] = <<>>
  BY BoxAtNext DEF InHand

\* A caller refused, or cancelled before it has sent: the item is dropped.
LEMMA SenderDrops ==
    ASSUME PInv, IInv', NEW g \in Callers, snd[g] \in {"new", "full"},
           snd'[g] \notin {"new", "full"}, \A x \in Callers : x # g => snd'[x] = snd[x],
           fate' = [fate EXCEPT ![Offers(g)] = "dropped"],
           UNCHANGED <<ch, sendq, wk, dr>>
    PROVE  Shapes' /\ Placed' /\ MovedOnly({})
<1> DEFINE a == Sending(g)
           S == {Offers(g)}
<1>1. a \in Boxes /\ Elems(Box[a]) = S /\ Offers(g) \in Items
  BY InHandAt DEF PInv
<1>2. Box'[a] = <<>> /\ Elems(Box'[a]) = {} /\ NoDup(Box'[a])
  BY HandEmpty, ElemsEmpty
<1>3. \A c \in Boxes : c \notin {a} => Box'[c] = Box[c]
  BY SenderFrame DEF PInv
<1>4. \A i \in Items : fate'[i] = "open" <=> fate[i] = "open" /\ i \notin S
  BY <1>1 DEF PInv, IInv, Types
<1> HIDE DEF a, S
<1>5. /\ S \subseteq Elems(Box[a]) /\ Elems(Box'[a]) = Elems(Box[a]) \ S
      /\ \A c \in Boxes : c # a => Box'[c] = Box[c]
  BY <1>1, <1>2, <1>3
<1>6. Placed' /\ \A c \in Boxes : \A i \in Elems(Box'[c]) : i \in Elems(Box[c])
  BY <1>1, <1>2, <1>4, <1>5, PlacedRemove DEF PInv
<1> QED
  BY <1>6, ShapesSame DEF PInv, MovedOnly

\* A caller that sends or parks: the item goes to the end of the box b.
LEMMA SenderMoves ==
    ASSUME PInv, IInv', NEW g \in Callers, snd[g] \in {"new", "full"},
           snd'[g] \notin {"new", "full"}, NEW b \in Boxes, b # Sending(g),
           Box'[b] = Append(Box[b], Offers(g)),
           \A c \in Boxes : c \notin {Sending(g), b} => Box'[c] = Box[c],
           UNCHANGED fate
    PROVE  Placed' /\ MovedOnly({<<b, Offers(g)>>})
BY InHandAt, HandEmpty, PlacedMove DEF PInv, MovedOnly

LEMMA EnqueueRefusedPlaces ==
    ASSUME PInv, IInv', NEW g \in Callers, Enqueue(g), pool # "running"
    PROVE  Shapes' /\ Placed' /\ MovedOnly({})
BY SenderDrops DEF Enqueue, PInv, IInv, Types

LEMMA EnqueueStartsPlaces ==
    ASSUME PInv, IInv', NEW g \in Callers, Enqueue(g), pool = "running",
           reg[ScopeOf[Offers(g)]] = 0
    PROVE  /\ Shapes' /\ Placed'
           /\ \E st \in States : /\ st[1] = ScopeOf[Offers(g)]
                                 /\ MovedOnly({<<Chan(st), Offers(g)>>})
<1> DEFINE i == Offers(g)
           s == ScopeOf[i]
           new == <<s, gen[s] + 1>>
<1>1. /\ snd[g] = "new" /\ snd' = [snd EXCEPT ![g] = "done"]
      /\ ch' = [ch EXCEPT ![new] = <<i>>]
      /\ wk' = [wk EXCEPT ![new].pc = "spawn"]
      /\ UNCHANGED <<sendq, dr, fate>>
  BY DEF Enqueue
<1>2. i \in Items /\ s \in Scopes
  BY <1>1, OffersType DEF PInv, IInv
<1>3. gen[s] \in 0 .. MaxGens /\ gen[s] < MaxGens /\ reg[s] = 0
  BY <1>2 DEF PInv, IInv, Types, Registry
<1>4. gen[s] + 1 \in 1 .. MaxGens
  BY <1>3, WorkersAssumption
<1>5. new \in States /\ new[1] = s /\ new[2] # 0
  BY <1>2, <1>4, StateFacts
<1> HIDE DEF new
<1>6. ~Running(new) /\ ch[new] = <<>>
  BY <1>3, <1>5 DEF PInv, IInv, Registry, Channels
<1> HIDE DEF s
<1>7. snd'[g] = "done" /\ \A x \in Callers : x # g => snd'[x] = snd[x]
  BY <1>1 DEF PInv, IInv, Types
<1>8. /\ \A x \in States : x # new => wk'[x] = wk[x] /\ ch'[x] = ch[x]
      /\ ch'[new] = <<i>> /\ wk'[new].pc = "spawn"
      /\ wk'[new].burst = wk[new].burst /\ wk'[new].held = wk[new].held
      /\ wk'[new].back = wk[new].back
  BY <1>1, <1>5, WorkerFields DEF PInv, IInv, Types, Wks
<1>9. wk[new].burst = <<>> /\ wk[new].held = <<>> /\ wk[new].back = <<>>
  BY <1>5, <1>6 DEF Running, PInv, Shapes
<1>10. Shapes'
  BY <1>1, <1>5, <1>8, <1>9 DEF PInv, Shapes
<1>11. \A c \in Boxes : c \notin {Sending(g), Chan(new)} => Box'[c] = Box[c]
  <2> DEFINE T == {Sending(g), Chan(new)}
  <2>1. \A x \in Callers : Sending(x) \notin T => InHand(x)' = InHand(x)
    BY <1>7, <1>8, HandSame
  <2>2. \A st \in States : Trail(st)' = Trail(st)
    BY <1>6, <1>8, TrailSame DEF Running
  <2>3. TakenOut' = TakenOut
    BY <1>1 DEF TakenOut
  <2>4. \A st \in States : /\ Chan(st) \notin T => ch'[st] = ch[st]
                           /\ sendq'[st] = sendq[st] /\ wk'[st].burst = wk[st].burst
                           /\ wk'[st].held = wk[st].held
    BY <1>1, <1>8
  <2> HIDE DEF T
  <2>5. \A c \in Boxes : c \notin T => Box'[c] = Box[c]
    BY <2>1, <2>2, <2>3, <2>4, BoxFrame
  <2> QED
    BY <2>5 DEF T
<1>12. /\ Chan(new) \in Boxes /\ Chan(new) # Sending(g)
       /\ Box'[Chan(new)] = Append(Box[Chan(new)], i)
  <2>1. Append(<<>>, i) = <<i>>
    OBVIOUS
  <2> QED
    BY <1>5, <1>6, <1>8, <2>1, BoxMembers, BoxNames, BoxAt, BoxAtNext, ZenonT(60)
<1>13. Placed' /\ MovedOnly({<<Chan(new), i>>})
  BY <1>1, <1>7, <1>11, <1>12, SenderMoves
<1> QED
  BY <1>5, <1>10, <1>13 DEF s

\* A caller that finds room in the channel of st, and one that parks on it.
LEMMA SenderToChannel ==
    ASSUME PInv, IInv', NEW g \in Callers, snd[g] \in {"new", "full"},
           snd'[g] \notin {"new", "full"}, \A x \in Callers : x # g => snd'[x] = snd[x],
           NEW st \in States, ch' = [ch EXCEPT ![st] = Append(@, Offers(g))],
           UNCHANGED <<sendq, wk, dr, fate>>
    PROVE  Shapes' /\ Placed' /\ MovedOnly({<<Chan(st), Offers(g)>>})
<1>1. /\ Chan(st) \in Boxes /\ Chan(st) # Sending(g)
      /\ Box'[Chan(st)] = Append(Box[Chan(st)], Offers(g))
  <2>1. ch'[st] = Append(ch[st], Offers(g))
    BY DEF PInv, IInv, Types
  <2>2. Box'[Chan(st)] = ch'[st] /\ Box[Chan(st)] = ch[st]
    BY BoxAt, BoxAtNext
  <2> QED
    BY <2>1, <2>2, BoxMembers, BoxNames
<1>2. \A c \in Boxes : c \notin {Sending(g), Chan(st)} => Box'[c] = Box[c]
  BY SenderFrame DEF PInv, IInv, Types
<1> QED
  BY <1>1, <1>2, SenderMoves, ShapesSame DEF PInv

LEMMA SenderToQueue ==
    ASSUME PInv, IInv', NEW g \in Callers, snd[g] \in {"new", "full"},
           snd'[g] \notin {"new", "full"}, \A x \in Callers : x # g => snd'[x] = snd[x],
           NEW st \in States, sendq' = [sendq EXCEPT ![st] = Append(@, Offers(g))],
           UNCHANGED <<ch, wk, dr, fate>>
    PROVE  Shapes' /\ Placed' /\ MovedOnly({<<SendQ(st), Offers(g)>>})
<1>1. /\ SendQ(st) \in Boxes /\ SendQ(st) # Sending(g)
      /\ Box'[SendQ(st)] = Append(Box[SendQ(st)], Offers(g))
  <2>1. sendq'[st] = Append(sendq[st], Offers(g))
    BY DEF PInv, IInv, Types
  <2>2. Box'[SendQ(st)] = sendq'[st] /\ Box[SendQ(st)] = sendq[st]
    BY BoxAt, BoxAtNext
  <2> QED
    BY <2>1, <2>2, BoxMembers, BoxNames
<1>2. \A c \in Boxes : c \notin {Sending(g), SendQ(st)} => Box'[c] = Box[c]
  BY SenderFrame DEF PInv, IInv, Types
<1> QED
  BY <1>1, <1>2, SenderMoves, ShapesSame DEF PInv

\* A caller that changes its state without changing what it has in hand.
LEMMA SenderStays ==
    ASSUME PInv, NEW g \in Callers, snd[g] \in {"new", "full"} <=> snd'[g] \in {"new", "full"},
           \A x \in Callers : x # g => snd'[x] = snd[x], UNCHANGED <<ch, sendq, wk, dr, fate>>
    PROVE  Shapes' /\ Placed' /\ MovedOnly({})
<1>1. \A x \in Callers : InHand(x)' = InHand(x)
  BY HandSame DEF Offers, InHand
<1>2. \A st \in States : Trail(st)' = Trail(st)
  BY DEF Trail
<1>3. TakenOut' = TakenOut
  BY DEF TakenOut
<1> DEFINE T == {}
<1>4. \A c \in Boxes : c \notin T => Box'[c] = Box[c]
  <2> HIDE DEF T
  <2> QED
    BY <1>1, <1>2, <1>3, BoxFrame
<1>5. \A c \in Boxes : Box'[c] = Box[c]
  BY <1>4
<1> QED
  BY <1>5, PlacedSame, ShapesSame DEF PInv, MovedOnly

LEMMA EnqueueSendsPlaces ==
    ASSUME PInv, IInv', NEW g \in Callers, Enqueue(g), pool = "running",
           reg[ScopeOf[Offers(g)]] # 0,
           Room(<<ScopeOf[Offers(g)], reg[ScopeOf[Offers(g)]]>>)
    PROVE  /\ Shapes' /\ Placed'
           /\ \E st \in States : /\ st[1] = ScopeOf[Offers(g)]
                                 /\ MovedOnly({<<Chan(st), Offers(g)>>})
<1> DEFINE i == Offers(g)
           s == ScopeOf[i]
           st == <<s, reg[s]>>
<1>1. /\ snd[g] = "new" /\ snd' = [snd EXCEPT ![g] = "done"]
      /\ ch' = [ch EXCEPT ![st] = Append(@, i)]
      /\ UNCHANGED <<wk, fate, sendq, dr>>
  BY DEF Enqueue
<1>2. i \in Items /\ s \in Scopes
  BY <1>1, OffersType DEF PInv, IInv
<1>3. st \in States /\ st[1] = s
  BY <1>2, StateFacts DEF PInv, IInv, Types
<1>4. snd'[g] = "done" /\ \A x \in Callers : x # g => snd'[x] = snd[x]
  BY <1>1 DEF PInv, IInv, Types
<1> HIDE DEF st, s
<1>5. Shapes' /\ Placed' /\ MovedOnly({<<Chan(st), i>>})
  BY <1>1, <1>3, <1>4, SenderToChannel
<1> QED
  BY <1>3, <1>5 DEF s

LEMMA EnqueueBlocksPlaces ==
    ASSUME PInv, IInv', NEW g \in Callers, Enqueue(g), pool = "running",
           reg[ScopeOf[Offers(g)]] # 0,
           ~Room(<<ScopeOf[Offers(g)], reg[ScopeOf[Offers(g)]]>>)
    PROVE  Shapes' /\ Placed' /\ MovedOnly({})
BY SenderStays DEF Enqueue, PInv, IInv, Types

LEMMA EnqueuePlaces ==
    ASSUME PInv, IInv', NEW g \in Callers, Enqueue(g)
    PROVE  /\ Shapes' /\ Placed'
           /\ \/ MovedOnly({})
              \/ \E st \in States : /\ st[1] = ScopeOf[Offers(g)]
                                    /\ MovedOnly({<<Chan(st), Offers(g)>>})
  BY EnqueueRefusedPlaces, EnqueueStartsPlaces, EnqueueSendsPlaces, EnqueueBlocksPlaces, Zenon

LEMMA SlowSendPlaces ==
    ASSUME PInv, IInv', NEW g \in Callers, SlowSend(g)
    PROVE  /\ Shapes' /\ Placed' /\ at[g] \in States
           /\ MovedOnly({<<Chan(at[g]), Offers(g)>>, <<SendQ(at[g]), Offers(g)>>})
<1>1. snd[g] = "full" /\ UNCHANGED <<wk, dr, fate>>
  BY DEF SlowSend
<1>2. at[g] \in States
  BY <1>1 DEF PInv, IInv, Types, Senders
<1>3. CASE Room(at[g])
  BY <1>3, <1>1, <1>2, SenderToChannel DEF SlowSend, PInv, IInv, Types, MovedOnly
<1>4. CASE ~Room(at[g])
  BY <1>4, <1>1, <1>2, SenderToQueue DEF SlowSend, PInv, IInv, Types, MovedOnly
<1> QED
  BY <1>3, <1>4

LEMMA WakePlaces ==
    ASSUME PInv, NEW g \in Callers, Wake(g) \/ Relock(g)
    PROVE  Shapes' /\ Placed' /\ MovedOnly({})
BY SenderStays DEF Wake, Relock, PInv, IInv, Types

LEMMA GiveUpPlaces ==
    ASSUME PInv, IInv', NEW g \in Callers, GiveUp(g)
    PROVE  Shapes' /\ Placed' /\ MovedOnly({})
<1>1. /\ snd' = [snd EXCEPT ![g] = "sent"] /\ fate' = [fate EXCEPT ![Offers(g)] = "dropped"]
      /\ UNCHANGED <<ch, wk, dr>>
  BY DEF GiveUp
<1>2. snd'[g] = "sent" /\ \A x \in Callers : x # g => snd'[x] = snd[x]
  BY <1>1 DEF PInv, IInv, Types
<1>3. CASE snd[g] = "full" /\ UNCHANGED sendq
  BY <1>1, <1>2, <1>3, SenderDrops
<1>4. CASE snd[g] = "parked" /\ Unpark(g)
  <2> DEFINE st == at[g]
             q == sendq[st]
             S == {Offers(g)}
             a == SendQ(st)
  <2>1. st \in States
    BY <1>4 DEF PInv, IInv, Types, Senders
  <2>2. PICK k \in DOMAIN q :
          /\ q[k] = Offers(g)
          /\ sendq' = [sendq EXCEPT ![st] = SubSeq(q, 1, k - 1) \o SubSeq(q, k + 1, Len(q))]
    BY <1>4 DEF Unpark
  <2> DEFINE r == SubSeq(q, 1, k - 1) \o SubSeq(q, k + 1, Len(q))
  <2>3. q \in Seq(Items) /\ a \in Boxes /\ Box[a] = q /\ Box'[a] = sendq'[st]
    BY <2>1, BoxMembers, BoxAt, BoxAtNext DEF PInv, IInv, Types
  <2>4. NoDup(q) /\ Offers(g) \in Elems(q)
    BY <2>2, <2>3 DEF PInv, Placed, Distinct, Elems
  <2> HIDE DEF q
  <2>5. NoDup(r) /\ Elems(r) = Elems(q) \ {q[k]}
    BY <2>3, <2>4, ElemsWithout, Zenon
  <2> HIDE DEF r
  <2>6. sendq' = [sendq EXCEPT ![st] = r]
    BY <2>2 DEF r
  <2>7. sendq'[st] = r /\ \A x \in States : x # st => sendq'[x] = sendq[x]
    BY <2>1, <2>6 DEF PInv, IInv, Types
  <2>8. \A c \in Boxes : c # a => Box'[c] = Box[c]
    <3> DEFINE T == {a}
    <3>1. \A x \in Callers : Sending(x) \notin T => InHand(x)' = InHand(x)
      BY <1>1, <1>2, HandSame, <1>4 DEF InHand
    <3>2. \A x \in States : Trail(x)' = Trail(x)
      BY <1>1 DEF Trail
    <3>3. TakenOut' = TakenOut
      BY <1>1 DEF TakenOut
    <3>4. \A x \in States : /\ ch'[x] = ch[x] /\ wk'[x] = wk[x]
                            /\ SendQ(x) \notin T => sendq'[x] = sendq[x]
      BY <1>1, <2>7
    <3> HIDE DEF T
    <3>5. \A c \in Boxes : c \notin T => Box'[c] = Box[c]
      BY <3>1, <3>2, <3>3, <3>4, BoxFrame
    <3> QED
      BY <3>5 DEF T
  <2>9. Offers(g) \in Items
    BY <1>4, OffersType DEF PInv, IInv
  <2>10. \A i \in Items : fate'[i] = "open" <=> fate[i] = "open" /\ i \notin S
    BY <1>1, <2>9 DEF PInv, IInv, Types
  <2> HIDE DEF a, S
  <2>11. S \subseteq Elems(Box[a]) /\ Elems(Box'[a]) = Elems(Box[a]) \ S /\ NoDup(Box'[a])
    BY <2>2, <2>3, <2>4, <2>5, <2>7 DEF S
  <2>12. Placed' /\ \A c \in Boxes : \A i \in Elems(Box'[c]) : i \in Elems(Box[c])
    BY <2>3, <2>8, <2>10, <2>11, PlacedRemove DEF PInv
  <2> QED
    BY <1>1, <2>12, ShapesSame DEF PInv, MovedOnly
<1> QED
  BY <1>3, <1>4 DEF GiveUp

--------------------
(* Steps of a worker *)

LEMMA WorkerFrame ==
    ASSUME NEW st \in States, NEW T, \A x \in States : x # st => wk'[x] = wk[x],
           snd[st] = "done", UNCHANGED <<snd, dr>>,
           Burst(st) \notin T => wk'[st].burst = wk[st].burst,
           Held(st) \notin T => wk'[st].held = wk[st].held,
           Back(st) \notin T => Trail(st)' = Trail(st),
           \A x \in States : /\ Chan(x) \notin T => ch'[x] = ch[x]
                             /\ SendQ(x) \notin T => sendq'[x] = sendq[x]
    PROVE  \A c \in Boxes : c \notin T => Box'[c] = Box[c]
BY HandSame, TrailSame, BoxFrame DEF InHand, TakenOut

\* A worker that moves on with all its boxes as they are.
LEMMA WorkerStays ==
    ASSUME PInv, NEW st \in States, \A x \in States : x # st => wk'[x] = wk[x],
           snd[st] = "done", UNCHANGED <<snd, dr, ch, sendq, fate>>,
           wk'[st].burst = wk[st].burst, wk'[st].held = wk[st].held, Trail(st)' = Trail(st)
    PROVE  Placed' /\ MovedOnly({})
<1> DEFINE T == {}
<1>1. \A c \in Boxes : c \notin T => Box'[c] = Box[c]
  <2> HIDE DEF T
  <2> QED
    BY WorkerFrame
<1>2. \A c \in Boxes : Box'[c] = Box[c]
  BY <1>1
<1> QED
  BY <1>2, PlacedSame DEF PInv, MovedOnly

LEMMA GotoFields ==
    ASSUME Types, NEW st \in States, NEW pc, Goto(st, pc)
    PROVE  /\ \A x \in States : x # st => wk'[x] = wk[x]
           /\ wk'[st].pc = pc /\ wk'[st].burst = wk[st].burst
           /\ wk'[st].held = wk[st].held /\ wk'[st].back = wk[st].back
  BY WorkerFields DEF Goto, Types, Wks

LEMMA GotoPlaces ==
    ASSUME PInv, NEW st \in States, NEW pc, pc # "await", Goto(st, pc),
           wk[st].pc # "await", UNCHANGED <<snd, dr, ch, sendq, fate>>,
           wk[st].burst # <<>> <=> pc \in {"popped", "drain", "turn", "run"},
           wk[st].held # <<>> => pc \in {"turn", "trail", "settle"},
           wk[st].back # <<>> => pc = "trail"
    PROVE  Shapes' /\ Placed' /\ MovedOnly({})
<1>1. /\ \A x \in States : x # st => wk'[x] = wk[x]
      /\ wk'[st].pc = pc /\ wk'[st].burst = wk[st].burst
      /\ wk'[st].held = wk[st].held /\ wk'[st].back = wk[st].back
  BY GotoFields DEF PInv, IInv
<1>2. Placed' /\ MovedOnly({})
  BY <1>1, TrailSame, WorkerStays DEF PInv, IInv, Senders
<1>3. Shapes'
  BY <1>1 DEF PInv, Shapes
<1> QED
  BY <1>2, <1>3

LEMMA QuietPlaces ==
    ASSUME PInv, NEW st \in States,
           Spawn(st) \/ IdleTimer(st) \/ WorkerExit(st) \/ TryPruneIdleThread(st)
    PROVE  Shapes' /\ Placed' /\ MovedOnly({})
BY GotoPlaces DEF Spawn, IdleTimer, WorkerExit, TryPruneIdleThread, PInv, Shapes

LEMMA BeginTurnPlaces ==
    ASSUME PInv, NEW st \in States, BeginTurn(st)
    PROVE  Shapes' /\ Placed' /\ MovedOnly({})
BY GotoPlaces DEF BeginTurn, PInv, Shapes

\* The items a receive can move: the head of the channel and the parked ones behind it.
Taken(st, b) == {<<b, Head(ch[st])>>} \cup {<<Chan(st), i>> : i \in Elems(sendq[st])}

\* A worker that receives into one of its boxes.
LEMMA WorkerReceives ==
    ASSUME PInv, IInv', NEW st \in States, \A x \in States : x # st => wk'[x] = wk[x],
           snd[st] = "done", UNCHANGED <<snd, dr, fate>>, ch[st] # <<>>, Receive(st),
           Trail(st)' = Trail(st), NEW b \in {Burst(st), Held(st)},
           Burst(st) # b => wk'[st].burst = wk[st].burst,
           Held(st) # b => wk'[st].held = wk[st].held,
           Box'[b] = Append(Box[b], Head(ch[st]))
    PROVE  Placed' /\ MovedOnly(Taken(st, b))
<1>1. b \in Boxes /\ b \notin {Chan(st), SendQ(st)}
  BY BoxMembers, BoxNames
<1>2. \A x \in States : x # st => ch'[x] = ch[x] /\ sendq'[x] = sendq[x]
  BY DEF Receive, PInv, IInv, Types
<1> DEFINE T == {Chan(st), SendQ(st), b}
<1>3. \A x \in States : /\ Chan(x) \notin T => ch'[x] = ch[x]
                        /\ SendQ(x) \notin T => sendq'[x] = sendq[x]
  BY <1>2
<1>4. /\ Burst(st) \notin T => wk'[st].burst = wk[st].burst
      /\ Held(st) \notin T => wk'[st].held = wk[st].held
  OBVIOUS
<1>5. \A c \in Boxes : c \notin T => Box'[c] = Box[c]
  <2> HIDE DEF T
  <2> QED
    BY <1>3, <1>4, WorkerFrame
<1>6. /\ Placed'
      /\ \A c \in Boxes : \A i \in Elems(Box'[c]) :
           \/ i \in Elems(Box[c]) \/ (c = b /\ i = Head(ch[st]))
           \/ c = Chan(st) /\ i \in Elems(sendq[st])
  BY <1>1, <1>5, PlacedReceive DEF PInv
<1> QED
  BY <1>6 DEF MovedOnly, Taken

LEMMA PopPlaces ==
    ASSUME PInv, IInv', NEW st \in States, Pop(st)
    PROVE  Shapes' /\ Placed' /\ MovedOnly(Taken(st, Burst(st)))
<1> DEFINE h == Head(ch[st])
<1>1. /\ wk' = [wk EXCEPT ![st].pc = "popped", ![st].burst = <<h>>]
      /\ wk[st].pc = "wait" /\ ch[st] # <<>> /\ Receive(st) /\ UNCHANGED <<snd, dr, fate>>
  BY DEF Pop
<1> HIDE DEF h
<1>2. /\ \A x \in States : x # st => wk'[x] = wk[x]
      /\ wk'[st].pc = "popped" /\ wk'[st].burst = <<h>>
      /\ wk'[st].held = wk[st].held /\ wk'[st].back = wk[st].back
  BY <1>1, WorkerFields DEF PInv, IInv, Types, Wks
<1>3. wk[st].burst = <<>> /\ wk[st].held = <<>> /\ wk[st].back = <<>>
  BY <1>1 DEF PInv, Shapes
<1>4. snd[st] = "done" /\ Trail(st)' = Trail(st)
  BY <1>1, <1>2, TrailSame DEF PInv, IInv, Senders
<1>5. <<h>> = Append(<<>>, h) /\ <<h>> # <<>> /\ Len(<<h>>) = 1
  OBVIOUS
<1>6. Shapes'
  <2>1. 1 <= BurstMax
    BY WorkersAssumption
  <2>2. wk'[st].burst # <<>> /\ Len(wk'[st].burst) <= BurstMax
    BY <1>2, <1>5, <2>1
  <2>3. wk'[st].held = <<>> /\ wk'[st].back = <<>>
    BY <1>2, <1>3
  <2> QED
    BY <1>1, <1>2, <2>2, <2>3, ZenonT(60) DEF PInv, Shapes
<1>7. Box'[Burst(st)] = Append(Box[Burst(st)], h) /\ Burst(st) # Held(st)
  BY <1>2, <1>3, <1>5, BoxAt, BoxAtNext, BoxNames
<1> QED
  BY <1>1, <1>2, <1>4, <1>6, <1>7, WorkerReceives DEF h

LEMMA DrainBurstPlaces ==
    ASSUME PInv, IInv', NEW st \in States, DrainBurst(st)
    PROVE  /\ Shapes' /\ Placed'
           /\ \/ /\ wk'[st].pc = "turn" /\ wk'[st].burst = wk[st].burst
                 /\ MovedOnly({}) \/ (ch[st] # <<>> /\ MovedOnly(Taken(st, Held(st))))
              \/ wk'[st].pc = "drain" /\ ch[st] # <<>> /\ MovedOnly(Taken(st, Burst(st)))
<1> DEFINE h == Head(ch[st])
           more == Len(wk[st].burst) < BurstMax /\ ch[st] # <<>>
<1>1. wk[st].pc = "drain" /\ UNCHANGED <<snd, dr, fate>>
  BY DEF DrainBurst
<1>2. wk[st].burst # <<>> /\ wk[st].held = <<>> /\ wk[st].back = <<>> /\ snd[st] = "done"
  BY <1>1 DEF PInv, Shapes, IInv, Senders
<1>3. CASE ~more
  BY <1>3, <1>1, <1>2, GotoPlaces, GotoFields DEF DrainBurst, PInv, IInv
<1>4. CASE more /\ h \in Disps
  <2>1. /\ Receive(st) /\ ch[st] # <<>>
        /\ wk' = [wk EXCEPT ![st] = [wk[st] EXCEPT !.pc = "turn", !.held = <<h>>]]
    BY <1>4 DEF DrainBurst
  <2> HIDE DEF h
  <2>2. /\ \A x \in States : x # st => wk'[x] = wk[x]
        /\ wk'[st].pc = "turn" /\ wk'[st].burst = wk[st].burst
        /\ wk'[st].held = <<h>> /\ wk'[st].back = wk[st].back
    BY <2>1, WorkerFields DEF PInv, IInv, Types, Wks
  <2>3. Trail(st)' = Trail(st)
    BY <1>1, <2>2, TrailSame
  <2>4. <<h>> = Append(<<>>, h)
    OBVIOUS
  <2>5. Shapes'
    BY <1>1, <1>2, <2>2 DEF PInv, Shapes
  <2>6. Box'[Held(st)] = Append(Box[Held(st)], h) /\ Burst(st) # Held(st)
    BY <1>2, <2>2, <2>4, BoxAt, BoxAtNext, BoxNames
  <2>7. Placed' /\ MovedOnly(Taken(st, Held(st)))
    BY <1>1, <1>2, <2>1, <2>2, <2>3, <2>6, WorkerReceives DEF h
  <2> QED
    BY <2>1, <2>2, <2>5, <2>7
<1>5. CASE more /\ h \notin Disps
  <2>1. /\ Receive(st) /\ ch[st] # <<>>
        /\ wk' = [wk EXCEPT ![st] = [wk[st] EXCEPT !.burst = Append(wk[st].burst, h)]]
    BY <1>5 DEF DrainBurst
  <2>2. h \in Items
    BY <2>1, ReceiveKeeps DEF PInv, IInv, DrainBurst
  <2> HIDE DEF h
  <2>3. /\ \A x \in States : x # st => wk'[x] = wk[x]
        /\ wk'[st].pc = "drain" /\ wk'[st].burst = Append(wk[st].burst, h)
        /\ wk'[st].held = wk[st].held /\ wk'[st].back = wk[st].back
    BY <1>1, <2>1, WorkerFields DEF PInv, IInv, Types, Wks
  <2>4. Trail(st)' = Trail(st)
    BY <1>1, <2>3, TrailSame
  <2>5. Append(wk[st].burst, h) # <<>> /\ Len(Append(wk[st].burst, h)) <= BurstMax
    <3>1. wk[st].burst \in Seq(Items)
      BY WorkerFields DEF PInv, IInv, Items
    <3>2. /\ Append(wk[st].burst, h) # <<>> /\ Len(wk[st].burst) \in Nat
          /\ Len(Append(wk[st].burst, h)) = Len(wk[st].burst) + 1
      BY <2>2, <3>1, SeqFacts
    <3> QED
      BY <1>5, <3>2, WorkersAssumption
  <2>6. Shapes'
    BY <1>1, <1>2, <2>3, <2>5 DEF PInv, Shapes
  <2>7. Box'[Burst(st)] = Append(Box[Burst(st)], h) /\ Burst(st) # Held(st)
    BY <2>3, BoxAt, BoxAtNext, BoxNames
  <2>8. Placed' /\ MovedOnly(Taken(st, Burst(st)))
    BY <1>1, <1>2, <2>1, <2>3, <2>4, <2>7, WorkerReceives DEF h
  <2> QED
    BY <2>1, <2>3, <2>6, <2>8
<1> QED
  BY <1>3, <1>4, <1>5

\* The worker's burst, or its held dispatch, is emptied into another of its boxes.
LEMMA WorkerTransfers ==
    ASSUME PInv, IInv', NEW st \in States, \A x \in States : x # st => wk'[x] = wk[x],
           snd[st] = "done", UNCHANGED <<snd, dr, ch, sendq>>,
           NEW a \in {Burst(st), Held(st), Back(st)}, NEW b \in {Burst(st), Held(st), Back(st)},
           a # b, NEW S, S \subseteq Elems(Box[a]), Box[b] = <<>>, Box'[a] = <<>>,
           Elems(Box'[b]) = Elems(Box[a]) \ S, NoDup(Box'[b]),
           Burst(st) \notin {a, b} => wk'[st].burst = wk[st].burst,
           Held(st) \notin {a, b} => wk'[st].held = wk[st].held,
           Back(st) \notin {a, b} => Trail(st)' = Trail(st),
           \A i \in Items : fate'[i] = "open" <=> fate[i] = "open" /\ i \notin S
    PROVE  Placed' /\ MovedOnly({<<b, i>> : i \in Elems(Box[a])})
<1>1. a \in Boxes /\ b \in Boxes
  BY BoxMembers
<1> DEFINE T == {a, b}
<1>2. \A c \in Boxes : c \notin T => Box'[c] = Box[c]
  BY WorkerFrame
<1>3. /\ Placed'
      /\ \A c \in Boxes : \A i \in Elems(Box'[c]) :
           i \in Elems(Box[c]) \/ (c = b /\ i \in Elems(Box[a]))
  BY <1>1, <1>2, PlacedTransfer DEF PInv
<1> QED
  BY <1>3 DEF MovedOnly

LEMMA PlanPlaces ==
    ASSUME PInv, IInv', NEW st \in States, Plan(st)
    PROVE  /\ Shapes' /\ Placed'
           /\ MovedOnly({<<Back(st), i>> : i \in Elems(wk[st].burst)})
<1> DEFINE b == wk[st].burst
<1>1. wk[st].pc = "turn" /\ UNCHANGED <<snd, dr, ch, sendq, fate>>
  BY DEF Plan
<1>2. wk[st].back = <<>> /\ snd[st] = "done" /\ b # <<>> /\ Len(b) <= BurstMax
  BY <1>1 DEF PInv, Shapes, IInv, Senders
<1>3. Box[Burst(st)] = b /\ Box[Back(st)] = <<>> /\ Burst(st) # Back(st)
  BY <1>1, <1>2, BoxAt, BoxNames DEF Trail
<1>4. b \in Seq(Items) /\ NoDup(b) /\ Burst(st) \in Boxes /\ Back(st) \in Boxes
  BY BoxMembers, <1>3, BoxType DEF PInv, Placed, Distinct
<1>5. PICK k \in (IF Trailing THEN 1 ELSE Len(b)) .. Len(b) :
         wk' = [wk EXCEPT ![st].pc = "run", ![st].burst = SubSeq(b, 1, k),
                          ![st].back = SubSeq(b, k + 1, Len(b))]
  BY DEF Plan
<1> HIDE DEF b
<1> DEFINE front == SubSeq(b, 1, k)
           trailing == SubSeq(b, k + 1, Len(b))
<1>6. k \in Nat /\ k <= Len(b) /\ 1 <= k
  BY <1>2, <1>4, <1>5
<1>7. /\ NoDup(front) /\ NoDup(trailing)
      /\ Elems(front) \cup Elems(trailing) = Elems(b)
      /\ Elems(front) \cap Elems(trailing) = {}
  BY <1>4, <1>6, ElemsCut
<1>8. front # <<>> /\ Len(front) <= BurstMax
  BY <1>2, <1>4, <1>6, WorkersAssumption
<1> HIDE DEF front, trailing
<1>0. wk' = [wk EXCEPT ![st].pc = "run", ![st].burst = front, ![st].back = trailing]
  BY <1>5 DEF front, trailing
<1>9. /\ wk'[st].pc = "run" /\ wk'[st].burst = front /\ wk'[st].back = trailing
      /\ wk'[st].held = wk[st].held /\ \A x \in States : x # st => wk'[x] = wk[x]
  BY <1>0, WorkerFields DEF PInv, IInv, Types, Wks
<1>10. Box'[Burst(st)] = front /\ Box'[Back(st)] = trailing
  BY <1>9, BoxAtNext DEF Trail
<1> DEFINE T == {Burst(st), Back(st)}
<1>11. Held(st) \notin T
  BY BoxNames
<1>12. \A c \in Boxes : c \notin T => Box'[c] = Box[c]
  <2>1. Burst(st) \in T /\ Back(st) \in T
    OBVIOUS
  <2> HIDE DEF T
  <2> QED
    BY <1>1, <1>2, <1>9, <1>11, <2>1, WorkerFrame
<1>13. /\ Placed'
       /\ \A c \in Boxes : \A i \in Elems(Box'[c]) :
            i \in Elems(Box[c]) \/ (c = Back(st) /\ i \in Elems(Box[Burst(st)]))
  BY <1>1, <1>3, <1>4, <1>7, <1>10, <1>12, PlacedSplit DEF PInv
<1>14. Shapes'
  BY <1>8, <1>9, <1>1 DEF PInv, Shapes
<1> QED
  BY <1>3, <1>13, <1>14 DEF MovedOnly, b

\* A worker all of whose burst, or of its trailing messages, is settled.
LEMMA WorkerSettles ==
    ASSUME PInv, IInv', NEW st \in States, \A x \in States : x # st => wk'[x] = wk[x],
           snd[st] = "done", UNCHANGED <<snd, ch, sendq>>, TakenOut' = TakenOut,
           NEW a \in {Burst(st), Back(st)}, Box'[a] = <<>>,
           a # Burst(st) => wk'[st].burst = wk[st].burst,
           wk'[st].held = wk[st].held,
           a # Back(st) => Trail(st)' = Trail(st),
           \A i \in Items : fate'[i] = "open" <=> fate[i] = "open" /\ i \notin Elems(Box[a])
    PROVE  Placed' /\ MovedOnly({})
<1> DEFINE T == {a}
           S == Elems(Box[a])
<1>1. a \in Boxes /\ Held(st) \notin T
  BY BoxMembers, BoxNames
<1>2. \A c \in Boxes : c \notin T => Box'[c] = Box[c]
  <2>1. /\ Burst(st) \notin T => wk'[st].burst = wk[st].burst
        /\ Back(st) \notin T => Trail(st)' = Trail(st)
        /\ \A x \in States : x # st => Burst(x) # a /\ Back(x) # a /\ Held(x) # a
    BY BoxNames
  <2> HIDE DEF T
  <2> QED
    BY <1>1, <2>1, HandSame, TrailSame, BoxFrame DEF InHand
<1>3. Elems(<<>>) = {} /\ NoDup(<<>>)
  BY ElemsEmpty
<1>4. /\ S \subseteq Elems(Box[a]) /\ Elems(Box'[a]) = Elems(Box[a]) \ S /\ NoDup(Box'[a])
      /\ \A i \in Items : fate'[i] = "open" <=> fate[i] = "open" /\ i \notin S
      /\ \A c \in Boxes : c # a => Box'[c] = Box[c]
  BY <1>2, <1>3
<1> HIDE DEF S
<1>5. Placed' /\ \A c \in Boxes : \A i \in Elems(Box'[c]) : i \in Elems(Box[c])
  BY <1>1, <1>4, PlacedRemove DEF PInv
<1> QED
  BY <1>5 DEF MovedOnly

LEMMA FinishTurnPlaces ==
    ASSUME PInv, IInv', NEW st \in States, FinishTurn(st)
    PROVE  Shapes' /\ Placed' /\ MovedOnly({})
<1>1. wk[st].pc = "run" /\ UNCHANGED <<snd, dr, ch, sendq>> /\ snd[st] = "done"
  BY DEF FinishTurn, PInv, IInv, Senders
<1>2. wk' = [wk EXCEPT ![st].pc = "ended", ![st].burst = <<>>]
  BY DEF FinishTurn
<1>3. /\ wk'[st].pc = "ended" /\ wk'[st].burst = <<>> /\ wk'[st].back = wk[st].back
      /\ wk'[st].held = wk[st].held /\ \A x \in States : x # st => wk'[x] = wk[x]
  BY <1>2, WorkerFields DEF PInv, IInv, Types, Wks
<1>4. Trail(st)' = Trail(st)
  BY <1>1, <1>3, TrailSame
<1>5. Box[Burst(st)] = wk[st].burst /\ Box'[Burst(st)] = <<>>
  BY <1>3, BoxAt, BoxAtNext
<1>6. \A i \in Items : fate'[i] = "open" <=> fate[i] = "open" /\ i \notin Elems(Box[Burst(st)])
  <2>1. PICK ran \in {"done", "dropped"} :
          fate' = [i \in Items |-> IF i \in Elems(wk[st].burst) THEN ran ELSE fate[i]]
    BY DEF FinishTurn
  <2> QED
    BY <1>5, <2>1
<1>7. TakenOut' = TakenOut
  BY <1>1 DEF TakenOut
<1>8. Placed' /\ MovedOnly({})
  BY <1>1, <1>3, <1>4, <1>5, <1>6, <1>7, WorkerSettles
<1>9. Shapes'
  BY <1>3, WorkersAssumption, <1>1 DEF PInv, Shapes
<1> QED
  BY <1>8, <1>9

LEMMA HandleTrailingPlaces ==
    ASSUME PInv, IInv', NEW st \in States, HandleTrailing(st)
    PROVE  Shapes' /\ Placed' /\ MovedOnly({})
<1>1. wk[st].pc = "ended" /\ UNCHANGED <<snd, dr, ch, sendq>> /\ snd[st] = "done"
  BY DEF HandleTrailing, PInv, IInv, Senders
<1>2. CASE Goto(st, "trail") /\ UNCHANGED fate
  BY <1>1, <1>2, GotoPlaces DEF PInv, Shapes
<1>3. CASE /\ wk' = [wk EXCEPT ![st].pc = "trail", ![st].back = <<>>]
           /\ fate' = [i \in Items |-> IF i \in Elems(wk[st].back) THEN "dropped" ELSE fate[i]]
  <2>1. /\ wk'[st].pc = "trail" /\ wk'[st].burst = wk[st].burst /\ wk'[st].back = <<>>
        /\ wk'[st].held = wk[st].held /\ \A x \in States : x # st => wk'[x] = wk[x]
    BY <1>3, WorkerFields DEF PInv, IInv, Types, Wks
  <2>2. Box[Back(st)] = wk[st].back /\ Box'[Back(st)] = <<>>
    BY <1>1, <2>1, BoxAt, BoxAtNext DEF Trail
  <2>3. \A i \in Items : fate'[i] = "open" <=> fate[i] = "open" /\ i \notin Elems(Box[Back(st)])
    BY <1>3, <2>2
  <2>4. TakenOut' = TakenOut
    BY <1>1 DEF TakenOut
  <2>5. Placed' /\ MovedOnly({})
    BY <1>1, <2>1, <2>2, <2>3, <2>4, WorkerSettles
  <2>6. Shapes'
    BY <2>1, WorkersAssumption, <1>1 DEF PInv, Shapes
  <2> QED
    BY <2>5, <2>6
<1> QED
  BY <1>2, <1>3 DEF HandleTrailing

LEMMA EndTurnPlaces ==
    ASSUME PInv, IInv', NEW st \in States, EndTurn(st)
    PROVE  /\ Shapes' /\ Placed' /\ wk'[st].pc \in {"wait", "popped"}
           /\ MovedOnly({<<Burst(st), i>> : i \in Elems(wk[st].held)})
<1>1. wk[st].pc = "settle" /\ UNCHANGED <<snd, dr, ch, sendq, fate>>
  BY DEF EndTurn
<1>2. wk[st].back = <<>> /\ wk[st].burst = <<>> /\ snd[st] = "done"
  BY <1>1 DEF PInv, Shapes, IInv, Senders
<1>3. CASE wk[st].held = <<>>
  BY <1>3, <1>1, <1>2, GotoPlaces, GotoFields DEF EndTurn, PInv, IInv, MovedOnly
<1>4. CASE wk[st].held # <<>>
  <2> DEFINE h == wk[st].held
             S == {}
  <2>0. wk' = [wk EXCEPT ![st].pc = "popped", ![st].burst = h, ![st].held = <<>>]
    BY <1>4 DEF EndTurn
  <2>1. /\ Box[Held(st)] = h /\ Box[Burst(st)] = <<>> /\ Burst(st) # Held(st)
        /\ Back(st) # Held(st) /\ Back(st) # Burst(st)
    BY <1>2, BoxAt, BoxNames
  <2>2. h \in Seq(Items) /\ NoDup(h) /\ Len(h) <= 1
    BY BoxMembers, <2>1, BoxType, WorkerFields DEF PInv, Placed, Distinct, IInv
  <2> HIDE DEF h
  <2>3. /\ \A x \in States : x # st => wk'[x] = wk[x]
        /\ wk'[st].pc = "popped" /\ wk'[st].burst = h
        /\ wk'[st].held = <<>> /\ wk'[st].back = wk[st].back
    BY <2>0, WorkerFields DEF PInv, IInv, Types, Wks
  <2>4. Trail(st)' = Trail(st)
    BY <1>1, <2>3, TrailSame
  <2>5. Box'[Burst(st)] = h /\ Box'[Held(st)] = <<>>
    BY <2>3, BoxAtNext
  <2>6. /\ S \subseteq Elems(Box[Held(st)]) /\ Elems(Box'[Burst(st)]) = Elems(Box[Held(st)]) \ S
        /\ \A i \in Items : fate'[i] = "open" <=> fate[i] = "open" /\ i \notin S
    BY <1>1, <2>1, <2>5
  <2> HIDE DEF S
  <2>7. Placed' /\ MovedOnly({<<Burst(st), i>> : i \in Elems(h)})
    BY <1>1, <1>2, <2>1, <2>2, <2>3, <2>4, <2>5, <2>6, WorkerTransfers
  <2>8. Len(wk'[st].burst) <= BurstMax
    BY <2>2, WorkersAssumption, <2>3
  <2>9. Shapes'
    BY <1>1, <1>2, <1>4, <2>3, <2>8 DEF PInv, Shapes, h
  <2> QED
    BY <2>3, <2>7, <2>9 DEF h
<1> QED
  BY <1>3, <1>4

\* An ambient trailing message: completed, the head of the trailing messages goes.
LEMMA AmbientPlaces ==
    ASSUME PInv, IInv', NEW st \in States, wk[st].pc = "trail", wk[st].back # <<>>,
           wk' = [wk EXCEPT ![st].back = Tail(@)],
           fate' = [fate EXCEPT ![Head(wk[st].back)] = "done"],
           UNCHANGED <<snd, dr, ch, sendq>>
    PROVE  Shapes' /\ Placed' /\ MovedOnly({})
<1> DEFINE q == wk[st].back
           t == Tail(q)
           S == {Head(q)}
           a == Back(st)
           T == {a}
<1>1. snd[st] = "done"
  BY DEF PInv, IInv, Senders
<1>2. q \in Seq(Msgs) /\ Seq(Msgs) \subseteq Seq(Items) /\ Msgs \subseteq Items
  BY WorkerFields DEF PInv, IInv, Items
<1>3. wk' = [wk EXCEPT ![st] = [wk[st] EXCEPT !.back = t]]
  BY DEF PInv, IInv, Types
<1>4. t \in Seq(Msgs) /\ Head(q) \in Items
  BY <1>2, SeqFacts, Zenon
<1> HIDE DEF t
<1>5. /\ \A x \in States : x # st => wk'[x] = wk[x]
      /\ wk'[st].pc = "trail" /\ wk'[st].burst = wk[st].burst
      /\ wk'[st].held = wk[st].held /\ wk'[st].back = t
  BY <1>3, WorkerFields, SMTT(40) DEF PInv, IInv, Types, Wks
<1>6. a \in Boxes /\ Box[a] = q /\ Box'[a] = t
  BY <1>5, BoxMembers, BoxAt, BoxAtNext DEF Trail
<1>7. NoDup(q)
  BY <1>6 DEF PInv, Placed, Distinct
<1>8. S \subseteq Elems(q) /\ Elems(t) = Elems(q) \ S /\ NoDup(t)
  BY <1>2, <1>7, ElemsTail DEF t
<1>9. \A i \in Items : fate'[i] = "open" <=> fate[i] = "open" /\ i \notin S
  BY <1>4 DEF PInv, IInv, Types
<1>10. Back(st) \in T /\ Burst(st) \notin T /\ Held(st) \notin T
  BY BoxNames
<1>11. \A c \in Boxes : c # a => Box'[c] = Box[c]
  <2>1. \A c \in Boxes : c \notin T => Box'[c] = Box[c]
    <3> HIDE DEF T
    <3> QED
      BY <1>1, <1>5, <1>10, WorkerFrame
  <2> QED
    BY <2>1
<1> HIDE DEF a, S
<1>12. Placed' /\ \A c \in Boxes : \A i \in Elems(Box'[c]) : i \in Elems(Box[c])
  BY <1>6, <1>8, <1>9, <1>11, PlacedRemove DEF PInv
<1>13. Shapes'
  BY <1>5 DEF PInv, Shapes
<1> QED
  BY <1>12, <1>13 DEF MovedOnly

\* A trailing message that wakes the agent: from the trailing messages to the hand of
\* the worker, which is now a caller of Enqueue.
LEMMA ReenqueuePlaces ==
    ASSUME PInv, IInv', NEW st \in States, wk[st].pc = "trail", wk[st].back # <<>>,
           Goto(st, "await"), snd' = [snd EXCEPT ![st] = "new"],
           UNCHANGED <<fate, dr, ch, sendq>>
    PROVE  Shapes' /\ Placed' /\ MovedOnly({<<Sending(st), Head(wk[st].back)>>})
<1> DEFINE q == wk[st].back
           a == Back(st)
           b == Sending(st)
           T == {a, b}
<1>1. /\ st \in Callers /\ st \notin Items /\ snd[st] = "done" /\ snd'[st] = "new"
      /\ \A g \in Callers : g # st => snd'[g] = snd[g]
  BY CallerFacts DEF PInv, IInv, Types, Senders
<1>2. q \in Seq(Msgs) /\ Seq(Msgs) \subseteq Seq(Items)
  BY WorkerFields DEF PInv, IInv, Items
<1>3. /\ \A x \in States : x # st => wk'[x] = wk[x]
      /\ wk'[st].pc = "await" /\ wk'[st].burst = wk[st].burst
      /\ wk'[st].held = wk[st].held /\ wk'[st].back = q
  BY GotoFields DEF PInv, IInv
<1>4. /\ a \in Boxes /\ b \in Boxes /\ a # b
      /\ Box[a] = q /\ Box'[a] = Tail(q)
      /\ Box[b] = <<>> /\ Box'[b] = <<Head(q)>>
  <2>1. a \in Boxes /\ b \in Boxes /\ a # b
    BY <1>1, BoxMembers, BoxNames
  <2>2. Box[a] = q /\ Box'[a] = Tail(q)
    BY <1>3, BoxAt, BoxAtNext DEF Trail
  <2>3. InHand(st) = <<>> /\ InHand(st)' = <<Head(q)>>
    BY <1>1, <1>3 DEF InHand, Offers
  <2> QED
    BY <1>1, <2>1, <2>2, <2>3, BoxAt, BoxAtNext
<1>5. <<Head(q)>> = Append(<<>>, Head(q))
  OBVIOUS
<1>6. \A c \in Boxes : c \notin T => Box'[c] = Box[c]
  BY <1>1, <1>3, HandSame, TrailSame, BoxFrame DEF TakenOut
<1> HIDE DEF q, a, b
<1>7. /\ Box[a] # <<>> /\ Box'[a] = Tail(Box[a]) /\ Box'[b] = Append(Box[b], Head(Box[a]))
      /\ \A c \in Boxes : c \notin {a, b} => Box'[c] = Box[c]
  BY <1>4, <1>5, <1>6 DEF q
<1>8. /\ Placed'
      /\ \A c \in Boxes : \A i \in Elems(Box'[c]) :
           i \in Elems(Box[c]) \/ (c = b /\ i = Head(Box[a]))
  BY <1>4, <1>7, PlacedMove DEF PInv
<1>9. Shapes'
  BY <1>3 DEF PInv, Shapes, q
<1> QED
  BY <1>4, <1>8, <1>9 DEF MovedOnly, b, q

LEMMA HandBackPlaces ==
    ASSUME PInv, IInv', NEW st \in States, HandBack(st)
    PROVE  /\ Shapes' /\ Placed'
           /\ MovedOnly({}) \/ MovedOnly({<<Sending(st), Head(wk[st].back)>>})
BY GotoPlaces, AmbientPlaces, ReenqueuePlaces DEF HandBack, PInv, Shapes

LEMMA HandedBackPlaces ==
    ASSUME PInv, NEW st \in States, HandedBack(st)
    PROVE  Shapes' /\ Placed' /\ MovedOnly({})
<1> DEFINE q == wk[st].back
           t == Tail(q)
<1>1. /\ wk[st].pc = "await" /\ snd[st] = "done" /\ UNCHANGED <<snd, dr, ch, sendq, fate>>
      /\ wk' = [wk EXCEPT ![st].pc = "trail", ![st].back = Tail(@)]
  BY DEF HandedBack
<1>2. wk' = [wk EXCEPT ![st] = [wk[st] EXCEPT !.pc = "trail", !.back = t]]
  BY <1>1 DEF PInv, IInv, Types
<1> HIDE DEF t
<1>3. /\ \A x \in States : x # st => wk'[x] = wk[x]
      /\ wk'[st].pc = "trail" /\ wk'[st].burst = wk[st].burst
      /\ wk'[st].held = wk[st].held /\ wk'[st].back = t
  BY <1>2, WorkerFields DEF PInv, IInv, Types, Wks
<1>4. Trail(st)' = Trail(st)
  BY <1>1, <1>3 DEF Trail, t
<1>5. Shapes'
  BY <1>1, <1>3 DEF PInv, Shapes
<1> QED
  BY <1>1, <1>3, <1>4, <1>5, WorkerStays

--------------------
(* Steps of an interrupt, and of the pool *)

LEMMA DrainFrame ==
    ASSUME NEW T, UNCHANGED <<wk, snd>>, DrainBox \notin T => TakenOut' = TakenOut,
           \A x \in States : /\ Chan(x) \notin T => ch'[x] = ch[x]
                             /\ SendQ(x) \notin T => sendq'[x] = sendq[x]
    PROVE  \A c \in Boxes : c \notin T => Box'[c] = Box[c]
BY HandSame, TrailSame, BoxFrame

LEMMA DrainStays ==
    ASSUME PInv, UNCHANGED <<wk, snd, ch, sendq, fate>>, TakenOut' = TakenOut
    PROVE  Placed' /\ MovedOnly({})
<1> DEFINE T == {}
<1>1. \A c \in Boxes : c \notin T => Box'[c] = Box[c]
  <2> HIDE DEF T
  <2> QED
    BY DrainFrame
<1>2. \A c \in Boxes : Box'[c] = Box[c]
  BY <1>1
<1> QED
  BY <1>2, PlacedSame DEF PInv, MovedOnly

\* The interrupt takes p.mu, goes on to the next state, finds that its send was received.
LEMMA DrainGoesOn ==
    ASSUME PInv, DrainLock \/ DrainQueues \/ DrainPick \/ DrainWake
    PROVE  Shapes' /\ Placed' /\ MovedOnly({})
<1>1. UNCHANGED <<wk, snd, ch, sendq, fate>>
  BY DEF DrainLock, DrainQueues, DrainPick, DrainWake
<1>2. dr \in Drs
  BY DEF PInv, IInv, Types
<1>3. CASE DrainLock \/ DrainQueues \/ DrainPick
  <2>1. dr.pc \in {"idle", "latch", "pick"}
    BY <1>3 DEF DrainLock, DrainQueues, MuFree, DrainPick
  <2>2. dr.back = <<>>
    BY <2>1 DEF PInv, Shapes
  <2>3. dr'.back = <<>> /\ dr'.pc # "parked"
    <3>1. CASE DrainLock
      BY <3>1 DEF DrainLock, NoDrain
    <3>3. CASE DrainQueues
      BY <3>3, <1>2, <2>2 DEF DrainQueues, Drs
    <3>2. CASE DrainPick
      <4>1. \/ dr' = NoDrain
            \/ \E st \in dr.todo : dr' = [dr EXCEPT !.pc = "recv", !.todo = @ \ {st}, !.on = st]
        BY <3>2 DEF DrainPick
      <4>2. CASE dr' = NoDrain
        BY <4>2 DEF NoDrain
      <4>3. CASE \E st \in dr.todo : dr' = [dr EXCEPT !.pc = "recv", !.todo = @ \ {st}, !.on = st]
        BY <4>3, <1>2, <2>2 DEF Drs
      <4> QED
        BY <4>1, <4>2, <4>3
    <3> QED
      BY <1>3, <3>1, <3>2, <3>3
  <2>4. TakenOut' = TakenOut
    BY <2>1, <2>2, <2>3 DEF TakenOut
  <2>5. Shapes'
    BY <1>1, <2>3 DEF PInv, Shapes
  <2> QED
    BY <1>1, <2>4, <2>5, DrainStays
<1>4. CASE DrainWake
  BY <1>4, <1>2, <1>1, DrainStays DEF DrainWake, Drs, TakenOut, PInv, Shapes
<1> QED
  BY <1>3, <1>4

LEMMA DrainLatchPlaces ==
    ASSUME PInv, IInv', NEW st \in States, DrainLatch(st)
    PROVE  Shapes' /\ Placed' /\ MovedOnly({})
<1>1. /\ dr.pc = "latch" /\ UNCHANGED <<snd, ch, sendq>> /\ dr' = [dr EXCEPT !.todo = @ \ {st}]
      /\ dr \in Drs
  BY DEF DrainLatch, PInv, IInv, Types
<1>2. dr'.pc = "latch" /\ dr'.back = dr.back
  BY <1>1 DEF Drs
<1>3. TakenOut' = TakenOut
  BY <1>1, <1>2 DEF TakenOut
<1>4. CASE wk' = wk /\ fate' = fate
  <2>1. Shapes'
    BY <1>1, <1>2, <1>4 DEF PInv, Shapes
  <2> QED
    BY <1>1, <1>3, <1>4, <2>1, DrainStays
<1>5. CASE /\ wk[st].pc \in {"run", "ended"}
           /\ wk' = [wk EXCEPT ![st] = [wk[st] EXCEPT !.back = <<>>]]
           /\ fate' = [i \in Items |-> IF i \in Elems(wk[st].back) THEN "failed" ELSE fate[i]]
  <2>0. snd[st] = "done"
    BY <1>5 DEF PInv, IInv, Senders
  <2>1. /\ wk'[st].pc = wk[st].pc /\ wk'[st].burst = wk[st].burst /\ wk'[st].back = <<>>
        /\ wk'[st].held = wk[st].held /\ \A x \in States : x # st => wk'[x] = wk[x]
    BY <1>5, WorkerFields DEF PInv, IInv, Types, Wks
  <2>2. Box[Back(st)] = wk[st].back /\ Box'[Back(st)] = <<>>
    BY <1>5, <2>1, BoxAt, BoxAtNext DEF Trail
  <2>3. \A i \in Items : fate'[i] = "open" <=> fate[i] = "open" /\ i \notin Elems(Box[Back(st)])
    BY <1>5, <2>2
  <2>5. Placed' /\ MovedOnly({})
    BY <1>1, <1>3, <2>0, <2>1, <2>2, <2>3, WorkerSettles
  <2>6. Shapes'
    BY <1>1, <1>2, <2>1 DEF PInv, Shapes
  <2> QED
    BY <2>5, <2>6
<1>6. CASE /\ wk[st].pc = "turn" /\ fate' = fate
           /\ wk' = [wk EXCEPT ![st] = [wk[st] EXCEPT !.pc = "run"]]
  <2>0. snd[st] = "done"
    BY <1>6 DEF PInv, IInv, Senders
  <2>1. /\ wk'[st].pc = "run" /\ wk'[st].burst = wk[st].burst /\ wk'[st].back = wk[st].back
        /\ wk'[st].held = wk[st].held /\ \A x \in States : x # st => wk'[x] = wk[x]
    BY <1>6, WorkerFields DEF PInv, IInv, Types, Wks
  <2>2. Trail(st)' = Trail(st)
    BY <1>6, <2>1, TrailSame
  <2>3. \A c \in Boxes : Box'[c] = Box[c]
    <3> DEFINE T == {}
    <3>1. \A c \in Boxes : c \notin T => Box'[c] = Box[c]
      <4> HIDE DEF T
      <4> QED
        BY <1>1, <1>3, <2>0, <2>1, <2>2, HandSame, TrailSame, BoxFrame DEF InHand
    <3> QED
      BY <3>1
  <2>4. Placed' /\ MovedOnly({})
    BY <1>6, <2>3, PlacedSame DEF PInv, MovedOnly
  <2>5. Shapes'
    BY <1>1, <1>2, <1>6, <2>1 DEF PInv, Shapes
  <2> QED
    BY <2>4, <2>5
<1> QED
  BY <1>4, <1>5, <1>6, LatchWorker DEF PInv

\* A receive that settles the head of the channel; the first parked sender moves up.
LEMMA PlacedWithdraw ==
    ASSUME IInv, IInv', Placed, NEW st \in States, ch[st] # <<>>, Receive(st),
           \A i \in Items : fate'[i] = "open" <=> fate[i] = "open" /\ i \notin {Head(ch[st])},
           \A c \in Boxes : c \notin {Chan(st), SendQ(st)} => Box'[c] = Box[c]
    PROVE  /\ Placed'
           /\ \A c \in Boxes : \A i \in Elems(Box'[c]) :
                \/ i \in Elems(Box[c]) \/ (c = Chan(st) /\ i \in Elems(sendq[st]))
<1> DEFINE x == Chan(st)
           y == SendQ(st)
           S == {Head(ch[st])}
           B == Box
           C == [Box EXCEPT ![x] = Tail(@)]
           D == Box'
<1>1. /\ x \in Boxes /\ y \in Boxes /\ x # y
      /\ B[x] = ch[st] /\ B[y] = sendq[st] /\ D[x] = ch'[st] /\ D[y] = sendq'[st]
  BY BoxMembers, BoxNames, BoxAt, BoxAtNext
<1>2. B \in [Boxes -> Seq(Items)] /\ D \in [Boxes -> Seq(Items)] /\ Distinct(B)
  BY BoxType, BoxTypeNext DEF Placed
<1>3. \A c \in Boxes : c # x /\ c # y => D[c] = B[c]
  OBVIOUS
<1> HIDE DEF x, y, D
<1>4. ch[st] \in Seq(Items) /\ NoDup(ch[st])
  BY <1>1, <1>2 DEF Distinct
<1>5. Tail(ch[st]) \in Seq(Items)
  BY <1>4, SeqFacts, Zenon
<1>6. C \in [Boxes -> Seq(Items)] /\ C[x] = Tail(ch[st]) /\ \A c \in Boxes : c # x => C[c] = B[c]
  BY <1>1, <1>2, <1>5
<1> HIDE DEF B, C
<1>7. S \subseteq Elems(B[x]) /\ Elems(C[x]) = Elems(B[x]) \ S /\ NoDup(C[x])
  BY <1>4, ElemsTail, <1>1, <1>6
<1> HIDE DEF S
<1>8. Removes(B, C, x, S)
  BY <1>1, <1>2, <1>6, <1>7 DEF Removes
<1>9. /\ Distinct(C)
      /\ \A i \in Items : Has(C, i) <=> Has(B, i) /\ i \notin S
      /\ \A c \in Boxes : \A i \in Elems(C[c]) : i \in Elems(B[c])
  BY <1>2, <1>8, RemoveKeeps, Zenon
<1>10. /\ Distinct(D)
       /\ \A i \in Items : Has(D, i) <=> Has(C, i)
       /\ \A c \in Boxes : \A i \in Elems(D[c]) :
            i \in Elems(C[c]) \/ (c = x /\ i \in Elems(B[y]))
  <2>1. CASE sendq[st] = <<>>
    <3>1. ch'[st] = Tail(ch[st]) /\ sendq'[st] = sendq[st]
      BY <2>1 DEF Receive, IInv, Types
    <3>2. \A c \in Boxes : D[c] = C[c]
      BY <1>1, <1>3, <1>6, <3>1
    <3> QED
      BY <1>9, <3>2 DEF Distinct, Has
  <2>2. CASE sendq[st] # <<>>
    <3>1. ch'[st] = Append(Tail(ch[st]), Head(sendq[st])) /\ sendq'[st] = Tail(sendq[st])
      BY <2>2 DEF Receive, IInv, Types
    <3>2. C[y] = sendq[st]
      BY <1>1, <1>6
    <3>3. /\ C[y] # <<>> /\ D[y] = Tail(C[y]) /\ D[x] = Append(C[x], Head(C[y]))
          /\ \A c \in Boxes : c # y /\ c # x => D[c] = C[c]
      BY <1>1, <1>3, <1>6, <2>2, <3>1, <3>2
    <3>4. Moves(C, D, y, x)
      BY <1>1, <1>2, <1>6, <3>3 DEF Moves
    <3>5. /\ Distinct(D)
          /\ \A i \in Items : Has(D, i) <=> Has(C, i)
          /\ \A c \in Boxes : \A i \in Elems(D[c]) :
               i \in Elems(C[c]) \/ (c = x /\ i = Head(C[y]))
      BY <1>9, <3>4, MoveKeeps, Zenon
    <3>6. Head(C[y]) \in Elems(B[y])
      BY <1>1, <1>6, <1>9, <3>3, ElemsTail, <3>2 DEF Distinct
    <3> QED
      BY <3>5, <3>6
  <2> QED
    BY <2>1, <2>2
<1>11. Placed'
  BY <1>9, <1>10, PlacedNext DEF Placed, B, S, D
<1>12. \A c \in Boxes : \A i \in Elems(D[c]) :
          i \in Elems(B[c]) \/ (c = x /\ i \in Elems(B[y]))
  BY <1>9, <1>10
<1> QED
  BY <1>1, <1>11, <1>12 DEF B, D, x

LEMMA DrainRecvPlaces ==
    ASSUME PInv, IInv', DrainRecv
    PROVE  Shapes' /\ Placed' /\ dr.on \in States /\ MovedOnly(Taken(dr.on, DrainBox))
<1> DEFINE st == dr.on
           h == Head(ch[st])
<1>1. dr.pc = "recv" /\ UNCHANGED <<wk, snd>> /\ dr \in Drs /\ dr.back \in Seq(Disps)
  BY DEF DrainRecv, PInv, IInv, Types, Drs
<1>2. st \in States
  BY <1>1 DEF PInv, IInv, Drainer
<1>3. ch[st] \in Seq(Items)
  BY <1>2 DEF PInv, IInv, Types
<1>4. CASE ch[st] = <<>>
  BY <1>4, <1>1, DrainStays, <1>2 DEF DrainRecv, Drs, TakenOut, PInv, Shapes, MovedOnly
<1>5. CASE ch[st] # <<>> /\ h \in Disps
  <2>1. Receive(st) /\ dr' = [dr EXCEPT !.back = Append(@, h)] /\ UNCHANGED fate
    BY <1>5 DEF DrainRecv
  <2>2. dr'.pc = "recv" /\ dr'.back = Append(dr.back, h)
    BY <1>1, <2>1 DEF Drs
  <2>3. Box[DrainBox] = dr.back /\ Box'[DrainBox] = Append(dr.back, h)
    BY <1>1, <2>2, BoxAt, BoxAtNext DEF TakenOut
  <2> HIDE DEF h, st
  <2>4. \A x \in States : x # st => ch'[x] = ch[x] /\ sendq'[x] = sendq[x]
    BY <2>1 DEF Receive, PInv, IInv, Types
  <2>5. DrainBox \in Boxes /\ DrainBox \notin {Chan(st), SendQ(st)}
    BY <1>2, BoxMembers, BoxNames
  <2> DEFINE T == {Chan(st), SendQ(st), DrainBox}
  <2>6. /\ \A x \in States : /\ Chan(x) \notin T => ch'[x] = ch[x]
                             /\ SendQ(x) \notin T => sendq'[x] = sendq[x]
        /\ DrainBox \in T
    BY <2>4
  <2>7. \A c \in Boxes : c \notin T => Box'[c] = Box[c]
    <3> HIDE DEF T
    <3> QED
      BY <1>1, <2>6, DrainFrame
  <2>8. Box'[DrainBox] = Append(Box[DrainBox], Head(ch[st]))
    BY <2>3 DEF h
  <2>9. /\ Placed'
        /\ \A c \in Boxes : \A i \in Elems(Box'[c]) :
             \/ i \in Elems(Box[c]) \/ (c = DrainBox /\ i = Head(ch[st]))
             \/ c = Chan(st) /\ i \in Elems(sendq[st])
    BY <1>2, <1>5, <2>1, <2>5, <2>7, <2>8, PlacedReceive DEF PInv
  <2>10. Shapes'
    BY <1>1, <2>2 DEF PInv, Shapes
  <2> QED
    BY <1>2, <2>9, <2>10 DEF MovedOnly, Taken, st
<1>6. CASE ch[st] # <<>> /\ h \notin Disps
  <2>1. Receive(st) /\ dr' = dr /\ fate' = [fate EXCEPT ![h] = "failed"]
    BY <1>6 DEF DrainRecv
  <2>2. h \in Items
    BY <1>3, <1>6, SeqFacts, Zenon
  <2>3. \A i \in Items : fate'[i] = "open" <=> fate[i] = "open" /\ i \notin {h}
    BY <2>1, <2>2 DEF PInv, IInv, Types
  <2> HIDE DEF st
  <2>4. \A x \in States : x # st => ch'[x] = ch[x] /\ sendq'[x] = sendq[x]
    BY <2>1 DEF Receive, PInv, IInv, Types
  <2> DEFINE T == {Chan(st), SendQ(st)}
  <2>5. /\ \A x \in States : /\ Chan(x) \notin T => ch'[x] = ch[x]
                             /\ SendQ(x) \notin T => sendq'[x] = sendq[x]
        /\ TakenOut' = TakenOut
    BY <2>1, <2>4 DEF TakenOut
  <2>6. \A c \in Boxes : c \notin T => Box'[c] = Box[c]
    <3> HIDE DEF T
    <3> QED
      BY <1>1, <2>5, DrainFrame
  <2>7. /\ Placed'
        /\ \A c \in Boxes : \A i \in Elems(Box'[c]) :
             \/ i \in Elems(Box[c]) \/ (c = Chan(st) /\ i \in Elems(sendq[st]))
    BY <1>2, <1>6, <2>1, <2>3, <2>6, PlacedWithdraw DEF PInv
  <2>8. Shapes'
    BY <1>1, <2>1 DEF PInv, Shapes
  <2> QED
    BY <1>2, <2>7, <2>8 DEF MovedOnly, Taken, st
<1> QED
  BY <1>4, <1>5, <1>6

\* The interrupt puts back a dispatch, into the channel or behind its parked senders.
LEMMA DrainSendPlaces ==
    ASSUME PInv, IInv', DrainSend
    PROVE  /\ Shapes' /\ Placed' /\ dr.on \in States
           /\ MovedOnly({<<Chan(dr.on), Head(dr.back)>>, <<SendQ(dr.on), Head(dr.back)>>})
<1> DEFINE st == dr.on
           h == Head(dr.back)
<1>1. UNCHANGED <<wk, snd, fate>> /\ dr.pc = "send" /\ dr \in Drs
  BY DEF DrainSend, PInv, IInv, Types
<1>2. st \in States
  BY <1>1 DEF PInv, IInv, Drainer
<1>3. CASE dr.back = <<>>
  BY <1>3, <1>1, DrainStays, <1>2 DEF DrainSend, Drs, TakenOut, PInv, Shapes, MovedOnly
<1>4. CASE dr.back # <<>>
  <2>1. \E b \in {Chan(st), SendQ(st)} :
          /\ Box'[b] = Append(Box[b], h)
          /\ TakenOut' = Tail(dr.back) /\ dr'.pc \in {"send", "parked"}
          /\ \A x \in States : /\ Chan(x) # b => ch'[x] = ch[x]
                               /\ SendQ(x) # b => sendq'[x] = sendq[x]
    <3>1. CASE Room(st)
      <4>1. /\ ch' = [ch EXCEPT ![st] = Append(@, h)] /\ sendq' = sendq
            /\ dr' = [dr EXCEPT !.back = Tail(@)]
        BY <1>4, <3>1 DEF DrainSend
      <4>2. dr'.pc = "send" /\ dr'.back = Tail(dr.back)
        BY <1>1, <4>1 DEF Drs
      <4> HIDE DEF st, h
      <4>3. ch'[st] = Append(ch[st], h) /\ \A x \in States : x # st => ch'[x] = ch[x]
        BY <1>2, <4>1 DEF PInv, IInv, Types
      <4>4. Box'[Chan(st)] = Append(Box[Chan(st)], h)
        BY <1>2, <4>3, BoxAt, BoxAtNext
      <4>5. TakenOut' = Tail(dr.back)
        BY <4>2 DEF TakenOut
      <4> QED
        BY <4>1, <4>2, <4>3, <4>4, <4>5
    <3>2. CASE ~Room(st)
      <4>1. /\ sendq' = [sendq EXCEPT ![st] = Append(@, h)] /\ ch' = ch
            /\ dr' = [dr EXCEPT !.pc = "parked"]
        BY <1>4, <3>2 DEF DrainSend
      <4>2. dr'.pc = "parked" /\ dr'.back = dr.back
        BY <1>1, <4>1 DEF Drs
      <4> HIDE DEF st, h
      <4>3. sendq'[st] = Append(sendq[st], h) /\ \A x \in States : x # st => sendq'[x] = sendq[x]
        BY <1>2, <4>1 DEF PInv, IInv, Types
      <4>4. Box'[SendQ(st)] = Append(Box[SendQ(st)], h)
        BY <1>2, <4>3, BoxAt, BoxAtNext
      <4>5. TakenOut' = Tail(dr.back)
        BY <4>2 DEF TakenOut
      <4> QED
        BY <4>1, <4>2, <4>3, <4>4, <4>5
    <3> QED
      BY <3>1, <3>2
  <2>2. PICK b \in {Chan(st), SendQ(st)} :
          /\ Box'[b] = Append(Box[b], h)
          /\ TakenOut' = Tail(dr.back) /\ dr'.pc \in {"send", "parked"}
          /\ \A x \in States : /\ Chan(x) # b => ch'[x] = ch[x]
                               /\ SendQ(x) # b => sendq'[x] = sendq[x]
    BY <2>1
  <2>3. b \in Boxes /\ DrainBox \in Boxes /\ b # DrainBox
    BY <1>2, BoxMembers, BoxNames
  <2> DEFINE T == {DrainBox, b}
  <2>4. /\ DrainBox \in T
        /\ \A x \in States : /\ Chan(x) \notin T => ch'[x] = ch[x]
                             /\ SendQ(x) \notin T => sendq'[x] = sendq[x]
    BY <2>2
  <2>5. \A c \in Boxes : c \notin T => Box'[c] = Box[c]
    <3> HIDE DEF T
    <3> QED
      BY <1>1, <2>4, DrainFrame
  <2>6. Box[DrainBox] = dr.back /\ Box'[DrainBox] = Tail(dr.back)
    BY <1>1, <2>2, BoxAt, BoxAtNext DEF TakenOut
  <2>7. /\ Placed'
        /\ \A c \in Boxes : \A i \in Elems(Box'[c]) :
             i \in Elems(Box[c]) \/ (c = b /\ i = Head(Box[DrainBox]))
    <3>1. /\ Box[DrainBox] # <<>> /\ Box'[DrainBox] = Tail(Box[DrainBox])
          /\ Box'[b] = Append(Box[b], Head(Box[DrainBox]))
      BY <1>4, <2>2, <2>6
    <3> QED
      BY <1>1, <2>3, <2>5, <3>1, PlacedMove DEF PInv
  <2>8. Shapes'
    BY <1>1, <2>2 DEF PInv, Shapes
  <2> QED
    BY <1>2, <2>6, <2>7, <2>8 DEF MovedOnly
<1> QED
  BY <1>3, <1>4

LEMMA StopPlaces ==
    ASSUME PInv, Stop \/ Cancel \/ UNCHANGED vars
    PROVE  Shapes' /\ Placed' /\ MovedOnly({})
BY DrainStays, ShapesSame DEF Stop, Cancel, vars, TakenOut, PInv

--------------------
LEMMA InitPInv == ASSUME Init PROVE PInv
<1>1. IInv
  BY InitIInv
<1>2. \A st \in States : wk[st] = Off
  BY DEF Init
<1>3. Shapes
  BY WorkersAssumption, <1>2 DEF Init, Off, NoDrain, Shapes
<1>4. \A g \in Callers : InHand(g) = IF g \in Items THEN <<g>> ELSE <<>>
  BY DEF Init, InHand, Offers
<1>5. \A st \in States : Trail(st) = <<>>
  BY <1>2 DEF Off, Trail
<1>6. TakenOut = <<>>
  BY DEF Init, NoDrain, TakenOut
<1>7. \A c \in Boxes : \/ Box[c] = <<>>
                       \/ \E i \in Items : c = Sending(i) /\ Box[c] = <<i>>
  BY <1>2, <1>4, <1>5, <1>6, BoxMembers, BoxAt DEF Init, Off
<1>8. \A i \in Items : Sending(i) \in Boxes /\ Box[Sending(i)] = <<i>>
  BY <1>4, BoxMembers, BoxAt, CallerFacts
<1>9. \A c \in Boxes : NoDup(Box[c]) /\ \A i \in Elems(Box[c]) : c = Sending(i)
  BY <1>7, ElemsEmpty, ElemsOne
<1>10. Distinct(Box)
  BY <1>9 DEF Distinct
<1>11. \A i \in Items : fate[i] = "open" <=> Has(Box, i)
  BY <1>8, ElemsOne DEF Init, Has
<1> QED
  BY <1>1, <1>3, <1>10, <1>11 DEF PInv, Placed

LEMMA PlacesKept == ASSUME PInv, [Next]_vars PROVE PInv'
<1>1. IInv'
  BY NextKeeps DEF PInv
<1>2. ASSUME NEW g \in Callers, Sender(g) PROVE Shapes' /\ Placed'
  BY <1>1, EnqueuePlaces, SlowSendPlaces, WakePlaces, GiveUpPlaces, <1>2 DEF Sender
<1>3. ASSUME NEW st \in States, Worker(st) PROVE Shapes' /\ Placed'
  <2>1. CASE Spawn(st) \/ IdleTimer(st) \/ WorkerExit(st) \/ TryPruneIdleThread(st)
    BY <2>1, QuietPlaces
  <2>2. CASE Pop(st)
    BY <1>1, <2>2, PopPlaces
  <2>3. CASE BeginTurn(st)
    BY <2>3, BeginTurnPlaces
  <2>4. CASE DrainBurst(st)
    BY <1>1, <2>4, DrainBurstPlaces
  <2>5. CASE Plan(st) \/ FinishTurn(st) \/ HandleTrailing(st)
    BY <1>1, <2>5, PlanPlaces, FinishTurnPlaces, HandleTrailingPlaces
  <2>6. CASE HandBack(st)
    BY <1>1, <2>6, HandBackPlaces
  <2>7. CASE HandedBack(st)
    BY <2>7, HandedBackPlaces
  <2>8. CASE EndTurn(st)
    BY <1>1, <2>8, EndTurnPlaces
  <2> QED
    BY <1>3, <2>1, <2>2, <2>3, <2>4, <2>5, <2>6, <2>7, <2>8 DEF Worker
<1>4. ASSUME Interrupt PROVE Shapes' /\ Placed'
  BY DrainGoesOn, <1>1, DrainLatchPlaces, DrainRecvPlaces, DrainSendPlaces, <1>4 DEF Interrupt
<1>5. ASSUME Stop \/ Cancel \/ UNCHANGED vars PROVE Shapes' /\ Placed'
  BY <1>5, StopPlaces
<1>6. Shapes' /\ Placed'
  BY <1>2, <1>3, <1>4, <1>5 DEF Next
<1> QED
  BY <1>1, <1>6 DEF PInv

--------------------
(* From the boxes to the places *)

\* The places in the box c that hold the item i.
Spots(q, i) == {l \in DOMAIN q : q[l] = i}
LaterSpots(q, i, later) == {l \in DOMAIN q : q[l] = i /\ (later => l > 1)}

PlacesIn(c, i) ==
    CASE c[1] = "sender" ->
           {<<"sender", g>> : g \in {x \in {c[2]} : snd[x] \in {"new", "full"} /\ Offers(x) = i}}
      [] c[1] = "ch" -> {<<"ch", c[2], k>> : k \in Spots(ch[c[2]], i)}
      [] c[1] = "sendq" -> {<<"sendq", c[2], k>> : k \in Spots(sendq[c[2]], i)}
      [] c[1] = "burst" -> {<<"burst", c[2], k>> : k \in Spots(wk[c[2]].burst, i)}
      [] c[1] = "held" -> {<<"held", c[2], k>> : k \in Spots(wk[c[2]].held, i)}
      [] c[1] = "back" ->
           {<<"back", c[2], k>> : k \in LaterSpots(wk[c[2]].back, i, wk[c[2]].pc = "await")}
      [] c[1] = "drain" -> {<<"drain", k>> : k \in LaterSpots(dr.back, i, dr.pc = "parked")}

LEMMA SpotsAre ==
    ASSUME NEW q, NEW i, NoDup(q)
    PROVE  /\ i \notin Elems(q) => Spots(q, i) = {}
           /\ i \in Elems(q) => \E k : Spots(q, i) = {k}
BY DEF Elems, Spots, NoDup

LEMMA LaterSpotsAre ==
    ASSUME NEW S, NEW q \in Seq(S), NEW i, NEW later \in BOOLEAN, later => q # <<>>,
           NEW r, r = IF later THEN Tail(q) ELSE q, NoDup(r)
    PROVE  /\ i \notin Elems(r) => LaterSpots(q, i, later) = {}
           /\ i \in Elems(r) => \E k : LaterSpots(q, i, later) = {k}
<1>1. CASE ~later
  BY <1>1, SpotsAre DEF LaterSpots, Spots
<1>2. CASE later
  <2>1. /\ r = Tail(q) /\ DOMAIN q = 1 .. Len(q) /\ Len(q) \in Nat
        /\ DOMAIN r = 1 .. (Len(q) - 1)
        /\ \A k \in 1 .. (Len(q) - 1) : r[k] = q[k + 1]
    BY <1>2
  <2>2. \A l \in LaterSpots(q, i, later) :
          l \in Int /\ l - 1 \in DOMAIN r /\ r[l - 1] = i
    BY <1>2, <2>1 DEF LaterSpots
  <2>3. ASSUME i \notin Elems(r) PROVE LaterSpots(q, i, later) = {}
    BY <2>2, <2>3 DEF Elems
  <2>4. ASSUME i \in Elems(r) PROVE \E k : LaterSpots(q, i, later) = {k}
    <3>1. PICK k \in 1 .. (Len(q) - 1) : r[k] = i
      BY <2>1, <2>4 DEF Elems
    <3>2. k + 1 \in 1 .. Len(q) /\ k + 1 > 1 /\ q[k + 1] = i
      BY <2>1, <3>1
    <3>3. k + 1 \in LaterSpots(q, i, later)
      BY <2>1, <3>2 DEF LaterSpots
    <3>4. \A l \in LaterSpots(q, i, later) : l = k + 1
      <4> SUFFICES ASSUME NEW l \in LaterSpots(q, i, later) PROVE l = k + 1
        OBVIOUS
      <4>1. l - 1 = k /\ l \in Int
        BY <2>1, <2>2, <3>1 DEF NoDup
      <4> QED
        BY <4>1, <3>1, <2>1
    <3> QED
      BY <3>3, <3>4
  <2> QED
    BY <2>3, <2>4
<1> QED
  BY <1>1, <1>2

LEMMA PlacesInAt ==
    ASSUME NEW i
    PROVE  /\ \A g \in Callers : PlacesIn(Sending(g), i) =
                {<<"sender", x>> : x \in {y \in {g} : snd[y] \in {"new", "full"} /\ Offers(y) = i}}
           /\ \A st \in States :
                /\ PlacesIn(Chan(st), i) = {<<"ch", st, k>> : k \in Spots(ch[st], i)}
                /\ PlacesIn(SendQ(st), i) = {<<"sendq", st, k>> : k \in Spots(sendq[st], i)}
                /\ PlacesIn(Burst(st), i) = {<<"burst", st, k>> : k \in Spots(wk[st].burst, i)}
                /\ PlacesIn(Held(st), i) = {<<"held", st, k>> : k \in Spots(wk[st].held, i)}
                /\ PlacesIn(Back(st), i) =
                     {<<"back", st, k>> : k \in LaterSpots(wk[st].back, i, wk[st].pc = "await")}
           /\ PlacesIn(DrainBox, i) =
                {<<"drain", k>> : k \in LaterSpots(dr.back, i, dr.pc = "parked")}
<1>1. \A g \in Callers : PlacesIn(Sending(g), i) =
        {<<"sender", x>> : x \in {y \in {g} : snd[y] \in {"new", "full"} /\ Offers(y) = i}}
  BY DEF PlacesIn, Sending
<1>2. \A st \in States : PlacesIn(Chan(st), i) = {<<"ch", st, k>> : k \in Spots(ch[st], i)}
  BY DEF PlacesIn, Chan
<1>3. \A st \in States : PlacesIn(SendQ(st), i) = {<<"sendq", st, k>> : k \in Spots(sendq[st], i)}
  BY DEF PlacesIn, SendQ
<1>4. \A st \in States : PlacesIn(Burst(st), i) = {<<"burst", st, k>> : k \in Spots(wk[st].burst, i)}
  BY DEF PlacesIn, Burst
<1>5. \A st \in States : PlacesIn(Held(st), i) = {<<"held", st, k>> : k \in Spots(wk[st].held, i)}
  BY DEF PlacesIn, Held
<1>6. \A st \in States : PlacesIn(Back(st), i) =
        {<<"back", st, k>> : k \in LaterSpots(wk[st].back, i, wk[st].pc = "await")}
  BY DEF PlacesIn, Back
<1>7. PlacesIn(DrainBox, i) = {<<"drain", k>> : k \in LaterSpots(dr.back, i, dr.pc = "parked")}
  BY DEF PlacesIn, DrainBox
<1> QED
  BY <1>1, <1>2, <1>3, <1>4, <1>5, <1>6, <1>7

\* One place in the box the item is in, none in the others.
LEMMA OneSpot ==
    ASSUME PInv, NEW i \in Items, NEW c \in Boxes
    PROVE  /\ i \notin Elems(Box[c]) => PlacesIn(c, i) = {}
           /\ i \in Elems(Box[c]) => \E p : PlacesIn(c, i) = {p}
<1>1. NoDup(Box[c])
  BY DEF PInv, Placed, Distinct
<1>3. ASSUME NEW g \in Callers, c = Sending(g)
      PROVE  /\ i \notin Elems(Box[c]) => PlacesIn(c, i) = {}
             /\ i \in Elems(Box[c]) => \E p : PlacesIn(c, i) = {p}
  <2>1. PlacesIn(c, i) =
          {<<"sender", x>> : x \in {y \in {g} : snd[y] \in {"new", "full"} /\ Offers(y) = i}}
    BY <1>3, PlacesInAt
  <2>2. CASE snd[g] \in {"new", "full"} /\ Offers(g) = i
    <3>1. PlacesIn(c, i) = {<<"sender", g>>}
      BY <2>1, <2>2
    <3>2. Box[c] = <<i>>
      BY <1>3, <2>2, BoxAt DEF InHand
    <3> QED
      BY <3>1, <3>2, ElemsOne
  <2>3. CASE ~(snd[g] \in {"new", "full"} /\ Offers(g) = i)
    <3>1. PlacesIn(c, i) = {}
      BY <2>1, <2>3
    <3>2. Box[c] = <<>> \/ \E x : x # i /\ Box[c] = <<x>>
      BY <1>3, <2>3, BoxAt DEF InHand
    <3> QED
      BY <3>1, <3>2, ElemsOne, ElemsEmpty
  <2> QED
    BY <2>2, <2>3
<1>4. ASSUME NEW st \in States, NEW n, NEW q, Box[c] = q,
             PlacesIn(c, i) = {<<n, st, k>> : k \in Spots(q, i)}
      PROVE  /\ i \notin Elems(Box[c]) => PlacesIn(c, i) = {}
             /\ i \in Elems(Box[c]) => \E p : PlacesIn(c, i) = {p}
  <2>1. /\ i \notin Elems(q) => Spots(q, i) = {}
        /\ i \in Elems(q) => \E k : Spots(q, i) = {k}
    BY <1>1, <1>4, SpotsAre
  <2>2. \A Q : Q = {} => {<<n, st, k>> : k \in Q} = {}
    OBVIOUS
  <2>3. \A Q, l : Q = {l} => {<<n, st, k>> : k \in Q} = {<<n, st, l>>}
    OBVIOUS
  <2> QED
    BY <1>4, <2>1, <2>2, <2>3
<1>5. ASSUME NEW st \in States, c = Back(st)
      PROVE  /\ i \notin Elems(Box[c]) => PlacesIn(c, i) = {}
             /\ i \in Elems(Box[c]) => \E p : PlacesIn(c, i) = {p}
  <2> DEFINE q == wk[st].back
             later == (wk[st].pc = "await")
  <2>1. q \in Seq(Msgs) /\ (later => q # <<>>) /\ later \in BOOLEAN
    BY WorkerFields DEF PInv, IInv
  <2>2. Box[c] = IF later THEN Tail(q) ELSE q
    BY <1>5, BoxAt DEF Trail
  <2>3. PlacesIn(c, i) = {<<"back", st, k>> : k \in LaterSpots(q, i, later)}
    BY <1>5, PlacesInAt
  <2> HIDE DEF q, later
  <2>4. /\ i \notin Elems(Box[c]) => LaterSpots(q, i, later) = {}
        /\ i \in Elems(Box[c]) => \E k : LaterSpots(q, i, later) = {k}
    BY <1>1, <2>1, <2>2, LaterSpotsAre, Zenon
  <2>5. \A Q : Q = {} => {<<"back", st, k>> : k \in Q} = {}
    OBVIOUS
  <2>6. \A Q, l : Q = {l} => {<<"back", st, k>> : k \in Q} = {<<"back", st, l>>}
    OBVIOUS
  <2> QED
    BY <2>3, <2>4, <2>5, <2>6
<1>6. ASSUME c = DrainBox
      PROVE  /\ i \notin Elems(Box[c]) => PlacesIn(c, i) = {}
             /\ i \in Elems(Box[c]) => \E p : PlacesIn(c, i) = {p}
  <2> DEFINE q == dr.back
             later == (dr.pc = "parked")
  <2>1. q \in Seq(Disps) /\ (later => q # <<>>) /\ later \in BOOLEAN
    BY DrainFields DEF PInv, IInv, Drainer
  <2>2. Box[c] = IF later THEN Tail(q) ELSE q
    BY <1>6, BoxAt DEF TakenOut
  <2>3. PlacesIn(c, i) = {<<"drain", k>> : k \in LaterSpots(q, i, later)}
    BY <1>6, PlacesInAt
  <2> HIDE DEF q, later
  <2>4. /\ i \notin Elems(Box[c]) => LaterSpots(q, i, later) = {}
        /\ i \in Elems(Box[c]) => \E k : LaterSpots(q, i, later) = {k}
    BY <1>1, <2>1, <2>2, LaterSpotsAre, Zenon
  <2>5. \A Q : Q = {} => {<<"drain", k>> : k \in Q} = {}
    OBVIOUS
  <2>6. \A Q, l : Q = {l} => {<<"drain", k>> : k \in Q} = {<<"drain", l>>}
    OBVIOUS
  <2> QED
    BY <2>3, <2>4, <2>5, <2>6
<1>7. ASSUME NEW st \in States, c \in {Chan(st), SendQ(st), Burst(st), Held(st)}
      PROVE  \E n, q : Box[c] = q /\ PlacesIn(c, i) = {<<n, st, k>> : k \in Spots(q, i)}
  <2>1. CASE c = Chan(st)
    <3> WITNESS "ch", ch[st]
    <3> QED
      BY <2>1, BoxAt, PlacesInAt
  <2>2. CASE c = SendQ(st)
    <3> WITNESS "sendq", sendq[st]
    <3> QED
      BY <2>2, BoxAt, PlacesInAt
  <2>3. CASE c = Burst(st)
    <3> WITNESS "burst", wk[st].burst
    <3> QED
      BY <2>3, BoxAt, PlacesInAt
  <2>4. CASE c = Held(st)
    <3> WITNESS "held", wk[st].held
    <3> QED
      BY <2>4, BoxAt, PlacesInAt
  <2> QED
    BY <1>7, <2>1, <2>2, <2>3, <2>4
<1> QED
  <2>1. CASE \E g \in Callers : c = Sending(g)
    BY <1>3, <2>1
  <2>2. CASE c = DrainBox
    BY <1>6, <2>2
  <2>3. CASE \E st \in States : c = Back(st)
    BY <1>5, <2>3
  <2>4. CASE \E st \in States : c \in {Chan(st), SendQ(st), Burst(st), Held(st)}
    BY <2>4, <1>7, <1>4
  <2> QED
    BY <2>1, <2>2, <2>3, <2>4, BoxMembers

\* The definition of Places, place by place.
LEMMA PlaceAmong ==
    ASSUME NEW i, NEW p
    PROVE  p \in Places(i) <=>
             \/ \E g \in {i} \cup States :
                  p = <<"sender", g>> /\ snd[g] \in {"new", "full"} /\ Offers(g) = i
             \/ \E st \in States : \E k \in DOMAIN ch[st] : p = <<"ch", st, k>> /\ ch[st][k] = i
             \/ \E st \in States : \E k \in DOMAIN sendq[st] : p = <<"sendq", st, k>> /\ sendq[st][k] = i
             \/ \E st \in States : \E k \in DOMAIN wk[st].burst :
                  p = <<"burst", st, k>> /\ wk[st].burst[k] = i
             \/ \E st \in States : \E k \in DOMAIN wk[st].held :
                  p = <<"held", st, k>> /\ wk[st].held[k] = i
             \/ \E st \in States : \E k \in DOMAIN wk[st].back :
                  p = <<"back", st, k>> /\ wk[st].back[k] = i /\ (wk[st].pc = "await" => k > 1)
             \/ \E k \in DOMAIN dr.back :
                  p = <<"drain", k>> /\ dr.back[k] = i /\ (dr.pc = "parked" => k > 1)
<1> DEFINE
  A == {<<"sender", g>> : g \in {c \in {i} \cup States :
                                snd[c] \in {"new", "full"} /\ Offers(c) = i}}
  B(st) == {<<"ch", st, k>> : k \in {l \in DOMAIN ch[st] : ch[st][l] = i}}
  C(st) == {<<"sendq", st, k>> : k \in {l \in DOMAIN sendq[st] : sendq[st][l] = i}}
  D(st) == {<<"burst", st, k>> : k \in {l \in DOMAIN wk[st].burst : wk[st].burst[l] = i}}
  E(st) == {<<"held", st, k>> : k \in {l \in DOMAIN wk[st].held : wk[st].held[l] = i}}
  F(st) == {<<"back", st, k>> : k \in {l \in DOMAIN wk[st].back :
                                wk[st].back[l] = i /\ (wk[st].pc = "await" => l > 1)}}
  G == {<<"drain", k>> : k \in {l \in DOMAIN dr.back :
                                dr.back[l] = i /\ (dr.pc = "parked" => l > 1)}}
  UB == UNION {B(st) : st \in States}
  UC == UNION {C(st) : st \in States}
  UD == UNION {D(st) : st \in States}
  UE == UNION {E(st) : st \in States}
  UF == UNION {F(st) : st \in States}
<1>1. Places(i) = A \cup UB \cup UC \cup UD \cup UE \cup UF \cup G
  BY Zenon DEF Places
<1>2. p \in A <=> \E g \in {i} \cup States :
                   p = <<"sender", g>> /\ snd[g] \in {"new", "full"} /\ Offers(g) = i
  OBVIOUS
<1>3. \A st \in States :
        /\ p \in B(st) <=> \E k \in DOMAIN ch[st] : p = <<"ch", st, k>> /\ ch[st][k] = i
        /\ p \in C(st) <=> \E k \in DOMAIN sendq[st] : p = <<"sendq", st, k>> /\ sendq[st][k] = i
        /\ p \in D(st) <=> \E k \in DOMAIN wk[st].burst :
                            p = <<"burst", st, k>> /\ wk[st].burst[k] = i
        /\ p \in E(st) <=> \E k \in DOMAIN wk[st].held :
                            p = <<"held", st, k>> /\ wk[st].held[k] = i
        /\ p \in F(st) <=> \E k \in DOMAIN wk[st].back :
              p = <<"back", st, k>> /\ wk[st].back[k] = i /\ (wk[st].pc = "await" => k > 1)
  OBVIOUS
<1>4. p \in G <=> \E k \in DOMAIN dr.back :
                   p = <<"drain", k>> /\ dr.back[k] = i /\ (dr.pc = "parked" => k > 1)
  OBVIOUS
<1> HIDE DEF A, B, C, D, E, F, G
<1>5. p \in Places(i) <=>
        \/ p \in A \/ p \in G
        \/ \E st \in States : p \in B(st) \/ p \in C(st) \/ p \in D(st) \/ p \in E(st) \/ p \in F(st)
  BY <1>1
<1> QED
  BY <1>2, <1>3, <1>4, <1>5

LEMMA PlacesAre ==
    ASSUME NEW i \in Items
    PROVE  Places(i) = UNION {PlacesIn(c, i) : c \in Boxes}
<1> DEFINE U == UNION {PlacesIn(c, i) : c \in Boxes}
<1>1. ASSUME NEW p \in Places(i) PROVE p \in U
  <2>1. CASE \E g \in {i} \cup States :
               p = <<"sender", g>> /\ snd[g] \in {"new", "full"} /\ Offers(g) = i
    BY <2>1, CallerFacts, PlacesInAt, BoxMembers
  <2>2. CASE \E st \in States : \E k \in DOMAIN ch[st] : p = <<"ch", st, k>> /\ ch[st][k] = i
    BY <2>2, PlacesInAt, BoxMembers DEF Spots
  <2>3. CASE \E st \in States : \E k \in DOMAIN sendq[st] : p = <<"sendq", st, k>> /\ sendq[st][k] = i
    BY <2>3, PlacesInAt, BoxMembers DEF Spots
  <2>4. CASE \E st \in States : \E k \in DOMAIN wk[st].burst : p = <<"burst", st, k>> /\ wk[st].burst[k] = i
    BY <2>4, PlacesInAt, BoxMembers DEF Spots
  <2>5. CASE \E st \in States : \E k \in DOMAIN wk[st].held : p = <<"held", st, k>> /\ wk[st].held[k] = i
    BY <2>5, PlacesInAt, BoxMembers DEF Spots
  <2>6. CASE \E st \in States : \E k \in DOMAIN wk[st].back :
               p = <<"back", st, k>> /\ wk[st].back[k] = i /\ (wk[st].pc = "await" => k > 1)
    BY <2>6, PlacesInAt, BoxMembers DEF LaterSpots
  <2>7. CASE \E k \in DOMAIN dr.back :
               p = <<"drain", k>> /\ dr.back[k] = i /\ (dr.pc = "parked" => k > 1)
    BY <2>7, PlacesInAt, BoxMembers DEF LaterSpots
  <2> QED
    BY <2>1, <2>2, <2>3, <2>4, <2>5, <2>6, <2>7, PlaceAmong
<1>2. ASSUME NEW c \in Boxes, NEW p \in PlacesIn(c, i) PROVE p \in Places(i)
  <2>1. CASE \E g \in Callers : c = Sending(g)
    BY <2>1, <1>2, PlacesInAt, CallerFacts, PlaceAmong DEF Offers
  <2>2. CASE \E st \in States : c = Chan(st)
    BY <2>2, <1>2, PlacesInAt, PlaceAmong DEF Spots
  <2>3. CASE \E st \in States : c = SendQ(st)
    <3>1. PICK st \in States : c = SendQ(st)
      BY <2>3
    <3>2. \E k \in DOMAIN sendq[st] : p = <<"sendq", st, k>> /\ sendq[st][k] = i
      BY <1>2, <3>1, PlacesInAt DEF Spots
    <3> QED
      BY <3>2, PlaceAmong
  <2>4. CASE \E st \in States : c = Burst(st)
    <3>1. PICK st \in States : c = Burst(st)
      BY <2>4
    <3>2. \E k \in DOMAIN wk[st].burst : p = <<"burst", st, k>> /\ wk[st].burst[k] = i
      BY <1>2, <3>1, PlacesInAt DEF Spots
    <3> QED
      BY <3>2, PlaceAmong
  <2>5. CASE \E st \in States : c = Held(st)
    <3>1. PICK st \in States : c = Held(st)
      BY <2>5
    <3>2. \E k \in DOMAIN wk[st].held : p = <<"held", st, k>> /\ wk[st].held[k] = i
      BY <1>2, <3>1, PlacesInAt DEF Spots
    <3> QED
      BY <3>2, PlaceAmong
  <2>6. CASE \E st \in States : c = Back(st)
    <3>1. PICK st \in States : c = Back(st)
      BY <2>6
    <3>2. \E k \in DOMAIN wk[st].back :
            p = <<"back", st, k>> /\ wk[st].back[k] = i /\ (wk[st].pc = "await" => k > 1)
      BY <1>2, <3>1, PlacesInAt DEF LaterSpots
    <3> QED
      BY <3>2, PlaceAmong
  <2>7. CASE c = DrainBox
    BY <1>2, <2>7, PlacesInAt, PlaceAmong DEF LaterSpots
  <2> QED
    BY <2>1, <2>2, <2>3, <2>4, <2>5, <2>6, <2>7, BoxMembers
<1> QED
  BY <1>1, <1>2

LEMMA PInvPlaces == PInv => ExactlyOnePlace
<1> SUFFICES ASSUME PInv, NEW i \in Items
             PROVE  Cardinality(Places(i)) = IF fate[i] = "open" THEN 1 ELSE 0
  BY DEF ExactlyOnePlace
<1>1. Places(i) = UNION {PlacesIn(c, i) : c \in Boxes}
  BY PlacesAre
<1>2. CASE fate[i] = "open"
  <2>1. PICK b \in Boxes : i \in Elems(Box[b])
    BY <1>2 DEF PInv, Placed, Has
  <2>2. \A c \in Boxes : c # b => PlacesIn(c, i) = {}
    BY <2>1, OneSpot DEF PInv, Placed, Distinct
  <2>3. PICK p : PlacesIn(b, i) = {p}
    BY <2>1, OneSpot
  <2>4. Places(i) = {p}
    BY <1>1, <2>1, <2>2, <2>3
  <2> QED
    BY <1>2, <2>4, FS_Singleton
<1>3. CASE fate[i] # "open"
  <2>1. \A c \in Boxes : PlacesIn(c, i) = {}
    BY <1>3, OneSpot DEF PInv, Placed, Has
  <2>2. Places(i) = {}
    BY <1>1, <2>1
  <2> QED
    BY <1>3, <2>2, FS_EmptySet
<1> QED
  BY <1>2, <1>3

\* No step of callers, workers, interrupts or of a stop loses an open item or leaves a
\* copy of it behind, whatever the number of items, scopes, generations and channel
\* capacities.
THEOREM ItemsHaveOnePlace == Spec => []ExactlyOnePlace
<1>1. Init => PInv
  BY InitPInv
<1>2. PInv /\ [Next]_vars => PInv'
  BY PlacesKept
<1> QED
  BY <1>1, <1>2, PInvPlaces, PTL DEF Spec

--------------------
(* The pool of channels, goroutines and locks implements ScopeMailbox, for *)
(* every number of items, scopes, generations and interrupts. *)
(*  *)
(* The box an item is in decides its state in the mailbox: offered in the *)
(* hands of a caller that has not had p.mu yet, running in the burst of a *)
(* worker in its turn, trailing behind the message handed back, and queued *)
(* anywhere else (Kind, StatIs).  A step of the pool is a step of the *)
(* mailbox when it changes that for some items, and a stutter otherwise; *)
(* StatFrame follows the items that a step moves.  One more invariant is *)
(* needed: what a state of a scope holds belongs to that scope (Homes). *)

\* The state of the items of a box in the mailbox.
Kind(c) ==
    CASE c[1] = "sender" -> IF snd[c[2]] = "new" THEN "offered" ELSE "queued"
      [] c[1] = "burst" -> IF wk[c[2]].pc \in {"turn", "run"} THEN "running" ELSE "queued"
      [] c[1] = "back" -> "trailing"
      [] OTHER -> "queued"

StateBoxes(st) == {Chan(st), SendQ(st), Burst(st), Held(st), Back(st)}

\* A caller blocks on a state of its item's scope, a state holds items of its scope, an
\* interrupt puts dispatches back where they came from.
Homes ==
    /\ \A g \in Callers : snd[g] = "full" => at[g][1] = ScopeOf[Offers(g)]
    /\ \A st \in States : \A c \in StateBoxes(st) : \A i \in Elems(Box[c]) : ScopeOf[i] = st[1]
    /\ \A i \in Elems(Box[DrainBox]) : ScopeOf[i] = dr.on[1]

RInv == PInv /\ Homes

--------------------
(* The state of an item is the kind of its box *)

LEMMA KindAt ==
    /\ \A g \in Callers : Kind(Sending(g)) = IF snd[g] = "new" THEN "offered" ELSE "queued"
    /\ \A st \in States :
         /\ Kind(Burst(st)) = IF wk[st].pc \in {"turn", "run"} THEN "running" ELSE "queued"
         /\ Kind(Back(st)) = "trailing"
         /\ Kind(Chan(st)) = "queued" /\ Kind(SendQ(st)) = "queued" /\ Kind(Held(st)) = "queued"
    /\ Kind(DrainBox) = "queued"
BY DEF Kind, Sending, Burst, Back, Chan, SendQ, Held, DrainBox

LEMMA KindAtNext ==
    /\ \A g \in Callers : Kind(Sending(g))' = IF snd'[g] = "new" THEN "offered" ELSE "queued"
    /\ \A st \in States :
         /\ Kind(Burst(st))' = IF wk'[st].pc \in {"turn", "run"} THEN "running" ELSE "queued"
         /\ Kind(Back(st))' = "trailing"
         /\ Kind(Chan(st))' = "queued" /\ Kind(SendQ(st))' = "queued" /\ Kind(Held(st))' = "queued"
    /\ Kind(DrainBox)' = "queued"
BY DEF Kind, Sending, Burst, Back, Chan, SendQ, Held, DrainBox

LEMMA TailElems ==
    ASSUME NEW S, NEW q \in Seq(S), q # <<>>, NEW i
    PROVE  i \in Elems(Tail(q)) <=> \E k \in DOMAIN q : q[k] = i /\ k > 1
<1> DEFINE t == Tail(q)
<1>1. /\ DOMAIN q = 1 .. Len(q) /\ Len(q) \in Nat /\ DOMAIN t = 1 .. (Len(q) - 1)
      /\ \A k \in 1 .. (Len(q) - 1) : t[k] = q[k + 1]
  OBVIOUS
<1> HIDE DEF t
<1>2. ASSUME NEW k \in 1 .. (Len(q) - 1), t[k] = i
      PROVE  k + 1 \in 1 .. Len(q) /\ q[k + 1] = i /\ k + 1 > 1
  BY <1>1, <1>2
<1>3. ASSUME NEW k \in 1 .. Len(q), q[k] = i, k > 1
      PROVE  k - 1 \in 1 .. (Len(q) - 1) /\ t[k - 1] = i
  BY <1>1, <1>3
<1>4. i \in Elems(t) => \E k \in DOMAIN q : q[k] = i /\ k > 1
  BY <1>1, <1>2 DEF Elems
<1>5. (\E k \in DOMAIN q : q[k] = i /\ k > 1) => i \in Elems(t)
  BY <1>1, <1>3 DEF Elems
<1> QED
  BY <1>4, <1>5 DEF t

\* The clauses of Stat, by boxes.
LEMMA RunningIs ==
    ASSUME NEW i
    PROVE  (\E st \in States : wk[st].pc \in {"turn", "run"} /\ i \in Elems(wk[st].burst)) <=>
           (\E st \in States : wk[st].pc \in {"turn", "run"} /\ i \in Elems(Box[Burst(st)]))
  BY BoxAt

LEMMA TrailingIs ==
    ASSUME PInv, NEW i
    PROVE  (\E st \in States : \E k \in DOMAIN wk[st].back :
              wk[st].back[k] = i /\ (wk[st].pc # "await" \/ k > 1)) <=>
           (\E st \in States : i \in Elems(Box[Back(st)]))
<1> SUFFICES ASSUME NEW st \in States
             PROVE  (\E k \in DOMAIN wk[st].back :
                       wk[st].back[k] = i /\ (wk[st].pc # "await" \/ k > 1)) <=>
                    i \in Elems(Trail(st))
  BY BoxAt
<1> DEFINE q == wk[st].back
<1>1. q \in Seq(Msgs)
  BY WorkerFields DEF PInv, IInv
<1>3. CASE q = <<>>
  BY <1>3, WorkerFields, ElemsEmpty DEF Trail, PInv, IInv
<1>4. CASE q # <<>> /\ wk[st].pc # "await"
  BY <1>4 DEF Trail, Elems
<1>5. CASE q # <<>> /\ wk[st].pc = "await"
  BY <1>5, <1>1, TailElems DEF Trail, q
<1> QED
  BY <1>3, <1>4, <1>5

LEMMA OfferedIs ==
    ASSUME NEW i \in Items
    PROVE  (\E g \in {i} \cup States : snd[g] = "new" /\ Offers(g) = i) <=>
           (\E g \in Callers : snd[g] = "new" /\ i \in Elems(Box[Sending(g)]))
<1>1. \A g \in Callers : snd[g] = "new" => (i \in Elems(Box[Sending(g)]) <=> Offers(g) = i)
  <2> SUFFICES ASSUME NEW g \in Callers, snd[g] = "new"
               PROVE  i \in Elems(Box[Sending(g)]) <=> Offers(g) = i
    OBVIOUS
  <2>1. Box[Sending(g)] = <<Offers(g)>>
    BY BoxAt DEF InHand
  <2>2. Elems(<<Offers(g)>>) = {Offers(g)}
    BY ElemsOne
  <2> QED
    BY <2>1, <2>2
<1>2. \A g \in Callers : Offers(g) = i => g \in {i} \cup States
  BY CallerFacts DEF Offers
<1>3. {i} \cup States \subseteq Callers
  BY CallerFacts
<1> QED
  BY <1>1, <1>2, <1>3

LEMMA StatIs ==
    ASSUME PInv, NEW i \in Items, NEW c \in Boxes, i \in Elems(Box[c])
    PROVE  Stat(i) = Kind(c)
<1>1. fate[i] = "open"
  BY DEF PInv, Placed, Has
<1>2. \A d \in Boxes : i \in Elems(Box[d]) => d = c
  BY DEF PInv, Placed, Distinct
<1> DEFINE run == \E st \in States : wk[st].pc \in {"turn", "run"} /\ i \in Elems(Box[Burst(st)])
           trail == \E st \in States : i \in Elems(Box[Back(st)])
           offer == \E g \in Callers : snd[g] = "new" /\ i \in Elems(Box[Sending(g)])
<1>3. Stat(i) = IF run THEN "running" ELSE IF trail THEN "trailing"
                ELSE IF offer THEN "offered" ELSE "queued"
  BY <1>1, RunningIs, TrailingIs, OfferedIs DEF Stat
<1>4. /\ run <=> \E st \in States : wk[st].pc \in {"turn", "run"} /\ c = Burst(st)
      /\ trail <=> \E st \in States : c = Back(st)
      /\ offer <=> \E g \in Callers : snd[g] = "new" /\ c = Sending(g)
  BY <1>2, BoxMembers
<1> HIDE DEF run, trail, offer
<1>5. ASSUME NEW g \in Callers, c = Sending(g) PROVE Stat(i) = Kind(c)
  BY <1>4, <1>5, BoxNames, <1>3, KindAt
<1>6. ASSUME NEW st \in States, c = Burst(st) PROVE Stat(i) = Kind(c)
  BY <1>4, <1>6, BoxNames, <1>3, KindAt
<1>7. ASSUME NEW st \in States, c = Back(st) PROVE Stat(i) = Kind(c)
  BY <1>4, <1>7, BoxNames, <1>3, KindAt
<1>8. ASSUME NEW st \in States, c \in {Chan(st), SendQ(st), Held(st)} PROVE Stat(i) = Kind(c)
  BY <1>4, <1>8, BoxNames, <1>3, KindAt
<1>9. ASSUME c = DrainBox PROVE Stat(i) = Kind(c)
  BY <1>4, <1>9, BoxNames, <1>3, KindAt DEF Sending, DrainBox
<1> QED
  BY <1>5, <1>6, <1>7, <1>8, <1>9, BoxMembers

LEMMA StatIsInv ==
    PInv => \A c \in Boxes : \A i \in Items : i \in Elems(Box[c]) => Stat(i) = Kind(c)
  BY StatIs

LEMMA StatIsPrime ==
    PInv' => (\A c \in Boxes : \A i \in Items : i \in Elems(Box[c]) => Stat(i) = Kind(c))'
  BY StatIsInv, PTL

LEMMA StatIsNext ==
    ASSUME PInv', NEW i \in Items, NEW c \in Boxes, i \in Elems(Box'[c])
    PROVE  Stat(i)' = Kind(c)'
  BY StatIsPrime DEF Elems

LEMMA OpenHasBox ==
    ASSUME PInv', NEW i \in Items, fate'[i] = "open"
    PROVE  \E c \in Boxes : i \in Elems(Box'[c])
  BY DEF PInv, Placed, Has, Elems

LEMMA StatSettled == ASSUME NEW i, fate'[i] # "open" PROVE Stat(i)' = fate'[i]
  BY DEF Stat

\* A step that moves the pairs of X, settles no item outside S, and keeps the kind of
\* the boxes of the others, leaves the state of the items outside S as it is.
LEMMA StatFrame ==
    ASSUME PInv, PInv', NEW X, MovedOnly(X), NEW S,
           \A i \in Items : i \notin S => fate'[i] = fate[i],
           \A c \in Boxes : \A i \in Items : i \in Elems(Box'[c]) /\ i \notin S =>
             /\ i \in Elems(Box[c]) => Kind(c)' = Kind(c)
             /\ <<c, i>> \in X => Stat(i) = Kind(c)'
    PROVE  \A i \in Items : i \notin S => Stat(i)' = Stat(i)
<1> SUFFICES ASSUME NEW i \in Items, i \notin S PROVE Stat(i)' = Stat(i)
  OBVIOUS
<1>1. CASE fate[i] # "open"
  BY <1>1, StatSettled DEF Stat
<1>2. CASE fate[i] = "open"
  <2>1. PICK c \in Boxes : i \in Elems(Box'[c])
    BY <1>2, OpenHasBox
  <2>2. Stat(i)' = Kind(c)'
    BY <2>1, StatIsNext
  <2>3. CASE i \in Elems(Box[c])
    BY <2>3, StatIs, <2>1, <2>2
  <2>4. CASE <<c, i>> \in X
    BY <2>1, <2>2, <2>4
  <2> QED
    BY <2>1, <2>3, <2>4 DEF MovedOnly
<1> QED
  BY <1>1, <1>2

LEMMA KindFrame ==
    ASSUME \A g \in Callers : snd'[g] = "new" <=> snd[g] = "new",
           \A st \in States : wk'[st].pc \in {"turn", "run"} <=> wk[st].pc \in {"turn", "run"}
    PROVE  \A c \in Boxes : Kind(c)' = Kind(c)
BY KindAt, KindAtNext, BoxMembers

\* The mailbox as the pool implements it: the state of the items, and whether the pool
\* takes new ones.
StatNow == [i \in Items |-> Stat(i)]
OpenNow == pool = "running"

\* A step of the mailbox, or none.
MailboxStep == [Mailbox!Next]_<<StatNow, OpenNow>>

LEMMA MailboxStutters ==
    ASSUME \A i \in Items : Stat(i)' = Stat(i), OpenNow' = OpenNow
    PROVE  MailboxStep
BY DEF StatNow, MailboxStep

\* A step that only moves queued items from one queued box to another.
LEMMA QueuedMoves ==
    ASSUME PInv, PInv', NEW X, MovedOnly(X), UNCHANGED fate,
           \A g \in Callers : snd'[g] = "new" <=> snd[g] = "new",
           \A st \in States : wk'[st].pc \in {"turn", "run"} <=> wk[st].pc \in {"turn", "run"},
           \A c \in Boxes : \A i \in Items : <<c, i>> \in X =>
             Kind(c) = "queued" /\ \E d \in Boxes : i \in Elems(Box[d]) /\ Kind(d) = "queued"
    PROVE  \A i \in Items : Stat(i)' = Stat(i)
<1> DEFINE S == {}
<1>1. \A c \in Boxes : Kind(c)' = Kind(c)
  BY KindFrame
<1>2. \A c \in Boxes : \A i \in Items : <<c, i>> \in X => Stat(i) = Kind(c)'
  BY <1>1, StatIs
<1>3. \A i \in Items : i \notin S
  OBVIOUS
<1> HIDE DEF S
<1>4. \A i \in Items : i \notin S => Stat(i)' = Stat(i)
  BY <1>1, <1>2, StatFrame
<1> QED
  BY <1>3, <1>4

LEMMA StaysPut ==
    ASSUME PInv, PInv', MovedOnly({}), UNCHANGED fate,
           \A g \in Callers : snd'[g] = "new" <=> snd[g] = "new",
           \A st \in States : wk'[st].pc \in {"turn", "run"} <=> wk[st].pc \in {"turn", "run"}
    PROVE  \A i \in Items : Stat(i)' = Stat(i)
BY QueuedMoves

--------------------
(* Items stay in their scope *)

FullHome == \A g \in Callers : snd[g] = "full" => at[g][1] = ScopeOf[Offers(g)]

LEMMA HomesKept ==
    ASSUME RInv, IInv', NEW X, MovedOnly(X), FullHome',
           \A st \in States : \A c \in StateBoxes(st) : \A i \in Items :
             <<c, i>> \in X => ScopeOf[i] = st[1],
           \A i \in Items : <<DrainBox, i>> \in X => ScopeOf[i] = dr'.on[1],
           dr'.on = dr.on \/ Box'[DrainBox] = <<>>
    PROVE  Homes'
<1>1. \A c \in Boxes : \A i \in Elems(Box'[c]) : i \in Items
  BY BoxTypeNext, ElemsSub
<1>2. \A st \in States : \A c \in StateBoxes(st) : c \in Boxes
  BY BoxMembers DEF StateBoxes
<1>3. \A st \in States : \A c \in StateBoxes(st) : \A i \in Elems(Box'[c]) : ScopeOf[i] = st[1]
  BY <1>1, <1>2, ZenonT(60) DEF MovedOnly, RInv, Homes
<1>4. \A i \in Elems(Box'[DrainBox]) : ScopeOf[i] = dr'.on[1]
  BY <1>1, BoxMembers, ElemsEmpty DEF MovedOnly, RInv, Homes
<1> QED
  BY <1>3, <1>4 DEF Homes, FullHome, Elems, StateBoxes, Chan, SendQ, Burst, Held, Back, DrainBox

LEMMA HomesStay ==
    ASSUME RInv, IInv', MovedOnly({}), FullHome', dr'.on = dr.on \/ Box'[DrainBox] = <<>>
    PROVE  Homes'
BY HomesKept

\* Callers that do not move keep the state they are blocked on, and their item.
LEMMA FullHomeKept ==
    ASSUME Homes, NEW x \in Callers, snd'[x] # "full",
           \A g \in Callers : g # x => /\ snd'[g] = snd[g] /\ at'[g] = at[g]
                                       /\ g \in States => wk'[g].back = wk[g].back
    PROVE  FullHome'
BY HandSame DEF Homes, FullHome

LEMMA FullHomeSame ==
    ASSUME Homes, \A g \in Callers : /\ snd'[g] = snd[g] /\ at'[g] = at[g]
                                     /\ g \in States => wk'[g].back = wk[g].back
    PROVE  FullHome'
BY HandSame DEF Homes, FullHome

--------------------
(* Steps of the callers *)

LEMMA KindSender ==
    ASSUME NEW g \in Callers, \A x \in Callers : x # g => snd'[x] = snd[x],
           \A st \in States : wk'[st].pc \in {"turn", "run"} <=> wk[st].pc \in {"turn", "run"}
    PROVE  \A c \in Boxes : c # Sending(g) => Kind(c)' = Kind(c)
BY KindAt, KindAtNext, BoxMembers

\* Mailbox: Accept.
LEMMA Accepts ==
    ASSUME PInv, PInv', NEW g \in Callers, snd[g] = "new", snd'[g] # "new",
           \A x \in Callers : x # g => snd'[x] = snd[x],
           \A st \in States : wk'[st].pc \in {"turn", "run"} <=> wk[st].pc \in {"turn", "run"},
           UNCHANGED <<fate, pool>>, pool = "running", NEW X, MovedOnly(X),
           \A c \in Boxes : \A i \in Items :
             <<c, i>> \in X => i = Offers(g) /\ Kind(c)' = "queued"
    PROVE  MailboxStep
<1>0. PICK o \in Items : o = Offers(g)
  BY InHandAt DEF PInv
<1> DEFINE S == {o}
<1>1. Sending(g) \in Boxes /\ Elems(Box[Sending(g)]) = {o} /\ o \in Items
  BY <1>0, InHandAt DEF PInv
<1>2. \A c \in Boxes : c # Sending(g) => Kind(c)' = Kind(c)
  BY KindSender
<1>3. Kind(Sending(g)) = "offered" /\ Kind(Sending(g))' = "queued"
  BY KindAt, KindAtNext
<1>4. Stat(o) = "offered"
  BY <1>1, <1>3, StatIs
<1>5. fate[o] = "open" /\ fate'[o] = "open"
  BY <1>1 DEF PInv, Placed, Has
<1>6. PICK c \in Boxes : o \in Elems(Box'[c])
  BY <1>1, <1>5, OpenHasBox
<1>7. Stat(o)' = "queued"
  BY <1>1, <1>6, StatIsNext, <1>3 DEF PInv, Placed, Distinct, MovedOnly
<1>8. \A i \in Items : i \notin S => Stat(i)' = Stat(i)
  BY <1>1, <1>0, <1>2, StatFrame
<1>9. \A i \in Items : Stat(i)' = IF i = o THEN "queued" ELSE Stat(i)
  BY <1>7, <1>8
<1>10. Mailbox!Accept(o)
  BY <1>1, <1>4, <1>9 DEF Mailbox!Accept, Mailbox!Move, Mailbox!Items, Items
<1>11. Mailbox!Next
  BY <1>1, <1>10 DEF Mailbox!Next, Mailbox!Items, Items
<1> QED
  BY <1>11 DEF MailboxStep

\* Mailbox: Lose, of a single item.
LEMMA Loses ==
    ASSUME PInv, PInv', pool # "running", UNCHANGED pool, NEW o \in Items, fate[o] = "open",
           fate' = [fate EXCEPT ![o] = "dropped"], MovedOnly({}),
           \A c \in Boxes : \A i \in Items :
             i \in Elems(Box'[c]) /\ i # o => Kind(c)' = Kind(c)
    PROVE  MailboxStep
<1> DEFINE S == {o}
           X == {}
<1>1. fate'[o] = "dropped" /\ \A i \in Items : i \notin S => fate'[i] = fate[i]
  BY DEF PInv, IInv, Types
<1>2. Stat(o)' = "dropped"
  BY <1>1, StatSettled
<1>3. Stat(o) \in {"offered", "queued", "running", "trailing"}
  BY DEF Stat
<1>4. \A i \in Items : i \notin S => Stat(i)' = Stat(i)
  <2>1. MovedOnly(X) /\ \A c \in Boxes : \A i \in Items : <<c, i>> \notin X
    OBVIOUS
  <2>2. \A i \in Items : i \notin S => i # o
    OBVIOUS
  <2> HIDE DEF S, X
  <2> QED
    BY <1>1, <2>1, <2>2, StatFrame
<1>5. \A i \in Items : Stat(i)' = IF i \in S THEN "dropped" ELSE Stat(i)
  BY <1>2, <1>4
<1>6. S \in SUBSET Items /\ S # {} /\ \A i \in S : Stat(i) \in {"offered", "queued", "running", "trailing"}
  BY <1>3
<1> HIDE DEF S
<1>7. Mailbox!Lose(S)
  BY <1>5, <1>6 DEF Mailbox!Lose, Mailbox!Move, Mailbox!Items, Items
<1>8. Mailbox!Next
  BY <1>6, <1>7 DEF Mailbox!Next, Mailbox!Items, Items
<1> QED
  BY <1>8 DEF MailboxStep

LEMMA EnqueueRefines ==
    ASSUME RInv, PInv', NEW g \in Callers, Enqueue(g)
    PROVE  Homes' /\ MailboxStep
<1>0. PInv /\ IInv' /\ Homes
  BY DEF RInv, PInv
<1>1. snd[g] = "new" /\ UNCHANGED <<sendq, dr, pool>>
  BY DEF Enqueue
<1>2. PICK o \in Items : o = Offers(g)
  BY <1>0, <1>1, InHandAt DEF PInv
<1>3. CASE pool # "running"
  <2>1. /\ snd' = [snd EXCEPT ![g] = "done"] /\ fate' = [fate EXCEPT ![o] = "dropped"]
        /\ UNCHANGED <<at, wk, ch>>
    BY <1>2, <1>3 DEF Enqueue
  <2>2. snd'[g] = "done" /\ \A x \in Callers : x # g => snd'[x] = snd[x]
    BY <1>0, <2>1 DEF PInv, IInv, Types
  <2>3. MovedOnly({})
    BY <1>0, <1>3, EnqueueRefusedPlaces
  <2>4. FullHome'
    BY <1>0, <2>1, <2>2, FullHomeKept
  <2>5. Homes'
    BY <1>0, <1>1, <2>3, <2>4, HomesStay
  <2>6. fate[o] = "open"
    BY <1>0, <1>1, <1>2, InHandAt DEF PInv, Placed, Has
  <2>7. \A c \in Boxes : \A i \in Items : i \in Elems(Box'[c]) /\ i # o => Kind(c)' = Kind(c)
    BY <2>2, HandEmpty, ElemsEmpty, <2>1, KindSender
  <2>8. MailboxStep
    BY <1>0, <1>1, <1>3, <2>1, <2>3, <2>6, <2>7, Loses
  <2> QED
    BY <2>5, <2>8
<1>4. CASE pool = "running"
  <2> DEFINE s == ScopeOf[Offers(g)]
             st0 == <<s, reg[s]>>
             new == <<s, gen[s] + 1>>
  <2>1. s \in Scopes
    BY <1>2, CallerFacts
  <2>2. UNCHANGED fate
    BY <1>4 DEF Enqueue
  <2>3. /\ snd'[g] \in {"done", "full"} /\ \A x \in Callers : x # g => snd'[x] = snd[x]
        /\ \A x \in Callers : x # g => at'[x] = at[x]
        /\ snd'[g] = "full" => at'[g] = st0 /\ wk' = wk
    BY <1>4, <1>0 DEF Enqueue, PInv, IInv, Types
  <2>4. wk' = wk \/ (reg[s] = 0 /\ wk' = [wk EXCEPT ![new].pc = "spawn"])
    BY <1>4 DEF Enqueue
  <2>5. /\ \A st \in States : wk'[st].pc \in {"turn", "run"} <=> wk[st].pc \in {"turn", "run"}
        /\ \A st \in States : wk'[st].back = wk[st].back
    <3>1. CASE wk' = wk
      BY <3>1
    <3>2. CASE reg[s] = 0 /\ wk' = [wk EXCEPT ![new].pc = "spawn"]
      <4>1. new \in States /\ new[1] = s /\ new[2] # 0
        <5>1. gen[s] + 1 \in 1 .. MaxGens
          <6>1. gen[s] \in 0 .. MaxGens /\ gen[s] < MaxGens
            BY <1>0, <2>1, <3>2 DEF PInv, IInv, Types, Registry
          <6>2. MaxGens \in Nat
            BY WorkersAssumption
          <6> HIDE DEF s
          <6> QED
            BY <6>1, <6>2
        <5> QED
          BY <2>1, <5>1, StateFacts
      <4>2. wk[new].pc \notin {"turn", "run"}
        BY <1>0, <3>2, <4>1 DEF PInv, IInv, Registry, Running
      <4> HIDE DEF new
      <4>3. /\ wk'[new].pc = "spawn" /\ wk'[new].back = wk[new].back
            /\ \A x \in States : x # new => wk'[x] = wk[x]
        BY <1>0, <3>2, <4>1, WorkerFields DEF PInv, IInv, Types, Wks
      <4> QED
        BY <4>2, <4>3
    <3> QED
      BY <2>4, <3>1, <3>2
  <2>6. FullHome'
    BY <1>0, <2>3, <2>5, FullHomeKept DEF Offers, FullHome, Homes
  <2>7. \/ MovedOnly({})
        \/ \E st \in States : st[1] = s /\ MovedOnly({<<Chan(st), Offers(g)>>})
    BY <1>0, EnqueuePlaces
  <2> HIDE DEF s, st0, new
  <2>8. CASE MovedOnly({})
    <3>1. Homes'
      BY <1>0, <1>1, <2>6, <2>8, HomesStay
    <3> DEFINE X == {}
    <3>2. MovedOnly(X) /\ \A c \in Boxes : \A i \in Items : <<c, i>> \notin X
      BY <2>8
    <3> HIDE DEF X
    <3>3. MailboxStep
      BY <1>0, <1>1, <1>4, <2>2, <2>3, <2>5, <3>2, Accepts
    <3> QED
      BY <3>1, <3>3
  <2>9. CASE \E st \in States : st[1] = s /\ MovedOnly({<<Chan(st), Offers(g)>>})
    <3>1. PICK st \in States : st[1] = s /\ MovedOnly({<<Chan(st), Offers(g)>>})
      BY <2>9
    <3> DEFINE X == {<<Chan(st), o>>}
    <3>2. MovedOnly(X) /\ \A c, i : <<c, i>> \in X => c = Chan(st) /\ i = o
      BY <1>2, <3>1
    <3> HIDE DEF X
    <3>3. Homes'
      BY BoxNames, <1>2, <3>1, <1>0, <1>1, <2>6, <3>2, HomesKept DEF StateBoxes, s
    <3>4. MailboxStep
      <4>1. Kind(Chan(st))' = "queued"
        BY KindAtNext
      <4>2. \A c \in Boxes : \A i \in Items :
              <<c, i>> \in X => i = Offers(g) /\ Kind(c)' = "queued"
        BY <1>2, <3>2, <4>1
      <4> QED
        BY <1>0, <1>1, <1>4, <2>2, <2>3, <2>5, <3>2, <4>2, Accepts
    <3> QED
      BY <3>3, <3>4
  <2> QED
    BY <2>7, <2>8, <2>9
<1> QED
  BY <1>3, <1>4

LEMMA SlowSendRefines ==
    ASSUME RInv, PInv', NEW g \in Callers, SlowSend(g)
    PROVE  Homes' /\ MailboxStep
<1>0. PInv /\ IInv' /\ Homes
  BY DEF RInv, PInv
<1>1. snd[g] = "full" /\ UNCHANGED <<wk, at, dr, pool, fate>> /\
      (snd' = [snd EXCEPT ![g] = "sent"] \/ snd' = [snd EXCEPT ![g] = "parked"])
  BY DEF SlowSend
<1>2. snd'[g] \in {"sent", "parked"} /\ \A x \in Callers : x # g => snd'[x] = snd[x]
  BY <1>0, <1>1 DEF PInv, IInv, Types
<1>3. /\ at[g] \in States
      /\ MovedOnly({<<Chan(at[g]), Offers(g)>>, <<SendQ(at[g]), Offers(g)>>})
  BY <1>0, SlowSendPlaces
<1>4. PICK o \in Items : o = Offers(g)
  BY <1>0, <1>1, InHandAt DEF PInv
<1>5. PICK st \in States : st = at[g]
  BY <1>3
<1> DEFINE X == {<<Chan(st), o>>, <<SendQ(st), o>>}
<1>6. MovedOnly(X) /\ \A c, i : <<c, i>> \in X => c \in {Chan(st), SendQ(st)} /\ i = o
  BY <1>3, <1>4, <1>5
<1> HIDE DEF X
<1>7. ScopeOf[o] = st[1]
  BY <1>0, <1>1, <1>4, <1>5 DEF Homes
<1>8. FullHome'
  BY <1>0, <1>1, <1>2, FullHomeKept
<1>9. Homes'
  BY BoxNames, <1>0, <1>1, <1>6, <1>7, <1>8, HomesKept DEF StateBoxes
<1>10. \A i \in Items : Stat(i)' = Stat(i)
  BY <1>0, <1>1, <1>4, InHandAt, KindAt, <1>6, <1>2, QueuedMoves DEF PInv
<1> QED
  BY <1>1, <1>9, <1>10, MailboxStutters DEF OpenNow

LEMMA WakeRefines ==
    ASSUME RInv, PInv', NEW g \in Callers, Wake(g) \/ Relock(g)
    PROVE  Homes' /\ MailboxStep
<1>0. PInv /\ IInv' /\ Homes
  BY DEF RInv, PInv
<1>1. /\ snd[g] \in {"parked", "sent"} /\ UNCHANGED <<wk, dr, pool, fate>>
      /\ snd' \in {[snd EXCEPT ![g] = "sent"], [snd EXCEPT ![g] = "done"]}
      /\ at' = at \/ at' = [at EXCEPT ![g] = NoState]
  BY DEF Wake, Relock
<1>2. /\ snd'[g] \in {"sent", "done"} /\ \A x \in Callers : x # g => snd'[x] = snd[x]
      /\ \A x \in Callers : x # g => at'[x] = at[x]
  BY <1>0, <1>1 DEF PInv, IInv, Types
<1>3. MovedOnly({})
  BY <1>0, WakePlaces
<1>4. FullHome'
  BY <1>0, <1>1, <1>2, FullHomeKept
<1>5. Homes'
  BY <1>0, <1>1, <1>3, <1>4, HomesStay
<1>6. \A i \in Items : Stat(i)' = Stat(i)
  BY <1>1, <1>2, <1>0, <1>3, StaysPut
<1> QED
  BY <1>1, <1>5, <1>6, MailboxStutters DEF OpenNow

LEMMA GiveUpRefines ==
    ASSUME RInv, PInv', NEW g \in Callers, GiveUp(g)
    PROVE  Homes' /\ MailboxStep
<1>0. PInv /\ IInv' /\ Homes
  BY DEF RInv, PInv
<1>1. /\ pool = "cancelled" /\ snd[g] \in {"full", "parked"} /\ UNCHANGED <<wk, at, dr, pool>>
      /\ snd' = [snd EXCEPT ![g] = "sent"] /\ fate' = [fate EXCEPT ![Offers(g)] = "dropped"]
  BY DEF GiveUp
<1>2. snd'[g] = "sent" /\ \A x \in Callers : x # g => snd'[x] = snd[x]
  BY <1>0, <1>1 DEF PInv, IInv, Types
<1>3. MovedOnly({})
  BY <1>0, GiveUpPlaces
<1>4. FullHome'
  BY <1>0, <1>1, <1>2, FullHomeKept
<1>5. Homes'
  BY <1>0, <1>1, <1>3, <1>4, HomesStay
<1>6. PICK o \in Items : o = Offers(g)
  BY <1>0, <1>1, OffersType DEF PInv, IInv
<1>7. fate[o] = "open"
  <2>1. CASE snd[g] = "full"
    BY <1>0, <1>6, <2>1, InHandAt DEF PInv, Placed, Has
  <2>2. CASE snd[g] = "parked"
    <3>1. Unpark(g) /\ at[g] \in States
      BY <1>0, <2>2 DEF GiveUp, PInv, IInv, Types, Senders
    <3>2. SendQ(at[g]) \in Boxes /\ o \in Elems(Box[SendQ(at[g])])
      BY <1>6, <3>1, BoxMembers, BoxAt DEF Unpark, Elems
    <3> QED
      BY <1>0, <3>2 DEF PInv, Placed, Has
  <2> QED
    BY <1>1, <2>1, <2>2
<1>8. \A c \in Boxes : Kind(c)' = Kind(c)
  BY <1>1, <1>2, KindFrame
<1>9. MailboxStep
  BY <1>0, <1>1, <1>3, <1>6, <1>7, <1>8, Loses
<1> QED
  BY <1>5, <1>9

--------------------
(* Steps of the workers *)

LEMMA WorkerFull ==
    ASSUME Homes, NEW st \in States, snd'[st] # "full", UNCHANGED at,
           \A x \in Callers : x # st => snd'[x] = snd[x],
           \A x \in States : x # st => wk'[x] = wk[x]
    PROVE  FullHome'
  BY FullHomeKept, CallerFacts

\* A worker outside its turn that moves nothing, and does not begin one.
LEMMA WorkerQuiet ==
    ASSUME RInv, PInv', NEW st \in States, MovedOnly({}), UNCHANGED <<snd, at, dr, pool, fate>>,
           \A x \in States : x # st => wk'[x] = wk[x],
           wk[st].pc \notin {"turn", "run"}, wk'[st].pc \notin {"turn", "run"}, snd[st] = "done"
    PROVE  Homes' /\ MailboxStep
BY WorkerFull, HomesStay, StaysPut, MailboxStutters DEF RInv, PInv, OpenNow

LEMMA QuietRefines ==
    ASSUME RInv, PInv', NEW st \in States,
           Spawn(st) \/ IdleTimer(st) \/ WorkerExit(st) \/ TryPruneIdleThread(st)
    PROVE  Homes' /\ MailboxStep
BY GotoFields, QuietPlaces, WorkerQuiet DEF Spawn, IdleTimer, WorkerExit, TryPruneIdleThread,
   RInv, PInv, IInv, Senders

LEMMA HandedBackRefines ==
    ASSUME RInv, PInv', NEW st \in States, HandedBack(st)
    PROVE  Homes' /\ MailboxStep
<1> DEFINE t == Tail(wk[st].back)
<1>1. /\ wk[st].pc = "await" /\ snd[st] = "done" /\ UNCHANGED <<snd, at, dr, pool, fate>>
      /\ wk' = [wk EXCEPT ![st].pc = "trail", ![st].back = t]
  BY DEF HandedBack
<1> HIDE DEF t
<1>2. wk'[st].pc = "trail" /\ \A x \in States : x # st => wk'[x] = wk[x]
  BY <1>1, WorkerFields DEF RInv, PInv, IInv, Types, Wks
<1>3. MovedOnly({})
  BY HandedBackPlaces DEF RInv
<1> QED
  BY <1>1, <1>2, <1>3, WorkerQuiet

\* What a receive moves is in the channel or parked on it, and of its scope.
LEMMA TakenFacts ==
    ASSUME RInv, NEW st \in States, ch[st] # <<>>, NEW b
    PROVE  \E X : /\ X = Taken(st, b)
                  /\ \A c, i : <<c, i>> \in X =>
                       /\ c = b \/ c = Chan(st)
                       /\ i \in Items /\ ScopeOf[i] = st[1]
                       /\ i \in Elems(Box[Chan(st)]) \/ i \in Elems(Box[SendQ(st)])
<1>1. /\ Box[Chan(st)] = ch[st] /\ Box[SendQ(st)] = sendq[st]
      /\ ch[st] \in Seq(Items) /\ sendq[st] \in Seq(Items)
  BY BoxAt DEF RInv, PInv, IInv, Types
<1> DEFINE q == ch[st]
           p == sendq[st]
           h == Head(q)
<1>2. h \in Elems(q)
  BY <1>1 DEF q, Elems, h
<1>3. Elems(q) \subseteq Items /\ Elems(p) \subseteq Items
  BY <1>1, ElemsSub
<1>4. \A i \in Elems(q) \cup Elems(p) : ScopeOf[i] = st[1]
  BY <1>1 DEF RInv, Homes, StateBoxes
<1> DEFINE Y == {<<b, h>>} \cup {<<Chan(st), i>> : i \in Elems(p)}
<1>5. Y = Taken(st, b)
  BY DEF Taken
<1>6. \A c, i : <<c, i>> \in Y => (c = b \/ c = Chan(st)) /\ i \in Elems(q) \cup Elems(p)
  BY <1>2
<1> HIDE DEF Y, h
<1> QED
  BY <1>1, <1>3, <1>4, <1>5, <1>6

LEMMA TakenHomes ==
    ASSUME RInv, IInv', NEW st \in States, ch[st] # <<>>, NEW b \in {Burst(st), Held(st)},
           MovedOnly(Taken(st, b)), FullHome', UNCHANGED dr
    PROVE  Homes'
BY TakenFacts, BoxNames, HomesKept DEF StateBoxes

\* A worker that receives into its burst before its turn.
LEMMA BurstRefines ==
    ASSUME RInv, PInv', NEW st \in States, ch[st] # <<>>, MovedOnly(Taken(st, Burst(st))),
           UNCHANGED <<snd, at, dr, pool, fate>>, \A x \in States : x # st => wk'[x] = wk[x],
           wk[st].pc \in {"wait", "drain"}, wk'[st].pc \notin {"turn", "run"}
    PROVE  Homes' /\ MailboxStep
<1>1. PInv /\ IInv' /\ Homes /\ snd[st] = "done"
  BY DEF RInv, PInv, IInv, Senders
<1>2. FullHome'
  BY <1>1, WorkerFull
<1>3. Homes'
  BY <1>1, <1>2, TakenHomes
<1>4. PICK X : /\ X = Taken(st, Burst(st))
               /\ \A c, i : <<c, i>> \in X =>
                    /\ c = Burst(st) \/ c = Chan(st)
                    /\ i \in Elems(Box[Chan(st)]) \/ i \in Elems(Box[SendQ(st)])
  BY TakenFacts
<1>5. /\ Kind(Burst(st)) = "queued" /\ Kind(Chan(st)) = "queued" /\ Kind(SendQ(st)) = "queued"
      /\ Chan(st) \in Boxes /\ SendQ(st) \in Boxes
  BY KindAt, BoxMembers
<1>6. \A c \in Boxes : \A i \in Items : <<c, i>> \in X =>
        Kind(c) = "queued" /\ \E d \in Boxes : i \in Elems(Box[d]) /\ Kind(d) = "queued"
  BY <1>4, <1>5
<1>7. MovedOnly(X)
  BY <1>4
<1>8. \A x \in States : wk'[x].pc \in {"turn", "run"} <=> wk[x].pc \in {"turn", "run"}
  OBVIOUS
<1>9. \A i \in Items : Stat(i)' = Stat(i)
  BY <1>1, <1>6, <1>7, <1>8, QueuedMoves
<1> QED
  BY <1>3, <1>9, MailboxStutters DEF OpenNow

LEMMA PopRefines ==
    ASSUME RInv, PInv', NEW st \in States, Pop(st)
    PROVE  Homes' /\ MailboxStep
<1> DEFINE h == Head(ch[st])
<1>1. /\ wk[st].pc = "wait" /\ ch[st] # <<>> /\ UNCHANGED <<snd, at, dr, pool, fate>>
      /\ wk' = [wk EXCEPT ![st].pc = "popped", ![st].burst = <<h>>]
  BY DEF Pop
<1> HIDE DEF h
<1>2. wk'[st].pc = "popped" /\ \A x \in States : x # st => wk'[x] = wk[x]
  BY <1>1, WorkerFields DEF RInv, PInv, IInv, Types, Wks
<1>3. MovedOnly(Taken(st, Burst(st)))
  BY PopPlaces DEF RInv, PInv
<1> QED
  BY <1>1, <1>2, <1>3, BurstRefines

\* A held dispatch becomes the next burst.
LEMMA EndTurnRefines ==
    ASSUME RInv, PInv', NEW st \in States, EndTurn(st)
    PROVE  Homes' /\ MailboxStep
<1>0. PInv /\ IInv' /\ Homes
  BY DEF RInv, PInv
<1>1. wk[st].pc = "settle" /\ UNCHANGED <<snd, at, dr, pool, fate>>
  BY DEF EndTurn
<1>2. snd[st] = "done"
  BY <1>1 DEF RInv, PInv, IInv, Senders
<1>3. \A x \in States : x # st => wk'[x] = wk[x]
  <2>1. CASE Goto(st, "wait")
    BY <1>0, <2>1, GotoFields DEF PInv, IInv
  <2> DEFINE q == wk[st].held
  <2>2. CASE wk' = [wk EXCEPT ![st].pc = "popped", ![st].burst = q, ![st].held = <<>>]
    <3> HIDE DEF q
    <3> QED
      BY <1>0, <2>2 DEF PInv, IInv, Types
  <2> QED
    BY <2>1, <2>2 DEF EndTurn
<1>4. PICK H \in SUBSET Items : H = Elems(wk[st].held)
  BY <1>0, WorkerFields, ElemsSub DEF PInv, IInv, Items
<1>5. wk'[st].pc \in {"wait", "popped"} /\ MovedOnly({<<Burst(st), i>> : i \in H})
  BY <1>0, <1>4, EndTurnPlaces DEF PInv
<1> DEFINE X == {<<Burst(st), i>> : i \in H}
<1>6. MovedOnly(X) /\ \A c, i : <<c, i>> \in X => c = Burst(st) /\ i \in H
  BY <1>5
<1> HIDE DEF X
<1>7. Box[Held(st)] = wk[st].held /\ Held(st) \in Boxes
  BY BoxAt, BoxMembers
<1>8. \A i \in H : ScopeOf[i] = st[1]
  BY <1>0, <1>4, <1>7 DEF Homes, StateBoxes
<1>9. Homes'
  BY <1>0, <1>1, <1>2, <1>3, WorkerFull, BoxNames, <1>6, <1>8, HomesKept DEF StateBoxes
<1>10. \A i \in Items : Stat(i)' = Stat(i)
  BY <1>1, KindAt, <1>4, <1>6, <1>7, <1>3, <1>5, <1>0, QueuedMoves
<1> QED
  BY <1>1, <1>9, <1>10, MailboxStutters DEF OpenNow

LEMMA ElemsCount ==
    ASSUME NEW S, NEW q \in Seq(S), NoDup(q)
    PROVE  Cardinality(Elems(q)) = Len(q)
BY FS_CountingElements DEF Elems, Injection, IsInjective, NoDup, Surjection, ExistsBijection,
   Bijection

LEMMA MailboxCount == ASSUME NEW B PROVE Mailbox!Cardinality(B) = Cardinality(B)
  BY Zenon DEF Mailbox!Cardinality, Cardinality

\* What runs in a scope is the burst of its worker.
LEMMA RunningHere ==
    ASSUME RInv, NEW i \in Items, Stat(i) = "running"
    PROVE  \E x \in States : /\ wk[x].pc \in {"turn", "run"} /\ i \in Elems(Box[Burst(x)])
                             /\ x[1] = ScopeOf[i]
<1>1. fate[i] \in {"open", "done", "failed", "dropped"}
  BY DEF RInv, PInv, IInv, Types
<1>2. \E x \in States : wk[x].pc \in {"turn", "run"} /\ i \in Elems(wk[x].burst)
  BY <1>1 DEF Stat
<1>3. PICK x \in States : wk[x].pc \in {"turn", "run"} /\ i \in Elems(Box[Burst(x)])
  BY <1>2, RunningIs
<1>4. ScopeOf[i] = x[1]
  BY <1>3 DEF RInv, Homes, StateBoxes
<1> QED
  BY <1>3, <1>4

LEMMA RunningOnly ==
    ASSUME RInv, NEW st \in States, Running(st), NEW i \in Items, ScopeOf[i] = st[1],
           Stat(i) = "running"
    PROVE  wk[st].pc \in {"turn", "run"} /\ i \in Elems(Box[Burst(st)])
BY RunningHere, IInvOneWorker DEF Running, RInv, PInv, OneWorkerPerScope

\* A worker changes the kind of its own burst only.
LEMMA KindWorker ==
    ASSUME NEW st \in States, \A x \in States : x # st => wk'[x] = wk[x], UNCHANGED snd
    PROVE  \A c \in Boxes : c # Burst(st) => Kind(c)' = Kind(c)
BY KindAt, KindAtNext, BoxMembers

\* Mailbox: Begin, of the burst in the hands of the worker.
LEMMA Begins ==
    ASSUME RInv, PInv', NEW st \in States, wk[st].pc \in {"popped", "drain"},
           wk'[st].pc = "turn", wk'[st].burst = wk[st].burst,
           \A x \in States : x # st => wk'[x] = wk[x], UNCHANGED <<snd, fate, pool>>,
           NEW X, MovedOnly(X),
           \A c \in Boxes : \A i \in Items : <<c, i>> \in X =>
             /\ c \in {Held(st), Chan(st)}
             /\ \E d \in Boxes : i \in Elems(Box[d]) /\ Kind(d) = "queued"
    PROVE  MailboxStep
<1>0. PInv /\ IInv /\ Homes
  BY DEF RInv, PInv
<1>1. /\ Burst(st) \in Boxes /\ Box[Burst(st)] = wk[st].burst /\ Box'[Burst(st)] = wk[st].burst
      /\ Kind(Burst(st)) = "queued" /\ Kind(Burst(st))' = "running"
  BY BoxMembers, BoxAt, BoxAtNext, KindAt, KindAtNext
<1> DEFINE q == wk[st].burst
<1>2. /\ q \in Seq(Items) /\ NoDup(q) /\ q # <<>> /\ Len(q) <= BurstMax
      /\ q \in Seq(Msgs) \/ Len(q) = 1
  BY <1>0, <1>1, BoxType, WorkerFields DEF PInv, Placed, Distinct, Shapes, IInv
<1> HIDE DEF q
<1>3. PICK B \in SUBSET Items : B = Elems(q)
  BY <1>2, ElemsSub
<1>4. /\ Cardinality(B) = Len(q) /\ B # {} /\ Cardinality(B) <= BurstMax
      /\ B \subseteq Msgs \/ Cardinality(B) = 1
  <2>1. Cardinality(B) = Len(q)
    BY <1>2, <1>3, ElemsCount
  <2>2. B # {}
    BY <1>2, <1>3 DEF Elems
  <2>3. q \in Seq(Msgs) => B \subseteq Msgs
    BY <1>3, ElemsSub
  <2> QED
    BY <1>2, <2>1, <2>2, <2>3
<1>5. B = Elems(Box[Burst(st)]) /\ B = Elems(Box'[Burst(st)])
  BY <1>1, <1>3 DEF q
<1>6. \A i \in B : Stat(i) = "queued" /\ ScopeOf[i] = st[1] /\ Stat(i)' = "running"
  BY <1>0, <1>1, <1>5, StatIs, StatIsNext DEF Homes, StateBoxes
<1>7. \A i \in Items : ScopeOf[i] = st[1] => Stat(i) # "running"
  BY RunningOnly DEF Running
<1>8. \A c \in Boxes : c # Burst(st) => Kind(c)' = Kind(c)
  BY KindWorker
<1>9. \A i \in Items : i \notin B => Stat(i)' = Stat(i)
  BY BoxNames, KindAt, <1>5, <1>8, <1>0, StatIs, StatFrame
<1>10. \A i \in Items : Stat(i)' = IF i \in B THEN "running" ELSE Stat(i)
  BY <1>6, <1>9
<1>11. st[1] \in Scopes
  BY StateFacts
<1>12. Mailbox!Begin(st[1])
  BY <1>7, <1>6, <1>10, <1>4, MailboxCount DEF Mailbox!In, Mailbox!Items, Items, Mailbox!Move,
     Mailbox!Begin
<1>13. Mailbox!Next
  BY <1>11, <1>12 DEF Mailbox!Next
<1> QED
  BY <1>13 DEF MailboxStep

\* A dispatch begins its turn at once, a burst is drained first.
LEMMA BeginTurnRefines ==
    ASSUME RInv, PInv', NEW st \in States, BeginTurn(st)
    PROVE  Homes' /\ MailboxStep
<1>0. PInv /\ IInv' /\ Homes
  BY DEF RInv, PInv
<1>1. /\ wk[st].pc = "popped" /\ UNCHANGED <<snd, at, dr, pool, fate>>
      /\ \E pc \in {"turn", "drain"} : Goto(st, pc)
  BY DEF BeginTurn
<1>2. PICK pc \in {"turn", "drain"} : Goto(st, pc)
  BY <1>1
<1>3. /\ wk'[st].pc = pc /\ wk'[st].burst = wk[st].burst
      /\ \A x \in States : x # st => wk'[x] = wk[x]
  BY <1>0, <1>2, GotoFields DEF PInv, IInv
<1>4. snd[st] = "done"
  BY <1>0, <1>1 DEF PInv, IInv, Senders
<1>5. MovedOnly({})
  BY <1>0, BeginTurnPlaces
<1>6. CASE pc = "drain"
  BY <1>1, <1>3, <1>4, <1>5, <1>6, WorkerQuiet
<1>7. CASE pc = "turn"
  BY <1>0, <1>1, <1>3, <1>4, WorkerFull, <1>5, HomesStay, <1>7, Begins
<1> QED
  BY <1>6, <1>7

\* The drain of a burst: one more message, or the turn begins.
LEMMA DrainBurstRefines ==
    ASSUME RInv, PInv', NEW st \in States, DrainBurst(st)
    PROVE  Homes' /\ MailboxStep
<1>0. PInv /\ IInv' /\ Homes
  BY DEF RInv, PInv
<1>1. wk[st].pc = "drain" /\ UNCHANGED <<snd, at, dr, pool, fate>>
  BY DEF DrainBurst
<1>2. snd[st] = "done"
  BY <1>0, <1>1 DEF PInv, IInv, Senders
<1> DEFINE more == Len(wk[st].burst) < BurstMax /\ ch[st] # <<>>
<1>3. \A x \in States : x # st => wk'[x] = wk[x]
  BY <1>0, GotoFields DEF DrainBurst, PInv, IInv, Types
<1>4. FullHome'
  BY <1>0, <1>1, <1>2, <1>3, WorkerFull
<1>5. \/ /\ wk'[st].pc = "turn" /\ wk'[st].burst = wk[st].burst
         /\ MovedOnly({}) \/ (ch[st] # <<>> /\ MovedOnly(Taken(st, Held(st))))
      \/ wk'[st].pc = "drain" /\ ch[st] # <<>> /\ MovedOnly(Taken(st, Burst(st)))
  BY <1>0, DrainBurstPlaces DEF PInv
<1>6. CASE wk'[st].pc = "drain" /\ ch[st] # <<>> /\ MovedOnly(Taken(st, Burst(st)))
  BY <1>1, <1>3, <1>6, BurstRefines
<1>7. CASE wk'[st].pc = "turn" /\ wk'[st].burst = wk[st].burst /\ MovedOnly({})
  BY <1>0, <1>1, <1>4, <1>7, HomesStay, <1>3, Begins
<1>8. CASE /\ wk'[st].pc = "turn" /\ wk'[st].burst = wk[st].burst /\ ch[st] # <<>>
           /\ MovedOnly(Taken(st, Held(st)))
  <2>1. Homes'
    BY <1>0, <1>1, <1>4, <1>8, TakenHomes
  <2>2. PICK X : /\ X = Taken(st, Held(st))
                 /\ \A c, i : <<c, i>> \in X =>
                      /\ c = Held(st) \/ c = Chan(st)
                      /\ i \in Elems(Box[Chan(st)]) \/ i \in Elems(Box[SendQ(st)])
    BY <1>8, TakenFacts
  <2>3. /\ Kind(Chan(st)) = "queued" /\ Kind(SendQ(st)) = "queued"
        /\ Chan(st) \in Boxes /\ SendQ(st) \in Boxes
    BY KindAt, BoxMembers
  <2>4. \A c \in Boxes : \A i \in Items : <<c, i>> \in X =>
          /\ c \in {Held(st), Chan(st)}
          /\ \E d \in Boxes : i \in Elems(Box[d]) /\ Kind(d) = "queued"
    BY <2>2, <2>3
  <2>5. MovedOnly(X)
    BY <1>8, <2>2
  <2>6. MailboxStep
    BY <1>1, <1>3, <1>8, <2>4, <2>5, Begins
  <2> QED
    BY <2>1, <2>6
<1> QED
  BY <1>5, <1>6, <1>7, <1>8

\* Items that a step settles while no other item moves.
LEMMA SettlesMany ==
    ASSUME PInv, PInv', MovedOnly({}), NEW S \in SUBSET Items, NEW x, x # "open",
           \A i \in Items : fate'[i] = IF i \in S THEN x ELSE fate[i],
           \A c \in Boxes : Elems(Box'[c]) # {} => Kind(c)' = Kind(c)
    PROVE  \A i \in Items : Stat(i)' = IF i \in S THEN x ELSE Stat(i)
<1> DEFINE X == {}
<1>1. MovedOnly(X) /\ \A c, i : <<c, i>> \notin X
  OBVIOUS
<1> HIDE DEF X
<1>2. \A i \in Items : i \notin S => Stat(i)' = Stat(i)
  BY <1>1, StatFrame
<1>3. \A i \in Items : i \in S => Stat(i)' = x
  BY StatSettled
<1> QED
  BY <1>2, <1>3

\* What runs in the scope of a worker in its turn.
LEMMA RunningBurst ==
    ASSUME RInv, NEW st \in States, wk[st].pc \in {"turn", "run"}
    PROVE  \E R \in SUBSET Items :
             /\ R = Elems(wk[st].burst) /\ R # {} /\ R = Mailbox!In(st[1], "running")
             /\ \A i \in R : ScopeOf[i] = st[1] /\ Stat(i) = "running"
<1>0. PInv /\ IInv /\ Homes
  BY DEF RInv, PInv
<1>1. /\ Burst(st) \in Boxes /\ Box[Burst(st)] = wk[st].burst /\ Kind(Burst(st)) = "running"
  BY BoxMembers, BoxAt, KindAt
<1>2. PICK R \in SUBSET Items : R = Elems(wk[st].burst)
  BY <1>0, WorkerFields, ElemsSub DEF IInv, Items
<1>3. \A i \in R : ScopeOf[i] = st[1] /\ Stat(i) = "running"
  BY <1>0, <1>1, <1>2, StatIs DEF Homes, StateBoxes
<1>4. \A i \in Items : ScopeOf[i] = st[1] /\ Stat(i) = "running" => i \in R
  BY <1>1, <1>2, RunningOnly DEF Running
<1>5. R = Mailbox!In(st[1], "running")
  BY <1>3, <1>4 DEF Mailbox!In, Mailbox!Items, Items
<1>6. R # {}
  <2>1. wk[st].burst # <<>> /\ wk[st].burst \in Seq(Items)
    BY <1>0, <1>1, BoxType DEF PInv, Shapes
  <2> QED
    BY <1>2, <2>1, ElemsSome
<1> QED
  BY <1>2, <1>3, <1>5, <1>6

\* Mailbox: Part, of the messages behind the one that woke the agent.
LEMMA PlanRefines ==
    ASSUME RInv, PInv', NEW st \in States, Plan(st)
    PROVE  Homes' /\ MailboxStep
<1>0. PInv /\ IInv /\ IInv' /\ Homes
  BY DEF RInv, PInv
<1>1. wk[st].pc = "turn" /\ UNCHANGED <<snd, at, dr, pool, fate>>
  BY DEF Plan
<1>2. snd[st] = "done" /\ st[1] \in Scopes
  BY <1>0, <1>1, StateFacts DEF IInv, Senders
<1>3. PICK R \in SUBSET Items :
         /\ R = Elems(wk[st].burst) /\ R # {} /\ R = Mailbox!In(st[1], "running")
         /\ \A i \in R : ScopeOf[i] = st[1] /\ Stat(i) = "running"
  BY <1>1, RunningBurst
<1>4. wk'[st].pc = "run" /\ \A x \in States : x # st => wk'[x] = wk[x]
  <2>1. PICK f, b : wk' = [wk EXCEPT ![st].pc = "run", ![st].burst = f, ![st].back = b]
    BY DEF Plan
  <2> QED
    BY <1>0, <2>1, WorkerFields DEF IInv, Types, Wks
<1> DEFINE X == {<<Back(st), i>> : i \in R}
<1>5. MovedOnly(X) /\ \A c, i : <<c, i>> \in X => c = Back(st) /\ i \in R
  BY <1>0, <1>3, PlanPlaces
<1> HIDE DEF X
<1>6. \A c \in Boxes : Kind(c)' = Kind(c)
  BY <1>1, <1>4, KindFrame
<1>7. /\ Burst(st) \in Boxes /\ Back(st) \in Boxes /\ Burst(st) # Back(st)
      /\ Kind(Burst(st)) = "running" /\ Kind(Back(st))' = "trailing"
      /\ Box[Back(st)] = wk[st].back /\ Box'[Back(st)] = wk'[st].back
      /\ Box'[Burst(st)] = wk'[st].burst
  BY <1>1, <1>4, BoxMembers, BoxNames, BoxAt, BoxAtNext, KindAt, KindAtNext DEF Trail
<1>8. wk[st].back = <<>> /\ wk'[st].burst # <<>> /\ wk'[st].back \in Seq(Msgs)
  <2>1. wk[st].back = <<>>
    BY <1>0, <1>1 DEF PInv, Shapes
  <2>2. wk'[st].burst # <<>>
    BY <1>4 DEF PInv, Shapes
  <2>3. wk'[st] \in Wks
    BY <1>0 DEF IInv, Types, WellFormed
  <2> QED
    BY <2>1, <2>2, <2>3 DEF Wks
<1>9. Homes'
  <2>1. FullHome'
    BY <1>0, <1>1, <1>2, <1>4, WorkerFull
  <2>2. \A x \in States : \A c \in StateBoxes(x) : c = Back(st) => x = st
    BY BoxNames DEF StateBoxes
  <2>3. DrainBox # Back(st)
    BY BoxNames
  <2> QED
    BY <1>0, <1>1, <1>3, <1>5, <2>1, <2>2, <2>3, HomesKept
<1>10. PICK B \in SUBSET Msgs : B = Elems(Box'[Back(st)])
  BY <1>7, <1>8, ElemsSub
<1>11. B \subseteq R
  BY <1>5, <1>7, <1>8, <1>10, ElemsEmpty DEF MovedOnly
<1>12. \A i \in B : Stat(i)' = "trailing"
  BY <1>3, <1>7, <1>10, <1>11, StatIsNext
<1>13. B # R
  <2>1. PICK j \in Elems(Box'[Burst(st)]) : TRUE
    <3>1. Box'[Burst(st)] \in Seq(Items)
      BY <1>0, <1>7, BoxTypeNext
    <3> QED
      BY <1>7, <1>8, <3>1, ElemsSome
  <2>2. j \in Items
    BY <1>0, <1>7, BoxTypeNext, ElemsSub
  <2>3. Stat(j)' = "running"
    BY <1>6, <1>7, <2>1, <2>2, StatIsNext
  <2>4. j \in Elems(Box[Burst(st)])
    BY <1>5, <1>7, <2>1 DEF MovedOnly
  <2>5. j \in R
    BY <1>3, <2>4, BoxAt
  <2> QED
    BY <1>12, <2>3, <2>5
<1>14. \A i \in Items : i \notin B => Stat(i)' = Stat(i)
  BY <1>0, <1>1, <1>5, <1>6, <1>10, StatFrame
<1>15. \A i \in Items : Stat(i)' = IF i \in B THEN "trailing" ELSE Stat(i)
  BY <1>12, <1>14
<1>16. B \in SUBSET (R \cap Msgs)
  BY <1>11
<1>17. Mailbox!Part(st[1])
  BY <1>1, <1>3, <1>13, <1>15, <1>16 DEF Mailbox!Part, Mailbox!Move, Mailbox!Items, Items
<1>18. Mailbox!Next
  BY <1>2, <1>17 DEF Mailbox!Next
<1> QED
  BY <1>9, <1>18 DEF MailboxStep

\* Mailbox: Finish, or CutShort in a cancelled pool.
LEMMA FinishTurnRefines ==
    ASSUME RInv, PInv', NEW st \in States, FinishTurn(st)
    PROVE  Homes' /\ MailboxStep
<1>0. PInv /\ IInv /\ IInv' /\ Homes
  BY DEF RInv, PInv
<1>1. wk[st].pc = "run" /\ UNCHANGED <<snd, at, dr, pool>>
  BY DEF FinishTurn
<1>2. snd[st] = "done" /\ st[1] \in Scopes
  BY <1>0, <1>1, StateFacts DEF IInv, Senders
<1>3. PICK R \in SUBSET Items :
         /\ R = Elems(wk[st].burst) /\ R # {} /\ R = Mailbox!In(st[1], "running")
  BY <1>1, RunningBurst
<1>4. PICK ran \in {"done", "dropped"} :
        /\ ran = "dropped" => pool = "cancelled"
        /\ fate' = [i \in Items |-> IF i \in R THEN ran ELSE fate[i]]
  BY <1>3 DEF FinishTurn
<1>5. wk'[st].burst = <<>> /\ \A x \in States : x # st => wk'[x] = wk[x]
  BY <1>0, WorkerFields DEF FinishTurn, IInv, Types, Wks
<1>6. MovedOnly({})
  BY <1>0, FinishTurnPlaces
<1>7. Homes'
  BY <1>0, <1>1, <1>2, <1>5, <1>6, WorkerFull, HomesStay
<1>8. \A c \in Boxes : Elems(Box'[c]) # {} => Kind(c)' = Kind(c)
  BY <1>1, <1>5, KindWorker, BoxAtNext, ElemsEmpty
<1>9. \A i \in Items : Stat(i)' = IF i \in R THEN ran ELSE Stat(i)
  BY <1>0, <1>4, <1>6, <1>8, SettlesMany
<1>10. CASE ran = "done"
  <2>1. Mailbox!Finish(st[1])
    BY <1>1, <1>3, <1>9, <1>10 DEF Mailbox!Finish, Mailbox!Move, Mailbox!Items, Items
  <2> QED
    BY <1>2, <1>7, <2>1 DEF Mailbox!Next, MailboxStep
<1>11. CASE ran = "dropped"
  <2> DEFINE D == {}
  <2>1. D \in SUBSET R /\ \A i \in Items : i \notin D
    OBVIOUS
  <2> HIDE DEF D
  <2>2. [i \in Items |-> Stat(i)]' =
          [i \in Items |-> IF i \in D THEN "done"
                           ELSE IF i \in R THEN "dropped" ELSE [j \in Items |-> Stat(j)][i]]
    BY <1>9, <1>11, <2>1
  <2>3. pool # "running"
    BY <1>4, <1>11
  <2>4. Mailbox!CutShort(st[1])
    BY <1>1, <1>3, <2>1, <2>2, <2>3 DEF Mailbox!CutShort, Mailbox!Items, Items
  <2> QED
    BY <1>2, <1>7, <2>4 DEF Mailbox!Next, MailboxStep
<1> QED
  BY <1>10, <1>11

\* The trailing messages in the hands of a worker.
LEMMA TrailingHere ==
    ASSUME RInv, NEW st \in States, wk[st].pc # "await"
    PROVE  \E S \in SUBSET Items :
             /\ S = Elems(wk[st].back) /\ S \subseteq Msgs
             /\ \A i \in S : Stat(i) = "trailing"
<1>0. PInv /\ IInv
  BY DEF RInv, PInv
<1>1. Back(st) \in Boxes /\ Box[Back(st)] = wk[st].back /\ Kind(Back(st)) = "trailing"
  BY BoxMembers, BoxAt, KindAt DEF Trail
<1>2. PICK S \in SUBSET Items : S = Elems(wk[st].back) /\ S \subseteq Msgs
  BY <1>0, WorkerFields, ElemsSub DEF IInv, Items
<1>3. \A i \in S : Stat(i) = "trailing"
  BY <1>0, <1>1, <1>2, StatIs
<1> QED
  BY <1>2, <1>3

\* Mailbox: Lose, of what trails a turn in a cancelled pool.
LEMMA HandleTrailingRefines ==
    ASSUME RInv, PInv', NEW st \in States, HandleTrailing(st)
    PROVE  Homes' /\ MailboxStep
<1>0. PInv /\ IInv /\ IInv' /\ Homes
  BY DEF RInv, PInv
<1>1. wk[st].pc = "ended" /\ UNCHANGED <<snd, at, dr, pool>>
  BY DEF HandleTrailing
<1>2. snd[st] = "done"
  BY <1>0, <1>1 DEF IInv, Senders
<1>3. wk'[st].pc = "trail" /\ \A x \in States : x # st => wk'[x] = wk[x]
  BY <1>0, GotoFields, WorkerFields DEF HandleTrailing, IInv, Types, Wks
<1>4. MovedOnly({})
  BY <1>0, HandleTrailingPlaces
<1>5. CASE UNCHANGED fate
  BY <1>1, <1>2, <1>3, <1>4, <1>5, WorkerQuiet
<1>6. CASE /\ pool = "cancelled"
           /\ fate' = [i \in Items |-> IF i \in Elems(wk[st].back) THEN "dropped" ELSE fate[i]]
  <2>1. PICK S \in SUBSET Items :
           S = Elems(wk[st].back) /\ S \subseteq Msgs /\ \A i \in S : Stat(i) = "trailing"
    BY <1>1, TrailingHere
  <2>2. Homes'
    BY <1>0, <1>1, <1>2, <1>3, <1>4, WorkerFull, HomesStay
  <2>3. \A c \in Boxes : Kind(c)' = Kind(c)
    BY <1>1, <1>3, KindFrame
  <2>4. \A i \in Items : fate'[i] = IF i \in S THEN "dropped" ELSE fate[i]
    BY <1>6, <2>1
  <2>5. \A i \in Items : Stat(i)' = IF i \in S THEN "dropped" ELSE Stat(i)
    BY <1>0, <1>4, <2>3, <2>4, SettlesMany
  <2>6. CASE S = {}
    BY <1>1, <2>2, <2>5, <2>6, MailboxStutters DEF OpenNow
  <2>7. CASE S # {}
    <3>1. Mailbox!Lose(S)
      BY <1>1, <1>6, <2>1, <2>5, <2>7 DEF Mailbox!Lose, Mailbox!Move, Mailbox!Items, Items
    <3>2. S \in SUBSET Mailbox!Items
      BY <2>1 DEF Mailbox!Items, Items
    <3> QED
      BY <2>2, <3>1, <3>2 DEF Mailbox!Next, MailboxStep
  <2> QED
    BY <2>6, <2>7
<1> QED
  BY <1>5, <1>6 DEF HandleTrailing

\* Mailbox: Resolve, of one trailing item.
LEMMA Resolves ==
    ASSUME PInv, PInv', UNCHANGED pool, NEW o \in Items, Stat(o) = "trailing",
           Stat(o)' \in {"done", "offered"},
           \A i \in Items : i # o => Stat(i)' = Stat(i)
    PROVE  MailboxStep
BY DEF Mailbox!Move, Mailbox!Items, Items, Mailbox!Resolve, Mailbox!Next, MailboxStep

LEMMA HandBackRefines ==
    ASSUME RInv, PInv', NEW st \in States, HandBack(st)
    PROVE  Homes' /\ MailboxStep
<1>0. PInv /\ IInv /\ IInv' /\ Homes
  BY DEF RInv, PInv
<1> DEFINE q == wk[st].back
<1>1. wk[st].pc = "trail" /\ UNCHANGED <<ch, sendq, at, dr, pool>>
  BY DEF HandBack
<1>2. snd[st] = "done"
  BY <1>0, <1>1 DEF IInv, Senders
<1>3. CASE q = <<>> /\ Goto(st, "settle") /\ UNCHANGED <<snd, fate>>
  BY <1>0, <1>3, GotoFields, <1>1, GotoPlaces, <1>2, WorkerQuiet DEF IInv, PInv, Shapes
<1>4. ASSUME q # <<>>
      PROVE  \E h \in Items : /\ h = Head(q) /\ ScopeOf[h] = st[1] /\ Stat(h) = "trailing"
                              /\ h \in Elems(Box[Back(st)]) /\ fate[h] = "open"
  <2>1. q \in Seq(Msgs)
    BY <1>0, WorkerFields DEF IInv
  <2>2. Back(st) \in Boxes /\ Box[Back(st)] = q /\ Kind(Back(st)) = "trailing"
    BY <1>1, BoxMembers, BoxAt, KindAt DEF Trail
  <2> HIDE DEF q
  <2>3. Head(q) \in Msgs /\ 1 \in DOMAIN q /\ Head(q) = q[1]
    BY <1>4, <2>1
  <2>4. Head(q) \in Items /\ Head(q) \in Elems(q)
    BY <2>3 DEF Elems, Items
  <2>5. PICK h \in Items : h = Head(q) /\ h \in Elems(q)
    BY <2>4
  <2>6. ScopeOf[h] = st[1]
    BY <1>0, <2>2, <2>5 DEF Homes, StateBoxes
  <2>7. Stat(h) = "trailing"
    BY <1>0, <2>2, <2>5, StatIs
  <2>8. fate[h] = "open"
    BY <1>0, <2>2, <2>5 DEF PInv, Placed, Has
  <2> QED
    BY <2>2, <2>5, <2>6, <2>7, <2>8
<1>5. CASE /\ q # <<>> /\ wk' = [wk EXCEPT ![st].back = Tail(@)]
           /\ fate' = [fate EXCEPT ![Head(q)] = "done"] /\ UNCHANGED snd
  <2>1. PICK h \in Items : h = Head(q) /\ Stat(h) = "trailing"
    BY <1>4, <1>5
  <2> DEFINE t == Tail(q)
  <2>2. wk' = [wk EXCEPT ![st] = [wk[st] EXCEPT !.back = t]]
    BY <1>5 DEF q
  <2> HIDE DEF t
  <2>3. wk'[st].pc = "trail" /\ \A x \in States : x # st => wk'[x] = wk[x]
    BY <1>0, <1>1, <2>2, WorkerFields DEF IInv, Types, Wks
  <2>4. MovedOnly({})
    BY <1>0, <1>1, <1>5, AmbientPlaces
  <2>5. FullHome'
    BY <1>0, <1>1, <1>2, <1>5, <2>3, WorkerFull
  <2>6. Homes'
    BY <1>0, <1>1, <2>4, <2>5, HomesStay
  <2>7. fate'[h] = "done" /\ \A i \in Items : i # h => fate'[i] = fate[i]
    BY <1>0, <1>5, <2>1 DEF IInv, Types
  <2>8. Stat(h)' = "done"
    BY <2>7, StatSettled
  <2>9. \A c \in Boxes : Kind(c)' = Kind(c)
    BY <1>1, <2>3, <1>5, KindFrame
  <2>10. \A i \in Items : i # h => Stat(i)' = Stat(i)
    <3> DEFINE S == {h}
               X == {}
    <3>1. /\ \A i \in Items : i \notin S <=> i # h
          /\ MovedOnly(X) /\ \A c \in Boxes : \A i \in Items : <<c, i>> \notin X
      BY <2>4
    <3> HIDE DEF S, X
    <3>2. \A i \in Items : i \notin S => Stat(i)' = Stat(i)
      BY <1>0, <2>7, <2>9, <3>1, StatFrame
    <3> QED
      BY <3>1, <3>2
  <2>11. MailboxStep
    BY <1>0, <1>1, <2>1, <2>8, <2>10, Resolves
  <2> QED
    BY <2>6, <2>11
<1>6. CASE /\ q # <<>> /\ Goto(st, "await")
           /\ snd' = [snd EXCEPT ![st] = "new"] /\ UNCHANGED fate
  <2>1. PICK h \in Items : h = Head(q) /\ Stat(h) = "trailing" /\ fate[h] = "open"
                           /\ h \in Elems(Box[Back(st)])
    BY <1>4, <1>6
  <2>2. /\ wk'[st].pc = "await" /\ \A x \in States : x # st => wk'[x] = wk[x]
        /\ wk'[st].back = wk[st].back
    BY <1>0, <1>6, GotoFields DEF IInv
  <2>3. st \in Callers /\ st \notin Items
    BY CallerFacts
  <2>4. snd'[st] = "new" /\ \A x \in Callers : x # st => snd'[x] = snd[x]
    BY <1>0, <1>6, <2>3 DEF IInv, Types
  <2> DEFINE X == {<<Sending(st), h>>}
  <2>5. MovedOnly(X) /\ \A c, i : <<c, i>> \in X => c = Sending(st) /\ i = h
    BY <1>0, <1>1, <1>6, <2>1, ReenqueuePlaces
  <2> HIDE DEF X
  <2>6. FullHome'
    BY <1>0, <1>1, <2>2, <2>4, WorkerFull
  <2>7. Homes'
    BY <2>3, BoxNames, <1>0, <1>1, <2>5, <2>6, HomesKept DEF StateBoxes, Sending, DrainBox
  <2>8. Stat(h)' = "offered"
    <3>1. Offers(st)' = h
      BY <2>1, <2>2, <2>3 DEF Offers
    <3>2. Box'[Sending(st)] = <<h>>
      BY <2>3, <2>4, <3>1, BoxAtNext DEF InHand
    <3>3. h \in Elems(Box'[Sending(st)]) /\ Sending(st) \in Boxes
      BY <2>3, <3>2, ElemsOne, BoxMembers
    <3>4. Kind(Sending(st))' = "offered"
      BY <2>3, <2>4, KindAtNext
    <3> QED
      BY <3>3, <3>4, StatIsNext
  <2>9. \A i \in Items : i # h => Stat(i)' = Stat(i)
    <3> DEFINE S == {h}
    <3>1. \A i \in Items : i \notin S <=> i # h
      OBVIOUS
    <3> HIDE DEF S
    <3>2. \A c \in Boxes : c # Sending(st) => Kind(c)' = Kind(c)
      BY <1>1, <2>2, <2>3, <2>4, KindSender
    <3>3. Elems(Box[Sending(st)]) = {}
      BY <1>2, <2>3, BoxAt, ElemsEmpty DEF InHand
    <3>4. \A c \in Boxes : \A i \in Items : i \in Elems(Box'[c]) /\ i \notin S =>
            /\ i \in Elems(Box[c]) => Kind(c)' = Kind(c)
            /\ <<c, i>> \in X => Stat(i) = Kind(c)'
      BY <2>5, <3>1, <3>2, <3>3
    <3>5. \A i \in Items : i \notin S => Stat(i)' = Stat(i)
      BY <1>0, <1>6, <2>5, <3>4, StatFrame
    <3> QED
      BY <3>1, <3>5
  <2>10. MailboxStep
    BY <1>0, <1>1, <2>1, <2>8, <2>9, Resolves
  <2> QED
    BY <2>7, <2>10
<1> QED
  BY <1>3, <1>5, <1>6 DEF HandBack

--------------------
(* Steps of an interrupt, and of the pool *)

\* A step of the interrupt that moves nothing.
LEMMA InterruptQuiet ==
    ASSUME RInv, PInv', MovedOnly({}), UNCHANGED <<wk, snd, at, pool, fate>>,
           dr'.on = dr.on \/ Box'[DrainBox] = <<>>
    PROVE  Homes' /\ MailboxStep
BY FullHomeSame, HomesStay, StaysPut, MailboxStutters DEF RInv, PInv, OpenNow

LEMMA InterruptGoesOn ==
    ASSUME RInv, PInv', DrainLock \/ DrainQueues \/ DrainPick \/ DrainWake
    PROVE  Homes' /\ MailboxStep
<1>1. UNCHANGED <<wk, snd, at, pool, fate>>
  BY DEF DrainLock, DrainQueues, DrainPick, DrainWake
<1>2. MovedOnly({})
  BY DrainGoesOn DEF RInv
<1>3. dr \in Drs /\ (dr.pc = "pick" => dr.back = <<>>)
  BY DEF RInv, PInv, IInv, Types, Shapes
<1>4. dr'.on = dr.on \/ Box'[DrainBox] = <<>>
  <2>1. CASE DrainLock
    BY <2>1, BoxAtNext DEF DrainLock, NoDrain, TakenOut
  <2>4. CASE DrainQueues
    BY <2>4, <1>3 DEF DrainQueues, Drs
  <2>2. CASE DrainPick
    <3>1. dr'.pc # "parked" /\ dr'.back = <<>>
      <4>1. CASE dr' = NoDrain
        BY <4>1 DEF NoDrain
      <4>2. CASE \E st \in dr.todo :
                   dr' = [dr EXCEPT !.pc = "recv", !.todo = @ \ {st}, !.on = st]
        BY <1>3, <2>2, <4>2 DEF DrainPick, Drs
      <4> QED
        BY <2>2, <4>1, <4>2 DEF DrainPick
    <3> QED
      BY <3>1, BoxAtNext DEF TakenOut
  <2>3. CASE DrainWake
    BY <2>3, <1>3 DEF DrainWake, Drs
  <2> QED
    BY <2>1, <2>2, <2>3, <2>4
<1> QED
  BY <1>1, <1>2, <1>4, InterruptQuiet

\* Mailbox: Withdraw, of what trails a turn the interrupt meets.
LEMMA DrainLatchRefines ==
    ASSUME RInv, PInv', NEW st \in States, DrainLatch(st)
    PROVE  Homes' /\ MailboxStep
<1>0. PInv /\ IInv /\ IInv' /\ Homes
  BY DEF RInv, PInv
<1>1. UNCHANGED <<snd, at, pool>> /\ dr'.on = dr.on
  BY <1>0 DEF DrainLatch, IInv, Types, Drs
<1>2. MovedOnly({})
  BY <1>0, DrainLatchPlaces
<1>3. CASE wk' = wk /\ fate' = fate
  BY <1>1, <1>2, <1>3, InterruptQuiet
<1>4. CASE /\ wk[st].pc \in {"run", "ended"}
           /\ wk' = [wk EXCEPT ![st] = [wk[st] EXCEPT !.back = <<>>]]
           /\ fate' = [i \in Items |-> IF i \in Elems(wk[st].back) THEN "failed" ELSE fate[i]]
  <2>1. /\ wk'[st].pc = wk[st].pc /\ snd[st] = "done"
        /\ \A x \in States : x # st => wk'[x] = wk[x]
    BY <1>0, <1>4, WorkerFields DEF IInv, Types, Wks, Senders
  <2>2. PICK S \in SUBSET Items :
           S = Elems(wk[st].back) /\ S \subseteq Msgs /\ \A i \in S : Stat(i) = "trailing"
    BY <1>4, TrailingHere
  <2>3. Homes'
    BY <1>0, <1>1, <1>2, <2>1, WorkerFull, HomesStay
  <2>4. \A c \in Boxes : Kind(c)' = Kind(c)
    <3>1. \A x \in States : wk'[x].pc = wk[x].pc
      BY <2>1
    <3> QED
      BY <1>1, <3>1, KindFrame
  <2>5. \A i \in Items : fate'[i] = IF i \in S THEN "failed" ELSE fate[i]
    BY <1>4, <2>2
  <2>6. \A i \in Items : Stat(i)' = IF i \in S THEN "failed" ELSE Stat(i)
    BY <1>0, <1>2, <2>4, <2>5, SettlesMany
  <2>7. CASE S = {}
    BY <1>1, <2>3, <2>6, <2>7, MailboxStutters DEF OpenNow
  <2>8. CASE S # {}
    <3>1. Mailbox!Withdraw(S)
      BY <1>1, <2>2, <2>6, <2>8 DEF Mailbox!Withdraw, Mailbox!Move, Mailbox!Items, Items
    <3>2. S \in SUBSET Mailbox!Items
      BY <2>2 DEF Mailbox!Items, Items
    <3> QED
      BY <2>3, <3>1, <3>2 DEF Mailbox!Next, MailboxStep
  <2> QED
    BY <2>7, <2>8
<1>5. CASE /\ wk[st].pc = "turn" /\ fate' = fate
           /\ wk' = [wk EXCEPT ![st] = [wk[st] EXCEPT !.pc = "run"]]
  <2>1. /\ wk'[st].pc = "run" /\ snd[st] = "done"
        /\ \A x \in States : x # st => wk'[x] = wk[x]
    BY <1>0, <1>5, WorkerFields DEF IInv, Types, Wks, Senders
  <2>2. Homes'
    BY <1>0, <1>1, <1>2, <2>1, WorkerFull, HomesStay
  <2>3. \A x \in States : wk'[x].pc \in {"turn", "run"} <=> wk[x].pc \in {"turn", "run"}
    BY <1>5, <2>1
  <2>4. \A i \in Items : Stat(i)' = Stat(i)
    BY <1>0, <1>1, <1>2, <1>5, <2>3, StaysPut
  <2> QED
    BY <1>1, <2>2, <2>4, MailboxStutters DEF OpenNow
<1> QED
  BY <1>0, <1>3, <1>4, <1>5, LatchWorker

\* Mailbox: Withdraw, of a message the interrupt has received.
LEMMA DrainRecvRefines ==
    ASSUME RInv, PInv', DrainRecv
    PROVE  Homes' /\ MailboxStep
<1>0. PInv /\ IInv /\ IInv' /\ Homes
  BY DEF RInv, PInv
<1>1. /\ dr.pc = "recv" /\ UNCHANGED <<wk, snd, at, pool>> /\ dr \in Drs
      /\ dr.back \in Seq(Disps)
  BY <1>0 DEF DrainRecv, IInv, Types, Drs
<1>2. dr.on \in States /\ MovedOnly(Taken(dr.on, DrainBox))
  BY <1>0, DrainRecvPlaces
<1>3. PICK st \in States : st = dr.on
  BY <1>2
<1>4. CASE ch[st] = <<>>
  BY <1>3, <1>4, <1>1, <1>0, DrainStays, InterruptQuiet DEF DrainRecv, Drs, TakenOut
<1>5. CASE ch[st] # <<>>
  <2>1. PICK X : /\ X = Taken(st, DrainBox)
                 /\ \A c, i : <<c, i>> \in X =>
                      /\ c = DrainBox \/ c = Chan(st)
                      /\ i \in Items /\ ScopeOf[i] = st[1]
                      /\ i \in Elems(Box[Chan(st)]) \/ i \in Elems(Box[SendQ(st)])
    BY <1>5, TakenFacts
  <2>2. MovedOnly(X)
    BY <1>2, <1>3, <2>1
  <2>3. /\ Kind(Chan(st)) = "queued" /\ Kind(SendQ(st)) = "queued" /\ Kind(DrainBox) = "queued"
        /\ Chan(st) \in Boxes /\ SendQ(st) \in Boxes /\ Box[Chan(st)] = ch[st]
    BY KindAt, BoxMembers, BoxAt
  <2>4. PICK h \in Items : h = Head(ch[st]) /\ h \in Elems(Box[Chan(st)])
    BY <1>0, <1>5, <2>3 DEF IInv, Types, Elems
  <2>5. /\ dr' = IF h \in Disps THEN [dr EXCEPT !.back = Append(@, h)] ELSE dr
        /\ fate' = IF h \in Disps THEN fate ELSE [fate EXCEPT ![h] = "failed"]
    BY <1>3, <1>5, <2>4 DEF DrainRecv
  <2>6. dr'.on = dr.on
    BY <1>1, <2>5 DEF Drs
  <2>7. FullHome'
    BY <1>0, <1>1, FullHomeSame
  <2>8. Homes'
    BY BoxNames, <1>0, <1>3, <2>1, <2>2, <2>6, <2>7, HomesKept DEF StateBoxes
  <2>9. \A c \in Boxes : \A i \in Items : <<c, i>> \in X =>
          Kind(c) = "queued" /\ \E d \in Boxes : i \in Elems(Box[d]) /\ Kind(d) = "queued"
    BY <2>1, <2>3
  <2>10. CASE h \in Disps
    BY <2>5, <2>10, <1>0, <1>1, <2>2, <2>9, QueuedMoves, <2>8, MailboxStutters DEF OpenNow
  <2>11. CASE h \notin Disps
    <3>1. fate'[h] = "failed" /\ \A i \in Items : i # h => fate'[i] = fate[i]
      BY <1>0, <2>5, <2>11 DEF IInv, Types
    <3>2. Stat(h) = "queued" /\ h \in Msgs
      BY <1>0, <2>3, <2>4, <2>11, StatIs, CallerFacts
    <3>3. Stat(h)' = "failed"
      BY <3>1, StatSettled
    <3>4. \A c \in Boxes : Kind(c)' = Kind(c)
      BY <1>1, KindFrame
    <3> DEFINE S == {h}
    <3>5. \A i \in Items : i \notin S <=> i # h
      OBVIOUS
    <3> HIDE DEF S
    <3>6. \A c \in Boxes : \A i \in Items : <<c, i>> \in X => Stat(i) = Kind(c)'
      BY <1>0, <2>9, <3>4, StatIs
    <3>7. \A i \in Items : i \notin S => Stat(i)' = Stat(i)
      BY <1>0, <2>2, <3>1, <3>4, <3>5, <3>6, StatFrame
    <3>8. \A i \in Items : Stat(i)' = IF i \in {h} THEN "failed" ELSE Stat(i)
      BY <3>3, <3>5, <3>7
    <3>9. Mailbox!Withdraw({h})
      BY <1>1, <3>2, <3>8 DEF Mailbox!Withdraw, Mailbox!Move, Mailbox!Items, Items
    <3>10. Mailbox!Next
      BY <2>4, <3>9 DEF Mailbox!Next, Mailbox!Items, Items
    <3> QED
      BY <2>8, <3>10 DEF MailboxStep
  <2> QED
    BY <2>10, <2>11
<1> QED
  BY <1>4, <1>5

LEMMA DrainSendRefines ==
    ASSUME RInv, PInv', DrainSend
    PROVE  Homes' /\ MailboxStep
<1>0. PInv /\ IInv /\ IInv' /\ Homes
  BY DEF RInv, PInv
<1>1. /\ dr.pc = "send" /\ UNCHANGED <<wk, snd, at, pool, fate>> /\ dr \in Drs
      /\ dr.back \in Seq(Disps)
  BY <1>0 DEF DrainSend, IInv, Types, Drs
<1>2. /\ dr.on \in States
      /\ MovedOnly({<<Chan(dr.on), Head(dr.back)>>, <<SendQ(dr.on), Head(dr.back)>>})
  BY <1>0, DrainSendPlaces
<1>3. PICK st \in States : st = dr.on
  BY <1>2
<1>4. CASE dr.back = <<>>
  BY <1>4, <1>1, <1>0, DrainStays, InterruptQuiet DEF DrainSend, Drs, TakenOut
<1>5. CASE dr.back # <<>>
  <2>1. dr'.on = dr.on
    BY <1>5, <1>1 DEF DrainSend, Drs
  <2>2. /\ Kind(Chan(st)) = "queued" /\ Kind(SendQ(st)) = "queued" /\ Kind(DrainBox) = "queued"
        /\ DrainBox \in Boxes /\ Box[DrainBox] = dr.back
    BY <1>1, KindAt, BoxMembers, BoxAt DEF TakenOut
  <2>3. PICK h \in Items : h = Head(dr.back) /\ h \in Elems(Box[DrainBox])
    BY <1>1, <1>5, <2>2 DEF Items, Elems
  <2>4. ScopeOf[h] = st[1]
    BY <1>0, <1>3, <2>3 DEF Homes
  <2> DEFINE X == {<<Chan(st), h>>, <<SendQ(st), h>>}
  <2>5. MovedOnly(X) /\ \A c, i : <<c, i>> \in X => c \in {Chan(st), SendQ(st)} /\ i = h
    BY <1>2, <1>3, <2>3
  <2> HIDE DEF X
  <2>6. Homes'
    BY <1>0, <1>1, FullHomeSame, BoxNames, <2>1, <2>4, <2>5, HomesKept DEF StateBoxes
  <2>7. \A c \in Boxes : \A i \in Items : <<c, i>> \in X =>
          Kind(c) = "queued" /\ \E d \in Boxes : i \in Elems(Box[d]) /\ Kind(d) = "queued"
    BY <2>2, <2>3, <2>5
  <2>8. \A i \in Items : Stat(i)' = Stat(i)
    BY <1>0, <1>1, <2>5, <2>7, QueuedMoves
  <2> QED
    BY <1>1, <2>6, <2>8, MailboxStutters DEF OpenNow
<1> QED
  BY <1>4, <1>5

\* Mailbox: Close, when the pool stops.
LEMMA StopRefines ==
    ASSUME RInv, PInv', Stop \/ Cancel \/ UNCHANGED vars
    PROVE  Homes' /\ MailboxStep
<1>1. PInv /\ IInv' /\ Homes
  BY DEF RInv, PInv
<1>2. UNCHANGED <<wk, snd, at, dr, fate>>
  BY DEF Stop, Cancel, vars
<1>3. MovedOnly({})
  BY <1>1, StopPlaces
<1>4. FullHome'
  BY <1>1, <1>2, FullHomeSame
<1>5. Homes'
  BY <1>1, <1>2, <1>3, <1>4, HomesStay
<1>6. \A i \in Items : Stat(i)' = Stat(i)
  BY <1>1, <1>2, <1>3, StaysPut
<1>7. CASE Stop
  BY <1>7, <1>6, <1>5 DEF Stop, Mailbox!Close, Mailbox!Next, MailboxStep
<1>8. CASE Cancel \/ UNCHANGED vars
  BY <1>8, <1>5, <1>6, MailboxStutters DEF Cancel, vars, OpenNow
<1> QED
  BY <1>7, <1>8

--------------------
LEMMA InitHomes == ASSUME Init PROVE Homes
BY BoxAt, ElemsEmpty DEF Init, StateBoxes, Off, Trail, NoDrain, TakenOut, Homes

LEMMA InitRefines == ASSUME Init PROVE Mailbox!Init
<1>1. PInv
  BY InitPInv
<1>2. \A i \in Items : Stat(i) = "offered"
  <2> SUFFICES ASSUME NEW i \in Items PROVE Stat(i) = "offered"
    OBVIOUS
  <2>1. i \in Callers /\ snd[i] = "new" /\ Offers(i) = i
    BY CallerFacts DEF Init, Offers
  <2>2. Sending(i) \in Boxes /\ i \in Elems(Box[Sending(i)])
    BY <1>1, <2>1, InHandAt DEF PInv
  <2>3. Kind(Sending(i)) = "offered"
    BY <2>1, KindAt
  <2> QED
    BY <1>1, <2>2, <2>3, StatIs
<1>3. [i \in Items |-> Stat(i)] = [i \in Items |-> "offered"]
  BY <1>2
<1>4. pool = "running"
  BY DEF Init
<1> QED
  BY <1>3, <1>4 DEF Mailbox!Init, Mailbox!Items, Items

LEMMA StepRefines == ASSUME RInv, [Next]_vars PROVE RInv' /\ MailboxStep
<1>1. PInv'
  BY PlacesKept DEF RInv
<1>2. ASSUME NEW g \in Callers, Sender(g) PROVE Homes' /\ MailboxStep
  BY <1>1, <1>2, EnqueueRefines, SlowSendRefines, WakeRefines, GiveUpRefines DEF Sender
<1>3. ASSUME NEW st \in States, Worker(st) PROVE Homes' /\ MailboxStep
  BY <1>1, <1>3, QuietRefines, PopRefines, BeginTurnRefines, DrainBurstRefines,
     PlanRefines, FinishTurnRefines, HandleTrailingRefines, HandBackRefines, HandedBackRefines, EndTurnRefines DEF Worker
<1>4. ASSUME Interrupt PROVE Homes' /\ MailboxStep
  BY <1>1, <1>4, InterruptGoesOn, DrainLatchRefines, DrainRecvRefines, DrainSendRefines DEF Interrupt
<1>5. ASSUME Stop \/ Cancel \/ UNCHANGED vars PROVE Homes' /\ MailboxStep
  BY <1>1, <1>5, StopRefines
<1> QED
  BY <1>1, <1>2, <1>3, <1>4, <1>5 DEF Next, RInv

\* The boxes hold the items of their scope, throughout.
THEOREM ItemsStayInTheirScope == Spec => []RInv
<1>1. Init => RInv
  BY InitPInv, InitHomes DEF RInv
<1>2. RInv /\ [Next]_vars => RInv'
  BY StepRefines
<1> QED
  BY <1>1, <1>2, PTL DEF Spec

\* The pool implements the mailbox.  Whatever callers, workers, interrupts and a stop do,
\* the turns of a scope do not overlap, a burst is bounded and all messages, an interrupt
\* withdraws messages that are queued or trail a turn and nothing else, and no item is
\* lost before the pool is told to stop.
THEOREM PoolImplementsMailbox == Spec => ImplementsMailbox
<1>1. Init => Mailbox!Init
  BY InitRefines
<1>2. RInv /\ [Next]_vars => [Mailbox!Next]_<<StatNow, OpenNow>>
  BY StepRefines DEF MailboxStep
<1>3. Spec => [][Mailbox!Next]_<<StatNow, OpenNow>>
  BY <1>2, ItemsStayInTheirScope, PTL DEF Spec
<1> QED
  BY <1>1, <1>3, PTL DEF ImplementsMailbox, Mailbox!Spec, Spec, StatNow, OpenNow

====================
