----------- MODULE ScopeWorkers -----------
(* How a queued item reaches the worker of its scope: the map threadChs, *)
(* one bounded channel and one goroutine per scope, senders that block on *)
(* a full channel (activeEnqueuers), the worker that retires itself when *)
(* idle, the burst drain, and an operator's interrupt that takes the *)
(* trailing messages of a thread's turns and empties its channels while it *)
(* holds p.mu. *)
(*  *)
(* A scope may have several threadWorkerStates over time, one at a time in *)
(* the map: <<s, g>> is the g-th state of scope s.  Every item is offered *)
(* by a goroutine of its own; the worker itself is that goroutine when it *)
(* hands back the trailing messages of a burst. *)
EXTENDS Integers, Sequences, FiniteSets

CONSTANTS Msgs, Disps,   \* the two kinds of queueItem
          Scopes,
          ScopeOf,       \* item -> scope key
          Drained,       \* scopes of the thread that is interrupted
          Caps,          \* capacities a channel may have (100 in the code)
          BurstMax       \* messages per burst (5 in the code)

\* Bounds of the model: states per scope, interrupts, whether bursts have
\* trailing messages and whether the pool may stop.
CONSTANTS MaxGens, MaxDrains, Trailing, MayStop

Items == Msgs \cup Disps
States == Scopes \X (1 .. MaxGens)

\* Who calls Enqueue: the goroutine of an item, or the worker of a state.
Callers == Items \cup States

ASSUME WorkersAssumption ==
    /\ Msgs \cap Disps = {} /\ Items \cap States = {}
    /\ ScopeOf \in [Items -> Scopes]
    /\ Drained \subseteq Scopes
    /\ Caps \subseteq Nat \ {0} /\ BurstMax \in Nat \ {0} /\ MaxGens \in Nat \ {0}
    /\ MaxDrains \in Nat
    /\ Trailing \in BOOLEAN /\ MayStop \in BOOLEAN

VARIABLES
    reg,      \* threadChs: scope -> generation of the state in the map, 0 if none
    gen,      \* scope -> states created so far
    ch,       \* state -> the buffer of its channel
    sendq,    \* state -> senders parked on its channel, in order
    enq,      \* state -> activeEnqueuers
    wk,       \* state -> its worker: [pc, burst, held, back]
    snd,      \* caller of Enqueue -> where it is
    at,       \* caller of Enqueue -> the state it is blocked on
    dr,       \* the interrupt: [pc, todo, on, back]; it holds p.mu unless idle
    pool,     \* running, stopped, cancelled
    fate,     \* ghost: item -> open, done, failed (by an interrupt), dropped
    setup     \* the capacity of this pool's channels; ghost: interrupts so far

vars == <<reg, gen, ch, sendq, enq, wk, snd, at, dr, pool, fate, setup>>

--------------------
NoState == <<>>
Off == [pc |-> "none", burst |-> <<>>, held |-> <<>>, back |-> <<>>]
NoDrain == [pc |-> "idle", todo |-> {}, on |-> NoState, back |-> <<>>]

\* An interrupt that drains, and a worker that drains its burst, hold p.mu.
MuFree == dr.pc = "idle" /\ \A st \in States : wk[st].pc # "drain"

\* Goroutines that exist.
Running(st) == wk[st].pc \notin {"none", "exited"}

Elems(q) == {q[k] : k \in DOMAIN q}

\* What a caller enqueues: a worker hands back the trailing messages of its burst.
Offers(g) == IF g \in Items THEN g ELSE Head(wk[g].back)

Init ==
    /\ reg = [s \in Scopes |-> 0]
    /\ gen = [s \in Scopes |-> 0]
    /\ ch = [st \in States |-> <<>>]
    /\ sendq = [st \in States |-> <<>>]
    /\ enq = [st \in States |-> 0]
    /\ wk = [st \in States |-> Off]
    /\ snd = [g \in Callers |-> IF g \in Items THEN "new" ELSE "done"]
    /\ at = [g \in Callers |-> NoState]
    /\ dr = NoDrain
    /\ pool = "running"
    /\ fate = [i \in Items |-> "open"]
    /\ setup \in [cap : Caps, drains : {0}]

--------------------
(* Go's buffered channel *)

\* Seeded fault: make(chan queueItem, 1).
RoomForOne(st) == ch[st] = <<>>

Room(st) == Len(ch[st]) < setup.cap

\* A receive takes the head and lets the first parked sender in.
Receive(st) ==
    IF sendq[st] = <<>>
    THEN ch' = [ch EXCEPT ![st] = Tail(@)] /\ UNCHANGED sendq
    ELSE /\ ch' = [ch EXCEPT ![st] = Append(Tail(@), Head(sendq[st]))]
         /\ sendq' = [sendq EXCEPT ![st] = Tail(@)]

--------------------
(* EnqueueBurst and EnqueueDispatch *)

\* The section under p.mu: refuse, start a worker, send, or register as blocked.
Enqueue(g) ==
    LET i == Offers(g)
        s == ScopeOf[i]
        st == <<s, reg[s]>>
        new == <<s, gen[s] + 1>>
    IN
    /\ MuFree /\ snd[g] = "new"
    /\ \/ /\ pool # "running"
          /\ snd' = [snd EXCEPT ![g] = "done"]
          /\ fate' = [fate EXCEPT ![i] = "dropped"]
          /\ UNCHANGED <<reg, gen, ch, enq, wk, at>>
       \/ /\ pool = "running" /\ reg[s] = 0
          /\ reg' = [reg EXCEPT ![s] = gen[s] + 1]
          /\ gen' = [gen EXCEPT ![s] = @ + 1]
          /\ ch' = [ch EXCEPT ![new] = <<i>>]
          /\ wk' = [wk EXCEPT ![new].pc = "spawn"]
          /\ snd' = [snd EXCEPT ![g] = "done"]
          /\ UNCHANGED <<enq, at, fate>>
       \/ /\ pool = "running" /\ reg[s] # 0 /\ Room(st)
          /\ ch' = [ch EXCEPT ![st] = Append(@, i)]
          /\ snd' = [snd EXCEPT ![g] = "done"]
          /\ UNCHANGED <<reg, gen, enq, wk, at, fate>>
       \/ /\ pool = "running" /\ reg[s] # 0 /\ ~Room(st)
          /\ enq' = [enq EXCEPT ![st] = @ + 1]
          /\ snd' = [snd EXCEPT ![g] = "full"]
          /\ at' = [at EXCEPT ![g] = st]
          /\ UNCHANGED <<reg, gen, ch, wk, fate>>
    /\ UNCHANGED <<sendq, dr, pool, setup>>

\* The second select, without p.mu: send if there is room by now, else park.
SlowSend(g) ==
    LET st == at[g]
        i == Offers(g)
    IN
    /\ snd[g] = "full"
    /\ IF Room(st)
       THEN /\ ch' = [ch EXCEPT ![st] = Append(@, i)]
            /\ snd' = [snd EXCEPT ![g] = "sent"]
            /\ UNCHANGED sendq
       ELSE /\ sendq' = [sendq EXCEPT ![st] = Append(@, i)]
            /\ snd' = [snd EXCEPT ![g] = "parked"]
            /\ UNCHANGED ch
    /\ UNCHANGED <<reg, gen, enq, wk, at, dr, pool, fate, setup>>

Parked(g) == at[g] # NoState /\ Offers(g) \in Elems(sendq[at[g]])

\* A receiver has let the sender in.
Wake(g) ==
    /\ snd[g] = "parked" /\ ~Parked(g)
    /\ snd' = [snd EXCEPT ![g] = "sent"]
    /\ UNCHANGED <<reg, gen, ch, sendq, enq, wk, at, dr, pool, fate, setup>>

Unpark(g) ==
    \E k \in DOMAIN sendq[at[g]] :
      /\ sendq[at[g]][k] = Offers(g)
      /\ sendq' = [sendq EXCEPT ![at[g]] =
                      SubSeq(@, 1, k - 1) \o SubSeq(@, k + 1, Len(@))]

\* Seeded fault: the cancelled branch takes itself off the count as well.
GiveUpTwice(g) ==
    /\ pool = "cancelled"
    /\ \/ snd[g] = "full" /\ UNCHANGED sendq
       \/ snd[g] = "parked" /\ Unpark(g)
    /\ snd' = [snd EXCEPT ![g] = "sent"]
    /\ fate' = [fate EXCEPT ![Offers(g)] = "dropped"]
    /\ enq' = [enq EXCEPT ![at[g]] = @ - 1]
    /\ UNCHANGED <<reg, gen, ch, wk, at, dr, pool, setup>>

\* case <-p.ctx.Done()
GiveUp(g) ==
    /\ pool = "cancelled"
    /\ \/ snd[g] = "full" /\ UNCHANGED sendq
       \/ snd[g] = "parked" /\ Unpark(g)
    /\ snd' = [snd EXCEPT ![g] = "sent"]
    /\ fate' = [fate EXCEPT ![Offers(g)] = "dropped"]
    /\ UNCHANGED <<reg, gen, ch, enq, wk, at, dr, pool, setup>>

\* p.mu.Lock() again and activeEnqueuers--.
Relock(g) ==
    /\ MuFree /\ snd[g] = "sent"
    /\ enq' = [enq EXCEPT ![at[g]] = @ - 1]
    /\ snd' = [snd EXCEPT ![g] = "done"]
    /\ at' = [at EXCEPT ![g] = NoState]
    /\ UNCHANGED <<reg, gen, ch, sendq, wk, dr, pool, fate, setup>>

--------------------
(* runThreadWorker *)

Goto(st, pc) == wk' = [wk EXCEPT ![st].pc = pc]

\* go p.runThreadWorker, after the caller has released p.mu.
Spawn(st) ==
    /\ wk[st].pc = "spawn"
    /\ Goto(st, "wait")
    /\ UNCHANGED <<reg, gen, ch, sendq, enq, snd, at, dr, pool, fate, setup>>

\* waitForNextQueueItem: a select with three ready cases takes any of them.
Pop(st) ==
    /\ wk[st].pc = "wait" /\ ch[st] # <<>>
    /\ wk' = [wk EXCEPT ![st].pc = "popped", ![st].burst = <<Head(ch[st])>>]
    /\ Receive(st)
    /\ UNCHANGED <<reg, gen, enq, snd, at, dr, pool, fate, setup>>

IdleTimer(st) ==
    /\ wk[st].pc = "wait"
    /\ gen[st[1]] < MaxGens
    /\ Goto(st, "prune")
    /\ UNCHANGED <<reg, gen, ch, sendq, enq, snd, at, dr, pool, fate, setup>>

WorkerExit(st) ==
    /\ wk[st].pc = "wait" /\ pool = "cancelled"
    /\ Goto(st, "exited")
    /\ UNCHANGED <<reg, gen, ch, sendq, enq, snd, at, dr, pool, fate, setup>>

\* Seeded fault: the blocked senders are not counted.
PrunableIfEmpty(st) == ch[st] = <<>>

Prunable(st) == ch[st] = <<>> /\ enq[st] = 0

\* Seeded fault: the entry is deleted and the loop goes on.
TryPruneAndStay(st) ==
    /\ MuFree /\ wk[st].pc = "prune"
    /\ Goto(st, "wait")
    /\ reg' = IF Prunable(st) THEN [reg EXCEPT ![st[1]] = 0] ELSE reg
    /\ UNCHANGED <<gen, ch, sendq, enq, snd, at, dr, pool, fate, setup>>

TryPruneIdleThread(st) ==
    /\ MuFree /\ wk[st].pc = "prune"
    /\ IF Prunable(st)
       THEN Goto(st, "exited") /\ reg' = [reg EXCEPT ![st[1]] = 0]
       ELSE Goto(st, "wait") /\ UNCHANGED reg
    /\ UNCHANGED <<gen, ch, sendq, enq, snd, at, dr, pool, fate, setup>>

\* executeWorkerDispatch and executeWorkerBurst take p.mu to set inFlight; the
\* burst drain runs under it and takes one message after another ...
BeginTurn(st) ==
    /\ MuFree /\ wk[st].pc = "popped"
    /\ Goto(st, IF wk[st].burst[1] \in Disps THEN "turn" ELSE "drain")
    /\ UNCHANGED <<reg, gen, ch, sendq, enq, snd, at, dr, pool, fate, setup>>

\* Seeded fault: the dispatch the drain runs into is forgotten.
DrainBurstForgets(st) ==
    LET w == wk[st] IN
    /\ wk[st].pc = "drain"
    /\ IF Len(w.burst) < BurstMax /\ ch[st] # <<>>
       THEN /\ Receive(st)
            /\ wk' = [wk EXCEPT ![st] =
                 IF Head(ch[st]) \in Disps THEN [w EXCEPT !.pc = "turn"]
                 ELSE [w EXCEPT !.burst = Append(w.burst, Head(ch[st]))]]
       ELSE Goto(st, "turn") /\ UNCHANGED <<ch, sendq>>
    /\ UNCHANGED <<reg, gen, enq, snd, at, dr, pool, fate, setup>>

\* ... until it has BurstMax, the channel is empty, or it meets a dispatch.
DrainBurst(st) ==
    LET w == wk[st] IN
    /\ wk[st].pc = "drain"
    /\ IF Len(w.burst) < BurstMax /\ ch[st] # <<>>
       THEN /\ Receive(st)
            /\ wk' = [wk EXCEPT ![st] =
                 IF Head(ch[st]) \in Disps
                 THEN [w EXCEPT !.pc = "turn", !.held = <<Head(ch[st])>>]
                 ELSE [w EXCEPT !.burst = Append(w.burst, Head(ch[st]))]]
       ELSE Goto(st, "turn") /\ UNCHANGED <<ch, sendq>>
    /\ UNCHANGED <<reg, gen, enq, snd, at, dr, pool, fate, setup>>

\* registerActiveTurn takes p.mu, then the burst is planned: the messages behind the one
\* that woke the agent are te.trailingMsgs, which an interrupt may take.
Plan(st) ==
    LET b == wk[st].burst IN
    /\ MuFree /\ wk[st].pc = "turn"
    /\ \E k \in (IF Trailing THEN 1 ELSE Len(b)) .. Len(b) :
         wk' = [wk EXCEPT ![st].pc = "run", ![st].burst = SubSeq(b, 1, k),
                          ![st].back = SubSeq(b, k + 1, Len(b))]
    /\ UNCHANGED <<reg, gen, ch, sendq, enq, snd, at, dr, pool, fate, setup>>

\* The turn settles its messages; a cancelled pool may leave them to the next start.
FinishTurn(st) ==
    /\ wk[st].pc = "run"
    /\ wk' = [wk EXCEPT ![st].pc = "ended", ![st].burst = <<>>]
    /\ \E ran \in (IF pool = "cancelled" THEN {"done", "dropped"} ELSE {"done"}) :
         fate' = [i \in Items |-> IF i \in Elems(wk[st].burst) THEN ran ELSE fate[i]]
    /\ UNCHANGED <<reg, gen, ch, sendq, enq, snd, at, dr, pool, setup>>

\* handleTrailing takes te.trailingMsgs; a cancelled pool forgets them, unless the turn
\* was paused for its quota.
HandleTrailing(st) ==
    /\ wk[st].pc = "ended"
    /\ \/ Goto(st, "trail") /\ UNCHANGED fate
       \/ /\ pool = "cancelled"
          /\ wk' = [wk EXCEPT ![st].pc = "trail", ![st].back = <<>>]
          /\ fate' = [i \in Items |-> IF i \in Elems(wk[st].back) THEN "dropped" ELSE fate[i]]
    /\ UNCHANGED <<reg, gen, ch, sendq, enq, snd, at, dr, pool, setup>>

\* An ambient message is completed; for one that wakes the agent the worker calls
\* pool.Enqueue and waits for it like any sender.
HandBack(st) ==
    LET i == Head(wk[st].back) IN
    /\ wk[st].pc = "trail"
    /\ \/ /\ wk[st].back = <<>>
          /\ Goto(st, "settle")
          /\ UNCHANGED <<snd, fate>>
       \/ /\ wk[st].back # <<>>
          /\ wk' = [wk EXCEPT ![st].back = Tail(@)]
          /\ fate' = [fate EXCEPT ![i] = "done"]
          /\ UNCHANGED snd
       \/ /\ wk[st].back # <<>>
          /\ Goto(st, "await")
          /\ snd' = [snd EXCEPT ![st] = "new"]
          /\ UNCHANGED fate
    /\ UNCHANGED <<reg, gen, ch, sendq, enq, at, dr, pool, setup>>

HandedBack(st) ==
    /\ wk[st].pc = "await" /\ snd[st] = "done"
    /\ wk' = [wk EXCEPT ![st].pc = "trail", ![st].back = Tail(@)]
    /\ UNCHANGED <<reg, gen, ch, sendq, enq, snd, at, dr, pool, fate, setup>>

\* p.mu again for inFlight = false; a held dispatch comes before the channel.
EndTurn(st) ==
    /\ MuFree /\ wk[st].pc = "settle"
    /\ IF wk[st].held = <<>>
       THEN Goto(st, "wait")
       ELSE wk' = [wk EXCEPT ![st].pc = "popped", ![st].burst = wk[st].held,
                             ![st].held = <<>>]
    /\ UNCHANGED <<reg, gen, ch, sendq, enq, snd, at, dr, pool, fate, setup>>

--------------------
(* InterruptThread: latchInterruptAndDrainLocked, under p.mu *)

\* Turns of the thread that are in activeTurns, or about to be.
Active == {st \in States : st[1] \in Drained /\ wk[st].pc \in {"turn", "run", "ended"}}

DrainLock ==
    /\ MuFree /\ setup.drains < MaxDrains
    /\ setup' = [setup EXCEPT !.drains = @ + 1]
    /\ dr' = [NoDrain EXCEPT !.pc = "latch", !.todo = Active]
    /\ UNCHANGED <<reg, gen, ch, sendq, enq, wk, snd, at, pool, fate>>

\* latchActiveTurnsLocked, a turn at a time under its own lock: the trailing messages are
\* taken and failed.  A turn that is registered but not yet planned keeps none; one that
\* waits for p.mu to register, or has taken its trailing messages, is not met.
DrainLatch(st) ==
    /\ dr.pc = "latch" /\ st \in dr.todo
    /\ dr' = [dr EXCEPT !.todo = @ \ {st}]
    /\ \/ /\ wk[st].pc \in {"run", "ended"}
          /\ wk' = [wk EXCEPT ![st].back = <<>>]
          /\ fate' = [i \in Items |-> IF i \in Elems(wk[st].back) THEN "failed" ELSE fate[i]]
       \/ wk[st].pc = "turn" /\ Goto(st, "run") /\ UNCHANGED fate
       \/ wk[st].pc \notin {"run", "ended"} /\ UNCHANGED <<wk, fate>>
    /\ UNCHANGED <<reg, gen, ch, sendq, enq, snd, at, pool, setup>>

\* drainQueuedThreadMessagesLocked: the channels of the thread.
DrainQueues ==
    /\ dr.pc = "latch" /\ dr.todo = {}
    /\ dr' = [dr EXCEPT !.pc = "pick",
                !.todo = {<<s, reg[s]>> : s \in {t \in Drained : reg[t] # 0}}]
    /\ UNCHANGED <<reg, gen, ch, sendq, enq, wk, snd, at, pool, fate, setup>>

DrainPick ==
    /\ dr.pc = "pick"
    /\ \/ dr.todo = {} /\ dr' = NoDrain
       \/ \E st \in dr.todo :
            dr' = [dr EXCEPT !.pc = "recv", !.todo = @ \ {st}, !.on = st]
    /\ UNCHANGED <<reg, gen, ch, sendq, enq, wk, snd, at, pool, fate, setup>>

\* Seeded fault: the dispatches are taken for messages.
DrainRecvAll ==
    /\ dr.pc = "recv"
    /\ IF ch[dr.on] = <<>>
       THEN dr' = [dr EXCEPT !.pc = "send"] /\ UNCHANGED <<ch, sendq, fate>>
       ELSE /\ Receive(dr.on)
            /\ dr' = dr
            /\ fate' = [fate EXCEPT ![Head(ch[dr.on])] = "failed"]
    /\ UNCHANGED <<reg, gen, enq, wk, snd, at, pool, setup>>

\* drainChannelMessages: everything out, without blocking ...
DrainRecv ==
    LET i == Head(ch[dr.on]) IN
    /\ dr.pc = "recv"
    /\ IF ch[dr.on] = <<>>
       THEN dr' = [dr EXCEPT !.pc = "send"] /\ UNCHANGED <<ch, sendq, fate>>
       ELSE /\ Receive(dr.on)
            /\ dr' = IF i \in Disps THEN [dr EXCEPT !.back = Append(@, i)] ELSE dr
            /\ fate' = IF i \in Disps THEN fate ELSE [fate EXCEPT ![i] = "failed"]
    /\ UNCHANGED <<reg, gen, enq, wk, snd, at, pool, setup>>

\* ... and the dispatches back in: a send that waits for room, with p.mu held.
DrainSend ==
    LET st == dr.on IN
    /\ dr.pc = "send"
    /\ CASE dr.back = <<>> ->
              dr' = [dr EXCEPT !.pc = "pick"] /\ UNCHANGED <<ch, sendq>>
         [] dr.back # <<>> /\ Room(st) ->
              /\ ch' = [ch EXCEPT ![st] = Append(@, Head(dr.back))]
              /\ dr' = [dr EXCEPT !.back = Tail(@)]
              /\ UNCHANGED sendq
         [] OTHER ->
              /\ sendq' = [sendq EXCEPT ![st] = Append(@, Head(dr.back))]
              /\ dr' = [dr EXCEPT !.pc = "parked"]
              /\ UNCHANGED ch
    /\ UNCHANGED <<reg, gen, enq, wk, snd, at, pool, fate, setup>>

DrainWake ==
    /\ dr.pc = "parked" /\ Head(dr.back) \notin Elems(sendq[dr.on])
    /\ dr' = [dr EXCEPT !.pc = "send", !.back = Tail(@)]
    /\ UNCHANGED <<reg, gen, ch, sendq, enq, wk, snd, at, pool, fate, setup>>

--------------------
(* WorkerPool.Stop *)

Stop ==
    /\ MayStop /\ MuFree /\ pool = "running"
    /\ pool' = "stopped"
    /\ UNCHANGED <<reg, gen, ch, sendq, enq, wk, snd, at, dr, fate, setup>>

Cancel ==
    /\ pool = "stopped"
    /\ pool' = "cancelled"
    /\ UNCHANGED <<reg, gen, ch, sendq, enq, wk, snd, at, dr, fate, setup>>

--------------------
Sender(g) == Enqueue(g) \/ SlowSend(g) \/ Wake(g) \/ GiveUp(g) \/ Relock(g)

Worker(st) ==
    \/ Spawn(st) \/ Pop(st) \/ IdleTimer(st) \/ WorkerExit(st)
    \/ TryPruneIdleThread(st) \/ BeginTurn(st) \/ DrainBurst(st)
    \/ Plan(st) \/ FinishTurn(st) \/ HandleTrailing(st)
    \/ HandBack(st) \/ HandedBack(st) \/ EndTurn(st)

Interrupt ==
    \/ DrainLock \/ DrainQueues \/ DrainPick \/ DrainRecv \/ DrainSend \/ DrainWake
    \/ \E st \in States : DrainLatch(st)

Next ==
    \/ \E g \in Callers : Sender(g)
    \/ \E st \in States : Worker(st)
    \/ Interrupt
    \/ Stop \/ Cancel

\* Goroutines that can run do run.  An operator need not interrupt, the process need
\* not stop, the idle timer need not fire.  Pop is strong: the idle timer may be
\* picked over a ready channel, and Go's select picks at random.
Fairness ==
    /\ \A g \in Callers : WF_vars(Sender(g))
    /\ \A st \in States :
         /\ WF_vars(Spawn(st) \/ TryPruneIdleThread(st) \/ BeginTurn(st)
                    \/ DrainBurst(st) \/ Plan(st) \/ FinishTurn(st)
                    \/ HandleTrailing(st) \/ HandBack(st) \/ HandedBack(st)
                    \/ EndTurn(st))
         /\ SF_vars(Pop(st) \/ WorkerExit(st))
    /\ WF_vars((\E st \in States : DrainLatch(st)) \/ DrainQueues
               \/ DrainPick \/ DrainRecv \/ DrainSend \/ DrainWake)
    /\ WF_vars(Cancel)

Spec == Init /\ [][Next]_vars

FairSpec == Spec /\ Fairness

--------------------
TypeOK ==
    /\ reg \in [Scopes -> 0 .. MaxGens]
    /\ gen \in [Scopes -> 0 .. MaxGens]
    /\ ch \in [States -> Seq(Items)]
    /\ sendq \in [States -> Seq(Items)]
    /\ enq \in [States -> Nat]
    /\ wk \in [States -> [pc : {"none", "spawn", "wait", "prune", "popped", "drain",
                                "turn", "run", "ended", "trail", "await", "settle",
                                "exited"},
                          burst : Seq(Msgs) \cup Seq(Disps), held : Seq(Disps),
                          back : Seq(Msgs)]]
    /\ snd \in [Callers -> {"new", "full", "parked", "sent", "done"}]
    /\ at \in [Callers -> States \cup {NoState}]
    /\ dr \in [pc : {"idle", "latch", "pick", "recv", "send", "parked"}, todo : SUBSET States,
               on : States \cup {NoState}, back : Seq(Disps)]
    /\ pool \in {"running", "stopped", "cancelled"}
    /\ fate \in [Items -> {"open", "done", "failed", "dropped"}]
    /\ setup \in [cap : Caps, drains : Nat]

--------------------
(* Properties *)

\* A scope has at most one goroutine: tryPruneIdleThread and EnqueueBurst decide under
\* p.mu, so that a retiring worker and its successor never coexist.
OneWorkerPerScope ==
    \A a, b \in States : a[1] = b[1] /\ Running(a) /\ Running(b) => a = b

\* Whatever is in a channel, parked on it or about to be sent to it (read from the
\* map, then sent without p.mu) has a goroutine that is still going to read it:
\* pruning never orphans a channel.
NoOrphanedChannel ==
    pool # "cancelled" =>
      \A st \in States :
        \/ ch[st] # <<>> \/ sendq[st] # <<>>
        \/ \E g \in Callers : snd[g] = "full" /\ at[g] = st
        => Running(st) /\ reg[st[1]] = st[2]

\* Where an item is: with its sender, in one of the queues, or in a worker's hands.
Places(i) ==
    {<<"sender", g>> : g \in {c \in {i} \cup States :
                                snd[c] \in {"new", "full"} /\ Offers(c) = i}}
    \cup (UNION {{<<"ch", st, k>> : k \in {l \in DOMAIN ch[st] : ch[st][l] = i}} : st \in States})
    \cup (UNION {{<<"sendq", st, k>> : k \in {l \in DOMAIN sendq[st] : sendq[st][l] = i}} : st \in States})
    \cup (UNION {{<<"burst", st, k>> : k \in {l \in DOMAIN wk[st].burst : wk[st].burst[l] = i}} : st \in States})
    \cup (UNION {{<<"held", st, k>> : k \in {l \in DOMAIN wk[st].held : wk[st].held[l] = i}} : st \in States})
    \cup (UNION {{<<"back", st, k>> : k \in {l \in DOMAIN wk[st].back :
                   wk[st].back[l] = i /\ (wk[st].pc = "await" => l > 1)}} : st \in States})
    \cup {<<"drain", k>> : k \in {l \in DOMAIN dr.back :
                   dr.back[l] = i /\ (dr.pc = "parked" => l > 1)}}

\* Blocking sends, burst drains, held dispatches, hand-backs and interrupts neither
\* lose an item nor run it twice: an open item is in exactly one place, a settled one
\* in none.
ExactlyOnePlace ==
    \A i \in Items : Cardinality(Places(i)) = IF fate[i] = "open" THEN 1 ELSE 0

\* The state of an item as ScopeMailbox sees it.
Stat(i) ==
    IF fate[i] # "open" THEN fate[i]
    ELSE IF \E st \in States : wk[st].pc \in {"turn", "run"} /\ i \in Elems(wk[st].burst) THEN "running"
    ELSE IF \E st \in States : \E k \in DOMAIN wk[st].back :
              wk[st].back[k] = i /\ (wk[st].pc # "await" \/ k > 1) THEN "trailing"
    ELSE IF \E g \in {i} \cup States : snd[g] = "new" /\ Offers(g) = i THEN "offered"
    ELSE "queued"

Mailbox == INSTANCE ScopeMailbox
             WITH stat <- [i \in Items |-> Stat(i)], open <- (pool = "running")

\* The machinery of channels and locks implements the mailbox: turns of a scope do not
\* overlap, bursts are bounded, an interrupt withdraws messages that are queued or trail
\* a turn and never a dispatch or the messages a turn answers, and nothing is lost by a
\* pool that has not been stopped.
ImplementsMailbox == Mailbox!Spec

\* Every item offered is run or withdrawn, however often workers retire, hand back and
\* are interrupted, unless the pool is cancelled, which leaves the row to the next start;
\* provided the channel holds all there is (an interrupt may block on a full one).
EveryItemSettles ==
    setup.cap >= Cardinality(Items) =>
        \A i \in Items : <>(fate[i] # "open" \/ pool = "cancelled")

\* An interrupt that has taken p.mu gives it back.
InterruptCompletes == dr.pc # "idle" ~> dr.pc = "idle"

====================
