----------- MODULE ScopeMailbox -----------
(* What the pool promises about scopes, without channels, goroutines or *)
(* locks: an item is offered, queued, run and settled; the turns of one *)
(* scope never overlap; a turn runs a burst of messages or one dispatch; *)
(* only a pool that has been told to stop loses track of an item. *)
EXTENDS Integers, FiniteSets

CONSTANTS Msgs, Disps, Scopes, ScopeOf, BurstMax

Items == Msgs \cup Disps

VARIABLES stat,  \* item -> offered, queued, running, trailing, done, failed, dropped
          open   \* the pool takes items

In(s, x) == {i \in Items : ScopeOf[i] = s /\ stat[i] = x}

Move(S, x) == stat' = [i \in Items |-> IF i \in S THEN x ELSE stat[i]]

Init == stat = [i \in Items |-> "offered"] /\ open = TRUE

Accept(i) == open /\ stat[i] = "offered" /\ Move({i}, "queued") /\ UNCHANGED open

Begin(s) ==
    /\ In(s, "running") = {}
    /\ \E B \in SUBSET In(s, "queued") :
         /\ B # {} /\ Cardinality(B) <= BurstMax
         /\ B \subseteq Msgs \/ Cardinality(B) = 1
         /\ Move(B, "running")
    /\ UNCHANGED open

\* Messages behind the one that woke the agent trail the turn.
Part(s) ==
    /\ \E B \in SUBSET (In(s, "running") \cap Msgs) :
         B # In(s, "running") /\ Move(B, "trailing")
    /\ UNCHANGED open

Finish(s) ==
    /\ In(s, "running") # {}
    /\ Move(In(s, "running"), "done")
    /\ UNCHANGED open

\* A trailing message is ambient and done with, or offered again.
Resolve(i) ==
    /\ stat[i] = "trailing"
    /\ Move({i}, "done") \/ Move({i}, "offered")
    /\ UNCHANGED open

\* An interrupt takes messages out of the queue, or the ones that trail a turn: never a
\* dispatch, never what a turn answers.
Withdraw(S) ==
    /\ S # {} /\ S \subseteq Msgs
    /\ \A i \in S : stat[i] \in {"queued", "trailing"}
    /\ Move(S, "failed")
    /\ UNCHANGED open

Close == open /\ open' = FALSE /\ UNCHANGED stat

Lose(S) ==
    /\ ~open /\ S # {}
    /\ \A i \in S : stat[i] \in {"offered", "queued", "running", "trailing"}
    /\ Move(S, "dropped")
    /\ UNCHANGED open

\* A turn that a closed pool cuts short: some of it settled, the rest lost.
CutShort(s) ==
    /\ ~open /\ In(s, "running") # {}
    /\ \E D \in SUBSET In(s, "running") :
         stat' = [i \in Items |-> IF i \in D THEN "done"
                                  ELSE IF i \in In(s, "running") THEN "dropped"
                                  ELSE stat[i]]
    /\ UNCHANGED open

Next ==
    \/ \E i \in Items : Accept(i) \/ Resolve(i)
    \/ \E s \in Scopes : Begin(s) \/ Part(s) \/ Finish(s) \/ CutShort(s)
    \/ Close
    \/ \E S \in SUBSET Items : Withdraw(S) \/ Lose(S)

Spec == Init /\ [][Next]_<<stat, open>>

====================
