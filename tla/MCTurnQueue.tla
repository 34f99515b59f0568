----------- MODULE MCTurnQueue -----------
(* Instances of TurnQueue for TLC.  t1 is a channel with the messages m1 *)
(* and m2; t2 is ignored by policy and has the message m3 and the dispatch *)
(* d1, which share a worker. *)
EXTENDS TurnQueue, TLC

CONSTANTS m1, m2, m3, d1, s1, s2, t1, t2

ScopeOfItem == [i \in Items |-> IF i \in {m1, m2} THEN s1 ELSE s2]
ThreadOfScope == [s \in Scopes |-> IF s = s1 THEN t1 ELSE t2]
ModeOfThread == [t \in Threads |-> IF t = t1 THEN "channel" ELSE "ignored"]
ThreadMode == [t \in Threads |-> "thread"]

Budget(items, stops, crashes, irqs, faults, resubs) ==
    [items |-> items, stops |-> stops, crashes |-> crashes, irqs |-> irqs,
     faults |-> faults, resubs |-> resubs]

\* Two messages of the channel and a crash; one message that is repeated, stopped, hit by
\* a failing statement and crashed more often than the restart budget allows, or
\* interrupted; an operator at work on the ignored thread, with its message and its
\* dispatch or with a failing statement.
SafetyBudgets ==
    {Budget({m1, m2}, 0, 1, 0, 0, 0), Budget({m1, m2}, 0, 0, 1, 0, 0),
     Budget({m3, d1}, 0, 0, 1, 0, 0)}
      \cup UNION {{Budget({m}, 1, 2, 0, 1, 1), Budget({m}, 0, 1, 1, 0, 0)} : m \in {m1, m2}}
      \cup {Budget({i}, 0, 0, 1, 1, 0) : i \in {m3, d1}}

\* A message or a dispatch that is repeated, stopped and crashed.
SettledBudgets == {Budget({i}, 1, 1, 0, 0, 1) : i \in {m3, d1}}

StopBudget == {Budget({m1}, 1, 0, 0, 0, 0)}

\* m1 and m2 are interchangeable: they share a scope, and a budget that names one of
\* them has a twin that names the other.
MessageSymmetry == Permutations({m1, m2})

====================
