----------- MODULE MCScopeWorkers -----------
(* Instances of ScopeWorkers for TLC: messages and dispatches of one scope. *)
EXTENDS ScopeWorkers

CONSTANTS m1, m2, d1, d2, s1

OneScope == [i \in Items |-> s1]

====================
