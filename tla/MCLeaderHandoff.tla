----------- MODULE MCLeaderHandoff -----------
(* An instance of LeaderHandoff for TLC: a deployment that replaces the *)
(* process 1 by the process 2. *)
EXTENDS LeaderHandoff

OneDeployment == {[requests |-> 2, boots |-> 2, terms |-> 1, crashes |-> 0, faults |-> 0]}

====================
