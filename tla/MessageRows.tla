----------- MODULE MessageRows -----------
(* The durable half of eri's turn queue: the rows of the Postgres tables *)
(* "messages" and "dispatches", and the SQL statements that change them. *)
(* A row is reduced to the columns the queue branches on.  Every operator *)
(* takes the table and returns the table after one statement, so that a *)
(* statement is atomic and everything between two statements is not. *)
EXTENDS Naturals

Absent == "ABSENT"
Pending == "PENDING"
Processing == "PROCESSING"
Completed == "COMPLETED"
Failed == "FAILED"

Statuses == {Absent, Pending, Processing, Completed, Failed}

\* What the recovery query and the drain query select.
Live == {Pending, Processing}
Terminal == {Completed, Failed}

Row == [st : Statuses, retry : Nat, restart : Nat]

NoRow == [st |-> Absent, retry |-> 0, restart |-> 0]

\* Seeded fault: ON CONFLICT (id) DO UPDATE SET status = 'PENDING'.
InsertMessageUpsert(t, i) == [t EXCEPT ![i].st = Pending]

\* INSERT ... ON CONFLICT (id) DO NOTHING.
InsertMessage(t, i) ==
    IF t[i].st = Absent THEN [t EXCEPT ![i].st = Pending] ELSE t

\* Seeded fault: the claim without its condition on the status.
ClaimableAny(t, i) == t[i].st # Absent

\* UPDATE ... SET status = 'PROCESSING' WHERE id = i AND status = 'PENDING' RETURNING id.
Claimable(t, i) == t[i].st = Pending

ClaimPendingMessage(t, i) ==
    IF Claimable(t, i) THEN [t EXCEPT ![i].st = Processing] ELSE t

\* Seeded fault: the telemetry text bound to the status parameter.
UpdateMessageStatusSwapped(t, i, st) == [t EXCEPT ![i].st = "telemetry"]

\* UPDATE ... SET status = st WHERE id = i: no condition on the old status.
UpdateMessageStatus(t, i, st) == [t EXCEPT ![i].st = st]

\* UPDATE ... SET retry_count = retry_count + 1 WHERE id = i, for a set of ids.
IncrementMessageRetry(t, ids) ==
    [i \in DOMAIN t |-> IF i \in ids THEN [t[i] EXCEPT !.retry = @ + 1] ELSE t[i]]

\* UPDATE ... SET restart_count = restart_count + 1, status = 'PENDING'
\* WHERE id = i AND status = 'PROCESSING'.
ResetMessageToPendingWithRestart(t, i) ==
    IF t[i].st = Processing
    THEN [t EXCEPT ![i].st = Pending, ![i].restart = @ + 1]
    ELSE t

====================
