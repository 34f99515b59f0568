----------- MODULE MCScheduler -----------
(* Scheduler for TLC: a cron expression is a period p, a timezone an *)
(* offset z, and the occurrences are the instants t with p dividing t + z. *)
EXTENDS Scheduler

CONSTANTS c, b, s, k1, k2

MCNextRun(p, z, t) == ((((t + z) \div p) + 1) * p) - z

Allow(ids, tickers, until, fault, crash, cron, beat) ==
    [ids |-> ids, tickers |-> tickers, until |-> until, fault |-> fault,
     crash |-> crash, cron |-> cron, beat |-> beat]

\* A cron schedule that is edited while a statement fails, or whose process crashes; a
\* reminder seen by two tickers during a canary deployment; a heartbeat that is edited
\* while it is due.
TickerBudgets ==
    <<Allow({c}, {k1}, 2, 1, 0, 1, 0), Allow({c}, {k1}, 3, 0, 1, 0, 0),
      Allow({s}, {k1, k2}, 1, 0, 1, 0, 0), Allow({b}, {k1}, 2, 0, 0, 0, 1)>>

EditBudget == <<Allow({c}, {k1}, 4, 0, 0, 1, 0)>>
====================
