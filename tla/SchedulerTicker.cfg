SPECIFICATION FairSpec
CONSTANTS
    c = c  b = b  s = s  k1 = k1  k2 = k2
    Crons = {c}
    Beats = {b}
    Shots = {s}
    Tickers = {k1, k2}
    CronExprs = {1, 2}
    Zones = {0}
    ServerZone = 0
    BadZone = badzone
    NextRun <- MCNextRun
    NoSlot = noslot
    MaxTime = 3
    MaxOverdue = 1
    Retention = 3
    MaxRuns = 2
    Budgets <- TickerBudgets
INVARIANTS TypeOK OncePerOccurrence LogIsTruthful OneShotOnce
PROPERTIES CancelledStaysSilent DueIsHandled DueIsAnswered
