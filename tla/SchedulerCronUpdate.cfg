SPECIFICATION Spec
CONSTANTS
    c = c  b = b  s = s  k1 = k1  k2 = k2
    Crons = {c}
    Beats = {}
    Shots = {}
    Tickers = {k1}
    CronExprs = {2}
    Zones = {0, 1}
    ServerZone = 0
    BadZone = badzone
    NextRun <- MCNextRun
    NoSlot = noslot
    MaxTime = 4
    MaxOverdue = 2
    Retention = 3
    MaxRuns = 2
    Budgets <- EditBudget
INVARIANTS OnSchedule
