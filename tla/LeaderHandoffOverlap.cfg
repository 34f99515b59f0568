SPECIFICATION HandoffSpec
CONSTANTS
    Procs = {1, 2}
    HandoffBudgets <- OneDeployment
INVARIANTS
    NoSplitBrain
CHECK_DEADLOCK FALSE
