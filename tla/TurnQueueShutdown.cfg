SPECIFICATION Spec
CONSTANTS
  m1 = m1  m2 = m2  m3 = m3  d1 = d1  s1 = s1  s2 = s2  t1 = t1  t2 = t2
  Msgs = {m1}
  Disps = {}
  Scopes = {s1}
  Threads = {t1}
  ScopeOf <- ScopeOfItem
  ThreadOf <- ThreadOfScope
  Mode <- ThreadMode
  ApiKey = TRUE
  MaxAttempts = 1
  MaxHardRestarts = 1
  DefaultMaxRestarts = 1
  BurstMax = 2
  MaxResumes = 1
  Budgets <- StopBudget
PROPERTIES
  ShutdownKeepsWork
CHECK_DEADLOCK FALSE
