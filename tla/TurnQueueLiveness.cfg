SPECIFICATION FairSpec
CONSTANTS
  m1 = m1  m2 = m2  m3 = m3  d1 = d1  s1 = s1  s2 = s2  t1 = t1  t2 = t2
  Msgs = {m3}
  Disps = {d1}
  Scopes = {s2}
  Threads = {t2}
  ScopeOf <- ScopeOfItem
  ThreadOf <- ThreadOfScope
  Mode <- ThreadMode
  ApiKey = TRUE
  MaxAttempts = 2
  MaxHardRestarts = 1
  DefaultMaxRestarts = 1
  BurstMax = 2
  MaxResumes = 1
  Budgets <- SettledBudgets
PROPERTIES
  EventuallySettled
CHECK_DEADLOCK FALSE
