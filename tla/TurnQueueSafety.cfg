SPECIFICATION Spec
CONSTANTS
  m1 = m1  m2 = m2  m3 = m3  d1 = d1  s1 = s1  s2 = s2  t1 = t1  t2 = t2
  Msgs = {m1, m2, m3}
  Disps = {d1}
  Scopes = {s1, s2}
  Threads = {t1, t2}
  ScopeOf <- ScopeOfItem
  ThreadOf <- ThreadOfScope
  Mode <- ModeOfThread
  ApiKey = FALSE
  MaxAttempts = 1
  MaxHardRestarts = 1
  DefaultMaxRestarts = 1
  BurstMax = 2
  MaxResumes = 1
  Budgets <- SafetyBudgets
INVARIANTS
  TypeOK
  NoForgottenWork
  DeliveredOncePerLife
  ClaimIsExclusive
  RestartBudget
PROPERTIES
  TerminalIsFinal
SYMMETRY MessageSymmetry
CHECK_DEADLOCK FALSE
