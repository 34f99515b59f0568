CONSTANTS
  m1 = m1
  m2 = m2
  d1 = d1
  d2 = d2
  s1 = s1
  ScopeOf <- OneScope
  Msgs = {m1}
  Disps = {d1, d2}
  Scopes = {s1}
  Drained = {s1}
  Caps = {1}
  BurstMax = 2
  MaxGens = 1
  MaxDrains = 1
  Trailing = FALSE
  MayStop = FALSE
SPECIFICATION FairSpec
PROPERTY InterruptCompletes
CHECK_DEADLOCK FALSE
