CONSTANTS
  m1 = m1
  m2 = m2
  d1 = d1
  d2 = d2
  s1 = s1
  ScopeOf <- OneScope
  Msgs = {m1, m2}
  Disps = {d1}
  Scopes = {s1}
  Drained = {s1}
  Caps = {1, 3}
  BurstMax = 2
  MaxGens = 2
  MaxDrains = 1
  Trailing = TRUE
  MayStop = TRUE
SPECIFICATION FairSpec
INVARIANTS TypeOK OneWorkerPerScope NoOrphanedChannel ExactlyOnePlace
PROPERTIES ImplementsMailbox EveryItemSettles
CHECK_DEADLOCK FALSE
