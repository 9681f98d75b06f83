\* Three threads of two priorities, signals of all kinds.
SPECIFICATION Spec
CONSTANTS
  t1 = t1
  t2 = t2
  t3 = t3
  o1 = o1
  o2 = o2
  m1 = m1
  m2 = m2
  Null = Null
  Thread = {t1, t2, t3}
  Object = {o1, o2, m1}
  Kind <- KindsSignals
  KernelMutex = {m1}
  Waits <- WaitsSignals
  Alerts = {}
  Alerted = {}
  Priority = {0, 1}
  PrioritiesKept = TRUE
  Releases = {1, 2}
  MaxCount = 2
  LowestCount <- Once
INVARIANTS
  ListsMatchWaits
  NoLostWakeup
PROPERTIES
  BestWaiterFirst
  EachUnitOnce
