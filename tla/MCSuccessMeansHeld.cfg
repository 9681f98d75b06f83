\* A poll for two free mutexes.
SPECIFICATION Spec
CONSTANTS
  t1 = t1
  t2 = t2
  t3 = t3
  o1 = o1
  o2 = o2
  m1 = m1
  m2 = m2
  Null = Null
  Thread = {t1, t2}
  Object = {m1, m2}
  Kind <- KindsMutexes
  KernelMutex = {}
  Waits <- WaitsPolled
  Alerts = {}
  Alerted = {}
  Priority = {0}
  PrioritiesKept = TRUE
  Releases = {}
  MaxCount = 1
  LowestCount <- Once
PROPERTIES
  SuccessMeansHeld
