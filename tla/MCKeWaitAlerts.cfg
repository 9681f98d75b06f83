\* All alerts, at one of two threads.
SPECIFICATION Spec
CONSTANTS
  t1 = t1
  t2 = t2
  t3 = t3
  o1 = o1
  o2 = o2
  m1 = m1
  m2 = m2
  Null = Null
  Thread = {t1, t2}
  Object = {o1, m1, m2}
  Kind <- KindsAlerts
  KernelMutex = {m2}
  Waits <- WaitsAlerts
  Alerts = {"kill", "signal", "apc", "kernelapc", "suspend"}
  Alerted = {t1}
  Priority = {0, 1}
  PrioritiesKept = FALSE
  Releases = {}
  MaxCount = 1
  LowestCount <- Twice
INVARIANTS
  TypeOK
  MutexesAccounted
  AlertsEndWaits
PROPERTIES
  SuccessMeansHeld
