\* Three timers in two buckets, under every interleaving with two ticks.
SPECIFICATION Spec
CONSTANTS
  t1 = t1
  t2 = t2
  t3 = t3
  c1 = c1
  Null = Null
  Timer = {t1, t2, t3}
  Client = {c1}
  Intervals <- Long
  DpcTimers = {}
  TIMERTABLESIZE = 2
  HALRTCInterval = 2
  TickRange = 64
  MaxTicks = 2
  Prompt = FALSE
SYMMETRY Symmetry
INVARIANTS
  CalendarSorted
  ExpiresStartedTimers
  EarliestExact
  LastReportServed
PROPERTIES
  ImplementsTimerService
