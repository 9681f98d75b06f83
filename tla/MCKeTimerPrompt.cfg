\* No tick falls into a timer operation or its DPC.
SPECIFICATION Spec
CONSTANTS
  t1 = t1
  t2 = t2
  c1 = c1
  Null = Null
  Timer = {t1, t2}
  Client = {c1}
  Intervals <- Long
  DpcTimers = {t1}
  TIMERTABLESIZE = 2
  HALRTCInterval = 2
  TickRange = 64
  MaxTicks = 6
  Prompt = TRUE
INVARIANTS
  Punctual
