\* Three threads of which one holds the lock up to twice.
SPECIFICATION FairSpec
CONSTANTS
  None = None
  a = a
  b = b
  c = c
  Thread = {a, b, c}
  Mortal = {c}
  MaxDepth <- MCMaxDepth
  FirstSize = 1
  MoreSlots = 1
  Calls <- MCCalls
INVARIANTS
  CountsAddUp
  SlotsExact
PROPERTIES
  ImplementsReadersWriter
  Served
