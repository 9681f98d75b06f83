SPECIFICATION Spec
CONSTANTS
  idle = idle
  t1 = t1
  t2 = t2
  t3 = t3
  p1 = p1
  NoThread = NoThread
  SwapWorker = NoThread
  Thread <- MCThreads2
  Process = {p1}
  IdleThread = idle
  PRIORITY_HIGHUSER = 2
  PRIORITY_HIGHREALTIME = 3
  BaseQuantum = 1
  ByteRange = 3
  KEBOOSTINITIAL = 1
  ThreadProcess <- MCProcess
  InitialBase <- MCBase
  FirstThreads <- MCFirst
  Boosts = {0, 1}
  WaitKinds <- MCKinds
  Calls = {"wake", "boost", "base", "starved"}
  BaseTargets = {2, 3}
  SetTargets = {3}
INVARIANTS
  TypeOK
  ThreadsInPlace
  BestThreadSelected
  SwitchPending
  IdleAlwaysReady
  WaitListExact
  DecayStopsAtBase
PROPERTY BoostsStayTimeSharing
