CONSTANTS
  NCPU = 1
  Online = {0}
  Thread <- MCThread
  IdleOf <- MCIdleOf
  MaxTicks = 1
  Worker = {a, b, c}
  Home <- MCHome
  Addr = {x, y}
  Val = {0, 1, 2}
  BucketOf <- MCBucketOf
  NoTimeout = NoTimeout
  Calls <- MCCalls
  Parents = {a}
  Locks <- MCLocks
  Id <- MCId
  Iterations <- MCIterations
  SecondEvery = 2
  YieldEvery = 2
  Killable = {a}
  idle0 = idle0
  a = a
  b = b
  c = c
  x = x
  y = y
SPECIFICATION Spec
INVARIANTS FutexTypeOK SleepersLinked WaitersOnStack MutualExclusion
PROPERTIES SchedSteps WakeOverlooksNobody TimedWaitEnds MutexEnds
