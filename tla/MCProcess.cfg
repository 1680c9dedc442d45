CONSTANTS
  NCPU = 2
  Online <- MCTwoOnline
  Thread <- MCTwoThread
  IdleOf <- MCTwoIdleOf
  MaxTicks = 0
  InitThread = sh
  WaitTargets <- MCWaitTargets
  Signals = TRUE
  OomKill = TRUE
  NULL = NULL
  idle0 = idle0
  idle1 = idle1
  sh = sh
  a = a
  b = b
SPECIFICATION ProcSpec
INVARIANT ProcTypeOK
INVARIANT SiblingLists
INVARIANT OneReaper
INVARIANT ParentAlive
INVARIANT ReapDoesNotSpin
INVARIANT SchedContract
PROPERTY ExitIsFinal
PROPERTY SchedSpec
