CONSTANTS
  NCPU = 1
  Online = {0}
  Thread <- MCThread
  IdleOf <- MCIdleOf
  MaxTicks = 0
  InitThread = sh
  WaitTargets <- MCWaitTargets
  Signals = FALSE
  OomKill = FALSE
  NULL = NULL
  idle0 = idle0
  idle1 = idle1
  sh = sh
  a = a
  b = b
SPECIFICATION ProcFairSpec
PROPERTY Wait4Returns
