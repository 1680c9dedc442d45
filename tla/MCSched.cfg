CONSTANTS
  NCPU = 3
  Online <- MCOnline
  Thread <- MCThread
  IdleOf <- MCIdleOf
  MaxTicks = 2
  idle0 = idle0
  idle1 = idle1
  t1 = t1
  t2 = t2
SPECIFICATION SchedSpec
SYMMETRY Sym
INVARIANT SchedTypeOK
INVARIANT QueuedOnce
INVARIANT CurrentQueued
INVARIANT IdleReady
INVARIANT RunningIsCurrent
INVARIANT OneCpuPerThread
INVARIANT FreedUnused
