---------------------------- MODULE SchedProofs ----------------------------
(***************************************************************************)
(* Proofs about the scheduler for every number of CPUs and threads.        *)
(* SchedInv is inductive; the properties TLC checks follow from it.        *)
(***************************************************************************)
EXTENDS Sched, TLAPS

(* Walking the ring from a thread on it stays on it (RingAt, sched_yield).  *)
LEMMA RingStaysOnQueue ==
  ASSUME SchedTypeOK, NEW c \in CPU, NEW cur \in Thread, Queued(cur, c),
         NEW k \in Nat
  PROVE  RingAt(c, cur, k) \in Thread /\ Queued(RingAt(c, cur, k), c)
<1> DEFINE q == runqueue[c]
           i == CHOOSE j \in 1 .. Len(q) : q[j] = cur
           p == ((i - 1 + k) % Len(q)) + 1
<1>1. q \in Seq(Thread) /\ Len(q) \in Nat
  BY DEF SchedTypeOK
<1>2. i \in 1 .. Len(q)
  BY DEF Queued
<1>3. p \in 1 .. Len(q)
  <2> HIDE DEF i, q
  <2>1. Len(q) \in Nat \ {0} /\ i - 1 + k \in Nat
    BY <1>1, <1>2
  <2>2. (i - 1 + k) % Len(q) \in 0 .. Len(q) - 1
    BY <2>1
  <2> QED
    BY <2>1, <2>2
<1>4. RingAt(c, cur, k) = q[p]
  BY DEF RingAt
<1> HIDE DEF p, q, i
<1>5. q[p] \in Thread
  BY <1>1, <1>3
<1> USE DEF q
<1> QED
  BY <1>3, <1>4, <1>5 DEF Queued

LEMMA IdleFacts ==
  /\ Idle \subseteq Thread
  /\ \A c \in Online : IdleOf[c] \in Idle /\ IdleOf[c] \in Thread
BY SchedAssumption DEF Idle

LEMMA CpuFacts == Online \subseteq CPU /\ CPU \subseteq Int /\ BSP \in Online
BY SchedAssumption DEF CPU

(* sched_init establishes the invariant.                                    *)
LEMMA InitInv == SchedInit => SchedInv
<1> SUFFICES ASSUME SchedInit PROVE SchedInv
  OBVIOUS
<1> USE SchedAssumption, IdleFacts, CpuFacts
<1>1. SchedTypeOK
  <2>1. runqueue \in [CPU -> Seq(Thread)]
    BY DEF SchedInit
  <2>2. 0 \in CPU /\ 0 \in 0 .. MaxTicks
    BY DEF BSP
  <2> QED
    BY <2>1, <2>2 DEF SchedTypeOK, SchedInit, thread_state_t
<1>2. \A c \in CPU : Len(runqueue[c]) = (IF c \in Online THEN 1 ELSE 0)
  BY DEF SchedInit
<1>3. \A c \in Online : runqueue[c][1] = IdleOf[c]
  BY DEF SchedInit
<1>4. \A t \in Thread, c \in CPU :
        Queued(t, c) <=> c \in Online /\ t = IdleOf[c]
  BY <1>2, <1>3 DEF Queued
<1>5. QueuedOnce
  BY <1>2, <1>3 DEF QueuedOnce
<1>6. CurrentQueued
  BY <1>4 DEF CurrentQueued, SchedInit
<1>7. IdleReady
  BY <1>4 DEF IdleReady, SchedInit
<1>8. RunningIsCurrent
  BY DEF RunningIsCurrent, SchedInit, Idle
<1>9. FreedUnused
  BY <1>4 DEF FreedUnused, SchedInit, OnSomeQueue, Idle
<1>10. UnqueuedStates
  BY <1>4 DEF UnqueuedStates, SchedInit, OnSomeQueue, Idle
<1> QED
  BY <1>1, <1>5, <1>6, <1>7, <1>8, <1>9, <1>10 DEF SchedInv

-----------------------------------------------------------------------------
(* Steps that leave the run queues alone leave membership alone.            *)
LEMMA SameQueues ==
  ASSUME runqueue' = runqueue
  PROVE  /\ \A t, c : Queued(t, c)' <=> Queued(t, c)
         /\ \A t : OnSomeQueue(t)' <=> OnSomeQueue(t)
         /\ QueuedOnce' <=> QueuedOnce
BY DEF Queued, OnSomeQueue, QueuedOnce

(* The thread a CPU executes, and every idle thread, is on a queue.         *)
LEMMA OnQueueFacts ==
  ASSUME SchedInv
  PROVE  /\ \A c \in Online : OnSomeQueue(current[c]) /\ OnSomeQueue(executing[c])
         /\ \A t \in Idle : OnSomeQueue(t) /\ t \in Thread
         /\ \A c \in Online : current[c] \in Thread /\ executing[c] \in Thread
BY CpuFacts, IdleFacts
   DEF SchedInv, SchedTypeOK, CurrentQueued, IdleReady, OnSomeQueue, Idle

(* sched_yield keeps the invariant: it dispatches a thread of the same ring *)
(* and makes READY only threads that waited there.                          *)
LEMMA YieldInv ==
  ASSUME SchedInv, NEW c \in Online, NEW now \in 0 .. MaxTicks,
         sched_yield(c, now), ticks' \in 0 .. MaxTicks
  PROVE  SchedInv'
<1> DEFINE cur == current[c]
           woken == Expired(c, now)
           st == [t \in Thread |-> IF t \in woken THEN "READY" ELSE state[t]]
           n == Len(runqueue[c])
<1> USE CpuFacts, IdleFacts, OnQueueFacts
<1>1. /\ runqueue' = runqueue /\ next_cpu' = next_cpu
      /\ executing' = executing /\ dead_threads' = dead_threads
      /\ wakeup_ticks' = [t \in Thread |-> IF t \in woken THEN 0
                                                          ELSE wakeup_ticks[t]]
      /\ intr' = [intr EXCEPT ![cur] = TRUE]
  BY DEF sched_yield
<1>2. \A t \in woken : t \in Thread /\ state[t] \in {"SLEEPING", "BLOCKED"}
  BY DEF Expired
<1>3. cur \in Thread /\ Queued(cur, c) /\ n \in Nat
  BY DEF SchedInv, SchedTypeOK, CurrentQueued
<1>4. PICK next_t \in Thread :
        /\ Queued(next_t, c)
        /\ current' = [current EXCEPT ![c] = next_t]
        /\ \/ /\ Runnable(st, next_t)
              /\ state' = [t \in Thread |->
                             IF t = next_t THEN "RUNNING"
                             ELSE IF t = cur /\ st[t] = "RUNNING"
                                    THEN "READY" ELSE st[t]]
           \/ next_t = cur /\ state' = st
  <2>1. CASE \E k \in 1 .. n - 1 :
               LET x == RingAt(c, cur, k)
               IN  /\ Runnable(st, x)
                   /\ state' = [t \in Thread |->
                                  IF t = x THEN "RUNNING"
                                  ELSE IF t = cur /\ st[t] = "RUNNING"
                                         THEN "READY" ELSE st[t]]
                   /\ current' = [current EXCEPT ![c] = x]
    <3>1. PICK k \in 1 .. n - 1 :
               LET x == RingAt(c, cur, k)
               IN  /\ Runnable(st, x)
                   /\ state' = [t \in Thread |->
                                  IF t = x THEN "RUNNING"
                                  ELSE IF t = cur /\ st[t] = "RUNNING"
                                         THEN "READY" ELSE st[t]]
                   /\ current' = [current EXCEPT ![c] = x]
      BY <2>1
    <3>2. k \in Nat
      BY <1>3
    <3>3. RingAt(c, cur, k) \in Thread /\ Queued(RingAt(c, cur, k), c)
      BY <1>3, <3>2, RingStaysOnQueue DEF SchedInv
    <3> QED
      BY <3>1, <3>3
  <2>2. CASE state' = st /\ current' = current
    <3>1. current' = [current EXCEPT ![c] = cur]
      BY <2>2 DEF SchedInv, SchedTypeOK
    <3> QED
      BY <2>2, <3>1, <1>3
  <2> QED
    BY <2>1, <2>2 DEF sched_yield
<1> HIDE DEF woken, n
<1>5. SchedTypeOK'
  <2>1. \A t \in Thread : st[t] \in thread_state_t \cup {"FREE"}
    BY DEF SchedInv, SchedTypeOK, thread_state_t
  <2>2. state' \in [Thread -> thread_state_t \cup {"FREE"}]
    BY <1>4, <2>1 DEF thread_state_t
  <2>3. wakeup_ticks' \in [Thread -> 0 .. MaxTicks]
    BY <1>1, SchedAssumption DEF SchedInv, SchedTypeOK
  <2>4. current' \in [Online -> Thread]
    BY <1>4 DEF SchedInv, SchedTypeOK
  <2>5. intr' \in [Thread -> BOOLEAN]
    BY <1>1, <1>3 DEF SchedInv, SchedTypeOK
  <2> QED
    BY <1>1, <2>2, <2>3, <2>4, <2>5 DEF SchedInv, SchedTypeOK
<1>6. /\ \A t, d : Queued(t, d)' <=> Queued(t, d)
      /\ \A t : OnSomeQueue(t)' <=> OnSomeQueue(t)
      /\ QueuedOnce'
  BY <1>1, SameQueues DEF SchedInv
<1>7. \A d \in Online : current'[d] = IF d = c THEN next_t ELSE current[d]
  BY <1>4 DEF SchedInv, SchedTypeOK
<1>8. CurrentQueued'
  BY <1>1, <1>4, <1>6, <1>7 DEF SchedInv, CurrentQueued
<1>9. OnSomeQueue(next_t)
  BY <1>4 DEF OnSomeQueue
<1>10. \A t \in Thread :
         /\ state[t] \in {"FREE", "ZOMBIE", "DEAD"} /\ t # next_t
              => state'[t] = state[t]
         /\ state[t] \in {"READY", "RUNNING"} => state'[t] \in {"READY", "RUNNING"}
         /\ state'[t] = "FREE" => state[t] = "FREE"
  BY <1>2, <1>4 DEF SchedInv, SchedTypeOK, Runnable
<1>11. IdleReady'
  <2>1. \A d \in Online : Queued(IdleOf[d], d)' /\ state'[IdleOf[d]] \in {"READY", "RUNNING"}
    BY <1>6, <1>10 DEF SchedInv, IdleReady
  <2> QED
    BY <1>1, <2>1 DEF SchedInv, IdleReady
<1>12. RunningIsCurrent'
  <2> SUFFICES ASSUME NEW t \in Thread, state'[t] = "RUNNING"
               PROVE  \E d \in Online : current'[d] = t
    BY DEF RunningIsCurrent
  <2>1. CASE t = next_t
    BY <2>1, <1>7
  <2>2. CASE t # next_t
    <3>1. t # cur /\ state[t] = "RUNNING"
      BY <2>2, <1>4
    <3> QED
      BY <3>1, <1>7 DEF SchedInv, RunningIsCurrent
  <2> QED
    BY <2>1, <2>2
<1>13. FreedUnused'
  <2> SUFFICES ASSUME NEW t \in Thread, state'[t] = "FREE" \/ t \in dead_threads
               PROVE  /\ ~OnSomeQueue(t)
                      /\ \A d \in Online : t # current'[d] /\ t # executing[d]
    BY <1>1, <1>6 DEF FreedUnused
  <2>1. state[t] = "FREE" \/ t \in dead_threads
    BY <1>10
  <2> QED
    BY <2>1, <1>7, <1>9 DEF SchedInv, FreedUnused
<1>14. UnqueuedStates'
  <2>1. \A t \in Thread : ~OnSomeQueue(t) =>
          state'[t] \in {"FREE", "READY", "ZOMBIE", "DEAD"}
    <3> SUFFICES ASSUME NEW t \in Thread, ~OnSomeQueue(t)
                 PROVE  state'[t] \in {"FREE", "READY", "ZOMBIE", "DEAD"}
      OBVIOUS
    <3>1. t # next_t /\ t # cur
      BY <1>9
    <3>2. state[t] \in {"FREE", "READY", "ZOMBIE", "DEAD"}
      BY DEF SchedInv, UnqueuedStates
    <3> QED
      BY <3>1, <3>2, <1>2, <1>4
  <2>2. \A t \in dead_threads : t # next_t /\ t \in Thread
                                /\ state[t] \in {"ZOMBIE", "DEAD"}
    BY <1>9 DEF SchedInv, UnqueuedStates, FreedUnused, SchedTypeOK
  <2> QED
    BY <2>1, <2>2, <1>1, <1>6, <1>10 DEF UnqueuedStates
<1> QED
  BY <1>5, <1>6, <1>8, <1>11, <1>12, <1>13, <1>14 DEF SchedInv

-----------------------------------------------------------------------------
(* Steps that store to the state of one thread that stays on its queue, and *)
(* perhaps to its timeout and to an interrupt flag: a new thread, an own    *)
(* store, a wake, a termination.                                            *)
LEMMA StateStoreInv ==
  ASSUME SchedInv, NEW t \in Thread, NEW s \in thread_state_t,
         state' = [state EXCEPT ![t] = s],
         UNCHANGED <<runqueue, next_cpu, current, executing, ticks, dead_threads>>,
         wakeup_ticks' \in [Thread -> 0 .. MaxTicks],
         intr' \in [Thread -> BOOLEAN],
         t \in Idle => s \in {"READY", "RUNNING"},
         s = "RUNNING" => \E c \in Online : current[c] = t,
         t \notin dead_threads,
         OnSomeQueue(t) \/ s = "READY"
  PROVE  SchedInv'
<1> USE CpuFacts, IdleFacts
<1>1. \A u \in Thread : state'[u] = IF u = t THEN s ELSE state[u]
  BY DEF SchedInv, SchedTypeOK
<1>2. SchedTypeOK'
  <2>1. state' \in [Thread -> thread_state_t \cup {"FREE"}]
    BY DEF SchedInv, SchedTypeOK
  <2> QED
    BY <2>1 DEF SchedInv, SchedTypeOK
<1>3. /\ \A u, d : Queued(u, d)' <=> Queued(u, d)
      /\ \A u : OnSomeQueue(u)' <=> OnSomeQueue(u)
      /\ QueuedOnce'
  BY SameQueues DEF SchedInv
<1>4. CurrentQueued'
  BY <1>3 DEF SchedInv, CurrentQueued
<1>5. IdleReady'
  BY <1>1, <1>3 DEF SchedInv, IdleReady
<1>6. RunningIsCurrent'
  BY <1>1 DEF SchedInv, RunningIsCurrent
<1>7. FreedUnused'
  BY <1>1, <1>3 DEF SchedInv, FreedUnused, thread_state_t
<1>8. UnqueuedStates'
  BY <1>1, <1>3 DEF SchedInv, UnqueuedStates, SchedTypeOK
<1> QED
  BY <1>2, <1>3, <1>4, <1>5, <1>6, <1>7, <1>8 DEF SchedInv

(* sched_create_kernel_thread.                                              *)
LEMMA CreateInv ==
  ASSUME SchedInv, NEW c \in Online, NEW t \in Thread,
         sched_create_kernel_thread(c, t)
  PROVE  SchedInv'
<1>1. t \notin Idle
  BY IdleFacts DEF SchedInv, IdleReady, Idle, sched_create_kernel_thread
<1>2. t \notin dead_threads
  BY DEF SchedInv, UnqueuedStates, sched_create_kernel_thread
<1>3. /\ wakeup_ticks' \in [Thread -> 0 .. MaxTicks]
      /\ intr' \in [Thread -> BOOLEAN]
  BY SchedAssumption DEF SchedInv, SchedTypeOK, sched_create_kernel_thread
<1>4. "READY" \in thread_state_t
  BY DEF thread_state_t
<1> QED
  BY <1>1, <1>2, <1>3, <1>4, StateStoreInv DEF sched_create_kernel_thread

(* The current thread's stores to its own state.                            *)
LEMMA StoreOwnStateInv ==
  ASSUME SchedInv, NEW c \in Online, NEW s \in OwnStates,
         NEW d \in 0 .. MaxTicks, StoreOwnState(c, s, d)
  PROVE  SchedInv'
<1> DEFINE t == current[c]
<1>1. t \in Thread /\ OnSomeQueue(t)
  BY OnQueueFacts
<1>2. t \notin dead_threads
  BY <1>1 DEF SchedInv, FreedUnused
<1>3. /\ wakeup_ticks' \in [Thread -> 0 .. MaxTicks]
      /\ intr' \in [Thread -> BOOLEAN]
  BY <1>1 DEF SchedInv, SchedTypeOK, StoreOwnState
<1>4. s \in thread_state_t
  BY DEF OwnStates, thread_state_t
<1> QED
  BY <1>1, <1>2, <1>3, <1>4, StateStoreInv DEF StoreOwnState, SetState

(* The wake by an exiting child.                                            *)
LEMMA WakeThreadInv ==
  ASSUME SchedInv, NEW c \in Online, NEW t \in Thread, WakeThread(c, t)
  PROVE  SchedInv'
<1>1. t \notin dead_threads
  BY DEF SchedInv, UnqueuedStates, WakeThread
<1>2. /\ wakeup_ticks' \in [Thread -> 0 .. MaxTicks]
      /\ intr' \in [Thread -> BOOLEAN]
  BY DEF SchedInv, SchedTypeOK, WakeThread
<1>3. "READY" \in thread_state_t
  BY DEF thread_state_t
<1> QED
  BY <1>1, <1>2, <1>3, StateStoreInv DEF WakeThread, SetState

(* Wakes by wait queues and futexes: BLOCKED threads are on a queue, and    *)
(* none is idle.                                                            *)
LEMMA WakeThreadsInv ==
  ASSUME SchedInv, NEW c \in Online, NEW S \in SUBSET Thread, WakeThreads(c, S)
  PROVE  SchedInv'
<1> USE CpuFacts, IdleFacts
<1>1. \A u \in Thread : state'[u] = IF u \in S THEN "READY" ELSE state[u]
  BY DEF WakeThreads
<1>2. SchedTypeOK'
  <2>1. state' \in [Thread -> thread_state_t \cup {"FREE"}]
    BY <1>1 DEF SchedInv, SchedTypeOK, WakeThreads, thread_state_t
  <2>2. wakeup_ticks' \in [Thread -> 0 .. MaxTicks]
    BY SchedAssumption DEF SchedInv, SchedTypeOK, WakeThreads
  <2> QED
    BY <2>1, <2>2 DEF SchedInv, SchedTypeOK, WakeThreads
<1>3. /\ \A u, d : Queued(u, d)' <=> Queued(u, d)
      /\ \A u : OnSomeQueue(u)' <=> OnSomeQueue(u)
      /\ QueuedOnce'
  BY SameQueues DEF SchedInv, WakeThreads
<1>4. CurrentQueued'
  BY <1>3 DEF SchedInv, CurrentQueued, WakeThreads
<1>5. IdleReady'
  BY <1>1, <1>3 DEF SchedInv, IdleReady, WakeThreads
<1>6. RunningIsCurrent'
  BY <1>1 DEF SchedInv, RunningIsCurrent, WakeThreads
<1>7. FreedUnused'
  BY <1>1, <1>3 DEF SchedInv, FreedUnused, WakeThreads
<1>8. UnqueuedStates'
  BY <1>1, <1>3 DEF SchedInv, UnqueuedStates, SchedTypeOK, WakeThreads
<1> QED
  BY <1>2, <1>3, <1>4, <1>5, <1>6, <1>7, <1>8 DEF SchedInv

(* sched_terminate_thread.                                                  *)
LEMMA TerminateInv ==
  ASSUME SchedInv, NEW c \in Online, NEW t \in Thread,
         sched_terminate_thread(c, t)
  PROVE  SchedInv'
<1>1. t \notin dead_threads
  BY DEF SchedInv, FreedUnused, sched_terminate_thread
<1>2. /\ wakeup_ticks' \in [Thread -> 0 .. MaxTicks]
      /\ intr' \in [Thread -> BOOLEAN]
  BY OnQueueFacts DEF SchedInv, SchedTypeOK, sched_terminate_thread
<1>3. "DEAD" \in thread_state_t
  BY DEF thread_state_t
<1> QED
  BY <1>1, <1>2, <1>3, StateStoreInv DEF sched_terminate_thread, SetState

-----------------------------------------------------------------------------
(* Steps that leave the states and queues alone.                            *)
LEMMA FrameInv ==
  ASSUME SchedInv, UNCHANGED <<state, wakeup_ticks, runqueue, next_cpu, current,
                               ticks, dead_threads>>,
         executing' \in [Online -> Thread],
         \A c \in Online : executing'[c] \in {executing[c], current[c]},
         intr' \in [Thread -> BOOLEAN]
  PROVE  SchedInv'
<1>1. SchedTypeOK'
  BY DEF SchedInv, SchedTypeOK
<1>2. /\ \A u, d : Queued(u, d)' <=> Queued(u, d)
      /\ \A u : OnSomeQueue(u)' <=> OnSomeQueue(u)
      /\ QueuedOnce'
  BY SameQueues DEF SchedInv
<1>3. CurrentQueued'
  BY <1>2 DEF SchedInv, CurrentQueued
<1>4. IdleReady' /\ RunningIsCurrent' /\ UnqueuedStates'
  BY <1>2 DEF SchedInv, IdleReady, RunningIsCurrent, UnqueuedStates
<1>5. FreedUnused'
  BY <1>2 DEF SchedInv, FreedUnused
<1> QED
  BY <1>1, <1>2, <1>3, <1>4, <1>5 DEF SchedInv

(* switch_context and the entry to and return from a syscall.               *)
LEMMA SwitchAndIntrInv ==
  ASSUME SchedInv, NEW c \in Online,
         switch_context(c) \/ \E on \in BOOLEAN : SetIntr(c, on)
  PROVE  SchedInv'
<1>1. CASE switch_context(c)
  BY <1>1, FrameInv DEF switch_context, SchedInv, SchedTypeOK
<1>2. CASE \E on \in BOOLEAN : SetIntr(c, on)
  BY <1>2, FrameInv, OnQueueFacts DEF SetIntr, SchedInv, SchedTypeOK
<1> QED
  BY <1>1, <1>2

-----------------------------------------------------------------------------
(* sched_enqueue_thread: the new entry is at the tail of one queue only.    *)
LEMMA EnqueueInv ==
  ASSUME SchedInv, NEW c \in Online, NEW t \in Thread, NEW want \in 0 .. NCPU,
         sched_enqueue_thread(c, t, want)
  PROVE  SchedInv'
<1> DEFINE e == TargetCpu(want)
<1> USE CpuFacts, IdleFacts
<1>1. e \in Online
  BY DEF TargetCpu
<1> HIDE DEF e
<1>2. /\ runqueue' = [runqueue EXCEPT ![e] = Append(@, t)]
      /\ UNCHANGED <<state, wakeup_ticks, current, executing, ticks, dead_threads>>
      /\ state[t] = "READY" /\ ~OnSomeQueue(t)
  BY DEF sched_enqueue_thread, e
<1>3. runqueue \in [CPU -> Seq(Thread)]
  BY DEF SchedInv, SchedTypeOK
<1>4. \A d \in CPU : d # e => runqueue'[d] = runqueue[d]
  BY <1>2, <1>3
<1>5. /\ runqueue[e] \in Seq(Thread) /\ runqueue'[e] = Append(runqueue[e], t)
      /\ Len(runqueue[e]) \in Nat
      /\ Len(runqueue'[e]) = Len(runqueue[e]) + 1
      /\ \A i \in 1 .. Len(runqueue[e]) : runqueue'[e][i] = runqueue[e][i]
      /\ runqueue'[e][Len(runqueue[e]) + 1] = t
  BY <1>1, <1>2, <1>3
<1>6. \A u, d : d \in CPU => (Queued(u, d)' <=> Queued(u, d) \/ (u = t /\ d = e))
  <2> SUFFICES ASSUME NEW u, NEW d \in CPU
               PROVE  Queued(u, d)' <=> Queued(u, d) \/ (u = t /\ d = e)
    OBVIOUS
  <2>1. CASE d # e
    BY <2>1, <1>4 DEF Queued
  <2>2. CASE d = e
    BY <2>2, <1>5 DEF Queued
  <2> QED
    BY <2>1, <2>2
<1>7. \A u : OnSomeQueue(u)' <=> OnSomeQueue(u) \/ u = t
  BY <1>1, <1>6 DEF OnSomeQueue
<1>8. SchedTypeOK'
  <2>1. runqueue' \in [CPU -> Seq(Thread)]
    BY <1>1, <1>2, <1>3
  <2>2. next_cpu' \in CPU
    <3>1. next_cpu \in CPU
      BY DEF SchedInv, SchedTypeOK
    <3>2. (next_cpu + 1) % NCPU \in 0 .. NCPU - 1
      BY <3>1, SchedAssumption
    <3> QED
      BY <3>1, <3>2 DEF sched_enqueue_thread, CPU
  <2>3. intr' \in [Thread -> BOOLEAN]
    BY OnQueueFacts DEF SchedInv, SchedTypeOK, sched_enqueue_thread
  <2> QED
    BY <1>2, <2>1, <2>2, <2>3 DEF SchedInv, SchedTypeOK
<1>9. QueuedOnce'
  <2> SUFFICES ASSUME NEW a \in CPU, NEW b \in CPU,
                      NEW i \in 1 .. Len(runqueue'[a]),
                      NEW j \in 1 .. Len(runqueue'[b]),
                      runqueue'[a][i] = runqueue'[b][j]
               PROVE  a = b /\ i = j
    BY DEF QueuedOnce
  <2>1. \A d \in CPU : \A k \in 1 .. Len(runqueue'[d]) :
          \/ k \in 1 .. Len(runqueue[d]) /\ runqueue'[d][k] = runqueue[d][k]
          \/ d = e /\ k = Len(runqueue[e]) + 1 /\ runqueue'[d][k] = t
    <3> SUFFICES ASSUME NEW d \in CPU, NEW k \in 1 .. Len(runqueue'[d])
                 PROVE  \/ /\ k \in 1 .. Len(runqueue[d])
                           /\ runqueue'[d][k] = runqueue[d][k]
                        \/ /\ d = e /\ k = Len(runqueue[e]) + 1
                           /\ runqueue'[d][k] = t
      OBVIOUS
    <3>1. CASE d # e
      BY <3>1, <1>4
    <3>2. CASE d = e
      BY <3>2, <1>5
    <3> QED
      BY <3>1, <3>2
  <2>2. \A d \in CPU : \A k \in 1 .. Len(runqueue[d]) : runqueue[d][k] # t
    BY <1>2 DEF OnSomeQueue, Queued
  <2>3. QueuedOnce
    BY DEF SchedInv
  <2>4. CASE i \in 1 .. Len(runqueue[a]) /\ runqueue'[a][i] = runqueue[a][i]
    <3>1. j \in 1 .. Len(runqueue[b]) /\ runqueue'[b][j] = runqueue[b][j]
      BY <2>1, <2>2, <2>4
    <3> QED
      BY <3>1, <2>3, <2>4 DEF QueuedOnce
  <2>5. CASE a = e /\ i = Len(runqueue[e]) + 1 /\ runqueue'[a][i] = t
    BY <2>1, <2>2, <2>5
  <2> QED
    BY <2>1, <2>4, <2>5
<1>10. CurrentQueued'
  BY <1>2, <1>6 DEF SchedInv, CurrentQueued
<1>11. IdleReady'
  BY <1>1, <1>2, <1>4, <1>6 DEF SchedInv, IdleReady
<1>12. RunningIsCurrent'
  BY <1>2 DEF SchedInv, RunningIsCurrent
<1>13. FreedUnused'
  <2>1. t \notin dead_threads
    BY <1>2 DEF SchedInv, UnqueuedStates
  <2> QED
    BY <2>1, <1>2, <1>7 DEF SchedInv, FreedUnused
<1>14. UnqueuedStates'
  BY <1>2, <1>7 DEF SchedInv, UnqueuedStates
<1> QED
  BY <1>8, <1>9, <1>10, <1>11, <1>12, <1>13, <1>14 DEF SchedInv

(* remove_from_runqueue: exactly one entry goes, and it is neither current  *)
(* on, nor executed by, any CPU.                                            *)
LEMMA RemoveInv ==
  ASSUME SchedInv, NEW c \in Online, NEW t \in Thread, remove_from_runqueue(c, t)
  PROVE  SchedInv'
<1> USE CpuFacts, IdleFacts
<1> DEFINE q == runqueue[c]
<1>1. PICK i \in 1 .. Len(q) : /\ q[i] = t
                               /\ runqueue' = [runqueue EXCEPT ![c] = WithoutEntry(@, i)]
  BY DEF remove_from_runqueue
<1>2. /\ UNCHANGED <<state, wakeup_ticks, next_cpu, current, executing, ticks,
                     dead_threads>>
      /\ executing[c] = current[c] /\ t # current[c] /\ t \notin Idle
      /\ state[t] \in {"ZOMBIE", "DEAD"}
  BY DEF remove_from_runqueue, Runs
<1>3. runqueue \in [CPU -> Seq(Thread)] /\ q \in Seq(Thread) /\ Len(q) \in Nat
  BY DEF SchedInv, SchedTypeOK
<1>4. \A d \in CPU : d # c => runqueue'[d] = runqueue[d]
  BY <1>1, <1>3
<1>5. /\ runqueue'[c] = [j \in 1 .. Len(q) - 1 |-> IF j < i THEN q[j] ELSE q[j + 1]]
      /\ runqueue'[c] \in Seq(Thread)
      /\ Len(runqueue'[c]) = Len(q) - 1
  <2> DEFINE r == [j \in 1 .. Len(q) - 1 |-> IF j < i THEN q[j] ELSE q[j + 1]]
  <2>1. runqueue'[c] = r
    BY <1>1, <1>3 DEF WithoutEntry
  <2>2. Len(q) - 1 \in Nat /\ \A j \in 1 .. Len(q) - 1 : r[j] \in Thread
    BY <1>3
  <2>3. r \in Seq(Thread) /\ Len(r) = Len(q) - 1
    <3> HIDE DEF q
    <3> QED
      BY <2>2
  <2> QED
    BY <2>1, <2>3
<1> HIDE DEF q
<1>6. QueuedOnce /\ c \in CPU
  BY DEF SchedInv
<1>7. \A j \in 1 .. Len(q) : q[j] = t => j = i
  BY <1>1, <1>6 DEF QueuedOnce, q
<1>8. \A d \in CPU : d # c => ~Queued(t, d)
  BY <1>1, <1>6 DEF QueuedOnce, Queued, q
<1>9. \A u : Queued(u, c)' <=> Queued(u, c) /\ u # t
  <2> SUFFICES ASSUME NEW u PROVE Queued(u, c)' <=> Queued(u, c) /\ u # t
    OBVIOUS
  <2>1. ASSUME Queued(u, c)' PROVE Queued(u, c) /\ u # t
    <3>1. PICK j \in 1 .. Len(q) - 1 : runqueue'[c][j] = u
      BY <2>1, <1>5 DEF Queued
    <3>2. CASE j < i
      BY <3>1, <3>2, <1>5, <1>7, <1>3 DEF Queued, q
    <3>3. CASE ~(j < i)
      <4>1. u = q[j + 1] /\ j + 1 \in 1 .. Len(q) /\ j + 1 # i
        BY <3>1, <3>3, <1>5, <1>3
      <4> QED
        BY <4>1, <1>7 DEF Queued, q
    <3> QED
      BY <3>2, <3>3
  <2>2. ASSUME Queued(u, c), u # t PROVE Queued(u, c)'
    <3>1. PICK j \in 1 .. Len(q) : q[j] = u
      BY <2>2 DEF Queued, q
    <3>2. j # i
      BY <3>1, <2>2, <1>1
    <3>3. CASE j < i
      <4>1. j \in 1 .. Len(q) - 1 /\ runqueue'[c][j] = u
        BY <3>1, <3>3, <1>5, <1>3
      <4> QED
        BY <4>1, <1>5 DEF Queued
    <3>4. CASE i < j
      <4>1. j - 1 \in 1 .. Len(q) - 1 /\ runqueue'[c][j - 1] = u
        BY <3>1, <3>4, <1>5, <1>3
      <4> QED
        BY <4>1, <1>5 DEF Queued
    <3> QED
      BY <3>2, <3>3, <3>4, <1>3
  <2> QED
    BY <2>1, <2>2
<1>10. \A u, d : d \in CPU => (Queued(u, d)' <=> Queued(u, d) /\ u # t)
  <2> SUFFICES ASSUME NEW u, NEW d \in CPU, d # c
               PROVE  Queued(u, d)' <=> Queued(u, d) /\ u # t
    BY <1>9
  <2> QED
    BY <1>4, <1>8 DEF Queued
<1>11. \A u : OnSomeQueue(u)' <=> OnSomeQueue(u) /\ u # t
  BY <1>10 DEF OnSomeQueue
<1>12. SchedTypeOK'
  <2>1. runqueue' \in [CPU -> Seq(Thread)]
    <3>1. runqueue' = [runqueue EXCEPT ![c] = runqueue'[c]]
      BY <1>1, <1>3
    <3> QED
      BY <3>1, <1>3, <1>5
  <2>2. intr' \in [Thread -> BOOLEAN]
    BY OnQueueFacts DEF SchedInv, SchedTypeOK, remove_from_runqueue
  <2> QED
    BY <1>2, <2>1, <2>2 DEF SchedInv, SchedTypeOK
<1>13. QueuedOnce'
  <2> SUFFICES ASSUME NEW a \in CPU, NEW b \in CPU,
                      NEW k \in 1 .. Len(runqueue'[a]),
                      NEW l \in 1 .. Len(runqueue'[b]),
                      runqueue'[a][k] = runqueue'[b][l]
               PROVE  a = b /\ k = l
    BY DEF QueuedOnce
  <2> DEFINE old(d, m) == IF d = c /\ ~(m < i) THEN m + 1 ELSE m
  <2>1. \A d \in CPU : \A m \in 1 .. Len(runqueue'[d]) :
          /\ old(d, m) \in 1 .. Len(runqueue[d])
          /\ runqueue'[d][m] = runqueue[d][old(d, m)]
    <3> SUFFICES ASSUME NEW d \in CPU, NEW m \in 1 .. Len(runqueue'[d])
                 PROVE  /\ old(d, m) \in 1 .. Len(runqueue[d])
                        /\ runqueue'[d][m] = runqueue[d][old(d, m)]
      OBVIOUS
    <3>1. CASE d # c
      BY <3>1, <1>4
    <3>2. CASE d = c
      <4>0. runqueue[d] = q
        BY <3>2 DEF q
      <4>1. m \in 1 .. Len(q) - 1 /\ Len(q) \in Nat
        BY <3>2, <1>5, <1>3
      <4>2. runqueue'[d][m] = IF m < i THEN q[m] ELSE q[m + 1]
        BY <3>2, <4>1, <1>5
      <4>3. CASE m < i
        <5>1. old(d, m) = m
          BY <4>3
        <5> QED
          BY <4>0, <4>1, <4>2, <4>3, <5>1
      <4>4. CASE ~(m < i)
        <5>1. old(d, m) = m + 1
          BY <4>4, <3>2
        <5> QED
          BY <4>0, <4>1, <4>2, <4>4, <5>1
      <4> QED
        BY <4>3, <4>4
    <3> QED
      BY <3>1, <3>2
  <2>2. a = b /\ old(a, k) = old(b, l)
    <3> HIDE DEF old
    <3>1. /\ old(a, k) \in 1 .. Len(runqueue[a])
          /\ old(b, l) \in 1 .. Len(runqueue[b])
      BY <2>1
    <3>2. runqueue[a][old(a, k)] = runqueue[b][old(b, l)]
      <4>1. runqueue'[a][k] = runqueue[a][old(a, k)]
        BY <2>1
      <4>2. runqueue'[b][l] = runqueue[b][old(b, l)]
        BY <2>1
      <4> QED
        BY <4>1, <4>2
    <3> QED
      BY <3>1, <3>2, <1>6 DEF QueuedOnce
  <2>3. k \in Int /\ l \in Int
    BY <1>3, <1>4, <1>5
  <2> QED
    BY <2>2, <2>3
<1>14. \A d \in Online : current[d] # t /\ executing[d] # t
  <2> SUFFICES ASSUME NEW d \in Online PROVE current[d] # t /\ executing[d] # t
    OBVIOUS
  <2>1. CASE d = c
    BY <2>1, <1>2
  <2>2. CASE d # c
    BY <2>2, <1>8 DEF SchedInv, CurrentQueued
  <2> QED
    BY <2>1, <2>2
<1>15. CurrentQueued'
  BY <1>2, <1>10, <1>14 DEF SchedInv, CurrentQueued
<1>16. IdleReady'
  BY <1>2, <1>4, <1>10 DEF SchedInv, IdleReady
<1>17. RunningIsCurrent'
  BY <1>2 DEF SchedInv, RunningIsCurrent
<1>18. FreedUnused'
  BY <1>2, <1>11 DEF SchedInv, FreedUnused
<1>19. UnqueuedStates'
  BY <1>2, <1>11 DEF SchedInv, UnqueuedStates
<1> QED
  BY <1>12, <1>13, <1>15, <1>16, <1>17, <1>18, <1>19 DEF SchedInv

(* The deferred free of sched_reap_thread.                                  *)
LEMMA FreeInv ==
  ASSUME SchedInv, NEW c \in Online,
         FreeDeadThreads(c) \/ \E t \in Thread : DeferFree(c, t)
  PROVE  SchedInv'
<1> USE CpuFacts, IdleFacts, OnQueueFacts
<1>1. runqueue' = runqueue /\ current' = current /\ executing' = executing
  BY DEF FreeDeadThreads, DeferFree
<1>2. /\ \A u, d : Queued(u, d)' <=> Queued(u, d)
      /\ \A u : OnSomeQueue(u)' <=> OnSomeQueue(u)
      /\ QueuedOnce' /\ CurrentQueued'
  BY <1>1, SameQueues DEF SchedInv, CurrentQueued
<1>3. CASE FreeDeadThreads(c)
  <2>1. \A t \in Thread : state'[t] = IF t \in dead_threads THEN "FREE" ELSE state[t]
    BY <1>3 DEF FreeDeadThreads
  <2>2. SchedTypeOK'
    BY <1>3 DEF FreeDeadThreads, SchedInv, SchedTypeOK
  <2>3. \A t \in Idle : t \notin dead_threads
    BY DEF SchedInv, FreedUnused
  <2>4. IdleReady' /\ RunningIsCurrent'
    BY <1>1, <1>2, <2>1, <2>3 DEF SchedInv, IdleReady, RunningIsCurrent
  <2>5. dead_threads' = {}
    BY <1>3 DEF FreeDeadThreads
  <2>6. FreedUnused' /\ UnqueuedStates'
    BY <1>1, <1>2, <2>1, <2>5 DEF SchedInv, FreedUnused, UnqueuedStates
  <2> QED
    BY <1>2, <2>2, <2>4, <2>6 DEF SchedInv
<1>4. ASSUME NEW t \in Thread, DeferFree(c, t) PROVE SchedInv'
  <2>1. /\ dead_threads' = dead_threads \cup {t} /\ ~OnSomeQueue(t)
        /\ state' = state /\ state[t] \in {"ZOMBIE", "DEAD"}
    BY <1>4 DEF DeferFree
  <2>2. SchedTypeOK'
    BY <1>4 DEF DeferFree, SchedInv, SchedTypeOK
  <2>3. IdleReady' /\ RunningIsCurrent'
    BY <1>1, <1>2, <2>1 DEF SchedInv, IdleReady, RunningIsCurrent
  <2>4. FreedUnused' /\ UnqueuedStates'
    BY <1>1, <1>2, <2>1 DEF SchedInv, FreedUnused, UnqueuedStates
  <2> QED
    BY <1>2, <2>2, <2>3, <2>4 DEF SchedInv
<1> QED
  BY <1>3, <1>4

-----------------------------------------------------------------------------
(* Every step of the scheduler keeps the invariant.                         *)
LEMMA NextInv == SchedInv /\ [SchedNext]_schedVars => SchedInv'
<1> SUFFICES ASSUME SchedInv, [SchedNext]_schedVars PROVE SchedInv'
  OBVIOUS
<1>1. CASE UNCHANGED schedVars
  BY <1>1, FrameInv DEF schedVars, SchedInv, SchedTypeOK
<1>2. CASE SchedNext
  <2>1. PICK c \in Online :
          \/ lapic_timer_handler(c) \/ Yield(c) \/ switch_context(c)
          \/ \E on \in BOOLEAN : SetIntr(c, on)
          \/ \E s \in OwnStates, d \in 0 .. MaxTicks : StoreOwnState(c, s, d)
          \/ FreeDeadThreads(c)
          \/ \E S \in SUBSET Thread : WakeThreads(c, S)
          \/ \E t \in Thread :
               \/ sched_create_kernel_thread(c, t)
               \/ \E want \in 0 .. NCPU : sched_enqueue_thread(c, t, want)
               \/ WakeThread(c, t)
               \/ sched_terminate_thread(c, t)
               \/ remove_from_runqueue(c, t)
               \/ DeferFree(c, t)
    BY <1>2 DEF SchedNext
  <2>2. ticks \in 0 .. MaxTicks
    BY DEF SchedInv, SchedTypeOK
  <2>3. CASE lapic_timer_handler(c)
    <3>1. ticks' \in 0 .. MaxTicks
      BY <2>2, <2>3, SchedAssumption DEF lapic_timer_handler
    <3> QED
      BY <2>3, <3>1, YieldInv DEF lapic_timer_handler
  <2>4. CASE Yield(c)
    BY <2>4, <2>2, YieldInv DEF Yield
  <2> QED
    BY <2>1, <2>3, <2>4, SwitchAndIntrInv, StoreOwnStateInv, FreeInv, CreateInv,
       EnqueueInv, WakeThreadInv, WakeThreadsInv, TerminateInv, RemoveInv
<1> QED
  BY <1>1, <1>2

(* The inductive invariant holds of every behaviour.                        *)
THEOREM SchedSafety == SchedSpec => []SchedInv
BY InitInv, NextInv, PTL DEF SchedSpec

(* Types are correct in every behaviour of the scheduler.                   *)
THEOREM SchedTypes == SchedSpec => []SchedTypeOK
<1>1. SchedInv => SchedTypeOK
  BY DEF SchedInv
<1> QED
  BY <1>1, SchedSafety, PTL

(* No struct thread is ever linked twice, on any number of CPUs.            *)
THEOREM SchedQueuedOnce == SchedSpec => []QueuedOnce
<1>1. SchedInv => QueuedOnce
  BY DEF SchedInv
<1> QED
  BY <1>1, SchedSafety, PTL

(* No freed or soon to be freed struct thread is on a ring or a CPU's       *)
(* stack: the deferred free is safe.                                        *)
THEOREM SchedFreedUnused == SchedSpec => []FreedUnused
<1>1. SchedInv => FreedUnused
  BY DEF SchedInv
<1> QED
  BY <1>1, SchedSafety, PTL

(* No thread runs on two CPUs, not even during a context switch.  It is not *)
(* inductive: it follows from the disjointness of the rings.                *)
THEOREM SchedOneCpuPerThread == SchedSpec => []OneCpuPerThread
<1>1. SchedInv => OneCpuPerThread
  BY CpuFacts DEF SchedInv, CurrentQueued, QueuedOnce, Queued, OneCpuPerThread
<1> QED
  BY <1>1, SchedSafety, PTL
=============================================================================
