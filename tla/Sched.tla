------------------------------- MODULE Sched -------------------------------
(***************************************************************************)
(* The SMP thread scheduler of AscentOS: kernel/src/sched/sched.c, with    *)
(* the timer interrupt that drives it (apic/lapic_timer.c).  Every CPU has *)
(* a circular run queue of ALL the threads that live on it, whatever their *)
(* state; sched_yield walks the ring from the current thread.  A thread    *)
(* never migrates.                                                         *)
(*                                                                         *)
(* What a thread does between two scheduler calls is left open here: it    *)
(* may store to its own state field, wake others, enter the kernel, exit.  *)
(* Process and Futex fix that and implement this specification.            *)
(***************************************************************************)
EXTENDS Integers, Sequences

CONSTANTS NCPU,      \* cpu_get_count()
          Online,    \* CPUs whose status is not CPU_STATUS_OFFLINE
          Thread,    \* addresses a struct thread may live at
          IdleOf,    \* idle thread of each online CPU
          MaxTicks   \* the clock saturates here

CPU == 0 .. NCPU - 1
BSP == 0

ASSUME SchedAssumption ==
  /\ NCPU \in Nat \ {0}
  /\ Online \subseteq CPU /\ BSP \in Online
  /\ IdleOf \in [Online -> Thread]
  /\ \A c, d \in Online : IdleOf[c] = IdleOf[d] => c = d
  /\ MaxTicks \in Nat

VARIABLES
  state,         \* thread->state, or "FREE" when no struct thread is there
  wakeup_ticks,  \* thread->wakeup_ticks, 0 when no timeout is armed
  runqueue,      \* cpu->runqueue: the ring, listed from its head
  next_cpu,      \* round-robin cursor of sched_enqueue_thread
  current,       \* cpu->current_thread
  executing,     \* the thread whose stack the CPU is really on
  intr,          \* the interrupt flag, as the thread has it when it runs
  ticks,         \* lapic_timer_ticks
  dead_threads   \* reaped threads whose memory is not freed yet

schedVars == <<state, wakeup_ticks, runqueue, next_cpu, current, executing,
               intr, ticks, dead_threads>>

thread_state_t == {"RUNNING", "READY", "BLOCKED", "SLEEPING", "DEAD", "ZOMBIE"}
Idle == {IdleOf[c] : c \in Online}

Queued(t, c) == \E i \in 1 .. Len(runqueue[c]) : runqueue[c][i] = t
OnSomeQueue(t) == \E c \in CPU : Queued(t, c)

\* CPU c executes the code of its current thread: no switch is in flight.
Runs(c) == executing[c] = current[c]

-----------------------------------------------------------------------------
(* sched_init: one idle thread per online CPU, alone in its ring, RUNNING.  *)
SchedInit ==
  /\ state = [t \in Thread |-> IF t \in Idle THEN "RUNNING" ELSE "FREE"]
  /\ wakeup_ticks = [t \in Thread |-> 0]
  /\ runqueue = [c \in CPU |-> IF c \in Online THEN <<IdleOf[c]>> ELSE <<>>]
  /\ next_cpu = 0
  /\ current = IdleOf
  /\ executing = IdleOf
  /\ intr = [t \in Thread |-> TRUE]
  /\ ticks = 0
  /\ dead_threads = {}

(* sched_create_kernel_thread up to the optional enqueue: the new thread is *)
(* READY but on no queue.  It will start in thread_stub, which does sti.    *)
sched_create_kernel_thread(c, t) ==
  /\ Runs(c)
  /\ state[t] = "FREE"
  /\ state' = [state EXCEPT ![t] = "READY"]
  /\ wakeup_ticks' = [wakeup_ticks EXCEPT ![t] = 0]
  /\ intr' = [intr EXCEPT ![t] = TRUE]
  /\ UNCHANGED <<runqueue, next_cpu, current, executing, ticks, dead_threads>>

\* Faulty variant: no check that the CPU is online.
TargetCpuUnchecked(want) == IF want = NCPU THEN next_cpu ELSE want

(* The CPU sched_enqueue_thread picks: the explicit one, or the cursor when *)
(* none is given (NCPU stands for NULL); an absent or offline one becomes   *)
(* the BSP.                                                                 *)
TargetCpu(want) ==
  LET id == IF want = NCPU THEN next_cpu ELSE want
  IN  IF id \in Online THEN id ELSE BSP

\* Faulty variant: the cursor does not wrap.
EnqueueNoWrap(c, t, want) ==
  /\ Runs(c)
  /\ state[t] = "READY" /\ ~OnSomeQueue(t)
  /\ next_cpu' = IF want = NCPU THEN next_cpu + 1 ELSE next_cpu
  /\ runqueue' = [runqueue EXCEPT ![TargetCpu(want)] = Append(@, t)]
  /\ intr' = [intr EXCEPT ![current[c]] = TRUE]
  /\ UNCHANGED <<state, wakeup_ticks, current, executing, ticks, dead_threads>>

\* Faulty variant: a thread already on a ring is linked again.
EnqueueAgain(c, t, want) ==
  /\ Runs(c)
  /\ state[t] = "READY"
  /\ next_cpu' = IF want = NCPU THEN (next_cpu + 1) % NCPU ELSE next_cpu
  /\ runqueue' = [runqueue EXCEPT ![TargetCpu(want)] = Append(@, t)]
  /\ intr' = [intr EXCEPT ![current[c]] = TRUE]
  /\ UNCHANGED <<state, wakeup_ticks, current, executing, ticks, dead_threads>>

(* sched_enqueue_thread: append at the tail of the ring, then sti.          *)
sched_enqueue_thread(c, t, want) ==
  /\ Runs(c)
  /\ state[t] = "READY" /\ ~OnSomeQueue(t)
  /\ next_cpu' = IF want = NCPU THEN (next_cpu + 1) % NCPU ELSE next_cpu
  /\ runqueue' = [runqueue EXCEPT ![TargetCpu(want)] = Append(@, t)]
  /\ intr' = [intr EXCEPT ![current[c]] = TRUE]
  /\ UNCHANGED <<state, wakeup_ticks, current, executing, ticks, dead_threads>>

\* Faulty variant: every walk starts at the head.
RingFromHead(c, cur, k) == runqueue[c][k]

-----------------------------------------------------------------------------
(* The ring of c as sched_yield walks it: entry k is k links after cur.     *)
RingAt(c, cur, k) ==
  LET q == runqueue[c]
      i == CHOOSE j \in 1 .. Len(q) : q[j] = cur
  IN  q[((i - 1 + k) % Len(q)) + 1]

\* Faulty variant: BLOCKED threads time out no more.
ExpiredSleepers(c, now) ==
  {t \in Thread :
     /\ Queued(t, c) /\ t # current[c] /\ state[t] = "SLEEPING"
     /\ wakeup_ticks[t] # 0 /\ now >= wakeup_ticks[t]}

(* The scan that wakes every expired sleeper on the ring but the current    *)
(* thread (which is scanned only when it is alone).                         *)
Expired(c, now) ==
  {t \in Thread :
     /\ Queued(t, c)
     /\ t # current[c] \/ Len(runqueue[c]) = 1
     /\ state[t] \in {"SLEEPING", "BLOCKED"}
     /\ wakeup_ticks[t] # 0 /\ now >= wakeup_ticks[t]}

Runnable(st, t) == st[t] \in {"READY", "RUNNING"}

\* Faulty variant: the thread switched away from stays RUNNING.
YieldKeepsRunning(c, now) ==
  LET cur == current[c]
      n   == Len(runqueue[c])
  IN  /\ \/ \E k \in 1 .. n - 1 :
              LET next_t == RingAt(c, cur, k)
              IN  /\ Runnable(state, next_t)
                  /\ state' = [state EXCEPT ![next_t] = "RUNNING"]
                  /\ current' = [current EXCEPT ![c] = next_t]
         \/ UNCHANGED <<state, current>>
      /\ intr' = [intr EXCEPT ![cur] = TRUE]
      /\ UNCHANGED <<wakeup_ticks, runqueue, next_cpu, executing, dead_threads>>

\* Faulty variant: the thread switched away from becomes READY in any state.
YieldRequeuesAny(c, now) ==
  LET cur == current[c]
  IN  /\ \E k \in 1 .. Len(runqueue[c]) - 1 :
           LET next_t == RingAt(c, cur, k)
           IN  /\ Runnable(state, next_t)
               /\ state' = [state EXCEPT ![cur] = "READY", ![next_t] = "RUNNING"]
               /\ current' = [current EXCEPT ![c] = next_t]
      /\ intr' = [intr EXCEPT ![cur] = TRUE]
      /\ UNCHANGED <<wakeup_ticks, runqueue, next_cpu, executing, dead_threads>>

(* sched_yield on CPU c at time now: wake the expired, then switch to the   *)
(* first runnable thread after the current one, if there is one.  The       *)
(* switch is only begun: queue_lock is dropped before switch_context.       *)
sched_yield(c, now) ==
  LET cur == current[c]
      st  == [t \in Thread |-> IF t \in Expired(c, now) THEN "READY"
                                                        ELSE state[t]]
      n   == Len(runqueue[c])
  IN  /\ wakeup_ticks' = [t \in Thread |-> IF t \in Expired(c, now)
                                             THEN 0 ELSE wakeup_ticks[t]]
      /\ \/ \E k \in 1 .. n - 1 :
              LET next_t == RingAt(c, cur, k)
              IN  /\ Runnable(st, next_t)
                  /\ \A j \in 1 .. k - 1 : ~Runnable(st, RingAt(c, cur, j))
                  /\ state' = [t \in Thread |->
                                 IF t = next_t THEN "RUNNING"
                                 ELSE IF t = cur /\ st[t] = "RUNNING"
                                        THEN "READY" ELSE st[t]]
                  /\ current' = [current EXCEPT ![c] = next_t]
         \/ /\ \A k \in 1 .. n - 1 : ~Runnable(st, RingAt(c, cur, k))
            /\ state' = st
            /\ UNCHANGED current
      /\ intr' = [intr EXCEPT ![cur] = TRUE]
      /\ UNCHANGED <<runqueue, next_cpu, executing, dead_threads>>

(* A thread calls sched_yield.                                              *)
Yield(c) ==
  /\ Runs(c)
  /\ sched_yield(c, ticks)
  /\ UNCHANGED ticks

(* switch_context: the stack pointer moves to the new thread.               *)
switch_context(c) ==
  /\ executing[c] # current[c]
  /\ executing' = [executing EXCEPT ![c] = current[c]]
  /\ UNCHANGED <<state, wakeup_ticks, runqueue, next_cpu, current, intr, ticks,
                 dead_threads>>

(* The LAPIC timer interrupt: the BSP advances the clock, every CPU yields. *)
lapic_timer_handler(c) ==
  /\ Runs(c) /\ intr[current[c]]
  /\ ticks' = IF c = BSP /\ ticks < MaxTicks THEN ticks + 1 ELSE ticks
  /\ sched_yield(c, ticks')

-----------------------------------------------------------------------------
(* What running threads do to scheduler state outside sched.c.              *)

SetState(t, s) == state' = [state EXCEPT ![t] = s]

(* Entering a syscall masks interrupts (FMASK); returning restores them.    *)
SetIntr(c, on) ==
  /\ Runs(c) /\ current[c] \notin Idle
  /\ intr' = [intr EXCEPT ![current[c]] = on]
  /\ UNCHANGED <<state, wakeup_ticks, runqueue, next_cpu, current, executing,
                 ticks, dead_threads>>

(* The current thread stores to its own state: BLOCKED or SLEEPING before a *)
(* wait, RUNNING or READY when it finds it need not wait, ZOMBIE or DEAD    *)
(* when it exits.  It may arm, clear or leave alone its timeout.            *)
StoreOwnState(c, s, deadline) ==
  LET t == current[c]
  IN  /\ Runs(c) /\ t \notin Idle
      /\ SetState(t, s)
      /\ wakeup_ticks' = [wakeup_ticks EXCEPT ![t] = deadline]
      /\ UNCHANGED <<runqueue, next_cpu, current, executing, intr, ticks,
                     dead_threads>>

(* An exiting child makes its BLOCKED parent READY.                         *)
WakeThread(c, t) ==
  /\ Runs(c)
  /\ state[t] = "BLOCKED"
  /\ SetState(t, "READY")
  /\ UNCHANGED <<wakeup_ticks, runqueue, next_cpu, current, executing, intr, ticks,
                 dead_threads>>

(* A wait queue or a futex wakes BLOCKED threads and cancels their timeouts *)
(* (under the lock of the queue).                                           *)
WakeThreads(c, S) ==
  /\ Runs(c)
  /\ \A t \in S : state[t] = "BLOCKED"
  /\ state' = [t \in Thread |-> IF t \in S THEN "READY" ELSE state[t]]
  /\ wakeup_ticks' = [t \in Thread |-> IF t \in S THEN 0 ELSE wakeup_ticks[t]]
  /\ UNCHANGED <<runqueue, next_cpu, current, executing, intr, ticks,
                 dead_threads>>

(* sched_terminate_thread: DEAD, whatever the thread was doing; ends in sti *)
sched_terminate_thread(c, t) ==
  /\ Runs(c)
  /\ OnSomeQueue(t) /\ t \notin Idle
  /\ SetState(t, "DEAD")
  /\ intr' = [intr EXCEPT ![current[c]] = TRUE]
  /\ UNCHANGED <<wakeup_ticks, runqueue, next_cpu, current, executing, ticks,
                 dead_threads>>

-----------------------------------------------------------------------------
(* sched_reap_thread in the three steps that touch scheduler state.  Its    *)
(* only caller is sys_wait4, and a child lives on its parent's CPU.         *)

WithoutEntry(q, i) == [j \in 1 .. Len(q) - 1 |-> IF j < i THEN q[j] ELSE q[j + 1]]

\* Faulty variant: the running thread may be unlinked.
RemoveCurrentToo(c, t) ==
  /\ Runs(c)
  /\ state[t] \in {"ZOMBIE", "DEAD"} /\ t \notin Idle
  /\ \E i \in 1 .. Len(runqueue[c]) :
       /\ runqueue[c][i] = t
       /\ runqueue' = [runqueue EXCEPT ![c] = WithoutEntry(@, i)]
  /\ intr' = [intr EXCEPT ![current[c]] = TRUE]
  /\ UNCHANGED <<state, wakeup_ticks, next_cpu, current, executing, ticks,
                 dead_threads>>

remove_from_runqueue(c, t) ==
  /\ Runs(c) /\ t # current[c]
  /\ state[t] \in {"ZOMBIE", "DEAD"} /\ t \notin Idle
  /\ \E i \in 1 .. Len(runqueue[c]) :
       /\ runqueue[c][i] = t
       /\ runqueue' = [runqueue EXCEPT ![c] = WithoutEntry(@, i)]
  /\ intr' = [intr EXCEPT ![current[c]] = TRUE]
  /\ UNCHANGED <<state, wakeup_ticks, next_cpu, current, executing, ticks,
                 dead_threads>>

(* Deferred free: free the threads reaped earlier ...                       *)
FreeDeadThreads(c) ==
  /\ Runs(c)
  /\ dead_threads # {}
  /\ state' = [t \in Thread |-> IF t \in dead_threads THEN "FREE" ELSE state[t]]
  /\ dead_threads' = {}
  /\ UNCHANGED <<wakeup_ticks, runqueue, next_cpu, current, executing, intr,
                 ticks>>

\* Faulty variant: reaped while still on a ring.
DeferQueued(c, t) ==
  /\ Runs(c)
  /\ state[t] \in {"ZOMBIE", "DEAD"} /\ t \notin Idle \cup dead_threads
  /\ dead_threads' = dead_threads \cup {t}
  /\ UNCHANGED <<state, wakeup_ticks, runqueue, next_cpu, current, executing,
                 intr, ticks>>

(* ... and leave this one to the next reap.                                 *)
DeferFree(c, t) ==
  /\ Runs(c)
  /\ state[t] \in {"ZOMBIE", "DEAD"} /\ ~OnSomeQueue(t) /\ t \notin dead_threads
  /\ dead_threads' = dead_threads \cup {t}
  /\ UNCHANGED <<state, wakeup_ticks, runqueue, next_cpu, current, executing,
                 intr, ticks>>

-----------------------------------------------------------------------------
OwnStates == {"BLOCKED", "SLEEPING", "RUNNING", "READY", "ZOMBIE", "DEAD"}

SchedNext ==
  \E c \in Online :
    \/ lapic_timer_handler(c)
    \/ Yield(c)
    \/ switch_context(c)
    \/ \E on \in BOOLEAN : SetIntr(c, on)
    \/ \E s \in OwnStates, d \in 0 .. MaxTicks : StoreOwnState(c, s, d)
    \/ FreeDeadThreads(c)
    \/ \E S \in SUBSET Thread : WakeThreads(c, S)
    \/ \E t \in Thread :
         \/ sched_create_kernel_thread(c, t)
         \/ \E want \in 0 .. NCPU : sched_enqueue_thread(c, t, want)
         \/ WakeThread(c, t)
         \/ sched_terminate_thread(c, t)
         \/ remove_from_runqueue(c, t)
         \/ DeferFree(c, t)

SchedSpec == SchedInit /\ [][SchedNext]_schedVars

-----------------------------------------------------------------------------
(* Types.  Beyond the shapes: the queues hold threads only.                 *)
SchedTypeOK ==
  /\ state \in [Thread -> thread_state_t \cup {"FREE"}]
  /\ wakeup_ticks \in [Thread -> 0 .. MaxTicks]
  /\ runqueue \in [CPU -> Seq(Thread)]
  /\ next_cpu \in CPU
  /\ current \in [Online -> Thread]
  /\ executing \in [Online -> Thread]
  /\ intr \in [Thread -> BOOLEAN]
  /\ ticks \in 0 .. MaxTicks
  /\ dead_threads \subseteq Thread

(* A thread is in at most one place of one run queue: enqueueing, reaping   *)
(* and address reuse never link a struct thread twice, which would tie two  *)
(* rings together (sched_enqueue_thread, remove_from_runqueue).             *)
QueuedOnce ==
  \A c, d \in CPU :
    \A i \in 1 .. Len(runqueue[c]), j \in 1 .. Len(runqueue[d]) :
      runqueue[c][i] = runqueue[d][j] => c = d /\ i = j

(* sched_yield starts at cpu->current_thread->next: the current thread, and *)
(* the one whose stack the CPU is still on, are linked in that CPU's ring.  *)
CurrentQueued ==
  \A c \in Online : Queued(current[c], c) /\ Queued(executing[c], c)

(* The ring of every online CPU holds its idle thread, which is runnable,   *)
(* so a thread that blocks can always be switched away from; offline CPUs   *)
(* get no thread (the fallback to the BSP in sched_enqueue_thread).         *)
IdleReady ==
  /\ \A c \in Online : /\ Queued(IdleOf[c], c)
                       /\ state[IdleOf[c]] \in {"READY", "RUNNING"}
  /\ \A c \in CPU \ Online : runqueue[c] = <<>>

(* Only a CPU's current thread is RUNNING.  sched_yield would switch to any *)
(* RUNNING thread of the ring, so a stray RUNNING would run twice.          *)
RunningIsCurrent ==
  \A t \in Thread : state[t] = "RUNNING" => \E c \in Online : current[c] = t

(* No thread runs on two CPUs, not even during a context switch, when the   *)
(* CPU is still on the stack of the thread it leaves.                       *)
OneCpuPerThread ==
  \A c, d \in Online :
    c # d => {current[c], executing[c]} \cap {current[d], executing[d]} = {}

(* The deferred free of sched_reap_thread: a struct thread whose memory is  *)
(* free or about to be freed is on no ring and no CPU's stack.              *)
FreedUnused ==
  \A t \in Thread :
    state[t] = "FREE" \/ t \in dead_threads =>
      /\ ~OnSomeQueue(t)
      /\ \A c \in Online : t # current[c] /\ t # executing[c]

(* What the invariants above rest on: a thread off every ring is free,      *)
(* about to be enqueued, or exited and being reaped.                        *)
UnqueuedStates ==
  /\ \A t \in Thread : ~OnSomeQueue(t) =>
       state[t] \in {"FREE", "READY", "ZOMBIE", "DEAD"}
  /\ \A t \in dead_threads : state[t] \in {"ZOMBIE", "DEAD"}

(* The inductive invariant.                                                 *)
SchedInv ==
  /\ SchedTypeOK
  /\ QueuedOnce
  /\ CurrentQueued
  /\ IdleReady
  /\ RunningIsCurrent
  /\ FreedUnused
  /\ UnqueuedStates
=============================================================================
