------------------------------- MODULE Futex -------------------------------
(***************************************************************************)
(* The futex system call (kernel/src/syscalls/sys_futex.c) on top of the   *)
(* scheduler: a hash table of waiters keyed by physical address.  A waiter *)
(* lives on the kernel stack of the thread inside futex_wait.              *)
(*                                                                         *)
(* A bucket's critical section is one step: it runs with interrupts masked *)
(* and the lock of the bucket held.  The threads exist from the start and  *)
(* sit on the run queues that Home gives them.                             *)
(***************************************************************************)
EXTENDS Sched, FiniteSets

CONSTANTS Worker,     \* the user threads
          Home,       \* the CPU each one was enqueued on
          Addr,       \* physical addresses of futex words
          Val,        \* values of a futex word
          BucketOf,   \* futex_hash_key
          NoTimeout,  \* a NULL timeout pointer
          Calls,      \* the futex calls each thread may make
          Parents,    \* the threads that have a child, whose exit may wake them
          Killable    \* the threads the shell or the OOM path may terminate

Bucket == {BucketOf[a] : a \in Addr}
WaitReq == [op : {"WAIT"}, addr : Addr, val : Val, timeout : Nat \cup {NoTimeout}]
WakeReq == [op : {"WAKE"}, addr : Addr, val : Nat]
OtherReq == [op : {"OTHER"}]

ASSUME FutexAssumption ==
  /\ Worker \subseteq Thread \ Idle
  /\ IsFiniteSet(Worker)
  /\ Home \in [Worker -> Online]
  /\ BucketOf \in [Addr -> Bucket] /\ Val \subseteq Nat
  /\ NoTimeout \notin Nat
  /\ \A t \in Worker : Calls[t] \subseteq WaitReq \cup WakeReq \cup OtherReq
  /\ Parents \subseteq Worker /\ Killable \subseteq Worker

VARIABLES
  word,        \* the futex words
  futex_hash,  \* bucket -> its waiters, head first
  fpc,         \* where in sys_futex each worker is
  req,         \* the arguments of its call
  ret          \* what its call is about to return

futexVars == <<word, futex_hash, fpc, req, ret>>
allVars == <<schedVars, futexVars>>

NoReq == [op |-> "NONE"]
EFAULT == -14
EAGAIN == -11
ETIMEDOUT == -110
EINVAL == -22

At(c, t, l) == current[c] = t /\ Runs(c) /\ fpc[t] = l
Goto(t, l) == fpc' = [fpc EXCEPT ![t] = l]
Return(t, r) == Goto(t, "ret") /\ ret' = [ret EXCEPT ![t] = r]

(* The ring of each CPU: its idle thread and the workers that live there.   *)
RingOf(c) ==
  CHOOSE q \in [1 .. 1 + Cardinality({t \in Worker : Home[t] = c}) -> Thread] :
    q[1] = IdleOf[c] /\ \A t \in Worker : Home[t] = c => \E i \in DOMAIN q : q[i] = t

FutexInit ==
  /\ state = [t \in Thread |-> IF t \in Idle THEN "RUNNING"
                               ELSE IF t \in Worker THEN "READY" ELSE "FREE"]
  /\ wakeup_ticks = [t \in Thread |-> 0]
  /\ runqueue = [c \in CPU |-> IF c \in Online THEN RingOf(c) ELSE <<>>]
  /\ next_cpu = 0 /\ ticks = 0 /\ dead_threads = {}
  /\ current = IdleOf /\ executing = IdleOf
  /\ intr = [t \in Thread |-> TRUE]
  /\ word \in [Addr -> {v \in Val : \A w \in Val : v <= w}]
  /\ futex_hash = [b \in Bucket |-> <<>>]
  /\ fpc = [t \in Worker |-> "user"]
  /\ req = [t \in Worker |-> NoReq]
  /\ ret = [t \in Worker |-> 0]

-----------------------------------------------------------------------------
\* Faulty variant: an unknown operation falls through to FUTEX_WAKE.
FallThrough(c, t, r) ==
  /\ At(c, t, "user")
  /\ SetIntr(c, FALSE)
  /\ req' = [req EXCEPT ![t] = r]
  /\ Goto(t, IF r.op = "WAIT" THEN "wait" ELSE "wake")
  /\ UNCHANGED <<word, futex_hash, ret>>

(* Entering the system call with arguments r masks interrupts.              *)
sys_futex(c, t, r) ==
  /\ At(c, t, "user")
  /\ SetIntr(c, FALSE)
  /\ req' = [req EXCEPT ![t] = r]
  /\ \/ r.op = "WAIT" /\ Goto(t, "wait") /\ UNCHANGED ret
     \/ r.op = "WAKE" /\ Goto(t, "wake") /\ UNCHANGED ret
     \/ r.op = "OTHER" /\ Return(t, EINVAL)
  /\ UNCHANGED <<word, futex_hash>>

(* The page of the futex word may be unmapped: futex_get_phys returns 0.    *)
futex_get_phys_fails(c, t) ==
  /\ At(c, t, "wait") \/ At(c, t, "wake")
  /\ Return(t, EFAULT)
  /\ UNCHANGED <<schedVars, word, futex_hash, req>>

\* The deadline futex_wait arms; without a positive timeout wakeup_ticks stays.
Deadline(t, timeout) ==
  IF timeout \in {NoTimeout, 0} THEN wakeup_ticks[t]
  ELSE IF ticks + timeout <= MaxTicks THEN ticks + timeout ELSE MaxTicks

\* Faulty variant: the thread blocks before it is linked, and is never linked.
WaitNotLinked(c, t) ==
  /\ At(c, t, "wait")
  /\ StoreOwnState(c, "BLOCKED", Deadline(t, req[t].timeout))
  /\ Goto(t, "yield")
  /\ UNCHANGED <<word, futex_hash, req, ret>>

\* Faulty variant: the value is not read again under the lock.
WaitUnchecked(c, t) ==
  LET h == BucketOf[req[t].addr]
  IN  /\ At(c, t, "wait")
      /\ futex_hash' = [futex_hash EXCEPT
                          ![h] = <<[thread |-> t, phys |-> req[t].addr]>> \o @]
      /\ StoreOwnState(c, "BLOCKED", Deadline(t, req[t].timeout))
      /\ Goto(t, "yield")
      /\ UNCHANGED <<word, req, ret>>

(* futex_wait up to its sched_yield: compare, enqueue at the head, block.   *)
futex_wait(c, t) ==
  LET r == req[t]
      h == BucketOf[r.addr]
  IN  /\ At(c, t, "wait")
      /\ \/ /\ word[r.addr] # r.val
            /\ Return(t, EAGAIN)
            /\ UNCHANGED <<schedVars, futex_hash>>
         \/ /\ word[r.addr] = r.val
            /\ futex_hash' = [futex_hash EXCEPT
                                ![h] = <<[thread |-> t, phys |-> r.addr]>> \o @]
            /\ StoreOwnState(c, "BLOCKED", Deadline(t, r.timeout))
            /\ Goto(t, "yield")
            /\ UNCHANGED ret
      /\ UNCHANGED <<word, req>>

futex_wait_yield(c, t) ==
  /\ At(c, t, "yield")
  /\ Yield(c)
  /\ Goto(t, "remove")
  /\ UNCHANGED <<word, futex_hash, req, ret>>

(* The list q with the entries at the positions I unlinked.                 *)
WithoutEntries(q, I) ==
  LET K == (1 .. Len(q)) \ I
      Nth(n) == CHOOSE k \in K : Cardinality({j \in K : j < k}) = n - 1
  IN  [n \in 1 .. Cardinality(K) |-> q[Nth(n)]]

\* Faulty variant: the thread returns without taking its waiter off.
NoSelfRemove(c, t) ==
  /\ At(c, t, "remove")
  /\ Return(t, 0)
  /\ UNCHANGED <<schedVars, word, futex_hash, req>>

(* Running again: take the waiter off if it is still there, and return 0,   *)
(* whoever woke the thread, and when its deadline passed too.               *)
futex_wait_remove(c, t) ==
  LET h == BucketOf[req[t].addr]
      mine == {i \in 1 .. Len(futex_hash[h]) : futex_hash[h][i].thread = t}
  IN  /\ At(c, t, "remove")
      /\ futex_hash' = [futex_hash EXCEPT ![h] = WithoutEntries(@, mine)]
      /\ Return(t, 0)
      /\ UNCHANGED <<schedVars, word, req>>

\* Positions of waiters on addr that are BLOCKED.
Sleeping(q, addr) ==
  {i \in 1 .. Len(q) : q[i].phys = addr /\ state[q[i].thread] = "BLOCKED"}

\* Faulty variant: a waiter whose timeout has just fired uses up a wake.
TakenCountsAll(q, addr, val) ==
  {i \in 1 .. Len(q) :
     /\ q[i].phys = addr
     /\ Cardinality({j \in 1 .. i - 1 : q[j].phys = addr}) < val}

(* The waiters the loop of futex_wake takes off: those on addr it visits    *)
(* before it has woken val threads, BLOCKED or not.                         *)
Taken(q, addr, val) ==
  {i \in 1 .. Len(q) :
     /\ q[i].phys = addr
     /\ Cardinality({j \in Sleeping(q, addr) : j < i}) < val}

\* Faulty variant: every waiter taken off is made READY, even a terminated one.
WakeAnyState(c, t) ==
  LET r == req[t]
      h == BucketOf[r.addr]
      q == futex_hash[h]
      taken == Taken(q, r.addr, r.val)
      woken == {q[i].thread : i \in taken}
  IN  /\ At(c, t, "wake")
      /\ state' = [u \in Thread |-> IF u \in woken THEN "READY" ELSE state[u]]
      /\ futex_hash' = [futex_hash EXCEPT ![h] = WithoutEntries(@, taken)]
      /\ Return(t, Cardinality(woken))
      /\ UNCHANGED <<wakeup_ticks, runqueue, next_cpu, current, executing, intr,
                     ticks, dead_threads, word, req>>

(* futex_wake: unlink the waiters it takes; wake the BLOCKED ones and cancel *)
(* their timeouts.                                                          *)
futex_wake(c, t) ==
  LET r == req[t]
      h == BucketOf[r.addr]
      q == futex_hash[h]
      taken == Taken(q, r.addr, r.val)
      asleep == {u \in {q[i].thread : i \in taken} : state[u] = "BLOCKED"}
  IN  /\ At(c, t, "wake")
      /\ WakeThreads(c, asleep)
      /\ futex_hash' = [futex_hash EXCEPT ![h] = WithoutEntries(@, taken)]
      /\ Return(t, Cardinality(asleep))
      /\ UNCHANGED <<word, req>>

futex_return(c, t) ==
  /\ At(c, t, "ret")
  /\ SetIntr(c, TRUE)
  /\ Goto(t, "user")
  /\ req' = [req EXCEPT ![t] = NoReq]
  /\ ret' = [ret EXCEPT ![t] = 0]
  /\ UNCHANGED <<word, futex_hash>>

-----------------------------------------------------------------------------
(* The rest of the system: user code stores to the words, a child's exit    *)
(* wakes its parent whatever it waits for, the shell kills threads.         *)

UserStore(c, t) ==
  /\ At(c, t, "user")
  /\ \E a \in Addr, v \in Val : word' = [word EXCEPT ![a] = v]
  /\ UNCHANGED <<schedVars, futex_hash, fpc, req, ret>>

ChildExits(c, t) ==
  /\ t \in Parents /\ WakeThread(c, t)
  /\ UNCHANGED futexVars

KillThread(c, t) ==
  /\ t \in Killable /\ sched_terminate_thread(c, t)
  /\ UNCHANGED futexVars

Tick(c) == lapic_timer_handler(c) /\ UNCHANGED futexVars
Switch(c) == switch_context(c) /\ UNCHANGED futexVars

KernelStep(c, t) ==
  \/ futex_wait(c, t) \/ futex_wait_yield(c, t) \/ futex_wait_remove(c, t)
  \/ futex_wake(c, t) \/ futex_return(c, t)

FutexNext ==
  \E c \in Online :
    \/ Tick(c) \/ Switch(c)
    \/ \E t \in Worker :
         \/ KernelStep(c, t) \/ futex_get_phys_fails(c, t)
         \/ \E r \in Calls[t] : sys_futex(c, t, r)
         \/ UserStore(c, t) \/ ChildExits(c, t) \/ KillThread(c, t)

FutexSpec == FutexInit /\ [][FutexNext]_allVars

(* The LAPIC keeps a timer interrupt pending while interrupts are masked,   *)
(* so a CPU that unmasks them again and again takes it, and a thread in the *)
(* kernel that is dispatched again and again proceeds: strong fairness.  A  *)
(* switch once begun completes: weak fairness.  User code owes nothing.     *)
FutexFairSpec ==
  /\ FutexSpec
  /\ \A c \in Online : SF_allVars(Tick(c)) /\ WF_allVars(Switch(c))
  /\ \A t \in Worker : SF_allVars(\E c \in Online : KernelStep(c, t))

-----------------------------------------------------------------------------
(* Types, and the arguments kept on the kernel stack fit the place in       *)
(* sys_futex: waits and wakes are reached for their own operation only.     *)
FutexTypeOK ==
  /\ word \in [Addr -> Val]
  /\ futex_hash \in [Bucket -> Seq([thread : Worker, phys : Addr])]
  /\ ret \in [Worker -> {EFAULT, EAGAIN, EINVAL, ETIMEDOUT} \cup 0 .. Cardinality(Worker)]
  /\ fpc \in [Worker -> {"user", "wait", "yield", "remove", "wake", "ret"}]
  /\ req \in [Worker -> {NoReq} \cup WaitReq \cup WakeReq \cup OtherReq]
  /\ \A t \in Worker :
       \/ fpc[t] = "user" /\ req[t] = NoReq
       \/ fpc[t] \in {"wait", "yield", "remove"} /\ req[t] \in WaitReq
       \/ fpc[t] = "wake" /\ req[t] \in WakeReq
       \/ fpc[t] = "ret" /\ req[t] \in WaitReq \cup WakeReq \cup OtherReq

(* No wakeup is lost: a thread that sleeps in futex_wait is linked in the   *)
(* bucket of its address, so the next FUTEX_WAKE on that address finds it,  *)
(* whatever timeouts, kills and exiting children did in between.            *)
SleepersLinked ==
  \A t \in Worker :
    fpc[t] \in {"yield", "remove"} /\ state[t] = "BLOCKED" =>
      \E i \in 1 .. Len(futex_hash[BucketOf[req[t].addr]]) :
        futex_hash[BucketOf[req[t].addr]][i] = [thread |-> t, phys |-> req[t].addr]

(* "It's safe because we block in this function and only return after being *)
(* woken": the waiters, which live on kernel stacks, are those of threads   *)
(* still inside futex_wait, each linked once and in the bucket of its call. *)
WaitersOnStack ==
  \A b \in Bucket : \A i \in 1 .. Len(futex_hash[b]) :
    LET w == futex_hash[b][i]
    IN  /\ fpc[w.thread] \in {"yield", "remove"}
        /\ w.phys = req[w.thread].addr /\ BucketOf[w.phys] = b
        /\ \A j \in 1 .. Len(futex_hash[b]) :
             futex_hash[b][j].thread = w.thread => i = j

(* A FUTEX_WAKE that wakes fewer threads than it may leaves nobody asleep   *)
(* on the address: waiters that timed out or died do not use up its count.  *)
WakeOverlooksNobody ==
  [][\A t \in Worker :
       fpc[t] = "wake" /\ fpc'[t] = "ret" /\ ret'[t] # EFAULT
         /\ ret'[t] < req[t].val =>
           \A u \in Worker : fpc[u] \in {"yield", "remove"}
                             /\ req[u].addr = req[t].addr => state'[u] # "BLOCKED"]_allVars

(* Every step is a step of the scheduler or leaves it alone.                *)
SchedSteps == [][SchedNext]_schedVars

(* sys_futex.c:89, "If a timeout is specified, the thread will be woken     *)
(* after the timeout": a thread with a timeout of a millisecond or more     *)
(* does not sleep in futex_wait for ever, although the scan for expired     *)
(* timeouts skips the current thread and the clock only runs on the BSP.    *)
(* (A timeout of {0, 0} arms no deadline.)                                  *)
TimedWaitEnds ==
  \A t \in {u \in Worker : \E r \in Calls[u] : r.op = "WAIT" /\ r.timeout # NoTimeout} :
    fpc[t] = "remove" /\ state[t] = "BLOCKED" /\ req[t].timeout \in Nat \ {0} ~>
      state[t] # "BLOCKED"

(* sys_futex.c:92, "Returns -ETIMEDOUT if timeout expired": a wait that the *)
(* scheduler's scan for expired deadlines ended (it cleared the deadline,   *)
(* and no FUTEX_WAKE has unlinked the waiter) reports it.                   *)
TimeoutReported ==
  [][\A t \in Worker :
       /\ fpc[t] = "remove" /\ fpc'[t] = "ret"
       /\ req[t].timeout \in Nat \ {0} /\ wakeup_ticks[t] = 0
       /\ \E i \in 1 .. Len(futex_hash[BucketOf[req[t].addr]]) :
            futex_hash[BucketOf[req[t].addr]][i].thread = t
       => ret'[t] = ETIMEDOUT]_allVars
=============================================================================
