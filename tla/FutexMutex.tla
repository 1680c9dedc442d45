---------------------------- MODULE FutexMutex ----------------------------
(***************************************************************************)
(* The threads of userland/test_clone_futex_stress.c on the kernel's       *)
(* futex: mutexes of three states (0 free, 1 locked, 2 locked with         *)
(* waiters) in one address space.  A thread locks the mutex its number     *)
(* gives it in every iteration, every now and then the next mutex inside   *)
(* it, and every now and then it yields; it is preempted anywhere.         *)
(***************************************************************************)
EXTENDS Futex

CONSTANTS Locks,        \* the addresses of global_mutexes[i].val, by index
          Id,           \* the thread_id of each thread
          Iterations,   \* ITERATIONS, bounded for each thread
          SecondEvery,  \* a second lock in every SecondEvery-th iteration (7)
          YieldEvery    \* sched_yield in every YieldEvery-th iteration (13)

ASSUME MutexAssumption ==
  /\ Locks \in Seq(Addr) /\ Len(Locks) > 1
  /\ \A i, j \in 1 .. Len(Locks) : Locks[i] = Locks[j] => i = j
  /\ Id \in [Worker -> Nat] /\ {0, 1, 2} \subseteq Val
  /\ Iterations \in [Worker -> Nat \ {0}] /\ {SecondEvery, YieldEvery} \subseteq Nat \ {0}

VARIABLES upc,     \* where in thread_worker, mutex_lock or mutex_unlock each thread is
          inner,   \* whether it is there for its second mutex
          iter     \* its loop counter i

userVars == <<upc, inner, iter>>
mutexVars == <<allVars, userVars>>

OwnLock(t) == Locks[(Id[t] % Len(Locks)) + 1]
NextLock(t) == Locks[((Id[t] + 1) % Len(Locks)) + 1]
Mutex(t) == IF inner[t] THEN NextLock(t) ELSE OwnLock(t)

MutexInit ==
  /\ FutexInit
  /\ upc = [t \in Worker |-> "lock"]
  /\ inner = [t \in Worker |-> FALSE]
  /\ iter = [t \in Worker |-> 0]

UGoto(t, l) == upc' = [upc EXCEPT ![t] = l] /\ UNCHANGED <<inner, iter>>
UserAt(c, t, l) == At(c, t, "user") /\ upc[t] = l
UserAtomic == UNCHANGED <<schedVars, futex_hash, fpc, req, ret>>

(* mutex_lock returns: "Occasionally try to grab another lock", inside the  *)
(* critical section; else go on to mutex_unlock.                            *)
Locked(t) ==
  /\ \/ /\ ~inner[t] /\ iter[t] % SecondEvery = 0
        /\ upc' = [upc EXCEPT ![t] = "lock"]
        /\ inner' = [inner EXCEPT ![t] = TRUE]
     \/ /\ inner[t] \/ iter[t] % SecondEvery # 0
        /\ upc' = [upc EXCEPT ![t] = "unlock"]
        /\ UNCHANGED inner
  /\ UNCHANGED iter

(* mutex_unlock returns: from the second mutex, unlock the first.           *)
Unlocked(t) ==
  /\ upc' = [upc EXCEPT ![t] = IF inner[t] THEN "unlock" ELSE "unlocked"]
  /\ inner' = [inner EXCEPT ![t] = FALSE]
  /\ UNCHANGED iter

(* atomic_compare_exchange_strong(&m->val, &expected, 1).                   *)
LockCas(c, t) ==
  LET m == Mutex(t) IN
  /\ UserAt(c, t, "lock")
  /\ word' = [word EXCEPT ![m] = IF @ = 0 THEN 1 ELSE @]
  /\ \/ word[m] = 0 /\ Locked(t)
     \/ word[m] = 1 /\ UGoto(t, "xchg")
     \/ word[m] = 2 /\ UGoto(t, "wait")
  /\ UserAtomic

\* Faulty variant: whoever was woken takes the lock without looking.
LockXchgBlind(c, t) ==
  /\ UserAt(c, t, "xchg")
  /\ word' = [word EXCEPT ![Mutex(t)] = 2]
  /\ Locked(t)
  /\ UserAtomic

(* expected = atomic_exchange(&m->val, 2).                                  *)
LockXchg(c, t) ==
  /\ UserAt(c, t, "xchg")
  /\ word' = [word EXCEPT ![Mutex(t)] = 2]
  /\ IF word[Mutex(t)] = 0 THEN Locked(t) ELSE UGoto(t, "wait")
  /\ UserAtomic

LockWait(c, t) ==
  /\ UserAt(c, t, "wait")
  /\ sys_futex(c, t, [op |-> "WAIT", addr |-> Mutex(t), val |-> 2, timeout |-> NoTimeout])
  /\ UGoto(t, "xchg")

(* atomic_fetch_sub(&m->val, 1), which ends an uncontended unlock.          *)
UnlockSub(c, t) ==
  /\ UserAt(c, t, "unlock")
  /\ word' = [word EXCEPT ![Mutex(t)] = @ - 1]
  /\ IF word[Mutex(t)] = 1 THEN Unlocked(t) ELSE UGoto(t, "store")
  /\ UserAtomic

UnlockStore(c, t) ==
  /\ UserAt(c, t, "store")
  /\ word' = [word EXCEPT ![Mutex(t)] = 0]
  /\ UGoto(t, "wake")
  /\ UserAtomic

\* Faulty variant: mutex_unlock wakes nobody.
UnlockForgets(c, t) ==
  /\ UserAt(c, t, "wake")
  /\ Unlocked(t)
  /\ UNCHANGED word /\ UserAtomic

UnlockWake(c, t) ==
  /\ UserAt(c, t, "wake")
  /\ sys_futex(c, t, [op |-> "WAKE", addr |-> Mutex(t), val |-> 1])
  /\ Unlocked(t)

(* The end of an iteration: sched_yield in some of them (a system call that *)
(* runs masked up to the switch), then i++ and, after the last, the end.    *)
NextIteration(c, t) ==
  /\ UserAt(c, t, "unlocked")
  /\ \/ iter[t] % YieldEvery = 0 /\ Yield(c)
     \/ iter[t] % YieldEvery # 0 /\ UNCHANGED schedVars
  /\ iter' = [iter EXCEPT ![t] = @ + 1]
  /\ upc' = [upc EXCEPT ![t] = IF iter'[t] < Iterations[t] THEN "lock" ELSE "done"]
  /\ UNCHANGED <<inner, futexVars>>

UserStep(c, t) ==
  \/ LockCas(c, t) \/ LockXchg(c, t) \/ LockWait(c, t)
  \/ UnlockSub(c, t) \/ UnlockStore(c, t) \/ UnlockWake(c, t) \/ NextIteration(c, t)

MutexStep(c, t) ==
  \/ UserStep(c, t)
  \/ KernelStep(c, t) /\ UNCHANGED userVars

Interrupt(c) == Tick(c) /\ UNCHANGED userVars
SwitchStack(c) == Switch(c) /\ UNCHANGED userVars

MutexNext ==
  \E c \in Online :
    \/ Interrupt(c) \/ SwitchStack(c)
    \/ \E t \in Worker :
         \/ MutexStep(c, t)
         \/ ChildExits(c, t) /\ UNCHANGED userVars

(* Threads make progress when they run, the timer preempts user code, and a *)
(* switch begun completes (see FutexFairSpec).                              *)
MutexSpec ==
  /\ MutexInit /\ [][MutexNext]_mutexVars
  /\ \A c \in Online : SF_mutexVars(Interrupt(c)) /\ WF_mutexVars(SwitchStack(c))
  /\ \A t \in Worker : SF_mutexVars(\E c \in Online : MutexStep(c, t))

-----------------------------------------------------------------------------
(* The mutexes a thread is between mutex_lock and mutex_unlock of.          *)
Held(t) ==
  LET inside == upc[t] \in {"unlock", "store"} IN
  (IF inner[t] \/ inside THEN {OwnLock(t)} ELSE {})
    \cup (IF inner[t] /\ inside THEN {NextLock(t)} ELSE {})

(* No two threads hold the same mutex, although futex_wait also returns     *)
(* when nobody unlocked (an exiting child woke the thread) and mutex_unlock *)
(* releases in two stores.                                                  *)
MutualExclusion ==
  \A t, u \in Worker : t # u => Held(t) \cap Held(u) = {}

(* Threads that each hold their own mutex and wait for one that another of  *)
(* them holds.                                                              *)
CircularWait ==
  \E S \in SUBSET Worker :
    /\ S # {}
    /\ \A t \in S : /\ inner[t] /\ upc[t] \in {"lock", "xchg", "wait"}
                    /\ \E u \in S : Mutex(t) \in Held(u)

(* No sleeper is forgotten: either every thread gets through its loop, or   *)
(* some wait for each other in a circle (the test takes its second lock     *)
(* without an order).  A thread that decided to wait is never left asleep   *)
(* by an unlock between its exchange and its FUTEX_WAIT, nor by a wake that *)
(* went to a waiter of the other mutex in the same bucket.                  *)
MutexProgress == <>(CircularWait \/ \A t \in Worker : upc[t] = "done")

(* Waiters and the locks built on them: sleepers are linked, waiters are on *)
(* the stacks of threads inside futex_wait, and a lock excludes, through    *)
(* any mix of wakes, timeouts, kills and exiting children (sys_futex.c).    *)
FutexSafe == FutexTypeOK /\ SleepersLinked /\ WaitersOnStack /\ MutualExclusion
=============================================================================
