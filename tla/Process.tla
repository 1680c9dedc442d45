------------------------------ MODULE Process ------------------------------
(***************************************************************************)
(* Process life cycle on top of the scheduler: fork, exit, wait4, reaping  *)
(* and reparenting (kernel/src/syscalls/sys_process.c, sched/sched.c).     *)
(*                                                                         *)
(* A syscall runs with interrupts masked until something executes sti      *)
(* (sched_yield, sched_enqueue_thread, remove_from_runqueue); from then on *)
(* a timer tick may preempt it between any two of the steps below.  Every  *)
(* step takes one step of Sched, or leaves it alone.                       *)
(***************************************************************************)
EXTENDS Sched

CONSTANTS InitThread,    \* the thread of init_thread_entry: the main session
          WaitTargets,   \* sets of children a wait4 pid argument can match
          Signals,       \* TRUE: a fatal signal may end a process
          OomKill,       \* TRUE: demand paging may run out of frames
          NULL

ASSUME ProcessAssumption ==
  /\ InitThread \in Thread \ Idle
  /\ WaitTargets \subseteq SUBSET Thread
  /\ {Signals, OomKill} \subseteq BOOLEAN
  /\ NULL \notin Thread

VARIABLES
  pc,        \* where each thread is
  parent,    \* thread->parent
  children,  \* thread->children: the sibling list, head first
  subject,   \* the child a fork is creating, the zombie a wait4 is reaping
  want,      \* children the thread's wait4 matches
  nohang     \* WNOHANG

procVars == <<pc, parent, children, subject, want, nohang>>
vars == <<schedVars, procVars>>

init == IdleOf[BSP]     \* TID 1, "a fallback for init"

Labels == {"none", "boot_create", "boot_enqueue", "idle", "user", "ret",
           "fork_create", "fork_enqueue", "wait_scan", "wait_block",
           "wait_yield", "reap_queue", "reap_unlink", "reap_free", "reap_defer",
           "exit_reparent", "exit_zombie", "exit_wake", "exit_yield"}

\* Thread t is at label l and its CPU c executes it.
At(c, t, l) == current[c] = t /\ Runs(c) /\ pc[t] = l
Goto(t, l) == pc' = [pc EXCEPT ![t] = l]
\* The arguments of a wait4 are dead once its scan succeeds or returns.
ForgetArgs(t) == /\ want' = [want EXCEPT ![t] = {}]
                 /\ nohang' = [nohang EXCEPT ![t] = FALSE]
Unlink(list, x) ==
  IF \E i \in 1 .. Len(list) : list[i] = x
    THEN WithoutEntry(list, CHOOSE i \in 1 .. Len(list) : list[i] = x)
    ELSE list

-----------------------------------------------------------------------------
ProcInit ==
  /\ SchedInit
  /\ pc = [t \in Thread |-> IF t = init THEN "boot_create"
                            ELSE IF t \in Idle THEN "idle" ELSE "none"]
  /\ parent = [t \in Thread |-> NULL]
  /\ children = [t \in Thread |-> <<>>]
  /\ subject = [t \in Thread |-> NULL]
  /\ want = [t \in Thread |-> {}]
  /\ nohang = [t \in Thread |-> FALSE]

(* The parts of sched_create_kernel_thread outside Sched: link the new      *)
(* thread under its creator.                                                *)
LinkChild(t, x) ==
  /\ parent' = [parent EXCEPT ![x] = t]
  /\ children' = [children EXCEPT ![t] = <<x>> \o @]

(* kmain creates and enqueues the init thread on the BSP, then idles.       *)
BootCreate(c, t) ==
  /\ At(c, t, "boot_create")
  /\ sched_create_kernel_thread(c, InitThread)
  /\ LinkChild(t, InitThread)
  /\ pc' = [pc EXCEPT ![t] = "boot_enqueue", ![InitThread] = "user"]
  /\ UNCHANGED <<subject, want, nohang>>

BootEnqueue(c, t) ==
  /\ At(c, t, "boot_enqueue")
  /\ sched_enqueue_thread(c, InitThread, BSP)
  /\ Goto(t, "idle")
  /\ UNCHANGED <<parent, children, subject, want, nohang>>

-----------------------------------------------------------------------------
(* A user thread makes a syscall: FMASK clears the interrupt flag.          *)
Syscall(c, t) ==
  /\ At(c, t, "user")
  /\ SetIntr(c, FALSE)
  /\ \/ Goto(t, "fork_create") /\ UNCHANGED <<want, nohang>>
     \/ Goto(t, "exit_reparent") /\ UNCHANGED <<want, nohang>>
     \/ /\ Goto(t, "wait_scan")
        /\ \E w \in WaitTargets : want' = [want EXCEPT ![t] = w]
        /\ \E b \in BOOLEAN : nohang' = [nohang EXCEPT ![t] = b]
  /\ UNCHANGED <<parent, children, subject>>

SyscallReturn(c, t) ==
  /\ At(c, t, "ret")
  /\ SetIntr(c, TRUE)
  /\ Goto(t, "user")
  /\ UNCHANGED <<parent, children, subject, want, nohang>>

(* signal_deliver with a fatal default action, on the way back to user mode *)
(* from a syscall or from a timer interrupt (which has executed sti).       *)
SignalExit(c, t) ==
  /\ Signals
  /\ At(c, t, "user") \/ At(c, t, "ret")
  /\ Goto(t, "exit_reparent")
  /\ UNCHANGED <<schedVars, parent, children, subject, want, nohang>>

(* vmm_handle_page_fault without a free frame: the thread is marked DEAD    *)
(* and returns to user mode all the same.                                   *)
PageFaultOom(c, t) ==
  /\ OomKill
  /\ At(c, t, "user")
  /\ sched_terminate_thread(c, t)
  /\ UNCHANGED procVars

-----------------------------------------------------------------------------
(* sys_fork (and sys_clone): create the child, then enqueue it on the       *)
(* parent's CPU.                                                            *)
ForkCreate(c, t, x) ==
  /\ At(c, t, "fork_create")
  /\ sched_create_kernel_thread(c, x)
  /\ LinkChild(t, x)
  /\ subject' = [subject EXCEPT ![t] = x]
  /\ pc' = [pc EXCEPT ![t] = "fork_enqueue", ![x] = "user"]
  /\ UNCHANGED <<want, nohang>>

\* Faulty variant: the child is linked a second time.
ForkEnqueueLinksAgain(c, t) ==
  /\ At(c, t, "fork_enqueue")
  /\ sched_enqueue_thread(c, subject[t], c)
  /\ LinkChild(t, subject[t])
  /\ subject' = [subject EXCEPT ![t] = NULL]
  /\ Goto(t, "ret")
  /\ UNCHANGED <<want, nohang>>

\* Faulty variant: the child goes to the round-robin CPU.
ForkEnqueueAnyCpu(c, t) ==
  /\ At(c, t, "fork_enqueue")
  /\ sched_enqueue_thread(c, subject[t], NCPU)
  /\ subject' = [subject EXCEPT ![t] = NULL]
  /\ Goto(t, "ret")
  /\ UNCHANGED <<parent, children, want, nohang>>

ForkEnqueue(c, t) ==
  /\ At(c, t, "fork_enqueue")
  /\ sched_enqueue_thread(c, subject[t], c)
  /\ subject' = [subject EXCEPT ![t] = NULL]
  /\ Goto(t, "ret")
  /\ UNCHANGED <<parent, children, want, nohang>>

\* Faulty variant: no check of the new thread against NULL.
ForkIgnoresNull(c, t) ==
  /\ At(c, t, "fork_create")
  /\ Goto(t, "fork_enqueue")
  /\ UNCHANGED <<schedVars, parent, children, subject, want, nohang>>

(* -ENOMEM before the struct thread exists.                                 *)
ForkFails(c, t) ==
  /\ At(c, t, "fork_create")
  /\ Goto(t, "ret")
  /\ UNCHANGED <<schedVars, parent, children, subject, want, nohang>>

(* No memory for the stack: the struct thread is freed, but it stays in the *)
(* sibling list it was linked into.                                         *)
ForkStackOom(c, t, x) ==
  /\ At(c, t, "fork_create")
  /\ state[x] = "FREE"
  /\ LinkChild(t, x)
  /\ Goto(t, "ret")
  /\ UNCHANGED <<schedVars, subject, want, nohang>>

-----------------------------------------------------------------------------
(* process_do_exit.                                                         *)

\* Faulty variant: the orphans keep their parent pointer.
ExitKeepsParentPointers(c, t) ==
  /\ At(c, t, "exit_reparent")
  /\ children' = [children EXCEPT ![init] = children[t] \o @, ![t] = <<>>]
  /\ IF t = InitThread
       THEN Goto(t, "user") /\ intr' = [intr EXCEPT ![t] = TRUE]
       ELSE Goto(t, "exit_zombie") /\ UNCHANGED intr
  /\ UNCHANGED <<state, wakeup_ticks, runqueue, next_cpu, current, executing,
                 ticks, dead_threads, parent, subject, want, nohang>>

(* sched_reparent_children hands the children to TID 1, one by one.  The    *)
(* main session is not a forked child: it restarts instead of dying.        *)
ExitReparent(c, t) ==
  LET kids == children[t]
      n    == Len(kids)
  IN  /\ At(c, t, "exit_reparent")
      /\ parent' = [x \in Thread |->
                      IF \E i \in 1 .. n : kids[i] = x THEN init ELSE parent[x]]
      /\ children' = [children EXCEPT
                        ![init] = [i \in 1 .. n |-> kids[n + 1 - i]] \o @,
                        ![t] = <<>>]
      /\ IF t = InitThread
           THEN Goto(t, "user") /\ intr' = [intr EXCEPT ![t] = TRUE]
           ELSE Goto(t, "exit_zombie") /\ UNCHANGED intr
      /\ UNCHANGED <<state, wakeup_ticks, runqueue, next_cpu, current, executing,
                     ticks, dead_threads, subject, want, nohang>>

ExitZombie(c, t) ==
  /\ At(c, t, "exit_zombie")
  /\ StoreOwnState(c, "ZOMBIE", wakeup_ticks[t])
  /\ Goto(t, "exit_wake")
  /\ UNCHANGED <<parent, children, subject, want, nohang>>

\* Faulty variant: no wake of the parent.
ExitWakesNobody(c, t) ==
  /\ At(c, t, "exit_wake")
  /\ Goto(t, "exit_yield")
  /\ UNCHANGED <<schedVars, parent, children, subject, want, nohang>>

ExitWake(c, t) ==
  LET p == parent[t]
  IN  /\ At(c, t, "exit_wake")
      /\ IF p # NULL /\ state[p] = "BLOCKED"
           THEN WakeThread(c, p)
           ELSE UNCHANGED schedVars
      /\ Goto(t, "exit_yield")
      /\ UNCHANGED <<parent, children, subject, want, nohang>>

ExitYield(c, t) ==
  /\ At(c, t, "exit_yield")
  /\ Yield(c)
  /\ UNCHANGED procVars

\* Faulty variant: the zombie stays in the sibling list.
Wait4ScanKeepsLink(c, t) ==
  /\ At(c, t, "wait_scan")
  /\ \/ \E z \in want[t] :
          /\ \E i \in 1 .. Len(children[t]) : children[t][i] = z
          /\ state[z] = "ZOMBIE"
          /\ subject' = [subject EXCEPT ![t] = z]
          /\ Goto(t, "reap_queue")
     \/ Goto(t, "ret") /\ UNCHANGED subject
  /\ ForgetArgs(t)
  /\ UNCHANGED <<schedVars, parent, children>>

\* Faulty variant: the child's state is not looked at.
Wait4ScanTakesLive(c, t) ==
  /\ At(c, t, "wait_scan")
  /\ \/ \E i \in 1 .. Len(children[t]) :
          /\ children[t][i] \in want[t]
          /\ children' = [children EXCEPT ![t] = WithoutEntry(@, i)]
          /\ subject' = [subject EXCEPT ![t] = children[t][i]]
          /\ Goto(t, "reap_queue")
     \/ Goto(t, "ret") /\ UNCHANGED <<children, subject>>
  /\ ForgetArgs(t)
  /\ UNCHANGED <<schedVars, parent>>

-----------------------------------------------------------------------------
(* sys_wait4.  The scan, under tid_lock: take the first matching zombie off *)
(* the sibling list, or return, or go to sleep.                             *)
Wait4Scan(c, t) ==
  LET list    == children[t]
      match   == {i \in 1 .. Len(list) : list[i] \in want[t]}
      zombies == {i \in match : state[list[i]] = "ZOMBIE"}
  IN  /\ At(c, t, "wait_scan")
      /\ \/ \E i \in zombies :
              /\ \A j \in zombies : i <= j
              /\ children' = [children EXCEPT ![t] = WithoutEntry(@, i)]
              /\ subject' = [subject EXCEPT ![t] = list[i]]
              /\ Goto(t, "reap_queue")
         \/ /\ zombies = {}
            /\ Goto(t, IF match = {} \/ nohang[t] THEN "ret" ELSE "wait_block")
            /\ UNCHANGED <<children, subject>>
      /\ IF pc'[t] = "wait_block" THEN UNCHANGED <<want, nohang>>
                                  ELSE ForgetArgs(t)
      /\ UNCHANGED <<schedVars, parent>>

Wait4Block(c, t) ==
  /\ At(c, t, "wait_block")
  /\ StoreOwnState(c, "BLOCKED", wakeup_ticks[t])
  /\ Goto(t, "wait_yield")
  /\ UNCHANGED <<parent, children, subject, want, nohang>>

Wait4Yield(c, t) ==
  /\ At(c, t, "wait_yield")
  /\ Yield(c)
  /\ Goto(t, "wait_scan")
  /\ UNCHANGED <<parent, children, subject, want, nohang>>

-----------------------------------------------------------------------------
(* sched_reap_thread, called by wait4 for the zombie it took.               *)

ReapQueue(c, t) ==
  /\ At(c, t, "reap_queue")
  /\ remove_from_runqueue(c, subject[t])
  /\ Goto(t, "reap_unlink")
  /\ UNCHANGED <<parent, children, subject, want, nohang>>

(* Spin until no CPU runs the zombie; then unlink it from its parent.       *)
ReapUnlink(c, t) ==
  LET z == subject[t]
      p == parent[z]
  IN  /\ At(c, t, "reap_unlink")
      /\ \A d \in Online : current[d] # z
      /\ children' = IF p = NULL THEN children
                     ELSE [children EXCEPT ![p] = Unlink(@, z)]
      /\ Goto(t, "reap_free")
      /\ UNCHANGED <<schedVars, parent, subject, want, nohang>>

(* Free the threads deferred by earlier reaps ...                           *)
ReapFree(c, t) ==
  /\ At(c, t, "reap_free")
  /\ IF dead_threads = {} THEN UNCHANGED schedVars ELSE FreeDeadThreads(c)
  /\ pc' = [x \in Thread |-> IF x = t THEN "reap_defer"
                             ELSE IF x \in dead_threads THEN "none" ELSE pc[x]]
  /\ parent' = [x \in Thread |-> IF x \in dead_threads THEN NULL ELSE parent[x]]
  /\ UNCHANGED <<children, subject, want, nohang>>

\* Faulty variant: the stack is freed without waiting.
ReapFreesAtOnce(c, t) ==
  /\ At(c, t, "reap_defer")
  /\ SetState(subject[t], "FREE")
  /\ subject' = [subject EXCEPT ![t] = NULL]
  /\ Goto(t, "ret")
  /\ UNCHANGED <<wakeup_ticks, runqueue, next_cpu, current, executing, intr,
                 ticks, dead_threads, parent, children, want, nohang>>

(* ... and defer this one (or leak it, without memory for the list entry).  *)
ReapDefer(c, t) ==
  /\ At(c, t, "reap_defer")
  /\ \/ DeferFree(c, subject[t])
     \/ UNCHANGED schedVars
  /\ subject' = [subject EXCEPT ![t] = NULL]
  /\ Goto(t, "ret")
  /\ UNCHANGED <<parent, children, want, nohang>>

-----------------------------------------------------------------------------
Tick(c) == lapic_timer_handler(c) /\ UNCHANGED procVars
Switch(c) == switch_context(c) /\ UNCHANGED procVars

\* What thread t does in the kernel once it is there.
KernelStep(c, t) ==
  \/ BootCreate(c, t) \/ BootEnqueue(c, t)
  \/ SyscallReturn(c, t)
  \/ \E x \in Thread : ForkCreate(c, t, x)
  \/ ForkEnqueue(c, t) \/ ForkFails(c, t)
  \/ ExitReparent(c, t) \/ ExitZombie(c, t) \/ ExitWake(c, t) \/ ExitYield(c, t)
  \/ Wait4Scan(c, t) \/ Wait4Block(c, t) \/ Wait4Yield(c, t)
  \/ ReapQueue(c, t) \/ ReapUnlink(c, t) \/ ReapFree(c, t) \/ ReapDefer(c, t)

ProcNext ==
  \E c \in Online :
    \/ Tick(c) \/ Switch(c)
    \/ \E t \in Thread :
         \/ KernelStep(c, t)
         \/ Syscall(c, t) \/ SignalExit(c, t) \/ PageFaultOom(c, t)

ProcSpec == ProcInit /\ [][ProcNext]_vars

(* The same, where kmalloc may fail between the two halves of               *)
(* sched_create_kernel_thread.                                              *)
ProcOomSpec ==
  ProcInit /\ [][ProcNext \/ \E c \in Online : \E t, x \in Thread :
                                 ForkStackOom(c, t, x)]_vars

(* The timer interrupt stays pending while masked; a time slice is long     *)
(* enough for kernel code that gets one again and again to proceed.  User   *)
(* code owes nothing.                                                       *)
ProcFairSpec ==
  /\ ProcSpec
  /\ \A c \in Online : SF_vars(Tick(c)) /\ WF_vars(Switch(c))
  /\ \A t \in Thread : SF_vars(\E c \in Online : KernelStep(c, t))

-----------------------------------------------------------------------------
Reaping(t) == pc[t] \in {"reap_queue", "reap_unlink", "reap_free", "reap_defer"}
Occurrences(list, x) == {i \in 1 .. Len(list) : list[i] = x}

ProcShapes ==
  /\ pc \in [Thread -> Labels]
  /\ parent \in [Thread -> Thread \cup {NULL}]
  /\ children \in [Thread -> Seq(Thread)]
  /\ subject \in [Thread -> Thread \cup {NULL}]
  /\ want \in [Thread -> SUBSET Thread]
  /\ nohang \in [Thread -> BOOLEAN]

HasSubject ==
  \A t \in Thread :
    pc[t] \in {"fork_enqueue", "reap_queue", "reap_unlink", "reap_free", "reap_defer"}
      => subject[t] \in Thread

(* Types; and the thread pointers that sys_fork enqueues and that           *)
(* sched_reap_thread takes apart are never NULL.                            *)
ProcTypeOK == ProcShapes /\ HasSubject

(* No thread is in a sibling list twice: that "would create a circular list *)
(* and cause wait4 to hang or double-reap" (sys_clone, line 802).           *)
LinkedOnce ==
  \A p, x \in Thread : \A i, j \in Occurrences(children[p], x) : i = j

(* Sibling lists are sound: every entry is an allocated thread that points  *)
(* back to the list's owner, and none is in a list twice.                   *)
SiblingLists ==
  /\ LinkedOnce
  /\ \A p \in Thread : \A i \in 1 .. Len(children[p]) :
       state[children[p][i]] # "FREE" /\ parent[children[p][i]] = p

(* No zombie has two reapers, and a zombie being reaped is in nobody's      *)
(* sibling list, so that no other wait4 can take it; it is not freed under  *)
(* its reaper (wait4 unlinks it under tid_lock before it reaps it).         *)
OneReaper ==
  \A t \in Thread : Reaping(t) =>
    LET z == subject[t]
    IN  /\ state[z] # "FREE" /\ z \notin dead_threads
        /\ \A u \in Thread \ {t} : Reaping(u) => subject[u] # z
        /\ \A p \in Thread : Occurrences(children[p], z) = {}

(* The parent pointer of a thread on a run queue never dangles: exit hands  *)
(* the children to TID 1 before the parent can be reaped, so the load of    *)
(* parent->state in process_do_exit reads a struct thread that is neither   *)
(* freed nor waiting on dead_threads for the next reap to free it.          *)
ParentAlive ==
  \A t \in Thread :
    OnSomeQueue(t) /\ parent[t] # NULL =>
      state[parent[t]] # "FREE" /\ parent[t] \notin dead_threads

(* The busy wait of sched_reap_thread never spins: parent and child share a *)
(* CPU, so a child is on no CPU from the moment its parent takes it.        *)
ReapDoesNotSpin ==
  \A t \in Thread : Reaping(t) =>
    \A c \in Online : subject[t] \notin {current[c], executing[c]}

(* The scheduler calls are made only as they must be, although sched.c does *)
(* not check it: kmain and sys_fork enqueue a READY thread that is on no    *)
(* ring; sys_wait4 reaps an exited thread that is on the reaper's ring and  *)
(* not current; and what sched_reap_thread defers is off every ring and not *)
(* deferred already.  So no guard of Sched keeps a call from happening.     *)
SchedContract ==
  \A c \in Online, t \in Thread :
    LET x == subject[t]
        fresh(y) == state[y] = "READY" /\ ~OnSomeQueue(y)
        exited == state[x] \in {"ZOMBIE", "DEAD"} /\ x \notin Idle
    IN  /\ At(c, t, "boot_create") => state[InitThread] = "FREE"
        /\ At(c, t, "boot_enqueue") => fresh(InitThread)
        /\ At(c, t, "fork_enqueue") => fresh(x)
        /\ At(c, t, "reap_queue") => exited /\ x # current[c] /\ Queued(x, c)
        /\ At(c, t, "reap_defer") =>
             exited /\ ~OnSomeQueue(x) /\ x \notin dead_threads

(* Exit is final: once process_do_exit has stored ZOMBIE, no wake by a      *)
(* child, no timeout, no yield and no termination gives the thread another  *)
(* state, and it is never dispatched again, until a reap that deferred it   *)
(* has been followed by another one, which frees it.                        *)
ExitIsFinal ==
  [][\A t \in Thread : state[t] = "ZOMBIE" =>
       /\ state'[t] = "ZOMBIE" \/ (state'[t] = "FREE" /\ t \in dead_threads)
       /\ \A c \in Online : current[c] # t => current'[c] # t]_vars

(* Round robin starves nobody: a READY thread on a ring is dispatched, or   *)
(* dies, although sched_yield starts each walk at a moving point of a ring  *)
(* that forks extend and reaps shorten.                                     *)
NoStarvation ==
  \A t \in Thread :
    state[t] = "READY" /\ OnSomeQueue(t) ~>
      state[t] # "READY" \/ \E c \in Online : current[c] = t

(* sys_wait4 line 357, "Block and wait for a child to exit": once a child   *)
(* it matches has exited, a wait4 returns.                                  *)
Wait4Returns ==
  \A t \in Thread :
    /\ pc[t] \in {"wait_scan", "wait_block", "wait_yield"}
    /\ \E i \in 1 .. Len(children[t]) :
         children[t][i] \in want[t] /\ state[children[t][i]] = "ZOMBIE"
    ~> pc[t] \notin {"wait_scan", "wait_block", "wait_yield"}
=============================================================================
