# A TLA+ model of the AscentOS kernel

AscentOS is a hobby x86-64 kernel written in C (`src/kernel/src`): an SMP
round-robin scheduler, processes with fork, clone, execve, wait4 and signals,
demand-paged address spaces with copy-on-write, a VFS with several file
systems, AF_UNIX sockets, epoll, futexes, a small TCP/IP stack and a set of
drivers.  This directory models what is hard to test in it: what may happen
between two lines of a system call when a timer interrupt arrives, when two
processes share a frame or a descriptor, or when memory runs out.  Paths below
are relative to `src/kernel/src` unless they start with `src/`.

## 1. Inventory

| Part | State | Operations that change it | Hard behaviours |
|---|---|---|---|
| Scheduler (`sched/sched.c`, `sched/switch.asm`, `apic/lapic_timer.c`) | per CPU a circular list of all its threads and the current one; per thread a state and a deadline; a list of reaped threads not yet freed | create, enqueue, yield, timer tick, context switch, terminate, remove, reap | preemption wherever interrupts are on; the queue lock is dropped before the stack switches; deferred free; offline CPUs |
| Processes (`syscalls/sys_process.c`, `sched/sched.c`, `kernel.c`) | parent pointers, sibling lists, exit states | fork, clone, exit, wait4, reparenting, reaping, session restart | lost wakeups, double reaping, dangling parents, failing allocation half way |
| Futex (`syscalls/sys_futex.c`) | hash table of waiters that live on kernel stacks | FUTEX_WAIT (with timeout), FUTEX_WAKE | wake against timeout, spurious wakeups, killed waiters |
| User mutexes (`src/userland/test_clone_futex_stress.c`) | words with three values | lock, unlock, a nested lock, yield | preemption between the user's atomics and the system call; locks taken in a circle |
| Address spaces (`mm/vmm.c`, `mm/vma.c`, `mm/pmm.c`, `syscalls/sys_mm.c`) | page tables, VMAs, break, frame reference counts | page faults, mmap, munmap, brk, mprotect, mremap, fork, execve, exit | copy-on-write sharing, partial failure when out of memory |
| Descriptors (`fs/vfs.c`, `syscalls/sys_io.c`, `socket/socket.c`) | descriptor tables, node and socket reference counts | open, pipe2, eventfd2, socket, dup, dup2, F_DUPFD, close, fork, exit | one node shared by many tables; counts that wrap |
| Wait queues, poll (`sched/wait.c`, `syscalls/sys_io.c`) | list of sleeping threads per object | add, remove, wake, poll, select | sleeping on several queues, objects freed under a sleeper |
| Signals (`syscalls/sys_signal.c`) | pending set, mask, handlers | kill, sigaction, sigprocmask, delivery, sigreturn | signals against blocking calls |
| AF_UNIX sockets (`socket/af_unix.c`) | ring buffers, backlog, peer pointers | bind, listen, connect, accept, send, recv, shutdown, close, descriptor passing | blocking, peers that close, locks held across a yield |
| epoll (`socket/epoll.c`) | interest set, ready list, watchers | ctl, wait, notify | edge-triggered and one-shot modes, timeouts, closed descriptors |
| TCP (`net/tcp.c`) | connection states, sequence numbers, accept queue | connect, send, packet arrival, accept, close | lost, duplicated and reordered segments; full backlog |
| Physical memory (`mm/pmm.c`), heap and slabs (`mm/heap.c`, `mm/slab_cache.c`), VMA tree (`mm/vma.c`) | buddy lists, counts, bitmaps, trees | alloc, free, incref, decref, insert, remove | two locks over the same counts; splitting and merging |
| System V shared memory (`syscalls/sys_shm.c`) | segments, attach counts | shmget, shmat, shmdt, shmctl | destruction while attached, fork |
| Pseudo terminals (`drivers/pty.c`) | two ring buffers, line discipline, open counts | read, write, ioctl, open, close | blocking reads against close |
| File systems (`fs/*.c`) | on-disk structures, ext3 journal | create, write, unlink, rename, commit, replay | crash between two writes |
| Boot, interrupt controllers, drivers, console, shell | device registers | set-up and I/O | the other half is hardware |

`PROJECT.json` lists the same parts with the modules that model them, and the
hazards line by line.

The correctness properties that matter: a thread is in one place of one run
queue and on one CPU; memory that may still be used is not freed (thread
structs, stacks, frames, nodes, sockets); wakeups are not lost and waits end;
private memory is private; a failing call leaves a consistent state.

### What runs atomically

A system call starts with the interrupt flag clear (`FMASK`) and stays so until
something executes `sti`: `sched_yield`, `sched_enqueue_thread`,
`remove_from_runqueue`, `sched_terminate_thread`.  Spinlocks mask interrupts
while they are held.  fork puts a child on its parent's CPU, so all user
processes live on the boot CPU.  Hence: code of a system call up to its first
`sti` is one step of a module; after it, each critical section and each store
to shared state is a step of its own, and the timer may preempt in between.

## 2. Modules

| Module | Models | Lines up with |
|---|---|---|
| `Sched` | scheduler, on any set of CPUs | one action per function of `sched.c`; what threads do between scheduler calls is left open |
| `Process` (extends `Sched`) | fork, exit, wait4, reaping, session restart | `pc` is the place in `sys_process.c`; every step takes a step of `Sched` or leaves it alone |
| `Futex` (extends `Sched`) | `sys_futex.c` | `fpc` is the place in `sys_futex` |
| `FutexMutex` (extends `Futex`) | the threads of the stress test on that futex | `upc` is the place in `thread_worker`, `mutex_lock` or `mutex_unlock`, `inner` whether it is there for the second mutex |
| `PrivateMemory` | abstract: what private memory promises | none; it is the specification `AddrSpace` implements |
| `AddrSpace` | page tables, VMAs, counts, faults, memory calls | one action per system call or fault |
| `FdTable` | descriptor tables and reference counts | one action per system call |
| `SchedProofs`, `ProcessProofs` | theorems | |
| `MC*` | instances for TLC | |

`Sched` is the abstract specification of what `Process` and `Futex` may do to
threads: `Process` is shown to implement `SchedSpec` (run `process_safety` and
theorem `ProcImplementsSched`); every step of `Futex` is a scheduler step
(`SchedSteps`; its threads exist from the start, so the initial states differ).
Operators marked "Faulty variant" are not part of any specification: each is a
definition changed as a plausible bug would change it, used to see that the
property it is meant for notices.

**Sched.**  `runqueue[c]` lists the ring of CPU c from its head; `current` is
`cpu->current_thread`, `executing` the thread whose stack the CPU is on.  They
differ between `sched_yield`'s store and `switch_context`, the window in which
another CPU may act.  `state` "FREE" stands for an address without a struct
thread, so that reuse of freed memory is modelled.

**Process.**  A wait4 is scan, block, yield, scan again; a reap is removal from
the ring, unlinking, freeing of earlier dead threads, deferring this one.
`init` is TID 1, the boot CPU's idle thread, which gets the orphans;
`InitThread` is the main session, which restarts when it exits.  Termination
by the page-fault handler and by fatal signals are switches of the instance.

**Futex.**  A waiter is a record in a bucket; its thread is inside
`futex_wait`.  Threads can be woken by a wake, a timeout, the exit of a child
(which makes a BLOCKED parent READY whatever it waits for), or be terminated.
A timeout of zero arms no timer, and a wait that timed out returns 0, as in
the code (run `futex_timeout`).  A thread woken by a child keeps its deadline,
which may end its next wait early.

**FutexMutex.**  `thread_worker` locks its own mutex in every iteration and in
some of them the next mutex inside it, so its threads can wait for each other
in a circle.  The test relies on timing to avoid that; `MutexProgress` says
that nothing else keeps a thread from finishing.

**AddrSpace.**  `pt[p][v]` has the frame and the user, write and COW bits;
`vmas[p][v]` the attributes of the VMA over the page; `refcounts` and
`content` belong to frames.  `step` records which process stepped and what the
step may do to memory, so that the abstract specification can be strict about
who changes what.  MAP_FIXED replaces whatever is at any page of the address
space.  fork can fail half way, mremap can run out of frames after some pages,
a fault can find no frame (the process is terminated), and a failed execve
loses the break it has already reset and, when memory runs out or the
interpreter does not load, the frames it has already taken.

**FdTable.**  A node is an address; `kind` says what lives there.  Counts are
unsigned of `Width` bits and wrap: the session's standard descriptors and
eventfds start at 0, and so does the root directory, which `open("/")` returns
as it is.  dup2 does not close what it overwrites; exit closes a node once
however many descriptors it has; a socket's own count is raised at each
vfs_open and lowered only at the last vfs_close.  The history variable `short`
counts the pointers to a node that were made without a count.  Once a pointer
dangles the kernel uses freed memory, and the model stops there (`Undefined`).

### Restrictions of the models

* Sched: enqueueing, removal and deferred freeing carry conditions on their
  callers that the code does not test (section 4).
* AddrSpace: one thread per address space (no CLONE_VM), no file, device or
  huge-page mappings, page-table frames are not counted, execve is one step
  although reading the file may yield (only the calling process sees its memory
  meanwhile).  An mmap without MAP_FIXED gets its pages from one region; the
  second region that `sys_mmap` turns to when the first is full is left out.
  What programs ask for is restricted as follows, in the inputs and not in the
  calls: breaks stay in `1..HeapEnd` and shared pages above it (`shared_brk`
  lifts this), MAP_FIXED asks for the pages `FixedPages`, mprotect is asked for
  pages that no other process shares and, where a page is mapped, not for
  PROT_NONE (`AsksMprotect`; `MprotectAny` lifts both), mremap for a range of
  one mapping (`AsksMremap`).
* FdTable: failing calls change nothing and are left out.
* Process: signals other than the fatal ones, process groups and threads of
  one address space are left out.

## 3. Runs

| Run | Checks | Instance |
|---|---|---|
| `sched_safety` | seven invariants of rings, current threads and deferred free | 3 CPUs, one offline; 2 idle and 2 other threads; clock up to 2 |
| `process_safety` | sibling lists, one reaper, live parents, no spinning reap, scheduler calls within their contract, exit is final, `SchedSpec` | session and two children, two CPUs, signals and out-of-memory kills |
| `process_liveness` | `Wait4Returns`, `NoStarvation` | session and one child |
| `wait4_second_scan` | `Wait4Returns`: violated | session and two children |
| `create_oom` | `LinkedOnce`: violated | stack allocation may fail |
| `futex` | no sleeper unlinked, no waiter off its stack, a wake overlooks nobody, timed waits end; the mutexes exclude, and their threads finish unless they wait in a circle | three threads, two words in one bucket; either calls in any order or the mutex test, with one thread in its second iteration |
| `futex_timeout` | `TimeoutReported`: violated | the same |
| `cow` | frames held, no private frame writable twice, `PrivateMemorySpec` | two processes, an image, a heap and a shared page, three frames; fork, brk, munmap, mmap, execve, exit |
| `mappings` | the same | three pages; shared and reserved mappings, mremap, mprotect, growing stack, fork, exit |
| `mprotect_after_fork` | `WritableUnshared`: violated | mprotect of any page |
| `shared_brk` | `FramesHeld`: violated | a shared page below the break |
| `descriptors` | a pointer dangles only where a count was left out; counts cover the other pointers | three processes, two descriptors each; the console, the root directory and one other node |

**Bounds, and why they were chosen.**  Two CPUs and two threads besides the idle
ones give rings of one to three threads and steps of two CPUs in any order; the
third CPU is there to be offline.  Two children are
needed for wait4 to find one zombie while another matters, and no step of a
reap involves more than a parent, a child and the thread deferred before.  A
clock bound (`MaxTicks`) of 1 or 2 distinguishes before a deadline from after
it; the clock saturates, and so does a deadline.  The process and mutex runs
arm no timeout and have the bound 0.  Two words in one bucket make a wake
skip waiters of another address.  Three frames make two processes with two
pages each run out of memory.  Two processes account for a count of 2; a fork
that fails half way leaks counts, and `MaxRef` 2 stops it from leaking more.
To stay within reach, each run gives the two processes different calls: in
`cow` the parent forks (or fails to), maps a shared page and waits while the
child moves its break, unmaps, executes and exits; in `mappings` the parent
maps, forks and waits while the child remaps, changes protections and exits.
Both processes read and write at any time.  A call of the child concurrent with
the same call of the parent is not covered.  Frames are interchangeable
(symmetry, used with safety properties only).  In the mutex program one thread
has two iterations and takes its second lock and yields in every other one, so
that locks are held alone and nested, and the two mutexes can be waited for in
a circle.  In `descriptors` nodes interact only through the slots of a table,
so one node that is freed and reused beside the persistent console and the root
shows each case; `MaxCount` bounds the leaks that dup2 and sockets accumulate,
`MaxShort` the pointers F_DUPFD makes.
All passing runs check for deadlock except `cow` and `mappings`, where all
processes may have died.

**Fairness** (`process_liveness`, `futex`).  The LAPIC keeps a
timer interrupt pending while interrupts are masked, so a CPU that unmasks
them again and again takes it: strong fairness of the tick.  Kernel code
dispatched again and again makes progress, since a time slice is longer than
any step: strong fairness per thread.  A context switch begun completes: weak
fairness.  User code owes nothing, except in the mutex program of `futex`,
where the loop of the test runs to its end.

### Findings

* `sys_wait4` stores BLOCKED after releasing `tid_lock`.  On its first pass
  interrupts are still masked; after a `sched_yield` they are on, and a child
  that exits between scan and store is not noticed
  (`syscalls/sys_process.c:358`, run `wait4_second_scan`).
* `sched_create_kernel_thread` frees a struct thread that it has linked into
  the sibling list (`sched/sched.c:178`, run `create_oom`).
* `futex_wait` cannot tell a timeout from a wake and returns 0 for both, where
  its comment and the test program expect -ETIMEDOUT
  (`syscalls/sys_futex.c:185`, run `futex_timeout`).
* `brk` frees the frames below the old break whatever mapping they belong to,
  also a shared one that another process maps (`syscalls/sys_mm.c:404`, run
  `shared_brk`).
* `mprotect` on a page that fork shares makes the shared frame writable
  (`syscalls/sys_mm.c:450`, run `mprotect_after_fork`).

Three calls leave a count short, and `descriptors` shows that nothing else
does: F_DUPFD does not call vfs_open (`syscalls/sys_io.c:863`), an eventfd
starts from count 0 (`syscalls/sys_io.c:1767`), and `open("/")` with close
frees the root directory under `fs_root` (`fs/vfs.c:195`, `fs/ext2.c:1841`).

## 4. Proofs

The TLA+ proof system checks, for any number of CPUs and threads and any clock:

* `SchedSafety`: `SchedSpec => []SchedInv`, and from it `SchedTypes`,
  `SchedQueuedOnce`, `SchedFreedUnused` and `SchedOneCpuPerThread`;
* `ProcTypes`: the types of the process layer, and that the pointers fork and
  reaping dereference are not NULL;
* `ProcImplementsSched`: `ProcSpec => SchedSpec`, and from it
  `ProcFreedUnused`.

Assumptions (`SchedAssumption`, `ProcessAssumption`): there is a CPU, the boot
CPU is online, every online CPU has its own idle thread, the session's thread
is not an idle thread, NULL is not a thread; the clock saturates at `MaxTicks`.

`SchedInv` is the inductive invariant.  No conjunct is inductive alone.
`QueuedOnce` is kept by enqueueing only because `sched_enqueue_thread`
receives a thread that is on no ring, which the code does not test: in `Sched`
it is a condition on the caller.  Removal and deferred freeing have such
conditions too.  The theorems take them as given; that the callers in `Process`
meet them, so that no guard silently disables a call, is the invariant
`SchedContract`, which is model-checked and not proved.  `CurrentQueued` needs `QueuedOnce` when
a thread is removed: removing an entry keeps every other thread on the ring
only if the thread is there once.  `IdleReady` provides that a blocked thread
can be left.  `FreedUnused` needs `CurrentQueued` (a thread off every ring is on
no CPU's stack) and `UnqueuedStates` (a deferred thread is ZOMBIE or DEAD, so
it is never enqueued again).  `OneCpuPerThread` is not a conjunct: two CPUs with one thread
would have it on two rings, against `QueuedOnce`.  Each action has a lemma
(`EnqueueInv`, `YieldInv`, `RemoveInv`, ...); `RingStaysOnQueue` says that the
walk of `sched_yield` never leaves the ring.

`ProcImplementsSched` maps every step of `Process` to one step of `Sched` or a
stutter; it needs `SchedInv` and `ProcTypeOK` to know that the arguments of
scheduler calls are threads.

Only model-checked: liveness (temporal reasoning under fairness is out of the
prover's reach), the sibling-list, reaper and contract invariants of `Process`, and
everything about `Futex`, `FutexMutex`, `AddrSpace` and `FdTable`.  What a
recursive definition computes cannot be proved by induction with the installed
provers; the proved modules use none.

## 5. Plan

1. **Wait queues, poll and eventfd** on `Sched`: sleeping on several queues,
   wake against timeout, an object freed under a sleeper.
2. **AF_UNIX sockets** on the wait queues and `FdTable`: connection set-up,
   ring buffers as a bounded FIFO (abstract specification: a stream), blocking
   send and receive, close.
3. **epoll**: ready list against notification, edge-triggered and one-shot
   modes, timeouts that `sched_yield` clears.
4. **TCP** over a link that loses, duplicates and reorders segments.
5. **Physical memory**: buddy lists and reference counts with two locks on two
   CPUs; **System V shared memory** and CLONE_VM on `AddrSpace`; the VMA tree
   and the buddy split and merge as algorithms against a reference set.
6. **Signals** against the blocking calls; **pseudo terminals**; the **ext3
   journal** with crashes between commit and checkpoint.
7. **Proofs**: `SchedContract` of `Process`, which removes the conditions on
   callers from what `ProcFreedUnused` assumes; `RefsCoverFds` and
   `DanglingIsShort` of `FdTable`; `SiblingLists`
   and `OneReaper` of `Process`; `SleepersLinked` and `WaitersOnStack` of
   `Futex`; `FramesHeld` and `WritableUnshared` of `AddrSpace`, then that
   `AddrSpace` implements `PrivateMemory`.

## 6. Not modelled

Console, framebuffer, fonts and the kernel shell (display and keyboard for a
person); ELF parsing and on-disk formats (data layout); ACPI, APIC, PCI and SMP
set-up (runs once, against hardware); storage, network, USB, audio, input and
virtio drivers (register-level code whose other half the source does not
describe); UDP, ARP, DHCP, DNS and ICMP (request and reply without lasting
state).  The parts named in section 5 are within reach and come next.

## Running

    tlc -workers 2 -config MCSched.cfg MCSched
    tlapm SchedProofs.tla

and likewise for the other rows of section 3; each passing run takes at most a
few minutes, a run marked violated ends with a counterexample.
