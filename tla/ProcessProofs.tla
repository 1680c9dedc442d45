--------------------------- MODULE ProcessProofs ---------------------------
(***************************************************************************)
(* Process implements Sched, for every set of threads and CPUs, so that    *)
(* everything SchedProofs proves holds of fork, exit, wait4 and reaping.   *)
(***************************************************************************)
EXTENDS Process, SchedProofs

LEMMA WithoutEntryType ==
  ASSUME NEW q \in Seq(Thread), NEW i \in 1 .. Len(q)
  PROVE  WithoutEntry(q, i) \in Seq(Thread)
<1> DEFINE r == [j \in 1 .. Len(q) - 1 |-> IF j < i THEN q[j] ELSE q[j + 1]]
<1>1. Len(q) \in Nat /\ Len(q) - 1 \in Nat
  OBVIOUS
<1>2. \A j \in 1 .. Len(q) - 1 : r[j] \in Thread
  BY <1>1
<1>3. r \in Seq(Thread)
  BY <1>1, <1>2
<1> QED
  BY <1>3 DEF WithoutEntry

LEMMA UnlinkType ==
  ASSUME NEW q \in Seq(Thread), NEW x
  PROVE  Unlink(q, x) \in Seq(Thread)
<1>1. CASE \E i \in 1 .. Len(q) : q[i] = x
  <2> DEFINE i == CHOOSE j \in 1 .. Len(q) : q[j] = x
  <2>1. i \in 1 .. Len(q)
    BY <1>1
  <2>2. Unlink(q, x) = WithoutEntry(q, i)
    BY <1>1 DEF Unlink
  <2> HIDE DEF i
  <2> QED
    BY <2>1, <2>2, WithoutEntryType
<1>2. CASE ~\E i \in 1 .. Len(q) : q[i] = x
  BY <1>2 DEF Unlink
<1> QED
  BY <1>1, <1>2

LEMMA InitIsThread == init \in Thread /\ init \in Idle /\ InitThread \in Thread
BY IdleFacts, CpuFacts, ProcessAssumption DEF init

LEMMA ProcInitInd == ProcInit => ProcTypeOK
BY InitIsThread, ProcessAssumption DEF ProcInit, ProcTypeOK, ProcShapes, HasSubject, Labels

(* sched_create_kernel_thread links the new thread under its creator.       *)
LEMMA LinkChildType ==
  ASSUME ProcShapes, NEW t \in Thread, NEW x \in Thread, LinkChild(t, x)
  PROVE  /\ parent' \in [Thread -> Thread \cup {NULL}]
         /\ children' \in [Thread -> Seq(Thread)]
<1>1. <<x>> \o children[t] \in Seq(Thread)
  BY DEF ProcShapes
<1> QED
  BY <1>1 DEF ProcShapes, LinkChild

(* Every step keeps the types, and names a subject before it is used.       *)
LEMMA ProcNextInd == ProcTypeOK /\ [ProcNext]_vars => ProcTypeOK'
<1> SUFFICES ASSUME ProcTypeOK, [ProcNext]_vars PROVE ProcTypeOK'
  OBVIOUS
<1> USE ProcessAssumption, InitIsThread
<1>1. CASE UNCHANGED procVars
  BY <1>1 DEF procVars, ProcTypeOK, ProcShapes, HasSubject
<1>2. CASE UNCHANGED vars
  BY <1>1, <1>2 DEF vars
<1>3. ASSUME NEW c \in Online, NEW t \in Thread,
             \/ BootEnqueue(c, t) \/ SyscallReturn(c, t)
             \/ ExitZombie(c, t) \/ ExitWake(c, t) \/ SignalExit(c, t)
             \/ Wait4Block(c, t) \/ Wait4Yield(c, t) \/ ForkFails(c, t)
      PROVE  ProcTypeOK'
  <2>1. /\ UNCHANGED <<parent, children, subject, want, nohang>>
        /\ \E l \in {"idle", "user", "exit_wake", "exit_yield", "exit_reparent",
                     "wait_yield", "wait_scan", "ret"} : Goto(t, l)
    BY <1>3 DEF BootEnqueue, SyscallReturn, ExitZombie, ExitWake, SignalExit,
                Wait4Block, Wait4Yield, ForkFails
  <2> QED
    BY <2>1 DEF ProcTypeOK, ProcShapes, HasSubject, Goto, Labels
<1>4. ASSUME NEW c \in Online, NEW t \in Thread, BootCreate(c, t) PROVE ProcTypeOK'
  BY <1>4, LinkChildType DEF BootCreate, ProcTypeOK, ProcShapes, HasSubject, Labels
<1>5. ASSUME NEW c \in Online, NEW t \in Thread, NEW x \in Thread,
             ForkCreate(c, t, x) PROVE ProcTypeOK'
  BY <1>5, LinkChildType DEF ForkCreate, ProcTypeOK, ProcShapes, HasSubject, Labels
<1>6. ASSUME NEW c \in Online, NEW t \in Thread, Syscall(c, t) PROVE ProcTypeOK'
  <2>1. UNCHANGED <<parent, children, subject>>
    BY <1>6 DEF Syscall
  <2>2. \E l \in {"fork_create", "exit_reparent", "wait_scan"} : Goto(t, l)
    BY <1>6 DEF Syscall
  <2>3. want' \in [Thread -> SUBSET Thread] /\ nohang' \in [Thread -> BOOLEAN]
    <3>1. \A w \in WaitTargets : w \in SUBSET Thread
      OBVIOUS
    <3>2. \/ UNCHANGED <<want, nohang>>
          \/ /\ \E w \in WaitTargets : want' = [want EXCEPT ![t] = w]
             /\ \E b \in BOOLEAN : nohang' = [nohang EXCEPT ![t] = b]
      BY <1>6 DEF Syscall
    <3>3. CASE UNCHANGED <<want, nohang>>
      BY <3>3 DEF ProcTypeOK, ProcShapes
    <3>4. ASSUME NEW w \in WaitTargets, want' = [want EXCEPT ![t] = w]
          PROVE  want' \in [Thread -> SUBSET Thread]
      BY <3>1, <3>4 DEF ProcTypeOK, ProcShapes
    <3>5. ASSUME NEW b \in BOOLEAN, nohang' = [nohang EXCEPT ![t] = b]
          PROVE  nohang' \in [Thread -> BOOLEAN]
      BY <3>5 DEF ProcTypeOK, ProcShapes
    <3> QED
      BY <3>2, <3>3, <3>4, <3>5
  <2>4. HasSubject' /\ pc' \in [Thread -> Labels]
    BY <2>1, <2>2 DEF Goto, ProcTypeOK, ProcShapes, HasSubject, Labels
  <2> QED
    BY <2>1, <2>3, <2>4 DEF ProcTypeOK, ProcShapes
<1>7. ASSUME NEW c \in Online, NEW t \in Thread,
             ForkEnqueue(c, t) \/ ReapDefer(c, t) PROVE ProcTypeOK'
  <2>1. /\ UNCHANGED <<parent, children, want, nohang>>
        /\ Goto(t, "ret")
        /\ subject' = [subject EXCEPT ![t] = NULL]
    BY <1>7 DEF ForkEnqueue, ReapDefer
  <2>2. subject' \in [Thread -> Thread \cup {NULL}]
    BY <2>1 DEF ProcTypeOK, ProcShapes
  <2>3. pc' \in [Thread -> Labels] /\ pc'[t] = "ret"
    BY <2>1 DEF Goto, ProcTypeOK, ProcShapes, Labels
  <2>4. \A x \in Thread \ {t} : pc'[x] = pc[x] /\ subject'[x] = subject[x]
    BY <2>1 DEF Goto, ProcTypeOK, ProcShapes
  <2>5. HasSubject'
    BY <2>3, <2>4 DEF ProcTypeOK, HasSubject
  <2> QED
    BY <2>1, <2>2, <2>3, <2>5 DEF ProcTypeOK, ProcShapes
<1>8. ASSUME NEW c \in Online, NEW t \in Thread, ExitReparent(c, t) PROVE ProcTypeOK'
  <2> DEFINE kids == children[t]
             n == Len(kids)
             rev == [i \in 1 .. n |-> kids[n + 1 - i]]
  <2>1. kids \in Seq(Thread) /\ n \in Nat
    BY DEF ProcTypeOK, ProcShapes
  <2>2. rev \in Seq(Thread)
    <3>1. \A i \in 1 .. n : kids[n + 1 - i] \in Thread
      BY <2>1
    <3> HIDE DEF n, kids
    <3> QED
      BY <2>1, <3>1
  <2>3. rev \o children[init] \in Seq(Thread)
    <3> HIDE DEF rev
    <3> QED
      BY <2>2 DEF ProcTypeOK, ProcShapes
  <2>4. children' \in [Thread -> Seq(Thread)]
    <3>1. children' = [children EXCEPT ![init] = rev \o @, ![t] = <<>>]
      BY <1>8 DEF ExitReparent
    <3>2. children \in [Thread -> Seq(Thread)] /\ <<>> \in Seq(Thread)
      BY DEF ProcTypeOK, ProcShapes
    <3> HIDE DEF rev
    <3>3. [children EXCEPT ![init] = rev \o @] \in [Thread -> Seq(Thread)]
      BY <2>3, <3>2
    <3> QED
      BY <3>1, <3>2, <3>3
  <2>5. parent' \in [Thread -> Thread \cup {NULL}]
    BY <1>8 DEF ExitReparent, ProcTypeOK, ProcShapes
  <2>6. /\ UNCHANGED <<subject, want, nohang>>
        /\ \E l \in {"user", "exit_zombie"} : Goto(t, l)
    BY <1>8 DEF ExitReparent
  <2> QED
    BY <2>4, <2>5, <2>6 DEF ProcTypeOK, ProcShapes, HasSubject, Goto, Labels
<1>9. ASSUME NEW c \in Online, NEW t \in Thread, Wait4Scan(c, t) PROVE ProcTypeOK'
  <2> DEFINE list == children[t]
  <2>1. list \in Seq(Thread)
    BY DEF ProcTypeOK, ProcShapes
  <2>2. want' \in [Thread -> SUBSET Thread] /\ nohang' \in [Thread -> BOOLEAN]
    BY <1>9 DEF Wait4Scan, ForgetArgs, ProcTypeOK, ProcShapes
  <2>3. parent' = parent
    BY <1>9 DEF Wait4Scan
  <2>4. CASE /\ \E l \in {"ret", "wait_block"} : Goto(t, l)
             /\ UNCHANGED <<children, subject>>
    BY <2>2, <2>3, <2>4 DEF Goto, ProcTypeOK, ProcShapes, HasSubject, Labels
  <2>5. CASE \E i \in 1 .. Len(list) :
               /\ children' = [children EXCEPT ![t] = WithoutEntry(@, i)]
               /\ subject' = [subject EXCEPT ![t] = list[i]]
               /\ Goto(t, "reap_queue")
    <3>1. PICK i \in 1 .. Len(list) :
               /\ children' = [children EXCEPT ![t] = WithoutEntry(@, i)]
               /\ subject' = [subject EXCEPT ![t] = list[i]]
               /\ Goto(t, "reap_queue")
      BY <2>5
    <3>2. WithoutEntry(list, i) \in Seq(Thread) /\ list[i] \in Thread
      BY <2>1, WithoutEntryType
    <3> QED
      BY <2>2, <2>3, <3>1, <3>2 DEF Goto, ProcTypeOK, ProcShapes, HasSubject, Labels
  <2> QED
    BY <1>9, <2>4, <2>5 DEF Wait4Scan
<1>10. ASSUME NEW c \in Online, NEW t \in Thread,
              ReapQueue(c, t) \/ ReapUnlink(c, t) \/ ReapFree(c, t) PROVE ProcTypeOK'
  <2>1. CASE ReapQueue(c, t)
    BY <2>1 DEF ReapQueue, At, Goto, ProcTypeOK, ProcShapes, HasSubject, Labels
  <2>2. CASE ReapUnlink(c, t)
    <3>1. subject[t] \in Thread
      BY <2>2 DEF ReapUnlink, At, ProcTypeOK, HasSubject
    <3>2. children' \in [Thread -> Seq(Thread)]
      <4>1. CASE parent[subject[t]] = NULL
        BY <2>2, <4>1 DEF ReapUnlink, ProcTypeOK, ProcShapes
      <4>2. CASE parent[subject[t]] # NULL
        <5>1. parent[subject[t]] \in Thread
          BY <3>1, <4>2 DEF ProcTypeOK, ProcShapes
        <5>2. Unlink(children[parent[subject[t]]], subject[t]) \in Seq(Thread)
          BY <5>1, UnlinkType DEF ProcTypeOK, ProcShapes
        <5> QED
          BY <2>2, <4>2, <5>2 DEF ReapUnlink, ProcTypeOK, ProcShapes
      <4> QED
        BY <4>1, <4>2
    <3> QED
      BY <2>2, <3>1, <3>2 DEF ReapUnlink, Goto, ProcTypeOK, ProcShapes, HasSubject, Labels
  <2>3. CASE ReapFree(c, t)
    BY <2>3 DEF ReapFree, At, ProcTypeOK, ProcShapes, HasSubject, Labels
  <2> QED
    BY <1>10, <2>1, <2>2, <2>3
<1>11. CASE ProcNext
  <2>1. PICK c \in Online :
          \/ Tick(c) \/ Switch(c)
          \/ \E t \in Thread : KernelStep(c, t) \/ Syscall(c, t)
                               \/ SignalExit(c, t) \/ PageFaultOom(c, t)
    BY <1>11 DEF ProcNext
  <2>2. CASE Tick(c) \/ Switch(c)
    BY <2>2, <1>1 DEF Tick, Switch
  <2>3. ASSUME NEW t \in Thread, KernelStep(c, t) PROVE ProcTypeOK'
    BY <2>3, <1>1, <1>3, <1>4, <1>5, <1>7, <1>8, <1>9, <1>10
       DEF KernelStep, ExitYield
  <2>4. ASSUME NEW t \in Thread, Syscall(c, t) \/ SignalExit(c, t) \/ PageFaultOom(c, t)
        PROVE  ProcTypeOK'
    BY <2>4, <1>1, <1>3, <1>6 DEF PageFaultOom
  <2> QED
    BY <2>1, <2>2, <2>3, <2>4
<1> QED
  BY <1>2, <1>11

(* Every step of Process is a step of Sched, or leaves it alone.            *)
LEMMA ProcStepImplements ==
  ASSUME SchedInv, ProcTypeOK, [ProcNext]_vars
  PROVE  [SchedNext]_schedVars
<1> USE ProcessAssumption, InitIsThread
<1>1. ASSUME NEW c \in Online, Tick(c) \/ Switch(c) PROVE SchedNext
  BY <1>1 DEF Tick, Switch, SchedNext
<1>2. ASSUME NEW c \in Online, NEW t \in Thread,
             \/ BootCreate(c, t)
             \/ \E x \in Thread : ForkCreate(c, t, x)
      PROVE  SchedNext
  BY <1>2 DEF BootCreate, ForkCreate, SchedNext
<1>3. ASSUME NEW c \in Online, NEW t \in Thread,
             BootEnqueue(c, t) \/ ForkEnqueue(c, t)
      PROVE  SchedNext
  <2>1. c \in 0 .. NCPU /\ BSP \in 0 .. NCPU
    BY SchedAssumption DEF CPU, BSP
  <2>2. \E x \in Thread, w \in 0 .. NCPU : sched_enqueue_thread(c, x, w)
    BY <1>3, <2>1 DEF BootEnqueue, ForkEnqueue, At, ProcTypeOK, HasSubject
  <2> QED
    BY <2>2 DEF SchedNext
<1>4. ASSUME NEW c \in Online, NEW t \in Thread,
             Syscall(c, t) \/ SyscallReturn(c, t)
      PROVE  SchedNext
  BY <1>4 DEF Syscall, SyscallReturn, SchedNext
<1>5. ASSUME NEW c \in Online, NEW t \in Thread,
             SignalExit(c, t) \/ ForkFails(c, t) \/ Wait4Scan(c, t) \/ ReapUnlink(c, t)
      PROVE  UNCHANGED schedVars
  BY <1>5 DEF SignalExit, ForkFails, Wait4Scan, ReapUnlink
<1>6. ASSUME NEW c \in Online, NEW t \in Thread, PageFaultOom(c, t) PROVE SchedNext
  BY <1>6 DEF PageFaultOom, SchedNext
<1>7. ASSUME NEW c \in Online, NEW t \in Thread, ExitReparent(c, t)
      PROVE  [SchedNext]_schedVars
  <2>1. CASE t = InitThread
    <3>1. SetIntr(c, TRUE)
      BY <1>7, <2>1 DEF ExitReparent, At, SetIntr
    <3> QED
      BY <3>1 DEF SchedNext
  <2>2. CASE t # InitThread
    BY <1>7, <2>2 DEF ExitReparent, schedVars
  <2> QED
    BY <2>1, <2>2
<1>8. ASSUME NEW c \in Online, NEW t \in Thread, ExitZombie(c, t) \/ Wait4Block(c, t)
      PROVE  SchedNext
  <2>1. wakeup_ticks[t] \in 0 .. MaxTicks
    BY DEF SchedInv, SchedTypeOK
  <2> QED
    <3>1. \E s \in OwnStates, d \in 0 .. MaxTicks : StoreOwnState(c, s, d)
      BY <1>8, <2>1 DEF ExitZombie, Wait4Block, OwnStates
    <3> QED
      BY <3>1 DEF SchedNext
<1>9. ASSUME NEW c \in Online, NEW t \in Thread, ExitWake(c, t)
      PROVE  [SchedNext]_schedVars
  <2>1. CASE parent[t] # NULL /\ state[parent[t]] = "BLOCKED"
    <3>1. parent[t] \in Thread
      BY <2>1 DEF ProcTypeOK, ProcShapes
    <3>2. wakeup_ticks[parent[t]] \in 0 .. MaxTicks
      BY <3>1 DEF SchedInv, SchedTypeOK
    <3> QED
      BY <1>9, <2>1, <3>1, <3>2 DEF ExitWake, SchedNext
  <2>2. CASE ~(parent[t] # NULL /\ state[parent[t]] = "BLOCKED")
    BY <1>9, <2>2 DEF ExitWake
  <2> QED
    BY <2>1, <2>2
<1>10. ASSUME NEW c \in Online, NEW t \in Thread, ExitYield(c, t) \/ Wait4Yield(c, t)
       PROVE  SchedNext
  BY <1>10 DEF ExitYield, Wait4Yield, SchedNext
<1>11. ASSUME NEW c \in Online, NEW t \in Thread,
              ReapQueue(c, t) \/ ReapFree(c, t) \/ ReapDefer(c, t)
       PROVE  [SchedNext]_schedVars
  <2>1. subject[t] \in Thread
    BY <1>11 DEF ReapQueue, ReapFree, ReapDefer, At, ProcTypeOK, HasSubject
  <2> QED
    BY <1>11, <2>1 DEF ReapQueue, ReapFree, ReapDefer, SchedNext
<1>12. CASE ProcNext
  BY <1>12, <1>1, <1>2, <1>3, <1>4, <1>5, <1>6, <1>7, <1>8, <1>9, <1>10, <1>11
     DEF ProcNext, KernelStep
<1>13. CASE UNCHANGED vars
  BY <1>13 DEF vars
<1> QED
  BY <1>12, <1>13

(* Types of the process layer, and a subject wherever fork or reaping       *)
(* dereferences one.                                                        *)
THEOREM ProcTypes == ProcSpec => []ProcTypeOK
BY ProcInitInd, ProcNextInd, PTL DEF ProcSpec

(* fork, exit, wait4 and reaping as sys_process.c and sched.c order them    *)
(* implement the scheduler specification: whatever holds of Sched (no       *)
(* thread linked twice, none freed in use, none on two CPUs) holds of them. *)
THEOREM ProcImplementsSched == ProcSpec => SchedSpec
<1>1. ProcInit => SchedInit
  BY DEF ProcInit
<1>2. SchedInv /\ [SchedNext]_schedVars => SchedInv'
  BY NextInv
<1>3. SchedInit => SchedInv
  BY InitInv
<1>4. SchedInv /\ ProcTypeOK /\ [ProcNext]_vars => [SchedNext]_schedVars
  BY ProcStepImplements
<1> QED
  BY <1>1, <1>2, <1>3, <1>4, ProcInitInd, ProcNextInd, PTL DEF ProcSpec, SchedSpec

(* Under fork, exit and wait4 no struct thread is freed while a CPU runs it *)
(* or is on its stack, or while it is linked in a ring.                     *)
THEOREM ProcFreedUnused == ProcSpec => []FreedUnused
BY ProcImplementsSched, SchedFreedUnused, PTL
=============================================================================
