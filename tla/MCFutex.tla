------------------------------ MODULE MCFutex ------------------------------
(* Three threads of one CPU, in two kinds of program.  "calls": one thread  *)
(* waits on x with a timeout or on y without, one waits on x, and one wakes *)
(* and makes unknown calls; both words are in one bucket, x is 0 or 1.      *)
(* "mutex": the threads of the mutex test, with two mutexes.                *)
EXTENDS FutexMutex, TLC
CONSTANTS idle0, a, b, c, x, y
VARIABLE program

MCIdleOf == (0 :> idle0)
MCThread == {idle0} \cup Worker
MCHome == [t \in Worker |-> 0]
MCLocks == <<x, y>>
MCId == (a :> 0) @@ (b :> 1) @@ (c :> 2)
MCIterations == (a :> 1) @@ (b :> 2) @@ (c :> 1)
MCBucketOf == (x :> 1) @@ (y :> 1)

Wait(ad, v, ms) == [op |-> "WAIT", addr |-> ad, val |-> v, timeout |-> ms]
Wake(ad, n) == [op |-> "WAKE", addr |-> ad, val |-> n]

MCCalls == (a :> {Wait(x, 0, 1), Wait(y, 0, NoTimeout)})
           @@ (b :> {Wait(x, 0, NoTimeout)})
           @@ (c :> {Wake(x, 1), Wake(x, 2), [op |-> "OTHER"]})

vars == <<program, mutexVars>>
Init == MutexInit /\ program \in {"calls", "mutex"}
Next ==
  /\ UNCHANGED program
  /\ \/ program = "calls" /\ FutexNext /\ UNCHANGED userVars 
        /\ word'[x] \in {0, 1} /\ word'[y] = 0
     \/ program = "mutex" /\ MutexNext

(* The fairness of FutexFairSpec and of MutexSpec.                          *)
Spec ==
  /\ Init /\ [][Next]_vars
  /\ \A cpu \in Online : SF_vars(Interrupt(cpu) /\ UNCHANGED program)
                         /\ WF_vars(SwitchStack(cpu) /\ UNCHANGED program)
  /\ \A t \in Worker :
       SF_vars(/\ UNCHANGED program
               /\ \E cpu \in Online : \/ KernelStep(cpu, t) /\ UNCHANGED userVars
                                      \/ program = "mutex" /\ UserStep(cpu, t))

(* The threads of the mutex test all finish, or wait in a circle            *)
(* (test_clone_futex_stress.c thread_worker, sys_futex.c).                  *)
MutexEnds == program = "mutex" => MutexProgress
=============================================================================
