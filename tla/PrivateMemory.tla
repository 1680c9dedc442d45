---------------------------- MODULE PrivateMemory ----------------------------
(***************************************************************************)
(* What an address space promises its process, whatever frames, page       *)
(* tables and reference counts implement it: private memory is an array of *)
(* pages that only the steps of its own process change.  A page that was   *)
(* never written reads as Zero; fork hands the child a copy; unmapping,    *)
(* exec and exit forget pages; mremap moves them.  Pages of MAP_SHARED     *)
(* mappings, and all pages of a process that does not run, read as Zero.   *)
(***************************************************************************)
EXTENDS Integers
CONSTANTS Proc, NPage, Val, Zero

VARIABLES mem,          \* mem[p][v]: what process p reads in its page v
          step          \* the last step's process, and what it did to memory

Page == 1..NPage
Blank == [v \in Page |-> Zero]
Kind == {"store", "forget", "copy", "move", "keep"}

PrivateInit == mem = [p \in Proc |-> Blank] /\ step \in Proc \X {"keep"} \X {<<>>}

\* The process stores x in one of its own pages.
Store(p, v, x) == mem' = [mem EXCEPT ![p][v] = x]

\* It gives up some of its pages (munmap, brk, execve, exit).
Forget(p, V) == mem' = [mem EXCEPT ![p] = [v \in Page |-> IF v \in V THEN Zero ELSE @[v]]]

\* It forks: the new process q starts with a copy of its memory.
Copy(p, q) == mem[q] = Blank /\ mem' = [mem EXCEPT ![q] = mem[p]]

\* It moves the n pages at o to the m pages at w; the added pages are zero.
Move(p, o, n, w, m) ==
    mem' = [mem EXCEPT ![p] = [v \in Page |->
              IF v \in w..(w + m - 1)
              THEN IF v - w < n THEN @[o + v - w] ELSE Zero
              ELSE IF v \in o..(o + n - 1) THEN Zero ELSE @[v]]]

Do(p, kind, arg) ==
    \/ kind = "keep" /\ UNCHANGED mem
    \/ kind = "store" /\ \E v \in Page, x \in Val : Store(p, v, x)
    \/ kind = "forget" /\ \E V \in SUBSET Page : Forget(p, V)
    \/ kind = "copy" /\ \E q \in Proc \ {p} : Copy(p, q)
    \/ kind = "move" /\ Move(p, arg[1], arg[2], arg[3], arg[4])

PrivateNext ==
    /\ step' \in Proc \X Kind \X ({<<>>} \cup (Page \X Page \X Page \X Page))
    /\ Do(step'[1], step'[2], step'[3])

PrivateSpec == PrivateInit /\ [][PrivateNext]_<<mem, step>>
=============================================================================
