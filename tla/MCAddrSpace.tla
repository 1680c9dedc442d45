----------------------------- MODULE MCAddrSpace -----------------------------
(* Small instances of AddrSpace for TLC. *)
EXTENDS AddrSpace, TLC
CONSTANT p1, p2

FrameSymmetry == Permutations(Frame)
(* The parent forks, maps a shared page and reaps; the child moves its      *)
(* break, unmaps, executes and exits.                                       *)
CowCalls == p1 :> {"fork", "fork fails", "mmap", "wait4"}
         @@ p2 :> {"munmap", "brk", "execve", "execve fails", "exit"}
CowMmaps == {<<"RW", TRUE, TRUE>>}

(* The parent forks, maps and reaps; the child remaps and changes           *)
(* protections.                                                             *)
MapCalls == p1 :> {"fork", "mmap", "wait4"} @@ p2 :> {"mremap", "mprotect", "exit"}
MapMmaps == {<<"RW", TRUE, TRUE>>, <<"R", FALSE, FALSE>>}

(* A child that changes the protection of its image after a fork.           *)
MprotectCalls == p1 :> {"fork"} @@ p2 :> {"mprotect"}

(* A shared mapping below the break, and a child that lowers its break.     *)
BrkCalls == p1 :> {"fork", "mmap"} @@ p2 :> {"brk"}
=============================================================================
