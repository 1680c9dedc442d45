------------------------------ MODULE MCSched ------------------------------
(* Two online CPUs of three, their idle threads, and two other threads.     *)
EXTENDS Sched, TLC
CONSTANTS idle0, idle1, t1, t2
MCIdleOf == (0 :> idle0) @@ (1 :> idle1)
MCOnline == {0, 1}
MCThread == {idle0, idle1, t1, t2}
MCOneThread == {idle0, idle1, t1}
Sym == Permutations({t1, t2})
=============================================================================
