----------------------------- MODULE MCProcess -----------------------------
(* The main session and the processes it forks, all on CPU 0: the kernel     *)
(* puts a child on its parent's CPU.  MCTwo adds a CPU, which stays idle.    *)
EXTENDS Process, TLC
CONSTANTS idle0, idle1, sh, a, b
MCIdleOf == (0 :> idle0)
MCTwoOnline == {0, 1}
MCTwoIdleOf == (0 :> idle0) @@ (1 :> idle1)
MCTwoThread == {idle0, idle1, sh, a, b}
MCThread == {idle0, sh, a, b}
MCThreadOne == {idle0, sh, a}
MCWaitTargets == {Thread, {a}}
MCWaitAny == {Thread}
Sym == Permutations({a, b})
=============================================================================
