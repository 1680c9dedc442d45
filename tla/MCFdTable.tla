----------------------------- MODULE MCFdTable -----------------------------
EXTENDS FdTable, TLC

CONSTANTS p1, p2, p3, con, root, n1

(* The processes other than the main session are interchangeable.           *)
ProcSymmetry == Permutations({p2, p3})
=============================================================================
