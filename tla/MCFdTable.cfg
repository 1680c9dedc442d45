SPECIFICATION FdSpec
CONSTANTS
  p1 = p1
  p2 = p2
  p3 = p3
  con = con
  n1 = n1
  root = root
  Proc = {p1, p2, p3}
  Init1 = p1
  NFd = 2
  Std = {0}
  Node = {con, root, n1}
  Console = con
  Root = root
  None = None
  Width = 2
  MaxCount = 3
  MaxShort = 1
  Uncounted = {"F_DUPFD", "eventfd2", "open_root"}
SYMMETRY ProcSymmetry
INVARIANTS
  FdTypeOK
  DanglingIsShort
  RefsCoverFds
