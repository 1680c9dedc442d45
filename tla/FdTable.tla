------------------------------ MODULE FdTable ------------------------------
(***************************************************************************)
(* Descriptor tables and the reference counts behind them.  A descriptor   *)
(* is a pointer to a vfs_node_t (fs/vfs.c); vfs_open and vfs_close count   *)
(* the descriptors of a node, and a node whose count falls to 0 is freed   *)
(* unless it is persistent.  A socket has a second count of its own        *)
(* (socket/socket.c), raised by every vfs_open of its node and lowered     *)
(* when the node is closed for the last time.                              *)
(*                                                                         *)
(* A system call is one step: it runs with interrupts masked, and no two   *)
(* threads share a table (CLONE_FILES copies it).                          *)
(***************************************************************************)
EXTENDS Integers, FiniteSets, FiniteSetsExt, Functions

CONSTANTS Proc,      \* processes
          Init1,     \* the main session
          NFd,       \* MAX_FDS
          Std,       \* the descriptors a session starts with: 0, 1 and 2
          Node,      \* addresses of vfs_node_t structures
          Console,   \* a persistent node: a device, a ramfs or procfs node
          Root,      \* the node fs_root points to
          None,      \* a NULL pointer
          Width,     \* a count is an unsigned integer of Width bits
          MaxCount,  \* bound on the counts vfs_open raises, of nodes that can be freed
          MaxShort,  \* bound on the pointers to a node made without a count
          Uncounted  \* the calls of UncountedCalls that programs make

Fd == 0 .. NFd - 1
Wrap == 2 ^ Width

(* The calls that leave the count of a node short: fcntl(F_DUPFD) does not  *)
(* call vfs_open, an eventfd starts from 0 with a descriptor, and so does   *)
(* the root directory, which fs_root points to: open("/") and close free    *)
(* it.                                                                      *)
UncountedCalls == {"F_DUPFD", "eventfd2", "open_root"}

ASSUME FdAssumption ==
  /\ IsFiniteSet(Proc) /\ IsFiniteSet(Node)
  /\ Init1 \in Proc /\ None \notin Node
  /\ Console \in Node /\ Root \in Node \ {Console}
  /\ NFd \in Nat \ {0} /\ Std \subseteq Fd
  /\ Width \in Nat /\ Wrap \in Nat
  /\ MaxCount \in Nat \ {0, 1} /\ MaxCount < Wrap
  /\ MaxShort \in Nat \ {0} /\ Uncounted \subseteq UncountedCalls

VARIABLES
  alive,     \* the processes that have not exited
  fds,       \* process -> descriptor -> node
  kind,      \* what lives at each node address; "free" after kfree
  refcount,  \* node->refcount
  sockrefs,  \* sock->refcount of the socket behind a node; 0: destroyed
  short      \* history: the pointers to a node that were made without a count

fdVars == <<alive, fds, kind, refcount, sockrefs, short>>

Kind == {"free", "console", "root", "file", "eventfd", "socket"}
Persistent(n) == kind[n] = "console"
NoFds == [fd \in Fd |-> None]
SessionFds == [fd \in Fd |-> IF fd \in Std THEN Console ELSE None]

(* The number of descriptors that refer to n, in one table and in all.      *)
Uses(table, n) == Cardinality({fd \in Fd : table[fd] = n})
AllUses(n) == Cardinality({u \in alive \X Fd : fds[u[1]][u[2]] = n})

(* The process starts with descriptors that vfs_open never counted, and so  *)
(* does the kernel with fs_root.                                            *)
FdInit ==
  /\ alive = {Init1}
  /\ fds = [p \in Proc |-> IF p = Init1 THEN SessionFds ELSE NoFds]
  /\ kind = [n \in Node |-> IF n = Console THEN "console"
                            ELSE IF n = Root THEN "root" ELSE "free"]
  /\ refcount = [n \in Node |-> 0]
  /\ sockrefs = [n \in Node |-> 0]
  /\ short = [n \in Node |-> IF n = Root THEN 1 ELSE 0]

(* alloc_fd: the lowest free descriptor.                                    *)
Unused(p) == {fd \in Fd : fds[p][fd] = None}
AllocFd(p) == Min(Unused(p))

(* k[n] calls of vfs_open for every node n.                                 *)
VfsOpen(k) ==
  /\ \A n \in Node : k[n] > 0 /\ ~Persistent(n) =>
       refcount[n] + k[n] <= MaxCount /\ sockrefs[n] + k[n] <= MaxCount
  /\ refcount' = [n \in Node |-> (refcount[n] + k[n]) % Wrap]
  /\ sockrefs' = [n \in Node |-> IF kind[n] = "socket" THEN sockrefs[n] + k[n]
                                                       ELSE sockrefs[n]]
  /\ UNCHANGED <<kind, short>>

Once(m) == [n \in Node |-> IF n = m THEN 1 ELSE 0]

\* Faulty variant: the count is a signed integer.
VfsCloseSigned(S) ==
  LET last == {n \in S : refcount[n] = 1} IN
  /\ refcount' = [n \in Node |-> IF n \in S THEN refcount[n] - 1 ELSE refcount[n]]
  /\ kind' = [n \in Node |-> IF n \in last /\ ~Persistent(n) THEN "free" ELSE kind[n]]
  /\ sockrefs' = [n \in Node |-> IF n \in last /\ kind[n] = "socket" THEN sockrefs[n] - 1
                                                                  ELSE sockrefs[n]]
  /\ UNCHANGED short

(* vfs_close of every node of S.  eventfd_close frees the node by itself    *)
(* and vfs_close frees it again; both are the step to "free".               *)
VfsClose(S) ==
  LET last == {n \in S : refcount[n] = 1} IN
  /\ refcount' = [n \in Node |-> IF n \in S THEN (refcount[n] - 1) % Wrap ELSE refcount[n]]
  /\ kind' = [n \in Node |-> IF n \in last /\ ~Persistent(n) THEN "free" ELSE kind[n]]
  /\ sockrefs' = [n \in Node |-> IF n \in last /\ kind[n] = "socket" THEN sockrefs[n] - 1
                                                                  ELSE sockrefs[n]]
  /\ UNCHANGED short

(* A new node of the given kind at a free address, with its counts and the  *)
(* descriptors they leave out.                                              *)
NewNode(n, k, refs, srefs, left) ==
  /\ kind[n] = "free"
  /\ kind' = [kind EXCEPT ![n] = k]
  /\ refcount' = [refcount EXCEPT ![n] = refs]
  /\ sockrefs' = [sockrefs EXCEPT ![n] = srefs]
  /\ short' = [short EXCEPT ![n] = left]

SetFd(p, fd, n) == fds' = [fds EXCEPT ![p][fd] = n]

-----------------------------------------------------------------------------
sys_pipe2(p) ==
  /\ Cardinality(Unused(p)) >= 2
  /\ \E n \in Node :
       /\ NewNode(n, "file", 2, 0, 0)
       /\ LET r == AllocFd(p)
              w == Min(Unused(p) \ {r})
          IN  fds' = [fds EXCEPT ![p] = [@ EXCEPT ![r] = n, ![w] = n]]
  /\ UNCHANGED alive

sys_eventfd2(p) ==
  /\ "eventfd2" \in Uncounted
  /\ Unused(p) # {}
  /\ \E n \in Node : NewNode(n, "eventfd", 0, 0, 1) /\ SetFd(p, AllocFd(p), n)
  /\ UNCHANGED alive

\* Faulty variant: the node takes no reference of its own on the socket.
SocketPutTwice(p) ==
  /\ Unused(p) # {}
  /\ \E n \in Node : NewNode(n, "socket", 1, 0, 0) /\ SetFd(p, AllocFd(p), n)
  /\ UNCHANGED alive

(* socket_alloc_fd opens the node, which takes a second reference on the    *)
(* socket, and drops the reference of its creation.                         *)
sys_socket(p) ==
  /\ Unused(p) # {}
  /\ \E n \in Node : NewNode(n, "socket", 1, 1, 0) /\ SetFd(p, AllocFd(p), n)
  /\ UNCHANGED alive

(* do_sys_open, by the node it finds.  A registered device, and whatever    *)
(* lives on ramfs or procfs or is a mount point, is one persistent node.    *)
OpenDevice(p) ==
  /\ Unused(p) # {}
  /\ SetFd(p, AllocFd(p), Console)
  /\ VfsOpen(Once(Console))
  /\ UNCHANGED alive

(* The path of the root directory leads to the node of fs_root itself.      *)
OpenRoot(p) ==
  /\ "open_root" \in Uncounted
  /\ Unused(p) # {}
  /\ SetFd(p, AllocFd(p), Root)
  /\ VfsOpen(Once(Root))
  /\ UNCHANGED alive

(* Any other lookup on the disk, /dev/ptmx and /dev/pts/N allocate a node   *)
(* for every open.                                                          *)
OpenFile(p) ==
  /\ Unused(p) # {}
  /\ \E n \in Node : NewNode(n, "file", 1, 0, 0) /\ SetFd(p, AllocFd(p), n)
  /\ UNCHANGED alive

sys_dup(p, old) ==
  LET n == fds[p][old] IN
  /\ n # None
  /\ Unused(p) # {}
  /\ SetFd(p, AllocFd(p), n)
  /\ VfsOpen(Once(n))
  /\ UNCHANGED alive

(* The node that new referred to is not closed.                             *)
sys_dup2(p, old, new) ==
  LET n == fds[p][old] IN
  /\ n # None
  /\ SetFd(p, new, n)
  /\ VfsOpen(Once(n))
  /\ UNCHANGED alive

F_DUPFD(p, old, arg) ==
  LET n == fds[p][old]
      fit == {fd \in Unused(p) : fd >= arg}
  IN
  /\ n # None
  /\ Persistent(n) \/ ("F_DUPFD" \in Uncounted /\ short[n] < MaxShort)
  /\ fit # {}
  /\ SetFd(p, Min(fit), n)
  /\ short' = IF Persistent(n) THEN short ELSE [short EXCEPT ![n] = @ + 1]
  /\ UNCHANGED <<alive, kind, refcount, sockrefs>>

sys_close(p, fd) ==
  /\ fds[p][fd] # None
  /\ VfsClose({fds[p][fd]})
  /\ SetFd(p, fd, None)
  /\ UNCHANGED alive

\* Faulty variant: one vfs_open per node, as exit has one vfs_close per node.
ForkOpensNodesOnce(p, q) ==
  /\ q \notin alive
  /\ fds' = [fds EXCEPT ![q] = fds[p]]
  /\ VfsOpen([n \in Node |-> IF Uses(fds[p], n) > 0 THEN 1 ELSE 0])
  /\ alive' = alive \cup {q}

(* The child's table is a copy; every descriptor of it is counted.          *)
sys_fork(p, q) ==
  /\ q \notin alive
  /\ fds' = [fds EXCEPT ![q] = fds[p]]
  /\ VfsOpen([n \in Node |-> Uses(fds[p], n)])
  /\ alive' = alive \cup {q}

(* Every node is closed once, however many descriptors refer to it.  The    *)
(* main session starts over with a new table.                               *)
process_do_exit(p) ==
  /\ VfsClose(Range(fds[p]) \ {None})
  /\ fds' = [fds EXCEPT ![p] = IF p = Init1 THEN SessionFds ELSE NoFds]
  /\ alive' = IF p = Init1 THEN alive ELSE alive \ {p}

(* No descriptor dangles: the node it refers to (fs/vfs.c vfs_close) and    *)
(* the socket behind it (socket/socket.c socket_put) are allocated.         *)
FdLive(p, fd) ==
  LET n == fds[p][fd] IN
  n # None => kind[n] # "free" /\ (kind[n] = "socket" => sockrefs[n] > 0)

(* vfs.h:104, "Reference count for memory management": no descriptor and    *)
(* no root directory dangles, whatever is opened, duplicated, closed, or    *)
(* left open by a process that exits.                                       *)
OpenNodesLive ==
  kind[Root] # "free" /\ \A p \in alive, fd \in Fd : FdLive(p, fd)

(* With a dangling pointer the kernel uses freed memory: what it does then  *)
(* is not modelled.                                                         *)
Undefined == ~OpenNodesLive /\ UNCHANGED fdVars

FdNext ==
  \/ Undefined
  \/ OpenNodesLive /\ \E p \in alive :
       \/ sys_pipe2(p) \/ sys_eventfd2(p) \/ sys_socket(p)
       \/ OpenDevice(p) \/ OpenRoot(p) \/ OpenFile(p)
       \/ \E fd \in Fd : sys_dup(p, fd) \/ sys_close(p, fd)
       \/ \E old, new \in Fd : sys_dup2(p, old, new) \/ F_DUPFD(p, old, new)
       \/ \E q \in Proc : sys_fork(p, q)
       \/ process_do_exit(p)

FdSpec == FdInit /\ [][FdNext]_fdVars

-----------------------------------------------------------------------------
(* Type invariant of the descriptor tables, nodes and counts.               *)
FdTypeOK ==
  /\ alive \subseteq Proc /\ Init1 \in alive
  /\ fds \in [Proc -> [Fd -> Node \cup {None}]]
  /\ kind \in [Node -> Kind]
  /\ refcount \in [Node -> 0 .. Wrap - 1]
  /\ sockrefs \in [Node -> Nat]
  /\ short \in [Node -> Nat]

(* Every pointer that dangles is owed to a pointer made without a count, by *)
(* F_DUPFD, eventfd2 or fs_root: dup, dup2, fork, close and exit, in any    *)
(* order and in all the processes that share a node, are balanced.          *)
DanglingIsShort ==
  /\ kind[Root] = "free" => short[Root] > 0
  /\ \A p \in alive, fd \in Fd : ~FdLive(p, fd) => short[fds[p][fd]] > 0

(* The counts fall short by nothing else: a node that can be freed has a    *)
(* count for each of the pointers to it but those made without one          *)
(* (vfs_open in dup, dup2 and fork pairs with vfs_close in close and exit), *)
(* and a socket at least as many references as its node.                    *)
RefsCoverFds ==
  OpenNodesLive =>
    \A n \in Node :
      /\ kind[n] \notin {"free", "console"} =>
           refcount[n] + short[n] >= AllUses(n) + (IF n = Root THEN 1 ELSE 0)
      /\ kind[n] = "socket" => sockrefs[n] >= refcount[n]

(* What the descriptors of all processes rest on: their tables are well     *)
(* formed, no count falls short but for the calls that do not count, and    *)
(* nothing else makes a descriptor dangle (fs/vfs.c, socket/socket.c).      *)
FdSafe == FdTypeOK /\ DanglingIsShort /\ RefsCoverFds
=============================================================================
