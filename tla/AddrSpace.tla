------------------------------ MODULE AddrSpace ------------------------------
(***************************************************************************)
(* User address spaces: page tables, VMAs, frame reference counts, demand  *)
(* paging and copy-on-write (mm/vmm.c, mm/vma.c, mm/pmm.c), and the system *)
(* calls that change them (syscalls/sys_mm.c, sys_process.c).  One thread  *)
(* per address space: sharing one through CLONE_VM is not modelled here.   *)
(*                                                                         *)
(* Every operation runs with interrupts disabled up to its last effect on  *)
(* this state, and user processes live on one CPU, so each is one step.    *)
(* Page-table frames are not counted: running out of them is the           *)
(* nondeterministic failure of ForkOom.                                    *)
(***************************************************************************)
EXTENDS Integers, FiniteSets
CONSTANTS Proc, Init1,          \* processes; the one the kernel starts
          NPage,                \* pages 1..NPage of a user address space
          ImagePages,           \* the pages an ELF image's segments take
          StackPages,           \* the pages elf_load maps as initial stack
          HeapEnd,              \* the programs' breaks stay in 1..HeapEnd
          MmapPages,            \* [MMAP_REGION_BASE, MMAP_REGION_LIMIT)
          MaxStack,             \* 8 MB limit of a growing stack, in pages
          Frame, Val, Zero,     \* frames, and what a page can hold
          MaxRef,               \* cap on a reference count (forks that fail)
          MprotectAny,          \* do programs mprotect pages that fork shares?
          Calls,                \* Calls[p]: the calls that process p makes
          Mmaps,                \* <<prot, shared, fixed>> of the mmap calls made
          FixedPages,           \* the pages they ask for with MAP_FIXED
          Mprots,               \* the protections asked of mprotect
          None

VARIABLES life,         \* life[p]: "none", "run", "zombie" or "dead"
          pt,           \* pt[p][v]: the page table entry, None if not present
          vmas,         \* vmas[p][v]: attributes of the VMA over page v, or None
          brk,          \* brk[p]: mm->brk_base and mm->brk_current, as pages
          refcounts,    \* pmm.c's reference count of each frame
          content,      \* what each frame holds
          step          \* the last step's process, and what it did to memory

vars == <<life, pt, vmas, brk, refcounts, content, step>>

Page == 1..NPage
Prot == {"NONE", "R", "RW"}
Pte == [frame : Frame, user : BOOLEAN, rw : BOOLEAN, cow : BOOLEAN]
Vma == [prot : Prot, shared : BOOLEAN, anon : BOOLEAN, grow : BOOLEAN]

ASSUME AddrSpaceAssumption ==
    /\ IsFiniteSet(Proc) /\ IsFiniteSet(Frame) /\ Init1 \in Proc /\ NPage \in Nat \ {0} /\ Zero \in Val
    /\ ImagePages \subseteq Page /\ StackPages \subseteq Page /\ MmapPages \subseteq Page
    /\ ImagePages \cap StackPages = {}
    /\ HeapEnd \in 0..(NPage + 1) /\ MaxStack \in Nat /\ MaxRef \in Nat \ {0}
    /\ MprotectAny \in BOOLEAN /\ Mprots \subseteq Prot
    /\ Mmaps \subseteq Prot \X BOOLEAN \X BOOLEAN /\ FixedPages \subseteq Page
    /\ None \notin Pte /\ None \notin Vma

-----------------------------------------------------------------------------
(* Helpers *)

Unmapped == [v \in Page |-> None]
Span(a, n) == {v \in Page : a <= v /\ v < a + n}

\* Frames a pmm_alloc can return.
Free == {f \in Frame : refcounts[f] = 0}

\* Every way to give each page of V a frame of its own.
Allocations(V) == {a \in [V -> Free] : \A v, w \in V : a[v] = a[w] => v = w}

\* build_page_flags and dp_build_flags; vmm_map_page adds PRESENT.
Entry(f, prot) == [frame |-> f, user |-> prot # "NONE", rw |-> prot = "RW", cow |-> FALSE]

Shared(p, v) == vmas[p][v] # None /\ vmas[p][v].shared
Anonymous(p, v) == vmas[p][v] # None /\ ~vmas[p][v].shared /\ vmas[p][v].anon

\* The reference counts after a pmm_free of the frame under each page of V.
Released(p, V) ==
    [f \in Frame |->
       LET n == Cardinality({v \in V : pt[p][v] # None /\ pt[p][v].frame = f})
       IN  IF refcounts[f] > n THEN refcounts[f] - n ELSE 0]

\* What frames hold once their counts are refs: the buddy allocator writes
\* its block header over a freed frame, which no mapping reads any more.
Wiped(refs) == [f \in Frame |-> IF refs[f] = 0 THEN Zero ELSE content[f]]

\* The end of the address space of p: vmm_free_user_pages_vma.
FreeUserPages(p) == Released(p, {v \in Page : ~Shared(p, v)})

\* The page table of p after V's entries were cleared.
Cleared(p, V) == [v \in Page |-> IF v \in V THEN None ELSE pt[p][v]]

\* The VMAs of p after vma_remove on V, and after vma_add of a region.
VmaRemove(p, V) == [v \in Page |-> IF v \in V THEN None ELSE vmas[p][v]]
VmaAdd(vs, V, r) ==
    IF \E v \in V : vs[v] # None THEN vs ELSE [v \in Page |-> IF v \in V THEN r ELSE vs[v]]

\* Faulty variant: frees shared frames too.
TeardownAll(p, V) == Released(p, V)

\* teardown_range frees only the frames of private anonymous VMAs.
Teardown(p, V) == Released(p, {v \in V : Anonymous(p, v)})

AnonPrivate(prot) == [prot |-> prot, shared |-> FALSE, anon |-> TRUE, grow |-> FALSE]
StackVma == [prot |-> "RW", shared |-> FALSE, anon |-> TRUE, grow |-> TRUE]
ImageVma == [prot |-> "RW", shared |-> FALSE, anon |-> FALSE, grow |-> FALSE]

ImageEnd == CHOOSE e \in 1..(NPage + 1) :
               /\ \A v \in ImagePages : v < e
               /\ \A d \in 1..(NPage + 1) : (\A v \in ImagePages : v < d) => e <= d

\* The breaks start behind the image and stay below the region of mmap.
ASSUME LayoutAssumption ==
    ImageEnd <= HeapEnd /\ \A v \in MmapPages : HeapEnd <= v

-----------------------------------------------------------------------------
(* elf_load: a fresh image and stack, every page allocated and zeroed.     *)

LoadedVmas == [v \in Page |-> CASE v \in ImagePages -> ImageVma
                                [] v \in StackPages -> StackVma
                                [] OTHER -> None]
LoadedPt(a) == [v \in Page |-> IF v \in DOMAIN a THEN Entry(a[v], "RW") ELSE None]

AddrSpaceInit ==
    \E a \in {g \in [ImagePages \cup StackPages -> Frame] :
                 \A v, w \in DOMAIN g : g[v] = g[w] => v = w} :
       /\ life = [p \in Proc |-> IF p = Init1 THEN "run" ELSE "none"]
       /\ pt = [p \in Proc |-> IF p = Init1 THEN LoadedPt(a) ELSE Unmapped]
       /\ vmas = [p \in Proc |-> IF p = Init1 THEN LoadedVmas ELSE Unmapped]
       /\ brk = [p \in Proc |-> IF p = Init1 THEN [base |-> ImageEnd, current |-> ImageEnd]
                                             ELSE [base |-> 0, current |-> 0]]
       /\ refcounts = [f \in Frame |-> IF \E v \in DOMAIN a : a[v] = f THEN 1 ELSE 0]
       /\ content = [f \in Frame |-> Zero]
       /\ step = <<Init1, "keep", <<>>>>

\* A step of process p: it stores to a page, forgets pages, copies them to a
\* child, moves them, or keeps the contents of its memory as they are.
Kind == {"store", "forget", "copy", "move", "keep"}
Step(p, kind) == life[p] = "run" /\ step' = <<p, kind, <<>>>>
MoveStep(p, o, n, w, m) == life[p] = "run" /\ step' = <<p, "move", <<o, n, w, m>>>>

\* A store by user code that the page table allows.
UserStore(p, v, x) ==
    /\ Step(p, "store")
    /\ pt[p][v] # None /\ pt[p][v].user /\ pt[p][v].rw
    /\ content' = [content EXCEPT ![pt[p][v].frame] = x]
    /\ UNCHANGED <<life, pt, vmas, brk, refcounts>>

\* Faulty variant: makes the page writable whoever else maps its frame.
CowPromotes(p, v) ==
    /\ Step(p, "keep")
    /\ pt[p][v] # None /\ pt[p][v].cow
    /\ pt' = [pt EXCEPT ![p][v].cow = FALSE, ![p][v].rw = TRUE]
    /\ UNCHANGED <<life, vmas, brk, content, refcounts>>

\* A write to a copy-on-write page: copy it while other references exist,
\* else make it writable.  (With no frame left the fault is a SIGSEGV.)
CowFault(p, v) ==
    /\ Step(p, "keep")
    /\ pt[p][v] # None /\ pt[p][v].cow
    /\ LET old == pt[p][v].frame IN
       \/ /\ refcounts[old] > 1
          /\ \E f \in Free :
                /\ content' = [content EXCEPT ![f] = content[old]]
                /\ pt' = [pt EXCEPT ![p][v] = [@ EXCEPT !.frame = f, !.cow = FALSE, !.rw = TRUE]]
                /\ refcounts' = [refcounts EXCEPT ![f] = 1, ![old] = @ - 1]
       \/ /\ refcounts[old] <= 1
          /\ pt' = [pt EXCEPT ![p][v].cow = FALSE, ![p][v].rw = TRUE]
          /\ UNCHANGED <<content, refcounts>>
    /\ UNCHANGED <<life, vmas, brk>>

\* The VMA a fault at v is served by: the one over v, or a MAP_GROWSDOWN one
\* above it, grown down to v.
GrowsTo(p, v, s) ==
    /\ v < s /\ vmas[p][s] # None /\ vmas[p][s].grow
    /\ \A w \in v..(s - 1) : vmas[p][w] = None
    /\ \E e \in (s + 1)..(NPage + 1) :
          /\ \A w \in s..(e - 1) : vmas[p][w] = vmas[p][s]
          /\ e \in Page => vmas[p][e] # vmas[p][s]
          /\ v >= e - MaxStack
FaultVmas(p, v) ==
    IF vmas[p][v] # None THEN {vmas[p]}
    ELSE {[w \in Page |-> IF w \in v..(s - 1) THEN vmas[p][s] ELSE vmas[p][w]] :
            s \in {t \in Page : GrowsTo(p, v, t)}}

\* A fault on a page that is not present: a zeroed frame, mapped as the VMA
\* says; with no frame left the thread is terminated where it stands.
DemandFault(p, v, write) ==
    /\ pt[p][v] = None
    /\ \E vs \in FaultVmas(p, v) :
       LET granted == vs[v].prot = "RW" \/ (~write /\ vs[v].prot = "R") IN
          /\ vmas' = [vmas EXCEPT ![p] = vs]
          /\ \/ /\ ~granted                              \* SIGSEGV
                /\ Step(p, "keep")
                /\ UNCHANGED <<life, pt, refcounts, content>>
             \/ /\ granted
                /\ Step(p, "keep")
                /\ \E f \in Free :
                      /\ pt' = [pt EXCEPT ![p][v] = Entry(f, vs[v].prot)]
                      /\ refcounts' = [refcounts EXCEPT ![f] = 1]
                      /\ content' = [content EXCEPT ![f] = Zero]
                /\ UNCHANGED life
             \/ /\ granted /\ Free = {}
                /\ Step(p, "forget")
                /\ life' = [life EXCEPT ![p] = "dead"]
                /\ UNCHANGED <<pt, refcounts, content>>
    /\ UNCHANGED brk

-----------------------------------------------------------------------------
(* syscalls/sys_mm.c *)

\* mmap of anonymous memory: MAP_FIXED replaces what is there, wherever that
\* is; else a gap of the region.  (With no gap mm_alloc_mmap_region can only
\* name pages that vma_add refuses: nothing changes.)
sys_mmap(p, a, n, prot, shared, fixed) ==
    LET V == Span(a, n)
        r == [AnonPrivate(prot) EXCEPT !.shared = shared] IN
    /\ Step(p, "forget")
    /\ a + n - 1 \in Page
    /\ \/ /\ fixed
          /\ refcounts' = Teardown(p, V)
          /\ pt' = [pt EXCEPT ![p] = Cleared(p, V)]
          /\ vmas' = [vmas EXCEPT ![p] = VmaAdd(VmaRemove(p, V), V, r)]
       \/ /\ ~fixed /\ V \subseteq MmapPages
          /\ \A v \in V : vmas[p][v] = None
          /\ vmas' = [vmas EXCEPT ![p] = VmaAdd(vmas[p], V, r)]
          /\ UNCHANGED <<refcounts, pt>>
    /\ content' = Wiped(refcounts')
    /\ UNCHANGED <<life, brk>>

\* Only the first page has to be covered by a VMA.
sys_munmap(p, a, n) ==
    LET V == Span(a, n) IN
    /\ Step(p, "forget")
    /\ a + n - 1 \in Page /\ vmas[p][a] # None
    /\ refcounts' = Teardown(p, V)
    /\ pt' = [pt EXCEPT ![p] = Cleared(p, V)]
    /\ vmas' = [vmas EXCEPT ![p] = VmaRemove(p, V)]
    /\ content' = Wiped(refcounts')
    /\ UNCHANGED <<life, brk>>

\* Faulty variant: the new break is one page too high.
BrkOffByOne(p, addr) ==
    /\ Step(p, "forget")
    /\ addr > brk[p].current
    /\ vmas' = [vmas EXCEPT ![p] =
                   VmaAdd(@, Span(brk[p].current, addr - brk[p].current), AnonPrivate("RW"))]
    /\ brk' = [brk EXCEPT ![p].current = addr + 1]
    /\ UNCHANGED <<life, pt, refcounts, content>>

\* Growing ignores a failing vma_add; shrinking frees whatever is mapped.
sys_brk(p, addr) ==
    LET cur == brk[p].current IN
    /\ Step(p, "forget")
    /\ \/ /\ addr > cur
          /\ vmas' = [vmas EXCEPT ![p] = VmaAdd(@, Span(cur, addr - cur), AnonPrivate("RW"))]
          /\ UNCHANGED <<pt, refcounts>>
       \/ /\ addr < cur /\ addr >= brk[p].base
          /\ LET V == Span(addr, cur - addr) IN
             /\ refcounts' = Released(p, V)
             /\ pt' = [pt EXCEPT ![p] = Cleared(p, V)]
             /\ vmas' = [vmas EXCEPT ![p] = VmaRemove(p, V)]
    /\ brk' = [brk EXCEPT ![p].current = addr]
    /\ content' = Wiped(refcounts')
    /\ UNCHANGED life

\* Every mapped page is unmapped and mapped again with fresh flags.  The range
\* has no hole: behind one vma_mprotect goes on at some later region, which
\* need not be the next (VmaTree).
sys_mprotect(p, a, n, prot) ==
    LET V == Span(a, n) IN
    /\ Step(p, "keep")
    /\ a + n - 1 \in Page
    /\ \A v \in V : vmas[p][v] # None
    /\ pt' = [pt EXCEPT ![p] = [v \in Page |->
                 IF v \in V /\ @[v] # None THEN Entry(@[v].frame, prot) ELSE @[v]]]
    /\ vmas' = [vmas EXCEPT ![p] = [v \in Page |->
                 IF v \in V /\ @[v] # None THEN [@[v] EXCEPT !.prot = prot] ELSE @[v]]]
    /\ UNCHANGED <<life, brk, refcounts, content>>

\* mremap of the n pages at o to m pages; only a growing call needs a VMA, over
\* its first page.  New pages are allocated at once; running out of frames
\* leaves the first of them mapped without a VMA.
MremapShrink(p, o, n, m) ==
    LET V == Span(o + m, n - m) IN
    /\ m < n
    /\ Step(p, "forget")
    /\ refcounts' = Teardown(p, V)
    /\ pt' = [pt EXCEPT ![p] = Cleared(p, V)]
    /\ vmas' = [vmas EXCEPT ![p] = VmaRemove(p, V)]
    /\ content' = Wiped(refcounts')

\* Map zeroed frames a at the pages of its domain; refs are the counts of
\* the other frames, data what the frames hold.
MapFresh(p, a, refs, data, entries, prot) ==
    LET new == {a[v] : v \in DOMAIN a} IN
    /\ pt' = [pt EXCEPT ![p] = [v \in Page |->
                 IF v \in DOMAIN a THEN Entry(a[v], prot) ELSE entries[v]]]
    /\ refcounts' = [f \in Frame |-> IF f \in new THEN 1 ELSE refs[f]]
    /\ content' = [f \in Frame |->
          IF f \in new THEN data[CHOOSE v \in DOMAIN a : a[v] = f] ELSE Wiped(refs)[f]]

Zeroed == [v \in Page |-> Zero]

MremapInPlace(p, o, n, m) ==
    LET G == Span(o + n, m - n)
        r == vmas[p][o] IN
    /\ Step(p, "keep")
    /\ \A v \in G : vmas[p][v] = None /\ pt[p][v] = None
    /\ IF Cardinality(Free) >= m - n
       THEN /\ \E a \in Allocations(G) : MapFresh(p, a, refcounts, Zeroed, pt[p], r.prot)
            /\ vmas' = [vmas EXCEPT ![p] = [v \in Page |-> IF v \in Span(o, m) THEN r ELSE @[v]]]
       ELSE /\ \E a \in Allocations(Span(o + n, Cardinality(Free))) :
                   MapFresh(p, a, refcounts, Zeroed, pt[p], r.prot)
            /\ UNCHANGED vmas

\* The contents of the pages from w when the n pages at o move there.
\* Faulty variant: the data stays behind.
CarriedNothing(p, o, n, w) == Zeroed
Carried(p, o, n, w) ==
    [v \in Page |-> IF v - w \in 0..(n - 1) /\ pt[p][o + v - w] # None
                    THEN content[pt[p][o + v - w].frame] ELSE Zero]

MremapMove(p, o, n, m) ==
    LET G == Span(o + n, m - n)
        V == Span(o, n)
        r == vmas[p][o] IN
    /\ \/ o + m - 1 \notin Page
       \/ \E v \in G : vmas[p][v] # None \/ pt[p][v] # None
    /\ \E w \in Page :
       LET W == Span(w, m) IN
       /\ w + m - 1 \in Page /\ W \subseteq MmapPages
       /\ \A v \in W : vmas[p][v] = None
       /\ IF Cardinality(Free) >= m
          THEN /\ MoveStep(p, o, n, w, m)
               /\ \E a \in Allocations(W) :
                      MapFresh(p, a, Teardown(p, V), Carried(p, o, n, w), Cleared(p, V), r.prot)
               /\ vmas' = [vmas EXCEPT ![p] = VmaAdd(VmaRemove(p, V), W, r)]
          ELSE /\ Step(p, "forget")
               /\ \E a \in Allocations(Span(w, Cardinality(Free))) :
                      MapFresh(p, a, refcounts, Zeroed, pt[p], r.prot)
               /\ UNCHANGED vmas

sys_mremap(p, o, n, m) ==
    /\ o + n - 1 \in Page
    /\ \/ MremapShrink(p, o, n, m)
       \/ /\ m > n /\ vmas[p][o] # None
          /\ \/ o + m - 1 \in Page /\ MremapInPlace(p, o, n, m)
             \/ MremapMove(p, o, n, m)
    /\ UNCHANGED <<life, brk>>

-----------------------------------------------------------------------------
(* syscalls/sys_process.c and the reaping of sched.c *)

\* clone_table_vma over the pages V of p: the parent's entries, and the
\* reference counts, afterwards.  Pages without the USER bit are skipped.
\* Faulty variants: read-only pages are not cloned; nothing is write-protected;
\* only pages that become copy-on-write now are counted.
ClonedWritable(p, v) == pt[p][v] # None /\ pt[p][v].user /\ pt[p][v].rw
Cloned(p, v) == pt[p][v] # None /\ pt[p][v].user
Private(p, v) == Cloned(p, v) /\ ~Shared(p, v)
CloneMarksNone(p, V) == pt[p]
CloneMarks(p, V) ==
    [v \in Page |-> IF v \in V /\ Private(p, v) /\ pt[p][v].rw
                    THEN [pt[p][v] EXCEPT !.rw = FALSE, !.cow = TRUE] ELSE pt[p][v]]
CloneRefsWritable(p, V) ==
    [f \in Frame |-> refcounts[f] + Cardinality({v \in V : Private(p, v) /\ pt[p][v].rw
                                                          /\ pt[p][v].frame = f})]
CloneRefs(p, V) ==
    [f \in Frame |-> refcounts[f] + Cardinality({v \in V : Private(p, v) /\ pt[p][v].frame = f})]

sys_fork(p, q) ==
    LET marked == CloneMarks(p, Page) IN
    /\ Step(p, "copy")
    /\ life[q] = "none"
    /\ \A f \in Frame : CloneRefs(p, Page)[f] <= MaxRef
    /\ pt' = [pt EXCEPT ![p] = marked,
                        ![q] = [v \in Page |-> IF Cloned(p, v) THEN marked[v] ELSE None]]
    /\ refcounts' = CloneRefs(p, Page)
    /\ vmas' = [vmas EXCEPT ![q] = vmas[p]]
    /\ brk' = [brk EXCEPT ![q] = brk[p]]
    /\ life' = [life EXCEPT ![q] = "run"]
    /\ UNCHANGED content

\* A fork that runs out of memory: in clone_table_vma, which leaves what it
\* did to the pages before k, or later, when the clone is freed again.
ForkOom(p) ==
    /\ Step(p, "keep")
    /\ \/ \E k \in 0..NPage :
             /\ pt' = [pt EXCEPT ![p] = CloneMarks(p, 1..k)]
             /\ refcounts' = CloneRefs(p, 1..k)
       \/ /\ pt' = [pt EXCEPT ![p] = CloneMarks(p, Page)]
          /\ UNCHANGED refcounts
    /\ \A f \in Frame : refcounts'[f] <= MaxRef
    /\ UNCHANGED <<life, vmas, brk, content>>

\* The new image is loaded before the old address space is freed.
sys_execve(p) ==
    /\ Step(p, "forget")
    /\ \E a \in Allocations(ImagePages \cup StackPages) :
          MapFresh(p, a, FreeUserPages(p), Zeroed, Unmapped, "RW")
    /\ vmas' = [vmas EXCEPT ![p] = LoadedVmas]
    /\ brk' = [brk EXCEPT ![p] = [base |-> ImageEnd, current |-> ImageEnd]]
    /\ UNCHANGED life

\* A failing execve restores cr3 and the VMAs, not the break; the frames of
\* what was loaded stay taken: all that are left when they run out, those of
\* the image when its interpreter does not load.
ExecFails(p) ==
    /\ Step(p, "keep")
    /\ \/ /\ brk' = [brk EXCEPT ![p] = [base |-> 0, current |-> 0]]    \* no such file
          /\ UNCHANGED refcounts
       \/ /\ Cardinality(Free) < Cardinality(ImagePages \cup StackPages)
          /\ brk' = [brk EXCEPT ![p] = [base |-> ImageEnd, current |-> ImageEnd]]
          /\ refcounts' = [f \in Frame |-> IF f \in Free THEN 1 ELSE refcounts[f]]
       \/ \E taken \in SUBSET Free :
             /\ Cardinality(taken) = Cardinality(ImagePages)
             /\ brk' = [brk EXCEPT ![p] = [base |-> ImageEnd, current |-> ImageEnd]]
             /\ refcounts' = [f \in Frame |-> IF f \in taken THEN 1 ELSE refcounts[f]]
    /\ UNCHANGED <<life, pt, vmas, content>>

\* process_do_exit: the address space stays until the parent reaps it.
ProcessExit(p) ==
    /\ Step(p, "forget")
    /\ life' = [life EXCEPT ![p] = "zombie"]
    /\ UNCHANGED <<pt, vmas, brk, refcounts, content>>

Reap(p, q) ==
    /\ Step(p, "keep")
    /\ life[q] = "zombie"
    /\ refcounts' = FreeUserPages(q)
    /\ pt' = [pt EXCEPT ![q] = Unmapped]
    /\ vmas' = [vmas EXCEPT ![q] = Unmapped]
    /\ brk' = [brk EXCEPT ![q] = [base |-> 0, current |-> 0]]
    /\ life' = [life EXCEPT ![q] = "none"]
    /\ content' = Wiped(refcounts')

\* What programs ask of mprotect and mremap.  Unless MprotectAny, no mprotect
\* of pages that fork shared, nor PROT_NONE for pages in use, which fork would
\* not copy; an mremap is of pages of one mapping.
AsksMprotect(p, a, n, prot) ==
    MprotectAny \/ \A v \in Span(a, n) :
       pt[p][v] # None => refcounts[pt[p][v].frame] = 1 /\ prot # "NONE"
AsksMremap(p, o, n) ==
    vmas[p][o] # None /\ \A v \in Span(o, n) : vmas[p][v] = vmas[p][o]

Syscall(p, c) ==
    \/ /\ c = "munmap" /\ \E a, n \in Page : sys_munmap(p, a, n)
    \/ /\ c = "mmap"
       /\ \E a, n \in Page, k \in Mmaps :
             /\ k[3] => Span(a, n) \subseteq FixedPages
             /\ sys_mmap(p, a, n, k[1], k[2], k[3])
    \/ /\ c = "brk" /\ \E addr \in 1..HeapEnd : sys_brk(p, addr)
    \/ /\ c = "mprotect"
       /\ \E a, n \in Page, prot \in Mprots :
             AsksMprotect(p, a, n, prot) /\ sys_mprotect(p, a, n, prot)
    \/ /\ c = "mremap"
       /\ \E o, n, m \in Page : AsksMremap(p, o, n) /\ sys_mremap(p, o, n, m)
    \/ /\ c = "fork" /\ \E q \in Proc : sys_fork(p, q)
    \/ /\ c = "fork fails" /\ ForkOom(p)
    \/ /\ c = "execve" /\ sys_execve(p)
    \/ /\ c = "execve fails" /\ ExecFails(p)
    \/ /\ c = "exit" /\ ProcessExit(p)
    \/ /\ c = "wait4" /\ \E q \in Proc : Reap(p, q)

AddrSpaceNext ==
    \E p \in Proc :
       \/ \E v \in Page : CowFault(p, v)
       \/ \E v \in Page, x \in Val : UserStore(p, v, x)
       \/ \E v \in Page, write \in BOOLEAN : DemandFault(p, v, write)
       \/ \E c \in Calls[p] : Syscall(p, c)

AddrSpaceSpec == AddrSpaceInit /\ [][AddrSpaceNext]_vars

-----------------------------------------------------------------------------
(* Properties *)

\* Page tables, VMAs, breaks and counts have the shape the kernel gives them.
AddrSpaceTypeOK ==
    /\ life \in [Proc -> {"none", "run", "zombie", "dead"}]
    /\ pt \in [Proc -> [Page -> Pte \cup {None}]]
    /\ vmas \in [Proc -> [Page -> Vma \cup {None}]]
    /\ brk \in [Proc -> [base : 0..HeapEnd, current : 0..HeapEnd]]
    /\ refcounts \in [Frame -> 0..MaxRef]
    /\ content \in [Frame -> Val]
    /\ step \in Proc \X Kind \X ({<<>>} \cup (Page \X Page \X Page \X Page))

\* The page table entries through which f is mapped.
Mappings(f) == {pv \in Proc \X Page : pt[pv[1]][pv[2]] # None /\ pt[pv[1]][pv[2]].frame = f}

\* vmm_free_user_pages_vma and pmm_decref free a frame when its count falls
\* to zero: the count covers every private mapping of the frame, and a frame
\* that any process maps, shared or not, is never free.  (For programs that
\* keep shared mappings out of the heap: brk frees whatever it finds there.)
FramesHeld ==
    \A f \in Frame :
       /\ refcounts[f] >= Cardinality({pv \in Mappings(f) : ~Shared(pv[1], pv[2])})
       /\ Mappings(f) # {} => refcounts[f] > 0

\* clone_table_vma "make[s] it read-only in both parent and child": a frame
\* that a private page may be written through is mapped by no other page.
WritableUnshared ==
    \A f \in Frame : \A pv, qw \in Mappings(f) :
       ~Shared(pv[1], pv[2]) /\ pt[pv[1]][pv[2]].rw => pv = qw

\* Frames are held as long as they are mapped, and a frame is writable for one
\* process at most, through faults, fork, exec, mremap and exit in any order
\* (vmm.c, sys_mm.c).
FramesSound == AddrSpaceTypeOK /\ FramesHeld /\ WritableUnshared

\* What a process reads in its private memory.
View == [p \in Proc |-> [v \in Page |->
           IF life[p] = "run" /\ pt[p][v] # None /\ ~Shared(p, v)
           THEN content[pt[p][v].frame] ELSE Zero]]

Abstract == INSTANCE PrivateMemory WITH mem <- View

\* Demand paging, copy-on-write, reference counting and mremap's copying
\* implement private memory: no step of one process changes what another
\* reads, a fault or an mprotect changes nothing anyone reads, fork gives
\* the child the parent's memory, and a moved mapping keeps its contents.
PrivateMemorySpec == Abstract!PrivateSpec
=============================================================================
