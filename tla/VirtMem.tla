------------------------------ MODULE VirtMem ------------------------------
(***************************************************************************)
(* The address spaces of Deep OS: page tables, the virtual memory areas a  *)
(* task records, the heap behind malloc and sbrk, and what fork and        *)
(* execvpe do to them (sys/virt_mem.c, kfork.c, kexecvpe.c, read_tarfs.c,  *)
(* and sys_ulimit of syscall.c), on top of the page allocator.             *)
(*                                                                         *)
(* Every address space maps all physical memory at DUMB_MAPPING_VIRT, and  *)
(* the heap, the stacks and the page tables are used through that mapping. *)
(* Virtual page f, for a frame f, is the page at DUMB_MAPPING_VIRT that    *)
(* boot maps to f; the pages of a program's segment follow after those.    *)
(* An address in the heap is page * PageUnits + offset.                    *)
(*                                                                         *)
(* A system call runs with interrupts disabled, so each is one action.     *)
(* Memory is counted in pages.  The strings a call copies to the heap are  *)
(* one allocation.  A page table is a frame; its levels are not told apart.*)
(***************************************************************************)
EXTENDS PhysMem

CONSTANTS
    MaxTasks,      \* how many tasks there can be
    VMA_SLOTS,     \* entries of vma the code looks at: 10
    SegPages,      \* pages of the segment of a program
    BootTables,    \* page tables map_kernel and identity_mapping allocate
    PageUnits,     \* units of allocation in a page: 4096 bytes
    ArgSize,       \* size of the strings execvpe copies
    EnvSize,       \* size of the environment fork copies
    Sizes,         \* arguments of malloc
    Limits,        \* arguments of ulimit, in pages
    DEFAULT_MEM_LIMIT

ASSUME VirtAssumption ==
    /\ MaxTasks \in Nat \ {0}
    /\ VMA_SLOTS \in Nat /\ VMA_SLOTS > 3
    /\ SegPages \in Nat \ {0}
    /\ BootTables \in Nat \ {0}
    /\ PageUnits \in Nat \ {0}
    /\ Sizes \cup {ArgSize, EnvSize} \subseteq Nat
    /\ Limits \cup {DEFAULT_MEM_LIMIT} \subseteq Nat

Task == 1 .. MaxTasks
SegPage == MapFrames .. (MapFrames + SegPages - 1)
VPage == Frame \cup SegPage
VmaIdx == 0 .. (VMA_SLOTS - 1)
VMA_USER_STACK_IDX == 0
VMA_KERNEL_STACK_IDX == 1
VMA_SEGMENT_START == 3
NotPresent == 0             \* in a page table; NULL as an address
Halts == {"none", "page fault", "out of pages"}

VARIABLES
    ntasks,              \* tasks 1 .. ntasks exist
    trans,               \* trans[t][v]: the frame page v of task t maps to
    tables,              \* tables[t]: the frames of its page tables
    vma,                 \* vma[t][i]: the pages of entry i, {} if unused
    cur_ptr, heap_end,   \* the unused rest of the current heap page
    current_mem_usage, mem_limit,
    blocks,              \* the blocks [from, to] the program of t was given
    halted               \* why the kernel stopped

taskVars == <<ntasks, trans, tables, vma, cur_ptr, heap_end,
              current_mem_usage, mem_limit, blocks>>
bootVars == <<modulep, ker_physfree, max_phys, smap>>
vars == <<physVars, taskVars, halted>>
-----------------------------------------------------------------------------
\* The page the k-th page_alloc of a system call returns.
Page(k) == CHOOSE f \in mem_map : Cardinality({g \in mem_map : g < f}) = k - 1

\* Seeded fault: the bits of the pages stay set.
AllocatedKeepsBits(n) ==
    /\ used' = used \cup {Page(k) : k \in 1 .. n}
    /\ UNCHANGED <<mem_map, bootVars>>

\* A system call has called page_alloc n times.
Allocated(n) ==
    LET new == {Page(k) : k \in 1 .. n}
    IN  /\ mem_map' = mem_map \ new
        /\ used' = used \cup new
        /\ UNCHANGED bootVars

Enough(n) == n <= Cardinality(mem_map)

\* The effect on the translation m of i_virt_alloc, called for the pages S:
\* each is mapped where DUMB_MAPPING_VIRT has it.
MapIdentity(m, S) == [v \in VPage |-> IF v \in S THEN v ELSE m[v]]

\* map() for every page up to the limit of the last region, at the address
\* phys | DUMB_MAPPING_VIRT, which is a page's own below 256 MB.
identity_mapping(m) ==
    MapIdentity(m, {f \in Frame : f * PHYS_PAGE_SIZE <= max_phys /\ f < Window})

Unused(v) == {i \in VmaIdx : v[i] = {}}

\* add_to_vma, and the same loop in brk: the first unused entry, if any.
add_to_vma(v, pg) ==
    IF Unused(v) = {} THEN v ELSE [v EXCEPT ![Min(Unused(v))] = {pg}]

\* brk on behalf of task t: i_virt_alloc takes two pages and returns the
\* second; each is counted once when it is mapped and the second again.
LimitReached(t) == current_mem_usage[t] + 1 > mem_limit[t]

\* Seeded fault: kmalloc does not look at the end of the heap page.
FitsAlways(t, size) == cur_ptr[t] # NotPresent

\* kmalloc on behalf of task t.
Fits(t, size) == cur_ptr[t] # NotPresent /\ cur_ptr[t] + size <= heap_end[t]
Refused(t, size) == ~ Fits(t, size) /\ LimitReached(t)
kmallocPages(t, size) == IF Fits(t, size) THEN 0 ELSE 2
kmallocPtr(t, size) ==
    IF Fits(t, size) THEN cur_ptr[t] ELSE Page(2) * PageUnits
kmallocEnd(t, size) ==
    IF Fits(t, size) THEN heap_end[t]
    ELSE Page(2) * PageUnits + PageUnits - 1
kmallocUsage(t, size) ==
    current_mem_usage[t] + (IF Fits(t, size) THEN 0 ELSE 3)

\* A new heap page is recorded by brk and again by kmalloc.
kmallocVma(t, size) ==
    IF Fits(t, size) THEN vma[t]
    ELSE add_to_vma(add_to_vma(vma[t], Page(2)), Page(2))

kmallocTrans(t, size) ==
    MapIdentity(trans[t], {Page(k) : k \in 1 .. kmallocPages(t, size)})

\* A call that stores a string in a block it did not get faults.
PageFault ==
    /\ halted' = "page fault"
    /\ UNCHANGED <<physVars, taskVars>>
-----------------------------------------------------------------------------
Init ==
    /\ PhysInit
    /\ ntasks = 0
    /\ trans = [t \in Task |-> [v \in VPage |-> NotPresent]]
    /\ tables = [t \in Task |-> {}]
    /\ vma = [t \in Task |-> [i \in VmaIdx |-> {}]]
    /\ cur_ptr = [t \in Task |-> NotPresent]
    /\ heap_end = [t \in Task |-> NotPresent]
    /\ current_mem_usage = [t \in Task |-> 0]
    /\ mem_limit = [t \in Task |-> DEFAULT_MEM_LIMIT]
    /\ blocks = [t \in Task |-> {}]
    /\ halted = "none"

LoadMemoryMap ==
    /\ ntasks = 0
    /\ NextRegion
    /\ UNCHANGED <<taskVars, halted>>

\* The pages of the boot before the last: map_kernel and identity_mapping take
\* the page tables, setup_kernel_stack a stack the boot code runs on, and
\* i_virt_alloc of initialize_tasking a page it does not use.
BootPages == BootTables + 2

BootAlloc ==
    /\ halted = "none"
    /\ ntasks = 0
    /\ Cardinality(used) < BootPages
    /\ page_alloc
    /\ tables' = IF Cardinality(used) < BootTables
                 THEN [tables EXCEPT ![1] = @ \cup {get_index_of_free_page}]
                 ELSE tables
    /\ UNCHANGED <<ntasks, trans, vma, cur_ptr, heap_end, current_mem_usage,
                   mem_limit, blocks, halted>>

\* The second page of that i_virt_alloc is the kernel stack of task 1, and initialize_tasking makes the
\* kernel's address space that of task 1; its user stack is part of the
\* kernel image and not among the pages modelled.
StartKernel ==
    /\ halted = "none"
    /\ ntasks = 0
    /\ Cardinality(used) = BootPages
    /\ page_alloc
    /\ ntasks' = 1
    /\ trans' = [trans EXCEPT ![1] = identity_mapping(@)]
    /\ vma' = [vma EXCEPT ![1][VMA_KERNEL_STACK_IDX] = {get_index_of_free_page}]
    /\ current_mem_usage' = [current_mem_usage EXCEPT ![1] = 2]
    /\ UNCHANGED <<tables, cur_ptr, heap_end, mem_limit, blocks, halted>>

\* page_alloc returns NULL before there is a task.
BootOutOfPages ==
    /\ halted = "none"
    /\ ntasks = 0
    /\ page_alloc_null
    /\ halted' = "out of pages"
    /\ UNCHANGED taskVars

\* Task t is in user mode, or it is the boot thread.
Active(t) == halted = "none" /\ t <= ntasks
InProgram(t) == Active(t) /\ vma[t][VMA_USER_STACK_IDX] # {}

\* sys_sbrk and brk.
Sbrk(t) ==
    /\ InProgram(t)
    /\ ~ LimitReached(t)
    /\ Enough(2)
    /\ Allocated(2)
    /\ trans' = [trans EXCEPT ![t] = MapIdentity(@, {Page(1), Page(2)})]
    /\ vma' = [vma EXCEPT ![t] = add_to_vma(@, Page(2))]
    /\ current_mem_usage' = [current_mem_usage EXCEPT ![t] = @ + 3]
    /\ blocks' = [blocks EXCEPT ![t] = @ \cup
                    {<<Page(2) * PageUnits, (Page(2) + 1) * PageUnits - 1>>}]
    /\ UNCHANGED <<ntasks, tables, cur_ptr, heap_end, mem_limit, halted>>

\* kmalloc succeeds for task t.
kmalloc(t, size) ==
    LET n == kmallocPages(t, size) IN
    /\ ~ Refused(t, size)
    /\ Enough(n)
    /\ Allocated(n)
    /\ trans' = [trans EXCEPT ![t] = kmallocTrans(t, size)]
    /\ vma' = [vma EXCEPT ![t] = kmallocVma(t, size)]
    /\ current_mem_usage' =
            [current_mem_usage EXCEPT ![t] = kmallocUsage(t, size)]
    /\ cur_ptr' = [cur_ptr EXCEPT ![t] = kmallocPtr(t, size) + size]
    /\ heap_end' = [heap_end EXCEPT ![t] = kmallocEnd(t, size)]
    /\ UNCHANGED <<ntasks, tables, mem_limit, halted>>

\* sys_kmalloc.
Malloc(t, size) ==
    LET p == kmallocPtr(t, size) IN
    /\ InProgram(t)
    /\ kmalloc(t, size)
    /\ blocks' = [blocks EXCEPT ![t] = @ \cup {<<p, p + size - 1>>}]

\* sys_ulimit.
Ulimit(t, lim) ==
    /\ InProgram(t)
    /\ current_mem_usage[t] <= lim
    /\ mem_limit' = [mem_limit EXCEPT ![t] = lim]
    /\ UNCHANGED <<physVars, ntasks, trans, tables, vma, cur_ptr, heap_end,
                   current_mem_usage, blocks, halted>>
-----------------------------------------------------------------------------
(* kexecvpe: the arguments are copied to the heap first, then the entries  *)
(* of vma are cleared, and stacks and segment get new pages.  The heap     *)
(* itself (cur_ptr, heap_end) and the page tables stay.                    *)

HasSegment(t) == \E v \in SegPage : trans[t][v] # NotPresent

\* page_alloc calls of kexecvpe: for the heap, for two stacks, for the
\* segment, and for its page table, which map_process_specific needs after
\* the first page of the segment unless the task has one.
ExecPages(t) ==
    kmallocPages(t, ArgSize) + 4 + SegPages + IF HasSegment(t) THEN 0 ELSE 1

Exec(t) ==
    LET n == kmallocPages(t, ArgSize)
        first == n + 5
        SegmentPage(j) ==
            Page(IF j = 0 \/ HasSegment(t) THEN first + j ELSE first + j + 1)
    IN
    /\ Active(t)
    /\ ~ Refused(t, ArgSize)
    /\ Enough(ExecPages(t))
    /\ Allocated(ExecPages(t))
    /\ trans' = [trans EXCEPT ![t] =
            [v \in VPage |->
                IF v \in SegPage THEN SegmentPage(v - MapFrames)
                ELSE MapIdentity(@, {Page(k) : k \in 1 .. (n + 4)})[v]]]
    /\ tables' = [tables EXCEPT ![t] =
            IF HasSegment(t) THEN @ ELSE @ \cup {Page(first + 1)}]
    /\ vma' = [vma EXCEPT ![t] =
            [i \in VmaIdx |->
                CASE i = VMA_USER_STACK_IDX -> {Page(n + 2)}
                  [] i = VMA_KERNEL_STACK_IDX -> {Page(n + 4)}
                  [] i = VMA_SEGMENT_START -> SegPage
                  [] OTHER -> {}]]
    /\ current_mem_usage' = [current_mem_usage EXCEPT ![t] =
            kmallocUsage(t, ArgSize) + 4 + SegPages]
    /\ cur_ptr' = [cur_ptr EXCEPT ![t] = kmallocPtr(t, ArgSize) + ArgSize]
    /\ heap_end' = [heap_end EXCEPT ![t] = kmallocEnd(t, ArgSize)]
    /\ blocks' = [blocks EXCEPT ![t] = {}]
    /\ UNCHANGED <<ntasks, mem_limit, halted>>
\* No file has the name: the strings stay in the heap and execvpe returns -1.
ExecNotFound(t) ==
    /\ InProgram(t)
    /\ kmalloc(t, ArgSize)
    /\ UNCHANGED blocks
-----------------------------------------------------------------------------
(* kfork: the environment is copied to the heap of the parent, the page    *)
(* tables are cloned, and each page of each recorded area gets a new frame *)
(* in the child, two pages being allocated for each.                       *)

\* The copies kfork's loops make: page c[2] of entry c[1], entry by entry and
\* in ascending order, and the number of one of them.
ToCopy(v) == {c \in VmaIdx \X VPage : c[2] \in v[c[1]]}
CopyNumber(v, i, pg) ==
    Cardinality({c \in ToCopy(v) : c[1] < i \/ (c[1] = i /\ c[2] <= pg)})
Copies(v) == Cardinality(ToCopy(v))

Recorded(v) == UNION {v[i] : i \in VmaIdx}

\* The last copy of a page that is recorded more than once stays mapped.
LastCopy(v, pg) == CopyNumber(v, Max({i \in VmaIdx : pg \in v[i]}), pg)

\* Seeded fault: only the stacks and the segment are copied.
HeapNotCopied(m, v, start) ==
    LET stay == v[0] \cup v[1] \cup v[3]
    IN  [p \in VPage |-> IF p \in stay THEN Page(start + 2 * LastCopy(v, p))
                         ELSE m[p]]

\* Seeded fault: clone_page_directory leaves out the last entry of the window.
ClonesOneShort(m, v, start) ==
    [p \in VPage |->
        IF p \in Recorded(v) THEN Page(start + 2 * LastCopy(v, p))
        ELSE IF p = Window - 1 THEN NotPresent
        ELSE m[p]]

\* The translation of the child: a clone of the parent's, m, in which the
\* recorded pages are mapped to the copies, allocated after page start.
ChildTrans(m, v, start) ==
    [p \in VPage |-> IF p \in Recorded(v)
                     THEN Page(start + 2 * LastCopy(v, p))
                     ELSE m[p]]

ForkPages(t) ==
    LET v == kmallocVma(t, EnvSize)
    IN  kmallocPages(t, EnvSize) + 2 * Cardinality(tables[t]) + 2 * Copies(v)

Fork(t) ==
    LET c == ntasks + 1
        n == kmallocPages(t, EnvSize)
        v == kmallocVma(t, EnvSize)
        T == Cardinality(tables[t])
        m == MapIdentity(trans[t], {Page(k) : k \in 1 .. ForkPages(t)})
    IN
    /\ InProgram(t)
    /\ ntasks < MaxTasks
    /\ ~ Refused(t, EnvSize)
    /\ Enough(n) /\ Enough(ForkPages(t))
    /\ Allocated(ForkPages(t))
    /\ ntasks' = c
    /\ trans' = [trans EXCEPT ![t] = m, ![c] = ChildTrans(m, v, n + 2 * T)]
    /\ tables' = [tables EXCEPT ![c] = {Page(n + 2 * k) : k \in 1 .. T}]
    /\ vma' = [vma EXCEPT ![t] = v, ![c] = v]
    /\ current_mem_usage' = [current_mem_usage EXCEPT
            ![t] = kmallocUsage(t, EnvSize) + 2 * T + 2 * Copies(v),
            ![c] = Copies(v)]
    /\ mem_limit' = [mem_limit EXCEPT ![c] = mem_limit[t]]
    /\ cur_ptr' = [cur_ptr EXCEPT ![t] = kmallocPtr(t, EnvSize) + EnvSize]
    /\ heap_end' = [heap_end EXCEPT ![t] = kmallocEnd(t, EnvSize)]
    /\ blocks' = [blocks EXCEPT ![c] = blocks[t]]
    /\ UNCHANGED halted
-----------------------------------------------------------------------------
\* execvpe or fork at the memory limit: kmalloc returns NULL and strcpy
\* faults.  (sbrk, malloc and ulimit are refused without any effect.)
CallFaults(t) ==
    /\ \/ Active(t) /\ Refused(t, ArgSize)
       \/ InProgram(t) /\ ntasks < MaxTasks /\ Refused(t, EnvSize)
    /\ PageFault

\* page_alloc returns NULL in the middle of a call and the kernel goes on
\* with page 0, for tables too: the model ends here.
OutOfPages(t) ==
    /\ \/ Active(t) /\ ~ Refused(t, ArgSize) /\ ~ Enough(ExecPages(t))
       \/ InProgram(t) /\ ~ LimitReached(t) /\ ~ Enough(2)
       \/ /\ InProgram(t)
          /\ ntasks < MaxTasks
          /\ ~ Refused(t, EnvSize)
          /\ Enough(kmallocPages(t, EnvSize)) => ~ Enough(ForkPages(t))
    /\ halted' = "out of pages"
    /\ UNCHANGED <<physVars, taskVars>>

Spin == halted # "none" /\ UNCHANGED vars

Next ==
    \/ LoadMemoryMap
    \/ BootAlloc
    \/ StartKernel
    \/ BootOutOfPages
    \/ \E t \in Task :
        \/ Sbrk(t)
        \/ \E size \in Sizes : Malloc(t, size)
        \/ \E lim \in Limits : Ulimit(t, lim)
        \/ Exec(t)
        \/ ExecNotFound(t)
        \/ Fork(t)
        \/ CallFaults(t)
        \/ OutOfPages(t)
    \/ Spin

Spec == Init /\ [][Next]_vars
-----------------------------------------------------------------------------
(* Properties.                                                             *)

\* Type invariant.
TypeOK ==
    /\ PhysTypeOK
    /\ ntasks \in 0 .. MaxTasks
    /\ trans \in [Task -> [VPage -> Frame]]
    /\ tables \in [Task -> SUBSET Frame]
    /\ vma \in [Task -> [VmaIdx -> SUBSET VPage]]
    /\ cur_ptr \in [Task -> Nat]
    /\ heap_end \in [Task -> Nat]
    /\ current_mem_usage \in [Task -> Nat]
    /\ mem_limit \in [Task -> Limits \cup {DEFAULT_MEM_LIMIT}]
    /\ blocks \in [Task -> SUBSET (Nat \X Nat)]
    /\ halted \in Halts

Live == 1 .. ntasks

\* Behind the recorded areas of two tasks, stacks, segment and the heap
\* pages that found an entry, there are different frames.
RecordedPagesPrivate ==
    \A t, u \in Live : t # u =>
        \A p \in Recorded(vma[t]), q \in Recorded(vma[u]) :
            trans[t][p] # trans[u][q]

\* In every address space the kernel reaches the page tables of all tasks,
\* and every page page_alloc may still return, at DUMB_MAPPING_VIRT: fork
\* replaces that mapping for the pages it copies and for no others.
KernelMappingIntact ==
    \A t \in Live :
        \A f \in mem_map \cup UNION {tables[u] : u \in Live} : trans[t][f] = f

\* No page table is mapped where a program keeps its stacks, segment or
\* heap, and tasks share no page table.
TablesPrivate ==
    \A t, u \in Live :
        /\ \A p \in Recorded(vma[u]) : trans[u][p] \notin tables[t]
        /\ t # u => tables[t] \cap tables[u] = {}

\* The end of what kmalloc has memory for in a block: it takes one page and
\* never compares it with the size, so what a block larger than a page has
\* beyond that page is memory nobody allocated.
BackedTo(b) == IF b[2] - b[1] < PageUnits THEN b[2] ELSE b[1] + PageUnits - 1

\* Blocks malloc and sbrk gave to a program do not overlap and lie in pages
\* that are mapped to allocated frames: whole blocks of up to a page, and the
\* first page of larger ones, whose rest the code leaves unallocated.
BlocksDisjoint ==
    \A t \in Live :
        /\ \A b, c \in blocks[t] : b # c =>
                BackedTo(b) < c[1] \/ BackedTo(c) < b[1]
        /\ \A b \in blocks[t] :
            \A a \in b[1] .. BackedTo(b) : trans[t][a \div PageUnits] \in used

\* "Returns a free block" (libc/sbrk.c): the page sbrk and malloc start a
\* new heap page with is mapped by no other task for its own use.
FreshBlock ==
    [][\A t \in Live : \A b \in blocks'[t] \ blocks[t] :
        \A u \in Live \ {t} :
            trans'[t][b[1] \div PageUnits]
                \notin {trans[u][p] : p \in Recorded(vma[u])}]_vars

\* "spawning a new one with a different memory space" (task.h): memory that
\* malloc gave to a program is not shared with another task.
HeapsPrivate ==
    \A t, u \in Live : t # u =>
        \A b \in blocks[t], c \in blocks[u] :
            trans[t][b[1] \div PageUnits] # trans[u][c[1] \div PageUnits]
=============================================================================
