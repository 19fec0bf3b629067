--------------------------- MODULE VirtMemProofs ---------------------------
(***************************************************************************)
(* Theorems about address spaces, for every number of tasks and frames,    *)
(* every size of program and every sequence of system calls.               *)
(***************************************************************************)
EXTENDS VirtMem, PhysMemProofs, FiniteSetTheorems, TLAPS

-----------------------------------------------------------------------------
(* The pages a system call gets.                                           *)

LEMMA FrameFinite ==
    ASSUME NEW S \in SUBSET Frame
    PROVE  IsFiniteSet(S) /\ Cardinality(S) \in Nat
<1>1. IsFiniteSet(Frame)  BY PageAssumption, FS_Interval DEF Frame
<1>2. QED  BY <1>1, FS_Subset, FS_CardinalityType

\* The k-th call of page_alloc finds a page as long as there are k: there is
\* an available page with k - 1 available pages below it.
LEMMA PageExists ==
    ASSUME mem_map \subseteq Frame, NEW k \in 1 .. Cardinality(mem_map)
    PROVE  \E f \in mem_map : Cardinality({g \in mem_map : g < f}) = k - 1
<1>1. IsFiniteSet(mem_map)  BY FrameFinite
<1>2. mem_map \subseteq Nat  BY PageAssumption DEF Frame
<1>3. QED  BY <1>1, <1>2, RankExists

\* The pages of a system call are available and different from each other.
LEMMA PageFacts ==
    ASSUME mem_map \subseteq Frame, NEW n \in Nat, Enough(n)
    PROVE  /\ \A k \in 1 .. n : Page(k) \in mem_map
           /\ \A k, l \in 1 .. n : Page(k) = Page(l) => k = l
<1>1. Cardinality(mem_map) \in Nat  BY FrameFinite
<1>2. ASSUME NEW k \in 1 .. n
      PROVE  /\ Page(k) \in mem_map
             /\ Cardinality({g \in mem_map : g < Page(k)}) = k - 1
    <2>1. k \in 1 .. Cardinality(mem_map)  BY <1>1 DEF Enough
    <2>2. \E f \in mem_map : Cardinality({g \in mem_map : g < f}) = k - 1
        BY <2>1, PageExists
    <2>3. QED  BY <2>2 DEF Page
<1>3. ASSUME NEW k \in 1 .. n, NEW l \in 1 .. n, Page(k) = Page(l)
      PROVE  k = l
    <2>1. k - 1 = l - 1  BY <1>2, <1>3
    <2>2. QED  BY <2>1
<1>4. QED  BY <1>2, <1>3
\* One call of page_alloc is the first of a system call that makes no other.
LEMMA PageOne ==
    ASSUME mem_map \subseteq Frame, mem_map # {}
    PROVE  Enough(1) /\ Page(1) = get_index_of_free_page
<1>1. mem_map \subseteq Nat /\ IsFiniteSet(mem_map) /\ Cardinality(mem_map) \in Nat
    BY FrameFinite, PageAssumption DEF Frame
<1>2. Cardinality(mem_map) # 0  BY <1>1, FS_EmptySet
<1>3. Enough(1)  BY <1>1, <1>2 DEF Enough
<1>4. Page(1) \in mem_map /\ Cardinality({g \in mem_map : g < Page(1)}) = 1 - 1
    <2>1. 1 \in 1 .. Cardinality(mem_map)  BY <1>1, <1>2
    <2>2. \E f \in mem_map : Cardinality({g \in mem_map : g < f}) = 1 - 1
        BY <2>1, PageExists
    <2>3. QED  BY <2>2 DEF Page
<1>5. \A g \in mem_map : ~ (g < Page(1))
    <2> DEFINE below == {g \in mem_map : g < Page(1)}
    <2>1. IsFiniteSet(below)  BY <1>1, FS_Subset
    <2>2. Cardinality(below) = 0  BY <1>4
    <2> HIDE DEF below
    <2>3. below = {}  BY <2>1, <2>2, FS_EmptySet
    <2>4. QED  BY <2>3 DEF below
<1>6. \A x, y \in mem_map : (\A z \in mem_map : x <= z /\ y <= z) => x = y
    BY <1>1
<1>7. get_index_of_free_page \in mem_map
      /\ \A z \in mem_map : get_index_of_free_page <= z
    <2>1. \E x \in mem_map : \A z \in mem_map : x <= z  BY <1>1, NatLeast
    <2>2. QED  BY <2>1 DEF get_index_of_free_page, Min
<1>8. \A z \in mem_map : Page(1) <= z
    <2> DEFINE f == Page(1)
    <2>1. f \in Nat /\ \A g \in mem_map : ~ (g < f)  BY <1>1, <1>4, <1>5
    <2> HIDE DEF f
    <2>2. \A z \in mem_map : f <= z  BY <1>1, <2>1
    <2>3. QED  BY <2>2 DEF f
<1>9. QED  BY <1>3, <1>4, <1>6, <1>7, <1>8
-----------------------------------------------------------------------------
(* The inductive invariant.                                                *)

\* The frames behind what the vma entries of task t record.
Own(t) == {trans[t][p] : p \in Recorded(vma[t])}

\* A task that does not exist yet has nothing, except for the page tables the
\* kernel makes for the first one while it boots.
Fresh ==
    \A t \in Task : t > ntasks =>
        /\ cur_ptr[t] = NotPresent
        /\ blocks[t] = {}
        /\ t # 1 => tables[t] = {}
        /\ Recorded(vma[t]) = {}

\* Recorded frames and page tables have been allocated, no task's recorded
\* frames and no page tables are another's, and no page table is recorded.
Private ==
    \A t, u \in Task :
        /\ Own(t) \subseteq used
        /\ tables[t] \subseteq used
        /\ Own(t) \cap tables[u] = {}
        /\ t # u => Own(t) \cap Own(u) = {} /\ tables[t] \cap tables[u] = {}

\* Addresses lo .. hi of heap page h are unused and lie behind an allocated
\* frame that no other task has recorded.  It need not be recorded by t: the
\* entries of vma may have run out, or an execvpe may have cleared them.
Room(t, h, lo, hi) ==
    /\ hi = h * PageUnits + PageUnits - 1
    /\ h * PageUnits <= lo
    /\ \A b \in blocks[t] : BackedTo(b) < lo \/ hi < b[1]
    /\ \A u \in Task \ {t} : trans[t][h] \notin Own(u)

HeapOK(t) ==
    cur_ptr[t] # NotPresent =>
        \E h \in Frame : /\ Room(t, h, cur_ptr[t], heap_end[t])
                         /\ trans[t][h] \in used

\* A block, as far as it is backed, lies in one page, behind which there is an
\* allocated frame.
InPage(b, pg) ==
    /\ pg * PageUnits <= b[1] /\ b[1] < pg * PageUnits + PageUnits
    /\ BackedTo(b) < pg * PageUnits + PageUnits

BlocksOK(t) ==
    /\ \A b \in blocks[t] : \E pg \in Frame : InPage(b, pg) /\ trans[t][pg] \in used
    /\ \A b, c \in blocks[t] : b # c => BackedTo(b) < c[1] \/ BackedTo(c) < b[1]

VirtInv ==
    /\ PhysInv
    /\ TypeOK
    /\ ntasks > 0 => Booted
    /\ Fresh
    /\ Private
    /\ KernelMappingIntact
    /\ \A t \in Task : HeapOK(t) /\ BlocksOK(t)
-----------------------------------------------------------------------------
(* What does not depend on the call.                                       *)

LEMMA Constants ==
    /\ MapFrames \in Nat \ {0} /\ MaxTasks \in Nat \ {0} /\ PageUnits \in Nat \ {0}
    /\ VMA_SLOTS \in Nat /\ VMA_SLOTS > 3
    /\ SegPages \in Nat \ {0} /\ BootTables \in Nat \ {0}
    /\ Frame \subseteq Nat /\ Frame \subseteq VPage /\ SegPage \subseteq VPage
    /\ Frame \cap SegPage = {} /\ 0 \in Frame /\ VmaIdx \subseteq Nat
    /\ 0 \in VmaIdx /\ 1 \in VmaIdx /\ 3 \in VmaIdx
BY PageAssumption, VirtAssumption DEF Frame, VPage, SegPage, VmaIdx

\* What of a block of the given size, at an address, is backed.
Part(size) == IF size <= PageUnits THEN size ELSE PageUnits

LEMMA BackedFacts ==
    /\ \A b \in Nat \X Nat : BackedTo(b) \in Nat
    /\ \A lo, size \in Nat : BackedTo(<<lo, lo + size - 1>>) = lo + Part(size) - 1
BY Constants DEF BackedTo, Part

LEMMA LiveTasks == TypeOK => Live \subseteq Task
BY Constants DEF TypeOK, Live, Task

\* System calls allocate available pages, and leave the allocator consistent.
LEMMA AllocatedInv ==
    ASSUME PhysInv, Booted, NEW n \in Nat, Enough(n), Allocated(n)
    PROVE  PhysInv'
<1> DEFINE new == {Page(k) : k \in 1 .. n}
<1>1. mem_map \subseteq Frame  BY DEF PhysInv, PhysTypeOK
<1>2. new \subseteq mem_map  BY <1>1, PageFacts
<1>3. /\ mem_map' = mem_map \ new /\ used' = used \cup new
      /\ UNCHANGED <<modulep, ker_physfree, max_phys, smap>>
    BY DEF Allocated, bootVars
<1> HIDE DEF new
<1>4. mem_map' \cup used' = mem_map \cup used  BY <1>2, <1>3
<1>5. PhysTypeOK' /\ NoDoubleAlloc'
    BY <1>2, <1>3 DEF PhysInv, PhysTypeOK, NoDoubleAlloc
<1>6. KernelReserved' /\ NoNullPage' /\ BelowTop' /\ OnlyMemory'
    BY <1>3, <1>4
    DEF PhysInv, KernelReserved, NoNullPage, BelowTop, OnlyMemory, Booted
<1>7. (ker_physfree = physfree + MapBytes)' /\ (smap < Len(modulep) => used = {})'
    <2>1. smap = Len(modulep)  BY DEF Booted
    <2>2. Len(modulep) \in Nat
        BY SmapAssumption DEF PhysInv, PhysTypeOK
    <2>3. QED  BY <1>3, <2>1, <2>2 DEF PhysInv
<1>8. QED  BY <1>5, <1>6, <1>7 DEF PhysInv

\* i_virt_alloc maps available pages to where they are mapped already.
LEMMA NoRemap ==
    ASSUME VirtInv, NEW t \in Live, NEW S, S \subseteq mem_map
    PROVE  MapIdentity(trans[t], S) = trans[t]
<1>1. t \in Task /\ trans[t] \in [VPage -> Frame]
    BY Constants DEF VirtInv, TypeOK, Live, Task
<1>2. \A f \in S : trans[t][f] = f
    BY DEF VirtInv, KernelMappingIntact
<1>3. \A v \in VPage : MapIdentity(trans[t], S)[v] = trans[t][v]
    BY <1>2 DEF MapIdentity
<1>4. QED  BY <1>1, <1>3 DEF MapIdentity

\* The pages a task has recorded are neither available nor page tables: where
\* they are, the kernel's mapping may be replaced.
LEMMA RecordedNotKernel ==
    ASSUME VirtInv, NEW t \in Live, NEW p \in Recorded(vma[t])
    PROVE  p \notin mem_map /\ \A u \in Live : p \notin tables[u]
<1>1. t \in Task /\ Live \subseteq Task
    BY Constants DEF VirtInv, TypeOK, Live, Task
<1>2. trans[t][p] \in Own(t)  BY DEF Own
<1>3. trans[t][p] \in used /\ \A u \in Live : trans[t][p] \notin tables[u]
    BY <1>1, <1>2 DEF VirtInv, Private
<1>4. mem_map \cap used = {}  BY DEF VirtInv, PhysInv, NoDoubleAlloc
<1>5. p \in mem_map \/ (\E u \in Live : p \in tables[u]) => trans[t][p] = p
    BY DEF VirtInv, KernelMappingIntact
<1>6. QED  BY <1>3, <1>4, <1>5

\* What a call allocates for different purposes keeps everybody's frames
\* apart: A[t] numbers the pages for the vma entries of t, B[t] the pages for
\* its page tables.
LEMMA PrivateStep ==
    ASSUME VirtInv, NEW n \in Nat, Enough(n), Allocated(n),
           NEW A \in [Task -> SUBSET (1 .. n)],
           NEW B \in [Task -> SUBSET (1 .. n)],
           \A t, u \in Task : A[t] \cap B[u] = {},
           \A t, u \in Task : t # u => A[t] \cap A[u] = {} /\ B[t] \cap B[u] = {},
           \A t \in Task : /\ Own(t)' \subseteq Own(t) \cup {Page(k) : k \in A[t]}
                           /\ tables'[t] \subseteq tables[t] \cup {Page(k) : k \in B[t]}
    PROVE  Private'
<1> DEFINE P(t) == {Page(k) : k \in A[t]}
           Q(t) == {Page(k) : k \in B[t]}
<1>1. mem_map \subseteq Frame  BY DEF VirtInv, PhysInv, PhysTypeOK
<1>2. /\ \A k \in 1 .. n : Page(k) \in mem_map
      /\ \A k, l \in 1 .. n : Page(k) = Page(l) => k = l
    BY <1>1, PageFacts
<1>3. mem_map \cap used = {}  BY DEF VirtInv, PhysInv, NoDoubleAlloc
<1>4. \A k \in 1 .. n : Page(k) \in used'  BY DEF Allocated
<1>5. used \subseteq used'  BY DEF Allocated
<1>6. ASSUME NEW t \in Task
      PROVE  /\ P(t) \subseteq used' /\ Q(t) \subseteq used'
             /\ P(t) \cap used = {} /\ Q(t) \cap used = {}
    BY <1>2, <1>3, <1>4
<1>7. \A t, u \in Task : P(t) \cap Q(u) = {}  BY <1>2
<1>8. \A t, u \in Task : t # u => P(t) \cap P(u) = {} /\ Q(t) \cap Q(u) = {}
    BY <1>2
<1>9. \A t \in Task : Own(t)' \subseteq Own(t) \cup P(t) /\ tables'[t] \subseteq tables[t] \cup Q(t)
    OBVIOUS
<1> HIDE DEF P, Q
<1>10. ASSUME NEW t \in Task, NEW u \in Task
       PROVE  /\ Own(t)' \subseteq used'
              /\ tables'[t] \subseteq used'
              /\ Own(t)' \cap tables'[u] = {}
              /\ t # u => Own(t)' \cap Own(u)' = {} /\ tables'[t] \cap tables'[u] = {}
    <2>1. /\ Own(t) \subseteq used /\ tables[t] \subseteq used
          /\ Own(u) \subseteq used /\ tables[u] \subseteq used
          /\ Own(t) \cap tables[u] = {}
          /\ t # u => Own(t) \cap Own(u) = {} /\ tables[t] \cap tables[u] = {}
        BY DEF VirtInv, Private
    <2>2. /\ Own(t)' \subseteq Own(t) \cup P(t) /\ Own(u)' \subseteq Own(u) \cup P(u)
          /\ tables'[t] \subseteq tables[t] \cup Q(t)
          /\ tables'[u] \subseteq tables[u] \cup Q(u)
        BY <1>9
    <2>3. Own(t)' \subseteq used' /\ tables'[t] \subseteq used'
        BY <1>5, <1>6, <2>1, <2>2
    <2>4. Own(t)' \cap tables'[u] = {}
        BY <1>6, <1>7, <2>1, <2>2
    <2>5. ASSUME t # u
          PROVE  Own(t)' \cap Own(u)' = {} /\ tables'[t] \cap tables'[u] = {}
        BY <1>6, <1>8, <2>1, <2>2, <2>5
    <2>6. QED  BY <2>3, <2>4, <2>5
<1>11. QED  BY <1>10 DEF Private

\* The heap and the blocks of a task whose mapping of physical memory, heap
\* page and blocks a call leaves alone.
LEMMA HeapKept ==
    ASSUME VirtInv, NEW n \in Nat, Enough(n), Allocated(n), NEW t \in Task,
           \A f \in Frame : trans'[t][f] = trans[t][f],
           \A u \in Task : Own(u)' \subseteq Own(u) \cup mem_map,
           cur_ptr'[t] = cur_ptr[t], heap_end'[t] = heap_end[t],
           blocks'[t] = blocks[t]
    PROVE  HeapOK(t)' /\ BlocksOK(t)'
<1>1. HeapOK(t) /\ BlocksOK(t)  BY DEF VirtInv
<1>2. used \subseteq used'  BY DEF Allocated
<1>3. mem_map \cap used = {}  BY DEF VirtInv, PhysInv, NoDoubleAlloc
<1>4. HeapOK(t)'
    <2> SUFFICES ASSUME cur_ptr[t] # NotPresent
                 PROVE  \E h \in Frame : /\ Room(t, h, cur_ptr[t], heap_end[t])'
                                         /\ trans'[t][h] \in used'
        BY DEF HeapOK, Room
    <2>1. PICK h \in Frame : /\ Room(t, h, cur_ptr[t], heap_end[t])
                             /\ trans[t][h] \in used
        BY <1>1 DEF HeapOK
    <2>2. ASSUME NEW u \in Task \ {t}
          PROVE  trans'[t][h] \notin Own(u)'
        <3>1. trans[t][h] \notin Own(u) /\ trans[t][h] \notin mem_map
            BY <1>3, <2>1 DEF Room
        <3>2. QED  BY <3>1
    <2>3. Room(t, h, cur_ptr[t], heap_end[t])'
        BY <2>1, <2>2 DEF Room
    <2>4. QED  BY <1>2, <2>1, <2>3
<1>5. BlocksOK(t)'  BY <1>1, <1>2 DEF BlocksOK
<1>6. QED  BY <1>4, <1>5

\* The block from lo is given to the program, or to nobody, from heap page h.
LEMMA HeapGiven ==
    ASSUME VirtInv, NEW n \in Nat, Enough(n), Allocated(n), NEW t \in Task,
           \A f \in Frame : trans'[t][f] = trans[t][f],
           NEW h \in Frame,
           \A u \in Task \ {t} : Own(u)' \subseteq Own(u) \cup (mem_map \ {trans[t][h]}),
           NEW lo \in Nat, NEW hi \in Nat, NEW size \in Nat,
           Room(t, h, lo, hi), lo <= hi, lo + Part(size) <= hi + 1,
           trans[t][h] \in used',
           cur_ptr'[t] = lo + size, heap_end'[t] = hi,
           blocks'[t] \subseteq blocks[t] \cup {<<lo, lo + size - 1>>}
    PROVE  HeapOK(t)' /\ BlocksOK(t)'
<1> DEFINE new == <<lo, lo + size - 1>>
<1>1. BlocksOK(t)  BY DEF VirtInv
<1>2. used \subseteq used'  BY DEF Allocated
<1>3. blocks[t] \subseteq Nat \X Nat  BY DEF VirtInv, TypeOK
<1>4. /\ new[1] = lo /\ BackedTo(new) = lo + Part(size) - 1
      /\ Part(size) \in Nat /\ Part(size) <= size
    <2>1. Part(size) \in Nat /\ Part(size) <= size  BY Constants DEF Part
    <2>2. QED  BY <2>1, BackedFacts
<1>5. h * PageUnits \in Nat /\ PageUnits \in Nat  BY Constants
<1>6. hi = h * PageUnits + PageUnits - 1 /\ h * PageUnits <= lo
    BY DEF Room
<1>7. ASSUME NEW b \in blocks[t]
      PROVE  (BackedTo(b) < lo \/ hi < b[1]) /\ b[1] \in Nat /\ BackedTo(b) \in Nat
    BY <1>3, BackedFacts DEF Room
<1> HIDE DEF new
<1>8. HeapOK(t)'
    <2>1. ASSUME NEW b \in blocks'[t]
          PROVE  BackedTo(b) < lo + size \/ hi < b[1]
        <3>1. CASE b = new  BY <1>4, <3>1
        <3>2. CASE b \in blocks[t]  BY <1>7, <3>2
        <3>3. QED  BY <3>1, <3>2 DEF new
    <2>2. ASSUME NEW u \in Task \ {t}
          PROVE  trans'[t][h] \notin Own(u)'
        <3>1. trans[t][h] \notin Own(u)  BY DEF Room
        <3>2. QED  BY <3>1
    <2>3. h * PageUnits <= lo + size  BY <1>5, <1>6
    <2>4. Room(t, h, cur_ptr[t], heap_end[t])'
        BY <1>6, <2>1, <2>2, <2>3 DEF Room
    <2>5. trans'[t][h] \in used'  OBVIOUS
    <2>6. QED  BY <2>4, <2>5 DEF HeapOK
<1>9. BlocksOK(t)'
    <2>1. ASSUME NEW b \in blocks'[t]
          PROVE  \E pg \in Frame : InPage(b, pg) /\ trans'[t][pg] \in used'
        <3>1. CASE b = new
            <4>1. InPage(new, h)  BY <1>4, <1>5, <1>6 DEF InPage
            <4>2. QED  BY <3>1, <4>1
        <3>2. CASE b \in blocks[t]
            <4>1. PICK pg \in Frame : InPage(b, pg) /\ trans[t][pg] \in used
                BY <1>1, <3>2 DEF BlocksOK
            <4>2. QED  BY <1>2, <4>1
        <3>3. QED  BY <3>1, <3>2 DEF new
    <2>2. ASSUME NEW b \in blocks[t]
          PROVE  BackedTo(b) < new[1] \/ BackedTo(new) < b[1]
        BY <1>4, <1>7
    <2>3. \A b, c \in blocks'[t] : b # c => BackedTo(b) < c[1] \/ BackedTo(c) < b[1]
        <3> SUFFICES ASSUME NEW b \in blocks'[t], NEW c \in blocks'[t], b # c
                     PROVE  BackedTo(b) < c[1] \/ BackedTo(c) < b[1]
            OBVIOUS
        <3>1. CASE b \in blocks[t] /\ c \in blocks[t]
            BY <1>1, <3>1 DEF BlocksOK
        <3>2. CASE b = new /\ c \in blocks[t]  BY <2>2, <3>2
        <3>3. CASE c = new /\ b \in blocks[t]  BY <2>2, <3>3
        <3>4. QED  BY <3>1, <3>2, <3>3 DEF new
    <2>4. QED  BY <2>1, <2>3 DEF BlocksOK
<1>10. QED  BY <1>8, <1>9

\* add_to_vma records at most the page it is given.
LEMMA Added ==
    ASSUME NEW v \in [VmaIdx -> SUBSET VPage], NEW pg \in VPage
    PROVE  /\ add_to_vma(v, pg) \in [VmaIdx -> SUBSET VPage]
           /\ Recorded(add_to_vma(v, pg)) \subseteq Recorded(v) \cup {pg}
<1>1. CASE Unused(v) = {}  BY <1>1 DEF add_to_vma
<1>2. CASE Unused(v) # {}
    <2>1. Unused(v) \subseteq Nat /\ Unused(v) \subseteq VmaIdx
        BY Constants DEF Unused
    <2>2. \E x \in Unused(v) : \A y \in Unused(v) : x <= y
        BY <1>2, <2>1, NatLeast
    <2>3. Min(Unused(v)) \in VmaIdx  BY <2>1, <2>2 DEF Min
    <2>4. PICK i \in VmaIdx : add_to_vma(v, pg) = [v EXCEPT ![i] = {pg}]
        BY <1>2, <2>3 DEF add_to_vma
    <2>5. [v EXCEPT ![i] = {pg}] \in [VmaIdx -> SUBSET VPage]  OBVIOUS
    <2>6. Recorded([v EXCEPT ![i] = {pg}]) \subseteq Recorded(v) \cup {pg}
        BY DEF Recorded
    <2>7. QED  BY <2>4, <2>5, <2>6
<1>3. QED  BY <1>1, <1>2

\* An available page holds no part of a block.
LEMMA NewPageApart ==
    ASSUME VirtInv, NEW t \in Live, NEW h \in mem_map, NEW b \in blocks[t]
    PROVE  BackedTo(b) < h * PageUnits \/ h * PageUnits + PageUnits - 1 < b[1]
<1>1. /\ t \in Task /\ mem_map \subseteq Frame /\ blocks[t] \subseteq Nat \X Nat
      /\ h \in Nat /\ PageUnits \in Nat \ {0}
    <2>1. t \in Task  BY LiveTasks DEF VirtInv
    <2>2. mem_map \subseteq Frame /\ blocks[t] \subseteq Nat \X Nat
        BY <2>1 DEF VirtInv, TypeOK, PhysTypeOK
    <2>3. QED  BY <2>1, <2>2, Constants
<1>2. PICK pg \in Frame : InPage(b, pg) /\ trans[t][pg] \in used
    BY <1>1 DEF VirtInv, BlocksOK
<1>3. trans[t][h] = h  BY DEF VirtInv, KernelMappingIntact
<1>4. h \notin used  BY DEF VirtInv, PhysInv, NoDoubleAlloc
<1>5. pg # h /\ pg \in Nat  BY <1>2, <1>3, <1>4, Constants
<1> DEFINE lo == h * PageUnits
           at == pg * PageUnits
<1>6. at + PageUnits <= lo \/ lo + PageUnits <= at
    BY <1>1, <1>5, PagesApart
<1>7. lo \in Nat /\ at \in Nat /\ b[1] \in Nat /\ BackedTo(b) \in Nat
    BY <1>1, <1>5, BackedFacts
<1>8. at <= b[1] /\ BackedTo(b) < at + PageUnits
    BY <1>2 DEF InPage
<1> HIDE DEF lo, at
<1>9. BackedTo(b) < lo \/ lo + PageUnits - 1 < b[1]
    BY <1>1, <1>6, <1>7, <1>8
<1>10. QED  BY <1>9 DEF lo

\* kmalloc finds room for size in a heap page that overlaps no block, is
\* recorded by no other task, and is the old one or the second page allocated.
LEMMA KmallocFacts ==
    ASSUME VirtInv, NEW t \in Live, NEW size \in Nat,
           Enough(kmallocPages(t, size))
    PROVE  /\ kmallocPages(t, size) \in {0, 2}
           /\ kmallocVma(t, size) \in [VmaIdx -> SUBSET VPage]
           /\ Recorded(kmallocVma(t, size))
                \subseteq Recorded(vma[t]) \cup
                    {Page(k) : k \in {2} \cap (1 .. kmallocPages(t, size))}
           /\ kmallocPtr(t, size) \in Nat \ {0}
           /\ kmallocEnd(t, size) \in Nat
           /\ kmallocUsage(t, size) \in Nat
           /\ kmallocPtr(t, size) <= kmallocEnd(t, size)
           /\ kmallocPtr(t, size) + Part(size) <= kmallocEnd(t, size) + 1
           /\ \E h \in Frame :
                /\ Room(t, h, kmallocPtr(t, size), kmallocEnd(t, size))
                /\ \/ trans[t][h] \in used
                   \/ /\ 2 \in 1 .. kmallocPages(t, size)
                      /\ h = Page(2) /\ trans[t][h] = h
<1> DEFINE n == kmallocPages(t, size)
<1>0. /\ t \in Task /\ cur_ptr[t] \in Nat /\ heap_end[t] \in Nat
      /\ current_mem_usage[t] \in Nat /\ vma[t] \in [VmaIdx -> SUBSET VPage]
      /\ mem_map \subseteq Frame /\ size \in Nat /\ PageUnits \in Nat
      /\ PageUnits >= 1 /\ blocks[t] \subseteq Nat \X Nat
      /\ Part(size) \in Nat /\ Part(size) <= size /\ Part(size) <= PageUnits
    BY Constants DEF Part, VirtInv, TypeOK, PhysTypeOK, Live, Task
<1>1. n \in {0, 2}  BY DEF kmallocPages
<1>2. CASE Fits(t, size)
    <2>1. /\ n = 0 /\ kmallocVma(t, size) = vma[t]
          /\ kmallocPtr(t, size) = cur_ptr[t]
          /\ kmallocEnd(t, size) = heap_end[t]
          /\ kmallocUsage(t, size) = current_mem_usage[t] + 0
        BY <1>2 DEF kmallocPages, kmallocVma, kmallocPtr, kmallocEnd, kmallocUsage
    <2>2. HeapOK(t) /\ cur_ptr[t] # NotPresent
        BY <1>0, <1>2 DEF VirtInv, Fits
    <2>3. PICK h \in Frame : Room(t, h, cur_ptr[t], heap_end[t]) /\ trans[t][h] \in used
        BY <2>2 DEF HeapOK
    <2>4. /\ cur_ptr[t] <= heap_end[t] /\ cur_ptr[t] + Part(size) <= heap_end[t] + 1
          /\ cur_ptr[t] \in Nat \ {0}
        BY <1>0, <1>2 DEF Fits, NotPresent
    <2>5. QED  BY <1>0, <1>1, <2>1, <2>3, <2>4
<1>3. CASE ~ Fits(t, size)
    <2> DEFINE h == Page(2)
    <2>1. /\ n = 2 /\ kmallocVma(t, size) = add_to_vma(add_to_vma(vma[t], h), h)
          /\ kmallocPtr(t, size) = h * PageUnits
          /\ kmallocEnd(t, size) = h * PageUnits + PageUnits - 1
          /\ kmallocUsage(t, size) = current_mem_usage[t] + 3
        BY <1>3 DEF kmallocPages, kmallocVma, kmallocPtr, kmallocEnd, kmallocUsage
    <2>2. Page(2) \in mem_map  BY <1>0, <2>1, PageFacts
    <2>3. h \in mem_map /\ h \in Frame /\ h \in Nat /\ h \in VPage
        BY <1>0, <2>2, Constants
    <2> HIDE DEF h
    <2>4. trans[t][h] = h  BY <2>3 DEF VirtInv, KernelMappingIntact
    <2>5. h \notin used  BY <2>3 DEF VirtInv, PhysInv, NoDoubleAlloc
    <2>6. h * PageUnits \in Nat \ {0}
        <3>1. h # 0
            <4>1. Booted  BY <1>0, Constants DEF VirtInv, TypeOK, Live, Task
            <4>2. QED  BY <2>3, <4>1 DEF VirtInv, PhysInv, NoNullPage
        <3>2. QED  BY <1>0, <2>3, <3>1
    <2> DEFINE lo == h * PageUnits
               hi == h * PageUnits + PageUnits - 1
    <2>7. \A b \in blocks[t] : BackedTo(b) < lo \/ hi < b[1]  BY <2>3, NewPageApart
    <2>8. \A u \in Task \ {t} : trans[t][h] \notin Own(u)
        BY <1>0, <2>4, <2>5 DEF VirtInv, Private
    <2>9. lo + Part(size) <= hi + 1 /\ lo <= hi /\ lo <= lo /\ hi \in Nat
        BY <1>0, <2>6
    <2>10. Room(t, h, lo, hi)  BY <2>7, <2>8, <2>9 DEF Room
    <2>11. /\ kmallocVma(t, size) \in [VmaIdx -> SUBSET VPage]
           /\ Recorded(kmallocVma(t, size)) \subseteq Recorded(vma[t]) \cup {h}
        BY <1>0, <2>1, <2>3, Added
    <2>12. 2 \in 1 .. n /\ {2} \cap (1 .. n) = {2}  BY <2>1
    <2>13. {Page(k) : k \in {2} \cap (1 .. n)} = {h}  BY <2>12 DEF h
    <2>14. current_mem_usage[t] + 3 \in Nat  BY <1>0
    <2>15. /\ kmallocPtr(t, size) = lo /\ kmallocEnd(t, size) = hi
           /\ kmallocUsage(t, size) = current_mem_usage[t] + 3
        BY <2>1
    <2> HIDE DEF lo, hi, n
    <2>16. \E g \in Frame :
              /\ Room(t, g, kmallocPtr(t, size), kmallocEnd(t, size))
              /\ 2 \in 1 .. n /\ g = Page(2) /\ trans[t][g] = g
        BY <2>3, <2>4, <2>10, <2>12, <2>15 DEF h
    <2>17. lo \in Nat \ {0}  BY <2>6 DEF lo
    <2>18. kmallocPages(t, size) = n  BY DEF n
    <2>19. QED
        BY <1>1, <2>9, <2>11, <2>13, <2>14, <2>15, <2>16, <2>17, <2>18
<1>4. QED  BY <1>2, <1>3
-----------------------------------------------------------------------------
(* Boot.                                                                   *)

\* Before the first task there are only the kernel's page tables.
LEMMA NoTasks ==
    ASSUME PhysInv, TypeOK, ntasks = 0, Fresh, tables[1] \subseteq used
    PROVE  VirtInv
<1>1. \A t \in Task : /\ t > ntasks /\ Own(t) = {}
                      /\ IF t = 1 THEN tables[t] \subseteq used ELSE tables[t] = {}
    BY Constants DEF Task, Fresh, Own
<1>2. Private  BY <1>1 DEF Private
<1>3. KernelMappingIntact  BY DEF KernelMappingIntact, Live
<1>4. \A t \in Task : HeapOK(t) /\ BlocksOK(t)
    BY <1>1 DEF Fresh, HeapOK, BlocksOK
<1>5. QED  BY <1>2, <1>3, <1>4 DEF VirtInv

LEMMA InitInv == Init => VirtInv
<1> SUFFICES ASSUME Init PROVE VirtInv  OBVIOUS
<1>1. PhysInv  BY PhysInitInv DEF Init
<1>2. TypeOK
    BY <1>1, Constants, VirtAssumption
    DEF Init, TypeOK, PhysInv, NotPresent, Halts, Task
<1>3. Fresh  BY DEF Init, Fresh, Recorded
<1>4. tables[1] \subseteq used  BY Constants DEF Init, Task
<1>5. QED  BY <1>1, <1>2, <1>3, <1>4, NoTasks DEF Init

\* A step of the boot that allocates memory keeps what the kernel has.
LEMMA BootStep ==
    ASSUME VirtInv, PhysInv', TypeOK', ntasks' = 0, tables'[1] \subseteq used',
           \A t \in Task \ {1} : tables'[t] = tables[t],
           UNCHANGED <<ntasks, vma, cur_ptr, blocks>>
    PROVE  VirtInv'
<1>1. Fresh'
    <2> SUFFICES ASSUME NEW t \in Task, t > ntasks
                 PROVE  /\ cur_ptr[t] = NotPresent
                        /\ blocks[t] = {}
                        /\ t # 1 => tables'[t] = {}
                        /\ Recorded(vma[t]) = {}
        BY DEF Fresh, Recorded
    <2>1. QED  BY DEF VirtInv, Fresh
<1>2. PhysInv' /\ TypeOK' /\ (ntasks = 0)' /\ Fresh' /\ (tables[1] \subseteq used)'
    BY <1>1
<1>3. QED  BY <1>2, NoTasks, PTL

LEMMA LoadMemoryMapInv == VirtInv /\ LoadMemoryMap => VirtInv'
<1> SUFFICES ASSUME VirtInv, LoadMemoryMap PROVE VirtInv'  OBVIOUS
<1>1. PhysInv'  BY RegionInv DEF VirtInv, LoadMemoryMap
<1>2. UNCHANGED <<taskVars, halted>> /\ ntasks = 0 /\ used' = used
    BY DEF LoadMemoryMap, NextRegion
<1>3. TypeOK'  BY <1>1, <1>2 DEF VirtInv, TypeOK, PhysInv, taskVars, Recorded
<1>4. tables'[1] \subseteq used'
    BY <1>2, Constants DEF VirtInv, Private, taskVars, Task
<1>5. QED  BY <1>1, <1>2, <1>3, <1>4, BootStep DEF taskVars

LEMMA BootAllocInv == VirtInv /\ BootAlloc => VirtInv'
<1> SUFFICES ASSUME VirtInv, BootAlloc PROVE VirtInv'  OBVIOUS
<1> DEFINE f == get_index_of_free_page
<1>1. PhysInv'  BY AllocInv DEF VirtInv, BootAlloc
<1>2. f \in Frame
    BY FreePage DEF VirtInv, PhysInv, PhysTypeOK, BootAlloc, page_alloc
<1>3. used' = used \cup {f}  BY DEF BootAlloc, page_alloc
<1> HIDE DEF f
<1>4. /\ tables' \in {tables, [tables EXCEPT ![1] = @ \cup {f}]}
      /\ ntasks = 0
      /\ UNCHANGED <<ntasks, trans, vma, cur_ptr, heap_end, current_mem_usage,
                     mem_limit, blocks, halted>>
    BY DEF BootAlloc, f
<1>5. tables \in [Task -> SUBSET Frame] /\ 1 \in Task
    BY Constants DEF VirtInv, TypeOK, Task
<1>6. tables' \in [Task -> SUBSET Frame]  BY <1>2, <1>4, <1>5
<1>7. TypeOK'  BY <1>1, <1>4, <1>6 DEF VirtInv, TypeOK, PhysInv
<1>8. tables'[1] \subseteq used' /\ \A t \in Task \ {1} : tables'[t] = tables[t]
    <2>1. tables[1] \subseteq used  BY <1>5 DEF VirtInv, Private
    <2>2. QED  BY <1>3, <1>4, <1>5, <2>1
<1>9. QED  BY <1>1, <1>4, <1>7, <1>8, BootStep

\* What all calls need to know of the pages they allocate.
LEMMA CallFacts ==
    ASSUME VirtInv, NEW n \in Nat, Enough(n)
    PROVE  /\ mem_map \subseteq Frame /\ mem_map \subseteq VPage
           /\ \A k \in 1 .. n : Page(k) \in mem_map
           /\ \A k, l \in 1 .. n : Page(k) = Page(l) => k = l
           /\ mem_map \cap used = {}
           /\ \A t \in Live, f \in mem_map : trans[t][f] = f
           /\ Live \subseteq Task /\ ntasks \in Nat
<1>1. mem_map \subseteq Frame  BY DEF VirtInv, PhysInv, PhysTypeOK
<1>2. mem_map \cap used = {}  BY DEF VirtInv, PhysInv, NoDoubleAlloc
<1>3. \A t \in Live, f \in mem_map : trans[t][f] = f
    BY DEF VirtInv, KernelMappingIntact
<1>4. ntasks \in 0 .. MaxTasks  BY DEF VirtInv, TypeOK
<1>5. Live \subseteq Task /\ ntasks \in Nat  BY <1>4, Constants DEF Live, Task
<1>6. QED  BY <1>1, <1>2, <1>3, <1>5, PageFacts, Constants

LEMMA StartKernelInv == VirtInv /\ StartKernel => VirtInv'
<1> SUFFICES ASSUME VirtInv, StartKernel PROVE VirtInv'  OBVIOUS
<1> DEFINE f == get_index_of_free_page
<1>1. /\ Booted /\ ntasks = 0 /\ ntasks' = 1
      /\ trans' = [trans EXCEPT ![1] = identity_mapping(trans[1])]
      /\ vma' = [vma EXCEPT ![1][VMA_KERNEL_STACK_IDX] = {f}]
      /\ current_mem_usage' = [current_mem_usage EXCEPT ![1] = 2]
      /\ UNCHANGED <<tables, cur_ptr, heap_end, mem_limit, blocks, halted>>
      /\ mem_map # {} /\ mem_map' = mem_map \ {f} /\ used' = used \cup {f}
      /\ UNCHANGED bootVars
    BY DEF StartKernel, page_alloc, bootVars
<1>2. 1 \in Task /\ MaxTasks >= 1  BY Constants DEF Task
<1>3. /\ mem_map \subseteq Frame /\ mem_map \subseteq VPage
      /\ mem_map \cap used = {} /\ Enough(1) /\ f = Page(1) /\ f \in mem_map
    <2>1. mem_map \subseteq Frame /\ mem_map \cap used = {}
        BY DEF VirtInv, PhysInv, PhysTypeOK, NoDoubleAlloc
    <2>2. Enough(1) /\ f = Page(1)  BY <1>1, <2>1, PageOne
    <2>3. Page(1) \in mem_map  BY <2>1, <2>2, PageFacts
    <2>4. QED  BY <2>1, <2>2, <2>3, Constants
<1> HIDE DEF f
<1>4. Allocated(1)
    <2>1. {Page(k) : k \in 1 .. 1} = {f}  BY <1>3
    <2>2. QED  BY <1>1, <2>1 DEF Allocated
<1>5. PhysInv'  BY <1>1, <1>3, <1>4, AllocatedInv DEF VirtInv
<1>6. /\ trans \in [Task -> [VPage -> Frame]]
      /\ tables \in [Task -> SUBSET Frame]
      /\ vma \in [Task -> [VmaIdx -> SUBSET VPage]]
      /\ current_mem_usage \in [Task -> Nat]
    BY DEF VirtInv, TypeOK
<1>7. identity_mapping(trans[1]) \in [VPage -> Frame]
    BY <1>2, <1>6 DEF identity_mapping, MapIdentity
<1>8. TypeOK'
    <2>1. trans' \in [Task -> [VPage -> Frame]]  BY <1>1, <1>6, <1>7
    <2>2. {f} \in SUBSET VPage  BY <1>3
    <2>3. vma' \in [Task -> [VmaIdx -> SUBSET VPage]]
        BY <1>1, <1>6, <2>2, Constants DEF VMA_KERNEL_STACK_IDX
    <2>4. current_mem_usage' \in [Task -> Nat]  BY <1>1, <1>6
    <2>5. ntasks' \in 0 .. MaxTasks  BY <1>1, <1>2, Constants
    <2>6. PhysTypeOK'  BY <1>5 DEF PhysInv
    <2>7. QED  BY <1>1, <2>1, <2>3, <2>4, <2>5, <2>6 DEF VirtInv, TypeOK
<1>9. \A t \in Task : /\ cur_ptr[t] = NotPresent /\ blocks[t] = {}
                      /\ t # 1 => tables[t] = {}
                      /\ Recorded(vma[t]) = {}
    BY <1>1, Constants DEF VirtInv, Fresh, Task
<1>10. \A t \in Task \ {1} : vma'[t] = vma[t]  BY <1>1, <1>6
<1>11. Fresh'
    <2> SUFFICES ASSUME NEW t \in Task, t > 1
                 PROVE  /\ cur_ptr[t] = NotPresent /\ blocks[t] = {}
                        /\ tables[t] = {} /\ Recorded(vma'[t]) = {}
        BY <1>1 DEF Fresh, Recorded
    <2>1. t # 1  BY DEF Task
    <2>2. QED  BY <1>9, <1>10, <2>1
<1>12. Recorded(vma'[1]) \subseteq {f}
    <2>1. vma'[1] = [vma[1] EXCEPT ![1] = {f}]
        BY <1>1, <1>2, <1>6 DEF VMA_KERNEL_STACK_IDX
    <2>2. Recorded(vma[1]) = {} /\ vma[1] \in [VmaIdx -> SUBSET VPage]
        BY <1>2, <1>6, <1>9
    <2>3. QED  BY <2>1, <2>2 DEF Recorded
<1>13. \A g \in mem_map \cup used : trans'[1][g] = g
    <2>1. \A g \in mem_map \cup used : g * PHYS_PAGE_SIZE <= max_phys /\ g < Window
        BY <1>1 DEF VirtInv, PhysInv, BelowTop
    <2>2. mem_map \cup used \subseteq Frame
        BY DEF VirtInv, PhysInv, PhysTypeOK
    <2>3. trans'[1] = identity_mapping(trans[1])  BY <1>1, <1>2, <1>6
    <2>4. QED  BY <2>1, <2>2, <2>3, Constants DEF identity_mapping, MapIdentity
<1>14. Private'
    <2> DEFINE A == [t \in Task |-> IF t = 1 THEN {1} ELSE {}]
               B == [t \in Task |-> {}]
    <2>1. /\ A \in [Task -> SUBSET (1 .. 1)] /\ B \in [Task -> SUBSET (1 .. 1)]
        OBVIOUS
    <2>2. \A t, u \in Task : A[t] \cap B[u] = {}  OBVIOUS
    <2>3. \A t, u \in Task : t # u => A[t] \cap A[u] = {} /\ B[t] \cap B[u] = {}
        OBVIOUS
    <2>4. ASSUME NEW t \in Task
          PROVE  /\ Own(t)' \subseteq Own(t) \cup {Page(k) : k \in A[t]}
                 /\ tables'[t] \subseteq tables[t] \cup {Page(k) : k \in B[t]}
        <3>1. CASE t = 1
            <4>1. Own(1)' \subseteq {f}
                BY <1>2, <1>3, <1>12, <1>13 DEF Own, Recorded
            <4>2. QED  BY <1>1, <1>2, <1>3, <3>1, <4>1
        <3>2. CASE t # 1
            <4>1. Recorded(vma[t])' = {}  BY <1>9, <1>10, <3>2 DEF Recorded
            <4>2. Own(t)' = {}  BY <4>1 DEF Own
            <4>3. QED  BY <1>1, <4>2
        <3>3. QED  BY <3>1, <3>2
    <2> HIDE DEF A, B
    <2>5. QED  BY <1>3, <1>4, <2>1, <2>2, <2>3, <2>4, PrivateStep
<1>15. KernelMappingIntact'
    <2> SUFFICES ASSUME NEW g \in mem_map' \cup UNION {tables'[u] : u \in Live'}
                 PROVE  trans'[1][g] = g
        BY <1>1 DEF KernelMappingIntact, Live
    <2>1. tables[1] \subseteq used  BY <1>2 DEF VirtInv, Private
    <2>2. Live' = {1}  BY <1>1 DEF Live
    <2>3. QED  BY <1>1, <1>13, <2>1, <2>2
<1>16. \A t \in Task : HeapOK(t)' /\ BlocksOK(t)'
    BY <1>1, <1>9 DEF HeapOK, BlocksOK
<1>17. Booted'  BY <1>1 DEF Booted, bootVars
<1>18. QED  BY <1>5, <1>8, <1>11, <1>14, <1>15, <1>16, <1>17 DEF VirtInv
-----------------------------------------------------------------------------
(* Calls that change one task.                                             *)

\* The kernel's mapping survives a call that does not create a task.
LEMMA KernelKept ==
    ASSUME VirtInv, NEW n \in Nat, Enough(n), Allocated(n), ntasks' = ntasks,
           \A t \in Live : \A f \in Frame : trans'[t][f] = trans[t][f],
           \A t \in Live : tables'[t] \subseteq tables[t] \cup mem_map
    PROVE  KernelMappingIntact'
<1> SUFFICES ASSUME NEW t \in Live,
                    NEW f \in mem_map' \cup UNION {tables'[u] : u \in Live}
             PROVE  trans'[t][f] = f
    BY DEF KernelMappingIntact, Live
<1>1. mem_map' \subseteq mem_map  BY DEF Allocated
<1>2. f \in mem_map \cup UNION {tables[u] : u \in Live}  BY <1>1
<1>3. trans[t][f] = f  BY <1>2 DEF VirtInv, KernelMappingIntact
<1>4. Live \subseteq Task /\ mem_map \subseteq Frame  BY CallFacts
<1>5. f \in Frame  BY <1>2, <1>4 DEF VirtInv, TypeOK
<1>6. QED  BY <1>3, <1>5

\* A call of task t that takes the pages numbered A for its vma entries and
\* those numbered B for its tables, and touches no other task.
LEMMA ActorStep ==
    ASSUME VirtInv, NEW n \in Nat, Enough(n), Allocated(n), NEW t \in Live,
           NEW A \in SUBSET (1 .. n), NEW B \in SUBSET (1 .. n), A \cap B = {},
           TypeOK', ntasks' = ntasks,
           \A f \in Frame : trans'[t][f] = trans[t][f],
           Own(t)' \subseteq Own(t) \cup {Page(k) : k \in A},
           tables'[t] \subseteq tables[t] \cup {Page(k) : k \in B},
           HeapOK(t)', BlocksOK(t)',
           \A u \in Task \ {t} :
              /\ trans'[u] = trans[u] /\ vma'[u] = vma[u] /\ tables'[u] = tables[u]
              /\ cur_ptr'[u] = cur_ptr[u] /\ heap_end'[u] = heap_end[u]
              /\ blocks'[u] = blocks[u]
    PROVE  VirtInv'
<1>1. /\ mem_map \subseteq Frame /\ Live \subseteq Task /\ ntasks \in Nat
      /\ \A k \in 1 .. n : Page(k) \in mem_map
    BY CallFacts
<1>2. Booted  BY <1>1 DEF VirtInv, Live
<1>3. PhysInv'  BY <1>2, AllocatedInv DEF VirtInv
<1>4. Booted'  BY <1>2 DEF Booted, Allocated, bootVars
<1>5. \A u \in Task \ {t} : Own(u)' = Own(u)  BY DEF Own, Recorded
<1>6. Fresh'
    <2> SUFFICES ASSUME NEW u \in Task, u > ntasks
                 PROVE  /\ cur_ptr'[u] = NotPresent /\ blocks'[u] = {}
                        /\ tables'[u] = {} /\ Recorded(vma'[u]) = {}
        BY DEF Fresh, Recorded
    <2>1. u \in Task \ {t} /\ u # 1  BY <1>1 DEF Live, Task
    <2>2. QED  BY <2>1 DEF VirtInv, Fresh
<1>7. Private'
    <2> DEFINE AA == [u \in Task |-> IF u = t THEN A ELSE {}]
               BB == [u \in Task |-> IF u = t THEN B ELSE {}]
    <2>1. AA \in [Task -> SUBSET (1 .. n)] /\ BB \in [Task -> SUBSET (1 .. n)]
        OBVIOUS
    <2>2. \A x, u \in Task : AA[x] \cap BB[u] = {}  OBVIOUS
    <2>3. \A x, u \in Task : x # u => AA[x] \cap AA[u] = {} /\ BB[x] \cap BB[u] = {}
        OBVIOUS
    <2>4. \A u \in Task : /\ Own(u)' \subseteq Own(u) \cup {Page(k) : k \in AA[u]}
                          /\ tables'[u] \subseteq tables[u] \cup {Page(k) : k \in BB[u]}
        <3> SUFFICES ASSUME NEW u \in Task
                     PROVE  /\ Own(u)' \subseteq Own(u) \cup {Page(k) : k \in AA[u]}
                            /\ tables'[u] \subseteq tables[u] \cup {Page(k) : k \in BB[u]}
            OBVIOUS
        <3>1. CASE u = t  BY <3>1
        <3>2. CASE u # t  BY <1>5, <3>2
        <3>3. QED  BY <3>1, <3>2
    <2> HIDE DEF AA, BB
    <2>5. QED  BY <2>1, <2>2, <2>3, <2>4, PrivateStep
<1>8. /\ \A u \in Task : Own(u)' \subseteq Own(u) \cup mem_map
      /\ \A u \in Live : tables'[u] \subseteq tables[u] \cup mem_map
    <2>1. {Page(k) : k \in A} \subseteq mem_map /\ {Page(k) : k \in B} \subseteq mem_map
        BY <1>1
    <2>2. QED  BY <1>1, <1>5, <2>1
<1>9. \A u \in Task : \A f \in Frame : trans'[u][f] = trans[u][f]  OBVIOUS
<1>10. KernelMappingIntact'  BY <1>1, <1>8, <1>9, KernelKept
<1>11. \A u \in Task : HeapOK(u)' /\ BlocksOK(u)'
    <2> SUFFICES ASSUME NEW u \in Task PROVE HeapOK(u)' /\ BlocksOK(u)'  OBVIOUS
    <2>1. CASE u = t  BY <2>1
    <2>2. CASE u # t  BY <1>8, <1>9, <2>2, HeapKept
    <2>3. QED  BY <2>1, <2>2
<1>12. QED  BY <1>3, <1>4, <1>6, <1>7, <1>10, <1>11 DEF VirtInv

\* kmalloc, by a program or on its behalf.
LEMMA KmallocInv ==
    ASSUME VirtInv, NEW t \in Task, Active(t), NEW size \in Nat,
           kmalloc(t, size),
           blocks' \in [Task -> SUBSET (Nat \X Nat)],
           blocks'[t] \subseteq blocks[t] \cup
                {<<kmallocPtr(t, size), kmallocPtr(t, size) + size - 1>>},
           \A u \in Task \ {t} : blocks'[u] = blocks[u]
    PROVE  VirtInv'
<1> DEFINE n == kmallocPages(t, size)
           p == kmallocPtr(t, size)
           e == kmallocEnd(t, size)
           v == kmallocVma(t, size)
           A == {2} \cap (1 .. n)
<1>0. t \in Live
    BY Constants DEF Active, VirtInv, TypeOK, Live, Task
<1>1. /\ Enough(n) /\ Allocated(n) /\ ntasks' = ntasks
      /\ trans' = [trans EXCEPT ![t] = kmallocTrans(t, size)]
      /\ vma' = [vma EXCEPT ![t] = v]
      /\ current_mem_usage' = [current_mem_usage EXCEPT ![t] = kmallocUsage(t, size)]
      /\ cur_ptr' = [cur_ptr EXCEPT ![t] = p + size]
      /\ heap_end' = [heap_end EXCEPT ![t] = e]
      /\ UNCHANGED <<tables, mem_limit, halted>>
    BY DEF kmalloc
<1>2. /\ n \in {0, 2}
      /\ v \in [VmaIdx -> SUBSET VPage]
      /\ Recorded(v) \subseteq Recorded(vma[t]) \cup {Page(k) : k \in A}
      /\ p \in Nat /\ e \in Nat
      /\ kmallocUsage(t, size) \in Nat
      /\ p <= e /\ p + Part(size) <= e + 1
      /\ \E h \in Frame :
            /\ Room(t, h, p, e)
            /\ trans[t][h] \in used \/ (2 \in 1 .. n /\ h = Page(2) /\ trans[t][h] = h)
    BY <1>0, <1>1, KmallocFacts
<1>3. n \in Nat  BY <1>2
<1>4. blocks'[t] \subseteq blocks[t] \cup {<<p, p + size - 1>>}  OBVIOUS
<1> HIDE DEF p, e, v
<1>5. kmallocTrans(t, size) = MapIdentity(trans[t], {Page(k) : k \in 1 .. n})
    BY DEF kmallocTrans
<1> HIDE DEF n
<1>6. /\ mem_map \subseteq Frame
      /\ \A k \in 1 .. n : Page(k) \in mem_map
      /\ mem_map \cap used = {}
      /\ \A f \in mem_map : trans[t][f] = f
    BY <1>0, <1>1, <1>3, CallFacts
<1>7. kmallocTrans(t, size) = trans[t]
    BY <1>0, <1>5, <1>6, NoRemap
<1>8. trans \in [Task -> [VPage -> Frame]] /\ vma \in [Task -> [VmaIdx -> SUBSET VPage]]
      /\ cur_ptr \in [Task -> Nat] /\ heap_end \in [Task -> Nat]
      /\ current_mem_usage \in [Task -> Nat]
    BY DEF VirtInv, TypeOK
<1>9. trans' = trans  BY <1>1, <1>7, <1>8
<1>10. Booted  BY <1>0 DEF VirtInv, Live, TypeOK
<1>11. PhysTypeOK'  BY <1>1, <1>3, <1>10, AllocatedInv DEF VirtInv, PhysInv
<1>12. TypeOK'
    <2>1. vma' \in [Task -> [VmaIdx -> SUBSET VPage]]  BY <1>1, <1>2, <1>8
    <2>2. cur_ptr' \in [Task -> Nat] /\ heap_end' \in [Task -> Nat]
          /\ current_mem_usage' \in [Task -> Nat]
        BY <1>0, <1>1, <1>2, <1>8
    <2>3. QED  BY <1>1, <1>9, <1>11, <2>1, <2>2 DEF VirtInv, TypeOK
<1>13. vma'[t] = v /\ cur_ptr'[t] = p + size /\ heap_end'[t] = e
    BY <1>1, <1>8
<1>14. \A u \in Task \ {t} : /\ vma'[u] = vma[u] /\ cur_ptr'[u] = cur_ptr[u]
                             /\ heap_end'[u] = heap_end[u]
    BY <1>1, <1>8
<1>15. A \in SUBSET (1 .. n)  OBVIOUS
<1>16. Own(t)' \subseteq Own(t) \cup {Page(k) : k \in A}
    <2> SUFFICES ASSUME NEW q \in Recorded(v)
                 PROVE  trans[t][q] \in Own(t) \cup {Page(k) : k \in A}
        BY <1>9, <1>13 DEF Own, Recorded
    <2>1. CASE q \in Recorded(vma[t])  BY <2>1 DEF Own
    <2>2. CASE q \in {Page(k) : k \in A}  BY <1>6, <1>15, <2>2
    <2>3. QED  BY <1>2, <2>1, <2>2
<1>17. HeapOK(t)' /\ BlocksOK(t)'
    <2>1. PICK h \in Frame :
            /\ Room(t, h, p, e)
            /\ trans[t][h] \in used \/ (2 \in 1 .. n /\ h = Page(2) /\ trans[t][h] = h)
        BY <1>2
    <2>2. trans[t][h] \in used'  BY <1>1, <2>1 DEF Allocated
    <2>3. \A u \in Task \ {t} : Own(u)' \subseteq Own(u) \cup (mem_map \ {trans[t][h]})
        BY <1>9, <1>14 DEF Own, Recorded
    <2>4. QED
        BY <1>0, <1>1, <1>2, <1>3, <1>4, <1>9, <1>13, <2>1, <2>2, <2>3, HeapGiven
<1> DEFINE B == {}
<1>18. \A u \in Task \ {t} :
              /\ trans'[u] = trans[u] /\ vma'[u] = vma[u] /\ tables'[u] = tables[u]
              /\ cur_ptr'[u] = cur_ptr[u] /\ heap_end'[u] = heap_end[u]
              /\ blocks'[u] = blocks[u]
    BY <1>1, <1>9, <1>14
<1>19. \A f \in Frame : trans'[t][f] = trans[t][f]  BY <1>9
<1>20. tables'[t] \subseteq tables[t] \cup {Page(k) : k \in B}  BY <1>1
<1>21. B \in SUBSET (1 .. n) /\ A \cap B = {}  OBVIOUS
<1> HIDE DEF A, B
<1>22. QED
    BY <1>0, <1>1, <1>3, <1>12, <1>15, <1>16, <1>17, <1>18, <1>19, <1>20, <1>21,
       ActorStep

LEMMA MallocInv ==
    ASSUME VirtInv, NEW t \in Task, NEW size \in Sizes, Malloc(t, size)
    PROVE  VirtInv'
<1> DEFINE p == kmallocPtr(t, size)
<1>1. size \in Nat  BY VirtAssumption
<1>2. Active(t) /\ kmalloc(t, size)
      /\ blocks' = [blocks EXCEPT ![t] = @ \cup {<<p, p + size - 1>>}]
    BY DEF Malloc, InProgram
<1>3. t \in Live /\ blocks \in [Task -> SUBSET (Nat \X Nat)]
    BY <1>2 DEF Active, VirtInv, TypeOK, Live, Task
<1>4. p \in Nat \ {0}  BY <1>1, <1>2, <1>3, KmallocFacts DEF kmalloc
<1>5. p + size - 1 \in Nat  BY <1>1, <1>4
<1> HIDE DEF p
<1>6. /\ blocks' \in [Task -> SUBSET (Nat \X Nat)]
      /\ blocks'[t] = blocks[t] \cup {<<p, p + size - 1>>}
      /\ \A u \in Task \ {t} : blocks'[u] = blocks[u]
    BY <1>2, <1>3, <1>4, <1>5
<1>7. QED  BY <1>1, <1>2, <1>6, KmallocInv DEF p

LEMMA ExecNotFoundInv ==
    ASSUME VirtInv, NEW t \in Task, ExecNotFound(t)
    PROVE  VirtInv'
<1>1. ArgSize \in Nat  BY VirtAssumption
<1>2. Active(t) /\ kmalloc(t, ArgSize) /\ blocks' = blocks
    BY DEF ExecNotFound, InProgram
<1>3. blocks \in [Task -> SUBSET (Nat \X Nat)]  BY DEF VirtInv, TypeOK
<1>4. QED  BY <1>1, <1>2, <1>3, KmallocInv

\* sbrk gives a whole page to the program and leaves the heap page alone.
LEMMA SbrkInv ==
    ASSUME VirtInv, NEW t \in Task, Sbrk(t)
    PROVE  VirtInv'
<1> DEFINE h == Page(2)
           lo == h * PageUnits
           new == <<h * PageUnits, (h + 1) * PageUnits - 1>>
<1>1. /\ Active(t) /\ Enough(2) /\ Allocated(2) /\ ntasks' = ntasks
      /\ trans' = [trans EXCEPT ![t] = MapIdentity(trans[t], {Page(1), Page(2)})]
      /\ vma' = [vma EXCEPT ![t] = add_to_vma(vma[t], h)]
      /\ current_mem_usage' = [current_mem_usage EXCEPT ![t] = @ + 3]
      /\ blocks' = [blocks EXCEPT ![t] = @ \cup {new}]
      /\ UNCHANGED <<tables, cur_ptr, heap_end, mem_limit, halted>>
    BY DEF Sbrk, InProgram
<1>2. t \in Live /\ ntasks \in Nat  BY <1>1 DEF Active, VirtInv, TypeOK, Live, Task
<1>3. /\ mem_map \subseteq Frame /\ mem_map \subseteq VPage
      /\ Page(1) \in mem_map /\ Page(2) \in mem_map
      /\ mem_map \cap used = {}
      /\ \A f \in mem_map : trans[t][f] = f
    BY <1>1, <1>2, CallFacts
<1>4. h \in mem_map /\ h \in Frame /\ h \in Nat /\ h \notin used /\ trans[t][h] = h
      /\ h \in VPage /\ h \in used' /\ used \subseteq used'
    <2>1. \A k \in 1 .. 2 : Page(k) \in used'  BY <1>1 DEF Allocated
    <2>2. h \in used' /\ used \subseteq used'  BY <1>1, <2>1 DEF Allocated
    <2>3. QED  BY <1>3, <2>2, Constants
<1>5. /\ trans \in [Task -> [VPage -> Frame]] /\ vma \in [Task -> [VmaIdx -> SUBSET VPage]]
      /\ current_mem_usage \in [Task -> Nat]
      /\ blocks \in [Task -> SUBSET (Nat \X Nat)] /\ cur_ptr \in [Task -> Nat]
    BY DEF VirtInv, TypeOK
<1>6. trans' = trans
    <2>1. MapIdentity(trans[t], {Page(1), Page(2)}) = trans[t]
        BY <1>2, <1>3, NoRemap
    <2>2. QED  BY <1>1, <1>5, <2>1
<1>7. /\ add_to_vma(vma[t], h) \in [VmaIdx -> SUBSET VPage]
      /\ Recorded(add_to_vma(vma[t], h)) \subseteq Recorded(vma[t]) \cup {h}
    BY <1>4, <1>5, Added
<1>8. /\ lo \in Nat /\ new[1] = lo /\ BackedTo(new) = lo + PageUnits - 1
      /\ new \in Nat \X Nat /\ PageUnits \in Nat \ {0}
    <2>1. (h + 1) * PageUnits = h * PageUnits + PageUnits  BY <1>4, Constants
    <2>2. h * PageUnits \in Nat  BY <1>4, Constants
    <2>3. QED  BY <2>1, <2>2, Constants DEF BackedTo
<1> HIDE DEF h, lo, new
<1>9. \A b \in blocks[t] : BackedTo(b) < lo \/ lo + PageUnits - 1 < b[1]
    BY <1>2, <1>4, NewPageApart DEF lo
<1>10. /\ vma'[t] = add_to_vma(vma[t], h) /\ blocks'[t] = blocks[t] \cup {new}
       /\ \A u \in Task \ {t} : vma'[u] = vma[u] /\ blocks'[u] = blocks[u]
    BY <1>1, <1>5
<1>11. Booted  BY <1>2 DEF VirtInv, Live
<1>12. PhysTypeOK'  BY <1>1, <1>11, AllocatedInv DEF VirtInv, PhysInv
<1>13. TypeOK'
    <2>1. vma' \in [Task -> [VmaIdx -> SUBSET VPage]]  BY <1>1, <1>5, <1>7
    <2>2. blocks' \in [Task -> SUBSET (Nat \X Nat)]  BY <1>1, <1>5, <1>8
    <2>3. current_mem_usage' \in [Task -> Nat]  BY <1>1, <1>5
    <2>4. QED  BY <1>1, <1>6, <1>12, <2>1, <2>2, <2>3 DEF VirtInv, TypeOK
<1>14. Own(t)' \subseteq Own(t) \cup {h}
    <2> SUFFICES ASSUME NEW q \in Recorded(add_to_vma(vma[t], h))
                 PROVE  trans[t][q] \in Own(t) \cup {h}
        BY <1>6, <1>10 DEF Own, Recorded
    <2>1. CASE q \in Recorded(vma[t])  BY <2>1 DEF Own
    <2>2. QED  BY <1>4, <1>7, <2>1
<1>15. \A u \in Task \ {t} : Own(u)' = Own(u)  BY <1>6, <1>10 DEF Own, Recorded
<1>16. HeapOK(t)'
    <2> SUFFICES ASSUME cur_ptr[t] # NotPresent
                 PROVE  \E g \in Frame : Room(t, g, cur_ptr[t], heap_end[t])'
                                         /\ trans[t][g] \in used'
        BY <1>1, <1>6 DEF HeapOK, Room
    <2>1. PICK g \in Frame : Room(t, g, cur_ptr[t], heap_end[t]) /\ trans[t][g] \in used
        BY DEF VirtInv, HeapOK
    <2>2. g # h /\ g \in Nat  BY <1>4, <2>1, Constants
    <2> DEFINE at == g * PageUnits
    <2>3. at + PageUnits <= lo \/ lo + PageUnits <= at
        BY <1>4, <1>8, <2>2, PagesApart DEF lo
    <2>4. at \in Nat  BY <1>8, <2>2
    <2>5. heap_end[t] = at + PageUnits - 1 /\ at <= cur_ptr[t] /\ cur_ptr[t] \in Nat
        BY <1>5, <2>1 DEF Room
    <2> HIDE DEF at
    <2>6. BackedTo(new) < cur_ptr[t] \/ heap_end[t] < new[1]
        BY <1>8, <2>3, <2>4, <2>5
    <2>7. \A b \in blocks'[t] : BackedTo(b) < cur_ptr[t] \/ heap_end[t] < b[1]
        BY <1>10, <2>1, <2>6 DEF Room
    <2>8. \A u \in Task \ {t} : trans[t][g] \notin Own(u)'
        BY <1>15, <2>1 DEF Room
    <2>9. Room(t, g, cur_ptr[t], heap_end[t])'
        BY <1>1, <1>6, <2>1, <2>7, <2>8 DEF Room
    <2>10. QED  BY <1>4, <2>1, <2>9
<1>17. BlocksOK(t)'
    <2>1. ASSUME NEW b \in blocks'[t]
          PROVE  \E pg \in Frame : InPage(b, pg) /\ trans'[t][pg] \in used'
        <3>1. CASE b = new
            <4>1. InPage(new, h)  BY <1>8 DEF InPage, lo
            <4>2. QED  BY <1>4, <1>6, <3>1, <4>1
        <3>2. CASE b \in blocks[t]
            <4>1. PICK pg \in Frame : InPage(b, pg) /\ trans[t][pg] \in used
                BY <3>2 DEF VirtInv, BlocksOK
            <4>2. QED  BY <1>4, <1>6, <4>1
        <3>3. QED  BY <1>10, <3>1, <3>2
    <2>2. ASSUME NEW b \in blocks[t]
          PROVE  BackedTo(b) < new[1] \/ BackedTo(new) < b[1]
        BY <1>8, <1>9
    <2>3. \A b, c \in blocks'[t] : b # c => BackedTo(b) < c[1] \/ BackedTo(c) < b[1]
        <3> SUFFICES ASSUME NEW b \in blocks'[t], NEW c \in blocks'[t], b # c
                     PROVE  BackedTo(b) < c[1] \/ BackedTo(c) < b[1]
            OBVIOUS
        <3>1. CASE b \in blocks[t] /\ c \in blocks[t]
            BY <3>1 DEF VirtInv, BlocksOK
        <3>2. CASE b = new /\ c \in blocks[t]  BY <2>2, <3>2
        <3>3. CASE c = new /\ b \in blocks[t]  BY <2>2, <3>3
        <3>4. QED  BY <1>10, <3>1, <3>2, <3>3
    <2>4. QED  BY <2>1, <2>3 DEF BlocksOK
<1> DEFINE A == {2}
           B == {}
           n == 2
<1>18. Own(t)' \subseteq Own(t) \cup {Page(k) : k \in A}  BY <1>14 DEF h
<1>19. tables'[t] \subseteq tables[t] \cup {Page(k) : k \in B}  BY <1>1
<1>20. \A u \in Task \ {t} :
              /\ trans'[u] = trans[u] /\ vma'[u] = vma[u] /\ tables'[u] = tables[u]
              /\ cur_ptr'[u] = cur_ptr[u] /\ heap_end'[u] = heap_end[u]
              /\ blocks'[u] = blocks[u]
    BY <1>1, <1>6, <1>10
<1>21. \A f \in Frame : trans'[t][f] = trans[t][f]  BY <1>6
<1>22. /\ A \in SUBSET (1 .. n) /\ B \in SUBSET (1 .. n) /\ A \cap B = {}
       /\ n \in Nat /\ Enough(n) /\ Allocated(n) /\ ntasks' = ntasks
    BY <1>1
<1> HIDE DEF A, B, n
<1>23. QED
    BY <1>2, <1>13, <1>16, <1>17, <1>18, <1>19, <1>20, <1>21, <1>22,
       ActorStep

\* execvpe: stacks and segment get new pages, as does the heap unless there is
\* room, and the program's blocks are gone.
LEMMA ExecInv ==
    ASSUME VirtInv, NEW t \in Task, Exec(t)
    PROVE  VirtInv'
<1> DEFINE n == kmallocPages(t, ArgSize)
           p == kmallocPtr(t, ArgSize)
           e == kmallocEnd(t, ArgSize)
           N == ExecPages(t)
           idx(j) == IF j = 0 \/ HasSegment(t) THEN n + 5 + j ELSE n + 5 + j + 1
           m == [v \in VPage |->
                    IF v \in SegPage THEN Page(idx(v - MapFrames))
                    ELSE MapIdentity(trans[t], {Page(k) : k \in 1 .. (n + 4)})[v]]
           w == [i \in VmaIdx |->
                    CASE i = 0 -> {Page(n + 2)}
                      [] i = 1 -> {Page(n + 4)}
                      [] i = 3 -> SegPage
                      [] OTHER -> {}]
           A == {n + 2, n + 4} \cup {idx(j) : j \in 0 .. (SegPages - 1)}
           B == IF HasSegment(t) THEN {} ELSE {n + 6}
<1>1. /\ Active(t) /\ Enough(N) /\ Allocated(N) /\ ntasks' = ntasks
      /\ trans' = [trans EXCEPT ![t] = m]
      /\ tables' = [tables EXCEPT ![t] =
            IF HasSegment(t) THEN tables[t] ELSE tables[t] \cup {Page(n + 5 + 1)}]
      /\ vma' = [vma EXCEPT ![t] = w]
      /\ current_mem_usage' = [current_mem_usage EXCEPT ![t] =
            kmallocUsage(t, ArgSize) + 4 + SegPages]
      /\ cur_ptr' = [cur_ptr EXCEPT ![t] = p + ArgSize]
      /\ heap_end' = [heap_end EXCEPT ![t] = e]
      /\ blocks' = [blocks EXCEPT ![t] = {}]
      /\ UNCHANGED <<mem_limit, halted>>
    BY DEF Exec, VMA_USER_STACK_IDX, VMA_KERNEL_STACK_IDX, VMA_SEGMENT_START
<1>2. t \in Live /\ ntasks \in Nat
    BY <1>1 DEF Active, VirtInv, TypeOK, Live, Task
<1>3. ArgSize \in Nat /\ SegPages \in Nat \ {0}
    BY VirtAssumption, Constants
<1>4. n \in {0, 2}  BY DEF kmallocPages
<1>5. N = n + 4 + SegPages + (IF HasSegment(t) THEN 0 ELSE 1)  BY DEF ExecPages
<1> HIDE DEF n, N
<1>6. n \in Nat /\ N \in Nat /\ n <= N  BY <1>3, <1>4, <1>5
<1>7. Cardinality(mem_map) \in Nat
    BY FrameFinite DEF VirtInv, TypeOK, PhysTypeOK
<1>8. Enough(kmallocPages(t, ArgSize))  BY <1>1, <1>6, <1>7 DEF Enough, n
<1>9. /\ p \in Nat /\ e \in Nat
      /\ kmallocUsage(t, ArgSize) \in Nat
      /\ p <= e /\ p + Part(ArgSize) <= e + 1
      /\ \E h \in Frame :
            /\ Room(t, h, p, e)
            /\ trans[t][h] \in used \/ (2 \in 1 .. n /\ h = Page(2) /\ trans[t][h] = h)
    BY <1>2, <1>3, <1>8, KmallocFacts DEF n
<1> HIDE DEF p, e
<1>10. /\ mem_map \subseteq Frame /\ mem_map \subseteq VPage
       /\ \A k \in 1 .. N : Page(k) \in mem_map
       /\ mem_map \cap used = {}
       /\ \A f \in mem_map : trans[t][f] = f
    BY <1>1, <1>2, <1>6, CallFacts
<1>11. MapIdentity(trans[t], {Page(k) : k \in 1 .. (n + 4)}) = trans[t]
    <2>1. \A k \in 1 .. (n + 4) : Page(k) \in mem_map
        BY <1>3, <1>5, <1>6, <1>10
    <2>2. QED  BY <1>2, <2>1, NoRemap
<1>12. /\ trans \in [Task -> [VPage -> Frame]]
       /\ vma \in [Task -> [VmaIdx -> SUBSET VPage]]
       /\ tables \in [Task -> SUBSET Frame]
       /\ current_mem_usage \in [Task -> Nat]
       /\ blocks \in [Task -> SUBSET (Nat \X Nat)]
       /\ cur_ptr \in [Task -> Nat] /\ heap_end \in [Task -> Nat]
    BY DEF VirtInv, TypeOK
<1>13. \A j \in 0 .. (SegPages - 1) :
            (idx(j) \in 1 .. N /\ idx(j) # n + 6) \/ HasSegment(t)
    BY <1>3, <1>5, <1>6
<1>14. \A j \in 0 .. (SegPages - 1) : idx(j) \in 1 .. N
    BY <1>3, <1>5, <1>6
<1>15. \A v \in SegPage : v - MapFrames \in 0 .. (SegPages - 1)
    BY Constants DEF SegPage
<1>16. A \in SUBSET (1 .. N) /\ B \in SUBSET (1 .. N)
    <2>1. n + 2 \in 1 .. N /\ n + 4 \in 1 .. N  BY <1>3, <1>5, <1>6
    <2>2. ~ HasSegment(t) => n + 6 \in 1 .. N  BY <1>3, <1>5, <1>6
    <2> HIDE DEF idx
    <2>3. QED  BY <1>14, <2>1, <2>2
<1>17. A \cap B = {}
    <2>1. n + 2 # n + 6 /\ n + 4 # n + 6  BY <1>6
    <2> HIDE DEF idx
    <2>2. QED  BY <1>13, <2>1
<1>18. /\ trans'[t] = m /\ vma'[t] = w /\ blocks'[t] = {}
       /\ cur_ptr'[t] = p + ArgSize /\ heap_end'[t] = e
       /\ tables'[t] \subseteq tables[t] \cup {Page(k) : k \in B}
    <2> HIDE DEF m, w
    <2>1. n + 5 + 1 = n + 6  BY <1>6
    <2>2. QED  BY <1>1, <1>12, <2>1
<1> HIDE DEF idx
<1>19. m \in [VPage -> Frame] /\ \A f \in Frame : m[f] = trans[t][f]
    <2>1. \A v \in SegPage : Page(idx(v - MapFrames)) \in Frame
        BY <1>10, <1>14, <1>15
    <2>2. m = [v \in VPage |-> IF v \in SegPage THEN Page(idx(v - MapFrames))
                               ELSE trans[t][v]]
        BY <1>11
    <2> HIDE DEF m
    <2>3. trans[t] \in [VPage -> Frame]  BY <1>12
    <2>4. m \in [VPage -> Frame]  BY <2>1, <2>2, <2>3
    <2>5. ASSUME NEW f \in Frame PROVE m[f] = trans[t][f]
        BY <2>2, Constants
    <2>6. QED  BY <2>4, <2>5
<1>20. /\ \A v \in SegPage : m[v] = Page(idx(v - MapFrames))
       /\ m[Page(n + 2)] = Page(n + 2) /\ m[Page(n + 4)] = Page(n + 4)
       /\ Page(n + 2) \in VPage /\ Page(n + 4) \in VPage
    <2>1. n + 2 \in 1 .. N /\ n + 4 \in 1 .. N  BY <1>3, <1>5, <1>6
    <2>2. \A v \in SegPage : m[v] = Page(idx(v - MapFrames))  BY Constants
    <2> HIDE DEF m
    <2>3. QED  BY <1>10, <1>19, <2>1, <2>2
<1>21. Recorded(w) \subseteq {Page(n + 2), Page(n + 4)} \cup SegPage
       /\ w \in [VmaIdx -> SUBSET VPage]
    <2>1. \A i \in VmaIdx : w[i] \in {{Page(n + 2)}, {Page(n + 4)}, SegPage, {}}
        OBVIOUS
    <2>2. w \in [VmaIdx -> SUBSET VPage]
        BY <1>20, Constants
    <2> HIDE DEF w
    <2>3. Recorded(w) \subseteq {Page(n + 2), Page(n + 4)} \cup SegPage
        BY <2>1 DEF Recorded
    <2>4. QED  BY <2>2, <2>3
<1> HIDE DEF m, w
<1>22. Own(t)' \subseteq Own(t) \cup {Page(k) : k \in A}
    <2> SUFFICES ASSUME NEW q \in Recorded(w)
                 PROVE  m[q] \in {Page(k) : k \in A}
        BY <1>18 DEF Own, Recorded
    <2>1. CASE q \in SegPage  BY <1>15, <1>20, <2>1
    <2>2. CASE q \in {Page(n + 2), Page(n + 4)}  BY <1>20, <2>2
    <2>3. QED  BY <1>21, <2>1, <2>2
<1>23. \A u \in Task \ {t} :
              /\ trans'[u] = trans[u] /\ vma'[u] = vma[u] /\ tables'[u] = tables[u]
              /\ cur_ptr'[u] = cur_ptr[u] /\ heap_end'[u] = heap_end[u]
              /\ blocks'[u] = blocks[u]
    BY <1>1, <1>12
<1>24. \A f \in Frame : trans'[t][f] = trans[t][f]  BY <1>18, <1>19
<1>25. HeapOK(t)' /\ BlocksOK(t)'
    <2>1. PICK h \in Frame :
            /\ Room(t, h, p, e)
            /\ trans[t][h] \in used \/ (2 \in 1 .. n /\ h = Page(2) /\ trans[t][h] = h)
        BY <1>9
    <2>2. \A k \in 1 .. N : Page(k) \in used'  BY <1>1 DEF Allocated
    <2>3. used \subseteq used'  BY <1>1 DEF Allocated
    <2>4. 2 \in 1 .. n => 2 \in 1 .. N  BY <1>6
    <2>5. trans[t][h] \in used'  BY <2>1, <2>2, <2>3, <2>4
    <2>6. \A u \in Task \ {t} : Own(u)' \subseteq Own(u) \cup (mem_map \ {trans[t][h]})
        BY <1>23 DEF Own, Recorded
    <2>7. blocks'[t] \subseteq blocks[t] \cup {<<p, p + ArgSize - 1>>}  BY <1>18
    <2>8. QED
        BY <1>1, <1>3, <1>6, <1>9, <1>18, <1>24, <2>1, <2>5, <2>6, <2>7, HeapGiven
<1>26. Booted  BY <1>2 DEF VirtInv, Live
<1>27. PhysTypeOK'  BY <1>1, <1>6, <1>26, AllocatedInv DEF VirtInv, PhysInv
<1>28. TypeOK'
    <2>1. trans' \in [Task -> [VPage -> Frame]]  BY <1>1, <1>12, <1>19
    <2>2. vma' \in [Task -> [VmaIdx -> SUBSET VPage]]  BY <1>1, <1>12, <1>21
    <2>3. {Page(k) : k \in B} \subseteq Frame  BY <1>10, <1>16
    <2>4. tables' \in [Task -> SUBSET Frame]  BY <1>1, <1>12, <1>18, <2>3
    <2>5. /\ current_mem_usage' \in [Task -> Nat]
          /\ cur_ptr' \in [Task -> Nat] /\ heap_end' \in [Task -> Nat]
        BY <1>1, <1>3, <1>9, <1>12
    <2>6. blocks' \in [Task -> SUBSET (Nat \X Nat)]  BY <1>1, <1>12
    <2>7. QED  BY <1>1, <1>27, <2>1, <2>2, <2>4, <2>5, <2>6 DEF VirtInv, TypeOK
<1>29. /\ Enough(N) /\ Allocated(N) /\ ntasks' = ntasks
       /\ tables'[t] \subseteq tables[t] \cup {Page(k) : k \in B}
    BY <1>1, <1>18
<1> HIDE DEF A, B
<1>30. QED
    BY <1>2, <1>6, <1>16, <1>17, <1>22, <1>23, <1>24, <1>25, <1>28, <1>29,
       ActorStep

\* Steps that leave memory alone.
LEMMA MemoryKept ==
    ASSUME VirtInv, TypeOK', UNCHANGED physVars,
           UNCHANGED <<ntasks, trans, tables, vma, cur_ptr, heap_end, blocks>>
    PROVE  VirtInv'
<1>1. PhysInv'  BY PhysStutter DEF VirtInv
<1>2. \A t \in Task : Own(t)' = Own(t)  BY DEF Own, Recorded
<1>3. Fresh' /\ Private' /\ KernelMappingIntact'
    BY <1>2 DEF VirtInv, Fresh, Private, KernelMappingIntact, Live, physVars, Recorded
<1>4. \A t \in Task : HeapOK(t)' /\ BlocksOK(t)'
    BY <1>2 DEF VirtInv, HeapOK, BlocksOK, Room, physVars
<1>5. (ntasks > 0 => Booted)'  BY DEF VirtInv, Booted, physVars
<1>6. QED  BY <1>1, <1>3, <1>4, <1>5 DEF VirtInv

LEMMA UlimitInv ==
    ASSUME VirtInv, NEW t \in Task, NEW lim \in Limits, Ulimit(t, lim)
    PROVE  VirtInv'
<1>1. TypeOK'  BY DEF VirtInv, TypeOK, PhysTypeOK, physVars, Ulimit
<1>2. QED  BY <1>1, MemoryKept DEF Ulimit

LEMMA HaltInv ==
    ASSUME VirtInv, halted' \in Halts, UNCHANGED <<physVars, taskVars>>
    PROVE  VirtInv'
<1>1. TypeOK'  BY DEF VirtInv, TypeOK, PhysTypeOK, physVars, taskVars
<1>2. QED  BY <1>1, MemoryKept DEF taskVars
-----------------------------------------------------------------------------
(* fork.                                                                   *)

\* The copies are numbered from 1, and the one that stays mapped is among them.
LEMMA CopiesFacts ==
    ASSUME NEW v \in [VmaIdx -> SUBSET VPage]
    PROVE  /\ Copies(v) \in Nat
           /\ \A p \in Recorded(v) : LastCopy(v, p) \in 1 .. Copies(v)
<1>1. IsFiniteSet(VmaIdx)  BY Constants, FS_Interval DEF VmaIdx
<1>2. IsFiniteSet(VPage)
    <2>1. IsFiniteSet(Frame)  BY FrameFinite
    <2>2. IsFiniteSet(SegPage)  BY Constants, FS_Interval DEF SegPage
    <2>3. QED  BY <2>1, <2>2, FS_Union DEF VPage
<1>3. IsFiniteSet(VmaIdx \X VPage)  BY <1>1, <1>2, FS_Product
<1>4. IsFiniteSet(ToCopy(v)) /\ Copies(v) \in Nat
    <2>1. ToCopy(v) \subseteq VmaIdx \X VPage  BY DEF ToCopy
    <2>2. IsFiniteSet(ToCopy(v))  BY <1>3, <2>1, FS_Subset
    <2>3. QED  BY <2>2, FS_CardinalityType DEF Copies
<1>5. ASSUME NEW p \in Recorded(v)
      PROVE  LastCopy(v, p) \in 1 .. Copies(v)
    <2> DEFINE E == {i \in VmaIdx : p \in v[i]}
               last == Max(E)
               upto == {c \in ToCopy(v) : c[1] < last \/ (c[1] = last /\ c[2] <= p)}
    <2>1. E # {} /\ E \subseteq Nat /\ \A i \in E : i <= VMA_SLOTS
        BY Constants DEF Recorded, VmaIdx
    <2>2. VMA_SLOTS \in Nat  BY Constants
    <2> HIDE DEF E
    <2>3. \E x \in E : \A y \in E : x >= y  BY <2>1, <2>2, NatGreatest
    <2>4. last \in E  BY <2>3 DEF Max
    <2>5. last \in VmaIdx /\ p \in v[last] /\ last \in Nat  BY <2>1, <2>4 DEF E
    <2> HIDE DEF last
    <2>6. p \in VPage /\ p \in Nat
        <3>1. p \in VPage  BY <2>5
        <3>2. VPage \subseteq Nat  BY Constants DEF VPage, SegPage
        <3>3. QED  BY <3>1, <3>2
    <2>7. <<last, p>> \in upto
        <3>1. <<last, p>> \in ToCopy(v)  BY <2>5, <2>6 DEF ToCopy
        <3>2. p <= p  BY <2>6
        <3>3. QED  BY <3>1, <3>2
    <2>8. upto \subseteq ToCopy(v)  OBVIOUS
    <2>9. LastCopy(v, p) = Cardinality(upto)
        BY DEF LastCopy, CopyNumber, last, E
    <2> HIDE DEF upto
    <2>10. IsFiniteSet(upto) /\ Cardinality(upto) <= Copies(v)
        BY <1>4, <2>8, FS_Subset DEF Copies
    <2>11. Cardinality(upto) \in Nat  BY <2>10, FS_CardinalityType
    <2>12. Cardinality(upto) # 0  BY <2>7, <2>10, FS_EmptySet
    <2>13. QED  BY <1>4, <2>9, <2>10, <2>11, <2>12
<1>6. QED  BY <1>4, <1>5

\* fork: the child's tables and copies are new frames, so its recorded pages
\* and tables are apart from everybody's, and where it does not map the kernel
\* as its parent does, nobody needs it.
LEMMA ForkInv ==
    ASSUME VirtInv, NEW t \in Task, Fork(t)
    PROVE  VirtInv'
<1>0. PICK c \in Task : c = ntasks + 1
    BY Constants DEF Fork, VirtInv, TypeOK, Task
<1> DEFINE n == kmallocPages(t, EnvSize)
           p == kmallocPtr(t, EnvSize)
           e == kmallocEnd(t, EnvSize)
           v == kmallocVma(t, EnvSize)
           T == Cardinality(tables[t])
           C == Copies(v)
           N == ForkPages(t)
           m == MapIdentity(trans[t], {Page(k) : k \in 1 .. N})
           ct == ChildTrans(m, v, n + 2 * T)
           A == {2} \cap (1 .. n)
           AC == {n + 2 * T + 2 * k : k \in 1 .. C}
           BC == {n + 2 * k : k \in 1 .. T}
<1>1. /\ Active(t) /\ ntasks < MaxTasks /\ Enough(n) /\ Enough(N) /\ Allocated(N)
      /\ ntasks' = c
      /\ trans' = [trans EXCEPT ![t] = m, ![c] = ct]
      /\ tables' = [tables EXCEPT ![c] = {Page(n + 2 * k) : k \in 1 .. T}]
      /\ vma' = [vma EXCEPT ![t] = v, ![c] = v]
      /\ current_mem_usage' = [current_mem_usage EXCEPT
            ![t] = kmallocUsage(t, EnvSize) + 2 * T + 2 * C, ![c] = C]
      /\ mem_limit' = [mem_limit EXCEPT ![c] = mem_limit[t]]
      /\ cur_ptr' = [cur_ptr EXCEPT ![t] = p + EnvSize]
      /\ heap_end' = [heap_end EXCEPT ![t] = e]
      /\ blocks' = [blocks EXCEPT ![c] = blocks[t]]
      /\ UNCHANGED halted
    BY <1>0 DEF Fork, InProgram
<1>2. /\ t \in Live /\ ntasks \in Nat /\ c \in Task /\ c # t /\ Live \subseteq Task
      /\ c \notin Live /\ Live' = Live \cup {c} /\ c > ntasks
    <2>1. ntasks \in Nat /\ t \in Nat /\ MaxTasks \in Nat /\ t <= ntasks /\ 1 <= t
        BY <1>1, Constants DEF Active, VirtInv, TypeOK, Task
    <2>2. ntasks' = ntasks + 1 /\ ntasks < MaxTasks  BY <1>0, <1>1
    <2>3. QED  BY <1>0, <2>1, <2>2 DEF Live, Task
<1>3. EnvSize \in Nat
    BY VirtAssumption, Constants
<1>4. /\ n \in {0, 2}
      /\ v \in [VmaIdx -> SUBSET VPage]
      /\ Recorded(v) \subseteq Recorded(vma[t]) \cup {Page(k) : k \in A}
      /\ p \in Nat /\ e \in Nat
      /\ kmallocUsage(t, EnvSize) \in Nat
      /\ p <= e /\ p + Part(EnvSize) <= e + 1
      /\ \E h \in Frame :
            /\ Room(t, h, p, e)
            /\ trans[t][h] \in used \/ (2 \in 1 .. n /\ h = Page(2) /\ trans[t][h] = h)
    BY <1>1, <1>2, <1>3, KmallocFacts
<1>5. C \in Nat /\ \A q \in Recorded(v) : LastCopy(v, q) \in 1 .. C
    BY <1>4, CopiesFacts
<1>6. T \in Nat
    BY FrameFinite DEF VirtInv, TypeOK
<1>7. N = n + 2 * T + 2 * C  BY DEF ForkPages
<1> HIDE DEF n, p, e, v, T, C, N
<1>8. n \in Nat /\ N \in Nat /\ n <= N  BY <1>4, <1>5, <1>6, <1>7
<1>9. AC \in SUBSET (1 .. N) /\ BC \in SUBSET (1 .. N) /\ A \in SUBSET (1 .. N)
      /\ (\A k \in AC : k > n + 2 * T) /\ (\A k \in BC : k > n /\ k <= n + 2 * T)
      /\ (\A k \in A : k <= n /\ k = 2 /\ n = 2)
    BY <1>4, <1>5, <1>6, <1>7, <1>8
<1>10. A \cap AC = {} /\ A \cap BC = {} /\ AC \cap BC = {}
    <2>1. 2 * T \in Nat /\ n + 2 * T \in Nat  BY <1>6, <1>8
    <2>2. AC \subseteq Nat /\ BC \subseteq Nat  BY <1>9, <1>8
    <2> HIDE DEF AC, BC
    <2>3. QED  BY <1>8, <1>9, <2>1, <2>2
<1>11. /\ mem_map \subseteq Frame /\ mem_map \subseteq VPage
       /\ \A k \in 1 .. N : Page(k) \in mem_map
       /\ \A k, l \in 1 .. N : Page(k) = Page(l) => k = l
       /\ mem_map \cap used = {}
       /\ \A u \in Live, f \in mem_map : trans[u][f] = f
    BY <1>1, <1>2, <1>8, CallFacts
<1>12. m = trans[t]  BY <1>2, <1>11, NoRemap
<1>13. /\ trans \in [Task -> [VPage -> Frame]]
       /\ vma \in [Task -> [VmaIdx -> SUBSET VPage]]
       /\ tables \in [Task -> SUBSET Frame]
       /\ current_mem_usage \in [Task -> Nat]
       /\ mem_limit \in [Task -> Limits \cup {DEFAULT_MEM_LIMIT}]
       /\ blocks \in [Task -> SUBSET (Nat \X Nat)]
       /\ cur_ptr \in [Task -> Nat] /\ heap_end \in [Task -> Nat]
    BY DEF VirtInv, TypeOK
<1>14. /\ \A q \in VPage : q \notin Recorded(v) => ct[q] = trans[t][q]
       /\ \A q \in Recorded(v) : ct[q] \in {Page(k) : k \in AC}
       /\ ct \in [VPage -> Frame]
    <2>1. ct = [q \in VPage |-> IF q \in Recorded(v)
                                THEN Page(n + 2 * T + 2 * LastCopy(v, q))
                                ELSE trans[t][q]]
        BY <1>12 DEF ChildTrans
    <2>2. Recorded(v) \subseteq VPage  BY <1>4 DEF Recorded
    <2>3. \A q \in Recorded(v) : n + 2 * T + 2 * LastCopy(v, q) \in AC
        BY <1>5
    <2> HIDE DEF ct, AC
    <2>4. \A q \in Recorded(v) : ct[q] \in {Page(k) : k \in AC}
        BY <2>1, <2>2, <2>3
    <2>5. {Page(k) : k \in AC} \subseteq Frame  BY <1>9, <1>11
    <2>6. trans[t] \in [VPage -> Frame]  BY <1>13
    <2>7. \A q \in VPage : q \notin Recorded(v) => ct[q] = trans[t][q]  BY <2>1
    <2>8. \A q \in VPage : ct[q] \in Frame  BY <2>4, <2>5, <2>6, <2>7
    <2>9. ct \in [VPage -> Frame]  BY <2>1, <2>8
    <2>10. QED  BY <2>4, <2>7, <2>9
<1>15. {Page(n + 2 * k) : k \in 1 .. T} = {Page(k) : k \in BC}  OBVIOUS
<1> HIDE DEF m, ct, A, AC, BC
<1>16. /\ trans'[t] = trans[t] /\ trans'[c] = ct /\ vma'[t] = v /\ vma'[c] = v
       /\ \A u \in Task \ {t, c} : trans'[u] = trans[u] /\ vma'[u] = vma[u]
    BY <1>1, <1>2, <1>12, <1>13
<1>17. /\ tables'[c] = {Page(k) : k \in BC} /\ blocks'[c] = blocks[t]
       /\ \A u \in Task \ {c} : tables'[u] = tables[u] /\ blocks'[u] = blocks[u]
    BY <1>1, <1>2, <1>13, <1>15
<1>18. /\ cur_ptr'[t] = p + EnvSize /\ heap_end'[t] = e
       /\ \A u \in Task \ {t} : cur_ptr'[u] = cur_ptr[u] /\ heap_end'[u] = heap_end[u]
    BY <1>1, <1>2, <1>13
<1>19. Booted  BY <1>2 DEF VirtInv, Live
<1>20. PhysInv'  BY <1>1, <1>8, <1>19, AllocatedInv DEF VirtInv
<1>21. Booted'  BY <1>1, <1>19 DEF Booted, Allocated, bootVars
<1>22. TypeOK'
    <2>1. trans' \in [Task -> [VPage -> Frame]]  BY <1>1, <1>12, <1>13, <1>14
    <2>2. vma' \in [Task -> [VmaIdx -> SUBSET VPage]]  BY <1>1, <1>4, <1>13
    <2>3. {Page(k) : k \in BC} \subseteq Frame  BY <1>9, <1>11
    <2>4. tables' \in [Task -> SUBSET Frame]  BY <1>1, <1>13, <1>15, <2>3
    <2>5. kmallocUsage(t, EnvSize) + 2 * T + 2 * C \in Nat  BY <1>4, <1>5, <1>6
    <2>6. current_mem_usage' \in [Task -> Nat]  BY <1>1, <1>5, <1>13, <2>5
    <2>7. p + EnvSize \in Nat  BY <1>3, <1>4
    <2>8. cur_ptr' \in [Task -> Nat] /\ heap_end' \in [Task -> Nat]
        BY <1>1, <1>4, <1>13, <2>7
    <2>9. mem_limit' \in [Task -> Limits \cup {DEFAULT_MEM_LIMIT}]  BY <1>1, <1>13
    <2>10. blocks' \in [Task -> SUBSET (Nat \X Nat)]  BY <1>1, <1>13
    <2>11. ntasks' \in 0 .. MaxTasks  BY <1>1, <1>2, Constants DEF Task
    <2>12. PhysTypeOK'  BY <1>20 DEF PhysInv
    <2>13. halted' \in Halts  BY <1>1 DEF VirtInv, TypeOK
    <2>14. QED
        BY <2>1, <2>2, <2>4, <2>6, <2>8, <2>9, <2>10, <2>11, <2>12, <2>13
        DEF TypeOK
<1>23. Fresh'
    <2> SUFFICES ASSUME NEW u \in Task, u > ntasks'
                 PROVE  /\ cur_ptr'[u] = NotPresent /\ blocks'[u] = {}
                        /\ tables'[u] = {} /\ Recorded(vma'[u]) = {}
        BY DEF Fresh, Recorded
    <2>1. u > ntasks /\ u \in Task \ {t, c} /\ u # 1
        BY <1>0, <1>1, <1>2 DEF Live, Task
    <2>2. QED  BY <1>16, <1>17, <1>18, <2>1 DEF VirtInv, Fresh
<1>24. /\ Own(t)' \subseteq Own(t) \cup {Page(k) : k \in A}
       /\ Own(c)' \subseteq {Page(k) : k \in AC}
       /\ \A u \in Task \ {t, c} : Own(u)' = Own(u)
    <2>1. \A q \in Recorded(v) : trans[t][q] \in Own(t) \cup {Page(k) : k \in A}
        <3> SUFFICES ASSUME NEW q \in Recorded(v)
                     PROVE  trans[t][q] \in Own(t) \cup {Page(k) : k \in A}
            OBVIOUS
        <3>1. CASE q \in Recorded(vma[t])  BY <3>1 DEF Own
        <3>2. CASE q \in {Page(k) : k \in A}  BY <1>2, <1>9, <1>11, <3>2
        <3>3. QED  BY <1>4, <3>1, <3>2
    <2>2. Own(t)' \subseteq Own(t) \cup {Page(k) : k \in A}
        BY <1>16, <2>1 DEF Own, Recorded
    <2>3. Own(c)' \subseteq {Page(k) : k \in AC}
        BY <1>14, <1>16 DEF Own, Recorded
    <2>4. \A u \in Task \ {t, c} : Own(u)' = Own(u)  BY <1>16 DEF Own, Recorded
    <2>5. QED  BY <2>2, <2>3, <2>4
<1>25. Private'
    <2> DEFINE AA == [u \in Task |-> IF u = t THEN A ELSE IF u = c THEN AC ELSE {}]
               BB == [u \in Task |-> IF u = c THEN BC ELSE {}]
    <2>1. AA \in [Task -> SUBSET (1 .. N)] /\ BB \in [Task -> SUBSET (1 .. N)]
        BY <1>9
    <2>2. \A x, u \in Task : AA[x] \cap BB[u] = {}  BY <1>10
    <2>3. \A x, u \in Task : x # u => AA[x] \cap AA[u] = {} /\ BB[x] \cap BB[u] = {}
        BY <1>10
    <2>4. ASSUME NEW u \in Task
          PROVE  /\ Own(u)' \subseteq Own(u) \cup {Page(k) : k \in AA[u]}
                 /\ tables'[u] \subseteq tables[u] \cup {Page(k) : k \in BB[u]}
        <3>1. CASE u = t  BY <1>2, <1>17, <1>24, <3>1
        <3>2. CASE u = c  BY <1>2, <1>17, <1>24, <3>2
        <3>3. CASE u \in Task \ {t, c}  BY <1>17, <1>24, <3>3
        <3>4. QED  BY <3>1, <3>2, <3>3
    <2> HIDE DEF AA, BB
    <2>5. QED  BY <1>1, <1>8, <2>1, <2>2, <2>3, <2>4, PrivateStep
<1>26. KernelMappingIntact'
    <2> SUFFICES ASSUME NEW x \in Live',
                        NEW f \in mem_map' \cup UNION {tables'[u] : u \in Live'}
                 PROVE  trans'[x][f] = f
        BY DEF KernelMappingIntact
    <2>1. mem_map' \subseteq mem_map /\ \A k \in 1 .. N : Page(k) \notin mem_map'
        BY <1>1 DEF Allocated
    <2>2. tables'[c] \subseteq mem_map  BY <1>9, <1>11, <1>17
    <2>3. \A u \in Live : u \in Task \ {c} /\ tables'[u] = tables[u]
        BY <1>2, <1>17
    <2>4. f \in mem_map \cup UNION {tables[u] : u \in Live}
        BY <1>2, <2>1, <2>2, <2>3
    <2>5. \A u \in Live : trans[u][f] = f
        BY <2>4 DEF VirtInv, KernelMappingIntact
    <2>6. f \in VPage
        BY <1>2, <1>11, <1>13, <2>4, Constants
    <2>7. CASE x \in Live
        BY <1>2, <1>16, <2>5, <2>7
    <2>8. CASE x = c
        <3>1. f \notin Recorded(vma[t])
            BY <1>2, <2>4, RecordedNotKernel
        <3>2. f \notin {Page(k) : k \in A}
            <4> SUFFICES ASSUME NEW k \in A, f = Page(k) PROVE FALSE  OBVIOUS
            <4>1. k \in 1 .. N /\ k \notin BC  BY <1>9, <1>10
            <4>2. f \notin mem_map' /\ f \in mem_map /\ f \notin used
                BY <1>11, <2>1, <4>1
            <4>3. f \notin tables'[c]  BY <1>9, <1>11, <1>17, <4>1
            <4>4. \A u \in Live : f \notin tables[u]
                BY <1>2, <4>2 DEF VirtInv, Private
            <4>5. QED  BY <1>2, <2>3, <4>2, <4>3, <4>4
        <3>3. f \notin Recorded(v)  BY <1>4, <3>1, <3>2
        <3>4. QED  BY <1>2, <1>14, <1>16, <2>5, <2>6, <2>8, <3>3
    <2>9. QED  BY <1>2, <2>7, <2>8
<1>27. \A u \in Task : Own(u)' \subseteq Own(u) \cup mem_map
    <2>1. {Page(k) : k \in A} \subseteq mem_map /\ {Page(k) : k \in AC} \subseteq mem_map
        BY <1>9, <1>11
    <2>2. QED  BY <1>24, <2>1
<1>28. used \subseteq used' /\ \A k \in 1 .. N : Page(k) \in used'
    BY <1>1 DEF Allocated
<1>29. HeapOK(t)' /\ BlocksOK(t)'
    <2>1. PICK h \in Frame :
            /\ Room(t, h, p, e)
            /\ trans[t][h] \in used \/ (2 \in 1 .. n /\ h = Page(2) /\ trans[t][h] = h)
        BY <1>4
    <2>2. 2 \in 1 .. n => 2 \in 1 .. N /\ 2 \notin AC
        BY <1>8, <1>10 DEF A
    <2>3. trans[t][h] \in used'  BY <1>28, <2>1, <2>2
    <2>4. \A k \in AC : Page(k) \in mem_map /\ Page(k) # trans[t][h]
        BY <1>9, <1>11, <2>1, <2>2
    <2>5. ASSUME NEW u \in Task \ {t}
          PROVE  Own(u)' \subseteq Own(u) \cup (mem_map \ {trans[t][h]})
        <3>1. CASE u = c  BY <1>24, <2>4, <3>1
        <3>2. CASE u # c  BY <1>24, <3>2
        <3>3. QED  BY <3>1, <3>2
    <2>6. blocks'[t] \subseteq blocks[t] \cup {<<p, p + EnvSize - 1>>}
        BY <1>2, <1>17
    <2>7. \A f \in Frame : trans'[t][f] = trans[t][f]  BY <1>16
    <2>8. QED
        BY <1>1, <1>3, <1>4, <1>8, <1>18, <2>1, <2>3, <2>5, <2>6, <2>7, HeapGiven
<1>30. HeapOK(c)' /\ BlocksOK(c)'
    <2>1. cur_ptr'[c] = NotPresent
        BY <1>2, <1>18 DEF VirtInv, Fresh
    <2>2. ASSUME NEW b \in blocks[t]
          PROVE  \E pg \in Frame : InPage(b, pg) /\ ct[pg] \in used'
        <3>1. PICK pg \in Frame : InPage(b, pg) /\ trans[t][pg] \in used
            BY DEF VirtInv, BlocksOK
        <3>2. ct[pg] \in used'
            <4>1. CASE pg \in Recorded(v)  BY <1>9, <1>14, <1>28, <4>1
            <4>2. CASE pg \notin Recorded(v)
                BY <1>14, <1>28, <3>1, <4>2, Constants
            <4>3. QED  BY <4>1, <4>2
        <3>3. QED  BY <3>1, <3>2
    <2>3. \A b, d \in blocks[t] : b # d => BackedTo(b) < d[1] \/ BackedTo(d) < b[1]
        BY DEF VirtInv, BlocksOK
    <2>4. QED  BY <1>16, <1>17, <2>1, <2>2, <2>3 DEF HeapOK, BlocksOK
<1>31. \A u \in Task : HeapOK(u)' /\ BlocksOK(u)'
    <2> SUFFICES ASSUME NEW u \in Task PROVE HeapOK(u)' /\ BlocksOK(u)'  OBVIOUS
    <2>1. CASE u = t  BY <1>29, <2>1
    <2>2. CASE u = c  BY <1>30, <2>2
    <2>3. CASE u \in Task \ {t, c}
        <3>1. /\ \A f \in Frame : trans'[u][f] = trans[u][f]
              /\ cur_ptr'[u] = cur_ptr[u] /\ heap_end'[u] = heap_end[u]
              /\ blocks'[u] = blocks[u]
            BY <1>16, <1>17, <1>18, <2>3
        <3>2. QED  BY <1>1, <1>8, <1>27, <3>1, HeapKept
    <2>4. QED  BY <2>1, <2>2, <2>3
<1>32. QED  BY <1>20, <1>21, <1>22, <1>23, <1>25, <1>26, <1>31 DEF VirtInv
-----------------------------------------------------------------------------
(* The theorems.                                                           *)

\* Every step keeps the invariant.
LEMMA StepInv == VirtInv /\ [Next]_vars => VirtInv'
<1> SUFFICES ASSUME VirtInv, [Next]_vars PROVE VirtInv'  OBVIOUS
<1>1. CASE LoadMemoryMap  BY <1>1, LoadMemoryMapInv
<1>2. CASE StartKernel  BY <1>2, StartKernelInv
<1>3. CASE UNCHANGED vars
    BY <1>3, HaltInv DEF vars, VirtInv, TypeOK
<1>4. CASE Spin  BY <1>3, <1>4 DEF Spin
<1>5. ASSUME NEW t \in Task,
             \/ Sbrk(t)
             \/ \E size \in Sizes : Malloc(t, size)
             \/ \E lim \in Limits : Ulimit(t, lim)
             \/ Exec(t)
             \/ ExecNotFound(t)
             \/ Fork(t)
             \/ CallFaults(t)
             \/ OutOfPages(t)
      PROVE  VirtInv'
    <2>1. CASE Sbrk(t)  BY <2>1, SbrkInv
    <2>2. CASE \E size \in Sizes : Malloc(t, size)  BY <2>2, MallocInv
    <2>3. CASE \E lim \in Limits : Ulimit(t, lim)  BY <2>3, UlimitInv
    <2>4. CASE Exec(t)  BY <2>4, ExecInv
    <2>5. CASE ExecNotFound(t)  BY <2>5, ExecNotFoundInv
    <2>6. CASE Fork(t)  BY <2>6, ForkInv
    <2>7. CASE CallFaults(t)
        BY <2>7, HaltInv DEF CallFaults, PageFault, Halts
    <2>8. CASE OutOfPages(t)
        BY <2>8, HaltInv DEF OutOfPages, Halts
    <2>9. QED  BY <1>5, <2>1, <2>2, <2>3, <2>4, <2>5, <2>6, <2>7, <2>8
<1>6. CASE BootAlloc  BY <1>6, BootAllocInv
<1>7. CASE BootOutOfPages
    BY <1>7, HaltInv DEF BootOutOfPages, page_alloc_null, Halts
<1>8. QED  BY <1>1, <1>2, <1>3, <1>4, <1>5, <1>6, <1>7 DEF Next

\* The invariant holds in every state of the kernel.
THEOREM VirtInvariance == Spec => []VirtInv
BY InitInv, StepInv, PTL DEF Spec

\* What the allocator promises holds while the kernel boots and while its
\* tasks run: page_alloc returns memory that is neither the kernel's nor page
\* 0, that the kernel can reach, and never the same page twice.
THEOREM AllocatorHolds ==
    Spec => [](KernelReserved /\ NoNullPage /\ IdentityCovers /\ NoDoubleAlloc
               /\ OnlyMemory)
<1>1. VirtInv => /\ KernelReserved /\ NoNullPage /\ IdentityCovers
                 /\ NoDoubleAlloc /\ OnlyMemory
    BY DEF VirtInv, PhysInv, BelowTop, IdentityCovers
<1>2. QED  BY <1>1, VirtInvariance, PTL

\* The stacks, the segment and the recorded heap of two tasks are never
\* behind the same frame, whatever they fork, execute and allocate.
THEOREM RecordedPagesPrivateHolds == Spec => []RecordedPagesPrivate
<1>1. VirtInv => RecordedPagesPrivate
    <2> SUFFICES ASSUME VirtInv, NEW t \in Live, NEW u \in Live, t # u,
                        NEW p \in Recorded(vma[t]), NEW q \in Recorded(vma[u])
                 PROVE  trans[t][p] # trans[u][q]
        BY DEF RecordedPagesPrivate
    <2>1. t \in Task /\ u \in Task  BY Constants DEF VirtInv, TypeOK, Live, Task
    <2>2. trans[t][p] \in Own(t) /\ trans[u][q] \in Own(u)  BY DEF Own
    <2>3. QED  BY <2>1, <2>2 DEF VirtInv, Private
<1>2. QED  BY <1>1, VirtInvariance, PTL

\* In every address space the kernel reaches the page tables and the pages
\* it may still allocate at DUMB_MAPPING_VIRT.
THEOREM KernelMappingIntactHolds == Spec => []KernelMappingIntact
<1>1. VirtInv => KernelMappingIntact  BY DEF VirtInv
<1>2. QED  BY <1>1, VirtInvariance, PTL

\* Programs reach no page table through what they have recorded, and no two
\* tasks share a page table.
THEOREM TablesPrivateHolds == Spec => []TablesPrivate
<1>1. VirtInv => TablesPrivate
    <2> SUFFICES ASSUME VirtInv, NEW t \in Live, NEW u \in Live
                 PROVE  /\ \A p \in Recorded(vma[u]) : trans[u][p] \notin tables[t]
                        /\ t # u => tables[t] \cap tables[u] = {}
        BY DEF TablesPrivate
    <2>1. t \in Task /\ u \in Task  BY Constants DEF VirtInv, TypeOK, Live, Task
    <2>2. \A p \in Recorded(vma[u]) : trans[u][p] \in Own(u)  BY DEF Own
    <2>3. QED  BY <2>1, <2>2 DEF VirtInv, Private
<1>2. QED  BY <1>1, VirtInvariance, PTL

\* Blocks given to a program do not overlap and are backed by allocated
\* frames, up to a page each, whatever sizes the programs ask for.
THEOREM BlocksDisjointHolds == Spec => []BlocksDisjoint
<1>1. VirtInv => BlocksDisjoint
    <2> SUFFICES ASSUME VirtInv, NEW t \in Live
                 PROVE  /\ \A b, c \in blocks[t] : b # c => BackedTo(b) < c[1] \/ BackedTo(c) < b[1]
                        /\ \A b \in blocks[t] : \A a \in b[1] .. BackedTo(b) :
                                trans[t][a \div PageUnits] \in used
        BY DEF BlocksDisjoint
    <2>1. t \in Task  BY Constants DEF VirtInv, TypeOK, Live, Task
    <2>2. BlocksOK(t)  BY <2>1 DEF VirtInv
    <2>3. ASSUME NEW b \in blocks[t], NEW a \in b[1] .. BackedTo(b)
          PROVE  trans[t][a \div PageUnits] \in used
        <3>1. PICK pg \in Frame : InPage(b, pg) /\ trans[t][pg] \in used
            BY <2>2 DEF BlocksOK
        <3>2. b[1] \in Nat /\ BackedTo(b) \in Nat
            BY <2>1, BackedFacts DEF VirtInv, TypeOK
        <3>3. pg \in Nat /\ PageUnits \in Nat \ {0} /\ pg * PageUnits \in Nat
            BY Constants
        <3>4. a \in Nat /\ pg * PageUnits <= a /\ a < pg * PageUnits + PageUnits
            BY <3>1, <3>2, <3>3 DEF InPage
        <3>5. a \div PageUnits = pg  BY <3>3, <3>4, PageOf
        <3>6. QED  BY <3>1, <3>5
    <2>4. QED  BY <2>2, <2>3 DEF BlocksOK
<1>2. QED  BY <1>1, VirtInvariance, PTL

\* A block that malloc or sbrk gives lies in a page no other task has recorded.
LEMMA MallocFresh ==
    ASSUME VirtInv, NEW t \in Task, NEW size \in Sizes, Malloc(t, size),
           NEW x \in Live, NEW b \in blocks'[x] \ blocks[x], NEW u \in Live \ {x}
    PROVE  trans'[x][b[1] \div PageUnits] \notin Own(u)
<1> DEFINE p == kmallocPtr(t, size)
           e == kmallocEnd(t, size)
           n == kmallocPages(t, size)
<1>1. size \in Nat  BY VirtAssumption
<1>2. /\ Active(t) /\ Enough(n)
      /\ blocks' = [blocks EXCEPT ![t] = @ \cup {<<p, p + size - 1>>}]
      /\ trans' = [trans EXCEPT ![t] = kmallocTrans(t, size)]
    BY DEF Malloc, InProgram, kmalloc
<1>3. /\ t \in Live /\ Live \subseteq Task
      /\ blocks \in [Task -> SUBSET (Nat \X Nat)]
      /\ trans \in [Task -> [VPage -> Frame]]
    <2>1. t \in Live
        BY <1>2 DEF Active
    <2>2. QED  BY <2>1, LiveTasks DEF VirtInv, TypeOK
<1>4. /\ p \in Nat /\ e \in Nat /\ p <= e
      /\ n \in {0, 2} /\ \E h \in Frame : Room(t, h, p, e)
    BY <1>1, <1>2, <1>3, KmallocFacts
<1>5. \A k \in 1 .. n : Page(k) \in mem_map
    BY <1>2, <1>4, CallFacts
<1>6. kmallocTrans(t, size) = trans[t]
    BY <1>3, <1>5, NoRemap DEF kmallocTrans
<1> HIDE DEF p, e, n
<1>7. x = t /\ b = <<p, p + size - 1>>  BY <1>2, <1>3
<1>8. trans'[t] = trans[t]  BY <1>2, <1>3, <1>6
<1>9. PICK h \in Frame : Room(t, h, p, e)  BY <1>4
<1>10. h \in Nat /\ PageUnits \in Nat \ {0} /\ h * PageUnits \in Nat  BY Constants
<1>11. h * PageUnits <= p /\ p < h * PageUnits + PageUnits
    BY <1>4, <1>9, <1>10 DEF Room
<1>12. b[1] \div PageUnits = h  BY <1>4, <1>7, <1>10, <1>11, PageOf
<1>13. u \in Task \ {t}  BY <1>3, <1>7
<1>14. QED  BY <1>7, <1>8, <1>9, <1>12, <1>13 DEF Room

LEMMA SbrkFresh ==
    ASSUME VirtInv, NEW t \in Task, Sbrk(t),
           NEW x \in Live, NEW b \in blocks'[x] \ blocks[x], NEW u \in Live \ {x}
    PROVE  trans'[x][b[1] \div PageUnits] \notin Own(u)
<1> DEFINE h == Page(2)
           new == <<h * PageUnits, (h + 1) * PageUnits - 1>>
<1>1. /\ Active(t) /\ Enough(2)
      /\ trans' = [trans EXCEPT ![t] = MapIdentity(trans[t], {Page(1), Page(2)})]
      /\ blocks' = [blocks EXCEPT ![t] = @ \cup {new}]
    BY DEF Sbrk, InProgram
<1>2. /\ t \in Live /\ Live \subseteq Task
      /\ blocks \in [Task -> SUBSET (Nat \X Nat)]
      /\ trans \in [Task -> [VPage -> Frame]]
    <2>1. t \in Live  BY <1>1 DEF Active
    <2>2. QED  BY <2>1, LiveTasks DEF VirtInv, TypeOK
<1>3. /\ mem_map \subseteq Frame /\ Page(1) \in mem_map /\ Page(2) \in mem_map
      /\ mem_map \cap used = {} /\ trans[t][Page(2)] = Page(2)
    BY <1>1, <1>2, CallFacts
<1>4. trans'[t] = trans[t]
    <2>1. MapIdentity(trans[t], {Page(1), Page(2)}) = trans[t]
        BY <1>2, <1>3, NoRemap
    <2>2. QED  BY <1>1, <1>2, <2>1
<1>5. x = t /\ b = new
    <2> HIDE DEF new
    <2>1. QED  BY <1>1, <1>2
<1>6. h \in Nat /\ PageUnits \in Nat \ {0} /\ h * PageUnits \in Nat
    <2>1. h \in Nat /\ PageUnits \in Nat \ {0}  BY <1>3, Constants
    <2> HIDE DEF h
    <2>2. QED  BY <2>1
<1>7. b[1] = h * PageUnits  BY <1>5
<1>8. h * PageUnits <= h * PageUnits /\ h * PageUnits < h * PageUnits + PageUnits
    BY <1>6
<1>9. b[1] \div PageUnits = h
    <2> HIDE DEF h
    <2>1. QED  BY <1>6, <1>7, <1>8, PageOf
<1>10. Own(u) \subseteq used  BY <1>2 DEF VirtInv, Private
<1>11. QED  BY <1>3, <1>4, <1>5, <1>9, <1>10

\* sbrk and malloc give out no memory that another task has recorded.
THEOREM FreshBlockHolds == Spec => FreshBlock
<1> DEFINE Fr == \A t \in Live : \A b \in blocks'[t] \ blocks[t] :
                    \A u \in Live \ {t} :
                        trans'[t][b[1] \div PageUnits]
                            \notin {trans[u][p] : p \in Recorded(vma[u])}
<1>1. VirtInv /\ [Next]_vars => [Fr]_vars
    <2> SUFFICES ASSUME VirtInv, Next,
                        NEW x \in Live, NEW b \in blocks'[x] \ blocks[x],
                        NEW u \in Live \ {x}
                 PROVE  trans'[x][b[1] \div PageUnits] \notin Own(u)
        BY DEF Own
    <2>1. CASE blocks' = blocks  BY <2>1
    <2>2. CASE \E t \in Task : Sbrk(t)  BY <2>2, SbrkFresh
    <2>3. CASE \E t \in Task : \E size \in Sizes : Malloc(t, size)
        BY <2>3, MallocFresh
    <2>4. ASSUME NEW t \in Task, Exec(t) PROVE FALSE
        <3>1. blocks \in [Task -> SUBSET (Nat \X Nat)] /\ x \in Task
            BY Constants DEF VirtInv, TypeOK, Live, Task
        <3>2. blocks' = [blocks EXCEPT ![t] = {}]  BY <2>4 DEF Exec
        <3>3. QED  BY <3>1, <3>2
    <2>5. ASSUME NEW t \in Task, Fork(t) PROVE FALSE
        <3>1. /\ blocks \in [Task -> SUBSET (Nat \X Nat)] /\ x \in Task
              /\ x # ntasks + 1
            BY Constants DEF VirtInv, TypeOK, Live, Task
        <3>2. blocks' = [blocks EXCEPT ![ntasks + 1] = blocks[t]]
            BY <2>5 DEF Fork
        <3>3. QED  BY <3>1, <3>2
    <2>6. CASE \/ LoadMemoryMap \/ BootAlloc \/ StartKernel \/ BootOutOfPages \/ Spin
               \/ \E t \in Task : \/ \E lim \in Limits : Ulimit(t, lim)
                                  \/ ExecNotFound(t)
                                  \/ CallFaults(t)
                                  \/ OutOfPages(t)
        <3>1. blocks' = blocks
            BY <2>6 DEF LoadMemoryMap, BootAlloc, StartKernel, BootOutOfPages,
                        Spin, Ulimit, ExecNotFound,
                        CallFaults, PageFault, OutOfPages, taskVars, vars
        <3>2. QED  BY <2>1, <3>1
    <2>7. QED  BY <2>2, <2>3, <2>4, <2>5, <2>6 DEF Next
<1>2. QED  BY <1>1, VirtInvariance, PTL DEF Spec, FreshBlock
=============================================================================
