------------------------------ MODULE PhysMem ------------------------------
(***************************************************************************)
(* The physical page allocator of Deep OS (sys/phy_mem.c) and the part of  *)
(* init_mem_mgmt that fills it from the memory map of the boot loader.     *)
(*                                                                         *)
(* mem_map has one bit per page frame; it is modelled by the set of frame  *)
(* numbers whose bit is set, the frames available for allocation.          *)
(* page_dealloc has no caller in the kernel and is left out: a frame never *)
(* becomes available again.                                                *)
(***************************************************************************)
EXTENDS Integers, Sequences, FiniteSetsExt

CONSTANTS
    PHYS_PAGE_SIZE, \* bytes of a page: 4096
    MapFrames,      \* bits of mem_map: MEM_MAP_SIZE * 64
    MapBytes,       \* bytes of mem_map: MEM_MAP_SIZE * 64 / 8
    LowPages,       \* pages below 1 MB: 0x100000 / 0x1000
    Window,         \* pages from DUMB_MAPPING_VIRT to the end of the address
                    \* space: 256 MB
    physbase,       \* where the kernel image starts,
    physfree,       \* and the first address after it
    Smaps           \* the memory maps the loader may report: sequences of
                    \* regions [base, limit] in bytes

Frame == 0 .. (MapFrames - 1)

\* The linker script aligns the kernel image; mem_map and the window at
\* DUMB_MAPPING_VIRT cover the memory of the machine, and the last entry of
\* the memory map is the highest and does not start at address 0.
ASSUME PageAssumption ==
    /\ PHYS_PAGE_SIZE \in Nat \ {0}
    /\ MapFrames \in Nat \ {0}
    /\ MapBytes \in Nat
    /\ LowPages \in 0 .. (MapFrames - 1)
    /\ Window \in Nat
ASSUME KernelAssumption ==
    /\ physbase \in Nat
    /\ physfree \in Nat
    /\ physbase % PHYS_PAGE_SIZE = 0
ASSUME SmapAssumption ==
    /\ Smaps \subseteq Seq([base : Nat, limit : Nat])
    /\ \A m \in Smaps :
        /\ m # << >>
        /\ m[Len(m)].base \div PHYS_PAGE_SIZE > 0
        /\ \A k \in 1 .. Len(m) :
            /\ m[k].limit \div PHYS_PAGE_SIZE \in Frame
            /\ m[k].limit \div PHYS_PAGE_SIZE < Window
            /\ m[k].limit <= m[Len(m)].limit

VARIABLES
    modulep,       \* the memory map of this machine
    mem_map,       \* the available frames
    ker_physfree,  \* first address after the kernel and its tables
    max_phys,      \* limit of the region seen last
    smap,          \* number of regions init_mem_mgmt has handled
    used           \* the frames page_alloc has returned

physVars == <<modulep, mem_map, ker_physfree, max_phys, smap, used>>
-----------------------------------------------------------------------------
\* Seeded fault: the kernel does not reserve the memory of mem_map.
MapNotReserved ==
    /\ modulep \in Smaps
    /\ mem_map = {}
    /\ ker_physfree = physfree
    /\ max_phys = 0
    /\ smap = 0
    /\ used = {}

\* init_physbase_physfree and initialize_mem_map: mem_map is placed at the
\* first free address, with no frame available.
initialize_mem_map ==
    /\ modulep \in Smaps
    /\ mem_map = {}
    /\ ker_physfree = physfree + MapBytes
    /\ max_phys = 0
    /\ smap = 0
    /\ used = {}

\* The pages the loop of init_region leaves unavailable.
HoldsKernel(f) ==
    /\ f * PHYS_PAGE_SIZE <= ker_physfree
    /\ f * PHYS_PAGE_SIZE >= physbase

\* Seeded fault: page 0 is cleared by the loop over low memory only.
RegionKeepsZero(base, limit) ==
    /\ max_phys' = limit
    /\ LET found == {f \in Frame : /\ f >= base \div PHYS_PAGE_SIZE
                                   /\ f <= limit \div PHYS_PAGE_SIZE
                                   /\ ~ HoldsKernel(f)}
       IN  mem_map' = (mem_map \cup found) \ (1 .. LowPages)

\* Seeded fault: the limit of the first region is kept.
RegionKeepsMax(base, limit) ==
    /\ max_phys' = IF max_phys = 0 THEN limit ELSE max_phys
    /\ LET found == {f \in Frame : /\ f >= base \div PHYS_PAGE_SIZE
                                   /\ f <= limit \div PHYS_PAGE_SIZE
                                   /\ ~ HoldsKernel(f)}
       IN  mem_map' = ((mem_map \ {0, 1}) \cup found) \ (1 .. LowPages)

\* Seeded fault: the loop starts one page too early.
RegionStartsEarly(base, limit) ==
    /\ max_phys' = limit
    /\ LET found == {f \in Frame : /\ f + 1 >= base \div PHYS_PAGE_SIZE
                                   /\ f <= limit \div PHYS_PAGE_SIZE
                                   /\ ~ HoldsKernel(f)}
       IN  mem_map' = ((mem_map \ {0, 1}) \cup found) \ (1 .. LowPages)

\* Pages 0 and 1 are cleared before the pages of the region are set, pages
\* 1 to LowPages after it.
init_region(base, limit) ==
    /\ max_phys' = limit
    /\ LET found == {f \in Frame : /\ f >= base \div PHYS_PAGE_SIZE
                                   /\ f <= limit \div PHYS_PAGE_SIZE
                                   /\ ~ HoldsKernel(f)}
       IN  mem_map' = ((mem_map \ {0, 1}) \cup found) \ (1 .. LowPages)

\* The loop of init_mem_mgmt.
NextRegion ==
    /\ smap < Len(modulep)
    /\ smap' = smap + 1
    /\ init_region(modulep[smap + 1].base, modulep[smap + 1].limit)
    /\ UNCHANGED <<modulep, ker_physfree, used>>

Booted == smap = Len(modulep)

\* Lowest frame whose bit is set; the caller handles mem_map = {}.
get_index_of_free_page == Min(mem_map)

\* Seeded fault: the bit of the page stays set.
AllocKeepsBit ==
    /\ Booted
    /\ mem_map # {}
    /\ used' = used \cup {get_index_of_free_page}
    /\ UNCHANGED <<modulep, mem_map, ker_physfree, max_phys, smap>>

page_alloc ==
    /\ Booted
    /\ mem_map # {}
    /\ mem_map' = mem_map \ {get_index_of_free_page}
    /\ used' = used \cup {get_index_of_free_page}
    /\ UNCHANGED <<modulep, ker_physfree, max_phys, smap>>

\* No bit is set: page_alloc returns NULL and changes nothing.
page_alloc_null ==
    /\ Booted
    /\ mem_map = {}
    /\ UNCHANGED physVars

PhysInit == initialize_mem_map
PhysNext == NextRegion \/ page_alloc \/ page_alloc_null
PhysSpec == PhysInit /\ [][PhysNext]_physVars
-----------------------------------------------------------------------------
(* Properties.                                                             *)

\* Type invariant.
PhysTypeOK ==
    /\ modulep \in Smaps
    /\ mem_map \subseteq Frame
    /\ used \subseteq Frame
    /\ ker_physfree \in Nat
    /\ max_phys \in Nat
    /\ smap \in 0 .. Len(modulep)

\* page_alloc never returns a page of the kernel image or of mem_map itself,
\* nor one below 1 MB, where the video memory is.
KernelReserved ==
    \A f \in mem_map \cup used :
        /\ \/ (f + 1) * PHYS_PAGE_SIZE <= physbase
           \/ f * PHYS_PAGE_SIZE >= physfree + MapBytes
        /\ f \notin 1 .. LowPages

\* page_alloc never returns page 0, which its callers cannot tell from NULL.
NoNullPage == Booted => 0 \notin mem_map \cup used

\* identity_mapping covers every page page_alloc can return, and maps it at
\* an address of its own in the 256 MB from DUMB_MAPPING_VIRT: the kernel
\* reaches the pages it allocates for page tables through that mapping.
IdentityCovers ==
    Booted => \A f \in mem_map \cup used :
                f * PHYS_PAGE_SIZE <= max_phys /\ f < Window

\* A page is handed out at most once: page_alloc never returns a page it has
\* returned before.
NoDoubleAlloc == mem_map \cap used = {}

\* page_alloc returns pages that lie in a region of memory, except for the
\* pages at the ends of a region: init_region takes the page its base lies in
\* and, as its loop runs to start <= end, the page at its limit.
OnlyMemory ==
    \A f \in mem_map \cup used :
        \E k \in 1 .. Len(modulep) :
            LET base == modulep[k].base
                limit == modulep[k].limit
            IN  \/ base <= f * PHYS_PAGE_SIZE /\ (f + 1) * PHYS_PAGE_SIZE <= limit
                \/ f = base \div PHYS_PAGE_SIZE
                \/ f = limit \div PHYS_PAGE_SIZE
=============================================================================
