--------------------------- MODULE PhysMemProofs ---------------------------
(* Theorems about the page allocator, for every machine and kernel size.   *)
EXTENDS PhysMem, NatLemmas, SequenceTheorems

\* What makes IdentityCovers inductive: no page starts above the limit of
\* the last, and highest, region, and that is the limit max_phys ends with.
BelowTop ==
    /\ \A f \in mem_map \cup used :
            f * PHYS_PAGE_SIZE <= modulep[Len(modulep)].limit /\ f < Window
    /\ Booted => max_phys = modulep[Len(modulep)].limit

\* The inductive invariant.
PhysInv ==
    /\ PhysTypeOK
    /\ ker_physfree = physfree + MapBytes
    /\ smap < Len(modulep) => used = {}
    /\ KernelReserved
    /\ NoNullPage
    /\ BelowTop
    /\ NoDoubleAlloc
    /\ OnlyMemory

-----------------------------------------------------------------------------
\* initialize_mem_map establishes the invariant.
LEMMA PhysInitInv == PhysInit => PhysInv
<1> SUFFICES ASSUME PhysInit PROVE PhysInv  OBVIOUS
<1>1. modulep \in Smaps /\ modulep \in Seq([base : Nat, limit : Nat])
      /\ modulep # << >> /\ Len(modulep) \in Nat /\ Len(modulep) > 0
    BY SmapAssumption DEF PhysInit, initialize_mem_map
<1>2. QED
    BY <1>1, PageAssumption, KernelAssumption
    DEF PhysInit, initialize_mem_map, PhysInv, PhysTypeOK, KernelReserved,
        NoNullPage, BelowTop, NoDoubleAlloc, OnlyMemory, Booted

\* Adding a region keeps the invariant: page 0 can only survive the last
\* region if that region starts at address 0, and the last limit is the
\* highest one.
LEMMA RegionInv == PhysInv /\ NextRegion => PhysInv'
<1> SUFFICES ASSUME PhysInv, NextRegion PROVE PhysInv'  OBVIOUS
<1> DEFINE r == modulep[smap + 1]
<1>1. /\ modulep \in Smaps /\ modulep \in Seq([base : Nat, limit : Nat])
      /\ modulep # << >> /\ Len(modulep) \in Nat
      /\ smap \in 0 .. Len(modulep) /\ smap < Len(modulep)
      /\ smap + 1 \in 1 .. Len(modulep)
    BY SmapAssumption DEF PhysInv, PhysTypeOK, NextRegion
<1>2. /\ r \in [base : Nat, limit : Nat]
      /\ r.base \in Nat /\ r.limit \in Nat
      /\ r.limit \div PHYS_PAGE_SIZE \in Frame
      /\ r.limit \div PHYS_PAGE_SIZE < Window
    <2>1. r \in [base : Nat, limit : Nat]  BY <1>1, ElementOfSeq
    <2>2. /\ r.limit \div PHYS_PAGE_SIZE \in Frame
          /\ r.limit \div PHYS_PAGE_SIZE < Window
        BY <1>1, SmapAssumption
    <2>3. QED  BY <2>1, <2>2
<1>3. /\ mem_map \subseteq Frame /\ used = {}
      /\ ker_physfree = physfree + MapBytes /\ ker_physfree \in Nat
    BY <1>1 DEF PhysInv, PhysTypeOK
<1>4. /\ modulep' = modulep /\ smap' = smap + 1 /\ max_phys' = r.limit
      /\ ker_physfree' = ker_physfree /\ used' = used
    BY DEF NextRegion, init_region
<1> DEFINE found == {f \in Frame : /\ f >= r.base \div PHYS_PAGE_SIZE
                                   /\ f <= r.limit \div PHYS_PAGE_SIZE
                                   /\ ~ HoldsKernel(f)}
<1>5. mem_map' = ((mem_map \ {0, 1}) \cup found) \ (1 .. LowPages)
    BY DEF NextRegion, init_region
<1> HIDE DEF r
<1>6. PhysTypeOK'
    BY <1>1, <1>2, <1>3, <1>4, <1>5 DEF PhysTypeOK
<1>7. KernelReserved'
    <2> SUFFICES ASSUME NEW f \in mem_map'
                 PROVE  /\ \/ (f + 1) * PHYS_PAGE_SIZE <= physbase
                           \/ f * PHYS_PAGE_SIZE >= physfree + MapBytes
                        /\ f \notin 1 .. LowPages
        BY <1>3, <1>4 DEF KernelReserved
    <2>1. f \notin 1 .. LowPages  BY <1>5
    <2>2. CASE f \in mem_map
        BY <2>1, <2>2 DEF PhysInv, KernelReserved
    <2>3. CASE f \in found
        <3>1. f \in Nat /\ ~ HoldsKernel(f)
            BY <2>3, PageAssumption DEF Frame
        <3>2. \/ (f + 1) * PHYS_PAGE_SIZE <= physbase
              \/ f * PHYS_PAGE_SIZE >= ker_physfree
            BY <3>1, <1>3, PageOutside, PageAssumption, KernelAssumption
            DEF HoldsKernel
        <3>3. QED  BY <3>2, <2>1, <1>3
    <2>4. QED  BY <2>2, <2>3, <1>5
<1>8. NoNullPage'
    <2> SUFFICES ASSUME smap + 1 = Len(modulep) PROVE 0 \notin mem_map'
        BY <1>3, <1>4 DEF NoNullPage, Booted
    <2>1. r.base \div PHYS_PAGE_SIZE > 0
        BY <1>1, SmapAssumption DEF r
    <2>2. r.base \div PHYS_PAGE_SIZE \in Nat
        BY <1>2, PageAssumption
    <2>3. 0 \notin found  BY <2>1, <2>2
    <2>4. QED  BY <2>3, <1>5
<1>9. BelowTop'
    <2>1. r.limit <= modulep[Len(modulep)].limit
        BY <1>1, SmapAssumption DEF r
    <2>2. modulep[Len(modulep)].limit \in Nat
        <3>1. Len(modulep) \in 1 .. Len(modulep)  BY <1>1
        <3>2. modulep[Len(modulep)] \in [base : Nat, limit : Nat]
            BY <3>1, <1>1, ElementOfSeq
        <3>3. QED  BY <3>2
    <2>3. ASSUME NEW f \in mem_map'
          PROVE  f * PHYS_PAGE_SIZE <= modulep[Len(modulep)].limit /\ f < Window
        <3>1. CASE f \in found
            <4>1. f \in Nat /\ f <= r.limit \div PHYS_PAGE_SIZE
                BY <3>1, PageAssumption DEF Frame
            <4>2. f * PHYS_PAGE_SIZE <= r.limit /\ f * PHYS_PAGE_SIZE \in Nat
                BY <4>1, <1>2, PageBelowLimit, PageAssumption
            <4>3. f < Window
                <5>1. r.limit \div PHYS_PAGE_SIZE \in Nat
                    BY <1>2, PageAssumption DEF Frame
                <5>2. QED  BY <4>1, <5>1, <1>2, PageAssumption
            <4>4. QED  BY <4>2, <4>3, <2>1, <2>2, <1>2
        <3>2. CASE f \in mem_map
            BY <3>2 DEF PhysInv, BelowTop
        <3>3. QED  BY <3>1, <3>2, <1>5
    <2>4. Booted' => max_phys' = modulep[Len(modulep)].limit
        BY <1>4 DEF Booted, r
    <2>5. QED  BY <2>3, <2>4, <1>3, <1>4 DEF BelowTop
<1>10. NoDoubleAlloc'
    BY <1>3, <1>4 DEF NoDoubleAlloc
<1>11. (ker_physfree = physfree + MapBytes)' /\ (smap < Len(modulep) => used = {})'
    BY <1>3, <1>4
<1>12. OnlyMemory'
    <2> DEFINE Of(f, k) ==
            \/ modulep[k].base <= f * PHYS_PAGE_SIZE
               /\ (f + 1) * PHYS_PAGE_SIZE <= modulep[k].limit
            \/ f = modulep[k].base \div PHYS_PAGE_SIZE
            \/ f = modulep[k].limit \div PHYS_PAGE_SIZE
    <2>1. ASSUME NEW f \in mem_map'
          PROVE  \E k \in 1 .. Len(modulep) : Of(f, k)
        <3>1. CASE f \in found
            <4>1. f \in Nat /\ f >= r.base \div PHYS_PAGE_SIZE
                  /\ f <= r.limit \div PHYS_PAGE_SIZE
                BY <3>1, PageAssumption DEF Frame
            <4>2. Of(f, smap + 1)
                BY <4>1, <1>2, PageInRegion, PageAssumption DEF r
            <4>3. QED  BY <4>2, <1>1
        <3>2. CASE f \in mem_map
            BY <3>2 DEF PhysInv, OnlyMemory
        <3>3. QED  BY <3>1, <3>2, <1>5
    <2>2. QED  BY <2>1, <1>3, <1>4 DEF OnlyMemory
<1>13. QED
    BY <1>6, <1>7, <1>8, <1>9, <1>10, <1>11, <1>12 DEF PhysInv

\* get_index_of_free_page returns a page whose bit is set.
LEMMA FreePage ==
    ASSUME PhysTypeOK, mem_map # {}
    PROVE  get_index_of_free_page \in mem_map
<1>1. mem_map \subseteq Nat
    BY PageAssumption DEF PhysTypeOK, Frame
<1>2. \E x \in mem_map : \A y \in mem_map : x <= y
    BY <1>1, NatLeast
<1>3. QED  BY <1>2 DEF get_index_of_free_page, Min

\* page_alloc moves one page from the available ones to the used ones.
LEMMA AllocInv == PhysInv /\ page_alloc => PhysInv'
<1> SUFFICES ASSUME PhysInv, page_alloc PROVE PhysInv'  OBVIOUS
<1> DEFINE f == get_index_of_free_page
<1>1. f \in mem_map
    BY FreePage DEF PhysInv, page_alloc
<1>2. /\ mem_map' = mem_map \ {f} /\ used' = used \cup {f}
      /\ UNCHANGED <<modulep, ker_physfree, max_phys, smap>>
    BY DEF page_alloc
<1> HIDE DEF f
<1>3. mem_map' \cup used' = mem_map \cup used
    BY <1>1, <1>2
<1>4. PhysTypeOK' /\ NoDoubleAlloc'
    BY <1>1, <1>2 DEF PhysInv, PhysTypeOK, NoDoubleAlloc
<1>5. KernelReserved' /\ NoNullPage' /\ BelowTop' /\ OnlyMemory'
    BY <1>2, <1>3
    DEF PhysInv, KernelReserved, NoNullPage, BelowTop, OnlyMemory, Booted
<1>6. (ker_physfree = physfree + MapBytes)' /\ (smap < Len(modulep) => used = {})'
    <2>1. smap = Len(modulep)  BY DEF page_alloc, Booted
    <2>2. Len(modulep) \in Nat
        BY SmapAssumption DEF PhysInv, PhysTypeOK
    <2>3. QED  BY <1>2, <2>1, <2>2 DEF PhysInv
<1>7. QED  BY <1>4, <1>5, <1>6 DEF PhysInv

\* Steps that change nothing keep the invariant.
LEMMA PhysStutter == PhysInv /\ UNCHANGED physVars => PhysInv'
BY DEF physVars, PhysInv, PhysTypeOK, KernelReserved, NoNullPage, BelowTop,
       NoDoubleAlloc, OnlyMemory, Booted

\* The invariant holds in every state of the allocator.
THEOREM PhysInvariance == PhysSpec => []PhysInv
<1>1. PhysInv /\ [PhysNext]_physVars => PhysInv'
    BY RegionInv, AllocInv, PhysStutter DEF PhysNext, page_alloc_null
<1>2. QED  BY <1>1, PhysInitInv, PTL DEF PhysSpec

\* page_alloc never returns the same page twice, whatever the memory map.
THEOREM NeverTwice == PhysSpec => []NoDoubleAlloc
BY PhysInvariance, PTL DEF PhysInv

\* page_alloc never returns a page of the kernel, of mem_map or below 1 MB.
THEOREM KernelSafe == PhysSpec => []KernelReserved
BY PhysInvariance, PTL DEF PhysInv

\* page_alloc never returns page 0, the address its callers take for NULL.
THEOREM NeverNull == PhysSpec => []NoNullPage
BY PhysInvariance, PTL DEF PhysInv

\* page_alloc returns memory, or a page at an end of a region of memory.
THEOREM ReturnsMemory == PhysSpec => []OnlyMemory
BY PhysInvariance, PTL DEF PhysInv

\* The kernel can reach every page it allocates at DUMB_MAPPING_VIRT, within
\* the 256 MB the addresses from there on leave.
THEOREM Reachable == PhysSpec => []IdentityCovers
<1>1. PhysInv => IdentityCovers
    BY DEF PhysInv, BelowTop, IdentityCovers
<1>2. QED  BY <1>1, PhysInvariance, PTL
=============================================================================
