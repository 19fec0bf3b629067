----------------------------- MODULE NatLemmas -----------------------------
(* Facts about natural numbers the other proofs share.                     *)
EXTENDS Integers, FiniteSetTheorems, WellFoundedInduction, TLAPS

\* A non-empty set of naturals has a least element.
LEMMA NatLeast ==
    ASSUME NEW T, T \subseteq Nat, T # {}
    PROVE  \E x \in T : \A y \in T : x <= y
<1> DEFINE R == OpToRel(<, Nat)
<1>1. IsWellFoundedOn(R, Nat)
  BY NatLessThanWellFounded
<1>2. \A x, y \in Nat : y < x => <<y, x>> \in R
  BY DEF OpToRel
<1> HIDE DEF R
<1>3. PICK x \in T : \A y \in T : ~ (<<y, x>> \in R)
  BY <1>1, WFMin
<1>4. \A y \in T : ~ (y < x)
  BY <1>2, <1>3, T \subseteq Nat
<1> QED
  BY <1>4, T \subseteq Nat

\* A non-empty bounded set of naturals has a greatest element.
LEMMA NatGreatest ==
    ASSUME NEW T, T \subseteq Nat, T # {}, NEW n \in Nat, \A x \in T : x <= n
    PROVE  \E x \in T : \A y \in T : x >= y
<1> DEFINE U == {n - x : x \in T}
<1>1. U \subseteq Nat /\ U # {}
    <2>1. \A x \in T : n - x \in Nat  OBVIOUS
    <2>2. PICK x \in T : TRUE  OBVIOUS
    <2>3. n - x \in U  OBVIOUS
    <2>4. U \subseteq Nat  BY <2>1
    <2>5. QED  BY <2>3, <2>4
<1>2. PICK u \in U : \A w \in U : u <= w
    <2> HIDE DEF U
    <2>1. QED  BY <1>1, NatLeast
<1>3. PICK x \in T : u = n - x  OBVIOUS
<1>4. \A y \in T : n - x <= n - y  BY <1>2, <1>3
<1>5. QED  BY <1>4

\* In a finite set of naturals there is, for each k up to its size, a member
\* with k - 1 members below it.
LEMMA RankExists ==
    ASSUME NEW S, IsFiniteSet(S), S \subseteq Nat, NEW k \in 1 .. Cardinality(S)
    PROVE  \E f \in S : Cardinality({g \in S : g < f}) = k - 1
<1> DEFINE Below(f) == {g \in S : g < f}
           N == Cardinality(S)
           bad == {j \in 1 .. N : ~ \E f \in S : Cardinality(Below(f)) = j - 1}
<1>1. N \in Nat /\ IsFiniteSet(S)  BY FS_CardinalityType
<1>2. S \subseteq Nat  OBVIOUS
<1>3. \A f \in S : IsFiniteSet(Below(f)) /\ Cardinality(Below(f)) \in Nat
    BY <1>1, FS_Subset, FS_CardinalityType
<1>4. bad = {}
    <2> SUFFICES ASSUME bad # {}
                 PROVE  FALSE
        OBVIOUS
    <2>1. PICK j \in bad : \A i \in bad : j <= i
        <3>1. bad \subseteq Nat  BY <1>1
        <3> HIDE DEF bad
        <3>2. QED  BY <3>1, NatLeast
    <2>2. j \in 1 .. N /\ ~ \E f \in S : Cardinality(Below(f)) = j - 1
        <3> HIDE DEF N, Below
        <3>1. QED  OBVIOUS
    <2>3. CASE j = 1
        <3>1. S # {}
            <4>1. Cardinality({}) = 0  BY FS_EmptySet
            <4>2. ASSUME S = {} PROVE FALSE
                <5>1. N = 0  BY <4>1, <4>2
                <5> HIDE DEF N
                <5>2. QED  BY <2>2, <5>1
            <4>3. QED  BY <4>2
        <3>2. PICK f \in S : \A g \in S : f <= g
            BY <1>2, <3>1, NatLeast
        <3>3. Below(f) = {}
            <4> SUFFICES ASSUME NEW g \in S, g < f PROVE FALSE  OBVIOUS
            <4>1. f \in Nat /\ g \in Nat /\ f <= g  BY <1>2, <3>2
            <4>2. QED  BY <4>1
        <3>4. Cardinality(Below(f)) = 0  BY <3>3, FS_EmptySet
        <3> HIDE DEF Below
        <3>5. QED  BY <2>2, <2>3, <3>4
    <2>4. CASE j # 1
        <3>1. j - 1 \in 1 .. N /\ j - 1 \notin bad /\ j \in Nat
            <4> HIDE DEF bad
            <4>1. QED  BY <1>1, <2>1, <2>2, <2>4
        <3>2. PICK f \in S : Cardinality(Below(f)) = j - 1 - 1
            <4> HIDE DEF Below
            <4>1. QED  BY <3>1
        <3> DEFINE upto == Below(f) \cup {f}
                   above == S \ upto
        <3>3. IsFiniteSet(upto) /\ Cardinality(upto) = j - 1
            <4>1. f \notin Below(f)  BY <1>2
            <4>2. IsFiniteSet(Below(f))  BY <1>3
            <4> HIDE DEF Below
            <4>3. QED  BY <3>1, <3>2, <4>1, <4>2, FS_AddElement
        <3>4. above # {}
            <4> SUFFICES ASSUME above = {} PROVE FALSE  OBVIOUS
            <4>1. S = upto  OBVIOUS
            <4> HIDE DEF upto
            <4>2. QED  BY <1>1, <2>2, <3>1, <3>3, <4>1
        <3>5. PICK h \in above : \A g \in above : h <= g
            <4>1. above \subseteq Nat  BY <1>2
            <4> HIDE DEF above
            <4>2. QED  BY <3>4, <4>1, NatLeast
        <3>6. h \in S /\ h \in Nat /\ f \in Nat /\ f < h  BY <1>2, <3>5
        <3>7. Below(h) = upto
            <4>1. ASSUME NEW g \in S
                  PROVE  g < h <=> g \in upto
                <5>1. g \in Nat  BY <1>2
                <5>2. CASE g \in upto  BY <3>6, <5>1, <5>2
                <5>3. CASE g \notin upto  BY <3>5, <3>6, <5>1, <5>3
                <5>4. QED  BY <5>2, <5>3
            <4>2. upto \subseteq S  OBVIOUS
            <4> HIDE DEF upto
            <4>3. QED  BY <4>1, <4>2
        <3> HIDE DEF Below, upto, above
        <3>8. QED  BY <2>2, <3>3, <3>6, <3>7
    <2>5. QED  BY <2>3, <2>4
<1>5. k \notin bad  BY <1>4
<1>6. QED  BY <1>5

\* A greater member has more members below it.
LEMMA RankOrder ==
    ASSUME NEW S, IsFiniteSet(S), S \subseteq Nat, NEW x \in S, NEW y \in S, x < y
    PROVE  /\ Cardinality({z \in S : z < x}) \in Nat
           /\ Cardinality({z \in S : z < y}) \in Nat
           /\ Cardinality({z \in S : z < x}) < Cardinality({z \in S : z < y})
<1> DEFINE A == {z \in S : z < x}
           B == {z \in S : z < y}
<1>1. IsFiniteSet(A) /\ IsFiniteSet(B)  BY FS_Subset
<1>2. A \subseteq B /\ x \in B /\ x \notin A
    <2>1. \A z \in S : z \in Nat  OBVIOUS
    <2>2. \A z \in S : z < x => z < y  BY <2>1
    <2>3. ~ (x < x)  BY <2>1
    <2>4. QED  BY <2>2, <2>3
<1> HIDE DEF A, B
<1>3. A # B  BY <1>2
<1>4. Cardinality(A) \in Nat /\ Cardinality(B) \in Nat  BY <1>1, FS_CardinalityType
<1>5. Cardinality(A) < Cardinality(B)
    <2>1. A \in SUBSET B  BY <1>2
    <2>2. Cardinality(A) <= Cardinality(B) /\ Cardinality(A) # Cardinality(B)
        BY <1>1, <1>3, <2>1, FS_Subset
    <2>3. QED  BY <1>4, <2>2
<1>6. QED  BY <1>4, <1>5 DEF A, B

\* The page an address lies in.
LEMMA PageOf ==
    ASSUME NEW P \in Nat \ {0}, NEW h \in Nat, NEW a \in Nat,
           h * P <= a, a < h * P + P
    PROVE  a \div P = h
<1>1. a = P * (a \div P) + (a % P) /\ a \div P \in Nat /\ a % P \in 0 .. (P - 1)
    BY SMT
<1> DEFINE q == a \div P
<1> HIDE DEF q
<1>2. a = P * q + (a % P) /\ q \in Nat /\ a % P \in 0 .. (P - 1)
    BY <1>1 DEF q
<1>3. ~ (q < h)
    <2> SUFFICES ASSUME q < h PROVE FALSE  OBVIOUS
    <2>1. PICK d \in Nat : h = q + 1 + d  BY <1>2, h - q - 1 \in Nat
    <2>2. h * P = P * q + P + d * P  BY <1>2, <2>1
    <2>3. d * P \in Nat /\ P * q \in Nat  BY <1>2
    <2>4. QED  BY <1>2, <2>2, <2>3
<1>4. ~ (q > h)
    <2> SUFFICES ASSUME q > h PROVE FALSE  OBVIOUS
    <2>1. PICK d \in Nat : q = h + 1 + d  BY <1>2, q - h - 1 \in Nat
    <2>2. P * q = h * P + P + d * P  BY <1>2, <2>1
    <2>3. d * P \in Nat /\ h * P \in Nat  OBVIOUS
    <2>4. QED  BY <1>2, <2>2, <2>3
<1>5. QED  BY <1>2, <1>3, <1>4 DEF q

\* Different pages share no address.
LEMMA PagesApart ==
    ASSUME NEW P \in Nat \ {0}, NEW g \in Nat, NEW h \in Nat, g # h
    PROVE  g * P + P <= h * P \/ h * P + P <= g * P
<1>1. ASSUME NEW x \in Nat, NEW y \in Nat, x < y
      PROVE  x * P + P <= y * P
    <2>1. PICK d \in Nat : y = x + 1 + d  BY <1>1, y - x - 1 \in Nat
    <2>2. y * P = x * P + P + d * P  BY <2>1
    <2>3. d * P \in Nat /\ x * P \in Nat  OBVIOUS
    <2>4. QED  BY <2>2, <2>3
<1>2. QED  BY <1>1

\* Arithmetic of pages: an available page that does not start inside the
\* kernel's memory (the test of init_region) does not overlap it, because
\* the kernel image starts on a page boundary.
LEMMA PageOutside ==
    ASSUME NEW P \in Nat \ {0}, NEW b \in Nat, NEW e \in Nat, NEW f \in Nat,
           b % P = 0, ~ (f * P <= e /\ f * P >= b)
    PROVE  (f + 1) * P <= b \/ f * P >= e
<1>1. CASE f * P > e
    BY <1>1, f * P \in Nat
<1>2. CASE f * P < b
    <2>1. PICK q \in Nat : b = q * P
        <3>1. b = P * (b \div P) + (b % P) /\ b \div P \in Nat
            BY SMT
        <3>2. QED  BY <3>1
    <2>2. f < q
        <3>1. CASE f >= q
            <4>1. PICK d \in Nat : f = q + d  BY <3>1, f - q \in Nat
            <4>2. f * P = q * P + d * P  BY <4>1
            <4>3. d * P \in Nat /\ q * P \in Nat  OBVIOUS
            <4>4. f * P >= q * P  BY <4>2, <4>3
            <4>5. QED  BY <4>4, <2>1, <1>2
        <3>2. QED  BY <3>1
    <2>3. PICK d \in Nat : q = f + 1 + d  BY <2>2, q - f - 1 \in Nat
    <2>4. q * P = (f + 1) * P + d * P  BY <2>3
    <2>5. d * P \in Nat /\ (f + 1) * P \in Nat  OBVIOUS
    <2>6. QED  BY <2>1, <2>4, <2>5
<1>3. f * P \in Nat  OBVIOUS
<1>4. QED  BY <1>1, <1>2, <1>3

\* A page number that is at most limit \div P starts at or below limit.
LEMMA PageBelowLimit ==
    ASSUME NEW P \in Nat \ {0}, NEW l \in Nat, NEW f \in Nat, f <= l \div P
    PROVE  f * P <= l
<1>1. l = P * (l \div P) + (l % P) /\ l \div P \in Nat /\ l % P \in Nat
    BY SMT
<1>2. PICK d \in Nat : l \div P = f + d  BY <1>1, (l \div P) - f \in Nat
<1>3. P * (l \div P) = f * P + d * P  BY <1>2
<1>4. d * P \in Nat /\ f * P \in Nat  OBVIOUS
<1>5. QED  BY <1>1, <1>3, <1>4

\* A page number greater than base \div P starts at or above base.
LEMMA PageAboveBase ==
    ASSUME NEW P \in Nat \ {0}, NEW b \in Nat, NEW f \in Nat, f > b \div P
    PROVE  b <= f * P
<1>1. b = P * (b \div P) + (b % P) /\ b \div P \in Nat /\ b % P \in 0 .. (P - 1)
    BY SMT
<1> DEFINE q == b \div P
<1> HIDE DEF q
<1>2. b = P * q + (b % P) /\ q \in Nat /\ b % P \in 0 .. (P - 1) /\ f > q
    BY <1>1 DEF q
<1>3. PICK d \in Nat : f = q + 1 + d  BY <1>2, f - q - 1 \in Nat
<1>4. f * P = P * q + P + d * P  BY <1>2, <1>3
<1>5. d * P \in Nat /\ P * q \in Nat  BY <1>2
<1>6. QED  BY <1>2, <1>4, <1>5

\* The pages the loop of init_region visits lie between base and limit, but
\* for the first and the last.
LEMMA PageInRegion ==
    ASSUME NEW P \in Nat \ {0}, NEW b \in Nat, NEW l \in Nat, NEW f \in Nat,
           f >= b \div P, f <= l \div P
    PROVE  \/ b <= f * P /\ (f + 1) * P <= l
           \/ f = b \div P
           \/ f = l \div P
<1>1. b \div P \in Nat /\ l \div P \in Nat  BY SMT
<1>2. CASE f > b \div P /\ f < l \div P
    <2>1. b <= f * P  BY <1>2, PageAboveBase
    <2>2. f + 1 \in Nat /\ f + 1 <= l \div P  BY <1>1, <1>2
    <2>3. (f + 1) * P <= l  BY <2>2, PageBelowLimit
    <2>4. QED  BY <2>1, <2>3
<1>3. QED  BY <1>1, <1>2
-----------------------------------------------------------------------------
(* Recursive functions.  Each argument outside stop leads to one of lower  *)
(* rank, prev.                                                             *)

\* What holds at the stops and is inherited from prev holds everywhere.
Inherited(D, rank, stop, prev, good) ==
    /\ rank \in [D -> Nat]
    /\ \A d \in D \ stop : prev[d] \in D /\ rank[prev[d]] < rank[d]
    /\ \A d \in D : d \in stop => d \in good
    /\ \A d \in D \ stop : prev[d] \in good => d \in good

LEMMA RankInduction ==
    ASSUME NEW D, NEW rank, NEW stop, NEW prev, NEW good,
           Inherited(D, rank, stop, prev, good)
    PROVE  \A d \in D : d \in good
<1>0. /\ rank \in [D -> Nat]
      /\ \A d \in D \ stop : prev[d] \in D /\ rank[prev[d]] < rank[d]
      /\ \A d \in D : d \in stop => d \in good
      /\ \A d \in D \ stop : prev[d] \in good => d \in good
    BY DEF Inherited
<1> USE <1>0
<1> SUFFICES ASSUME NEW e \in D, e \notin good PROVE FALSE  OBVIOUS
<1> DEFINE bad == {rank[d] : d \in D \ good}
<1>1. bad \subseteq Nat /\ bad # {}  OBVIOUS
<1>2. PICK m \in bad : \A y \in bad : m <= y
    <2> HIDE DEF bad
    <2>1. QED  BY <1>1, NatLeast
<1>3. PICK d \in D \ good : m = rank[d]  BY <1>2
<1>4. d \notin stop /\ prev[d] \in D /\ prev[d] \notin good  BY <1>3
<1>5. rank[prev[d]] \in bad /\ rank[prev[d]] < rank[d]  BY <1>4
<1>6. rank[prev[d]] \in Nat /\ rank[d] \in Nat  BY <1>4
<1> HIDE DEF bad
<1>7. rank[d] <= rank[prev[d]]  BY <1>2, <1>3, <1>5
<1>8. QED  BY <1>5, <1>6, <1>7

\* A definition by the values base at the stops and from the value at prev
\* elsewhere.
Recursive(D, N, rank, stop, prev, S, base, step) ==
    /\ N \in Nat /\ rank \in [D -> 0 .. N]
    /\ \A d \in D \ stop : prev[d] \in D /\ rank[prev[d]] < rank[d]
    /\ \A d \in D : base[d] \in S
    /\ \A v \in S : \A d \in D : step[<<v, d>>] \in S

\* The function it defines exists.
LEMMA RankRecursion ==
    ASSUME NEW D, NEW N, NEW rank, NEW stop, NEW prev, NEW S, NEW base, NEW step,
           Recursive(D, N, rank, stop, prev, S, base, step)
    PROVE  \E f \in [D -> S] : \A d \in D :
                f[d] = IF d \in stop THEN base[d] ELSE step[<<f[prev[d]], d>>]
<1>0. /\ N \in Nat /\ rank \in [D -> 0 .. N]
      /\ \A d \in D \ stop : prev[d] \in D /\ rank[prev[d]] < rank[d]
      /\ \A d \in D : base[d] \in S
      /\ \A v \in S : \A d \in D : step[<<v, d>>] \in S
    BY DEF Recursive
<1> USE <1>0
<1> DEFINE next(f) == [d \in D |-> IF d \in stop THEN base[d] ELSE step[<<f[prev[d]], d>>]]
           Fits(m) == \E f \in [D -> S] :
                        \A d \in D : rank[d] <= m => f[d] = next(f)[d]
           bad == {m \in 0 .. N : ~ Fits(m)}
<1>1. ASSUME NEW f \in [D -> S] PROVE next(f) \in [D -> S]
    <2>1. ASSUME NEW d \in D, d \notin stop PROVE step[<<f[prev[d]], d>>] \in S
        <3>1. f[prev[d]] \in S  BY <2>1
        <3>2. QED  BY <3>1
    <2>2. QED  BY <2>1
<1>2. bad = {}
    <2> SUFFICES ASSUME bad # {} PROVE FALSE  OBVIOUS
    <2>1. bad \subseteq Nat  OBVIOUS
    <2>2. PICK m \in bad : \A y \in bad : m <= y
        <3> HIDE DEF bad
        <3>1. QED  BY <2>1, NatLeast
    <2>3. m \in 0 .. N /\ ~ Fits(m)  BY <2>2
    <2>4. PICK f \in [D -> S] : \A d \in D : rank[d] < m => f[d] = next(f)[d]
        <3>1. CASE m = 0
            <4>1. [d \in D |-> base[d]] \in [D -> S]  OBVIOUS
            <4>2. \A d \in D : ~ (rank[d] < m)  BY <3>1
            <4> HIDE DEF next
            <4>3. QED  BY <4>1, <4>2
        <3>2. CASE m # 0
            <4>1. m - 1 \in 0 .. N /\ ~ (m <= m - 1)  BY <2>3, <3>2
            <4>2. Fits(m - 1)
                <5>1. m - 1 \notin bad  BY <2>2, <4>1
                <5> HIDE DEF Fits
                <5>2. QED  BY <4>1, <5>1
            <4>3. \A d \in D : rank[d] < m => rank[d] <= m - 1  BY <2>3
            <4> HIDE DEF next, bad
            <4>4. QED  BY <4>2, <4>3
        <3>3. QED  BY <3>1, <3>2
    <2>5. next(f) \in [D -> S]  BY <1>1
    <2>6. ASSUME NEW d \in D, rank[d] <= m PROVE next(f)[d] = next(next(f))[d]
        <3>1. CASE d \in stop  BY <3>1
        <3>2. CASE d \notin stop
            <4>1. prev[d] \in D /\ rank[prev[d]] < rank[d]  BY <3>2
            <4>2. rank[prev[d]] \in Nat /\ rank[d] \in Nat /\ m \in Nat  BY <2>3, <4>1
            <4>3. rank[prev[d]] < m  BY <2>6, <4>1, <4>2
            <4>4. f[prev[d]] = next(f)[prev[d]]  BY <2>4, <4>1, <4>3
            <4>5. next(f)[d] = step[<<f[prev[d]], d>>]  BY <3>2
            <4>6. \A g : next(g)[d] = step[<<g[prev[d]], d>>]  BY <3>2
            <4> HIDE DEF next
            <4>7. next(next(f))[d] = step[<<next(f)[prev[d]], d>>]  BY <4>6
            <4>8. QED  BY <4>4, <4>5, <4>7
        <3>3. QED  BY <3>1, <3>2
    <2> HIDE DEF next, bad
    <2>7. Fits(m)  BY <2>5, <2>6
    <2>8. QED  BY <2>3, <2>7
<1>3. Fits(N)
    <2>1. N \in 0 .. N  OBVIOUS
    <2> HIDE DEF Fits
    <2>2. QED  BY <1>2, <2>1
<1>4. PICK f \in [D -> S] : \A d \in D : rank[d] <= N => f[d] = next(f)[d]
    <2> HIDE DEF next
    <2>1. QED  BY <1>3
<1>5. \A d \in D : rank[d] <= N  OBVIOUS
<1>6. \A d \in D : f[d] = next(f)[d]
    <2> HIDE DEF next
    <2>1. QED  BY <1>4, <1>5
<1>7. QED  BY <1>6

\* The same for a function of the numbers up to n that goes back one by one.
LEMMA PrefixInduction ==
    ASSUME NEW n \in Nat, NEW good, 0 \in good,
           \A k \in 1 .. n : k - 1 \in good => k \in good
    PROVE  \A k \in 0 .. n : k \in good
<1> DEFINE bad == {k \in 0 .. n : k \notin good}
<1> SUFFICES ASSUME bad # {} PROVE FALSE  OBVIOUS
<1>1. bad \subseteq Nat  OBVIOUS
<1>2. PICK m \in bad : \A y \in bad : m <= y
    <2> HIDE DEF bad
    <2>1. QED  BY <1>1, NatLeast
<1>3. m \in 1 .. n /\ m \notin good  BY <1>2
<1>4. m - 1 \in 0 .. n /\ ~ (m <= m - 1)  BY <1>3
<1>5. m - 1 \in good  BY <1>2, <1>4
<1>6. QED  BY <1>3, <1>5

Iterative(n, S, b, step) ==
    /\ n \in Nat /\ b \in S
    /\ \A v \in S : \A k \in 1 .. n : step[<<v, k>>] \in S

LEMMA PrefixRecursion ==
    ASSUME NEW n, NEW S, NEW b, NEW step, Iterative(n, S, b, step)
    PROVE  \E f \in [0 .. n -> S] :
                f[0] = b /\ \A k \in 1 .. n : f[k] = step[<<f[k - 1], k>>]
<1>0. /\ n \in Nat /\ b \in S
      /\ \A v \in S : \A k \in 1 .. n : step[<<v, k>>] \in S
    BY DEF Iterative
<1> USE <1>0
<1> DEFINE D == 0 .. n
           stop == {0}
           rank == [k \in D |-> k]
           prev == [k \in D |-> k - 1]
           base == [k \in D |-> b]
           next == [p \in S \X D |-> IF p[2] = 0 THEN b ELSE step[p]]
<1>1. rank \in [D -> 0 .. n]  OBVIOUS
<1>2. \A k \in D \ stop : prev[k] \in D /\ rank[prev[k]] < rank[k]  OBVIOUS
<1>3. \A k \in D : base[k] \in S  OBVIOUS
<1>4. \A v \in S : \A k \in D : next[<<v, k>>] = IF k = 0 THEN b ELSE step[<<v, k>>]
    OBVIOUS
<1>5. \A v \in S : \A k \in D : next[<<v, k>>] \in S
    <2>1. \A k \in D : k = 0 \/ k \in 1 .. n  OBVIOUS
    <2> HIDE DEF next, D
    <2>2. QED  BY <1>4, <2>1
<1>6. \A k \in 1 .. n : k \in D /\ k # 0 /\ prev[k] = k - 1 /\ k - 1 \in D  OBVIOUS
<1>7. 0 \in D /\ base[0] = b  OBVIOUS
<1> HIDE DEF rank, prev, base, next
<1>8. PICK f \in [D -> S] : \A k \in D :
        f[k] = IF k \in stop THEN base[k] ELSE next[<<f[prev[k]], k>>]
    <2> HIDE DEF D, stop
    <2>1. Recursive(D, n, rank, stop, prev, S, base, next)
        BY <1>1, <1>2, <1>3, <1>5 DEF Recursive
    <2>2. QED  BY <2>1, RankRecursion
<1>9. f[0] = b  BY <1>7, <1>8
<1>10. ASSUME NEW k \in 1 .. n PROVE f[k] = step[<<f[k - 1], k>>]
    <2>1. f[k] = next[<<f[k - 1], k>>] /\ f[k - 1] \in S  BY <1>6, <1>8
    <2>2. QED  BY <1>4, <1>6, <2>1
<1>11. QED  BY <1>9, <1>10
=============================================================================
