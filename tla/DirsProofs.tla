----------------------------- MODULE DirsProofs -----------------------------
(***************************************************************************)
(* Theorems about reading directories, for every number of processes and   *)
(* descriptors and every archive in the order in which find walks a tree.  *)
(***************************************************************************)
EXTENDS Dirs, NatLemmas, SequenceTheorems, TLAPS

-----------------------------------------------------------------------------
(* Headers of a directory.                                                 *)

\* The paths opendir accepts.
Opens(path) == path = RootPath \/ path \in Range(Archive)

LEMMA ArchiveFacts ==
    /\ Len(Archive) \in Nat /\ DOMAIN Archive = Pos /\ Pos \subseteq Nat
    /\ \A k \in Pos : Archive[k] \in Seq(STRING) /\ Len(Archive[k]) \in Nat
BY DirsAssumption DEF Pos

LEMMA PathFacts ==
    ASSUME NEW path, Opens(path)
    PROVE  path \in Seq(STRING) /\ Len(path) \in Nat
<1>1. << >> \in Seq(STRING)  BY EmptySeq
<1>2. \A k \in Pos : Archive[k] \in Seq(STRING)  BY ArchiveFacts
<1>3. path = << >> \/ \E k \in Pos : path = Archive[k]
    BY ArchiveFacts DEF Opens, Range, RootPath
<1>4. path \in Seq(STRING)  BY <1>1, <1>2, <1>3
<1>5. QED  BY <1>4, LenProperties

\* What contains means, name by name.
LEMMA ContainsFacts ==
    ASSUME NEW path \in Seq(STRING), NEW k \in Pos
    PROVE  contains(k, path) <=>
                /\ Len(path) <= Len(Archive[k])
                /\ \A i \in 1 .. Len(path) : Archive[k][i] = path[i]
<1>1. Archive[k] \in Seq(STRING) /\ Len(Archive[k]) \in Nat  BY ArchiveFacts
<1>2. Len(path) \in Nat  OBVIOUS
<1>3. SubSeq(path, 1, Len(path)) = [i \in 1 .. Len(path) |-> path[i]]
    BY <1>2
<1>4. ASSUME Len(path) <= Len(Archive[k])
      PROVE  SubSeq(Archive[k], 1, Len(path)) = [i \in 1 .. Len(path) |-> Archive[k][i]]
    BY <1>1, <1>2, <1>4
<1>5. QED  BY <1>3, <1>4 DEF contains, IsPrefix

LEMMA PathIsPrefix ==
    ASSUME NEW path \in Seq(STRING), NEW k \in Pos, contains(k, path)
    PROVE  path \in Prefixes(Archive[k])
<1>1. Len(path) \in 0 .. Len(Archive[k])  BY ArchiveFacts DEF contains, IsPrefix
<1>2. SubSeq(path, 1, Len(path)) = path  OBVIOUS
<1>3. path = SubSeq(Archive[k], 1, Len(path))  BY <1>2 DEF contains, IsPrefix
<1>4. QED  BY <1>1, <1>3 DEF Prefixes

\* The name that follows the path of a directory in a header.
LEMMA NameFacts ==
    ASSUME NEW path \in Seq(STRING), NEW k \in Pos, contains(k, path)
    PROVE  /\ fetchName(k, Len(path)) # Dot
           /\ fetchName(k, Len(path)) = NoName <=> Archive[k] = path
           /\ fetchName(k, Len(path)) # NoName =>
                /\ Len(path) < Len(Archive[k])
                /\ fetchName(k, Len(path)) = Archive[k][Len(path) + 1]
<1>1. Archive[k] \in Seq(STRING) /\ Len(Archive[k]) \in Nat  BY ArchiveFacts
<1>2. Len(path) <= Len(Archive[k]) /\ \A i \in 1 .. Len(path) : Archive[k][i] = path[i]
    BY ContainsFacts
<1>3. NoName # Dot  BY Zenon DEF NoName, Dot
<1>4. CASE Len(path) < Len(Archive[k])
    <2>1. Len(path) + 1 \in DOMAIN Archive[k]  BY <1>1, <1>4
    <2>2. Archive[k][Len(path) + 1] \in Range(Archive[k])  BY <2>1 DEF Range
    <2>3. Archive[k][Len(path) + 1] \notin {NoName, Dot}  BY <2>2, DirsAssumption
    <2>4. fetchName(k, Len(path)) = Archive[k][Len(path) + 1]  BY <1>4 DEF fetchName
    <2>5. Archive[k] # path  BY <1>4, <1>1
    <2>6. QED  BY <1>4, <2>3, <2>4, <2>5
<1>5. CASE ~ (Len(path) < Len(Archive[k]))
    <2>1. fetchName(k, Len(path)) = NoName  BY <1>5 DEF fetchName
    <2>2. Len(path) = Len(Archive[k])  BY <1>1, <1>2, <1>5
    <2>3. Archive[k] = path  BY <1>1, <1>2, <2>2
    <2>4. QED  BY <1>3, <2>1, <2>3
<1>6. QED  BY <1>4, <1>5

\* The headers of a directory are in one place.
LEMMA Between ==
    ASSUME NEW path \in Seq(STRING), NEW i \in Pos, NEW j \in Pos, NEW k \in Pos,
           i <= j, j <= k, contains(i, path), contains(k, path)
    PROVE  contains(j, path)
<1>1. path \in Prefixes(Archive[i])  BY PathIsPrefix
<1>2. QED  BY <1>1, DirsAssumption DEF TreeOrder, contains

\* So are the headers with the same name in it.
LEMMA SameName ==
    ASSUME NEW path \in Seq(STRING), NEW i \in Pos, NEW j \in Pos, NEW k \in Pos,
           i <= j, j <= k, contains(i, path), contains(k, path),
           fetchName(i, Len(path)) = fetchName(k, Len(path)),
           fetchName(k, Len(path)) # NoName
    PROVE  fetchName(j, Len(path)) = fetchName(k, Len(path))
<1> DEFINE name == Archive[k][Len(path) + 1]
           longer == Append(path, name)
<1>1. /\ Len(path) < Len(Archive[i]) /\ Archive[i][Len(path) + 1] = name
      /\ Len(path) < Len(Archive[k]) /\ fetchName(k, Len(path)) = name
    BY NameFacts
<1>2. Archive[k] \in Seq(STRING) /\ Len(Archive[k]) \in Nat /\ Len(path) \in Nat
    BY ArchiveFacts
<1>3. name \in STRING  BY <1>1, <1>2
<1> HIDE DEF name
<1>4. /\ longer \in Seq(STRING) /\ Len(longer) = Len(path) + 1
      /\ longer[Len(path) + 1] = name
      /\ \A n \in 1 .. Len(path) : longer[n] = path[n]
    <2>1. /\ Append(path, name) \in Seq(STRING)
          /\ Len(Append(path, name)) = Len(path) + 1
          /\ Append(path, name)[Len(path) + 1] = name
        BY <1>3, AppendProperties
    <2>2. \A n \in 1 .. Len(path) : Append(path, name)[n] = path[n]
        BY <1>3, AppendProperties
    <2>3. QED  BY <2>1, <2>2
<1> HIDE DEF longer
<1>5. ASSUME NEW n \in Pos, contains(n, path), Len(path) < Len(Archive[n]),
             Archive[n][Len(path) + 1] = name
      PROVE  contains(n, longer)
    <2>1. \A m \in 1 .. Len(path) : Archive[n][m] = path[m]  BY <1>5, ContainsFacts
    <2>2. Len(longer) <= Len(Archive[n])  BY <1>2, <1>4, <1>5, ArchiveFacts
    <2>3. \A m \in 1 .. Len(longer) : m \in 1 .. Len(path) \/ m = Len(path) + 1
        BY <1>2, <1>4
    <2>4. \A m \in 1 .. Len(longer) : Archive[n][m] = longer[m]
        BY <1>4, <1>5, <2>1, <2>3
    <2>5. QED  BY <1>4, <2>2, <2>4, ContainsFacts
<1>6. contains(i, longer) /\ contains(k, longer)  BY <1>1, <1>5 DEF name
<1>7. contains(j, longer)  BY <1>4, <1>6, Between
<1>8. Len(path) + 1 <= Len(Archive[j]) /\ Archive[j][Len(path) + 1] = name
    BY <1>2, <1>4, <1>7, ContainsFacts
<1>9. QED  BY <1>1, <1>2, <1>8, ArchiveFacts DEF fetchName

\* Reading starts after the header of the directory, and what is in the
\* directory follows it.
LEMMA StartFacts ==
    ASSUME NEW path, Opens(path)
    PROVE  /\ StartPos(path) \in 1 .. (Len(Archive) + 1)
           /\ path = RootPath => StartPos(path) = 1
           /\ path # RootPath =>
                /\ StartPos(path) - 1 \in Pos
                /\ \A k \in Pos : contains(k, path) /\ Archive[k] # path =>
                                    k >= StartPos(path)
                /\ \A k \in Pos : Archive[k] = path => k = StartPos(path) - 1
                /\ contains(StartPos(path) - 1, path)
<1>1. CASE path = RootPath
    BY <1>1, ArchiveFacts DEF StartPos
<1>2. CASE path # RootPath
    <2>1. path \in Seq(STRING)  BY PathFacts
    <2>2. PICK i \in Pos : Archive[i] = path
        BY <1>2, ArchiveFacts DEF Opens, Range
    <2>3. IsPrefix(path, path)  BY <2>1 DEF IsPrefix
    <2>4. \A k \in Pos : contains(k, path) => i <= k
        BY <1>2, <2>2, DirsAssumption DEF TreeOrder, contains, RootPath
    <2>5. \A k \in Pos : Archive[k] = path => k = i
        <3> SUFFICES ASSUME NEW k \in Pos, Archive[k] = path PROVE k = i  OBVIOUS
        <3>1. i <= k  BY <2>3, <2>4 DEF contains
        <3>2. k <= i
            BY <1>2, <2>2, <2>3, DirsAssumption DEF TreeOrder, RootPath
        <3>3. QED  BY <3>1, <3>2, ArchiveFacts
    <2> DEFINE Q(k) == Archive[k] = path /\ \A j \in 1 .. (k - 1) : Archive[j] # path
               first == CHOOSE k \in Pos : Q(k)
    <2>6. Q(i)
        <3>1. \A j \in 1 .. (i - 1) : j \in Pos /\ j # i  BY ArchiveFacts DEF Pos
        <3>2. QED  BY <2>2, <2>5, <3>1
    <2>7. first \in Pos /\ Q(first)  BY <2>6
    <2>8. StartPos(path) = 1 + first  BY <1>2 DEF StartPos
    <2>9. first = i  BY <2>5, <2>7
    <2> HIDE DEF first, Q
    <2>10. StartPos(path) = i + 1 /\ StartPos(path) - 1 = i  BY <2>8, <2>9, ArchiveFacts
    <2>11. contains(i, path)  BY <2>2, <2>3 DEF contains
    <2>12. \A k \in Pos : contains(k, path) /\ Archive[k] # path => k >= i + 1
        BY <2>2, <2>4, ArchiveFacts
    <2>13. i + 1 \in 1 .. (Len(Archive) + 1)  BY ArchiveFacts DEF Pos
    <2>14. QED  BY <1>2, <2>5, <2>10, <2>11, <2>12, <2>13
<1>3. QED  BY <1>1, <1>2
-----------------------------------------------------------------------------
(* The lines ls prints.                                                    *)

LEMMA PrintedFinite ==
    ASSUME NEW path
    PROVE  /\ HeadersOf(path) \subseteq Pos /\ Printed(path) \subseteq HeadersOf(path)
           /\ Printed(path) \subseteq Nat /\ IsFiniteSet(Printed(path))
<1>1. HeadersOf(path) \subseteq Pos  BY ArchiveFacts DEF HeadersOf, Pos
<1>2. Printed(path) \subseteq HeadersOf(path)  BY DEF Printed
<1>3. IsFiniteSet(Pos)  BY ArchiveFacts, FS_Interval DEF Pos
<1>4. Printed(path) \in SUBSET Pos  BY <1>1, <1>2
<1>5. IsFiniteSet(Printed(path))  BY <1>3, <1>4, FS_Subset
<1>6. QED  BY <1>1, <1>2, <1>4, <1>5, ArchiveFacts

\* The name remembered at a header of the directory is the one of the header
\* before it.
LEMMA AfterHeader ==
    ASSUME NEW path, NEW k \in HeadersOf(path), k - 1 \in HeadersOf(path)
    PROVE  k \in Printed(path) <=> fetchName(k, Len(path)) # fetchName(k - 1, Len(path))
<1> DEFINE before == {j \in HeadersOf(path) : j < k}
<1>1. HeadersOf(path) \subseteq Nat  BY PrintedFinite, ArchiveFacts
<1>2. k - 1 \in before /\ \A j \in before : k - 1 >= j  BY <1>1
<1>3. \A j \in before : j \in Nat  BY <1>1
<1> HIDE DEF before
<1>4. PICK m : m = Max(before)  OBVIOUS
<1>5. m \in before /\ \A j \in before : m >= j  BY <1>2, <1>4 DEF Max
<1>6. m = k - 1  BY <1>2, <1>3, <1>5
<1>7. before # {}  BY <1>2
<1>8. QED  BY <1>4, <1>6, <1>7 DEF Printed, before

LEMMA FirstHeader ==
    ASSUME NEW path, NEW k \in HeadersOf(path), \A j \in HeadersOf(path) : j >= k
    PROVE  k \in Printed(path) <=>
            fetchName(k, Len(path)) # IF path = RootPath THEN NoName ELSE Dot
<1>1. HeadersOf(path) \subseteq Nat  BY PrintedFinite, ArchiveFacts
<1>2. {j \in HeadersOf(path) : j < k} = {}  BY <1>1
<1>3. QED  BY <1>2 DEF Printed

\* Every header is in the root.
LEMMA InRoot ==
    ASSUME NEW k \in Pos
    PROVE  contains(k, RootPath)
<1>1. RootPath \in Seq(STRING)  BY EmptySeq DEF RootPath
<1>2. Len(RootPath) = 0  BY DEF RootPath
<1>3. Len(RootPath) <= Len(Archive[k]) /\ 1 .. Len(RootPath) = {}
    BY <1>2, ArchiveFacts
<1>4. QED  BY <1>1, <1>3, ContainsFacts

\* ls prints an empty line for the header of the directory itself, and only
\* for that one, unless it is the root.
LEMMA PrintsSelf ==
    ASSUME NEW path, Opens(path), path # RootPath
    PROVE  /\ StartPos(path) - 1 \in Printed(path)
           /\ fetchName(StartPos(path) - 1, Len(path)) = NoName
           /\ \A k \in Printed(path) : k >= StartPos(path) - 1
           /\ \A k \in Printed(path) :
                fetchName(k, Len(path)) = NoName => k = StartPos(path) - 1
<1>1. path \in Seq(STRING)  BY PathFacts
<1>2. PICK i : i = StartPos(path) - 1  OBVIOUS
<1>3. /\ i \in Pos /\ contains(i, path)
      /\ \A k \in Pos : Archive[k] = path => k = i
      /\ \A k \in Pos : contains(k, path) /\ Archive[k] # path => k >= StartPos(path)
      /\ StartPos(path) \in 1 .. (Len(Archive) + 1)
    BY <1>2, StartFacts
<1>4. HeadersOf(path) = {k \in Pos : contains(k, path)}  BY DEF HeadersOf
<1>5. ASSUME NEW k \in HeadersOf(path) PROVE k >= i
    <2>1. k \in Pos /\ contains(k, path)  BY <1>4
    <2>2. k \in Nat /\ StartPos(path) \in Nat  BY <1>3, <2>1, ArchiveFacts
    <2>3. CASE Archive[k] = path  BY <1>3, <2>1, <2>2, <2>3
    <2>4. CASE Archive[k] # path
        <3>1. k >= StartPos(path)  BY <1>3, <2>1, <2>4
        <3>2. QED  BY <1>2, <2>2, <3>1
    <2>5. QED  BY <2>3, <2>4
<1>6. Archive[i] = path
    <2>1. StartPos(path) \in Nat /\ i \in Nat  BY <1>3, ArchiveFacts
    <2>2. ~ (i >= StartPos(path))  BY <1>2, <2>1
    <2>3. QED  BY <1>3, <2>2
<1>7. fetchName(i, Len(path)) = NoName  BY <1>1, <1>3, <1>6, NameFacts
<1>8. NoName # Dot  BY Zenon DEF NoName, Dot
<1>9. i \in HeadersOf(path)  BY <1>3, <1>4
<1>10. i \in Printed(path)  BY <1>5, <1>7, <1>8, <1>9, FirstHeader
<1>11. ASSUME NEW k \in Printed(path), fetchName(k, Len(path)) = NoName PROVE k = i
    <2>1. k \in Pos /\ contains(k, path)  BY <1>4, PrintedFinite
    <2>2. Archive[k] = path  BY <1>1, <1>11, <2>1, NameFacts
    <2>3. QED  BY <1>3, <2>1, <2>2
<1>12. QED  BY <1>2, <1>5, <1>7, <1>10, <1>11, PrintedFinite

\* ls prints the name of a header unless the header before has the same name.
LEMMA PrintsName ==
    ASSUME NEW path, Opens(path), NEW k \in Pos, k >= StartPos(path),
           contains(k, path), fetchName(k, Len(path)) # NoName
    PROVE  k \in Printed(path) <=>
            ~ (k > StartPos(path) /\ fetchName(k - 1, Len(path)) = fetchName(k, Len(path)))
<1>1. path \in Seq(STRING)  BY PathFacts
<1>2. PICK st : st = StartPos(path)  OBVIOUS
<1>3. /\ st \in Nat /\ k \in Nat /\ 1 <= st /\ st <= k /\ k <= Len(Archive)
      /\ Len(Archive) \in Nat
    BY <1>2, StartFacts, ArchiveFacts DEF Pos
<1>4. Archive[k] # path  BY <1>1, NameFacts
<1>5. CASE path = RootPath
    <2>1. st = 1  BY <1>2, <1>5, StartFacts
    <2>2. HeadersOf(path) = 1 .. (Len(Archive) - 1)  BY <1>5 DEF HeadersOf
    <2>3. k # Len(Archive)  BY <1>4, <1>5, DirsAssumption DEF RootPath
    <2>4. k \in HeadersOf(path)  BY <1>3, <2>2, <2>3
    <2>5. CASE k = 1
        <3>1. \A j \in HeadersOf(path) : j >= k  BY <2>2, <2>5, <1>3
        <3>2. k \in Printed(path)  BY <1>5, <2>4, <3>1, FirstHeader
        <3>3. QED  BY <1>2, <2>1, <2>5, <3>2
    <2>6. CASE k # 1
        <3>1. k - 1 \in HeadersOf(path) /\ k > st  BY <1>3, <2>1, <2>2, <2>4, <2>6
        <3>2. QED  BY <1>2, <2>4, <3>1, AfterHeader
    <2>7. QED  BY <2>5, <2>6
<1>6. CASE path # RootPath
    <2>1. HeadersOf(path) = {j \in Pos : contains(j, path)}  BY <1>6 DEF HeadersOf
    <2>2. st - 1 \in Pos /\ contains(st - 1, path)  BY <1>2, <1>6, StartFacts
    <2>3. k \in HeadersOf(path) /\ k - 1 \in Nat /\ k - 1 <= k /\ st - 1 <= k - 1
        BY <1>3, <2>1
    <2>4. k - 1 \in Pos  BY <1>3, <2>2, <2>3, ArchiveFacts DEF Pos
    <2>5. contains(k - 1, path)  BY <1>1, <2>2, <2>3, <2>4, Between
    <2>6. k - 1 \in HeadersOf(path)  BY <2>1, <2>4, <2>5
    <2>7. k \in Printed(path) <=> fetchName(k, Len(path)) # fetchName(k - 1, Len(path))
        BY <2>3, <2>6, AfterHeader
    <2>8. CASE k = st
        <3>1. fetchName(k - 1, Len(path)) = NoName  BY <1>2, <1>6, <2>8, PrintsSelf
        <3>2. QED  BY <1>2, <1>3, <2>7, <2>8, <3>1
    <2>9. CASE k # st
        <3>1. k > st  BY <1>3, <2>9
        <3>2. QED  BY <1>2, <2>7, <3>1
    <2>10. QED  BY <2>8, <2>9
<1>7. QED  BY <1>5, <1>6
-----------------------------------------------------------------------------
(* Reading a directory.                                                    *)

Dots(path) == IF path = RootPath THEN {} ELSE {Dot}

\* All that readdir is to return.
AllNames(path) == Children(path) \cup Dots(path)

\* The names in the headers from where reading starts up to the one before pos.
NamesUpTo(path, pos) ==
    {fetchName(k, Len(path)) : k \in StartPos(path) .. (pos - 1)} \ {NoName}

\* Readdir has passed the headers before pos: all of them are in the directory,
\* the last one has the name prev, and names are the names it has returned.
Passed(path, pos, prev, names) ==
    /\ pos \in StartPos(path) .. (Len(Archive) + 1)
    /\ \A k \in StartPos(path) .. (pos - 1) : contains(k, path)
    /\ names = Dots(path) \cup NamesUpTo(path, pos)
    /\ prev = IF pos > StartPos(path) THEN fetchName(pos - 1, Len(path))
              ELSE IF path = RootPath THEN NoName ELSE Dot

\* The line on which ls prints the name of header k.
Line(path, k) == Cardinality({j \in Printed(path) : j < k}) + 1

\* The headers before pos whose names ls prints; empty names of the root, which
\* come last, left out.
Shows(path, pos) ==
    {k \in Printed(path) :
        k < pos /\ (path = RootPath => fetchName(k, Len(path)) # NoName)}

\* The names returned up to pos are in the order of the lines of ls.
Ordered(path, pos, names) ==
    /\ Len(names) = Cardinality(Shows(path, pos))
    /\ \A k \in Shows(path, pos) :
        names[Line(path, k)] = IF fetchName(k, Len(path)) = NoName THEN Dot
                               ELSE fetchName(k, Len(path))

\* What the record of an open directory and the names returned have to do with
\* each other.
Progress(d, s) ==
    /\ Opens(d.dirPath)
    /\ DOMAIN d = DOMAIN NullDir
    /\ d.eofDirectory \in {0, 1}
    /\ DOMAIN s = DOMAIN NothingSeen
    /\ s.names \in Seq(AllNames(d.dirPath))
    /\ IsInjective(s.names)
    /\ \/ /\ d.dirPath # RootPath /\ d.prevFile = NoName
          /\ d.curPos = StartPos(d.dirPath)
          /\ s.names = << >> /\ ~ s.ended /\ d.eofDirectory = 0
       \/ /\ d.dirPath # RootPath => d.prevFile # NoName
          /\ Passed(d.dirPath, d.curPos, d.prevFile, Range(s.names))
          /\ Ordered(d.dirPath, d.curPos, s.names)
    /\ s.ended \/ d.eofDirectory = 1 => Range(s.names) = AllNames(d.dirPath)

LEMMA HeaderIn ==
    ASSUME NEW path, Opens(path), NEW pos \in StartPos(path) .. (Len(Archive) + 1),
           NEW k \in StartPos(path) .. (pos - 1)
    PROVE  k \in Pos /\ k < pos
BY StartFacts, ArchiveFacts DEF Pos

\* Children, by the name that follows the path.
LEMMA ChildrenFacts ==
    ASSUME NEW path, Opens(path)
    PROVE  Children(path) = {fetchName(k, Len(path)) :
                                k \in {j \in Pos : contains(j, path)}} \ {NoName}
<1>1. path \in Seq(STRING)  BY PathFacts
<1>2. ASSUME NEW k \in Pos, contains(k, path), Archive[k] # path
      PROVE  /\ fetchName(k, Len(path)) # NoName
             /\ fetchName(k, Len(path)) = Archive[k][Len(path) + 1]
    BY <1>1, <1>2, NameFacts
<1>3. ASSUME NEW k \in Pos, contains(k, path), fetchName(k, Len(path)) # NoName
      PROVE  Archive[k] # path
    BY <1>1, <1>3, NameFacts
<1>4. \A k \in Pos : IsStrictPrefix(path, Archive[k]) <=> contains(k, path) /\ Archive[k] # path
    BY DEF IsStrictPrefix, contains
<1>5. QED  BY <1>2, <1>3, <1>4 DEF Children

\* The loop passes over headers with the name returned last.
LEMMA Skips ==
    ASSUME NEW path, Opens(path), NEW pos, NEW prev, NEW names,
           Passed(path, pos, prev, names),
           NEW k \in pos .. (Len(Archive) + 1),
           \A j \in pos .. (k - 1) :
                contains(j, path) /\ fetchName(j, Len(path)) = prev
    PROVE  Passed(path, k, prev, names)
<1> DEFINE st == StartPos(path)
           n == Len(path)
<1>1. st \in Nat /\ pos \in Nat /\ k \in Nat /\ st <= pos /\ pos <= k
      /\ st \in 1 .. (Len(Archive) + 1) /\ k \in st .. (Len(Archive) + 1)
    BY StartFacts, ArchiveFacts DEF Passed
<1> HIDE DEF st
<1>2. CASE k = pos  BY <1>2
<1>3. CASE k # pos
    <2>1. \A j \in st .. (k - 1) : j \in st .. (pos - 1) \/ j \in pos .. (k - 1)
        BY <1>1
    <2>2. \A j \in st .. (pos - 1) : j \in st .. (k - 1)  BY <1>1
    <2>3. \A j \in st .. (k - 1) : contains(j, path)
        BY <2>1 DEF Passed, st
    <2>4. fetchName(k - 1, n) = prev /\ k > st  BY <1>1, <1>3
    <2>5. prev \in {fetchName(j, n) : j \in st .. (pos - 1)} \cup {NoName, Dot}
        <3>1. CASE pos > st
            <4>1. pos - 1 \in st .. (pos - 1)  BY <1>1, <3>1
            <4>2. QED  BY <3>1, <4>1 DEF Passed, st
        <3>2. CASE ~ (pos > st)  BY <3>2 DEF Passed, st
        <3>3. QED  BY <3>1, <3>2
    <2>6. prev # Dot
        <3>1. k - 1 \in Pos /\ k - 1 \in st .. (k - 1)  BY <1>1, <1>3, ArchiveFacts DEF Pos
        <3>2. QED  BY <2>3, <2>4, <3>1, PathFacts, NameFacts
    <2>7. {fetchName(j, n) : j \in st .. (k - 1)} \ {NoName}
            = {fetchName(j, n) : j \in st .. (pos - 1)} \ {NoName}
        <3>1. \A j \in pos .. (k - 1) :
                    fetchName(j, n) \in {fetchName(i, n) : i \in st .. (pos - 1)} \cup {NoName}
            BY <2>5, <2>6
        <3>2. QED  BY <2>1, <2>2, <3>1
    <2>8. NamesUpTo(path, k) = NamesUpTo(path, pos)  BY <2>7 DEF NamesUpTo, st
    <2>9. QED  BY <1>1, <2>3, <2>4, <2>8 DEF Passed, st
<1>4. QED  BY <1>2, <1>3
\* One header more is passed.
LEMMA PassesOne ==
    ASSUME NEW path, Opens(path), NEW k \in Pos, NEW prev, NEW names,
           Passed(path, k, prev, names), contains(k, path)
    PROVE  Passed(path, k + 1, fetchName(k, Len(path)),
                  names \cup ({fetchName(k, Len(path))} \ {NoName}))
<1> DEFINE st == StartPos(path)
           n == Len(path)
<1>1. st \in Nat /\ k \in Nat /\ st <= k /\ k + 1 \in st .. (Len(Archive) + 1)
      /\ k + 1 - 1 = k /\ k + 1 > st
    BY StartFacts, ArchiveFacts DEF Passed, Pos
<1> HIDE DEF st
<1>2. \A j \in st .. k : j \in st .. (k - 1) \/ j = k  BY <1>1
<1>3. \A j \in st .. (k - 1) : j \in st .. k  BY <1>1
<1>4. k \in st .. k  BY <1>1
<1>5. \A j \in st .. k : contains(j, path)  BY <1>2 DEF Passed, st
<1>6. {fetchName(j, n) : j \in st .. k}
        = {fetchName(j, n) : j \in st .. (k - 1)} \cup {fetchName(k, n)}
    BY <1>2, <1>3, <1>4
<1>7. NamesUpTo(path, k + 1) = NamesUpTo(path, k) \cup ({fetchName(k, n)} \ {NoName})
    BY <1>1, <1>6 DEF NamesUpTo, st
<1>8. QED  BY <1>1, <1>5, <1>7 DEF Passed, st

\* A name that differs from the one returned last has not been returned.
LEMMA NewName ==
    ASSUME NEW path, Opens(path), NEW k \in Pos, NEW prev, NEW names,
           Passed(path, k, prev, names), contains(k, path),
           fetchName(k, Len(path)) # prev, fetchName(k, Len(path)) # NoName
    PROVE  fetchName(k, Len(path)) \in AllNames(path) \ names
<1> DEFINE name == fetchName(k, Len(path))
<1>1. path \in Seq(STRING)  BY PathFacts
<1>2. name \in Children(path)  BY ChildrenFacts
<1>3. name # Dot  BY <1>1, NameFacts
<1>4. ASSUME NEW j \in StartPos(path) .. (k - 1), fetchName(j, Len(path)) = name
      PROVE  FALSE
    <2>1. /\ j \in Pos /\ j \in Nat /\ k \in Nat /\ StartPos(path) \in Nat
          /\ j <= k - 1 /\ k - 1 <= k /\ k > StartPos(path)
        BY StartFacts, ArchiveFacts, HeaderIn DEF Passed
    <2>2. k - 1 \in Pos  BY <2>1, ArchiveFacts DEF Pos
    <2>3. contains(j, path)  BY DEF Passed
    <2>4. fetchName(k - 1, Len(path)) = name  BY <1>1, <1>4, <2>1, <2>2, <2>3, SameName
    <2>5. QED  BY <2>1, <2>4 DEF Passed
<1>5. name \notin names
    <2>1. name \notin NamesUpTo(path, k)  BY <1>4 DEF NamesUpTo
    <2>2. QED  BY <1>3, <2>1 DEF Passed, Dots
<1>6. QED  BY <1>2, <1>5 DEF AllNames

\* At a header outside the directory, or at the end, every name has been
\* returned.
LEMMA Complete ==
    ASSUME NEW path, Opens(path), NEW k, NEW prev, NEW names,
           Passed(path, k, prev, names),
           k \notin Pos \/ ~ contains(k, path) \/ Archive[k] = path
    PROVE  names = AllNames(path)
<1> DEFINE st == StartPos(path)
           n == Len(path)
<1>1. path \in Seq(STRING) /\ n \in Nat  BY PathFacts
<1>2. /\ st \in Nat /\ k \in Nat /\ st <= k /\ k <= Len(Archive) + 1
      /\ st \in 1 .. (Len(Archive) + 1)
    BY StartFacts, ArchiveFacts DEF Passed
<1>3. ASSUME NEW j \in st .. (k - 1) PROVE j \in Pos /\ contains(j, path)
    <2>1. j \in Pos  BY <1>2, HeaderIn DEF Passed
    <2>2. QED  BY <2>1 DEF Passed
<1>4. NamesUpTo(path, k) \subseteq Children(path)
    BY <1>3, ChildrenFacts DEF NamesUpTo
<1>5. ASSUME NEW j \in Pos, contains(j, path), fetchName(j, n) # NoName
      PROVE  j \in st .. (k - 1)
    <2>1. Archive[j] # path  BY <1>1, <1>5, NameFacts
    <2>2. j \in Nat /\ 1 <= j /\ j <= Len(Archive)  BY ArchiveFacts DEF Pos
    <2>3. st <= j
        <3>1. CASE path = RootPath  BY <2>2, <3>1, StartFacts
        <3>2. CASE path # RootPath  BY <1>2, <1>5, <2>1, <2>2, <3>2, StartFacts
        <3>3. QED  BY <3>1, <3>2
    <2>4. ASSUME k <= j PROVE FALSE
        <3>1. k \in Pos  BY <1>2, <2>2, <2>4, ArchiveFacts DEF Pos
        <3>2. CASE path = RootPath
            <4>1. contains(k, path)
                <5>1. Len(path) = 0  BY <3>2 DEF RootPath
                <5>2. Len(path) <= Len(Archive[k]) /\ 1 .. Len(path) = {}
                    BY <3>1, <5>1, ArchiveFacts
                <5>3. QED  BY <1>1, <3>1, <5>2, ContainsFacts
            <4>2. Archive[k] = << >>  BY <3>1, <3>2, <4>1 DEF RootPath
            <4>3. Archive[j] = << >>  BY <2>4, <3>1, <4>2, DirsAssumption
            <4>4. QED  BY <2>1, <3>2, <4>3 DEF RootPath
        <3>3. CASE path # RootPath
            <4>1. st - 1 \in Pos /\ contains(st - 1, path)  BY <3>3, StartFacts
            <4>2. st - 1 <= k  BY <1>2
            <4>3. contains(k, path)  BY <1>1, <1>5, <2>4, <3>1, <4>1, <4>2, Between
            <4>4. k = st - 1  BY <3>1, <3>3, <4>3, StartFacts
            <4>5. QED  BY <1>2, <4>4
        <3>4. QED  BY <3>2, <3>3
    <2>5. QED  BY <1>2, <2>2, <2>3, <2>4
<1>6. Children(path) \subseteq NamesUpTo(path, k)
    BY <1>5, ChildrenFacts DEF NamesUpTo
<1>7. QED  BY <1>4, <1>6 DEF Passed, AllNames

\* Before a name that is not empty, ls has printed no empty name of the root.
LEMMA LinesBefore ==
    ASSUME NEW path, NEW pos, NEW k \in Printed(path), k < pos, pos \in Nat,
           path = RootPath => fetchName(k, Len(path)) # NoName
    PROVE  {j \in Printed(path) : j < k} = Shows(path, k)
<1>1. k \in Pos /\ Printed(path) \subseteq Pos  BY PrintedFinite
<1>2. ASSUME path = RootPath, NEW j \in Printed(path), j < k,
             fetchName(j, Len(path)) = NoName
      PROVE  FALSE
    <2>1. RootPath \in Seq(STRING)  BY EmptySeq DEF RootPath
    <2>2. j \in Pos /\ contains(j, RootPath) /\ contains(k, RootPath)
        BY <1>1, InRoot
    <2>3. Archive[j] = RootPath  BY <1>2, <2>1, <2>2, NameFacts
    <2>4. j <= k  BY <1>1, <1>2, <2>2, ArchiveFacts
    <2>5. Archive[k] = RootPath  BY <1>1, <2>2, <2>3, <2>4, DirsAssumption DEF RootPath
    <2>6. QED  BY <1>1, <1>2, <2>1, <2>2, <2>5, NameFacts
<1>3. QED  BY <1>2 DEF Shows

LEMMA ShowsFinite ==
    ASSUME NEW path, NEW pos
    PROVE  /\ IsFiniteSet(Shows(path, pos)) /\ Cardinality(Shows(path, pos)) \in Nat
           /\ Shows(path, pos) \subseteq Printed(path)
<1>1. Shows(path, pos) \in SUBSET Printed(path)  BY DEF Shows
<1>2. IsFiniteSet(Printed(path))  BY PrintedFinite
<1>3. QED  BY <1>1, <1>2, FS_Subset, FS_CardinalityType

\* Headers with the name returned last add no line.
LEMMA SkipsOrdered ==
    ASSUME NEW path, Opens(path), NEW pos, NEW prev, NEW range,
           Passed(path, pos, prev, range),
           NEW k \in pos .. (Len(Archive) + 1),
           \A j \in pos .. (k - 1) :
                contains(j, path) /\ fetchName(j, Len(path)) = prev
    PROVE  Shows(path, k) = Shows(path, pos)
<1>1. path \in Seq(STRING)  BY PathFacts
<1>2. PICK st : st = StartPos(path)  OBVIOUS
<1>3. /\ st \in Nat /\ pos \in Nat /\ k \in Nat /\ 1 <= st /\ st <= pos /\ pos <= k
      /\ k <= Len(Archive) + 1 /\ Len(Archive) \in Nat
    BY <1>2, StartFacts, ArchiveFacts DEF Passed
<1>4. ASSUME NEW j \in Shows(path, k), ~ (j < pos) PROVE FALSE
    <2>1. /\ j \in Printed(path) /\ j \in Pos /\ j \in Nat /\ j < k
          /\ path = RootPath => fetchName(j, Len(path)) # NoName
        BY PrintedFinite, ArchiveFacts DEF Shows
    <2>2. j \in pos .. (k - 1) /\ j >= st  BY <1>3, <1>4, <2>1
    <2>3. contains(j, path) /\ fetchName(j, Len(path)) = prev  BY <2>2
    <2>4. fetchName(j, Len(path)) # NoName
        <3>1. CASE path = RootPath  BY <2>1, <3>1
        <3>2. CASE path # RootPath
            <4>1. j # StartPos(path) - 1  BY <1>2, <1>3, <2>1, <2>2
            <4>2. QED  BY <2>1, <3>2, <4>1, PrintsSelf
        <3>3. QED  BY <3>1, <3>2
    <2>5. fetchName(j, Len(path)) # Dot  BY <1>1, <2>1, <2>3, NameFacts
    <2>6. ~ (j > st /\ fetchName(j - 1, Len(path)) = prev)
        BY <1>2, <2>1, <2>2, <2>3, <2>4, PrintsName
    <2>7. j = st
        <3> SUFFICES ASSUME j # st PROVE FALSE  OBVIOUS
        <3>1. j > st  BY <1>3, <2>1, <2>2
        <3>2. CASE j = pos
            <4>1. prev = fetchName(pos - 1, Len(path))  BY <1>2, <3>1, <3>2 DEF Passed
            <4>2. QED  BY <2>6, <3>1, <3>2, <4>1
        <3>3. CASE j # pos
            <4>1. j - 1 \in pos .. (k - 1)  BY <1>3, <2>1, <2>2, <3>3
            <4>2. fetchName(j - 1, Len(path)) = prev  BY <4>1
            <4>3. QED  BY <2>6, <3>1, <4>2
        <3>4. QED  BY <3>2, <3>3
    <2>8. ~ (pos > st)  BY <1>3, <2>1, <2>2, <2>7
    <2>9. prev = NoName \/ prev = Dot  BY <1>2, <2>8 DEF Passed
    <2>10. QED  BY <2>3, <2>4, <2>5, <2>9
<1>5. ASSUME NEW j \in Printed(path), j < pos PROVE j < k
    <2>1. j \in Nat  BY PrintedFinite
    <2>2. QED  BY <1>3, <1>5, <2>1
<1>6. QED  BY <1>4, <1>5 DEF Shows

\* A new name is returned when ls prints one.
LEMMA AppendsOrdered ==
    ASSUME NEW path, Opens(path), NEW k \in Pos, NEW prev, NEW range,
           Passed(path, k, prev, range), contains(k, path),
           fetchName(k, Len(path)) # prev, fetchName(k, Len(path)) # NoName,
           NEW S, NEW names \in Seq(S), fetchName(k, Len(path)) \in S,
           Ordered(path, k, names)
    PROVE  Ordered(path, k + 1, Append(names, fetchName(k, Len(path))))
<1> DEFINE name == fetchName(k, Len(path))
           longer == Append(names, name)
<1>1. k \in Nat /\ k >= StartPos(path)  BY ArchiveFacts DEF Passed
<1>2. k \in Printed(path)  BY <1>1, PrintsName DEF Passed
<1>3. Printed(path) \subseteq Nat /\ IsFiniteSet(Printed(path))  BY PrintedFinite
<1>4. Shows(path, k + 1) = Shows(path, k) \cup {k}
    <2>1. \A j \in Printed(path) : j < k + 1 <=> j < k \/ j = k  BY <1>1, <1>3
    <2>2. QED  BY <1>2, <2>1 DEF Shows
<1>5. k \notin Shows(path, k)  BY <1>1 DEF Shows
<1>6. Cardinality(Shows(path, k + 1)) = Cardinality(Shows(path, k)) + 1
    BY <1>4, <1>5, ShowsFinite, FS_AddElement
<1>7. Len(names) = Cardinality(Shows(path, k)) /\ Len(names) \in Nat
    BY ShowsFinite DEF Ordered
<1>8. /\ Len(longer) = Len(names) + 1 /\ longer[Len(names) + 1] = name
      /\ \A i \in 1 .. Len(names) : longer[i] = names[i]
    BY AppendProperties
<1>9. Line(path, k) = Len(names) + 1
    <2>1. k < k + 1 /\ k + 1 \in Nat  BY <1>1
    <2>2. {j \in Printed(path) : j < k} = Shows(path, k)  BY <1>2, <2>1, LinesBefore
    <2>3. QED  BY <1>7, <2>2 DEF Line
<1>10. ASSUME NEW j \in Shows(path, k) PROVE Line(path, j) \in 1 .. Len(names)
    <2>1. j \in Printed(path) /\ j < k  BY DEF Shows
    <2>2. PICK a, b : /\ a = Cardinality({z \in Printed(path) : z < j})
                      /\ b = Cardinality({z \in Printed(path) : z < k})
        OBVIOUS
    <2>3. a \in Nat /\ b \in Nat /\ a < b  BY <1>2, <1>3, <2>1, <2>2, RankOrder
    <2>4. b + 1 = Len(names) + 1 /\ Line(path, j) = a + 1  BY <1>9, <2>2 DEF Line
    <2>5. QED  BY <1>7, <2>3, <2>4
<1> HIDE DEF longer, name
<1>11. ASSUME NEW j \in Shows(path, k + 1)
       PROVE  longer[Line(path, j)] = IF fetchName(j, Len(path)) = NoName THEN Dot
                                      ELSE fetchName(j, Len(path))
    <2>1. CASE j \in Shows(path, k)
        BY <1>8, <1>10, <2>1 DEF Ordered
    <2>2. CASE j = k  BY <1>8, <1>9, <2>2 DEF name
    <2>3. QED  BY <1>4, <2>1, <2>2
<1>12. QED  BY <1>6, <1>7, <1>8, <1>11 DEF Ordered, longer, name

LEMMA LeastOf ==
    ASSUME NEW T, T \subseteq Nat, T # {}
    PROVE  Min(T) \in T /\ \A x \in T : Min(T) <= x
<1>1. \E x \in T : \A y \in T : x <= y  BY NatLeast
<1>2. QED  BY <1>1 DEF Min

\* Where the loop of getFileName stops.
LEMMA Stops ==
    ASSUME NEW d, d.curPos \in 1 .. (Len(Archive) + 1)
    PROVE  \E k \in d.curPos .. (Len(Archive) + 1) :
            /\ k = IF StopsAt(d) = {} THEN Len(Archive) + 1 ELSE Min(StopsAt(d))
            /\ \A j \in d.curPos .. (k - 1) :
                 contains(j, d.dirPath) /\ fetchName(j, Len(d.dirPath)) = d.prevFile
            /\ k \in Pos => \/ ~ contains(k, d.dirPath)
                            \/ fetchName(k, Len(d.dirPath)) # d.prevFile
<1> DEFINE T == StopsAt(d)
           L == Len(Archive)
<1>1. L \in Nat /\ Pos = 1 .. L  BY ArchiveFacts DEF Pos
<1>2. \A j \in Pos : j >= d.curPos /\ j \notin T =>
            contains(j, d.dirPath) /\ fetchName(j, Len(d.dirPath)) = d.prevFile
    BY DEF StopsAt
<1>3. \A j \in T : /\ j \in Pos /\ j >= d.curPos
                   /\ \/ ~ contains(j, d.dirPath)
                      \/ fetchName(j, Len(d.dirPath)) # d.prevFile
    BY DEF StopsAt
<1> HIDE DEF T, L
<1>4. PICK c : c = d.curPos  OBVIOUS
<1>5. c \in Nat /\ 1 <= c /\ c <= L + 1  BY <1>1, <1>4 DEF L
<1>6. CASE T = {}
    <2>1. L + 1 \notin Pos /\ L + 1 \in c .. (L + 1)  BY <1>1, <1>5
    <2>2. \A j \in c .. (L + 1 - 1) : j \in Pos /\ j >= c  BY <1>1, <1>5
    <2>3. QED  BY <1>2, <1>4, <1>6, <2>1, <2>2 DEF T, L
<1>7. CASE T # {}
    <2>1. PICK k : k = Min(T)  OBVIOUS
    <2>2. T \subseteq Nat  BY <1>3, ArchiveFacts
    <2>3. k \in T /\ \A x \in T : k <= x  BY <1>7, <2>1, <2>2, LeastOf
    <2>4. k \in c .. (L + 1)  BY <1>1, <1>3, <1>4, <1>5, <2>3
    <2>5. \A j \in c .. (k - 1) : j \in Pos /\ j >= c /\ j \notin T
        BY <1>1, <1>5, <2>3, <2>4
    <2>6. QED  BY <1>2, <1>3, <1>4, <1>7, <2>1, <2>3, <2>4, <2>5 DEF T, L
<1>8. QED  BY <1>6, <1>7
\* Progress after a name is returned, or none.
LEMMA Appended ==
    ASSUME NEW names, NEW S, names \in Seq(S), IsInjective(names),
           NEW name \in S, name \notin Range(names)
    PROVE  /\ Append(names, name) \in Seq(S)
           /\ IsInjective(Append(names, name))
           /\ Range(Append(names, name)) = Range(names) \cup {name}
<1> DEFINE longer == Append(names, name)
           n == Len(names)
<1>1. n \in Nat /\ DOMAIN names = 1 .. n  BY LenProperties
<1>2. /\ longer \in Seq(S) /\ Len(longer) = n + 1 /\ longer[n + 1] = name
      /\ \A i \in 1 .. n : longer[i] = names[i]
    BY AppendProperties
<1>3. DOMAIN longer = 1 .. (n + 1)  BY <1>2, LenProperties
<1> HIDE DEF longer, n
<1>4. \A i \in 1 .. (n + 1) : i \in 1 .. n \/ i = n + 1  BY <1>1
<1>5. \A i \in 1 .. n : i \in 1 .. (n + 1)  BY <1>1
<1>6. n + 1 \in 1 .. (n + 1)  BY <1>1
<1>7. Range(longer) = Range(names) \cup {name}
    BY <1>1, <1>2, <1>3, <1>4, <1>5, <1>6 DEF Range
<1>8. \A i \in 1 .. n : names[i] # name  BY <1>1 DEF Range
<1>9. IsInjective(longer)
    BY <1>1, <1>2, <1>3, <1>4, <1>8 DEF IsInjective
<1>10. QED  BY <1>2, <1>7, <1>9 DEF longer

\* One call of getFileName.
LEMMA ReadStep ==
    ASSUME NEW d, NEW s, Progress(d, s), d.eofDirectory # 1,
           NEW r, r = getFileName(d),
           NEW t, t = IF r.name = NoName THEN [s EXCEPT !.ended = TRUE]
                      ELSE [s EXCEPT !.names = Append(s.names, r.name)]
    PROVE  Progress(r.dir, t) /\ r.dir.fd = d.fd
<1> DEFINE path == d.dirPath
<1>1. Opens(path) /\ path \in Seq(STRING)  BY PathFacts DEF Progress
<1>2. DOMAIN d = {"fd", "dirPath", "curPos", "eofDirectory", "prevFile"}
    BY DEF Progress, NullDir
<1>3. DOMAIN s = {"names", "ended"}  BY DEF Progress, NothingSeen
<1>4. DOMAIN NullDir = {"fd", "dirPath", "curPos", "eofDirectory", "prevFile"}
      /\ DOMAIN NothingSeen = {"names", "ended"}
    BY DEF NullDir, NothingSeen
<1>5. NoName # Dot  BY Zenon DEF NoName, Dot
<1>6. CASE d.dirPath # RootPath /\ d.prevFile = NoName
    <2>1. /\ d.curPos = StartPos(path) /\ s.names = << >> /\ ~ s.ended
          /\ d.eofDirectory = 0
        BY <1>6 DEF Progress
    <2>2. r = [name |-> Dot, dir |-> [d EXCEPT !.prevFile = Dot]]
        BY <1>6 DEF getFileName
    <2>3. r.name = Dot /\ r.dir = [d EXCEPT !.prevFile = Dot]  BY <2>2
    <2>4. t = [s EXCEPT !.names = Append(s.names, Dot)]  BY <1>5, <2>3
    <2>5. /\ DOMAIN t = DOMAIN s /\ t.names = Append(s.names, Dot) /\ t.ended = s.ended
        BY <1>3, <2>4
    <2>6. /\ DOMAIN r.dir = DOMAIN d /\ r.dir.dirPath = path /\ r.dir.curPos = d.curPos
          /\ r.dir.prevFile = Dot /\ r.dir.eofDirectory = 0 /\ r.dir.fd = d.fd
        BY <1>2, <2>1, <2>3
    <2>7. Dot \in AllNames(path) /\ Dots(path) = {Dot}
        BY <1>6 DEF AllNames, Dots
    <2>8. Range(s.names) = {}  BY <2>1 DEF Range
    <2>9. /\ t.names \in Seq(AllNames(path)) /\ IsInjective(t.names)
          /\ Range(t.names) = {Dot}
        <3>1. s.names \in Seq(AllNames(path)) /\ IsInjective(s.names)  BY DEF Progress
        <3>2. /\ Append(s.names, Dot) \in Seq(AllNames(path))
              /\ IsInjective(Append(s.names, Dot))
              /\ Range(Append(s.names, Dot)) = Range(s.names) \cup {Dot}
            BY <2>7, <2>8, <3>1, Appended
        <3>3. QED  BY <2>5, <2>8, <3>2
    <2>10. Passed(path, d.curPos, Dot, {Dot})
        <3>1. PICK st : st = StartPos(path)  OBVIOUS
        <3>2. st \in 1 .. (Len(Archive) + 1)  BY <1>1, <3>1, StartFacts
        <3>3. st .. (st - 1) = {} /\ st \in st .. (Len(Archive) + 1) /\ ~ (st > st)
            BY <3>2, ArchiveFacts
        <3>4. NamesUpTo(path, st) = {}  BY <3>1, <3>3 DEF NamesUpTo
        <3>5. QED  BY <1>6, <2>1, <2>7, <3>1, <3>3, <3>4 DEF Passed
    <2>11. Ordered(path, d.curPos, t.names)
        <3>1. PICK i : i = StartPos(path) - 1  OBVIOUS
        <3>2. /\ i \in Printed(path) /\ fetchName(i, Len(path)) = NoName
              /\ \A k \in Printed(path) : k >= i
            BY <1>1, <1>6, <3>1, PrintsSelf
        <3>3. Printed(path) \subseteq Nat /\ d.curPos \in Nat /\ i = d.curPos - 1
            BY <1>1, <2>1, <3>1, StartFacts, ArchiveFacts, PrintedFinite
        <3>4. \A k \in Printed(path) : k < d.curPos <=> k = i  BY <3>2, <3>3
        <3>5. Shows(path, d.curPos) = {i}  BY <1>6, <3>2, <3>4 DEF Shows
        <3>6. \A k \in Printed(path) : ~ (k < i)  BY <3>2, <3>3
        <3>7. {k \in Printed(path) : k < i} = {}  BY <3>6
        <3>8. Line(path, i) = 1  BY <3>7, FS_EmptySet DEF Line
        <3>9. Cardinality({i}) = 1  BY FS_Singleton
        <3>10. PICK names : names = t.names  OBVIOUS
        <3>11. Len(names) = 1 /\ names[1] = Dot
            <4>1. names = Append(<< >>, Dot)  BY <2>1, <2>5, <3>10
            <4>2. << >> \in Seq({Dot}) /\ Len(<< >>) = 0  BY EmptySeq
            <4>3. Len(Append(<< >>, Dot)) = 1 /\ Append(<< >>, Dot)[1] = Dot
                <5> HIDE DEF Dot
                <5>1. QED  BY <4>2, AppendProperties
            <4>4. QED  BY <4>1, <4>3
        <3> HIDE DEF path
        <3>12. Ordered(path, d.curPos, names)
            BY <3>2, <3>5, <3>8, <3>9, <3>11 DEF Ordered
        <3>13. QED  BY <3>10, <3>12
    <2> HIDE DEF path
    <2>12. QED
        BY <1>1, <1>2, <1>3, <1>4, <1>5, <2>1, <2>5, <2>6, <2>9, <2>10, <2>11 DEF Progress
<1>7. CASE ~ (d.dirPath # RootPath /\ d.prevFile = NoName)
    <2>1. Passed(path, d.curPos, d.prevFile, Range(s.names))  BY <1>7 DEF Progress
    <2>2. d.curPos \in 1 .. (Len(Archive) + 1)
        <3>1. d.curPos \in StartPos(path) .. (Len(Archive) + 1)  BY <2>1 DEF Passed
        <3>2. QED  BY <1>1, <3>1, StartFacts, ArchiveFacts
    <2>3. PICK k \in d.curPos .. (Len(Archive) + 1) :
            /\ k = IF StopsAt(d) = {} THEN Len(Archive) + 1 ELSE Min(StopsAt(d))
            /\ \A j \in d.curPos .. (k - 1) :
                 contains(j, path) /\ fetchName(j, Len(path)) = d.prevFile
            /\ k \in Pos => ~ contains(k, path) \/ fetchName(k, Len(path)) # d.prevFile
        BY <2>2, Stops
    <2>4. Passed(path, k, d.prevFile, Range(s.names))
        BY <1>1, <2>1, <2>3, Skips
    <2>5. Ordered(path, k, s.names)
        <3>1. Ordered(path, d.curPos, s.names)  BY <1>7 DEF Progress
        <3>2. Shows(path, k) = Shows(path, d.curPos)
            BY <1>1, <2>1, <2>3, SkipsOrdered
        <3>3. QED  BY <3>1, <3>2 DEF Ordered
    <2>6. r = IF k \in Pos /\ contains(k, path)
              THEN [name |-> fetchName(k, Len(path)),
                    dir |-> [d EXCEPT !.prevFile = fetchName(k, Len(path)),
                                      !.curPos = k + 1]]
              ELSE [name |-> NoName,
                    dir |-> [d EXCEPT !.curPos = k, !.eofDirectory = 1]]
        BY <1>7, <2>3 DEF getFileName
    <2>7. d.eofDirectory = 0  BY DEF Progress
    <2>8. CASE k \in Pos /\ contains(k, path)
        <3> DEFINE name == fetchName(k, Len(path))
        <3>1. r.name = name /\ r.dir = [d EXCEPT !.prevFile = name, !.curPos = k + 1]
            BY <2>6, <2>8
        <3>2. Passed(path, k + 1, name, Range(s.names) \cup ({name} \ {NoName}))
            BY <1>1, <2>4, <2>8, PassesOne
        <3>3. name # d.prevFile  BY <2>3, <2>8
        <3>4. name = NoName <=> Archive[k] = path  BY <1>1, <2>8, NameFacts
        <3>5. name # NoName => name \in AllNames(path) \ Range(s.names)
            BY <1>1, <2>4, <2>8, <3>3, NewName
        <3> HIDE DEF name
        <3>6. /\ DOMAIN r.dir = DOMAIN d /\ r.dir.dirPath = path /\ r.dir.curPos = k + 1
              /\ r.dir.prevFile = name /\ r.dir.eofDirectory = 0 /\ r.dir.fd = d.fd
            BY <1>2, <2>7, <3>1
        <3>7. CASE name = NoName
            <4>1. Range(s.names) = AllNames(path)  BY <1>1, <2>4, <3>4, <3>7, Complete
            <4>2. path = RootPath
                <5> SUFFICES ASSUME path # RootPath PROVE FALSE  OBVIOUS
                <5>1. k = StartPos(path) - 1  BY <1>1, <2>8, <3>4, <3>7, StartFacts
                <5>2. k >= StartPos(path)  BY <2>4 DEF Passed
                <5>3. StartPos(path) \in Nat  BY <1>1, StartFacts, ArchiveFacts
                <5>4. QED  BY <5>1, <5>2, <5>3
            <4>3. t = [s EXCEPT !.ended = TRUE]  BY <3>1, <3>7
            <4>4. DOMAIN t = DOMAIN s /\ t.names = s.names  BY <1>3, <4>3
            <4>5. Passed(path, k + 1, name, Range(s.names))
                <5>1. {name} \ {NoName} = {}  BY <3>7
                <5>2. Range(s.names) \cup ({name} \ {NoName}) = Range(s.names)  BY <5>1
                <5>3. QED  BY <3>2, <5>2
            <4>6. s.names \in Seq(AllNames(path)) /\ IsInjective(s.names)  BY DEF Progress
            <4>7. Ordered(path, k + 1, s.names)
                <5>1. \A j \in Printed(path) : j < k + 1 <=> j < k \/ j = k
                    BY <2>8, PrintedFinite, ArchiveFacts
                <5>2. Shows(path, k + 1) = Shows(path, k)
                    BY <3>7, <4>2, <5>1 DEF Shows, name
                <5>3. QED  BY <2>5, <5>2 DEF Ordered
            <4> HIDE DEF path
            <4>8. QED
                BY <1>1, <1>2, <1>3, <1>4, <3>6, <4>1, <4>2, <4>4, <4>5, <4>6, <4>7
                DEF Progress
        <3>8. CASE name # NoName
            <4>1. t = [s EXCEPT !.names = Append(s.names, name)]  BY <3>1, <3>8
            <4>2. DOMAIN t = DOMAIN s /\ t.names = Append(s.names, name) /\ t.ended = s.ended
                BY <1>3, <4>1
            <4>3. /\ t.names \in Seq(AllNames(path)) /\ IsInjective(t.names)
                  /\ Range(t.names) = Range(s.names) \cup {name}
                <5>1. s.names \in Seq(AllNames(path)) /\ IsInjective(s.names)
                    BY DEF Progress
                <5>2. /\ Append(s.names, name) \in Seq(AllNames(path))
                      /\ IsInjective(Append(s.names, name))
                      /\ Range(Append(s.names, name)) = Range(s.names) \cup {name}
                    BY <3>5, <3>8, <5>1, Appended
                <5>3. QED  BY <4>2, <5>2
            <4>4. Passed(path, k + 1, name, Range(t.names))
                <5>1. {name} \ {NoName} = {name}  BY <3>8
                <5>2. QED  BY <3>2, <4>3, <5>1
            <4>5. ~ s.ended  BY <3>5, <3>8 DEF Progress
            <4>6. Ordered(path, k + 1, t.names)
                <5>1. s.names \in Seq(AllNames(path)) /\ name \in AllNames(path)
                    BY <3>5, <3>8 DEF Progress
                <5>2. Ordered(path, k + 1, Append(s.names, name))
                    BY <1>1, <2>4, <2>8, <2>5, <3>3, <3>8, <5>1, AppendsOrdered DEF name
                <5>3. QED  BY <4>2, <5>2
            <4> HIDE DEF path
            <4>7. QED
                BY <1>1, <1>2, <1>3, <1>4, <3>6, <3>8, <4>2, <4>3, <4>4, <4>5, <4>6
                DEF Progress
        <3>9. QED  BY <3>7, <3>8
    <2>9. CASE ~ (k \in Pos /\ contains(k, path))
        <3>1. r.name = NoName /\ r.dir = [d EXCEPT !.curPos = k, !.eofDirectory = 1]
            BY <2>6, <2>9
        <3>2. Range(s.names) = AllNames(path)  BY <1>1, <2>4, <2>9, Complete
        <3>3. t = [s EXCEPT !.ended = TRUE]  BY <3>1
        <3>4. DOMAIN t = DOMAIN s /\ t.names = s.names  BY <1>3, <3>3
        <3>5. /\ DOMAIN r.dir = DOMAIN d /\ r.dir.dirPath = path /\ r.dir.curPos = k
              /\ r.dir.prevFile = d.prevFile /\ r.dir.eofDirectory = 1 /\ r.dir.fd = d.fd
            BY <1>2, <3>1
        <3>6. s.names \in Seq(AllNames(path)) /\ IsInjective(s.names)  BY DEF Progress
        <3>7. path # RootPath => d.prevFile # NoName  BY <1>7
        <3> HIDE DEF path
        <3>8. QED
            BY <1>1, <1>2, <1>3, <1>4, <2>4, <2>5, <3>2, <3>4, <3>5, <3>6, <3>7
            DEF Progress
    <2>10. QED  BY <2>8, <2>9
<1>8. QED  BY <1>6, <1>7
-----------------------------------------------------------------------------
(* The tables.                                                             *)

\* Each variable has an entry for every process.
Shape ==
    /\ live \subseteq Procs
    /\ dirDesc \subseteq DirFd
    /\ DOMAIN dirIntArr = DirFd
    /\ open_directories \in [Procs -> SUBSET DirFd]
    /\ own \in [Procs -> SUBSET Handles]
    /\ DOMAIN dir = Procs /\ DOMAIN seen = Procs
    /\ \A p \in Procs : DOMAIN dir[p] = Handles /\ DOMAIN seen[p] = Handles
    /\ \A p \in Procs \ live : own[p] = {}

\* What process p has open in h is in use, has its own end-of-directory mark,
\* and has been read as far as its record says.
Reads(p, h) ==
    LET d == dir[p][h] IN
    /\ d.fd \in open_directories[p] \cap dirDesc
    /\ dirIntArr[d.fd] = d.eofDirectory
    /\ Progress(d, seen[p][h])

\* No two handles in use have the same descriptor.
Apart ==
    \A p, q \in Procs : \A h \in own[p], g \in own[q] :
        dir[p][h].fd = dir[q][g].fd => p = q /\ h = g

\* The inductive invariant.
DirsInv == Shape /\ Apart /\ \A p \in Procs : \A h \in own[p] : Reads(p, h)

LEMMA DirsInit == Init => DirsInv
<1> SUFFICES ASSUME Init PROVE DirsInv  OBVIOUS
<1>1. \A p \in Procs : own[p] = {}  BY DEF Init
<1>2. Shape  BY <1>1, DirsAssumption DEF Init, Shape
<1>3. QED  BY <1>1, <1>2 DEF DirsInv, Apart

\* A descriptor is opened: one that no process uses.
LEMMA OpendirInv ==
    ASSUME DirsInv, NEW p \in Procs, NEW h \in Handles, NEW path, Opendir(p, h, path)
    PROVE  DirsInv'
<1> DEFINE new == [fd |-> Min(FreeDirs(p)), dirPath |-> path, curPos |-> StartPos(path),
                   eofDirectory |-> 0, prevFile |-> NoName]
<1>1. PICK i : i = Min(FreeDirs(p))  OBVIOUS
<1>2. i \in DirFd /\ i \notin dirDesc
    <2>1. FreeDirs(p) \subseteq DirFd /\ FreeDirs(p) # {} /\ FreeDirs(p) \cap dirDesc = {}
        BY DEF FreeDirs, Opendir
    <2>2. DirFd \subseteq Nat  BY DirsAssumption DEF DirFd, FirstDir
    <2>3. FreeDirs(p) \subseteq Nat  BY <2>1, <2>2
    <2>4. i \in FreeDirs(p)  BY <1>1, <2>1, <2>3, LeastOf
    <2>5. QED  BY <2>1, <2>4
<1>3. /\ dirDesc' = dirDesc \cup {i} /\ dirIntArr' = [dirIntArr EXCEPT ![i] = 0]
      /\ open_directories' = [open_directories EXCEPT ![p] = open_directories[p] \cup {i}]
      /\ dir' = [dir EXCEPT ![p] = [dir[p] EXCEPT ![h] = new]]
      /\ own' = [own EXCEPT ![p] = own[p] \cup {h}]
      /\ seen' = [seen EXCEPT ![p] = [seen[p] EXCEPT ![h] = NothingSeen]]
      /\ live' = live /\ p \in live /\ h \notin own[p]
    BY <1>1 DEF Opendir
<1>4. Opens(path)  BY DEF Opendir, IsDirectory, Opens
<1>5. new.fd = i /\ new.eofDirectory = 0  BY <1>1
<1>6. Progress(new, NothingSeen)
    <2>1. /\ new.dirPath = path /\ new.curPos = StartPos(path) /\ new.prevFile = NoName
          /\ DOMAIN new = DOMAIN NullDir
        BY DEF NullDir
    <2>2. NothingSeen.names = << >> /\ NothingSeen.ended = FALSE  BY DEF NothingSeen
    <2>3. /\ << >> \in Seq(AllNames(path)) /\ IsInjective(<< >>) /\ Range(<< >>) = {}
        BY EmptySeq DEF IsInjective, Range
    <2>4. path = RootPath => Passed(path, StartPos(path), NoName, {})
        <3>1. PICK st : st = StartPos(path)  OBVIOUS
        <3>2. st \in 1 .. (Len(Archive) + 1)  BY <1>4, <3>1, StartFacts
        <3>3. st .. (st - 1) = {} /\ st \in st .. (Len(Archive) + 1) /\ ~ (st > st)
            BY <3>2, ArchiveFacts
        <3>4. NamesUpTo(path, st) = {}  BY <3>1, <3>3 DEF NamesUpTo
        <3>5. QED  BY <3>1, <3>3, <3>4 DEF Passed, Dots
    <2>5. path = RootPath => Ordered(path, StartPos(path), << >>)
        <3> SUFFICES ASSUME path = RootPath PROVE Ordered(path, StartPos(path), << >>)
            OBVIOUS
        <3>1. StartPos(path) = 1  BY <1>4, StartFacts
        <3>2. \A k \in Printed(path) : ~ (k < 1)
            BY PrintedFinite, ArchiveFacts DEF Pos
        <3>3. Shows(path, StartPos(path)) = {}  BY <3>1, <3>2 DEF Shows
        <3>4. Len(<< >>) = 0 /\ Cardinality({}) = 0  BY FS_EmptySet
        <3>5. QED  BY <3>3, <3>4 DEF Ordered
    <2> HIDE DEF new
    <2>6. PICK x, y, z : x = new.dirPath /\ y = NothingSeen.names /\ z = new.curPos
        OBVIOUS
    <2>7. x = path /\ y = << >> /\ z = StartPos(x)  BY <2>1, <2>2, <2>6
    <2>8. \/ x # RootPath /\ new.prevFile = NoName /\ z = StartPos(x) /\ y = << >>
             /\ ~ NothingSeen.ended /\ new.eofDirectory = 0
          \/ (x # RootPath => new.prevFile # NoName)
             /\ Passed(x, z, new.prevFile, Range(y)) /\ Ordered(x, z, y)
        BY <1>5, <2>1, <2>2, <2>3, <2>4, <2>7, <2>5
    <2>9. Opens(x) /\ y \in Seq(AllNames(x)) /\ IsInjective(y)
        BY <1>4, <2>3, <2>7
    <2>10. QED  BY <1>5, <2>1, <2>2, <2>6, <2>8, <2>9 DEF Progress
<1> HIDE DEF new
<1>7. Shape'  BY <1>2, <1>3 DEF DirsInv, Shape
<1>8. dir'[p][h] = new /\ seen'[p][h] = NothingSeen /\ own'[p] = own[p] \cup {h}
    BY <1>3 DEF DirsInv, Shape
<1>9. ASSUME NEW q \in Procs, NEW g \in own'[q], ~ (q = p /\ g = h)
      PROVE  /\ g \in own[q] /\ dir'[q][g] = dir[q][g] /\ seen'[q][g] = seen[q][g]
             /\ dir[q][g].fd # i
    <2>1. g \in own[q] /\ g \in Handles  BY <1>3, <1>9 DEF DirsInv, Shape
    <2>2. dir'[q][g] = dir[q][g] /\ seen'[q][g] = seen[q][g]
        BY <1>3, <1>9, <2>1 DEF DirsInv, Shape
    <2>3. dir[q][g].fd \in dirDesc  BY <2>1 DEF DirsInv, Reads
    <2>4. QED  BY <1>2, <2>1, <2>2, <2>3
<1>10. ASSUME NEW q \in Procs, NEW g \in own'[q] PROVE Reads(q, g)'
    <2>1. CASE q = p /\ g = h
        <3>1. open_directories'[p] = open_directories[p] \cup {i} /\ dirIntArr'[i] = 0
            BY <1>2, <1>3 DEF DirsInv, Shape
        <3>2. QED  BY <1>3, <1>5, <1>6, <1>8, <2>1, <3>1 DEF Reads
    <2>2. CASE ~ (q = p /\ g = h)
        <3>1. /\ g \in own[q] /\ dir'[q][g] = dir[q][g] /\ seen'[q][g] = seen[q][g]
              /\ dir[q][g].fd # i
            BY <1>9, <2>2
        <3>2. Reads(q, g)  BY <3>1 DEF DirsInv
        <3>3. /\ dirIntArr'[dir[q][g].fd] = dirIntArr[dir[q][g].fd]
              /\ open_directories[q] \subseteq open_directories'[q]
            BY <1>3, <3>1, <3>2 DEF DirsInv, Shape, Reads
        <3>4. QED  BY <1>3, <3>1, <3>2, <3>3 DEF Reads
    <2>3. QED  BY <2>1, <2>2
<1>11. Apart'
    <2> SUFFICES ASSUME NEW q \in Procs, NEW u \in Procs,
                        NEW g \in own'[q], NEW f \in own'[u],
                        dir'[q][g].fd = dir'[u][f].fd
                 PROVE  q = u /\ g = f
        BY DEF Apart
    <2>1. QED  BY <1>5, <1>8, <1>9 DEF DirsInv, Apart
<1>12. QED  BY <1>7, <1>10, <1>11 DEF DirsInv

\* A step that changes records, but none of a directory that stays open, and
\* closes some.
LEMMA OthersInv ==
    ASSUME DirsInv, Shape',
           \A q \in Procs : own'[q] \subseteq own[q],
           \A q \in Procs : \A g \in own'[q] :
                /\ dir'[q][g] = dir[q][g]
                /\ Progress(dir[q][g], seen[q][g]) => Progress(dir[q][g], seen'[q][g])
                /\ dir[q][g].fd \in dirDesc'
                /\ dirIntArr'[dir[q][g].fd] = dirIntArr[dir[q][g].fd]
                /\ open_directories'[q] = open_directories[q]
    PROVE  DirsInv'
<1>1. ASSUME NEW q \in Procs, NEW g \in own'[q] PROVE Reads(q, g)'
    <2>1. Reads(q, g)  BY DEF DirsInv
    <2>2. QED  BY <2>1 DEF Reads
<1>2. Apart'  BY DEF DirsInv, Apart
<1>3. QED  BY <1>1, <1>2 DEF DirsInv
\* A disciplined program reads a directory it has open.
LEMMA ReaddirInv ==
    ASSUME Disciplined, DirsInv, NEW p \in Procs, NEW h \in Handles, Readdir(p, h)
    PROVE  DirsInv'
<1> DEFINE d == dir[p][h]
           s == seen[p][h]
<1>1. h \in own[p] /\ p \in live  BY DEF Readdir, Uses
<1>2. Reads(p, h)  BY <1>1 DEF DirsInv
<1>3. d.eofDirectory # 1  BY DEF Readdir, Refused
<1>4. PICK r : r = getFileName(d)  OBVIOUS
<1>5. PICK t : t = IF r.name = NoName THEN [s EXCEPT !.ended = TRUE]
                   ELSE [s EXCEPT !.names = Append(s.names, r.name)]
    OBVIOUS
<1>6. Progress(r.dir, t) /\ r.dir.fd = d.fd
    BY <1>2, <1>3, <1>4, <1>5, ReadStep DEF Reads
<1>7. /\ dir' = [dir EXCEPT ![p] = [dir[p] EXCEPT ![h] = r.dir]]
      /\ seen' = [seen EXCEPT ![p] = [seen[p] EXCEPT ![h] = t]]
      /\ dirIntArr' = [dirIntArr EXCEPT ![d.fd] =
                        IF r.dir.eofDirectory = 1 THEN 1 ELSE dirIntArr[d.fd]]
      /\ UNCHANGED <<live, dirDesc, open_directories, own>>
    <2>1. seen' = [seen EXCEPT ![p] = [seen[p] EXCEPT ![h] =
                    IF r.name = NoName THEN [s EXCEPT !.ended = TRUE]
                    ELSE [s EXCEPT !.names = Append(s.names, r.name)]]]
        BY <1>4 DEF Readdir
    <2>2. seen' = [seen EXCEPT ![p] = [seen[p] EXCEPT ![h] = t]]  BY <1>5, <2>1
    <2>3. dir' = [dir EXCEPT ![p] = [dir[p] EXCEPT ![h] = r.dir]]  BY <1>4 DEF Readdir
    <2>4. QED  BY <1>4, <2>2, <2>3 DEF Readdir
<1>8. Shape'  BY <1>7 DEF DirsInv, Shape
<1>9. dir'[p][h] = r.dir /\ seen'[p][h] = t  BY <1>7 DEF DirsInv, Shape
<1>10. ASSUME NEW q \in Procs, NEW g \in own[q], ~ (q = p /\ g = h)
       PROVE  /\ dir'[q][g] = dir[q][g] /\ seen'[q][g] = seen[q][g]
              /\ dir[q][g].fd # d.fd
    <2>1. g \in Handles  BY DEF DirsInv, Shape
    <2>2. dir'[q][g] = dir[q][g] /\ seen'[q][g] = seen[q][g]
        BY <1>7, <1>10, <2>1 DEF DirsInv, Shape
    <2>3. dir[q][g].fd # d.fd  BY <1>1, <1>10 DEF DirsInv, Apart
    <2>4. QED  BY <2>2, <2>3
<1>11. ASSUME NEW q \in Procs, NEW g \in own[q] PROVE Reads(q, g)'
    <2>1. CASE q = p /\ g = h
        <3>1. d.fd \in DirFd /\ d.eofDirectory = 0 /\ dirIntArr[d.fd] = 0
            BY <1>2, <1>3 DEF Reads, Progress, DirsInv, Shape
        <3>2. r.dir.eofDirectory \in {0, 1}  BY <1>6 DEF Progress
        <3>3. dirIntArr'[d.fd] = r.dir.eofDirectory
            BY <1>7, <3>1, <3>2 DEF DirsInv, Shape
        <3>4. QED  BY <1>2, <1>6, <1>7, <1>9, <2>1, <3>3 DEF Reads
    <2>2. CASE ~ (q = p /\ g = h)
        <3>1. /\ dir'[q][g] = dir[q][g] /\ seen'[q][g] = seen[q][g]
              /\ dir[q][g].fd # d.fd
            BY <1>10, <2>2
        <3>2. Reads(q, g)  BY DEF DirsInv
        <3>3. dirIntArr'[dir[q][g].fd] = dirIntArr[dir[q][g].fd]
            BY <1>7, <3>1, <3>2 DEF DirsInv, Shape, Reads
        <3>4. QED  BY <1>7, <3>1, <3>2, <3>3 DEF Reads
    <2>3. QED  BY <2>1, <2>2
<1>12. \A q \in Procs : \A g \in own[q] : dir'[q][g].fd = dir[q][g].fd
    BY <1>6, <1>9, <1>10
<1>13. Apart'  BY <1>7, <1>12 DEF DirsInv, Apart
<1>14. QED  BY <1>7, <1>8, <1>11, <1>13 DEF DirsInv

LEMMA ReaddirNullInv ==
    ASSUME Disciplined, DirsInv, NEW p \in Procs, NEW h \in Handles, ReaddirNull(p, h)
    PROVE  DirsInv'
<1> DEFINE d == dir[p][h]
           s == seen[p][h]
<1>1. h \in own[p]  BY DEF ReaddirNull, Uses
<1>2. Reads(p, h)  BY <1>1 DEF DirsInv
<1>3. d.eofDirectory = 1  BY <1>2 DEF ReaddirNull, Refused, Reads
<1>4. /\ seen' = [seen EXCEPT ![p] = [seen[p] EXCEPT ![h] = [s EXCEPT !.ended = TRUE]]]
      /\ UNCHANGED <<live, dirDesc, dirIntArr, open_directories, dir, own>>
    BY DEF ReaddirNull
<1>5. Shape'  BY <1>4 DEF DirsInv, Shape
<1>6. PICK t : t = [s EXCEPT !.ended = TRUE]  OBVIOUS
<1>7. Progress(d, t)
    <2>1. Progress(d, s)  BY <1>2 DEF Reads
    <2>2. DOMAIN s = {"names", "ended"}  BY <2>1 DEF Progress, NothingSeen
    <2>3. DOMAIN t = DOMAIN s /\ t.names = s.names  BY <1>6, <2>2
    <2> HIDE DEF d, s
    <2>4. QED  BY <1>3, <2>1, <2>3 DEF Progress
<1>8. ASSUME NEW q \in Procs, NEW g \in own[q],
             Progress(dir[q][g], seen[q][g])
      PROVE  Progress(dir[q][g], seen'[q][g])
    <2>1. g \in Handles  BY DEF DirsInv, Shape
    <2>2. CASE q = p /\ g = h
        <3>1. seen'[q][g] = t  BY <1>4, <1>6, <2>2 DEF DirsInv, Shape
        <3>2. QED  BY <1>7, <2>2, <3>1
    <2>3. CASE ~ (q = p /\ g = h)
        <3>1. seen'[q][g] = seen[q][g]  BY <1>4, <2>1, <2>3 DEF DirsInv, Shape
        <3>2. QED  BY <1>8, <3>1
    <2>4. QED  BY <2>2, <2>3
<1>9. \A q \in Procs : \A g \in own[q] : dir[q][g].fd \in dirDesc
    BY DEF DirsInv, Reads
<1>10. QED  BY <1>4, <1>5, <1>8, <1>9, OthersInv

\* Closing a directory frees a descriptor nobody else has open.
LEMMA ClosedirInv ==
    ASSUME Disciplined, DirsInv, NEW p \in Procs, NEW h \in Handles, Closedir(p, h)
    PROVE  DirsInv'
<1>1. h \in own[p]  BY DEF Closedir, Uses
<1>2. /\ dirDesc' = dirDesc \ {dir[p][h].fd}
      /\ own' = [own EXCEPT ![p] = own[p] \ {h}]
      /\ seen' = [seen EXCEPT ![p] = [seen[p] EXCEPT ![h] = NothingSeen]]
      /\ UNCHANGED <<live, dirIntArr, open_directories, dir>>
    BY DEF Closedir
<1>3. Shape'  BY <1>2 DEF DirsInv, Shape
<1>4. ASSUME NEW q \in Procs, NEW g \in own'[q]
      PROVE  /\ g \in own[q] /\ seen'[q][g] = seen[q][g] /\ dir[q][g].fd \in dirDesc'
    <2>1. g \in own[q] /\ g \in Handles /\ ~ (q = p /\ g = h)
        BY <1>2 DEF DirsInv, Shape
    <2>2. dir[q][g].fd # dir[p][h].fd  BY <1>1, <2>1 DEF DirsInv, Apart
    <2>3. dir[q][g].fd \in dirDesc  BY <2>1 DEF DirsInv, Reads
    <2>4. seen'[q][g] = seen[q][g]  BY <1>2, <2>1 DEF DirsInv, Shape
    <2>5. QED  BY <1>2, <2>1, <2>2, <2>3, <2>4
<1>5. QED  BY <1>2, <1>3, <1>4, OthersInv

\* The other steps change only records nobody has opened.
LEMMA RestInv ==
    ASSUME DirsInv, NEW p \in Procs,
           \/ \E h \in Handles, path \in DirPaths : OpendirNull(p, h, path)
           \/ \E c \in Procs : Fork(p, c)
           \/ Exit(p)
    PROVE  DirsInv'
<1>1. UNCHANGED <<dirDesc, dirIntArr, open_directories>>
    BY DEF OpendirNull, Fork, Exit
<1>2. \A q \in Procs : \A g \in own[q] : dir[q][g].fd \in dirDesc
    BY DEF DirsInv, Reads
<1>3. ASSUME Shape', \A q \in Procs : own'[q] \subseteq own[q],
             \A q \in Procs : \A g \in own'[q] :
                dir'[q][g] = dir[q][g] /\ seen'[q][g] = seen[q][g]
      PROVE  DirsInv'
    BY <1>1, <1>2, <1>3, OthersInv
<1>4. ASSUME NEW h \in Handles, NEW path \in DirPaths, OpendirNull(p, h, path)
      PROVE  DirsInv'
    <2>1. /\ dir' = [dir EXCEPT ![p] = [dir[p] EXCEPT ![h] = NullDir]]
          /\ seen' = [seen EXCEPT ![p] = [seen[p] EXCEPT ![h] = NothingSeen]]
          /\ own' = own /\ live' = live /\ h \notin own[p]
        BY <1>4 DEF OpendirNull
    <2>2. Shape'  BY <1>1, <2>1 DEF DirsInv, Shape
    <2>3. ASSUME NEW q \in Procs, NEW g \in own[q]
          PROVE  dir'[q][g] = dir[q][g] /\ seen'[q][g] = seen[q][g]
        <3>1. g \in Handles /\ ~ (q = p /\ g = h)  BY <2>1 DEF DirsInv, Shape
        <3>2. QED  BY <2>1, <3>1 DEF DirsInv, Shape
    <2>4. QED  BY <1>3, <2>1, <2>2, <2>3
<1>5. ASSUME NEW c \in Procs, Fork(p, c) PROVE DirsInv'
    <2>1. /\ dir' = [dir EXCEPT ![c] = dir[p]] /\ own' = own /\ seen' = seen
          /\ live' = live \cup {c} /\ c \notin live
        BY <1>5 DEF Fork
    <2>2. own[c] = {}  BY <2>1 DEF DirsInv, Shape
    <2>3. Shape'  BY <1>1, <2>1 DEF DirsInv, Shape
    <2>4. \A q \in Procs : q # c => dir'[q] = dir[q]  BY <2>1 DEF DirsInv, Shape
    <2>5. QED  BY <1>3, <2>1, <2>2, <2>3, <2>4
<1>6. CASE Exit(p)
    <2>1. /\ live' = live \ {p} /\ own' = [own EXCEPT ![p] = {}]
          /\ dir' = [dir EXCEPT ![p] = [h \in Handles |-> NullDir]]
          /\ seen' = [seen EXCEPT ![p] = [h \in Handles |-> NothingSeen]]
        BY <1>6 DEF Exit
    <2>2. Shape'  BY <1>1, <2>1 DEF DirsInv, Shape
    <2>3. \A q \in Procs : q # p => own'[q] = own[q] /\ dir'[q] = dir[q] /\ seen'[q] = seen[q]
        BY <2>1 DEF DirsInv, Shape
    <2>4. own'[p] = {}  BY <2>1 DEF DirsInv, Shape
    <2>5. QED  BY <1>3, <2>2, <2>3, <2>4
<1>7. QED  BY <1>4, <1>5, <1>6

LEMMA DirsStep == Disciplined /\ DirsInv /\ [Next]_vars => DirsInv'
<1> SUFFICES ASSUME Disciplined, DirsInv, [Next]_vars PROVE DirsInv'  OBVIOUS
<1>1. CASE UNCHANGED vars
    <2>1. Shape'  BY <1>1 DEF DirsInv, Shape, vars
    <2>2. \A q \in Procs : \A g \in own[q] : dir[q][g].fd \in dirDesc
        BY DEF DirsInv, Reads
    <2>3. QED  BY <1>1, <2>1, <2>2, OthersInv DEF vars
<1>2. ASSUME NEW p \in Procs, NEW h \in Handles, NEW path \in DirPaths, Opendir(p, h, path)
      PROVE  DirsInv'
    BY <1>2, OpendirInv
<1>3. ASSUME NEW p \in Procs, NEW h \in Handles,
             Readdir(p, h) \/ ReaddirNull(p, h) \/ Closedir(p, h)
      PROVE  DirsInv'
    BY <1>3, ReaddirInv, ReaddirNullInv, ClosedirInv
<1>4. ASSUME NEW p \in Procs,
             \/ \E h \in Handles, path \in DirPaths : OpendirNull(p, h, path)
             \/ \E c \in Procs : Fork(p, c)
             \/ Exit(p)
      PROVE  DirsInv'
    BY <1>4, RestInv
<1>5. QED  BY <1>1, <1>2, <1>3, <1>4 DEF Next

\* If programs read only what they have opened and not closed, each of them gets
\* the names in its directory, none twice, and all of them before readdir
\* returns NULL, however the calls of the others come in between and whoever
\* exits with directories open (sys_opendir, sys_readdir, getFileName).
THEOREM ListingCorrectHolds ==
    ASSUME Disciplined
    PROVE  Spec => []ListingCorrect
<1>1. DirsInv => ListingCorrect
    <2> SUFFICES ASSUME DirsInv, NEW p \in Procs, NEW h \in own[p]
                 PROVE  /\ IsInjective(seen[p][h].names)
                        /\ Range(seen[p][h].names) \subseteq AllNames(dir[p][h].dirPath)
                        /\ seen[p][h].ended =>
                            Range(seen[p][h].names) = AllNames(dir[p][h].dirPath)
        BY DEF ListingCorrect, AllNames, Dots
    <2>1. Progress(dir[p][h], seen[p][h])  BY DEF DirsInv, Reads
    <2>2. seen[p][h].names \in Seq(AllNames(dir[p][h].dirPath))  BY <2>1 DEF Progress
    <2>3. Range(seen[p][h].names) \subseteq AllNames(dir[p][h].dirPath)
        BY <2>2, ElementOfSeq, LenProperties DEF Range
    <2>4. QED  BY <2>1, <2>3 DEF Progress
<1>2. DirsInv /\ [Next]_vars => DirsInv'  BY DirsStep
<1>3. QED  BY <1>1, <1>2, DirsInit, PTL DEF Spec

\* When readdir has returned NULL, ls prints nothing more than it has returned.
LEMMA AllShown ==
    ASSUME NEW path, Opens(path), NEW pos, NEW prev, NEW range,
           Passed(path, pos, prev, range), range = AllNames(path),
           NEW k \in Printed(path), k \notin Shows(path, pos)
    PROVE  path = RootPath /\ fetchName(k, Len(path)) = NoName
<1>1. path \in Seq(STRING)  BY PathFacts
<1>2. PICK st : st = StartPos(path)  OBVIOUS
<1>3. st \in Nat /\ pos \in Nat /\ 1 <= st /\ st <= pos /\ pos <= Len(Archive) + 1
    BY <1>2, StartFacts, ArchiveFacts DEF Passed
<1>4. k \in Pos /\ k \in Nat /\ k \in HeadersOf(path)  BY PrintedFinite, ArchiveFacts
<1>5. contains(k, path)
    <2>1. CASE path = RootPath  BY <1>4, <2>1, InRoot
    <2>2. CASE path # RootPath  BY <1>4, <2>2 DEF HeadersOf
    <2>3. QED  BY <2>1, <2>2
<1>6. SUFFICES ASSUME ~ (path = RootPath /\ fetchName(k, Len(path)) = NoName)
               PROVE  FALSE
    OBVIOUS
<1>7. ~ (k < pos)  BY <1>6 DEF Shows
<1>8. fetchName(k, Len(path)) # NoName
    <2> SUFFICES ASSUME fetchName(k, Len(path)) = NoName PROVE FALSE  OBVIOUS
    <2>1. k = st - 1  BY <1>2, <1>6, PrintsSelf
    <2>2. QED  BY <1>3, <1>4, <1>7, <2>1
<1>9. fetchName(k, Len(path)) \in Children(path)
    BY <1>4, <1>5, <1>8, ChildrenFacts
<1>10. fetchName(k, Len(path)) # Dot  BY <1>1, <1>4, <1>5, NameFacts
<1>11. fetchName(k, Len(path)) \in NamesUpTo(path, pos)
    BY <1>9, <1>10 DEF Passed, AllNames, Dots
<1>12. PICK j \in st .. (pos - 1) : fetchName(j, Len(path)) = fetchName(k, Len(path))
    BY <1>2, <1>11 DEF NamesUpTo
<1>13. j \in Nat /\ j \in Pos /\ j <= k - 1 /\ k - 1 <= k /\ k > st
    BY <1>3, <1>4, <1>7, <1>12, ArchiveFacts DEF Pos
<1>14. k - 1 \in Pos  BY <1>4, <1>13, ArchiveFacts DEF Pos
<1>15. contains(j, path)  BY <1>2, <1>12 DEF Passed
<1>16. fetchName(k - 1, Len(path)) = fetchName(k, Len(path))
    BY <1>1, <1>4, <1>5, <1>8, <1>12, <1>13, <1>14, <1>15, SameName
<1>17. k >= StartPos(path) /\ k > StartPos(path)  BY <1>2, <1>3, <1>4, <1>13
<1>18. QED  BY <1>4, <1>5, <1>8, <1>16, <1>17, PrintsName

\* What readdir has returned when it ends, and what ls prints.
LEMMA SameLines ==
    ASSUME NEW path, Opens(path), NEW pos, NEW prev, NEW names,
           Passed(path, pos, prev, Range(names)), Range(names) = AllNames(path),
           Ordered(path, pos, names)
    PROVE  /\ Len(names) <= Len(ls(path))
           /\ \A i \in DOMAIN ls(path) :
                ls(path)[i] = IF i <= Len(names) /\ names[i] # Dot
                              THEN names[i] ELSE NoName
<1> DEFINE S == Printed(path)
           below(k) == {j \in S : j < k}
           at(i) == CHOOSE k \in S : Cardinality(below(k)) = i - 1
           n == Cardinality(S)
<1>1. S \subseteq Nat /\ IsFiniteSet(S) /\ S \subseteq Pos /\ n \in Nat
    BY PrintedFinite, FS_CardinalityType
<1>2. pos \in Nat  BY StartFacts, ArchiveFacts DEF Passed
<1>3. /\ IsFiniteSet(Shows(path, pos)) /\ Cardinality(Shows(path, pos)) \in Nat
      /\ Shows(path, pos) \in SUBSET S
    BY ShowsFinite
<1>4. Len(names) = Cardinality(Shows(path, pos))  BY DEF Ordered
<1>5. Len(names) <= n  BY <1>1, <1>3, <1>4, FS_Subset
<1>6. ls(path) = [i \in 1 .. n |-> fetchName(at(i), Len(path))]  BY DEF ls, NamesAt
<1>7. DOMAIN ls(path) = 1 .. n /\ Len(ls(path)) = n
    <2> HIDE DEF n, at
    <2>1. QED  BY <1>1, <1>6
<1>8. ASSUME NEW i \in 1 .. n
      PROVE  ls(path)[i] = IF i <= Len(names) /\ names[i] # Dot THEN names[i] ELSE NoName
    <2>1. \E k \in S : Cardinality(below(k)) = i - 1
        BY <1>1, RankExists
    <2>2. PICK k \in S : k = at(i) /\ Cardinality(below(k)) = i - 1
        BY <2>1
    <2>3. ls(path)[i] = fetchName(k, Len(path))
        <3> HIDE DEF n, at
        <3>1. QED  BY <1>6, <2>2
    <2>4. Line(path, k) = i
        <3>1. i \in Nat  BY <1>1
        <3>2. QED  BY <2>2, <3>1 DEF Line
    <2>5. IsFiniteSet(below(k)) /\ Cardinality(below(k)) \in Nat
        <3>1. below(k) \in SUBSET S  OBVIOUS
        <3>2. QED  BY <1>1, <3>1, FS_Subset, FS_CardinalityType
    <2>6. CASE k \in Shows(path, pos)
        <3>1. k < pos /\ (path = RootPath => fetchName(k, Len(path)) # NoName)
            BY <2>6 DEF Shows
        <3>2. names[i] = IF fetchName(k, Len(path)) = NoName THEN Dot
                         ELSE fetchName(k, Len(path))
            BY <2>4, <2>6 DEF Ordered
        <3>3. below(k) = Shows(path, k)  BY <1>2, <3>1, LinesBefore
        <3>4. Shows(path, k) \subseteq Shows(path, pos) /\ k \notin Shows(path, k)
            <4>1. k \in Nat /\ \A j \in S : j \in Nat  BY <1>1
            <4>2. \A j \in S : j < k => j < pos  BY <1>2, <3>1, <4>1
            <4>3. ~ (k < k)  BY <4>1
            <4>4. QED  BY <4>2, <4>3 DEF Shows
        <3>5. i - 1 < Len(names)
            <4> HIDE DEF below
            <4>1. below(k) \in SUBSET Shows(path, pos) /\ below(k) # Shows(path, pos)
                BY <2>6, <3>3, <3>4
            <4>2. /\ Cardinality(below(k)) <= Cardinality(Shows(path, pos))
                  /\ Cardinality(below(k)) # Cardinality(Shows(path, pos))
                BY <1>3, <4>1, FS_Subset
            <4>3. QED  BY <1>3, <1>4, <2>2, <2>5, <4>2
        <3>6. i <= Len(names)
            <4> HIDE DEF n
            <4>1. QED  BY <1>1, <1>3, <1>4, <3>5
        <3>7. fetchName(k, Len(path)) # Dot
            <4>1. path \in Seq(STRING) /\ k \in Pos  BY <1>1, PathFacts
            <4>2. contains(k, path)
                <5>1. CASE path = RootPath  BY <4>1, <5>1, InRoot
                <5>2. CASE path # RootPath
                    <6>1. k \in HeadersOf(path)  BY PrintedFinite
                    <6>2. QED  BY <5>2, <6>1 DEF HeadersOf
                <5>3. QED  BY <5>1, <5>2
            <4>3. QED  BY <4>1, <4>2, NameFacts
        <3>8. QED  BY <2>3, <3>2, <3>6, <3>7
    <2>7. CASE k \notin Shows(path, pos)
        <3>1. path = RootPath /\ fetchName(k, Len(path)) = NoName
            BY <2>7, AllShown
        <3>2. Shows(path, pos) \subseteq below(k)
            <4> SUFFICES ASSUME NEW j \in Shows(path, pos), ~ (j < k) PROVE FALSE
                BY <1>3
            <4>1. j \in S /\ fetchName(j, Len(path)) # NoName  BY <3>1 DEF Shows
            <4>2. j \in Pos /\ k \in Pos /\ k <= j  BY <1>1, <4>1
            <4>3. contains(j, path) /\ contains(k, path) /\ path \in Seq(STRING)
                BY <3>1, <4>2, InRoot, PathFacts
            <4>4. Archive[k] = << >>  BY <3>1, <4>2, <4>3, NameFacts DEF RootPath
            <4>5. Archive[j] = << >>  BY <4>2, <4>4, DirsAssumption
            <4>6. QED  BY <3>1, <4>1, <4>2, <4>3, <4>5, NameFacts DEF RootPath
        <3>3. Len(names) <= i - 1
            <4> HIDE DEF below
            <4>1. Shows(path, pos) \in SUBSET below(k)  BY <3>2
            <4>2. QED  BY <1>4, <2>2, <2>5, <4>1, FS_Subset
        <3>4. ~ (i <= Len(names))
            <4> HIDE DEF n
            <4>1. QED  BY <1>1, <1>3, <1>4, <3>3
        <3>5. QED  BY <2>3, <3>1, <3>4
    <2>8. QED  BY <2>6, <2>7
<1>9. QED  BY <1>5, <1>7, <1>8

\* ls and readdir agree, line by line, for every archive in the order of find:
\* sys_ls searches the whole archive, readdir from where opendir left it
\* (sys_ls, handleRootLS, getFileName, getRootSubdirectories).
THEOREM LsAgreesHolds ==
    ASSUME Disciplined
    PROVE  Spec => []LsAgrees
<1>1. DirsInv => LsAgrees
    <2> SUFFICES ASSUME DirsInv, NEW p \in Procs, NEW h \in own[p], seen[p][h].ended
                 PROVE  /\ Len(seen[p][h].names) <= Len(ls(dir[p][h].dirPath))
                        /\ \A i \in DOMAIN ls(dir[p][h].dirPath) :
                            ls(dir[p][h].dirPath)[i] =
                                IF i <= Len(seen[p][h].names) /\ seen[p][h].names[i] # Dot
                                THEN seen[p][h].names[i] ELSE NoName
        BY DEF LsAgrees
    <2>1. Progress(dir[p][h], seen[p][h])  BY DEF DirsInv, Reads
    <2>2. PICK d, s : d = dir[p][h] /\ s = seen[p][h]  OBVIOUS
    <2>3. /\ Opens(d.dirPath) /\ Range(s.names) = AllNames(d.dirPath)
          /\ Passed(d.dirPath, d.curPos, d.prevFile, Range(s.names))
          /\ Ordered(d.dirPath, d.curPos, s.names)
        BY <2>1, <2>2 DEF Progress
    <2>4. QED  BY <2>2, <2>3, SameLines
<1>2. DirsInv /\ [Next]_vars => DirsInv'  BY DirsStep
<1>3. QED  BY <1>1, <1>2, DirsInit, PTL DEF Spec
=============================================================================
