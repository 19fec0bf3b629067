---------------------------- MODULE FilesProofs ----------------------------
(* Theorems about the file descriptors, for every number of processes,     *)
(* descriptors and files, as long as programs close only what they have    *)
(* open.                                                                   *)
EXTENDS Files, NatLemmas

\* An entry of fdArr that has been opened has its own number in it, and its
\* pointer is within the file.
EntriesSound ==
    \A i \in FD :
        /\ fdArr[i].fd \in {0, i}
        /\ fdArr[i].file # NoFile => fdArr[i].curPtr <= Text[fdArr[i].file]

\* What makes ReadsOwnFile inductive: the entry of a descriptor a process
\* holds is the one it opened, below SCAN it says where the process left off
\* reading, and the end of the file is marked only there.
EntryOfHolder ==
    \A p \in Procs, fd \in FirstFd .. MAX_FD :
        fd \in open_files[p] =>
            /\ fdArr[fd].fd = fd
            /\ fdArr[fd].file \in FileNames
            /\ fdArr[fd].file = opened[p][fd].file
            /\ fd < SCAN =>
                /\ fdArr[fd].curPtr = opened[p][fd].pos
                /\ fdArr[fd].eof = 1 => fdArr[fd].curPtr = Text[fdArr[fd].file]

\* The inductive invariant.
FilesInv ==
    /\ TypeOK
    /\ ExclusiveDescriptors
    /\ EntriesSound
    /\ EntryOfHolder

-----------------------------------------------------------------------------
\* The tables of a kernel that has just started.
LEMMA FilesInitInv == Init => FilesInv
<1> SUFFICES ASSUME Init PROVE FilesInv  OBVIOUS
<1>1. StdFd \subseteq FD /\ 0 \in FD
    BY FilesAssumption DEF StdFd, FD, FirstFd
<1>2. TypeOK  BY <1>1, FilesAssumption DEF Init, TypeOK
<1>3. ExclusiveDescriptors /\ EntriesSound
    BY FilesAssumption DEF Init, ExclusiveDescriptors, EntriesSound
<1>4. EntryOfHolder
    BY FilesAssumption DEF Init, EntryOfHolder, StdFd, FirstFd
<1>5. QED  BY <1>2, <1>3, <1>4 DEF FilesInv

\* sys_open gives out a descriptor that is not in use.
LEMMA LeastFree ==
    ASSUME NEW p \in Procs, FreeFds(p) # {}
    PROVE  /\ Min(FreeFds(p)) \in FirstFd .. MAX_FD
           /\ Min(FreeFds(p)) \notin fdAllocArray
<1>1. FreeFds(p) \subseteq Nat
    BY FilesAssumption DEF FreeFds, FirstFd
<1>2. \E x \in FreeFds(p) : \A y \in FreeFds(p) : x <= y
    BY <1>1, NatLeast
<1>3. Min(FreeFds(p)) \in FreeFds(p)  BY <1>2 DEF Min
<1>4. QED  BY <1>3 DEF FreeFds

\* sys_read finds the entry of a descriptor below SCAN that has been opened,
\* and uses entry SCAN or entry 0 for any other.
LEMMA IndexFound ==
    ASSUME TypeOK, EntriesSound, NEW fd \in FD
    PROVE  /\ IndexOf(fd) \in FD
           /\ fd \in FirstFd .. (SCAN - 1) /\ fdArr[fd].fd = fd => IndexOf(fd) = fd
           /\ fd \notin FirstFd .. (SCAN - 1) => IndexOf(fd) \notin FirstFd .. (SCAN - 1)
<1> DEFINE match == {i \in 0 .. (SCAN - 1) : fdArr[i].fd = fd}
<1>1. /\ SCAN \in Nat /\ MAX_FD \in Nat /\ SCAN > 3 /\ MAX_FD >= SCAN /\ fd \in Nat
    BY FilesAssumption DEF FirstFd, FD
<1>2. match \subseteq Nat /\ match \subseteq 0 .. (SCAN - 1)  BY <1>1
<1>3. match # {} => Min(match) \in match
    <2> SUFFICES ASSUME match # {} PROVE Min(match) \in match  OBVIOUS
    <2>1. \E x \in match : \A y \in match : x <= y  BY <1>2, NatLeast
    <2>2. QED  BY <2>1 DEF Min
<1>4. IndexOf(fd) = IF match = {} THEN SCAN ELSE Min(match)  BY DEF IndexOf
<1>5. \A i \in match : i \in FD /\ fdArr[i].fd = fd  BY <1>1 DEF FD
<1>6. \A i \in match : fd = 0 \/ i = fd  BY <1>5 DEF EntriesSound
<1> HIDE DEF match
<1>7. IndexOf(fd) \in FD
    <2>1. SCAN \in FD  BY <1>1 DEF FD
    <2>2. QED  BY <2>1, <1>3, <1>4, <1>5
<1>8. ASSUME fd \in FirstFd .. (SCAN - 1), fdArr[fd].fd = fd
      PROVE  IndexOf(fd) = fd
    <2>1. fd \in match /\ fd # 0  BY <1>1, <1>8 DEF match, FirstFd
    <2>2. QED  BY <2>1, <1>3, <1>4, <1>6
<1>9. ASSUME fd \notin FirstFd .. (SCAN - 1)
      PROVE  IndexOf(fd) \notin FirstFd .. (SCAN - 1)
    <2>1. CASE match = {}  BY <2>1, <1>1, <1>4 DEF FirstFd
    <2>2. CASE match # {} /\ fd = 0
        <3>1. 0 \in FD /\ fdArr[0].fd = 0
            BY <1>1 DEF EntriesSound, FD
        <3>2. 0 \in match  BY <3>1, <2>2, <1>1 DEF match
        <3>3. \A y \in match : 0 <= y  BY <1>2
        <3>4. \A x \in match : (\A y \in match : x <= y) => x = 0
            BY <3>2, <1>2, <1>1
        <3>5. Min(match) = 0  BY <3>2, <3>3, <3>4 DEF Min
        <3>6. QED  BY <3>5, <2>2, <1>4 DEF FirstFd
    <2>3. CASE match # {} /\ fd # 0
        BY <2>3, <1>3, <1>4, <1>6, <1>9
    <2>4. QED  BY <2>1, <2>2, <2>3
<1>10. QED  BY <1>7, <1>8, <1>9

-----------------------------------------------------------------------------
\* Opening a file keeps the invariant: nobody holds a descriptor that is not
\* in use.
LEMMA OpenInv ==
    ASSUME FilesInv, NEW p \in Procs, NEW f \in FileNames, Open(p, f)
    PROVE  FilesInv'
<1> DEFINE i == Min(FreeFds(p))
<1>1. i \in FirstFd .. MAX_FD /\ i \notin fdAllocArray
    BY LeastFree DEF Open
<1>2. /\ fdAllocArray' = fdAllocArray \cup {i}
      /\ fdArr' = [fdArr EXCEPT ![i] =
                    [fd |-> i, file |-> f, curPtr |-> 0, eof |-> 0]]
      /\ open_files' = [open_files EXCEPT ![p] = @ \cup {i}]
      /\ opened' = [opened EXCEPT ![p][i] = [file |-> f, pos |-> 0]]
      /\ UNCHANGED <<live, halted>>
    BY DEF Open
<1> HIDE DEF i
<1>3. i \in FD /\ i \notin StdFd /\ i \in Nat /\ Text[f] \in Nat
    BY <1>1, FilesAssumption DEF FD, StdFd, FirstFd
<1>4. \A q \in Procs : i \notin open_files[q]
    BY <1>1, <1>3 DEF FilesInv, ExclusiveDescriptors
<1>5. TypeOK'
    BY <1>2, <1>3 DEF FilesInv, TypeOK
<1>6. ExclusiveDescriptors'
    BY <1>2, <1>3, <1>4 DEF FilesInv, TypeOK, ExclusiveDescriptors
<1>7. EntriesSound'
    BY <1>2, <1>3 DEF FilesInv, TypeOK, EntriesSound
<1>8. EntryOfHolder'
    <2> SUFFICES ASSUME NEW q \in Procs, NEW fd \in FirstFd .. MAX_FD,
                        fd \in open_files'[q]
                 PROVE  /\ fdArr'[fd].fd = fd
                        /\ fdArr'[fd].file \in FileNames
                        /\ fdArr'[fd].file = opened'[q][fd].file
                        /\ fd < SCAN =>
                            /\ fdArr'[fd].curPtr = opened'[q][fd].pos
                            /\ fdArr'[fd].eof = 1 =>
                                fdArr'[fd].curPtr = Text[fdArr'[fd].file]
        BY DEF EntryOfHolder
    <2>1. fd \in FD  BY FilesAssumption DEF FD, FirstFd
    <2>2. CASE fd = i
        <3>1. q = p
            BY <2>2, <1>2, <1>4 DEF FilesInv, TypeOK
        <3>2. /\ fdArr'[fd] = [fd |-> i, file |-> f, curPtr |-> 0, eof |-> 0]
              /\ opened'[q][fd] = [file |-> f, pos |-> 0]
            BY <2>1, <2>2, <3>1, <1>2 DEF FilesInv, TypeOK
        <3>3. QED  BY <2>2, <3>2
    <2>3. CASE fd # i
        <3>1. fd \in open_files[q]
            BY <2>3, <1>2 DEF FilesInv, TypeOK
        <3>2. fdArr'[fd] = fdArr[fd] /\ opened'[q][fd] = opened[q][fd]
            BY <2>1, <2>3, <1>2 DEF FilesInv, TypeOK
        <3>3. QED  BY <3>1, <3>2 DEF FilesInv, EntryOfHolder
    <2>4. QED  BY <2>2, <2>3
<1>9. QED  BY <1>5, <1>6, <1>7, <1>8 DEF FilesInv

\* sys_read never runs past the end of the file.
LEMMA CopiedBound ==
    ASSUME FilesInv, NEW fd \in FD, NEW n \in Counts,
           fdArr[IndexOf(fd)].file # NoFile
    PROVE  /\ Copied(fd, n) \in Nat
           /\ fdArr[IndexOf(fd)].curPtr + Copied(fd, n)
                <= Text[fdArr[IndexOf(fd)].file]
           /\ AtEof(fd) \/ Copied(fd, n) = n
              \/ fdArr[IndexOf(fd)].curPtr + Copied(fd, n)
                    = Text[fdArr[IndexOf(fd)].file]
<1> DEFINE e == fdArr[IndexOf(fd)]
<1>1. IndexOf(fd) \in FD  BY IndexFound DEF FilesInv
<1>2. e \in [fd : FD, file : FileNames \cup {NoFile}, curPtr : Nat, eof : {0, 1}]
    BY <1>1 DEF FilesInv, TypeOK
<1>3. e.file \in FileNames /\ e.curPtr \in Nat /\ e.curPtr <= Text[e.file]
    BY <1>1, <1>2 DEF FilesInv, EntriesSound
<1>4. Text[e.file] \in Nat /\ n \in Nat  BY <1>3, FilesAssumption
<1>5. Copied(fd, n) =
        IF AtEof(fd) THEN 0
        ELSE IF n < Text[e.file] - e.curPtr THEN n ELSE Text[e.file] - e.curPtr
    BY DEF Copied
<1> HIDE DEF e
<1>6. QED  BY <1>3, <1>4, <1>5 DEF e

\* Reading keeps the invariant: the entry it advances is the one the process
\* holds, or one that no descriptor below SCAN has.
LEMMA ReadInv ==
    ASSUME FilesInv, NEW p \in Procs, NEW fd \in FD, NEW n \in Counts,
           Read(p, fd, n)
    PROVE  FilesInv'
<1> DEFINE i == IndexOf(fd)
           k == Copied(fd, n)
           e == fdArr[i]
           o == opened[p][fd]
           eof2 == IF k > 0 /\ e.curPtr + k = Text[e.file] THEN 1 ELSE e.eof
           pos2 == IF fd \in StdFd \/ o.pos + k > Text[o.file] THEN o.pos
                   ELSE o.pos + k
           e2 == [e EXCEPT !.curPtr = e.curPtr + k, !.eof = eof2]
           o2 == [o EXCEPT !.pos = pos2]
<1>1. /\ i \in FD
      /\ fd \in FirstFd .. (SCAN - 1) /\ fdArr[fd].fd = fd => i = fd
      /\ fd \notin FirstFd .. (SCAN - 1) => i \notin FirstFd .. (SCAN - 1)
    BY IndexFound DEF FilesInv
<1>2. /\ fd \in open_files[p]
      /\ e.file # NoFile
      /\ fdArr' = [fdArr EXCEPT ![i] = e2]
      /\ opened' = [opened EXCEPT ![p][fd] = o2]
      /\ UNCHANGED <<live, open_files, fdAllocArray, halted>>
    BY <1>1 DEF Read, FilesInv, TypeOK
<1>3. k \in Nat /\ e.curPtr + k <= Text[e.file]
    BY <1>2, CopiedBound
<1>4. /\ e \in [fd : FD, file : FileNames \cup {NoFile}, curPtr : Nat, eof : {0, 1}]
      /\ e.file \in FileNames /\ e.curPtr \in Nat /\ Text[e.file] \in Nat
      /\ o \in [file : FileNames \cup {NoFile}, pos : Nat]
    BY <1>1, <1>2, FilesAssumption DEF FilesInv, TypeOK
<1> HIDE DEF i, k, e, o
<1>5. /\ e2.fd = e.fd /\ e2.file = e.file /\ e2.curPtr = e.curPtr + k
      /\ e2.eof = eof2
      /\ e2 \in [fd : FD, file : FileNames \cup {NoFile}, curPtr : Nat, eof : {0, 1}]
    <2>1. eof2 \in {0, 1} /\ e.curPtr + k \in Nat  BY <1>3, <1>4
    <2> HIDE DEF eof2
    <2>2. QED  BY <2>1, <1>4
<1>6. /\ o2.file = o.file
      /\ o2.pos = pos2
      /\ o2 \in [file : FileNames \cup {NoFile}, pos : Nat]
    <2>1. pos2 \in Nat
        <3>1. o.pos + k \in Nat /\ o.pos \in Nat  BY <1>3, <1>4
        <3>2. QED  BY <3>1, Zenon
    <2> HIDE DEF pos2
    <2>2. QED  BY <2>1, <1>4
<1> HIDE DEF e2, o2
<1>7. /\ fdArr'[i] = e2
      /\ \A d \in FD : d # i => fdArr'[d] = fdArr[d]
    BY <1>1, <1>2 DEF FilesInv, TypeOK
<1>8. /\ opened'[p][fd] = o2
      /\ \A q \in Procs, d \in FD : q # p \/ d # fd =>
            opened'[q][d] = opened[q][d]
    BY <1>2 DEF FilesInv, TypeOK
<1>9. TypeOK'
    BY <1>1, <1>2, <1>5, <1>6 DEF FilesInv, TypeOK
<1>10. ExclusiveDescriptors'
    BY <1>2 DEF FilesInv, ExclusiveDescriptors
<1>11. EntriesSound'
    BY <1>1, <1>3, <1>5, <1>7 DEF FilesInv, EntriesSound, e
<1>12. EntryOfHolder'
    <2> SUFFICES ASSUME NEW q \in Procs, NEW d \in FirstFd .. MAX_FD,
                        d \in open_files[q]
                 PROVE  /\ fdArr'[d].fd = d
                        /\ fdArr'[d].file \in FileNames
                        /\ fdArr'[d].file = opened'[q][d].file
                        /\ d < SCAN =>
                            /\ fdArr'[d].curPtr = opened'[q][d].pos
                            /\ fdArr'[d].eof = 1 =>
                                fdArr'[d].curPtr = Text[fdArr'[d].file]
        BY <1>2 DEF EntryOfHolder
    <2>1. d \in FD /\ d \in Nat /\ SCAN \in Nat /\ d \notin StdFd
        BY FilesAssumption DEF FD, FirstFd, StdFd
    <2>2. /\ fdArr[d].fd = d
          /\ fdArr[d].file \in FileNames
          /\ fdArr[d].file = opened[q][d].file
          /\ d < SCAN =>
              /\ fdArr[d].curPtr = opened[q][d].pos
              /\ fdArr[d].eof = 1 => fdArr[d].curPtr = Text[fdArr[d].file]
        BY DEF FilesInv, EntryOfHolder
    <2>3. fdArr'[d].fd = fdArr[d].fd /\ fdArr'[d].file = fdArr[d].file
        BY <2>1, <1>5, <1>7 DEF e
    <2>4. opened'[q][d].file = opened[q][d].file
        BY <2>1, <1>6, <1>8 DEF o
    <2>5. ASSUME d < SCAN
          PROVE  /\ fdArr'[d].curPtr = opened'[q][d].pos
                 /\ fdArr'[d].eof = 1 => fdArr'[d].curPtr = Text[fdArr'[d].file]
        <3>1. d \in FirstFd .. (SCAN - 1)  BY <2>1, <2>5
        <3>2. CASE i = d
            <4>1. fd \in FirstFd .. (SCAN - 1)  BY <1>1, <3>1, <3>2
            <4>2. fd \in FirstFd .. MAX_FD
                BY <4>1, FilesAssumption DEF FirstFd
            <4>3. fdArr[fd].fd = fd
                BY <4>2, <1>2 DEF FilesInv, EntryOfHolder
            <4>4. fd = d  BY <1>1, <4>1, <4>3, <3>2
            <4>5. q = p
                BY <4>4, <1>2, <2>1 DEF FilesInv, ExclusiveDescriptors
            <4>6. e = fdArr[d] /\ e2 = fdArr'[d] /\ o = opened[q][d]
                  /\ o2 = opened'[q][d]
                BY <3>2, <4>4, <4>5, <1>7, <1>8 DEF e, o
            <4>7. o.file = e.file /\ o.pos = e.curPtr /\ fd \notin StdFd
                  /\ (e.eof = 1 => e.curPtr = Text[e.file])
                BY <4>4, <4>6, <2>1, <2>2, <2>5
            <4>8. o2.pos = e.curPtr + k
                BY <4>7, <1>3, <1>4, <1>6
            <4>9. e2.eof = 1 => e2.curPtr = Text[e2.file]
                BY <4>7, <1>3, <1>4, <1>5
            <4>10. QED  BY <4>6, <4>8, <4>9, <1>5
        <3>3. CASE i # d
            <4>1. fdArr'[d] = fdArr[d]  BY <3>3, <2>1, <1>7
            <4>2. d # fd
                BY <3>1, <3>3, <2>2, <1>1
            <4>3. opened'[q][d] = opened[q][d]  BY <4>2, <2>1, <1>8
            <4>4. QED  BY <4>1, <4>3, <2>2, <2>5
        <3>4. QED  BY <3>2, <3>3
    <2>6. QED  BY <2>2, <2>3, <2>4, <2>5
<1>13. QED  BY <1>9, <1>10, <1>11, <1>12 DEF FilesInv

\* Closing a descriptor of one's own keeps the invariant: it stays allocated
\* for everybody else, because nobody else has it.
LEMMA CloseInv ==
    ASSUME FilesInv, OwnCloses, NEW p \in Procs, NEW fd \in FD, Close(p, fd)
    PROVE  FilesInv'
<1>1. /\ fd \in open_files[p]
      /\ open_files' = [open_files EXCEPT ![p] = @ \ {fd}]
      /\ fdAllocArray' = fdAllocArray \ {fd}
      /\ opened' = [opened EXCEPT ![p][fd] = [file |-> NoFile, pos |-> 0]]
      /\ UNCHANGED <<live, fdArr, halted>>
    BY DEF Close
<1>2. \A q \in Procs : open_files'[q] =
            IF q = p THEN open_files[q] \ {fd} ELSE open_files[q]
    BY <1>1 DEF FilesInv, TypeOK
<1>3. TypeOK'
    BY <1>1 DEF FilesInv, TypeOK
<1>4. ExclusiveDescriptors'
    <2>1. \A q \in Procs : q # p /\ fd \in open_files[q] => fd \in StdFd
        BY <1>1 DEF FilesInv, ExclusiveDescriptors
    <2>2. QED  BY <1>1, <1>2, <2>1 DEF FilesInv, ExclusiveDescriptors
<1>5. EntriesSound'  BY <1>1 DEF FilesInv, EntriesSound
<1>6. EntryOfHolder'
    <2> SUFFICES ASSUME NEW q \in Procs, NEW d \in FirstFd .. MAX_FD,
                        d \in open_files'[q]
                 PROVE  d \in open_files[q] /\ opened'[q][d] = opened[q][d]
        BY <1>1 DEF FilesInv, EntryOfHolder
    <2>1. d \in open_files[q] /\ (q # p \/ d # fd)  BY <1>2
    <2>2. d \in FD  BY FilesAssumption DEF FD, FirstFd
    <2>3. QED  BY <2>1, <2>2, <1>1 DEF FilesInv, TypeOK
<1>7. QED  BY <1>3, <1>4, <1>5, <1>6 DEF FilesInv

\* A child starts with the standard descriptors, which are shared anyway.
LEMMA ForkInv ==
    ASSUME FilesInv, NEW p \in Procs, NEW c \in Procs, Fork(p, c)
    PROVE  FilesInv'
<1>1. /\ live' = live \cup {c}
      /\ open_files' = [open_files EXCEPT ![c] = StdFd]
      /\ UNCHANGED <<fdAllocArray, fdArr, opened, halted>>
    BY DEF Fork
<1>2. StdFd \subseteq FD /\ StdFd \cap (FirstFd .. MAX_FD) = {}
    BY FilesAssumption DEF StdFd, FD, FirstFd
<1>3. \A q \in Procs : open_files'[q] = IF q = c THEN StdFd ELSE open_files[q]
    BY <1>1 DEF FilesInv, TypeOK
<1>4. TypeOK'  BY <1>1, <1>2 DEF FilesInv, TypeOK
<1>5. ExclusiveDescriptors'
    BY <1>1, <1>3 DEF FilesInv, ExclusiveDescriptors
<1>6. EntriesSound'  BY <1>1 DEF FilesInv, EntriesSound
<1>7. EntryOfHolder'
    <2> SUFFICES ASSUME NEW q \in Procs, NEW d \in FirstFd .. MAX_FD,
                        d \in open_files'[q]
                 PROVE  d \in open_files[q]
        BY <1>1 DEF FilesInv, EntryOfHolder
    <2>1. QED  BY <1>2, <1>3
<1>8. QED  BY <1>4, <1>5, <1>6, <1>7 DEF FilesInv

\* A step that leaves the tables alone.
LEMMA SameTablesInv ==
    ASSUME FilesInv, live' \subseteq Procs, halted' \in BOOLEAN,
           UNCHANGED <<open_files, fdAllocArray, fdArr, opened>>
    PROVE  FilesInv'
BY DEF FilesInv, TypeOK, ExclusiveDescriptors, EntriesSound, EntryOfHolder

-----------------------------------------------------------------------------
\* If programs close only what they have open, the invariant holds always,
\* whatever the order of the opens, reads, closes, forks and exits of the
\* processes (sys/syscall.c, kfork and kexit).
THEOREM FilesInvariance ==
    ASSUME OwnCloses
    PROVE  Spec => []FilesInv
<1>1. Init => FilesInv  BY FilesInitInv
<1>2. FilesInv /\ [Next]_vars => FilesInv'
    <2> SUFFICES ASSUME FilesInv, [Next]_vars PROVE FilesInv'  OBVIOUS
    <2>1. live \subseteq Procs /\ halted \in BOOLEAN  BY DEF FilesInv, TypeOK
    <2>2. CASE UNCHANGED vars
        BY <2>1, <2>2, SameTablesInv DEF vars
    <2>3. ASSUME NEW p \in Procs, NEW f \in FileNames, Open(p, f)
          PROVE  FilesInv'
        BY <2>3, OpenInv
    <2>4. ASSUME NEW p \in Procs, NEW fd \in FD, NEW n \in Counts, Read(p, fd, n)
          PROVE  FilesInv'
        BY <2>4, ReadInv
    <2>5. ASSUME NEW p \in Procs, NEW fd \in FD, ReadFaults(p, fd)
          PROVE  FilesInv'
        BY <2>1, <2>5, SameTablesInv DEF ReadFaults
    <2>6. ASSUME NEW p \in Procs, NEW fd \in FD, Close(p, fd)
          PROVE  FilesInv'
        BY <2>6, CloseInv, OwnCloses
    <2>7. ASSUME NEW p \in Procs, NEW c \in Procs, Fork(p, c)
          PROVE  FilesInv'
        BY <2>7, ForkInv
    <2>8. ASSUME NEW p \in Procs, Exit(p)
          PROVE  FilesInv'
        BY <2>1, <2>8, SameTablesInv DEF Exit
    <2>9. QED
        BY <2>2, <2>3, <2>4, <2>5, <2>6, <2>7, <2>8 DEF Next
<1>3. QED  BY <1>1, <1>2, PTL DEF Spec

\* If programs close only what they have open, no two processes ever hold
\* the same descriptor beyond the standard ones, and sys_open never gives
\* out one that is held.
THEOREM OwnDescriptors ==
    ASSUME OwnCloses
    PROVE  Spec => []ExclusiveDescriptors
<1>1. FilesInv => ExclusiveDescriptors  BY DEF FilesInv
<1>2. QED  BY <1>1, FilesInvariance, PTL

\* If programs close only what they have open, sys_read of a descriptor
\* below SCAN always returns the next bytes of the file the process itself
\* opened, all it asked for or all there are.
THEOREM ReadsOwn ==
    ASSUME OwnCloses
    PROVE  Spec => []ReadsOwnFile
<1>1. FilesInv => ReadsOwnFile
    <2> SUFFICES ASSUME FilesInv, NEW p \in Procs,
                        NEW fd \in FirstFd .. (SCAN - 1), NEW n \in Counts,
                        fd \in open_files[p]
                 PROVE  ReturnsNextBytes(p, fd, n)
        BY DEF ReadsOwnFile
    <2>1. fd \in FD /\ fd \in FirstFd .. MAX_FD /\ fd < SCAN
        BY FilesAssumption DEF FD, FirstFd
    <2>2. /\ fdArr[fd].fd = fd
          /\ fdArr[fd].file \in FileNames
          /\ fdArr[fd].file = opened[p][fd].file
          /\ fdArr[fd].curPtr = opened[p][fd].pos
          /\ fdArr[fd].eof = 1 => fdArr[fd].curPtr = Text[fdArr[fd].file]
        BY <2>1 DEF FilesInv, EntryOfHolder
    <2>3. IndexOf(fd) = fd  BY <2>1, <2>2, IndexFound DEF FilesInv
    <2>4. fdArr[IndexOf(fd)].file # NoFile
        BY <2>2, <2>3, FilesAssumption
    <2>5. AtEof(fd) \/ Copied(fd, n) = n
          \/ fdArr[fd].curPtr + Copied(fd, n) = Text[fdArr[fd].file]
        BY <2>1, <2>3, <2>4, CopiedBound
    <2>6. AtEof(fd) => fdArr[fd].curPtr + Copied(fd, n) = Text[fdArr[fd].file]
        <3>1. AtEof(fd) => Copied(fd, n) = 0 /\ fdArr[fd].eof = 1
            BY <2>3 DEF Copied, AtEof
        <3>2. Text[fdArr[fd].file] \in Nat  BY <2>2, FilesAssumption
        <3>3. QED  BY <3>1, <3>2, <2>2
    <2>7. QED  BY <2>2, <2>3, <2>5, <2>6 DEF ReturnsNextBytes
<1>2. QED  BY <1>1, FilesInvariance, PTL

=============================================================================
