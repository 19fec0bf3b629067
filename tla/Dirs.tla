-------------------------------- MODULE Dirs --------------------------------
(***************************************************************************)
(* Reading directories in Deep OS: opendir, readdir (readAddr in libc) and *)
(* closedir (sys/syscall.c, sys/files.c and the stubs of libc), and the    *)
(* listing sys_ls prints.                                                  *)
(*                                                                         *)
(* There are no directories in the archive tarfs, only headers with full   *)
(* path names.  opendir gives a program a descriptor of the table dirDesc, *)
(* shared by all processes, and a record DIR in the memory of the program, *)
(* which readdir reads and advances.  The kernel keeps a copy of the       *)
(* record in dirIntArr, but of that copy it reads only eofDirectory.       *)
(*                                                                         *)
(* A path is a sequence of names, the root the empty one; << >> is also    *)
(* the name of the zero blocks that end an archive.  A position in the     *)
(* archive is the number of a header.                                      *)
(***************************************************************************)
EXTENDS Integers, SequencesExt

CONSTANTS
    Procs,       \* processes
    Root,        \* the process that exists first
    Handles,     \* variables a program keeps a DIR pointer in
    MAX_DIR,     \* last descriptor: 99
    Archive,     \* the paths of the headers, in order
    Directories, \* those of them whose name in the header ends in "/"
    DirPaths,    \* the paths programs open, some of them not in the archive
    Disciplined  \* TRUE: programs use only what they opened and not closed

FirstDir == 3
DirFd == FirstDir .. MAX_DIR
NoName == ""           \* an empty string
RootPath == << >>

Pos == 1 .. Len(Archive)
Dot == "."

\* The Makefile lets tar write the headers in the order in which find walks the
\* tree: a path comes once, before what is in it, and what is in one directory
\* is in one place.
TreeOrder ==
    /\ \A j, k \in Pos :
        Archive[j] # << >> /\ IsPrefix(Archive[j], Archive[k]) => j <= k
    /\ \A i, j, k \in Pos : i <= j /\ j <= k =>
        \A path \in Prefixes(Archive[i]) :
            IsPrefix(path, Archive[k]) => IsPrefix(path, Archive[j])

\* The archive ends with zero blocks; no name is empty or ".".
ASSUME DirsAssumption ==
    /\ Root \in Procs
    /\ MAX_DIR \in Nat
    /\ Archive \in Seq(Seq(STRING))
    /\ Len(Archive) > 1
    /\ Archive[Len(Archive)] = << >>
    /\ \A j, k \in Pos : Archive[j] = << >> /\ j <= k => Archive[k] = << >>
    /\ \A k \in Pos : {NoName, Dot} \cap Range(Archive[k]) = {}
    /\ TreeOrder
    /\ Disciplined \in BOOLEAN

VARIABLES
    live,              \* processes that run
    dirDesc,           \* descriptors in use
    dirIntArr,         \* dirIntArr[i]: the kernel's eofDirectory
    open_directories,  \* open_directories[p]: descriptors p may use
    dir,               \* dir[p][h]: the DIR in the memory of p; fd 0: NULL
    own,               \* own[p]: the handles p has opened and not closed
    seen               \* seen[p][h]: the names readdir has returned since
                       \* opendir or closedir, and whether it returned NULL

vars == <<live, dirDesc, dirIntArr, open_directories, dir, own, seen>>

NullDir == [fd |-> 0, dirPath |-> RootPath, curPos |-> 1, eofDirectory |-> 0,
            prevFile |-> NoName]
NothingSeen == [names |-> << >>, ended |-> FALSE]

Init ==
    /\ live = {Root}
    /\ dirDesc = {}
    /\ dirIntArr = [i \in DirFd |-> 0]
    /\ open_directories = [p \in Procs |-> {}]
    /\ dir = [p \in Procs |-> [h \in Handles |-> NullDir]]
    /\ own = [p \in Procs |-> {}]
    /\ seen = [p \in Procs |-> [h \in Handles |-> NothingSeen]]
-----------------------------------------------------------------------------
\* A path of a directory ends in "/", so a prefix is one of whole names.
contains(pos, path) == IsPrefix(path, Archive[pos])

\* The name that follows the first n names of the header.
fetchName(pos, n) ==
    IF n < Len(Archive[pos]) THEN Archive[pos][n + 1] ELSE NoName

\* Seeded fault: descriptors of other processes count as free.
FreeForProcess(p) == DirFd \ open_directories[p]

\* The descriptors sys_opendir can give out.
FreeDirs(p) == DirFd \ dirDesc

\* Where reading a directory starts: the root with the first header, another
\* one after its own header.
StartPos(path) ==
    IF path = RootPath THEN 1
    ELSE 1 + CHOOSE k \in Pos : /\ Archive[k] = path
                                /\ \A j \in 1 .. (k - 1) : Archive[j] # path

\* opendir appends a "/", so the header found is that of a directory.
IsDirectory(path) ==
    path = RootPath \/ (path \in Range(Archive) /\ path \in Directories)

\* sys_opendir of a directory that exists; otherwise opendir returns NULL and
\* nothing changes.
Opendir(p, h, path) ==
    /\ p \in live
    /\ h \notin own[p]
    /\ IsDirectory(path)
    /\ FreeDirs(p) # {}
    /\ LET i == Min(FreeDirs(p)) IN
        /\ dirDesc' = dirDesc \cup {i}
        /\ dirIntArr' = [dirIntArr EXCEPT ![i] = 0]
        /\ open_directories' = [open_directories EXCEPT ![p] = @ \cup {i}]
        /\ dir' = [dir EXCEPT ![p][h] =
                    [fd |-> i, dirPath |-> path, curPos |-> StartPos(path),
                     eofDirectory |-> 0, prevFile |-> NoName]]
    /\ own' = [own EXCEPT ![p] = @ \cup {h}]
    /\ seen' = [seen EXCEPT ![p][h] = NothingSeen]
    /\ UNCHANGED live

OpendirNull(p, h, path) ==
    /\ p \in live
    /\ h \notin own[p]
    /\ \/ ~ IsDirectory(path)
       \/ FreeDirs(p) = {}
    /\ dir' = [dir EXCEPT ![p][h] = NullDir]
    /\ seen' = [seen EXCEPT ![p][h] = NothingSeen]
    /\ UNCHANGED <<live, dirDesc, dirIntArr, open_directories, own>>
-----------------------------------------------------------------------------
(* getFileName, and getRootSubdirectories for the root: both return the    *)
(* record they leave in d and the name they leave in buff.                 *)

\* Seeded fault: a name is returned once for every header that has it.
ShowsRepeats(d) == {k \in Pos : k >= d.curPos}

\* Where the loop stops: at a header outside the directory, or at one with
\* another name than the last.
StopsAt(d) ==
    {k \in Pos : /\ k >= d.curPos
                 /\ \/ ~ contains(k, d.dirPath)
                    \/ fetchName(k, Len(d.dirPath)) # d.prevFile}

getFileName(d) ==
    LET k == IF StopsAt(d) = {} THEN Len(Archive) + 1 ELSE Min(StopsAt(d))
    IN  IF d.dirPath # RootPath /\ d.prevFile = NoName
        THEN [name |-> Dot, dir |-> [d EXCEPT !.prevFile = Dot]]
        ELSE IF k \in Pos /\ contains(k, d.dirPath)
        THEN LET n == fetchName(k, Len(d.dirPath))
             IN  [name |-> n,
                  dir |-> [d EXCEPT !.prevFile = n, !.curPos = k + 1]]
        ELSE [name |-> NoName,
              dir |-> [d EXCEPT !.curPos = k, !.eofDirectory = 1]]

\* The program p may pass dir[p][h] to readdir or closedir.
Uses(p, h) ==
    /\ p \in live
    /\ dir[p][h].fd # 0
    /\ Disciplined => h \in own[p]

\* The conditions readAddr and sys_readdir look at before they read.
Refused(p, h) ==
    \/ dir[p][h].eofDirectory = 1
    \/ dir[p][h].fd \notin open_directories[p]
    \/ dirIntArr[dir[p][h].fd] = 1

\* readAddr and sys_readdir; readAddr returns NULL for an empty name.
Readdir(p, h) ==
    LET fd == dir[p][h].fd
        r == getFileName(dir[p][h])
    IN
    /\ Uses(p, h)
    /\ ~ Refused(p, h)
    /\ dir' = [dir EXCEPT ![p][h] = r.dir]
    /\ dirIntArr' = [dirIntArr EXCEPT ![fd] =
                        IF r.dir.eofDirectory = 1 THEN 1 ELSE @]
    /\ seen' = [seen EXCEPT ![p][h] =
                    IF r.name = NoName THEN [@ EXCEPT !.ended = TRUE]
                    ELSE [@ EXCEPT !.names = Append(seen[p][h].names, r.name)]]
    /\ UNCHANGED <<live, dirDesc, open_directories, own>>

ReaddirNull(p, h) ==
    /\ Uses(p, h)
    /\ Refused(p, h)
    /\ seen' = [seen EXCEPT ![p][h].ended = TRUE]
    /\ UNCHANGED <<live, dirDesc, dirIntArr, open_directories, dir, own>>

\* sys_closedir: the statement for open_directories has no effect.
Closedir(p, h) ==
    /\ Uses(p, h)
    /\ dirDesc' = dirDesc \ {dir[p][h].fd}
    /\ own' = [own EXCEPT ![p] = @ \ {h}]
    /\ seen' = [seen EXCEPT ![p][h] = NothingSeen]
    /\ UNCHANGED <<live, dirIntArr, open_directories, dir>>

\* kfork copies the memory with the records, but not open_directories.
Fork(p, c) ==
    /\ p \in live
    /\ c \notin live
    /\ open_directories[c] = {}
    /\ live' = live \cup {c}
    /\ dir' = [dir EXCEPT ![c] = dir[p]]
    /\ UNCHANGED <<dirDesc, dirIntArr, open_directories, own, seen>>

\* kexit leaves the descriptors of the process in use; its memory is gone.
Exit(p) ==
    /\ p \in live
    /\ live' = live \ {p}
    /\ own' = [own EXCEPT ![p] = {}]
    /\ dir' = [dir EXCEPT ![p] = [h \in Handles |-> NullDir]]
    /\ seen' = [seen EXCEPT ![p] = [h \in Handles |-> NothingSeen]]
    /\ UNCHANGED <<dirDesc, dirIntArr, open_directories>>

Next ==
    \E p \in Procs :
        \/ \E h \in Handles :
            \/ \E path \in DirPaths : Opendir(p, h, path)
            \/ \E path \in DirPaths : OpendirNull(p, h, path)
            \/ Readdir(p, h)
            \/ ReaddirNull(p, h)
            \/ Closedir(p, h)
        \/ \E c \in Procs : Fork(p, c)
        \/ Exit(p)

Spec == Init /\ [][Next]_vars
-----------------------------------------------------------------------------
(* sys_ls: one pass over the whole archive that prints the name of each    *)
(* header in the directory, unless it is the name printed last.            *)

\* The headers sys_ls looks at; handleRootLS takes all but the last.
HeadersOf(path) ==
    IF path = RootPath THEN 1 .. (Len(Archive) - 1)
    ELSE {k \in Pos : contains(k, path)}

\* The names of the headers in K, in order.
NamesAt(path, K) ==
    LET at(i) == CHOOSE k \in K : Cardinality({j \in K : j < k}) = i - 1
    IN  [i \in 1 .. Cardinality(K) |-> fetchName(at(i), Len(path))]

\* Seeded fault: the name printed last is not remembered.
LsRepeats(path) == NamesAt(path, HeadersOf(path))

\* The headers whose name sys_ls prints.
Printed(path) ==
    LET before(k) == {j \in HeadersOf(path) : j < k}
        prevFile(k) ==
            IF before(k) # {} THEN fetchName(Max(before(k)), Len(path))
            ELSE IF path = RootPath THEN NoName ELSE Dot
    IN  {k \in HeadersOf(path) : fetchName(k, Len(path)) # prevFile(k)}

ls(path) == NamesAt(path, Printed(path))
-----------------------------------------------------------------------------
(* Properties.                                                             *)

Record == [fd : DirFd \cup {0}, dirPath : DirPaths \cup {RootPath},
           curPos : 1 .. (Len(Archive) + 1), eofDirectory : {0, 1},
           prevFile : STRING]

\* Type invariant.
TypeOK ==
    /\ live \subseteq Procs
    /\ dirDesc \subseteq DirFd
    /\ dirIntArr \in [DirFd -> {0, 1}]
    /\ open_directories \in [Procs -> SUBSET DirFd]
    /\ dir \in [Procs -> [Handles -> Record]]
    /\ own \in [Procs -> SUBSET Handles]

\* The names a directory has: those that follow its path in the archive.
Children(path) ==
    {Archive[k][Len(path) + 1] :
        k \in {j \in Pos : IsStrictPrefix(path, Archive[j])}}

\* What a program has read of a directory it has open are names in it, none
\* of them twice, and when readdir returns NULL none is missing: whatever
\* other processes open, read and close meanwhile.
ListingCorrect ==
    \A p \in Procs : \A h \in own[p] :
        LET s == seen[p][h]
            path == dir[p][h].dirPath
            all == Children(path) \cup IF path = RootPath THEN {} ELSE {Dot}
        IN  /\ IsInjective(s.names)
            /\ Range(s.names) \subseteq all
            /\ s.ended => Range(s.names) = all

\* ls prints the names readdir returns, line by line in the same order, though
\* it searches the whole archive and readdir only the run of headers after the
\* one of the directory: an empty line stands where readdir returns ".", and
\* only empty lines follow the last name.
LsAgrees ==
    \A p \in Procs : \A h \in own[p] :
        LET lines == ls(dir[p][h].dirPath)
            names == seen[p][h].names
        IN  seen[p][h].ended =>
                /\ Len(names) <= Len(lines)
                /\ \A i \in DOMAIN lines :
                    lines[i] = IF i <= Len(names) /\ names[i] # Dot
                               THEN names[i] ELSE NoName

\* "Invalid directory descriptor for out process" (syscall.c): a process that
\* has closed a directory gets no more names from it.
ClosedIsRefused ==
    [][\A p \in Procs : \A h \in Handles \ own[p] :
        Len(seen'[p][h].names) <= Len(seen[p][h].names)]_vars
=============================================================================
