------------------------------- MODULE Files -------------------------------
(***************************************************************************)
(* The file descriptors of Deep OS: open, read and close (sys/syscall.c    *)
(* and the stubs of libc), over the archive tarfs.                         *)
(*                                                                         *)
(* Descriptors are entries of one table for all processes, fdArr, with the *)
(* entries in use marked in fdAllocArray; open_files of a task says which  *)
(* of them the process may use.  fork gives the child the standard         *)
(* descriptors only, exit closes nothing.                                  *)
(*                                                                         *)
(* A system call is one action: it runs with interrupts disabled, and the  *)
(* scheduler may run any process next.                                     *)
(***************************************************************************)
EXTENDS Integers, FiniteSetsExt

CONSTANTS
    Procs,     \* processes
    Root,      \* the process that exists first
    MAX_FD,    \* last descriptor: 99
    SCAN,      \* sys_read looks for a descriptor below SCAN: 10
    FileNames, \* the files of the archive
    Text,      \* Text[f]: bytes from the start of f up to the first NUL
    NoFile,    \* no file: the address 0 in an entry that was never used
    Counts,    \* numbers of bytes a program asks for
    OwnCloses  \* TRUE: programs close only descriptors they have open

STDOUT_FD == 1
STDERR_FD == 2
FirstFd == 3
FD == 0 .. MAX_FD
StdFd == 0 .. (FirstFd - 1)

ASSUME FilesAssumption ==
    /\ Root \in Procs
    /\ SCAN \in Nat /\ SCAN > FirstFd
    /\ MAX_FD \in Nat /\ MAX_FD >= SCAN
    /\ NoFile \notin FileNames
    /\ Text \in [FileNames -> Nat]
    /\ Counts \subseteq Nat \ {0}
    /\ OwnCloses \in BOOLEAN

VARIABLES
    live,          \* the processes that run
    open_files,    \* open_files[p]: descriptors process p may use
    fdAllocArray,  \* the entries of fdArr in use
    fdArr,         \* fdArr[i]: [fd, file, curPtr, eof], curPtr an offset
    opened,        \* opened[p][fd]: [file, pos], the file p opened as fd and
                   \* how many bytes of it p has read
    halted         \* TRUE: the kernel read address 0 and stopped

vars == <<live, open_files, fdAllocArray, fdArr, opened, halted>>

Init ==
    /\ live = {Root}
    /\ open_files = [p \in Procs |-> IF p = Root THEN StdFd ELSE {}]
    /\ fdAllocArray = {}
    /\ fdArr = [i \in FD |->
                    [fd |-> 0, file |-> NoFile, curPtr |-> 0, eof |-> 0]]
    /\ opened = [p \in Procs |-> [i \in FD |-> [file |-> NoFile, pos |-> 0]]]
    /\ halted = FALSE

Calls(p) == p \in live /\ ~ halted
-----------------------------------------------------------------------------
\* Seeded fault: the descriptor is the lowest the process does not have open.
FreeForProcess(p) == (FirstFd .. MAX_FD) \ open_files[p]

\* The descriptors sys_open can give out, to any process.
FreeFds(p) == (FirstFd .. MAX_FD) \ fdAllocArray

\* Seeded fault: the end-of-file mark of the entry is not reset.
OpenKeepsEof(p, f) ==
    /\ Calls(p)
    /\ FreeFds(p) # {}
    /\ LET i == Min(FreeFds(p)) IN
        /\ fdAllocArray' = fdAllocArray \cup {i}
        /\ fdArr' = [fdArr EXCEPT ![i] =
                        [fd |-> i, file |-> f, curPtr |-> 0, eof |-> @.eof]]
        /\ open_files' = [open_files EXCEPT ![p] = @ \cup {i}]
        /\ opened' = [opened EXCEPT ![p][i] = [file |-> f, pos |-> 0]]
    /\ UNCHANGED <<live, halted>>

\* sys_open of a file of the archive.
Open(p, f) ==
    /\ Calls(p)
    /\ FreeFds(p) # {}
    /\ LET i == Min(FreeFds(p)) IN
        /\ fdAllocArray' = fdAllocArray \cup {i}
        /\ fdArr' = [fdArr EXCEPT ![i] =
                        [fd |-> i, file |-> f, curPtr |-> 0, eof |-> 0]]
        /\ open_files' = [open_files EXCEPT ![p] = @ \cup {i}]
        /\ opened' = [opened EXCEPT ![p][i] = [file |-> f, pos |-> 0]]
    /\ UNCHANGED <<live, halted>>

\* The entry sys_read uses: the loop ends with i = SCAN if it finds none.
IndexOf(fd) ==
    LET match == {i \in 0 .. (SCAN - 1) : fdArr[i].fd = fd}
    IN  IF match = {} THEN SCAN ELSE Min(match)

\* eof is looked at only when the loop found the descriptor.
AtEof(fd) == IndexOf(fd) < SCAN /\ fdArr[IndexOf(fd)].eof = 1

\* The bytes the copy loop moves: up to the first NUL.
Copied(fd, n) ==
    LET e == fdArr[IndexOf(fd)]
    IN  IF AtEof(fd) THEN 0
        ELSE IF n < Text[e.file] - e.curPtr THEN n
        ELSE Text[e.file] - e.curPtr

\* sys_read of a descriptor that is open for the process; otherwise it
\* returns 0 bytes and changes nothing.
Read(p, fd, n) ==
    LET i == IndexOf(fd)
        k == Copied(fd, n)
    IN
    /\ Calls(p)
    /\ fd \in open_files[p]
    /\ fdArr[i].file # NoFile
    /\ fdArr' = [fdArr EXCEPT
                    ![i].curPtr = @ + k,
                    ![i].eof = IF k > 0 /\ fdArr[i].curPtr + k = Text[fdArr[i].file]
                               THEN 1 ELSE @]
    /\ opened' = [opened EXCEPT ![p][fd].pos =
                    IF fd \in StdFd \/ @ + k > Text[opened[p][fd].file] THEN @
                    ELSE @ + k]
    /\ UNCHANGED <<live, open_files, fdAllocArray, halted>>

\* sys_read reaches an entry that was never opened and reads address 0.
ReadFaults(p, fd) ==
    /\ Calls(p)
    /\ fd \in open_files[p]
    /\ fdArr[IndexOf(fd)].file = NoFile
    /\ halted' = TRUE
    /\ UNCHANGED <<live, open_files, fdAllocArray, fdArr, opened>>

\* sys_close does not look at who has the descriptor open.
Close(p, fd) ==
    /\ Calls(p)
    /\ OwnCloses => fd \in open_files[p]
    /\ open_files' = [open_files EXCEPT ![p] = @ \ {fd}]
    /\ fdAllocArray' = fdAllocArray \ {fd}
    /\ opened' = [opened EXCEPT ![p][fd] = [file |-> NoFile, pos |-> 0]]
    /\ UNCHANGED <<live, fdArr, halted>>

\* kfork: the child has the standard descriptors only.
Fork(p, c) ==
    /\ Calls(p)
    /\ c \notin live
    /\ open_files[c] = {}
    /\ live' = live \cup {c}
    /\ open_files' = [open_files EXCEPT ![c] = StdFd]
    /\ UNCHANGED <<fdAllocArray, fdArr, opened, halted>>

\* kexit leaves the descriptors of the process allocated.
Exit(p) ==
    /\ Calls(p)
    /\ live' = live \ {p}
    /\ UNCHANGED <<open_files, fdAllocArray, fdArr, opened, halted>>

Next ==
    \E p \in Procs :
        \/ \E f \in FileNames : Open(p, f)
        \/ \E fd \in FD, n \in Counts : Read(p, fd, n)
        \/ \E fd \in FD : ReadFaults(p, fd)
        \/ \E fd \in FD : Close(p, fd)
        \/ \E c \in Procs : Fork(p, c)
        \/ Exit(p)

Spec == Init /\ [][Next]_vars
-----------------------------------------------------------------------------
(* Properties.                                                             *)

\* Type invariant.
TypeOK ==
    /\ live \subseteq Procs
    /\ open_files \in [Procs -> SUBSET FD]
    /\ fdAllocArray \subseteq FD
    /\ fdArr \in [FD -> [fd : FD, file : FileNames \cup {NoFile},
                         curPtr : Nat, eof : {0, 1}]]
    /\ opened \in [Procs -> [FD -> [file : FileNames \cup {NoFile}, pos : Nat]]]
    /\ halted \in BOOLEAN

\* If programs close only what they have open, no two processes hold the
\* same descriptor, whatever the order of their opens, closes and exits, and
\* a descriptor someone holds is never given out again.
ExclusiveDescriptors ==
    /\ \A p, q \in Procs : p # q => open_files[p] \cap open_files[q] \subseteq StdFd
    /\ \A p \in Procs : open_files[p] \ StdFd \subseteq fdAllocArray

\* What read returns to p are the next bytes of the file p opened as fd, all
\* it asked for or all there are.
ReturnsNextBytes(p, fd, n) ==
    LET e == fdArr[IndexOf(fd)]
        k == Copied(fd, n)
    IN  /\ e.file = opened[p][fd].file
        /\ e.curPtr = opened[p][fd].pos
        /\ k = n \/ e.curPtr + k = Text[e.file]

\* Reading a descriptor below SCAN gives a process its own file, byte after
\* byte, however other processes open, read and close theirs.
ReadsOwnFile ==
    \A p \in Procs, fd \in FirstFd .. (SCAN - 1), n \in Counts :
        fd \in open_files[p] => ReturnsNextBytes(p, fd, n)

\* "get a file descriptor from the list of available file descriptors"
\* (syscall.c): every descriptor open gives out reads the file it was
\* opened for.
EveryDescriptorReads ==
    \A p \in Procs, fd \in FirstFd .. MAX_FD, n \in Counts :
        fd \in open_files[p] => ReturnsNextBytes(p, fd, n)
=============================================================================
