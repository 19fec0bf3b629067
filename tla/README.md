# A TLA+ model of Deep OS

Deep OS is a small 64-bit operating system: a kernel (`sys/`), a C library of
system call stubs (`libc/`) and a few programs (`bin/`).  This directory holds
TLA+ modules that model its kernel, TLC configurations that check them on small
instances, and proofs that TLAPS checks.

## The system

One CPU, no locks.  Every entry of the IDT is an interrupt gate (`sys/idt.c`),
so the kernel runs with interrupts disabled from entry to exit; a system call
or an interrupt handler is one atomic step, up to the point where `switch_task`
continues another task.  What is hard is the order of these steps: timer and
keyboard interrupts and the calls of different tasks come in any order, a
blocked call is finished by a timer interrupt much later, and several tables
are shared by all tasks.

| component | state | operations | interacts with |
|---|---|---|---|
| task table, scheduler (`task.c`, `scheduler.c`, `timer.c`) | `ready_queue`, `current_task`, `next_pid`, `timer_tick` | timer interrupt, `switch_task`, `get_next_ready_task`, `update_waiting_and_sleeping_tasks` | called by every blocking call |
| process calls (`kfork.c`, `kexecvpe.c`, `kexit.c`, `kwaitpid.c`, `ksleep.c`) | fields of `task_t` | fork, execvpe, exit, wait, waitpid, sleep | scheduler, virtual memory |
| page allocator (`phy_mem.c`, `mem_util.c`) | bitmap `mem_map` | `init_region`, `page_alloc` | virtual memory |
| virtual memory (`virt_mem.c`, `read_tarfs.c`) | page tables, `vma`, `cur_ptr`, `heap_end`, usage and limit of each task | malloc, sbrk, ulimit, and the memory part of fork and execvpe | page allocator |
| file descriptors (`syscall.c`) | `fdArr`, `fdAllocArray`, `open_files` | open, read, close | fork, exit |
| directories (`syscall.c`, `files.c`) | `dirDesc`, `dirIntArr`, `open_directories`, `DIR` records in user memory | opendir, readdir, closedir, ls | fork, exit |
| keyboard input (`kb.c`, `timer.c`, `syscall.c`, `scanf.c`) | `buff`, `curBuffIndex`, `enterPressed`, `keyPressedPtr`, `waiting_for_input` | keyboard interrupt, scanf, wake-up by the timer | scheduler |
| console and status bar (`putc.c`, `utilities.c`, `itoa.c`) | video memory, `x_cord`, `y_cord` | `putc`, `scroll`, print, write, `print_status_bar` | keyboard interrupt, timer interrupt, every program |
| shell (`bin/dsh/dsh.c`, `libc/pwd.c`) | `argv`, `envp` and `pwd` in its `task_t`, the line it reads | command loop, setenv, cd, fork, execvpe, waitpid | process calls, archive, scanf |
| archive (`read_tarfs.c`, `elf.c`, `utilities.c`) | none: the image `tarfs` | `get_elf_file`, `octal_decimal`, `oct_to_dec`, `Parse_ELF_Executable` | execvpe, opendir |
| PATH search (`kexecvpe.c`) | copies of `argv` and `envp` | `getPath`, the loop over the directories | archive, shell |
| system call dispatch, ps, getpid, interrupt setup, formatting | see `PROJECT.json` | | |

What makes each part correct:

* tasks: pids stay valid, a task resumes where it was stopped, a wait delivers
  the result of a task that has ended, nobody starves, somebody can always run;
* pages: handed out once, never the kernel's, always reachable by the kernel;
* address spaces: stacks, segments and tables of tasks stay apart, and the
  kernel's window on physical memory survives fork;
* descriptors and directories: a process reads its own file or directory, from
  start to end, whatever others do with the shared tables;
* input: scanf returns the line that was typed after it was called, and returns;
* screen: the user sees the line that scanf returns, and the status bar stays
  apart from the text;
* shell: a line becomes its words, a command runs the program it names with its
  words and the variables the user has set, the prompt comes back when a
  foreground program has ended and not before.

## Modules

| module | models | run by |
|---|---|---|
| `Tasks` | task table, scheduler, process calls | `MCTasks` |
| `TasksProofs` | theorems about `Tasks`, and that it implements `Processes` | TLAPS |
| `Processes` | abstract specification of fork, exit, wait and waitpid | `MCTasks`, `MCShell` |
| `TaskRefinement` | the refinement mapping from `Tasks` to `Processes` | `MCTasks` |
| `PhysMem` | page allocator | `MCVirtMem` |
| `PhysMemProofs` | theorems about `PhysMem` | TLAPS |
| `NatLemmas` | lemmas on numbers and pages the proofs share | TLAPS |
| `VirtMem` | virtual memory; extends `PhysMem`, whose state it shares | `MCVirtMem` |
| `VirtMemProofs` | theorems about `VirtMem` | TLAPS |
| `Files` | file descriptors | `MCFiles` |
| `FilesProofs` | theorems about `Files` | TLAPS |
| `Dirs` | directories | `MCDirs` |
| `DirsProofs` | theorems about `Dirs` | TLAPS |
| `Input` | keyboard and scanf | `MCTerminal` |
| `Console` | `putc`, `scroll` and the status bar, as operators on a screen | `MCTerminal` |
| `Terminal` | keyboard, scanf, screen and timer together; extends `Input` and `Console` | `MCTerminal` |
| `TerminalProofs` | theorems about `Input` and `Terminal` | TLAPS |
| `Text` | the string functions the shell and execvpe use | `MCShell` |
| `Archive` | the walk through the archive and its octal sizes; extends `Text` | `MCShell` |
| `Shell` | the shell and the programs it starts, on top of `Processes` and `Archive` | `MCShell` |
| `ShellProofs` | theorems about `Shell` | TLAPS |

Variables and operators have the names of the source where there is one.  An
operator whose comment begins with "Seeded fault" is not part of a model: it is
a plausible mistake in the definition that follows it, kept to make sure that
the property named in `PROJECT.json` notices it.

**Tasks.**  Each field of `task_t` is a function from slots.  `frame` abstracts
the saved stack of a task to the kernel entry it will continue from; `ret` and
`status` are what its program sees of the last call.  The boot sequence is part
of the model: task 1 executes `init_sh`, which forks; the child executes the
idle loop, the parent the shell; from then on programs make calls in any order
and with any argument.  `sleeping_time` and `timer_tick` wrap (`SleepRange`,
`TickRange`).  `update_waiting_and_sleeping_tasks` is one pass over the slots in
ascending order that changes what it reads; `DisownedBefore` states the part of
that dependence that matters, so the pass is a set expression.  When the kernel
prints an error and spins, `panic` says why and nothing changes any more; an
exception of any program (`Trap`) does that to all of them.

**Processes, TaskRefinement.**  `Processes` has no table, no scheduler and no
timer: processes fork, exit and wait, and at some moment some of the waits
return, each a process that has ended and that the wait was for.  A wait of
`Tasks` returns in this sense at the tick that makes the waiter READY; `frame`
and the fields `pid_waiting_for` and `waiting_pid_exit_status` give the result
it will find when it is resumed.  `Calls!Spec` has no liveness: that waits do
return is `WaitpidReturns`.

**PhysMem.**  `mem_map` is the set of available frames.  Boot handles the
regions of the loader's memory map one at a time; then `page_alloc` is called, in
`VirtMem` by the kernel itself, page by page while it boots and then in its calls.
The kernel's window on physical memory reaches from `DUMB_MAPPING_VIRT` to the end
of the address space, 256 MB (`Window`).

**VirtMem.**  A task has a translation from pages to frames, the set of frames
its tables occupy, its areas and its heap pointers.  All physical memory is
mapped at `DUMB_MAPPING_VIRT` in every address space, and the kernel's own
allocations are used through it; the model names such a page by its frame.  A
system call allocates its pages in a fixed order: `Page(k)` is the k-th.  The
strings `execvpe` and `fork` copy are one allocation.  Blocks may have any size,
and `kmalloc` takes one page for a new one, whatever its size: a block larger than
a page runs on into pages nobody allocated.  `BackedTo` says how far there is
memory for a block, and `BlocksDisjoint` is stated up to there.  When memory runs out in
the middle of a call the kernel goes on with page 0; the model stops there
(`halted`), as it does at the page fault of a NULL block.

**Files.**  The archive is a set of files with a length, up to the first NUL
byte, which is where `sys_read` stops.  `opened` records what each process
opened and how much it has read.  `OwnCloses` restricts programs to close what
they have open.

**Dirs.**  The archive is a sequence of paths that ends with zero blocks.  The
Makefile gives tar the paths in the order in which find walks the tree; what the
code needs of that order is `TreeOrder`.
`Directories` are the paths whose name in the header ends in a slash: opendir
appends one and finds no others.  `seen` records what readdir has returned.  `Disciplined` restricts programs to
handles they have opened themselves and not closed.

**Input.**  Characters are their codes, from 0 to 255, and keys their scan codes
with the tables of `kb.c`.  With SHIFT a character that is not listed is 32 less:
Space becomes NUL, which is stored like any other, as it is for Ctrl, Alt and the
arrow keys.  `LineDelivered` therefore says two things: every character typed is in
the array, and the program reads them up to the first NUL.  The READY tasks run in turn; a reader spins in user mode.  `typed`,
`ended` and `late` record what the user did since scanf was called.  The array a
program passes is new or the one of its last call: `enterToMemory` writes no
NUL, so an old array keeps the rest of a longer line.

**Console, Terminal.**  A screen is the characters of the video memory and the
cursor; characters below a blank are stored and not shown.  Every key is put on the screen, stored or not; between the keys
programs print and the timer writes the status bar.  `x_cord` may pass the last
column: the characters then land in the next row of the memory.  `anchor`,
`astray` and `wide` record where scanf was called, whether anything but its line
has been put on the screen since, and whether a row has overflowed.

**Text, Archive.**  A string is a sequence of fragments; characters the code
looks for are fragments of their own.  The archive is laid out in blocks by the
reference operators `Octal` and `HeaderAt`; `get_elf_file` walks it with the
conversions of the code, and `oct_to_dec`, which passes over trailing zeros,
gives the length `Parse_ELF_Executable` checks.  `strtok` is the first run of
characters from its position on that are no delimiters; `Runs`, the reference, is
all runs of a string in the order in which they begin.

**Shell.**  `main` gets `argv` and `envp` as pointers into its `task_t`, in
memory that all address spaces share, one array after the other, with `path`
behind them: `cells` is the three of them, and a list of strings ends at the first
null pointer, wherever that is.  A child of the shell calls execvpe with these pointers, at any time
after fork; `late` says that the shell has read another line by then, and what
such a child finds is nondeterministic.  A program is `forked`, then `runs`,
`failed` (the copy of the shell that prints "command not found") or `garbled`
(its file was found but not accepted, so `exeFormat` is uninitialized).  Writes
of the shell to its own arrays are steps of their own, because children run in
between.  Ghosts: `words` and `asked` of a task are what the user typed and set,
`wanted` and `spoiled` follow the shell's variables.  `WordsOfLine` has an
exception for words beyond the end of `argv`: they lie in `envp`, where a child in
the background that looks for PATH cuts a string off at its first semicolon.

## Runs

| run | instance | shows |
|---|---|---|
| `tasks_safety` | 4 slots, all calls, sleep times that wrap, a program named `bin/idle` | the task table stays consistent and implements `Processes` |
| `tasks_liveness` | 4 slots, waits on forked tasks | READY tasks, sleepers and waiters run again |
| `wait_any_child` | 4 slots, wait() | violation: wait() does not return while a younger child lives |
| `virtmem` | 48 memory maps of up to 62 pages of 4 bytes, 3 tasks, 5 areas, blocks of a third of a page and of more than a page | no page handed out twice, none of the kernel's, none unreachable, only memory but for the pages at the ends of a region; tables, stacks and recorded areas stay private |
| `virtmem_heap` | the map with room for several tasks | violation: a malloc'd block is shared after execvpe and fork |
| `files` | 2 processes, 2 files, descriptors 3 to 5, search below 4 | each process reads its own file |
| `files_high_fd` | the same | violation: a descriptor beyond the search reads another file |
| `dirs` | 3 processes (two alike, SYMMETRY), 7 headers, 2 descriptors | listings are complete and agree with ls |
| `dirs_closed` | the same, without discipline | violation: a closed directory can still be read |
| `terminal` | 2 tasks, 1 reader, 3 keys with and without SHIFT, lines of 2, 2 rows of 5 columns, 4 keys or strings | the line typed is the line read and the line seen; text and status bar stay apart |
| `shell` | 3 processes, 4 lines of 15 kinds, 5 files in 2 directories, arrays of 4, 2 and 2 | commands run with their words and variables, and the prompt returns |
| `shell_path` | the same files, three kinds of line | violation: a program in a directory of PATH before the last is not found |

The five violations are findings, each with the line of code and the comment or
message it disagrees with in `PROJECT.json`.

Bounds.  Four tasks are the boot sequence's two and two that can fork, wait for
each other and fill the table; a pass of the scan over four slots has a task
before, after and on both sides of the running one.  `SleepRange` is
small so that a sleep of 2 wraps to 0 in both passing runs of `Tasks`; `timer_tick`
wraps in `tasks_safety` and not in `tasks_liveness`, which has a `TickRange` of 1.
The memory maps of
`virtmem` have limits on and off page boundaries, and regions that hold the kernel,
start within it or lie above it; on all but one the kernel runs out of pages while
it boots or soon after.  The large one, of 60 pages, is enough for two forks with
execvpe and heap pages in between, and small enough to run out; five areas let the
heap fill them.  malloc(0) is left to the proof.  In `files` one descriptor is within the search and two
beyond; both processes can hold each.  The archive of `dirs` has a directory
with a subdirectory, an empty directory, and zero blocks at its end; the root, a
directory, a file and a path that does not exist are opened, and three processes can
exhaust two descriptors by exiting without closing.

In `terminal` a string of three characters and two keys overflow a row of five,
two new lines scroll, and a tab wraps; the keys are Backspace, Space and the
keypad's `*`, with SHIFT 232, NUL and new line; pids of one and two digits make the text
of the status bar longer than what is cleared.  The lines of `shell` include a
program found along PATH, by its path, in the last directory only and nowhere; a
one-character name; a background command; a name that begins another variable; a
PATH of two directories and one of none; more words than `argv` holds, one of them
like PATH; more words than the loop of dsh takes; and the two lines that fault.
`HasEntry` bounds setenv: with all of `envp` and `path` in use it would go on
into `pwd`.  Files of `shell` take no block, end within a block or
fill their last one; one has a size with trailing zeros.  Two children let one in the
background be late while the shell waits for the other.

The page at the limit of a region that `init_region` adds (`phy_mem.c:75`) is not
memory; `OnlyMemory` states exactly which pages are concerned.

Deadlock is checked except in `Files` and `Dirs`, where all modelled processes
may have exited, and in `Shell`, where the user may stop typing.

Fairness.  `Tasks` assumes weak fairness of the timer interrupt, which the PIC
delivers whenever a user program runs; nothing else is assumed of programs.
`Input` assumes the same, and strong fairness of the reader leaving its spin
loop: round robin gives it the CPU again and again, for a whole tick each time,
in which it reads the variable.  Enter is never assumed to be pressed.
`Terminal` assumes what `Input` does.  `Shell` assumes that a tick comes once the
process the shell waits for has ended, and that the shell then gets the CPU, which
`WaitpidReturns` and `ReadyTaskRuns` show for `Tasks`; it assumes nothing of the
user and of the programs.

## Proofs

`TasksProofs` proves for every size of the table, every set of commands,
arguments, exit codes and counter ranges that

* `TypeOK`, `PidDiscipline`, `SavedContext`, `WaitResult`, `IdleLoop` and
  `AlwaysReadyTask` are invariants, and
* no step violates `ZombieForever`, `NoOvertaking` and `WaitReapsOwnChild`.

The assumptions are those of `Tasks`: ranges are positive, the shell is among
the commands, arguments of waitpid are pids or -1.  None of the invariants but
`TypeOK` is inductive alone.  `AlwaysReadyTask` needs to know which task is
READY when all others are not: `IdleLoop` says that it is task 1 before init_sh
forks and the task in slot 1 after, and that this slot never blocks, which needs
`PidDiscipline` (the first fork takes slot 1) and `SavedContext` (the running
task is READY).  `WaitResult` needs `PidDiscipline`, because the result is found
by pid.  `IInv` is their conjunction; one lemma per action shows that it is
preserved, with `SwitchEffect` and `BlockingCall` for the part the blocking calls
share, and `NextReady` for what the scan of `get_next_ready_task` returns.

`PhysMemProofs` proves for every memory map, page size and size of the bitmap
that no page is handed out twice (`NeverTwice`), and none that belongs to the
kernel (`KernelSafe`), is outside the regions of memory and the pages at their
ends (`ReturnsMemory`), is page 0 (`NeverNull`) or is outside the identity
mapping and its window (`Reachable`).  The last two rest on what the loader's memory
map looks like: its last region does not start at address 0, is the highest and ends
below 256 MB (`SmapAssumption`).  The code checks none of this; QEMU's default
of 128 MB, with which the `README` of the repository starts it, satisfies it.  The inductive invariant adds that `ker_physfree` is past
`mem_map`, that frames become available only during boot and are all from
regions seen so far.

`FilesProofs` proves for every number of processes, descriptors and files, and for
programs that close only what they have open (`OwnCloses`), that no two processes
hold the same descriptor beyond the standard ones (`OwnDescriptors`) and that read
gives a process the next bytes of its own file (`ReadsOwn`).  The second needs to
know more than it says: that an entry once opened carries its own number, so that
the search of `sys_read` finds it and no other; that a pointer is never past the
end of its file; and that below `SCAN` the end-of-file mark is set only there
(`EntriesSound`, `EntryOfHolder`).

`TasksImplementProcesses` (in `TasksProofs`) is the refinement: `Tasks` implements
`Processes`, for every size of the table.  `Mapping` gives the variables of
`Processes` slot by slot.  Most steps change nothing there; a blocking call is a
`Wait` and, when its tick wakes somebody, the pass of
`update_waiting_and_sleeping_tasks` is one `Return` of a set of waits.  That every
one of them is allowed rests on `IInv`, above all on `PidDiscipline` (pid and slot
name the same task) and `WaitResult`.

`VirtMemProofs` proves `RecordedPagesPrivate`, `KernelMappingIntact`,
`TablesPrivate`, `BlocksDisjoint` and `FreshBlock` for every size of memory, number
of tasks and areas, every size of program and of block, and `AllocatorHolds`, that
the allocator keeps its promises in every call the kernel makes of it, from the boot
on (`BootStep`, `BootAllocInv`).  `VirtInv` adds to them what they
rest on: the allocator's own invariant; recorded frames and page tables have been
allocated and are one task's only (`Private`); a task that does not exist yet has
nothing (`Fresh`); what is left of the current heap page is unused and behind a
frame no other task has recorded (`HeapOK`), which has to be said of pages that
are not recorded as well, because execvpe clears the entries and keeps the heap
pointers; and each block, as far as it is backed, lies in one page (`BlocksOK`).  `PageExists` says what the
k-th `page_alloc` of a call returns; fork's copies are numbered by their rank among
the pages to copy (`ToCopy`), so that no two get the same page.

`DirsProofs` proves `ListingCorrect` for every number of processes and descriptors
and for every archive in the order of a tree (`TreeOrder`), if programs are
`Disciplined`.  The listing is right because descriptors are: handles in use have
different ones, each in `dirDesc`, so that opendir gives out none of them and the
kernel's end-of-directory mark is that of the one who reads (`Apart`, `Reads`).
`Progress` relates a `DIR` record to the names returned: they are those of the
headers from the start of the directory up to `curPos`, and `prevFile` is the last.
The headers with the same name are in one place (`SameName`), so a name that
differs from the last one is new; the headers of the directory are too (`Between`),
so the first one outside ends it.  `LsAgrees` compares two listings made in different
ways: the headers whose name `ls` prints (`Printed`) are counted in the order of the
archive, and the i-th of them is the one behind the i-th name of readdir.

`TerminalProofs` proves `BufferIsLine`, `LineDelivered`, `EchoIsLine` and
`StatusIntact` for every number of tasks and readers, every set of keys and size
of buffer and screen, and `WokenByEnter` if there is one reader (`OneReader`): the
code has one `keyPressedPtr` for all.  They hold for every keyboard table, NUL and
control characters included (`KeysAssumption`), if the text of the status bar fits in
a row (`TerminalAssumption`).  `InputInv` says that Enter was pressed after the call and that the buffer is
the line typed; the proof of `EchoIsLine` needs also that the line lies in the rows
of text, out of the way of the status bar (`EchoInv`), and `StatusIntact` what
`putc` does to the cursor, for each character of a string.

`ShellProofs` proves, for every number of processes, every archive, and lines and
arrays of any length,

* `ForegroundDone`: the wait of the shell is for its last child, and its result
  is there only if that child has ended;
* `WordsOfLine`: as long as the loop runs, the runs of the line before the position
  `strtok` keeps are in the arrays, one after the other (`Reading`), and a child that
  searches PATH in between cuts nothing in `argv` (`CutCells`);
* `ArgvDelivered`, which is the first half of `RunsCommand`: while a child is not late the
  arrays still hold its line (`Started`), and execvpe copies them faithfully also
  where the words run into `envp`, which is copied on top of them (`CopiedWords`);
* `PwdExists`: the path cd makes starts with a slash (`Rooted`);
* `EnvDelivered`: while nothing has damaged them, the entries of `envp` and `path` in
  use follow each other without a gap, are what the user set, and no two of them set
  the same variable (`Intact`), so that setenv finds the entry it replaces; a child
  that is not late was forked with the variables as they still are (`Equipped`);
* `RunsCommand`: a program that runs is the file whose header `get_elf_file` found
  for the first word, as it stands or after a directory of PATH (`SearchNames`);
* `NotFoundIsAbsent`: a search that ends with nothing has looked for the name as it
  stands and, if PATH names one directory, in that one (`SearchAbsent`).  With several
  the last one decides: `PathSearched` is violated.

The last two rest on what the walk through the archive finds, for every archive:
`octal_decimal` undoes what `get_elf_file` makes of the digits of a size
(`OctalRead`), so the step from a header leads to the next one (`AtHeader`), and the
walk returns the block after a header of that name, or nothing if there is none
(`GetElfFileFinds`).  `ArchiveAssumption` says that an archive is a sequence of
headers with octal digits, none of whose sizes, read as a decimal number, is more
than an `int` holds.  Where a definition recurses (`Value`, `octal_decimal`,
`get_elf_file`, `Tokens`, `getPath`), the recursion goes down in a rank;
`RankRecursion` and `RankInduction` of `NatLemmas` state for functions and sets what
is needed of it, and are proved from the existence of a least number.

Two attempts at a proof showed that an earlier form of a property was true of the
instance only.  `WordsOfLine` lacked its exception.  `EnvDelivered` did not except names
of variables with a "=" in them: setenv then can make two entries for one variable.

Every safety property a passing run checks is stated by a theorem.  Only
model-checked is liveness under fairness (`ReadyTaskRuns`, `SleeperRuns`,
`WaitpidReturns`, `ScanfReturns`, `PromptReturns`), which is out of reach of the
prover.

## Not modelled

The memory limit is counted as the code counts it but no property bounds the
usage: `brk` compares one page with the limit and counts three, fork and execvpe
compare nothing, so the limit only keeps the heap from growing.

Formatting (`printf` turns its arguments into characters before `Console` puts
them on the screen); the clock of the status bar and the attributes of
characters; the fields of ELF segments; hardware setup; the table of system
calls, whose handlers the models call by name; `ps` and `getpid`, which change
nothing; the vendored boot loader; `page_dealloc` and `getSheBang`, which have no
caller; what happens after page 0 has been used for want of pages; what a program
stores in its blocks, beyond the end of the first page included; lines longer than the keyboard buffer; two
readers in scanf at once, whose shared variables the code does not separate;
programs that close descriptors of others.  In
`Shell`, memory is not limited, and a directory descriptor is always free when cd
needs one for a moment; relative file names are looked for as the code does, without
the working directory, and no property says that they are found; and nothing is
promised of a child that executes after the shell has read another line
(`RunsCommand`, `EnvDelivered`) or with variables that have been damaged
(`EnvDelivered`).
`PROJECT.json` lists every part with the reason.

## Plan

What is left, in this order:

1. An abstract specification of a private address space per task, and `VirtMem`
   shown to implement it while memory lasts and areas are recorded.
2. `Dispatch`: `syscall_handler` and its table.
