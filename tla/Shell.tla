------------------------------- MODULE Shell -------------------------------
(***************************************************************************)
(* The shell of Deep OS (bin/dsh/dsh.c) and the programs it starts: the    *)
(* command loop, the words of a line, the builtin commands, fork, execvpe  *)
(* with its search along PATH (sys/kexecvpe.c), exit and waitpid, on top   *)
(* of the process calls of module Processes.                               *)
(*                                                                         *)
(* main of a program gets argv and envp as pointers into its task_t, where *)
(* the two arrays follow each other.  The task table is part of the        *)
(* kernel, mapped in every address space: after fork the child of the      *)
(* shell reads its arguments from the arrays of the shell, which the shell *)
(* goes on using.  Each action is a system call, or a step of the shell    *)
(* that writes these arrays.                                               *)
(***************************************************************************)
EXTENDS Archive

CONSTANTS
    MaxPid, Codes,   \* as in Processes
    Lines,           \* what may be typed
    MaxLines,        \* bound: how many lines the user types
    ARGV, ENVP,      \* length of argv and envp in task_t: 32 each
    PATHS            \* and of path, which follows them: 32

MAX_WORDS == ARGV + ENVP    \* the loop of dsh stops after 64 words
ShellPid == 1
CELLS == MAX_WORDS + PATHS
Cell == 0 .. (CELLS - 1)    \* argv, envp and path

ASSUME ShellAssumption ==
    /\ MaxPid \in Nat \ {0}
    /\ ARGV \in Nat \ {0, 1}
    /\ ENVP \in Nat \ {0, 1}
    /\ PATHS \in Nat \ {0}
    /\ \A line \in Lines :
        line \in Seq(STRING) /\ \A i \in DOMAIN line : line[i] # Null[1]

VARIABLES
    life, parentOf, codeOf, waiting, result,
    lines,     \* how many lines have been typed
    pc,        \* where the shell is
    command,   \* the line without the final &, and the position strtok keeps
    pos,
    bg, argc,  \* variables of dsh
    child,     \* the process forked last
    cells,     \* argv, envp and path of the shell: strings or Null
    pwd,       \* in the task of the shell
    task,      \* task[c]: the program the shell forked as process c
    stopped,   \* TRUE: the kernel spins
    wanted,    \* ghost: the variables as the user set them
    spoiled    \* ghost: the shell's copy of them has been damaged

procVars == <<life, parentOf, codeOf, waiting, result>>
lineVars == <<lines, command, pos, bg, argc>>
ghostVars == <<wanted, spoiled>>
vars == <<procVars, lineVars, pc, child, cells, pwd, task, stopped, ghostVars>>

Proc == INSTANCE Processes

Semicolon == ";"            \* between the directories of PATH
Equals == "="               \* between the name and the value of a variable
PATH == <<"PA", "TH">>
InitialPath == PATH \o <<Equals>> \o <<"/", "bin">>

\* A task that is no program of the shell.
NoTask == [state |-> "none", fg |-> FALSE, words |-> << >>, asked |-> {},
           late |-> FALSE, argv |-> << >>, env |-> << >>, file |-> NoFile,
           clean |-> FALSE]

\* dsh sets envp[0] and envp[1] before its loop.
Init ==
    /\ Proc!Init
    /\ pc = "prompt"
    /\ lines = 0
    /\ command = << >> /\ pos = 1 /\ bg = FALSE /\ argc = 0
    /\ child = 0
    /\ cells = [i \in Cell |-> IF i = ARGV THEN InitialPath ELSE Null]
    /\ pwd = Slash
    /\ task = [c \in Proc!Pids |-> NoTask]
    /\ stopped = FALSE
    /\ wanted = {InitialPath}
    /\ spoiled = FALSE

-----------------------------------------------------------------------------
(* Reading a line.                                                         *)

\* The strings from index i up to the first null pointer.
ListFrom(array, i) ==
    LET nulls == {j \in i .. (CELLS - 1) : array[j] = Null}
    IN  [k \in 1 .. (Min(nulls \cup {CELLS}) - i) |-> array[i + k - 1]]

env == ListFrom(cells, ARGV)

\* scanf and trim; a line of spaces is passed over; the last & is cut off.
\* From here on a child that has not executed its program yet finds the words
\* of another line in argv.
ReadLine(line) ==
    LET text == trim(line) IN
    /\ ~ stopped
    /\ pc = "prompt"
    /\ text # << >>
    /\ lines < MaxLines
    /\ lines' = lines + 1
    /\ bg' = (Last(text) = "&")
    /\ command' = IF bg' THEN Front(text) ELSE text
    /\ pos' = 1
    /\ argc' = 0
    /\ pc' = "words"
    /\ task' = [c \in DOMAIN task |->
                    IF task[c].state = "forked"
                    THEN [task[c] EXCEPT !.late = TRUE] ELSE task[c]]
    /\ UNCHANGED <<procVars, child, cells, pwd, stopped, ghostVars>>

\* Seeded fault: a line that has no argument keeps the words of the last one.
NextWordNoNull ==
    LET r == strtok(command, pos, Space) IN
    /\ ~ stopped
    /\ pc = "words"
    /\ cells' = [cells EXCEPT ![argc] = IF r.token = Null THEN @ ELSE r.token]
    /\ pos' = r.pos
    /\ spoiled' = (spoiled \/ argc >= ARGV)
    /\ IF argc > 0 /\ r.token = Null
       THEN pc' = "command" /\ UNCHANGED argc
       ELSE /\ argc' = argc + 1
            /\ pc' = IF argc = MAX_WORDS THEN "command" ELSE "words"
    /\ UNCHANGED <<procVars, lines, command, bg, child, pwd, task, stopped,
                   wanted>>

\* One strtok and its assignment to argv[argc]; the first result is not
\* compared with NULL.  A word beyond the end of argv lands in envp.
NextWord ==
    LET r == strtok(command, pos, Space) IN
    /\ ~ stopped
    /\ pc = "words"
    /\ cells' = [cells EXCEPT ![argc] = r.token]
    /\ pos' = r.pos
    /\ spoiled' = (spoiled \/ argc >= ARGV)
    /\ IF argc > 0 /\ r.token = Null
       THEN pc' = "command" /\ UNCHANGED argc
       ELSE /\ argc' = argc + 1
            /\ pc' = IF argc = MAX_WORDS THEN "command" ELSE "words"
    /\ UNCHANGED <<procVars, lines, command, bg, child, pwd, task, stopped,
                   wanted>>

-----------------------------------------------------------------------------
(* The builtin commands, and the faults of dsh that stop the kernel.       *)

Builtins == {<<"setenv">>, <<"help">>, <<"env">>, <<"cd">>, <<"sh">>}

\* The line is a command of this name, and the kernel runs.
At(name) == ~ stopped /\ pc = "command" /\ cells[0] = name

\* Bound: there is an entry for setenv.  With all of envp and path in use it
\* writes behind them, into pwd.
HasEntry(var) ==
    \E i \in ARGV .. (CELLS - 1) : cells[i] = Null \/ startsWith(cells[i], var)

\* Seeded fault: setenv always adds an entry.
EntryAtEnd(var) ==
    CHOOSE i \in ARGV .. (CELLS - 1) :
        cells[i] = Null /\ \A j \in ARGV .. (i - 1) : cells[j] # Null

\* The index at which setenv stops: an entry that starts with the name, or
\* the end.
EntryFor(var) ==
    CHOOSE i \in ARGV .. (CELLS - 1) :
        /\ cells[i] = Null \/ startsWith(cells[i], var)
        /\ \A j \in ARGV .. (i - 1) :
                cells[j] # Null /\ ~ startsWith(cells[j], var)

\* Ghost: variable var is set to val.
Assign(var, val) ==
    {v \in wanted : ~ startsWith(v, var \o <<Equals>>)}
        \cup {var \o <<Equals>> \o val}

Setenv ==
    LET var == cells[1]
        i == EntryFor(var)
    IN
    /\ At(<<"setenv">>)
    /\ argc = 3
    /\ HasEntry(var)
    /\ cells' = [cells EXCEPT ![i] = var \o <<Equals>> \o cells[2]]
    /\ wanted' = Assign(var, cells[2])
    /\ spoiled' = \/ spoiled
                  \/ Equals \in Range(var)
                  \/ cells[i] # Null /\ ~ startsWith(cells[i], var \o <<Equals>>)
    /\ pc' = "prompt"
    /\ UNCHANGED <<procVars, lineVars, child, pwd, task, stopped>>

\* Seeded fault: cd takes any path.
DirExistsAlways(path) == TRUE

\* opendir finds the directory: the root, or a header with that name.
DirExists(path) ==
    \/ path = Slash
    \/ \E k \in DOMAIN Contents : Contents[k].name = Tail(path)

dirnameWithEndSlash(dir) == IF endsWith(dir, Slash) THEN dir ELSE dir \o Slash

getAbsoluteFilePath(dir, fname) ==
    IF startsWith(fname, Slash) THEN dirnameWithEndSlash(fname)
    ELSE dirnameWithEndSlash(dir) \o fname

\* cd and sys_cd.
Cd ==
    LET dir == dirnameWithEndSlash(getAbsoluteFilePath(pwd, cells[1])) IN
    /\ At(<<"cd">>)
    /\ argc = 2
    /\ pwd' = IF DirExists(dir) THEN dir ELSE pwd
    /\ pc' = "prompt"
    /\ UNCHANGED <<procVars, lineVars, child, cells, task, stopped, ghostVars>>

\* help, env, and a builtin command with the wrong number of words.
PrintsOnly ==
    /\ \/ At(<<"help">>) \/ At(<<"env">>)
       \/ At(<<"setenv">>) /\ argc # 3
       \/ At(<<"cd">>) /\ argc # 2
       \/ At(<<"sh">>) /\ argc > 1
    /\ pc' = "prompt"
    /\ UNCHANGED <<procVars, lineVars, child, cells, pwd, task, stopped,
                   ghostVars>>

\* A null pointer is read or written: argv[0] of the line "&", or argv[1] of
\* the line "sh".  The handler of the page fault spins.
ShellFaults ==
    /\ At(Null) \/ (At(<<"sh">>) /\ argc = 1)
    /\ stopped' = TRUE
    /\ UNCHANGED <<procVars, lineVars, pc, child, cells, pwd, task, ghostVars>>

-----------------------------------------------------------------------------
(* Other commands: a process of its own.                                   *)

IsProgram == ~ stopped /\ pc = "command" /\ cells[0] \notin Builtins \cup {Null}

\* fork.  Ghosts: the words the user typed and the variables the user set.
ShellForks ==
    /\ IsProgram
    /\ Proc!Fork(ShellPid)
    /\ child' = Min(Proc!NewPids)
    /\ task' = [task EXCEPT ![child'] =
                    [NoTask EXCEPT !.state = "forked",
                                   !.fg = ~ bg,
                                   !.words = Runs(command, Space),
                                   !.asked = wanted]]
    /\ pc' = IF bg THEN "prompt" ELSE "forked"
    /\ UNCHANGED <<lineVars, cells, pwd, stopped, ghostVars>>

\* The task table is full: get_next_free_task spins.
NoTaskLeft ==
    /\ IsProgram
    /\ Proc!NewPids = {}
    /\ stopped' = TRUE
    /\ UNCHANGED <<procVars, lineVars, pc, child, cells, pwd, task, ghostVars>>

\* Seeded fault: the shell waits for the process it forked first.
WaitsForFirst ==
    /\ ~ stopped
    /\ pc = "forked"
    /\ Proc!Wait(ShellPid, ShellPid + 1)
    /\ pc' = "waiting"
    /\ UNCHANGED <<lineVars, child, cells, pwd, task, stopped, ghostVars>>

\* waitpid; child may have ended by now.
ShellWaits ==
    /\ ~ stopped
    /\ pc = "forked"
    /\ Proc!Wait(ShellPid, child)
    /\ pc' = "waiting"
    /\ UNCHANGED <<lineVars, child, cells, pwd, task, stopped, ghostVars>>

\* The timer interrupt that ends the wait.
Tick ==
    /\ ~ stopped
    /\ \E t \in Proc!Pids : Proc!Return([p \in {ShellPid} |-> t])
    /\ UNCHANGED <<lineVars, pc, child, cells, pwd, task, stopped, ghostVars>>

\* Seeded fault: waitpid of libc does not wait.
ResumesAtOnce ==
    /\ ~ stopped
    /\ pc = "waiting"
    /\ pc' = "prompt"
    /\ UNCHANGED <<procVars, lineVars, child, cells, pwd, task, stopped,
                   ghostVars>>

ShellResumes ==
    /\ ~ stopped
    /\ pc = "waiting"
    /\ result[ShellPid] # Proc!NoResult
    /\ pc' = "prompt"
    /\ UNCHANGED <<procVars, lineVars, child, cells, pwd, task, stopped,
                   ghostVars>>

-----------------------------------------------------------------------------
(* kexecvpe, called by a child of the shell.                               *)

addSlash(path) == dirnameWithEndSlash(path)

\* The entries of an environment that getPath takes apart, and the list of
\* directories it makes of them.
PathEntries(e) ==
    {i \in DOMAIN e : startsWith(e[i], PATH \o <<Equals>>)}

DirsIn(entry) ==
    LET dirs == Tokens(SubSeq(entry, Len(PATH) + 2, Len(entry)), Semicolon)
    IN  [k \in DOMAIN dirs |-> addSlash(dirs[k])]

getPath(e) ==
    LET path[n \in 0 .. Len(e)] ==
            IF n = 0 THEN << >>
            ELSE IF n \in PathEntries(e) THEN path[n - 1] \o DirsIn(e[n])
            ELSE path[n - 1]
    IN  path[Len(e)]

\* The file itself, or the result of the last iteration of the loop over
\* PATH, which goes on after a file has been found.
Search(name, e) ==
    LET direct == get_elf_file(name)
        path == getPath(e)
    IN  IF direct # NoFile \/ path = << >> THEN direct
        ELSE get_elf_file(Last(path) \o name)

\* getPath works on the strings of the shell.  The one in envp[0] is in a
\* page that shell and child share; one that setenv has allocated may be in a
\* page that fork copied.
Cuts(name, e) ==
    IF get_elf_file(name) # NoFile THEN {cells}
    ELSE {[i \in Cell |->
            IF i - ARGV + 1 \in K THEN CutByTokens(cells[i], Semicolon) ELSE cells[i]]
          : K \in {S \in SUBSET PathEntries(e) : 1 \in PathEntries(e) => 1 \in S}}

\* The search reaches an entry of PATH without directories: addSlash gets a
\* null pointer.
EmptyPath(name) ==
    /\ get_elf_file(name) = NoFile
    /\ \E i \in PathEntries(env) : DirsIn(env[i]) = << >>

\* Seeded fault: the loop over argv stops one argument early.
CopiedOneShort(words, e) ==
    [i \in Cell |->
        IF i >= ARGV /\ i - ARGV < Len(e) THEN e[i - ARGV + 1]
        ELSE IF i = ARGV + Len(e) THEN Null
        ELSE IF i + 1 < Len(words) THEN words[i + 1] ELSE Null]

\* kexecvpe copies the arguments, whose end may overwrite the start of envp,
\* and then the environment.
Copied(words, e) ==
    [i \in Cell |->
        IF i >= ARGV /\ i - ARGV < Len(e) THEN e[i - ARGV + 1]
        ELSE IF i = ARGV + Len(e) THEN Null
        ELSE IF i < Len(words) THEN words[i + 1] ELSE Null]

\* Child c executes the words it finds in the arrays of the shell.
Execvpe(c) ==
    LET words == ListFrom(cells, 0)
        file == Search(words[1], env)
        copy == Copied(words, env)
        found == IF file = NoFile THEN "failed"
                 ELSE IF Parses(file - 1) THEN "runs" ELSE "garbled"
    IN
    /\ ~ stopped
    /\ task[c].state = "forked"
    /\ words # << >>
    /\ ~ EmptyPath(words[1])
    /\ Proc!Call(c)
    /\ task' = [task EXCEPT ![c] =
                    [@ EXCEPT !.state = found,
                              !.argv = [i \in DOMAIN words |-> copy[i - 1]],
                              !.env = ListFrom(copy, ARGV),
                              !.file = file,
                              !.clean = ~ task[c].late /\ ~ spoiled]]
    /\ cells' \in Cuts(words[1], env)
    /\ spoiled' = (spoiled \/ cells' # cells)
    /\ UNCHANGED <<lineVars, pc, child, pwd, stopped, wanted>>

Garbage == <<"?">>

\* Child c is late: the words in the arrays are in memory of the shell that c
\* may not have.  It reads whatever is there instead and finds no such file.
ExecvpeGarbage(c) ==
    /\ ~ stopped
    /\ task[c].state = "forked"
    /\ task[c].late
    /\ ~ EmptyPath(Garbage)
    /\ Proc!Call(c)
    /\ task' = [task EXCEPT ![c].state = "failed"]
    /\ cells' \in Cuts(Garbage, env)
    /\ spoiled' = (spoiled \/ cells' # cells)
    /\ UNCHANGED <<lineVars, pc, child, pwd, stopped, wanted>>

\* A page fault stops the kernel: c is late and reads a page it does not
\* have, PATH has an entry without directories, or an executable that
\* Parse_ELF_Executable refused is entered, whatever exeFormat holds.
ProgramFaults(c) ==
    /\ ~ stopped
    /\ life[c] = "alive"
    /\ \/ task[c].state = "forked" /\ task[c].late
       \/ task[c].state = "forked" /\ cells[0] # Null /\ EmptyPath(cells[0])
       \/ task[c].state = "garbled"
    /\ stopped' = TRUE
    /\ UNCHANGED <<procVars, lineVars, pc, child, cells, pwd, task, ghostVars>>

\* The program ends; a copy of the shell whose execvpe failed calls exit(1).
ProgramExits(c, code) ==
    /\ ~ stopped
    /\ task[c].state \in {"runs", "garbled", "failed"}
    /\ task[c].state = "failed" => code = 1
    /\ Proc!Exit(c, code)
    /\ task' = [task EXCEPT ![c] = NoTask]
    /\ UNCHANGED <<lineVars, pc, child, cells, pwd, stopped, ghostVars>>

\* The kernel spins with interrupts disabled.
Spin == stopped /\ UNCHANGED vars

Next ==
    \/ \E line \in Lines : ReadLine(line)
    \/ NextWord
    \/ Setenv \/ Cd \/ PrintsOnly \/ ShellFaults
    \/ ShellForks \/ NoTaskLeft \/ ShellWaits \/ ShellResumes
    \/ Tick
    \/ \E c \in Proc!Pids :
        \/ Execvpe(c)
        \/ ExecvpeGarbage(c)
        \/ ProgramFaults(c)
        \/ \E code \in Codes : ProgramExits(c, code)
    \/ Spin

\* The timer interrupts, and the shell gets the CPU when it is READY.
Spec == Init /\ [][Next]_vars /\ WF_vars(Tick) /\ WF_vars(ShellResumes)
-----------------------------------------------------------------------------
(* Properties.                                                             *)

\* argv holds the words, if they fit in argv and envp exactly these, otherwise
\* as many as the loop of dsh takes.  One that lies in envp and looks like PATH
\* may have been cut off by a child that searches it.
HoldsWords(argv, words) ==
    /\ Len(words) <= MAX_WORDS => Len(argv) = Len(words)
    /\ \A i \in 1 .. Min({Len(words), MAX_WORDS + 1}) :
        \/ argv[i] = words[i]
        \/ i > ARGV /\ argv[i] = CutByTokens(words[i], Semicolon)

\* When the loop of dsh has taken a line apart, argv holds exactly its words,
\* ended by a null pointer, whatever was in the array before and whatever
\* other programs do meanwhile, also where the words run on into envp.
WordsOfLine ==
    pc = "command" =>
        /\ HoldsWords(ListFrom(cells, 0), Runs(command, Space))
        /\ argc = Min({Max({1, Len(Runs(command, Space))}), MAX_WORDS + 1})

\* A program started without & has ended before the shell reads another line:
\* while it has not, the shell is between fork and the return of waitpid.
ForegroundDone ==
    \A c \in Proc!Pids :
        task[c].fg /\ life[c] # "ended" =>
            child = c /\ pc \in {"forked", "waiting"}

\* Reference: the files a command with this name may mean.
Meant(name, dirs) ==
    {k \in DOMAIN Contents :
        \/ Contents[k].name = AfterFirst(name)
        \/ \E d \in Range(dirs) : Contents[k].name = AfterFirst(d \o name)}

\* A program that has been started in time, before the shell read another
\* line, gets the words of its line as arguments.
ArgvDelivered ==
    \A c \in Proc!Pids :
        task[c].state = "runs" /\ ~ task[c].late =>
            HoldsWords(task[c].argv, task[c].words)

\* Such a program gets its words, and it is a file of the archive that its
\* first word names, as a path or in a directory of PATH.
RunsCommand ==
    /\ ArgvDelivered
    /\ \A c \in Proc!Pids :
        task[c].state = "runs" /\ ~ task[c].late =>
            FileAt(task[c].file - 1) \cap
                Meant(task[c].words[1], getPath(task[c].env)) # {}

\* "command not found" is the truth for a program started in time whose PATH
\* names at most one directory: that directory has no such file, and the word
\* is the path of none.  With more directories it need not be: PathSearched.
NotFoundIsAbsent ==
    \A c \in Proc!Pids :
        task[c].state = "failed" /\ ~ task[c].late =>
            LET path == getPath(task[c].env)
            IN  Len(path) <= 1 => Meant(task[c].words[1], path) = {}

\* "setenv PATH <Semi colon separated path list>" and "If your binaries are
\* present in some other directory, add it to PATH" (printHelp of dsh): a
\* command that was not found is in no directory of the PATH the user set.
PathSearched ==
    \A c \in Proc!Pids :
        task[c].state = "failed" /\ ~ task[c].late =>
            \A v \in task[c].asked : Meant(task[c].words[1], getPath(<<v>>)) = {}

\* A program gets the environment as the user set it with setenv, unless it
\* was started late or the shell's strings were damaged before: by a line
\* with more words than argv holds, by setenv of a name that begins another
\* or has a "=" in it, or by the search of another child along a PATH of
\* several directories.
EnvDelivered ==
    \A c \in Proc!Pids :
        task[c].clean => Range(task[c].env) = task[c].asked

\* The working directory is the root or the path of a directory entry of the
\* archive, with its final slash: what opens it later finds it.
PwdExists ==
    \/ pwd = Slash
    \/ \E k \in DOMAIN Contents :
        endsWith(pwd, Slash) /\ pwd = Slash \o Contents[k].name

\* When the program the shell waits for has ended, the prompt comes back.
PromptReturns ==
    pc = "waiting" /\ life[child] = "ended" ~> pc = "prompt" \/ stopped
=============================================================================
