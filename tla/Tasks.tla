------------------------------- MODULE Tasks -------------------------------
(***************************************************************************)
(* The process manager of Deep OS: the task table ready_queue, the timer   *)
(* interrupt with its round-robin scheduler, and the system calls fork,    *)
(* execvpe, exit, waitpid and sleep.                                       *)
(*                                                                         *)
(* Granularity.  Every IDT entry is an interrupt gate (sys/idt.c), so the  *)
(* CPU enters the kernel with interrupts disabled and an entry runs        *)
(* without interruption until it returns to user mode, possibly of another *)
(* task.  Each action below is one such entry, switch_task included.       *)
(*                                                                         *)
(* The keyboard part of the timer interrupt (updateKeyPressEvent) touches  *)
(* only the keyboard's state; module Input models it.                      *)
(***************************************************************************)
EXTENDS Integers, FiniteSetsExt

CONSTANTS
    MAX_TASKS,  \* slots of ready_queue: 100 in include/task.h
    HZ,         \* ticks per second of sleep: 18 in sys/ksleep.c
    SleepRange, \* time * HZ is a uint32_t: 2^32 in the code
    TickRange,  \* timer_tick is a 32-bit counter: 2^32 in the code
    Commands,   \* names under which user programs are executed
    ExitCodes,  \* arguments of exit
    SleepTimes, \* arguments of sleep, in seconds
    WaitArgs    \* arguments of waitpid

\* The name get_next_ready_task compares with, and the other names the boot
\* sequence uses.  init_sh executes the idle loop as "/bin/idle".
IdleName == "bin/idle"
BootPrograms == {"init", "/bin/init_sh", "/bin/idle"}
Programs == BootPrograms \cup Commands

ASSUME MaxTasksAssumption == MAX_TASKS \in Nat \ {0}
ASSUME RangeAssumption ==
    /\ HZ \in Nat \ {0}
    /\ SleepRange \in Nat \ {0}
    /\ TickRange \in Nat \ {0}
    /\ SleepTimes \subseteq Nat
ASSUME CommandsAssumption ==
    /\ Commands \cap BootPrograms = {}
    /\ "/bin/dsh" \in Commands
ASSUME ExitCodesAssumption == ExitCodes \subseteq Nat
ASSUME WaitArgsAssumption == WaitArgs \subseteq -1 .. MAX_TASKS

Slot == 0 .. (MAX_TASKS - 1)
Pid == 0 .. MAX_TASKS       \* 0 is the id of a FREE slot
NULL == -1                  \* a null task_t pointer
AnyChild == -1              \* the pid argument of wait()
NoRet == -2                 \* no result delivered to the program
States == {"FREE", "READY", "WAITING_ON_PID", "SLEEPING", "ZOMBIE"}
Frames == {"none", "fork", "tick", "waitpid", "sleep", "exit"}
Panics == {"none", "TASK LIMIT EXCEEDED", "NO READY TASK", "TRAP"}

VARIABLES
    STATUS, id, parent, new_proc, program_name,        \* fields of task_t,
    exit_status, end_time,                             \* one function from
    pid_waiting_for, time_at_wait,                     \* Slot for each
    waiting_pid_exit_status, sleeping_time,
    frame,        \* what the saved rsp of a task points at: the kernel entry
                  \* it will continue from; "none" while it runs
    ret, status,  \* in user memory: what the last system call of the task
                  \* returned, and the exit status a wait stored
    current_task, next_pid, timer_tick,
    panic         \* the while(1) of the kernel the CPU is caught in

userVars == <<ret, status>>
waitVars == <<pid_waiting_for, time_at_wait, waiting_pid_exit_status>>
procVars == <<id, parent, program_name, next_pid>>
exitVars == <<exit_status, end_time>>
schedVars == <<current_task, frame, new_proc, panic>>
vars == <<STATUS, sleeping_time, timer_tick, userVars, waitVars, procVars,
          exitVars, schedVars>>

-----------------------------------------------------------------------------
(* The task table.                                                         *)

\* initialize_tasking: the boot thread becomes task 1, in slot 0.
Init ==
    /\ STATUS = [s \in Slot |-> IF s = 0 THEN "READY" ELSE "FREE"]
    /\ id = [s \in Slot |-> IF s = 0 THEN 1 ELSE 0]
    /\ program_name = [s \in Slot |-> IF s = 0 THEN "init" ELSE ""]
    /\ parent = [s \in Slot |-> NULL]
    /\ new_proc = [s \in Slot |-> 0]
    /\ exit_status = [s \in Slot |-> 0]
    /\ end_time = [s \in Slot |-> 0]
    /\ pid_waiting_for = [s \in Slot |-> 0]
    /\ time_at_wait = [s \in Slot |-> 0]
    /\ waiting_pid_exit_status = [s \in Slot |-> 0]
    /\ sleeping_time = [s \in Slot |-> 0]
    /\ frame = [s \in Slot |-> "none"]
    /\ ret = [s \in Slot |-> NoRet]
    /\ status = [s \in Slot |-> NoRet]
    /\ current_task = 0
    /\ next_pid = 2
    /\ timer_tick = 0
    /\ panic = "none"

\* Position of slot s in a scan that starts after slot c: the values of i in
\* the loop of get_next_ready_task.
Distance(c, s) == IF s > c THEN s - c - 1 ELSE s - c - 1 + MAX_TASKS

\* The slots the loop can return, and the ones it skips, given the states st.
Schedulable(st) ==
    {s \in Slot : program_name[s] # IdleName /\ st[s] = "READY"}

\* Seeded fault: the scan starts at slot 0 whatever task was running.
ScanFromZero(st) ==
    LET R == Schedulable(st)
    IN  IF R = {} THEN NULL ELSE Min(R)

\* Seeded fault: the loop leaves out slot 0.
ScanSkipsFirst(st) ==
    LET R == Schedulable(st) \ {0}
    IN  IF R = {} THEN NULL
        ELSE CHOOSE s \in R : \A t \in R :
                Distance(current_task, s) <= Distance(current_task, t)

\* Seeded fault: the scan stops one slot short of the task that was running.
ScanOneShort(st) ==
    LET R == Schedulable(st) \ {current_task}
    IN  IF R = {} THEN NULL
        ELSE CHOOSE s \in R : \A t \in R :
                Distance(current_task, s) <= Distance(current_task, t)

\* Seeded fault: any task that is not blocked is taken, zombies included.
ScanTakesZombie(st) ==
    LET R == {s \in Slot : st[s] \in {"READY", "ZOMBIE"}}
    IN  CHOOSE s \in R : \A t \in R :
            Distance(current_task, s) <= Distance(current_task, t)

\* The first READY task after current_task in slot order, current_task
\* itself last; tasks named IdleName only if there is no other, and then
\* the last of them met, READY or not.
get_next_ready_task(st) ==
    LET R == Schedulable(st)
        idle == {s \in Slot : program_name[s] = IdleName}
    IN  IF R # {}
        THEN CHOOSE s \in R : \A t \in R :
                Distance(current_task, s) <= Distance(current_task, t)
        ELSE IF idle # {}
        THEN CHOOSE s \in idle : \A t \in idle :
                Distance(current_task, t) <= Distance(current_task, s)
        ELSE NULL

\* Seeded fault: the slot of a zombie is given to a new task.
ReusableSlots == {s \in Slot : STATUS[s] \in {"FREE", "ZOMBIE"}}

FreeSlots == {s \in Slot : STATUS[s] = "FREE"}

\* Lowest FREE slot; the caller handles FreeSlots = {}.
get_next_free_task == Min(FreeSlots)

get_task(pid) ==
    LET M == {s \in Slot : id[s] = pid}
    IN  IF M = {} THEN NULL ELSE Min(M)

get_children(pid) ==
    {c \in Slot : parent[c] # NULL /\ id[parent[c]] = pid}

-----------------------------------------------------------------------------
(* update_waiting_and_sleeping_tasks: one pass over the slots in ascending *)
(* order.  Only a waiter on an explicit pid can disown the child of        *)
(* another task, so what the pass has disowned before it reaches slot i is *)
(* the targets of those waiters below i.                                   *)

DisownedBefore(i) ==
    {z \in Slot : /\ STATUS[z] = "ZOMBIE"
                  /\ \E j \in Slot : /\ j < i
                                     /\ STATUS[j] = "WAITING_ON_PID"
                                     /\ pid_waiting_for[j] # AnyChild
                                     /\ get_task(pid_waiting_for[j]) = z}

\* Seeded fault: wait() looks at every task instead of its children.
TargetAnyTask(i) ==
    LET Z == {z \in Slot : STATUS[z] = "ZOMBIE"}
    IN  IF pid_waiting_for[i] # AnyChild THEN get_task(pid_waiting_for[i])
        ELSE IF Z = {} THEN NULL ELSE Max(Z)

\* The task slot i waits for.  get_children lists the children with the
\* highest slot first; the while loop walks past the ones that are not
\* zombies and have an end_time after the wait began.
WaitTarget(i) ==
    IF pid_waiting_for[i] # AnyChild THEN get_task(pid_waiting_for[i])
    ELSE LET stop == {c \in get_children(id[i]) \ DisownedBefore(i) :
                        ~ ( /\ STATUS[c] # "ZOMBIE"
                            /\ end_time[c] > time_at_wait[i])}
         IN  IF stop = {} THEN NULL ELSE Max(stop)

\* Seeded fault: a waiter wakes as soon as its target is found.
WokenOnLiveTarget(i) ==
    STATUS[i] = "WAITING_ON_PID" /\ WaitTarget(i) # NULL

\* Seeded fault: only an exit after the wait began is noticed.
WokenByLaterExit(i) ==
    /\ WokenOnLiveTarget(i)
    /\ STATUS[WaitTarget(i)] = "ZOMBIE"
    /\ end_time[WaitTarget(i)] > time_at_wait[i]

Woken(i) ==
    /\ STATUS[i] = "WAITING_ON_PID"
    /\ WaitTarget(i) # NULL
    /\ STATUS[WaitTarget(i)] = "ZOMBIE"

\* Seeded fault: a sleeper wakes only when its time reaches exactly 0.
WakesAtZeroOnly(i) == STATUS[i] = "SLEEPING" /\ sleeping_time[i] - 1 = 0

WakesFromSleep(i) == STATUS[i] = "SLEEPING" /\ sleeping_time[i] - 1 <= 0

update_waiting_and_sleeping_tasks ==
    /\ STATUS' = [i \in Slot |->
                    IF WakesFromSleep(i) \/ Woken(i) THEN "READY"
                    ELSE STATUS[i]]
    /\ sleeping_time' = [i \in Slot |->
                    IF WakesFromSleep(i) THEN 0
                    ELSE IF STATUS[i] = "SLEEPING" THEN sleeping_time[i] - 1
                    ELSE sleeping_time[i]]
    /\ pid_waiting_for' = [i \in Slot |->
                    IF Woken(i) THEN id[WaitTarget(i)]
                    ELSE pid_waiting_for[i]]
    /\ waiting_pid_exit_status' = [i \in Slot |->
                    IF Woken(i) THEN exit_status[WaitTarget(i)]
                    ELSE waiting_pid_exit_status[i]]
    /\ parent' = [z \in Slot |->
                    IF \E i \in Slot : Woken(i) /\ WaitTarget(i) = z
                    THEN NULL ELSE parent[z]]

-----------------------------------------------------------------------------
(* switch_task: save the context of current_task as f unless it is new,    *)
(* pick the next task by the states the handler leaves, load its context   *)
(* and return.  A task parked in kwaitpid then copies the result of the    *)
(* wait to user memory; a new task goes straight to user mode (iretq).     *)

switch_task(f) ==
    LET saved == [frame EXCEPT ![current_task] =
                    IF new_proc[current_task] = 0 THEN f ELSE @]
        n == get_next_ready_task(STATUS')
        calls(s) == s = current_task /\ f # "tick"
        waited(s) == s = n /\ new_proc[s] = 0 /\ saved[s] = "waitpid"
    IN  /\ ret' = [s \in Slot |-> IF waited(s) THEN pid_waiting_for'[s]
                                 ELSE IF calls(s) THEN NoRet ELSE ret[s]]
        /\ status' = [s \in Slot |->
                        IF waited(s) THEN waiting_pid_exit_status'[s]
                        ELSE IF calls(s) THEN NoRet ELSE status[s]]
        /\ IF n = NULL
           THEN /\ panic' = "NO READY TASK"
                /\ frame' = saved
                /\ UNCHANGED <<current_task, new_proc>>
           ELSE /\ current_task' = n
                /\ frame' = [saved EXCEPT ![n] = "none"]
                /\ new_proc' = [new_proc EXCEPT ![n] = 0]
                /\ UNCHANGED panic

-----------------------------------------------------------------------------
(* The system calls.  The running program is in user mode and the kernel   *)
(* is not spinning.                                                        *)

me == current_task
Running == panic = "none"

\* Seeded fault: the idle loop gives up the CPU by calling the kernel.
IdleMayBlock == program_name[me] \notin {"init", "/bin/init_sh", IdleName}

\* Programs other than the boot sequence and the idle loop make system calls
\* in any order.
UserProgram == program_name[me] \notin BootPrograms \cup {IdleName}

\* main of init_sh: fork, then the child executes the idle loop and the
\* parent the shell.
InitShForks == program_name[me] = "/bin/init_sh" /\ ret[me] = NoRet

\* What the running program may pass to execvpe.
ExecArgument(name) ==
    \/ UserProgram /\ name \in Commands
    \/ program_name[me] = "init" /\ name = "/bin/init_sh"
    \/ program_name[me] = "/bin/init_sh" /\ ret[me] = 0 /\ name = "/bin/idle"
    \/ /\ program_name[me] = "/bin/init_sh"
       /\ ret[me] \notin {0, NoRet}
       /\ name = "/bin/dsh"

\* sys_fork and kfork.  The memory is copied before *rval is written, so the
\* child reads the 0 that fork() of libc initialised.
Fork ==
    /\ Running
    /\ UserProgram \/ InitShForks
    /\ FreeSlots # {}
    /\ LET c == get_next_free_task IN
        /\ STATUS' = [STATUS EXCEPT ![c] = "READY"]
        /\ id' = [id EXCEPT ![c] = next_pid]
        /\ parent' = [parent EXCEPT ![c] = me]
        /\ new_proc' = [new_proc EXCEPT ![c] = 1]
        /\ program_name' = [program_name EXCEPT ![c] = program_name[me]]
        /\ frame' = [frame EXCEPT ![c] = "fork"]
        /\ ret' = [ret EXCEPT ![me] = next_pid, ![c] = 0]
        /\ status' = [status EXCEPT ![me] = NoRet, ![c] = NoRet]
    /\ next_pid' = next_pid + 1
    /\ UNCHANGED <<waitVars, exitVars, sleeping_time, timer_tick,
                   current_task, panic>>

\* get_next_free_task finds no slot and spins with interrupts disabled.
ForkNoSlot ==
    /\ Running
    /\ UserProgram \/ InitShForks
    /\ FreeSlots = {}
    /\ panic' = "TASK LIMIT EXCEEDED"
    /\ UNCHANGED <<STATUS, sleeping_time, timer_tick, userVars, waitVars,
                   procVars, exitVars, current_task, frame, new_proc>>

\* A program divides by 0 or touches memory it may not touch.  The handlers
\* of the exceptions print and spin with interrupts disabled: the fault of one
\* program stops all of them.
Trap ==
    /\ Running
    /\ UserProgram
    /\ panic' = "TRAP"
    /\ UNCHANGED <<STATUS, sleeping_time, timer_tick, userVars, waitVars,
                   procVars, exitVars, current_task, frame, new_proc>>

\* kexecvpe finds the file and enters it; the user memory is fresh.
Execvpe(name) ==
    /\ Running
    /\ ExecArgument(name)
    /\ program_name' = [program_name EXCEPT ![me] = name]
    /\ ret' = [ret EXCEPT ![me] = NoRet]
    /\ status' = [status EXCEPT ![me] = NoRet]
    /\ UNCHANGED <<STATUS, sleeping_time, timer_tick, waitVars, id, parent,
                   next_pid, exitVars, schedVars>>

\* kexecvpe finds no file and returns -1; the files of the boot sequence are
\* part of the image.
ExecvpeNotFound ==
    /\ Running
    /\ UserProgram
    /\ ret' = [ret EXCEPT ![me] = -1]
    /\ status' = [status EXCEPT ![me] = NoRet]
    /\ UNCHANGED <<STATUS, sleeping_time, timer_tick, waitVars, procVars,
                   exitVars, schedVars>>

\* exitSyscall and kexit.
Exit(code) ==
    /\ Running
    /\ UserProgram
    /\ exit_status' = [exit_status EXCEPT ![me] = code]
    /\ STATUS' = [STATUS EXCEPT ![me] = "ZOMBIE"]
    /\ end_time' = [end_time EXCEPT ![me] = timer_tick]
    /\ UNCHANGED <<sleeping_time, timer_tick, waitVars, procVars>>
    /\ switch_task("exit")

\* sys_waitpid and kwaitpid up to its switch_task; the rest of kwaitpid runs
\* when switch_task resumes the task.
Waitpid(pid) ==
    /\ Running
    /\ UserProgram
    /\ STATUS' = [STATUS EXCEPT ![me] = "WAITING_ON_PID"]
    /\ pid_waiting_for' = [pid_waiting_for EXCEPT ![me] = pid]
    /\ time_at_wait' = [time_at_wait EXCEPT ![me] = timer_tick]
    /\ UNCHANGED <<sleeping_time, timer_tick, waiting_pid_exit_status,
                   procVars, exitVars>>
    /\ switch_task("waitpid")

\* sys_sleep and ksleep: time * 18 is computed in 32 bits.
Sleep(time) ==
    /\ Running
    /\ UserProgram
    /\ sleeping_time' = [sleeping_time EXCEPT
                            ![me] = (time * HZ) % SleepRange]
    /\ STATUS' = [STATUS EXCEPT ![me] = "SLEEPING"]
    /\ UNCHANGED <<timer_tick, waitVars, procVars, exitVars>>
    /\ switch_task("sleep")

\* timer_handler; TICK_PER_SECOND is 1, so every tick schedules.
Tick ==
    /\ Running
    /\ timer_tick' = (timer_tick + 1) % TickRange
    /\ update_waiting_and_sleeping_tasks
    /\ UNCHANGED <<id, program_name, next_pid, time_at_wait, exitVars>>
    /\ switch_task("tick")

\* The while(1) after an error message, with interrupts disabled.
Spin == ~ Running /\ UNCHANGED vars

Next ==
    \/ Fork
    \/ ForkNoSlot
    \/ Trap
    \/ \E name \in Programs : Execvpe(name)
    \/ ExecvpeNotFound
    \/ \E code \in ExitCodes : Exit(code)
    \/ \E pid \in WaitArgs : Waitpid(pid)
    \/ \E time \in SleepTimes : Sleep(time)
    \/ Tick
    \/ Spin

\* The timer keeps interrupting the CPU while it runs user programs.
Spec == Init /\ [][Next]_vars /\ WF_vars(Tick)
-----------------------------------------------------------------------------
(* Properties.                                                             *)

\* Type invariant of the task table and of what the programs see.
TypeOK ==
    /\ STATUS \in [Slot -> States]
    /\ id \in [Slot -> Pid]
    /\ parent \in [Slot -> Slot \cup {NULL}]
    /\ new_proc \in [Slot -> {0, 1}]
    /\ program_name \in [Slot -> Programs \cup {""}]
    /\ exit_status \in [Slot -> ExitCodes \cup {0}]
    /\ end_time \in [Slot -> 0 .. (TickRange - 1)]
    /\ pid_waiting_for \in [Slot -> Pid \cup {AnyChild}]
    /\ time_at_wait \in [Slot -> 0 .. (TickRange - 1)]
    /\ waiting_pid_exit_status \in [Slot -> ExitCodes \cup {0}]
    /\ sleeping_time \in [Slot -> 0 .. (SleepRange - 1)]
    /\ frame \in [Slot -> Frames]
    /\ ret \in [Slot -> Pid \cup {-1, NoRet}]
    /\ status \in [Slot -> ExitCodes \cup {0, NoRet}]
    /\ current_task \in Slot
    /\ next_pid \in 2 .. (MAX_TASKS + 1)
    /\ timer_tick \in 0 .. (TickRange - 1)
    /\ panic \in Panics

\* Slots are taken in order and never given back, so the pid a task got from
\* next_pid names it for ever: get_task(pid) and a parent pointer never
\* reach another task than the one they were meant for, and a parent is
\* older than its children.
PidDiscipline ==
    \A s \in Slot :
        /\ STATUS[s] = "FREE" <=> s + 1 >= next_pid
        /\ id[s] = IF STATUS[s] = "FREE" THEN 0 ELSE s + 1
        /\ parent[s] # NULL => STATUS[s] # "FREE" /\ parent[s] < s

\* The saved context of task s agrees with its state.
ContextOf(s) ==
    /\ s = me /\ Running => STATUS[s] = "READY" /\ frame[s] = "none"
    /\ new_proc[s] = 1 <=> frame[s] = "fork"
    /\ STATUS[s] = "FREE" => frame[s] = "none"
    /\ STATUS[s] = "READY" /\ s # me =>
            frame[s] \in {"fork", "tick", "waitpid", "sleep"}
    /\ STATUS[s] = "WAITING_ON_PID" => frame[s] = "waitpid"
    /\ STATUS[s] = "SLEEPING" => frame[s] = "sleep"
    /\ STATUS[s] = "ZOMBIE" => frame[s] = "exit"

\* The frame switch_task saved for a task is the one its state says it will
\* continue from: the running task is READY and has none, a blocked task is
\* parked in the call that blocked it, a zombie in kexit, and new_proc is
\* set exactly for the tasks whose frame is the copy kfork made.
SavedContext == \A s \in Slot : ContextOf(s)

\* A task that kwaitpid has woken, and a program that got a status from a
\* wait, hold the pid and the exit status of a task that did exit with it.
WaitResult ==
    \A s \in Slot :
        /\ STATUS[s] = "READY" /\ frame[s] = "waitpid" =>
            \E t \in Slot : /\ id[t] = pid_waiting_for[s]
                            /\ STATUS[t] = "ZOMBIE"
                            /\ exit_status[t] = waiting_pid_exit_status[s]
        /\ status[s] # NoRet =>
            \E t \in Slot : /\ id[t] = ret[s]
                            /\ STATUS[t] = "ZOMBIE"
                            /\ exit_status[t] = status[s]

\* What init_sh sets up: until it forks, task 1 is the only task and never
\* blocks; from then on slot 1 holds a task that is READY for ever, the idle
\* loop or the copy of init_sh about to execute it.
IdleLoop ==
    IF next_pid = 2
    THEN /\ STATUS[0] = "READY"
         /\ program_name[0] \in {"init", "/bin/init_sh"}
         /\ ret[0] = NoRet
         /\ frame[0] \in {"none", "tick"}
    ELSE /\ 1 \in Slot
         /\ STATUS[1] = "READY"
         /\ \/ program_name[1] = "/bin/idle"
            \/ program_name[1] = "/bin/init_sh" /\ ret[1] = 0
         /\ frame[1] \in {"none", "fork", "tick"}

\* The scheduler always finds a task: init_sh leaves behind an idle loop
\* that never blocks, whatever the other programs do.
AlwaysReadyTask == panic # "NO READY TASK"

\* "Once a zombie, always a zombie" (scheduler.c): nothing changes the exit
\* status or the pid of a task that has exited, and kexit never returns.
ZombieForever ==
    [][\A s \in Slot : STATUS[s] = "ZOMBIE" =>
        /\ STATUS'[s] = "ZOMBIE"
        /\ exit_status'[s] = exit_status[s]
        /\ id'[s] = id[s]
        /\ current_task' = s => current_task = s]_vars

\* Round robin: whenever the CPU changes hands, every other READY task
\* comes strictly closer to its turn, so none is overtaken for ever and a
\* task waits for at most MAX_TASKS - 1 turns of others.
NoOvertaking ==
    [][\A s \in Schedulable(STATUS) :
        current_task' \notin {current_task, s} =>
            Distance(current_task', s) < Distance(current_task, s)]_vars

\* wait() returns a child of the caller that has exited, and disowns it, so
\* that no later wait() of anyone returns the same child again.
WaitReapsOwnChild ==
    [][\A s \in Slot :
        /\ STATUS[s] = "WAITING_ON_PID"
        /\ pid_waiting_for[s] = AnyChild
        /\ STATUS'[s] = "READY"
        => \E t \in Slot : /\ id[t] = pid_waiting_for'[s]
                           /\ parent[t] = s
                           /\ STATUS[t] = "ZOMBIE"
                           /\ parent'[t] = NULL]_vars

\* Every READY program other than one named IdleName gets the CPU.
ReadyTaskRuns ==
    \A s \in Slot :
        s \in Schedulable(STATUS) ~> current_task = s \/ ~ Running

\* Every sleeper runs again.
SleeperRuns ==
    \A s \in Slot :
        STATUS[s] = "SLEEPING" ~>
            (current_task = s /\ STATUS[s] = "READY") \/ ~ Running

\* waitpid returns once the task it names has exited.
WaitpidReturns ==
    \A s \in Slot :
        (/\ STATUS[s] = "WAITING_ON_PID"
         /\ \E t \in Slot : id[t] = pid_waiting_for[s] /\ STATUS[t] = "ZOMBIE") ~>
            (current_task = s /\ STATUS[s] = "READY") \/ ~ Running

\* "Waits for a child to end" (libc/wait.c): wait() returns once some child
\* has ended.
WaitReturnsWhenAChildEnds ==
    \A s \in Slot :
        (/\ STATUS[s] = "WAITING_ON_PID"
         /\ pid_waiting_for[s] = AnyChild
         /\ \E t \in Slot : parent[t] = s /\ STATUS[t] = "ZOMBIE") ~>
            STATUS[s] = "READY" \/ ~ Running
=============================================================================
