--------------------------- MODULE TaskRefinement ---------------------------
(***************************************************************************)
(* The task table implements the process calls of module Processes.        *)
(*                                                                         *)
(* A wait returns, for the specification, at the tick that makes the       *)
(* waiter READY; when switch_task resumes it and kwaitpid copies the       *)
(* result to user memory, possibly many ticks later, nothing happens.      *)
(***************************************************************************)
EXTENDS Tasks

SlotOf(p) == p - 1

lifeOf == [p \in 1 .. MAX_TASKS |->
    LET st == STATUS[SlotOf(p)]
    IN  IF st = "FREE" THEN "none" ELSE IF st = "ZOMBIE" THEN "ended"
        ELSE "alive"]

parentPid == [p \in 1 .. MAX_TASKS |->
    LET par == parent[SlotOf(p)] IN IF par = NULL THEN 0 ELSE id[par]]

exitCode == [p \in 1 .. MAX_TASKS |-> exit_status[SlotOf(p)]]

waitArg == [p \in 1 .. MAX_TASKS |->
    LET s == SlotOf(p)
    IN  IF STATUS[s] = "WAITING_ON_PID" THEN pid_waiting_for[s] ELSE -3]

\* What the wait of a program returned, or will return when it is resumed.
waitResult == [p \in 1 .. MAX_TASKS |->
    LET s == SlotOf(p)
    IN  IF STATUS[s] = "READY" /\ frame[s] = "waitpid"
        THEN <<pid_waiting_for[s], waiting_pid_exit_status[s]>>
        ELSE IF status[s] # NoRet THEN <<ret[s], status[s]>>
        ELSE << >>]

Calls == INSTANCE Processes WITH
    MaxPid <- MAX_TASKS, Codes <- ExitCodes, life <- lifeOf,
    parentOf <- parentPid, codeOf <- exitCode, waiting <- waitArg,
    result <- waitResult

\* Whatever the scheduler, the timer and the order of the calls, programs see
\* the process calls of module Processes: pids given out once and in order, a
\* wait that returns only a process that has ended and its exit code, a child
\* that wait() returns to its parent and to nobody else, and at most once.
ImplementsProcesses == Calls!Spec
=============================================================================
