----------------------------- MODULE Processes -----------------------------
(***************************************************************************)
(* What the process system calls of Deep OS promise to programs: fork,     *)
(* exit, wait and waitpid, without a task table, a scheduler or a timer.   *)
(* Module Tasks implements it (TaskRefinement); module Shell is written on *)
(* top of it.                                                              *)
(***************************************************************************)
EXTENDS Integers, FiniteSetsExt

CONSTANTS
    MaxPid,    \* as many processes as can ever be created
    Codes      \* exit codes

Pids == 1 .. MaxPid
NoPid == 0             \* the parent of a process nobody may wait for
Anyone == -1           \* the argument of wait()
NotWaiting == -3
NoResult == << >>

VARIABLES
    life,      \* life[p]: "none", "alive" or "ended"
    parentOf,  \* parentOf[p]: who may get p from wait()
    codeOf,    \* codeOf[p]: the argument of exit
    waiting,   \* waiting[p]: the argument of the wait p is blocked in
    result     \* result[p]: the pid and the code the last call of p
               \* returned, if that was a wait

vars == <<life, parentOf, codeOf, waiting, result>>

Init ==
    /\ life = [p \in Pids |-> IF p = 1 THEN "alive" ELSE "none"]
    /\ parentOf = [p \in Pids |-> NoPid]
    /\ codeOf = [p \in Pids |-> 0]
    /\ waiting = [p \in Pids |-> NotWaiting]
    /\ result = [p \in Pids |-> NoResult]

\* The process p is not blocked, so it may make a call.
Runs(p) == life[p] = "alive" /\ waiting[p] = NotWaiting

NewPids == {p \in Pids : life[p] = "none"}

\* Pids are given out in ascending order and never again.
Fork(p) ==
    /\ Runs(p)
    /\ NewPids # {}
    /\ LET c == Min(NewPids) IN
        /\ life' = [life EXCEPT ![c] = "alive"]
        /\ parentOf' = [parentOf EXCEPT ![c] = p]
        /\ result' = [result EXCEPT ![p] = NoResult, ![c] = NoResult]
    /\ UNCHANGED <<codeOf, waiting>>

\* Any call that concerns no other process: execvpe, sleep.
Call(p) ==
    /\ Runs(p)
    /\ result' = [result EXCEPT ![p] = NoResult]
    /\ UNCHANGED <<life, parentOf, codeOf, waiting>>

Exit(p, code) ==
    /\ Runs(p)
    /\ life' = [life EXCEPT ![p] = "ended"]
    /\ codeOf' = [codeOf EXCEPT ![p] = code]
    /\ result' = [result EXCEPT ![p] = NoResult]
    /\ UNCHANGED <<parentOf, waiting>>

\* wait() and waitpid(): the caller blocks even if the answer is known.
Wait(p, arg) ==
    /\ Runs(p)
    /\ waiting' = [waiting EXCEPT ![p] = arg]
    /\ result' = [result EXCEPT ![p] = NoResult]
    /\ UNCHANGED <<life, parentOf, codeOf>>

\* The wait of p may return t: the process it named, or a child of its own.
MayReturn(p, t) ==
    /\ waiting[p] # NotWaiting
    /\ life[t] = "ended"
    /\ waiting[p] = t \/ (waiting[p] = Anyone /\ parentOf[t] = p)

\* At one tick of the timer some of the waits return, target[p] to p; the
\* processes returned have no parent from then on, so that wait() returns
\* each of them once.
Return(target) ==
    /\ \A p \in DOMAIN target : MayReturn(p, target[p])
    /\ result' = [p \in Pids |->
                    IF p \in DOMAIN target
                    THEN <<target[p], codeOf[target[p]]>> ELSE result[p]]
    /\ waiting' = [p \in Pids |->
                    IF p \in DOMAIN target THEN NotWaiting ELSE waiting[p]]
    /\ parentOf' = [t \in Pids |->
                    IF \E p \in DOMAIN target : target[p] = t THEN NoPid
                    ELSE parentOf[t]]
    /\ UNCHANGED <<life, codeOf>>

Waiters == {p \in Pids : waiting[p] # NotWaiting}

Next ==
    \/ \E p \in Pids :
        \/ Fork(p)
        \/ Call(p)
        \/ \E code \in Codes : Exit(p, code)
        \/ \E arg \in Pids \cup {0, Anyone} : Wait(p, arg)
    \/ \E W \in SUBSET Waiters : \E target \in [W -> Pids] : Return(target)

Spec == Init /\ [][Next]_vars
=============================================================================
