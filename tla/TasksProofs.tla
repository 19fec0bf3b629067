---------------------------- MODULE TasksProofs ----------------------------
(***************************************************************************)
(* Proofs about Tasks, for every number of slots and every set of          *)
(* programs, exit codes, sleep times and wait arguments, and that it       *)
(* implements Processes.                                                   *)
(***************************************************************************)
EXTENDS TaskRefinement, NatLemmas

USE DEF NULL, AnyChild, NoRet

-----------------------------------------------------------------------------
(* Extremal elements.                                                      *)

\* Min of a non-empty set of slots is its least element, as the ascending
\* scans of get_next_free_task and get_task need it.
LEMMA SlotMin ==
    ASSUME NEW S \in SUBSET Slot, S # {}
    PROVE  Min(S) \in S /\ \A t \in S : Min(S) <= t
<1>1. S \subseteq Nat
  BY MaxTasksAssumption DEF Slot
<1>2. \E x \in S : \A y \in S : x <= y
  BY <1>1, NatLeast
<1> QED
  BY <1>2 DEF Min

\* Max of a non-empty set of slots is its greatest element: the head of the
\* list get_children builds.
LEMMA SlotMax ==
    ASSUME NEW S \in SUBSET Slot, S # {}
    PROVE  Max(S) \in S /\ \A t \in S : Max(S) >= t
<1> DEFINE T == {MAX_TASKS - s : s \in S}
<1>1. T \subseteq Nat /\ T # {}
  BY MaxTasksAssumption DEF Slot
<1>2. PICK m \in T : \A y \in T : m <= y
  BY <1>1, NatLeast
<1>3. PICK x \in S : m = MAX_TASKS - x
  BY <1>2
<1>4. \A y \in S : x >= y
  <2> TAKE y \in S
  <2>1. m <= MAX_TASKS - y
    BY <1>2
  <2> QED
    BY <1>3, <2>1, MaxTasksAssumption DEF Slot
<1> QED
  BY <1>3, <1>4 DEF Max

\* The distance of a scan is an index of the loop, the last one for the slot
\* the scan starts after.
LEMMA DistanceType ==
    ASSUME NEW c \in Slot, NEW s \in Slot
    PROVE  /\ Distance(c, s) \in Slot
           /\ Distance(c, s) = MAX_TASKS - 1 <=> s = c
  BY MaxTasksAssumption DEF Slot, Distance

\* A non-empty set of slots has one nearest to c in scan order.
LEMMA Nearest ==
    ASSUME NEW c \in Slot, NEW S \in SUBSET Slot, S # {}
    PROVE  \E s \in S : \A t \in S : Distance(c, s) <= Distance(c, t)
<1> DEFINE T == {Distance(c, s) : s \in S}
<1>1. \A s \in S : Distance(c, s) \in Slot
  BY DistanceType
<1>2. T \subseteq Nat /\ T # {}
  <2>1. Slot \subseteq Nat
    BY MaxTasksAssumption DEF Slot
  <2> QED
    BY <1>1, <2>1
<1>3. PICK m \in T : \A y \in T : m <= y
  BY <1>2, NatLeast
<1> QED
  BY <1>3

\* What get_next_ready_task returns when some task is READY: the nearest of
\* them after current_task.
LEMMA NextReady ==
    ASSUME TypeOK, NEW st, Schedulable(st) # {}
    PROVE  /\ get_next_ready_task(st) \in Schedulable(st)
           /\ \A t \in Schedulable(st) :
                Distance(current_task, get_next_ready_task(st))
                    <= Distance(current_task, t)
<1> DEFINE R == Schedulable(st)
<1>1. R \in SUBSET Slot /\ R # {} /\ current_task \in Slot
  BY DEF Schedulable, TypeOK
<1>2. get_next_ready_task(st) =
        CHOOSE s \in R : \A t \in R :
            Distance(current_task, s) <= Distance(current_task, t)
  BY <1>1 DEF get_next_ready_task
<1>3. \E s \in R : \A t \in R :
            Distance(current_task, s) <= Distance(current_task, t)
  BY <1>1, Nearest
<1> QED
  BY <1>2, <1>3
-----------------------------------------------------------------------------
(* The inductive invariant.                                                *)

\* The safety invariants together with IdleLoop, which none of them implies
\* and without which the scheduler could run out of READY tasks.
IInv ==
    /\ TypeOK
    /\ PidDiscipline
    /\ SavedContext
    /\ WaitResult
    /\ IdleLoop
    /\ AlwaysReadyTask

\* A task is found by the pid it got from next_pid, and only that task.
LEMMA GetTask ==
    ASSUME TypeOK, PidDiscipline, NEW pid
    PROVE  /\ get_task(pid) \in Slot \cup {NULL}
           /\ get_task(pid) # NULL => id[get_task(pid)] = pid
<1> DEFINE M == {s \in Slot : id[s] = pid}
<1>1. CASE M = {}
  BY <1>1 DEF get_task
<1>2. CASE M # {}
  <2>1. Min(M) \in M
    BY <1>2, SlotMin
  <2>2. get_task(pid) = Min(M)
    BY <1>2 DEF get_task
  <2> QED
    BY <2>1, <2>2
<1> QED
  BY <1>1, <1>2

\* What the pass of update_waiting_and_sleeping_tasks looks at for a waiter:
\* a slot or nothing; for wait(), one of the caller's children.
LEMMA WaitTargetType ==
    ASSUME TypeOK, PidDiscipline, NEW i \in Slot
    PROVE  /\ WaitTarget(i) \in Slot \cup {NULL}
           /\ pid_waiting_for[i] # AnyChild /\ WaitTarget(i) # NULL =>
                id[WaitTarget(i)] = pid_waiting_for[i]
           /\ pid_waiting_for[i] = AnyChild /\ WaitTarget(i) # NULL =>
                parent[WaitTarget(i)] # NULL
                /\ id[parent[WaitTarget(i)]] = id[i]
<1>1. CASE pid_waiting_for[i] # AnyChild
  BY <1>1, GetTask DEF WaitTarget
<1>2. CASE pid_waiting_for[i] = AnyChild
  <2> DEFINE stop == {c \in get_children(id[i]) \ DisownedBefore(i) :
                        ~ ( /\ STATUS[c] # "ZOMBIE"
                            /\ end_time[c] > time_at_wait[i])}
  <2>1. stop \in SUBSET Slot /\ stop \subseteq get_children(id[i])
    BY DEF get_children
  <2>2. WaitTarget(i) = IF stop = {} THEN NULL ELSE Max(stop)
    BY <1>2 DEF WaitTarget
  <2> HIDE DEF stop
  <2>3. CASE stop = {}
    BY <1>2, <2>2, <2>3
  <2>4. CASE stop # {}
    <3>1. WaitTarget(i) \in stop
      BY <2>1, <2>2, <2>4, SlotMax
    <3> QED
      BY <1>2, <2>1, <3>1 DEF get_children
  <2> QED
    BY <2>3, <2>4
<1> QED
  BY <1>1, <1>2

\* The idle loop, or init before it has forked, is always there to be run.
LEMMA IdleSchedulable ==
    ASSUME TypeOK, IdleLoop, NEW st \in [Slot -> States],
           \A s \in Slot : STATUS[s] = "READY" /\ program_name[s] \in BootPrograms
                            => st[s] = "READY"
    PROVE  Schedulable(st) # {}
<1>1. 0 \in Slot
  BY MaxTasksAssumption DEF Slot
<1>2. CASE next_pid = 2
  BY <1>1, <1>2 DEF IdleLoop, Schedulable, BootPrograms, IdleName
<1>3. CASE next_pid # 2
  BY <1>3 DEF IdleLoop, Schedulable, BootPrograms, IdleName
<1> QED
  BY <1>2, <1>3

-----------------------------------------------------------------------------
(* switch_task.                                                            *)

\* Where switch_task(f) goes, and what it leaves, when some task is READY.
LEMMA SwitchEffect ==
    ASSUME IInv, Running, NEW f \in Frames \ {"none", "fork"},
           Schedulable(STATUS') # {},
           switch_task(f)
    PROVE  /\ current_task' \in Schedulable(STATUS')
           /\ \A t \in Schedulable(STATUS') :
                Distance(current_task, current_task')
                    <= Distance(current_task, t)
           /\ panic' = "none"
           /\ frame' = [s \in Slot |-> IF s = current_task' THEN "none"
                                      ELSE IF s = current_task THEN f
                                      ELSE frame[s]]
           /\ new_proc' = [new_proc EXCEPT ![current_task'] = 0]
           /\ \A s \in Slot :
                \/ /\ s = current_task' /\ s # current_task
                   /\ frame[s] = "waitpid"
                   /\ ret'[s] = pid_waiting_for'[s]
                   /\ status'[s] = waiting_pid_exit_status'[s]
                \/ /\ s = current_task' /\ s = current_task /\ f = "waitpid"
                   /\ ret'[s] = pid_waiting_for'[s]
                   /\ status'[s] = waiting_pid_exit_status'[s]
                \/ /\ s = current_task /\ f # "tick"
                   /\ ret'[s] = NoRet /\ status'[s] = NoRet
                \/ ret'[s] = ret[s] /\ status'[s] = status[s]
           /\ DOMAIN ret' = Slot /\ DOMAIN status' = Slot
           /\ ret' = [s \in Slot |-> ret'[s]]
           /\ status' = [s \in Slot |-> status'[s]]
<1> DEFINE n == get_next_ready_task(STATUS')
<1>1. /\ n \in Schedulable(STATUS')
      /\ \A t \in Schedulable(STATUS') :
            Distance(current_task, n) <= Distance(current_task, t)
  BY NextReady DEF IInv
<1>2. n \in Slot /\ n # NULL
  BY <1>1, MaxTasksAssumption DEF Schedulable, Slot
<1>3. current_task \in Slot /\ new_proc[current_task] = 0
  BY DEF IInv, TypeOK, SavedContext, ContextOf, me
<1>4. TypeOK
  BY DEF IInv
<1> DEFINE saved == [frame EXCEPT ![current_task] = f]
<1>5. /\ current_task' = n
      /\ frame' = [saved EXCEPT ![n] = "none"]
      /\ new_proc' = [new_proc EXCEPT ![n] = 0]
      /\ panic' = panic
      /\ ret' = [s \in Slot |->
                    IF s = n /\ new_proc[s] = 0 /\ saved[s] = "waitpid"
                    THEN pid_waiting_for'[s]
                    ELSE IF s = current_task /\ f # "tick" THEN NoRet
                    ELSE ret[s]]
      /\ status' = [s \in Slot |->
                    IF s = n /\ new_proc[s] = 0 /\ saved[s] = "waitpid"
                    THEN waiting_pid_exit_status'[s]
                    ELSE IF s = current_task /\ f # "tick" THEN NoRet
                    ELSE status[s]]
  BY <1>2, <1>3 DEF switch_task
<1> HIDE DEF n
<1>6. /\ frame' = [s \in Slot |-> IF s = n THEN "none"
                                 ELSE IF s = current_task THEN f
                                 ELSE frame[s]]
      /\ \A s \in Slot : saved[s] = IF s = current_task THEN f ELSE frame[s]
  BY <1>2, <1>3, <1>4, <1>5 DEF TypeOK
<1> HIDE DEF saved
<1> QED
  BY <1>1, <1>2, <1>3, <1>5, <1>6 DEF Running

-----------------------------------------------------------------------------
(* exit, waitpid and sleep: the caller leaves the READY state as st and is *)
(* parked in frame f.                                                      *)

\* The state and the frame that belong together.
Parks(f, st) ==
    \/ f = "exit" /\ st = "ZOMBIE"
    \/ f = "waitpid" /\ st = "WAITING_ON_PID"
    \/ f = "sleep" /\ st = "SLEEPING"

\* A blocking call finds another task to run and keeps every part of the
\* invariant that is not about the fields the call itself fills in.
LEMMA BlockingCall ==
    ASSUME IInv, Running, UserProgram, NEW f, NEW st, Parks(f, st),
           STATUS' = [STATUS EXCEPT ![me] = st],
           UNCHANGED procVars,
           switch_task(f)
    PROVE  /\ STATUS' \in [Slot -> States]
           /\ current_task' \in Slot /\ current_task' # current_task
           /\ frame' \in [Slot -> Frames]
           /\ new_proc' \in [Slot -> {0, 1}]
           /\ panic' = "none"
           /\ PidDiscipline'
           /\ SavedContext'
           /\ IdleLoop'
           /\ \A s \in Slot :
                \/ /\ STATUS[s] = "READY" /\ frame[s] = "waitpid" /\ s # me
                   /\ ret'[s] = pid_waiting_for'[s]
                   /\ status'[s] = waiting_pid_exit_status'[s]
                \/ ret'[s] = NoRet /\ status'[s] = NoRet
                \/ ret'[s] = ret[s] /\ status'[s] = status[s]
           /\ ret' = [s \in Slot |-> ret'[s]]
           /\ status' = [s \in Slot |-> status'[s]]
<1>1. /\ f \in Frames \ {"none", "fork"}
      /\ st \in States \ {"READY", "FREE"}
  BY DEF Parks, Frames, States
<1>2. TypeOK /\ IdleLoop /\ PidDiscipline /\ SavedContext
  BY DEF IInv
<1>3. me \in Slot /\ STATUS[me] = "READY" /\ new_proc[me] = 0
  BY <1>2 DEF TypeOK, SavedContext, ContextOf, me
<1>4. STATUS' \in [Slot -> States]
  BY <1>1, <1>2, <1>3 DEF TypeOK
<1>5. \A s \in Slot : STATUS'[s] = IF s = me THEN st ELSE STATUS[s]
  BY <1>2, <1>3 DEF TypeOK
<1>6. Schedulable(STATUS') # {}
  <2>1. \A s \in Slot : STATUS[s] = "READY" /\ program_name[s] \in BootPrograms
                            => STATUS'[s] = "READY"
    BY <1>5 DEF UserProgram
  <2> QED
    BY <1>2, <1>4, <2>1, IdleSchedulable
<1>7. /\ current_task' \in Slot
      /\ STATUS'[current_task'] = "READY"
      /\ panic' = "none"
      /\ frame' = [s \in Slot |-> IF s = current_task' THEN "none"
                                 ELSE IF s = current_task THEN f
                                 ELSE frame[s]]
      /\ new_proc' = [new_proc EXCEPT ![current_task'] = 0]
  BY <1>1, <1>6, SwitchEffect DEF Schedulable
<1>8. current_task' # current_task
  BY <1>1, <1>3, <1>5, <1>7 DEF me
<1>9. \A s \in Slot :
        \/ /\ STATUS[s] = "READY" /\ frame[s] = "waitpid" /\ s # me
           /\ ret'[s] = pid_waiting_for'[s]
           /\ status'[s] = waiting_pid_exit_status'[s]
        \/ ret'[s] = NoRet /\ status'[s] = NoRet
        \/ ret'[s] = ret[s] /\ status'[s] = status[s]
  BY <1>1, <1>5, <1>6, <1>7, <1>8, SwitchEffect DEF me
<1>10. /\ ret' = [s \in Slot |-> ret'[s]]
       /\ status' = [s \in Slot |-> status'[s]]
  BY <1>1, <1>6, SwitchEffect
<1>11. /\ frame' \in [Slot -> Frames]
       /\ new_proc' \in [Slot -> {0, 1}]
  BY <1>1, <1>2, <1>7 DEF TypeOK, Frames
<1>12. PidDiscipline'
  BY <1>1, <1>2, <1>3, <1>5 DEF PidDiscipline, procVars
<1>13. SavedContext'
  <2> SUFFICES ASSUME NEW s \in Slot
               PROVE  ContextOf(s)'
    BY DEF SavedContext
  <2>1. CASE s = current_task'
    <3>1. STATUS'[s] = "READY" /\ frame'[s] = "none" /\ new_proc'[s] = 0
      BY <1>2, <1>7, <2>1 DEF TypeOK
    <3> QED
      BY <2>1, <3>1 DEF me, ContextOf
  <2>2. CASE s = current_task
    <3>1. STATUS'[s] = st /\ frame'[s] = f /\ new_proc'[s] = 0
      BY <1>2, <1>3, <1>5, <1>7, <1>8, <2>2 DEF me, TypeOK
    <3> QED
      BY <1>8, <2>2, <3>1 DEF me, Parks, ContextOf
  <2>3. CASE s # current_task /\ s # current_task'
    <3>1. STATUS'[s] = STATUS[s] /\ frame'[s] = frame[s] /\ new_proc'[s] = new_proc[s]
      BY <1>2, <1>5, <1>7, <2>3 DEF me, TypeOK
    <3> QED
      BY <1>2, <2>3, <3>1 DEF SavedContext, ContextOf, me
  <2> QED
    BY <2>1, <2>2, <2>3
<1>14. IdleLoop'
  <2>1. 0 \in Slot
    BY MaxTasksAssumption DEF Slot
  <2>2. \A s \in Slot : program_name[s] \in BootPrograms => s # me
    BY DEF UserProgram
  <2>3. CASE next_pid = 2
    <3>1. STATUS'[0] = "READY" /\ frame'[0] \in {"none", "tick"} /\ ret'[0] = NoRet
      BY <1>2, <1>5, <1>7, <1>9, <2>1, <2>2, <2>3 DEF IdleLoop, BootPrograms, me
    <3> QED
      BY <1>2, <2>3, <3>1 DEF IdleLoop, procVars
  <2>4. CASE next_pid # 2
    <3>1. 1 \in Slot /\ 1 # me
      BY <1>2, <2>2, <2>4 DEF IdleLoop, BootPrograms
    <3>2. STATUS'[1] = "READY" /\ frame'[1] \in {"none", "fork", "tick"}
      BY <1>2, <1>5, <1>7, <2>4, <3>1 DEF IdleLoop, me
    <3>3. ret'[1] = ret[1]
      BY <1>1, <1>2, <1>6, <2>4, <3>1, SwitchEffect DEF IdleLoop, me
    <3> QED
      BY <1>2, <2>4, <3>1, <3>2, <3>3 DEF IdleLoop, procVars, Slot
  <2> QED
    BY <2>3, <2>4
<1> QED
  BY <1>4, <1>7, <1>8, <1>9, <1>10, <1>11, <1>12, <1>13, <1>14

\* A blocking call that writes only the caller's own wait and exit fields
\* keeps the whole invariant.
LEMMA BlockingStep ==
    ASSUME IInv, Running, UserProgram, NEW f, NEW st, Parks(f, st),
           STATUS' = [STATUS EXCEPT ![me] = st],
           UNCHANGED <<procVars, timer_tick, waiting_pid_exit_status>>,
           exit_status' \in [Slot -> ExitCodes \cup {0}],
           end_time' \in [Slot -> 0 .. (TickRange - 1)],
           pid_waiting_for' \in [Slot -> Pid \cup {AnyChild}],
           time_at_wait' \in [Slot -> 0 .. (TickRange - 1)],
           sleeping_time' \in [Slot -> 0 .. (SleepRange - 1)],
           \A s \in Slot \ {me} : /\ exit_status'[s] = exit_status[s]
                                  /\ pid_waiting_for'[s] = pid_waiting_for[s],
           switch_task(f)
    PROVE  IInv'
<1>1. TypeOK /\ PidDiscipline /\ WaitResult
  BY DEF IInv
<1>2. me \in Slot /\ STATUS[me] = "READY"
  BY DEF IInv, TypeOK, SavedContext, ContextOf, me
<1>3. UNCHANGED procVars
  OBVIOUS
<1>4. /\ STATUS' \in [Slot -> States]
      /\ current_task' \in Slot /\ current_task' # current_task
      /\ frame' \in [Slot -> Frames]
      /\ new_proc' \in [Slot -> {0, 1}]
      /\ panic' = "none"
      /\ PidDiscipline'
      /\ SavedContext'
      /\ IdleLoop'
  BY <1>3, BlockingCall
<1>5. \A s \in Slot :
        \/ /\ STATUS[s] = "READY" /\ frame[s] = "waitpid" /\ s # me
           /\ ret'[s] = pid_waiting_for'[s]
           /\ status'[s] = waiting_pid_exit_status'[s]
        \/ ret'[s] = NoRet /\ status'[s] = NoRet
        \/ ret'[s] = ret[s] /\ status'[s] = status[s]
  BY <1>3, BlockingCall
<1>6. /\ ret' = [s \in Slot |-> ret'[s]]
      /\ status' = [s \in Slot |-> status'[s]]
  BY <1>3, BlockingCall
<1>7. TypeOK'
  <2>1. /\ \A s \in Slot : ret'[s] \in Pid \cup {-1, NoRet}
        /\ \A s \in Slot : status'[s] \in ExitCodes \cup {0, NoRet}
    BY <1>1, <1>5 DEF TypeOK
  <2>2. /\ ret' \in [Slot -> Pid \cup {-1, NoRet}]
        /\ status' \in [Slot -> ExitCodes \cup {0, NoRet}]
    BY <1>6, <2>1
  <2> QED
    BY <1>1, <1>4, <2>2 DEF TypeOK, procVars, Panics
<1>8. WaitResult'
  <2>1. \A s \in Slot : STATUS'[s] = IF s = me THEN st ELSE STATUS[s]
    BY <1>1, <1>2 DEF TypeOK
  <2>2. \A t \in Slot : STATUS[t] = "ZOMBIE" =>
            /\ STATUS'[t] = "ZOMBIE"
            /\ exit_status'[t] = exit_status[t]
            /\ id'[t] = id[t]
    BY <1>2, <2>1 DEF procVars
  <2>3. \A s \in Slot : STATUS[s] = "READY" /\ frame[s] = "waitpid" /\ s # me =>
            \E t \in Slot : /\ id'[t] = pid_waiting_for'[s]
                            /\ STATUS'[t] = "ZOMBIE"
                            /\ exit_status'[t] = waiting_pid_exit_status'[s]
    BY <1>1, <2>2 DEF WaitResult
  <2>4. \A s \in Slot : STATUS'[s] = "READY" /\ frame'[s] = "waitpid" =>
            STATUS[s] = "READY" /\ frame[s] = "waitpid" /\ s # me
    <3>1. st # "READY"
      BY DEF Parks
    <3>2. \A s \in Slot : frame'[s] = "waitpid" => frame[s] = "waitpid" \/ s = me
      <4>1. f \in Frames \ {"none", "fork"}
        BY DEF Parks, Frames
      <4>2. Schedulable(STATUS') # {}
        <5>1. \A s \in Slot : STATUS[s] = "READY" /\ program_name[s] \in BootPrograms
                                => STATUS'[s] = "READY"
          BY <2>1 DEF UserProgram
        <5> QED
          BY <1>1, <1>4, <5>1, IdleSchedulable DEF IInv
      <4> QED
        BY <4>1, <4>2, SwitchEffect DEF me
    <3> QED
      BY <2>1, <3>1, <3>2
  <2>5. \A s \in Slot : status'[s] # NoRet =>
            \E t \in Slot : /\ id'[t] = ret'[s]
                            /\ STATUS'[t] = "ZOMBIE"
                            /\ exit_status'[t] = status'[s]
    <3> SUFFICES ASSUME NEW s \in Slot, status'[s] # NoRet
                 PROVE  \E t \in Slot : /\ id'[t] = ret'[s]
                                        /\ STATUS'[t] = "ZOMBIE"
                                        /\ exit_status'[t] = status'[s]
      OBVIOUS
    <3>1. CASE ret'[s] = ret[s] /\ status'[s] = status[s]
      BY <1>1, <2>2, <3>1 DEF WaitResult
    <3>2. CASE /\ STATUS[s] = "READY" /\ frame[s] = "waitpid" /\ s # me
               /\ ret'[s] = pid_waiting_for'[s]
               /\ status'[s] = waiting_pid_exit_status'[s]
      BY <2>3, <3>2
    <3> QED
      BY <1>5, <3>1, <3>2
  <2> QED
    BY <2>3, <2>4, <2>5 DEF WaitResult
<1> QED
  BY <1>4, <1>7, <1>8 DEF IInv, AlwaysReadyTask

\* kexit keeps the invariant.
LEMMA ExitStep ==
    ASSUME IInv, NEW code \in ExitCodes, Exit(code)
    PROVE  IInv'
<1>1. TypeOK
  BY DEF IInv
<1>2. me \in Slot
  BY <1>1 DEF TypeOK, me
<1>3. /\ exit_status' \in [Slot -> ExitCodes \cup {0}]
      /\ end_time' \in [Slot -> 0 .. (TickRange - 1)]
      /\ \A s \in Slot \ {me} : exit_status'[s] = exit_status[s]
  BY <1>1, <1>2 DEF Exit, TypeOK
<1> QED
  BY <1>1, <1>3, BlockingStep DEF Exit, Parks, TypeOK, waitVars

\* kwaitpid, up to the switch, keeps the invariant.
LEMMA WaitpidStep ==
    ASSUME IInv, NEW pid \in WaitArgs, Waitpid(pid)
    PROVE  IInv'
<1>1. TypeOK
  BY DEF IInv
<1>2. me \in Slot
  BY <1>1 DEF TypeOK, me
<1>3. pid \in Pid \cup {AnyChild}
  BY WaitArgsAssumption, MaxTasksAssumption DEF Pid
<1>4. /\ pid_waiting_for' \in [Slot -> Pid \cup {AnyChild}]
      /\ time_at_wait' \in [Slot -> 0 .. (TickRange - 1)]
      /\ \A s \in Slot \ {me} : pid_waiting_for'[s] = pid_waiting_for[s]
  BY <1>1, <1>2, <1>3 DEF Waitpid, TypeOK
<1> QED
  BY <1>1, <1>4, BlockingStep DEF Waitpid, Parks, TypeOK, exitVars

\* ksleep keeps the invariant.
LEMMA SleepStep ==
    ASSUME IInv, NEW time \in SleepTimes, Sleep(time)
    PROVE  IInv'
<1>1. TypeOK
  BY DEF IInv
<1>2. me \in Slot
  BY <1>1 DEF TypeOK, me
<1>3. (time * HZ) % SleepRange \in 0 .. (SleepRange - 1)
  <2>1. time * HZ \in Nat
    BY RangeAssumption
  <2> QED
    BY <2>1, RangeAssumption
<1>4. sleeping_time' \in [Slot -> 0 .. (SleepRange - 1)]
  BY <1>1, <1>2, <1>3 DEF Sleep, TypeOK
<1> QED
  BY <1>1, <1>4, BlockingStep DEF Sleep, Parks, TypeOK, exitVars, waitVars

-----------------------------------------------------------------------------
(* fork and execvpe.                                                       *)

\* kfork keeps the invariant: the child gets the first free slot, the next
\* pid and a context of its own.
LEMMA ForkStep ==
    ASSUME IInv, Fork
    PROVE  IInv'
<1> DEFINE c == get_next_free_task
<1>1. TypeOK /\ PidDiscipline /\ SavedContext /\ WaitResult /\ IdleLoop
  BY DEF IInv
<1>2. me \in Slot /\ STATUS[me] = "READY" /\ frame[me] = "none"
  BY <1>1 DEF TypeOK, SavedContext, ContextOf, me, Fork
<1>3. c \in Slot /\ STATUS[c] = "FREE" /\ \A t \in FreeSlots : c <= t
  <2>1. FreeSlots \in SUBSET Slot /\ FreeSlots # {}
    BY DEF FreeSlots, Fork
  <2> QED
    BY <2>1, SlotMin DEF FreeSlots, get_next_free_task
<1>4. c + 1 = next_pid
  <2>1. c + 1 >= next_pid /\ next_pid \in 2 .. (MAX_TASKS + 1)
    BY <1>1, <1>3 DEF PidDiscipline, TypeOK
  <2>2. next_pid - 1 \in Slot
    BY <1>3, <2>1, MaxTasksAssumption DEF Slot
  <2>3. STATUS[next_pid - 1] = "FREE"
    BY <1>1, <2>1, <2>2 DEF PidDiscipline
  <2>4. c <= next_pid - 1
    BY <1>3, <2>2, <2>3 DEF FreeSlots
  <2> QED
    BY <1>3, <2>1, <2>4, MaxTasksAssumption DEF Slot
<1>5. c # me
  BY <1>2, <1>3
<1>a. /\ next_pid \in 2 .. (MAX_TASKS + 1) /\ next_pid \in Int
      /\ c \in Int /\ 0 <= c /\ c < MAX_TASKS
      /\ me \in Int
  <2>1. next_pid \in 2 .. (MAX_TASKS + 1)
    BY <1>1 DEF TypeOK
  <2> QED
    BY <1>2, <1>3, <2>1, MaxTasksAssumption DEF Slot
<1>6. /\ STATUS' = [STATUS EXCEPT ![c] = "READY"]
      /\ id' = [id EXCEPT ![c] = next_pid]
      /\ parent' = [parent EXCEPT ![c] = me]
      /\ new_proc' = [new_proc EXCEPT ![c] = 1]
      /\ program_name' = [program_name EXCEPT ![c] = program_name[me]]
      /\ frame' = [frame EXCEPT ![c] = "fork"]
      /\ ret' = [ret EXCEPT ![me] = next_pid, ![c] = 0]
      /\ status' = [status EXCEPT ![me] = NoRet, ![c] = NoRet]
      /\ next_pid' = next_pid + 1
      /\ UNCHANGED <<waitVars, exitVars, sleeping_time, timer_tick,
                     current_task, panic>>
  BY DEF Fork
<1>7. panic = "none"
  BY DEF Fork, Running
<1> HIDE DEF c
<1>8. TypeOK'
  <2>1. next_pid \in Pid /\ next_pid' \in 2 .. (MAX_TASKS + 1)
    BY <1>a, <1>4, <1>6, MaxTasksAssumption DEF Pid
  <2>2. 0 \in Pid
    BY MaxTasksAssumption DEF Pid
  <2> QED
    BY <1>1, <1>2, <1>3, <1>6, <2>1, <2>2
    DEF TypeOK, States, Frames, waitVars, exitVars
<1>9. PidDiscipline'
  <2> SUFFICES ASSUME NEW s \in Slot
               PROVE  /\ STATUS'[s] = "FREE" <=> s + 1 >= next_pid'
                      /\ id'[s] = IF STATUS'[s] = "FREE" THEN 0 ELSE s + 1
                      /\ parent'[s] # NULL =>
                            STATUS'[s] # "FREE" /\ parent'[s] < s
    BY DEF PidDiscipline
  <2>1. CASE s = c
    <3>1. me < c
      <4>1. ~ (me + 1 >= next_pid)
        BY <1>1, <1>2 DEF PidDiscipline
      <4> QED
        BY <1>a, <1>4, <4>1
    <3>2. STATUS'[s] = "READY" /\ id'[s] = next_pid /\ parent'[s] = me
      BY <1>1, <1>3, <1>6, <2>1 DEF TypeOK
    <3> QED
      BY <1>3, <1>4, <1>6, <2>1, <3>1, <3>2, MaxTasksAssumption DEF Slot
  <2>2. CASE s # c
    <3>1. STATUS'[s] = STATUS[s] /\ id'[s] = id[s] /\ parent'[s] = parent[s]
      BY <1>1, <1>6, <2>2 DEF TypeOK
    <3>2. s + 1 >= next_pid <=> s + 1 >= next_pid'
      BY <1>3, <1>4, <1>6, <2>2, MaxTasksAssumption DEF Slot
    <3> QED
      BY <1>1, <3>1, <3>2 DEF PidDiscipline
  <2> QED
    BY <2>1, <2>2
<1>10. SavedContext'
  <2> SUFFICES ASSUME NEW s \in Slot
               PROVE  ContextOf(s)'
    BY DEF SavedContext
  <2>1. CASE s = c
    <3>1. STATUS'[s] = "READY" /\ frame'[s] = "fork" /\ new_proc'[s] = 1
      BY <1>1, <1>3, <1>6, <2>1 DEF TypeOK
    <3> QED
      BY <1>5, <1>6, <2>1, <3>1 DEF me, ContextOf
  <2>2. CASE s # c
    <3>1. STATUS'[s] = STATUS[s] /\ frame'[s] = frame[s] /\ new_proc'[s] = new_proc[s]
      BY <1>1, <1>6, <2>2 DEF TypeOK
    <3> QED
      BY <1>1, <1>6, <3>1 DEF SavedContext, ContextOf, me, Running
  <2> QED
    BY <2>1, <2>2
<1>11. WaitResult'
  <2>1. \A t \in Slot : STATUS[t] = "ZOMBIE" =>
            STATUS'[t] = "ZOMBIE" /\ id'[t] = id[t]
    BY <1>1, <1>3, <1>6 DEF TypeOK
  <2>2. \A s \in Slot : STATUS'[s] = "READY" /\ frame'[s] = "waitpid" =>
            STATUS[s] = "READY" /\ frame[s] = "waitpid"
    BY <1>1, <1>6 DEF TypeOK
  <2>3. \A s \in Slot : status'[s] # NoRet =>
            status[s] = status'[s] /\ ret'[s] = ret[s]
    BY <1>1, <1>6 DEF TypeOK
  <2>4. UNCHANGED <<pid_waiting_for, waiting_pid_exit_status, exit_status>>
    BY <1>6 DEF waitVars, exitVars
  <2> QED
    BY <1>1, <2>1, <2>2, <2>3, <2>4 DEF WaitResult
<1>12. IdleLoop'
  <2>1. 0 \in Slot
    BY MaxTasksAssumption DEF Slot
  <2>2. CASE next_pid = 2
    <3>1. c = 1
      BY <1>3, <1>4, <2>2, MaxTasksAssumption DEF Slot
    <3>2. me = 0
      <4>1. ~ (me + 1 >= next_pid)
        BY <1>1, <1>2 DEF PidDiscipline
      <4> QED
        BY <1>2, <2>2, <4>1, MaxTasksAssumption DEF Slot
    <3>3. program_name[0] = "/bin/init_sh"
      BY <1>1, <2>2, <3>2 DEF IdleLoop, Fork, UserProgram, InitShForks,
                              BootPrograms
    <3>4. /\ STATUS'[1] = "READY" /\ program_name'[1] = "/bin/init_sh"
          /\ ret'[1] = 0 /\ frame'[1] = "fork"
      BY <1>1, <1>2, <1>3, <1>6, <2>1, <3>1, <3>2, <3>3 DEF TypeOK
    <3> QED
      BY <1>3, <1>6, <2>2, <3>1, <3>4 DEF IdleLoop
  <2>3. CASE next_pid # 2
    <3>1. 1 \in Slot /\ 1 # c
      BY <1>1, <1>3, <2>3 DEF IdleLoop
    <3>2. 1 # me
      BY <1>1, <2>3 DEF IdleLoop, Fork, UserProgram, InitShForks, BootPrograms
    <3>3. /\ STATUS'[1] = STATUS[1] /\ program_name'[1] = program_name[1]
          /\ ret'[1] = ret[1] /\ frame'[1] = frame[1]
      BY <1>1, <1>6, <3>1, <3>2 DEF TypeOK
    <3>4. next_pid' # 2
      BY <1>a, <1>6
    <3> QED
      BY <1>1, <2>3, <3>1, <3>3, <3>4 DEF IdleLoop
  <2> QED
    BY <2>2, <2>3
<1> QED
  BY <1>6, <1>7, <1>8, <1>9, <1>10, <1>11, <1>12 DEF IInv, AlwaysReadyTask

\* The spin of get_next_free_task keeps the invariant.
LEMMA ForkNoSlotStep ==
    ASSUME IInv, ForkNoSlot
    PROVE  IInv'
<1>1. TypeOK /\ PidDiscipline /\ SavedContext /\ WaitResult /\ IdleLoop
  BY DEF IInv
<1>2. /\ panic' = "TASK LIMIT EXCEEDED"
      /\ UNCHANGED <<STATUS, sleeping_time, timer_tick, ret, status,
                     pid_waiting_for, time_at_wait, waiting_pid_exit_status,
                     id, parent, program_name, next_pid, exit_status,
                     end_time, current_task, frame, new_proc>>
  BY DEF ForkNoSlot, userVars, waitVars, procVars, exitVars
<1>3. TypeOK'
  BY <1>1, <1>2 DEF TypeOK, Panics
<1>4. PidDiscipline'
  BY <1>1, <1>2 DEF PidDiscipline
<1>5. SavedContext'
  BY <1>1, <1>2 DEF SavedContext, ContextOf, me, Running
<1>6. WaitResult'
  BY <1>1, <1>2 DEF WaitResult
<1>7. IdleLoop'
  BY <1>1, <1>2 DEF IdleLoop
<1> QED
  BY <1>2, <1>3, <1>4, <1>5, <1>6, <1>7 DEF IInv, AlwaysReadyTask

\* The spin of an exception handler keeps the invariant.
LEMMA TrapStep ==
    ASSUME IInv, Trap
    PROVE  IInv'
<1>1. TypeOK /\ PidDiscipline /\ SavedContext /\ WaitResult /\ IdleLoop
  BY DEF IInv
<1>2. /\ panic' = "TRAP"
      /\ UNCHANGED <<STATUS, sleeping_time, timer_tick, ret, status,
                     pid_waiting_for, time_at_wait, waiting_pid_exit_status,
                     id, parent, program_name, next_pid, exit_status,
                     end_time, current_task, frame, new_proc>>
  BY DEF Trap, userVars, waitVars, procVars, exitVars
<1>3. TypeOK'
  BY <1>1, <1>2 DEF TypeOK, Panics
<1>4. PidDiscipline'
  BY <1>1, <1>2 DEF PidDiscipline
<1>5. SavedContext'
  BY <1>1, <1>2 DEF SavedContext, ContextOf, me, Running
<1>6. WaitResult'
  BY <1>1, <1>2 DEF WaitResult
<1>7. IdleLoop'
  BY <1>1, <1>2 DEF IdleLoop
<1> QED
  BY <1>2, <1>3, <1>4, <1>5, <1>6, <1>7 DEF IInv, AlwaysReadyTask

\* kexecvpe keeps the invariant: only the boot sequence makes the idle loop.
LEMMA ExecvpeStep ==
    ASSUME IInv, NEW name \in Programs, Execvpe(name)
    PROVE  IInv'
<1>1. TypeOK /\ PidDiscipline /\ SavedContext /\ WaitResult /\ IdleLoop
  BY DEF IInv
<1>2. me \in Slot
  BY <1>1 DEF TypeOK, me
<1>3. /\ program_name' = [program_name EXCEPT ![me] = name]
      /\ ret' = [ret EXCEPT ![me] = NoRet]
      /\ status' = [status EXCEPT ![me] = NoRet]
      /\ UNCHANGED <<STATUS, sleeping_time, timer_tick, pid_waiting_for,
                     time_at_wait, waiting_pid_exit_status, id, parent,
                     next_pid, exit_status, end_time, current_task, frame,
                     new_proc, panic>>
  BY DEF Execvpe, waitVars, exitVars, schedVars
<1>4. TypeOK'
  BY <1>1, <1>2, <1>3 DEF TypeOK
<1>5. PidDiscipline'
  BY <1>1, <1>3 DEF PidDiscipline
<1>6. SavedContext'
  BY <1>1, <1>3 DEF SavedContext, ContextOf, me, Running
<1>7. WaitResult'
  <2>1. \A s \in Slot : status'[s] # NoRet =>
            status[s] = status'[s] /\ ret'[s] = ret[s]
    BY <1>1, <1>3 DEF TypeOK
  <2> QED
    BY <1>1, <1>3, <2>1 DEF WaitResult
<1>8. IdleLoop'
  <2>1. CASE next_pid = 2
    <3>1. 0 \in Slot /\ me = 0
      <4>1. STATUS[me] = "READY"
        BY <1>1, <1>2 DEF SavedContext, ContextOf, Execvpe
      <4>2. ~ (me + 1 >= next_pid)
        BY <1>1, <1>2, <4>1 DEF PidDiscipline
      <4> QED
        BY <1>2, <2>1, <4>2, MaxTasksAssumption DEF Slot
    <3>2. name = "/bin/init_sh"
      BY <1>1, <2>1, <3>1 DEF IdleLoop, Execvpe, ExecArgument, UserProgram,
                              BootPrograms
    <3> QED
      BY <1>1, <1>2, <1>3, <2>1, <3>1, <3>2 DEF IdleLoop, TypeOK
  <2>2. CASE next_pid # 2 /\ me # 1
    <3>1. program_name'[1] = program_name[1] /\ ret'[1] = ret[1]
      BY <1>1, <1>3, <2>2 DEF TypeOK, IdleLoop
    <3> QED
      BY <1>1, <1>3, <2>2, <3>1 DEF IdleLoop
  <2>3. CASE next_pid # 2 /\ me = 1
    <3>1. name = "/bin/idle"
      BY <1>1, <2>3 DEF IdleLoop, Execvpe, ExecArgument, UserProgram,
                        BootPrograms
    <3>2. program_name'[1] = "/bin/idle"
      BY <1>1, <1>2, <1>3, <2>3, <3>1 DEF TypeOK
    <3> QED
      BY <1>1, <1>3, <2>3, <3>2 DEF IdleLoop
  <2> QED
    BY <2>1, <2>2, <2>3
<1> QED
  BY <1>3, <1>4, <1>5, <1>6, <1>7, <1>8 DEF IInv, AlwaysReadyTask

\* kexecvpe that finds no file keeps the invariant.
LEMMA ExecvpeNotFoundStep ==
    ASSUME IInv, ExecvpeNotFound
    PROVE  IInv'
<1>1. TypeOK /\ PidDiscipline /\ SavedContext /\ WaitResult /\ IdleLoop
  BY DEF IInv
<1>2. me \in Slot
  BY <1>1 DEF TypeOK, me
<1>3. /\ ret' = [ret EXCEPT ![me] = -1]
      /\ status' = [status EXCEPT ![me] = NoRet]
      /\ UNCHANGED <<STATUS, sleeping_time, timer_tick, pid_waiting_for,
                     time_at_wait, waiting_pid_exit_status, id, parent,
                     program_name, next_pid, exit_status, end_time,
                     current_task, frame, new_proc, panic>>
  BY DEF ExecvpeNotFound, waitVars, procVars, exitVars, schedVars
<1>4. TypeOK'
  BY <1>1, <1>2, <1>3 DEF TypeOK
<1>5. PidDiscipline'
  BY <1>1, <1>3 DEF PidDiscipline
<1>6. SavedContext'
  BY <1>1, <1>3 DEF SavedContext, ContextOf, me, Running
<1>7. WaitResult'
  <2>1. \A s \in Slot : status'[s] # NoRet =>
            status[s] = status'[s] /\ ret'[s] = ret[s]
    BY <1>1, <1>3 DEF TypeOK
  <2> QED
    BY <1>1, <1>3, <2>1 DEF WaitResult
<1>8. IdleLoop'
  <2>1. 0 \in Slot
    BY MaxTasksAssumption DEF Slot
  <2>2. \A s \in Slot : program_name[s] \in BootPrograms => ret'[s] = ret[s]
    BY <1>1, <1>3 DEF ExecvpeNotFound, UserProgram, TypeOK
  <2> QED
    BY <1>1, <1>3, <2>1, <2>2 DEF IdleLoop, BootPrograms
<1> QED
  BY <1>3, <1>4, <1>5, <1>6, <1>7, <1>8 DEF IInv, AlwaysReadyTask

\* So does a step that changes nothing.
LEMMA StutterStep ==
    ASSUME IInv, UNCHANGED vars
    PROVE  IInv'
<1>1. TypeOK /\ PidDiscipline /\ SavedContext /\ WaitResult /\ IdleLoop
      /\ AlwaysReadyTask
  BY DEF IInv
<1>2. UNCHANGED <<STATUS, sleeping_time, timer_tick, ret, status,
                  pid_waiting_for, time_at_wait, waiting_pid_exit_status,
                  id, parent, program_name, next_pid, exit_status,
                  end_time, current_task, frame, new_proc, panic>>
  BY DEF vars, userVars, waitVars, procVars, exitVars, schedVars
<1>3. TypeOK'
  BY <1>1, <1>2 DEF TypeOK
<1>4. PidDiscipline'
  BY <1>1, <1>2 DEF PidDiscipline
<1>5. SavedContext'
  BY <1>1, <1>2 DEF SavedContext, ContextOf, me, Running
<1>6. WaitResult'
  BY <1>1, <1>2 DEF WaitResult
<1>7. IdleLoop'
  BY <1>1, <1>2 DEF IdleLoop
<1> QED
  BY <1>1, <1>2, <1>3, <1>4, <1>5, <1>6, <1>7 DEF IInv, AlwaysReadyTask

-----------------------------------------------------------------------------
(* The timer interrupt.                                                    *)

\* timer_handler keeps the invariant: update_waiting_and_sleeping_tasks wakes
\* only tasks whose wait is over, and switch_task finds a task to run.
LEMMA TickStep ==
    ASSUME IInv, Tick
    PROVE  IInv'
<1>1. TypeOK /\ PidDiscipline /\ SavedContext /\ WaitResult /\ IdleLoop
  BY DEF IInv
<1>2. me \in Slot /\ STATUS[me] = "READY" /\ new_proc[me] = 0 /\ frame[me] = "none"
  BY <1>1 DEF TypeOK, SavedContext, ContextOf, me, Tick
<1>3. /\ update_waiting_and_sleeping_tasks
      /\ Running
      /\ switch_task("tick")
      /\ UNCHANGED <<id, program_name, next_pid, time_at_wait, exit_status, end_time>>
      /\ timer_tick' = (timer_tick + 1) % TickRange
  BY DEF Tick, exitVars
<1>4. \A i \in Slot :
        /\ STATUS'[i] = IF WakesFromSleep(i) \/ Woken(i) THEN "READY" ELSE STATUS[i]
        /\ pid_waiting_for'[i] = IF Woken(i) THEN id[WaitTarget(i)]
                                 ELSE pid_waiting_for[i]
        /\ waiting_pid_exit_status'[i] = IF Woken(i)
                                         THEN exit_status[WaitTarget(i)]
                                         ELSE waiting_pid_exit_status[i]
        /\ parent'[i] \in {parent[i], NULL}
  BY <1>3 DEF update_waiting_and_sleeping_tasks
<1>5. \A i \in Slot : Woken(i) =>
        /\ WaitTarget(i) \in Slot
        /\ STATUS[WaitTarget(i)] = "ZOMBIE"
        /\ STATUS[i] = "WAITING_ON_PID"
  BY <1>1, WaitTargetType DEF Woken
<1>6. /\ STATUS' \in [Slot -> States]
      /\ pid_waiting_for' \in [Slot -> Pid \cup {AnyChild}]
      /\ waiting_pid_exit_status' \in [Slot -> ExitCodes \cup {0}]
      /\ parent' \in [Slot -> Slot \cup {NULL}]
  <2>1. \A i \in Slot : /\ STATUS'[i] \in States
                        /\ pid_waiting_for'[i] \in Pid \cup {AnyChild}
                        /\ waiting_pid_exit_status'[i] \in ExitCodes \cup {0}
                        /\ parent'[i] \in Slot \cup {NULL}
    BY <1>1, <1>4, <1>5 DEF TypeOK, States
  <2>2. /\ STATUS' = [i \in Slot |-> STATUS'[i]]
        /\ pid_waiting_for' = [i \in Slot |-> pid_waiting_for'[i]]
        /\ waiting_pid_exit_status' = [i \in Slot |-> waiting_pid_exit_status'[i]]
        /\ parent' = [i \in Slot |-> parent'[i]]
    BY <1>3 DEF update_waiting_and_sleeping_tasks
  <2> QED
    BY <2>1, <2>2
<1>7. sleeping_time' \in [Slot -> 0 .. (SleepRange - 1)]
  <2>1. \A i \in Slot : sleeping_time[i] \in 0 .. (SleepRange - 1)
    BY <1>1 DEF TypeOK
  <2>2. sleeping_time' = [i \in Slot |->
                    IF WakesFromSleep(i) THEN 0
                    ELSE IF STATUS[i] = "SLEEPING" THEN sleeping_time[i] - 1
                    ELSE sleeping_time[i]]
    BY <1>3 DEF update_waiting_and_sleeping_tasks
  <2>3. \A i \in Slot : ~ WakesFromSleep(i) /\ STATUS[i] = "SLEEPING" =>
            sleeping_time[i] - 1 \in 0 .. (SleepRange - 1)
    BY <2>1, RangeAssumption DEF WakesFromSleep
  <2> QED
    BY <2>1, <2>2, <2>3, RangeAssumption
<1>8. Schedulable(STATUS') # {}
  <2>1. \A s \in Slot : STATUS[s] = "READY" /\ program_name[s] \in BootPrograms
                            => STATUS'[s] = "READY"
    BY <1>4
  <2> QED
    BY <1>1, <1>6, <2>1, IdleSchedulable
<1>9. "tick" \in Frames \ {"none", "fork"}
  BY DEF Frames
<1>10. /\ current_task' \in Slot
       /\ STATUS'[current_task'] = "READY"
       /\ panic' = "none"
       /\ frame' = [s \in Slot |-> IF s = current_task' THEN "none"
                                  ELSE IF s = current_task THEN "tick"
                                  ELSE frame[s]]
       /\ new_proc' = [new_proc EXCEPT ![current_task'] = 0]
       /\ ret' = [s \in Slot |-> ret'[s]]
       /\ status' = [s \in Slot |-> status'[s]]
  BY <1>3, <1>8, <1>9, SwitchEffect DEF Schedulable
<1>11. \A s \in Slot :
        \/ /\ s = current_task' /\ s # current_task
           /\ frame[s] = "waitpid"
           /\ ret'[s] = pid_waiting_for'[s]
           /\ status'[s] = waiting_pid_exit_status'[s]
        \/ ret'[s] = ret[s] /\ status'[s] = status[s]
  BY <1>3, <1>8, <1>9, SwitchEffect
<1>12. TypeOK'
  <2>1. /\ \A s \in Slot : ret'[s] \in Pid \cup {-1, NoRet}
        /\ \A s \in Slot : status'[s] \in ExitCodes \cup {0, NoRet}
    BY <1>1, <1>6, <1>11 DEF TypeOK
  <2>2. /\ ret' \in [Slot -> Pid \cup {-1, NoRet}]
        /\ status' \in [Slot -> ExitCodes \cup {0, NoRet}]
    BY <1>10, <2>1
  <2>3. timer_tick' \in 0 .. (TickRange - 1)
    <3>1. timer_tick \in 0 .. (TickRange - 1)
      BY <1>1 DEF TypeOK
    <3> QED
      BY <1>3, <3>1, RangeAssumption
  <2>4. frame' \in [Slot -> Frames] /\ new_proc' \in [Slot -> {0, 1}]
    BY <1>1, <1>10 DEF TypeOK, Frames
  <2> QED
    BY <1>1, <1>3, <1>6, <1>7, <1>10, <2>2, <2>3, <2>4 DEF TypeOK, Panics
<1>13. PidDiscipline'
  <2> SUFFICES ASSUME NEW s \in Slot
               PROVE  /\ STATUS'[s] = "FREE" <=> s + 1 >= next_pid'
                      /\ id'[s] = IF STATUS'[s] = "FREE" THEN 0 ELSE s + 1
                      /\ parent'[s] # NULL =>
                            STATUS'[s] # "FREE" /\ parent'[s] < s
    BY DEF PidDiscipline
  <2>1. STATUS'[s] = "FREE" <=> STATUS[s] = "FREE"
    BY <1>4, <1>5 DEF WakesFromSleep
  <2> QED
    BY <1>1, <1>3, <1>4, <2>1 DEF PidDiscipline
<1>14. SavedContext'
  <2> SUFFICES ASSUME NEW s \in Slot
               PROVE  ContextOf(s)'
    BY DEF SavedContext
  <2>1. CASE s = current_task'
    <3>1. STATUS'[s] = "READY" /\ frame'[s] = "none" /\ new_proc'[s] = 0
      BY <1>1, <1>10, <2>1 DEF TypeOK
    <3> QED
      BY <2>1, <3>1 DEF me, ContextOf
  <2>2. CASE s = current_task /\ s # current_task'
    <3>1. STATUS'[s] = "READY" /\ frame'[s] = "tick" /\ new_proc'[s] = 0
      BY <1>1, <1>2, <1>4, <1>10, <2>2 DEF me, TypeOK
    <3> QED
      BY <2>2, <3>1 DEF me, ContextOf
  <2>3. CASE s # current_task /\ s # current_task'
    <3>1. frame'[s] = frame[s] /\ new_proc'[s] = new_proc[s]
      BY <1>1, <1>10, <2>3 DEF TypeOK
    <3>2. ContextOf(s)
      BY <1>1 DEF SavedContext
    <3>3. CASE STATUS'[s] = STATUS[s]
      BY <2>3, <3>1, <3>2, <3>3 DEF ContextOf, me
    <3>4. CASE STATUS'[s] # STATUS[s]
      <4>1. STATUS'[s] = "READY" /\ frame[s] \in {"waitpid", "sleep"}
        BY <1>4, <1>5, <3>2, <3>4 DEF WakesFromSleep, ContextOf
      <4> QED
        BY <2>3, <3>1, <3>2, <4>1 DEF ContextOf, me
    <3> QED
      BY <3>3, <3>4
  <2> QED
    BY <2>1, <2>2, <2>3
<1>15. WaitResult'
  <2>1. \A t \in Slot : STATUS[t] = "ZOMBIE" => STATUS'[t] = "ZOMBIE"
    BY <1>4, <1>5 DEF WakesFromSleep
  <2>2. \A s \in Slot : STATUS'[s] = "READY" /\ frame[s] = "waitpid" =>
            \E t \in Slot : /\ id'[t] = pid_waiting_for'[s]
                            /\ STATUS'[t] = "ZOMBIE"
                            /\ exit_status'[t] = waiting_pid_exit_status'[s]
    <3> SUFFICES ASSUME NEW s \in Slot, STATUS'[s] = "READY", frame[s] = "waitpid"
                 PROVE  \E t \in Slot : /\ id[t] = pid_waiting_for'[s]
                                        /\ STATUS'[t] = "ZOMBIE"
                                        /\ exit_status[t] = waiting_pid_exit_status'[s]
      BY <1>3
    <3>1. CASE Woken(s)
      BY <1>4, <1>5, <2>1, <3>1
    <3>2. CASE ~ Woken(s)
      <4>1. STATUS[s] = "READY"
        BY <1>1, <1>4, <3>2 DEF WakesFromSleep, SavedContext, ContextOf
      <4> QED
        BY <1>1, <1>4, <2>1, <3>2, <4>1 DEF WaitResult
    <3> QED
      BY <3>1, <3>2
  <2>3. \A s \in Slot : frame'[s] = "waitpid" => frame[s] = "waitpid"
    BY <1>10
  <2>4. \A s \in Slot : status'[s] # NoRet =>
            \E t \in Slot : /\ id'[t] = ret'[s]
                            /\ STATUS'[t] = "ZOMBIE"
                            /\ exit_status'[t] = status'[s]
    <3> SUFFICES ASSUME NEW s \in Slot, status'[s] # NoRet
                 PROVE  \E t \in Slot : /\ id'[t] = ret'[s]
                                        /\ STATUS'[t] = "ZOMBIE"
                                        /\ exit_status'[t] = status'[s]
      OBVIOUS
    <3>1. CASE ret'[s] = ret[s] /\ status'[s] = status[s]
      BY <1>1, <1>3, <2>1, <3>1 DEF WaitResult
    <3>2. CASE /\ s = current_task'
               /\ frame[s] = "waitpid"
               /\ ret'[s] = pid_waiting_for'[s]
               /\ status'[s] = waiting_pid_exit_status'[s]
      BY <1>10, <2>2, <3>2
    <3> QED
      BY <1>11, <3>1, <3>2
  <2> QED
    BY <2>2, <2>3, <2>4 DEF WaitResult
<1>16. IdleLoop'
  <2>1. 0 \in Slot
    BY MaxTasksAssumption DEF Slot
  <2>2. \A s \in Slot : STATUS[s] = "READY" /\ frame[s] # "waitpid" =>
            STATUS'[s] = "READY" /\ ret'[s] = ret[s]
    BY <1>4, <1>11
  <2>3. \A s \in Slot : frame'[s] \in {"none", "tick", frame[s]}
    BY <1>10
  <2> QED
    BY <1>1, <1>3, <2>1, <2>2, <2>3 DEF IdleLoop
<1> QED
  BY <1>10, <1>12, <1>13, <1>14, <1>15, <1>16 DEF IInv, AlwaysReadyTask

-----------------------------------------------------------------------------
(* The invariants.                                                         *)

\* initialize_tasking establishes the invariant.
LEMMA InitIInv == Init => IInv
<1> SUFFICES ASSUME Init
             PROVE  IInv
  OBVIOUS
<1>1. 0 \in Slot /\ 0 \in Pid /\ 1 \in Pid
  BY MaxTasksAssumption DEF Slot, Pid
<1>2. 0 \in 0 .. (TickRange - 1) /\ 0 \in 0 .. (SleepRange - 1)
      /\ 2 \in 2 .. (MAX_TASKS + 1)
  BY RangeAssumption, MaxTasksAssumption
<1>3. TypeOK
  BY <1>1, <1>2 DEF Init, TypeOK, States, Frames, Panics, Programs, BootPrograms
<1>4. PidDiscipline
  <2> SUFFICES ASSUME NEW s \in Slot
               PROVE  /\ STATUS[s] = "FREE" <=> s + 1 >= next_pid
                      /\ id[s] = IF STATUS[s] = "FREE" THEN 0 ELSE s + 1
                      /\ parent[s] = NULL
    BY DEF PidDiscipline
  <2>1. CASE s = 0
    <3>1. STATUS[s] = "READY" /\ id[s] = 1 /\ parent[s] = NULL /\ next_pid = 2
      BY <2>1 DEF Init
    <3> QED
      BY <2>1, <3>1
  <2>2. CASE s # 0
    <3>1. s + 1 >= 2
      BY <2>2, MaxTasksAssumption DEF Slot
    <3> QED
      BY <2>2, <3>1 DEF Init
  <2> QED
    BY <2>1, <2>2
<1>5. SavedContext
  <2>1. \A s \in Slot : /\ frame[s] = "none" /\ new_proc[s] = 0
                        /\ STATUS[s] = IF s = 0 THEN "READY" ELSE "FREE"
    BY DEF Init
  <2>2. current_task = 0
    BY DEF Init
  <2> QED
    BY <2>1, <2>2 DEF SavedContext, ContextOf, me
<1>6. WaitResult
  BY DEF Init, WaitResult
<1>7. IdleLoop
  BY <1>1 DEF Init, IdleLoop
<1> QED
  BY <1>3, <1>4, <1>5, <1>6, <1>7 DEF IInv, AlwaysReadyTask, Init

\* Every step of the kernel keeps it.
LEMMA NextIInv == IInv /\ [Next]_vars => IInv'
<1> SUFFICES ASSUME IInv, [Next]_vars
             PROVE  IInv'
  OBVIOUS
<1>1. CASE Fork
  BY <1>1, ForkStep
<1>2. CASE ForkNoSlot \/ Trap
  BY <1>2, ForkNoSlotStep, TrapStep
<1>3. ASSUME NEW name \in Programs, Execvpe(name)
      PROVE  IInv'
  BY <1>3, ExecvpeStep
<1>4. CASE ExecvpeNotFound
  BY <1>4, ExecvpeNotFoundStep
<1>5. ASSUME NEW code \in ExitCodes, Exit(code)
      PROVE  IInv'
  BY <1>5, ExitStep
<1>6. ASSUME NEW pid \in WaitArgs, Waitpid(pid)
      PROVE  IInv'
  BY <1>6, WaitpidStep
<1>7. ASSUME NEW time \in SleepTimes, Sleep(time)
      PROVE  IInv'
  BY <1>7, SleepStep
<1>8. CASE Tick
  BY <1>8, TickStep
<1>9. CASE Spin
  BY <1>9, StutterStep DEF Spin
<1>10. CASE UNCHANGED vars
  BY <1>10, StutterStep
<1> QED
  BY <1>1, <1>2, <1>3, <1>4, <1>5, <1>6, <1>7, <1>8, <1>9, <1>10 DEF Next

\* IInv holds in every state the kernel reaches.
THEOREM Invariance == Spec => []IInv
  BY InitIInv, NextIInv, PTL DEF Spec

\* The fields of the task table keep their types (task.h).
THEOREM TypeCorrect == Spec => []TypeOK
<1>1. IInv => TypeOK
  BY DEF IInv
<1> QED
  BY <1>1, Invariance, PTL

\* pids name tasks for ever (kfork, get_task, get_children).
THEOREM PidsNameTasks == Spec => []PidDiscipline
<1>1. IInv => PidDiscipline
  BY DEF IInv
<1> QED
  BY <1>1, Invariance, PTL

\* Every task resumes from the kernel entry that parked it (switch_task).
THEOREM ContextsMatchStates == Spec => []SavedContext
<1>1. IInv => SavedContext
  BY DEF IInv
<1> QED
  BY <1>1, Invariance, PTL

\* The results waitpid delivers are those of a task that did exit.
THEOREM WaitResultsTrue == Spec => []WaitResult
<1>1. IInv => WaitResult
  BY DEF IInv
<1> QED
  BY <1>1, Invariance, PTL

\* What init_sh sets up lasts: the task in slot 1 is READY from the first fork
\* on, and task 1 before it, so that the scan always has a task to find.
THEOREM IdleLoopStays == Spec => []IdleLoop
<1>1. IInv => IdleLoop
  BY DEF IInv
<1> QED
  BY <1>1, Invariance, PTL

\* get_next_ready_task never reports NO READY TASK, however many tasks
\* exist and whatever they do.
THEOREM NeverNoReadyTask == Spec => []AlwaysReadyTask
<1>1. IInv => AlwaysReadyTask
  BY DEF IInv
<1> QED
  BY <1>1, Invariance, PTL

-----------------------------------------------------------------------------
(* What a step may never do.                                               *)

\* The steps that move the CPU to another task, and where they move it.
LEMMA SwitchingStep ==
    ASSUME IInv, [Next]_vars, current_task' # current_task
    PROVE  /\ current_task' \in Schedulable(STATUS')
           /\ \A t \in Schedulable(STATUS') :
                Distance(current_task, current_task')
                    <= Distance(current_task, t)
           /\ UNCHANGED program_name
           /\ \A s \in Slot \ {me} : STATUS[s] = "READY" => STATUS'[s] = "READY"
<1>1. TypeOK /\ IdleLoop /\ me \in Slot
  BY DEF IInv, TypeOK, me
<1>2. ASSUME Running, UserProgram, NEW f, NEW st, Parks(f, st),
             STATUS' = [STATUS EXCEPT ![me] = st],
             UNCHANGED procVars,
             switch_task(f)
      PROVE  /\ current_task' \in Schedulable(STATUS')
             /\ \A t \in Schedulable(STATUS') :
                    Distance(current_task, current_task')
                        <= Distance(current_task, t)
             /\ UNCHANGED program_name
             /\ \A s \in Slot \ {me} : STATUS[s] = "READY" => STATUS'[s] = "READY"
  <2>1. STATUS' \in [Slot -> States]
        /\ \A s \in Slot \ {me} : STATUS'[s] = STATUS[s]
    BY <1>1, <1>2 DEF TypeOK, Parks, States
  <2>2. f \in Frames \ {"none", "fork"}
    BY <1>2 DEF Parks, Frames
  <2>3. \A s \in Slot : STATUS[s] = "READY" /\ program_name[s] \in BootPrograms
                            => STATUS'[s] = "READY"
    BY <1>2, <2>1 DEF UserProgram
  <2>4. Schedulable(STATUS') # {}
    BY <1>1, <2>1, <2>3, IdleSchedulable
  <2> QED
    BY <1>2, <2>1, <2>2, <2>4, SwitchEffect DEF procVars
<1>3. ASSUME NEW code \in ExitCodes, Exit(code)
      PROVE  Running /\ UserProgram /\ Parks("exit", "ZOMBIE")
             /\ STATUS' = [STATUS EXCEPT ![me] = "ZOMBIE"]
             /\ UNCHANGED procVars /\ switch_task("exit")
  BY <1>3 DEF Exit, Parks
<1>4. ASSUME NEW pid \in WaitArgs, Waitpid(pid)
      PROVE  Running /\ UserProgram /\ Parks("waitpid", "WAITING_ON_PID")
             /\ STATUS' = [STATUS EXCEPT ![me] = "WAITING_ON_PID"]
             /\ UNCHANGED procVars /\ switch_task("waitpid")
  BY <1>4 DEF Waitpid, Parks
<1>5. ASSUME NEW time \in SleepTimes, Sleep(time)
      PROVE  Running /\ UserProgram /\ Parks("sleep", "SLEEPING")
             /\ STATUS' = [STATUS EXCEPT ![me] = "SLEEPING"]
             /\ UNCHANGED procVars /\ switch_task("sleep")
  BY <1>5 DEF Sleep, Parks
<1>6. CASE Tick
  <2>1. \A s \in Slot : STATUS[s] = "READY" => STATUS'[s] = "READY"
    BY <1>6 DEF Tick, update_waiting_and_sleeping_tasks
  <2>2. STATUS' \in [Slot -> States]
    BY <1>6, TickStep DEF IInv, TypeOK
  <2>3. Schedulable(STATUS') # {}
    BY <1>1, <2>1, <2>2, IdleSchedulable
  <2>4. "tick" \in Frames \ {"none", "fork"}
    BY DEF Frames
  <2> QED
    BY <1>6, <2>1, <2>3, <2>4, SwitchEffect DEF Tick
<1>7. ~ Fork /\ ~ ForkNoSlot /\ ~ Trap /\ ~ ExecvpeNotFound /\ ~ Spin
      /\ ~ UNCHANGED vars
      /\ \A name \in Programs : ~ Execvpe(name)
  BY DEF Fork, ForkNoSlot, Trap, ExecvpeNotFound, Spin, vars, Execvpe,
         schedVars
<1> QED
  BY <1>2, <1>3, <1>4, <1>5, <1>6, <1>7 DEF Next

\* Passing the CPU to a nearer slot shortens the distance to the others.
LEMMA DistanceShrinks ==
    ASSUME NEW c \in Slot, NEW n \in Slot, NEW s \in Slot,
           n # c, n # s, Distance(c, n) <= Distance(c, s)
    PROVE  Distance(n, s) < Distance(c, s)
  BY MaxTasksAssumption DEF Slot, Distance

\* A READY task is passed over only by tasks that were ahead of it in the
\* scan of get_next_ready_task, and each of them brings its turn nearer.
THEOREM RoundRobin == Spec => NoOvertaking
<1>1. ASSUME IInv, [Next]_vars
      PROVE  \A s \in Schedulable(STATUS) :
                current_task' \notin {current_task, s} =>
                    Distance(current_task', s) < Distance(current_task, s)
  <2> SUFFICES ASSUME NEW s \in Schedulable(STATUS),
                      current_task' # current_task, current_task' # s
               PROVE  Distance(current_task', s) < Distance(current_task, s)
    OBVIOUS
  <2>1. current_task \in Slot /\ s \in Slot /\ STATUS[s] = "READY"
        /\ program_name[s] # IdleName
    BY <1>1 DEF IInv, TypeOK, Schedulable
  <2>2. current_task' \in Slot
    BY <1>1, SwitchingStep DEF Schedulable
  <2>3. Distance(current_task, current_task') <= Distance(current_task, s)
    <3>1. CASE s = current_task
      <4>1. Distance(current_task, s) = MAX_TASKS - 1
        BY <2>1, <3>1, DistanceType
      <4>2. Distance(current_task, current_task') \in Slot
        BY <2>1, <2>2, DistanceType
      <4> QED
        BY <4>1, <4>2, MaxTasksAssumption DEF Slot
    <3>2. CASE s # current_task
      <4>1. s \in Schedulable(STATUS')
        BY <1>1, <2>1, <3>2, SwitchingStep DEF Schedulable, me
      <4> QED
        BY <1>1, <4>1, SwitchingStep
    <3> QED
      BY <3>1, <3>2
  <2> QED
    BY <2>1, <2>2, <2>3, DistanceShrinks
<1> QED
  BY <1>1, Invariance, PTL DEF Spec, NoOvertaking

\* What each step leaves of a task that is not the running one: its state
\* changes only by fork or by the timer.
LEMMA OthersUntouched ==
    ASSUME IInv, [Next]_vars, ~ Tick, NEW s \in Slot, s # me,
           STATUS[s] # "FREE"
    PROVE  STATUS'[s] = STATUS[s] /\ exit_status'[s] = exit_status[s]
           /\ id'[s] = id[s]
<1>1. TypeOK /\ me \in Slot
  BY DEF IInv, TypeOK, me
<1>2. CASE Fork
  <2>1. get_next_free_task # s
    <3>1. FreeSlots \in SUBSET Slot /\ FreeSlots # {}
      BY <1>2 DEF FreeSlots, Fork
    <3> QED
      BY <3>1, SlotMin DEF FreeSlots, get_next_free_task
  <2> QED
    BY <1>1, <1>2, <2>1 DEF Fork, TypeOK, exitVars
<1>3. CASE ForkNoSlot \/ Trap \/ ExecvpeNotFound \/ Spin \/ UNCHANGED vars
  BY <1>3 DEF ForkNoSlot, Trap, ExecvpeNotFound, Spin, vars, procVars,
              exitVars
<1>4. ASSUME NEW name \in Programs, Execvpe(name)
      PROVE  UNCHANGED <<STATUS, exit_status, id>>
  BY <1>4 DEF Execvpe, exitVars
<1>5. ASSUME NEW code \in ExitCodes, Exit(code)
      PROVE  STATUS'[s] = STATUS[s] /\ exit_status'[s] = exit_status[s]
             /\ id'[s] = id[s]
  BY <1>1, <1>5 DEF Exit, TypeOK, procVars
<1>6. ASSUME NEW pid \in WaitArgs, Waitpid(pid)
      PROVE  STATUS'[s] = STATUS[s] /\ exit_status'[s] = exit_status[s]
             /\ id'[s] = id[s]
  BY <1>1, <1>6 DEF Waitpid, TypeOK, procVars, exitVars
<1>7. ASSUME NEW time \in SleepTimes, Sleep(time)
      PROVE  STATUS'[s] = STATUS[s] /\ exit_status'[s] = exit_status[s]
             /\ id'[s] = id[s]
  BY <1>1, <1>7 DEF Sleep, TypeOK, procVars, exitVars
<1> QED
  BY <1>2, <1>3, <1>4, <1>5, <1>6, <1>7 DEF Next

\* A task that exited stays as it exited and never runs again: kexit does
\* not return (kexit.c), and "once a zombie, always a zombie" (scheduler.c).
THEOREM ZombiesStay == Spec => ZombieForever
<1>1. ASSUME IInv, [Next]_vars
      PROVE  \A s \in Slot : STATUS[s] = "ZOMBIE" =>
                /\ STATUS'[s] = "ZOMBIE"
                /\ exit_status'[s] = exit_status[s]
                /\ id'[s] = id[s]
                /\ current_task' = s => current_task = s
  <2> SUFFICES ASSUME NEW s \in Slot, STATUS[s] = "ZOMBIE"
               PROVE  /\ STATUS'[s] = "ZOMBIE"
                      /\ exit_status'[s] = exit_status[s]
                      /\ id'[s] = id[s]
                      /\ current_task' = s => current_task = s
    OBVIOUS
  <2>1. /\ STATUS'[s] = "ZOMBIE"
        /\ exit_status'[s] = exit_status[s]
        /\ id'[s] = id[s]
    <3>1. CASE Tick
      BY <3>1 DEF Tick, update_waiting_and_sleeping_tasks, WakesFromSleep,
                  Woken, exitVars
    <3>2. CASE ~ Tick /\ s # me
      BY <1>1, <3>2, OthersUntouched
    <3>3. CASE ~ Tick /\ s = me
      <4>1. ~ Running
        BY <1>1, <3>3 DEF IInv, SavedContext, ContextOf
      <4>2. UNCHANGED vars
        BY <1>1, <3>3, <4>1 DEF Next, Fork, ForkNoSlot, Trap, Execvpe,
            ExecvpeNotFound, Exit, Waitpid, Sleep, Spin
      <4> QED
        BY <4>2 DEF vars, exitVars, procVars
    <3> QED
      BY <3>1, <3>2, <3>3
  <2>2. current_task' = s => current_task = s
    <3> SUFFICES ASSUME current_task' # current_task
                 PROVE  STATUS'[current_task'] = "READY"
      BY <2>1
    <3> QED
      BY <1>1, SwitchingStep DEF Schedulable
  <2> QED
    BY <2>1, <2>2
<1> QED
  BY <1>1, Invariance, PTL DEF Spec, ZombieForever

\* wait() returns one of the caller's own children that has exited, and
\* takes it out of the caller's children (update_waiting_and_sleeping_tasks).
THEOREM WaitReaps == Spec => WaitReapsOwnChild
<1>1. ASSUME IInv, [Next]_vars, NEW s \in Slot,
             STATUS[s] = "WAITING_ON_PID", pid_waiting_for[s] = AnyChild,
             STATUS'[s] = "READY"
      PROVE  \E t \in Slot : /\ id[t] = pid_waiting_for'[s]
                             /\ parent[t] = s
                             /\ STATUS[t] = "ZOMBIE"
                             /\ parent'[t] = NULL
  <2>1. TypeOK /\ PidDiscipline
    BY <1>1 DEF IInv
  <2>2. Tick
    <3>1. CASE s # me
      BY <1>1, <3>1, OthersUntouched
    <3>2. CASE s = me
      <4>1. ~ Running
        BY <1>1, <3>2 DEF IInv, SavedContext, ContextOf
      <4>2. Tick \/ UNCHANGED vars
        BY <1>1, <4>1 DEF Next, Fork, ForkNoSlot, Trap, Execvpe,
            ExecvpeNotFound, Exit, Waitpid, Sleep, Spin
      <4> QED
        BY <1>1, <4>2 DEF vars
    <3> QED
      BY <3>1, <3>2
  <2>3. Woken(s) /\ pid_waiting_for'[s] = id[WaitTarget(s)]
    BY <1>1, <2>2 DEF Tick, update_waiting_and_sleeping_tasks, WakesFromSleep
  <2> DEFINE t == WaitTarget(s)
  <2>4. t \in Slot /\ STATUS[t] = "ZOMBIE" /\ parent[t] # NULL
        /\ id[parent[t]] = id[s]
    BY <1>1, <2>1, <2>3, WaitTargetType DEF Woken
  <2>5. parent'[t] = NULL
    BY <2>2, <2>3, <2>4 DEF Tick, update_waiting_and_sleeping_tasks
  <2> HIDE DEF t
  <2>6. parent[t] \in Slot /\ id[s] = s + 1
    BY <1>1, <2>1, <2>4 DEF TypeOK, PidDiscipline
  <2>7. id[parent[t]] = 0 \/ id[parent[t]] = parent[t] + 1
    BY <2>1, <2>6 DEF PidDiscipline
  <2>8. parent[t] = s
    BY <2>4, <2>6, <2>7, MaxTasksAssumption DEF Slot
  <2> QED
    BY <2>3, <2>4, <2>5, <2>8 DEF t
<1>2. ASSUME IInv, [Next]_vars
      PROVE  \A s \in Slot :
                /\ STATUS[s] = "WAITING_ON_PID"
                /\ pid_waiting_for[s] = AnyChild
                /\ STATUS'[s] = "READY"
                => \E t \in Slot : /\ id[t] = pid_waiting_for'[s]
                                   /\ parent[t] = s
                                   /\ STATUS[t] = "ZOMBIE"
                                   /\ parent'[t] = NULL
  BY <1>1, <1>2
<1> QED
  BY <1>2, Invariance, PTL DEF Spec, WaitReapsOwnChild
-----------------------------------------------------------------------------
(* The task table implements the process calls of module Processes: each   *)
(* step of Tasks is, through the mapping of TaskRefinement, one call of    *)
(* Processes, the return of some waits, or nothing.                        *)

USE DEF Calls!NoPid, Calls!Anyone, Calls!NotWaiting, Calls!NoResult

-----------------------------------------------------------------------------
(* The mapping, slot by slot.                                              *)

LifeAt(s) ==
    IF STATUS[s] = "FREE" THEN "none"
    ELSE IF STATUS[s] = "ZOMBIE" THEN "ended" ELSE "alive"

ParentAt(s) == IF parent[s] = NULL THEN 0 ELSE id[parent[s]]

WaitAt(s) == IF STATUS[s] = "WAITING_ON_PID" THEN pid_waiting_for[s] ELSE -3

\* What the wait of the task in slot s returned, or will return.
ResultAt(s) ==
    IF STATUS[s] = "READY" /\ frame[s] = "waitpid"
    THEN <<pid_waiting_for[s], waiting_pid_exit_status[s]>>
    ELSE IF status[s] # NoRet THEN <<ret[s], status[s]>>
    ELSE << >>

\* The variables of Processes as functions of pids.
LEMMA Mapping ==
    /\ lifeOf = [p \in Calls!Pids |-> LifeAt(p - 1)]
    /\ parentPid = [p \in Calls!Pids |-> ParentAt(p - 1)]
    /\ exitCode = [p \in Calls!Pids |-> exit_status[p - 1]]
    /\ waitArg = [p \in Calls!Pids |-> WaitAt(p - 1)]
    /\ waitResult = [p \in Calls!Pids |-> ResultAt(p - 1)]
BY DEF Calls!Pids, SlotOf, lifeOf, parentPid, exitCode, waitArg, waitResult,
       LifeAt, ParentAt, WaitAt, ResultAt

\* The variables of Processes after a step.
LEMMA MappingNext ==
    /\ lifeOf' = [p \in Calls!Pids |-> LifeAt(p - 1)']
    /\ parentPid' = [p \in Calls!Pids |-> ParentAt(p - 1)']
    /\ exitCode' = [p \in Calls!Pids |-> exit_status'[p - 1]]
    /\ waitArg' = [p \in Calls!Pids |-> WaitAt(p - 1)']
    /\ waitResult' = [p \in Calls!Pids |-> ResultAt(p - 1)']
BY DEF Calls!Pids, SlotOf, lifeOf, parentPid, exitCode, waitArg, waitResult,
       LifeAt, ParentAt, WaitAt, ResultAt

\* Pids and slots.
LEMMA PidSlot ==
    /\ \A p \in Calls!Pids : p \in Int /\ p - 1 \in Slot
    /\ \A s \in Slot : s \in Int /\ s + 1 \in Calls!Pids /\ (s + 1) - 1 = s
BY MaxTasksAssumption DEF Calls!Pids, Slot

-----------------------------------------------------------------------------
(* Calls of the running program.                                           *)

\* The running program is a process that is not blocked, and the kernel owes
\* it no result.
LEMMA CallerRuns ==
    ASSUME IInv, Running
    PROVE  /\ me \in Slot /\ me + 1 \in Calls!Pids
           /\ Calls!Runs(me + 1)
           /\ STATUS[me] = "READY" /\ frame[me] = "none" /\ id[me] = me + 1
<1>1. /\ me \in Slot /\ STATUS[me] = "READY" /\ frame[me] = "none"
      /\ id[me] = me + 1
    BY DEF IInv, TypeOK, SavedContext, ContextOf, PidDiscipline, me
<1>2. me + 1 \in Calls!Pids /\ (me + 1) - 1 = me  BY <1>1, PidSlot
<1>3. lifeOf[me + 1] = LifeAt(me) /\ waitArg[me + 1] = WaitAt(me)
    BY <1>2, Mapping
<1>4. QED  BY <1>1, <1>2, <1>3 DEF Calls!Runs, LifeAt, WaitAt

\* A step that keeps state, parent and exit status of every task and leaves
\* the running program without a result is a call that concerns no other
\* process.
LEMMA CallStep ==
    ASSUME IInv, Running,
           \A s \in Slot : /\ LifeAt(s)' = LifeAt(s)
                           /\ ParentAt(s)' = ParentAt(s)
                           /\ exit_status'[s] = exit_status[s]
                           /\ WaitAt(s)' = WaitAt(s)
                           /\ ResultAt(s)' = IF s = me THEN << >> ELSE ResultAt(s)
    PROVE  Calls!Call(me + 1)
<1>1. Calls!Runs(me + 1) /\ me + 1 \in Calls!Pids  BY CallerRuns
<1>2. \A p \in Calls!Pids : p - 1 \in Slot /\ (p - 1 = me <=> p = me + 1)
    BY PidSlot, CallerRuns
<1>3. UNCHANGED <<lifeOf, parentPid, exitCode, waitArg>>
    BY <1>2, Mapping, MappingNext
<1>4. waitResult' = [waitResult EXCEPT ![me + 1] = << >>]
    BY <1>1, <1>2, Mapping, MappingNext
<1>5. QED  BY <1>1, <1>3, <1>4 DEF Calls!Call

\* execvpe is a call of its own.
LEMMA ExecvpeCall ==
    ASSUME IInv, NEW name, Execvpe(name) \/ ExecvpeNotFound
    PROVE  Calls!Call(me + 1)
<1>1. Running  BY DEF Execvpe, ExecvpeNotFound
<1>2. /\ UNCHANGED <<STATUS, id, parent, exit_status, frame,
                     pid_waiting_for, waiting_pid_exit_status>>
      /\ status' = [status EXCEPT ![me] = NoRet]
      /\ \A s \in Slot \ {me} : ret'[s] = ret[s]
    BY DEF Execvpe, ExecvpeNotFound, waitVars, procVars, exitVars, schedVars,
           IInv, TypeOK
<1>3. \A s \in Slot : status'[s] = IF s = me THEN NoRet ELSE status[s]
    BY <1>2 DEF IInv, TypeOK
<1>4. \A s \in Slot : /\ LifeAt(s)' = LifeAt(s)
                      /\ ParentAt(s)' = ParentAt(s)
                      /\ WaitAt(s)' = WaitAt(s)
    BY <1>2 DEF LifeAt, ParentAt, WaitAt
<1>5. \A s \in Slot : ResultAt(s)' = IF s = me THEN << >> ELSE ResultAt(s)
    BY <1>1, <1>2, <1>3, CallerRuns DEF ResultAt
<1>6. QED  BY <1>1, <1>2, <1>4, <1>5, CallStep

-----------------------------------------------------------------------------
(* Steps with a switch to another task.                                    *)

\* The task switch_task resumes in kwaitpid gets the result of its wait, and
\* the caller of a system call loses the one it had.
LEMMA SwitchDelivers ==
    ASSUME IInv, Running, NEW f \in Frames \ {"none", "fork"},
           Schedulable(STATUS') # {},
           switch_task(f), NEW s \in Slot
    PROVE  LET waited == /\ s = current_task'
                         /\ IF s = me THEN f = "waitpid" ELSE frame[s] = "waitpid"
           IN  /\ ret'[s] = IF waited THEN pid_waiting_for'[s]
                            ELSE IF s = me /\ f # "tick" THEN NoRet ELSE ret[s]
               /\ status'[s] = IF waited THEN waiting_pid_exit_status'[s]
                               ELSE IF s = me /\ f # "tick" THEN NoRet
                               ELSE status[s]
<1> DEFINE n == get_next_ready_task(STATUS')
           saved == [frame EXCEPT ![current_task] = f]
<1>1. n \in Slot /\ n # NULL
    BY NextReady, MaxTasksAssumption DEF IInv, Schedulable, Slot
<1>2. current_task \in Slot /\ new_proc[current_task] = 0
    BY DEF IInv, TypeOK, SavedContext, ContextOf, me
<1>3. /\ current_task' = n
      /\ ret'[s] = IF s = n /\ new_proc[s] = 0 /\ saved[s] = "waitpid"
                   THEN pid_waiting_for'[s]
                   ELSE IF s = current_task /\ f # "tick" THEN NoRet ELSE ret[s]
      /\ status'[s] = IF s = n /\ new_proc[s] = 0 /\ saved[s] = "waitpid"
                      THEN waiting_pid_exit_status'[s]
                      ELSE IF s = current_task /\ f # "tick" THEN NoRet
                      ELSE status[s]
    BY <1>1, <1>2 DEF switch_task
<1> HIDE DEF n
<1>4. saved[s] = IF s = current_task THEN f ELSE frame[s]
    BY <1>2 DEF IInv, TypeOK
<1>5. s # current_task /\ frame[s] = "waitpid" => new_proc[s] = 0
    BY DEF IInv, TypeOK, SavedContext, ContextOf
<1> HIDE DEF saved
<1>6. QED  BY <1>2, <1>3, <1>4, <1>5 DEF me

\* To a task that neither makes a call nor is woken from a wait, a switch
\* changes nothing a program can see, even if it resumes the task.
LEMMA SwitchKeepsResult ==
    ASSUME IInv, Running, NEW f \in Frames \ {"none", "fork"},
           Schedulable(STATUS') # {},
           switch_task(f), NEW s \in Slot, s # me \/ f = "tick",
           pid_waiting_for'[s] = pid_waiting_for[s],
           waiting_pid_exit_status'[s] = waiting_pid_exit_status[s],
           STATUS[s] = "READY" => STATUS'[s] = "READY",
           frame[s] = "waitpid" /\ STATUS'[s] = "READY" => STATUS[s] = "READY"
    PROVE  ResultAt(s)' = ResultAt(s)
<1>1. waiting_pid_exit_status[s] # NoRet
    <2>1. waiting_pid_exit_status[s] \in ExitCodes \cup {0}
        BY DEF IInv, TypeOK
    <2>2. QED  BY <2>1, ExitCodesAssumption
<1>2. /\ current_task' \in Slot
      /\ STATUS'[current_task'] = "READY"
      /\ frame'[s] = IF s = current_task' THEN "none"
                     ELSE IF s = current_task THEN f ELSE frame[s]
    BY SwitchEffect DEF Schedulable
<1>3. s = me => frame[s] = "none" /\ f = "tick"  BY CallerRuns
<1>4. CASE s = current_task' /\ frame[s] = "waitpid"
    <2>1. ret'[s] = pid_waiting_for'[s] /\ status'[s] = waiting_pid_exit_status'[s]
        BY <1>3, <1>4, SwitchDelivers
    <2>2. QED  BY <1>1, <1>2, <1>4, <2>1 DEF ResultAt
<1>5. CASE ~ (s = current_task' /\ frame[s] = "waitpid")
    <2>1. ret'[s] = ret[s] /\ status'[s] = status[s]
        BY <1>3, <1>5, SwitchDelivers
    <2>2. QED  BY <1>2, <1>3, <1>5, <2>1 DEF ResultAt, me
<1>6. QED  BY <1>4, <1>5

\* exit, wait and sleep: what they change for the caller, and for nobody else.
LEMMA ParkedCaller ==
    ASSUME IInv, Running, UserProgram, NEW f, NEW st, Parks(f, st),
           STATUS' = [STATUS EXCEPT ![me] = st],
           UNCHANGED <<procVars, waiting_pid_exit_status>>,
           \A s \in Slot \ {me} : pid_waiting_for'[s] = pid_waiting_for[s],
           switch_task(f)
    PROVE  /\ STATUS'[me] = st
           /\ \A s \in Slot : ParentAt(s)' = ParentAt(s)
           /\ \A s \in Slot \ {me} : /\ LifeAt(s)' = LifeAt(s)
                                     /\ WaitAt(s)' = WaitAt(s)
           /\ \A s \in Slot : ResultAt(s)' = IF s = me THEN << >> ELSE ResultAt(s)
<1>1. f \in Frames \ {"none", "fork", "tick"} /\ st \in States \ {"READY", "FREE"}
    BY DEF Parks, Frames, States
<1>2. TypeOK /\ IdleLoop /\ me \in Slot  BY DEF IInv, TypeOK, me
<1>3. \A s \in Slot : STATUS'[s] = IF s = me THEN st ELSE STATUS[s]
    BY <1>2 DEF TypeOK
<1>4. Schedulable(STATUS') # {}
    <2>1. STATUS' \in [Slot -> States]  BY <1>1, <1>2 DEF TypeOK
    <2>2. \A s \in Slot : STATUS[s] = "READY" /\ program_name[s] \in BootPrograms
                            => STATUS'[s] = "READY"
        BY <1>3 DEF UserProgram
    <2>3. QED  BY <1>2, <2>1, <2>2, IdleSchedulable
<1>5. current_task' # me
    BY <1>1, <1>3, <1>4, SwitchEffect DEF Schedulable, me
<1>6. ASSUME NEW s \in Slot, s = me
      PROVE  ResultAt(s)' = << >>
    <2>1. status'[s] = NoRet
        BY <1>1, <1>4, <1>5, <1>6, SwitchDelivers
    <2>2. QED  BY <1>1, <1>3, <1>6, <2>1 DEF ResultAt
<1>7. \A s \in Slot \ {me} : ResultAt(s)' = ResultAt(s)
    BY <1>1, <1>3, <1>4, SwitchKeepsResult
<1>8. \A s \in Slot : ParentAt(s)' = ParentAt(s)
    BY DEF ParentAt, procVars
<1>9. \A s \in Slot \ {me} : LifeAt(s)' = LifeAt(s) /\ WaitAt(s)' = WaitAt(s)
    BY <1>3 DEF LifeAt, WaitAt
<1>10. QED  BY <1>2, <1>3, <1>6, <1>7, <1>8, <1>9

\* sleep is a call of its own.
LEMMA SleepCall ==
    ASSUME IInv, NEW time \in SleepTimes, Sleep(time)
    PROVE  Calls!Call(me + 1)
<1>1. /\ Running /\ UserProgram /\ Parks("sleep", "SLEEPING")
      /\ STATUS' = [STATUS EXCEPT ![me] = "SLEEPING"]
      /\ UNCHANGED <<procVars, waiting_pid_exit_status>>
      /\ UNCHANGED <<pid_waiting_for, exit_status>>
      /\ switch_task("sleep")
    BY DEF Sleep, Parks, waitVars, exitVars
<1>2. /\ STATUS'[me] = "SLEEPING"
      /\ \A s \in Slot : ParentAt(s)' = ParentAt(s)
      /\ \A s \in Slot \ {me} : LifeAt(s)' = LifeAt(s) /\ WaitAt(s)' = WaitAt(s)
      /\ \A s \in Slot : ResultAt(s)' = IF s = me THEN << >> ELSE ResultAt(s)
    BY <1>1, ParkedCaller
<1>3. \A s \in Slot : LifeAt(s)' = LifeAt(s) /\ WaitAt(s)' = WaitAt(s)
    BY <1>1, <1>2, CallerRuns DEF LifeAt, WaitAt
<1>4. QED  BY <1>1, <1>2, <1>3, CallStep

\* exit ends the caller with its code.
LEMMA ExitCall ==
    ASSUME IInv, NEW code \in ExitCodes, Exit(code)
    PROVE  Calls!Exit(me + 1, code)
<1>1. /\ Running /\ UserProgram /\ Parks("exit", "ZOMBIE")
      /\ STATUS' = [STATUS EXCEPT ![me] = "ZOMBIE"]
      /\ UNCHANGED <<procVars, waiting_pid_exit_status>>
      /\ UNCHANGED pid_waiting_for
      /\ exit_status' = [exit_status EXCEPT ![me] = code]
      /\ switch_task("exit")
    BY DEF Exit, Parks, waitVars
<1>2. /\ STATUS'[me] = "ZOMBIE"
      /\ \A s \in Slot : ParentAt(s)' = ParentAt(s)
      /\ \A s \in Slot \ {me} : LifeAt(s)' = LifeAt(s) /\ WaitAt(s)' = WaitAt(s)
      /\ \A s \in Slot : ResultAt(s)' = IF s = me THEN << >> ELSE ResultAt(s)
    BY <1>1, ParkedCaller
<1>3. \A s \in Slot : /\ LifeAt(s)' = IF s = me THEN "ended" ELSE LifeAt(s)
                      /\ WaitAt(s)' = WaitAt(s)
    BY <1>1, <1>2, CallerRuns DEF LifeAt, WaitAt
<1>4. \A s \in Slot : exit_status'[s] = IF s = me THEN code ELSE exit_status[s]
    BY <1>1 DEF IInv, TypeOK
<1>5. Calls!Runs(me + 1) /\ me + 1 \in Calls!Pids  BY <1>1, CallerRuns
<1>6. \A p \in Calls!Pids : p - 1 \in Slot /\ (p - 1 = me <=> p = me + 1)
    BY <1>1, PidSlot, CallerRuns
<1>7. UNCHANGED <<parentPid, waitArg>>
    BY <1>2, <1>3, <1>6, Mapping, MappingNext
<1>8. /\ lifeOf' = [lifeOf EXCEPT ![me + 1] = "ended"]
      /\ waitResult' = [waitResult EXCEPT ![me + 1] = << >>]
    BY <1>2, <1>3, <1>5, <1>6, Mapping, MappingNext
<1>9. exitCode' = [exitCode EXCEPT ![me + 1] = code]
    BY <1>4, <1>5, <1>6, Mapping, MappingNext
<1>10. QED  BY <1>5, <1>7, <1>8, <1>9 DEF Calls!Exit

\* waitpid blocks the caller.
LEMMA WaitpidCall ==
    ASSUME IInv, NEW pid \in WaitArgs, Waitpid(pid)
    PROVE  Calls!Wait(me + 1, pid)
<1>1. /\ Running /\ UserProgram /\ Parks("waitpid", "WAITING_ON_PID")
      /\ STATUS' = [STATUS EXCEPT ![me] = "WAITING_ON_PID"]
      /\ UNCHANGED <<procVars, waiting_pid_exit_status>>
      /\ UNCHANGED exit_status
      /\ pid_waiting_for' = [pid_waiting_for EXCEPT ![me] = pid]
      /\ switch_task("waitpid")
    BY DEF Waitpid, Parks, exitVars
<1>2. \A s \in Slot : pid_waiting_for'[s] = IF s = me THEN pid
                                            ELSE pid_waiting_for[s]
    BY <1>1 DEF IInv, TypeOK
<1>3. /\ STATUS'[me] = "WAITING_ON_PID"
      /\ \A s \in Slot : ParentAt(s)' = ParentAt(s)
      /\ \A s \in Slot \ {me} : LifeAt(s)' = LifeAt(s) /\ WaitAt(s)' = WaitAt(s)
      /\ \A s \in Slot : ResultAt(s)' = IF s = me THEN << >> ELSE ResultAt(s)
    BY <1>1, <1>2, ParkedCaller
<1>4. \A s \in Slot : /\ LifeAt(s)' = LifeAt(s)
                      /\ WaitAt(s)' = IF s = me THEN pid ELSE WaitAt(s)
    BY <1>1, <1>2, <1>3, CallerRuns DEF LifeAt, WaitAt
<1>5. Calls!Runs(me + 1) /\ me + 1 \in Calls!Pids  BY <1>1, CallerRuns
<1>6. \A p \in Calls!Pids : p - 1 \in Slot /\ (p - 1 = me <=> p = me + 1)
    BY <1>1, PidSlot, CallerRuns
<1>7. UNCHANGED <<lifeOf, parentPid, exitCode>>
    BY <1>1, <1>3, <1>4, <1>6, Mapping, MappingNext
<1>8. /\ waitArg' = [waitArg EXCEPT ![me + 1] = pid]
      /\ waitResult' = [waitResult EXCEPT ![me + 1] = << >>]
    BY <1>3, <1>4, <1>5, <1>6, Mapping, MappingNext
<1>9. QED  BY <1>5, <1>7, <1>8 DEF Calls!Wait

-----------------------------------------------------------------------------
(* fork.                                                                   *)

\* The child gets the least pid that has not been given out.
LEMMA ForkCall ==
    ASSUME IInv, Fork
    PROVE  Calls!Fork(me + 1)
<1> DEFINE c == get_next_free_task
<1>1. Running /\ TypeOK /\ PidDiscipline  BY DEF Fork, IInv
<1>2. /\ me \in Slot /\ me + 1 \in Calls!Pids /\ Calls!Runs(me + 1)
      /\ STATUS[me] = "READY" /\ frame[me] = "none" /\ id[me] = me + 1
    BY <1>1, CallerRuns
<1>3. c \in FreeSlots /\ \A t \in FreeSlots : c <= t
    BY SlotMin DEF FreeSlots, Fork, get_next_free_task
<1>4. /\ STATUS' = [STATUS EXCEPT ![c] = "READY"]
      /\ id' = [id EXCEPT ![c] = next_pid]
      /\ parent' = [parent EXCEPT ![c] = me]
      /\ frame' = [frame EXCEPT ![c] = "fork"]
      /\ ret' = [ret EXCEPT ![me] = next_pid, ![c] = 0]
      /\ status' = [status EXCEPT ![me] = NoRet, ![c] = NoRet]
      /\ UNCHANGED <<pid_waiting_for, waiting_pid_exit_status, exit_status>>
    BY DEF Fork, waitVars, exitVars
<1> HIDE DEF c
<1>5. c \in Slot /\ STATUS[c] = "FREE" /\ c # me
    BY <1>2, <1>3 DEF FreeSlots
<1>6. /\ \A s \in Slot : s # c => STATUS'[s] = STATUS[s] /\ id'[s] = id[s]
                                  /\ parent'[s] = parent[s] /\ frame'[s] = frame[s]
      /\ \A s \in Slot : s \notin {c, me} => ret'[s] = ret[s]
                                             /\ status'[s] = status[s]
      /\ STATUS'[c] = "READY" /\ parent'[c] = me /\ frame'[c] = "fork"
      /\ status'[c] = NoRet /\ status'[me] = NoRet
    BY <1>1, <1>2, <1>4, <1>5 DEF TypeOK
<1>7. \A s \in Slot : parent[s] # NULL => parent[s] \in Slot /\ parent[s] # c
    <2> SUFFICES ASSUME NEW s \in Slot, parent[s] # NULL
                 PROVE  parent[s] \in Slot /\ STATUS[parent[s]] # "FREE"
        BY <1>5
    <2>1. parent[s] \in Slot /\ next_pid \in Int
        <3>1. /\ parent \in [Slot -> Slot \cup {NULL}]
              /\ next_pid \in 2 .. (MAX_TASKS + 1)
            BY <1>1 DEF TypeOK
        <3>2. QED  BY <3>1, MaxTasksAssumption
    <2>2. STATUS[s] # "FREE" /\ parent[s] < s  BY <1>1 DEF PidDiscipline
    <2>3. ~ (s + 1 >= next_pid)  BY <1>1, <2>2 DEF PidDiscipline
    <2>4. ~ (parent[s] + 1 >= next_pid)
        BY <2>1, <2>2, <2>3, MaxTasksAssumption DEF Slot
    <2>5. QED  BY <1>1, <2>1, <2>4 DEF PidDiscipline
<1>8. \A s \in Slot : /\ LifeAt(s)' = IF s = c THEN "alive" ELSE LifeAt(s)
                      /\ WaitAt(s)' = WaitAt(s)
    BY <1>4, <1>5, <1>6 DEF LifeAt, WaitAt
<1>9. \A s \in Slot : ParentAt(s)' = IF s = c THEN me + 1 ELSE ParentAt(s)
    <2>1. ASSUME NEW s \in Slot, s = c
          PROVE  ParentAt(s)' = me + 1
        <3>1. parent'[s] = me /\ me # NULL /\ id'[me] = me + 1
            BY <1>2, <1>5, <1>6, <2>1, MaxTasksAssumption DEF Slot
        <3>2. QED  BY <3>1 DEF ParentAt
    <2>2. ASSUME NEW s \in Slot, s # c
          PROVE  ParentAt(s)' = ParentAt(s)
        <3>1. parent'[s] = parent[s]  BY <1>6, <2>2
        <3>2. parent[s] # NULL => id'[parent[s]] = id[parent[s]]
            BY <1>6, <1>7
        <3>3. QED  BY <3>1, <3>2 DEF ParentAt
    <2>3. QED  BY <2>1, <2>2
<1>10. \A s \in Slot : ResultAt(s)' = IF s \in {c, me} THEN << >> ELSE ResultAt(s)
    <2>1. ASSUME NEW s \in Slot, s \notin {c, me}
          PROVE  ResultAt(s)' = ResultAt(s)
        <3>1. /\ STATUS'[s] = STATUS[s] /\ frame'[s] = frame[s]
              /\ ret'[s] = ret[s] /\ status'[s] = status[s]
            BY <1>6, <2>1
        <3>2. /\ pid_waiting_for' = pid_waiting_for
              /\ waiting_pid_exit_status' = waiting_pid_exit_status
            BY <1>4
        <3>3. QED  BY <3>1, <3>2, Zenon DEF ResultAt
    <2>2. ASSUME NEW s \in Slot, s \in {c, me}
          PROVE  ResultAt(s)' = << >>
        BY <1>2, <1>5, <1>6, <2>2 DEF ResultAt
    <2>3. QED  BY <2>1, <2>2
<1>11. c \in Int /\ c + 1 \in Calls!Pids /\ me \in Int
    BY <1>2, <1>5, PidSlot
<1>12. \A p \in Calls!Pids : /\ p - 1 \in Slot
                             /\ p - 1 = me <=> p = me + 1
                             /\ p - 1 = c <=> p = c + 1
    BY <1>11, PidSlot
<1>13. Calls!NewPids # {} /\ Calls!Min(Calls!NewPids) = c + 1
    <2>1. Calls!NewPids = {p \in Calls!Pids : p - 1 \in FreeSlots}
        BY <1>12, Mapping DEF Calls!NewPids, LifeAt, FreeSlots
    <2>2. c + 1 \in Calls!NewPids  BY <1>3, <1>11, <2>1
    <2>3. \A p \in Calls!NewPids : p \in Int /\ c + 1 <= p
        BY <1>3, <1>11, <2>1, PidSlot
    <2>4. \A x \in Calls!NewPids :
            (\A y \in Calls!NewPids : x <= y) => x = c + 1
        BY <1>11, <2>2, <2>3
    <2>5. QED  BY <2>2, <2>3, <2>4 DEF Calls!Min
<1>14. UNCHANGED <<exitCode, waitArg>>
    BY <1>4, <1>8, <1>12, Mapping, MappingNext
<1>15. lifeOf' = [lifeOf EXCEPT ![c + 1] = "alive"]
    BY <1>8, <1>11, <1>12, Mapping, MappingNext
<1>16. parentPid' = [parentPid EXCEPT ![c + 1] = me + 1]
    BY <1>9, <1>11, <1>12, Mapping, MappingNext
<1>17. waitResult' = [waitResult EXCEPT ![me + 1] = << >>, ![c + 1] = << >>]
    BY <1>2, <1>10, <1>11, <1>12, Mapping, MappingNext
<1>18. QED
    BY <1>2, <1>13, <1>14, <1>15, <1>16, <1>17 DEF Calls!Fork

-----------------------------------------------------------------------------
(* The timer interrupt.                                                    *)

\* What the waits a tick ends may return.
LEMMA WokenTarget ==
    ASSUME IInv, NEW s \in Slot, Woken(s)
    PROVE  LET z == WaitTarget(s) IN
           /\ z \in Slot /\ STATUS[z] = "ZOMBIE" /\ id[z] = z + 1
           /\ \/ pid_waiting_for[s] = z + 1
              \/ pid_waiting_for[s] = AnyChild /\ ParentAt(z) = s + 1
<1> DEFINE z == WaitTarget(s)
<1>1. TypeOK /\ PidDiscipline  BY DEF IInv
<1>2. z \in Slot /\ STATUS[z] = "ZOMBIE" /\ STATUS[s] = "WAITING_ON_PID"
    BY <1>1, WaitTargetType DEF Woken
<1>3. id[z] = z + 1 /\ id[s] = s + 1
    BY <1>1, <1>2 DEF PidDiscipline
<1>4. \/ pid_waiting_for[s] = id[z]
      \/ pid_waiting_for[s] = AnyChild /\ parent[z] # NULL /\ id[parent[z]] = id[s]
    BY <1>1, <1>2, WaitTargetType DEF Woken
<1>5. QED  BY <1>2, <1>3, <1>4 DEF ParentAt

\* At a tick some waits return, each with the pid and the exit code of a
\* process it may return, and the others stay as they are.
LEMMA TickReturns ==
    ASSUME IInv, Tick
    PROVE  \E W \in SUBSET Calls!Waiters :
                \E target \in [W -> Calls!Pids] : Calls!Return(target)
<1> DEFINE W == {p \in Calls!Pids : Woken(p - 1)}
           target == [p \in W |-> WaitTarget(p - 1) + 1]
<1>1. /\ Running /\ TypeOK /\ IdleLoop /\ update_waiting_and_sleeping_tasks
      /\ UNCHANGED <<id, exit_status>> /\ switch_task("tick")
    BY DEF Tick, IInv, exitVars
<1>2. \A s \in Slot :
        /\ STATUS'[s] = IF WakesFromSleep(s) \/ Woken(s) THEN "READY"
                        ELSE STATUS[s]
        /\ pid_waiting_for'[s] = IF Woken(s) THEN id[WaitTarget(s)]
                                 ELSE pid_waiting_for[s]
        /\ waiting_pid_exit_status'[s] =
                IF Woken(s) THEN exit_status[WaitTarget(s)]
                ELSE waiting_pid_exit_status[s]
        /\ parent'[s] = IF \E i \in Slot : Woken(i) /\ WaitTarget(i) = s
                        THEN NULL ELSE parent[s]
    BY <1>1 DEF update_waiting_and_sleeping_tasks
<1>3. \A s \in Slot : /\ Woken(s) => STATUS[s] = "WAITING_ON_PID"
                      /\ WakesFromSleep(s) => STATUS[s] = "SLEEPING"
    BY DEF Woken, WakesFromSleep
<1>4. Schedulable(STATUS') # {}
    <2>1. STATUS' \in [Slot -> States]  BY TickStep DEF IInv, TypeOK
    <2>2. \A s \in Slot : STATUS[s] = "READY" => STATUS'[s] = "READY"
        BY <1>2
    <2>3. QED  BY <1>1, <2>1, <2>2, IdleSchedulable
<1>5. "tick" \in Frames \ {"none", "fork"}  BY DEF Frames
<1>6. \A s \in Slot : Woken(s) =>
        ResultAt(s)' = <<WaitTarget(s) + 1, exit_status[WaitTarget(s)]>>
    <2> SUFFICES ASSUME NEW s \in Slot, Woken(s)
                 PROVE  ResultAt(s)' =
                            <<WaitTarget(s) + 1, exit_status[WaitTarget(s)]>>
        OBVIOUS
    <2> DEFINE z == WaitTarget(s)
    <2>1. z \in Slot /\ id[z] = z + 1  BY WokenTarget
    <2> HIDE DEF z
    <2>2. /\ STATUS'[s] = "READY"
          /\ pid_waiting_for'[s] = z + 1
          /\ waiting_pid_exit_status'[s] = exit_status[z]
        BY <1>2, <2>1 DEF z
    <2>3. STATUS[s] = "WAITING_ON_PID" /\ frame[s] = "waitpid"
        BY <1>3 DEF IInv, SavedContext, ContextOf
    <2>4. s # me  BY <1>1, <2>3, CallerRuns
    <2>5. exit_status[z] # NoRet
        <3>1. exit_status[z] \in ExitCodes \cup {0}
            BY <1>1, <2>1 DEF TypeOK
        <3>2. QED  BY <3>1, ExitCodesAssumption
    <2>6. frame'[s] = IF s = current_task' THEN "none" ELSE "waitpid"
        BY <1>1, <1>4, <1>5, <2>3, <2>4, SwitchEffect DEF me
    <2>7. s = current_task' => ret'[s] = z + 1 /\ status'[s] = exit_status[z]
        BY <1>1, <1>4, <1>5, <2>2, <2>3, <2>4, SwitchDelivers
    <2>8. ResultAt(s)' = <<z + 1, exit_status[z]>>
        BY <2>2, <2>5, <2>6, <2>7 DEF ResultAt
    <2>9. QED  BY <2>8 DEF z
<1>7. \A s \in Slot : ~ Woken(s) => ResultAt(s)' = ResultAt(s)
    <2> SUFFICES ASSUME NEW s \in Slot, ~ Woken(s)
                 PROVE  ResultAt(s)' = ResultAt(s)
        OBVIOUS
    <2>1. frame[s] = "waitpid" /\ STATUS'[s] = "READY" => STATUS[s] = "READY"
        BY <1>2, <1>3 DEF IInv, SavedContext, ContextOf
    <2>2. STATUS[s] = "READY" => STATUS'[s] = "READY"  BY <1>2
    <2>3. QED  BY <1>1, <1>2, <1>4, <1>5, <2>1, <2>2, SwitchKeepsResult
<1>8. \A s \in Slot : /\ LifeAt(s)' = LifeAt(s)
                      /\ WaitAt(s)' = IF Woken(s) THEN -3 ELSE WaitAt(s)
    BY <1>2, <1>3 DEF LifeAt, WaitAt
<1>9. \A s \in Slot : ParentAt(s)' =
        IF \E i \in Slot : Woken(i) /\ WaitTarget(i) = s THEN 0 ELSE ParentAt(s)
    BY <1>1, <1>2 DEF ParentAt
<1>10. \A p \in Calls!Pids : p \in Int /\ p - 1 \in Slot  BY PidSlot
<1>11. \A p \in W : /\ p \in Calls!Pids /\ p - 1 \in Slot /\ Woken(p - 1)
                    /\ target[p] = WaitTarget(p - 1) + 1
                    /\ WaitTarget(p - 1) \in Slot
                    /\ target[p] \in Calls!Pids /\ target[p] - 1 = WaitTarget(p - 1)
    BY <1>10, WokenTarget, PidSlot
<1>12. DOMAIN target = W /\ target \in [W -> Calls!Pids]  BY <1>11
<1>13. \A p \in W : Calls!MayReturn(p, target[p])
    <2> SUFFICES ASSUME NEW p \in W PROVE Calls!MayReturn(p, target[p])
        OBVIOUS
    <2> DEFINE s == p - 1
               z == WaitTarget(s)
    <2>1. /\ s \in Slot /\ Woken(s) /\ p \in Calls!Pids /\ p \in Int
          /\ target[p] = z + 1 /\ z + 1 \in Calls!Pids /\ (z + 1) - 1 = z
        BY <1>10, <1>11
    <2>2. /\ STATUS[z] = "ZOMBIE"
          /\ pid_waiting_for[s] = z + 1
             \/ (pid_waiting_for[s] = AnyChild /\ ParentAt(z) = s + 1)
          /\ STATUS[s] = "WAITING_ON_PID"
        BY <2>1, WokenTarget, <1>3
    <2>3. waitArg[p] = WaitAt(s) /\ lifeOf[z + 1] = LifeAt(z)
          /\ parentPid[z + 1] = ParentAt(z)
        BY <2>1, Mapping
    <2>4. pid_waiting_for[s] \in Pid \cup {-1}
        BY <1>1, <2>1 DEF TypeOK
    <2>5. WaitAt(s) = pid_waiting_for[s] /\ pid_waiting_for[s] # -3
        BY <2>2, <2>4, MaxTasksAssumption DEF WaitAt, Pid
    <2>6. LifeAt(z) = "ended" /\ s + 1 = p  BY <2>1, <2>2 DEF LifeAt
    <2> HIDE DEF z, s
    <2>7. QED  BY <2>1, <2>2, <2>3, <2>5, <2>6 DEF Calls!MayReturn
<1>14. W \in SUBSET Calls!Waiters
    BY <1>13 DEF Calls!MayReturn, Calls!Waiters
<1>15. waitResult' = [p \in Calls!Pids |->
                        IF p \in W THEN <<target[p], exitCode[target[p]]>>
                        ELSE waitResult[p]]
    <2>1. \A p \in W : exitCode[target[p]] = exit_status[WaitTarget(p - 1)]
        BY <1>11, Mapping
    <2>2. \A p \in Calls!Pids : ResultAt(p - 1)' =
            IF p \in W THEN <<target[p], exitCode[target[p]]>>
            ELSE ResultAt(p - 1)
        BY <1>6, <1>7, <1>10, <1>11, <2>1
    <2>3. QED  BY <2>2, Mapping, MappingNext
<1>16. waitArg' = [p \in Calls!Pids |-> IF p \in W THEN -3 ELSE waitArg[p]]
    BY <1>8, <1>10, Mapping, MappingNext
<1>17. parentPid' = [t \in Calls!Pids |->
                        IF \E p \in W : target[p] = t THEN 0 ELSE parentPid[t]]
    <2>1. \A t \in Calls!Pids :
            (\E i \in Slot : Woken(i) /\ WaitTarget(i) = t - 1)
                <=> \E p \in W : target[p] = t
        <3> SUFFICES ASSUME NEW t \in Calls!Pids
                     PROVE  (\E i \in Slot : Woken(i) /\ WaitTarget(i) = t - 1)
                                <=> \E p \in W : target[p] = t
            OBVIOUS
        <3>1. ASSUME NEW i \in Slot, Woken(i), WaitTarget(i) = t - 1
              PROVE  \E p \in W : target[p] = t
            <4>1. i + 1 \in Calls!Pids /\ (i + 1) - 1 = i  BY PidSlot
            <4>2. i + 1 \in W  BY <3>1, <4>1
            <4>3. target[i + 1] = t  BY <1>10, <3>1, <4>1, <4>2
            <4>4. QED  BY <4>2, <4>3
        <3>2. ASSUME NEW p \in W, target[p] = t
              PROVE  \E i \in Slot : Woken(i) /\ WaitTarget(i) = t - 1
            BY <1>11, <3>2
        <3>3. QED  BY <3>1, <3>2
    <2>2. QED  BY <1>9, <1>10, <2>1, Mapping, MappingNext
<1>18. UNCHANGED <<lifeOf, exitCode>>
    BY <1>1, <1>8, <1>10, Mapping, MappingNext
<1>19. Calls!Return(target)
    BY <1>12, <1>13, <1>15, <1>16, <1>17, <1>18 DEF Calls!Return
<1>20. QED  BY <1>12, <1>14, <1>19

-----------------------------------------------------------------------------
(* The refinement.                                                         *)

\* The kernel starts with the one process Processes starts with.
LEMMA InitCalls == Init => Calls!Init
<1> SUFFICES ASSUME Init PROVE Calls!Init  OBVIOUS
<1>1. \A p \in Calls!Pids : p \in Int /\ p - 1 \in Slot /\ (p - 1 = 0 <=> p = 1)
    BY PidSlot
<1>2. \A s \in Slot : /\ LifeAt(s) = IF s = 0 THEN "alive" ELSE "none"
                      /\ ParentAt(s) = 0 /\ exit_status[s] = 0
                      /\ WaitAt(s) = -3 /\ ResultAt(s) = << >>
    BY DEF Init, LifeAt, ParentAt, WaitAt, ResultAt
<1>3. QED  BY <1>1, <1>2, Mapping DEF Calls!Init

\* Every step of the kernel is a step of Processes or leaves its variables
\* alone.
LEMMA StepCalls == IInv /\ [Next]_vars => [Calls!Next]_(Calls!vars)
<1> SUFFICES ASSUME IInv, [Next]_vars
             PROVE  Calls!Next \/ UNCHANGED Calls!vars
    OBVIOUS
<1>1. ASSUME UNCHANGED <<STATUS, id, parent, exit_status, frame, ret, status,
                         pid_waiting_for, waiting_pid_exit_status>>
      PROVE  UNCHANGED Calls!vars
    <2>1. \A s \in Slot : /\ LifeAt(s)' = LifeAt(s) /\ ParentAt(s)' = ParentAt(s)
                          /\ WaitAt(s)' = WaitAt(s) /\ ResultAt(s)' = ResultAt(s)
        BY <1>1 DEF LifeAt, ParentAt, WaitAt, ResultAt
    <2>2. QED  BY <1>1, <2>1, PidSlot, Mapping, MappingNext DEF Calls!vars
<1>2. CASE Fork
    BY <1>2, ForkCall, CallerRuns DEF Calls!Next, Fork
<1>3. CASE ForkNoSlot \/ Trap \/ Spin \/ UNCHANGED vars
    BY <1>1, <1>3 DEF ForkNoSlot, Trap, Spin, vars, userVars, waitVars,
                      procVars, exitVars, schedVars
<1>4. ASSUME NEW name \in Programs, Execvpe(name) \/ ExecvpeNotFound
      PROVE  Calls!Next
    BY <1>4, ExecvpeCall, CallerRuns DEF Calls!Next, Execvpe, ExecvpeNotFound
<1>5. ASSUME NEW code \in ExitCodes, Exit(code)
      PROVE  Calls!Next
    BY <1>5, ExitCall, CallerRuns DEF Calls!Next, Exit
<1>6. ASSUME NEW pid \in WaitArgs, Waitpid(pid)
      PROVE  Calls!Next
    <2>1. pid \in Calls!Pids \cup {0, -1}
        BY WaitArgsAssumption, MaxTasksAssumption DEF Calls!Pids
    <2>2. QED  BY <1>6, <2>1, WaitpidCall, CallerRuns DEF Calls!Next, Waitpid
<1>7. ASSUME NEW time \in SleepTimes, Sleep(time)
      PROVE  Calls!Next
    BY <1>7, SleepCall, CallerRuns DEF Calls!Next, Sleep
<1>8. CASE Tick
    BY <1>8, TickReturns DEF Calls!Next
<1>9. "init" \in Programs  BY DEF Programs, BootPrograms
<1>10. QED
    BY <1>2, <1>3, <1>4, <1>5, <1>6, <1>7, <1>8, <1>9 DEF Next

\* The task table, the scheduler and the timer implement the process calls:
\* fork, exit, wait and waitpid do for programs what module Processes says,
\* for every number of slots and every order of calls and ticks (kfork.c,
\* kexit.c, kwaitpid.c and scheduler.c).
THEOREM TasksImplementProcesses == Spec => ImplementsProcesses
<1>1. Init => Calls!Init  BY InitCalls
<1>2. IInv /\ [Next]_vars => [Calls!Next]_(Calls!vars)  BY StepCalls
<1>3. QED
    BY <1>1, <1>2, Invariance, PTL DEF Spec, ImplementsProcesses, Calls!Spec
=============================================================================
