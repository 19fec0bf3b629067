------------------------------ MODULE MCTasks ------------------------------
(* Instances of Tasks for TLC.                                             *)
EXTENDS TaskRefinement

\* The shell stands for every program that makes system calls.
MCCommands == {"/bin/dsh"}

\* Also a program started as "bin/idle", the name the scheduler passes over.
MCCommandsIdle == {"/bin/dsh", "bin/idle"}

\* wait(), the shell, and the two tasks it can fork.
MCWaitArgs == {AnyChild, 1, 3, 4}

\* The two tasks the shell can fork.
MCWaitForked == {3, 4}

\* wait() only.
MCAnyChild == {AnyChild}
=============================================================================
