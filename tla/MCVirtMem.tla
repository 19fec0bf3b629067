----------------------------- MODULE MCVirtMem -----------------------------
(* Instances of VirtMem for TLC: pages of 4 bytes, 1 MB is page 3, kernel  *)
(* and mem_map lie in pages 5 to 8.                                        *)
EXTENDS VirtMem

\* A machine with memory for several tasks.
Roomy == <<[base |-> 0, limit |-> 7], [base |-> 16, limit |-> 240]>>

\* Machines on which the kernel runs out of pages while it boots or soon
\* after.  Every memory map of two regions, the second above the first, with
\* limits on and off page boundaries; the second region may hold the kernel,
\* start in the middle of it or lie above it.
Small ==
    {<<[base |-> 0, limit |-> l1], [base |-> b2, limit |-> l2]>> :
        l1 \in {7, 8, 13}, b2 \in {13, 16, 22, 24, 35}, l2 \in {40, 46, 48}}
    \cup
    {<<[base |-> 16, limit |-> l]>> : l \in {41, 44}}

MCSmaps == Small \cup {Roomy}
HeapSmaps == {Roomy}
=============================================================================
