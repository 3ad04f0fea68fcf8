------------------------- MODULE MCProcessScheduler -------------------------
EXTENDS ProcessScheduler

CONSTANTS idle, p1, p2, p3, s1, s2, cs1

MCProcesses  == {idle, p1, p2, p3}
MCSemaphores == {s1, s2}
MCSections   == {cs1}

\* Two processes share the middle priority, one is above them.
MCPriority == [p \in MCProcesses |->
                 IF p = idle THEN 1 ELSE IF p = p3 THEN 4 ELSE 2]

\* The timer has a semaphore of its own, and the events without one show what
\* happens to their flags.
MCEventSemaphore == [e \in Events |-> IF e = "timer" THEN s2 ELSE NoSemaphore]
=============================================================================
